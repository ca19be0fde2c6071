------------------------------ MODULE Sessions -------------------------------
(***************************************************************************)
(* The daemon's sessions: the rows and record logs of its store, the map   *)
(* of runners in the session manager, the runner processes and their       *)
(* connections, and the commands of apps and of the command line           *)
(* (rust/tp-daemon: ipc/command_dispatcher.rs, ipc/server.rs,              *)
(* session/manager.rs, store/store.rs, daemon.rs).                         *)
(*                                                                         *)
(* The daemon's runtime has several threads.  Each connection is read by a *)
(* task of its own, each app command runs in a task of its own, and each   *)
(* spawned process has a monitor.  Store and runner map have a lock each,  *)
(* taken anew for every call: an action is one such critical section.      *)
(* Runners send what RunnerLife allows.                                    *)
(***************************************************************************)
EXTENDS Naturals, Sequences, SequencesExt, FiniteSets

CONSTANTS
    Sids, Pids, Clients,
    Worktrees,
    None,
    Chunks          \* bound: records per runner

ASSUME SessionsAssumption ==
    /\ None \notin Pids \cup Sids \cup Worktrees
    /\ Chunks \in Nat

VARIABLES
    row,            \* a session's row: "none", "running", or "ended" (stopped or
                    \* error, which no decision tells apart)
    lastSeq,        \* the row's last_seq
    log,            \* the number of records in the session's database
    runners,        \* the runner map: the pid and the process handle, or NoRunner
    proc,           \* a process: its session, whether it runs, whether we spawned it
    sent,           \* frames a living runner has written to its connection
    unread,         \* those its connection task has not read yet
    handler,        \* where the connection task is in a handler
    monitor,        \* the exit monitor of a spawned process
    op,             \* the command a client's task is running
    home,           \* the worktree a session runs in, or None: given at the start
    worktrees,      \* worktrees that exist
    excused         \* history: sessions that could not be respawned, or whose runner
                    \* was unregistered by the bye of an older one

storeVars == <<row, lastSeq, log>>
procVars == <<proc, sent, unread, handler, monitor>>
vars == <<storeVars, runners, procVars, op, home, worktrees, excused>>

Life == INSTANCE RunnerLife WITH wire <- << >>, over <- FALSE

NoRunner == [pid |-> None, process |-> None]
Idle == [cmd |-> "idle", sid |-> None, at |-> "", process |-> None]
Free == [st |-> "free", sid |-> None, spawned |-> FALSE, told |-> FALSE]

Alive(p) == proc[p].st = "alive"
SidOf(p) == proc[p].sid

\* An id made for a new session (from the time of day): nothing has it yet.
NewSid(s) == row[s] = "none" /\ \A p \in Pids : SidOf(p) # s

Init ==
    /\ row = [s \in Sids |-> "none"]
    /\ lastSeq = [s \in Sids |-> 0]
    /\ log = [s \in Sids |-> 0]
    /\ runners = [s \in Sids |-> NoRunner]
    /\ proc = [p \in Pids |-> Free]
    /\ sent = [p \in Pids |-> << >>]
    /\ unread = [p \in Pids |-> << >>]
    /\ handler = [p \in Pids |-> "idle"]
    /\ monitor = [p \in Pids |-> "off"]
    /\ op = [c \in Clients |-> Idle]
    /\ home \in [Sids -> Worktrees \cup {None}]
    /\ worktrees = {}
    /\ excused = {}

-----------------------------------------------------------------------------
(* Session manager.                                                        *)

\* spawn_runner: the process, its entry in the map and its monitor.
SpawnRunner(p, s) ==
    /\ proc[p] = Free
    /\ home[s] # None => home[s] \in worktrees      \* the directory it starts in
    /\ proc' = [proc EXCEPT ![p] = [st |-> "alive", sid |-> s, spawned |-> TRUE, told |-> FALSE]]
    /\ runners' = [runners EXCEPT ![s] = [pid |-> p, process |-> p]]
    /\ monitor' = [monitor EXCEPT ![p] = "polling"]
    /\ UNCHANGED <<sent, unread, handler>>

\* register_runner keeps the process handle of the entry it replaces.
RegisterRunner(s, p) == runners' = [runners EXCEPT ![s].pid = p]

UnregisterRunner(s) == runners' = [runners EXCEPT ![s] = NoRunner]

\* kill_runner: SIGTERM to the process of the entry, if there is one.
KillRunner(s) ==
    proc' = IF runners[s].process = None THEN proc
            ELSE [proc EXCEPT ![runners[s].process].told = TRUE]

\* wait_for_exit returns when the process it found at the start has ended.
ExitSeen(p) == p # None => ~Alive(p)

\* The generation guard of the exit monitor: an entry with another process stays.
MonitorRemoves(p) == runners[SidOf(p)] # NoRunner /\ runners[SidOf(p)].process \in {p, None}

MonitorReaps(p) ==
    /\ monitor[p] = "polling" /\ proc[p].st = "dead"
    /\ IF MonitorRemoves(p)
       THEN UnregisterRunner(SidOf(p)) /\ monitor' = [monitor EXCEPT ![p] = "notify"]
       ELSE monitor' = [monitor EXCEPT ![p] = "off"] /\ UNCHANGED runners
    /\ UNCHANGED <<storeVars, proc, sent, unread, handler, op, home, worktrees, excused>>

\* Mutant: the end of a process that said no bye is only logged.
LogExit(s) == UNCHANGED row

\* on_runner_exit: a session that is still running has stopped.
OnRunnerExit(s) == row' = [row EXCEPT ![s] = IF @ = "running" THEN "ended" ELSE @]

MonitorNotifies(p) ==
    /\ monitor[p] = "notify"
    /\ monitor' = [monitor EXCEPT ![p] = "off"]
    /\ OnRunnerExit(SidOf(p))
    /\ UNCHANGED <<lastSeq, log, runners, proc, sent, unread, handler, op, home, worktrees, excused>>

-----------------------------------------------------------------------------
(* Store.                                                                  *)

\* create_session: a new row, or an old one set to running with its last_seq kept.
CreateRow(s) == row' = [row EXCEPT ![s] = "running"]

UpdateState(s, st) == row' = [row EXCEPT ![s] = IF @ = "none" THEN @ ELSE st]

\* Mutant: the database outlives the row and the row's last_seq does not go.
DeleteDbOnly(s) == row' = [row EXCEPT ![s] = "none"] /\ log' = [log EXCEPT ![s] = 0] /\ UNCHANGED lastSeq

\* delete_session: the row with its last_seq, and the database.
DeleteSession(s) ==
    /\ row' = [row EXCEPT ![s] = "none"]
    /\ lastSeq' = [lastSeq EXCEPT ![s] = 0]
    /\ log' = [log EXCEPT ![s] = 0]

\* update_last_seq finds no row after a delete.
UpdateLastSeq(s, n) == lastSeq' = [lastSeq EXCEPT ![s] = IF row[s] = "none" THEN @ ELSE n]

\* append to the database, which get_session_db opens or makes for any session.
AppendRecord(s) ==
    /\ log' = [log EXCEPT ![s] = @ + 1]
    /\ UpdateLastSeq(s, log[s] + 1)

\* prune_old_sessions: sessions that are not running, once they are old enough.
PruneOld(s) ==
    /\ row[s] = "ended"
    /\ DeleteSession(s)
    /\ UNCHANGED <<runners, procVars, op, home, worktrees, excused>>

-----------------------------------------------------------------------------
(* Runner processes.                                                       *)

\* A runner started by the command line: the daemon has no handle of it.
StartPassthrough(p, s) ==
    /\ proc[p] = Free /\ home[s] = None /\ NewSid(s)
    /\ proc' = [proc EXCEPT ![p] = [st |-> "alive", sid |-> s, spawned |-> FALSE, told |-> FALSE]]
    /\ UNCHANGED <<storeVars, runners, sent, unread, handler, monitor, op, home, worktrees, excused>>

\* Events count as records; a runner that was told to stop still sends.
RunnerSends(p, f) ==
    /\ Alive(p)
    /\ f \in Life!MayFollow(sent[p]) \ {Life!Event}
    /\ Life!IsIo(f) => f.n - 1 \in {0} \cup Life!ChunksIn(sent[p])
    /\ sent' = [sent EXCEPT ![p] = Append(@, f)]
    /\ unread' = [unread EXCEPT ![p] = Append(@, f)]
    /\ UNCHANGED <<storeVars, runners, proc, handler, monitor, op, home, worktrees, excused>>

\* The end of a process, with or without a bye; what it has sent can still be read.
RunnerDies(p) ==
    /\ Alive(p)
    /\ proc' = [proc EXCEPT ![p].st = "dead", ![p].told = FALSE]
    /\ sent' = [sent EXCEPT ![p] = << >>]
    /\ UNCHANGED <<storeVars, runners, unread, handler, monitor, op, home, worktrees, excused>>

-----------------------------------------------------------------------------
(* The task that reads a runner's connection.                              *)

\* handle_conn: the next frame, once the handler of the last one has returned.
Takes(p, t) ==
    /\ handler[p] = "idle" /\ unread[p] # << >>
    /\ Head(unread[p]).t = t
    /\ unread' = [unread EXCEPT ![p] = Tail(@)]

HandleHello(p) ==
    /\ Takes(p, "hello")
    /\ CreateRow(SidOf(p))
    /\ handler' = [handler EXCEPT ![p] = "registering"]
    /\ UNCHANGED <<lastSeq, log, runners, proc, sent, monitor, op, home, worktrees, excused>>

HelloRegisters(p) ==
    /\ handler[p] = "registering"
    /\ RegisterRunner(SidOf(p), p)
    /\ handler' = [handler EXCEPT ![p] = "idle"]
    /\ UNCHANGED <<storeVars, proc, sent, unread, monitor, op, home, worktrees, excused>>

\* Record, last_seq and the sequence number of the ack under one lock.
HandleRec(p) ==
    /\ Takes(p, "rec")
    /\ AppendRecord(SidOf(p))
    /\ UNCHANGED <<row, runners, proc, sent, handler, monitor, op, home, worktrees, excused>>

\* The pid guard: a bye of another generation than the entry's is ignored.
ByeIsStale(p) == runners[SidOf(p)].pid \notin {None, p}

HandleBye(p) ==
    /\ Takes(p, "bye")
    /\ handler' = [handler EXCEPT ![p] = IF ByeIsStale(p) THEN "idle" ELSE "ending"]
    /\ UNCHANGED <<storeVars, runners, proc, sent, monitor, op, home, worktrees, excused>>

\* "stopped", or "error" for an exit with a code that is no signal's.
ByeUpdates(p) ==
    /\ handler[p] = "ending"
    /\ UpdateState(SidOf(p), "ended")
    /\ handler' = [handler EXCEPT ![p] = "leaving"]
    /\ UNCHANGED <<lastSeq, log, runners, proc, sent, unread, monitor, op, home, worktrees, excused>>

ByeUnregisters(p) ==
    /\ handler[p] = "leaving"
    /\ UnregisterRunner(SidOf(p))
    /\ handler' = [handler EXCEPT ![p] = "idle"]
    /\ excused' = IF ByeIsStale(p) \/ runners[SidOf(p)].process \notin {None, p} THEN excused \cup {SidOf(p)} ELSE excused
    /\ UNCHANGED <<storeVars, proc, sent, unread, monitor, op, home, worktrees>>

-----------------------------------------------------------------------------
(* Commands.                                                               *)

Go(c, cmd, s, at, p) == op' = [op EXCEPT ![c] = [cmd |-> cmd, sid |-> s, at |-> at, process |-> p]]
Done(c) == op' = [op EXCEPT ![c] = Idle]
At(c, cmd, at) == op[c].cmd = cmd /\ op[c].at = at

\* session.create, with a new id or with one that the app names, which may be that of
\* a session there is already; if it cannot spawn, nothing is left.
SessionCreate(c, p, s) ==
    /\ op[c] = Idle
    /\ home[s] = None
    /\ SpawnRunner(p, s)
    /\ UNCHANGED <<storeVars, op, home, worktrees, excused>>

\* session.stop: the runner's own bye, or its monitor, does the rest.
SessionStop(c, s) ==
    /\ op[c] = Idle /\ runners[s].process # None
    /\ KillRunner(s)
    /\ UNCHANGED <<storeVars, runners, sent, unread, handler, monitor, op, home, worktrees, excused>>

\* session.delete, from an app or the command line: the row is read first.
SessionDelete(c, s) ==
    /\ op[c] = Idle
    /\ row[s] # "none"
    /\ Go(c, "delete", s, IF row[s] = "running" THEN "kill" ELSE "rows", None)
    /\ UNCHANGED <<storeVars, runners, procVars, home, worktrees, excused>>

\* session.prune: what the first look found running stays, unless asked for; each
\* candidate goes the way of a delete.
SessionPrune(c, s, includeRunning) ==
    /\ row[s] = "running" => includeRunning
    /\ SessionDelete(c, s)

DeleteKills(c) ==
    /\ At(c, "delete", "kill")
    /\ KillRunner(op[c].sid)
    /\ UnregisterRunner(op[c].sid)
    /\ Go(c, "delete", op[c].sid, "rows", None)
    /\ UNCHANGED <<storeVars, sent, unread, handler, monitor, home, worktrees, excused>>

DeleteRows(c) ==
    /\ At(c, "delete", "rows")
    /\ DeleteSession(op[c].sid)
    /\ Done(c)
    /\ UNCHANGED <<runners, procVars, home, worktrees, excused>>

\* session.restart: refused without a row, and for a runner without a handle.
SessionRestart(c, s) ==
    /\ op[c] = Idle
    /\ row[s] # "none"
    /\ Go(c, "restart", s, "kill", None)
    /\ UNCHANGED <<storeVars, runners, procVars, home, worktrees, excused>>

RestartKills(c) ==
    LET s == op[c].sid IN
    /\ At(c, "restart", "kill")
    /\ IF runners[s] # NoRunner /\ runners[s].process = None
       THEN Done(c) /\ UNCHANGED proc
       ELSE KillRunner(s) /\ Go(c, "restart", s, "find", None)
    /\ UNCHANGED <<storeVars, runners, sent, unread, handler, monitor, home, worktrees, excused>>

\* wait_for_exit looks the process up again.
RestartFinds(c) ==
    /\ At(c, "restart", "find")
    /\ Go(c, "restart", op[c].sid, "wait", runners[op[c].sid].process)
    /\ UNCHANGED <<storeVars, runners, procVars, home, worktrees, excused>>

RestartUnregisters(c) ==
    /\ At(c, "restart", "wait") /\ ExitSeen(op[c].process)
    /\ UnregisterRunner(op[c].sid)
    /\ Go(c, "restart", op[c].sid, "spawn", None)
    /\ UNCHANGED <<storeVars, procVars, home, worktrees, excused>>

RestartSpawns(c, p) ==
    /\ At(c, "restart", "spawn")
    /\ SpawnRunner(p, op[c].sid)
    /\ Done(c)
    /\ UNCHANGED <<storeVars, home, worktrees, excused>>

RestartFails(c) ==
    /\ At(c, "restart", "spawn")
    /\ Done(c)
    /\ excused' = excused \cup {op[c].sid}
    /\ UNCHANGED <<storeVars, runners, procVars, home, worktrees>>

\* git worktree add, once branch and path are found to be acceptable.
AddWorktree(w) == w \notin worktrees /\ worktrees' = worktrees \cup {w}

\* git worktree remove, which may refuse.
RemoveWorktree(w) == worktrees' \in {worktrees, worktrees \ {w}}

\* worktree.create: git adds the worktree, then the session starts in it; if that
\* fails the worktree is removed again.  If its HEAD cannot be read it stays, with no
\* session.
WorktreeCreate(c, s) ==
    /\ op[c] = Idle
    /\ home[s] # None /\ AddWorktree(home[s])
    /\ \/ Go(c, "wtcreate", s, "spawn", None)
       \/ UNCHANGED op
    /\ UNCHANGED <<storeVars, runners, procVars, home, excused>>

WorktreeSpawns(c, p) ==
    /\ At(c, "wtcreate", "spawn")
    /\ SpawnRunner(p, op[c].sid)
    /\ Done(c)
    /\ UNCHANGED <<storeVars, home, worktrees, excused>>

WorktreeRollsBack(c) ==
    /\ At(c, "wtcreate", "spawn")
    /\ RemoveWorktree(home[op[c].sid])
    /\ Done(c)
    /\ UNCHANGED <<storeVars, runners, procVars, home, excused>>

\* The live runner map is the truth source: a row may be behind.
Blocked(s) == runners[s] # NoRunner

\* worktree.remove: a session in it blocks it; with force, one that can be killed
\* is.  The blockers are read from the runner map, once.
WorktreeRemove(c, s, force) ==
    /\ op[c] = Idle
    /\ home[s] \in worktrees
    /\ Blocked(s) => force /\ runners[s].process # None
    /\ Go(c, "wtremove", s, IF Blocked(s) THEN "kill" ELSE "remove", None)
    /\ UNCHANGED <<storeVars, runners, procVars, home, worktrees, excused>>

RemoveKills(c) ==
    /\ At(c, "wtremove", "kill")
    /\ KillRunner(op[c].sid)
    /\ Go(c, "wtremove", op[c].sid, "find", None)
    /\ UNCHANGED <<storeVars, runners, sent, unread, handler, monitor, home, worktrees, excused>>

RemoveFinds(c) ==
    /\ At(c, "wtremove", "find")
    /\ Go(c, "wtremove", op[c].sid, "wait", runners[op[c].sid].process)
    /\ UNCHANGED <<storeVars, runners, procVars, home, worktrees, excused>>

RemoveUnregisters(c) ==
    /\ At(c, "wtremove", "wait") /\ ExitSeen(op[c].process)
    /\ UnregisterRunner(op[c].sid)
    /\ Go(c, "wtremove", op[c].sid, "stopped", None)
    /\ UNCHANGED <<storeVars, procVars, home, worktrees, excused>>

RemoveStops(c) ==
    /\ At(c, "wtremove", "stopped")
    /\ UpdateState(op[c].sid, "ended")
    /\ Go(c, "wtremove", op[c].sid, "remove", None)
    /\ UNCHANGED <<lastSeq, log, runners, procVars, home, worktrees, excused>>

RemoveRemoves(c) ==
    /\ At(c, "wtremove", "remove")
    /\ RemoveWorktree(home[op[c].sid])
    /\ Done(c)
    /\ UNCHANGED <<storeVars, runners, procVars, home, excused>>

-----------------------------------------------------------------------------

\* The daemon dies, connections, map, monitors and tasks with it; the next one
\* marks the rows it finds running as stopped before it listens.  A runner does not
\* connect again: to the next daemon it is as good as dead.
DaemonRestarts ==
    /\ row' = [s \in Sids |-> IF row[s] = "running" THEN "ended" ELSE row[s]]
    /\ runners' = [s \in Sids |-> NoRunner]
    /\ proc' = [p \in Pids |-> IF proc[p] = Free THEN Free ELSE [proc[p] EXCEPT !.st = "dead", !.told = FALSE]]
    /\ unread' = [p \in Pids |-> << >>]
    /\ sent' = [p \in Pids |-> << >>]
    /\ handler' = [p \in Pids |-> "idle"]
    /\ monitor' = [p \in Pids |-> "off"]
    /\ op' = [c \in Clients |-> Idle]
    /\ UNCHANGED <<lastSeq, log, home, worktrees, excused>>

ConnectionTask(p) ==
    \/ HandleHello(p) \/ HelloRegisters(p) \/ HandleRec(p)
    \/ HandleBye(p) \/ ByeUpdates(p) \/ ByeUnregisters(p)

MonitorTask(p) == MonitorReaps(p) \/ MonitorNotifies(p)

CommandGoesOn(c) ==
    \/ DeleteKills(c) \/ DeleteRows(c)
    \/ RestartKills(c) \/ RestartFinds(c) \/ RestartUnregisters(c) \/ RestartFails(c)
    \/ \E p \in Pids : RestartSpawns(c, p) \/ WorktreeSpawns(c, p)
    \/ WorktreeRollsBack(c)
    \/ RemoveKills(c) \/ RemoveFinds(c) \/ RemoveUnregisters(c) \/ RemoveStops(c)
    \/ RemoveRemoves(c)

SessionCommand(c, s) ==
    \/ \E p \in Pids : SessionCreate(c, p, s)
    \/ SessionStop(c, s) \/ SessionDelete(c, s) \/ SessionRestart(c, s)
    \/ \E yes \in BOOLEAN : SessionPrune(c, s, yes)

WorktreeCommand(c, s) ==
    \/ WorktreeCreate(c, s)
    \/ \E force \in BOOLEAN : WorktreeRemove(c, s, force)

RunnerActs(p) ==
    \/ \E s \in Sids : StartPassthrough(p, s)
    \/ \E f \in {Life!Hello, Life!Bye("exit")} \cup {Life!Io(n) : n \in 1 .. Chunks} : RunnerSends(p, f)
    \/ RunnerDies(p)

Next ==
    \/ \E p \in Pids : ConnectionTask(p) \/ MonitorTask(p) \/ RunnerActs(p)
    \/ \E c \in Clients : CommandGoesOn(c) \/ \E s \in Sids : SessionCommand(c, s) \/ WorktreeCommand(c, s)
    \/ \E s \in Sids : PruneOld(s)
    \/ DaemonRestarts

Spec == Init /\ [][Next]_vars

-----------------------------------------------------------------------------
(* Properties.                                                             *)

SessionsTypeOK ==
    /\ row \in [Sids -> {"none", "running", "ended"}]
    /\ lastSeq \in [Sids -> Nat]
    /\ runners \in [Sids -> [pid : Pids, process : Pids \cup {None}] \cup {NoRunner}]
    /\ handler \in [Pids -> {"idle", "registering", "ending", "leaving"}]
    /\ monitor \in [Pids -> {"off", "polling", "notify"}]
    /\ worktrees \subseteq Worktrees

\* The row's last_seq is a record of the log: apps resume from it.  Late records
\* of a deleted session, a restart and a delete in between must not leave a number
\* that the log does not have.
LastSeqInLog == \A s \in Sids : lastSeq[s] <= log[s]

\* Nothing of the daemon is under way for session s.
Quiet(s) ==
    /\ \A p \in Pids : SidOf(p) = s => monitor[p] # "notify" /\ handler[p] = "idle"
    /\ \A c \in Clients : op[c].sid # s

\* When nothing is under way, a running row has a runner in the map, which delete,
\* restart and worktree.remove go by: whatever order hello, bye, exit monitor and
\* commands came in, nobody has unregistered a runner and left the row running.
RunningHasRunner ==
    \A s \in Sids : Quiet(s) /\ row[s] = "running" /\ s \notin excused => runners[s] # NoRunner
=============================================================================
