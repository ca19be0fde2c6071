------------------------------- MODULE Commands -------------------------------
(***************************************************************************)
(* The commands that delete or rename things: `tp session delete`, `prune` *)
(* and `cleanup`, `tp pair delete` and `rename` (tp-cli commands/session.rs*)
(* and pair.rs), against the daemon's handlers.  A command lists the rows  *)
(* from the daemon's database, which it opens read-only, asks the user,    *)
(* and then sends one request per connection; the daemon decides on what   *)
(* it finds when the request arrives, perhaps long after the listing.      *)
(* Every request waits 30 s for its answer, and the handler of a request   *)
(* that timed out goes on.                                                 *)
(*                                                                         *)
(* Ids, labels and what the user types are sequences, so that one may be a *)
(* prefix or a part of another.                                            *)
(***************************************************************************)
EXTENDS Integers, FiniteSets, Completions

CONSTANTS
    Cmds, Sids, Dids,
    Typed,        \* what a user may type to name a session or a pairing
    Labels,       \* what a user may name a pairing
    FirstRows,    \* states the session rows may be in at the start
    FirstOld,     \* sessions that are old at the start
    FirstLabels,  \* labels of the pairings at the start
    Mixes,        \* pairs of commands that may run together, the first first
    Prunes,       \* the flags of `prune`: [all, running, dry, yes]
    DaemonPiece,  \* `daemon-`
    MaxTries,     \* MAX_ATTEMPTS at the RUNNING challenge
    MaxEvents     \* bound on what happens to the commands: timeouts, restarts
                  \* of the daemon, and changes to the sessions by others

ASSUME CommandsAssumption ==
    /\ Cmds \subseteq Nat /\ MaxTries \in Nat \ {0} /\ MaxEvents \in Nat
    /\ IsFiniteSet(Sids) /\ IsFiniteSet(Dids)
    /\ FirstRows \subseteq [Sids -> {"none", "stopped", "running"}]
    /\ Prunes \subseteq [all : BOOLEAN, running : BOOLEAN, dry : BOOLEAN, yes : BOOLEAN]

NoLabel == << >>
NoRow == <<"no row">>

VARIABLES
    cmd,    \* cmd[c]: the command that runs as process c
    jobs,   \* jobs[c]: the daemon's handlers of c's requests, oldest first
    daemon, \* "down", "starting" (serves, start-up cleanup to come) or "up"
    row,    \* row[s]: "none", "stopped" or "running"
    born,   \* born[s]: stands for the row's created_at
    db,     \* sessions whose database file is on disk
    live,   \* sessions with a runner the session manager knows
    old,    \* sessions last touched before the cutoff of --older-than
    pairs,  \* pairs[d]: the label of pairing d's row, NoLabel, or NoRow
    peer,   \* peer[d]: the label the daemon's last notice gave to the apps
    rc,     \* the shell's start-up file
    own,    \* history: what the user has written into it, its last line ended
            \* by an install that found it open
    events

storeVars == <<row, born, db, live, old>>
pairVars == <<pairs, peer>>
rcVars == <<rc, own>>
commandsVars == <<cmd, jobs, daemon, storeVars, pairVars, rcVars, events>>

Idle == [pc |-> "idle", op |-> "none", yes |-> FALSE, want |-> << >>,
         all |-> FALSE, running |-> FALSE, dry |-> FALSE, shown |-> << >>, sel |-> {}, cursor |-> 1,
         tries |-> 0, todo |-> << >>, done |-> {}, ok |-> TRUE]

\* scope is history: the sessions that a prune's flags meant when the daemon looked.
Job(req) == [req |-> req, st |-> "sent", seen |-> << >>, scope |-> {}, deleted |-> {}, ok |-> TRUE]

CommandsInit ==
    /\ cmd = [c \in Cmds |-> Idle] /\ jobs = [c \in Cmds |-> << >>] /\ daemon = "up"
    /\ row \in FirstRows
    /\ born = [s \in Sids |-> 0] /\ db = Sids
    /\ live = {s \in Sids : row[s] = "running"}
    /\ old = FirstOld
    /\ pairs = FirstLabels /\ peer = pairs
    /\ rc = << >> /\ own = << >> /\ events = 0

-----------------------------------------------------------------------------
(* Naming a row.                                                            *)

Listed == {s \in Sids : row[s] # "none"}
Paired == {d \in Dids : pairs[d] # NoRow}

\* MatchResult: the rows of the first way that names any.
FirstOf(ways) ==
    LET i == SelectInSeq(ways, LAMBDA W : W # {}) IN IF i = 0 THEN {} ELSE ways[i]

\* match_sessions: a sid in full, else a prefix of one.
MatchSessions(rows, f) ==
    FirstOf(<<rows \cap {f}, {s \in rows : IsPrefix(f, s)}>>)

\* match_pairings: an id, a label, the start of an id, an id without its
\* `daemon-`, a part of a label.
MatchPairings(rows, f) ==
    FirstOf(<<rows \cap {f},
              {d \in rows : pairs[d] # NoLabel /\ pairs[d] = f},
              {d \in rows : IsPrefix(f, d)},
              rows \cap {<<DaemonPiece>> \o f},
              {d \in rows : pairs[d] # NoLabel /\ f \in SubSeqs(pairs[d])}>>)

-----------------------------------------------------------------------------
(* The command line.                                                        *)

Quit(c, ok) == cmd' = [cmd EXCEPT ![c] = [Idle EXCEPT !.pc = "end", !.ok = ok]]

\* Processes are alike: they are numbered in the order in which they start.
Start(c, me) ==
    /\ cmd[c].pc = "idle" /\ \A d \in Cmds : d < c => cmd[d].pc # "idle"
    /\ \A d \in Cmds \ {c} : cmd[d].op # "none" => <<cmd[d].op, me.op>> \in Mixes
    /\ cmd' = [cmd EXCEPT ![c] = me]

\* session::delete up to its prompt: refused unless exactly one row matches.
SessionDelete(c, want, yes) ==
    \E found \in {MatchSessions(Listed, want)} :
        IF Cardinality(found) # 1
        THEN Start(c, [Idle EXCEPT !.op = "delete", !.pc = "end", !.ok = FALSE])
        ELSE \E s \in found :
             Start(c, [Idle EXCEPT !.op = "delete", !.want = want, !.shown = SetToSeq(Listed),
                                   !.pc = IF yes THEN "check" ELSE "ask",
                                   !.todo = <<[t |-> "session.delete", sid |-> s]>>])

\* pair::delete and pair::rename; a rename asks nothing, and neither checks
\* for the daemon before it sends.
PairDelete(c, want, yes) ==
    \E found \in {MatchPairings(Paired, want)} :
        IF Cardinality(found) # 1
        THEN Start(c, [Idle EXCEPT !.op = "pairDelete", !.pc = "end", !.ok = FALSE])
        ELSE \E d \in found :
             Start(c, [Idle EXCEPT !.op = "pairDelete", !.want = want, !.shown = SetToSeq(Paired),
                                   !.pc = IF yes THEN "send" ELSE "ask",
                                   !.todo = <<[t |-> "pair.remove", did |-> d]>>])

PairRename(c, want, label) ==
    \E found \in {MatchPairings(Paired, want)} :
        IF Cardinality(found) # 1
        THEN Start(c, [Idle EXCEPT !.op = "pairRename", !.pc = "end", !.ok = FALSE])
        ELSE \E d \in found :
             Start(c, [Idle EXCEPT !.op = "pairRename", !.want = want, !.shown = SetToSeq(Paired),
                                   !.pc = "send",
                                   !.todo = <<[t |-> "pair.rename", did |-> d, label |-> label]>>])

\* session::prune: the listing is the daemon's; a dry run asks nothing.
SessionPrune(c, all, running, dry, yes) ==
    Start(c, [Idle EXCEPT !.op = "prune", !.all = all, !.running = running, !.dry = dry,
                          !.pc = IF dry \/ yes THEN "check" ELSE "ask",
                          !.todo = <<[t |-> "session.prune", all |-> all, running |-> running, dry |-> dry]>>])

\* session::cleanup: the stopped sessions, last touched first.
Stopped == {s \in Sids : row[s] = "stopped"}
StoppedSorted ==
    {rows \in SetToSeqs(Stopped) :
        \A i, j \in DOMAIN rows : i < j /\ rows[i] \in old => rows[j] \in old}

SessionCleanup(c, yes, preselect) ==
    \E rows \in StoppedSorted :
        IF rows = << >>
        THEN Start(c, [Idle EXCEPT !.op = "cleanup", !.pc = "end"])
        ELSE Start(c, [Idle EXCEPT !.op = "cleanup", !.pc = "tui", !.yes = yes, !.shown = rows,
                                   !.sel = IF preselect THEN DOMAIN rows ELSE {}])

\* atomic_write: a temporary file is written, synced and renamed over the file.
AtomicWrite(file) == rc' = file

\* `tp completions install` and `uninstall`, under the file's lock.
EditCompletions(c, edit) ==
    /\ Start(c, [Idle EXCEPT !.op = "completions", !.pc = "end"])
    /\ AtomicWrite(RunCompletions(rc, edit))
    /\ own' = IF edit = "force" \/ (edit = "install" /\ ~ContainsMarker(rc)) THEN EndLastLine(own) ELSE own

\* move_up, move_down, toggle_current and toggle_all.
Keys(me) ==
    {[me EXCEPT !.cursor = IF @ > 1 THEN @ - 1 ELSE @],
     [me EXCEPT !.cursor = IF @ < Len(me.shown) THEN @ + 1 ELSE @],
     [me EXCEPT !.sel = IF me.cursor \in @ THEN @ \ {me.cursor} ELSE @ \cup {me.cursor}],
     [me EXCEPT !.sel = IF @ = DOMAIN me.shown THEN {} ELSE DOMAIN me.shown]}

Key(c) ==
    /\ cmd[c].pc = "tui"
    /\ \E me \in Keys(cmd[c]) : cmd' = [cmd EXCEPT ![c] = me]

\* The members of a set of positions, from the top of the screen to its bottom.
Rising(S) == {o \in SetToSeqs(S) : \A i, j \in DOMAIN o : i < j => o[i] < o[j]}

\* Mutant: the selection is looked up in a fresh listing.
SelectedNow(me) ==
    UNION {{[k \in DOMAIN o |-> now[o[k]]] : o \in Rising(me.sel \cap DOMAIN now)} : now \in StoppedSorted}

\* selected_sids: the rows behind the ticked boxes, in the order shown.
SelectedSids(me) == {[k \in DOMAIN o |-> me.shown[o[k]]] : o \in Rising(me.sel)}

Enter(c) ==
    /\ cmd[c].pc = "tui"
    /\ \E sids \in SelectedSids(cmd[c]) :
        IF sids = << >> THEN Quit(c, TRUE)
        ELSE cmd' = [cmd EXCEPT ![c] =
                [cmd[c] EXCEPT !.pc = IF cmd[c].yes THEN "check" ELSE "ask", !.yes = FALSE, !.cursor = 1,
                               !.todo = [i \in DOMAIN sids |-> [t |-> "session.delete", sid |-> sids[i]]]]]

Esc(c) == cmd[c].pc = "tui" /\ Quit(c, FALSE)

\* The [y/N] prompt; anything but yes, the end of the input or the lack of a
\* terminal ends the command.  `pair delete` then sends at once.
AnswerYes(c) ==
    /\ cmd[c].pc = "ask"
    /\ cmd' = [cmd EXCEPT ![c].pc = IF cmd[c].op = "prune" /\ cmd[c].running THEN "challenge"
                                    ELSE IF cmd[c].op = "pairDelete" THEN "send" ELSE "check"]

AnswerNo(c) == cmd[c].pc \in {"ask", "challenge"} /\ Quit(c, TRUE)

\* `Type 'RUNNING' to confirm`.
TypeRunning(c) == cmd[c].pc = "challenge" /\ cmd' = [cmd EXCEPT ![c].pc = "check", ![c].tries = 0]

TypeOther(c) ==
    /\ cmd[c].pc = "challenge"
    /\ IF cmd[c].tries + 1 = MaxTries THEN Quit(c, TRUE) ELSE cmd' = [cmd EXCEPT ![c].tries = @ + 1]

\* is_daemon_running.
CheckDaemon(c) ==
    /\ cmd[c].pc = "check"
    /\ IF daemon # "down" THEN cmd' = [cmd EXCEPT ![c].pc = "send"] ELSE Quit(c, FALSE)

\* The command goes on to its next request, or ends, with what it learnt.
Next1(c, deleted, ok) ==
    cmd' = [cmd EXCEPT ![c] = [cmd[c] EXCEPT !.todo = Tail(@), !.done = @ \cup deleted, !.ok = @ /\ ok,
                                             !.pc = IF Len(cmd[c].todo) = 1 THEN "end" ELSE "send"]]

\* request: a connection of its own for every request.
Request(c) ==
    /\ cmd[c].pc = "send"
    /\ IF daemon # "down"
       THEN /\ jobs' = [jobs EXCEPT ![c] = Append(@, Job(Head(cmd[c].todo)))]
            /\ cmd' = [cmd EXCEPT ![c].pc = "wait"]
       ELSE Next1(c, {}, FALSE) /\ UNCHANGED jobs

\* What each command makes of its answer, or of a connection that closed: only
\* a failed prune comes with the sessions it had deleted by then.
Received(c, op) == cmd[c].op = op /\ cmd[c].pc = "wait" /\ Last(jobs[c]).st \in {"answered", "closed"}
Deleted1(job) == IF job.ok THEN {job.req.sid} ELSE {}

DeleteAnswered(c) == Received(c, "delete") /\ Next1(c, Deleted1(Last(jobs[c])), Last(jobs[c]).ok)
CleanupAnswered(c) == Received(c, "cleanup") /\ Next1(c, Deleted1(Last(jobs[c])), Last(jobs[c]).ok)
PruneAnswered(c) == Received(c, "prune") /\ Next1(c, Last(jobs[c]).deleted, Last(jobs[c]).ok)
PairDeleteAnswered(c) == Received(c, "pairDelete") /\ Next1(c, {}, Last(jobs[c]).ok)
PairRenameAnswered(c) == Received(c, "pairRename") /\ Next1(c, {}, Last(jobs[c]).ok)

\* The read timeout; the daemon knows nothing of it.
TimesOut(c) ==
    /\ cmd[c].pc = "wait" /\ Last(jobs[c]).st # "answered"
    /\ Next1(c, {}, FALSE)

-----------------------------------------------------------------------------
(* The daemon's handlers.                                                   *)

At(c, i, t, st) == i \in DOMAIN jobs[c] /\ jobs[c][i].req.t = t /\ jobs[c][i].st = st
Put(c, i, job) == jobs' = [jobs EXCEPT ![c][i] = job]
Answer(c, i, ok) == Put(c, i, [jobs[c][i] EXCEPT !.st = "answered", !.ok = ok])

Candidate(s) == [sid |-> s, running |-> row[s] = "running"]

\* handle_session_delete: what it read of the row before it kills and deletes.
HandleSessionDelete(c, i) ==
    /\ At(c, i, "session.delete", "sent")
    /\ \E s \in {jobs[c][i].req.sid} :
        IF row[s] = "none" THEN Answer(c, i, FALSE)
        ELSE Put(c, i, [jobs[c][i] EXCEPT !.st = "erase", !.seen = <<Candidate(s)>>])

Candidates(req) ==
    {s \in Listed : (row[s] = "running" => req.running) /\ (req.all \/ s \in old)}

\* What the flags of a prune and its question name (format_prune_question): the
\* stopped sessions, or the running ones too, all of them or the old ones; a dry
\* run means none.
InScope(me) ==
    LET states == IF me.dry THEN {} ELSE IF me.running THEN {"stopped", "running"} ELSE {"stopped"}
    IN  {s \in Sids : row[s] \in states /\ (s \notin old => me.all)}

\* handle_session_prune: the candidates, found under one hold of the lock.
HandleSessionPrune(c, i) ==
    /\ At(c, i, "session.prune", "sent")
    /\ IF jobs[c][i].req.dry THEN Answer(c, i, TRUE)
       ELSE \E sids \in {SetToSeq(Candidates(jobs[c][i].req))} :
            Put(c, i, [jobs[c][i] EXCEPT !.st = "erase", !.scope = InScope(cmd[c]),
                                         !.seen = [k \in DOMAIN sids |-> Candidate(sids[k])]])

\* unlink_retry: the file goes, or it stays with an error, or it stays busy
\* and is given up in silence.
UnlinkRetry(s) ==
    {[db |-> FALSE, ok |-> TRUE]} \cup {[db |-> s \in db, ok |-> ok] : ok \in BOOLEAN}

\* delete_session: the row, if the statement succeeds, then the file.
Erasures(s) ==
    {[row |-> row[s], db |-> s \in db, ok |-> FALSE]}
        \cup {[row |-> "none", db |-> file.db, ok |-> file.ok] : file \in UnlinkRetry(s)}

\* Mutant: a failed deletion is reported like any other.
ReportAnyway(job, s, ok) ==
    [job EXCEPT !.seen = Tail(@), !.deleted = @ \cup {s}]

\* A failure ends the handler, with the sessions deleted so far.
Reported(job, s, ok) ==
    IF ok THEN [job EXCEPT !.seen = Tail(@), !.deleted = @ \cup {s}]
    ELSE [job EXCEPT !.st = "answered", !.ok = FALSE, !.seen = << >>]

\* One candidate: its runner is killed if it ran when it was read.
EraseNext(c, i) ==
    /\ i \in DOMAIN jobs[c] /\ jobs[c][i].st = "erase" /\ jobs[c][i].seen # << >>
    /\ \E next \in {Head(jobs[c][i].seen)} : \E e \in Erasures(next.sid) :
        /\ live' = IF next.running THEN live \ {next.sid} ELSE live
        /\ row' = [row EXCEPT ![next.sid] = e.row]
        /\ db' = IF e.db THEN db ELSE db \ {next.sid}
        /\ Put(c, i, Reported(jobs[c][i], next.sid, e.ok))
    /\ UNCHANGED <<born, old>>

EraseDone(c, i) ==
    /\ i \in DOMAIN jobs[c] /\ jobs[c][i].st = "erase" /\ jobs[c][i].seen = << >>
    /\ Answer(c, i, TRUE)

\* guard_pairing_exists, before the task that removes or renames is spawned.
GuardPairing(c, i) ==
    /\ At(c, i, "pair.remove", "sent") \/ At(c, i, "pair.rename", "sent")
    /\ IF pairs[jobs[c][i].req.did] = NoRow THEN Answer(c, i, FALSE)
       ELSE Put(c, i, [jobs[c][i] EXCEPT !.st = "apply"])

\* The statements may fail, and their results are not looked at; an update
\* finds no row to change if the pairing is gone.
StoreDeletePairing(d) == \E gone \in {NoRow, pairs[d]} : pairs' = [pairs EXCEPT ![d] = gone]

UpdatePairingLabel(d, label) ==
    \E l \in {pairs[d], label} : pairs' = [pairs EXCEPT ![d] = IF @ = NoRow THEN @ ELSE l]

HandlePairRemove(c, i) ==
    /\ At(c, i, "pair.remove", "apply")
    /\ StoreDeletePairing(jobs[c][i].req.did)
    /\ Answer(c, i, TRUE)
    /\ UNCHANGED peer

HandlePairRename(c, i) ==
    /\ At(c, i, "pair.rename", "apply")
    /\ UpdatePairingLabel(jobs[c][i].req.did, jobs[c][i].req.label)
    /\ Put(c, i, [jobs[c][i] EXCEPT !.st = "notify"])
    /\ UNCHANGED peer

\* send_rename_notice: skipped unless the client is authenticated and has keys
\* for the app.
SendRenameNotice(d, label) == \E l \in {peer[d], label} : peer' = [peer EXCEPT ![d] = l]

\* rename_pairing goes on with a notice to every app, if the client is there.
RenameNotifies(c, i) ==
    /\ At(c, i, "pair.rename", "notify")
    /\ SendRenameNotice(jobs[c][i].req.did, jobs[c][i].req.label)
    /\ Answer(c, i, TRUE)
    /\ UNCHANGED pairs

-----------------------------------------------------------------------------
(* What else happens to the rows.                                           *)

\* The app restarts a stopped session.
AppRestarts(s) ==
    /\ daemon # "down" /\ row[s] = "stopped"
    /\ row' = [row EXCEPT ![s] = "running"] /\ live' = live \cup {s} /\ old' = old \ {s}
    /\ UNCHANGED <<born, db>>

\* A runner's hello, perhaps one that was sent before the row was deleted;
\* the row comes first, and opening the database may fail.
HelloCreates(s) ==
    /\ daemon # "down" /\ row[s] = "none"
    /\ row' = [row EXCEPT ![s] = "running"] /\ born' = [born EXCEPT ![s] = @ + 1]
    /\ old' = old \ {s}
    /\ \/ db' = db \cup {s} /\ live' = live \cup {s}
       \/ UNCHANGED <<db, live>>

RunnerExits(s) ==
    /\ daemon # "down" /\ s \in live
    /\ live' = live \ {s} /\ row' = [row EXCEPT ![s] = IF @ = "running" THEN "stopped" ELSE @]
    /\ UNCHANGED <<born, db, old>>

\* prune_old_sessions under the lock; the first failure ends it.
PruneOldSessions ==
    \E gone \in SUBSET {s \in Sids : row[s] = "stopped" /\ s \in old} : \E kept \in SUBSET gone :
        /\ row' = [s \in Sids |-> IF s \in gone THEN "none" ELSE row[s]]
        /\ db' = db \ (gone \ kept)
        /\ UNCHANGED <<born, live, old>>

RunStartupCleanup == daemon = "starting" /\ daemon' = "up" /\ PruneOldSessions

RunPeriodicPrune == daemon = "up" /\ UNCHANGED daemon /\ PruneOldSessions

\* The daemon stops or dies; its clients read the end of their connections.
DaemonStops ==
    /\ daemon # "down" /\ daemon' = "down" /\ live' = {}
    /\ jobs' = [c \in Cmds |-> [i \in DOMAIN jobs[c] |->
                    IF jobs[c][i].st = "answered" THEN jobs[c][i]
                    ELSE [Job(jobs[c][i].req) EXCEPT !.st = "closed", !.ok = FALSE]]]

\* Daemon::start: what ran before is stopped.
DaemonStarts ==
    /\ daemon = "down" /\ daemon' = "starting"
    /\ row' = [s \in Sids |-> IF row[s] = "running" THEN "stopped" ELSE row[s]]
    /\ old' = {s \in old : row[s] # "running"}
    /\ UNCHANGED <<born, db, live>>

-----------------------------------------------------------------------------
Typing(c) ==
    \/ \E want \in Typed, yes \in BOOLEAN : SessionDelete(c, want, yes)
    \/ \E want \in Typed, yes \in BOOLEAN : PairDelete(c, want, yes)
    \/ \E want \in Typed, label \in Labels \cup {NoLabel} : PairRename(c, want, label)
    \/ \E p \in Prunes : SessionPrune(c, p.all, p.running, p.dry, p.yes)
    \/ \E yes, preselect \in BOOLEAN : SessionCleanup(c, yes, preselect)
    \/ Key(c) \/ Enter(c) \/ Esc(c)
    \/ AnswerYes(c) \/ AnswerNo(c) \/ TypeRunning(c) \/ TypeOther(c)
    \/ CheckDaemon(c)

User(c) ==
    /\ \/ Typing(c) /\ UNCHANGED rcVars
       \/ \E edit \in {"install", "force", "uninstall"} : EditCompletions(c, edit)
    /\ UNCHANGED <<jobs, daemon, storeVars, pairVars, events>>

Cli(c) ==
    /\ \/ Request(c)
       \/ DeleteAnswered(c) /\ UNCHANGED jobs
       \/ CleanupAnswered(c) /\ UNCHANGED jobs
       \/ PruneAnswered(c) /\ UNCHANGED jobs
       \/ PairDeleteAnswered(c) /\ UNCHANGED jobs
       \/ PairRenameAnswered(c) /\ UNCHANGED jobs
    /\ UNCHANGED <<daemon, storeVars, pairVars, rcVars, events>>

Handler(c, i) ==
    /\ \/ HandleSessionDelete(c, i) /\ UNCHANGED <<storeVars, pairVars>>
       \/ HandleSessionPrune(c, i) /\ UNCHANGED <<storeVars, pairVars>>
       \/ EraseNext(c, i) /\ UNCHANGED pairVars
       \/ EraseDone(c, i) /\ UNCHANGED <<storeVars, pairVars>>
       \/ GuardPairing(c, i) /\ UNCHANGED <<storeVars, pairVars>>
       \/ HandlePairRemove(c, i) /\ UNCHANGED storeVars
       \/ HandlePairRename(c, i) /\ UNCHANGED storeVars
       \/ RenameNotifies(c, i) /\ UNCHANGED storeVars
    /\ UNCHANGED <<cmd, daemon, rcVars, events>>

Event ==
    /\ events < MaxEvents /\ events' = events + 1
    /\ \/ \E c \in Cmds : TimesOut(c) /\ UNCHANGED <<jobs, daemon, storeVars>>
       \/ \E s \in Sids : AppRestarts(s) /\ UNCHANGED <<cmd, jobs, daemon>>
       \/ \E s \in Sids : HelloCreates(s) /\ UNCHANGED <<cmd, jobs, daemon>>
       \/ \E s \in Sids : RunnerExits(s) /\ UNCHANGED <<cmd, jobs, daemon>>
       \/ RunPeriodicPrune /\ UNCHANGED <<cmd, jobs>>
       \/ DaemonStops /\ UNCHANGED <<cmd, row, born, db, old>>
    /\ UNCHANGED <<pairVars, rcVars>>

\* The user adds to the end of the start-up file, a whole line or an open one.
UserWrites ==
    /\ events < MaxEvents /\ events' = events + 1
    /\ \E text \in {<<"mine">>, <<"mine", "nl">>} : rc' = rc \o text /\ own' = own \o text
    /\ UNCHANGED <<cmd, jobs, daemon, storeVars, pairVars>>

Starting ==
    /\ DaemonStarts \/ RunStartupCleanup
    /\ UNCHANGED <<cmd, jobs, pairVars, rcVars, events>>

CommandsNext ==
    \/ \E c \in Cmds : User(c) \/ Cli(c)
    \/ \E c \in Cmds : \E i \in DOMAIN jobs[c] : Handler(c, i)
    \/ Event
    \/ UserWrites
    \/ Starting

CommandsSpec == CommandsInit /\ [][CommandsNext]_commandsVars

-----------------------------------------------------------------------------
\* Nobody is told that a session was deleted which has been there ever since:
\* neither by a command's report nor by an answer on its way to it, the
\* partial one of a failed prune included (handle_session_delete,
\* handle_session_prune).
ReportedIsGone ==
    \A c \in Cmds : \A s \in cmd[c].done \cup UNION {jobs[c][i].deleted : i \in DOMAIN jobs[c]} :
        row[s] = "none" \/ born[s] > 0

\* The sessions of the listing that what was typed names, if it names one.
Named(me) ==
    LET rows == ToSet(me.shown)
        near == {s \in rows : IsPrefix(me.want, s)}
    IN  IF me.want \in rows THEN {me.want} ELSE IF Cardinality(near) = 1 THEN near ELSE {}

\* The sessions whose loss the user of a command has agreed to: the one named, those
\* ticked, and those that the flags of a prune meant when the daemon looked.
Agreed(c) ==
    IF cmd[c].pc \in {"idle", "tui", "ask", "challenge"} THEN {}
    ELSE CASE cmd[c].op = "delete" -> Named(cmd[c])
           [] cmd[c].op = "cleanup" -> {cmd[c].shown[k] : k \in cmd[c].sel}
           [] cmd[c].op = "prune" -> UNION {jobs[c][i].scope : i \in DOMAIN jobs[c]}
           [] OTHER -> {}

\* The step is one of a handler of c.
Handles(c) == jobs'[c] # jobs[c]

\* A session is lost only to the handler of a command whose user had by then
\* named it, ticked it, or confirmed a prune whose flags meant it when the daemon
\* looked, or, without any command, to the daemon's own pruning of old stopped
\* sessions; and a handler kills no runner of a session its user did not agree
\* to, nor one for a prune that was not confirmed for running sessions.  Other
\* commands, the app and the runners go on between the listing, the prompts, the
\* daemon's look and the deletion; what has become of an agreed session since
\* then is not asked again.
ConfirmedOnly ==
    [][\A s \in Sids :
        /\ row[s] # "none" /\ row'[s] = "none" =>
            \/ row[s] = "stopped" /\ s \in old /\ UNCHANGED jobs
            \/ \E c \in Cmds : Handles(c) /\ s \in Agreed(c)
        /\ \A c \in Cmds : Handles(c) /\ s \in live \ live' /\ daemon' # "down" =>
            s \in Agreed(c) /\ (cmd[c].op = "prune" => cmd[c].running)]_commandsVars

\* Whatever was installed, forced and removed, in whatever order with the
\* user's own edits, the start-up file holds at most one block, and without it
\* what the user wrote, up to the newline by which an install ends a last line
\* that it finds open, which no uninstall takes back (install_rc_line,
\* uninstall_completion).
RcKept ==
    /\ \A i, j \in DOMAIN rc : rc[i] = "start" /\ rc[j] = "start" => i = j
    /\ UninstallRc(rc) = own
=============================================================================
