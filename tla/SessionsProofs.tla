---------------------------- MODULE SessionsProofs ---------------------------
(***************************************************************************)
(* The daemon's sessions for any number of sessions, processes and         *)
(* clients, and the keys under which apps follow them, for any number of   *)
(* apps and keys.                                                          *)
(***************************************************************************)
EXTENDS Sessions, KeyExchange, TLAPS

RowStates == {"none", "running", "ended"}
Entries == [pid : Pids \cup {None}, process : Pids \cup {None}]
ProcStates == [st : {"free", "alive", "dead"}, sid : Sids \cup {None},
               spawned : BOOLEAN, told : BOOLEAN]
Frames == {Life!Hello, Life!Bye("exit")} \cup {Life!Io(n) : n \in 1 .. Chunks}
Ops == [cmd : {"delete", "restart", "wtcreate", "wtremove"}, sid : Sids,
        at : {"kill", "rows", "find", "wait", "spawn", "stopped", "remove"},
        process : Pids \cup {None}]

TypeInv ==
    /\ row \in [Sids -> RowStates]
    /\ lastSeq \in [Sids -> Nat] /\ log \in [Sids -> Nat]
    /\ runners \in [Sids -> Entries]
    /\ proc \in [Pids -> ProcStates]
    /\ unread \in [Pids -> Seq(Frames)]
    /\ handler \in [Pids -> {"idle", "registering", "ending", "leaving"}]
    /\ monitor \in [Pids -> {"off", "polling", "notify"}]
    /\ op \in [Clients -> Ops \cup {Idle}]

\* Only a process that was started for a session sends, is read or is watched.
ProcInv ==
    \A p \in Pids : SidOf(p) \notin Sids =>
        ~Alive(p) /\ unread[p] = << >> /\ handler[p] = "idle" /\ monitor[p] = "off"

BaseInv == TypeInv /\ ProcInv

LEMMA BaseInvInit == Init => BaseInv
<1> SUFFICES ASSUME Init PROVE BaseInv
  OBVIOUS
<1>1. TypeInv
  BY DEF Init, TypeInv, RowStates, Entries, ProcStates, NoRunner, Free
<1>2. ProcInv
  BY DEF Init, ProcInv, SidOf, Alive, Free
<1> QED
  BY <1>1, <1>2 DEF BaseInv

\* The store's writes.
LEMMA StoreTyped ==
    ASSUME TypeInv, NEW s,
           \/ UNCHANGED storeVars
           \/ CreateRow(s) /\ UNCHANGED <<lastSeq, log>>
           \/ OnRunnerExit(s) /\ UNCHANGED <<lastSeq, log>>
           \/ UpdateState(s, "ended") /\ UNCHANGED <<lastSeq, log>>
           \/ DeleteSession(s)
           \/ AppendRecord(s) /\ UNCHANGED row
    PROVE  row' \in [Sids -> RowStates] /\ lastSeq' \in [Sids -> Nat] /\ log' \in [Sids -> Nat]
<1>1. row' \in [Sids -> RowStates]
  BY DEF TypeInv, RowStates, storeVars, CreateRow, OnRunnerExit, UpdateState, DeleteSession
<1>2. log' \in [Sids -> Nat]
  BY DEF TypeInv, storeVars, DeleteSession, AppendRecord
<1>3. lastSeq' \in [Sids -> Nat]
  <2>1. CASE AppendRecord(s)
    <3>1. CASE s \in Sids
      <4>1. log[s] + 1 \in Nat
        BY <3>1 DEF TypeInv
      <4> QED
        BY <2>1, <3>1, <4>1 DEF TypeInv, AppendRecord, UpdateLastSeq
    <3>2. CASE s \notin Sids
      BY <2>1, <3>2 DEF TypeInv, AppendRecord, UpdateLastSeq
    <3> QED
      BY <3>1, <3>2
  <2>2. CASE DeleteSession(s) \/ lastSeq' = lastSeq
    BY <2>2 DEF TypeInv, DeleteSession
  <2> QED
    BY <2>1, <2>2 DEF storeVars
<1> QED
  BY <1>1, <1>2, <1>3

\* What a process is told, and its end, leave it in its session.
LEMMA ProcGoes ==
    ASSUME TypeInv, NEW p \in Pids,
           \/ proc' = [proc EXCEPT ![p].told = TRUE]
           \/ proc' = [proc EXCEPT ![p].st = "dead", ![p].told = FALSE]
    PROVE  /\ proc' \in [Pids -> ProcStates]
           /\ \A q \in Pids : SidOf(q)' = SidOf(q) /\ (Alive(q)' => Alive(q))
<1>1. proc[p] \in ProcStates /\ DOMAIN proc = Pids
  BY DEF TypeInv
<1>2. PICK st \in ProcStates : /\ proc' = [proc EXCEPT ![p] = st] /\ st.sid = proc[p].sid
                               /\ st.st = "alive" => proc[p].st = "alive"
  <2>1. CASE proc' = [proc EXCEPT ![p].told = TRUE]
    <3> DEFINE st == [proc[p] EXCEPT !.told = TRUE]
    <3>1. st \in ProcStates /\ st.sid = proc[p].sid /\ st.st = proc[p].st
      BY <1>1 DEF ProcStates
    <3> QED
      BY <2>1, <3>1
  <2>2. CASE proc' = [proc EXCEPT ![p].st = "dead", ![p].told = FALSE]
    <3> DEFINE mid == [proc[p] EXCEPT !.st = "dead"]
               st == [mid EXCEPT !.told = FALSE]
    <3>1. mid \in ProcStates /\ mid.sid = proc[p].sid /\ mid.st = "dead"
      BY <1>1 DEF ProcStates
    <3>2. st \in ProcStates /\ st.sid = mid.sid /\ st.st = mid.st
      BY <3>1 DEF ProcStates
    <3>3. proc' = [proc EXCEPT ![p] = st]
      BY <1>1, <2>2
    <3> QED
      BY <3>1, <3>2, <3>3
  <2> QED
    BY <2>1, <2>2
<1>3. proc' \in [Pids -> ProcStates]
  BY <1>2 DEF TypeInv
<1>4. \A q \in Pids : SidOf(q)' = SidOf(q) /\ (Alive(q)' => Alive(q))
  BY <1>1, <1>2 DEF SidOf, Alive
<1> QED
  BY <1>3, <1>4

\* The entry of a session in the runner map.
LEMMA UnregisterTyped ==
    ASSUME TypeInv, NEW s, UnregisterRunner(s)
    PROVE  runners' \in [Sids -> Entries]
<1>1. NoRunner \in Entries
  BY DEF NoRunner, Entries
<1> QED
  BY <1>1 DEF TypeInv, UnregisterRunner

LEMMA RunnersTyped ==
    ASSUME TypeInv, NEW s, NEW p \in Pids,
           \/ runners' = runners
           \/ UnregisterRunner(s)
           \/ RegisterRunner(s, p)
           \/ runners' = [runners EXCEPT ![s] = [pid |-> p, process |-> p]]
    PROVE  runners' \in [Sids -> Entries]
<1>1. CASE RegisterRunner(s, p)
  <2>1. CASE s \in Sids
    <3>1. runners[s] \in Entries
      BY <2>1 DEF TypeInv
    <3>2. [runners[s] EXCEPT !.pid = p] \in Entries
      BY <3>1 DEF Entries
    <3>3. runners' = [runners EXCEPT ![s] = [runners[s] EXCEPT !.pid = p]]
      BY <1>1 DEF RegisterRunner
    <3> QED
      BY <3>2, <3>3 DEF TypeInv
  <2>2. CASE s \notin Sids
    BY <1>1, <2>2 DEF TypeInv, RegisterRunner
  <2> QED
    BY <2>1, <2>2
<1>2. CASE UnregisterRunner(s)
  BY <1>2, UnregisterTyped
<1>3. CASE runners' = [runners EXCEPT ![s] = [pid |-> p, process |-> p]]
  <2>1. [pid |-> p, process |-> p] \in Entries
    BY DEF Entries
  <2> QED
    BY <1>3, <2>1 DEF TypeInv
<1> QED
  BY <1>1, <1>2, <1>3 DEF TypeInv

LEMMA ConnectionKeepsBase ==
    ASSUME BaseInv, NEW p \in Pids, ConnectionTask(p)
    PROVE  BaseInv'
<1> USE DEF BaseInv
<1>1. UNCHANGED <<proc, monitor, op>>
  BY DEF ConnectionTask, HandleHello, HelloRegisters, HandleRec, HandleBye, ByeUpdates, ByeUnregisters
<1>2. row' \in [Sids -> RowStates] /\ lastSeq' \in [Sids -> Nat] /\ log' \in [Sids -> Nat]
  BY StoreTyped DEF ConnectionTask, HandleHello, HelloRegisters, HandleRec, HandleBye, ByeUpdates,
                    ByeUnregisters, storeVars
<1>3. runners' \in [Sids -> Entries]
  BY RunnersTyped DEF ConnectionTask, HandleHello, HelloRegisters, HandleRec, HandleBye, ByeUpdates,
                      ByeUnregisters
<1>4. \/ unread' = unread
      \/ unread[p] # << >> /\ unread' = [unread EXCEPT ![p] = Tail(@)]
  BY DEF ConnectionTask, HandleHello, HelloRegisters, HandleRec, HandleBye, ByeUpdates,
         ByeUnregisters, Takes
<1>5. unread' \in [Pids -> Seq(Frames)]
  <2>1. unread[p] \in Seq(Frames) /\ (unread[p] # << >> => Tail(unread[p]) \in Seq(Frames))
    BY DEF TypeInv
  <2> QED
    BY <1>4, <2>1 DEF TypeInv
<1>6. /\ \/ handler' = handler
         \/ \E h \in {"idle", "registering", "ending", "leaving"} : handler' = [handler EXCEPT ![p] = h]
      /\ handler[p] # "idle" \/ unread[p] # << >>
  BY DEF ConnectionTask, HandleHello, HelloRegisters, HandleRec, HandleBye, ByeUpdates,
         ByeUnregisters, Takes
<1>7. TypeInv'
  BY <1>1, <1>2, <1>3, <1>5, <1>6 DEF TypeInv
<1>8. SidOf(p) \in Sids /\ \A q \in Pids \ {p} : unread'[q] = unread[q] /\ handler'[q] = handler[q]
  BY <1>4, <1>6 DEF ProcInv, TypeInv
<1>9. ProcInv'
  BY <1>1, <1>8 DEF ProcInv, SidOf, Alive
<1> QED
  BY <1>7, <1>9

LEMMA MonitorKeepsBase ==
    ASSUME BaseInv, NEW p \in Pids, MonitorTask(p)
    PROVE  BaseInv'
<1> USE DEF BaseInv
<1>1. UNCHANGED <<proc, unread, handler, op>> /\ monitor[p] # "off"
  BY DEF MonitorTask, MonitorReaps, MonitorNotifies
<1>2. row' \in [Sids -> RowStates] /\ lastSeq' \in [Sids -> Nat] /\ log' \in [Sids -> Nat]
  BY StoreTyped DEF MonitorTask, MonitorReaps, MonitorNotifies
<1>3. runners' \in [Sids -> Entries]
  BY RunnersTyped DEF MonitorTask, MonitorReaps, MonitorNotifies
<1>4. \E m \in {"off", "notify"} : monitor' = [monitor EXCEPT ![p] = m]
  BY DEF MonitorTask, MonitorReaps, MonitorNotifies
<1>5. TypeInv'
  BY <1>1, <1>2, <1>3, <1>4 DEF TypeInv
<1>6. SidOf(p) \in Sids
  BY <1>1 DEF ProcInv
<1>7. ProcInv'
  BY <1>1, <1>4, <1>6 DEF ProcInv, SidOf, Alive, TypeInv
<1> QED
  BY <1>5, <1>7

\* A process is started for a session.
LEMMA SpawnTyped ==
    ASSUME TypeInv, NEW p \in Pids, NEW s \in Sids, NEW b \in BOOLEAN, proc[p] = Free,
           proc' = [proc EXCEPT ![p] = [st |-> "alive", sid |-> s, spawned |-> b, told |-> FALSE]]
    PROVE  /\ proc' \in [Pids -> ProcStates]
           /\ SidOf(p) \notin Sids /\ SidOf(p)' = s
           /\ \A q \in Pids \ {p} : proc'[q] = proc[q]
<1>1. [st |-> "alive", sid |-> s, spawned |-> b, told |-> FALSE] \in ProcStates
  BY DEF ProcStates
<1> QED
  BY <1>1, SessionsAssumption DEF TypeInv, SidOf, Free

LEMMA RunnerKeepsBase ==
    ASSUME BaseInv, NEW p \in Pids, RunnerActs(p)
    PROVE  BaseInv'
<1> USE DEF BaseInv
<1>1. ASSUME NEW s \in Sids, StartPassthrough(p, s)
      PROVE  BaseInv'
  <2>1. /\ proc[p] = Free
        /\ proc' = [proc EXCEPT ![p] = [st |-> "alive", sid |-> s, spawned |-> FALSE, told |-> FALSE]]
        /\ UNCHANGED <<row, lastSeq, log, runners, unread, handler, monitor, op>>
    BY <1>1 DEF StartPassthrough, storeVars
  <2>2. /\ proc' \in [Pids -> ProcStates] /\ SidOf(p)' = s
        /\ \A q \in Pids \ {p} : proc'[q] = proc[q]
    BY <2>1, SpawnTyped
  <2>3. TypeInv'
    BY <2>1, <2>2 DEF TypeInv
  <2>4. ProcInv'
    BY <2>1, <2>2 DEF ProcInv, SidOf, Alive
  <2> QED
    BY <2>3, <2>4
<1>2. ASSUME NEW f \in Frames, RunnerSends(p, f)
      PROVE  BaseInv'
  <2>1. /\ Alive(p) /\ unread' = [unread EXCEPT ![p] = Append(@, f)]
        /\ UNCHANGED <<row, lastSeq, log, runners, proc, handler, monitor, op>>
    BY <1>2 DEF RunnerSends, storeVars
  <2>2. unread' \in [Pids -> Seq(Frames)] /\ \A q \in Pids \ {p} : unread'[q] = unread[q]
    BY <2>1 DEF TypeInv
  <2>3. TypeInv'
    BY <2>1, <2>2 DEF TypeInv
  <2>4. SidOf(p) \in Sids
    BY <2>1 DEF ProcInv
  <2>5. ProcInv'
    BY <2>1, <2>2, <2>4 DEF ProcInv, SidOf, Alive
  <2> QED
    BY <2>3, <2>5
<1>3. CASE RunnerDies(p)
  <2>1. /\ proc' = [proc EXCEPT ![p].st = "dead", ![p].told = FALSE]
        /\ UNCHANGED <<row, lastSeq, log, runners, unread, handler, monitor, op>>
    BY <1>3 DEF RunnerDies, storeVars
  <2>2. /\ proc' \in [Pids -> ProcStates]
        /\ \A q \in Pids : SidOf(q)' = SidOf(q) /\ (Alive(q)' => Alive(q))
    BY <2>1, ProcGoes
  <2>3. TypeInv'
    BY <2>1, <2>2 DEF TypeInv
  <2>4. ProcInv'
    BY <2>1, <2>2 DEF ProcInv
  <2> QED
    BY <2>3, <2>4
<1> QED
  BY <1>1, <1>2, <1>3 DEF RunnerActs, Frames

LEMMA KillTyped ==
    ASSUME TypeInv, NEW s \in Sids, KillRunner(s)
    PROVE  /\ proc' \in [Pids -> ProcStates]
           /\ \A q \in Pids : SidOf(q)' = SidOf(q) /\ (Alive(q)' => Alive(q))
<1>1. CASE runners[s].process = None
  BY <1>1 DEF KillRunner, TypeInv, SidOf, Alive
<1>2. CASE runners[s].process # None
  <2>1. runners[s].process \in Pids
    BY <1>2 DEF TypeInv, Entries
  <2> QED
    BY <1>2, <2>1, ProcGoes DEF KillRunner
<1> QED
  BY <1>1, <1>2

\* A command that is under way is about one of the sessions.
LEMMA OpAbout ==
    ASSUME TypeInv, NEW c \in Clients, op[c].cmd # "idle"
    PROVE  op[c].sid \in Sids /\ op[c] \in Ops
<1>1. op[c] \in Ops \cup {Idle}
  BY DEF TypeInv
<1>2. Idle.cmd = "idle"
  BY DEF Idle
<1> QED
  BY <1>1, <1>2 DEF Ops

LEMMA OpTyped ==
    ASSUME TypeInv, NEW c \in Clients, NEW s \in Sids, NEW p \in Pids \cup {None},
           NEW at \in {"kill", "rows", "find", "wait", "spawn", "stopped", "remove"},
           NEW cmd \in {"delete", "restart", "wtcreate", "wtremove"},
           op' = [op EXCEPT ![c] = [cmd |-> cmd, sid |-> s, at |-> at, process |-> p]]
    PROVE  op' \in [Clients -> Ops \cup {Idle}]
<1>1. [cmd |-> cmd, sid |-> s, at |-> at, process |-> p] \in Ops
  BY DEF Ops
<1> QED
  BY <1>1 DEF TypeInv

LEMMA SpawnKeepsBase ==
    ASSUME BaseInv, NEW p \in Pids, NEW s \in Sids, SpawnRunner(p, s),
           UNCHANGED storeVars, op' \in [Clients -> Ops \cup {Idle}]
    PROVE  BaseInv'
<1> USE DEF BaseInv
<1>1. /\ proc[p] = Free
      /\ proc' = [proc EXCEPT ![p] = [st |-> "alive", sid |-> s, spawned |-> TRUE, told |-> FALSE]]
      /\ runners' = [runners EXCEPT ![s] = [pid |-> p, process |-> p]]
      /\ monitor' = [monitor EXCEPT ![p] = "polling"]
      /\ UNCHANGED <<row, lastSeq, log, unread, handler>>
  BY DEF SpawnRunner, storeVars
<1>2. /\ proc' \in [Pids -> ProcStates] /\ SidOf(p)' = s
      /\ \A q \in Pids \ {p} : proc'[q] = proc[q]
  BY <1>1, SpawnTyped
<1>3. runners' \in [Sids -> Entries]
  BY <1>1, RunnersTyped
<1>4. monitor' \in [Pids -> {"off", "polling", "notify"}]
      /\ \A q \in Pids \ {p} : monitor'[q] = monitor[q]
  BY <1>1 DEF TypeInv
<1>5. TypeInv'
  BY <1>1, <1>2, <1>3, <1>4 DEF TypeInv
<1>6. ProcInv'
  BY <1>1, <1>2, <1>4 DEF ProcInv, SidOf, Alive
<1> QED
  BY <1>5, <1>6

\* A step of a command that starts no process.
LEMMA CommandTyped ==
    ASSUME BaseInv, UNCHANGED <<unread, handler, monitor>>,
           row' \in [Sids -> RowStates], lastSeq' \in [Sids -> Nat], log' \in [Sids -> Nat],
           runners' \in [Sids -> Entries], op' \in [Clients -> Ops \cup {Idle}],
           proc' \in [Pids -> ProcStates],
           \A q \in Pids : SidOf(q)' = SidOf(q) /\ (Alive(q)' => Alive(q))
    PROVE  BaseInv'
BY DEF BaseInv, TypeInv, ProcInv

LEMMA DeleteKeepsBase ==
    ASSUME BaseInv, NEW c \in Clients, DeleteKills(c) \/ DeleteRows(c)
    PROVE  BaseInv'
<1> DEFINE s == op[c].sid
<1>1. s \in Sids
  BY OpAbout DEF DeleteKills, DeleteRows, At, BaseInv
<1> HIDE DEF s
<1>2. CASE DeleteKills(c)
  <2>1. /\ KillRunner(s) /\ UnregisterRunner(s) /\ Go(c, "delete", s, "rows", None)
        /\ UNCHANGED <<row, lastSeq, log, unread, handler, monitor>>
    BY <1>2 DEF DeleteKills, storeVars, s
  <2>2. runners' \in [Sids -> Entries]
    BY <2>1, UnregisterTyped DEF BaseInv
  <2>3. op' \in [Clients -> Ops \cup {Idle}]
    BY <1>1, <2>1, OpTyped DEF BaseInv, Go
  <2>4. /\ proc' \in [Pids -> ProcStates]
        /\ \A q \in Pids : SidOf(q)' = SidOf(q) /\ (Alive(q)' => Alive(q))
    BY <1>1, <2>1, KillTyped DEF BaseInv
  <2>5. row' \in [Sids -> RowStates] /\ lastSeq' \in [Sids -> Nat] /\ log' \in [Sids -> Nat]
    BY <2>1 DEF BaseInv, TypeInv
  <2> QED
    BY <2>1, <2>2, <2>3, <2>4, <2>5, CommandTyped
<1>3. CASE DeleteRows(c)
  <2>1. /\ DeleteSession(s) /\ Done(c)
        /\ UNCHANGED <<runners, proc, unread, handler, monitor>>
    BY <1>3 DEF DeleteRows, procVars, s
  <2>2. op' \in [Clients -> Ops \cup {Idle}]
    BY <2>1 DEF BaseInv, TypeInv, Done
  <2>3. row' \in [Sids -> RowStates] /\ lastSeq' \in [Sids -> Nat] /\ log' \in [Sids -> Nat]
    BY <2>1, StoreTyped DEF BaseInv
  <2>4. /\ proc' \in [Pids -> ProcStates] /\ runners' \in [Sids -> Entries]
        /\ \A q \in Pids : SidOf(q)' = SidOf(q) /\ (Alive(q)' => Alive(q))
    BY <2>1 DEF BaseInv, TypeInv, SidOf, Alive
  <2> QED
    BY <2>1, <2>2, <2>3, <2>4, CommandTyped
<1> QED
  BY <1>2, <1>3

\* Restart and worktree.remove, up to the point where the entry is gone.
LEMMA StopKeepsBase ==
    ASSUME BaseInv, NEW c \in Clients,
           \/ RestartKills(c) \/ RestartFinds(c) \/ RestartUnregisters(c) \/ RestartFails(c)
           \/ WorktreeRollsBack(c)
           \/ RemoveKills(c) \/ RemoveFinds(c) \/ RemoveUnregisters(c) \/ RemoveStops(c)
           \/ RemoveRemoves(c)
    PROVE  BaseInv'
<1> DEFINE s == op[c].sid
<1>1. s \in Sids
  BY OpAbout DEF RestartKills, RestartFinds, RestartUnregisters, RestartFails, WorktreeRollsBack,
                 RemoveKills, RemoveFinds, RemoveUnregisters, RemoveStops, RemoveRemoves, At, BaseInv
<1> HIDE DEF s
<1>2. UNCHANGED <<lastSeq, log, unread, handler, monitor>>
  BY DEF RestartKills, RestartFinds, RestartUnregisters, RestartFails, WorktreeRollsBack,
         RemoveKills, RemoveFinds, RemoveUnregisters, RemoveStops, RemoveRemoves, storeVars, procVars
<1>3. row' = row \/ UpdateState(s, "ended")
  BY DEF RestartKills, RestartFinds, RestartUnregisters, RestartFails, WorktreeRollsBack,
         RemoveKills, RemoveFinds, RemoveUnregisters, RemoveStops, RemoveRemoves, storeVars, s
<1>4. row' \in [Sids -> RowStates]
  BY <1>3 DEF BaseInv, TypeInv, RowStates, UpdateState
<1>5. runners' = runners \/ UnregisterRunner(s)
  BY DEF RestartKills, RestartFinds, RestartUnregisters, RestartFails, WorktreeRollsBack,
         RemoveKills, RemoveFinds, RemoveUnregisters, RemoveStops, RemoveRemoves, s
<1>6. runners' \in [Sids -> Entries]
  BY <1>5, UnregisterTyped DEF BaseInv, TypeInv
<1>7. proc' = proc \/ KillRunner(s)
  BY DEF RestartKills, RestartFinds, RestartUnregisters, RestartFails, WorktreeRollsBack,
         RemoveKills, RemoveFinds, RemoveUnregisters, RemoveStops, RemoveRemoves, procVars, s
<1>8. /\ proc' \in [Pids -> ProcStates]
      /\ \A q \in Pids : SidOf(q)' = SidOf(q) /\ (Alive(q)' => Alive(q))
  <2>1. CASE proc' = proc
    BY <2>1 DEF BaseInv, TypeInv, SidOf, Alive
  <2>2. CASE KillRunner(s)
    BY <1>1, <2>2, KillTyped DEF BaseInv
  <2> QED
    BY <1>7, <2>1, <2>2
<1>9. runners[s].process \in Pids \cup {None}
  BY <1>1 DEF BaseInv, TypeInv, Entries
<1>10. \/ Done(c)
       \/ \E cmd \in {"restart", "wtremove"}, at \in {"find", "wait", "spawn", "stopped", "remove"},
             p \in Pids \cup {None} : Go(c, cmd, s, at, p)
  <2>1. \A cmd, at, p : Go(c, cmd, op[c].sid, at, p) <=> Go(c, cmd, s, at, p)
    BY DEF s
  <2>2. CASE RestartKills(c) \/ RestartFinds(c)
    BY <1>9, <2>1, <2>2 DEF RestartKills, RestartFinds, s
  <2>3. CASE RestartUnregisters(c) \/ RestartFails(c) \/ WorktreeRollsBack(c) \/ RemoveRemoves(c)
    BY <2>1, <2>3 DEF RestartUnregisters, RestartFails, WorktreeRollsBack, RemoveRemoves
  <2>4. CASE RemoveKills(c) \/ RemoveFinds(c)
    BY <1>9, <2>1, <2>4 DEF RemoveKills, RemoveFinds, s
  <2>5. CASE RemoveUnregisters(c) \/ RemoveStops(c)
    BY <2>1, <2>5 DEF RemoveUnregisters, RemoveStops
  <2> QED
    BY <2>2, <2>3, <2>4, <2>5
<1>11. op' \in [Clients -> Ops \cup {Idle}]
  <2>1. CASE Done(c)
    BY <2>1 DEF BaseInv, TypeInv, Done
  <2>2. CASE \E cmd \in {"restart", "wtremove"}, at \in {"find", "wait", "spawn", "stopped", "remove"},
                p \in Pids \cup {None} : Go(c, cmd, s, at, p)
    <3>1. PICK cmd \in {"restart", "wtremove"}, at \in {"find", "wait", "spawn", "stopped", "remove"},
                p \in Pids \cup {None} : Go(c, cmd, s, at, p)
      BY <2>2
    <3>2. op' = [op EXCEPT ![c] = [cmd |-> cmd, sid |-> s, at |-> at, process |-> p]]
      BY <3>1 DEF Go
    <3> QED
      BY <1>1, <3>2, OpTyped DEF BaseInv
  <2> QED
    BY <1>10, <2>1, <2>2
<1> QED
  BY <1>2, <1>4, <1>6, <1>8, <1>11, CommandTyped DEF BaseInv, TypeInv

LEMMA CommandKeepsBase ==
    ASSUME BaseInv, NEW c \in Clients, NEW s \in Sids, SessionCommand(c, s) \/ WorktreeCommand(c, s)
    PROVE  BaseInv'
<1>1. ASSUME NEW p \in Pids, SessionCreate(c, p, s)
      PROVE  BaseInv'
  BY <1>1, SpawnKeepsBase DEF SessionCreate, BaseInv, TypeInv
<1>2. CASE SessionStop(c, s)
  <2>1. KillRunner(s) /\ UNCHANGED <<row, lastSeq, log, runners, unread, handler, monitor, op>>
    BY <1>2 DEF SessionStop, storeVars
  <2>2. /\ proc' \in [Pids -> ProcStates]
        /\ \A q \in Pids : SidOf(q)' = SidOf(q) /\ (Alive(q)' => Alive(q))
    BY <2>1, KillTyped DEF BaseInv
  <2> QED
    BY <2>1, <2>2, CommandTyped DEF BaseInv, TypeInv
<1>3. ASSUME UNCHANGED <<row, lastSeq, log, runners, proc, unread, handler, monitor>>,
             \/ op' = op
             \/ \E cmd \in {"delete", "restart", "wtcreate", "wtremove"},
                   at \in {"kill", "rows", "find", "wait", "spawn", "stopped", "remove"} :
                      Go(c, cmd, s, at, None)
      PROVE  BaseInv'
  <2>1. op' \in [Clients -> Ops \cup {Idle}]
    <3>1. CASE op' = op
      BY <3>1 DEF BaseInv, TypeInv
    <3>2. CASE op' # op
      <4>1. PICK cmd \in {"delete", "restart", "wtcreate", "wtremove"},
                 at \in {"kill", "rows", "find", "wait", "spawn", "stopped", "remove"} :
                    Go(c, cmd, s, at, None)
        BY <1>3, <3>2
      <4>2. op' = [op EXCEPT ![c] = [cmd |-> cmd, sid |-> s, at |-> at, process |-> None]]
        BY <4>1 DEF Go
      <4>3. [cmd |-> cmd, sid |-> s, at |-> at, process |-> None] \in Ops
        BY DEF Ops
      <4>4. op \in [Clients -> Ops \cup {Idle}]
        BY DEF BaseInv, TypeInv
      <4> QED
        BY <4>2, <4>3, <4>4
    <3> QED
      BY <3>1, <3>2
  <2>2. \A q \in Pids : SidOf(q)' = SidOf(q) /\ (Alive(q)' => Alive(q))
    BY <1>3 DEF SidOf, Alive
  <2> QED
    BY <1>3, <2>1, <2>2, CommandTyped DEF BaseInv, TypeInv
<1>4. CASE SessionDelete(c, s) \/ SessionRestart(c, s) \/ \E yes \in BOOLEAN : SessionPrune(c, s, yes)
  <2>1. UNCHANGED <<row, lastSeq, log, runners, proc, unread, handler, monitor>>
    BY <1>4 DEF SessionPrune, SessionDelete, SessionRestart, storeVars, procVars
  <2>2. Go(c, "delete", s, "kill", None) \/ Go(c, "delete", s, "rows", None)
        \/ Go(c, "restart", s, "kill", None)
    BY <1>4 DEF SessionPrune, SessionDelete, SessionRestart
  <2> QED
    BY <1>3, <2>1, <2>2
<1>5. CASE WorktreeCreate(c, s)
  <2>1. UNCHANGED <<row, lastSeq, log, runners, proc, unread, handler, monitor>>
    BY <1>5 DEF WorktreeCreate, storeVars, procVars
  <2>2. Go(c, "wtcreate", s, "spawn", None) \/ op' = op
    BY <1>5 DEF WorktreeCreate
  <2> QED
    BY <1>3, <2>1, <2>2
<1>6. ASSUME NEW force \in BOOLEAN, WorktreeRemove(c, s, force)
      PROVE  BaseInv'
  <2>1. UNCHANGED <<row, lastSeq, log, runners, proc, unread, handler, monitor>>
    BY <1>6 DEF WorktreeRemove, storeVars, procVars
  <2>2. Go(c, "wtremove", s, "kill", None) \/ Go(c, "wtremove", s, "remove", None)
    BY <1>6 DEF WorktreeRemove
  <2> QED
    BY <1>3, <2>1, <2>2
<1> QED
  BY <1>1, <1>2, <1>4, <1>5, <1>6 DEF SessionCommand, WorktreeCommand

LEMMA CommandGoesOnKeepsBase ==
    ASSUME BaseInv, NEW c \in Clients, CommandGoesOn(c)
    PROVE  BaseInv'
<1>1. ASSUME NEW p \in Pids, RestartSpawns(c, p) \/ WorktreeSpawns(c, p)
      PROVE  BaseInv'
  <2>1. op[c].sid \in Sids
    BY <1>1, OpAbout DEF RestartSpawns, WorktreeSpawns, At, BaseInv
  <2>2. SpawnRunner(p, op[c].sid) /\ UNCHANGED storeVars /\ Done(c)
    BY <1>1 DEF RestartSpawns, WorktreeSpawns
  <2>3. op' \in [Clients -> Ops \cup {Idle}]
    BY <2>2 DEF BaseInv, TypeInv, Done
  <2> QED
    BY <2>1, <2>2, <2>3, SpawnKeepsBase
<1> QED
  BY <1>1, DeleteKeepsBase, StopKeepsBase DEF CommandGoesOn

LEMMA RestartKeepsBase ==
    ASSUME BaseInv, DaemonRestarts
    PROVE  BaseInv'
<1>1. \A p \in Pids : /\ proc'[p] = IF proc[p] = Free THEN Free
                                    ELSE [proc[p] EXCEPT !.st = "dead", !.told = FALSE]
  BY DEF DaemonRestarts
<1>2. ASSUME NEW p \in Pids
      PROVE  proc'[p] \in ProcStates /\ proc'[p].sid = proc[p].sid /\ proc'[p].st # "alive"
  <2>1. proc[p] \in ProcStates
    BY DEF BaseInv, TypeInv
  <2>2. CASE proc[p] = Free
    <3>1. proc'[p] = proc[p]
      BY <1>1, <2>2
    <3>2. proc[p].st = "free"
      BY <2>2 DEF Free
    <3> QED
      BY <2>1, <3>1, <3>2
  <2>3. CASE proc[p] # Free
    <3> DEFINE mid == [proc[p] EXCEPT !.st = "dead"]
    <3>1. mid \in ProcStates /\ mid.sid = proc[p].sid /\ mid.st = "dead"
      BY <2>1 DEF ProcStates
    <3>2. proc'[p] = [mid EXCEPT !.told = FALSE]
      BY <1>1, <2>1, <2>3
    <3> HIDE DEF mid
    <3> QED
      BY <3>1, <3>2 DEF ProcStates
  <2> QED
    BY <2>2, <2>3
<1>3. proc' \in [Pids -> ProcStates]
  BY <1>2 DEF DaemonRestarts
<1>4. row' \in [Sids -> RowStates] /\ UNCHANGED <<lastSeq, log>>
  BY DEF DaemonRestarts, BaseInv, TypeInv, RowStates
<1>5. runners' \in [Sids -> Entries]
  BY DEF DaemonRestarts, NoRunner, Entries
<1>6. /\ unread' = [p \in Pids |-> << >>] /\ handler' = [p \in Pids |-> "idle"]
      /\ monitor' = [p \in Pids |-> "off"] /\ op' = [c \in Clients |-> Idle]
  BY DEF DaemonRestarts
<1>7. TypeInv'
  BY <1>3, <1>4, <1>5, <1>6 DEF BaseInv, TypeInv
<1>8. ProcInv'
  BY <1>2, <1>6 DEF ProcInv, Alive
<1> QED
  BY <1>7, <1>8 DEF BaseInv

LEMMA BaseInvStep == BaseInv /\ [Next]_vars => BaseInv'
<1> SUFFICES ASSUME BaseInv, [Next]_vars PROVE BaseInv'
  OBVIOUS
<1>1. ASSUME NEW s \in Sids, PruneOld(s)
      PROVE  BaseInv'
  <2>1. DeleteSession(s) /\ UNCHANGED <<runners, proc, unread, handler, monitor, op>>
    BY <1>1 DEF PruneOld, procVars
  <2>2. row' \in [Sids -> RowStates] /\ lastSeq' \in [Sids -> Nat] /\ log' \in [Sids -> Nat]
    BY <2>1, StoreTyped DEF BaseInv
  <2> QED
    BY <2>1, <2>2, CommandTyped DEF BaseInv, TypeInv, SidOf, Alive
<1>2. CASE UNCHANGED vars
  BY <1>2 DEF vars, storeVars, procVars, BaseInv, TypeInv, ProcInv, SidOf, Alive
<1> QED
  BY <1>1, <1>2, ConnectionKeepsBase, MonitorKeepsBase, RunnerKeepsBase, CommandKeepsBase,
     CommandGoesOnKeepsBase, RestartKeepsBase DEF Next

-----------------------------------------------------------------------------
(* The log and last_seq.                                                   *)

LEMMA AppendKeepsSeq ==
    ASSUME TypeInv, LastSeqInLog, NEW s \in Sids,
           \/ AppendRecord(s)
           \/ DeleteSession(s)
           \/ UNCHANGED <<lastSeq, log>>
    PROVE  LastSeqInLog'
<1>1. \A t \in Sids : lastSeq[t] \in Nat /\ log[t] \in Nat /\ lastSeq[t] <= log[t]
  BY DEF TypeInv, LastSeqInLog
<1>2. CASE AppendRecord(s)
  <2>1. /\ log'[s] = log[s] + 1 /\ lastSeq'[s] \in {lastSeq[s], log[s] + 1}
        /\ \A t \in Sids \ {s} : log'[t] = log[t] /\ lastSeq'[t] = lastSeq[t]
    BY <1>2 DEF TypeInv, AppendRecord, UpdateLastSeq
  <2>2. lastSeq'[s] <= log'[s]
    BY <1>1, <2>1
  <2> QED
    BY <1>1, <2>1, <2>2 DEF LastSeqInLog
<1>3. CASE DeleteSession(s)
  <2>1. /\ log'[s] = 0 /\ lastSeq'[s] = 0
        /\ \A t \in Sids \ {s} : log'[t] = log[t] /\ lastSeq'[t] = lastSeq[t]
    BY <1>3 DEF TypeInv, DeleteSession
  <2>2. lastSeq'[s] <= log'[s]
    BY <2>1
  <2> QED
    BY <1>1, <2>1, <2>2 DEF LastSeqInLog
<1> QED
  BY <1>2, <1>3 DEF LastSeqInLog

\* The row's last_seq is a record that the log has, whatever the interleaving of
\* late records with deletes, prunes, restarts of a session and of the daemon: an
\* app that resumes from it asks for nothing that was never written.
THEOREM LastSeqIsLogged == Spec => []LastSeqInLog
<1>1. Init => LastSeqInLog
  <2>1. ASSUME Init PROVE LastSeqInLog
    BY <2>1 DEF Init, LastSeqInLog
  <2> QED
    BY <2>1
<1>2. ASSUME BaseInv, LastSeqInLog, [Next]_vars PROVE LastSeqInLog'
  <2>1. ASSUME UNCHANGED <<lastSeq, log>> PROVE LastSeqInLog'
    BY <1>2, <2>1 DEF LastSeqInLog
  <2>2. ASSUME NEW p \in Pids, ConnectionTask(p)
        PROVE  LastSeqInLog'
    <3>1. CASE HandleRec(p)
      <4>1. unread[p] # << >> /\ AppendRecord(SidOf(p))
        BY <3>1 DEF HandleRec, Takes
      <4>2. SidOf(p) \in Sids
        BY <1>2, <4>1 DEF BaseInv, ProcInv
      <4> QED
        BY <1>2, <4>1, <4>2, AppendKeepsSeq DEF BaseInv
    <3>2. CASE ~HandleRec(p)
      BY <2>1, <2>2, <3>2 DEF ConnectionTask, HandleHello, HelloRegisters, HandleBye, ByeUpdates,
                              ByeUnregisters, storeVars
    <3> QED
      BY <3>1, <3>2
  <2>3. ASSUME NEW p \in Pids, MonitorTask(p) \/ RunnerActs(p)
        PROVE  LastSeqInLog'
    BY <2>1, <2>3 DEF MonitorTask, MonitorReaps, MonitorNotifies, RunnerActs, StartPassthrough,
                      RunnerSends, RunnerDies, storeVars
  <2>4. ASSUME NEW c \in Clients, CommandGoesOn(c)
        PROVE  LastSeqInLog'
    <3>1. CASE DeleteRows(c)
      <4>1. DeleteSession(op[c].sid) /\ op[c].sid \in Sids
        BY <1>2, <3>1, OpAbout DEF DeleteRows, At, BaseInv
      <4> QED
        BY <1>2, <4>1, AppendKeepsSeq DEF BaseInv
    <3>2. CASE ~DeleteRows(c)
      BY <2>1, <2>4, <3>2
         DEF CommandGoesOn, DeleteKills, RestartKills, RestartFinds, RestartUnregisters, RestartFails,
             RestartSpawns, WorktreeSpawns, WorktreeRollsBack, RemoveKills, RemoveFinds,
             RemoveUnregisters, RemoveStops, RemoveRemoves, storeVars
    <3> QED
      BY <3>1, <3>2
  <2>5. ASSUME NEW c \in Clients, NEW s \in Sids, SessionCommand(c, s) \/ WorktreeCommand(c, s)
        PROVE  LastSeqInLog'
    BY <2>1, <2>5 DEF SessionCommand, SessionCreate, SessionStop, SessionDelete, SessionRestart,
                      SessionPrune, WorktreeCommand, WorktreeCreate, WorktreeRemove, storeVars
  <2>6. ASSUME NEW s \in Sids, PruneOld(s)
        PROVE  LastSeqInLog'
    BY <1>2, <2>6, AppendKeepsSeq DEF PruneOld, BaseInv
  <2>7. CASE DaemonRestarts \/ UNCHANGED vars
    BY <2>1, <2>7 DEF DaemonRestarts, vars, storeVars
  <2> QED
    BY <1>2, <2>2, <2>3, <2>4, <2>5, <2>6, <2>7 DEF Next
<1> QED
  BY <1>1, <1>2, BaseInvInit, BaseInvStep, PTL DEF Spec

-----------------------------------------------------------------------------
(* A running row has its entry in the runner map, or somebody owes it one. *)

\* The command will end the row, delete it or make a new entry.
Owing(c) == At(c, "delete", "rows") \/ At(c, "restart", "spawn") \/ At(c, "wtremove", "stopped")

Covered(s) ==
    \/ \E p \in Pids : SidOf(p) = s /\ (monitor[p] = "notify" \/ handler[p] = "registering")
    \/ \E c \in Clients : op[c].sid = s /\ Owing(c)

\* The entry is of a later runner than p.
Outlived(p, s) == runners[s].pid \notin {None, p} \/ runners[s].process \notin {None, p}

EntryInv(s) ==
    row[s] = "running" /\ s \notin excused =>
        /\ runners[s] # NoRunner \/ Covered(s)
        /\ \A p \in Pids : SidOf(p) = s /\ handler[p] = "leaving" => Covered(s) \/ Outlived(p, s)

RunInv == BaseInv /\ \A s \in Sids : EntryInv(s)

\* A session that a step does not touch.
LEMMA EntryStays ==
    ASSUME NEW s \in Sids, EntryInv(s),
           row'[s] = "running" => row[s] = "running", runners'[s] = runners[s],
           s \in excused => s \in excused',
           \A p \in Pids : SidOf(p) = s =>
              /\ SidOf(p)' = s
              /\ monitor[p] = "notify" => monitor'[p] = "notify"
              /\ handler[p] = "registering" => handler'[p] = "registering",
           \A p \in Pids : SidOf(p)' = s /\ handler'[p] = "leaving" =>
              SidOf(p) = s /\ handler[p] = "leaving",
           \A c \in Clients : op[c].sid = s /\ Owing(c) => op'[c] = op[c]
    PROVE  EntryInv(s)'
<1>1. Covered(s) => Covered(s)'
  BY DEF Covered, Owing, At
<1>2. \A p \in Pids : Outlived(p, s) => Outlived(p, s)'
  BY DEF Outlived
<1> QED
  BY <1>1, <1>2 DEF EntryInv

\* A task of a connection or a monitor changes nothing of the other sessions.
LEMMA OtherEntriesStay ==
    ASSUME RunInv, NEW p \in Pids, NEW s \in Sids, s # SidOf(p), UNCHANGED <<proc, op>>,
           row'[s] = row[s], runners'[s] = runners[s], excused' \in {excused, excused \cup {SidOf(p)}},
           \A q \in Pids \ {p} : monitor'[q] = monitor[q] /\ handler'[q] = handler[q]
    PROVE  EntryInv(s)'
<1>1. \A q \in Pids : SidOf(q)' = SidOf(q)
  BY DEF SidOf
<1>2. EntryInv(s)
  BY DEF RunInv
<1> QED
  BY <1>1, <1>2, EntryStays

LEMMA HelloKeepsEntries ==
    ASSUME RunInv, NEW p \in Pids, HandleHello(p) \/ HelloRegisters(p)
    PROVE  \A s \in Sids : EntryInv(s)'
<1> USE DEF RunInv, BaseInv
<1>1. SidOf(p) \in Sids
  BY DEF HandleHello, HelloRegisters, Takes, ProcInv
<1>2. CASE HandleHello(p)
  <2>1. /\ row' = [row EXCEPT ![SidOf(p)] = "running"]
        /\ handler' = [handler EXCEPT ![p] = "registering"]
        /\ UNCHANGED <<runners, proc, monitor, op, excused>>
    BY <1>2 DEF HandleHello, CreateRow
  <2>2. handler'[p] = "registering" /\ \A q \in Pids \ {p} : handler'[q] = handler[q]
    BY <2>1 DEF TypeInv
  <2>3. ASSUME NEW s \in Sids, s = SidOf(p) PROVE EntryInv(s)'
    <3>1. Covered(s)'
      BY <2>1, <2>2, <2>3 DEF Covered, SidOf
    <3> QED
      BY <3>1 DEF EntryInv
  <2>4. ASSUME NEW s \in Sids, s # SidOf(p) PROVE EntryInv(s)'
    BY <2>1, <2>2, <2>4, OtherEntriesStay DEF TypeInv
  <2> QED
    BY <2>3, <2>4
<1>3. CASE HelloRegisters(p)
  <2>1. /\ runners' = [runners EXCEPT ![SidOf(p)].pid = p]
        /\ handler' = [handler EXCEPT ![p] = "idle"] /\ handler[p] = "registering"
        /\ UNCHANGED <<row, proc, monitor, op, excused>>
    BY <1>3 DEF HelloRegisters, RegisterRunner, storeVars
  <2>2. handler'[p] = "idle" /\ \A q \in Pids \ {p} : handler'[q] = handler[q]
    BY <2>1 DEF TypeInv
  <2>3. ASSUME NEW s \in Sids, s = SidOf(p) PROVE EntryInv(s)'
    <3>1. runners[s] \in Entries
      BY DEF TypeInv
    <3>2. runners'[s] = [runners[s] EXCEPT !.pid = p]
      BY <2>1, <2>3 DEF TypeInv
    <3>3. runners'[s].pid = p
      BY <3>1, <3>2 DEF Entries
    <3>4. p # None /\ NoRunner.pid = None
      BY SessionsAssumption DEF NoRunner
    <3>5. \A q \in Pids : handler'[q] = "leaving" => Outlived(q, s)'
      BY <2>2, <3>3, <3>4 DEF Outlived
    <3>6. runners'[s] # NoRunner
      BY <3>3, <3>4
    <3>7. (runners[s] # NoRunner)'
      BY <3>6 DEF NoRunner
    <3> QED
      BY <3>5, <3>7 DEF EntryInv
  <2>4. ASSUME NEW s \in Sids, s # SidOf(p) PROVE EntryInv(s)'
    <3>1. runners'[s] = runners[s]
      BY <2>1, <2>4 DEF TypeInv
    <3> QED
      BY <2>1, <2>2, <2>4, <3>1, OtherEntriesStay
  <2> QED
    BY <2>3, <2>4
<1> QED
  BY <1>2, <1>3

LEMMA ByeKeepsEntries ==
    ASSUME RunInv, NEW p \in Pids, HandleBye(p) \/ ByeUpdates(p) \/ ByeUnregisters(p)
    PROVE  \A s \in Sids : EntryInv(s)'
<1> USE DEF RunInv, BaseInv
<1>1. SidOf(p) \in Sids
  BY DEF HandleBye, ByeUpdates, ByeUnregisters, Takes, ProcInv
<1>2. /\ UNCHANGED <<proc, monitor, op>> /\ handler'[p] \in {"idle", "ending", "leaving"}
      /\ handler[p] # "registering"
      /\ \A q \in Pids \ {p} : handler'[q] = handler[q]
  BY DEF HandleBye, ByeUpdates, ByeUnregisters, Takes, TypeInv
<1>3. \A q \in Pids : SidOf(q)' = SidOf(q)
  BY <1>2 DEF SidOf
<1>4. \A s \in Sids : Covered(s) => Covered(s)'
  BY <1>2, <1>3 DEF Covered, Owing, At
<1>5. CASE HandleBye(p)
  <2>1. UNCHANGED <<row, runners, excused>> /\ handler'[p] # "leaving"
    BY <1>5 DEF HandleBye, storeVars, TypeInv
  <2>2. ASSUME NEW s \in Sids PROVE EntryInv(s)'
    <3>1. EntryInv(s)
      OBVIOUS
    <3> QED
      BY <1>2, <1>3, <2>1, <3>1, EntryStays
  <2> QED
    BY <2>2
<1>6. CASE ByeUpdates(p)
  <2>1. /\ UNCHANGED <<runners, excused>> /\ row'[SidOf(p)] # "running"
        /\ \A s \in Sids : s # SidOf(p) => row'[s] = row[s]
    BY <1>1, <1>6 DEF ByeUpdates, UpdateState, TypeInv
  <2>2. ASSUME NEW s \in Sids, s # SidOf(p) PROVE EntryInv(s)'
    BY <1>2, <2>1, <2>2, OtherEntriesStay
  <2> QED
    BY <2>1, <2>2 DEF EntryInv
<1>7. CASE ByeUnregisters(p)
  <2>1. /\ row' = row /\ handler[p] = "leaving" /\ handler'[p] = "idle"
        /\ runners' = [runners EXCEPT ![SidOf(p)] = NoRunner]
        /\ excused' = IF Outlived(p, SidOf(p)) THEN excused \cup {SidOf(p)} ELSE excused
    BY <1>7 DEF ByeUnregisters, UnregisterRunner, ByeIsStale, Outlived, storeVars, TypeInv
  <2>2. ASSUME NEW s \in Sids, s # SidOf(p) PROVE EntryInv(s)'
    BY <1>2, <2>1, <2>2, OtherEntriesStay DEF TypeInv
  <2>3. ASSUME NEW s \in Sids, s = SidOf(p) PROVE EntryInv(s)'
    <3>1. CASE Outlived(p, s)
      BY <2>1, <2>3, <3>1 DEF EntryInv
    <3>2. CASE ~Outlived(p, s)
      <4>1. row[s] = "running" /\ s \notin excused => Covered(s)
        BY <2>1, <2>3, <3>2 DEF EntryInv
      <4>2. row'[s] = "running" /\ s \notin excused' => Covered(s)'
        BY <1>4, <2>1, <2>3, <3>2, <4>1
      <4> QED
        BY <4>2 DEF EntryInv
    <3> QED
      BY <3>1, <3>2
  <2> QED
    BY <2>2, <2>3
<1> QED
  BY <1>5, <1>6, <1>7

LEMMA MonitorKeepsEntries ==
    ASSUME RunInv, NEW p \in Pids, MonitorTask(p)
    PROVE  \A s \in Sids : EntryInv(s)'
<1> USE DEF RunInv, BaseInv
<1>1. UNCHANGED <<proc, handler, op, excused>> /\ monitor[p] # "off" /\ SidOf(p) \in Sids
      /\ \A q \in Pids \ {p} : monitor'[q] = monitor[q]
  BY DEF MonitorTask, MonitorReaps, MonitorNotifies, ProcInv, TypeInv
<1>2. CASE MonitorReaps(p) /\ MonitorRemoves(p)
  <2>1. /\ row' = row /\ monitor'[p] = "notify"
        /\ runners' = [runners EXCEPT ![SidOf(p)] = NoRunner]
    BY <1>2 DEF MonitorReaps, UnregisterRunner, storeVars, TypeInv
  <2>2. ASSUME NEW s \in Sids, s # SidOf(p) PROVE EntryInv(s)'
    BY <1>1, <2>1, <2>2, OtherEntriesStay DEF TypeInv
  <2>3. ASSUME NEW s \in Sids, s = SidOf(p) PROVE EntryInv(s)'
    <3>1. Covered(s)'
      BY <1>1, <2>1, <2>3 DEF Covered, SidOf
    <3> QED
      BY <3>1 DEF EntryInv
  <2> QED
    BY <2>2, <2>3
<1>3. CASE MonitorReaps(p) /\ ~MonitorRemoves(p)
  <2>1. UNCHANGED <<row, runners>> /\ monitor[p] = "polling"
    BY <1>3 DEF MonitorReaps, storeVars
  <2>2. \A q \in Pids : SidOf(q)' = SidOf(q)
    BY <1>1 DEF SidOf
  <2>3. ASSUME NEW s \in Sids PROVE EntryInv(s)'
    <3>1. EntryInv(s)
      OBVIOUS
    <3> QED
      BY <1>1, <2>1, <2>2, <3>1, EntryStays
  <2> QED
    BY <2>3
<1>4. CASE MonitorNotifies(p)
  <2>1. /\ UNCHANGED runners /\ row'[SidOf(p)] # "running"
        /\ \A s \in Sids : s # SidOf(p) => row'[s] = row[s]
    BY <1>1, <1>4 DEF MonitorNotifies, OnRunnerExit, TypeInv
  <2>2. ASSUME NEW s \in Sids, s # SidOf(p) PROVE EntryInv(s)'
    BY <1>1, <2>1, <2>2, OtherEntriesStay
  <2> QED
    BY <2>1, <2>2 DEF EntryInv
<1> QED
  BY <1>2, <1>3, <1>4 DEF MonitorTask

\* A new process has not been heard of.  Its entry is of a later runner than any other.
LEMMA SpawnKeepsEntries ==
    ASSUME RunInv, NEW p \in Pids, NEW s \in Sids, SpawnRunner(p, s), UNCHANGED <<row, excused>>,
           \A c \in Clients : op[c].sid \in Sids \ {s} /\ Owing(c) => op'[c] = op[c]
    PROVE  \A t \in Sids : EntryInv(t)'
<1> USE DEF RunInv, BaseInv
<1>1. /\ proc[p] = Free /\ handler' = handler
      /\ proc' = [proc EXCEPT ![p] = [st |-> "alive", sid |-> s, spawned |-> TRUE, told |-> FALSE]]
      /\ runners' = [runners EXCEPT ![s] = [pid |-> p, process |-> p]]
      /\ monitor' = [monitor EXCEPT ![p] = "polling"]
  BY DEF SpawnRunner
<1>2. /\ SidOf(p) \notin Sids /\ SidOf(p)' = s
      /\ \A q \in Pids \ {p} : proc'[q] = proc[q]
  BY <1>1, SpawnTyped
<1>3. handler[p] = "idle" /\ \A q \in Pids \ {p} : monitor'[q] = monitor[q] /\ SidOf(q)' = SidOf(q)
  BY <1>1, <1>2 DEF ProcInv, TypeInv, SidOf
<1>4. p # None
  BY SessionsAssumption
<1>5. EntryInv(s)'
  <2>1. runners'[s].pid = p
    BY <1>1 DEF TypeInv
  <2>2. NoRunner.pid = None
    BY DEF NoRunner
  <2>3. (runners[s] # NoRunner)'
    BY <1>4, <2>1, <2>2 DEF NoRunner
  <2>4. \A q \in Pids : handler'[q] = "leaving" => Outlived(q, s)'
    BY <1>1, <1>3, <1>4, <2>1 DEF Outlived
  <2> QED
    BY <2>3, <2>4 DEF EntryInv
<1>6. ASSUME NEW t \in Sids, t # s PROVE EntryInv(t)'
  <2>1. EntryInv(t) /\ runners'[t] = runners[t]
    BY <1>1, <1>6 DEF TypeInv
  <2> QED
    BY <1>1, <1>2, <1>3, <1>6, <2>1, EntryStays
<1> QED
  BY <1>5, <1>6

\* A step that changes no entry, no row and nothing that is owed.
LEMMA QuietKeepsEntries ==
    ASSUME RunInv, UNCHANGED <<row, runners, handler, monitor, excused>>,
           \A p \in Pids : SidOf(p) \in Sids => SidOf(p)' = SidOf(p),
           \A p \in Pids : SidOf(p) \in Sids \/ handler[p] = "idle",
           \A c \in Clients : Owing(c) => op'[c] = op[c]
    PROVE  \A s \in Sids : EntryInv(s)'
<1>1. ASSUME NEW s \in Sids PROVE EntryInv(s)'
  <2>1. EntryInv(s)
    BY DEF RunInv
  <2> QED
    BY <2>1, EntryStays
<1> QED
  BY <1>1

LEMMA RunnerKeepsEntries ==
    ASSUME RunInv, NEW p \in Pids, RunnerActs(p) \/ HandleRec(p)
    PROVE  \A s \in Sids : EntryInv(s)'
<1> USE DEF RunInv, BaseInv
<1>1. \A q \in Pids : SidOf(q) \in Sids \/ handler[q] = "idle"
  BY DEF ProcInv
<1>2. UNCHANGED <<row, runners, handler, monitor, excused, op>>
  BY DEF RunnerActs, StartPassthrough, RunnerSends, RunnerDies, HandleRec, storeVars
<1>3. \A q \in Pids : SidOf(q) \in Sids => SidOf(q)' = SidOf(q)
  <2>1. ASSUME NEW s \in Sids, StartPassthrough(p, s)
        PROVE  \A q \in Pids : SidOf(q) \in Sids => SidOf(q)' = SidOf(q)
    <3>1. /\ proc[p] = Free
          /\ proc' = [proc EXCEPT ![p] = [st |-> "alive", sid |-> s, spawned |-> FALSE, told |-> FALSE]]
      BY <2>1 DEF StartPassthrough
    <3>2. SidOf(p) \notin Sids /\ \A q \in Pids \ {p} : proc'[q] = proc[q]
      BY <3>1, SpawnTyped
    <3> QED
      BY <3>2 DEF SidOf
  <2>2. CASE RunnerDies(p)
    <3>1. proc' = [proc EXCEPT ![p].st = "dead", ![p].told = FALSE]
      BY <2>2 DEF RunnerDies
    <3> QED
      BY <3>1, ProcGoes
  <2>3. CASE HandleRec(p) \/ \E f \in Frames : RunnerSends(p, f)
    BY <2>3 DEF HandleRec, RunnerSends, SidOf
  <2> QED
    BY <2>1, <2>2, <2>3 DEF RunnerActs, Frames
<1> QED
  BY <1>1, <1>2, <1>3, QuietKeepsEntries

\* What a command owes is of its own session.
LEMMA CommandKeepsEntries ==
    ASSUME RunInv, NEW c \in Clients, NEW s \in Sids, op[c].sid = s \/ op[c] = Idle,
           UNCHANGED <<handler, monitor>>, excused' \in {excused, excused \cup {s}},
           \A p \in Pids : SidOf(p)' = SidOf(p),
           \A t \in Sids \ {s} : row'[t] = row[t] /\ runners'[t] = runners[t],
           \A d \in Clients \ {c} : op'[d] = op[d],
           \/ row'[s] # "running"
           \/ s \in excused'
           \/ op'[c].sid = s /\ Owing(c)'
           \/ row'[s] = row[s] /\ runners'[s] = runners[s] /\ ~Owing(c)
    PROVE  \A t \in Sids : EntryInv(t)'
<1> USE DEF RunInv, BaseInv
<1>1. op[c] = Idle => ~Owing(c)
  <2>1. Idle.cmd = "idle"
    BY DEF Idle
  <2> QED
    BY <2>1 DEF Owing, At
<1>2. ASSUME NEW t \in Sids, t # s PROVE EntryInv(t)'
  <2>1. EntryInv(t)
    OBVIOUS
  <2>2. \A d \in Clients : op[d].sid = t /\ Owing(d) => op'[d] = op[d]
    BY <1>1, <1>2
  <2> QED
    BY <1>2, <2>1, <2>2, EntryStays
<1>3. EntryInv(s)'
  <2>1. CASE row'[s] # "running" \/ s \in excused'
    BY <2>1 DEF EntryInv
  <2>2. CASE op'[c].sid = s /\ Owing(c)'
    <3>1. Covered(s)'
      BY <2>2 DEF Covered
    <3> QED
      BY <3>1 DEF EntryInv
  <2>3. CASE row'[s] = row[s] /\ runners'[s] = runners[s] /\ ~Owing(c)
    <3>1. EntryInv(s)
      OBVIOUS
    <3>2. \A d \in Clients : Owing(d) => op'[d] = op[d]
      BY <2>3
    <3> QED
      BY <2>3, <3>1, <3>2, EntryStays
  <2> QED
    BY <2>1, <2>2, <2>3
<1> QED
  BY <1>2, <1>3

LEMMA DeleteKeepsEntries ==
    ASSUME RunInv, NEW c \in Clients, DeleteKills(c) \/ DeleteRows(c)
    PROVE  \A t \in Sids : EntryInv(t)'
<1> USE DEF RunInv, BaseInv
<1>1. PICK s \in Sids : s = op[c].sid
  BY OpAbout DEF DeleteKills, DeleteRows, At
<1>2. CASE DeleteKills(c)
  <2>1. /\ KillRunner(s) /\ runners' = [runners EXCEPT ![s] = NoRunner]
        /\ op' = [op EXCEPT ![c] = [cmd |-> "delete", sid |-> s, at |-> "rows", process |-> None]]
        /\ UNCHANGED <<row, handler, monitor, excused>>
    BY <1>1, <1>2 DEF DeleteKills, UnregisterRunner, Go, storeVars
  <2>2. \A p \in Pids : SidOf(p)' = SidOf(p)
    BY <2>1, KillTyped
  <2>3. /\ op'[c] = [cmd |-> "delete", sid |-> s, at |-> "rows", process |-> None]
        /\ \A d \in Clients \ {c} : op'[d] = op[d]
        /\ \A t \in Sids \ {s} : runners'[t] = runners[t]
    BY <2>1 DEF TypeInv
  <2>4. op'[c].sid = s /\ Owing(c)'
    BY <2>3 DEF Owing, At
  <2> QED
    BY <1>1, <2>1, <2>2, <2>3, <2>4, CommandKeepsEntries
<1>3. CASE DeleteRows(c)
  <2>1. /\ row' = [row EXCEPT ![s] = "none"] /\ op' = [op EXCEPT ![c] = Idle]
        /\ UNCHANGED <<runners, proc, handler, monitor, excused>>
    BY <1>1, <1>3 DEF DeleteRows, DeleteSession, Done, procVars
  <2>2. /\ row'[s] # "running" /\ \A t \in Sids \ {s} : row'[t] = row[t]
        /\ \A d \in Clients \ {c} : op'[d] = op[d]
    BY <2>1 DEF TypeInv
  <2>3. \A p \in Pids : SidOf(p)' = SidOf(p)
    BY <2>1 DEF SidOf
  <2> QED
    BY <1>1, <2>1, <2>2, <2>3, CommandKeepsEntries
<1> QED
  BY <1>2, <1>3

LEMMA StopKeepsEntries ==
    ASSUME RunInv, NEW c \in Clients,
           \/ RestartKills(c) \/ RestartFinds(c) \/ RestartUnregisters(c) \/ RestartFails(c)
           \/ WorktreeRollsBack(c)
           \/ RemoveKills(c) \/ RemoveFinds(c) \/ RemoveUnregisters(c) \/ RemoveStops(c)
           \/ RemoveRemoves(c)
    PROVE  \A t \in Sids : EntryInv(t)'
<1> USE DEF RunInv, BaseInv
<1>1. PICK s \in Sids : s = op[c].sid
  BY OpAbout DEF RestartKills, RestartFinds, RestartUnregisters, RestartFails, WorktreeRollsBack,
                 RemoveKills, RemoveFinds, RemoveUnregisters, RemoveStops, RemoveRemoves, At
<1>2. UNCHANGED <<handler, monitor>>
  BY DEF RestartKills, RestartFinds, RestartUnregisters, RestartFails, WorktreeRollsBack,
         RemoveKills, RemoveFinds, RemoveUnregisters, RemoveStops, RemoveRemoves, procVars
<1>3. \A p \in Pids : SidOf(p)' = SidOf(p)
  <2>1. proc' = proc \/ KillRunner(s)
    BY <1>1 DEF RestartKills, RestartFinds, RestartUnregisters, RestartFails, WorktreeRollsBack,
                RemoveKills, RemoveFinds, RemoveUnregisters, RemoveStops, RemoveRemoves, procVars
  <2> QED
    BY <2>1, KillTyped DEF SidOf
<1>4. \A d \in Clients \ {c} : op'[d] = op[d]
  BY DEF RestartKills, RestartFinds, RestartUnregisters, RestartFails, WorktreeRollsBack,
         RemoveKills, RemoveFinds, RemoveUnregisters, RemoveStops, RemoveRemoves, Go, Done, TypeInv
<1>5. CASE \/ RestartKills(c) \/ RestartFinds(c) \/ WorktreeRollsBack(c)
           \/ RemoveKills(c) \/ RemoveFinds(c) \/ RemoveRemoves(c)
  <2>1. UNCHANGED <<row, runners, excused>>
    BY <1>5 DEF RestartKills, RestartFinds, WorktreeRollsBack, RemoveKills, RemoveFinds,
                RemoveRemoves, storeVars
  <2>2. ~Owing(c)
    BY <1>5 DEF RestartKills, RestartFinds, WorktreeRollsBack, RemoveKills, RemoveFinds,
                RemoveRemoves, At, Owing
  <2> QED
    BY <1>1, <1>2, <1>3, <1>4, <2>1, <2>2, CommandKeepsEntries
<1>6. CASE RestartUnregisters(c) \/ RemoveUnregisters(c)
  <2>1. /\ runners' = [runners EXCEPT ![s] = NoRunner] /\ UNCHANGED <<row, excused>>
        /\ \/ op' = [op EXCEPT ![c] = [cmd |-> "restart", sid |-> s, at |-> "spawn", process |-> None]]
           \/ op' = [op EXCEPT ![c] = [cmd |-> "wtremove", sid |-> s, at |-> "stopped", process |-> None]]
    BY <1>1, <1>6 DEF RestartUnregisters, RemoveUnregisters, UnregisterRunner, Go, storeVars
  <2>2. /\ \/ op'[c] = [cmd |-> "restart", sid |-> s, at |-> "spawn", process |-> None]
           \/ op'[c] = [cmd |-> "wtremove", sid |-> s, at |-> "stopped", process |-> None]
        /\ \A t \in Sids \ {s} : runners'[t] = runners[t]
    BY <2>1 DEF TypeInv
  <2>3. op'[c].sid = s /\ Owing(c)'
    BY <2>2 DEF Owing, At
  <2> QED
    BY <1>1, <1>2, <1>3, <1>4, <2>1, <2>2, <2>3, CommandKeepsEntries
<1>7. CASE RestartFails(c)
  <2>1. UNCHANGED <<row, runners>> /\ excused' = excused \cup {s}
    BY <1>1, <1>7 DEF RestartFails, storeVars
  <2> QED
    BY <1>1, <1>2, <1>3, <1>4, <2>1, CommandKeepsEntries
<1>8. CASE RemoveStops(c)
  <2>1. /\ UNCHANGED <<runners, excused>> /\ row'[s] # "running"
        /\ \A t \in Sids \ {s} : row'[t] = row[t]
    BY <1>1, <1>8 DEF RemoveStops, UpdateState, TypeInv
  <2> QED
    BY <1>1, <1>2, <1>3, <1>4, <2>1, CommandKeepsEntries
<1> QED
  BY <1>5, <1>6, <1>7, <1>8

LEMMA StartKeepsEntries ==
    ASSUME RunInv, NEW c \in Clients, NEW s \in Sids, SessionCommand(c, s) \/ WorktreeCommand(c, s)
    PROVE  \A t \in Sids : EntryInv(t)'
<1> USE DEF RunInv, BaseInv
<1>1. ASSUME NEW p \in Pids, SessionCreate(c, p, s)
      PROVE  \A t \in Sids : EntryInv(t)'
  BY <1>1, SpawnKeepsEntries DEF SessionCreate, storeVars
<1>2. CASE ~\E p \in Pids : SessionCreate(c, p, s)
  <2>1. /\ op[c] = Idle /\ UNCHANGED <<row, runners, handler, monitor, excused>>
        /\ proc' = proc \/ KillRunner(s)
    BY <1>2 DEF SessionCommand, SessionStop, SessionDelete, SessionRestart, SessionPrune,
                WorktreeCommand, WorktreeCreate, WorktreeRemove, storeVars, procVars
  <2>2. \A p \in Pids : SidOf(p)' = SidOf(p)
    BY <2>1, KillTyped DEF SidOf
  <2>3. \A d \in Clients \ {c} : op'[d] = op[d]
    BY <1>2 DEF SessionCommand, SessionStop, SessionDelete, SessionRestart, SessionPrune,
                WorktreeCommand, WorktreeCreate, WorktreeRemove, Go, TypeInv
  <2>4. Idle.cmd = "idle"
    BY DEF Idle
  <2>5. ~Owing(c)
    BY <2>1, <2>4 DEF Owing, At
  <2> QED
    BY <2>1, <2>2, <2>3, <2>5, CommandKeepsEntries
<1> QED
  BY <1>1, <1>2

LEMMA EntriesStep ==
    ASSUME RunInv, [Next]_vars
    PROVE  \A t \in Sids : EntryInv(t)'
<1> USE DEF RunInv, BaseInv
<1>1. ASSUME NEW c \in Clients, NEW p \in Pids, RestartSpawns(c, p) \/ WorktreeSpawns(c, p)
      PROVE  \A t \in Sids : EntryInv(t)'
  <2>1. PICK s \in Sids : s = op[c].sid
    BY <1>1, OpAbout DEF RestartSpawns, WorktreeSpawns, At
  <2>2. SpawnRunner(p, s) /\ UNCHANGED <<row, excused>> /\ op' = [op EXCEPT ![c] = Idle]
    BY <1>1, <2>1 DEF RestartSpawns, WorktreeSpawns, Done, storeVars
  <2>3. \A d \in Clients : op[d].sid \in Sids \ {s} => op'[d] = op[d]
    BY <2>1, <2>2 DEF TypeInv
  <2> QED
    BY <2>2, <2>3, SpawnKeepsEntries
<1>2. ASSUME NEW s \in Sids, PruneOld(s)
      PROVE  \A t \in Sids : EntryInv(t)'
  <2>1. /\ row' = [row EXCEPT ![s] = "none"] /\ UNCHANGED <<runners, proc, handler, monitor, op, excused>>
    BY <1>2 DEF PruneOld, DeleteSession, procVars
  <2>2. \A p \in Pids : SidOf(p)' = SidOf(p)
    BY <2>1 DEF SidOf
  <2>3. ASSUME NEW t \in Sids PROVE EntryInv(t)'
    <3>1. EntryInv(t) /\ (row'[t] = "running" => row[t] = "running")
      BY <2>1 DEF TypeInv
    <3> QED
      BY <2>1, <2>2, <3>1, EntryStays
  <2> QED
    BY <2>3
<1>3. CASE DaemonRestarts
  <2>1. \A t \in Sids : row'[t] # "running"
    BY <1>3 DEF DaemonRestarts
  <2> QED
    BY <2>1 DEF EntryInv
<1>4. CASE UNCHANGED vars
  <2>1. UNCHANGED <<row, runners, proc, handler, monitor, op, excused>>
    BY <1>4 DEF vars, storeVars, procVars
  <2> QED
    BY <2>1, QuietKeepsEntries DEF SidOf, ProcInv
<1>5. ASSUME NEW p \in Pids, ConnectionTask(p)
      PROVE  \A t \in Sids : EntryInv(t)'
  BY <1>5, HelloKeepsEntries, ByeKeepsEntries, RunnerKeepsEntries DEF ConnectionTask
<1>6. ASSUME NEW c \in Clients, CommandGoesOn(c)
      PROVE  \A t \in Sids : EntryInv(t)'
  BY <1>1, <1>6, DeleteKeepsEntries, StopKeepsEntries DEF CommandGoesOn
<1> QED
  BY <1>2, <1>3, <1>4, <1>5, <1>6, MonitorKeepsEntries, RunnerKeepsEntries, StartKeepsEntries DEF Next

\* When nothing is under way for a session, its running row has an entry in the
\* runner map: for any number of runners, connections and commands of any number of
\* clients, nobody unregisters a runner and leaves the row running.
THEOREM RunningRowsHaveRunners == Spec => []RunningHasRunner
<1>1. Init => RunInv
  <2>1. ASSUME Init PROVE \A s \in Sids : EntryInv(s)
    BY <2>1 DEF Init, EntryInv
  <2> QED
    BY <2>1, BaseInvInit DEF RunInv
<1>2. RunInv /\ [Next]_vars => RunInv'
  BY BaseInvStep, EntriesStep DEF RunInv
<1>3. RunInv => RunningHasRunner
  <2>1. \A c \in Clients, s \in Sids : op[c].sid # s => ~(op[c].sid = s /\ Owing(c))
    OBVIOUS
  <2> QED
    BY <2>1 DEF RunInv, EntryInv, RunningHasRunner, Quiet, Covered
<1> QED
  BY <1>1, <1>2, <1>3, PTL DEF Spec

-----------------------------------------------------------------------------
(* The key exchange.                                                        *)

DaemonKx == Kx(Daemon, Nil)
AppKx(f) == {Kx(f, k) : k \in Keys}
AppsKx == UNION {AppKx(f) : f \in Frontends}

Only(q, S) == \A i \in 1 .. Len(q) : q[i] \in S
Opened(q, m, S) == q # << >> /\ q[1] = m /\ \A i \in 2 .. Len(q) : q[i] \in S

\* What can be under way on an app's connection.
AppLink(f) ==
    \/ conn[f] = "down" /\ f \notin joined /\ up[f] = << >> /\ down[f] = << >>
    \/ conn[f] = "open" /\ f \notin joined /\ up[f] = <<Msg("auth")>> /\ down[f] = << >>
    \/ conn[f] = "open" /\ f \notin joined /\ up[f] = << >> /\ down[f] = <<Msg("auth.err")>>
    \/ /\ conn[f] = "open" /\ f \in joined /\ up[f] = << >>
       /\ Opened(down[f], Msg("authed"), {DaemonKx})
    \/ /\ conn[f] = "authed" /\ f \in joined
       /\ Only(up[f], AppKx(f)) /\ Only(down[f], {DaemonKx})

\* What can be under way on the daemon's connection.  It waits for an answer to
\* a resume only with a token.
DaemonLink ==
    \/ conn[Daemon] \in {"down", "shut"} /\ Daemon \notin joined /\ up[Daemon] = << >> /\ down[Daemon] = << >>
    \/ /\ conn[Daemon] = "open" /\ Daemon \notin joined /\ down[Daemon] = << >>
       /\ \E t \in {"register", "auth", "resume"} : up[Daemon] = <<Msg(t)>> /\ (t = "resume" => token)
    \/ /\ conn[Daemon] = "open" /\ Daemon \notin joined /\ up[Daemon] = << >>
       /\ \E t \in {"register.ok", "auth.err"} : down[Daemon] = <<Msg(t)>>
    \/ /\ conn[Daemon] = "open" /\ Daemon \in joined /\ up[Daemon] = << >>
       /\ \E t \in {"authed", "resumed"} : Opened(down[Daemon], Msg(t), AppsKx) /\ (t = "resumed" => token)
    \/ /\ conn[Daemon] = "authed" /\ Daemon \in joined
       /\ Only(up[Daemon], {DaemonKx}) /\ Only(down[Daemon], AppsKx)

\* An app has a key pair while it is authenticated, and session keys only from it.
KeyInv(f) ==
    /\ keyPair[f] \in Keys \cup {Nil}
    /\ peers[f] \in Keys \cup {Nil}
    /\ conn[f] # "authed" => keyPair[f] = Nil
    /\ conn[f] = "authed" => keyPair[f] # Nil
    /\ sessionKeys[f] \in {Nil, keyPair[f]}

From(q, f) == \E i \in 1 .. Len(q) : q[i].from = f
LastFrom(q, f, k) ==
    \E i \in 1 .. Len(q) : /\ q[i].from = f /\ q[i].key = k
                           /\ \A j \in i + 1 .. Len(q) : q[j].from # f

\* A kx of the daemon is on its way to the relay, or will be sent when the daemon,
\* which has no token, is authenticated.
Answering == conn[Daemon] = "authed" /\ up[Daemon] # << >>
Announcing == conn[Daemon] # "authed" /\ ~token

\* The daemon knows the app's newest key, or has forgotten it in a restart.
Settled(f) ==
    /\ peers[f] \in {Nil, keyPair[f]}
    /\ peers[f] # Nil /\ sessionKeys[f] = Nil => down[f] # << >> \/ Answering
    /\ peers[f] = Nil /\ sessionKeys[f] # Nil => down[f] # << >> \/ Answering \/ Announcing
    /\ peers[f] = Nil /\ sessionKeys[f] = Nil =>
          down[f] # << >> /\ (Len(down[f]) > 1 \/ Answering \/ Announcing)

\* The newest kx of f under way has f's key pair.
NewestInv(f) ==
    conn[f] = "authed" /\ ~lost[f] =>
        \/ up[f] # << >> /\ up[f][Len(up[f])].key = keyPair[f]
        \/ up[f] = << >> /\ LastFrom(down[Daemon], f, keyPair[f])
        \/ up[f] = << >> /\ ~From(down[Daemon], f) /\ Settled(f)

KxTypes ==
    /\ conn \in [Parties -> {"down", "open", "authed", "shut"}]
    /\ token \in BOOLEAN /\ registered \in BOOLEAN
    /\ joined \subseteq Parties
    /\ up \in [Parties -> Seq(Messages)] /\ down \in [Parties -> Seq(Messages)]
    /\ lost \in [Frontends -> BOOLEAN]
    /\ peers \in [Frontends -> Keys \cup {Nil}]
    /\ keyPair \in [Frontends -> Keys \cup {Nil}]
    /\ sessionKeys \in [Frontends -> Keys \cup {Nil}]
    /\ faults \in 0 .. MaxFaults

KxInv ==
    /\ KxTypes /\ DaemonLink
    /\ \A f \in Frontends : AppLink(f) /\ KeyInv(f) /\ NewestInv(f)

\* Messages and their kinds.
LEMMA Kinds ==
    /\ DaemonKx \in Messages /\ DaemonKx.t = "kx" /\ DaemonKx.from = Daemon /\ DaemonKx.from \notin Frontends
    /\ \A f \in Frontends : \A m \in AppKx(f) :
          m \in Messages /\ m \in AppsKx /\ m.t = "kx" /\ m.from = f /\ m.key \in Keys
    /\ \A m \in AppsKx : m.from \in Frontends /\ m \in AppKx(m.from)
    /\ \A t \in {"register", "register.ok", "auth", "resume", "authed", "resumed", "auth.err"} :
          Msg(t) \in Messages /\ Msg(t).t = t /\ Msg(t).from \notin Frontends
    /\ AuthOk(TRUE) = Msg("resumed") /\ AuthOk(FALSE) = Msg("authed")
    /\ Nil \notin Keys /\ Nil \notin Frontends /\ Daemon \notin Frontends
<1>0. Nil \notin Keys /\ Nil \notin Frontends /\ Daemon \notin Frontends
  BY KxAssumption
<1>1. DaemonKx \in Messages /\ DaemonKx.t = "kx" /\ DaemonKx.from = Daemon /\ DaemonKx.from \notin Frontends
  BY <1>0 DEF DaemonKx, Messages, Kx
<1>2. ASSUME NEW f \in Frontends, NEW m \in AppKx(f)
      PROVE  m \in Messages /\ m \in AppsKx /\ m.t = "kx" /\ m.from = f /\ m.key \in Keys
  <2>1. PICK k \in Keys : m = Kx(f, k)
    BY DEF AppKx
  <2> QED BY <2>1 DEF Messages, AppsKx, Kx
<1>3. ASSUME NEW m \in AppsKx PROVE m.from \in Frontends /\ m \in AppKx(m.from)
  <2>1. PICK f \in Frontends : m \in AppKx(f)
    BY DEF AppsKx
  <2> QED BY <2>1, <1>2
<1>4. ASSUME NEW t \in {"register", "register.ok", "auth", "resume", "authed", "resumed", "auth.err"}
      PROVE  Msg(t) \in Messages /\ Msg(t).t = t /\ Msg(t).from \notin Frontends
  BY <1>0 DEF Messages, Msg
<1>5. AuthOk(TRUE) = Msg("resumed") /\ AuthOk(FALSE) = Msg("authed")
  BY DEF AuthOk, Msg
<1> QED BY <1>0, <1>1, <1>2, <1>3, <1>4, <1>5

\* Queues with one more message, and without their first.
LEMMA Queues ==
  ASSUME NEW q \in Seq(Messages)
  PROVE  /\ Len(q) \in Nat
         /\ \A m \in Messages :
               /\ Append(q, m) \in Seq(Messages) /\ Append(q, m) # << >>
               /\ Len(Append(q, m)) = Len(q) + 1
               /\ Append(q, m)[Len(q) + 1] = m
               /\ \A i \in 1 .. Len(q) : Append(q, m)[i] = q[i]
               /\ \A S : Only(q, S) /\ m \in S => Only(Append(q, m), S)
               /\ \A S, n : Opened(q, n, S) /\ m \in S => Opened(Append(q, m), n, S)
         /\ q # << >> =>
               /\ Head(q) = q[1] /\ Head(q) \in Messages
               /\ Tail(q) \in Seq(Messages) /\ Len(Tail(q)) = Len(q) - 1 /\ Len(q) > 0
               /\ \A i \in 1 .. Len(q) - 1 : Tail(q)[i] = q[i + 1]
               /\ \A S : Only(q, S) => Only(Tail(q), S) /\ Head(q) \in S
               /\ \A S, n : Opened(q, n, S) => Only(Tail(q), S)
<1>1. Len(q) \in Nat
  OBVIOUS
<1>2. ASSUME NEW m \in Messages
      PROVE  /\ Append(q, m) \in Seq(Messages) /\ Append(q, m) # << >>
             /\ Len(Append(q, m)) = Len(q) + 1
             /\ Append(q, m)[Len(q) + 1] = m
             /\ \A i \in 1 .. Len(q) : Append(q, m)[i] = q[i]
  OBVIOUS
<1>3. ASSUME NEW m \in Messages, NEW S, Only(q, S), m \in S PROVE Only(Append(q, m), S)
  <2>1. \A i \in 1 .. Len(q) + 1 : i \in 1 .. Len(q) \/ i = Len(q) + 1
    BY <1>1
  <2> QED BY <1>2, <1>3, <2>1 DEF Only
<1>4. ASSUME NEW m \in Messages, NEW S, NEW n, Opened(q, n, S), m \in S PROVE Opened(Append(q, m), n, S)
  <2>1. \A i \in 2 .. Len(q) + 1 : i \in 2 .. Len(q) \/ i = Len(q) + 1
    BY <1>1
  <2>2. 1 \in 1 .. Len(q) /\ \A i \in 2 .. Len(q) : i \in 1 .. Len(q)
    BY <1>4 DEF Opened
  <2> QED BY <1>2, <1>4, <2>1, <2>2 DEF Opened
<1>5. ASSUME q # << >>
      PROVE  /\ Head(q) = q[1] /\ Head(q) \in Messages
             /\ Tail(q) \in Seq(Messages) /\ Len(Tail(q)) = Len(q) - 1 /\ Len(q) > 0
             /\ \A i \in 1 .. Len(q) - 1 : Tail(q)[i] = q[i + 1]
  BY <1>5
<1>6. ASSUME q # << >>, NEW S, Only(q, S) PROVE Only(Tail(q), S) /\ Head(q) \in S
  BY <1>1, <1>5, <1>6 DEF Only
<1>7. ASSUME q # << >>, NEW S, NEW n, Opened(q, n, S) PROVE Only(Tail(q), S)
  BY <1>1, <1>5, <1>7 DEF Only, Opened
<1> QED BY <1>1, <1>2, <1>3, <1>4, <1>5, <1>6, <1>7

\* The last message of f, with one message more or without the first.
LEMMA LastOf ==
  ASSUME NEW q \in Seq(Messages), NEW f
  PROVE  /\ \A m \in Messages :
               /\ m.from = f => LastFrom(Append(q, m), f, m.key)
               /\ m.from # f => (From(Append(q, m), f) <=> From(q, f))
               /\ \A k : m.from # f /\ LastFrom(q, f, k) => LastFrom(Append(q, m), f, k)
         /\ q # << >> =>
               /\ ~From(q, f) => ~From(Tail(q), f)
               /\ \A k : LastFrom(q, f, k) =>
                     \/ LastFrom(Tail(q), f, k)
                     \/ Head(q).from = f /\ Head(q).key = k /\ ~From(Tail(q), f)
<1>1. ASSUME NEW m \in Messages
      PROVE  /\ m.from = f => LastFrom(Append(q, m), f, m.key)
             /\ m.from # f => (From(Append(q, m), f) <=> From(q, f))
  <2>1. Len(q) + 1 \in 1 .. Len(Append(q, m)) /\ \A j \in Len(q) + 2 .. Len(Append(q, m)) : FALSE
    BY Queues
  <2>2. m.from = f => LastFrom(Append(q, m), f, m.key)
    BY <2>1, Queues DEF LastFrom
  <2>3. \A i \in 1 .. Len(q) + 1 : i \in 1 .. Len(q) \/ i = Len(q) + 1
    BY Queues
  <2>4. ASSUME m.from # f PROVE From(Append(q, m), f) <=> From(q, f)
    BY <2>3, <2>4, Queues DEF From
  <2> QED BY <2>2, <2>4
<1>2. ASSUME NEW m \in Messages, NEW k, m.from # f, LastFrom(q, f, k)
      PROVE  LastFrom(Append(q, m), f, k)
  <2>1. PICK i \in 1 .. Len(q) : /\ q[i].from = f /\ q[i].key = k
                                /\ \A j \in i + 1 .. Len(q) : q[j].from # f
    BY <1>2 DEF LastFrom
  <2>2. ASSUME NEW j \in i + 1 .. Len(Append(q, m)) PROVE Append(q, m)[j].from # f
    <3>1. CASE j = Len(q) + 1
      BY <1>2, <3>1, Queues
    <3>2. CASE j # Len(q) + 1
      <4>1. j \in i + 1 .. Len(q) /\ j \in 1 .. Len(q)
        BY <3>2, Queues
      <4> QED BY <2>1, <4>1, Queues
    <3> QED BY <3>1, <3>2
  <2>3. i \in 1 .. Len(Append(q, m)) /\ Append(q, m)[i] = q[i]
    BY Queues
  <2> QED BY <2>1, <2>2, <2>3 DEF LastFrom
<1>3. ASSUME q # << >>, ~From(q, f) PROVE ~From(Tail(q), f)
  BY <1>3, Queues DEF From
<1>4. ASSUME q # << >>, NEW k, LastFrom(q, f, k)
      PROVE  \/ LastFrom(Tail(q), f, k)
             \/ Head(q).from = f /\ Head(q).key = k /\ ~From(Tail(q), f)
  <2>1. PICK i \in 1 .. Len(q) : /\ q[i].from = f /\ q[i].key = k
                                /\ \A j \in i + 1 .. Len(q) : q[j].from # f
    BY <1>4 DEF LastFrom
  <2>2. CASE i = 1
    <3>1. \A j \in 1 .. Len(Tail(q)) : j + 1 \in i + 1 .. Len(q) /\ Tail(q)[j] = q[j + 1]
      BY <1>4, <2>2, Queues
    <3> QED BY <1>4, <2>1, <2>2, <3>1, Queues DEF From
  <2>3. CASE i # 1
    <3>1. i - 1 \in 1 .. Len(Tail(q)) /\ Tail(q)[i - 1] = q[i]
      BY <1>4, <2>3, Queues
    <3>2. \A j \in (i - 1) + 1 .. Len(Tail(q)) : j + 1 \in i + 1 .. Len(q) /\ Tail(q)[j] = q[j + 1]
      BY <1>4, <2>3, Queues
    <3> QED BY <2>1, <3>1, <3>2 DEF LastFrom
  <2> QED BY <2>2, <2>3
<1> QED BY <1>1, <1>2, <1>3, <1>4
LEMMA PartyFacts ==
    /\ Daemon \in Parties /\ Frontends \subseteq Parties /\ Daemon \notin Frontends
    /\ \A x \in Parties : x = Daemon \/ x \in Frontends
BY KxAssumption DEF Parties

\* An app that a step leaves alone.
LEMMA AppKept ==
  ASSUME KxInv, NEW f \in Frontends,
         conn'[f] = conn[f], f \in joined' <=> f \in joined, up'[f] = up[f], down'[f] = down[f],
         keyPair'[f] = keyPair[f], peers'[f] = peers[f], sessionKeys'[f] = sessionKeys[f]
  PROVE  AppLink(f)' /\ KeyInv(f)'
<1>1. AppLink(f) /\ KeyInv(f)
  BY DEF KxInv
<1>2. AppLink(f)'
  BY <1>1 DEF AppLink
<1>3. KeyInv(f)'
  BY <1>1 DEF KeyInv
<1> QED BY <1>2, <1>3

LEMMA NewestKept ==
  ASSUME KxInv, NEW f \in Frontends,
         conn'[f] = conn[f], up'[f] = up[f], down'[f] = down[f],
         keyPair'[f] = keyPair[f], peers'[f] = peers[f], sessionKeys'[f] = sessionKeys[f],
         ~lost'[f] => ~lost[f],
         conn[f] = "authed" /\ ~lost'[f] =>
            /\ \A k : LastFrom(down[Daemon], f, k) => LastFrom(down'[Daemon], f, k)
            /\ ~From(down[Daemon], f) => ~From(down'[Daemon], f)
            /\ Answering => Answering'
            /\ Announcing => Announcing' \/ Answering'
  PROVE  NewestInv(f)'
<1> SUFFICES ASSUME conn'[f] = "authed", ~lost'[f]
             PROVE  \/ up'[f] # << >> /\ up'[f][Len(up'[f])].key = keyPair'[f]
                    \/ up'[f] = << >> /\ LastFrom(down'[Daemon], f, keyPair'[f])
                    \/ up'[f] = << >> /\ ~From(down'[Daemon], f) /\ Settled(f)'
  BY DEF NewestInv
<1>1. \/ up[f] # << >> /\ up[f][Len(up[f])].key = keyPair[f]
      \/ up[f] = << >> /\ LastFrom(down[Daemon], f, keyPair[f])
      \/ up[f] = << >> /\ ~From(down[Daemon], f) /\ Settled(f)
  BY DEF KxInv, NewestInv
<1>2. Settled(f) => Settled(f)'
  BY DEF Settled
<1> QED BY <1>1, <1>2

\* An app that is not authenticated.
LEMMA NewestVacuous ==
  ASSUME NEW f \in Frontends, conn'[f] # "authed" \/ lost'[f]
  PROVE  NewestInv(f)'
BY DEF NewestInv

LEMMA KxInitInv == KxInit => KxInv
<1> SUFFICES ASSUME KxInit PROVE KxInv
  OBVIOUS
<1>1. KxTypes
  <2>1. token \in BOOLEAN /\ registered \in BOOLEAN
    BY Zenon DEF KxInit
  <2>2. << >> \in Seq(Messages) /\ 0 \in 0 .. MaxFaults
    BY KxAssumption
  <2>3. lost \in [Frontends -> BOOLEAN]
    BY Zenon DEF KxInit
  <2> QED BY <2>1, <2>2, <2>3 DEF KxInit, KxTypes
<1>2. DaemonLink
  BY PartyFacts DEF KxInit, DaemonLink
<1>3. ASSUME NEW f \in Frontends PROVE AppLink(f) /\ KeyInv(f) /\ NewestInv(f)
  BY PartyFacts DEF KxInit, AppLink, KeyInv, NewestInv
<1> QED BY <1>1, <1>2, <1>3 DEF KxInv

-----------------------------------------------------------------------------
(* The daemon's steps of the exchange.                                      *)

LEMMA DaemonConnectKeeps ==
  ASSUME KxInv, NEW resume \in BOOLEAN, DaemonConnect(resume) PROVE KxInv'
<1> USE PartyFacts
<1>0. KxTypes /\ DaemonLink
  BY DEF KxInv
<1>1. KxTypes'
  <2>1. <<Msg(IF resume THEN "resume" ELSE "register")>> \in Seq(Messages)
    BY Kinds
  <2> QED BY <1>0, <2>1 DEF KxTypes, DaemonConnect, relayVars
<1>2. DaemonLink'
  <2>1. /\ conn'[Daemon] = "open" /\ Daemon \notin joined' /\ down'[Daemon] = << >>
        /\ up'[Daemon] = <<Msg(IF resume THEN "resume" ELSE "register")>> /\ token' = resume
    BY <1>0 DEF DaemonConnect, DaemonLink, KxTypes, relayVars
  <2> QED BY <2>1 DEF DaemonLink
<1>3. ASSUME NEW f \in Frontends PROVE AppLink(f)' /\ KeyInv(f)' /\ NewestInv(f)'
  <2>1. /\ conn'[f] = conn[f] /\ joined' = joined /\ up'[f] = up[f] /\ down' = down
        /\ keyPair' = keyPair /\ peers' = peers /\ sessionKeys' = sessionKeys /\ lost' = lost
    BY <1>0 DEF DaemonConnect, KxTypes, relayVars
  <2>2. (Answering => Answering') /\ (Announcing => Announcing')
    BY <1>0 DEF DaemonConnect, Answering, Announcing, KxTypes
  <2> QED BY <2>1, <2>2, AppKept, NewestKept
<1> QED BY <1>1, <1>2, <1>3 DEF KxInv

\* What the daemon takes off its queue that is not a kx changes nothing for the apps.
LEMMA DaemonTakesOther ==
  ASSUME KxInv, NEW t \in {"register.ok", "authed", "resumed", "auth.err"}, DaemonTakes(t)
  PROVE  /\ conn[Daemon] = "open"
         /\ down'[Daemon] \in Seq(Messages) /\ down' \in [Parties -> Seq(Messages)]
         /\ \A f \in Frontends : down'[f] = down[f]
         /\ t \in {"register.ok", "auth.err"} =>
              Daemon \notin joined /\ up[Daemon] = << >> /\ down'[Daemon] = << >>
         /\ t \in {"authed", "resumed"} =>
              Daemon \in joined /\ up[Daemon] = << >> /\ Only(down'[Daemon], AppsKx)
         /\ t = "resumed" => token
         /\ \A f \in Frontends :
              /\ \A k : LastFrom(down[Daemon], f, k) => LastFrom(down'[Daemon], f, k)
              /\ ~From(down[Daemon], f) => ~From(down'[Daemon], f)
<1> USE PartyFacts
<1>0. KxTypes /\ DaemonLink
  BY DEF KxInv
<1>1. down[Daemon] \in Seq(Messages) /\ down[Daemon] # << >> /\ Head(down[Daemon]).t = t
  BY <1>0 DEF DaemonTakes, KxTypes
<1>2. /\ down'[Daemon] = Tail(down[Daemon]) /\ \A f \in Frontends : down'[f] = down[f]
      /\ down' \in [Parties -> Seq(Messages)]
  BY <1>0, <1>1, Queues DEF DaemonTakes, KxTypes
<1>3. Head(down[Daemon]) = down[Daemon][1] /\ Head(down[Daemon]) \in Messages
      /\ Tail(down[Daemon]) \in Seq(Messages)
  BY <1>1, Queues
<1>4. ~Only(down[Daemon], AppsKx)
  <2>1. Head(down[Daemon]) \notin AppsKx
    BY <1>1, Kinds
  <2> QED BY <1>1, <2>1, Queues
<1>4a. ASSUME Head(down[Daemon]).from \notin Frontends, NEW f \in Frontends
       PROVE  /\ \A k : LastFrom(down[Daemon], f, k) => LastFrom(Tail(down[Daemon]), f, k)
              /\ ~From(down[Daemon], f) => ~From(Tail(down[Daemon]), f)
  BY <1>1, <1>4a, LastOf
<1>5. CASE Daemon \notin joined
  <2>1. PICK u \in {"register.ok", "auth.err"} : conn[Daemon] = "open" /\ up[Daemon] = << >> /\ down[Daemon] = <<Msg(u)>>
    BY <1>0, <1>1, <1>5 DEF DaemonLink
  <2>2. down[Daemon][1] = Msg(u) /\ Tail(down[Daemon]) = << >>
    BY <2>1
  <2>3. t = u /\ Msg(u).from \notin Frontends
    BY <1>1, <1>3, <2>2, Kinds
  <2> QED BY <1>2, <1>3, <1>4a, <1>5, <2>1, <2>2, <2>3
<1>6. CASE Daemon \in joined
  <2>1. PICK r \in {"authed", "resumed"} :
            /\ conn[Daemon] = "open" /\ up[Daemon] = << >>
            /\ Opened(down[Daemon], Msg(r), AppsKx) /\ (r = "resumed" => token)
    BY <1>0, <1>4, <1>6 DEF DaemonLink
  <2>2. down[Daemon][1] = Msg(r)
    BY <2>1 DEF Opened
  <2>3. t = r /\ Msg(r).from \notin Frontends
    BY <1>1, <1>3, <2>2, Kinds
  <2>4. Only(Tail(down[Daemon]), AppsKx)
    BY <1>1, <2>1, Queues
  <2>5. Head(down[Daemon]).from \notin Frontends
    BY <1>3, <2>2, <2>3
  <2> QED BY <1>2, <1>3, <1>4a, <1>6, <2>1, <2>3, <2>4, <2>5
<1> QED BY <1>5, <1>6
LEMMA DaemonRegisterOkKeeps ==
  ASSUME KxInv, DaemonRegisterOk PROVE KxInv'
<1> USE PartyFacts
<1>0. KxTypes /\ DaemonLink
  BY DEF KxInv
<1>t. DaemonTakes("register.ok")
  BY DEF DaemonRegisterOk
<1>d. /\ conn[Daemon] = "open" /\ Daemon \notin joined /\ up[Daemon] = << >> /\ down'[Daemon] = << >>
      /\ down' \in [Parties -> Seq(Messages)] /\ \A f \in Frontends : down'[f] = down[f]
      /\ \A f \in Frontends :
              /\ \A k : LastFrom(down[Daemon], f, k) => LastFrom(down'[Daemon], f, k)
              /\ ~From(down[Daemon], f) => ~From(down'[Daemon], f)
  BY <1>t, DaemonTakesOther
<1>u. up' = [up EXCEPT ![Daemon] = <<Msg("auth")>>]
  BY <1>d DEF DaemonRegisterOk, DaemonSends
<1>r. /\ conn' = conn /\ token' = token /\ joined' = joined /\ registered' = registered
      /\ keyPair' = keyPair /\ peers' = peers /\ sessionKeys' = sessionKeys
      /\ lost' = lost /\ faults' = faults
  BY DEF DaemonRegisterOk, clientVars, relayVars
<1>1. KxTypes'
  <2>1. <<Msg("auth")>> \in Seq(Messages)
    BY Kinds
  <2> QED BY <1>0, <1>d, <1>u, <1>r, <2>1 DEF KxTypes
<1>2. DaemonLink'
  BY <1>0, <1>d, <1>u, <1>r DEF DaemonLink, KxTypes
<1>3. ASSUME NEW f \in Frontends PROVE AppLink(f)' /\ KeyInv(f)' /\ NewestInv(f)'
  <2>1. up'[f] = up[f]
    BY <1>0, <1>u DEF KxTypes
  <2>2. (Answering => Answering') /\ (Announcing => Announcing')
    BY <1>d, <1>r DEF Answering, Announcing
  <2> QED BY <1>d, <1>r, <2>1, <2>2, AppKept, NewestKept
<1> QED BY <1>1, <1>2, <1>3 DEF KxInv

LEMMA DaemonAuthErrKeeps ==
  ASSUME KxInv, DaemonAuthErr PROVE KxInv'
<1> USE PartyFacts
<1>0. KxTypes /\ DaemonLink
  BY DEF KxInv
<1>t. DaemonTakes("auth.err")
  BY DEF DaemonAuthErr
<1>d. /\ conn[Daemon] = "open" /\ Daemon \notin joined /\ up[Daemon] = << >> /\ down'[Daemon] = << >>
      /\ down' \in [Parties -> Seq(Messages)] /\ \A f \in Frontends : down'[f] = down[f]
      /\ \A f \in Frontends :
              /\ \A k : LastFrom(down[Daemon], f, k) => LastFrom(down'[Daemon], f, k)
              /\ ~From(down[Daemon], f) => ~From(down'[Daemon], f)
  BY <1>t, DaemonTakesOther
<1>r. /\ conn' = [conn EXCEPT ![Daemon] = "shut"] /\ token' = FALSE /\ joined' = joined
      /\ registered' = registered /\ up' = up
      /\ keyPair' = keyPair /\ peers' = peers /\ sessionKeys' = sessionKeys
      /\ lost' = lost /\ faults' = faults
  BY DEF DaemonAuthErr, relayVars
<1>1. KxTypes'
  BY <1>0, <1>d, <1>r DEF KxTypes
<1>2. DaemonLink'
  BY <1>0, <1>d, <1>r DEF DaemonLink, KxTypes
<1>3. ASSUME NEW f \in Frontends PROVE AppLink(f)' /\ KeyInv(f)' /\ NewestInv(f)'
  <2>1. conn'[f] = conn[f]
    BY <1>0, <1>r DEF KxTypes
  <2>2. (Answering => Answering') /\ (Announcing => Announcing')
    BY <1>0, <1>d, <1>r DEF Answering, Announcing, KxTypes
  <2> QED BY <1>d, <1>r, <2>1, <2>2, AppKept, NewestKept
<1> QED BY <1>1, <1>2, <1>3 DEF KxInv

\* A daemon without a token announces its key, so apps it has forgotten hear of it.
LEMMA DaemonAuthOkKeeps ==
  ASSUME KxInv, NEW resumed \in BOOLEAN, DaemonAuthOk(resumed) PROVE KxInv'
<1> USE PartyFacts
<1>0. KxTypes /\ DaemonLink
  BY DEF KxInv
<1>t. PICK t \in {"authed", "resumed"} : DaemonTakes(t) /\ (resumed => t = "resumed")
  BY DEF DaemonAuthOk, AuthOk
<1>d. /\ conn[Daemon] = "open" /\ Daemon \in joined /\ up[Daemon] = << >> /\ Only(down'[Daemon], AppsKx)
      /\ down' \in [Parties -> Seq(Messages)] /\ \A f \in Frontends : down'[f] = down[f]
      /\ resumed => token
      /\ \A f \in Frontends :
              /\ \A k : LastFrom(down[Daemon], f, k) => LastFrom(down'[Daemon], f, k)
              /\ ~From(down[Daemon], f) => ~From(down'[Daemon], f)
  BY <1>t, DaemonTakesOther
<1>u. \/ up' = up /\ resumed
      \/ up' = [up EXCEPT ![Daemon] = <<DaemonKx>>]
  <2>1. Append(up[Daemon], DaemonKx) = <<DaemonKx>>
    BY <1>d
  <2> QED BY <1>d, <2>1 DEF DaemonAuthOk, SkipAnnouncement, DaemonSends, DaemonKx
<1>r. /\ conn' = [conn EXCEPT ![Daemon] = "authed"] /\ token' = TRUE /\ joined' = joined
      /\ registered' = registered
      /\ keyPair' = keyPair /\ peers' = peers /\ sessionKeys' = sessionKeys
      /\ lost' = lost /\ faults' = faults
  BY DEF DaemonAuthOk, relayVars
<1>1. KxTypes'
  <2>1. <<DaemonKx>> \in Seq(Messages)
    BY Kinds
  <2>2. up' \in [Parties -> Seq(Messages)]
    BY <1>0, <1>u, <2>1 DEF KxTypes
  <2> QED BY <1>0, <1>d, <1>r, <2>2 DEF KxTypes
<1>2. DaemonLink'
  <2>1. Only(up'[Daemon], {DaemonKx})
    BY <1>0, <1>d, <1>u DEF Only, KxTypes
  <2> QED BY <1>0, <1>d, <1>r, <2>1 DEF DaemonLink, KxTypes
<1>3. ASSUME NEW f \in Frontends PROVE AppLink(f)' /\ KeyInv(f)' /\ NewestInv(f)'
  <2>1. conn'[f] = conn[f] /\ up'[f] = up[f]
    BY <1>0, <1>u, <1>r DEF KxTypes
  <2>2. (Answering => Answering') /\ (Announcing => Answering')
    <3>1. ~Answering /\ (Announcing => ~resumed)
      BY <1>d DEF Answering, Announcing
    <3>2. ASSUME ~resumed PROVE up'[Daemon] # << >>
      <4>1. up' = [up EXCEPT ![Daemon] = <<DaemonKx>>]
        BY <1>u, <3>2
      <4> QED BY <1>0, <4>1 DEF KxTypes
    <3>3. conn'[Daemon] = "authed"
      BY <1>0, <1>r DEF KxTypes
    <3> QED BY <3>1, <3>2, <3>3 DEF Answering
  <2> QED BY <1>d, <1>r, <2>1, <2>2, AppKept, NewestKept
<1> QED BY <1>1, <1>2, <1>3 DEF KxInv

\* A kx of f is taken: it was the newest, and the daemon answers, or others follow.
LEMMA HandleKxFrameKeeps ==
  ASSUME KxInv, HandleKxFrame PROVE KxInv'
<1> USE PartyFacts
<1>0. KxTypes /\ DaemonLink
  BY DEF KxInv
<1>q. down[Daemon] \in Seq(Messages) /\ down[Daemon] # << >> /\ Head(down[Daemon]).t = "kx"
      /\ up[Daemon] \in Seq(Messages)
  BY <1>0 DEF HandleKxFrame, DaemonTakes, KxTypes
<1>h. Head(down[Daemon]) = down[Daemon][1]
  BY <1>q, Queues
<1>a. /\ conn[Daemon] = "authed" /\ Daemon \in joined
      /\ Only(up[Daemon], {DaemonKx}) /\ Only(down[Daemon], AppsKx)
  <2>1. \A t \in {"register.ok", "auth.err"} : down[Daemon] # <<Msg(t)>>
    BY <1>q, Kinds
  <2>2. \A t \in {"authed", "resumed"} : ~Opened(down[Daemon], Msg(t), AppsKx)
    BY <1>q, <1>h, Kinds DEF Opened
  <2> QED BY <1>0, <1>q, <2>1, <2>2 DEF DaemonLink
<1>m. PICK g \in Frontends, k \in Keys : Head(down[Daemon]).from = g /\ Head(down[Daemon]).key = k
  <2>1. Head(down[Daemon]) \in AppsKx
    BY <1>q, <1>a, Queues
  <2> QED BY <2>1, Kinds
<1>r. /\ down' = [down EXCEPT ![Daemon] = Tail(@)]
      /\ up' = [up EXCEPT ![Daemon] = Append(@, DaemonKx)]
      /\ peers' = [peers EXCEPT ![g] = k]
      /\ conn' = conn /\ token' = token /\ joined' = joined /\ registered' = registered
      /\ keyPair' = keyPair /\ sessionKeys' = sessionKeys
      /\ lost' = lost /\ faults' = faults
  BY <1>a, <1>m DEF HandleKxFrame, DaemonTakes, AnswerKx, DaemonSends, DaemonKx, relayVars
<1>s. Tail(down[Daemon]) \in Seq(Messages) /\ Append(up[Daemon], DaemonKx) \in Seq(Messages)
      /\ Append(up[Daemon], DaemonKx) # << >>
  BY <1>q, Queues, Kinds
<1>1. KxTypes'
  BY <1>0, <1>r, <1>s DEF KxTypes
<1>2. DaemonLink'
  <2>1. Only(Append(up[Daemon], DaemonKx), {DaemonKx}) /\ Only(Tail(down[Daemon]), AppsKx)
    BY <1>q, <1>a, Queues, Kinds
  <2> QED BY <1>0, <1>a, <1>r, <2>1 DEF DaemonLink, KxTypes
<1>p. /\ down'[Daemon] = Tail(down[Daemon]) /\ up'[Daemon] # << >> /\ Answering'
      /\ \A f \in Frontends : up'[f] = up[f] /\ down'[f] = down[f]
  BY <1>0, <1>a, <1>r, <1>s DEF KxTypes, Answering
<1>3. ASSUME NEW f \in Frontends, f # g PROVE AppLink(f)' /\ KeyInv(f)' /\ NewestInv(f)'
  <2>1. peers'[f] = peers[f]
    BY <1>0, <1>r, <1>3 DEF KxTypes
  <2>2. /\ \A j : LastFrom(down[Daemon], f, j) => LastFrom(down'[Daemon], f, j)
        /\ ~From(down[Daemon], f) => ~From(down'[Daemon], f)
    BY <1>q, <1>m, <1>p, <1>3, LastOf
  <2> QED BY <1>r, <1>p, <2>1, <2>2, AppKept, NewestKept
<1>4. AppLink(g)' /\ KeyInv(g)' /\ NewestInv(g)'
  <2>0. AppLink(g) /\ KeyInv(g) /\ NewestInv(g)
    BY DEF KxInv
  <2>1. peers'[g] = k
    BY <1>0, <1>r DEF KxTypes
  <2>2. AppLink(g)'
    BY <2>0, <1>r, <1>p DEF AppLink
  <2>3. KeyInv(g)'
    BY <2>0, <2>1, <1>r DEF KeyInv
  <2>4. ASSUME conn[g] = "authed", ~lost[g]
        PROVE  \/ up[g] # << >> /\ up[g][Len(up[g])].key = keyPair[g]
               \/ up[g] = << >> /\ LastFrom(down'[Daemon], g, keyPair[g])
               \/ up[g] = << >> /\ ~From(down'[Daemon], g) /\ Settled(g)'
    <3>1. From(down[Daemon], g)
      BY <1>q, <1>h, <1>m, Queues DEF From
    <3>2. CASE up[g] # << >>
      BY <2>0, <2>4, <3>2 DEF NewestInv
    <3>3. CASE up[g] = << >>
      <4>1. LastFrom(down[Daemon], g, keyPair[g])
        BY <2>0, <2>4, <3>1, <3>3 DEF NewestInv
      <4>2. \/ LastFrom(down'[Daemon], g, keyPair[g])
            \/ k = keyPair[g] /\ ~From(down'[Daemon], g)
        <5>1. \/ LastFrom(Tail(down[Daemon]), g, keyPair[g])
              \/ Head(down[Daemon]).key = keyPair[g] /\ ~From(Tail(down[Daemon]), g)
          BY <4>1, <1>q, LastOf
        <5> QED BY <5>1, <1>m, <1>p
      <4>3. k = keyPair[g] => Settled(g)'
        BY <2>1, <1>p, <1>r, Kinds DEF Settled
      <4> QED BY <3>3, <4>2, <4>3
    <3> QED BY <3>2, <3>3
  <2>5. NewestInv(g)'
    BY <2>4, <1>r, <1>p DEF NewestInv
  <2> QED BY <2>2, <2>3, <2>5
<1> QED BY <1>1, <1>2, <1>3, <1>4 DEF KxInv
-----------------------------------------------------------------------------
(* The apps' steps of the exchange.                                         *)

LEMMA DaemonKept ==
  ASSUME DaemonLink, conn'[Daemon] = conn[Daemon], Daemon \in joined' <=> Daemon \in joined,
         up'[Daemon] = up[Daemon], down'[Daemon] = down[Daemon], token' = token
  PROVE  DaemonLink' /\ (Answering' <=> Answering) /\ (Announcing' <=> Announcing)
<1>1. DaemonLink'
  BY DEF DaemonLink
<1>2. (Answering' <=> Answering) /\ (Announcing' <=> Announcing)
  BY DEF Answering, Announcing
<1> QED BY <1>1, <1>2

\* What an app's step leaves alone.
LEMMA OthersKept ==
  ASSUME KxInv, NEW g \in Frontends, token' = token, peers' = peers,
         \A x \in Parties \ {g} : /\ conn'[x] = conn[x] /\ up'[x] = up[x] /\ down'[x] = down[x]
                                  /\ x \in joined' <=> x \in joined,
         \A f \in Frontends \ {g} : /\ keyPair'[f] = keyPair[f] /\ sessionKeys'[f] = sessionKeys[f]
                                    /\ lost'[f] = lost[f],
         KxTypes', AppLink(g)' /\ KeyInv(g)' /\ NewestInv(g)'
  PROVE  KxInv'
<1> USE PartyFacts
<1>1. Daemon \in Parties \ {g}
  OBVIOUS
<1>2. DaemonLink' /\ (Answering' <=> Answering) /\ (Announcing' <=> Announcing)
  BY <1>1, DaemonKept DEF KxInv
<1>3. ASSUME NEW f \in Frontends, f # g PROVE AppLink(f)' /\ KeyInv(f)' /\ NewestInv(f)'
  <2>1. f \in Parties \ {g} /\ f \in Frontends \ {g}
    BY <1>3
  <2>2. down'[Daemon] = down[Daemon]
    BY <1>1
  <2> QED BY <1>2, <2>1, <2>2, AppKept, NewestKept
<1> QED BY <1>2, <1>3 DEF KxInv

LEMMA FreshKeyFound == ASSUME NEW f, Keys \ InUse(f) # {} PROVE FreshKey(f) \in Keys
BY DEF FreshKey

LEMMA AppConnectKeeps ==
  ASSUME KxInv, NEW g \in Frontends, AppConnect(g) PROVE KxInv'
<1> USE PartyFacts
<1>0. KxTypes /\ AppLink(g) /\ KeyInv(g)
  BY DEF KxInv
<1>1. KxTypes'
  <2>1. <<Msg("auth")>> \in Seq(Messages)
    BY Kinds
  <2> QED BY <1>0, <2>1 DEF KxTypes, AppConnect, relayVars
<1>2. /\ conn'[g] = "open" /\ conn[g] = "down" /\ up'[g] = <<Msg("auth")>> /\ g \notin joined' /\ down'[g] = << >>
      /\ keyPair' = keyPair /\ sessionKeys' = sessionKeys /\ peers' = peers
  BY <1>0 DEF AppLink, AppConnect, KxTypes, relayVars
<1>3. AppLink(g)' /\ KeyInv(g)'
  BY <1>0, <1>2 DEF AppLink, KeyInv
<1>4. NewestInv(g)'
  BY <1>2, NewestVacuous
<1>5. /\ token' = token /\ lost' = lost /\ joined' = joined
      /\ \A x \in Parties \ {g} : conn'[x] = conn[x] /\ up'[x] = up[x] /\ down'[x] = down[x]
  BY <1>0 DEF AppConnect, KxTypes, relayVars
<1> QED BY <1>1, <1>2, <1>3, <1>4, <1>5, OthersKept

\* What an app takes off its queue tells where its connection is.
LEMMA AppTakesWhen ==
  ASSUME KxInv, NEW g \in Frontends, NEW t, AppTakes(g, t)
  PROVE  /\ down[g] \in Seq(Messages) /\ down[g] # << >>
         /\ down' \in [Parties -> Seq(Messages)]
         /\ down'[g] = Tail(down[g]) /\ \A x \in Parties \ {g} : down'[x] = down[x]
         /\ t = "authed" => /\ conn[g] = "open" /\ g \in joined /\ up[g] = << >>
                            /\ Only(Tail(down[g]), {DaemonKx})
         /\ t = "kx" => /\ conn[g] = "authed" /\ g \in joined
                        /\ Only(up[g], AppKx(g)) /\ Only(down[g], {DaemonKx})
                        /\ Only(Tail(down[g]), {DaemonKx})
<1> USE PartyFacts
<1>0. KxTypes /\ AppLink(g)
  BY DEF KxInv
<1>1. down[g] \in Seq(Messages) /\ down[g] # << >> /\ Head(down[g]).t = t
  BY <1>0 DEF AppTakes, KxTypes
<1>2. Head(down[g]) = down[g][1] /\ Tail(down[g]) \in Seq(Messages)
  BY <1>1, Queues
<1>3. down' \in [Parties -> Seq(Messages)]
      /\ down'[g] = Tail(down[g]) /\ \A x \in Parties \ {g} : down'[x] = down[x]
  BY <1>0, <1>2 DEF AppTakes, KxTypes
<1>4. down[g] = <<Msg("auth.err")>> => t = "auth.err"
  BY <1>1, Kinds
<1>5. Opened(down[g], Msg("authed"), {DaemonKx}) => t = "authed" /\ Only(Tail(down[g]), {DaemonKx})
  <2>1. Opened(down[g], Msg("authed"), {DaemonKx}) => Only(Tail(down[g]), {DaemonKx})
    BY <1>1, Queues
  <2> QED BY <1>1, <1>2, <2>1, Kinds DEF Opened
<1>6. Only(down[g], {DaemonKx}) => t = "kx" /\ Only(Tail(down[g]), {DaemonKx})
  <2>1. Only(down[g], {DaemonKx}) => Only(Tail(down[g]), {DaemonKx}) /\ Head(down[g]) \in {DaemonKx}
    BY <1>1, Queues
  <2> QED BY <1>1, <2>1, Kinds
<1> QED BY <1>0, <1>1, <1>3, <1>4, <1>5, <1>6 DEF AppLink

\* A new exchange: the newest kx has the app's new key pair.
LEMMA StartedInv ==
  ASSUME KxInv, NEW g \in Frontends, StartKeyExchange(g)
  PROVE  /\ keyPair' = [keyPair EXCEPT ![g] = FreshKey(g)]
         /\ FreshKey(g) \in Keys /\ FreshKey(g) # Nil
         /\ keyPair' \in [Frontends -> Keys \cup {Nil}] /\ lost' \in [Frontends -> BOOLEAN]
         /\ keyPair'[g] = FreshKey(g)
         /\ \A f \in Frontends \ {g} : keyPair'[f] = keyPair[f] /\ lost'[f] = lost[f]
         /\ up' \in [Parties -> Seq(Messages)]
         /\ \A x \in Parties \ {g} : up'[x] = up[x]
         /\ Only(up[g], AppKx(g)) => Only(up'[g], AppKx(g))
         /\ NewestInv(g)'
<1> USE PartyFacts
<1>0. KxTypes
  BY DEF KxInv
<1>1. FreshKey(g) \in Keys /\ FreshKey(g) # Nil
  BY FreshKeyFound, Kinds DEF StartKeyExchange
<1>2. keyPair' = [keyPair EXCEPT ![g] = FreshKey(g)] /\ lost' = [lost EXCEPT ![g] = FALSE]
  BY DEF StartKeyExchange
<1>3. keyPair' \in [Frontends -> Keys \cup {Nil}] /\ keyPair'[g] = FreshKey(g)
      /\ \A f \in Frontends \ {g} : keyPair'[f] = keyPair[f]
  BY <1>0, <1>1, <1>2 DEF KxTypes
<1>4. lost' \in [Frontends -> BOOLEAN] /\ \A f \in Frontends \ {g} : lost'[f] = lost[f]
  BY <1>0, <1>2 DEF KxTypes
<1>5. PICK m \in AppKx(g) : m = Kx(g, FreshKey(g)) /\ m.key = FreshKey(g) /\ m \in Messages
  <2>1. Kx(g, FreshKey(g)) \in AppKx(g) /\ Kx(g, FreshKey(g)).key = FreshKey(g)
    BY <1>1 DEF AppKx, Kx
  <2> QED BY <2>1, Kinds
<1>6. up[g] \in Seq(Messages) /\ up' = [up EXCEPT ![g] = Append(@, m)]
  BY <1>0, <1>5 DEF StartKeyExchange, KxTypes
<1>7. up'[g] = Append(up[g], m) /\ up' \in [Parties -> Seq(Messages)] /\ \A x \in Parties \ {g} : up'[x] = up[x]
  <2>1. Append(up[g], m) \in Seq(Messages)
    BY <1>5, <1>6, Queues
  <2> QED BY <1>0, <1>6, <2>1 DEF KxTypes
<1>8. Only(up[g], AppKx(g)) => Only(up'[g], AppKx(g))
  BY <1>5, <1>6, <1>7, Queues
<1>9. up'[g] # << >> /\ up'[g][Len(up'[g])].key = keyPair'[g]
  BY <1>3, <1>5, <1>6, <1>7, Queues
<1>10. NewestInv(g)'
  BY <1>9 DEF NewestInv
<1> QED BY <1>1, <1>2, <1>3, <1>4, <1>7, <1>8, <1>10

LEMMA OnAuthOkKeeps ==
  ASSUME KxInv, NEW g \in Frontends, OnAuthOk(g) PROVE KxInv'
<1> USE PartyFacts
<1>0. KxTypes /\ AppLink(g) /\ KeyInv(g)
  BY DEF KxInv
<1>1. AppTakes(g, "authed") /\ StartKeyExchange(g)
  BY DEF OnAuthOk
<1>2. /\ conn[g] = "open" /\ g \in joined /\ up[g] = << >> /\ Only(down'[g], {DaemonKx})
      /\ down' \in [Parties -> Seq(Messages)]
      /\ \A x \in Parties \ {g} : down'[x] = down[x]
  BY <1>1, AppTakesWhen
<1>3. /\ conn' = [conn EXCEPT ![g] = "authed"] /\ token' = token /\ joined' = joined
      /\ registered' = registered /\ peers' = peers /\ sessionKeys' = sessionKeys /\ faults' = faults
  BY DEF OnAuthOk, relayVars
<1>4. /\ keyPair' \in [Frontends -> Keys \cup {Nil}] /\ lost' \in [Frontends -> BOOLEAN]
      /\ keyPair'[g] = FreshKey(g) /\ FreshKey(g) \in Keys /\ FreshKey(g) # Nil
      /\ \A f \in Frontends \ {g} : keyPair'[f] = keyPair[f] /\ lost'[f] = lost[f]
      /\ up' \in [Parties -> Seq(Messages)]
      /\ \A x \in Parties \ {g} : up'[x] = up[x]
      /\ Only(up[g], AppKx(g)) => Only(up'[g], AppKx(g))
      /\ NewestInv(g)'
  BY <1>1, StartedInv
<1>5. KxTypes'
  BY <1>0, <1>2, <1>3, <1>4 DEF KxTypes
<1>6. AppLink(g)'
  <2>1. Only(up[g], AppKx(g))
    BY <1>2 DEF Only
  <2> QED BY <1>0, <1>2, <1>3, <1>4, <2>1 DEF AppLink, KxTypes
<1>7. KeyInv(g)'
  BY <1>0, <1>2, <1>3, <1>4 DEF KeyInv, KxTypes
<1>8. \A x \in Parties \ {g} : conn'[x] = conn[x]
  BY <1>0, <1>3 DEF KxTypes
<1> QED BY <1>2, <1>3, <1>4, <1>5, <1>6, <1>7, <1>8, OthersKept

LEMMA OnAuthErrKeeps ==
  ASSUME KxInv, NEW g \in Frontends, OnAuthErr(g) PROVE KxInv'
<1> USE PartyFacts
<1>0. KxTypes /\ AppLink(g) /\ KeyInv(g)
  BY DEF KxInv
<1>1. conn[g] # "authed"
  <2>1. down[g] \in Seq(Messages) /\ down[g] # << >> /\ Head(down[g]).t = "auth.err"
    BY <1>0 DEF KxTypes, OnAuthErr
  <2>2. ~Only(down[g], {DaemonKx})
    <3>1. Head(down[g]) # DaemonKx
      BY <2>1, Kinds
    <3> QED BY <2>1, <3>1, Queues
  <2> QED BY <1>0, <2>2 DEF AppLink
<1>2. KxTypes'
  <2>1. << >> \in Seq(Messages)
    OBVIOUS
  <2> QED BY <1>0, <2>1 DEF KxTypes, OnAuthErr
<1>3. /\ conn'[g] = "down" /\ up'[g] = << >> /\ down'[g] = << >> /\ g \notin joined'
      /\ keyPair' = keyPair /\ sessionKeys' = sessionKeys /\ peers' = peers /\ token' = token
      /\ lost' = lost
      /\ \A x \in Parties \ {g} : /\ conn'[x] = conn[x] /\ up'[x] = up[x] /\ down'[x] = down[x]
                                  /\ x \in joined' <=> x \in joined
  BY <1>0 DEF OnAuthErr, KxTypes
<1>4. AppLink(g)' /\ KeyInv(g)'
  BY <1>0, <1>1, <1>3 DEF AppLink, KeyInv
<1>5. NewestInv(g)'
  BY <1>3, NewestVacuous
<1> QED BY <1>2, <1>3, <1>4, <1>5, OthersKept

LEMMA OnKeyExchangeFrameKeeps ==
  ASSUME KxInv, NEW g \in Frontends, OnKeyExchangeFrame(g) PROVE KxInv'
<1> USE PartyFacts
<1>0. KxTypes /\ AppLink(g) /\ KeyInv(g) /\ NewestInv(g)
  BY DEF KxInv
<1>1. AppTakes(g, "kx")
  BY DEF OnKeyExchangeFrame
<1>2. /\ conn[g] = "authed" /\ g \in joined /\ Only(up[g], AppKx(g)) /\ Only(down'[g], {DaemonKx})
      /\ down[g] \in Seq(Messages) /\ down[g] # << >> /\ down'[g] = Tail(down[g])
      /\ down' \in [Parties -> Seq(Messages)]
      /\ \A x \in Parties \ {g} : down'[x] = down[x]
  BY <1>1, AppTakesWhen
<1>3. /\ conn' = conn /\ token' = token /\ joined' = joined
      /\ registered' = registered /\ peers' = peers /\ faults' = faults
  BY DEF OnKeyExchangeFrame, relayVars
<1>4. keyPair[g] # Nil
  BY <1>0, <1>2 DEF KeyInv
<1>5. CASE sessionKeys[g] = Nil
  <2>1. sessionKeys' = [sessionKeys EXCEPT ![g] = keyPair[g]] /\ keyPair' = keyPair /\ up' = up /\ lost' = lost
    BY <1>4, <1>5 DEF OnKeyExchangeFrame
  <2>2. KxTypes'
    BY <1>0, <1>2, <1>3, <2>1 DEF KxTypes
  <2>3. AppLink(g)'
    BY <1>2, <1>3, <2>1 DEF AppLink
  <2>4. sessionKeys'[g] = keyPair[g] /\ \A f \in Frontends \ {g} : sessionKeys'[f] = sessionKeys[f]
    BY <1>0, <2>1 DEF KxTypes
  <2>5. KeyInv(g)'
    BY <1>0, <1>3, <2>1, <2>4 DEF KeyInv
  <2>6. DaemonLink' /\ (Answering' <=> Answering) /\ (Announcing' <=> Announcing) /\ down'[Daemon] = down[Daemon]
    BY <1>2, <1>3, <2>1, DaemonKept DEF KxInv
  <2>7. Settled(g) => Settled(g)'
    <3>1. Len(down[g]) > 1 => down'[g] # << >>
      <4>1. Len(down[g]) \in Nat /\ Len(down'[g]) = Len(down[g]) - 1
        BY <1>2, Queues
      <4> QED BY <4>1
    <3> QED BY <1>2, <1>3, <1>4, <1>5, <2>1, <2>4, <2>6, <3>1 DEF Settled
  <2>8. NewestInv(g)'
    BY <1>0, <1>3, <2>1, <2>6, <2>7 DEF NewestInv
  <2> QED BY <1>2, <1>3, <2>1, <2>2, <2>3, <2>4, <2>5, <2>8, OthersKept
<1>6. CASE sessionKeys[g] # Nil
  <2>1. StartKeyExchange(g) /\ sessionKeys' = [sessionKeys EXCEPT ![g] = FreshKey(g)]
    BY <1>4, <1>6 DEF OnKeyExchangeFrame, ReKey
  <2>2. /\ keyPair' \in [Frontends -> Keys \cup {Nil}] /\ lost' \in [Frontends -> BOOLEAN]
        /\ keyPair'[g] = FreshKey(g) /\ FreshKey(g) \in Keys /\ FreshKey(g) # Nil
        /\ \A f \in Frontends \ {g} : keyPair'[f] = keyPair[f] /\ lost'[f] = lost[f]
        /\ up' \in [Parties -> Seq(Messages)]
        /\ \A x \in Parties \ {g} : up'[x] = up[x]
        /\ Only(up'[g], AppKx(g))
        /\ NewestInv(g)'
    BY <1>2, <2>1, StartedInv
  <2>3. KxTypes'
    BY <1>0, <1>2, <1>3, <2>1, <2>2 DEF KxTypes
  <2>4. AppLink(g)'
    BY <1>2, <1>3, <2>2 DEF AppLink
  <2>5. sessionKeys'[g] = FreshKey(g) /\ \A f \in Frontends \ {g} : sessionKeys'[f] = sessionKeys[f]
    BY <1>0, <2>1 DEF KxTypes
  <2>6. KeyInv(g)'
    BY <1>0, <1>2, <1>3, <2>2, <2>5 DEF KeyInv
  <2> QED BY <1>2, <1>3, <2>2, <2>3, <2>4, <2>5, <2>6, OthersKept
<1> QED BY <1>5, <1>6
-----------------------------------------------------------------------------
(* The relay's steps of the exchange.                                       *)

\* What the relay takes from the daemon, and what is still to be sent to it.
LEMMA RelayRegisterKeeps ==
  ASSUME KxInv, RelayRegister PROVE KxInv'
<1> USE PartyFacts
<1>0. KxTypes /\ DaemonLink
  BY DEF KxInv
<1>1. up[Daemon] \in Seq(Messages) /\ up[Daemon] # << >> /\ Head(up[Daemon]).t = "register"
  BY <1>0 DEF RelayRegister, RelayTakes, KxTypes
<1>2. /\ conn[Daemon] = "open" /\ Daemon \notin joined /\ down[Daemon] = << >>
      /\ Tail(up[Daemon]) = << >>
  <2>1. ~Only(up[Daemon], {DaemonKx})
    <3>1. Head(up[Daemon]) # DaemonKx
      BY <1>1, Kinds
    <3> QED BY <1>1, <3>1, Queues
  <2>2. PICK u \in {"register", "auth", "resume"} :
           /\ conn[Daemon] = "open" /\ Daemon \notin joined /\ down[Daemon] = << >>
           /\ up[Daemon] = <<Msg(u)>>
    BY <1>0, <1>1, <2>1 DEF DaemonLink
  <2> QED BY <2>2
<1>3. /\ up' = [up EXCEPT ![Daemon] = << >>] /\ down' = [down EXCEPT ![Daemon] = <<Msg("register.ok")>>]
      /\ registered' = TRUE
      /\ conn' = conn /\ token' = token /\ joined' = joined
      /\ keyPair' = keyPair /\ peers' = peers /\ sessionKeys' = sessionKeys
      /\ lost' = lost /\ faults' = faults
  <2>1. Append(down[Daemon], Msg("register.ok")) = <<Msg("register.ok")>>
    BY <1>2
  <2> QED BY <1>2, <2>1 DEF RelayRegister, RelayTakes, RelayReplies, clientVars
<1>4. KxTypes'
  <2>1. <<Msg("register.ok")>> \in Seq(Messages) /\ << >> \in Seq(Messages)
    BY Kinds
  <2> QED BY <1>0, <1>3, <2>1 DEF KxTypes
<1>5. down'[Daemon] = <<Msg("register.ok")>> /\ up'[Daemon] = << >>
      /\ \A f \in Frontends : up'[f] = up[f] /\ down'[f] = down[f]
  BY <1>0, <1>3 DEF KxTypes
<1>6. DaemonLink'
  BY <1>2, <1>3, <1>5 DEF DaemonLink
<1>7. ASSUME NEW f \in Frontends PROVE AppLink(f)' /\ KeyInv(f)' /\ NewestInv(f)'
  <2>1. (Answering => Answering') /\ (Announcing => Announcing')
    BY <1>2, <1>3 DEF Answering, Announcing
  <2>2. /\ \A k : LastFrom(down[Daemon], f, k) => LastFrom(down'[Daemon], f, k)
        /\ ~From(down'[Daemon], f)
    <3>1. \A k : ~LastFrom(down[Daemon], f, k)
      BY <1>2 DEF LastFrom
    <3>2. Msg("register.ok").from # f
      BY Kinds
    <3> QED BY <1>5, <3>1, <3>2 DEF From
  <2> QED BY <1>3, <1>5, <2>1, <2>2, AppKept, NewestKept
<1> QED BY <1>4, <1>6, <1>7 DEF KxInv

LEMMA RelayAuthDaemonKeeps ==
  ASSUME KxInv, NEW resumed \in BOOLEAN, RelayAuth(Daemon, resumed) PROVE KxInv'
<1> USE PartyFacts
<1>0. KxTypes /\ DaemonLink
  BY DEF KxInv
<1>1. PICK t \in {"auth", "resume"} :
         /\ up[Daemon] \in Seq(Messages) /\ up[Daemon] # << >> /\ Head(up[Daemon]).t = t
         /\ resumed <=> t = "resume"
  BY <1>0 DEF RelayAuth, RelayTakes, KxTypes
<1>2. /\ conn[Daemon] = "open" /\ Daemon \notin joined /\ down[Daemon] = << >>
      /\ Tail(up[Daemon]) = << >> /\ (resumed => token)
  <2>1. ~Only(up[Daemon], {DaemonKx})
    <3>1. Head(up[Daemon]) # DaemonKx
      BY <1>1, Kinds
    <3> QED BY <1>1, <3>1, Queues
  <2>2. PICK u \in {"register", "auth", "resume"} :
           /\ conn[Daemon] = "open" /\ Daemon \notin joined /\ down[Daemon] = << >>
           /\ up[Daemon] = <<Msg(u)>> /\ (u = "resume" => token)
    BY <1>0, <1>1, <2>1 DEF DaemonLink
  <2>3. u = t
    BY <1>1, <2>2, Kinds
  <2> QED BY <1>1, <2>2, <2>3
<1>3. PICK v \in {"authed", "resumed", "auth.err"} :
         /\ down' = [down EXCEPT ![Daemon] = <<Msg(v)>>]
         /\ v = "auth.err" => joined' = joined
         /\ v # "auth.err" => joined' = joined \cup {Daemon}
         /\ v = "resumed" => resumed
  <2>1. CASE registered /\ resumed
    <3>1. Append(down[Daemon], AuthOk(resumed)) = <<Msg("resumed")>>
      <4>1. AuthOk(resumed) = Msg("resumed")
        BY <2>1 DEF AuthOk, Msg
      <4> QED BY <1>2, <4>1
    <3> QED BY <2>1, <3>1 DEF RelayAuth, RelayReplies
  <2>2. CASE registered /\ ~resumed
    <3>1. Append(down[Daemon], AuthOk(resumed)) = <<Msg("authed")>>
      <4>1. AuthOk(resumed) = Msg("authed")
        BY <2>2 DEF AuthOk, Msg
      <4> QED BY <1>2, <4>1
    <3> QED BY <2>2, <3>1 DEF RelayAuth, RelayReplies
  <2>3. CASE ~registered
    <3>1. Append(down[Daemon], Msg("auth.err")) = <<Msg("auth.err")>>
      BY <1>2
    <3> QED BY <2>3, <3>1 DEF RelayAuth, RelayReplies
  <2> QED BY <2>1, <2>2, <2>3
<1>4. /\ up' = [up EXCEPT ![Daemon] = << >>]
      /\ registered' = registered
      /\ conn' = conn /\ token' = token
      /\ keyPair' = keyPair /\ peers' = peers /\ sessionKeys' = sessionKeys
      /\ lost' = lost /\ faults' = faults
  BY <1>2 DEF RelayAuth, RelayTakes, clientVars
<1>5. KxTypes'
  <2>1. <<Msg(v)>> \in Seq(Messages) /\ << >> \in Seq(Messages)
    BY Kinds
  <2>2. joined' \subseteq Parties
    BY <1>0, <1>3 DEF KxTypes
  <2> QED BY <1>0, <1>3, <1>4, <2>1, <2>2 DEF KxTypes
<1>6. /\ down'[Daemon] = <<Msg(v)>> /\ up'[Daemon] = << >>
      /\ \A f \in Frontends : up'[f] = up[f] /\ down'[f] = down[f] /\ (f \in joined' <=> f \in joined)
  BY <1>0, <1>3, <1>4 DEF KxTypes
<1>7. DaemonLink'
  <2>1. CASE v = "auth.err"
    BY <1>2, <1>3, <1>4, <1>6, <2>1 DEF DaemonLink
  <2>2. CASE v # "auth.err"
    <3>1. Opened(down'[Daemon], Msg(v), AppsKx) /\ (v = "resumed" => token')
      BY <1>2, <1>3, <1>4, <1>6 DEF Opened
    <3> QED BY <1>2, <1>3, <1>4, <1>6, <2>2, <3>1 DEF DaemonLink
  <2> QED BY <2>1, <2>2
<1>8. ASSUME NEW f \in Frontends PROVE AppLink(f)' /\ KeyInv(f)' /\ NewestInv(f)'
  <2>1. (Answering => Answering') /\ (Announcing => Announcing')
    BY <1>2, <1>4 DEF Answering, Announcing
  <2>2. /\ \A k : LastFrom(down[Daemon], f, k) => LastFrom(down'[Daemon], f, k)
        /\ ~From(down'[Daemon], f)
    <3>1. \A k : ~LastFrom(down[Daemon], f, k)
      BY <1>2 DEF LastFrom
    <3>2. Msg(v).from # f
      BY Kinds
    <3> QED BY <1>6, <3>1, <3>2 DEF From
  <2> QED BY <1>4, <1>6, <2>1, <2>2, AppKept, NewestKept
<1> QED BY <1>5, <1>7, <1>8 DEF KxInv

LEMMA RelayAuthAppKeeps ==
  ASSUME KxInv, NEW resumed \in BOOLEAN, NEW g \in Frontends, RelayAuth(g, resumed) PROVE KxInv'
<1> USE PartyFacts
<1>0. KxTypes /\ AppLink(g) /\ KeyInv(g)
  BY DEF KxInv
<1>1. PICK t \in {"auth", "resume"} :
         /\ up[g] \in Seq(Messages) /\ up[g] # << >> /\ Head(up[g]).t = t
         /\ resumed <=> t = "resume"
  BY <1>0 DEF RelayAuth, RelayTakes, KxTypes
<1>2. /\ conn[g] = "open" /\ g \notin joined /\ down[g] = << >>
      /\ Tail(up[g]) = << >> /\ ~resumed
  <2>1. ~Only(up[g], AppKx(g))
    <3>1. Head(up[g]) \notin AppKx(g)
      BY <1>1, Kinds
    <3> QED BY <1>1, <3>1, Queues
  <2>2. conn[g] = "open" /\ g \notin joined /\ down[g] = << >> /\ up[g] = <<Msg("auth")>>
    BY <1>0, <1>1, <2>1 DEF AppLink
  <2>3. t = "auth"
    BY <1>1, <2>2, Kinds
  <2> QED BY <1>1, <2>2, <2>3
<1>3. PICK v \in {"authed", "auth.err"} :
         /\ down' = [down EXCEPT ![g] = <<Msg(v)>>]
         /\ v = "auth.err" => joined' = joined
         /\ v # "auth.err" => joined' = joined \cup {g}
  <2>2. CASE registered
    <3>1. Append(down[g], AuthOk(resumed)) = <<Msg("authed")>>
      <4>1. AuthOk(resumed) = Msg("authed")
        BY <1>2 DEF AuthOk, Msg
      <4> QED BY <1>2, <4>1
    <3> QED BY <2>2, <3>1 DEF RelayAuth, RelayReplies
  <2>3. CASE ~registered
    <3>1. Append(down[g], Msg("auth.err")) = <<Msg("auth.err")>>
      BY <1>2
    <3> QED BY <2>3, <3>1 DEF RelayAuth, RelayReplies
  <2> QED BY <2>2, <2>3
<1>4. /\ up' = [up EXCEPT ![g] = << >>]
      /\ registered' = registered
      /\ conn' = conn /\ token' = token
      /\ keyPair' = keyPair /\ peers' = peers /\ sessionKeys' = sessionKeys
      /\ lost' = lost /\ faults' = faults
  BY <1>2 DEF RelayAuth, RelayTakes, clientVars
<1>5. KxTypes'
  <2>1. <<Msg(v)>> \in Seq(Messages) /\ << >> \in Seq(Messages)
    BY Kinds
  <2>2. joined' \subseteq Parties
    BY <1>0, <1>3 DEF KxTypes
  <2> QED BY <1>0, <1>3, <1>4, <2>1, <2>2 DEF KxTypes
<1>6. /\ down'[g] = <<Msg(v)>> /\ up'[g] = << >>
      /\ \A x \in Parties \ {g} : up'[x] = up[x] /\ down'[x] = down[x] /\ (x \in joined' <=> x \in joined)
  BY <1>0, <1>3, <1>4 DEF KxTypes
<1>7. AppLink(g)'
  <2>1. CASE v = "auth.err"
    BY <1>2, <1>3, <1>4, <1>6, <2>1 DEF AppLink
  <2>2. CASE v # "auth.err"
    <3>1. Opened(down'[g], Msg(v), {DaemonKx})
      BY <1>6 DEF Opened
    <3> QED BY <1>2, <1>3, <1>4, <1>6, <2>2, <3>1 DEF AppLink
  <2> QED BY <2>1, <2>2
<1>8. KeyInv(g)'
  BY <1>0, <1>4 DEF KeyInv
<1>9. NewestInv(g)'
  BY <1>2, <1>4, NewestVacuous
<1> QED BY <1>4, <1>5, <1>6, <1>7, <1>8, <1>9, OthersKept

LEMMA ForgetKeeps == ASSUME KxInv, Forget PROVE KxInv'
<1> USE PartyFacts
<1>0. KxTypes /\ DaemonLink
  BY DEF KxInv
<1>1. /\ registered' = FALSE /\ conn' = conn /\ token' = token /\ joined' = joined
      /\ up' = up /\ down' = down /\ keyPair' = keyPair /\ peers' = peers
      /\ sessionKeys' = sessionKeys /\ lost' = lost /\ faults' = faults
  BY DEF Forget, clientVars
<1>2. KxTypes'
  BY <1>0, <1>1 DEF KxTypes
<1>3. DaemonLink' /\ (Answering' <=> Answering) /\ (Announcing' <=> Announcing)
  BY <1>0, <1>1, DaemonKept
<1>4. ASSUME NEW f \in Frontends PROVE AppLink(f)' /\ KeyInv(f)' /\ NewestInv(f)'
  BY <1>1, <1>3, AppKept, NewestKept
<1> QED BY <1>2, <1>3, <1>4 DEF KxInv

\* Only a refused daemon waits for the deadline.
LEMMA AuthTimeoutKeeps ==
  ASSUME KxInv, NEW x \in Parties, AuthTimeout(x) PROVE KxInv'
<1> USE PartyFacts
<1>0. KxTypes /\ DaemonLink
  BY DEF KxInv
<1>1. x = Daemon /\ conn[Daemon] # "authed" /\ Daemon \notin joined /\ up[Daemon] = << >> /\ down[Daemon] = << >>
  <2>1. ASSUME x \in Frontends PROVE FALSE
    BY <1>0, <2>1 DEF AuthTimeout, AppLink, KxInv
  <2> QED BY <2>1 DEF AuthTimeout
<1>2. /\ conn' = [conn EXCEPT ![Daemon] = "down"] /\ token' = token /\ joined' = joined
      /\ registered' = registered
      /\ up' = up /\ down' = down /\ keyPair' = keyPair /\ peers' = peers
      /\ sessionKeys' = sessionKeys /\ lost' = lost /\ faults' = faults
  BY <1>1 DEF AuthTimeout, relayVars
<1>3. KxTypes'
  BY <1>0, <1>2 DEF KxTypes
<1>4. conn'[Daemon] = "down" /\ \A f \in Frontends : conn'[f] = conn[f]
  BY <1>0, <1>2 DEF KxTypes
<1>5. DaemonLink' /\ (Answering => Answering') /\ (Announcing => Announcing')
  BY <1>1, <1>2, <1>4 DEF DaemonLink, Answering, Announcing
<1>6. ASSUME NEW f \in Frontends PROVE AppLink(f)' /\ KeyInv(f)' /\ NewestInv(f)'
  BY <1>2, <1>4, <1>5, AppKept, NewestKept
<1> QED BY <1>3, <1>5, <1>6 DEF KxInv
\* A kx under way to the relay is its sender's own, who is authenticated.
LEMMA KxTaken ==
  ASSUME KxInv, NEW x \in Parties, RelayTakes(x, "kx")
  PROVE  /\ conn[x] = "authed" /\ x \in joined
         /\ up[x] \in Seq(Messages) /\ up[x] # << >>
         /\ up' \in [Parties -> Seq(Messages)]
         /\ up'[x] = Tail(up[x]) /\ \A y \in Parties \ {x} : up'[y] = up[y]
         /\ x = Daemon => Head(up[x]) = DaemonKx /\ Only(up'[x], {DaemonKx}) /\ Only(down[x], AppsKx)
         /\ x \in Frontends => /\ Head(up[x]) \in AppKx(x) /\ Only(up'[x], AppKx(x))
                               /\ Only(down[x], {DaemonKx})
<1> USE PartyFacts
<1>0. KxTypes /\ DaemonLink
  BY DEF KxInv
<1>1. up[x] \in Seq(Messages) /\ up[x] # << >> /\ Head(up[x]).t = "kx" /\ up' = [up EXCEPT ![x] = Tail(@)]
  BY <1>0 DEF RelayTakes, KxTypes
<1>2. Tail(up[x]) \in Seq(Messages)
  BY <1>1, Queues
<1>3. up' \in [Parties -> Seq(Messages)]
      /\ up'[x] = Tail(up[x]) /\ \A y \in Parties \ {x} : up'[y] = up[y]
  BY <1>0, <1>1, <1>2 DEF KxTypes
<1>4. \A t \in {"register", "auth", "resume"} : up[x] # <<Msg(t)>>
  BY <1>1, Kinds
<1>5. CASE x = Daemon
  <2>1. conn[x] = "authed" /\ x \in joined /\ Only(up[x], {DaemonKx}) /\ Only(down[x], AppsKx)
    BY <1>0, <1>1, <1>4, <1>5 DEF DaemonLink
  <2>2. Head(up[x]) \in {DaemonKx} /\ Only(Tail(up[x]), {DaemonKx})
    BY <1>1, <2>1, Queues
  <2> QED BY <1>1, <1>3, <1>5, <2>1, <2>2
<1>6. CASE x \in Frontends
  <2>1. AppLink(x)
    BY <1>6 DEF KxInv
  <2>2. conn[x] = "authed" /\ x \in joined /\ Only(up[x], AppKx(x)) /\ Only(down[x], {DaemonKx})
    BY <1>1, <1>4, <2>1 DEF AppLink
  <2>3. Head(up[x]) \in AppKx(x) /\ Only(Tail(up[x]), AppKx(x))
    BY <1>1, <2>2, Queues
  <2> QED BY <1>1, <1>3, <1>6, <2>2, <2>3
<1> QED BY <1>5, <1>6

\* A kx of the daemon reaches every app in the group.
LEMMA RouteKxDaemonKeeps ==
  ASSUME KxInv, RouteKx(Daemon) PROVE KxInv'
<1> USE PartyFacts
<1>0. KxTypes /\ DaemonLink
  BY DEF KxInv
<1>1. /\ conn[Daemon] = "authed" /\ Daemon \in joined
      /\ up[Daemon] \in Seq(Messages) /\ up[Daemon] # << >>
      /\ up' \in [Parties -> Seq(Messages)]
      /\ \A y \in Parties \ {Daemon} : up'[y] = up[y]
      /\ Head(up[Daemon]) = DaemonKx /\ Only(up'[Daemon], {DaemonKx}) /\ Only(down[Daemon], AppsKx)
  BY KxTaken DEF RouteKx
<1>2. /\ conn' = conn /\ token' = token /\ joined' = joined /\ registered' = registered
      /\ keyPair' = keyPair /\ peers' = peers /\ sessionKeys' = sessionKeys /\ faults' = faults
  BY DEF RouteKx, clientVars, relayVars
<1>3. lost' \in [Frontends -> BOOLEAN] /\ \A f \in Frontends : lost[f] => lost'[f]
  BY <1>0 DEF RouteKx, KxTypes
<1>4. /\ down' = [y \in Parties |-> IF y \in joined \ {Daemon} THEN Append(down[y], DaemonKx) ELSE down[y]]
  BY <1>1 DEF RouteKx, KxTargets
<1>5. /\ down'[Daemon] = down[Daemon]
      /\ \A f \in Frontends : down'[f] = IF f \in joined THEN Append(down[f], DaemonKx) ELSE down[f]
  BY <1>4
<1>6. \A y \in Parties : down[y] \in Seq(Messages) /\ Append(down[y], DaemonKx) \in Seq(Messages)
  <2>1. \A y \in Parties : down[y] \in Seq(Messages)
    BY <1>0 DEF KxTypes
  <2> QED BY <2>1, Queues, Kinds
<1>7. down' \in [Parties -> Seq(Messages)]
  BY <1>4, <1>6
<1>8. KxTypes'
  BY <1>0, <1>1, <1>2, <1>3, <1>7 DEF KxTypes
<1>9. DaemonLink'
  BY <1>1, <1>2, <1>5 DEF DaemonLink
<1>10. ASSUME NEW f \in Frontends PROVE AppLink(f)' /\ KeyInv(f)' /\ NewestInv(f)'
  <2>0. AppLink(f) /\ KeyInv(f) /\ NewestInv(f) /\ f \in Parties \ {Daemon}
    BY DEF KxInv
  <2>1. KeyInv(f)'
    BY <2>0, <1>2 DEF KeyInv
  <2>2. CASE f \notin joined
    <3>1. up'[f] = up[f] /\ down'[f] = down[f] /\ conn[f] # "authed"
      BY <1>1, <1>5, <2>0, <2>2 DEF AppLink
    <3>2. AppLink(f)'
      BY <1>2, <3>1, <2>0, AppKept
    <3> QED BY <1>2, <2>1, <3>1, <3>2, NewestVacuous
  <2>3. CASE f \in joined
    <3>1. up'[f] = up[f] /\ down'[f] = Append(down[f], DaemonKx) /\ down[f] \in Seq(Messages)
      BY <1>1, <1>5, <1>6, <2>0, <2>3
    <3>2. /\ Only(down[f], {DaemonKx}) => Only(down'[f], {DaemonKx})
          /\ Opened(down[f], Msg("authed"), {DaemonKx}) => Opened(down'[f], Msg("authed"), {DaemonKx})
      BY <3>1, Queues, Kinds
    <3>3. AppLink(f)'
      BY <1>2, <2>0, <2>3, <3>1, <3>2 DEF AppLink
    <3>4. down'[f] # << >> /\ (down[f] # << >> => Len(down'[f]) > 1)
      <4>1. Append(down[f], DaemonKx) # << >> /\ Len(Append(down[f], DaemonKx)) = Len(down[f]) + 1
        BY <3>1, Queues, Kinds
      <4>2. down[f] # << >> => Len(down[f]) > 0 /\ Len(down[f]) \in Nat
        BY <3>1
      <4> QED BY <3>1, <4>1, <4>2
    <3>5. Settled(f) => Settled(f)'
      BY <1>2, <3>4 DEF Settled
    <3>6. NewestInv(f)'
      BY <1>2, <1>3, <1>5, <2>0, <3>1, <3>5 DEF NewestInv
    <3> QED BY <2>1, <3>3, <3>6
  <2> QED BY <2>2, <2>3
<1> QED BY <1>8, <1>9, <1>10 DEF KxInv

\* The last message of a queue is still the last when the first is gone.
LEMMA TailLast ==
  ASSUME NEW q \in Seq(Messages), q # << >>, Tail(q) # << >>
  PROVE  Tail(q)[Len(Tail(q))] = q[Len(q)]
<1>1. Len(Tail(q)) = Len(q) - 1 /\ Len(q) \in Nat /\ \A i \in 1 .. Len(q) - 1 : Tail(q)[i] = q[i + 1]
  BY Queues
<1>2. Tail(q) \in Seq(Messages) /\ Len(Tail(q)) > 0
  <2>1. Tail(q) \in Seq(Messages)
    BY Queues
  <2> QED BY <2>1
<1> QED BY <1>1, <1>2

\* A kx of g goes to the daemon, or is lost: and then it was not the newest.
LEMMA RouteKxAppKeeps ==
  ASSUME KxInv, NEW g \in Frontends, RouteKx(g) PROVE KxInv'
<1> USE PartyFacts
<1>0. KxTypes /\ DaemonLink
  BY DEF KxInv
<1>1. /\ conn[g] = "authed" /\ g \in joined
      /\ up[g] \in Seq(Messages) /\ up[g] # << >>
      /\ up' \in [Parties -> Seq(Messages)] /\ up'[g] = Tail(up[g])
      /\ \A y \in Parties \ {g} : up'[y] = up[y]
      /\ Head(up[g]) \in AppKx(g) /\ Only(up'[g], AppKx(g)) /\ Only(down[g], {DaemonKx})
  BY KxTaken DEF RouteKx
<1>2. /\ conn' = conn /\ token' = token /\ joined' = joined /\ registered' = registered
      /\ keyPair' = keyPair /\ peers' = peers /\ sessionKeys' = sessionKeys /\ faults' = faults
  BY DEF RouteKx, clientVars, relayVars
<1>m. PICK m \in AppKx(g) : m = Head(up[g]) /\ m \in Messages /\ m \in AppsKx /\ m.from = g
  BY <1>1, Kinds
<1>3. /\ lost' \in [Frontends -> BOOLEAN] /\ \A f \in Frontends : lost[f] => lost'[f]
      /\ Daemon \notin joined /\ m.key = keyPair[g] => lost'[g]
  BY <1>0, <1>m DEF RouteKx, KxTypes
<1>4. down' = [y \in Parties |-> IF y \in joined \cap {Daemon} THEN Append(down[y], m) ELSE down[y]]
  BY <1>m DEF RouteKx, KxTargets
<1>5. /\ down'[Daemon] = IF Daemon \in joined THEN Append(down[Daemon], m) ELSE down[Daemon]
      /\ \A f \in Frontends : down'[f] = down[f]
  BY <1>4
<1>6. \A y \in Parties : down[y] \in Seq(Messages) /\ Append(down[y], m) \in Seq(Messages)
  <2>1. \A y \in Parties : down[y] \in Seq(Messages)
    BY <1>0 DEF KxTypes
  <2> QED BY <1>m, <2>1, Queues
<1>7. down' \in [Parties -> Seq(Messages)]
  BY <1>4, <1>6
<1>8. KxTypes'
  BY <1>0, <1>1, <1>2, <1>3, <1>7 DEF KxTypes
<1>u. up'[Daemon] = up[Daemon]
  BY <1>1
<1>9. DaemonLink'
  <2>1. CASE Daemon \notin joined
    BY <1>0, <1>2, <1>5, <1>u, <2>1, DaemonKept
  <2>2. CASE Daemon \in joined
    <3>1. /\ Only(down[Daemon], AppsKx) => Only(down'[Daemon], AppsKx)
          /\ \A t : Opened(down[Daemon], Msg(t), AppsKx) => Opened(down'[Daemon], Msg(t), AppsKx)
      BY <1>5, <1>6, <1>m, <2>2, Queues
    <3> QED BY <1>0, <1>2, <1>u, <2>2, <3>1 DEF DaemonLink
  <2> QED BY <2>1, <2>2
<1>a. (Answering' <=> Answering) /\ (Announcing' <=> Announcing)
  BY <1>2, <1>u DEF Answering, Announcing
<1>10. ASSUME NEW f \in Frontends, f # g PROVE AppLink(f)' /\ KeyInv(f)' /\ NewestInv(f)'
  <2>1. /\ \A k : LastFrom(down[Daemon], f, k) => LastFrom(down'[Daemon], f, k)
        /\ ~From(down[Daemon], f) => ~From(down'[Daemon], f)
    BY <1>5, <1>6, <1>m, <1>10, LastOf
  <2>2. up'[f] = up[f]
    BY <1>1, <1>10
  <2> QED BY <1>2, <1>3, <1>5, <1>a, <2>1, <2>2, AppKept, NewestKept
<1>11. AppLink(g)' /\ KeyInv(g)' /\ NewestInv(g)'
  <2>0. AppLink(g) /\ KeyInv(g) /\ NewestInv(g)
    BY DEF KxInv
  <2>1. AppLink(g)'
    BY <1>1, <1>2, <1>5 DEF AppLink
  <2>2. KeyInv(g)'
    BY <2>0, <1>2 DEF KeyInv
  <2>3. ASSUME conn[g] = "authed", ~lost'[g]
        PROVE  \/ up'[g] # << >> /\ up'[g][Len(up'[g])].key = keyPair[g]
               \/ up'[g] = << >> /\ LastFrom(down'[Daemon], g, keyPair[g])
    <3>1. up[g][Len(up[g])].key = keyPair[g]
      BY <2>0, <2>3, <1>1, <1>3 DEF NewestInv
    <3>2. CASE Tail(up[g]) # << >>
      BY <1>1, <3>1, <3>2, TailLast
    <3>3. CASE Tail(up[g]) = << >>
      <4>1. Len(up[g]) = 1 /\ up[g][1] = m
        <5>1. Head(up[g]) = up[g][1] /\ Len(Tail(up[g])) = Len(up[g]) - 1 /\ Len(up[g]) \in Nat
          BY <1>1, Queues
        <5>2. Len(Tail(up[g])) = 0
          <6>1. \A q : q = << >> => Len(q) = 0
            OBVIOUS
          <6> QED BY <3>3, <6>1
        <5> QED BY <5>1, <5>2, <1>m
      <4>2. m.key = keyPair[g]
        BY <3>1, <4>1
      <4>3. Daemon \in joined
        BY <1>3, <2>3, <4>2
      <4>4. LastFrom(Append(down[Daemon], m), g, keyPair[g])
        BY <1>6, <1>m, <4>2, LastOf
      <4> QED BY <1>1, <1>5, <3>3, <4>3, <4>4
    <3> QED BY <3>2, <3>3
  <2>4. NewestInv(g)'
    BY <1>2, <2>3 DEF NewestInv
  <2> QED BY <2>1, <2>2, <2>4
<1> QED BY <1>8, <1>9, <1>10, <1>11 DEF KxInv

LEMMA RefuseKxKeeps ==
  ASSUME KxInv, NEW x \in Parties, RefuseKx(x) PROVE KxInv'
<1> USE PartyFacts
<1>0. KxTypes /\ DaemonLink
  BY DEF KxInv
<1>1. /\ conn[x] = "authed" /\ x \in joined
      /\ up' \in [Parties -> Seq(Messages)]
      /\ \A y \in Parties \ {x} : up'[y] = up[y]
      /\ x = Daemon => Only(up'[x], {DaemonKx}) /\ Only(down[x], AppsKx)
      /\ x \in Frontends => Only(up'[x], AppKx(x)) /\ Only(down[x], {DaemonKx})
  BY KxTaken DEF RefuseKx
<1>2. /\ conn' = conn /\ token' = token /\ joined' = joined /\ registered' = registered
      /\ down' = down
      /\ keyPair' = keyPair /\ peers' = peers /\ sessionKeys' = sessionKeys /\ faults' = faults
  BY DEF RefuseKx, clientVars, relayVars
<1>3. /\ lost' \in [Frontends -> BOOLEAN] /\ \A f \in Frontends : lost[f] => lost'[f]
      /\ \A f \in Frontends : x \in {f, Daemon} => lost'[f]
  BY <1>0 DEF RefuseKx, KxTypes
<1>4. KxTypes'
  BY <1>0, <1>1, <1>2, <1>3 DEF KxTypes
<1>5. CASE x = Daemon
  <2>1. DaemonLink'
    BY <1>1, <1>2, <1>5 DEF DaemonLink
  <2>2. ASSUME NEW f \in Frontends PROVE AppLink(f)' /\ KeyInv(f)' /\ NewestInv(f)'
    <3>1. lost'[f] /\ up'[f] = up[f]
      BY <1>1, <1>3, <1>5
    <3> QED BY <1>2, <3>1, AppKept, NewestVacuous
  <2> QED BY <1>4, <2>1, <2>2 DEF KxInv
<1>6. CASE x \in Frontends
  <2>1. lost'[x]
    BY <1>3, <1>6
  <2>2. NewestInv(x)'
    BY <1>6, <2>1, NewestVacuous
  <2>3. AppLink(x)'
    BY <1>1, <1>2, <1>6 DEF AppLink
  <2>4. KeyInv(x)'
    BY <1>2, <1>6 DEF KeyInv, KxInv
  <2>u. up'[Daemon] = up[Daemon]
    BY <1>1, <1>6
  <2>5. DaemonLink' /\ (Answering' <=> Answering) /\ (Announcing' <=> Announcing)
    BY <1>0, <1>2, <2>u, DaemonKept
  <2>6. ASSUME NEW f \in Frontends, f # x PROVE AppLink(f)' /\ KeyInv(f)' /\ NewestInv(f)'
    <3>1. up'[f] = up[f]
      BY <1>1, <2>6
    <3> QED BY <1>2, <1>3, <2>5, <3>1, AppKept, NewestKept
  <2> QED BY <1>4, <2>2, <2>3, <2>4, <2>5, <2>6 DEF KxInv
<1> QED BY <1>5, <1>6
-----------------------------------------------------------------------------
(* Lost connections and restarts.                                           *)

LEMMA KxInQueue ==
  ASSUME NEW q \in Seq(Messages)
  PROVE  /\ q # << >> /\ Only(q, {DaemonKx}) => KxIn(q) # {}
         /\ \A f \in Frontends : From(q, f) => \E m \in KxIn(q) : m.from = f
<1>0. DOMAIN q = 1 .. Len(q) /\ \A i \in 1 .. Len(q) : q[i] \in Messages
  OBVIOUS
<1>1. ASSUME q # << >>, Only(q, {DaemonKx}) PROVE KxIn(q) # {}
  <2>1. 1 \in 1 .. Len(q) /\ q[1] = DaemonKx
    BY <1>1 DEF Only
  <2> QED BY <1>0, <2>1, Kinds DEF KxIn, ToSet
<1>2. ASSUME NEW f \in Frontends, From(q, f) PROVE \E m \in KxIn(q) : m.from = f
  <2>1. PICK i \in 1 .. Len(q) : q[i].from = f
    BY <1>2 DEF From
  <2>2. q[i].t = "kx"
    BY <1>0, <2>1, KxAssumption DEF Messages, Kx
  <2> QED BY <1>0, <2>1, <2>2 DEF KxIn, ToSet
<1> QED BY <1>1, <1>2

\* What a disconnection does to who is disconnected, and to the others.
LEMMA Disconnected ==
  ASSUME KxInv, NEW X \in SUBSET Parties, Disconnect(X)
  PROVE  /\ faults' \in 0 .. MaxFaults
         /\ conn' \in [Parties -> {"down", "open", "authed", "shut"}] /\ joined' \subseteq Parties
         /\ up' \in [Parties -> Seq(Messages)] /\ down' \in [Parties -> Seq(Messages)]
         /\ lost' \in [Frontends -> BOOLEAN]
         /\ keyPair' \in [Frontends -> Keys \cup {Nil}] /\ sessionKeys' \in [Frontends -> Keys \cup {Nil}]
         /\ \A x \in X : conn'[x] = "down" /\ x \notin joined' /\ up'[x] = << >> /\ down'[x] = << >>
         /\ \A x \in Parties \ X : /\ conn'[x] = conn[x] /\ (x \in joined' <=> x \in joined)
                                   /\ up'[x] = up[x] /\ down'[x] = down[x]
         /\ \A f \in Frontends : f \in X => keyPair'[f] = Nil /\ sessionKeys'[f] = Nil
         /\ \A f \in Frontends : f \notin X => keyPair'[f] = keyPair[f] /\ sessionKeys'[f] = sessionKeys[f]
         /\ \A f \in Frontends : lost[f] => lost'[f]
         /\ \A f \in Frontends : Daemon \in X /\ ~lost'[f] => ~From(down[Daemon], f) /\ ~Answering
<1> USE PartyFacts
<1>0. KxTypes /\ DaemonLink
  BY DEF KxInv
<1>1. faults' \in 0 .. MaxFaults
  BY <1>0, KxAssumption DEF Disconnect, KxTypes
<1>2. /\ conn' \in [Parties -> {"down", "open", "authed", "shut"}] /\ joined' \subseteq Parties
      /\ keyPair' \in [Frontends -> Keys \cup {Nil}] /\ sessionKeys' \in [Frontends -> Keys \cup {Nil}]
      /\ \A x \in X : conn'[x] = "down" /\ x \notin joined'
      /\ \A x \in Parties \ X : conn'[x] = conn[x] /\ (x \in joined' <=> x \in joined)
      /\ \A f \in Frontends : f \in X => keyPair'[f] = Nil /\ sessionKeys'[f] = Nil
      /\ \A f \in Frontends : f \notin X => keyPair'[f] = keyPair[f] /\ sessionKeys'[f] = sessionKeys[f]
  BY <1>0 DEF Disconnect, KxTypes
<1>3. /\ up' \in [Parties -> Seq(Messages)] /\ down' \in [Parties -> Seq(Messages)]
      /\ \A x \in X : up'[x] = << >> /\ down'[x] = << >>
      /\ \A x \in Parties \ X : up'[x] = up[x] /\ down'[x] = down[x]
  <2>1. << >> \in Seq(Messages)
    OBVIOUS
  <2> QED BY <1>0, <2>1 DEF Disconnect, KxTypes
<1>4. lost' = LostWith(X)
  BY DEF Disconnect
<1>5. /\ lost' \in [Frontends -> BOOLEAN] /\ \A f \in Frontends : lost[f] => lost'[f]
      /\ \A f \in Frontends : Daemon \in X /\ ~lost'[f] =>
            KxIn(up[Daemon]) = {} /\ ~\E m \in KxIn(down[Daemon]) : m.from = f
  BY <1>4 DEF LostWith
<1>6. up[Daemon] \in Seq(Messages) /\ down[Daemon] \in Seq(Messages)
  BY <1>0 DEF KxTypes
<1>7. Answering => up[Daemon] # << >> /\ Only(up[Daemon], {DaemonKx})
  BY <1>0 DEF Answering, DaemonLink
<1>8. \A f \in Frontends : Daemon \in X /\ ~lost'[f] => ~From(down[Daemon], f) /\ ~Answering
  BY <1>5, <1>6, <1>7, KxInQueue
<1> QED BY <1>1, <1>2, <1>3, <1>5, <1>8

\* The apps whose connections stay, when the daemon keeps what it knows or not.
LEMMA DisconnectKeeps ==
  ASSUME KxInv, NEW X \in SUBSET Parties, Disconnect(X), registered' \in BOOLEAN,
         \/ token' = token /\ peers' = peers
         \/ Daemon \in X /\ token' = FALSE /\ peers' = [f \in Frontends |-> Nil]
  PROVE  KxInv'
<1> USE PartyFacts
<1>0. KxTypes /\ DaemonLink
  BY DEF KxInv
<1>1. KxTypes'
  <2>1. token' \in BOOLEAN /\ peers' \in [Frontends -> Keys \cup {Nil}]
    BY <1>0 DEF KxTypes
  <2> QED BY <2>1, Disconnected DEF KxTypes
<1>2. DaemonLink'
  <2>1. CASE Daemon \in X
    <3>1. conn'[Daemon] = "down" /\ Daemon \notin joined' /\ up'[Daemon] = << >> /\ down'[Daemon] = << >>
      BY <2>1, Disconnected
    <3> QED BY <3>1 DEF DaemonLink
  <2>2. CASE Daemon \notin X
    <3>1. /\ conn'[Daemon] = conn[Daemon] /\ (Daemon \in joined' <=> Daemon \in joined)
          /\ up'[Daemon] = up[Daemon] /\ down'[Daemon] = down[Daemon] /\ token' = token
      BY <2>2, Disconnected
    <3> QED BY <1>0, <3>1, DaemonKept
  <2> QED BY <2>1, <2>2
<1>3. ASSUME NEW f \in Frontends, f \in X PROVE AppLink(f)' /\ KeyInv(f)' /\ NewestInv(f)'
  <2>1. /\ conn'[f] = "down" /\ f \notin joined' /\ up'[f] = << >> /\ down'[f] = << >>
        /\ keyPair'[f] = Nil /\ sessionKeys'[f] = Nil
    BY <1>3, Disconnected
  <2>2. peers'[f] \in Keys \cup {Nil}
    BY <1>1 DEF KxTypes
  <2> QED BY <2>1, <2>2, NewestVacuous DEF AppLink, KeyInv
<1>4. ASSUME NEW f \in Frontends, f \notin X PROVE AppLink(f)' /\ KeyInv(f)' /\ NewestInv(f)'
  <2>0. AppLink(f) /\ KeyInv(f) /\ NewestInv(f) /\ f \in Parties \ X
    BY <1>4 DEF KxInv
  <2>1. /\ conn'[f] = conn[f] /\ (f \in joined' <=> f \in joined) /\ up'[f] = up[f] /\ down'[f] = down[f]
        /\ keyPair'[f] = keyPair[f] /\ sessionKeys'[f] = sessionKeys[f] /\ (lost[f] => lost'[f])
    BY <1>4, <2>0, Disconnected
  <2>2. AppLink(f)'
    BY <2>0, <2>1 DEF AppLink
  <2>3. CASE token' = token /\ peers' = peers
    <3>1. CASE Daemon \in X
      <4>1. ~lost'[f] => /\ ~From(down[Daemon], f) /\ ~Answering
                         /\ conn'[Daemon] = "down" /\ down'[Daemon] = << >>
        BY <3>1, Disconnected
      <4>2. ~lost'[f] => \A k : ~LastFrom(down[Daemon], f, k)
        BY <4>1 DEF LastFrom, From
      <4>3. ~lost'[f] => ~From(down'[Daemon], f)
        BY <4>1 DEF From
      <4>4. ~lost'[f] => (Announcing => Announcing')
        BY <2>3, <4>1 DEF Announcing
      <4> QED BY <2>1, <2>3, <4>1, <4>2, <4>3, <4>4, AppKept, NewestKept
    <3>2. CASE Daemon \notin X
      <4>1. /\ conn'[Daemon] = conn[Daemon] /\ (Daemon \in joined' <=> Daemon \in joined)
            /\ up'[Daemon] = up[Daemon] /\ down'[Daemon] = down[Daemon]
        BY <3>2, Disconnected
      <4>2. (Answering' <=> Answering) /\ (Announcing' <=> Announcing)
        BY <1>0, <2>3, <4>1, DaemonKept
      <4> QED BY <2>1, <2>3, <4>1, <4>2, AppKept, NewestKept
    <3> QED BY <3>1, <3>2
  <2>4. CASE Daemon \in X /\ token' = FALSE /\ peers' = [e \in Frontends |-> Nil]
    <3>1. peers'[f] = Nil
      BY <2>4
    <3>2. KeyInv(f)'
      BY <2>0, <2>1, <3>1 DEF KeyInv
    <3>3. ASSUME conn[f] = "authed", ~lost'[f]
          PROVE  \/ up[f] # << >> /\ up[f][Len(up[f])].key = keyPair[f]
                 \/ up[f] = << >> /\ ~From(down'[Daemon], f) /\ Settled(f)'
      <4>1. ~From(down[Daemon], f) /\ ~Answering /\ conn'[Daemon] = "down" /\ down'[Daemon] = << >>
        BY <2>4, <3>3, Disconnected
      <4>2. Announcing' /\ ~From(down'[Daemon], f)
        BY <2>4, <4>1 DEF Announcing, From
      <4>3. ~LastFrom(down[Daemon], f, keyPair[f])
        BY <4>1 DEF LastFrom, From
      <4>4. \/ up[f] # << >> /\ up[f][Len(up[f])].key = keyPair[f]
            \/ up[f] = << >> /\ Settled(f)
        BY <2>0, <2>1, <3>3, <4>3 DEF NewestInv
      <4>5. Settled(f) => Settled(f)'
        BY <2>1, <3>1, <4>1, <4>2 DEF Settled
      <4> QED BY <4>2, <4>4, <4>5
    <3>4. NewestInv(f)'
      BY <2>1, <3>3 DEF NewestInv
    <3> QED BY <2>2, <3>2, <3>4
  <2> QED BY <2>3, <2>4
<1> QED BY <1>1, <1>2, <1>3, <1>4 DEF KxInv

LEMMA FaultsKeep ==
  ASSUME KxInv, (\E x \in Parties : Drop(x)) \/ DaemonRestart \/ RelayRestart PROVE KxInv'
<1> USE PartyFacts
<1>0. registered \in BOOLEAN
  BY DEF KxInv, KxTypes
<1>1. ASSUME NEW x \in Parties, Drop(x) PROVE KxInv'
  <2>1. {x} \in SUBSET Parties /\ Disconnect({x}) /\ token' = token /\ peers' = peers /\ registered' \in BOOLEAN
    BY <1>0, <1>1 DEF Drop
  <2> QED BY <2>1, DisconnectKeeps
<1>2. ASSUME DaemonRestart PROVE KxInv'
  <2>1. /\ {Daemon} \in SUBSET Parties /\ Disconnect({Daemon}) /\ registered' \in BOOLEAN
        /\ Daemon \in {Daemon} /\ token' = FALSE /\ peers' = [f \in Frontends |-> Nil]
    BY <1>0, <1>2 DEF DaemonRestart
  <2> QED BY <2>1, DisconnectKeeps
<1>3. ASSUME RelayRestart PROVE KxInv'
  <2>1. /\ {x \in Parties : conn[x] # "down"} \in SUBSET Parties
        /\ Disconnect({x \in Parties : conn[x] # "down"})
        /\ token' = token /\ peers' = peers /\ registered' \in BOOLEAN
    BY <1>3 DEF RelayRestart
  <2> QED BY <2>1, DisconnectKeeps
<1> QED BY <1>1, <1>2, <1>3

LEMMA KxNextInv == ASSUME KxInv, [KxNext]_kxVars PROVE KxInv'
<1> USE PartyFacts
<1>0. CASE UNCHANGED kxVars
  <2>1. /\ conn' = conn /\ token' = token /\ joined' = joined /\ registered' = registered
        /\ up' = up /\ down' = down /\ keyPair' = keyPair /\ peers' = peers
        /\ sessionKeys' = sessionKeys /\ lost' = lost /\ faults' = faults
    BY <1>0 DEF kxVars, clientVars, relayVars
  <2>2. KxTypes' /\ DaemonLink'
    BY <2>1, DaemonKept DEF KxInv, KxTypes
  <2>3. (Answering' <=> Answering) /\ (Announcing' <=> Announcing)
    BY <2>1, DaemonKept DEF KxInv
  <2>4. ASSUME NEW f \in Frontends PROVE AppLink(f)' /\ KeyInv(f)' /\ NewestInv(f)'
    BY <2>1, <2>3, AppKept, NewestKept
  <2> QED BY <2>2, <2>4 DEF KxInv
<1>1. CASE DaemonStep
  BY <1>1, DaemonConnectKeeps, DaemonRegisterOkKeeps, DaemonAuthOkKeeps, DaemonAuthErrKeeps,
     HandleKxFrameKeeps DEF DaemonStep
<1>2. ASSUME NEW f \in Frontends, AppStep(f) PROVE KxInv'
  BY <1>2, AppConnectKeeps, OnAuthOkKeeps, OnAuthErrKeeps, OnKeyExchangeFrameKeeps DEF AppStep
<1>3. ASSUME NEW x \in Parties, RelayStep(x) PROVE KxInv'
  BY <1>3, RelayRegisterKeeps, RelayAuthDaemonKeeps, RelayAuthAppKeeps, RouteKxDaemonKeeps,
     RouteKxAppKeeps, AuthTimeoutKeeps DEF RelayStep
<1>4. ASSUME NEW x \in Parties, RefuseKx(x) PROVE KxInv'
  BY <1>4, RefuseKxKeeps
<1>5. CASE (\E x \in Parties : Drop(x)) \/ DaemonRestart \/ RelayRestart
  BY <1>5, FaultsKeep
<1>6. CASE Forget
  BY <1>6, ForgetKeeps
<1> QED BY <1>0, <1>1, <1>2, <1>3, <1>4, <1>5, <1>6 DEF KxNext

\* What is under way on each connection fits its phase, an app's session keys are
\* derived from its current key pair, and the newest kx of an app carries that key
\* pair until the daemon holds it (handle_kx_frame, startKeyExchange).
THEOREM KxInvariant == KxSpec => []KxInv
<1>1. KxInv /\ [KxNext]_kxVars => KxInv'
  BY KxNextInv
<1> QED BY KxInitInv, <1>1, PTL DEF KxSpec

\* Whatever connections break and whoever restarts, an app whose newest kx has
\* arrived and none was lost shares the daemon's session keys, or a kx of the daemon
\* is under way that will make it (relay_client.rs handle_kx_frame,
\* RelayClient.swift onKeyExchangeFrame).
THEOREM KeysAgreeAlways == KxSpec => []KeysAgree
<1>1. ASSUME KxInv PROVE KeysAgree
  <2> USE PartyFacts
  <2> SUFFICES ASSUME NEW f \in Frontends, conn[f] = "authed", conn[Daemon] = "authed",
                      ~KxToDaemon(f), ~lost[f]
               PROVE  Agree(f) \/ (KxToApp(f) /\ (sessionKeys[f] = Nil \/ peers[f] = Nil))
    BY DEF KeysAgree
  <2>0. KxTypes /\ DaemonLink /\ AppLink(f) /\ KeyInv(f) /\ NewestInv(f)
    BY <1>1 DEF KxInv
  <2>1. \A x \in Parties : up[x] \in Seq(Messages) /\ down[x] \in Seq(Messages)
    BY <2>0 DEF KxTypes
  <2>2. ~From(down[Daemon], f)
    BY <2>1, KxInQueue DEF KxToDaemon
  <2>3. up[f] = << >>
    <3>1. Only(up[f], AppKx(f))
      BY <2>0 DEF AppLink
    <3>2. ASSUME up[f] # << >> PROVE FALSE
      <4>1. 1 \in 1 .. Len(up[f]) /\ DOMAIN up[f] = 1 .. Len(up[f])
        BY <2>1, <3>2
      <4>2. up[f][1].t = "kx"
        BY <3>1, <4>1, Kinds DEF Only
      <4>3. up[f][1] \in KxIn(up[f])
        BY <4>1, <4>2 DEF KxIn, ToSet
      <4> QED BY <4>3 DEF KxToDaemon
    <3> QED BY <3>2
  <2>4. ~LastFrom(down[Daemon], f, keyPair[f])
    BY <2>2 DEF LastFrom, From
  <2>5. Settled(f)
    BY <2>0, <2>3, <2>4 DEF NewestInv
  <2>6. ~Announcing
    BY DEF Announcing
  <2>7. down[f] # << >> \/ Answering => KxToApp(f)
    <3>1. Only(down[f], {DaemonKx})
      BY <2>0 DEF AppLink
    <3>2. Answering => up[Daemon] # << >> /\ Only(up[Daemon], {DaemonKx})
      BY <2>0 DEF Answering, DaemonLink
    <3> QED BY <2>1, <3>1, <3>2, KxInQueue DEF KxToApp
  <2>8. CASE sessionKeys[f] = Nil \/ peers[f] = Nil
    BY <2>5, <2>6, <2>7, <2>8 DEF Settled
  <2>9. CASE sessionKeys[f] # Nil /\ peers[f] # Nil
    <3>1. sessionKeys[f] = keyPair[f] /\ peers[f] = keyPair[f]
      BY <2>0, <2>5, <2>9 DEF KeyInv, Settled
    <3> QED BY <2>9, <3>1 DEF Agree, KxServerSessionKeys, KxClientSessionKeys, Half
  <2> QED BY <2>8, <2>9
<1> QED BY <1>1, KxInvariant, PTL
\* Queues hold messages, and a client takes itself for authenticated only while
\* the relay has it in the group.
THEOREM KxIsTyped == KxSpec => []KxTypeOK
<1>1. ASSUME KxInv PROVE KxTypeOK
  <2>1. \A x \in Parties : conn[x] = "authed" => x \in joined
    BY <1>1, PartyFacts DEF KxInv, AppLink, DaemonLink
  <2> QED BY <1>1, <2>1 DEF KxInv, KxTypes, KxTypeOK
<1> QED BY <1>1, KxInvariant, PTL
=============================================================================
