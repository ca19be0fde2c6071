---------------------------- MODULE PairingProofs ----------------------------
(***************************************************************************)
(* Pairing for any number of daemon ids, commands and removal tasks.       *)
(***************************************************************************)
EXTENDS Pairing, TLAPS

Tasks == {"none", "begin", "dial", "watch", "promote", "promoteFailed", "report", "failed", "undo"}
RemovalTasks == Removers \cup Clis

CliStates == [pc : {"out", "sent", "shown", "cancelling"}, id : Ids \cup {None}]

TypeInv ==
    /\ rows \subseteq Ids /\ pool \subseteq AllClients /\ up \subseteq AllClients
    /\ pending \in PendingPairings \cup {None}
    /\ lock \in Clis \cup {None}
    /\ queue \in Seq(Clis)
    /\ task \in [Clis -> Tasks]
    /\ remover \in [RemovalTasks ->
                      [pc : {"idle", "find", "delete", "dispose", "drop"},
                       id : Ids \cup {None}, client : AllClients \cup {None}]]
    /\ adder \in [pc : {"next", "save", "push", "done"}, id : Ids \cup {None},
                  todo : SUBSET Ids, skipped : SUBSET Ids]
    /\ cli \in [Clis -> CliStates]
    /\ saved \in [Clis -> AllClients \cup {None}]

\* A task that is at work works for one of the daemon ids.
IdInv ==
    /\ \A c \in Clis : task[c] # "none" => cli[c].id \in Ids
    /\ \A r \in RemovalTasks : remover[r].pc # "idle" => remover[r].id \in Ids
    /\ adder.pc \in {"save", "push"} => adder.id \in Ids
    /\ adder.pc = "save" => adder.id \notin adder.todo
    /\ adder.pc = "done" => adder.todo = {}

\* Who is in a critical section holds the orchestrator's lock, and a promotion
\* is of a pairing that an application has joined.
SlotInv ==
    /\ \A c \in Clis : task[c] \in {"dial", "promote", "promoteFailed"} <=> lock = c
    /\ lock # None => (pending = None <=> task[lock] = "dial")
    /\ lock # None /\ pending # None => pending.joined

\* The tasks that wait for the lock to begin, each once.
QueueInv ==
    /\ \A i \in 1 .. Len(queue) : task[queue[i]] = "begin"
    /\ \A c \in Clis : task[c] = "begin" => \E i \in 1 .. Len(queue) : queue[i] = c
    /\ \A i, j \in 1 .. Len(queue) : queue[i] = queue[j] => i = j

BaseInv == TypeInv /\ IdInv /\ SlotInv /\ QueueInv

LEMMA BaseInvInit == Init => BaseInv
<1> SUFFICES ASSUME Init PROVE BaseInv
  OBVIOUS
<1>1. TypeInv
  BY DEF Init, TypeInv, Tasks, RemovalTasks, IdleRemover, NoAdder, Gone, CliStates
<1>2. IdInv
  BY DEF Init, IdInv, RemovalTasks, IdleRemover, NoAdder
<1>3. SlotInv
  BY PairingAssumption DEF Init, SlotInv
<1>4. QueueInv
  BY DEF Init, QueueInv
<1> QED
  BY <1>1, <1>2, <1>3, <1>4 DEF BaseInv

\* A client a command has made is one of the clients.
LEMMA MineTyped ==
    ASSUME TypeInv, IdInv, NEW c \in Clis, task[c] # "none"
    PROVE  Mine(c) \in AllClients
BY DEF IdInv, Mine, AllClients

\* Lining up, and being admitted.
LEMMA QueueAppends ==
    ASSUME TypeInv, QueueInv, NEW c \in Clis, task[c] = "none",
           queue' = Append(queue, c), task' = [task EXCEPT ![c] = "begin"]
    PROVE  QueueInv'
<1>1. /\ queue \in Seq(Clis) /\ task \in [Clis -> Tasks]
      /\ \A i \in 1 .. Len(queue) : queue[i] \in Clis
  BY DEF TypeInv
<1>2. /\ Len(queue') = Len(queue) + 1
      /\ \A i \in 1 .. Len(queue) : queue'[i] = queue[i]
      /\ queue'[Len(queue) + 1] = c
  BY <1>1
<1>3. \A i \in 1 .. Len(queue) : queue[i] # c
  BY DEF QueueInv
<1>4. \A i \in 1 .. Len(queue') : task'[queue'[i]] = "begin"
  BY <1>1, <1>2, <1>3 DEF QueueInv
<1>5. \A x \in Clis : task'[x] = "begin" => \E i \in 1 .. Len(queue') : queue'[i] = x
  BY <1>1, <1>2 DEF QueueInv
<1>6. \A i, j \in 1 .. Len(queue') : queue'[i] = queue'[j] => i = j
  BY <1>1, <1>2, <1>3 DEF QueueInv
<1> QED
  BY <1>4, <1>5, <1>6 DEF QueueInv

LEMMA QueueAdmits ==
    ASSUME TypeInv, QueueInv, NEW c \in Clis, task[c] = "begin", Admitted(c),
           NEW where \in Tasks \ {"begin"}, task' = [task EXCEPT ![c] = where]
    PROVE  /\ QueueInv'
           /\ queue' \in Seq(Clis)
           /\ Len(queue) > 0 /\ Len(queue') = Len(queue) - 1
           /\ queue[1] = c
<1>1. queue \in Seq(Clis) /\ task \in [Clis -> Tasks] /\ Len(queue) \in Nat
  BY DEF TypeInv
<1>2. Len(queue) > 0
  BY <1>1 DEF QueueInv
<1>3. queue' = Tail(queue) /\ queue[1] = c
  BY <1>1, <1>2 DEF Admitted
<1>4. /\ queue' \in Seq(Clis) /\ Len(queue') = Len(queue) - 1
      /\ \A i \in 1 .. Len(queue') : queue'[i] = queue[i + 1] /\ i + 1 \in 1 .. Len(queue)
  BY <1>1, <1>2, <1>3
<1>5. \A i \in 1 .. Len(queue') : queue'[i] # c
  BY <1>1, <1>2, <1>3, <1>4 DEF QueueInv
<1>6. ASSUME NEW i \in 1 .. Len(queue')
      PROVE  task'[queue'[i]] = "begin"
  <2>1. i + 1 \in 1 .. Len(queue) /\ queue'[i] = queue[i + 1]
    BY <1>4
  <2>2. queue[i + 1] \in Clis /\ queue[i + 1] # c
    BY <1>1, <1>5, <2>1
  <2>3. task[queue[i + 1]] = "begin"
    BY <2>1 DEF QueueInv
  <2> QED
    BY <1>1, <2>1, <2>2, <2>3
<1>7. ASSUME NEW x \in Clis, task'[x] = "begin"
      PROVE  \E i \in 1 .. Len(queue') : queue'[i] = x
  <2>1. x # c /\ task[x] = "begin"
    BY <1>1, <1>7
  <2>2. PICK i \in 1 .. Len(queue) : queue[i] = x
    BY <2>1 DEF QueueInv
  <2>3. i # 1 /\ i - 1 \in 1 .. Len(queue')
    BY <1>1, <1>3, <1>4, <2>1, <2>2
  <2>4. queue'[i - 1] = x
    BY <1>4, <2>2, <2>3
  <2> QED
    BY <2>3, <2>4
<1>8. \A i, j \in 1 .. Len(queue') : queue'[i] = queue'[j] => i = j
  <2> SUFFICES ASSUME NEW i \in 1 .. Len(queue'), NEW j \in 1 .. Len(queue'), queue'[i] = queue'[j]
               PROVE  i = j
    OBVIOUS
  <2>1. queue[i + 1] = queue[j + 1] /\ i + 1 \in 1 .. Len(queue) /\ j + 1 \in 1 .. Len(queue)
    BY <1>4
  <2>2. i + 1 = j + 1
    BY <2>1 DEF QueueInv
  <2> QED
    BY <1>1, <1>4, <2>2
<1> QED
  BY <1>2, <1>3, <1>4, <1>6, <1>7, <1>8 DEF QueueInv

LEMMA QueueStays ==
    ASSUME TypeInv, QueueInv, NEW c \in Clis, task[c] # "begin", queue' = queue,
           NEW where \in Tasks \ {"begin"}, task' = [task EXCEPT ![c] = where]
    PROVE  QueueInv'
<1>1. /\ queue \in Seq(Clis) /\ task \in [Clis -> Tasks]
      /\ \A i \in 1 .. Len(queue) : queue[i] \in Clis
  BY DEF TypeInv
<1> QED
  BY <1>1 DEF QueueInv

\* A command that goes on keeps its daemon id.
LEMMA CliGoes ==
    ASSUME cli \in [Clis -> CliStates], NEW c \in Clis,
           NEW where \in {"out", "sent", "shown", "cancelling"},
           cli' = [cli EXCEPT ![c].pc = where]
    PROVE  /\ cli' \in [Clis -> CliStates]
           /\ \A x \in Clis : cli'[x].id = cli[x].id
           /\ \A x \in Clis : cli'[x].pc = IF x = c THEN where ELSE cli[x].pc
<1>1. cli[c] \in CliStates
  OBVIOUS
<1>2. [cli[c] EXCEPT !.pc = where] \in CliStates
  BY <1>1 DEF CliStates
<1>3. [cli[c] EXCEPT !.pc = where].id = cli[c].id /\ [cli[c] EXCEPT !.pc = where].pc = where
  BY <1>1 DEF CliStates
<1> QED
  BY <1>2, <1>3

-----------------------------------------------------------------------------
(* The commands and their tasks.                                           *)

LEMMA CliKeepsBase ==
    ASSUME BaseInv, NEW c \in Clis,
           (\E d \in Ids : CliStarts(c, d)) \/ CliCancels(c) \/ CliDies(c) \/ Disconnect(c)
    PROVE  BaseInv'
<1> USE DEF BaseInv
<1>1. ASSUME NEW d \in Ids, CliStarts(c, d)
      PROVE  BaseInv'
  <2>1. /\ cli' = [cli EXCEPT ![c] = [pc |-> "sent", id |-> d]]
        /\ task' = [task EXCEPT ![c] = "begin"]
        /\ queue' = Append(queue, c)
        /\ task[c] = "none"
        /\ UNCHANGED <<rows, pool, up, pending, lock, remover, adder, saved>>
    BY <1>1 DEF CliStarts
  <2>2. TypeInv'
    BY <2>1 DEF TypeInv, Tasks, CliStates
  <2>3. IdInv'
    BY <2>1 DEF IdInv, TypeInv
  <2>4. SlotInv'
    BY <2>1 DEF SlotInv, TypeInv
  <2>5. QueueInv'
    BY <2>1, QueueAppends
  <2> QED
    BY <2>2, <2>3, <2>4, <2>5
<1>2. CASE CliCancels(c) \/ CliDies(c) \/ Disconnect(c)
  <2>1. /\ \/ cli' = cli
           \/ \E where \in {"cancelling", "out"} : cli' = [cli EXCEPT ![c].pc = where]
        /\ UNCHANGED <<rows, pool, up, pending, lock, queue, task, remover, adder, saved>>
    BY <1>2 DEF CliCancels, CliDies, Disconnect, slotVars
  <2>2. cli' \in [Clis -> CliStates] /\ \A x \in Clis : cli'[x].id = cli[x].id
    BY <2>1, CliGoes DEF TypeInv
  <2>3. TypeInv'
    BY <2>1, <2>2 DEF TypeInv
  <2>4. IdInv'
    BY <2>1, <2>2 DEF IdInv
  <2>5. SlotInv'
    BY <2>1 DEF SlotInv
  <2>6. QueueInv'
    BY <2>1 DEF QueueInv
  <2> QED
    BY <2>3, <2>4, <2>5, <2>6
<1> QED
  BY <1>1, <1>2

LEMMA BeginKeepsBase ==
    ASSUME BaseInv, NEW c \in Clis, BeginRefused(c) \/ BeginDials(c) \/ BeginSets(c)
    PROVE  BaseInv'
<1> USE PairingAssumption DEF BaseInv
<1>1. CASE BeginRefused(c)
  <2>1. /\ task[c] = "begin" /\ Admitted(c)
        /\ task' = [task EXCEPT ![c] = "none"]
        /\ cli' = [cli EXCEPT ![c] = Gone]
        /\ UNCHANGED <<rows, pool, up, pending, lock, remover, adder, saved>>
    BY <1>1 DEF BeginRefused, Tell
  <2>2. QueueInv' /\ queue' \in Seq(Clis)
    BY <2>1, QueueAdmits DEF Tasks
  <2>3. TypeInv'
    BY <2>1, <2>2 DEF TypeInv, Tasks, CliStates, Gone
  <2>4. IdInv'
    BY <2>1 DEF IdInv, TypeInv
  <2>5. SlotInv'
    BY <2>1 DEF SlotInv, TypeInv
  <2> QED
    BY <2>2, <2>3, <2>4, <2>5
<1>2. CASE BeginDials(c)
  <2>1. /\ task[c] = "begin" /\ Admitted(c) /\ lock = None /\ pending = None
        /\ lock' = c
        /\ up' = up \cup {Mine(c)}
        /\ task' = [task EXCEPT ![c] = "dial"]
        /\ UNCHANGED <<rows, pool, pending, remover, adder, cli, saved>>
    BY <1>2 DEF BeginDials, BuildRelayClient, Admitted, AlreadyPending, cliVars
  <2>2. QueueInv' /\ queue' \in Seq(Clis)
    BY <2>1, QueueAdmits DEF Tasks
  <2>3. TypeInv'
    BY <2>1, <2>2, MineTyped DEF TypeInv, Tasks
  <2>4. IdInv'
    BY <2>1 DEF IdInv, TypeInv
  <2>5. SlotInv'
    BY <2>1 DEF SlotInv, TypeInv
  <2> QED
    BY <2>2, <2>3, <2>4, <2>5
<1>3. CASE BeginSets(c)
  <2>1. /\ task[c] = "dial"
        /\ pending' = NewPending(c)
        /\ lock' = None
        /\ task' = [task EXCEPT ![c] = "watch"]
        /\ cli' = IF cli[c].pc = "sent" THEN [cli EXCEPT ![c].pc = "shown"] ELSE cli
        /\ UNCHANGED <<queue, rows, pool, up, remover, adder, saved>>
    BY <1>3 DEF BeginSets, BeginOk, ShowQr
  <2>2. cli' \in [Clis -> CliStates] /\ \A x \in Clis : cli'[x].id = cli[x].id
    BY <2>1, CliGoes DEF TypeInv
  <2>3. pending' \in PendingPairings
    BY <2>1, MineTyped DEF NewPending, PendingPairings
  <2>4. TypeInv'
    BY <2>1, <2>2, <2>3 DEF TypeInv, Tasks
  <2>5. IdInv'
    BY <2>1, <2>2 DEF IdInv, TypeInv
  <2>6. lock = c
    BY <2>1 DEF SlotInv
  <2>7. SlotInv'
    BY <2>1, <2>6 DEF SlotInv, TypeInv
  <2>8. QueueInv'
    BY <2>1, QueueStays DEF Tasks
  <2> QED
    BY <2>4, <2>5, <2>7, <2>8
<1> QED
  BY <1>1, <1>2, <1>3

LEMMA WatchKeepsBase ==
    ASSUME BaseInv, NEW c \in Clis, WatchPromotes(c) \/ Promote(c) \/ WatchCancelled(c)
    PROVE  BaseInv'
<1> USE PairingAssumption DEF BaseInv
<1>1. CASE WatchPromotes(c)
  <2>1. /\ task[c] = "watch" /\ lock = None /\ pending # None /\ pending.joined
        /\ lock' = c
        /\ UNCHANGED <<queue, pool, up, pending, remover, adder, cli>>
    BY <1>1 DEF WatchPromotes, Resolved, cliVars
  <2>2. pending.client \in AllClients /\ pending.client[1] \in Ids
    BY <2>1 DEF TypeInv, PendingPairings, AllClients
  <2>3. PICK where \in {"promote", "promoteFailed"} : task' = [task EXCEPT ![c] = where]
    BY <1>1 DEF WatchPromotes
  <2>4. rows' \subseteq Ids /\ saved' \in [Clis -> AllClients \cup {None}]
    BY <1>1, <2>2 DEF WatchPromotes, SavePairing, TypeInv
  <2>5. TypeInv'
    BY <2>1, <2>3, <2>4 DEF TypeInv, Tasks
  <2>6. IdInv'
    BY <2>1, <2>3 DEF IdInv, TypeInv
  <2>7. SlotInv'
    BY <2>1, <2>3 DEF SlotInv, TypeInv
  <2>8. QueueInv'
    BY <2>1, <2>3, QueueStays DEF Tasks
  <2> QED
    BY <2>5, <2>6, <2>7, <2>8
<1>2. CASE Promote(c)
  <2>1. /\ task[c] \in {"promote", "promoteFailed"} /\ lock = c /\ pending # None
        /\ pool' = pool \cup {pending.client}
        /\ pending' = None /\ lock' = None
        /\ UNCHANGED <<queue, rows, up, remover, adder, cli, saved>>
    BY <1>2 DEF Promote, cliVars, SlotInv
  <2>2. pending.client \in AllClients
    BY <2>1 DEF TypeInv, PendingPairings
  <2>3. PICK where \in {"failed", "report"} : task' = [task EXCEPT ![c] = where]
    BY <1>2 DEF Promote
  <2>4. TypeInv'
    BY <2>1, <2>2, <2>3 DEF TypeInv, Tasks
  <2>5. IdInv'
    BY <2>1, <2>3 DEF IdInv, TypeInv
  <2>6. SlotInv'
    BY <2>1, <2>3 DEF SlotInv, TypeInv
  <2>7. QueueInv'
    BY <2>1, <2>3, QueueStays DEF Tasks
  <2> QED
    BY <2>4, <2>5, <2>6, <2>7
<1>3. CASE WatchCancelled(c)
  <2>1. /\ task[c] = "watch" /\ task' = [task EXCEPT ![c] = "none"]
        /\ cli' = [cli EXCEPT ![c] = Gone]
        /\ UNCHANGED <<queue, rows, pool, up, pending, lock, remover, adder, saved>>
    BY <1>3 DEF WatchCancelled, Tell
  <2>2. TypeInv'
    BY <2>1 DEF TypeInv, Tasks, CliStates, Gone
  <2>3. IdInv'
    BY <2>1 DEF IdInv, TypeInv
  <2>4. SlotInv'
    BY <2>1 DEF SlotInv, TypeInv
  <2>5. QueueInv'
    BY <2>1, QueueStays DEF Tasks
  <2> QED
    BY <2>2, <2>3, <2>4, <2>5
<1> QED
  BY <1>1, <1>2, <1>3

LEMMA ReportKeepsBase ==
    ASSUME BaseInv, NEW c \in Clis, Report(c) \/ Undo(c) \/ ReportFailure(c)
    PROVE  BaseInv'
<1> USE PairingAssumption DEF BaseInv
<1>1. CASE Report(c) \/ ReportFailure(c)
  <2>1. /\ task[c] \in {"report", "undo"} /\ task' = [task EXCEPT ![c] = "none"]
        /\ cli' = [cli EXCEPT ![c] = Gone]
        /\ pending' = pending \/ (lock = None /\ pending' = None)
        /\ up' \subseteq up
        /\ saved' \in {saved, [saved EXCEPT ![c] = None]}
        /\ UNCHANGED <<queue, rows, pool, lock, remover, adder>>
    BY <1>1 DEF Report, ReportFailure, Tell, ClearPending, slotVars
  <2>2. TypeInv'
    BY <2>1 DEF TypeInv, Tasks, CliStates, Gone
  <2>3. IdInv'
    BY <2>1 DEF IdInv, TypeInv
  <2>4. SlotInv'
    BY <2>1 DEF SlotInv, TypeInv
  <2>5. QueueInv'
    BY <2>1, QueueStays DEF Tasks
  <2> QED
    BY <2>2, <2>3, <2>4, <2>5
<1>2. CASE Undo(c)
  <2>1. /\ task[c] = "failed" /\ task' = [task EXCEPT ![c] = "undo"]
        /\ rows' \subseteq rows
        /\ \/ remover' = remover
           \/ remover' = [remover EXCEPT ![c] = [pc |-> "find", id |-> cli[c].id, client |-> None]]
        /\ UNCHANGED <<queue, pool, up, pending, lock, adder, cli, saved>>
    BY <1>2 DEF Undo, DeletePairing, slotVars, cliVars
  <2>2. cli[c].id \in Ids /\ c \in RemovalTasks
    BY <2>1 DEF IdInv, RemovalTasks
  <2>3. TypeInv'
    BY <2>1, <2>2 DEF TypeInv, Tasks
  <2>4. IdInv'
    BY <2>1, <2>2 DEF IdInv, TypeInv
  <2>5. SlotInv'
    BY <2>1 DEF SlotInv, TypeInv
  <2>6. QueueInv'
    BY <2>1, QueueStays DEF Tasks
  <2> QED
    BY <2>3, <2>4, <2>5, <2>6
<1> QED
  BY <1>1, <1>2

LEMMA SlotKeepsBase ==
    ASSUME BaseInv, AppJoins \/ \E x \in cancels : CancelRuns(x)
    PROVE  BaseInv'
<1> USE PairingAssumption DEF BaseInv
<1>1. UNCHANGED <<queue, rows, pool, lock, task, remover, adder, cli, saved>> /\ up' \subseteq up
  BY DEF AppJoins, CancelRuns, cliVars
<1>2. /\ pending' \in PendingPairings \cup {None}
      /\ lock # None => pending' = pending
  <2>1. CASE AppJoins
    <3>1. pending \in PendingPairings /\ pending' = [pending EXCEPT !.joined = TRUE] /\ ~pending.joined
      BY <2>1 DEF AppJoins, TypeInv
    <3>2. pending' \in PendingPairings
      BY <3>1 DEF PendingPairings
    <3> QED
      BY <2>1, <3>1, <3>2 DEF AppJoins, SlotInv
  <2>2. CASE \E x \in cancels : CancelRuns(x)
    BY <2>2 DEF CancelRuns, TypeInv
  <2> QED
    BY <2>1, <2>2
<1>3. TypeInv'
  BY <1>1, <1>2 DEF TypeInv
<1>4. IdInv'
  BY <1>1 DEF IdInv
<1>5. SlotInv'
  BY <1>1, <1>2 DEF SlotInv
<1>6. QueueInv'
  BY <1>1 DEF QueueInv
<1> QED
  BY <1>3, <1>4, <1>5, <1>6

-----------------------------------------------------------------------------
(* Removals, and the start of the daemon.                                  *)

LEMMA RemovalKeepsBase ==
    ASSUME BaseInv, NEW r \in RemovalTasks, (\E d \in Ids : RemovePairing(r, d)) \/ RemoverRuns(r)
    PROVE  BaseInv'
<1> USE PairingAssumption DEF BaseInv
<1> DEFINE States == [pc : {"idle", "find", "delete", "dispose", "drop"},
                      id : Ids \cup {None}, client : AllClients \cup {None}]
<1>1. UNCHANGED <<queue, pending, lock, task, adder, cli, saved>>
  BY DEF RemovePairing, RemoverRuns, RemoveFinds, RemoveDeletes, RemoveDisposes, RemoveDrops,
         slotVars, cliVars
<1>2. rows' \subseteq rows /\ pool' \subseteq pool /\ up' \subseteq up
  BY DEF RemovePairing, RemoverRuns, RemoveFinds, RemoveDeletes, RemoveDisposes, RemoveDrops, DeletePairing
<1>3. \/ remover' = remover
      \/ \E st \in States : /\ remover' = [remover EXCEPT ![r] = st]
                            /\ st.pc # "idle" => st.id \in Ids
  <2> SUFFICES ASSUME remover' # remover
               PROVE  \E st \in States : /\ remover' = [remover EXCEPT ![r] = st]
                                         /\ st.pc # "idle" => st.id \in Ids
    OBVIOUS
  <2>1. ASSUME NEW d \in Ids, RemovePairing(r, d)
        PROVE  \E st \in States : /\ remover' = [remover EXCEPT ![r] = st]
                                  /\ st.pc # "idle" => st.id \in Ids
    <3> DEFINE st == [pc |-> "find", id |-> d, client |-> None]
    <3>1. st \in States /\ st.id \in Ids
      OBVIOUS
    <3>2. remover' = [remover EXCEPT ![r] = st]
      BY <2>1 DEF RemovePairing
    <3> QED
      BY <3>1, <3>2
  <2>2. CASE RemoveDrops(r)
    <3>1. IdleRemover \in States /\ IdleRemover.pc = "idle"
      BY DEF IdleRemover
    <3> QED
      BY <2>2, <3>1 DEF RemoveDrops
  <2>3. ASSUME NEW where \in {"delete", "dispose", "drop"}, NEW p \in AllClients \cup {None},
               remover[r].pc # "idle",
               remover' = [remover EXCEPT ![r] = [pc |-> where, id |-> @.id, client |-> p]]
        PROVE  \E st \in States : /\ remover' = [remover EXCEPT ![r] = st]
                                  /\ st.pc # "idle" => st.id \in Ids
    <3> DEFINE st == [pc |-> where, id |-> remover[r].id, client |-> p]
    <3>1. remover[r].id \in Ids
      BY <2>3 DEF IdInv
    <3>2. st \in States /\ st.id \in Ids
      BY <3>1
    <3> QED
      BY <2>3, <3>2
  <2>4. CASE RemoveFinds(r)
    <3>1. PICK p \in AllClients \cup {None} :
            remover' = [remover EXCEPT ![r].pc = "delete", ![r].client = p]
      BY <2>4 DEF RemoveFinds, TypeInv
    <3>2. remover[r] \in States
      BY DEF TypeInv
    <3>3. remover' = [remover EXCEPT ![r] = [pc |-> "delete", id |-> @.id, client |-> p]]
      <4>1. ASSUME NEW st \in States
            PROVE  [st EXCEPT !.pc = "delete", !.client = p]
                     = [pc |-> "delete", id |-> st.id, client |-> p]
        <5>1. [st EXCEPT !.pc = "delete"] = [pc |-> "delete", id |-> st.id, client |-> st.client]
          OBVIOUS
        <5>2. [[pc |-> "delete", id |-> st.id, client |-> st.client] EXCEPT !.client = p]
                = [pc |-> "delete", id |-> st.id, client |-> p]
          OBVIOUS
        <5> QED
          BY <5>1, <5>2
      <4>2. remover' = [remover EXCEPT ![r] = [@ EXCEPT !.pc = "delete", !.client = p]]
        BY <3>1
      <4> QED
        BY <3>2, <4>1, <4>2
    <3> QED
      BY <2>3, <2>4, <3>3 DEF RemoveFinds
  <2>5. CASE RemoveDeletes(r) \/ RemoveDisposes(r)
    <3>1. PICK where \in {"dispose", "drop"} : remover' = [remover EXCEPT ![r].pc = where]
      BY <2>5 DEF RemoveDeletes, RemoveDisposes
    <3>2. remover[r] \in States
      BY DEF TypeInv
    <3>3. remover' = [remover EXCEPT ![r] = [pc |-> where, id |-> @.id, client |-> remover[r].client]]
      <4>1. ASSUME NEW st \in States
            PROVE  [st EXCEPT !.pc = where] = [pc |-> where, id |-> st.id, client |-> st.client]
        OBVIOUS
      <4> QED
        BY <3>1, <3>2, <4>1
    <3> QED
      BY <2>3, <2>5, <3>2, <3>3 DEF RemoveDeletes, RemoveDisposes
  <2> QED
    BY <2>1, <2>2, <2>4, <2>5 DEF RemoverRuns
<1>4. TypeInv'
  BY <1>1, <1>2, <1>3 DEF TypeInv
<1>5. IdInv'
  BY <1>1, <1>3 DEF IdInv, TypeInv
<1>6. SlotInv'
  BY <1>1 DEF SlotInv
<1>7. QueueInv'
  BY <1>1 DEF QueueInv
<1> QED
  BY <1>4, <1>5, <1>6, <1>7

\* What the start of the daemon does next, in terms of its own state.
AdderStates == [pc : {"next", "save", "push", "done"}, id : Ids \cup {None},
                todo : SUBSET Ids, skipped : SUBSET Ids]

LEMMA AdderKeepsBase ==
    ASSUME BaseInv, AdderRuns
    PROVE  BaseInv'
<1> USE PairingAssumption DEF BaseInv
<1>1. UNCHANGED <<queue, pending, lock, task, remover, cli, saved>>
  BY DEF AdderRuns, AddConnects, AddSaves, AddRegisters, AddsDone, slotVars, cliVars
<1>2. adder \in AdderStates
  BY DEF TypeInv, AdderStates
<1>3. ASSUME NEW d \in Ids, AddConnects(d)
      PROVE  BaseInv'
  <2>1. adder' = [pc |-> "save", id |-> d, todo |-> adder.todo \ {d}, skipped |-> adder.skipped]
    BY <1>2, <1>3 DEF AddConnects, AdderStates
  <2>2. adder' \in AdderStates
    BY <1>2, <2>1 DEF AdderStates
  <2>3. <<d, Saved>> \in AllClients
    BY DEF AllClients
  <2>4. TypeInv'
    BY <1>1, <1>3, <2>2, <2>3 DEF TypeInv, AdderStates, AddConnects
  <2>5. IdInv'
    BY <1>1, <2>1 DEF IdInv
  <2> QED
    BY <1>1, <2>4, <2>5 DEF SlotInv, QueueInv
<1>4. CASE AddSaves
  <2>1. adder.pc = "save" /\ adder.id \in Ids /\ rows' \subseteq rows \cup {adder.id}
        /\ pool' = pool /\ up' \subseteq up
    BY <1>4 DEF AddSaves, SavePairing, IdInv
  <2>2. \/ adder' = [pc |-> "push", id |-> adder.id, todo |-> adder.todo, skipped |-> adder.skipped]
        \/ adder' = [pc |-> "next", id |-> None, todo |-> adder.todo,
                     skipped |-> adder.skipped \cup {adder.id}]
    BY <1>2, <1>4 DEF AddSaves, AdderStates
  <2>3. adder' \in AdderStates
    BY <1>2, <2>1, <2>2 DEF AdderStates
  <2>4. TypeInv'
    BY <1>1, <2>1, <2>3 DEF TypeInv, AdderStates
  <2>5. IdInv'
    BY <1>1, <2>1, <2>2 DEF IdInv
  <2> QED
    BY <1>1, <2>4, <2>5 DEF SlotInv, QueueInv
<1>5. CASE AddRegisters
  <2>1. adder.pc = "push" /\ adder.id \in Ids /\ rows' = rows
        /\ pool' = pool \cup {<<adder.id, Saved>>} /\ up' = up
    BY <1>5 DEF AddRegisters, IdInv
  <2>2. adder' = [pc |-> "next", id |-> None, todo |-> adder.todo, skipped |-> adder.skipped]
    BY <1>2, <1>5 DEF AddRegisters, AdderStates
  <2>3. adder' \in AdderStates
    BY <1>2, <2>1, <2>2 DEF AdderStates
  <2>4. <<adder.id, Saved>> \in AllClients
    BY <2>1 DEF AllClients
  <2>5. TypeInv'
    BY <1>1, <2>1, <2>3, <2>4 DEF TypeInv, AdderStates
  <2>6. IdInv'
    BY <1>1, <2>1, <2>2 DEF IdInv
  <2> QED
    BY <1>1, <2>5, <2>6 DEF SlotInv, QueueInv
<1>6. CASE AddsDone
  <2>1. adder.todo = {} /\ rows' = rows /\ pool' = pool /\ up' = up
    BY <1>6 DEF AddsDone
  <2>2. adder' = [pc |-> "done", id |-> adder.id, todo |-> adder.todo, skipped |-> adder.skipped]
    BY <1>2, <1>6 DEF AddsDone, AdderStates
  <2>3. adder' \in AdderStates
    BY <1>2, <2>2 DEF AdderStates
  <2>4. TypeInv'
    BY <1>1, <2>1, <2>3 DEF TypeInv, AdderStates
  <2>5. IdInv'
    BY <1>1, <2>1, <2>2 DEF IdInv
  <2> QED
    BY <1>1, <2>4, <2>5 DEF SlotInv, QueueInv
<1> QED
  BY <1>3, <1>4, <1>5, <1>6 DEF AdderRuns

LEMMA RestartKeepsBase ==
    ASSUME BaseInv, DaemonRestarts
    PROVE  BaseInv'
<1> USE PairingAssumption DEF BaseInv
<1>1. /\ pool' = {} /\ up' = {} /\ rows' = rows
      /\ pending' = None /\ lock' = None /\ queue' = << >>
      /\ task' = [c \in Clis |-> "none"] /\ cli' = [c \in Clis |-> Gone]
      /\ saved' = [c \in Clis |-> None]
      /\ remover' = [r \in RemovalTasks |-> IdleRemover]
      /\ adder' = [pc |-> "next", id |-> None, todo |-> rows, skipped |-> {}]
  BY DEF DaemonRestarts, EmptyManager, NothingPending, LoadPairings, RemovalTasks
<1>2. adder' \in AdderStates
  BY <1>1 DEF AdderStates, TypeInv
<1>3. TypeInv'
  BY <1>1, <1>2 DEF TypeInv, Tasks, CliStates, Gone, IdleRemover, AdderStates
<1>4. IdInv'
  BY <1>1 DEF IdInv, IdleRemover
<1>5. SlotInv'
  BY <1>1 DEF SlotInv
<1>6. QueueInv'
  BY <1>1 DEF QueueInv
<1> QED
  BY <1>3, <1>4, <1>5, <1>6

LEMMA BaseInvStep == BaseInv /\ [Next]_vars => BaseInv'
<1> SUFFICES ASSUME BaseInv, [Next]_vars PROVE BaseInv'
  OBVIOUS
<1>1. CASE UNCHANGED vars
  BY <1>1 DEF vars, BaseInv, TypeInv, IdInv, SlotInv, QueueInv
<1>2. ASSUME NEW c \in Clis, TaskRuns(c)
      PROVE  BaseInv'
  BY <1>2, BeginKeepsBase, WatchKeepsBase, ReportKeepsBase DEF TaskRuns
<1>3. ASSUME NEW r \in Removers, NEW d \in Ids, RemovePairing(r, d)
      PROVE  BaseInv'
  BY <1>3, RemovalKeepsBase DEF RemovalTasks
<1>4. ASSUME NEW r \in Removers \cup Clis, RemoverRuns(r)
      PROVE  BaseInv'
  BY <1>4, RemovalKeepsBase DEF RemovalTasks
<1> QED
  BY <1>1, <1>2, <1>3, <1>4, CliKeepsBase, SlotKeepsBase, AdderKeepsBase, RestartKeepsBase DEF Next

-----------------------------------------------------------------------------
(* The contract.  What it sees of the daemon: the offer in the slot until  *)
(* its promotion has begun, the rows, and what the start has still to take *)
(* up.  Each step of the daemon is one of the contract's or none.          *)

TheOffer == IF pending = None \/ Promoting THEN None ELSE pending.client[1]
TheJoin == pending # None /\ pending.joined /\ ~Promoting
TheRestoring == adder.todo \cup (IF adder.pc = "save" THEN {adder.id} ELSE {})

ContractStutters == UNCHANGED <<TheOffer, TheJoin, rows, TheRestoring>>

\* The contract's actions, in the daemon's own terms.
LEMMA ContractView ==
    /\ Contract!Init <=> TheOffer = None /\ TheJoin = FALSE /\ rows = {} /\ TheRestoring = {}
    /\ ContractStutters <=> UNCHANGED Contract!contractVars
    /\ \A d : Contract!Offer(d) <=> /\ TheOffer = None /\ TheOffer' = d /\ TheJoin' = FALSE
                                    /\ UNCHANGED <<rows, TheRestoring>>
    /\ Contract!Join <=> /\ TheOffer # None /\ TheJoin' = TRUE
                         /\ UNCHANGED <<TheOffer, rows, TheRestoring>>
    /\ Contract!Accept <=> /\ TheOffer # None /\ TheJoin
                           /\ rows' = rows \cup {TheOffer}
                           /\ TheOffer' = None /\ TheJoin' = FALSE
                           /\ UNCHANGED TheRestoring
    /\ Contract!Withdraw <=> /\ TheOffer # None
                             /\ TheOffer' = None /\ TheJoin' = FALSE
                             /\ UNCHANGED <<rows, TheRestoring>>
    /\ \A d : Contract!Remove(d) <=> /\ d \in rows /\ rows' = rows \ {d}
                                     /\ UNCHANGED <<TheOffer, TheJoin, TheRestoring>>
    /\ Contract!Restart <=> /\ TheOffer' = None /\ TheJoin' = FALSE
                            /\ TheRestoring' = rows /\ UNCHANGED rows
    /\ \A d : Contract!Restore(d) <=> /\ d \in TheRestoring
                                      /\ rows' = rows \cup {d}
                                      /\ TheRestoring' = TheRestoring \ {d}
                                      /\ UNCHANGED <<TheOffer, TheJoin>>
    /\ \A d : Contract!GiveUp(d) <=> /\ d \in TheRestoring
                                     /\ TheRestoring' = TheRestoring \ {d}
                                     /\ UNCHANGED <<TheOffer, TheJoin, rows>>
BY DEF TheOffer, TheJoin, TheRestoring, ContractStutters, Contract!contractVars, Contract!Init,
       Contract!Offer, Contract!Join, Contract!Accept, Contract!Withdraw, Contract!Remove,
       Contract!Restart, Contract!Restore, Contract!GiveUp

\* What the contract sees of the slot.
LEMMA SlotView ==
    ASSUME BaseInv
    PROVE  /\ Promoting <=> lock # None /\ pending # None
           /\ lock = None /\ pending # None =>
                TheOffer = pending.client[1] /\ TheOffer \in Ids /\ TheOffer # None
                /\ TheJoin = pending.joined
           /\ lock # None \/ pending = None => TheOffer = None /\ TheJoin = FALSE
<1>1. Promoting <=> lock # None /\ pending # None
  BY DEF Promoting, BaseInv, SlotInv
<1>2. pending # None => pending.client[1] \in Ids /\ pending.joined \in BOOLEAN
  BY DEF BaseInv, TypeInv, PendingPairings, AllClients
<1> QED
  BY <1>1, <1>2, PairingAssumption DEF TheOffer, TheJoin

LEMMA SlotViewNext ==
    ASSUME BaseInv'
    PROVE  /\ lock' = None /\ pending' # None =>
                TheOffer' = pending'.client[1] /\ TheJoin' = pending'.joined
           /\ lock' # None \/ pending' = None => TheOffer' = None /\ TheJoin' = FALSE
<1>1. Promoting' <=> lock' # None /\ pending' # None
  BY DEF Promoting, BaseInv, SlotInv
<1>2. pending' # None => pending'.joined \in BOOLEAN
  BY DEF BaseInv, TypeInv, PendingPairings
<1> QED
  BY <1>1, <1>2 DEF TheOffer, TheJoin

\* The slot's part of the view stays when the slot does.
LEMMA SlotStays ==
    ASSUME BaseInv, BaseInv', UNCHANGED <<pending, lock>>
    PROVE  UNCHANGED <<TheOffer, TheJoin>>
<1>1. Promoting' <=> Promoting
  BY DEF Promoting, BaseInv, SlotInv
<1> QED
  BY <1>1 DEF TheOffer, TheJoin

LEMMA ContractStep ==
    ASSUME BaseInv, BaseInv', Next
    PROVE  Contract!Next \/ UNCHANGED Contract!contractVars
<1> USE SlotView, SlotViewNext, PairingAssumption
<1> DEFINE Goal == Contract!Next \/ UNCHANGED Contract!contractVars
<1>1. UNCHANGED adder => UNCHANGED TheRestoring
  BY DEF TheRestoring
<1>2. ASSUME UNCHANGED <<pending, lock, rows, adder>>
      PROVE  Goal
  BY <1>1, <1>2, SlotStays, ContractView DEF ContractStutters
\* The slot is given up without a row.
<1>3. ASSUME lock = None, pending' = None, UNCHANGED <<lock, rows, adder>>
      PROVE  Goal
  <2>1. CASE pending = None
    BY <1>2, <1>3, <2>1
  <2>2. CASE pending # None
    <3>1. TheOffer # None /\ TheOffer' = None /\ TheJoin' = FALSE
      BY <1>3, <2>2
    <3>2. Contract!Withdraw
      BY <1>1, <1>3, <3>1, ContractView
    <3> QED
      BY <3>2 DEF Contract!Next
  <2> QED
    BY <2>1, <2>2
\* A row goes.
<1>4. ASSUME NEW d \in Ids, rows' = rows \ {d}, UNCHANGED <<pending, lock, adder>>
      PROVE  Goal
  <2>1. CASE d \in rows
    <3>1. Contract!Remove(d)
      BY <1>1, <1>4, <2>1, SlotStays, ContractView
    <3> QED
      BY <3>1 DEF Contract!Next
  <2>2. CASE d \notin rows
    BY <1>2, <1>4, <2>2
  <2> QED
    BY <2>1, <2>2
<1>5. ASSUME NEW c \in Clis, BeginDials(c)
      PROVE  Goal
  <2>1. pending = None /\ pending' = None /\ UNCHANGED <<rows, adder>>
    BY <1>5 DEF BeginDials, AlreadyPending
  <2>2. TheOffer = None /\ TheJoin = FALSE /\ TheOffer' = None /\ TheJoin' = FALSE
    BY <2>1
  <2> QED
    BY <1>1, <2>1, <2>2, ContractView DEF ContractStutters
<1>6. ASSUME NEW c \in Clis, BeginSets(c)
      PROVE  Goal
  <2>1. task[c] = "dial" /\ pending' = NewPending(c) /\ lock' = None /\ UNCHANGED <<rows, adder>>
    BY <1>6 DEF BeginSets
  <2>2. lock = c /\ pending = None /\ cli[c].id \in Ids
    BY <2>1 DEF BaseInv, SlotInv, IdInv
  <2>3. pending'.client[1] = cli[c].id /\ pending'.joined = FALSE
    BY <2>1 DEF NewPending, Mine
  <2>4. Mine(c) \in AllClients
    BY <2>1, MineTyped DEF BaseInv
  <2>5. pending' \in PendingPairings
    BY <2>1, <2>4 DEF NewPending, PendingPairings
  <2>6. pending' # None
    BY <2>5
  <2>7. TheOffer = None /\ TheOffer' = cli[c].id /\ TheJoin' = FALSE
    BY <2>1, <2>2, <2>3, <2>6
  <2>8. Contract!Offer(cli[c].id)
    BY <1>1, <2>1, <2>7, ContractView
  <2> QED
    BY <2>2, <2>8 DEF Contract!Next
<1>7. ASSUME NEW c \in Clis, WatchPromotes(c)
      PROVE  Goal
  <2>1. /\ lock = None /\ pending # None /\ pending.joined
        /\ lock' = c /\ pending' = pending /\ adder' = adder
    BY <1>7 DEF WatchPromotes, Resolved
  <2>2. /\ TheOffer = pending.client[1] /\ TheOffer # None /\ TheJoin
        /\ TheOffer' = None /\ TheJoin' = FALSE
    BY <2>1
  <2>3. CASE rows' = rows \cup {pending.client[1]}
    <3>1. Contract!Accept
      BY <1>1, <2>1, <2>2, <2>3, ContractView
    <3> QED
      BY <3>1 DEF Contract!Next
  <2>4. CASE rows' = rows
    <3>1. Contract!Withdraw
      BY <1>1, <2>1, <2>2, <2>4, ContractView
    <3> QED
      BY <3>1 DEF Contract!Next
  <2> QED
    BY <1>7, <2>3, <2>4 DEF WatchPromotes, SavePairing
<1>8. ASSUME NEW c \in Clis, Promote(c)
      PROVE  Goal
  <2>1. lock = c /\ pending' = None /\ lock' = None /\ UNCHANGED <<rows, adder>>
    BY <1>8 DEF Promote, BaseInv, SlotInv
  <2>2. TheOffer = None /\ TheJoin = FALSE /\ TheOffer' = None /\ TheJoin' = FALSE
    BY <2>1
  <2> QED
    BY <1>1, <2>1, <2>2, ContractView DEF ContractStutters
<1>9. ASSUME NEW c \in Clis, Undo(c)
      PROVE  Goal
  <2>1. cli[c].id \in Ids /\ UNCHANGED <<pending, lock, adder>>
    BY <1>9 DEF Undo, slotVars, BaseInv, IdInv
  <2> QED
    BY <1>2, <1>4, <1>9, <2>1 DEF Undo, DeletePairing
<1>10. ASSUME NEW c \in Clis, TaskRuns(c)
       PROVE  Goal
  BY <1>2, <1>3, <1>5, <1>6, <1>7, <1>8, <1>9, <1>10
     DEF TaskRuns, BeginRefused, Report, ReportFailure, ClearPending, WatchCancelled, slotVars
<1>11. CASE AppJoins
  <2>1. /\ pending # None /\ ~pending.joined /\ pending' = [pending EXCEPT !.joined = TRUE]
        /\ UNCHANGED <<rows, lock, adder>>
    BY <1>11 DEF AppJoins
  <2>2. lock = None
    BY <2>1 DEF BaseInv, SlotInv
  <2>3. pending' # None /\ pending'.joined /\ pending'.client = pending.client
    <3>1. pending \in PendingPairings
      BY <2>1 DEF BaseInv, TypeInv
    <3>2. pending' \in PendingPairings /\ pending'.joined /\ pending'.client = pending.client
      BY <2>1, <3>1 DEF PendingPairings
    <3> QED
      BY <3>2
  <2>4. TheOffer # None /\ TheOffer' = TheOffer /\ TheJoin' = TRUE
    BY <2>1, <2>2, <2>3
  <2>5. Contract!Join
    BY <1>1, <2>1, <2>4, ContractView
  <2> QED
    BY <2>5 DEF Contract!Next
<1>12. ASSUME NEW x \in cancels, CancelRuns(x)
       PROVE  Goal
  BY <1>2, <1>3, <1>12 DEF CancelRuns
<1>13. ASSUME NEW r \in Removers, NEW d \in Ids, RemovePairing(r, d)
       PROVE  Goal
  BY <1>2, <1>4, <1>13 DEF RemovePairing, DeletePairing, slotVars
<1>14. ASSUME NEW r \in RemovalTasks, RemoverRuns(r)
       PROVE  Goal
  <2>1. CASE RemoveDeletes(r)
    <3>1. remover[r].id \in Ids
      BY <2>1 DEF RemoveDeletes, BaseInv, IdInv
    <3> QED
      BY <1>4, <2>1, <3>1 DEF RemoveDeletes, DeletePairing, slotVars
  <2> QED
    BY <1>2, <1>14, <2>1 DEF RemoverRuns, RemoveFinds, RemoveDisposes, RemoveDrops, slotVars
\* The start: what is being saved again still counts as to be taken up.
<1>15. CASE AdderRuns
  <2>1. UNCHANGED <<pending, lock>>
    BY <1>15 DEF AdderRuns, AddConnects, AddSaves, AddRegisters, AddsDone, slotVars
  <2>2. UNCHANGED <<TheOffer, TheJoin>>
    BY <2>1, SlotStays
  <2>3. adder \in AdderStates
    BY DEF BaseInv, TypeInv, AdderStates
  <2>4. ASSUME NEW d \in Ids, AddConnects(d)
        PROVE  Goal
    <3>1. /\ adder.pc = "next" /\ d \in adder.todo /\ rows' = rows
          /\ adder'.pc = "save" /\ adder'.id = d /\ adder'.todo = adder.todo \ {d}
      BY <2>3, <2>4 DEF AddConnects, AdderStates
    <3>2. TheRestoring' = TheRestoring
      BY <3>1 DEF TheRestoring
    <3> QED
      BY <2>2, <3>1, <3>2, ContractView DEF ContractStutters
  <2>5. CASE AddSaves
    <3>1. adder.pc = "save" /\ adder.id \in Ids /\ adder.id \notin adder.todo
      BY <2>5 DEF AddSaves, BaseInv, IdInv
    <3>2. adder'.pc # "save" /\ adder'.todo = adder.todo
      BY <2>3, <2>5 DEF AddSaves, AdderStates
    <3>3. adder.id \in TheRestoring /\ TheRestoring' = TheRestoring \ {adder.id}
      BY <3>1, <3>2 DEF TheRestoring
    <3>4. rows' = rows \cup {adder.id} => Contract!Restore(adder.id)
      BY <2>2, <3>3, ContractView
    <3>5. rows' = rows => Contract!GiveUp(adder.id)
      BY <2>2, <3>3, ContractView
    <3> QED
      BY <2>5, <3>1, <3>4, <3>5 DEF AddSaves, SavePairing, Contract!Next
  <2>6. CASE AddRegisters \/ AddsDone
    <3>1. rows' = rows /\ adder.pc # "save" /\ adder'.pc # "save" /\ adder'.todo = adder.todo
      BY <2>3, <2>6 DEF AddRegisters, AddsDone, AdderStates
    <3>2. TheRestoring' = TheRestoring
      BY <3>1 DEF TheRestoring
    <3> QED
      BY <2>2, <3>1, <3>2, ContractView DEF ContractStutters
  <2> QED
    BY <1>15, <2>4, <2>5, <2>6 DEF AdderRuns
<1>16. CASE DaemonRestarts
  <2>1. /\ pending' = None /\ lock' = None /\ rows' = rows
        /\ adder' = [pc |-> "next", id |-> None, todo |-> rows, skipped |-> {}]
    BY <1>16 DEF DaemonRestarts, NothingPending, LoadPairings
  <2>2. TheOffer' = None /\ TheJoin' = FALSE
    BY <2>1
  <2>3. TheRestoring' = rows
    BY <2>1 DEF TheRestoring
  <2>4. Contract!Restart
    BY <2>1, <2>2, <2>3, ContractView
  <2> QED
    BY <2>4 DEF Contract!Next
<1>17. ASSUME NEW c \in Clis,
              (\E d \in Ids : CliStarts(c, d)) \/ CliCancels(c) \/ CliDies(c) \/ Disconnect(c)
       PROVE  Goal
  BY <1>2, <1>17 DEF CliStarts, CliCancels, CliDies, Disconnect, slotVars
<1> QED
  BY <1>10, <1>11, <1>12, <1>13, <1>14, <1>15, <1>16, <1>17 DEF Next, RemovalTasks

\* The tasks, locks, cancels, removals and restarts of the daemon implement the
\* contract of pairing: a row appears only through an offer that an application
\* joined or by taking up what was stored at the start, whatever the interleaving.
THEOREM PairingImplementsContract == Spec => PairingKeepsContract
<1>1. Init => Contract!Init
  <2> SUFFICES ASSUME Init PROVE Contract!Init
    OBVIOUS
  <2>1. BaseInv /\ pending = None /\ rows = {} /\ TheRestoring = {}
    BY BaseInvInit DEF Init, TheRestoring, NoAdder
  <2> QED
    BY <2>1, SlotView, ContractView
<1>2. BaseInv /\ BaseInv' /\ [Next]_vars => [Contract!Next]_Contract!contractVars
  <2>1. BaseInv /\ BaseInv' /\ Next => [Contract!Next]_Contract!contractVars
    BY ContractStep
  <2>2. ASSUME UNCHANGED vars PROVE UNCHANGED Contract!contractVars
    BY <2>2, ContractView DEF vars, ContractStutters, TheOffer, TheJoin, TheRestoring, Promoting
  <2> QED
    BY <2>1, <2>2
<1> QED
  BY <1>1, <1>2, BaseInvInit, BaseInvStep, PTL DEF Spec, PairingKeepsContract, Contract!Spec

-----------------------------------------------------------------------------
(* What a command is told.  The pair lock lets one command run at a time,  *)
(* and the orchestrator's queue is first come first served: the task of    *)
(* the running command is the last to begin, so once it has begun nobody   *)
(* else can put a pairing into the slot.                                   *)

Running(c) == cli[c].pc # "out"

OneRuns == \A c, x \in Clis : Running(c) /\ Running(x) => c = x

OwnInv ==
    /\ \A c \in Clis : Running(c) => task[c] # "none"
    /\ \A c \in Clis : Running(c) /\ task[c] = "begin" => queue[Len(queue)] = c
    /\ \A c, x \in Clis : Running(c) /\ task[c] # "begin" /\ x # c => task[x] \notin {"begin", "dial"}
    /\ \A c \in Clis : /\ Running(c) /\ task[c] \in {"watch", "promote", "promoteFailed"}
                       /\ pending # None
                       => pending.client = Mine(c)
    /\ \A c \in Clis : Running(c) /\ task[c] \in {"promote", "report"} => saved[c] = Mine(c)

TellInv == BaseInv /\ OneRuns /\ OwnInv

\* Nothing happens to the tasks and the queue, and no new pairing is in the slot.
LEMMA OwnStays ==
    ASSUME TellInv, UNCHANGED <<task, queue, saved>>,
           pending' # None => pending # None /\ pending'.client = pending.client,
           \A x \in Clis : cli'[x].id = cli[x].id /\ (Running(x)' => Running(x))
    PROVE  OneRuns' /\ OwnInv'
<1>1. \A x \in Clis : Mine(x)' = Mine(x)
  BY DEF Mine
<1> QED
  BY <1>1 DEF TellInv, OneRuns, OwnInv

\* A task whose command is told the outcome is over.
LEMMA OwnEnds ==
    ASSUME TellInv, NEW c \in Clis, task[c] # "begin",
           task' = [task EXCEPT ![c] = "none"], cli' = [cli EXCEPT ![c] = Gone],
           queue' = queue, saved' \in {saved, [saved EXCEPT ![c] = None]},
           pending' # None => pending # None /\ pending'.client = pending.client
    PROVE  OneRuns' /\ OwnInv'
<1>1. /\ ~Running(c)'
      /\ \A x \in Clis \ {c} : /\ cli'[x] = cli[x] /\ task'[x] = task[x] /\ saved'[x] = saved[x]
                               /\ Mine(x)' = Mine(x)
      /\ task'[c] = "none"
  BY DEF TellInv, BaseInv, TypeInv, Running, Gone, Mine
<1> QED
  BY <1>1 DEF TellInv, OneRuns, OwnInv, Running

\* A queue without repetitions: its last entry, seen from its tail.
LEMMA LastOfTail ==
    ASSUME NEW q \in Seq(Clis), NEW t, t = Tail(q), Len(q) > 0, Len(q) # 1
    PROVE  Len(t) = Len(q) - 1 /\ t[Len(t)] = q[Len(q)]
<1>1. Len(q) \in Nat /\ Len(t) = Len(q) - 1
  OBVIOUS
<1>2. \A i \in 1 .. Len(q) - 1 : t[i] = q[i + 1]
  BY <1>1
<1>3. \A n \in Nat : n > 0 /\ n # 1 => n - 1 \in 1 .. n - 1 /\ (n - 1) + 1 = n
  OBVIOUS
<1> QED
  BY <1>1, <1>2, <1>3

LEMMA OnlyEntry ==
    ASSUME NEW q \in Seq(Clis), Len(q) > 0, q[1] = q[Len(q)],
           \A i, j \in 1 .. Len(q) : q[i] = q[j] => i = j
    PROVE  Len(q) = 1
<1>1. 1 \in 1 .. Len(q) /\ Len(q) \in 1 .. Len(q)
  OBVIOUS
<1> QED
  BY <1>1

LEMMA BeginKeepsOwn ==
    ASSUME TellInv, NEW c \in Clis, BeginRefused(c) \/ BeginDials(c) \/ BeginSets(c)
    PROVE  OneRuns' /\ OwnInv'
<1> USE DEF TellInv, BaseInv
<1>1. CASE BeginRefused(c) \/ BeginDials(c)
  <2>1. /\ task[c] = "begin" /\ Admitted(c)
        /\ lock = None
        /\ UNCHANGED <<pending, saved>>
        /\ \/ task' = [task EXCEPT ![c] = "none"] /\ cli' = [cli EXCEPT ![c] = Gone]
           \/ task' = [task EXCEPT ![c] = "dial"] /\ cli' = cli
    BY <1>1 DEF BeginRefused, BeginDials, Admitted, Tell, cliVars
  <2>2. /\ queue[1] = c /\ Len(queue) > 0 /\ Len(queue') = Len(queue) - 1
        /\ queue \in Seq(Clis) /\ queue' = Tail(queue) /\ Len(queue) \in Nat
    BY <2>1, QueueAdmits DEF Tasks, Admitted, TypeInv
  <2>3. /\ \A x \in Clis \ {c} : cli'[x] = cli[x] /\ task'[x] = task[x] /\ Mine(x)' = Mine(x)
        /\ \A x \in Clis : Running(x)' => Running(x)
        /\ Running(c)' => task'[c] = "dial"
        /\ task'[c] \in {"none", "dial"}
    BY <2>1 DEF TypeInv, Mine, Running, Gone
  <2>4. ASSUME NEW x \in Clis, Running(x)', task'[x] = "begin"
        PROVE  queue'[Len(queue')] = x
    <3>1. x # c /\ task[x] = "begin" /\ Running(x)
      BY <2>3, <2>4
    <3>2. queue[Len(queue)] = x
      BY <3>1 DEF OwnInv
    <3>3. Len(queue) # 1
      BY <2>2, <3>1, <3>2
    <3> QED
      BY <2>2, <3>2, <3>3, LastOfTail
  <2>5. ASSUME NEW x \in Clis, NEW y \in Clis, Running(x)', task'[x] # "begin", y # x
        PROVE  task'[y] \notin {"begin", "dial"}
    <3>1. CASE x # c
      <4>1. Running(x) /\ task[x] # "begin" /\ c # x
        BY <2>3, <2>5, <3>1
      <4> QED
        BY <2>1, <4>1 DEF OwnInv
    <3>2. CASE x = c
      <4>1. queue[Len(queue)] = c
        BY <2>1, <2>3, <2>5, <3>2 DEF OwnInv
      <4>2. Len(queue) = 1
        <5>1. \A i, j \in 1 .. Len(queue) : queue[i] = queue[j] => i = j
          BY DEF QueueInv
        <5> QED
          BY <2>2, <4>1, <5>1, OnlyEntry
      <4>3. task[y] # "begin"
        BY <2>2, <2>5, <3>2, <4>2 DEF QueueInv
      <4>4. task[y] # "dial"
        BY <2>1, PairingAssumption DEF SlotInv
      <4> QED
        BY <2>3, <2>5, <3>2, <4>3, <4>4
    <3> QED
      BY <3>1, <3>2
  <2>6. OneRuns'
    BY <2>3 DEF OneRuns
  <2> QED
    BY <2>1, <2>3, <2>4, <2>5, <2>6 DEF OwnInv
<1>2. CASE BeginSets(c)
  <2>1. /\ task[c] = "dial" /\ pending'.client = Mine(c)
        /\ task' = [task EXCEPT ![c] = "watch"]
        /\ cli' = IF cli[c].pc = "sent" THEN [cli EXCEPT ![c].pc = "shown"] ELSE cli
        /\ UNCHANGED <<queue, saved>>
    BY <1>2 DEF BeginSets, BeginOk, ShowQr, NewPending
  <2>2. \A x \in Clis : cli'[x].id = cli[x].id /\ Mine(x)' = Mine(x)
    BY <2>1, CliGoes DEF TypeInv, Mine
  <2>3. \A x \in Clis : Running(x)' => Running(x)
    BY <2>1 DEF Running, TypeInv
  <2>4. \A x \in Clis \ {c} : Running(x) => task[x] = "begin"
    BY <2>1 DEF OwnInv
  <2>5. task'[c] = "watch" /\ \A x \in Clis \ {c} : task'[x] = task[x]
    BY <2>1 DEF TypeInv
  <2> QED
    BY <2>1, <2>2, <2>3, <2>4, <2>5 DEF OneRuns, OwnInv
<1> QED
  BY <1>1, <1>2

LEMMA WatchKeepsOwn ==
    ASSUME TellInv, NEW c \in Clis, WatchPromotes(c) \/ Promote(c) \/ Undo(c)
    PROVE  OneRuns' /\ OwnInv'
<1> USE DEF TellInv, BaseInv
<1>1. UNCHANGED <<queue, cli>> /\ \A x \in Clis : Mine(x)' = Mine(x) /\ (Running(x)' <=> Running(x))
  BY DEF WatchPromotes, Promote, Undo, slotVars, cliVars, Mine, Running
<1>2. task'[c] \notin {"none", "begin", "dial", "watch"} /\ task[c] \notin {"none", "begin", "dial"}
      /\ \A x \in Clis \ {c} : task'[x] = task[x]
  BY DEF WatchPromotes, Promote, Undo, TypeInv
<1>3. pending' = pending \/ pending' = None
  BY DEF WatchPromotes, Promote, Undo, slotVars
<1>4. \A x \in Clis \ {c} : saved'[x] = saved[x]
  BY DEF WatchPromotes, Promote, Undo, TypeInv
<1>5. task[c] \in {"watch", "promote", "promoteFailed"} \/ task'[c] = "undo"
  BY DEF WatchPromotes, Promote, Undo, TypeInv
<1>6. ASSUME Running(c), task'[c] \in {"promote", "report"} PROVE saved'[c] = Mine(c)
  <2>1. CASE WatchPromotes(c)
    <3>1. task[c] = "watch" /\ pending # None
      BY <2>1 DEF WatchPromotes, Resolved
    <3>2. saved'[c] = pending.client
      BY <1>6, <2>1 DEF WatchPromotes, TypeInv
    <3> QED
      BY <1>6, <3>1, <3>2 DEF OwnInv
  <2>2. CASE Promote(c)
    <3>1. task[c] = "promote" /\ saved' = saved
      BY <1>6, <2>2 DEF Promote, SaveFailed, TypeInv
    <3> QED
      BY <1>6, <3>1 DEF OwnInv
  <2>3. CASE Undo(c)
    BY <1>6, <2>3 DEF Undo, TypeInv
  <2> QED
    BY <2>1, <2>2, <2>3
<1>7. OneRuns'
  BY <1>1 DEF OneRuns
<1> QED
  BY <1>1, <1>2, <1>3, <1>4, <1>5, <1>6, <1>7 DEF OwnInv

LEMMA OwnStep ==
    ASSUME TellInv, [Next]_vars
    PROVE  OneRuns' /\ OwnInv'
<1> USE DEF TellInv, BaseInv
<1>1. ASSUME NEW c \in Clis, NEW d \in Ids, CliStarts(c, d)
      PROVE  OneRuns' /\ OwnInv'
  <2>1. /\ cli' = [cli EXCEPT ![c] = [pc |-> "sent", id |-> d]]
        /\ task' = [task EXCEPT ![c] = "begin"]
        /\ queue' = Append(queue, c)
        /\ \A x \in Clis : ~Running(x)
    BY <1>1 DEF CliStarts, PairLockFree, Running
  <2>2. \A x \in Clis \ {c} : ~Running(x)'
    BY <2>1 DEF Running, TypeInv
  <2>3. task'[c] = "begin" /\ queue'[Len(queue')] = c
    BY <2>1 DEF TypeInv
  <2> QED
    BY <2>2, <2>3 DEF OneRuns, OwnInv
<1>2. ASSUME NEW c \in Clis, CliCancels(c) \/ CliDies(c) \/ Disconnect(c)
      PROVE  OneRuns' /\ OwnInv'
  <2>1. /\ \/ cli' = cli
           \/ cli' = [cli EXCEPT ![c].pc = "out"]
           \/ cli[c].pc = "shown" /\ cli' = [cli EXCEPT ![c].pc = "cancelling"]
        /\ UNCHANGED <<task, queue, pending, saved>>
    BY <1>2 DEF CliCancels, CliDies, Disconnect, slotVars
  <2>2. \A x \in Clis : cli'[x].id = cli[x].id
    BY <2>1, CliGoes DEF TypeInv
  <2>3. \A x \in Clis : Running(x)' => Running(x)
    BY <2>1, CliGoes DEF TypeInv, Running
  <2> QED
    BY <2>1, <2>2, <2>3, OwnStays
<1>3. ASSUME NEW c \in Clis, Report(c) \/ ReportFailure(c) \/ WatchCancelled(c)
      PROVE  OneRuns' /\ OwnInv'
  BY <1>3, OwnEnds DEF Report, ReportFailure, WatchCancelled, Tell, ClearPending, slotVars
<1>4. ASSUME NEW c \in Clis, TaskRuns(c)
      PROVE  OneRuns' /\ OwnInv'
  BY <1>3, <1>4, BeginKeepsOwn, WatchKeepsOwn DEF TaskRuns
<1>5. CASE AppJoins
  <2>1. pending # None /\ pending' = [pending EXCEPT !.joined = TRUE]
        /\ UNCHANGED <<task, queue, saved, cli>>
    BY <1>5 DEF AppJoins, cliVars
  <2>2. pending'.client = pending.client
    BY <2>1 DEF TypeInv, PendingPairings
  <2> QED
    BY <2>1, <2>2, OwnStays DEF Running
<1>6. ASSUME UNCHANGED <<task, queue, saved, cli>>, pending' \in {pending, None}
      PROVE  OneRuns' /\ OwnInv'
  BY <1>6, OwnStays DEF Running
<1>7. ASSUME NEW x \in cancels, CancelRuns(x)
      PROVE  OneRuns' /\ OwnInv'
  BY <1>6, <1>7 DEF CancelRuns, cliVars
<1>8. ASSUME NEW r, (\E d \in Ids : RemovePairing(r, d)) \/ RemoverRuns(r)
      PROVE  OneRuns' /\ OwnInv'
  BY <1>6, <1>8 DEF RemovePairing, RemoverRuns, RemoveFinds, RemoveDeletes, RemoveDisposes, RemoveDrops,
                    slotVars, cliVars
<1>9. CASE AdderRuns
  BY <1>6, <1>9 DEF AdderRuns, AddConnects, AddSaves, AddRegisters, AddsDone, slotVars, cliVars
<1>10. CASE DaemonRestarts
  <2>1. \A x \in Clis : ~Running(x)'
    BY <1>10 DEF DaemonRestarts, Running, Gone
  <2> QED
    BY <2>1 DEF OneRuns, OwnInv
<1>11. CASE UNCHANGED vars
  BY <1>6, <1>11 DEF vars
<1> QED
  BY <1>1, <1>2, <1>4, <1>5, <1>7, <1>8, <1>9, <1>10, <1>11 DEF Next

\* A command that is told "Paired" has a stored pairing behind it, and it is the
\* one this command began: the pair lock, the queue and the orchestrator's lock
\* leave no interleaving in which it hears of somebody else's or of a failed save.
THEOREM PairedMeansStored == Spec => []CompletedIsStored
<1>1. Init => TellInv
  BY BaseInvInit DEF Init, TellInv, OneRuns, OwnInv, Running, Gone
<1>2. TellInv /\ [Next]_vars => TellInv'
  BY BaseInvStep, OwnStep DEF TellInv
<1>3. TellInv => CompletedIsStored
  BY DEF TellInv, OwnInv, CompletedIsStored, Running
<1> QED
  BY <1>1, <1>2, <1>3, PTL DEF Spec

-----------------------------------------------------------------------------
(* A stored pairing is served.  Each row has a client that no removal is   *)
(* about to dispose of, or somebody is on the way to register one.         *)

\* Removals of different pairings are of different clients, all in the pool.
RemovalInv ==
    /\ \A r \in RemovalTasks : remover[r].pc # "idle" => remover[r].id \in removing
    /\ \A r, s \in RemovalTasks :
          remover[r].pc # "idle" /\ remover[s].pc # "idle" /\ remover[r].id = remover[s].id => r = s
    /\ \A r \in RemovalTasks :
          remover[r].client # None => /\ remover[r].client \in pool
                                      /\ remover[r].client[1] = remover[r].id
                                      /\ remover[r].pc # "idle"

\* A client is made by one command, and is in the pool only once it is promoted.
ClientInv ==
    /\ pending # None => /\ pending.client \in up \ pool
                         /\ pending.client[2] \in Clis
                         /\ task[pending.client[2]] \in {"watch", "promote", "promoteFailed"}
    /\ \A c \in Clis : task[c] = "begin" => Mine(c) \notin up \cup pool
    /\ \A c \in Clis : task[c] = "dial" => Mine(c) \in up \ pool

\* The start of the daemon makes one client for each row.
AddedInv ==
    /\ adder.pc \in {"save", "push"} => /\ <<adder.id, Saved>> \in up \ pool
                                        /\ adder.id \notin adder.todo
    /\ \A d \in adder.todo : <<d, Saved>> \notin pool

Served(d) == \E p \in pool \cap up :
    /\ p[1] = d
    /\ \A r \in RemovalTasks : remover[r].pc \in {"dispose", "drop"} => remover[r].client # p

RowInv == \A d \in rows :
    \/ d \in adder.skipped \cup adder.todo
    \/ adder.pc \in {"save", "push"} /\ adder.id = d
    \/ lock # None /\ task[lock] = "promote" /\ pending.client[1] = d
    \/ Served(d)

ServeInv == BaseInv /\ RemovalInv /\ ClientInv /\ AddedInv /\ RowInv

\* What a step that only concerns tasks and the slot leaves alone.
LEMMA PoolStays ==
    ASSUME ServeInv, UNCHANGED <<remover, removing, adder, rows, pool>>,
           \A p \in pool : p \in up => p \in up',
           \A d \in Ids : <<d, Saved>> \in up => <<d, Saved>> \in up',
           lock # None /\ task[lock] = "promote" =>
              lock' # None /\ task'[lock'] = "promote" /\ pending'.client = pending.client
    PROVE  RemovalInv' /\ AddedInv' /\ RowInv'
<1>1. RemovalInv'
  BY DEF ServeInv, RemovalInv
<1>2. AddedInv'
  BY DEF ServeInv, AddedInv, BaseInv, IdInv
<1>3. \A d \in rows : Served(d) => Served(d)'
  BY DEF Served
<1>4. RowInv'
  BY <1>3 DEF ServeInv, RowInv
<1> QED
  BY <1>1, <1>2, <1>4

LEMMA CliKeepsServed ==
    ASSUME ServeInv, NEW c \in Clis,
           (\E d \in Ids : CliStarts(c, d)) \/ CliCancels(c) \/ CliDies(c) \/ Disconnect(c)
    PROVE  RemovalInv' /\ ClientInv' /\ AddedInv' /\ RowInv'
<1> USE DEF ServeInv, BaseInv
<1>1. ASSUME NEW d \in Ids, CliStarts(c, d)
      PROVE  RemovalInv' /\ ClientInv' /\ AddedInv' /\ RowInv'
  <2>1. /\ cli' = [cli EXCEPT ![c] = [pc |-> "sent", id |-> d]]
        /\ task' = [task EXCEPT ![c] = "begin"]
        /\ task[c] = "none" /\ <<d, c>> \notin up \cup pool
        /\ UNCHANGED <<rows, pool, up, removing, pending, lock, remover, adder>>
    BY <1>1 DEF CliStarts
  <2>2. \A x \in Clis \ {c} : task'[x] = task[x] /\ Mine(x)' = Mine(x)
    BY <2>1 DEF TypeInv, Mine
  <2>3. task'[c] = "begin" /\ Mine(c)' = <<d, c>>
    BY <2>1 DEF TypeInv, Mine
  <2>4. ClientInv'
    BY <2>1, <2>2, <2>3 DEF ClientInv
  <2>5. lock # None => lock \in Clis \ {c}
    BY <2>1 DEF SlotInv, TypeInv
  <2> QED
    BY <2>1, <2>2, <2>4, <2>5, PoolStays
<1>2. CASE CliCancels(c) \/ CliDies(c) \/ Disconnect(c)
  <2>1. /\ \/ cli' = cli
           \/ \E where \in {"cancelling", "out"} : cli' = [cli EXCEPT ![c].pc = where]
        /\ UNCHANGED <<rows, pool, up, removing, pending, lock, task, remover, adder>>
    BY <1>2 DEF CliCancels, CliDies, Disconnect, slotVars
  <2>2. \A x \in Clis : Mine(x)' = Mine(x)
    BY <2>1, CliGoes DEF TypeInv, Mine
  <2>3. ClientInv'
    BY <2>1, <2>2 DEF ClientInv
  <2> QED
    BY <2>1, <2>3, PoolStays
<1> QED
  BY <1>1, <1>2

LEMMA BeginKeepsServed ==
    ASSUME ServeInv, NEW c \in Clis, BeginRefused(c) \/ BeginDials(c) \/ BeginSets(c)
    PROVE  RemovalInv' /\ ClientInv' /\ AddedInv' /\ RowInv'
<1> USE PairingAssumption DEF ServeInv, BaseInv
<1>1. CASE BeginRefused(c)
  <2>1. /\ task[c] = "begin" /\ lock = None
        /\ task' = [task EXCEPT ![c] = "none"]
        /\ cli' = [cli EXCEPT ![c] = Gone]
        /\ UNCHANGED <<rows, pool, up, removing, pending, lock, remover, adder>>
    BY <1>1 DEF BeginRefused, Tell, Admitted
  <2>2. task'[c] = "none" /\ \A x \in Clis \ {c} : task'[x] = task[x] /\ Mine(x)' = Mine(x)
    BY <2>1 DEF TypeInv, Mine
  <2>3. ClientInv'
    BY <2>1, <2>2 DEF ClientInv
  <2> QED
    BY <2>1, <2>3, PoolStays
<1>2. CASE BeginDials(c)
  <2>1. /\ task[c] = "begin" /\ lock = None /\ pending = None
        /\ up' = up \cup {Mine(c)}
        /\ task' = [task EXCEPT ![c] = "dial"]
        /\ UNCHANGED <<rows, pool, removing, pending, remover, adder, cli>>
    BY <1>2 DEF BeginDials, BuildRelayClient, Admitted, AlreadyPending, cliVars
  <2>2. task'[c] = "dial" /\ \A x \in Clis \ {c} : task'[x] = task[x]
    BY <2>1 DEF TypeInv
  <2>3. \A x \in Clis : Mine(x)' = Mine(x) /\ Mine(x)[2] = x
    BY <2>1 DEF Mine
  <2>4. ClientInv'
    BY <2>1, <2>2, <2>3 DEF ClientInv
  <2> QED
    BY <2>1, <2>4, PoolStays
<1>3. CASE BeginSets(c)
  <2>1. /\ task[c] = "dial" /\ lock = c
        /\ pending' = NewPending(c)
        /\ task' = [task EXCEPT ![c] = "watch"]
        /\ cli' = IF cli[c].pc = "sent" THEN [cli EXCEPT ![c].pc = "shown"] ELSE cli
        /\ UNCHANGED <<rows, pool, up, removing, remover, adder>>
    BY <1>3 DEF BeginSets, BeginOk, ShowQr, SlotInv
  <2>2. task'[c] = "watch" /\ \A x \in Clis \ {c} : task'[x] = task[x]
    BY <2>1 DEF TypeInv
  <2>3. \A x \in Clis : Mine(x)' = Mine(x) /\ Mine(x)[2] = x
    BY <2>1, CliGoes DEF TypeInv, Mine
  <2>4. pending'.client = Mine(c)
    BY <2>1 DEF NewPending
  <2>5. ClientInv'
    BY <2>1, <2>2, <2>3, <2>4 DEF ClientInv
  <2> QED
    BY <2>1, <2>5, PoolStays
<1> QED
  BY <1>1, <1>2, <1>3

LEMMA WatchKeepsServed ==
    ASSUME ServeInv, NEW c \in Clis, WatchPromotes(c) \/ Promote(c) \/ WatchCancelled(c)
    PROVE  RemovalInv' /\ ClientInv' /\ AddedInv' /\ RowInv'
<1> USE PairingAssumption DEF ServeInv, BaseInv
<1>1. CASE WatchPromotes(c)
  <2>1. /\ task[c] = "watch" /\ lock = None /\ lock' = c
        /\ UNCHANGED <<pool, up, removing, pending, remover, adder, cli>>
    BY <1>1 DEF WatchPromotes, cliVars
  <2>2. PICK where \in {"promote", "promoteFailed"} : task' = [task EXCEPT ![c] = where]
    BY <1>1 DEF WatchPromotes
  <2>3. task'[c] = where /\ \A x \in Clis \ {c} : task'[x] = task[x]
    BY <2>2 DEF TypeInv
  <2>4. rows' = rows \/ (rows' = rows \cup {pending.client[1]} /\ task'[c] = "promote")
    BY <1>1, <2>3 DEF WatchPromotes, SavePairing, TypeInv
  <2>5. ClientInv'
    BY <2>1, <2>3 DEF ClientInv, Mine
  <2>6. RemovalInv' /\ AddedInv'
    BY <2>1 DEF RemovalInv, AddedInv
  <2>7. \A d \in rows : Served(d) => Served(d)'
    BY <2>1 DEF Served
  <2>8. RowInv'
    BY <2>1, <2>4, <2>7 DEF RowInv
  <2> QED
    BY <2>5, <2>6, <2>8
<1>2. CASE Promote(c)
  <2>1. /\ task[c] \in {"promote", "promoteFailed"} /\ lock = c /\ pending # None
        /\ pool' = pool \cup {pending.client}
        /\ pending' = None
        /\ UNCHANGED <<rows, up, removing, remover, adder, cli>>
    BY <1>2 DEF Promote, cliVars, SlotInv
  <2>2. PICK where \in {"failed", "report"} : task' = [task EXCEPT ![c] = where]
    BY <1>2 DEF Promote
  <2>3. task'[c] = where /\ \A x \in Clis \ {c} : task'[x] = task[x]
    BY <2>2 DEF TypeInv
  <2>4. /\ pending.client \in up \ pool /\ pending.client[2] \in Clis
        /\ task[pending.client[2]] \notin {"begin", "dial"}
    BY <2>1 DEF ClientInv
  <2>5. \A x \in Clis : Mine(x)' = Mine(x) /\ Mine(x)[2] = x
    BY <2>1 DEF Mine
  <2>6. ClientInv'
    BY <2>1, <2>3, <2>4, <2>5 DEF ClientInv
  <2>7. RemovalInv'
    BY <2>1 DEF RemovalInv
  <2>8. \A d \in Ids : <<d, Saved>> # pending.client
    <3>1. \A d \in Ids : <<d, Saved>>[2] = Saved
      OBVIOUS
    <3> QED
      BY <2>4, <3>1
  <2>9. AddedInv'
    BY <2>1, <2>8 DEF AddedInv, IdInv, TypeInv
  <2>10. \A d \in rows : Served(d) => Served(d)'
    BY <2>1 DEF Served
  <2>11. \A d \in rows : d = pending.client[1] => Served(d)'
    <3>1. \A r \in RemovalTasks : remover[r].client # pending.client
      BY <2>1, <2>4 DEF RemovalInv, TypeInv
    <3>2. \E p \in pool' \cap up' : /\ p[1] = pending.client[1]
                                    /\ \A r \in RemovalTasks : remover'[r].client # p
      BY <2>1, <2>4, <3>1
    <3>3. \E p \in pool' \cap up' :
             /\ p[1] = pending.client[1]
             /\ \A r \in RemovalTasks : remover'[r].pc \in {"dispose", "drop"} => remover'[r].client # p
      BY <3>2
    <3> QED
      BY <3>3 DEF Served
  <2>12. RowInv'
    BY <2>1, <2>10, <2>11 DEF RowInv
  <2> QED
    BY <2>6, <2>7, <2>9, <2>12
<1>3. CASE WatchCancelled(c)
  <2>1. /\ lock = None /\ pending = None
        /\ task' = [task EXCEPT ![c] = "none"]
        /\ cli' = [cli EXCEPT ![c] = Gone]
        /\ UNCHANGED <<rows, pool, up, removing, pending, lock, remover, adder>>
    BY <1>3 DEF WatchCancelled, Tell
  <2>2. task'[c] = "none" /\ \A x \in Clis \ {c} : task'[x] = task[x] /\ Mine(x)' = Mine(x)
    BY <2>1 DEF TypeInv, Mine
  <2>3. ClientInv'
    BY <2>1, <2>2 DEF ClientInv
  <2> QED
    BY <2>1, <2>3, PoolStays
<1> QED
  BY <1>1, <1>2, <1>3

\* The slot's client is not in the pool: to dispose of it takes nothing from a row.
LEMMA SlotKeepsServed ==
    ASSUME ServeInv, AppJoins \/ \E x \in cancels : CancelRuns(x)
    PROVE  RemovalInv' /\ ClientInv' /\ AddedInv' /\ RowInv'
<1> USE PairingAssumption DEF ServeInv, BaseInv
<1>1. UNCHANGED <<rows, pool, removing, lock, task, remover, adder, cli>>
  BY DEF AppJoins, CancelRuns, cliVars
<1>2. \A x \in Clis : Mine(x)' = Mine(x)
  BY <1>1 DEF Mine
<1>3. CASE AppJoins
  <2>1. pending \in PendingPairings /\ pending' = [pending EXCEPT !.joined = TRUE] /\ up' = up
    BY <1>3 DEF AppJoins, TypeInv
  <2>2. pending' # None => pending # None /\ pending'.client = pending.client
    BY <2>1 DEF PendingPairings
  <2>3. pending'.client = pending.client
    BY <2>1 DEF PendingPairings
  <2>4. ClientInv'
    BY <1>1, <1>2, <2>1, <2>2 DEF ClientInv
  <2> QED
    BY <1>1, <2>1, <2>3, <2>4, PoolStays
<1>4. CASE (\E x \in cancels : CancelRuns(x)) /\ pending' = pending /\ up' = up
  BY <1>1, <1>2, <1>4, PoolStays DEF ClientInv
<1>5. CASE (\E x \in cancels : CancelRuns(x)) /\ pending # None /\ pending' = None
           /\ up' = up \ {pending.client}
  <2>1. lock = None /\ pending.client \notin pool /\ pending.client[2] \in Clis
    BY <1>5 DEF CancelRuns, ClientInv
  <2>2. \A d \in Ids : <<d, Saved>> # pending.client
    <3>1. \A d \in Ids : <<d, Saved>>[2] = Saved
      OBVIOUS
    <3> QED
      BY <2>1, <3>1
  <2>3. \A x \in Clis : task[x] # "dial"
    BY <2>1 DEF SlotInv
  <2>4. ClientInv'
    BY <1>1, <1>2, <1>5, <2>3 DEF ClientInv
  <2> QED
    BY <1>1, <1>5, <2>1, <2>2, <2>4, PoolStays
<1> QED
  BY <1>3, <1>4, <1>5 DEF CancelRuns

LEMMA ReportKeepsServed ==
    ASSUME ServeInv, NEW c \in Clis, Report(c) \/ ReportFailure(c)
    PROVE  RemovalInv' /\ ClientInv' /\ AddedInv' /\ RowInv'
<1> USE PairingAssumption DEF ServeInv, BaseInv
<1>1. /\ task[c] \in {"report", "undo"} /\ task' = [task EXCEPT ![c] = "none"]
      /\ cli' = [cli EXCEPT ![c] = Gone]
      /\ UNCHANGED <<rows, pool, removing, lock, remover, adder>>
  BY DEF Report, ReportFailure, Tell, slotVars
<1>2. task'[c] = "none" /\ \A x \in Clis \ {c} : task'[x] = task[x] /\ Mine(x)' = Mine(x)
  BY <1>1 DEF TypeInv, Mine
<1>3. lock # None => lock \in Clis \ {c}
  BY <1>1 DEF SlotInv, TypeInv
<1>4. CASE pending' = pending /\ up' = up
  <2>1. ClientInv'
    BY <1>1, <1>2, <1>4 DEF ClientInv
  <2> QED
    BY <1>1, <1>2, <1>3, <1>4, <2>1, PoolStays
<1>5. CASE ReportFailure(c) /\ pending # None /\ up' = up \ {pending.client} /\ pending' = None
  <2>1. lock = None /\ pending.client \notin pool /\ pending.client[2] \in Clis
    BY <1>5 DEF ReportFailure, ClientInv
  <2>2. \A d \in Ids : <<d, Saved>> # pending.client
    <3>1. \A d \in Ids : <<d, Saved>>[2] = Saved
      OBVIOUS
    <3> QED
      BY <2>1, <3>1
  <2>3. \A x \in Clis : task[x] # "dial"
    BY <2>1 DEF SlotInv
  <2>4. ClientInv'
    BY <1>1, <1>2, <1>5, <2>3 DEF ClientInv
  <2> QED
    BY <1>1, <1>5, <2>1, <2>2, <2>4, PoolStays
<1> QED
  BY <1>4, <1>5 DEF Report, ReportFailure, ClearPending, slotVars

\* What a removal task does to its own state.
LEMMA RemoverGoes ==
    ASSUME TypeInv, NEW r \in RemovalTasks, NEW where, NEW p,
           \/ remover' = [remover EXCEPT ![r].pc = where] /\ p = remover[r].client
           \/ remover' = [remover EXCEPT ![r].pc = where, ![r].client = p]
    PROVE  /\ remover'[r].pc = where /\ remover'[r].id = remover[r].id /\ remover'[r].client = p
           /\ \A s \in RemovalTasks \ {r} : remover'[s] = remover[s]
<1>1. remover[r] \in [pc : {"idle", "find", "delete", "dispose", "drop"},
                      id : Ids \cup {None}, client : AllClients \cup {None}]
      /\ DOMAIN remover = RemovalTasks
  BY DEF TypeInv
<1>2. \A s \in RemovalTasks \ {r} : remover'[s] = remover[s]
  BY <1>1
<1>3. CASE remover' = [remover EXCEPT ![r].pc = where] /\ p = remover[r].client
  <2>1. remover'[r] = [remover[r] EXCEPT !.pc = where]
    BY <1>1, <1>3
  <2> QED
    BY <1>1, <1>2, <1>3, <2>1
<1>4. CASE remover' = [remover EXCEPT ![r].pc = where, ![r].client = p]
  <2>1. remover'[r] = [[remover[r] EXCEPT !.pc = where] EXCEPT !.client = p]
    BY <1>1, <1>4
  <2> QED
    BY <1>1, <1>2, <2>1
<1> QED
  BY <1>3, <1>4

\* A removal that begins disposes of nothing yet.
LEMMA RemovalBegins ==
    ASSUME ServeInv, NEW r \in RemovalTasks, NEW d \in Ids,
           UNCHANGED <<pool, up, pending, lock, adder, cli>>, rows' \subseteq rows,
           \/ UNCHANGED <<removing, remover>>
           \/ /\ d \notin removing /\ removing' = removing \cup {d}
              /\ remover' = [remover EXCEPT ![r] = [pc |-> "find", id |-> d, client |-> None]],
           \/ task' = task
           \/ \E c \in Clis : task[c] = "failed" /\ task' = [task EXCEPT ![c] = "undo"]
    PROVE  RemovalInv' /\ ClientInv' /\ AddedInv' /\ RowInv'
<1> USE PairingAssumption DEF ServeInv, BaseInv
<1>1. \A x \in Clis : Mine(x)' = Mine(x)
  BY DEF Mine
<1>2. \A x \in Clis : task[x] # "failed" => task'[x] = task[x]
  BY DEF TypeInv
<1>3. \A x \in Clis : task'[x] \in {"begin", "dial"} => task[x] = task'[x]
  BY DEF TypeInv
<1>4. ClientInv'
  BY <1>1, <1>2, <1>3 DEF ClientInv
<1>5. AddedInv'
  BY DEF AddedInv
<1>6. CASE UNCHANGED <<removing, remover>>
  <2>1. RemovalInv'
    BY <1>6 DEF RemovalInv
  <2>2. \A x \in rows : Served(x) => Served(x)'
    BY <1>6 DEF Served
  <2>3. RowInv'
    BY <1>2, <2>2 DEF RowInv, TypeInv
  <2> QED
    BY <1>4, <1>5, <2>1, <2>3
<1>7. CASE /\ d \notin removing /\ removing' = removing \cup {d}
           /\ remover' = [remover EXCEPT ![r] = [pc |-> "find", id |-> d, client |-> None]]
  <2>1. /\ remover'[r] = [pc |-> "find", id |-> d, client |-> None]
        /\ \A s \in RemovalTasks \ {r} : remover'[s] = remover[s]
    BY <1>7 DEF TypeInv
  <2>2. RemovalInv'
    BY <1>7, <2>1 DEF RemovalInv
  <2>3. \A s \in RemovalTasks : remover'[s].pc \in {"dispose", "drop"} => remover'[s] = remover[s]
    BY <2>1
  <2>4. \A x \in rows : Served(x) => Served(x)'
    BY <2>3 DEF Served
  <2>5. RowInv'
    BY <1>2, <2>4 DEF RowInv, TypeInv
  <2> QED
    BY <1>4, <1>5, <2>2, <2>5
<1> QED
  BY <1>6, <1>7

LEMMA RemoverKeepsServed ==
    ASSUME ServeInv, NEW r \in RemovalTasks, RemoverRuns(r)
    PROVE  RemovalInv' /\ ClientInv' /\ AddedInv' /\ RowInv'
<1> USE PairingAssumption DEF ServeInv, BaseInv
<1>1. UNCHANGED <<pending, lock, task, adder, cli>> /\ \A x \in Clis : Mine(x)' = Mine(x)
  BY DEF RemoverRuns, RemoveFinds, RemoveDeletes, RemoveDisposes, RemoveDrops, slotVars, cliVars, Mine
<1>2. remover[r].client # None => /\ remover[r].client \in pool
                                  /\ remover[r].client[1] = remover[r].id
  BY DEF RemovalInv
<1>3. CASE RemoveFinds(r)
  <2>1. UNCHANGED <<rows, pool, up, removing>> /\ remover[r].pc = "find"
    BY <1>3 DEF RemoveFinds
  <2>2. PICK p : /\ p = None \/ (p \in pool /\ p[1] = remover[r].id)
                 /\ remover' = [remover EXCEPT ![r].pc = "delete", ![r].client = p]
    BY <1>3 DEF RemoveFinds
  <2>3. /\ remover'[r].pc = "delete" /\ remover'[r].id = remover[r].id /\ remover'[r].client = p
        /\ \A s \in RemovalTasks \ {r} : remover'[s] = remover[s]
    BY <2>2, RemoverGoes
  <2>4. RemovalInv'
    <3>1. p = None \/ (p \in pool /\ p[1] = remover[r].id)
      BY <2>2
    <3>2. \A s \in RemovalTasks : remover'[s].pc # "idle" => remover'[s].id \in removing'
      BY <2>1, <2>3 DEF RemovalInv
    <3>3. \A s, q \in RemovalTasks :
             remover'[s].pc # "idle" /\ remover'[q].pc # "idle" /\ remover'[s].id = remover'[q].id
                => s = q
      BY <2>1, <2>3 DEF RemovalInv
    <3>4. ASSUME NEW s \in RemovalTasks, remover'[s].client # None
          PROVE  /\ remover'[s].client \in pool' /\ remover'[s].pc # "idle"
                 /\ remover'[s].client[1] = remover'[s].id
      <4>1. CASE s = r
        BY <2>1, <2>3, <3>1, <3>4, <4>1
      <4>2. CASE s # r
        BY <2>1, <2>3, <3>4, <4>2 DEF RemovalInv
      <4> QED
        BY <4>1, <4>2
    <3> QED
      BY <3>2, <3>3, <3>4 DEF RemovalInv
  <2>5. \A x \in rows : Served(x) => Served(x)'
    BY <2>1, <2>3 DEF Served
  <2> QED
    BY <1>1, <2>1, <2>4, <2>5 DEF RowInv, ClientInv, AddedInv
<1>4. CASE RemoveDeletes(r)
  <2>1. /\ UNCHANGED <<pool, up, removing>> /\ remover[r].pc = "delete"
        /\ rows' = rows \ {remover[r].id}
        /\ remover' = [remover EXCEPT ![r].pc = "dispose"]
    BY <1>4 DEF RemoveDeletes, DeletePairing
  <2>2. /\ remover'[r].pc = "dispose" /\ remover'[r].id = remover[r].id
        /\ remover'[r].client = remover[r].client
        /\ \A s \in RemovalTasks \ {r} : remover'[s] = remover[s]
    BY <2>1, RemoverGoes
  <2>3. RemovalInv'
    BY <2>1, <2>2 DEF RemovalInv
  <2>4. ASSUME NEW x \in rows, x # remover[r].id, Served(x)
        PROVE  Served(x)'
    <3>1. PICK p \in pool \cap up :
             /\ p[1] = x
             /\ \A s \in RemovalTasks : remover[s].pc \in {"dispose", "drop"} => remover[s].client # p
      BY <2>4 DEF Served
    <3>2. p # remover[r].client
      BY <1>2, <2>4, <3>1 DEF TypeInv
    <3> QED
      BY <2>1, <2>2, <3>1, <3>2 DEF Served
  <2>5. RowInv'
    BY <1>1, <2>1, <2>4 DEF RowInv
  <2> QED
    BY <1>1, <2>1, <2>3, <2>5 DEF ClientInv, AddedInv
<1>5. CASE RemoveDisposes(r)
  <2>1. /\ UNCHANGED <<rows, pool, removing>> /\ remover[r].pc = "dispose"
        /\ up' = up \ {remover[r].client}
        /\ remover' = [remover EXCEPT ![r].pc = "drop"]
    BY <1>5 DEF RemoveDisposes
  <2>2. /\ remover'[r].pc = "drop" /\ remover'[r].id = remover[r].id
        /\ remover'[r].client = remover[r].client
        /\ \A s \in RemovalTasks \ {r} : remover'[s] = remover[s]
    BY <2>1, RemoverGoes
  <2>3. RemovalInv'
    BY <2>1, <2>2 DEF RemovalInv
  <2>4. \A p \in up : p \notin pool => p \in up'
    BY <1>2, <2>1 DEF TypeInv
  <2>5. ClientInv'
    BY <1>1, <2>1, <2>4 DEF ClientInv
  <2>6. AddedInv'
    BY <1>1, <2>1, <2>4 DEF AddedInv
  <2>7. \A x \in rows : Served(x) => Served(x)'
    BY <2>1, <2>2 DEF Served
  <2>8. RowInv'
    BY <1>1, <2>1, <2>7 DEF RowInv
  <2> QED
    BY <2>3, <2>5, <2>6, <2>8
<1>6. CASE RemoveDrops(r)
  <2>1. /\ UNCHANGED <<rows, up>> /\ remover[r].pc = "drop"
        /\ pool' = pool \ {remover[r].client}
        /\ removing' = removing \ {remover[r].id}
        /\ remover' = [remover EXCEPT ![r] = IdleRemover]
    BY <1>6 DEF RemoveDrops, Dropped
  <2>2. /\ remover'[r].pc = "idle" /\ remover'[r].client = None
        /\ \A s \in RemovalTasks \ {r} : remover'[s] = remover[s]
    BY <2>1 DEF TypeInv, IdleRemover
  <2>3. ASSUME NEW s \in RemovalTasks, s # r, remover[s].pc # "idle"
        PROVE  remover[s].id # remover[r].id
    BY <2>1, <2>3 DEF RemovalInv
  <2>4. RemovalInv'
    <3>1. \A s \in RemovalTasks : remover'[s].pc # "idle" => remover'[s].id \in removing'
      BY <2>1, <2>2, <2>3 DEF RemovalInv
    <3>2. \A s \in RemovalTasks :
             remover'[s].client # None => /\ remover'[s].client \in pool'
                                          /\ remover'[s].client[1] = remover'[s].id
                                          /\ remover'[s].pc # "idle"
      BY <1>2, <2>1, <2>2, <2>3 DEF RemovalInv
    <3> QED
      BY <2>2, <3>1, <3>2 DEF RemovalInv
  <2>5. ClientInv'
    BY <1>1, <2>1 DEF ClientInv
  <2>6. AddedInv'
    BY <1>1, <2>1 DEF AddedInv
  <2>7. \A x \in rows : Served(x) => Served(x)'
    BY <2>1, <2>2 DEF Served
  <2>8. RowInv'
    BY <1>1, <2>1, <2>7 DEF RowInv
  <2> QED
    BY <2>4, <2>5, <2>6, <2>8
<1> QED
  BY <1>3, <1>4, <1>5, <1>6 DEF RemoverRuns

LEMMA AdderKeepsServed ==
    ASSUME ServeInv, AdderRuns
    PROVE  RemovalInv' /\ ClientInv' /\ AddedInv' /\ RowInv'
<1> USE PairingAssumption DEF ServeInv, BaseInv
<1>1. UNCHANGED <<removing, pending, lock, task, remover, cli>> /\ \A x \in Clis : Mine(x)' = Mine(x)
  BY DEF AdderRuns, AddConnects, AddSaves, AddRegisters, AddsDone, slotVars, cliVars, Mine
<1>2. adder \in AdderStates
  BY DEF TypeInv, AdderStates
<1>3. \A d : (pending # None => <<d, Saved>> # pending.client)
             /\ \A x \in Clis : <<d, Saved>> # Mine(x)
  <2>1. \A d : <<d, Saved>>[2] = Saved
    OBVIOUS
  <2>2. \A x \in Clis : Mine(x)[2] = x
    BY DEF Mine
  <2> QED
    BY <2>1, <2>2 DEF ClientInv
<1>4. ASSUME NEW d \in Ids, AddConnects(d)
      PROVE  RemovalInv' /\ ClientInv' /\ AddedInv' /\ RowInv'
  <2>1. /\ adder.pc = "next" /\ d \in adder.todo /\ UNCHANGED <<rows, pool>>
        /\ up' = up \cup {<<d, Saved>>}
    BY <1>4 DEF AddConnects
  <2>2. adder' = [pc |-> "save", id |-> d, todo |-> adder.todo \ {d}, skipped |-> adder.skipped]
    BY <1>2, <1>4 DEF AddConnects, AdderStates
  <2>3. RemovalInv'
    BY <1>1, <2>1 DEF RemovalInv
  <2>4. ClientInv'
    BY <1>1, <1>3, <2>1 DEF ClientInv
  <2>5. AddedInv'
    BY <2>1, <2>2 DEF AddedInv
  <2>6. \A x \in rows : Served(x) => Served(x)'
    BY <1>1, <2>1 DEF Served
  <2>7. RowInv'
    BY <1>1, <2>1, <2>2, <2>6 DEF RowInv
  <2> QED
    BY <2>3, <2>4, <2>5, <2>7
<1>5. CASE AddSaves
  <2>1. /\ adder.pc = "save" /\ pool' = pool
        /\ \/ up' = up /\ rows' = rows \cup {adder.id} /\ adder'.pc = "push"
           \/ up' = up \ {<<adder.id, Saved>>} /\ rows' = rows /\ adder'.pc = "next"
    BY <1>2, <1>5 DEF AddSaves, SavePairing, AdderStates
  <2>2. \/ adder' = [pc |-> "push", id |-> adder.id, todo |-> adder.todo, skipped |-> adder.skipped]
        \/ adder' = [pc |-> "next", id |-> None, todo |-> adder.todo,
                     skipped |-> adder.skipped \cup {adder.id}]
    BY <1>2, <1>5 DEF AddSaves, AdderStates
  <2>3. <<adder.id, Saved>> \in up \ pool /\ adder.id \notin adder.todo
    BY <2>1 DEF AddedInv
  <2>4. RemovalInv'
    BY <1>1, <2>1 DEF RemovalInv
  <2>5. ClientInv'
    BY <1>1, <1>3, <2>1 DEF ClientInv
  <2>6. AddedInv'
    BY <2>1, <2>2, <2>3 DEF AddedInv
  <2>7. \A x \in rows : Served(x) => Served(x)'
    BY <1>1, <2>1, <2>3 DEF Served
  <2>8. RowInv'
    BY <1>1, <2>1, <2>2, <2>7 DEF RowInv
  <2> QED
    BY <2>4, <2>5, <2>6, <2>8
<1>6. CASE AddRegisters
  <2>1. /\ adder.pc = "push" /\ UNCHANGED <<rows, up>>
        /\ pool' = pool \cup {<<adder.id, Saved>>}
    BY <1>6 DEF AddRegisters
  <2>2. adder' = [pc |-> "next", id |-> None, todo |-> adder.todo, skipped |-> adder.skipped]
    BY <1>2, <1>6 DEF AddRegisters, AdderStates
  <2>3. <<adder.id, Saved>> \in up \ pool /\ adder.id \notin adder.todo
    BY <2>1 DEF AddedInv
  <2>4. RemovalInv'
    BY <1>1, <2>1 DEF RemovalInv
  <2>5. ClientInv'
    BY <1>1, <1>3, <2>1 DEF ClientInv
  <2>6. AddedInv'
    <3>1. \A d \in adder.todo : <<d, Saved>> # <<adder.id, Saved>>
      BY <2>3
    <3> QED
      BY <2>1, <2>2, <3>1 DEF AddedInv
  <2>7. \A x \in rows : Served(x) => Served(x)'
    BY <1>1, <2>1 DEF Served
  <2>8. \A x \in rows : x = adder.id => Served(x)'
    <3>1. \A r \in RemovalTasks : remover[r].client # <<adder.id, Saved>>
      <4> SUFFICES ASSUME NEW r \in RemovalTasks, remover[r].client = <<adder.id, Saved>>
                   PROVE  FALSE
        OBVIOUS
      <4>1. remover[r].client # None
        BY <2>3 DEF TypeInv
      <4>2. remover[r].client \in pool
        BY <4>1 DEF RemovalInv
      <4> QED
        BY <2>3, <4>2
    <3>2. <<adder.id, Saved>> \in pool' \cap up' /\ <<adder.id, Saved>>[1] = adder.id
      BY <2>1, <2>3
    <3>3. \E p \in pool' \cap up' :
             /\ p[1] = adder.id
             /\ \A r \in RemovalTasks : remover'[r].pc \in {"dispose", "drop"} => remover'[r].client # p
      BY <1>1, <3>1, <3>2
    <3> QED
      BY <3>3 DEF Served
  <2>9. RowInv'
    BY <1>1, <2>1, <2>2, <2>7, <2>8 DEF RowInv
  <2> QED
    BY <2>4, <2>5, <2>6, <2>9
<1>7. CASE AddsDone
  <2>1. /\ UNCHANGED <<rows, pool, up>> /\ adder.pc = "next" /\ adder.todo = {}
    BY <1>7 DEF AddsDone
  <2>2. adder' = [pc |-> "done", id |-> adder.id, todo |-> adder.todo, skipped |-> adder.skipped]
    BY <1>2, <1>7 DEF AddsDone, AdderStates
  <2>3. RemovalInv' /\ ClientInv'
    BY <1>1, <2>1 DEF RemovalInv, ClientInv
  <2>4. AddedInv'
    BY <2>1, <2>2 DEF AddedInv
  <2>5. \A x \in rows : Served(x) => Served(x)'
    BY <1>1, <2>1 DEF Served
  <2>6. RowInv'
    BY <1>1, <2>1, <2>2, <2>5 DEF RowInv
  <2> QED
    BY <2>3, <2>4, <2>6
<1> QED
  BY <1>4, <1>5, <1>6, <1>7 DEF AdderRuns

LEMMA ServedStep ==
    ASSUME ServeInv, [Next]_vars
    PROVE  RemovalInv' /\ ClientInv' /\ AddedInv' /\ RowInv'
<1>1. ASSUME NEW c \in Clis, TaskRuns(c)
      PROVE  RemovalInv' /\ ClientInv' /\ AddedInv' /\ RowInv'
  <2>1. CASE BeginRefused(c) \/ BeginDials(c) \/ BeginSets(c)
    BY <2>1, BeginKeepsServed
  <2>2. CASE WatchPromotes(c) \/ Promote(c) \/ WatchCancelled(c)
    BY <2>2, WatchKeepsServed
  <2>3. CASE Report(c) \/ ReportFailure(c)
    BY <2>3, ReportKeepsServed
  <2>4. CASE Undo(c)
    <3>1. task[c] = "failed" /\ cli[c].id \in Ids /\ c \in RemovalTasks
      BY <2>4 DEF Undo, ServeInv, BaseInv, IdInv, RemovalTasks
    <3>2. /\ UNCHANGED <<pool, up, pending, lock, adder, cli>> /\ rows' \subseteq rows
          /\ task' = [task EXCEPT ![c] = "undo"]
          /\ \/ UNCHANGED <<removing, remover>>
             \/ /\ cli[c].id \notin removing /\ removing' = removing \cup {cli[c].id}
                /\ remover' = [remover EXCEPT ![c] =
                                 [pc |-> "find", id |-> cli[c].id, client |-> None]]
      BY <2>4 DEF Undo, DeletePairing, slotVars, cliVars
    <3> QED
      BY <3>1, <3>2, RemovalBegins
  <2> QED
    BY <1>1, <2>1, <2>2, <2>3, <2>4 DEF TaskRuns
<1>2. ASSUME NEW r \in Removers, NEW d \in Ids, RemovePairing(r, d)
      PROVE  RemovalInv' /\ ClientInv' /\ AddedInv' /\ RowInv'
  <2>1. r \in RemovalTasks
    BY DEF RemovalTasks
  <2>2. /\ UNCHANGED <<pool, up, pending, lock, adder, cli, task>> /\ rows' \subseteq rows
        /\ \/ UNCHANGED <<removing, remover>>
           \/ /\ d \notin removing /\ removing' = removing \cup {d}
              /\ remover' = [remover EXCEPT ![r] = [pc |-> "find", id |-> d, client |-> None]]
    BY <1>2 DEF RemovePairing, DeletePairing, slotVars, cliVars
  <2> QED
    BY <2>1, <2>2, RemovalBegins
<1>3. ASSUME NEW r \in Removers \cup Clis, RemoverRuns(r)
      PROVE  RemovalInv' /\ ClientInv' /\ AddedInv' /\ RowInv'
  BY <1>3, RemoverKeepsServed DEF RemovalTasks
<1>4. CASE DaemonRestarts
  <2>1. /\ pool' = {} /\ up' = {} /\ removing' = {} /\ pending' = None
        /\ task' = [c \in Clis |-> "none"] /\ rows' = rows
        /\ remover' = [r \in RemovalTasks |-> IdleRemover]
        /\ adder' = [pc |-> "next", id |-> None, todo |-> rows, skipped |-> {}]
    BY <1>4 DEF DaemonRestarts, EmptyManager, NothingPending, LoadPairings, RemovalTasks
  <2>2. RemovalInv'
    BY <2>1 DEF RemovalInv, IdleRemover
  <2>3. ClientInv'
    BY <2>1 DEF ClientInv
  <2>4. AddedInv' /\ RowInv'
    BY <2>1 DEF AddedInv, RowInv
  <2> QED
    BY <2>2, <2>3, <2>4
<1>5. CASE UNCHANGED vars
  <2>1. UNCHANGED <<rows, pool, up, removing, pending, lock, task, remover, adder, cli>>
    BY <1>5 DEF vars
  <2>2. ClientInv'
    BY <2>1 DEF ServeInv, ClientInv, Mine
  <2> QED
    BY <2>1, <2>2, PoolStays
<1> QED
  BY <1>1, <1>2, <1>3, <1>4, <1>5, CliKeepsServed, SlotKeepsServed, AdderKeepsServed DEF Next

\* A stored pairing is served: however removals, promotions, failed saves and the
\* start of the daemon interleave, when nothing is in progress each row that could
\* be loaded has a live client in the relay manager's pool.
THEOREM StoredPairingIsServed == Spec => []RowHasClient
<1>1. Init => ServeInv
  <2>1. ASSUME Init PROVE RemovalInv
    BY <2>1 DEF Init, RemovalInv, RemovalTasks, IdleRemover
  <2>2. ASSUME Init PROVE ClientInv /\ AddedInv /\ RowInv
    BY <2>2 DEF Init, ClientInv, AddedInv, RowInv, NoAdder
  <2> QED
    BY <2>1, <2>2, BaseInvInit DEF ServeInv
<1>2. ServeInv /\ [Next]_vars => ServeInv'
  BY BaseInvStep, ServedStep DEF ServeInv
<1>3. ServeInv => RowHasClient
  BY DEF ServeInv, BaseInv, IdInv, RowInv, Served, RowHasClient, Quiet
<1> QED
  BY <1>1, <1>2, <1>3, PTL DEF Spec

=============================================================================
