-------------------------- MODULE DaemonClientProofs -------------------------
(***************************************************************************)
(* The daemon's relay client for any number of sessions and generations,   *)
(* any channel capacity and any number of faults.                          *)
(***************************************************************************)
EXTENDS DaemonClient, FiniteSetTheorems, SequenceTheorems, TLAPS

ConnStates == [pc : {"idle", "check", "clean", "abort", "gen", "dial", "verify", "assign",
                     "push", "open"},
               gen : Generation \cup {None}]
ReaderStates == {"none", "done", "wait", "copy", "copyResumed", "subs", "quietSubs"}

\* A connect() that has its number.
Numbered == conn.pc \in {"dial", "verify", "assign", "push", "open"}

TypeInv ==
    /\ gen \in Generation
    /\ conn \in ConnStates
    /\ reader \in [Generation -> ReaderStates]
    /\ timer \in Timers \cup {None}
    /\ tasks \subseteq Generation
    /\ dispose \in {"no", "flag", "state", "done"}
    /\ Numbered => conn.gen \in Generation

\* A new generation is one of the generations.
LEMMA BumpTyped ==
    ASSUME gen \in Generation, Bump
    PROVE  /\ gen' \in Generation /\ reader[gen'] \in {"none", "done"} /\ conn.gen # gen'
           /\ timer # None => timer.gen # gen'
<1>1. /\ gen' = (gen + 1) % Gens
      /\ reader[gen'] \in {"none", "done"} /\ conn.gen # gen'
      /\ timer # None => timer.gen # gen'
  BY DEF Bump
<1>2. Gens \in Nat /\ Gens > 0 /\ gen + 1 \in Nat
  BY ClientAssumption DEF Generation
<1>3. (gen + 1) % Gens \in 0 .. Gens - 1
  BY <1>2
<1> QED
  BY <1>1, <1>3 DEF Generation

LEMMA TypeInvInit == Init => TypeInv
BY ClientAssumption DEF Init, TypeInv, Generation, ConnStates, ReaderStates, Numbered

\* A connect() goes on.
LEMMA ConnGoes ==
    ASSUME NEW st \in ConnStates, NEW where
    PROVE  [st EXCEPT !.pc = where] = [pc |-> where, gen |-> st.gen]
BY DEF ConnStates

\* A reconnect task is one of the timers.
LEMMA NewTimerTyped ==
    [pc |-> "new", gen |-> None, slow |-> FALSE] \in Timers
    /\ [pc |-> "new", gen |-> None, slow |-> FALSE] # None
<1>1. [pc |-> "new", gen |-> None, slow |-> FALSE] \in Timers
  BY DEF Timers
<1> QED
  BY <1>1, ClientAssumption

LEMMA SleepTyped ==
    ASSUME gen \in Generation
    PROVE  /\ [pc |-> "sleep", gen |-> gen, slow |-> NextPeerless >= Threshold] \in Timers
           /\ [pc |-> "sleep", gen |-> gen, slow |-> NextPeerless >= Threshold] # None
<1>1. \A b \in BOOLEAN : [pc |-> "sleep", gen |-> gen, slow |-> b] \in Timers
  BY DEF Timers
<1>2. (NextPeerless >= Threshold) \in BOOLEAN
  OBVIOUS
<1>3. [pc |-> "sleep", gen |-> gen, slow |-> NextPeerless >= Threshold] \in Timers
  BY <1>1, <1>2
<1> QED
  BY <1>3, ClientAssumption

LEMMA ConnectingTyped ==
    ASSUME TypeInv, Connecting \/ DialFails
    PROVE  TypeInv'
<1> USE DEF TypeInv
<1>1. dispose' = dispose /\ (timer' = timer \/ Schedule)
  BY DEF Connecting, ConnectStarts, ConnectCleans, ConnectAborts, ConnectNumbers, Dialled,
         ConnectVerifies, ConnectAssigns, ConnectRegisters, OnOpen, DialFails, Stay
<1>2. timer' \in Timers \cup {None}
  BY <1>1, NewTimerTyped DEF Schedule
<1>3. gen' = gen \/ Bump
  BY DEF Connecting, ConnectStarts, ConnectCleans, ConnectAborts, ConnectNumbers, Dialled,
         ConnectVerifies, ConnectAssigns, ConnectRegisters, OnOpen, DialFails, clientVars,
         CleanState, AbortTasks
<1>4. gen' \in Generation
  BY <1>3, BumpTyped
<1>5. tasks' \subseteq Generation
  BY DEF Connecting, ConnectStarts, ConnectCleans, ConnectAborts, ConnectNumbers, Dialled,
         ConnectVerifies, ConnectAssigns, ConnectRegisters, OnOpen, DialFails, clientVars,
         CleanState, AbortTasks, Numbered
<1>6. reader' \in [Generation -> ReaderStates]
  BY DEF Connecting, ConnectStarts, ConnectCleans, ConnectAborts, ConnectNumbers, Dialled,
         ConnectVerifies, ConnectAssigns, ConnectRegisters, OnOpen, DialFails, AbortTasks,
         ReaderStates
<1>7. conn' \in ConnStates /\ (Numbered => conn.gen \in Generation)'
  <2>1. CASE ConnectNumbers
    <3>1. conn' = [pc |-> "dial", gen |-> gen']
      BY <2>1 DEF ConnectNumbers
    <3> QED
      BY <1>4, <3>1 DEF ConnStates
  <2>2. CASE ~ConnectNumbers
    <3>1. \/ conn' = Idle
          \/ \E where \in {"clean", "abort", "gen"} : conn' = [conn EXCEPT !.pc = where]
          \/ Numbered /\ \E where \in {"verify", "assign", "push", "open"} :
                            conn' = [conn EXCEPT !.pc = where]
      BY <2>2 DEF Connecting, ConnectStarts, ConnectCleans, ConnectAborts, Dialled,
                  ConnectVerifies, ConnectAssigns, ConnectRegisters, OnOpen, DialFails, Numbered
    <3>2. \A where : [conn EXCEPT !.pc = where] = [pc |-> where, gen |-> conn.gen]
      BY ConnGoes
    <3>3. \/ conn' = Idle
          \/ \E where \in {"clean", "abort", "gen"} : conn' = [pc |-> where, gen |-> conn.gen]
          \/ Numbered /\ \E where \in {"verify", "assign", "push", "open"} :
                            conn' = [pc |-> where, gen |-> conn.gen]
      BY <3>1, <3>2
    <3>4. conn.gen \in Generation \cup {None}
      BY DEF ConnStates
    <3> QED
      BY <3>3, <3>4 DEF ConnStates, Numbered, Idle
  <2> QED
    BY <2>1, <2>2
<1> QED
  BY <1>1, <1>2, <1>4, <1>5, <1>6, <1>7

\* The read loops and the timer.
LEMMA ReadingTyped ==
    ASSUME TypeInv, NEW g \in Generation, Reading(g)
    PROVE  /\ TypeInv'
           /\ UNCHANGED <<gen, conn, tasks, dispose>>
           /\ \A h \in Generation \ {g} : reader'[h] = reader[h]
<1> USE DEF TypeInv
<1>1. UNCHANGED <<gen, conn, tasks, dispose>> /\ (timer' = timer \/ Schedule)
  BY DEF Reading, ReadStale, OnClose, HandleRegisterOk, HandleRefusal, HandleAuthOk,
         CopySubscriptions, SendSubscription, AuthHandled, HandleKx, clientVars, Stay
<1>2. \/ reader' = reader
      \/ \E st \in ReaderStates : reader' = [reader EXCEPT ![g] = st]
  BY DEF Reading, ReadStale, OnClose, HandleRegisterOk, HandleRefusal, HandleAuthOk,
         CopySubscriptions, SendSubscription, AuthHandled, HandleKx, ReaderEnds, ReaderStates
<1>3. timer' \in Timers \cup {None}
  BY <1>1, NewTimerTyped DEF Schedule
<1> QED
  BY <1>1, <1>2, <1>3 DEF Numbered

LEMMA TimerTyped ==
    ASSUME TypeInv, TimerStarts \/ TimerFires
    PROVE  TypeInv'
<1> USE DEF TypeInv
<1>1. UNCHANGED <<gen, tasks, dispose, reader>>
  BY DEF TimerStarts, TimerFires, clientVars, Stay
<1>2. timer' \in Timers \cup {None}
  <2>1. CASE TimerStarts
    <3>1. timer' \in {None, [pc |-> "sleep", gen |-> gen, slow |-> NextPeerless >= Threshold]}
      BY <2>1 DEF TimerStarts
    <3> QED
      BY <3>1, SleepTyped
  <2>2. CASE TimerFires
    BY <2>2 DEF TimerFires
  <2> QED
    BY <2>1, <2>2
<1>3. conn' \in ConnStates /\ (Numbered => conn.gen \in Generation)'
  BY DEF TimerStarts, TimerFires, Idle, ConnStates, Numbered
<1> QED
  BY <1>1, <1>2, <1>3

LEMMA DisposingTyped ==
    ASSUME TypeInv, DisposeFlags \/ Disposing
    PROVE  TypeInv' /\ UNCHANGED <<conn, timer>>
<1> USE DEF TypeInv
<1>1. UNCHANGED <<conn, timer>>
  BY DEF DisposeFlags, Disposing, DisposeCleans, DisposeAborts, ClientFreed
<1>2. gen' = gen \/ Bump
  BY DEF DisposeFlags, Disposing, DisposeCleans, DisposeAborts, ClientFreed, clientVars, CleanState,
         AbortTasks
<1>3. gen' \in Generation
  BY <1>2, BumpTyped
<1>4. tasks' \subseteq Generation /\ dispose' \in {"no", "flag", "state", "done"}
  BY DEF DisposeFlags, Disposing, DisposeCleans, DisposeAborts, ClientFreed, clientVars, CleanState,
         AbortTasks, Stay
<1>5. reader' \in [Generation -> ReaderStates]
  BY DEF DisposeFlags, Disposing, DisposeCleans, DisposeAborts, ClientFreed, AbortTasks, ReaderStates
<1> QED
  BY <1>1, <1>3, <1>4, <1>5 DEF Numbered

\* What the relay, the sockets and the callers of subscribe() leave alone.
LEMMA OthersStay ==
    ASSUME \/ TokenAges
           \/ \E g \in Generation : Relaying(g) \/ RelayRefuses(g) \/ RelayThrottles(g) \/ AppJoins(g) \/ SocketDies(g)
           \/ \E s \in Sids : Subscribe(s) \/ Unsubscribe(s) \/ CallSends(s)
           \/ UNCHANGED vars
    PROVE  UNCHANGED <<gen, conn, reader, timer, tasks, dispose, auth>>
<1>1. CASE TokenAges
  BY <1>1 DEF TokenAges
<1>2. ASSUME NEW g \in Generation, Relaying(g) \/ RelayRefuses(g) \/ RelayThrottles(g) \/ AppJoins(g) \/ SocketDies(g)
      PROVE  UNCHANGED <<gen, conn, reader, timer, tasks, dispose, auth>>
  <2>1. CASE RelayTakes(g) \/ RelayRefuses(g) \/ RelayThrottles(g)
    BY <2>1 DEF RelayTakes, RelayRefuses, RelayThrottles, Answered, clientVars
  <2>2. CASE AuthTimeout(g) \/ SocketDrops(g) \/ AppJoins(g) \/ SocketDies(g)
    BY <2>2 DEF AuthTimeout, SocketDrops, AppJoins, SocketDies, clientVars, Stay
  <2> QED
    BY <1>2, <2>1, <2>2 DEF Relaying
<1>3. ASSUME NEW s \in Sids, Subscribe(s) \/ Unsubscribe(s) \/ CallSends(s)
      PROVE  UNCHANGED <<gen, conn, reader, timer, tasks, dispose, auth>>
  BY <1>3 DEF Subscribe, Unsubscribe, Calls, CallSends, clientVars
<1>4. CASE UNCHANGED vars
  BY <1>4 DEF vars
<1> QED
  BY <1>1, <1>2, <1>3, <1>4

LEMMA TypeInvStep == TypeInv /\ [Next]_vars => TypeInv'
<1>1. ASSUME TypeInv, UNCHANGED <<gen, conn, reader, timer, tasks, dispose>>
      PROVE  TypeInv'
  BY <1>1 DEF TypeInv, Numbered
<1> QED
  BY <1>1, ConnectingTyped, ReadingTyped, TimerTyped, DisposingTyped, OthersStay DEF Next

-----------------------------------------------------------------------------
(* One chain of attempts.                                                  *)

Reads == reader[gen] \notin {"none", "done"}
Connects == conn.pc \notin {"idle", "push", "open"}
Waits == timer # None /\ (timer.pc = "new" \/ timer.gen = gen)

\* dispose() has not taken its first lock.
InUse == dispose \in {"no", "flag"}

\* Exactly one of the three, nobody else gives out a number, and a client on its
\* way to a socket is not authenticated.
ChainInv ==
    /\ dispose = "no" => Reads \/ Connects \/ Waits
    /\ InUse => /\ ~(Reads /\ Connects) /\ ~(Reads /\ Waits) /\ ~(Connects /\ Waits)
                /\ Numbered => conn.gen = gen
                /\ Connects \/ Waits => ~auth

\* There is at most one read loop of the current generation.
LEMMA ChainIsCounted ==
    ASSUME TypeInv, ChainInv
    PROVE  OneChain
<1> DEFINE Loops == {g \in Generation : reader[g] \notin {"none", "done"} /\ ~Stale(g)}
<1>1. CASE Reads
  <2>1. Loops = {gen}
    BY <1>1 DEF TypeInv, Reads, Stale
  <2>2. Cardinality(Loops) = 1
    BY <2>1, FS_Singleton
  <2> QED
    BY <1>1, <2>2 DEF ChainInv, InUse, OneChain, Connects, Waits
<1>2. CASE ~Reads
  <2>1. Loops = {}
    BY <1>2 DEF TypeInv, Reads, Stale
  <2>2. Cardinality(Loops) = 0
    BY <2>1, FS_EmptySet
  <2> QED
    BY <1>2, <2>2 DEF ChainInv, InUse, OneChain, Connects, Waits
<1> QED
  BY <1>1, <1>2

LEMMA ConnectingKeepsChain ==
    ASSUME TypeInv, ChainInv, Connecting \/ DialFails
    PROVE  ChainInv'
<1> USE ClientAssumption DEF TypeInv, ChainInv
<1>0. dispose' = dispose /\ auth' = auth
  BY DEF Connecting, ConnectStarts, ConnectCleans, ConnectAborts, ConnectNumbers, Dialled,
         ConnectVerifies, ConnectAssigns, ConnectRegisters, OnOpen, DialFails, Stay, CleanState,
         AbortTasks, clientVars
<1> SUFFICES ASSUME InUse
             PROVE  /\ dispose = "no" => (Reads \/ Connects \/ Waits)'
                    /\ ~(Reads /\ Connects)' /\ ~(Reads /\ Waits)' /\ ~(Connects /\ Waits)'
                    /\ (Numbered => conn.gen = gen)'
                    /\ (Connects \/ Waits)' => Connects \/ Waits
  BY <1>0 DEF InUse
<1>1. InUse
  OBVIOUS
<1>2. \A where : [conn EXCEPT !.pc = where] = [pc |-> where, gen |-> conn.gen]
  BY ConnGoes
<1>3. CASE ConnectStarts \/ Dialled \/ ConnectRegisters \/ OnOpen
  <2>1. UNCHANGED <<gen, reader, timer>>
    BY <1>3 DEF ConnectStarts, Dialled, ConnectRegisters, OnOpen, clientVars
  <2>2. (Reads' <=> Reads) /\ (Waits' <=> Waits)
    BY <2>1 DEF Reads, Waits
  <2>3. CASE ConnectStarts
    <3>1. /\ conn.pc = "check"
          /\ conn' = IF dispose = "no" THEN [pc |-> "clean", gen |-> conn.gen] ELSE Idle
      BY <1>1, <1>2, <2>3 DEF ConnectStarts, disposed
    <3> QED
      BY <1>1, <2>2, <3>1 DEF Connects, Numbered, Idle
  <2>4. CASE Dialled
    <3>1. conn.pc = "dial" /\ conn' = [pc |-> "verify", gen |-> conn.gen]
      BY <1>2, <2>4 DEF Dialled
    <3> QED
      BY <1>1, <2>1, <2>2, <3>1 DEF Connects, Numbered
  <2>5. CASE ConnectRegisters \/ OnOpen
    <3>1. /\ conn.pc \in {"push", "open"}
          /\ conn' = [pc |-> "open", gen |-> conn.gen] \/ conn' = Idle
      BY <1>2, <2>5 DEF ConnectRegisters, OnOpen
    <3> QED
      BY <1>1, <2>1, <2>2, <3>1 DEF Connects, Numbered, Idle
  <2> QED
    BY <1>3, <2>3, <2>4, <2>5
<1>4. CASE ConnectCleans \/ ConnectNumbers
  <2>1. /\ conn.pc \in {"clean", "gen"} /\ Bump /\ UNCHANGED <<reader, timer>>
        /\ conn' = [pc |-> "abort", gen |-> conn.gen] \/ conn' = [pc |-> "dial", gen |-> gen']
    BY <1>2, <1>4 DEF ConnectCleans, ConnectNumbers, CleanState
  <2>2. /\ gen' \in Generation /\ reader[gen'] \in {"none", "done"}
        /\ timer # None => timer.gen # gen'
    BY <2>1, BumpTyped
  <2>3. Connects /\ ~Waits
    BY <1>1, <2>1 DEF Connects
  <2>4. ~Reads' /\ ~Waits'
    BY <2>1, <2>2, <2>3 DEF Reads, Waits
  <2>5. Connects' /\ (Numbered => conn.gen = gen)'
    BY <2>1 DEF Connects, Numbered
  <2> QED
    BY <2>3, <2>4, <2>5
<1>5. CASE ConnectAborts
  <2>1. /\ conn.pc = "abort" /\ conn' = [pc |-> "gen", gen |-> conn.gen]
        /\ UNCHANGED <<gen, timer>>
        /\ reader' = [h \in Generation |-> IF h \in tasks THEN "done" ELSE reader[h]]
    BY <1>2, <1>5 DEF ConnectAborts, AbortTasks
  <2>2. Connects /\ ~Reads /\ ~Waits
    BY <1>1, <2>1 DEF Connects
  <2>3. ~Reads' /\ ~Waits'
    BY <2>1, <2>2 DEF Reads, Waits
  <2> QED
    BY <2>1, <2>3 DEF Connects, Numbered
<1>6. CASE ConnectVerifies
  <2>1. conn.pc = "verify" /\ UNCHANGED <<gen, reader, timer>>
    BY <1>6 DEF ConnectVerifies, clientVars
  <2>2. conn.gen = gen
    BY <1>1, <2>1 DEF Numbered
  <2>3. conn' = IF dispose = "no" THEN [pc |-> "assign", gen |-> conn.gen] ELSE Idle
    BY <1>1, <1>2, <1>6, <2>2 DEF ConnectVerifies, Superseded, disposed
  <2> QED
    BY <1>1, <2>1, <2>2, <2>3 DEF Reads, Waits, Connects, Numbered, Idle
<1>7. CASE ConnectAssigns
  <2>1. /\ conn.pc = "assign" /\ conn' = [pc |-> "push", gen |-> conn.gen]
        /\ UNCHANGED <<gen, timer>> /\ reader' = [reader EXCEPT ![conn.gen] = "wait"]
    BY <1>2, <1>7 DEF ConnectAssigns
  <2>2. conn.gen = gen /\ Connects /\ ~Waits
    BY <1>1, <2>1 DEF Numbered, Connects
  <2>3. Reads' /\ ~Waits'
    BY <2>1, <2>2 DEF Reads, Waits
  <2> QED
    BY <2>1, <2>2, <2>3 DEF Connects, Numbered
<1>8. CASE DialFails
  <2>1. conn.pc = "dial" /\ conn' = Idle /\ UNCHANGED <<gen, reader>>
        /\ timer' = [pc |-> "new", gen |-> None, slow |-> FALSE]
    BY <1>8 DEF DialFails, Schedule, clientVars
  <2>2. Connects /\ ~Reads
    BY <1>1, <2>1 DEF Connects
  <2>3. [pc |-> "new", gen |-> None, slow |-> FALSE] # None
    BY NewTimerTyped
  <2>4. Waits' /\ ~Reads'
    BY <2>1, <2>2, <2>3 DEF Reads, Waits
  <2> QED
    BY <2>1, <2>4 DEF Connects, Numbered, Idle
<1> QED
  BY <1>3, <1>4, <1>5, <1>6, <1>7, <1>8 DEF Connecting

LEMMA ReadingKeepsChain ==
    ASSUME TypeInv, ChainInv, NEW g \in Generation, Reading(g)
    PROVE  ChainInv'
<1> USE ClientAssumption DEF TypeInv, ChainInv
<1>1. UNCHANGED <<gen, conn, dispose>> /\ \A h \in Generation \ {g} : reader'[h] = reader[h]
  BY ReadingTyped
<1>2. (Connects' <=> Connects) /\ (Numbered' <=> Numbered) /\ (InUse' <=> InUse)
  BY <1>1 DEF Connects, Numbered, InUse
<1>3. CASE OnClose(g)
  <2>1. /\ g = gen /\ reader[g] = "wait" /\ reader' = [reader EXCEPT ![g] = "done"]
        /\ timer' = [pc |-> "new", gen |-> None, slow |-> FALSE]
    BY <1>3 DEF OnClose, Stale, ReaderEnds, Schedule
  <2>4. ~auth'
    BY <1>3, Zenon DEF OnClose
  <2>2. [pc |-> "new", gen |-> None, slow |-> FALSE] # None
    BY NewTimerTyped
  <2>3. Reads /\ ~Reads' /\ Waits'
    BY <1>1, <2>1, <2>2 DEF Reads, Waits
  <2> QED
    BY <1>1, <1>2, <2>3, <2>4
<1>4. CASE ~OnClose(g)
  <2>1. timer' = timer
    BY <1>4 DEF Reading, ReadStale, HandleRegisterOk, HandleRefusal, HandleAuthOk,
                CopySubscriptions, SendSubscription, AuthHandled, HandleKx
  <2>2. g = gen => /\ reader'[g] \notin {"none", "done"} <=> reader[g] \notin {"none", "done"}
    BY <1>4 DEF Reading, ReadStale, HandleRegisterOk, HandleRefusal, HandleAuthOk, Takes,
                CopySubscriptions, SendSubscription, AuthHandled, HandleKx, Stale
  <2>3. (Reads' <=> Reads) /\ (Waits' <=> Waits)
    BY <1>1, <2>1, <2>2 DEF Reads, Waits
  <2>4. auth' = auth \/ Reads
    BY <1>4 DEF Reading, ReadStale, HandleRegisterOk, HandleRefusal, HandleAuthOk, Takes, Stale,
                CopySubscriptions, SendSubscription, AuthHandled, HandleKx, clientVars, Reads
  <2> QED
    BY <1>1, <1>2, <2>3, <2>4
<1> QED
  BY <1>3, <1>4

LEMMA TimerKeepsChain ==
    ASSUME TypeInv, ChainInv, TimerStarts \/ TimerFires
    PROVE  ChainInv'
<1> USE ClientAssumption DEF TypeInv, ChainInv
<1>1. UNCHANGED <<gen, reader, dispose, auth>> /\ (Reads' <=> Reads) /\ (InUse' <=> InUse)
  BY DEF TimerStarts, TimerFires, clientVars, Stay, Reads, InUse
<1> SUFFICES ASSUME InUse PROVE ChainInv'
  BY <1>1 DEF InUse
<1>2. CASE TimerStarts
  <2>1. timer # None /\ timer.pc = "new" /\ conn' = conn
    BY <1>2 DEF TimerStarts
  <2>2. Waits /\ (Connects' <=> Connects) /\ (Numbered' <=> Numbered)
    BY <2>1 DEF Waits, Connects, Numbered
  <2>3. CASE dispose = "no"
    <3>1. timer' = [pc |-> "sleep", gen |-> gen, slow |-> NextPeerless >= Threshold]
      BY <1>2, <2>3 DEF TimerStarts, disposed
    <3>2. timer' # None
      BY <3>1, SleepTyped
    <3>3. timer'.gen = gen
      BY <3>1
    <3>4. Waits'
      BY <1>1, <3>2, <3>3 DEF Waits
    <3> QED
      BY <1>1, <2>1, <2>2, <3>4
  <2>4. CASE dispose # "no"
    <3>1. ~Waits'
      BY <1>2, <2>4 DEF TimerStarts, disposed, Waits
    <3> QED
      BY <1>1, <2>1, <2>2, <2>4, <3>1
  <2> QED
    BY <2>3, <2>4
<1>3. CASE TimerFires
  <2>1. /\ timer # None /\ timer.pc = "sleep" /\ conn.pc = "idle" /\ timer' = None
        /\ conn' = IF dispose # "no" \/ gen # timer.gen THEN Idle
                   ELSE [pc |-> "check", gen |-> None]
    BY <1>3 DEF TimerFires, disposed
  <2>2. /\ ~Waits' /\ ~Numbered' /\ ~Connects /\ (Connects' => Waits)
        /\ dispose = "no" => (Connects' <=> Waits)
    BY <2>1 DEF Waits, Numbered, Connects, Idle
  <2> QED
    BY <1>1, <2>2
<1> QED
  BY <1>2, <1>3

LEMMA ChainInvInit == Init => ChainInv
<1> SUFFICES ASSUME Init PROVE ChainInv
  OBVIOUS
<1>1. ~auth
  BY Zenon DEF Init
<1>2. /\ conn.pc = "check" /\ timer = None /\ dispose = "no"
      /\ gen \in Generation /\ reader[gen] = "none"
  BY ClientAssumption DEF Init, Generation
<1> QED
  BY <1>1, <1>2 DEF ChainInv, Reads, Connects, Waits, Numbered

LEMMA ChainInvStep == TypeInv /\ ChainInv /\ [Next]_vars => ChainInv'
<1> SUFFICES ASSUME TypeInv, ChainInv, [Next]_vars PROVE ChainInv'
  OBVIOUS
<1>1. ASSUME UNCHANGED <<gen, conn, reader, timer, tasks, dispose, auth>> PROVE ChainInv'
  BY <1>1 DEF ChainInv, Reads, Connects, Waits, Numbered, InUse
<1>2. CASE DisposeFlags
  <2>1. dispose = "no" /\ dispose' = "flag" /\ UNCHANGED <<gen, conn, reader, timer, auth>>
    BY <1>2 DEF DisposeFlags, clientVars
  <2> QED
    BY <2>1 DEF ChainInv, Reads, Connects, Waits, Numbered, InUse
<1>3. CASE DisposeCleans \/ DisposeAborts
  BY <1>3 DEF DisposeCleans, DisposeAborts, ChainInv, InUse
<1>4. CASE ClientFreed
  <2>1. UNCHANGED <<gen, conn, reader, timer, tasks, dispose, auth>>
    BY <1>4 DEF ClientFreed, Stay
  <2> QED
    BY <1>1, <2>1
<1>5. ASSUME \/ TokenAges
             \/ \E g \in Generation : Relaying(g) \/ RelayRefuses(g) \/ RelayThrottles(g) \/ AppJoins(g) \/ SocketDies(g)
             \/ \E s \in Sids : Subscribe(s) \/ Unsubscribe(s) \/ CallSends(s)
             \/ UNCHANGED vars
      PROVE  ChainInv'
  BY <1>1, <1>5, OthersStay
<1> QED
  BY <1>2, <1>3, <1>4, <1>5, ConnectingKeepsChain, ReadingKeepsChain, TimerKeepsChain DEF Next, Disposing

\* Until the client is disposed of there is exactly one attempt under way: one
\* connect() before it has a read loop, one read loop of the current generation or
\* one reconnect task that will connect, for any number of generations and faults.
THEOREM OneChainOfAttempts == Spec => []OneChain
<1>1. Init => ChainInv
  BY ChainInvInit
<1> QED
  BY <1>1, TypeInvInit, TypeInvStep, ChainInvStep, ChainIsCounted, PTL DEF Spec

-----------------------------------------------------------------------------
(* A disposed client is deaf.                                              *)

\* From the first lock of dispose() on, no read loop has the current generation,
\* and a connect() that had passed its last check has an older one.
DeafInv ==
    dispose \in {"state", "done"} => ~Reads /\ (conn.pc = "assign" => conn.gen # gen)

LEMMA BumpIsDeaf ==
    ASSUME TypeInv, Bump, reader' = reader
    PROVE  ~Reads' /\ conn.gen # gen'
BY BumpTyped DEF TypeInv, Reads

LEMMA DeafInvInit == Init => DeafInv
BY DEF Init, DeafInv

LEMMA DeafInvStep == TypeInv /\ DeafInv /\ [Next]_vars => DeafInv'
<1> SUFFICES ASSUME TypeInv, DeafInv, [Next]_vars PROVE DeafInv'
  OBVIOUS
<1> USE DEF TypeInv
<1>0. \A where : [conn EXCEPT !.pc = where] = [pc |-> where, gen |-> conn.gen]
  BY ConnGoes
<1>1. ASSUME UNCHANGED <<gen, conn, reader, timer, tasks, dispose>> PROVE DeafInv'
  BY <1>1 DEF DeafInv, Reads
<1>2. CASE DisposeFlags \/ ClientFreed
  BY <1>2 DEF DisposeFlags, ClientFreed, DeafInv, Reads, Stay, clientVars
<1>3. CASE DisposeCleans
  <2>1. Bump /\ UNCHANGED <<conn, reader>>
    BY <1>3 DEF DisposeCleans, CleanState
  <2> QED
    BY <2>1, BumpIsDeaf DEF DeafInv
<1>4. CASE DisposeAborts
  BY <1>4 DEF DisposeAborts, AbortTasks, DeafInv, Reads
<1>5. ASSUME NEW g \in Generation, Reading(g) PROVE DeafInv'
  <2>1. UNCHANGED <<gen, conn, dispose>> /\ \A h \in Generation \ {g} : reader'[h] = reader[h]
    BY <1>5, ReadingTyped
  <2>2. reader[g] \notin {"none", "done"} \/ reader' = reader
    BY <1>5 DEF Reading, ReadStale, OnClose, HandleRegisterOk, HandleRefusal, HandleAuthOk, Takes,
                CopySubscriptions, SendSubscription, AuthHandled, HandleKx
  <2> QED
    BY <2>1, <2>2 DEF DeafInv, Reads
<1>6. CASE TimerStarts \/ TimerFires
  <2>1. UNCHANGED <<gen, reader, dispose>> /\ (conn' = conn \/ conn'.pc # "assign")
    BY <1>6 DEF TimerStarts, TimerFires, clientVars, Stay, Idle
  <2> QED
    BY <2>1 DEF DeafInv, Reads
<1>7. CASE Connecting \/ DialFails
  <2>1. dispose' = dispose
    BY <1>7 DEF Connecting, ConnectStarts, ConnectCleans, ConnectAborts, ConnectNumbers, Dialled,
                ConnectVerifies, ConnectAssigns, ConnectRegisters, OnOpen, DialFails, Stay
  <2>2. SUFFICES ASSUME dispose \in {"state", "done"} PROVE DeafInv'
    BY <2>1 DEF DeafInv
  <2>3. CASE ConnectCleans \/ ConnectNumbers
    <3>1. /\ Bump /\ reader' = reader
          /\ conn' = [pc |-> "abort", gen |-> conn.gen] \/ conn' = [pc |-> "dial", gen |-> gen']
      BY <1>0, <2>3 DEF ConnectCleans, ConnectNumbers, CleanState
    <3> QED
      BY <3>1, BumpIsDeaf DEF DeafInv
  <2>4. CASE ConnectAssigns
    <3>1. /\ conn.pc = "assign" /\ conn' = [pc |-> "push", gen |-> conn.gen] /\ gen' = gen
          /\ reader' = [reader EXCEPT ![conn.gen] = "wait"]
      BY <1>0, <2>4 DEF ConnectAssigns
    <3> QED
      BY <2>2, <3>1 DEF DeafInv, Reads
  <2>5. CASE ConnectAborts
    <3>1. /\ conn' = [pc |-> "gen", gen |-> conn.gen] /\ gen' = gen
          /\ reader' = [h \in Generation |-> IF h \in tasks THEN "done" ELSE reader[h]]
      BY <1>0, <2>5 DEF ConnectAborts, AbortTasks
    <3> QED
      BY <2>2, <3>1 DEF DeafInv, Reads
  <2>6. CASE ConnectVerifies
    <3>1. conn' = Idle /\ UNCHANGED <<gen, reader>>
      BY <2>2, <2>6 DEF ConnectVerifies, Superseded, disposed, clientVars
    <3> QED
      BY <2>2, <3>1 DEF DeafInv, Reads, Idle
  <2>7. CASE ConnectStarts \/ Dialled \/ ConnectRegisters \/ OnOpen \/ DialFails
    <3>1. /\ UNCHANGED <<gen, reader>>
          /\ \/ conn' = Idle
             \/ \E where \in {"clean", "verify", "open"} : conn' = [conn EXCEPT !.pc = where]
      BY <2>7 DEF ConnectStarts, Dialled, ConnectRegisters, OnOpen, DialFails, clientVars
    <3>2. conn' = Idle \/ \E where \in {"clean", "verify", "open"} :
                            conn' = [pc |-> where, gen |-> conn.gen]
      BY <1>0, <3>1
    <3>3. conn'.pc # "assign"
      BY <3>2 DEF Idle
    <3> QED
      BY <2>2, <3>1, <3>3 DEF DeafInv, Reads
  <2> QED
    BY <1>7, <2>3, <2>4, <2>5, <2>6, <2>7 DEF Connecting
<1> QED
  BY <1>1, <1>2, <1>3, <1>4, <1>5, <1>6, <1>7, OthersStay DEF Next, Disposing

\* Whatever connect() was doing when dispose() ran, no read loop of a disposed
\* client handles another message.
THEOREM DisposedClientIsDeaf == Spec => []DisposedIsDeaf
<1>3. TypeInv /\ DeafInv => DisposedIsDeaf
  BY DEF TypeInv, DeafInv, Reads, DisposedIsDeaf, Stale
<1> QED
  BY <1>3, DeafInvInit, DeafInvStep, TypeInvInit, TypeInvStep, PTL DEF Spec

-----------------------------------------------------------------------------
(* What the relay will know of a session once it has read a socket.        *)

Sockets == [open : BOOLEAN, in : Seq(Requests), out : Seq(Answers), auth : BOOLEAN,
            subs : SUBSET Sids, refused : SUBSET Sids, lost : BOOLEAN]

\* The last word about s on its way to the relay, or else the relay's table, says
\* that s is subscribed; or the relay refused it on this socket.
Heard(k, s) ==
    \/ \E i \in 1 .. Len(k.in) : /\ k.in[i] = <<"sub", s>>
                                 /\ \A j \in i + 1 .. Len(k.in) : k.in[j] # <<"unsub", s>>
    \/ s \in k.subs /\ \A j \in 1 .. Len(k.in) : k.in[j] # <<"unsub", s>>
    \/ s \in k.refused

\* An answer that a handshake succeeded comes from a relay that knows the daemon.
Vouched(k) == \A i \in 1 .. Len(k.out) : k.out[i] \in {"authOk", "resumed"} => k.auth

\* A socket goes from k to m and what is known of s is not forgotten, unless the
\* socket closes or its channel overflows.
Keeps(k, m, s) ==
    m.open /\ ~m.lost => /\ k.open /\ ~k.lost
                         /\ k.auth => m.auth /\ (Heard(k, s) => Heard(m, s))

\* What can be sent.
LEMMA RequestParts ==
    /\ {<<"register">>, <<"auth">>, <<"resume">>, <<"kx">>} \subseteq Requests
    /\ \A s \in Sids : <<"sub", s>> \in Requests /\ <<"unsub", s>> \in Requests
    /\ \A m \in Requests : m[1] \in {"sub", "unsub"} => m[2] \in Sids /\ m = <<m[1], m[2]>>
    /\ \A m \in {<<"register">>, <<"auth">>, <<"resume">>, <<"kx">>} : m[1] \notin {"sub", "unsub"}
<1>1. {<<"register">>, <<"auth">>, <<"resume">>, <<"kx">>} \subseteq Requests
  BY DEF Requests
<1>2. \A s \in Sids : <<"sub", s>> \in Requests /\ <<"unsub", s>> \in Requests
  BY DEF Requests
<1>3. \A m \in {<<"register">>, <<"auth">>, <<"resume">>, <<"kx">>} : m[1] \notin {"sub", "unsub"}
  OBVIOUS
<1>4. \A m \in {"sub", "unsub"} \X Sids : m[2] \in Sids /\ m = <<m[1], m[2]>>
  OBVIOUS
<1>5. ASSUME NEW m \in Requests, m[1] \in {"sub", "unsub"} PROVE m[2] \in Sids /\ m = <<m[1], m[2]>>
  <2>1. m \notin {<<"register">>, <<"auth">>, <<"resume">>, <<"kx">>}
    BY <1>3, <1>5
  <2>2. m \in {"sub", "unsub"} \X Sids
    BY <2>1 DEF Requests
  <2> QED
    BY <1>4, <2>2
<1> QED
  BY <1>1, <1>2, <1>3, <1>5

\* The same socket keeps everything, and so do two steps in a row.
LEMMA KeepsSame ==
    ASSUME NEW k, NEW s
    PROVE  Keeps(k, k, s)
BY DEF Keeps

LEMMA KeepsTwice ==
    ASSUME NEW k, NEW m, NEW n, NEW s, Keeps(k, m, s), Keeps(m, n, s)
    PROVE  Keeps(k, n, s)
BY DEF Keeps

\* The fields of a socket that is changed in one of them.
LEMMA SocketFields ==
    ASSUME NEW k \in Sockets, NEW a \in BOOLEAN, NEW i \in Seq(Requests), NEW o \in Seq(Answers),
           NEW u \in SUBSET Sids
    PROVE  /\ [k EXCEPT !.in = i] \in Sockets /\ [k EXCEPT !.out = o] \in Sockets
           /\ [k EXCEPT !.auth = a] \in Sockets /\ [k EXCEPT !.subs = u] \in Sockets
           /\ [k EXCEPT !.refused = u] \in Sockets /\ k.refused \in SUBSET Sids
           /\ [k EXCEPT !.lost = a] \in Sockets /\ [k EXCEPT !.open = a] \in Sockets
           /\ k.open \in BOOLEAN /\ k.in \in Seq(Requests) /\ k.out \in Seq(Answers)
           /\ k.auth \in BOOLEAN /\ k.subs \in SUBSET Sids /\ k.lost \in BOOLEAN
BY DEF Sockets

LEMMA NoSocketTyped == NoSocket \in Sockets /\ ~NoSocket.open /\ NoSocket.out = << >>
<1>1. << >> \in Seq(Requests) /\ << >> \in Seq(Answers) /\ {} \in SUBSET Sids
  OBVIOUS
<1>2. NoSocket \in Sockets
  BY <1>1 DEF NoSocket, Sockets
<1>3. ~NoSocket.open
  BY DEF NoSocket
<1> QED
  BY <1>2, <1>3 DEF NoSocket

\* A message goes into the channel.
LEMMA InGrows ==
    ASSUME NEW k \in Sockets, NEW m \in Requests
    PROVE  LET n == [k EXCEPT !.in = Append(k.in, m)]
           IN  /\ n \in Sockets /\ n.open = k.open /\ n.lost = k.lost /\ n.auth = k.auth
               /\ n.out = k.out /\ n.subs = k.subs /\ n.refused = k.refused /\ n.in = Append(k.in, m)
               /\ \A s \in Sids : m # <<"unsub", s>> => Keeps(k, n, s)
               /\ \A s \in Sids : m = <<"sub", s>> => Heard(n, s)
<1> DEFINE n == [k EXCEPT !.in = Append(k.in, m)]
<1>1. k.in \in Seq(Requests) /\ Append(k.in, m) \in Seq(Requests)
  BY SocketFields DEF Sockets
<1>2. n \in Sockets
  BY <1>1 DEF Sockets
<1>3. /\ n.open = k.open /\ n.lost = k.lost /\ n.auth = k.auth
      /\ n.out = k.out /\ n.subs = k.subs /\ n.refused = k.refused /\ n.in = Append(k.in, m)
  BY DEF Sockets
<1> HIDE DEF n
<1>4. /\ Len(n.in) = Len(k.in) + 1 /\ Len(k.in) \in Nat
      /\ \A i \in 1 .. Len(k.in) : n.in[i] = k.in[i]
      /\ n.in[Len(k.in) + 1] = m
  BY <1>1, <1>3, AppendProperties
<1>5. \A i \in 1 .. Len(n.in) : i \in 1 .. Len(k.in) \/ i = Len(k.in) + 1
  BY <1>4
<1>6. ASSUME NEW s \in Sids, m # <<"unsub", s>>, Heard(k, s) PROVE Heard(n, s)
  <2>1. CASE s \in k.subs /\ \A j \in 1 .. Len(k.in) : k.in[j] # <<"unsub", s>>
    BY <1>3, <1>4, <1>5, <1>6, <2>1 DEF Heard
  <2>2. ASSUME NEW i \in 1 .. Len(k.in), k.in[i] = <<"sub", s>>,
               \A j \in i + 1 .. Len(k.in) : k.in[j] # <<"unsub", s>>
        PROVE  Heard(n, s)
    <3>1. i \in 1 .. Len(n.in) /\ n.in[i] = <<"sub", s>>
      BY <1>4, <2>2
    <3>2. \A j \in i + 1 .. Len(n.in) : n.in[j] # <<"unsub", s>>
      <4> SUFFICES ASSUME NEW j \in i + 1 .. Len(n.in) PROVE n.in[j] # <<"unsub", s>>
        OBVIOUS
      <4>1. j \in 1 .. Len(n.in)
        BY <1>4
      <4>2. CASE j = Len(k.in) + 1
        BY <1>4, <1>6, <4>2
      <4>3. CASE j \in 1 .. Len(k.in)
        <5>1. j \in i + 1 .. Len(k.in)
          BY <4>3
        <5> QED
          BY <1>4, <2>2, <4>3, <5>1
      <4> QED
        BY <1>5, <4>1, <4>2, <4>3
    <3> QED
      BY <3>1, <3>2 DEF Heard
  <2> QED
    BY <1>3, <1>6, <2>1, <2>2 DEF Heard
<1>7. ASSUME NEW s \in Sids, m = <<"sub", s>> PROVE Heard(n, s)
  <2>1. Len(k.in) + 1 \in 1 .. Len(n.in) /\ n.in[Len(k.in) + 1] = <<"sub", s>>
    BY <1>4, <1>7
  <2>2. \A j \in Len(k.in) + 1 + 1 .. Len(n.in) : FALSE
    BY <1>4
  <2> QED
    BY <2>1, <2>2 DEF Heard
<1>8. \A s \in Sids : m # <<"unsub", s>> => Keeps(k, n, s)
  BY <1>3, <1>6 DEF Keeps
<1> QED
  BY <1>2, <1>3, <1>7, <1>8 DEF n

\* The relay reads a message: a subscription it has read is in its table.
LEMMA InShrinks ==
    ASSUME NEW k \in Sockets, NEW n \in Sockets, NEW s \in Sids, k.in # << >>,
           n.in = Tail(k.in), n.open = k.open, n.lost = k.lost, k.auth => n.auth,
           k.auth /\ Head(k.in) = <<"sub", s>> => s \in n.subs \cup n.refused,
           k.auth /\ s \in k.subs /\ Head(k.in) # <<"unsub", s>> => s \in n.subs,
           s \in k.refused => s \in n.refused
    PROVE  Keeps(k, n, s)
<1>1. k.in \in Seq(Requests)
  BY SocketFields DEF Sockets
<1>2. /\ Len(k.in) \in Nat \ {0} /\ Head(k.in) = k.in[1] /\ Len(n.in) = Len(k.in) - 1
      /\ \A i \in 1 .. Len(n.in) : n.in[i] = k.in[i + 1]
  BY <1>1, HeadTailProperties
<1>3. \A j \in 1 .. Len(n.in) : j + 1 \in 2 .. Len(k.in) /\ n.in[j] = k.in[j + 1]
  BY <1>2
<1>4. ASSUME k.auth, Heard(k, s) PROVE Heard(n, s)
  <2>1. CASE s \in k.subs /\ \A j \in 1 .. Len(k.in) : k.in[j] # <<"unsub", s>>
    <3>1. Head(k.in) # <<"unsub", s>>
      BY <1>2, <2>1
    <3>2. \A j \in 1 .. Len(n.in) : n.in[j] # <<"unsub", s>>
      BY <1>2, <1>3, <2>1
    <3> QED
      BY <1>4, <2>1, <3>1, <3>2 DEF Heard
  <2>2. ASSUME NEW i \in 1 .. Len(k.in), k.in[i] = <<"sub", s>>,
               \A j \in i + 1 .. Len(k.in) : k.in[j] # <<"unsub", s>>
        PROVE  Heard(n, s)
    <3>1. CASE i = 1
      <4>1. s \in n.subs \cup n.refused
        BY <1>2, <1>4, <2>2, <3>1
      <4>2. \A j \in 1 .. Len(n.in) : n.in[j] # <<"unsub", s>>
        BY <1>2, <1>3, <2>2, <3>1
      <4> QED
        BY <4>1, <4>2 DEF Heard
    <3>2. CASE i # 1
      <4>1. i - 1 \in 1 .. Len(n.in) /\ n.in[i - 1] = k.in[i]
        BY <1>2, <3>2
      <4>2. \A j \in (i - 1) + 1 .. Len(n.in) : n.in[j] # <<"unsub", s>>
        <5> SUFFICES ASSUME NEW j \in (i - 1) + 1 .. Len(n.in) PROVE n.in[j] # <<"unsub", s>>
          OBVIOUS
        <5>1. j \in 1 .. Len(n.in) /\ j + 1 \in i + 1 .. Len(k.in)
          BY <1>2
        <5> QED
          BY <1>3, <2>2, <5>1
      <4> QED
        BY <2>2, <4>1, <4>2 DEF Heard
    <3> QED
      BY <3>1, <3>2
  <2> QED
    BY <1>4, <2>1, <2>2 DEF Heard
<1> QED
  BY <1>4 DEF Keeps

\* The other fields do not matter.
LEMMA SameWord ==
    ASSUME NEW k, NEW n, NEW s, n.in = k.in, n.subs = k.subs, n.refused = k.refused, n.open = k.open, n.lost = k.lost,
           n.auth = k.auth
    PROVE  Keeps(k, n, s)
BY DEF Keeps, Heard

\* send(): only an unsubscription is forgotten for, and a subscription is heard
\* unless it found the channel full.
LEMMA SentKeeps ==
    ASSUME NEW socks \in [Generation -> Sockets], NEW m \in Requests, tx \in Generation \cup {None}
    PROVE  /\ Sent(socks, m) \in [Generation -> Sockets]
           /\ \A g \in Generation : /\ Sent(socks, m)[g].out = socks[g].out
                                    /\ Sent(socks, m)[g].auth = socks[g].auth
                                    /\ Sent(socks, m)[g].open = socks[g].open
           /\ \A g \in Generation, s \in Sids :
                 m # <<"unsub", s>> => Keeps(socks[g], Sent(socks, m)[g], s)
           /\ \A s \in Sids :
                 m = <<"sub", s>> /\ tx \in Generation
                 /\ Sent(socks, m)[tx].open /\ ~Sent(socks, m)[tx].lost => Heard(Sent(socks, m)[tx], s)
           /\ \A g \in Generation :
                 Len(socks[g].in) <= Capacity => Len(Sent(socks, m)[g].in) <= Capacity
<1> DEFINE new == Sent(socks, m)
<1>0. \A g \in Generation : socks[g] \in Sockets
  OBVIOUS
<1>1. CASE tx = None \/ (tx \in Generation /\ ~socks[tx].open)
  <2>1. new = socks
    BY <1>1 DEF Sent
  <2>2. tx \in Generation => ~new[tx].open
    BY <1>1, <2>1, ClientAssumption
  <2> QED
    BY <2>1, <2>2, KeepsSame
<1>2. CASE tx \in Generation /\ socks[tx].open /\ Len(socks[tx].in) < Capacity
  <2> DEFINE k == socks[tx]
             n == [k EXCEPT !.in = Append(k.in, m)]
  <2>1. tx # None
    BY <1>2, ClientAssumption
  <2>2. new = [socks EXCEPT ![tx] = n]
    BY <1>2, <2>1 DEF Sent
  <2>3. /\ n \in Sockets /\ n.open = k.open /\ n.lost = k.lost /\ n.auth = k.auth
        /\ n.out = k.out /\ n.subs = k.subs /\ n.refused = k.refused /\ n.in = Append(k.in, m)
        /\ \A s \in Sids : m # <<"unsub", s>> => Keeps(k, n, s)
        /\ \A s \in Sids : m = <<"sub", s>> => Heard(n, s)
    BY <1>0, <1>2, InGrows
  <2>4. Len(n.in) <= Capacity
    <3>1. k.in \in Seq(Requests)
      BY <1>0, <1>2 DEF Sockets
    <3>2. Len(Append(k.in, m)) = Len(k.in) + 1 /\ Len(k.in) \in Nat
      BY <3>1
    <3> QED
      BY <1>2, <2>3, <3>2, ClientAssumption
  <2> HIDE DEF n
  <2>5. new \in [Generation -> Sockets] /\ new[tx] = n
        /\ \A g \in Generation \ {tx} : new[g] = socks[g]
    BY <1>0, <1>2, <2>2, <2>3
  <2> HIDE DEF new
  <2>6. \A g \in Generation, s \in Sids : m # <<"unsub", s>> => Keeps(socks[g], new[g], s)
    BY <2>3, <2>5, KeepsSame
  <2>7. \A g \in Generation : /\ new[g].out = socks[g].out /\ new[g].auth = socks[g].auth
                              /\ new[g].open = socks[g].open
    BY <2>3, <2>5
  <2>8. \A g \in Generation : Len(socks[g].in) <= Capacity => Len(new[g].in) <= Capacity
    BY <2>4, <2>5
  <2> QED
    BY <2>3, <2>5, <2>6, <2>7, <2>8 DEF new
<1>3. CASE tx \in Generation /\ socks[tx].open /\ ~(Len(socks[tx].in) < Capacity)
  <2> DEFINE k == socks[tx]
             n == [k EXCEPT !.lost = TRUE]
  <2>1. tx # None
    BY <1>3, ClientAssumption
  <2>2. new = [socks EXCEPT ![tx] = n]
    BY <1>3, <2>1 DEF Sent
  <2>3. n \in Sockets
    BY <1>0, <1>3 DEF Sockets
  <2>4. n.open = k.open /\ n.auth = k.auth /\ n.out = k.out /\ n.in = k.in /\ n.lost = TRUE
    BY <1>0, <1>3 DEF Sockets
  <2>5. n.lost
    BY <2>4, Zenon
  <2>6. \A s \in Sids : Keeps(k, n, s)
    BY <2>5 DEF Keeps
  <2> HIDE DEF n
  <2>7. new \in [Generation -> Sockets] /\ new[tx] = n
        /\ \A g \in Generation \ {tx} : new[g] = socks[g]
    BY <1>0, <1>3, <2>2, <2>3
  <2> HIDE DEF new
  <2>8. \A g \in Generation, s \in Sids : Keeps(socks[g], new[g], s)
    BY <2>6, <2>7, KeepsSame
  <2>9. \A g \in Generation : /\ new[g].out = socks[g].out /\ new[g].auth = socks[g].auth
                              /\ new[g].open = socks[g].open /\ new[g].in = socks[g].in
    BY <2>4, <2>7
  <2>10. new[tx].lost
    BY <2>5, <2>7
  <2> QED
    BY <2>7, <2>8, <2>9, <2>10 DEF new
<1> QED
  BY <1>1, <1>2, <1>3

\* What was lost stays lost.
LEMMA LostStays ==
    ASSUME NEW socks \in [Generation -> Sockets], NEW m \in Requests, tx \in Generation \cup {None},
           NEW g \in Generation, ~Sent(socks, m)[g].lost
    PROVE  ~socks[g].lost
<1>1. CASE Sent(socks, m) = socks
  BY <1>1
<1>2. CASE tx \in Generation /\ Sent(socks, m) = [socks EXCEPT ![tx].in = Append(@, m)]
  BY <1>2 DEF Sockets
<1>3. CASE tx \in Generation /\ Sent(socks, m) = [socks EXCEPT ![tx].lost = TRUE]
  BY <1>3, Zenon DEF Sockets
<1> QED
  BY <1>1, <1>2, <1>3, ClientAssumption DEF Sent

-----------------------------------------------------------------------------
(* All sockets in one step.                                                *)

SocksOK(f) == /\ f \in [Generation -> Sockets]
              /\ \A g \in Generation : Vouched(f[g]) /\ Len(f[g].in) <= Capacity

\* From f to f2 no socket forgets a session.
AllKeep(f, f2) == \A g \in Generation, s \in Sids : Keeps(f[g], f2[g], s)

LEMMA SentCarries ==
    ASSUME NEW f, SocksOK(f), NEW m \in Requests, tx \in Generation \cup {None}
    PROVE  /\ SocksOK(Sent(f, m))
           /\ m[1] # "unsub" => AllKeep(f, Sent(f, m))
<1>1. f \in [Generation -> Sockets]
  BY DEF SocksOK
<1>2. /\ Sent(f, m) \in [Generation -> Sockets]
      /\ \A g \in Generation : /\ Sent(f, m)[g].out = f[g].out
                               /\ Sent(f, m)[g].auth = f[g].auth
      /\ \A g \in Generation, s \in Sids : m # <<"unsub", s>> => Keeps(f[g], Sent(f, m)[g], s)
      /\ \A g \in Generation : Len(f[g].in) <= Capacity => Len(Sent(f, m)[g].in) <= Capacity
  BY <1>1, SentKeeps
<1>3. SocksOK(Sent(f, m))
  BY <1>2 DEF SocksOK, Vouched
<1>4. m[1] # "unsub" => \A s \in Sids : m # <<"unsub", s>>
  OBVIOUS
<1> QED
  BY <1>2, <1>3, <1>4 DEF AllKeep

LEMMA ClosedCarries ==
    ASSUME NEW f, SocksOK(f), NEW gs
    PROVE  /\ SocksOK(Closed(f, gs)) /\ AllKeep(f, Closed(f, gs))
           /\ \A g \in Generation : Closed(f, gs)[g] = IF g \in gs THEN NoSocket ELSE f[g]
<1>1. \A g \in Generation : Closed(f, gs)[g] = IF g \in gs THEN NoSocket ELSE f[g]
  BY DEF Closed
<1>2. Closed(f, gs) \in [Generation -> Sockets]
  BY NoSocketTyped DEF Closed, SocksOK
<1>3. Vouched(NoSocket) /\ Len(NoSocket.in) <= Capacity
  BY ClientAssumption DEF NoSocket, Vouched
<1>4. \A k, s : Keeps(k, NoSocket, s)
  BY NoSocketTyped DEF Keeps
<1>5. SocksOK(Closed(f, gs))
  BY <1>1, <1>2, <1>3 DEF SocksOK
<1>6. AllKeep(f, Closed(f, gs))
  BY <1>1, <1>4, KeepsSame DEF AllKeep
<1> QED
  BY <1>1, <1>5, <1>6

LEMMA PoppedCarries ==
    ASSUME SocksOK(sock), NEW g \in Generation, sock[g].out # << >>
    PROVE  /\ SocksOK(Popped(g)) /\ AllKeep(sock, Popped(g))
           /\ Popped(g)[g].auth = sock[g].auth /\ Popped(g)[g].open = sock[g].open
<1> DEFINE k == sock[g]
           n == [k EXCEPT !.out = Tail(k.out)]
<1>1. k \in Sockets /\ k.out \in Seq(Answers) /\ sock \in [Generation -> Sockets]
  BY SocketFields DEF SocksOK, Sockets
<1>2. /\ Tail(k.out) \in Seq(Answers) /\ Len(k.out) \in Nat \ {0}
      /\ Len(Tail(k.out)) = Len(k.out) - 1
      /\ \A i \in 1 .. Len(Tail(k.out)) : Tail(k.out)[i] = k.out[i + 1]
  BY <1>1, HeadTailProperties
<1>3. n \in Sockets
  BY <1>1, <1>2 DEF Sockets
<1>4. /\ n.in = k.in /\ n.subs = k.subs /\ n.refused = k.refused /\ n.open = k.open /\ n.lost = k.lost /\ n.auth = k.auth
      /\ n.out = Tail(k.out)
  BY <1>1 DEF Sockets
<1>5. Popped(g) = [sock EXCEPT ![g] = n]
  BY DEF Popped
<1> HIDE DEF n
<1>6. Popped(g) \in [Generation -> Sockets] /\ Popped(g)[g] = n
      /\ \A h \in Generation \ {g} : Popped(g)[h] = sock[h]
  BY <1>1, <1>3, <1>5
<1>7. Vouched(n)
  <2>1. \A i \in 1 .. Len(n.out) : i + 1 \in 1 .. Len(k.out) /\ n.out[i] = k.out[i + 1]
    BY <1>2, <1>4
  <2>2. Vouched(k)
    BY DEF SocksOK
  <2> QED
    BY <1>4, <2>1, <2>2 DEF Vouched
<1>8. SocksOK(Popped(g))
  BY <1>4, <1>6, <1>7 DEF SocksOK
<1>9. \A s \in Sids : Keeps(k, n, s)
  BY <1>4, SameWord
<1>10. AllKeep(sock, Popped(g))
  BY <1>6, <1>9, KeepsSame DEF AllKeep
<1> QED
  BY <1>4, <1>6, <1>8, <1>10

\* The relay answers on socket g: x is the socket with the answer.
LEMMA AnsweredCarries ==
    ASSUME SocksOK(sock), NEW g \in Generation, NEW x \in Sockets, Answered(g, x), Vouched(x),
           x.in = sock[g].in, x.open = sock[g].open, x.lost = sock[g].lost,
           sock[g].auth => x.auth,
           sock[g].refused \subseteq x.refused,
           \A s \in Sids : sock[g].auth /\ Head(sock[g].in) = <<"sub", s>> => s \in x.subs \cup x.refused,
           \A s \in Sids : sock[g].auth /\ s \in sock[g].subs /\ Head(sock[g].in) # <<"unsub", s>>
                              => s \in x.subs
    PROVE  SocksOK(sock') /\ AllKeep(sock, sock')
<1> DEFINE k == sock[g]
           n == [x EXCEPT !.in = Tail(x.in)]
<1>1. k \in Sockets /\ k.in \in Seq(Requests) /\ sock \in [Generation -> Sockets] /\ k.in # << >>
  BY SocketFields DEF SocksOK, Sockets, Answered
<1>2. /\ Tail(k.in) \in Seq(Requests) /\ Len(k.in) \in Nat /\ Len(Tail(k.in)) = Len(k.in) - 1
  BY <1>1, HeadTailProperties
<1>3. n \in Sockets
  BY <1>1, <1>2 DEF Sockets
<1>4. /\ n.in = Tail(k.in) /\ n.subs = x.subs /\ n.refused = x.refused /\ n.open = x.open /\ n.lost = x.lost
      /\ n.auth = x.auth /\ n.out = x.out
  BY DEF Sockets
<1>5. sock' = [sock EXCEPT ![g] = n]
  BY DEF Answered
<1> HIDE DEF n
<1>6. sock' \in [Generation -> Sockets] /\ sock'[g] = n
      /\ \A h \in Generation \ {g} : sock'[h] = sock[h]
  BY <1>1, <1>3, <1>5
<1>7. Vouched(n)
  BY <1>4 DEF Vouched
<1>8. Len(n.in) <= Capacity
  <2>1. Len(k.in) <= Capacity
    BY DEF SocksOK
  <2> QED
    BY <1>2, <1>4, <2>1, ClientAssumption
<1>9. SocksOK(sock')
  BY <1>6, <1>7, <1>8 DEF SocksOK
<1>10. \A s \in Sids : Keeps(k, n, s)
  BY <1>1, <1>3, <1>4, InShrinks
<1> QED
  BY <1>6, <1>9, <1>10, KeepsSame DEF AllKeep

\* A socket with one more answer, and with what the relay then knows of the daemon.
Told(k, a) == [k EXCEPT !.out = Append(k.out, a)]
ToldAuth(k, a, b) == [Told(k, a) EXCEPT !.auth = b]

LEMMA ReplyFields ==
    ASSUME NEW k \in Sockets, NEW a \in Answers, NEW b \in BOOLEAN, Vouched(k), k.auth => b,
           a \in {"authOk", "resumed"} => b
    PROVE  /\ Told(k, a) \in Sockets /\ ToldAuth(k, a, b) \in Sockets /\ Vouched(ToldAuth(k, a, b))
           /\ ToldAuth(k, a, b).in = k.in /\ ToldAuth(k, a, b).subs = k.subs
           /\ ToldAuth(k, a, b).refused = k.refused
           /\ ToldAuth(k, a, b).open = k.open /\ ToldAuth(k, a, b).lost = k.lost
           /\ ToldAuth(k, a, b).auth = b /\ (k.auth = b => ToldAuth(k, a, b) = Told(k, a))
<1> DEFINE y == [k EXCEPT !.out = Append(k.out, a)]
           x == [y EXCEPT !.auth = b]
<1>1. k.out \in Seq(Answers) /\ k.auth \in BOOLEAN
  BY SocketFields DEF Sockets
<1>2. /\ Append(k.out, a) \in Seq(Answers) /\ Len(Append(k.out, a)) = Len(k.out) + 1
      /\ Len(k.out) \in Nat
      /\ \A i \in 1 .. Len(k.out) : Append(k.out, a)[i] = k.out[i]
      /\ Append(k.out, a)[Len(k.out) + 1] = a
  BY <1>1, AppendProperties
<1>3. y \in Sockets
  BY <1>2 DEF Sockets
<1>4. /\ y.in = k.in /\ y.subs = k.subs /\ y.refused = k.refused /\ y.open = k.open /\ y.lost = k.lost /\ y.auth = k.auth
      /\ y.out = Append(k.out, a)
  BY DEF Sockets
<1> HIDE DEF y
<1>5. x \in Sockets
  BY <1>3 DEF Sockets
<1>6. /\ x.in = y.in /\ x.subs = y.subs /\ x.refused = y.refused /\ x.open = y.open /\ x.lost = y.lost /\ x.auth = b
      /\ x.out = y.out
  BY <1>3 DEF Sockets
<1>7. k.auth = b => x = y
  BY <1>3, <1>4 DEF Sockets
<1> HIDE DEF x
<1>8. Vouched(x)
  <2> SUFFICES ASSUME NEW i \in 1 .. Len(x.out), x.out[i] \in {"authOk", "resumed"} PROVE b
    BY <1>6 DEF Vouched
  <2>1. i \in 1 .. Len(k.out) \/ i = Len(k.out) + 1
    BY <1>2, <1>4, <1>6
  <2>2. CASE i \in 1 .. Len(k.out)
    <3>1. k.out[i] \in {"authOk", "resumed"}
      BY <1>2, <1>4, <1>6, <2>2
    <3> QED
      BY <2>2, <3>1 DEF Vouched
  <2>3. CASE i = Len(k.out) + 1
    BY <1>2, <1>4, <1>6, <2>3
  <2> QED
    BY <2>1, <2>2, <2>3
<1> QED
  <2>1. x = ToldAuth(k, a, b) /\ y = Told(k, a)
    BY DEF x, y, Told, ToldAuth
  <2> QED
    BY <1>3, <1>4, <1>5, <1>6, <1>7, <1>8, <2>1

\* What a word that is no subscription says of none.
LEMMA PlainWord ==
    ASSUME NEW m, m \in {<<"register">>, <<"auth">>, <<"resume">>, <<"kx">>}, NEW s
    PROVE  m # <<"sub", s>> /\ m # <<"unsub", s>>
OBVIOUS

\* The relay answers a word that is no subscription.
LEMMA RepliedCarries ==
    ASSUME SocksOK(sock), NEW g \in Generation, NEW a \in Answers, NEW b \in BOOLEAN,
           sock[g].auth => b, a \in {"authOk", "resumed"} => b,
           Head(sock[g].in) \in {<<"register">>, <<"auth">>, <<"resume">>, <<"kx">>},
           \/ Answered(g, ToldAuth(sock[g], a, b))
           \/ sock[g].auth = b /\ Answered(g, Told(sock[g], a))
    PROVE  SocksOK(sock') /\ AllKeep(sock, sock')
<1> DEFINE k == sock[g]
           x == ToldAuth(k, a, b)
<1>1. k \in Sockets /\ Vouched(k)
  BY DEF SocksOK
<1>2. /\ x \in Sockets /\ Vouched(x)
      /\ x.in = k.in /\ x.subs = k.subs /\ x.refused = k.refused /\ x.open = k.open /\ x.lost = k.lost
      /\ x.auth = b /\ (k.auth = b => x = Told(k, a))
  BY <1>1, ReplyFields
<1>3. Answered(g, x)
  BY <1>2
<1> HIDE DEF x
<1>4. \A s \in Sids : Head(k.in) # <<"sub", s>> /\ Head(k.in) # <<"unsub", s>>
  BY PlainWord
<1>5. k.auth => x.auth
  BY <1>2
<1> QED
  BY <1>2, <1>3, <1>4, <1>5, AnsweredCarries

\* The relay forwards something.
LEMMA ToldCarries ==
    ASSUME SocksOK(sock), NEW g \in Generation, NEW a \in Answers, a \notin {"authOk", "resumed"},
           sock' = [sock EXCEPT ![g] = Told(sock[g], a)]
    PROVE  SocksOK(sock') /\ AllKeep(sock, sock')
<1> DEFINE k == sock[g]
           x == Told(k, a)
<1>1. k \in Sockets /\ Vouched(k) /\ k.out \in Seq(Answers)
  BY SocketFields DEF SocksOK, Sockets
<1>2. /\ Append(k.out, a) \in Seq(Answers) /\ Len(Append(k.out, a)) = Len(k.out) + 1
      /\ Len(k.out) \in Nat
      /\ \A i \in 1 .. Len(k.out) : Append(k.out, a)[i] = k.out[i]
      /\ Append(k.out, a)[Len(k.out) + 1] = a
  BY <1>1, AppendProperties
<1>3. x \in Sockets
  BY <1>1, <1>2 DEF Sockets, Told
<1>4. /\ x.in = k.in /\ x.subs = k.subs /\ x.refused = k.refused /\ x.open = k.open /\ x.lost = k.lost /\ x.auth = k.auth
      /\ x.out = Append(k.out, a)
  BY <1>1 DEF Sockets, Told
<1> HIDE DEF x
<1>5. Vouched(x)
  BY <1>1, <1>2, <1>4 DEF Vouched
<1>6. sock' \in [Generation -> Sockets] /\ sock'[g] = x
      /\ \A h \in Generation \ {g} : sock'[h] = sock[h]
  BY <1>3 DEF SocksOK, x
<1>7. \A s \in Sids : Keeps(k, x, s)
  BY <1>4, SameWord
<1>8. SocksOK(sock')
  BY <1>4, <1>5, <1>6 DEF SocksOK
<1> QED
  BY <1>6, <1>7, <1>8, KeepsSame DEF AllKeep

\* A step of the relay on one socket.
LEMMA RelayCarries ==
    ASSUME SocksOK(sock), NEW g \in Generation, RelayTakes(g) \/ RelayRefuses(g) \/ RelayThrottles(g) \/ AppJoins(g)
    PROVE  SocksOK(sock') /\ AllKeep(sock, sock')
<1> DEFINE k == sock[g]
           m == Head(k.in)
<1>1. k \in Sockets /\ Vouched(k) /\ k.auth \in BOOLEAN /\ k.in \in Seq(Requests)
  BY SocketFields DEF SocksOK, Sockets
<1>2. CASE RelayTakes(g)
  <2>1. CASE m = <<"register">> /\ Answered(g, Told(k, "registerOk"))
    <3>1. "registerOk" \in Answers
      BY DEF Answers
    <3> QED
      BY <1>1, <2>1, <3>1, RepliedCarries
  <2>2. CASE m = <<"auth">> /\ Answered(g, ToldAuth(k, "authOk", TRUE))
    <3>1. "authOk" \in Answers
      BY DEF Answers
    <3> QED
      BY <1>1, <2>2, <3>1, RepliedCarries
  <2>3. CASE /\ m = <<"resume">>
             /\ Answered(g, IF resume = "good" THEN ToldAuth(k, "resumed", TRUE)
                            ELSE Told(k, "authErr"))
    <3>1. "resumed" \in Answers /\ "authErr" \in Answers
      BY DEF Answers
    <3>2. CASE resume = "good"
      <4>1. Answered(g, ToldAuth(k, "resumed", TRUE))
        BY <2>3, <3>2
      <4> QED
        BY <1>1, <2>3, <3>1, <4>1, RepliedCarries
    <3>3. CASE resume # "good"
      <4>1. Answered(g, Told(k, "authErr"))
        BY <2>3, <3>3
      <4> QED
        BY <1>1, <2>3, <3>1, <4>1, RepliedCarries
    <3> QED
      BY <3>2, <3>3
  <2>4. CASE m = <<"kx">> /\ Answered(g, k)
    <3>1. \A s \in Sids : m # <<"sub", s>> /\ m # <<"unsub", s>>
      BY <2>4, PlainWord
    <3> QED
      BY <1>1, <2>4, <3>1, AnsweredCarries
  <2>5. CASE /\ k.in # << >> /\ m[1] \in {"sub", "unsub"}
             /\ Answered(g, IF ~k.auth THEN k
                            ELSE IF m[1] = "sub" THEN [k EXCEPT !.subs = k.subs \cup {m[2]}]
                            ELSE [k EXCEPT !.subs = k.subs \ {m[2]}])
    <3>1. m \in Requests
      BY <1>1, <2>5, HeadTailProperties
    <3>2. m[2] \in Sids /\ m = <<m[1], m[2]>>
      BY <2>5, <3>1, RequestParts
    <3>3. CASE ~k.auth
      <4>1. Answered(g, k)
        BY <2>5, <3>3
      <4> QED
        BY <1>1, <3>3, <4>1, AnsweredCarries
    <3>4. CASE k.auth
      <4> DEFINE t == IF m[1] = "sub" THEN k.subs \cup {m[2]} ELSE k.subs \ {m[2]}
                 x == [k EXCEPT !.subs = t]
      <4>1. Answered(g, x)
        <5>1. CASE m[1] = "sub"
          BY <2>5, <3>4, <5>1
        <5>2. CASE m[1] # "sub"
          BY <2>5, <3>4, <5>2
        <5> QED
          BY <5>1, <5>2
      <4>2. t \in SUBSET Sids
        <5>1. k.subs \in SUBSET Sids
          BY <1>1 DEF Sockets
        <5> QED
          BY <3>2, <5>1
      <4>3. \A s \in Sids : m = <<"sub", s>> => s \in t
        BY <3>2
      <4>4. \A s \in Sids : s \in k.subs /\ m # <<"unsub", s>> => s \in t
        <5> SUFFICES ASSUME NEW s \in Sids, s \in k.subs, m # <<"unsub", s>> PROVE s \in t
          OBVIOUS
        <5>1. CASE m[1] = "sub"
          BY <5>1
        <5>2. CASE m[1] = "unsub"
          <6>1. m = <<"unsub", m[2]>>
            BY <3>2, <5>2
          <6>2. s # m[2]
            BY <6>1
          <6> QED
            BY <5>2, <6>2
        <5> QED
          BY <2>5, <5>1, <5>2
      <4> HIDE DEF t
      <4>5. x \in Sockets
        BY <1>1, <4>2 DEF Sockets
      <4>6. x.in = k.in /\ x.subs = t /\ x.refused = k.refused /\ x.open = k.open /\ x.lost = k.lost /\ x.auth = k.auth
            /\ x.out = k.out
        BY <1>1 DEF Sockets
      <4> HIDE DEF x
      <4>7. Vouched(x)
        BY <1>1, <4>6 DEF Vouched
      <4> QED
        BY <4>1, <4>3, <4>4, <4>5, <4>6, <4>7, AnsweredCarries
    <3> QED
      BY <3>3, <3>4
  <2> QED
    BY <1>2, <2>1, <2>2, <2>3, <2>4, <2>5 DEF RelayTakes, Told, ToldAuth
<1>3. CASE RelayRefuses(g)
  <2> DEFINE a == IF m = <<"register">> THEN "registerErr" ELSE "authErr"
  <2>1. Answered(g, Told(k, a)) /\ m \in {<<"register">>, <<"auth">>}
    BY <1>3 DEF RelayRefuses, Told
  <2>2. a \in Answers /\ a \notin {"authOk", "resumed"}
    BY DEF Answers
  <2> HIDE DEF a
  <2> QED
    BY <1>1, <2>1, <2>2, RepliedCarries
<1>4. CASE AppJoins(g)
  <2>1. sock' = [sock EXCEPT ![g] = Told(k, "kx")] /\ k.auth
    BY <1>4 DEF AppJoins, Told
  <2>2. "kx" \in Answers
    BY DEF Answers
  <2> QED
    BY <2>1, <2>2, ToldCarries
<1>5. CASE RelayThrottles(g)
  <2> DEFINE x == [k EXCEPT !.refused = k.refused \cup {m[2]}]
  <2>1. /\ k.in # << >> /\ m[1] \in {"sub", "unsub", "kx"} /\ k.auth
        /\ Answered(g, IF m[1] = "sub" THEN x ELSE k)
    BY <1>5 DEF RelayThrottles
  <2>2. m \in Requests
    BY <1>1, <2>1, HeadTailProperties
  <2>3. CASE m[1] # "sub"
    <3>1. Answered(g, k) /\ \A s \in Sids : m # <<"sub", s>>
      BY <2>1, <2>3
    <3> QED
      BY <1>1, <3>1, AnsweredCarries
  <2>4. CASE m[1] = "sub"
    <3>1. m[2] \in Sids /\ m = <<"sub", m[2]>>
      BY <2>2, <2>4, RequestParts
    <3>2. Answered(g, x)
      BY <2>1, <2>4
    <3>3. k.refused \cup {m[2]} \in SUBSET Sids
      BY <1>1, <3>1, SocketFields DEF Sockets
    <3>4. x \in Sockets
      BY <1>1, <3>3 DEF Sockets
    <3>5. x.in = k.in /\ x.subs = k.subs /\ x.refused = k.refused \cup {m[2]} /\ x.open = k.open
          /\ x.lost = k.lost /\ x.auth = k.auth /\ x.out = k.out
      BY <1>1 DEF Sockets
    <3> HIDE DEF x
    <3>6. Vouched(x)
      BY <1>1, <3>5 DEF Vouched
    <3>7. \A s \in Sids : m = <<"sub", s>> => s \in x.refused
      BY <3>1, <3>5
    <3> QED
      BY <3>2, <3>4, <3>5, <3>6, <3>7, AnsweredCarries
  <2> QED
    BY <2>3, <2>4
<1> QED
  BY <1>2, <1>3, <1>4, <1>5

\* A socket that is dialled is new to the relay.
LEMMA DialCarries ==
    ASSUME SocksOK(sock), TypeInv, Dialled
    PROVE  SocksOK(sock')
<1> DEFINE g == conn.gen
           k == sock[g]
           n == [k EXCEPT !.open = TRUE]
<1>1. g \in Generation /\ sock' = [sock EXCEPT ![g] = n]
  BY DEF Dialled, TypeInv, Numbered
<1>2. k \in Sockets /\ Vouched(k) /\ Len(k.in) <= Capacity
  BY <1>1 DEF SocksOK
<1>3. n \in Sockets
  BY <1>2 DEF Sockets
<1>4. n.in = k.in /\ n.out = k.out /\ n.auth = k.auth
  BY <1>2 DEF Sockets
<1> HIDE DEF n
<1>5. sock' \in [Generation -> Sockets] /\ sock'[g] = n
      /\ \A h \in Generation \ {g} : sock'[h] = sock[h]
  BY <1>1, <1>3 DEF SocksOK
<1>6. Vouched(n)
  BY <1>2, <1>4 DEF Vouched
<1> QED
  BY <1>2, <1>4, <1>5, <1>6 DEF SocksOK

-----------------------------------------------------------------------------
(* The sessions the daemon wants are at the relay.                         *)

LinkInv ==
    /\ SocksOK(sock) /\ tx \in Generation \cup {None}
    /\ wanted \subseteq Sids /\ subs \subseteq Sids /\ peerless \in 0 .. Threshold
    /\ call \in [Sids -> {None, "sub", "unsub"}]
    /\ \A s \in Sids : call[s] = "unsub" => s \notin wanted

\* The client is authenticated on its current socket, which lost nothing.
Live == Reads /\ auth /\ tx = gen /\ sock[gen].open /\ ~sock[gen].lost

\* A subscription of s is still to be sent: by handle_auth_ok, before or after it has
\* copied the set, or by a subscribe() on its way out of the lock.
Pending(s) == \/ reader[gen] \in {"copy", "copyResumed"}
              \/ reader[gen] \in {"subs", "quietSubs"} /\ s \in subs
              \/ call[s] = "sub"

Settled(s) ==
    Live => sock[gen].auth /\ (s \in wanted => Pending(s) \/ Heard(sock[gen], s))

SettledInv == \A s \in Sids : Settled(s)

LEMMA LinkInvInit == Init => LinkInv /\ SettledInv
<1> SUFFICES ASSUME Init PROVE LinkInv /\ SettledInv
  OBVIOUS
<1>1. SocksOK(sock)
  <2>1. sock = [g \in Generation |-> NoSocket]
    BY DEF Init
  <2>2. Vouched(NoSocket) /\ Len(NoSocket.in) <= Capacity
    BY ClientAssumption DEF NoSocket, Vouched
  <2>3. sock \in [Generation -> Sockets]
    BY <2>1, NoSocketTyped
  <2> QED
    BY <2>1, <2>2, <2>3 DEF SocksOK
<1>2. call = [s \in Sids |-> None] /\ tx = None /\ wanted = {} /\ subs = {} /\ peerless = 0
  BY DEF Init
<1>3. gen \in Generation
  BY TypeInvInit DEF TypeInv
<1>4. LinkInv
  BY <1>1, <1>2, ClientAssumption DEF LinkInv
<1>5. ~Live
  BY <1>2, <1>3, ClientAssumption DEF Live
<1> QED
  BY <1>4, <1>5 DEF SettledInv, Settled

\* Nothing is forgotten that was known of s.
LEMMA SettledGoes ==
    ASSUME NEW s, Settled(s), UNCHANGED <<gen, auth, tx>>, Reads' => Reads,
           Keeps(sock[gen], sock'[gen], s), s \in wanted' => s \in wanted,
           s \in wanted /\ Pending(s) => Pending(s)' \/ Heard(sock[gen], s)' \/ ~Live'
    PROVE  Settled(s)'
<1>1. CASE ~Live'
  BY <1>1 DEF Settled
<1>2. CASE Live'
  <2>1. Reads' /\ auth' /\ tx' = gen' /\ sock'[gen].open /\ ~sock'[gen].lost
    BY <1>2 DEF Live
  <2>2. Live
    BY <2>1 DEF Live, Keeps
  <2>3. sock[gen].auth /\ (s \in wanted => Pending(s) \/ Heard(sock[gen], s))
    BY <2>2 DEF Settled
  <2>4. sock'[gen].auth /\ (Heard(sock[gen], s) => Heard(sock'[gen], s))
    BY <2>1, <2>3 DEF Keeps
  <2>5. Heard(sock[gen], s)' <=> Heard(sock'[gen], s)
    BY DEF Heard
  <2> QED
    BY <1>2, <2>3, <2>4, <2>5 DEF Settled
<1> QED
  BY <1>1, <1>2

\* A step that touches the sockets and nothing else of this.
LEMMA SocketStep ==
    ASSUME TypeInv, LinkInv, SettledInv, SocksOK(sock'), AllKeep(sock, sock'),
           UNCHANGED <<gen, auth, tx, reader, wanted, subs, call>>, peerless' \in 0 .. Threshold
    PROVE  LinkInv' /\ SettledInv'
<1>1. LinkInv'
  BY DEF LinkInv
<1>2. ASSUME NEW s \in Sids PROVE Settled(s)'
  <2>1. Settled(s) /\ Keeps(sock[gen], sock'[gen], s) /\ (Reads' <=> Reads)
    BY DEF SettledInv, AllKeep, TypeInv, Reads
  <2>2. Pending(s)' <=> Pending(s)
    BY DEF Pending
  <2> QED
    BY <2>1, <2>2, SettledGoes
<1> QED
  BY <1>1, <1>2 DEF SettledInv

\* A step after which the current generation has no read loop, no sender or is not
\* authenticated.
LEMMA DeadStep ==
    ASSUME LinkInv, SocksOK(sock'), tx' \in Generation \cup {None}, subs' \subseteq Sids,
           UNCHANGED <<wanted, call>>, peerless' \in 0 .. Threshold, ~Live'
    PROVE  LinkInv' /\ SettledInv'
BY DEF LinkInv, SettledInv, Settled

\* Until it has a read loop, a connect() is not authenticated.
LEMMA ConnectsIsDead ==
    ASSUME TypeInv, ChainInv, DeafInv, Connects, UNCHANGED <<gen, auth>>, Reads' => Reads
    PROVE  ~Live'
<1>1. ~auth \/ ~Reads
  BY DEF TypeInv, ChainInv, DeafInv, InUse
<1> QED
  BY <1>1 DEF Live

LEMMA SameSockets == SocksOK(sock) => SocksOK(sock) /\ AllKeep(sock, sock)
BY KeepsSame DEF AllKeep

LEMMA ConnectingSettles ==
    ASSUME TypeInv, ChainInv, DeafInv, LinkInv, SettledInv, Connecting \/ DialFails
    PROVE  LinkInv' /\ SettledInv'
<1>0. SocksOK(sock) /\ tx \in Generation \cup {None} /\ subs \subseteq Sids
      /\ peerless \in 0 .. Threshold
  BY DEF LinkInv
<1>1. CASE ConnectStarts \/ ConnectRegisters \/ DialFails
  <2>1. UNCHANGED <<gen, auth, tx, reader, wanted, subs, call, peerless, sock>>
    BY <1>1 DEF ConnectStarts, ConnectRegisters, DialFails, clientVars, Stay
  <2>2. SocksOK(sock') /\ AllKeep(sock, sock')
    BY <1>0, <2>1, SameSockets
  <2> QED
    BY <1>0, <2>1, <2>2, SocketStep
<1>2. CASE ConnectCleans \/ ConnectNumbers
  <2>1. /\ Bump /\ UNCHANGED <<reader, sock, wanted, call, subs, peerless>>
        /\ tx' \in Generation \cup {None}
    BY <1>0, <1>2 DEF ConnectCleans, ConnectNumbers, CleanState, Stay
  <2>2. ~Live'
    BY <2>1, BumpIsDeaf DEF Live
  <2> QED
    BY <1>0, <2>1, <2>2, DeadStep
<1>3. CASE ConnectAborts
  <2>1. /\ conn.pc = "abort" /\ UNCHANGED <<gen, auth, tx, wanted, call, peerless>>
        /\ reader' = [h \in Generation |-> IF h \in tasks THEN "done" ELSE reader[h]]
        /\ sock' = Closed(sock, tasks) /\ subs' = {}
    BY <1>3 DEF ConnectAborts, AbortTasks
  <2>2. SocksOK(sock')
    BY <1>0, <2>1, ClosedCarries
  <2>3. Connects /\ (Reads' => Reads)
    BY <2>1 DEF Connects, Reads, TypeInv
  <2>4. ~Live'
    BY <2>1, <2>3, ConnectsIsDead
  <2> QED
    BY <1>0, <2>1, <2>2, <2>4, DeadStep
<1>4. CASE Dialled \/ ConnectVerifies
  <2>1. conn.pc \in {"dial", "verify"}
        /\ UNCHANGED <<gen, auth, tx, wanted, call, peerless, reader, subs>>
    BY <1>4 DEF Dialled, ConnectVerifies, clientVars, Stay
  <2>2. Dialled => SocksOK(sock')
    BY <1>0, DialCarries
  <2>3. ASSUME ConnectVerifies PROVE SocksOK(sock')
    <3>1. sock' = sock \/ sock' = Closed(sock, {conn.gen})
      BY <2>3 DEF ConnectVerifies
    <3> QED
      BY <1>0, <3>1, ClosedCarries
  <2>4. SocksOK(sock')
    BY <1>4, <2>2, <2>3
  <2>5. Connects /\ (Reads' => Reads)
    BY <2>1 DEF Connects, Reads
  <2>6. ~Live'
    BY <2>1, <2>5, ConnectsIsDead
  <2> QED
    BY <1>0, <2>1, <2>4, <2>6, DeadStep
<1>5. CASE ConnectAssigns
  <2>1. /\ conn.pc = "assign" /\ tx' = conn.gen /\ reader' = [reader EXCEPT ![conn.gen] = "wait"]
        /\ UNCHANGED <<gen, auth, wanted, call, peerless, subs, sock>>
    BY <1>5 DEF ConnectAssigns, Stay
  <2>2. conn.gen \in Generation
    BY <2>1 DEF TypeInv, Numbered
  <2>3. ~auth \/ (~Reads /\ conn.gen # gen)
    BY <2>1 DEF TypeInv, ChainInv, DeafInv, InUse, Connects
  <2>4. ~Live'
    BY <2>1, <2>3 DEF Live, Reads, TypeInv
  <2> QED
    BY <1>0, <2>1, <2>2, <2>4, DeadStep
<1>6. CASE OnOpen
  <2> DEFINE m == IF resume # "none" THEN <<"resume">> ELSE <<"register">>
  <2>1. sock' = Sent(sock, m) /\ UNCHANGED <<gen, auth, tx, reader, wanted, subs, call, peerless>>
    BY <1>6 DEF OnOpen, Stay
  <2>2. m \in Requests /\ m[1] # "unsub"
    BY RequestParts
  <2> HIDE DEF m
  <2>3. SocksOK(sock') /\ AllKeep(sock, sock')
    BY <1>0, <2>1, <2>2, SentCarries
  <2> QED
    BY <1>0, <2>1, <2>3, SocketStep
<1> QED
  BY <1>1, <1>2, <1>3, <1>4, <1>5, <1>6 DEF Connecting

\* Two steps of the sockets in a row.
LEMMA AllKeepTwice ==
    ASSUME NEW f, NEW f2, NEW f3, AllKeep(f, f2), AllKeep(f2, f3)
    PROVE  AllKeep(f, f3)
BY KeepsTwice DEF AllKeep

\* A message is taken off the socket and answered.
LEMMA AnswerCarries ==
    ASSUME LinkInv, NEW g \in Generation, sock[g].out # << >>,
           NEW m \in {<<"auth">>, <<"kx">>}
    PROVE  SocksOK(Sent(Popped(g), m)) /\ AllKeep(sock, Sent(Popped(g), m))
<1>1. m \in Requests /\ m[1] # "unsub"
  BY RequestParts
<1>2. SocksOK(Popped(g)) /\ AllKeep(sock, Popped(g))
  BY PoppedCarries DEF LinkInv
<1>3. SocksOK(Sent(Popped(g), m)) /\ AllKeep(Popped(g), Sent(Popped(g), m))
  BY <1>1, <1>2, SentCarries DEF LinkInv
<1> QED
  BY <1>2, <1>3, AllKeepTwice

LEMMA ReadingSettles ==
    ASSUME TypeInv, LinkInv, SettledInv, NEW g \in Generation, Reading(g)
    PROVE  LinkInv' /\ SettledInv'
<1>0. SocksOK(sock) /\ tx \in Generation \cup {None} /\ subs \subseteq Sids /\ gen \in Generation
      /\ wanted \subseteq Sids /\ peerless \in 0 .. Threshold /\ reader \in [Generation -> ReaderStates]
  BY DEF LinkInv, TypeInv
<1>1. CASE ReadStale(g)
  <2>1. /\ g # gen /\ reader' = [reader EXCEPT ![g] = "done"]
        /\ UNCHANGED <<gen, auth, tx, wanted, subs, call, peerless, sock>>
    BY <1>1 DEF ReadStale, Stale, ReaderEnds, clientVars, Stay
  <2>2. reader'[gen] = reader[gen] /\ SocksOK(sock')
    BY <1>0, <2>1
  <2>3. ASSUME NEW s \in Sids PROVE Settled(s)'
    <3>1. Settled(s) /\ Keeps(sock[gen], sock'[gen], s) /\ (Reads' <=> Reads)
      BY <2>1, <2>2, KeepsSame DEF SettledInv, Reads
    <3>2. Pending(s)' <=> Pending(s)
      BY <2>1, <2>2 DEF Pending
    <3> QED
      BY <2>1, <3>1, <3>2, SettledGoes
  <2>4. LinkInv'
    BY <2>1, <2>2 DEF LinkInv
  <2> QED
    BY <2>3, <2>4 DEF SettledInv
<1>2. CASE OnClose(g)
  <2>1. UNCHANGED <<tx, wanted, subs, call, peerless, sock>>
    BY <1>2 DEF OnClose, Stay
  <2>2. ~auth'
    BY <1>2, Zenon DEF OnClose
  <2>3. ~Live'
    BY <2>2 DEF Live
  <2>4. SocksOK(sock')
    BY <1>0, <2>1
  <2> QED
    BY <1>0, <2>1, <2>3, <2>4, DeadStep
<1>3. CASE HandleRegisterOk(g) \/ HandleKx(g)
  <2>1. /\ sock[g].out # << >> /\ UNCHANGED <<gen, auth, tx, reader, wanted, subs, call>>
        /\ peerless' = peerless \/ peerless' = 0
        /\ \E m \in {<<"auth">>, <<"kx">>} : sock' = Sent(Popped(g), m)
    BY <1>3 DEF HandleRegisterOk, HandleKx, Takes, clientVars, Stay
  <2>2. SocksOK(sock') /\ AllKeep(sock, sock')
    BY <2>1, AnswerCarries
  <2>3. peerless' \in 0 .. Threshold
    BY <1>0, <2>1, ClientAssumption
  <2> QED
    BY <2>1, <2>2, <2>3, SocketStep
<1>4. CASE HandleRefusal(g)
  <2>1. sock[g].out # << >> /\ sock' = Popped(g) /\ tx' = None
        /\ UNCHANGED <<gen, wanted, subs, call, peerless>>
    BY <1>4 DEF HandleRefusal, Takes, Stay
  <2>2. SocksOK(sock')
    BY <1>0, <2>1, PoppedCarries
  <2>3. ~Live'
    BY <1>0, <2>1, ClientAssumption DEF Live
  <2> QED
    BY <1>0, <2>1, <2>2, <2>3, DeadStep
<1>5. CASE HandleAuthOk(g)
  <2>1. /\ g = gen /\ sock[g].out # << >> /\ Head(sock[g].out) \in {"authOk", "resumed"}
        /\ sock' = Popped(g) /\ UNCHANGED <<gen, tx, wanted, subs, call, peerless>>
        /\ reader'[g] \in {"copy", "copyResumed"}
    BY <1>0, <1>5 DEF HandleAuthOk, Takes, Stale, Stay
  <2>2. SocksOK(sock') /\ sock'[g].auth = sock[g].auth
    BY <1>0, <2>1, PoppedCarries
  <2>3. sock[g].auth
    <3>1. sock[g].out \in Seq(Answers) /\ Vouched(sock[g])
      BY <1>0 DEF SocksOK, Sockets
    <3>2. 1 \in 1 .. Len(sock[g].out) /\ Head(sock[g].out) = sock[g].out[1]
      BY <2>1, <3>1
    <3> QED
      BY <2>1, <3>1, <3>2 DEF Vouched
  <2>4. \A s \in Sids : Settled(s)'
    BY <2>1, <2>2, <2>3 DEF Settled, Pending
  <2>5. LinkInv'
    BY <2>1, <2>2 DEF LinkInv
  <2> QED
    BY <2>4, <2>5 DEF SettledInv
<1>6. CASE CopySubscriptions(g)
  <2>1. /\ reader[g] \in {"copy", "copyResumed"} /\ subs' = wanted
        /\ reader' = [reader EXCEPT ![g] = IF reader[g] = "copyResumed" /\ peers
                                           THEN "quietSubs" ELSE "subs"]
        /\ UNCHANGED <<gen, auth, tx, wanted, call, peerless, sock>>
    BY <1>6 DEF CopySubscriptions, clientVars
  <2>2. /\ reader'[g] \in {"subs", "quietSubs"}
        /\ g # gen => reader'[gen] = reader[gen]
    BY <1>0, <2>1
  <2>3. ASSUME NEW s \in Sids PROVE Settled(s)'
    <3>1. Settled(s) /\ Keeps(sock[gen], sock'[gen], s) /\ (Reads' <=> Reads)
      BY <2>1, <2>2, KeepsSame DEF SettledInv, Reads
    <3>2. s \in wanted /\ Pending(s) => Pending(s)'
      BY <2>1, <2>2 DEF Pending
    <3> QED
      BY <2>1, <3>1, <3>2, SettledGoes
  <2>4. LinkInv'
    BY <2>1 DEF LinkInv
  <2> QED
    BY <2>3, <2>4 DEF SettledInv
<1>7. CASE SendSubscription(g)
  <2>1. PICK t \in subs : sock' = Sent(sock, <<"sub", t>>) /\ subs' = subs \ {t}
    BY <1>7 DEF SendSubscription
  <2>2. UNCHANGED <<gen, auth, tx, reader, wanted, call, peerless>>
    BY <1>7 DEF SendSubscription, clientVars
  <2>3. t \in Sids /\ <<"sub", t>> \in Requests /\ <<"sub", t>>[1] # "unsub"
    BY <1>0, <2>1, RequestParts
  <2>4. SocksOK(sock') /\ AllKeep(sock, sock')
    BY <1>0, <2>1, <2>3, SentCarries
  <2>5. tx \in Generation /\ sock'[tx].open /\ ~sock'[tx].lost => Heard(sock'[tx], t)
    <3>1. sock \in [Generation -> Sockets]
      BY <1>0 DEF SocksOK
    <3> QED
      BY <1>0, <2>1, <2>3, <3>1, SentKeeps
  <2>6. ASSUME NEW s \in Sids PROVE Settled(s)'
    <3>1. Settled(s) /\ Keeps(sock[gen], sock'[gen], s) /\ (Reads' <=> Reads)
      BY <1>0, <2>2, <2>4 DEF SettledInv, AllKeep, Reads
    <3>2. CASE s # t
      <4>1. Pending(s) => Pending(s)'
        BY <2>1, <2>2, <3>2 DEF Pending
      <4> QED
        BY <2>2, <3>1, <4>1, SettledGoes
    <3>3. CASE s = t
      <4>1. Live' => Heard(sock'[gen], s)
        BY <1>0, <2>2, <2>5, <3>3 DEF Live
      <4>2. Heard(sock[gen], s)' <=> Heard(sock'[gen], s)
        BY <2>2 DEF Heard
      <4> QED
        BY <2>2, <3>1, <4>1, <4>2, SettledGoes
    <3> QED
      BY <3>2, <3>3
  <2>7. LinkInv'
    BY <2>1, <2>2, <2>4 DEF LinkInv
  <2> QED
    BY <2>6, <2>7 DEF SettledInv
<1>8. CASE AuthHandled(g)
  <2>1. /\ reader[g] \in {"subs", "quietSubs"} /\ subs = {}
        /\ sock' = sock \/ sock' = Sent(sock, <<"kx">>)
        /\ reader' = [reader EXCEPT ![g] = "wait"]
        /\ UNCHANGED <<gen, auth, tx, wanted, call, subs, peerless>>
    BY <1>8 DEF AuthHandled, clientVars, Stay
  <2>2. <<"kx">> \in Requests /\ <<"kx">>[1] # "unsub"
    BY RequestParts
  <2>3. SocksOK(sock') /\ AllKeep(sock, sock')
    BY <1>0, <2>1, <2>2, SentCarries, SameSockets
  <2>4. reader'[g] = "wait" /\ (g # gen => reader'[gen] = reader[gen])
    BY <1>0, <2>1
  <2>5. ASSUME NEW s \in Sids PROVE Settled(s)'
    <3>1. Settled(s) /\ Keeps(sock[gen], sock'[gen], s) /\ (Reads' <=> Reads)
      BY <1>0, <2>1, <2>3, <2>4 DEF SettledInv, AllKeep, Reads
    <3>2. Pending(s) => Pending(s)'
      BY <2>1, <2>4 DEF Pending
    <3> QED
      BY <2>1, <3>1, <3>2, SettledGoes
  <2>6. LinkInv'
    BY <2>1, <2>3 DEF LinkInv
  <2> QED
    BY <2>5, <2>6 DEF SettledInv
<1> QED
  BY <1>1, <1>2, <1>3, <1>4, <1>5, <1>6, <1>7, <1>8 DEF Reading

LEMMA CallsSettle ==
    ASSUME TypeInv, LinkInv, SettledInv, NEW t \in Sids,
           Subscribe(t) \/ Unsubscribe(t) \/ CallSends(t)
    PROVE  LinkInv' /\ SettledInv'
<1>0. SocksOK(sock) /\ tx \in Generation \cup {None} /\ gen \in Generation
      /\ wanted \subseteq Sids /\ call \in [Sids -> {None, "sub", "unsub"}]
  BY DEF LinkInv, TypeInv
<1>1. ASSUME NEW op \in {"sub", "unsub"}, Calls(t, op) PROVE LinkInv' /\ SettledInv'
  <2>1. /\ wanted' = IF op = "sub" THEN wanted \cup {t} ELSE wanted \ {t}
        /\ call' = [call EXCEPT ![t] = IF auth THEN op ELSE None]
        /\ UNCHANGED <<gen, auth, tx, reader, subs, peerless, sock>>
    BY <1>1 DEF Calls
  <2>2. /\ call' \in [Sids -> {None, "sub", "unsub"}]
        /\ call'[t] = (IF auth THEN op ELSE None)
        /\ \A s \in Sids \ {t} : call'[s] = call[s]
    BY <1>0, <2>1
  <2>3. wanted' \subseteq Sids /\ \A s \in Sids \ {t} : s \in wanted' <=> s \in wanted
    BY <1>0, <2>1
  <2>4. call'[t] = "unsub" => t \notin wanted'
    BY <2>1, <2>2, ClientAssumption
  <2>5. LinkInv'
    <3>1. \A s \in Sids : call'[s] = "unsub" => s \notin wanted'
      BY <2>2, <2>3, <2>4 DEF LinkInv
    <3>2. SocksOK(sock')
      BY <1>0, <2>1
    <3> QED
      BY <2>1, <2>2, <2>3, <3>1, <3>2 DEF LinkInv
  <2>6. ASSUME NEW s \in Sids PROVE Settled(s)'
    <3>1. Settled(s) /\ Keeps(sock[gen], sock'[gen], s) /\ (Reads' <=> Reads)
      BY <2>1, KeepsSame DEF SettledInv, Reads
    <3>2. CASE s # t
      <4>1. Pending(s)' <=> Pending(s)
        BY <2>1, <2>2, <3>2 DEF Pending
      <4>2. s \in wanted' => s \in wanted
        BY <2>3, <3>2
      <4> QED
        BY <2>1, <3>1, <4>1, <4>2, SettledGoes
    <3>3. CASE s = t
      <4>1. Live' => Live
        BY <2>1, <3>1 DEF Live
      <4>2. Live' /\ s \in wanted' => call'[s] = "sub"
        BY <2>1, <2>2, <3>3 DEF Live
      <4>3. Live => sock[gen].auth
        BY <3>1 DEF Settled
      <4> QED
        BY <2>1, <4>1, <4>2, <4>3 DEF Settled, Pending
    <3> QED
      BY <3>2, <3>3
  <2> QED
    BY <2>5, <2>6 DEF SettledInv
<1>2. CASE CallSends(t)
  <2>1. /\ call[t] \in {"sub", "unsub"} /\ sock' = Sent(sock, <<call[t], t>>)
        /\ call' = [call EXCEPT ![t] = None]
        /\ UNCHANGED <<gen, auth, tx, reader, wanted, subs, peerless>>
    BY <1>0, <1>2 DEF CallSends, clientVars
  <2> DEFINE m == <<call[t], t>>
  <2>2. m \in Requests
    BY <2>1, RequestParts
  <2>3. /\ call' \in [Sids -> {None, "sub", "unsub"}] /\ call'[t] = None
        /\ \A s \in Sids \ {t} : call'[s] = call[s]
    BY <1>0, <2>1
  <2>4. SocksOK(sock')
    BY <1>0, <2>1, <2>2, SentCarries
  <2>5. \A s \in Sids : m = <<"unsub", s>> => s \notin wanted
    BY <2>1 DEF LinkInv
  <2>6. \A s \in Sids : s \in wanted => m # <<"unsub", s>>
    BY <2>5
  <2>7. sock \in [Generation -> Sockets]
    BY <1>0 DEF SocksOK
  <2>8. /\ \A g \in Generation : Sent(sock, m)[g].auth = sock[g].auth
                                 /\ Sent(sock, m)[g].open = sock[g].open
        /\ \A g \in Generation, s \in Sids : m # <<"unsub", s>> => Keeps(sock[g], Sent(sock, m)[g], s)
        /\ \A s \in Sids : m = <<"sub", s>> /\ tx \in Generation
              /\ Sent(sock, m)[tx].open /\ ~Sent(sock, m)[tx].lost => Heard(Sent(sock, m)[tx], s)
    BY <1>0, <2>2, <2>7, SentKeeps
  <2>9. LinkInv'
    <3>1. \A s \in Sids : call'[s] = "unsub" => s \notin wanted'
      BY <2>1, <2>3, ClientAssumption DEF LinkInv
    <3> QED
      BY <2>1, <2>3, <2>4, <3>1 DEF LinkInv
  <2>10. ASSUME NEW s \in Sids PROVE Settled(s)'
    <3>1. Settled(s) /\ (Reads' <=> Reads)
      BY <2>1 DEF SettledInv, Reads
    <3>2. CASE m # <<"unsub", s>>
      <4>1. Keeps(sock[gen], sock'[gen], s)
        BY <1>0, <2>1, <2>8, <3>2
      <4>2. CASE s = t /\ call[t] = "sub"
        <5>1. Live' => Heard(sock'[gen], s)
          BY <1>0, <2>1, <2>8, <4>2 DEF Live
        <5>2. Heard(sock[gen], s)' <=> Heard(sock'[gen], s)
          BY <2>1 DEF Heard
        <5> QED
          BY <2>1, <3>1, <4>1, <5>1, <5>2, SettledGoes
      <4>3. CASE ~(s = t /\ call[t] = "sub")
        <5>1. s # t
          BY <2>1, <3>2, <4>3
        <5>2. Pending(s) => Pending(s)'
          BY <2>1, <2>3, <5>1 DEF Pending
        <5> QED
          BY <2>1, <3>1, <4>1, <5>2, SettledGoes
      <4> QED
        BY <4>2, <4>3
    <3>3. CASE m = <<"unsub", s>>
      <4>1. s \notin wanted'
        BY <2>1, <2>5, <3>3
      <4>2. s = t
        BY <3>3
      <4>3. sock'[gen].auth = sock[gen].auth /\ sock'[gen].open = sock[gen].open
        BY <1>0, <2>1, <2>8
      <4>4. Live' => sock'[gen].auth
        <5> SUFFICES ASSUME Live' PROVE sock'[gen].auth
          OBVIOUS
        <5>1. Reads /\ auth /\ tx = gen /\ sock[gen].open
          BY <2>1, <3>1, <4>3 DEF Live
        <5>2. ~sock[gen].lost
          BY <1>0, <2>1, <2>2, <2>7, LostStays DEF Live
        <5> QED
          BY <3>1, <4>3, <5>1, <5>2 DEF Live, Settled
      <4> QED
        BY <2>1, <4>1, <4>4 DEF Settled
    <3> QED
      BY <3>2, <3>3
  <2> QED
    BY <2>9, <2>10 DEF SettledInv
<1> QED
  BY <1>1, <1>2 DEF Subscribe, Unsubscribe

LEMMA DisposingSettles ==
    ASSUME TypeInv, DeafInv, LinkInv, SettledInv, DisposeFlags \/ Disposing
    PROVE  LinkInv' /\ SettledInv'
<1>0. SocksOK(sock) /\ tx \in Generation \cup {None} /\ gen \in Generation /\ subs \subseteq Sids
      /\ peerless \in 0 .. Threshold
  BY DEF LinkInv, TypeInv
<1>1. CASE DisposeFlags
  <2>1. UNCHANGED <<gen, auth, tx, reader, wanted, subs, call, peerless, sock>>
    BY <1>1 DEF DisposeFlags, clientVars
  <2>2. SocksOK(sock') /\ AllKeep(sock, sock')
    BY <1>0, <2>1, SameSockets
  <2> QED
    BY <1>0, <2>1, <2>2, SocketStep
<1>2. CASE DisposeCleans
  <2>1. Bump /\ tx' = None /\ UNCHANGED <<reader, wanted, subs, call, peerless, sock>>
    BY <1>2 DEF DisposeCleans, CleanState
  <2>2. ~Live'
    BY <2>1, BumpIsDeaf DEF Live
  <2>3. SocksOK(sock')
    BY <1>0, <2>1
  <2> QED
    BY <1>0, <2>1, <2>2, <2>3, DeadStep
<1>3. CASE DisposeAborts
  <2>1. /\ dispose = "state" /\ UNCHANGED <<gen, tx, wanted, call, peerless>>
        /\ reader' = [h \in Generation |-> IF h \in tasks THEN "done" ELSE reader[h]]
        /\ sock' = Closed(sock, tasks) /\ subs' = {}
    BY <1>3 DEF DisposeAborts, AbortTasks
  <2>2. SocksOK(sock')
    BY <1>0, <2>1, ClosedCarries
  <2>3. ~Reads /\ (Reads' => Reads)
    BY <1>0, <2>1 DEF DeafInv, Reads
  <2>4. ~Live'
    BY <2>3 DEF Live
  <2> QED
    BY <1>0, <2>1, <2>2, <2>4, DeadStep
<1>4. CASE ClientFreed
  <2>1. tx' = None /\ UNCHANGED <<gen, reader, wanted, subs, call, peerless, sock>>
    BY <1>4 DEF ClientFreed, Stay
  <2>2. ~Live'
    BY <1>0, <2>1, ClientAssumption DEF Live
  <2>3. SocksOK(sock')
    BY <1>0, <2>1
  <2> QED
    BY <1>0, <2>1, <2>2, <2>3, DeadStep
<1> QED
  BY <1>1, <1>2, <1>3, <1>4 DEF Disposing

LEMMA RelaySettles ==
    ASSUME TypeInv, LinkInv, SettledInv, NEW g \in Generation,
           Relaying(g) \/ RelayRefuses(g) \/ RelayThrottles(g) \/ AppJoins(g) \/ SocketDies(g)
    PROVE  LinkInv' /\ SettledInv'
<1>0. SocksOK(sock) /\ peerless \in 0 .. Threshold
  BY DEF LinkInv
<1>1. CASE RelayTakes(g) \/ RelayRefuses(g) \/ RelayThrottles(g) \/ AppJoins(g)
  <2>1. SocksOK(sock') /\ AllKeep(sock, sock')
    BY <1>0, <1>1, RelayCarries
  <2>2. UNCHANGED <<gen, auth, tx, reader, wanted, subs, call, peerless>>
    BY <1>1 DEF RelayTakes, RelayRefuses, RelayThrottles, AppJoins, Answered, clientVars, Stay
  <2> QED
    BY <1>0, <2>1, <2>2, SocketStep
<1>2. CASE AuthTimeout(g) \/ SocketDrops(g) \/ SocketDies(g)
  <2>1. sock' = Closed(sock, {g}) /\ UNCHANGED <<gen, auth, tx, reader, wanted, subs, call, peerless>>
    BY <1>2 DEF AuthTimeout, SocketDrops, SocketDies, clientVars, Stay
  <2>2. SocksOK(sock') /\ AllKeep(sock, sock')
    BY <1>0, <2>1, ClosedCarries
  <2> QED
    BY <1>0, <2>1, <2>2, SocketStep
<1> QED
  BY <1>1, <1>2 DEF Relaying

LEMMA TimerSettles ==
    ASSUME TypeInv, LinkInv, SettledInv, TimerStarts \/ TimerFires \/ TokenAges \/ UNCHANGED vars
    PROVE  LinkInv' /\ SettledInv'
<1>0. SocksOK(sock) /\ peerless \in 0 .. Threshold
  BY DEF LinkInv
<1>1. UNCHANGED <<gen, auth, tx, reader, wanted, subs, call, sock>>
      /\ peerless' \in {peerless, NextPeerless}
  BY DEF TimerStarts, TimerFires, TokenAges, vars, clientVars, Stay
<1>2. peerless' \in 0 .. Threshold
  BY <1>0, <1>1, ClientAssumption DEF NextPeerless
<1>3. SocksOK(sock') /\ AllKeep(sock, sock')
  BY <1>0, <1>1, SameSockets
<1> QED
  BY <1>1, <1>2, <1>3, SocketStep

LEMMA SettledStep ==
    TypeInv /\ ChainInv /\ DeafInv /\ LinkInv /\ SettledInv /\ [Next]_vars => LinkInv' /\ SettledInv'
BY ConnectingSettles, ReadingSettles, CallsSettle, DisposingSettles, RelaySettles, TimerSettles
   DEF Next

\* Every message in a channel is one of the client's, no channel holds more than its
\* capacity, and every answer is one of the relay's, whatever is dropped or cut off.
THEOREM ClientIsTyped == Spec => []ClientTypeOK
<1>1. TypeInv /\ LinkInv => ClientTypeOK
  BY DEF TypeInv, LinkInv, SocksOK, Sockets, ClientTypeOK
<1> QED
  BY <1>1, TypeInvInit, TypeInvStep, ChainInvInit, ChainInvStep, DeafInvInit, DeafInvStep,
     LinkInvInit, SettledStep, PTL DEF Spec

\* Every session the daemon wants is subscribed at the relay once the client has
\* settled, however subscribe() and unsubscribe() raced the authentication, the copy
\* of the subscriptions or a reconnect, unless the channel overflowed on this socket
\* or the relay refused that session's subscription on it.
THEOREM WantedSessionsAreAtRelay == Spec => []WantedAtRelay
<1>1. ASSUME LinkInv, SettledInv PROVE WantedAtRelay
  <2> SUFFICES ASSUME NEW g \in Generation, gen = g, auth, reader[g] = "wait", tx = g,
                      sock[g].open, sock[g].in = << >>, ~sock[g].lost,
                      \A s \in Sids : call[s] = None, NEW s \in wanted \ sock[g].refused
               PROVE  s \in sock[g].subs
    BY DEF WantedAtRelay
  <2>1. s \in Sids
    BY <1>1 DEF LinkInv
  <2>2. Live /\ ~Pending(s)
    BY <2>1, ClientAssumption DEF Live, Reads, Pending
  <2>3. Heard(sock[g], s)
    BY <1>1, <2>1, <2>2 DEF SettledInv, Settled
  <2>4. Len(sock[g].in) = 0
    OBVIOUS
  <2> QED
    BY <2>3, <2>4 DEF Heard
<1> QED
  BY <1>1, TypeInvInit, TypeInvStep, ChainInvInit, ChainInvStep, DeafInvInit, DeafInvStep,
     LinkInvInit, SettledStep, PTL DEF Spec

=============================================================================
