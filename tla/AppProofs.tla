------------------------------ MODULE AppProofs ------------------------------
(***************************************************************************)
(* What reaches an application and what it holds.                          *)
(*                                                                         *)
(* First the push invariants, for any number of daemons, applications,     *)
(* sockets and tasks, any limit, window and number of retries, and without *)
(* a bound on time, on faults or on what waits for the daemon.             *)
(*                                                                         *)
(* Then the pairings of an application, for any number of devices, daemons *)
(* and pairings, and any number of things the user and the daemons do.     *)
(***************************************************************************)
EXTENDS Push, AppPairings, FiniteSetTheorems, TLAPS

USE PushAssumption

---------------------------------------------------------------------------
(* What the state is made of.                                              *)
Blobs == [ver : Nat, dev : Nat, d : Daemons]
Messages == [type : {"token"}, f : Fids, blob : Blobs]
            \cup [type : {"evict", "error"}, f : Fids]
Sends == [f : Fids, blob : Blobs, event : Events, to : Daemons \cup {None}]
Rates == [count : Nat, start : Nat]
Steps == {"run", "deliver", "guard", "apns", "commit"}
Busy == [pc : Steps, f : Fids, d : Daemons, dev : Nat, event : Events,
         conn : ConnIds \cup {None}, answer : BOOLEAN, raced : BOOLEAN,
         at : Nat, tries : Nat]

(* The daemon's part, the relay's part and the service's.                  *)
DaemonType ==
    /\ tokens \in [Fids -> Blobs \cup {None}]
    /\ rows \in [Fids -> Blobs \cup {None}]
    /\ paired \in SUBSET Daemons
    /\ sends \in SUBSET Sends
    /\ inbox \in [Daemons -> Seq(Messages)]
TaskType ==
    /\ conn \in [ConnIds -> (Daemons \X Fids) \cup {None}]
    /\ task \in [Tasks -> Busy \cup {Idle}]
ServiceType ==
    /\ device \in [Fids -> Nat]
    /\ key \in Nat /\ configured \in BOOLEAN /\ now \in Nat /\ faults \in Nat
    /\ dedup \in [Fids \X Events -> Nat \cup {None}]
    /\ rate \in [Daemons \X Fids -> Rates \cup {None}]
TypeOK == DaemonType /\ TaskType /\ ServiceType

(* A task that delivers has a socket to deliver to.                        *)
DeliversToSocket == \A t \in Tasks : task[t].pc = "deliver" => task[t].conn \in ConnIds

LEMMA InitType == Init => TypeOK
<1> SUFFICES ASSUME Init PROVE TypeOK
  OBVIOUS
<1>1. \A v \in 0 .. 3, d \in Daemons : Blob(v, 1, d) \in Blobs
  BY DEF Blob, Blobs
<1>2. rows \in [Fids -> Blobs \cup {None}]
  BY <1>1 DEF Init
<1>3. DaemonType
  BY <1>2 DEF Init, DaemonType
<1>4. TaskType
  BY DEF Init, TaskType, Idle
<1>5. ServiceType
  BY DEF Init, ServiceType
<1> QED
  BY <1>3, <1>4, <1>5 DEF TypeOK

(* The history of a task's record may change, it stays one.                *)
LEMMA BusyMarked ==
    ASSUME NEW b \in Busy
    PROVE  [b EXCEPT !.raced = TRUE] \in Busy /\ [b EXCEPT !.answer = FALSE] \in Busy
BY DEF Busy

(* A step of the service's tables, devices and counters.                   *)
LEMMA ServiceTypeStep ==
    ASSUME TypeOK, [Next]_vars
    PROVE  ServiceType'
<1> USE DEF TypeOK, ServiceType, Rates
<1>1. ASSUME NEW t \in Tasks, RateNow(t) \in Rates \cup {None},
             rate' = [rate EXCEPT ![RateKey(t)] = RateNow(t)]
      PROVE  rate' \in [Daemons \X Fids -> Rates \cup {None}]
  BY <1>1
<1>2. ASSUME NEW t \in Tasks, <<task[t].d, task[t].f>> \in Daemons \X Fids
      PROVE  RateNow(t) \in Rates \cup {None}
  BY <1>2 DEF RateNow, RateKey
<1>3. ASSUME NEW t \in Tasks, task[t].pc # "idle"
      PROVE  task[t] \in Busy
  BY <1>3 DEF TaskType, Idle
<1>4. ASSUME NEW t \in Tasks, GuardLimits(t) \/ GuardPasses(t)
      PROVE  ServiceType'
  <2>1. task[t] \in Busy
    BY <1>3, <1>4 DEF GuardLimits, GuardPasses
  <2>2. <<task[t].d, task[t].f>> \in Daemons \X Fids
    BY <2>1 DEF Busy
  <2> QED
    BY <1>1, <1>2, <1>4, <2>2 DEF GuardLimits, GuardPasses, appVars, worldVars
<1>5. ASSUME NEW t \in Tasks, Commits(t)
      PROVE  ServiceType'
  <2>1. task[t] \in Busy
    BY <1>3, <1>5 DEF Commits
  <2>2. RateKey(t) \in Daemons \X Fids /\ DedupKey(t) \in Fids \X Events /\ task[t].at \in Nat
    BY <2>1 DEF Busy, RateKey, DedupKey
  <2> QED
    BY <1>5, <2>2 DEF Commits, appVars, worldVars
<1>6. CASE RunCleanup
  BY <1>6 DEF RunCleanup, appVars, worldVars
<1>7. CASE RelayRestarts
  <2>1. /\ UNCHANGED <<device, now>> /\ key' \in Nat /\ configured' \in BOOLEAN /\ faults' \in Nat
    BY <1>7 DEF RelayRestarts
  <2>2. /\ dedup' = [x \in Fids \X Events |-> None]
        /\ rate' = [x \in Daemons \X Fids |-> None]
    BY <1>7 DEF RelayRestarts
  <2> QED
    BY <2>1, <2>2
<1>8. CASE DaemonRestarts \/ Tick
  <2>1. UNCHANGED <<device, dedup, rate, key, configured>> /\ now' \in Nat /\ faults' \in Nat
    BY <1>8 DEF DaemonRestarts, Tick, appVars, serviceVars
  <2> QED
    BY <2>1
<1>9. ASSUME NEW f \in Fids, DeviceChanges(f)
      PROVE  ServiceType'
  BY <1>9 DEF DeviceChanges, serviceVars
<1>10. ASSUME NEW d \in Daemons, DaemonReads(d) \/ Unpair(d)
       PROVE  ServiceType'
  <2>1. UNCHANGED <<device, serviceVars, key, configured, now>>
    BY <1>10 DEF DaemonReads, Unpair, appVars
  <2>2. CASE Unpair(d)
    BY <2>1, <2>2 DEF Unpair, serviceVars
  <2>3. CASE DaemonReads(d)
    <3>1. BuildEvents(Head(inbox[d]))
      BY <2>3 DEF DaemonReads
    <3>2. faults' \in {faults, faults + 1}
      BY <3>1 DEF BuildEvents, RegisterSealedToken, SavePushToken, Evict, DeletePushToken, Stores
    <3> QED
      BY <2>1, <3>2 DEF serviceVars
  <2> QED
    BY <1>10, <2>2, <2>3
<1>11. ASSUME NEW k \in ConnIds, AppLeaves(k) \/ \E d \in Daemons, f \in Fids : AppConnects(k, d, f)
       PROVE  ServiceType'
  <2>1. UNCHANGED <<device, serviceVars, worldVars>>
    BY <1>11 DEF AppLeaves, AppConnects
  <2> QED
    BY <2>1 DEF serviceVars, worldVars
<1>12. ASSUME NEW e \in Events, OnRecord(e)
       PROVE  ServiceType'
  <2>1. UNCHANGED <<device, serviceVars, worldVars>>
    BY <1>12 DEF OnRecord, appVars
  <2> QED
    BY <2>1 DEF serviceVars, worldVars
<1>13. ASSUME NEW p \in sends, \/ DispatchPush(p) \/ RelayThrottles(p) \/ RelayCannotUnseal(p)
                               \/ \E t \in Tasks : RelayTakes(p, t)
       PROVE  ServiceType'
  <2>1. UNCHANGED <<device, serviceVars, worldVars>>
    BY <1>13 DEF DispatchPush, RelayThrottles, RelayCannotUnseal, RelayTakes, appVars
  <2> QED
    BY <2>1 DEF serviceVars, worldVars
<1>14. ASSUME NEW t \in Tasks, TaskStep(t)
       PROVE  ServiceType'
  <2>1. CASE GuardLimits(t) \/ GuardPasses(t) \/ Commits(t)
    BY <1>4, <1>5, <2>1
  <2>2. CASE ~(GuardLimits(t) \/ GuardPasses(t) \/ Commits(t))
    <3>1. UNCHANGED <<device, serviceVars, key, configured, now>> /\ faults' \in Nat
      BY <1>14, <2>2 DEF TaskStep, TaskRuns, Delivers, GuardDedups, ApnsAccepts, ApnsDead,
                         ApnsRetries, ApnsFails, appVars, worldVars
    <3> QED
      BY <3>1 DEF serviceVars
  <2> QED
    BY <2>1, <2>2
<1>15. CASE UNCHANGED vars
  BY <1>15 DEF vars
<1> QED
  BY <1>6, <1>7, <1>8, <1>9, <1>10, <1>11, <1>12, <1>13, <1>14, <1>15 DEF Next

(* A task that has been spawned is a record of a push.                     *)
LEMMA BusyTask ==
    ASSUME TypeOK, NEW t \in Tasks, task[t].pc # "idle"
    PROVE  task[t] \in Busy
BY DEF TypeOK, TaskType, Idle

(* A step of the sockets and the relay's tasks.                            *)
LEMMA TaskTypeStep ==
    ASSUME TypeOK, [Next]_vars
    PROVE  TaskType'
<1> USE DEF TypeOK, TaskType
<1>1. ASSUME NEW k \in ConnIds, AppLeaves(k)
      PROVE  TaskType'
  <2>1. ASSUME NEW t \in Tasks, task[t].pc = "deliver"
        PROVE  [task[t] EXCEPT !.raced = TRUE] \in Busy
    BY <2>1, BusyTask, BusyMarked
  <2>2. conn' \in [ConnIds -> (Daemons \X Fids) \cup {None}]
    BY <1>1 DEF AppLeaves
  <2>3. task' \in [Tasks -> Busy \cup {Idle}]
    BY <1>1, <2>1 DEF AppLeaves
  <2> QED
    BY <2>2, <2>3
<1>2. ASSUME NEW k \in ConnIds, NEW d \in Daemons, NEW f \in Fids, AppConnects(k, d, f)
      PROVE  TaskType'
  BY <1>2 DEF AppConnects
<1>3. ASSUME NEW p \in sends, NEW t \in Tasks, RelayTakes(p, t)
      PROVE  TaskType'
  <2> DEFINE sample == IF ConnsOf(p.to, p.f) = {} THEN None
                       ELSE CHOOSE k \in ConnsOf(p.to, p.f) : TRUE
  <2>1. sample \in ConnIds \cup {None}
    BY DEF ConnsOf
  <2>2. p \in Sends /\ p.to \in Daemons
    BY <1>3 DEF DaemonType, RelayTakes, Sends
  <2>3. p.f \in Fids /\ p.event \in Events /\ p.blob.dev \in Nat
    BY <2>2 DEF Sends, Blobs
  <2> HIDE DEF sample
  <2>4. [pc |-> "run", f |-> p.f, d |-> p.to, dev |-> p.blob.dev, event |-> p.event,
         conn |-> sample, answer |-> TRUE, raced |-> FALSE, at |-> 0, tries |-> 0] \in Busy
    BY <2>1, <2>2, <2>3 DEF Busy, Steps
  <2> QED
    BY <1>3, <2>4 DEF RelayTakes, sample, appVars
<1>4. ASSUME NEW t \in Tasks, TaskStep(t)
      PROVE  TaskType'
  <2>1. task[t] \in Busy /\ conn' = conn
    BY <1>4, BusyTask DEF TaskStep, TaskRuns, Delivers, GuardDedups, GuardLimits, GuardPasses,
                          ApnsAccepts, ApnsDead, ApnsRetries, ApnsFails, Commits, appVars
  <2>2. CASE TaskRuns(t)
    BY <2>1, <2>2 DEF TaskRuns, Busy, Steps
  <2>3. CASE GuardPasses(t)
    <3>1. now \in Nat
      BY DEF ServiceType
    <3>2. task' = [task EXCEPT ![t] = [task[t] EXCEPT !.pc = "apns", !.at = now]]
      BY <2>3 DEF GuardPasses
    <3> QED
      BY <2>1, <3>1, <3>2 DEF Busy, Steps
  <2>4. CASE ApnsAccepts(t)
    BY <2>1, <2>4 DEF ApnsAccepts, Busy, Steps
  <2>5. CASE ApnsRetries(t)
    <3>1. task[t].tries \in Nat
      BY <2>1 DEF Busy
    <3>2. (task[t].tries + 1) % (MaxRetries + 1) \in Nat
      BY <3>1
    <3> QED
      BY <2>1, <2>5, <3>2 DEF ApnsRetries, Busy, Steps
  <2>6. CASE \/ Delivers(t) \/ GuardDedups(t) \/ GuardLimits(t) \/ ApnsDead(t)
             \/ ApnsFails(t) \/ Commits(t)
    BY <2>1, <2>6 DEF Delivers, GuardDedups, GuardLimits, ApnsDead, ApnsFails, Commits
  <2> QED
    BY <1>4, <2>2, <2>3, <2>4, <2>5, <2>6 DEF TaskStep
<1>5. CASE DaemonRestarts
  <2>1. ASSUME NEW t \in Tasks, task[t].pc # "idle"
        PROVE  [task[t] EXCEPT !.answer = FALSE] \in Busy
    BY <2>1, BusyTask, BusyMarked
  <2>2. task' \in [Tasks -> Busy \cup {Idle}]
    BY <1>5, <2>1 DEF DaemonRestarts
  <2> QED
    BY <1>5, <2>2 DEF DaemonRestarts, appVars
<1>6. CASE RelayRestarts
  BY <1>6 DEF RelayRestarts
<1>7. CASE RunCleanup \/ Tick
  BY <1>7 DEF RunCleanup, Tick, appVars
<1>8. ASSUME NEW f \in Fids, DeviceChanges(f)
      PROVE  TaskType'
  BY <1>8 DEF DeviceChanges
<1>9. ASSUME NEW d \in Daemons, DaemonReads(d) \/ Unpair(d)
      PROVE  TaskType'
  BY <1>9 DEF DaemonReads, Unpair, appVars
<1>10. ASSUME NEW e \in Events, OnRecord(e)
       PROVE  TaskType'
  BY <1>10 DEF OnRecord, appVars
<1>11. ASSUME NEW p \in sends, DispatchPush(p) \/ RelayThrottles(p) \/ RelayCannotUnseal(p)
       PROVE  TaskType'
  BY <1>11 DEF DispatchPush, RelayThrottles, RelayCannotUnseal, appVars
<1>12. CASE UNCHANGED vars
  BY <1>12 DEF vars
<1> QED
  BY <1>1, <1>2, <1>3, <1>4, <1>5, <1>6, <1>7, <1>8, <1>9, <1>10, <1>11, <1>12 DEF Next

(* Messages for the daemon, sealed tokens and pushes on the way.           *)
LEMMA SayType ==
    ASSUME TypeOK, NEW d \in Daemons, NEW f \in Fids, NEW type \in {"evict", "error"}, Say(d, type, f)
    PROVE  inbox' \in [Daemons -> Seq(Messages)]
<1>1. [type |-> type, f |-> f] \in Messages
  BY DEF Messages
<1> QED
  BY <1>1 DEF Say, TypeOK, DaemonType

LEMMA RegisteredType ==
    ASSUME TypeOK, NEW f \in Fids, NEW dev \in Nat, NEW ds
    PROVE  Registered(inbox, f, dev, ds) \in [Daemons -> Seq(Messages)]
<1>1. ASSUME NEW d \in Daemons
      PROVE  [type |-> "token", f |-> f, blob |-> Blob(key, dev, d)] \in Messages
  BY DEF Messages, Blob, Blobs, TypeOK, ServiceType
<1> QED
  BY <1>1 DEF Registered, TypeOK, DaemonType

LEMMA DaemonTypeStep ==
    ASSUME TypeOK, [Next]_vars
    PROVE  DaemonType'
<1> USE DEF TypeOK, DaemonType
<1>1. ASSUME NEW k \in ConnIds, NEW d \in Daemons, NEW f \in Fids, AppConnects(k, d, f)
      PROVE  DaemonType'
  <2>1. device[f] \in Nat
    BY DEF ServiceType
  <2> QED
    BY <1>1, <2>1, RegisteredType DEF AppConnects, daemonVars
<1>2. ASSUME NEW f \in Fids, DeviceChanges(f)
      PROVE  DaemonType'
  <2>1. device[f] + 1 \in Nat
    BY DEF ServiceType
  <2>2. inbox' \in [Daemons -> Seq(Messages)]
    BY <1>2, <2>1, RegisteredType DEF DeviceChanges
  <2> QED
    BY <1>2, <2>2 DEF DeviceChanges, daemonVars
<1>3. ASSUME NEW d \in Daemons, DaemonReads(d)
      PROVE  DaemonType'
  <2>1. Head(inbox[d]) \in Messages /\ inbox' \in [Daemons -> Seq(Messages)]
    BY <1>3 DEF DaemonReads
  <2>2. tokens' \in [Fids -> Blobs \cup {None}] /\ rows' \in [Fids -> Blobs \cup {None}]
    <3> DEFINE m == Head(inbox[d])
    <3>1. BuildEvents(m)
      BY <1>3 DEF DaemonReads
    <3>2. m.f \in Fids /\ (m.type = "token" => m.blob \in Blobs)
      BY <2>1 DEF Messages
    <3> HIDE DEF m
    <3>3. CASE m.type = "token"
      BY <3>1, <3>2, <3>3 DEF BuildEvents, RegisterSealedToken, SavePushToken, Stores
    <3>4. CASE m.type = "evict"
      BY <3>1, <3>2, <3>4 DEF BuildEvents, Evict, DeletePushToken, Stores
    <3>5. CASE m.type \notin {"token", "evict"}
      BY <3>1, <3>5 DEF BuildEvents
    <3> QED
      BY <3>3, <3>4, <3>5
  <2> QED
    BY <1>3, <2>1, <2>2 DEF DaemonReads
<1>4. ASSUME NEW d \in Daemons, Unpair(d)
      PROVE  DaemonType'
  BY <1>4 DEF Unpair, DeletePushTokensForDaemon, Blobs
<1>5. ASSUME NEW e \in Events, OnRecord(e)
      PROVE  DaemonType'
  <2>1. ASSUME NEW f \in {x \in Fids : tokens[x] # None}
        PROVE  [f |-> f, blob |-> tokens[f], event |-> e, to |-> None] \in Sends
    BY DEF Sends
  <2> QED
    BY <1>5, <2>1 DEF OnRecord, daemonVars
<1>6. ASSUME NEW p \in sends, DispatchPush(p)
      PROVE  DaemonType'
  <2>1. PICK authenticated \in SUBSET (IF p.blob.d \in paired THEN {p.blob.d} ELSE paired) :
            sends' = (sends \ {p}) \cup {[p EXCEPT !.to = d] : d \in authenticated}
    BY <1>6 DEF DispatchPush, SendPush
  <2>2. authenticated \in SUBSET Daemons
    BY <2>1
  <2>3. ASSUME NEW d \in authenticated
        PROVE  [p EXCEPT !.to = d] \in Sends
    <3>1. p \in Sends /\ d \in Daemons \cup {None}
      BY <2>2
    <3> QED
      BY <3>1 DEF Sends
  <2>4. sends' \in SUBSET Sends
    BY <2>1, <2>3
  <2> QED
    BY <1>6, <2>4 DEF DispatchPush, daemonVars
<1>7. ASSUME NEW p \in sends, RelayThrottles(p) \/ \E t \in Tasks : RelayTakes(p, t)
      PROVE  DaemonType'
  BY <1>7 DEF RelayThrottles, RelayTakes, daemonVars
<1>8. ASSUME NEW p \in sends, RelayCannotUnseal(p)
      PROVE  DaemonType'
  <2>1. p.to \in Daemons /\ p.f \in Fids
    BY <1>8 DEF RelayCannotUnseal, Sends
  <2>2. inbox' \in [Daemons -> Seq(Messages)]
    BY <1>8, <2>1, SayType DEF RelayCannotUnseal
  <2> QED
    BY <1>8, <2>2 DEF RelayCannotUnseal, daemonVars
<1>9. ASSUME NEW t \in Tasks, GuardLimits(t) \/ ApnsDead(t) \/ ApnsFails(t)
      PROVE  DaemonType'
  <2>1. task[t] \in Busy
    BY <1>9, BusyTask DEF GuardLimits, ApnsDead, ApnsFails
  <2>2. task[t].d \in Daemons /\ task[t].f \in Fids
    BY <2>1 DEF Busy
  <2>3. inbox' \in [Daemons -> Seq(Messages)]
    BY <1>9, <2>2, SayType DEF GuardLimits, ApnsDead, ApnsFails, Answer
  <2> QED
    BY <1>9, <2>3 DEF GuardLimits, ApnsDead, ApnsFails, daemonVars
<1>10. ASSUME NEW t \in Tasks, TaskStep(t)
       PROVE  DaemonType'
  BY <1>9, <1>10 DEF TaskStep, TaskRuns, Delivers, GuardDedups, GuardPasses, ApnsAccepts,
                     ApnsRetries, Commits, daemonVars
<1>11. CASE DaemonRestarts
  BY <1>11 DEF DaemonRestarts, LoadPushTokens
<1>12. CASE RelayRestarts
  BY <1>12 DEF RelayRestarts, daemonVars
<1>13. CASE RunCleanup \/ Tick
  BY <1>13 DEF RunCleanup, Tick, daemonVars
<1>14. ASSUME NEW k \in ConnIds, AppLeaves(k)
       PROVE  DaemonType'
  BY <1>14 DEF AppLeaves, daemonVars
<1>15. CASE UNCHANGED vars
  BY <1>15 DEF vars
<1> QED
  BY <1>1, <1>2, <1>3, <1>4, <1>5, <1>6, <1>7, <1>8, <1>10, <1>11, <1>12, <1>13, <1>14, <1>15
  DEF Next

(* Every variable keeps its type: what the daemon stores, what the relay's *)
(* tasks carry and what the push service counts (notifier.rs, conn.rs,     *)
(* push.rs).                                                               *)
THEOREM PushTypeCorrect == Spec => []TypeOK
<1>1. TypeOK /\ [Next]_vars => TypeOK'
  BY DaemonTypeStep, TaskTypeStep, ServiceTypeStep DEF TypeOK
<1> QED
  BY <1>1, InitType, PTL DEF Spec

---------------------------------------------------------------------------
(* A row that is stored is the blob in use, but for the applications whose *)
(* last call of the store failed: registration and eviction write memory   *)
(* and store together, an unpairing only removes rows, and a restart loads *)
(* what is left (PushNotifier, StorePushNotifierDeps).                     *)
THEOREM StoredTokensAreLoaded == Spec => []RowsAreLoaded
<1>1. Init => RowsAreLoaded
  BY DEF Init, RowsAreLoaded
<1>2. TypeOK /\ RowsAreLoaded /\ [Next]_vars => RowsAreLoaded'
  <2> SUFFICES ASSUME TypeOK, RowsAreLoaded, [Next]_vars PROVE RowsAreLoaded'
    OBVIOUS
  <2> USE DEF RowsAreLoaded, TypeOK, DaemonType
  <2>1. ASSUME NEW d \in Daemons, DaemonReads(d)
        PROVE  RowsAreLoaded'
    <3> DEFINE m == Head(inbox[d])
    <3>1. BuildEvents(m) /\ m \in Messages
      BY <2>1 DEF DaemonReads
    <3>2. m.f \in Fids
      BY <3>1 DEF Messages
    <3> HIDE DEF m
    <3>3. CASE m.type = "token"
      BY <3>1, <3>2, <3>3 DEF BuildEvents, RegisterSealedToken, SavePushToken, Stores
    <3>4. CASE m.type = "evict"
      BY <3>1, <3>2, <3>4 DEF BuildEvents, Evict, DeletePushToken, Stores
    <3>5. CASE m.type \notin {"token", "evict"}
      BY <3>1, <3>5 DEF BuildEvents
    <3> QED
      BY <3>3, <3>4, <3>5
  <2>2. ASSUME NEW d \in Daemons, Unpair(d)
        PROVE  RowsAreLoaded'
    BY <2>2 DEF Unpair, DeletePushTokensForDaemon
  <2>3. CASE DaemonRestarts
    BY <2>3 DEF DaemonRestarts, LoadPushTokens
  <2>4. CASE UNCHANGED <<tokens, rows, slipped>>
    BY <2>4
  <2>5. ASSUME NEW t \in Tasks, TaskStep(t)
        PROVE  UNCHANGED <<tokens, rows, slipped>>
    BY <2>5 DEF TaskStep, TaskRuns, Delivers, GuardDedups, GuardLimits, GuardPasses, ApnsAccepts,
                ApnsDead, ApnsRetries, ApnsFails, Commits, daemonVars
  <2>6. ASSUME NEW p \in sends, \/ DispatchPush(p) \/ RelayThrottles(p) \/ RelayCannotUnseal(p)
                                \/ \E t \in Tasks : RelayTakes(p, t)
        PROVE  UNCHANGED <<tokens, rows, slipped>>
    BY <2>6 DEF DispatchPush, RelayThrottles, RelayCannotUnseal, RelayTakes, daemonVars
  <2>7. ASSUME \/ \E k \in ConnIds : AppLeaves(k) \/ \E d \in Daemons, f \in Fids : AppConnects(k, d, f)
               \/ \E f \in Fids : DeviceChanges(f)
               \/ \E e \in Events : OnRecord(e)
               \/ RunCleanup \/ Tick \/ RelayRestarts
               \/ UNCHANGED vars
        PROVE  UNCHANGED <<tokens, rows, slipped>>
    BY <2>7 DEF AppLeaves, AppConnects, DeviceChanges, OnRecord, RunCleanup, Tick, RelayRestarts,
                daemonVars, vars
  <2> QED
    BY <2>1, <2>2, <2>3, <2>4, <2>5, <2>6, <2>7 DEF Next
<1> QED
  BY <1>1, <1>2, PushTypeCorrect, PTL DEF Spec

---------------------------------------------------------------------------
(* What a closed socket means for a task that delivers.                    *)
LEMMA FallBackStep ==
    ASSUME TypeOK, DeliversToSocket, ClosedSocketFallsBack, [Next]_vars
    PROVE  (DeliversToSocket /\ ClosedSocketFallsBack)'
<1> USE DEF DeliversToSocket, ClosedSocketFallsBack, TypeOK, TaskType
<1> DEFINE OK(t) == task[t].pc = "deliver" =>
                        task[t].conn \in ConnIds /\ (conn[task[t].conn] = None => task[t].raced)
<1>0. \A t \in Tasks : OK(t)
  OBVIOUS
<1> SUFFICES ASSUME NEW u \in Tasks PROVE OK(u)'
  OBVIOUS
<1>1. CASE task'[u] = task[u] /\ conn' = conn
  BY <1>0, <1>1
<1>2. CASE task'[u] = Idle
  BY <1>2 DEF Idle
<1>3. ASSUME NEW k \in ConnIds, AppLeaves(k)
      PROVE  OK(u)'
  <2>1. CASE task[u].pc = "deliver" /\ task[u].conn = k
    <3>1. task[u] \in Busy
      BY <2>1, BusyTask
    <3>2. task'[u] = [task[u] EXCEPT !.raced = TRUE]
      BY <1>3, <2>1 DEF AppLeaves
    <3>3. task'[u].raced = TRUE /\ task'[u].conn = k
      BY <2>1, <3>1, <3>2 DEF Busy
    <3> QED
      BY <3>3
  <2>2. CASE ~(task[u].pc = "deliver" /\ task[u].conn = k)
    BY <1>0, <1>3, <2>2 DEF AppLeaves
  <2> QED
    BY <2>1, <2>2
<1>4. ASSUME NEW k \in ConnIds, NEW d \in Daemons, NEW f \in Fids, AppConnects(k, d, f)
      PROVE  OK(u)'
  <2>1. <<d, f>> # None
    OBVIOUS
  <2> QED
    BY <1>0, <1>4, <2>1 DEF AppConnects
<1>5. ASSUME NEW p \in sends, NEW t \in Tasks, RelayTakes(p, t)
      PROVE  OK(u)'
  <2>1. CASE u = t /\ configured
    BY <1>5, <2>1 DEF RelayTakes
  <2>2. CASE u # t \/ ~configured
    BY <1>1, <1>5, <2>2 DEF RelayTakes, appVars
  <2> QED
    BY <2>1, <2>2
<1>6. ASSUME NEW t \in Tasks, TaskStep(t)
      PROVE  OK(u)'
  <2>1. task[t] \in Busy /\ conn' = conn
    BY <1>6, BusyTask DEF TaskStep, TaskRuns, Delivers, GuardDedups, GuardLimits, GuardPasses,
                          ApnsAccepts, ApnsDead, ApnsRetries, ApnsFails, Commits, appVars
  <2>2. CASE u # t
    <3>1. task'[u] = task[u]
      BY <1>6, <2>2 DEF TaskStep, TaskRuns, Delivers, GuardDedups, GuardLimits, GuardPasses,
                        ApnsAccepts, ApnsDead, ApnsRetries, ApnsFails, Commits
    <3> QED
      BY <1>1, <2>1, <3>1
  <2>3. CASE u = t /\ TaskRuns(t)
    <3>1. CASE FrontendConnLive(t)
      <4>1. task'[t] = [task[t] EXCEPT !.pc = "deliver"]
        BY <2>3, <3>1 DEF TaskRuns
      <4>2. task'[t].conn = task[t].conn /\ task[t].conn \in ConnIds
        BY <2>1, <3>1, <4>1 DEF Busy, FrontendConnLive
      <4>3. conn[task[t].conn] # None
        <5>1. <<task[t].d, task[t].f>> \in Daemons \X Fids
          BY <2>1 DEF Busy
        <5> QED
          BY <3>1, <5>1 DEF FrontendConnLive
      <4> QED
        BY <2>1, <2>3, <4>2, <4>3
    <3>2. CASE ~FrontendConnLive(t)
      <4>1. task'[t] = [task[t] EXCEPT !.pc = "guard"]
        BY <2>3, <3>2 DEF TaskRuns
      <4>2. task'[t].pc = "guard"
        BY <2>1, <4>1 DEF Busy
      <4> QED
        BY <2>3, <4>2
    <3> QED
      BY <3>1, <3>2
  <2>4. CASE u = t /\ (GuardPasses(t) \/ ApnsAccepts(t) \/ ApnsRetries(t))
    <3>1. task'[t].pc \in {"apns", "commit"}
      BY <2>1, <2>4 DEF GuardPasses, ApnsAccepts, ApnsRetries, Busy
    <3> QED
      BY <2>4, <3>1
  <2>5. CASE u = t /\ (\/ Delivers(t) \/ GuardDedups(t) \/ GuardLimits(t) \/ ApnsDead(t)
                       \/ ApnsFails(t) \/ Commits(t))
    BY <1>2, <2>5 DEF Delivers, GuardDedups, GuardLimits, ApnsDead, ApnsFails, Commits
  <2> QED
    BY <1>6, <2>2, <2>3, <2>4, <2>5 DEF TaskStep
<1>7. CASE DaemonRestarts
  <2>1. CASE task[u].pc = "idle"
    BY <1>2, <1>7, <2>1 DEF DaemonRestarts
  <2>2. CASE task[u].pc # "idle"
    <3>1. task[u] \in Busy
      BY <2>2, BusyTask
    <3>2. task'[u] = [task[u] EXCEPT !.answer = FALSE] /\ conn' = conn
      BY <1>7, <2>2 DEF DaemonRestarts, appVars
    <3>3. task'[u].pc = task[u].pc /\ task'[u].conn = task[u].conn /\ task'[u].raced = task[u].raced
      BY <3>1, <3>2 DEF Busy
    <3> QED
      BY <1>0, <3>2, <3>3
  <2> QED
    BY <2>1, <2>2
<1>8. CASE RelayRestarts
  BY <1>2, <1>8 DEF RelayRestarts
<1>9. ASSUME \/ \E f \in Fids : DeviceChanges(f)
             \/ \E d \in Daemons : DaemonReads(d) \/ Unpair(d)
             \/ \E e \in Events : OnRecord(e)
             \/ \E p \in sends : DispatchPush(p) \/ RelayThrottles(p) \/ RelayCannotUnseal(p)
             \/ RunCleanup \/ Tick \/ UNCHANGED vars
      PROVE  OK(u)'
  BY <1>1, <1>9 DEF DeviceChanges, DaemonReads, Unpair, OnRecord, DispatchPush, RelayThrottles,
                    RelayCannotUnseal, RunCleanup, Tick, appVars, vars
<1> QED
  BY <1>3, <1>4, <1>5, <1>6, <1>7, <1>8, <1>9 DEF Next

(* A task writes to a closed socket only when the socket closed after the  *)
(* task had found it open (finish_push_send, frontend_conn_live).          *)
THEOREM ClosedSocketsFallBack == Spec => []ClosedSocketFallsBack
<1>1. Init => DeliversToSocket /\ ClosedSocketFallsBack
  BY DEF Init, DeliversToSocket, ClosedSocketFallsBack, Idle
<1> QED
  BY <1>1, FallBackStep, PushTypeCorrect, PTL DEF Spec

---------------------------------------------------------------------------
(* Counting the tasks between the guard and the commit.                    *)
LEMMA InFlightFinite ==
    ASSUME NEW x
    PROVE  /\ IsFiniteSet(InFlight(x)) /\ InFlight(x) \subseteq Tasks
           /\ Cardinality(InFlight(x)) \in Nat /\ Cardinality(Tasks) \in Nat
           /\ Cardinality(InFlight(x)) <= Cardinality(Tasks)
<1>1. InFlight(x) \subseteq Tasks
  BY DEF InFlight
<1> QED
  BY <1>1, FS_Subset, FS_CardinalityType

(* A step that lets no task past the guard, and loses none that counts.    *)
LEMMA FewerInFlight ==
    ASSUME NEW x, InFlight(x)' \subseteq InFlight(x)
    PROVE  Cardinality(InFlight(x)') <= Cardinality(InFlight(x))
BY InFlightFinite, FS_Subset

Pushes(x) == rate[x] # None => rate[x].count + Cardinality(InFlight(x)) < Limit + Cardinality(Tasks)

(* The tasks in flight do not grow, and the entry is kept or dropped.      *)
LEMMA QuietPushes ==
    ASSUME TypeOK, NEW x \in Daemons \X Fids, Pushes(x),
           rate'[x] = rate[x] \/ rate'[x] = None, InFlight(x)' \subseteq InFlight(x)
    PROVE  Pushes(x)'
<1> SUFFICES ASSUME rate'[x] = rate[x], rate[x] # None
             PROVE  rate[x].count + Cardinality(InFlight(x)') < Limit + Cardinality(Tasks)
  BY DEF Pushes
<1>1. rate[x].count \in Nat
  BY DEF TypeOK, ServiceType, Rates
<1>2. /\ Cardinality(InFlight(x)') <= Cardinality(InFlight(x))
      /\ Cardinality(InFlight(x)') \in Nat /\ Cardinality(InFlight(x)) \in Nat
      /\ Cardinality(Tasks) \in Nat
  <2>1. IsFiniteSet(InFlight(x)')
    BY InFlightFinite, FS_Subset
  <2> QED
    BY <2>1, FewerInFlight, InFlightFinite, FS_CardinalityType
<1> QED
  BY <1>1, <1>2 DEF Pushes

LEMMA OvershootStep ==
    ASSUME TypeOK, OvershootBounded, [Next]_vars
    PROVE  OvershootBounded'
<1>0. ASSUME NEW x \in Daemons \X Fids PROVE Pushes(x)
  BY DEF OvershootBounded, Pushes
<1> SUFFICES ASSUME NEW x \in Daemons \X Fids PROVE Pushes(x)'
  BY DEF OvershootBounded, Pushes
<1>1. CASE rate' = rate /\ \A t \in Tasks : task'[t] = task[t] \/ task'[t].pc \notin {"apns", "commit"}
  <2>1. InFlight(x)' \subseteq InFlight(x)
    BY <1>1 DEF InFlight, RateKey
  <2> QED
    BY <1>0, <1>1, <2>1, QuietPushes
<1>2. ASSUME NEW t \in Tasks, GuardPasses(t)
      PROVE  Pushes(x)'
  <2>1. task[t] \in Busy
    BY <1>2, BusyTask DEF GuardPasses
  <2>2. InFlight(x)' \subseteq InFlight(x) \cup {t}
    BY <1>2, <2>1 DEF GuardPasses, InFlight, RateKey, Busy, TypeOK, TaskType
  <2>3. CASE x # RateKey(t)
    <3>1. RateKey(t)' = RateKey(t)
      BY <1>2, <2>1 DEF GuardPasses, RateKey, Busy, TypeOK, TaskType
    <3>2. InFlight(x)' \subseteq InFlight(x)
      BY <2>2, <2>3, <3>1 DEF InFlight
    <3>3. rate'[x] = rate[x]
      BY <1>2, <2>3 DEF GuardPasses, TypeOK, ServiceType
    <3> QED
      BY <1>0, <3>2, <3>3, QuietPushes
  <2>4. CASE x = RateKey(t)
    <3>1. rate'[x] = RateNow(t)
      BY <1>2, <2>4 DEF GuardPasses, TypeOK, ServiceType
    <3>2. CASE RateNow(t) = None
      BY <3>1, <3>2 DEF Pushes
    <3>3. CASE RateNow(t) # None
      <4>1. RateNow(t) \in Rates
        BY <2>4, <3>3 DEF RateNow, TypeOK, ServiceType, Rates
      <4>2. RateNow(t).count < Limit /\ RateNow(t).count \in Nat
        BY <1>2, <3>3, <4>1 DEF GuardPasses, OverLimit, Rates
      <4>3. InFlight(x)' \subseteq Tasks
        BY DEF InFlight
      <4>4. Cardinality(InFlight(x)') <= Cardinality(Tasks) /\ Cardinality(InFlight(x)') \in Nat
            /\ Cardinality(Tasks) \in Nat
        BY <4>3, FS_Subset, FS_CardinalityType
      <4> QED
        BY <3>1, <4>2, <4>4 DEF Pushes
    <3> QED
      BY <3>2, <3>3
  <2> QED
    BY <2>3, <2>4
<1>3. ASSUME NEW t \in Tasks, GuardLimits(t)
      PROVE  Pushes(x)'
  <2>1. InFlight(x)' \subseteq InFlight(x) /\ t \notin InFlight(x)
    BY <1>3 DEF GuardLimits, InFlight, RateKey, Idle, TypeOK, TaskType
  <2>2. CASE rate'[x] = rate[x]
    BY <1>0, <2>1, <2>2, QuietPushes
  <2>3. CASE rate'[x] # rate[x]
    <3>1. x = RateKey(t) /\ rate'[x] = [count |-> 0, start |-> now]
      BY <1>3, <2>3 DEF GuardLimits, RateNow, TypeOK, ServiceType
    <3>2. InFlight(x)' \subseteq Tasks
      BY DEF InFlight
    <3>3. Cardinality(InFlight(x)') <= Cardinality(Tasks) /\ Cardinality(InFlight(x)') \in Nat
          /\ Cardinality(Tasks) \in Nat
      BY <3>2, FS_Subset, FS_CardinalityType
    <3> QED
      BY <3>1, <3>3 DEF Pushes
  <2> QED
    BY <2>2, <2>3
<1>4. ASSUME NEW t \in Tasks, Commits(t)
      PROVE  Pushes(x)'
  <2>1. InFlight(x)' = InFlight(x) \ {t}
    BY <1>4 DEF Commits, InFlight, RateKey, Idle, TypeOK, TaskType
  <2>2. CASE x # RateKey(t)
    <3>1. rate'[x] = rate[x]
      BY <1>4, <2>2 DEF Commits, TypeOK, ServiceType
    <3> QED
      BY <1>0, <2>1, <3>1, QuietPushes
  <2>3. CASE x = RateKey(t)
    <3>1. t \in InFlight(x)
      BY <1>4, <2>3 DEF Commits, InFlight
    <3>2. /\ Cardinality(InFlight(x)') = Cardinality(InFlight(x)) - 1
          /\ Cardinality(InFlight(x)) \in Nat /\ Cardinality(Tasks) \in Nat
          /\ Cardinality(InFlight(x)) <= Cardinality(Tasks)
      BY <2>1, <3>1, InFlightFinite, FS_RemoveElement
    <3>3. CASE rate[x] = None
      <4>1. rate'[x] = [count |-> 1, start |-> task[t].at]
        BY <1>4, <2>3, <3>3 DEF Commits, TypeOK, ServiceType
      <4> QED
        BY <3>2, <4>1 DEF Pushes
    <3>4. CASE rate[x] # None
      <4>1. rate'[x] = [count |-> rate[x].count + 1, start |-> rate[x].start] /\ rate[x].count \in Nat
        BY <1>4, <2>3, <3>4 DEF Commits, TypeOK, ServiceType, Rates
      <4> QED
        BY <1>0, <3>2, <3>4, <4>1 DEF Pushes
    <3> QED
      BY <3>3, <3>4
  <2> QED
    BY <2>2, <2>3
<1>5. ASSUME NEW t \in Tasks, ApnsAccepts(t) \/ ApnsRetries(t)
      PROVE  Pushes(x)'
  <2>1. task[t] \in Busy /\ task[t].pc = "apns"
    BY <1>5, BusyTask DEF ApnsAccepts, ApnsRetries
  <2>2. InFlight(x)' \subseteq InFlight(x) /\ rate' = rate
    BY <1>5, <2>1 DEF ApnsAccepts, ApnsRetries, InFlight, RateKey, Busy, TypeOK, TaskType, serviceVars
  <2> QED
    BY <1>0, <2>2, QuietPushes
<1>6. ASSUME NEW t \in Tasks, \/ TaskRuns(t) \/ Delivers(t) \/ GuardDedups(t) \/ ApnsDead(t)
                              \/ ApnsFails(t)
      PROVE  Pushes(x)'
  <2>1. task[t] \in Busy
    BY <1>6, BusyTask DEF TaskRuns, Delivers, GuardDedups, ApnsDead, ApnsFails
  <2> QED
    BY <1>1, <1>6, <2>1 DEF TaskRuns, Delivers, GuardDedups, ApnsDead, ApnsFails, Idle, Busy,
                            TypeOK, TaskType, serviceVars
<1>7. ASSUME NEW k \in ConnIds, AppLeaves(k)
      PROVE  Pushes(x)'
  <2>1. \A t \in Tasks : task'[t] = task[t] \/ task'[t].pc \notin {"apns", "commit"}
    <3> SUFFICES ASSUME NEW t \in Tasks, task'[t] # task[t]
                 PROVE  task'[t].pc = "deliver"
      OBVIOUS
    <3>1. task[t].pc = "deliver" /\ task'[t] = [task[t] EXCEPT !.raced = TRUE]
      BY <1>7 DEF AppLeaves
    <3>2. task[t] \in Busy
      BY <3>1, BusyTask
    <3> QED
      BY <3>1, <3>2 DEF Busy
  <2> QED
    BY <1>1, <1>7, <2>1 DEF AppLeaves, serviceVars
<1>8. CASE DaemonRestarts
  <2>1. InFlight(x)' \subseteq InFlight(x)
    <3> SUFFICES ASSUME NEW t \in InFlight(x)' PROVE t \in InFlight(x)
      OBVIOUS
    <3>1. t \in Tasks /\ task'[t].pc \in {"apns", "commit"}
      BY DEF InFlight
    <3>2. task[t].pc # "idle" /\ task'[t] = [task[t] EXCEPT !.answer = FALSE]
      BY <1>8, <3>1 DEF DaemonRestarts, Idle
    <3>3. task[t] \in Busy
      BY <3>1, <3>2, BusyTask
    <3> QED
      BY <3>1, <3>2, <3>3 DEF InFlight, RateKey, Busy
  <2> QED
    BY <1>0, <1>8, <2>1, QuietPushes DEF DaemonRestarts, serviceVars
<1>9. CASE RelayRestarts
  BY <1>9 DEF RelayRestarts, Pushes
<1>10. CASE RunCleanup
  <2>1. rate'[x] = rate[x] \/ rate'[x] = None
    BY <1>10 DEF RunCleanup
  <2>2. InFlight(x)' = InFlight(x)
    BY <1>10 DEF RunCleanup, InFlight, RateKey
  <2> QED
    BY <1>0, <2>1, <2>2, QuietPushes
<1>11. ASSUME NEW p \in sends, NEW t \in Tasks, RelayTakes(p, t)
       PROVE  Pushes(x)'
  BY <1>1, <1>11 DEF RelayTakes, serviceVars, TypeOK, TaskType
<1>12. ASSUME \/ \E k \in ConnIds, d \in Daemons, f \in Fids : AppConnects(k, d, f)
              \/ \E f \in Fids : DeviceChanges(f)
              \/ \E d \in Daemons : DaemonReads(d) \/ Unpair(d)
              \/ \E e \in Events : OnRecord(e)
              \/ \E p \in sends : DispatchPush(p) \/ RelayThrottles(p) \/ RelayCannotUnseal(p)
              \/ Tick \/ UNCHANGED vars
       PROVE  Pushes(x)'
  BY <1>1, <1>12 DEF AppConnects, DeviceChanges, DaemonReads, Unpair, OnRecord, DispatchPush,
                     RelayThrottles, RelayCannotUnseal, Tick, serviceVars, vars
<1> QED
  BY <1>2, <1>3, <1>4, <1>5, <1>6, <1>7, <1>8, <1>9, <1>10, <1>11, <1>12 DEF Next, TaskStep

(* An application gets at most the pushes in flight beyond its limit,      *)
(* whatever resets, cleanups and late commits there are                    *)
(* (PushService::send_or_deliver).                                         *)
THEOREM OvershootIsBounded == Spec => []OvershootBounded
<1>1. Init => OvershootBounded
  BY DEF Init, OvershootBounded
<1> QED
  BY <1>1, OvershootStep, PushTypeCorrect, PTL DEF Spec

---------------------------------------------------------------------------
(* The pairings of an application (AppPairings).                           *)
HIDE PushAssumption

Views == [kc : [Pids -> Nat], hid : SUBSET Pids, ptr : [Dids -> Pids \cup {0}]]

\* A pointer points at a pairing with its daemon.
PointsHome(ptr) == \A did \in Dids : ptr[did] # 0 => DidOf[ptr[did]] = did

GoodView(v) == v \in Views /\ PointsHome(v.ptr)

AppTypeInv ==
    /\ view \in [Devices -> Views]
    /\ \A d \in Devices : PointsHome(view[d].ptr)
    /\ cloud \in [Pids -> Nat]
    /\ stale \in [Devices -> SUBSET Pids]
    /\ pending \in [Devices -> SUBSET Pids]
    /\ pclients \in [Devices -> SUBSET Pids]
    /\ clients \in [Devices -> [Dids -> Pids \cup {0}]]
    /\ \A d \in Devices : PointsHome(clients[d])
    /\ ctx \in [Dids -> [pid : Pids \cup {0}, ts : Nat]]
    /\ \A did \in Dids : ctx[did].pid # 0 => DidOf[ctx[did].pid] = did
    /\ clock \in Nat
    /\ wish \in [Devices -> SUBSET Pids]
    /\ valid \in [Dids -> Pids \cup {0}] /\ PointsHome(valid)
    /\ scans \in [Pids -> Nat]

\* No blob is younger than the clock.
TimesInv ==
    /\ \A p \in Pids : cloud[p] <= clock /\ \A d \in Devices : view[d].kc[p] <= clock
    /\ \A did \in Dids : ctx[did].ts <= clock

\* What is not on its way to a device is there as it is at iCloud.
SyncInv == \A d \in Devices : \A p \in Pids \ stale[d] : view[d].kc[p] = cloud[p]

\* p was never committed.
Uncommitted(p) ==
    /\ cloud[p] = 0
    /\ \A d \in Devices : /\ view[d].kc[p] = 0
                          /\ view[d].ptr[DidOf[p]] # p
                          /\ clients[d][DidOf[p]] # p
    /\ ctx[DidOf[p]].pid # p
    /\ valid[DidOf[p]] # p

\* ... nor does any device wait for its confirmation.
Nowhere(p) == Uncommitted(p) /\ \A d \in Devices : p \notin pending[d]

\* A pairing that was scanned once waits on one device and is not committed yet.
ScanInv ==
    \A p \in Pids :
        /\ scans[p] = 0 => Nowhere(p)
        /\ \A d \in Devices : scans[p] = 1 /\ p \in pending[d] =>
              Uncommitted(p) /\ \A e \in Devices : p \in pending[e] => e = d

\* What the user hid is in the tombstones, or will never be committed.
WishInv ==
    \A d \in Handhelds : \A p \in wish[d] :
        /\ scans[p] # 0
        /\ scans[p] = 1 => p \in view[d].hid \/ Nowhere(p)

\* A device waits for a daemon's pairing only if the user has not hidden the
\* daemon since.
PendingInv ==
    \A d \in Devices :
        /\ pclients[d] \subseteq pending[d]
        /\ \A q \in pending[d] : wish[d] \cap Of(DidOf[q]) = {}

\* Neither pointers nor clients are of hidden pairings.
HidInv ==
    \A d \in Handhelds, did \in Dids :
        view[d].ptr[did] \notin view[d].hid /\ clients[d][did] \notin view[d].hid

\* p is at iCloud, and every other blob of its daemon, wherever it is, is older.
Newest(p) ==
    /\ cloud[p] # 0
    /\ \A d \in Devices : view[d].kc[p] \in {0, cloud[p]}
    /\ \A q \in Of(DidOf[p]) \ {p} :
          cloud[q] < cloud[p] /\ \A d \in Devices : view[d].kc[q] < cloud[p]
    /\ IF ctx[DidOf[p]].pid = p THEN ctx[DidOf[p]].ts = cloud[p]
       ELSE ctx[DidOf[p]].ts < cloud[p]

ValidInv == \A did \in Dids : valid[did] # 0 /\ OnceScanned(valid[did]) => Newest(valid[did])

AppInv ==
    /\ AppTypeInv
    /\ TimesInv
    /\ SyncInv
    /\ ScanInv
    /\ WishInv
    /\ PendingInv
    /\ HidInv
    /\ ValidInv

-----------------------------------------------------------------------------
(* The operators on views.                                                  *)

LEMMA OfPids == \A did : Of(did) \subseteq Pids
BY DEF Of

\* Among blobs none of which is younger than n there is a youngest.
LEMMA NewestExists ==
    ASSUME NEW v, v.kc \in [Pids -> Nat], NEW S, S \subseteq Pids, S # {},
           NEW n \in Nat, \A p \in S : v.kc[p] <= n
    PROVE  /\ NewestOf(v, S) \in S
           /\ \A q \in S : v.kc[q] <= v.kc[NewestOf(v, S)]
<1> DEFINE T == {n - v.kc[p] : p \in S}
<1>1. T \subseteq Nat /\ T # {}
    OBVIOUS
<1>2. PICK x \in T : \A y \in T : ~ (<<y, x>> \in OpToRel(<, Nat))
    <2> HIDE DEF T
    <2> QED  BY <1>1, NatLessThanWellFounded, WFMin, Zenon
<1>3. \A y \in T : ~ (y < x)
    BY <1>1, <1>2 DEF OpToRel
<1>4. PICK p \in S : x = n - v.kc[p]
    OBVIOUS
<1>5. \A q \in S : v.kc[q] <= v.kc[p]
    <2> SUFFICES ASSUME NEW q \in S PROVE v.kc[q] <= v.kc[p]
        OBVIOUS
    <2>1. n - v.kc[q] \in T
        OBVIOUS
    <2> HIDE DEF T
    <2> QED  BY <2>1, <1>3, <1>4
<1> QED  BY <1>5 DEF NewestOf

LEMMA WithoutIs ==
    ASSUME NEW kc \in [Pids -> Nat], NEW S
    PROVE  /\ Without(kc, S) \in [Pids -> Nat]
           /\ \A p \in Pids : Without(kc, S)[p] = IF p \in S THEN 0 ELSE kc[p]
BY DEF Without

LEMMA PairingIdsOf ==
    ASSUME NEW v, GoodView(v), NEW did \in Dids
    PROVE  /\ PairingIds(v, did) \subseteq Of(did)
           /\ Stored(v, did) \subseteq PairingIds(v, did)
           /\ 0 \notin PairingIds(v, did)
           /\ v.ptr[did] = 0 \/ v.ptr[did] \in PairingIds(v, did) \/ Stored(v, did) # {}
BY AppPairingsAssumption DEF PairingIds, GoodView, Views, Stored, Of, PointsHome

LEMMA ReconciledIs ==
    ASSUME NEW v, GoodView(v), NEW n \in Nat, \A p \in Pids : v.kc[p] <= n
    PROVE  /\ GoodView(Reconciled(v))
           /\ \A p \in Pids : Reconciled(v).kc[p] \in {0, v.kc[p]}
           /\ Reconciled(v).hid = v.hid
           /\ \A did \in Dids :
                 \/ Reconciled(v).ptr[did] \in {0, v.ptr[did]}
                 \/ Reconciled(v).ptr[did] \in Visible(v)
           /\ \A did \in Dids : v.ptr[did] \notin v.hid => Reconciled(v).ptr[did] \notin v.hid
           /\ \A p \in Pids :
                 v.kc[p] # 0 /\ (\A q \in Of(DidOf[p]) \ {p} : v.kc[q] < v.kc[p]) =>
                    /\ Reconciled(v).kc[p] = v.kc[p]
                    /\ p \notin v.hid => Reconciled(v).ptr[DidOf[p]] = p
<1> DEFINE R == Reconciled(v)
<1> DEFINE N(did) == NewestOf(v, Visible(v) \cap Of(did))
<1> DEFINE losers == {p \in Visible(v) : p # NewestOf(v, Visible(v) \cap Of(DidOf[p]))}
<1>0. /\ v.kc \in [Pids -> Nat] /\ v.hid \subseteq Pids /\ v.ptr \in [Dids -> Pids \cup {0}]
      /\ PointsHome(v.ptr) /\ v = [kc |-> v.kc, hid |-> v.hid, ptr |-> v.ptr]
    BY DEF GoodView, Views
<1>1. CASE Visible(v) = {}
    <2>1. R = v
        BY <1>1 DEF Reconciled
    <2>2. \A p \in Pids : v.kc[p] # 0 => p \in v.hid
        BY <1>1 DEF Visible
    <2> QED  BY <2>1, <2>2, <1>0
<1>2. CASE Visible(v) # {}
    <2>1. R = [kc |-> Without(v.kc, losers), hid |-> v.hid \ losers,
               ptr |-> [did \in Dids |-> Resolved(v, did)]]
        BY <1>2 DEF Reconciled
    <2>2. \A did \in Dids : Visible(v) \cap Of(did) # {} =>
              N(did) \in Visible(v) \cap Of(did)
              /\ \A q \in Visible(v) \cap Of(did) : v.kc[q] <= v.kc[N(did)]
        <3> TAKE did \in Dids
        <3> HAVE Visible(v) \cap Of(did) # {}
        <3> QED  BY NewestExists, <1>0, OfPids
    <2> HIDE DEF N
    <2>3. \A did \in Dids : Resolved(v, did) =
              IF Visible(v) \cap Of(did) # {} THEN N(did)
              ELSE IF v.ptr[did] \in v.hid THEN 0 ELSE v.ptr[did]
        BY DEF Resolved, N
    <2>4. losers \cap v.hid = {}
        BY DEF Visible
    <2>5. R.kc = Without(v.kc, losers) /\ R.hid = v.hid
          /\ R.ptr = [did \in Dids |-> Resolved(v, did)]
        BY <2>1, <2>4
    <2>6. \A did \in Dids : R.ptr[did] =
              IF Visible(v) \cap Of(did) # {} THEN N(did)
              ELSE IF v.ptr[did] \in v.hid THEN 0 ELSE v.ptr[did]
        BY <2>5, <2>3
    <2>7. Visible(v) \subseteq Pids /\ Visible(v) \cap v.hid = {}
        BY DEF Visible
    <2>8. R.ptr \in [Dids -> Pids \cup {0}] /\ PointsHome(R.ptr)
        <3>1. \A did \in Dids : R.ptr[did] \in Pids \cup {0} /\ (R.ptr[did] # 0 => DidOf[R.ptr[did]] = did)
            BY <2>2, <2>6, <2>7, <1>0 DEF PointsHome, Of
        <3> QED  BY <3>1, <2>5 DEF PointsHome
    <2>9. R.kc \in [Pids -> Nat] /\ \A p \in Pids : R.kc[p] = IF p \in losers THEN 0 ELSE v.kc[p]
        <3> HIDE DEF losers, R
        <3> QED  BY <2>5, <1>0, WithoutIs
    <2>10. GoodView(R)
        BY <2>1, <2>5, <2>8, <2>9, <1>0 DEF GoodView, Views
    <2>11. \A did \in Dids : R.ptr[did] \in {0, v.ptr[did]} \/ R.ptr[did] \in Visible(v)
        BY <2>2, <2>6
    <2>12. \A did \in Dids : v.ptr[did] \notin v.hid => R.ptr[did] \notin v.hid
        BY <2>2, <2>6, <2>7
    <2>13. ASSUME NEW p \in Pids, v.kc[p] # 0, \A q \in Of(DidOf[p]) \ {p} : v.kc[q] < v.kc[p]
           PROVE  R.kc[p] = v.kc[p] /\ (p \notin v.hid => R.ptr[DidOf[p]] = p)
        <3>1. CASE p \in v.hid
            BY <3>1, <2>4, <2>9
        <3>2. CASE p \notin v.hid
            <4>1. p \in Visible(v) \cap Of(DidOf[p]) /\ DidOf[p] \in Dids
                BY <2>13, <3>2, AppPairingsAssumption DEF Visible, Of
            <4>2. N(DidOf[p]) \in Of(DidOf[p]) /\ v.kc[p] <= v.kc[N(DidOf[p])] /\ N(DidOf[p]) \in Pids
                BY <4>1, <2>2, OfPids
            <4>3. N(DidOf[p]) = p
                BY <4>2, <2>13, <1>0
            <4>4. p \notin losers
                BY <4>3 DEF N
            <4> QED  BY <4>1, <4>3, <4>4, <2>6, <2>9
        <3> QED  BY <3>1, <3>2
    <2> HIDE DEF R, losers
    <2>14. \A p \in Pids : R.kc[p] \in {0, v.kc[p]}
        BY <2>9
    <2>15. \A p \in Pids :
                 v.kc[p] # 0 /\ (\A q \in Of(DidOf[p]) \ {p} : v.kc[q] < v.kc[p]) =>
                    /\ R.kc[p] = v.kc[p]
                    /\ p \notin v.hid => R.ptr[DidOf[p]] = p
        BY <2>13
    <2> QED  BY <2>5, <2>10, <2>11, <2>12, <2>14, <2>15 DEF R
<1> QED  BY <1>1, <1>2

LEMMA HideLocallyIs ==
    ASSUME NEW v, GoodView(v), NEW did \in Dids
    PROVE  /\ GoodView(HideLocally(v, did))
           /\ HideLocally(v, did).kc = v.kc
           /\ HideLocally(v, did).hid = v.hid \cup PairingIds(v, did)
           /\ HideLocally(v, did).ptr = [v.ptr EXCEPT ![did] = 0]
<1>1. PairingIds(v, did) \subseteq Pids
    BY PairingIdsOf, OfPids
<1> QED  BY <1>1 DEF HideLocally, GoodView, Views, PointsHome

LEMMA UnhideIs ==
    ASSUME NEW v, GoodView(v), NEW did \in Dids, NEW p \in Pids
    PROVE  /\ GoodView(UnhideForDaemon(v, did, p))
           /\ UnhideForDaemon(v, did, p).kc = v.kc
           /\ UnhideForDaemon(v, did, p).hid = v.hid \ {p, Legacy[did]}
           /\ UnhideForDaemon(v, did, p).ptr = v.ptr
BY DEF UnhideForDaemon, GoodView, Views, PointsHome

LEMMA RemoveDaemonIs ==
    ASSUME NEW v, GoodView(v), NEW did \in Dids
    PROVE  /\ GoodView(RemoveDaemon(v, did))
           /\ RemoveDaemon(v, did).kc = Without(v.kc, PairingIds(v, did))
           /\ RemoveDaemon(v, did).hid = v.hid \ (PairingIds(v, did) \cup {Legacy[did]})
           /\ RemoveDaemon(v, did).ptr = [v.ptr EXCEPT ![did] = 0]
<1>1. Without(v.kc, PairingIds(v, did)) \in [Pids -> Nat]
    BY WithoutIs DEF GoodView, Views
<1> QED  BY <1>1 DEF RemoveDaemon, GoodView, Views, PointsHome

LEMMA SaveFailedIs ==
    ASSUME NEW v, GoodView(v), NEW p \in Pids
    PROVE  /\ GoodView(SaveFailed(v, p))
           /\ SaveFailed(v, p).kc = [v.kc EXCEPT ![p] = 0]
           /\ SaveFailed(v, p).hid = v.hid
           /\ SaveFailed(v, p).ptr = v.ptr
BY DEF SaveFailed, GoodView, Views, PointsHome

LEMMA PersistIs ==
    ASSUME NEW v, GoodView(v), NEW p \in Pids, NEW ts \in Nat \ {0}
    PROVE  /\ GoodView(Persist(v, p, ts))
           /\ Persist(v, p, ts).kc[p] = ts
           /\ \A q \in Of(DidOf[p]) \ {p} : Persist(v, p, ts).kc[q] = 0
           /\ \A q \in Pids \ Of(DidOf[p]) : Persist(v, p, ts).kc[q] = v.kc[q]
           /\ Persist(v, p, ts).hid \subseteq v.hid \ {p}
           /\ v.hid \ Of(DidOf[p]) \subseteq Persist(v, p, ts).hid
           /\ Persist(v, p, ts).ptr = [v.ptr EXCEPT ![DidOf[p]] = p]
<1> DEFINE did == DidOf[p]
           point == [v EXCEPT !.kc[p] = ts, !.ptr[did] = p]
           saved == UnhideForDaemon(point, did, p)
           old == PairingIds(saved, did) \ {p}
           w == [saved EXCEPT !.kc = Without(@, old), !.hid = @ \ old]
<1>1. did \in Dids
    BY AppPairingsAssumption
<1>2. /\ GoodView(point)
      /\ point.kc = [v.kc EXCEPT ![p] = ts] /\ point.hid = v.hid
      /\ point.ptr = [v.ptr EXCEPT ![did] = p]
    BY <1>1 DEF GoodView, Views, PointsHome
<1> HIDE DEF point
<1>3. /\ GoodView(saved) /\ saved.kc = point.kc /\ saved.ptr = point.ptr
      /\ saved.hid = point.hid \ {p, Legacy[did]}
    <2> HIDE DEF did
    <2> QED  BY <1>1, <1>2, UnhideIs
<1>4. Legacy[did] \in Of(did) /\ p \in Of(did)
    BY <1>1, AppPairingsAssumption DEF Of
<1> HIDE DEF saved
<1>5. old \subseteq Of(did) /\ Stored(saved, did) \ {p} \subseteq old
    BY <1>1, <1>3, PairingIdsOf
<1>6. Persist(v, p, ts) = w
    BY DEF Persist, saved, point
<1> HIDE DEF old
<1>7. Without(saved.kc, old) \in [Pids -> Nat]
      /\ \A q \in Pids : Without(saved.kc, old)[q] = IF q \in old THEN 0 ELSE saved.kc[q]
    BY WithoutIs, <1>3 DEF GoodView, Views
<1>8. w.kc = Without(saved.kc, old) /\ w.hid = saved.hid \ old /\ w.ptr = saved.ptr /\ GoodView(w)
    BY <1>3, <1>7 DEF GoodView, Views
<1> HIDE DEF w
<1>9. \A q \in Pids : v.kc[q] \in Nat /\ saved.kc[q] = IF q = p THEN ts ELSE v.kc[q]
    BY <1>2, <1>3 DEF GoodView, Views
<1>10. p \notin old
    BY DEF old
<1>11. w.kc[p] = ts
    BY <1>7, <1>8, <1>9, <1>10
<1>12. \A q \in Of(did) \ {p} : w.kc[q] = 0
    <2> TAKE q \in Of(did) \ {p}
    <2>1. q \in Pids
        BY OfPids
    <2>2. CASE q \in old
        BY <2>1, <2>2, <1>7, <1>8
    <2>3. CASE q \notin old
        <3>1. q \notin Stored(saved, did)
            BY <2>3, <1>5
        <3>2. saved.kc[q] = 0
            BY <3>1 DEF Stored
        <3> QED  BY <3>2, <2>1, <2>3, <1>7, <1>8
    <2> QED  BY <2>2, <2>3
<1>13. \A q \in Pids \ Of(did) : w.kc[q] = v.kc[q]
    BY <1>4, <1>5, <1>7, <1>8, <1>9
<1>14. w.hid \subseteq v.hid \ {p} /\ v.hid \ Of(did) \subseteq w.hid
    BY <1>2, <1>3, <1>4, <1>5, <1>8
<1>15. w.ptr = [v.ptr EXCEPT ![did] = p]
    BY <1>2, <1>3, <1>8
<1> QED  BY <1>6, <1>8, <1>11, <1>12, <1>13, <1>14, <1>15

\* What the phone mirrors.
Snapshots ==
    {snap \in [Dids -> [pid : Pids \cup {0}, ts : Nat]] :
        \A did \in Dids : snap[did].pid # 0 => DidOf[snap[did].pid] = did}

LEMMA AdoptIs ==
    ASSUME NEW v, GoodView(v), NEW did \in Dids, NEW in \in [pid : Pids, ts : Nat],
           DidOf[in.pid] = did, NEW saves \in BOOLEAN
    PROVE  /\ GoodView(Adopt(v, did, in, saves))
           /\ \A p \in Pids \ {in.pid} : Adopt(v, did, in, saves).kc[p] = v.kc[p]
           /\ \/ Adopt(v, did, in, saves).kc[in.pid] \in {v.kc[in.pid], in.ts}
              \/ Adopt(v, did, in, saves).kc[in.pid] = 0 /\ (v.kc[in.pid] = 0 \/ v.kc[in.pid] < in.ts)
           /\ Adopt(v, did, in, saves).ptr[did] \in {v.ptr[did], in.pid}
<1> DEFINE older == Stored(v, did) \ {in.pid}
           known == v.kc[in.pid] # 0
           v1 == UnhideForDaemon(v, did, in.pid)
           v2 == IF known THEN [v1 EXCEPT !.hid = @ \cup older] ELSE v1
           refused == \/ known /\ in.ts <= v.kc[in.pid]
                      \/ \E q \in older : in.ts < v.kc[q]
           w == [v2 EXCEPT !.kc[in.pid] = in.ts, !.ptr[did] = in.pid, !.hid = @ \cup older]
<1>1. older \subseteq Pids
    BY OfPids DEF Stored
<1> HIDE DEF older
<1>2. GoodView(v1) /\ v1.kc = v.kc /\ v1.ptr = v.ptr
    BY UnhideIs
<1> HIDE DEF v1
<1>3. GoodView(v2) /\ v2.kc = v.kc /\ v2.ptr = v.ptr
    BY <1>1, <1>2 DEF GoodView, Views
<1> HIDE DEF v2
<1>4. GoodView(w) /\ w.kc = [v.kc EXCEPT ![in.pid] = in.ts] /\ w.ptr = [v.ptr EXCEPT ![did] = in.pid]
    BY <1>1, <1>3 DEF GoodView, Views, PointsHome
<1>5. Adopt(v, did, in, saves) =
        IF refused THEN v2 ELSE IF ~saves THEN SaveFailed(v2, in.pid) ELSE w
    BY DEF Adopt, v2, v1, older
<1>6. v.kc \in [Pids -> Nat] /\ v.ptr \in [Dids -> Pids \cup {0}]
    BY DEF GoodView, Views
<1>7. CASE refused
    BY <1>3, <1>5, <1>7
<1>8. CASE ~refused /\ ~saves
    <2>1. Adopt(v, did, in, saves) = SaveFailed(v2, in.pid)
        BY <1>5, <1>8
    <2>2. v.kc[in.pid] = 0 \/ v.kc[in.pid] < in.ts
        BY <1>6, <1>8
    <2>3. /\ GoodView(SaveFailed(v2, in.pid)) /\ SaveFailed(v2, in.pid).ptr = v2.ptr
          /\ SaveFailed(v2, in.pid).kc = [v2.kc EXCEPT ![in.pid] = 0]
        BY <1>3, SaveFailedIs
    <2> HIDE DEF refused, w, known
    <2> QED  BY <2>1, <2>2, <2>3, <1>3, <1>6
<1>9. CASE ~refused /\ saves
    <2>1. Adopt(v, did, in, saves) = w
        BY <1>5, <1>9
    <2> HIDE DEF refused, w
    <2> QED  BY <2>1, <1>4, <1>6
<1> QED  BY <1>7, <1>8, <1>9

LEMMA AdoptedIs ==
    ASSUME NEW v, GoodView(v), NEW snap \in Snapshots, NEW saves \in BOOLEAN
    PROVE  /\ GoodView(Adopted(v, snap, saves))
           /\ \A p \in Pids :
                LET new == Adopted(v, snap, saves).kc[p]
                    in == snap[DidOf[p]]
                IN  \/ new = v.kc[p]
                    \/ p = in.pid /\ new = in.ts
                    \/ p = in.pid /\ new = 0 /\ v.kc[p] < in.ts
           /\ \A did \in Dids :
                Adopted(v, snap, saves).ptr[did] \in {v.ptr[did], snap[did].pid}
<1> DEFINE w(p) == IF DidOf[p] \in Incoming(snap)
                   THEN Adopt(v, DidOf[p], snap[DidOf[p]], saves) ELSE v
           A == Adopted(v, snap, saves)
<1>1. v.kc \in [Pids -> Nat] /\ v.ptr \in [Dids -> Pids \cup {0}] /\ PointsHome(v.ptr)
    BY DEF GoodView, Views
<1>2. ASSUME NEW p \in Pids
      PROVE  /\ GoodView(w(p)) /\ w(p).kc[p] \in Nat
             /\ \/ w(p).kc[p] = v.kc[p]
                \/ p = snap[DidOf[p]].pid /\ w(p).kc[p] = snap[DidOf[p]].ts
                \/ p = snap[DidOf[p]].pid /\ w(p).kc[p] = 0 /\ v.kc[p] < snap[DidOf[p]].ts
             /\ w(p).ptr[DidOf[p]] \in {v.ptr[DidOf[p]], snap[DidOf[p]].pid}
    <2>1. DidOf[p] \in Dids
        BY AppPairingsAssumption
    <2>2. CASE DidOf[p] \notin Incoming(snap)
        BY <2>2, <1>1
    <2>3. CASE DidOf[p] \in Incoming(snap)
        <3> DEFINE in == snap[DidOf[p]]
        <3>1. in \in [pid : Pids, ts : Nat] /\ DidOf[in.pid] = DidOf[p]
            BY <2>1, <2>3 DEF Incoming, Snapshots
        <3>2. w(p) = Adopt(v, DidOf[p], in, saves)
            BY <2>3
        <3> HIDE DEF in, w
        <3>3. /\ GoodView(w(p))
              /\ p # in.pid => w(p).kc[p] = v.kc[p]
              /\ \/ w(p).kc[in.pid] \in {v.kc[in.pid], in.ts}
                 \/ w(p).kc[in.pid] = 0 /\ (v.kc[in.pid] = 0 \/ v.kc[in.pid] < in.ts)
              /\ w(p).ptr[DidOf[p]] \in {v.ptr[DidOf[p]], in.pid}
            BY <2>1, <3>1, <3>2, AdoptIs
        <3>4. w(p).kc[p] \in Nat
            BY <3>3 DEF GoodView, Views
        <3> QED  BY <3>1, <3>3, <3>4, <1>1 DEF in
    <2> QED  BY <2>2, <2>3
<1>3. /\ A.kc = [p \in Pids |-> w(p).kc[p]]
      /\ A.hid = {p \in Pids : p \in w(p).hid}
      /\ A.ptr = [did \in Dids |-> w(Legacy[did]).ptr[did]]
      /\ A = [kc |-> A.kc, hid |-> A.hid, ptr |-> A.ptr]
    BY DEF Adopted
<1> HIDE DEF w, A
<1>4. \A did \in Dids : Legacy[did] \in Pids /\ DidOf[Legacy[did]] = did
    BY AppPairingsAssumption
<1>5. \A did \in Dids : A.ptr[did] \in {v.ptr[did], snap[did].pid}
    BY <1>2, <1>3, <1>4
<1>6. \A did \in Dids : A.ptr[did] \in Pids \cup {0} /\ (A.ptr[did] # 0 => DidOf[A.ptr[did]] = did)
    BY <1>1, <1>5 DEF PointsHome, Snapshots
<1>7. A.ptr \in [Dids -> Pids \cup {0}] /\ PointsHome(A.ptr)
    BY <1>3, <1>6 DEF PointsHome
<1>8. A.kc \in [Pids -> Nat] /\ \A p \in Pids : A.kc[p] = w(p).kc[p]
    BY <1>2, <1>3
<1>9. GoodView(A)
    BY <1>3, <1>7, <1>8 DEF GoodView, Views
<1> QED  BY <1>2, <1>5, <1>8, <1>9 DEF A

LEMMA HideOthersIs ==
    ASSUME NEW v, GoodView(v), NEW snap
    PROVE  /\ GoodView(HideOthers(v, snap))
           /\ HideOthers(v, snap).kc = v.kc
           /\ \A did \in Dids : HideOthers(v, snap).ptr[did] \in {0, v.ptr[did]}
<1> DEFINE S == {did \in Dids : v.ptr[did] # 0} \ Incoming(snap)
           U == UNION {PairingIds(v, did) : did \in S}
           p == [did \in Dids |-> IF did \in S THEN 0 ELSE v.ptr[did]]
<1>1. U \subseteq Pids
    BY PairingIdsOf, OfPids
<1>2. p \in [Dids -> Pids \cup {0}] /\ PointsHome(p) /\ \A did \in Dids : p[did] \in {0, v.ptr[did]}
    BY DEF GoodView, Views, PointsHome
<1>3. HideOthers(v, snap) = [v EXCEPT !.hid = v.hid \cup U, !.ptr = p]
    BY DEF HideOthers, GoodView, Views
<1> HIDE DEF U, p
<1> QED  BY <1>1, <1>2, <1>3 DEF GoodView, Views

-----------------------------------------------------------------------------
(* What a step of one device does to the blobs.                             *)

LEMMA DevicesAre == Handhelds \subseteq Devices /\ Watch \in Devices /\ Phone \in Handhelds
BY AppPairingsAssumption DEF Devices

LEMMA ViewsAreGood ==
    ASSUME AppTypeInv, NEW d \in Devices
    PROVE  GoodView(view[d])
BY DEF AppTypeInv, GoodView

LEMMA WriteIs ==
    ASSUME AppTypeInv, NEW d \in Devices, NEW v, GoodView(v), Write(d, v)
    PROVE  /\ view' = [view EXCEPT ![d] = v]
           /\ view' \in [Devices -> Views]
           /\ \A e \in Devices : PointsHome(view'[e].ptr)
           /\ view'[d] = v /\ \A e \in Devices \ {d} : view'[e] = view[e]
           /\ cloud' \in [Pids -> Nat]
           /\ \A p \in Pids : cloud'[p] = IF v.kc[p] # view[d].kc[p] THEN v.kc[p] ELSE cloud[p]
           /\ stale' \in [Devices -> SUBSET Pids]
           /\ SyncInv => SyncInv'
<1> DEFINE changed == {p \in Pids : v.kc[p] # view[d].kc[p]}
<1>1. /\ view' = [view EXCEPT ![d] = v]
      /\ cloud' = [p \in Pids |-> IF p \in changed THEN v.kc[p] ELSE cloud[p]]
      /\ stale' = [e \in Devices |->
                      IF e = d THEN stale[d] \ changed ELSE stale[e] \cup changed]
    BY DEF Write
<1>2. view' \in [Devices -> Views] /\ view'[d] = v /\ \A e \in Devices \ {d} : view'[e] = view[e]
    BY <1>1 DEF AppTypeInv, GoodView
<1>3. \A e \in Devices : PointsHome(view'[e].ptr)
    BY <1>2 DEF AppTypeInv, GoodView
<1>4. cloud' \in [Pids -> Nat]
    BY <1>1 DEF AppTypeInv, GoodView, Views
<1>5. \A p \in Pids : cloud'[p] = IF v.kc[p] # view[d].kc[p] THEN v.kc[p] ELSE cloud[p]
    BY <1>1
<1>6. stale' \in [Devices -> SUBSET Pids]
    BY <1>1 DEF AppTypeInv
<1>7. ASSUME SyncInv PROVE SyncInv'
    <2> SUFFICES ASSUME NEW e \in Devices, NEW p \in Pids, p \notin stale'[e]
                 PROVE  view'[e].kc[p] = cloud'[p]
        BY DEF SyncInv
    <2>1. CASE e = d
        BY <2>1, <1>1, <1>2, <1>5, <1>7 DEF SyncInv
    <2>2. CASE e # d
        BY <2>2, <1>1, <1>2, <1>5, <1>7 DEF SyncInv
    <2> QED  BY <2>1, <2>2
<1> QED  BY <1>1, <1>2, <1>3, <1>4, <1>5, <1>6, <1>7

LEMMA NewestKept ==
    ASSUME AppTypeInv, NEW d \in Devices, NEW v, GoodView(v), Write(d, v), UNCHANGED ctx,
           NEW p \in Pids, Newest(p), v.kc[p] \in {view[d].kc[p], cloud[p]},
           \A q \in Of(DidOf[p]) \ {p} : v.kc[q] < cloud[p]
    PROVE  Newest(p)'
<1>1. /\ view'[d] = v /\ \A e \in Devices \ {d} : view'[e] = view[e]
      /\ \A q \in Pids : cloud'[q] = IF v.kc[q] # view[d].kc[q] THEN v.kc[q] ELSE cloud[q]
    BY WriteIs
<1>2. cloud'[p] = cloud[p] /\ cloud[p] # 0
    BY <1>1 DEF Newest
<1>3. \A e \in Devices : view'[e].kc[p] \in {0, cloud'[p]}
    BY <1>1, <1>2 DEF Newest
<1>4. \A q \in Of(DidOf[p]) \ {p} :
          cloud'[q] < cloud'[p] /\ \A e \in Devices : view'[e].kc[q] < cloud'[p]
    <2> TAKE q \in Of(DidOf[p]) \ {p}
    <2>1. q \in Pids
        BY OfPids
    <2>2. cloud[q] < cloud[p] /\ \A e \in Devices : view[e].kc[q] < cloud[p]
        BY DEF Newest
    <2> QED  BY <1>1, <1>2, <2>1, <2>2
<1> QED  BY <1>2, <1>3, <1>4 DEF Newest

\* v is device d's view without some of its blobs; a new pointer is to a blob it has.
Calm(d, v) ==
    /\ GoodView(v)
    /\ \A p \in Pids : v.kc[p] \in {0, view[d].kc[p]}
    /\ \A did \in Dids : \/ v.ptr[did] \in {0, view[d].ptr[did]}
                         \/ view[d].kc[v.ptr[did]] # 0

LEMMA CalmWrite ==
    ASSUME AppTypeInv, TimesInv, NEW d \in Devices, NEW v, Calm(d, v), Write(d, v),
           UNCHANGED <<clock, ctx>>
    PROVE  /\ TimesInv'
           /\ \A p \in Pids : Uncommitted(p) =>
                 /\ cloud'[p] = 0
                 /\ \A e \in Devices : view'[e].kc[p] = 0 /\ view'[e].ptr[DidOf[p]] # p
           /\ \A p \in Pids : Newest(p) /\ v.kc[p] = view[d].kc[p] => Newest(p)'
<1>1. /\ view'[d] = v /\ \A e \in Devices \ {d} : view'[e] = view[e]
      /\ \A p \in Pids : cloud'[p] = IF v.kc[p] # view[d].kc[p] THEN v.kc[p] ELSE cloud[p]
    BY WriteIs DEF Calm
<1>2. /\ v.kc \in [Pids -> Nat] /\ clock \in Nat /\ cloud \in [Pids -> Nat]
      /\ \A e \in Devices : view[e].kc \in [Pids -> Nat]
    BY DEF AppTypeInv, Calm, GoodView, Views
<1>3. TimesInv'
    BY <1>1, <1>2 DEF TimesInv, Calm
<1>4. ASSUME NEW p \in Pids, Uncommitted(p)
      PROVE  /\ cloud'[p] = 0
             /\ \A e \in Devices : view'[e].kc[p] = 0 /\ view'[e].ptr[DidOf[p]] # p
    <2>1. DidOf[p] \in Dids /\ p # 0
        BY AppPairingsAssumption
    <2> QED  BY <1>1, <1>4, <2>1 DEF Uncommitted, Calm
<1>5. ASSUME NEW p \in Pids, Newest(p), v.kc[p] = view[d].kc[p]
      PROVE  Newest(p)'
    <2>1. \A q \in Of(DidOf[p]) \ {p} : v.kc[q] < cloud[p]
        <3> TAKE q \in Of(DidOf[p]) \ {p}
        <3>1. q \in Pids /\ v.kc[q] \in {0, view[d].kc[q]}
            BY OfPids DEF Calm
        <3>2. view[d].kc[q] < cloud[p] /\ 0 < cloud[p]
            BY <1>2, <1>5 DEF Newest
        <3> QED  BY <3>1, <3>2
    <2> QED  BY <1>5, <2>1, NewestKept DEF Calm
<1> QED  BY <1>3, <1>4, <1>5

LEMMA CalmReconciled ==
    ASSUME AppTypeInv, TimesInv, NEW d \in Devices, NEW w, GoodView(w),
           \A p \in Pids : w.kc[p] \in {0, view[d].kc[p]},
           \A did \in Dids : w.ptr[did] \in {0, view[d].ptr[did]}
    PROVE  /\ Calm(d, Reconciled(w))
           /\ Reconciled(w).hid = w.hid
           /\ \A did \in Dids : w.ptr[did] \notin w.hid => Reconciled(w).ptr[did] \notin w.hid
           /\ \A p \in Pids : Newest(p) /\ w.kc[p] = view[d].kc[p] =>
                 Reconciled(w).kc[p] = view[d].kc[p]
<1>1. w.kc \in [Pids -> Nat] /\ view[d].kc \in [Pids -> Nat] /\ clock \in Nat
    BY DEF AppTypeInv, GoodView, Views
<1>2. \A p \in Pids : w.kc[p] <= clock
    BY <1>1 DEF TimesInv
<1> DEFINE R == Reconciled(w)
<1>3. /\ GoodView(R)
      /\ \A p \in Pids : R.kc[p] \in {0, w.kc[p]}
      /\ R.hid = w.hid
      /\ \A did \in Dids : R.ptr[did] \in {0, w.ptr[did]} \/ R.ptr[did] \in Visible(w)
      /\ \A did \in Dids : w.ptr[did] \notin w.hid => R.ptr[did] \notin w.hid
      /\ \A p \in Pids :
           w.kc[p] # 0 /\ (\A q \in Of(DidOf[p]) \ {p} : w.kc[q] < w.kc[p]) => R.kc[p] = w.kc[p]
    BY <1>1, <1>2, ReconciledIs
<1> HIDE DEF R
<1>4. \A p \in Pids : R.kc[p] \in {0, view[d].kc[p]}
    BY <1>3
<1>5. \A did \in Dids : R.ptr[did] \in {0, view[d].ptr[did]} \/ view[d].kc[R.ptr[did]] # 0
    BY <1>3 DEF Visible
<1>6. ASSUME NEW p \in Pids, Newest(p), w.kc[p] = view[d].kc[p]
      PROVE  R.kc[p] = view[d].kc[p]
    <2>1. CASE view[d].kc[p] = 0
        BY <2>1, <1>4
    <2>2. CASE view[d].kc[p] # 0
        <3>1. view[d].kc[p] = cloud[p]
            BY <2>2, <1>6 DEF Newest
        <3>2. \A q \in Of(DidOf[p]) \ {p} : w.kc[q] < w.kc[p]
            <4> TAKE q \in Of(DidOf[p]) \ {p}
            <4>1. q \in Pids /\ view[d].kc[q] < cloud[p]
                BY OfPids, <1>6 DEF Newest
            <4> QED  BY <4>1, <3>1, <2>2, <1>1, <1>6
        <3> QED  BY <2>2, <3>2, <1>3, <1>6
    <2> QED  BY <2>1, <2>2
<1> QED  BY <1>3, <1>4, <1>5, <1>6 DEF R, Calm

-----------------------------------------------------------------------------
(* The invariant at the start, and steps that leave its variables alone.    *)

LEMMA AppInit == PairingsInit => AppInv
<1> SUFFICES ASSUME PairingsInit PROVE AppInv
    OBVIOUS
<1> USE DEF PairingsInit
<1>1. Installed.kc \in [Pids -> Nat] /\ Installed.hid = {} /\ Installed.ptr = Legacy
      /\ \A p \in Pids : Installed.kc[p] = IF \E did \in Dids : Legacy[did] = p THEN 1 ELSE 0
    BY DEF Installed
<1>2. GoodView(Installed)
    BY AppPairingsAssumption, <1>1 DEF Installed, GoodView, Views, PointsHome
<1>3. GoodView(Fresh) /\ Fresh.hid = {} /\ \A p \in Pids : Fresh.kc[p] = 0
      /\ \A did \in Dids : Fresh.ptr[did] = 0
    BY DEF Fresh, GoodView, Views, PointsHome
<1>4. \A d \in Devices : view[d] = IF d = Watch THEN Fresh ELSE Installed
    OBVIOUS
<1>5. \A p \in Pids : p # 0 /\ DidOf[p] \in Dids
    BY AppPairingsAssumption
<1>6. AppTypeInv
    BY <1>1, <1>2, <1>3, AppPairingsAssumption DEF AppTypeInv, GoodView, PointsHome
<1>7. TimesInv /\ SyncInv
    <2>1. TimesInv
        BY <1>1, <1>3, <1>4 DEF TimesInv
    <2>2. SyncInv
        BY <1>1, <1>3, <1>4 DEF SyncInv
    <2> QED  BY <2>1, <2>2
<1>8. \A p \in Pids : scans[p] = 0 => Nowhere(p)
    <2> SUFFICES ASSUME NEW p \in Pids, scans[p] = 0 PROVE Nowhere(p)
        OBVIOUS
    <2>1. \A did \in Dids : Legacy[did] # p
        BY <1>1
    <2>2. Installed.kc[p] = 0
        BY <1>1, <2>1
    <2>3. \A d \in Devices : view[d].kc[p] = 0 /\ view[d].ptr[DidOf[p]] # p
        BY <1>1, <1>3, <1>4, <1>5, <2>1, <2>2
    <2>4. \A d \in Devices : clients[d][DidOf[p]] # p
        BY <1>5, <2>1
    <2> QED  BY <2>1, <2>2, <2>3, <2>4, <1>5 DEF Nowhere, Uncommitted
<1>9. ScanInv
    BY <1>8 DEF ScanInv
<1>10. WishInv /\ PendingInv
    BY DevicesAre DEF WishInv, PendingInv
<1>11. HidInv
    BY <1>1, <1>3, <1>4, DevicesAre DEF HidInv
<1>12. ValidInv
    <2> SUFFICES ASSUME NEW did \in Dids PROVE Newest(Legacy[did])
        BY DEF ValidInv
    <2> DEFINE p == Legacy[did]
    <2>1. p \in Pids /\ DidOf[p] = did /\ p # 0
        BY AppPairingsAssumption
    <2>2. cloud[p] = 1 /\ \A d \in Devices : view[d].kc[p] \in {0, 1}
        BY <2>1, <1>1, <1>3, <1>4
    <2>3. \A q \in Of(did) \ {p} : Installed.kc[q] = 0 /\ q \in Pids
        BY <1>1, AppPairingsAssumption DEF Of
    <2>4. \A q \in Of(did) \ {p} : cloud[q] = 0 /\ \A d \in Devices : view[d].kc[q] = 0
        BY <2>3, <1>3, <1>4
    <2> HIDE DEF p
    <2>5. ctx[did].pid = 0 /\ ctx[did].ts = 0
        OBVIOUS
    <2>6. Newest(p)
        BY <2>1, <2>2, <2>4, <2>5 DEF Newest
    <2> QED  BY <2>6 DEF p
<1> QED  BY <1>6, <1>7, <1>9, <1>10, <1>11, <1>12 DEF AppInv

LEMMA AppFrame ==
    ASSUME AppInv,
           UNCHANGED <<view, cloud, stale, pending, pclients, clients, ctx, clock, wish, valid, scans>>
    PROVE  AppInv'
<1> USE DEF AppInv
<1>1. AppTypeInv' /\ TimesInv' /\ SyncInv'
    BY DEF AppTypeInv, TimesInv, SyncInv
<1>2. \A p \in Pids : Uncommitted(p) => Uncommitted(p)'
    BY DEF Uncommitted
<1>3. \A p \in Pids : Nowhere(p) => Nowhere(p)'
    BY <1>2 DEF Nowhere
<1>4. ScanInv'
    BY <1>2, <1>3 DEF ScanInv
<1>5. WishInv'
    BY <1>3, DevicesAre DEF WishInv, AppTypeInv
<1>6. PendingInv' /\ HidInv'
    BY DEF PendingInv, HidInv
<1>7. \A p \in Pids : Newest(p) => Newest(p)'
    BY DEF Newest
<1>8. ValidInv'
    BY <1>7 DEF ValidInv, OnceScanned, AppTypeInv
<1> QED  BY <1>1, <1>4, <1>5, <1>6, <1>8

\* A step of device d that commits nothing: blobs may go, a pointer may be set
\* to a blob that is there, clients follow the pointers.
CommitsNothing(d, v, c) ==
    /\ Calm(d, v) /\ Write(d, v)
    /\ UNCHANGED <<clock, ctx, scans>>
    /\ pending' \in [Devices -> SUBSET Pids] /\ pclients' \in [Devices -> SUBSET Pids]
    /\ \A e \in Devices : pending'[e] \subseteq pending[e] /\ pclients'[e] \subseteq pending'[e]
    /\ c \in [Dids -> Pids \cup {0}] /\ clients' = [clients EXCEPT ![d] = c]
    /\ \A did \in Dids : c[did] \in {0, clients[d][did], v.ptr[did]}
    /\ valid' \in [Dids -> Pids \cup {0}]
    /\ \A did \in Dids : valid'[did] \in {0, valid[did]}
    /\ \A did \in Dids : valid'[did] # 0 /\ OnceScanned(valid[did]) =>
           v.kc[valid[did]] = view[d].kc[valid[did]]
    /\ wish' \in [Devices -> SUBSET Pids]
    /\ \A e \in Devices \ {d} : wish'[e] = wish[e]
    /\ \A q \in pending'[d] : wish'[d] \cap Of(DidOf[q]) = {}
    /\ d \in Handhelds =>
         /\ \A did \in Dids : v.ptr[did] \notin v.hid /\ c[did] \notin v.hid
         /\ \A p \in wish'[d] :
               \/ p \in v.hid
               \/ p \in wish[d] /\ p \notin view[d].hid
               \/ p \in pending[d] /\ p \notin pending'[d]
         /\ \A p \in wish'[d] : p \in wish[d] \cup pending[d] \/ ~Uncommitted(p)

LEMMA CalmStep ==
    ASSUME AppInv, NEW d \in Devices, NEW v, NEW c, CommitsNothing(d, v, c)
    PROVE  AppInv'
<1> USE DEF AppInv, CommitsNothing
<1>1. /\ view' \in [Devices -> Views] /\ \A e \in Devices : PointsHome(view'[e].ptr)
      /\ view'[d] = v /\ \A e \in Devices \ {d} : view'[e] = view[e]
      /\ cloud' \in [Pids -> Nat] /\ stale' \in [Devices -> SUBSET Pids]
      /\ SyncInv'
    BY WriteIs DEF Calm
<1>2. /\ TimesInv'
      /\ \A p \in Pids : Uncommitted(p) =>
            /\ cloud'[p] = 0
            /\ \A e \in Devices : view'[e].kc[p] = 0 /\ view'[e].ptr[DidOf[p]] # p
      /\ \A p \in Pids : Newest(p) /\ v.kc[p] = view[d].kc[p] => Newest(p)'
    BY CalmWrite
<1>3. clients' \in [Devices -> [Dids -> Pids \cup {0}]]
      /\ clients'[d] = c /\ \A e \in Devices \ {d} : clients'[e] = clients[e]
    BY DEF AppTypeInv
<1>4. AppTypeInv'
    <2>0. PointsHome(clients[d]) /\ PointsHome(v.ptr)
        BY DEF AppTypeInv, Calm, GoodView
    <2>1. PointsHome(c)
        BY <2>0 DEF PointsHome
    <2>2. \A e \in Devices : PointsHome(clients'[e])
        BY <1>3, <2>1 DEF AppTypeInv
    <2> QED  BY <1>1, <1>3, <2>2 DEF AppTypeInv, PointsHome
<1>5. \A p \in Pids : p # 0 /\ DidOf[p] \in Dids
    BY AppPairingsAssumption
<1>6. ASSUME NEW p \in Pids, Uncommitted(p) PROVE Uncommitted(p)'
    <2>1. \A e \in Devices : clients'[e][DidOf[p]] # p
        BY <1>1, <1>2, <1>3, <1>5, <1>6 DEF Uncommitted
    <2>2. valid'[DidOf[p]] # p
        BY <1>5, <1>6 DEF Uncommitted
    <2> QED  BY <1>2, <1>6, <2>1, <2>2 DEF Uncommitted
<1>7. \A p \in Pids : Nowhere(p) => Nowhere(p)'
    BY <1>6 DEF Nowhere
<1>8. ScanInv'
    BY <1>6, <1>7 DEF ScanInv
<1>9. WishInv'
    <2> SUFFICES ASSUME NEW e \in Handhelds, NEW p \in wish'[e]
                 PROVE  scans[p] # 0 /\ (scans[p] = 1 => p \in view'[e].hid \/ Nowhere(p)')
        BY DEF WishInv
    <2>1. e \in Devices /\ p \in Pids
        BY DevicesAre
    <2>0. scans[p] # 0
        <3>1. CASE e # d \/ p \in wish[d]
            BY <2>1, <3>1 DEF WishInv
        <3>2. CASE e = d /\ p \notin wish[d]
            BY <2>1, <3>2 DEF ScanInv, Nowhere
        <3> QED  BY <3>1, <3>2
    <2> SUFFICES ASSUME scans[p] = 1 PROVE p \in view'[e].hid \/ Nowhere(p)'
        BY <2>0
    <2>2. CASE e # d
        BY <2>1, <2>2, <1>1, <1>7 DEF WishInv
    <2>3. CASE e = d
        <3>1. CASE p \in v.hid
            BY <3>1, <2>3, <1>1
        <3>2. CASE p \in wish[d] /\ p \notin view[d].hid
            BY <3>2, <2>1, <2>3, <1>7 DEF WishInv
        <3>3. CASE p \in pending[d] /\ p \notin pending'[d]
            <4>1. Uncommitted(p) /\ \A x \in Devices : p \in pending[x] => x = d
                BY <2>1, <3>3 DEF ScanInv
            <4> QED  BY <4>1, <3>3, <2>1, <1>6 DEF Nowhere
        <3> QED  BY <2>3, <3>1, <3>2, <3>3
    <2> QED  BY <2>2, <2>3
<1>10. PendingInv'
    BY DEF PendingInv
<1>11. HidInv'
    BY <1>1, <1>3, DevicesAre DEF HidInv
<1>12. ValidInv'
    <2> SUFFICES ASSUME NEW did \in Dids, valid'[did] # 0, OnceScanned(valid[did])'
                 PROVE  Newest(valid[did])'
        BY DEF ValidInv
    <2>1. valid'[did] = valid[did] /\ valid[did] \in Pids /\ scans[valid[did]] = 1
        BY DEF AppTypeInv, OnceScanned
    <2>2. Newest(valid[did])
        BY <2>1 DEF ValidInv, OnceScanned
    <2>3. \A p \in Pids : p = valid[did] => Newest(p)'
        BY <1>2, <2>1, <2>2 DEF OnceScanned
    <2> QED  BY <2>1, <2>3 DEF Newest
<1> QED  BY <1>1, <1>2, <1>4, <1>8, <1>9, <1>10, <1>11, <1>12

-----------------------------------------------------------------------------
(* The actions.                                                             *)

LEMMA PendingShrinks ==
    ASSUME AppInv,
           UNCHANGED <<view, cloud, stale, clients, ctx, clock, wish, valid, scans>>,
           pending' \in [Devices -> SUBSET Pids], pclients' \in [Devices -> SUBSET Pids],
           \A e \in Devices : pending'[e] \subseteq pending[e] /\ pclients'[e] \subseteq pending'[e]
    PROVE  AppInv'
<1> USE DEF AppInv
<1>1. AppTypeInv' /\ TimesInv' /\ SyncInv'
    BY DEF AppTypeInv, TimesInv, SyncInv
<1>2. \A p \in Pids : Uncommitted(p) => Uncommitted(p)'
    BY DEF Uncommitted
<1>3. \A p \in Pids : Nowhere(p) => Nowhere(p)'
    BY <1>2 DEF Nowhere
<1>4. ScanInv'
    BY <1>2, <1>3 DEF ScanInv
<1>5. WishInv'
    BY <1>3, DevicesAre DEF WishInv, AppTypeInv
<1>6. PendingInv' /\ HidInv'
    BY DEF PendingInv, HidInv
<1>7. \A p \in Pids : Newest(p) => Newest(p)'
    BY DEF Newest
<1>8. ValidInv'
    BY <1>7 DEF ValidInv, OnceScanned, AppTypeInv
<1> QED  BY <1>1, <1>4, <1>5, <1>6, <1>8

LEMMA PromoteLateStep ==
    ASSUME AppInv, NEW d \in Devices, NEW p \in Pids, PromoteLate(d, p)
    PROVE  AppInv'
<1>1. /\ UNCHANGED <<view, cloud, stale, clients, ctx, clock, wish, valid, scans, pending>>
      /\ pclients' = [pclients EXCEPT ![d] = @ \ {p}]
    BY DEF PromoteLate, DisposePending, store, bridge, history
<1>2. pending' \in [Devices -> SUBSET Pids] /\ pclients' \in [Devices -> SUBSET Pids]
      /\ \A e \in Devices : pending'[e] \subseteq pending[e] /\ pclients'[e] \subseteq pending'[e]
    BY <1>1 DEF AppInv, AppTypeInv, PendingInv
<1> QED  BY <1>1, <1>2, PendingShrinks

LEMMA CancelPendingStep ==
    ASSUME AppInv, NEW d \in Devices, NEW p \in Pids, CancelPending(d, p)
    PROVE  AppInv'
<1>1. /\ UNCHANGED <<view, cloud, stale, clients, ctx, clock, wish, valid, scans>>
      /\ pclients' = [pclients EXCEPT ![d] = @ \ {p}] /\ pending' = [pending EXCEPT ![d] = @ \ {p}]
    BY DEF CancelPending, DisposePending, RemovePending, store, bridge
<1>2. pending' \in [Devices -> SUBSET Pids] /\ pclients' \in [Devices -> SUBSET Pids]
    BY <1>1 DEF AppInv, AppTypeInv
<1>3. \A e \in Devices : pending'[e] \subseteq pending[e] /\ pclients'[e] \subseteq pending'[e]
    BY <1>1 DEF AppInv, AppTypeInv, PendingInv
<1> QED  BY <1>1, <1>2, <1>3, PendingShrinks

LEMMA PromoteFailsStep ==
    ASSUME AppInv, NEW d \in Devices, NEW p \in Pids, PromoteFails(d, p)
    PROVE  AppInv'
<1> DEFINE v == SaveFailed(view[d], p)
<1>1. /\ p \in pending[d] /\ Write(d, v)
      /\ UNCHANGED <<clients, ctx, clock, wish, valid, scans, pending, pclients>>
    BY DEF PromoteFails, bridge, history
<1>2. /\ GoodView(v) /\ v.kc = [view[d].kc EXCEPT ![p] = 0] /\ v.hid = view[d].hid
      /\ v.ptr = view[d].ptr
    BY ViewsAreGood, SaveFailedIs DEF AppInv
<1> HIDE DEF v
<1>3. view[d].kc \in [Pids -> Nat] /\ clients[d] \in [Dids -> Pids \cup {0}]
      /\ clients' = [clients EXCEPT ![d] = clients[d]]
    BY <1>1 DEF AppInv, AppTypeInv, Views
<1>4. Calm(d, v)
    BY <1>2, <1>3 DEF Calm
<1>5. \A did \in Dids : valid'[did] # 0 /\ OnceScanned(valid[did]) =>
          v.kc[valid[did]] = view[d].kc[valid[did]]
    <2> SUFFICES ASSUME NEW did \in Dids, valid[did] # 0, OnceScanned(valid[did])
                 PROVE  v.kc[valid[did]] = view[d].kc[valid[did]]
        BY <1>1
    <2>1. valid[did] \in Pids /\ DidOf[valid[did]] = did
        BY DEF AppInv, AppTypeInv, PointsHome
    <2>2. valid[did] # p
        BY <1>1, <2>1 DEF AppInv, ScanInv, OnceScanned, Uncommitted
    <2> QED  BY <1>2, <1>3, <2>1, <2>2
<1>6. d \in Handhelds => \A did \in Dids : v.ptr[did] \notin v.hid /\ clients[d][did] \notin v.hid
    BY <1>2 DEF AppInv, HidInv
<1>7. /\ pending' \in [Devices -> SUBSET Pids] /\ pclients' \in [Devices -> SUBSET Pids]
      /\ wish' \in [Devices -> SUBSET Pids] /\ valid' \in [Dids -> Pids \cup {0}]
    BY <1>1 DEF AppInv, AppTypeInv
<1>8. \A e \in Devices : pending'[e] \subseteq pending[e] /\ pclients'[e] \subseteq pending'[e]
    BY <1>1 DEF AppInv, PendingInv
<1>9. \A q \in pending'[d] : wish'[d] \cap Of(DidOf[q]) = {}
    BY <1>1 DEF AppInv, PendingInv
<1>10. \A x \in wish'[d] : x \in wish[d] /\ (x \in v.hid \/ x \notin view[d].hid)
    BY <1>1, <1>2
<1>11. CommitsNothing(d, v, clients[d])
    BY <1>1, <1>3, <1>4, <1>5, <1>6, <1>7, <1>8, <1>9, <1>10 DEF CommitsNothing
<1> QED  BY <1>11, CalmStep

\* The common part of Nudge and Launch: the device lists.
LEMMA ListingStep ==
    ASSUME AppInv, NEW d \in Devices, Write(d, Reconciled(view[d])),
           UNCHANGED <<clock, ctx, scans, wish, valid>>,
           pending' \in [Devices -> SUBSET Pids], pclients' \in [Devices -> SUBSET Pids],
           \A e \in Devices : pending'[e] \subseteq pending[e] /\ pclients'[e] \subseteq pending'[e],
           NEW c \in [Dids -> Pids \cup {0}], clients' = [clients EXCEPT ![d] = c],
           \A did \in Dids : c[did] \in {0, clients[d][did], Reconciled(view[d]).ptr[did]}
    PROVE  AppInv'
<1> DEFINE v == Reconciled(view[d])
<1>1. /\ Calm(d, v) /\ v.hid = view[d].hid
      /\ \A did \in Dids : view[d].ptr[did] \notin view[d].hid => v.ptr[did] \notin view[d].hid
      /\ \A p \in Pids : Newest(p) => v.kc[p] = view[d].kc[p]
    BY CalmReconciled, ViewsAreGood DEF AppInv
<1> HIDE DEF v
<1>2. \A did \in Dids : valid'[did] # 0 /\ OnceScanned(valid[did]) =>
          v.kc[valid[did]] = view[d].kc[valid[did]]
    BY <1>1 DEF AppInv, AppTypeInv, ValidInv
<1>3. d \in Handhelds => \A did \in Dids : v.ptr[did] \notin v.hid /\ c[did] \notin v.hid
    <2> SUFFICES ASSUME d \in Handhelds, NEW did \in Dids
                 PROVE  v.ptr[did] \notin v.hid /\ c[did] \notin v.hid
        OBVIOUS
    <2>1. view[d].ptr[did] \notin view[d].hid /\ clients[d][did] \notin view[d].hid
        BY DEF AppInv, HidInv
    <2>2. 0 \notin view[d].hid
        BY AppPairingsAssumption DEF AppInv, AppTypeInv, Views
    <2> QED  BY <1>1, <2>1, <2>2 DEF v
<1>4. wish' \in [Devices -> SUBSET Pids] /\ valid' \in [Dids -> Pids \cup {0}]
    BY DEF AppInv, AppTypeInv
<1>5. \A q \in pending'[d] : wish'[d] \cap Of(DidOf[q]) = {}
    BY DEF AppInv, PendingInv
<1>6. \A x \in wish'[d] : x \in wish[d] /\ (x \in v.hid \/ x \notin view[d].hid)
    BY <1>1
<1>7. Write(d, v) /\ \A did \in Dids : c[did] \in {0, clients[d][did], v.ptr[did]}
    BY DEF v
<1>8. CommitsNothing(d, v, c)
    BY <1>1, <1>2, <1>3, <1>4, <1>5, <1>6, <1>7 DEF CommitsNothing
<1> QED  BY <1>8, CalmStep

LEMMA ReconciledGood ==
    ASSUME AppInv, NEW d \in Devices
    PROVE  GoodView(Reconciled(view[d]))
BY CalmReconciled, ViewsAreGood DEF AppInv, Calm

LEMMA NudgeStep ==
    ASSUME AppInv, NEW d \in Devices, Nudge(d)
    PROVE  AppInv'
<1> DEFINE v == Reconciled(view[d])
           c == Connected(d, v)
<1>1. /\ Write(d, v) /\ clients' = [clients EXCEPT ![d] = c]
      /\ pclients' = [pclients EXCEPT ![d] = @ \cup pending[d]]
      /\ UNCHANGED <<pending, clock, ctx, scans, wish, valid>>
    BY DEF Nudge, BeginPending, bridge, history
<1>2. v.ptr \in [Dids -> Pids \cup {0}]
    BY ReconciledGood DEF GoodView, Views
<1> HIDE DEF v
<1>3. c \in [Dids -> Pids \cup {0}] /\ \A did \in Dids : c[did] \in {0, clients[d][did], v.ptr[did]}
    BY <1>2 DEF Connected, AppInv, AppTypeInv
<1>4. pending' \in [Devices -> SUBSET Pids] /\ pclients' \in [Devices -> SUBSET Pids]
    BY <1>1 DEF AppInv, AppTypeInv
<1>5. \A e \in Devices : pending'[e] \subseteq pending[e] /\ pclients'[e] \subseteq pending'[e]
    BY <1>1 DEF AppInv, AppTypeInv, PendingInv
<1> HIDE DEF c
<1> QED  BY <1>1, <1>3, <1>4, <1>5, ListingStep DEF v

LEMMA LaunchStep ==
    ASSUME AppInv, NEW d \in Devices, Launch(d)
    PROVE  AppInv'
<1> DEFINE v == Reconciled(view[d])
           c == [did \in Dids |-> IF Loads(v, did) THEN v.ptr[did] ELSE 0]
<1>1. /\ Write(d, v) /\ clients' = [clients EXCEPT ![d] = c]
      /\ pclients' = [pclients EXCEPT ![d] = pending'[d]]
      /\ UNCHANGED <<clock, ctx, scans, wish, valid>>
    BY DEF Launch
<1>2. PICK kept \in SUBSET pending[d] : pending' = [pending EXCEPT ![d] = kept]
    BY DEF Launch, GcPending
<1>3. v.ptr \in [Dids -> Pids \cup {0}]
    BY ReconciledGood DEF GoodView, Views
<1> HIDE DEF v
<1>4. c \in [Dids -> Pids \cup {0}] /\ \A did \in Dids : c[did] \in {0, clients[d][did], v.ptr[did]}
    BY <1>3
<1>5. pending' \in [Devices -> SUBSET Pids] /\ pclients' \in [Devices -> SUBSET Pids]
    BY <1>1, <1>2 DEF AppInv, AppTypeInv
<1>6. \A e \in Devices : pending'[e] \subseteq pending[e] /\ pclients'[e] \subseteq pending'[e]
    BY <1>1, <1>2 DEF AppInv, AppTypeInv, PendingInv
<1> HIDE DEF c
<1> QED  BY <1>1, <1>4, <1>5, <1>6, ListingStep DEF v

LEMMA RemovedStep ==
    ASSUME AppInv, NEW d \in Devices, NEW did \in Dids, Removed(d, did)
    PROVE  AppInv'
<1> DEFINE w == RemoveDaemon(view[d], did)
           v == Reconciled(w)
           c == [clients[d] EXCEPT ![did] = 0]
<1>1. /\ Write(d, v) /\ clients' = [clients EXCEPT ![d] = c]
      /\ valid' = [valid EXCEPT ![did] = 0] /\ wish' = [wish EXCEPT ![d] = @ \ Of(did)]
      /\ UNCHANGED <<ctx, pending, pclients, clock, scans>>
    BY DEF Removed, Notify
<1>2. GoodView(view[d]) /\ view[d].kc \in [Pids -> Nat] /\ view[d].hid \subseteq Pids
      /\ view[d].ptr \in [Dids -> Pids \cup {0}] /\ clients[d] \in [Dids -> Pids \cup {0}]
    BY ViewsAreGood DEF AppInv, AppTypeInv, Views
<1>3. /\ GoodView(w)
      /\ w.kc = Without(view[d].kc, PairingIds(view[d], did))
      /\ w.hid = view[d].hid \ (PairingIds(view[d], did) \cup {Legacy[did]})
      /\ w.ptr = [view[d].ptr EXCEPT ![did] = 0]
    BY <1>2, RemoveDaemonIs
<1>4. PairingIds(view[d], did) \subseteq Of(did) /\ Legacy[did] \in Of(did)
    BY <1>2, PairingIdsOf, AppPairingsAssumption DEF Of
<1>5. \A p \in Pids : w.kc[p] = IF p \in PairingIds(view[d], did) THEN 0 ELSE view[d].kc[p]
    BY <1>2, <1>3, WithoutIs
<1> HIDE DEF w
<1>6. /\ Calm(d, v) /\ v.hid = w.hid
      /\ \A x \in Dids : w.ptr[x] \notin w.hid => v.ptr[x] \notin w.hid
      /\ \A p \in Pids : Newest(p) /\ w.kc[p] = view[d].kc[p] => v.kc[p] = view[d].kc[p]
    BY <1>2, <1>3, <1>5, CalmReconciled DEF AppInv
<1> HIDE DEF v
<1>7. \A x \in Dids : valid'[x] # 0 /\ OnceScanned(valid[x]) => v.kc[valid[x]] = view[d].kc[valid[x]]
    <2> SUFFICES ASSUME NEW x \in Dids, valid'[x] # 0, OnceScanned(valid[x])
                 PROVE  v.kc[valid[x]] = view[d].kc[valid[x]]
        OBVIOUS
    <2>1. x # did /\ valid[x] # 0 /\ valid[x] \in Pids /\ DidOf[valid[x]] = x
        BY <1>1 DEF AppInv, AppTypeInv, PointsHome
    <2>2. Newest(valid[x]) /\ valid[x] \notin Of(did)
        BY <2>1 DEF AppInv, ValidInv, Of
    <2> QED  BY <2>1, <2>2, <1>4, <1>5, <1>6
<1>8. 0 \notin w.hid
    BY <1>2, <1>3, AppPairingsAssumption
<1>9. d \in Handhelds => \A x \in Dids : v.ptr[x] \notin v.hid /\ c[x] \notin v.hid
    <2> SUFFICES ASSUME d \in Handhelds, NEW x \in Dids
                 PROVE  v.ptr[x] \notin v.hid /\ c[x] \notin v.hid
        OBVIOUS
    <2>1. view[d].ptr[x] \notin view[d].hid /\ clients[d][x] \notin view[d].hid
        BY DEF AppInv, HidInv
    <2> QED  BY <2>1, <1>2, <1>3, <1>6, <1>8
<1>10. \A p \in wish'[d] : p \in wish[d] /\ (p \in v.hid \/ p \notin view[d].hid)
    BY <1>1, <1>3, <1>4, <1>6 DEF AppInv, AppTypeInv
<1>11. c \in [Dids -> Pids \cup {0}] /\ \A x \in Dids : c[x] \in {0, clients[d][x], v.ptr[x]}
    BY <1>2
<1>12. /\ pending' \in [Devices -> SUBSET Pids] /\ pclients' \in [Devices -> SUBSET Pids]
       /\ wish' \in [Devices -> SUBSET Pids] /\ valid' \in [Dids -> Pids \cup {0}]
    BY <1>1 DEF AppInv, AppTypeInv
<1>13. \A e \in Devices : pending'[e] \subseteq pending[e] /\ pclients'[e] \subseteq pending'[e]
    BY <1>1 DEF AppInv, PendingInv
<1>14. /\ \A q \in pending'[d] : wish'[d] \cap Of(DidOf[q]) = {}
       /\ \A e \in Devices \ {d} : wish'[e] = wish[e]
    BY <1>1 DEF AppInv, AppTypeInv, PendingInv
<1>15. \A x \in Dids : valid'[x] \in {0, valid[x]}
    BY <1>1 DEF AppInv, AppTypeInv
<1> HIDE DEF c
<1>16. CommitsNothing(d, v, c)
    BY <1>1, <1>6, <1>7, <1>9, <1>10, <1>11, <1>12, <1>13, <1>14, <1>15 DEF CommitsNothing
<1> QED  BY <1>16, CalmStep

LEMMA HideStep ==
    ASSUME AppInv, NEW d \in Devices, NEW did \in Dids, Hide(d, did)
    PROVE  AppInv'
<1> DEFINE w == HideLocally(view[d], did)
           v == Reconciled(w)
           c == [clients[d] EXCEPT ![did] = 0]
           S == pending[d] \cap Of(did)
<1>1. /\ Write(d, v) /\ clients' = [clients EXCEPT ![d] = c]
      /\ pending' = [pending EXCEPT ![d] = @ \ S] /\ pclients' = [pclients EXCEPT ![d] = @ \ S]
      /\ wish' = [wish EXCEPT ![d] = @ \cup PairingIds(view[d], did) \cup S]
      /\ UNCHANGED <<ctx, clock, valid, scans>>
    BY DEF Hide, Notify, RemovePending, DisposePending, SweptPending
<1>2. GoodView(view[d]) /\ view[d].kc \in [Pids -> Nat] /\ view[d].hid \subseteq Pids
      /\ view[d].ptr \in [Dids -> Pids \cup {0}] /\ clients[d] \in [Dids -> Pids \cup {0}]
    BY ViewsAreGood DEF AppInv, AppTypeInv, Views
<1>3. /\ GoodView(w) /\ w.kc = view[d].kc
      /\ w.hid = view[d].hid \cup PairingIds(view[d], did)
      /\ w.ptr = [view[d].ptr EXCEPT ![did] = 0]
    BY <1>2, HideLocallyIs
<1>4. PairingIds(view[d], did) \subseteq Of(did) /\ 0 \notin PairingIds(view[d], did)
    BY <1>2, PairingIdsOf
<1> HIDE DEF w
<1>6. /\ Calm(d, v) /\ v.hid = w.hid
      /\ \A x \in Dids : w.ptr[x] \notin w.hid => v.ptr[x] \notin w.hid
      /\ \A p \in Pids : Newest(p) => v.kc[p] = view[d].kc[p]
    BY <1>2, <1>3, CalmReconciled DEF AppInv
<1> HIDE DEF v
<1>7. \A x \in Dids : valid'[x] # 0 /\ OnceScanned(valid[x]) => v.kc[valid[x]] = view[d].kc[valid[x]]
    BY <1>1, <1>6 DEF AppInv, AppTypeInv, ValidInv
<1>8. 0 \notin w.hid
    BY <1>2, <1>3, <1>4, AppPairingsAssumption
<1>9. d \in Handhelds => \A x \in Dids : v.ptr[x] \notin v.hid /\ c[x] \notin v.hid
    <2> SUFFICES ASSUME d \in Handhelds, NEW x \in Dids
                 PROVE  v.ptr[x] \notin v.hid /\ c[x] \notin v.hid
        OBVIOUS
    <2>1. view[d].ptr[x] \notin view[d].hid /\ clients[d][x] \notin view[d].hid
        BY DEF AppInv, HidInv
    <2>2. CASE x = did
        BY <2>2, <1>2, <1>3, <1>6, <1>8
    <2>3. CASE x # did
        <3>1. w.ptr[x] \notin PairingIds(view[d], did)
            BY <2>3, <1>2, <1>3, <1>4 DEF GoodView, PointsHome, Of
        <3>2. c[x] = clients[d][x]
            BY <2>3, <1>2
        <3>3. clients[d][x] \notin PairingIds(view[d], did)
            <4>1. PointsHome(clients[d])
                BY DEF AppInv, AppTypeInv
            <4> QED  BY <2>3, <1>4, <4>1 DEF PointsHome, Of
        <3> QED  BY <2>1, <2>3, <3>1, <3>2, <3>3, <1>2, <1>3, <1>6
    <2> QED  BY <2>2, <2>3
<1>10. d \in Handhelds => \A p \in wish'[d] : p \in v.hid \/ (p \in wish[d] /\ p \notin view[d].hid)
                                               \/ (p \in pending[d] /\ p \notin pending'[d])
    BY <1>1, <1>3, <1>6 DEF AppInv, AppTypeInv
<1>5. \A p \in wish'[d] : p \in wish[d] \cup pending[d] \/ ~Uncommitted(p)
    <2>1. \A p \in PairingIds(view[d], did) : DidOf[p] = did /\ (view[d].kc[p] # 0 \/ view[d].ptr[did] = p)
        BY <1>4 DEF PairingIds, Stored, Of
    <2>2. \A p \in PairingIds(view[d], did) : ~Uncommitted(p)
        BY <2>1 DEF Uncommitted
    <2> QED  BY <1>1, <2>2 DEF AppInv, AppTypeInv
<1>11. c \in [Dids -> Pids \cup {0}] /\ \A x \in Dids : c[x] \in {0, clients[d][x], v.ptr[x]}
    BY <1>2
<1>12. /\ pending' \in [Devices -> SUBSET Pids] /\ pclients' \in [Devices -> SUBSET Pids]
       /\ valid' \in [Dids -> Pids \cup {0}]
    BY <1>1 DEF AppInv, AppTypeInv
<1>13. wish' \in [Devices -> SUBSET Pids]
    BY <1>1, <1>4, OfPids DEF AppInv, AppTypeInv
<1>14. \A e \in Devices : pending'[e] \subseteq pending[e] /\ pclients'[e] \subseteq pending'[e]
    BY <1>1 DEF AppInv, AppTypeInv, PendingInv
<1>15. \A q \in pending'[d] : wish'[d] \cap Of(DidOf[q]) = {}
    <2> SUFFICES ASSUME NEW q \in pending'[d], NEW p \in wish'[d], p \in Of(DidOf[q]) PROVE FALSE
        OBVIOUS
    <2>1. q \in pending[d] /\ q \in Pids /\ q \notin Of(did)
        BY <1>1 DEF AppInv, AppTypeInv
    <2>2. p \in wish[d] \/ p \in Of(did)
        BY <1>1, <1>4 DEF AppInv, AppTypeInv
    <2> QED  BY <2>1, <2>2 DEF AppInv, PendingInv, Of
<1>16. \A e \in Devices \ {d} : wish'[e] = wish[e]
    BY <1>1 DEF AppInv, AppTypeInv
<1> HIDE DEF c, S
<1>17. CommitsNothing(d, v, c)
    BY <1>1, <1>5, <1>6, <1>7, <1>9, <1>10, <1>11, <1>12, <1>13, <1>14, <1>15, <1>16 DEF CommitsNothing
<1> QED  BY <1>17, CalmStep

LEMMA IngestStep ==
    ASSUME AppInv, NEW d \in Devices, NEW p \in Pids, Ingest(d, p)
    PROVE  AppInv'
<1> USE DEF AppInv
<1> DEFINE v == UnhideForDaemon(view[d], DidOf[p], p)
<1>1. /\ scans' = [scans EXCEPT ![p] = @ + 1] /\ view' = [view EXCEPT ![d] = v]
      /\ pending' = [pending EXCEPT ![d] = @ \cup {p}]
      /\ pclients' = [pclients EXCEPT ![d] = @ \cup {p}]
      /\ wish' = [wish EXCEPT ![d] = @ \ Of(DidOf[p])]
      /\ UNCHANGED <<cloud, stale, clients, ctx, clock, valid>>
    BY DEF Ingest, PersistPending, BeginPending, bridge
<1>2. DidOf[p] \in Dids /\ p # 0 /\ Legacy[DidOf[p]] \in Of(DidOf[p]) /\ p \in Of(DidOf[p])
    BY AppPairingsAssumption DEF Of
<1>3. /\ GoodView(v) /\ v.kc = view[d].kc /\ v.ptr = view[d].ptr
      /\ v.hid = view[d].hid \ {p, Legacy[DidOf[p]]}
    BY <1>2, ViewsAreGood, UnhideIs
<1> HIDE DEF v
<1>4. \A e \in Devices : view'[e].kc = view[e].kc /\ view'[e].ptr = view[e].ptr
    BY <1>1, <1>3 DEF AppTypeInv
<1>5. /\ view'[d] = v /\ \A e \in Devices \ {d} : view'[e] = view[e]
      /\ wish'[d] = wish[d] \ Of(DidOf[p]) /\ \A e \in Devices \ {d} : wish'[e] = wish[e]
      /\ pending'[d] = pending[d] \cup {p} /\ \A e \in Devices \ {d} : pending'[e] = pending[e]
      /\ pclients'[d] = pclients[d] \cup {p} /\ \A e \in Devices \ {d} : pclients'[e] = pclients[e]
      /\ scans'[p] = scans[p] + 1 /\ \A q \in Pids \ {p} : scans'[q] = scans[q]
    BY <1>1 DEF AppTypeInv
<1>6. AppTypeInv'
    <2>1. view' \in [Devices -> Views] /\ \A e \in Devices : PointsHome(view'[e].ptr)
        BY <1>1, <1>3, <1>4 DEF AppTypeInv, GoodView
    <2>2. /\ pending' \in [Devices -> SUBSET Pids] /\ pclients' \in [Devices -> SUBSET Pids]
          /\ wish' \in [Devices -> SUBSET Pids] /\ scans' \in [Pids -> Nat]
        BY <1>1 DEF AppTypeInv
    <2> QED  BY <1>1, <2>1, <2>2 DEF AppTypeInv
<1>7. TimesInv' /\ SyncInv'
    BY <1>1, <1>4 DEF TimesInv, SyncInv
<1>8. \A q \in Pids : Uncommitted(q) => Uncommitted(q)'
    BY <1>1, <1>4 DEF Uncommitted
<1>9. \A q \in Pids \ {p} : Nowhere(q) => Nowhere(q)'
    BY <1>5, <1>8 DEF Nowhere
<1>10. ScanInv'
    <2> SUFFICES ASSUME NEW q \in Pids
                 PROVE  /\ scans'[q] = 0 => Nowhere(q)'
                        /\ \A e \in Devices : scans'[q] = 1 /\ q \in pending'[e] =>
                              Uncommitted(q)' /\ \A x \in Devices : q \in pending'[x] => x = e
        BY DEF ScanInv
    <2>1. CASE q # p
        <3>1. scans'[q] = scans[q] /\ \A e \in Devices : q \in pending'[e] <=> q \in pending[e]
            BY <2>1, <1>5
        <3> QED  BY <2>1, <3>1, <1>8, <1>9 DEF ScanInv
    <2>2. CASE q = p
        <3>1. scans[p] \in Nat
            BY DEF AppTypeInv
        <3>2. scans'[p] # 0 /\ (scans'[p] = 1 => scans[p] = 0)
            BY <3>1, <1>5
        <3>3. scans[p] = 0 => Uncommitted(p) /\ \A e \in Devices : p \notin pending[e]
            BY DEF ScanInv, Nowhere
        <3> QED  BY <2>2, <3>2, <3>3, <1>5, <1>8
    <2> QED  BY <2>1, <2>2
<1>11. WishInv'
    <2> SUFFICES ASSUME NEW e \in Handhelds, NEW q \in wish'[e]
                 PROVE  scans'[q] # 0 /\ (scans'[q] = 1 => q \in view'[e].hid \/ Nowhere(q)')
        BY DEF WishInv
    <2>1. e \in Devices /\ q \in Pids /\ q \in wish[e]
        BY <1>5, <1>6, DevicesAre DEF AppTypeInv
    <2>2. CASE q = p
        <3>1. scans[p] \in Nat /\ scans[p] # 0
            BY <2>1, <2>2 DEF AppTypeInv, WishInv
        <3> QED  BY <2>2, <3>1, <1>5
    <2>3. CASE q # p
        <3>1. scans'[q] = scans[q]
            BY <2>1, <2>3, <1>5
        <3>2. scans[q] # 0 /\ (scans[q] = 1 => q \in view[e].hid \/ Nowhere(q))
            BY <2>1 DEF WishInv
        <3>3. q \in view[e].hid => q \in view'[e].hid
            <4>1. CASE e = d
                BY <4>1, <2>1, <2>3, <1>2, <1>3, <1>5
            <4>2. CASE e # d
                BY <4>2, <2>1, <1>5
            <4> QED  BY <4>1, <4>2
        <3> QED  BY <2>1, <2>3, <3>1, <3>2, <3>3, <1>9
    <2> QED  BY <2>2, <2>3
<1>12. PendingInv'
    <2> SUFFICES ASSUME NEW e \in Devices
                 PROVE  /\ pclients'[e] \subseteq pending'[e]
                        /\ \A q \in pending'[e] : wish'[e] \cap Of(DidOf[q]) = {}
        BY DEF PendingInv
    <2>1. CASE e = d
        BY <2>1, <1>5 DEF PendingInv
    <2>2. CASE e # d
        BY <2>2, <1>5 DEF PendingInv
    <2> QED  BY <2>1, <2>2
<1>13. HidInv'
    BY <1>1, <1>3, <1>4, <1>5, DevicesAre DEF HidInv
<1>14. ValidInv'
    <2> SUFFICES ASSUME NEW did \in Dids, valid'[did] # 0, OnceScanned(valid[did])'
                 PROVE  Newest(valid[did])'
        BY DEF ValidInv
    <2>1. valid'[did] = valid[did] /\ valid[did] \in Pids /\ DidOf[valid[did]] = did
        BY <1>1 DEF AppTypeInv, PointsHome
    <2>2. scans[valid[did]] = 1
        <3>1. CASE valid[did] # p
            BY <3>1, <2>1, <1>1, <1>5 DEF OnceScanned
        <3>2. CASE valid[did] = p
            <4>1. scans[p] = 0
                <5>1. scans[p] \in Nat /\ scans'[p] = 1
                    BY <3>2, <2>1 DEF OnceScanned, AppTypeInv
                <5> QED  BY <5>1, <1>5
            <4> QED  BY <4>1, <3>2, <2>1 DEF ScanInv, Nowhere, Uncommitted
        <3> QED  BY <3>1, <3>2
    <2>3. Newest(valid[did])
        BY <2>1, <2>2 DEF ValidInv, OnceScanned
    <2> QED  BY <2>1, <2>3, <1>1, <1>4 DEF Newest
<1> QED  BY <1>6, <1>7, <1>10, <1>11, <1>12, <1>13, <1>14

LEMMA SyncStep ==
    ASSUME AppInv, NEW d \in Devices, NEW p \in Pids, Sync(d, p)
    PROVE  AppInv'
<1> USE DEF AppInv
<1>1. /\ view' = [view EXCEPT ![d].kc[p] = cloud[p]]
      /\ stale' = [stale EXCEPT ![d] = @ \ {p}]
      /\ UNCHANGED <<cloud, pending, pclients, clients, ctx, clock, wish, valid, scans>>
    BY DEF Sync, vm, bridge, history
<1>2. /\ view'[d].hid = view[d].hid /\ view'[d].ptr = view[d].ptr
      /\ view'[d].kc = [view[d].kc EXCEPT ![p] = cloud[p]]
      /\ view' \in [Devices -> Views]
      /\ \A e \in Devices \ {d} : view'[e] = view[e]
    <2>1. view \in [Devices -> Views] /\ cloud[p] \in Nat
        BY DEF AppTypeInv
    <2>2. view' = [view EXCEPT ![d] = [view[d] EXCEPT !.kc = [view[d].kc EXCEPT ![p] = cloud[p]]]]
        BY <1>1, <2>1
    <2>3. view[d] \in Views
        BY <2>1
    <2>4. [view[d].kc EXCEPT ![p] = cloud[p]] \in [Pids -> Nat]
        BY <2>1, <2>3 DEF Views
    <2>5. [view[d] EXCEPT !.kc = [view[d].kc EXCEPT ![p] = cloud[p]]] \in Views
        BY <2>3, <2>4 DEF Views
    <2>6. view'[d] = [view[d] EXCEPT !.kc = [view[d].kc EXCEPT ![p] = cloud[p]]]
        BY <2>1, <2>2
    <2> QED  BY <2>1, <2>2, <2>3, <2>5, <2>6 DEF Views
<1>3. \A q \in Pids : view'[d].kc[q] = IF q = p THEN cloud[p] ELSE view[d].kc[q]
    BY <1>2 DEF AppTypeInv, Views
<1>4. \A e \in Devices : view'[e].hid = view[e].hid /\ view'[e].ptr = view[e].ptr
    BY <1>2
<1>5. AppTypeInv'
    BY <1>1, <1>2, <1>4 DEF AppTypeInv
<1>6. TimesInv' /\ SyncInv'
    <2>1. TimesInv'
        BY <1>1, <1>2, <1>3 DEF TimesInv
    <2>2. SyncInv'
        BY <1>1, <1>2, <1>3 DEF SyncInv, AppTypeInv
    <2> QED  BY <2>1, <2>2
<1>7. \A q \in Pids : Uncommitted(q) => Uncommitted(q)'
    BY <1>1, <1>2, <1>3, <1>4 DEF Uncommitted
<1>8. \A q \in Pids : Nowhere(q) => Nowhere(q)'
    BY <1>1, <1>7 DEF Nowhere
<1>9. ScanInv'
    BY <1>1, <1>7, <1>8 DEF ScanInv
<1>10. WishInv'
    BY <1>1, <1>4, <1>8, DevicesAre DEF WishInv, AppTypeInv
<1>11. PendingInv' /\ HidInv'
    BY <1>1, <1>4, DevicesAre DEF PendingInv, HidInv
<1>12. \A q \in Pids : Newest(q) => Newest(q)'
    <2> SUFFICES ASSUME NEW q \in Pids, Newest(q) PROVE Newest(q)'
        OBVIOUS
    <2>1. \A e \in Devices : view'[e].kc[q] \in {0, cloud[q]}
        BY <1>2, <1>3 DEF Newest
    <2>2. \A x \in Of(DidOf[q]) \ {q} : \A e \in Devices : view'[e].kc[x] < cloud[q]
        BY <1>2, <1>3, OfPids DEF Newest
    <2> QED  BY <1>1, <2>1, <2>2 DEF Newest
<1>13. ValidInv'
    BY <1>1, <1>12 DEF ValidInv, OnceScanned, AppTypeInv
<1> QED  BY <1>5, <1>6, <1>9, <1>10, <1>11, <1>13

LEMMA PublishStep ==
    ASSUME AppInv, Publish
    PROVE  AppInv'
<1> USE DEF AppInv
<1> DEFINE v == view[Phone]
           S(did) == Visible(v) \cap Of(did)
<1>1. /\ ctx' = CommittedSnapshot(v)
      /\ UNCHANGED <<view, cloud, stale, pending, pclients, clients, clock, wish, valid, scans>>
    BY DEF Publish, store, vm, history
<1>2. v.kc \in [Pids -> Nat] /\ clock \in Nat /\ (\A p \in Pids : v.kc[p] <= clock) /\ Phone \in Devices
    BY DevicesAre DEF AppTypeInv, Views, TimesInv
<1> HIDE DEF v
<1>3. ASSUME NEW did \in Dids
      PROVE  /\ ctx'[did] \in [pid : Pids \cup {0}, ts : Nat]
             /\ ctx'[did].pid # 0 => /\ DidOf[ctx'[did].pid] = did
                                     /\ v.kc[ctx'[did].pid] # 0
                                     /\ ctx'[did].ts = v.kc[ctx'[did].pid]
             /\ ctx'[did].pid = 0 => ctx'[did].ts = 0
             /\ ctx'[did].ts <= clock
    <2>1. ctx'[did] = IF S(did) = {} THEN [pid |-> 0, ts |-> 0]
                      ELSE [pid |-> NewestOf(v, S(did)), ts |-> v.kc[NewestOf(v, S(did))]]
        BY <1>1 DEF CommittedSnapshot
    <2>2. CASE S(did) = {}
        BY <2>1, <2>2, <1>2
    <2>3. CASE S(did) # {}
        <3>1. NewestOf(v, S(did)) \in S(did)
            BY <2>3, <1>2, OfPids, NewestExists
        <3>2. \A p \in S(did) : p \in Pids /\ p # 0 /\ DidOf[p] = did /\ v.kc[p] # 0
            BY AppPairingsAssumption DEF Visible, Of
        <3> HIDE DEF S
        <3> QED  BY <2>1, <2>3, <3>1, <3>2, <1>2
    <2> QED  BY <2>2, <2>3
<1>4. ctx' \in [Dids -> [pid : Pids \cup {0}, ts : Nat]]
    <2>1. ctx' = [did \in Dids |-> ctx'[did]]
        BY <1>1 DEF CommittedSnapshot
    <2> QED  BY <2>1, <1>3
<1>5. AppTypeInv' /\ TimesInv' /\ SyncInv'
    <2>1. AppTypeInv'
        BY <1>1, <1>3, <1>4 DEF AppTypeInv
    <2>2. TimesInv' /\ SyncInv'
        BY <1>1, <1>3 DEF TimesInv, SyncInv
    <2> QED  BY <2>1, <2>2
<1>6. \A p \in Pids : Uncommitted(p) => Uncommitted(p)'
    <2> SUFFICES ASSUME NEW p \in Pids, Uncommitted(p) PROVE Uncommitted(p)'
        OBVIOUS
    <2>1. DidOf[p] \in Dids /\ p # 0 /\ v.kc[p] = 0
        BY <1>2, AppPairingsAssumption DEF Uncommitted, v
    <2>2. ctx'[DidOf[p]].pid # p
        BY <2>1, <1>3
    <2> QED  BY <1>1, <2>2 DEF Uncommitted
<1>7. \A p \in Pids : Nowhere(p) => Nowhere(p)'
    BY <1>1, <1>6 DEF Nowhere
<1>8. ScanInv'
    BY <1>1, <1>6, <1>7 DEF ScanInv
<1>9. WishInv'
    BY <1>1, <1>7, DevicesAre DEF WishInv, AppTypeInv
<1>10. PendingInv' /\ HidInv'
    BY <1>1 DEF PendingInv, HidInv
<1>11. \A p \in Pids : Newest(p) => Newest(p)'
    <2> SUFFICES ASSUME NEW p \in Pids, Newest(p) PROVE Newest(p)'
        OBVIOUS
    <2> DEFINE did == DidOf[p]
    <2>1. did \in Dids /\ p # 0 /\ cloud[p] \in Nat \ {0} /\ v.kc[p] \in {0, cloud[p]}
        BY <1>2, AppPairingsAssumption DEF AppTypeInv, Newest, v
    <2>2. \A q \in Of(did) \ {p} : v.kc[q] < cloud[p]
        BY <1>2 DEF Newest, v
    <2>3. IF ctx'[did].pid = p THEN ctx'[did].ts = cloud[p] ELSE ctx'[did].ts < cloud[p]
        <3>1. CASE ctx'[did].pid = 0
            BY <3>1, <2>1, <1>3
        <3>2. CASE ctx'[did].pid # 0
            <4>1. ctx'[did].pid \in Of(did) /\ v.kc[ctx'[did].pid] # 0
                  /\ ctx'[did].ts = v.kc[ctx'[did].pid]
                BY <3>2, <2>1, <1>3 DEF Of
            <4> QED  BY <4>1, <2>1, <2>2
        <3> QED  BY <3>1, <3>2
    <2> QED  BY <1>1, <2>3 DEF Newest
<1>12. ValidInv'
    BY <1>1, <1>11 DEF ValidInv, OnceScanned, AppTypeInv
<1> QED  BY <1>5, <1>8, <1>9, <1>10, <1>12

\* In v, as everywhere, no blob of p's daemon is as young as p.
Behind(v, p) ==
    /\ v.kc[p] \in {0, cloud[p]}
    /\ \A q \in Of(DidOf[p]) \ {p} : v.kc[q] < cloud[p]

LEMMA ReconciledBehind ==
    ASSUME AppTypeInv, NEW v, GoodView(v), \A q \in Pids : v.kc[q] <= clock,
           NEW p \in Pids, cloud[p] # 0, Behind(v, p)
    PROVE  Reconciled(v).kc[p] = v.kc[p] /\ Behind(Reconciled(v), p)
<1>1. clock \in Nat /\ cloud[p] \in Nat /\ v.kc \in [Pids -> Nat]
    BY DEF AppTypeInv, GoodView, Views
<1>2. /\ \A q \in Pids : Reconciled(v).kc[q] \in {0, v.kc[q]}
      /\ v.kc[p] # 0 /\ (\A q \in Of(DidOf[p]) \ {p} : v.kc[q] < v.kc[p]) =>
             Reconciled(v).kc[p] = v.kc[p]
    BY <1>1, ReconciledIs
<1>3. Reconciled(v).kc[p] = v.kc[p]
    BY <1>1, <1>2 DEF Behind
<1>4. \A q \in Of(DidOf[p]) \ {p} : Reconciled(v).kc[q] < cloud[p]
    BY <1>1, <1>2, OfPids DEF Behind
<1> QED  BY <1>3, <1>4 DEF Behind

LEMMA TakeSnapshotStep ==
    ASSUME AppInv, TakeSnapshot
    PROVE  AppInv'
<1> USE DEF AppInv
<1> DEFINE d == Watch
<1>0. PICK saves \in BOOLEAN :
        LET a == Adopted(view[d], ctx, saves)
            v == Reconciled(HideOthers(Reconciled(a), ctx))
        IN  Write(d, v) /\ ApplySyncedPairings(v)
    BY DEF TakeSnapshot
<1> DEFINE a == Adopted(view[d], ctx, saves)
           l == Reconciled(a)
           h == HideOthers(l, ctx)
           v == Reconciled(h)
<1>1. /\ Write(d, v) /\ ApplySyncedPairings(v)
      /\ UNCHANGED <<ctx, pending, pclients, clock, wish, valid, scans>>
    BY <1>0 DEF TakeSnapshot, history
<1>2. d \in Devices /\ d \notin Handhelds
    BY DevicesAre, AppPairingsAssumption
<1> HIDE DEF d
<1>3. /\ GoodView(view[d]) /\ ctx \in Snapshots /\ clock \in Nat
      /\ view[d].kc \in [Pids -> Nat] /\ view[d].ptr \in [Dids -> Pids \cup {0}]
    BY <1>2, ViewsAreGood DEF AppTypeInv, Snapshots, Views
<1>4. /\ GoodView(a)
      /\ \A p \in Pids : \/ a.kc[p] = view[d].kc[p]
                         \/ p = ctx[DidOf[p]].pid /\ a.kc[p] = ctx[DidOf[p]].ts
                         \/ p = ctx[DidOf[p]].pid /\ a.kc[p] = 0 /\ view[d].kc[p] < ctx[DidOf[p]].ts
      /\ \A did \in Dids : a.ptr[did] \in {view[d].ptr[did], ctx[did].pid}
    BY <1>3, AdoptedIs
<1> HIDE DEF a
<1>5. \A p \in Pids : a.kc[p] \in Nat /\ a.kc[p] <= clock
    <2> TAKE p \in Pids
    <2>1. DidOf[p] \in Dids /\ view[d].kc[p] <= clock /\ ctx[DidOf[p]].ts <= clock
        BY <1>2, AppPairingsAssumption DEF TimesInv
    <2> QED  BY <1>3, <1>4, <2>1 DEF GoodView, Views
<1>6. /\ GoodView(l) /\ \A p \in Pids : l.kc[p] \in {0, a.kc[p]}
      /\ \A did \in Dids : l.ptr[did] \in {0, a.ptr[did]} \/ l.ptr[did] \in Visible(a)
    BY <1>3, <1>4, <1>5, ReconciledIs
<1> HIDE DEF l
<1>7. GoodView(h) /\ h.kc = l.kc /\ \A did \in Dids : h.ptr[did] \in {0, l.ptr[did]}
    BY <1>6, HideOthersIs
<1> HIDE DEF h
<1>8. \A p \in Pids : h.kc[p] \in Nat /\ h.kc[p] <= clock
    BY <1>3, <1>5, <1>6, <1>7
<1>9. /\ GoodView(v) /\ \A p \in Pids : v.kc[p] \in {0, h.kc[p]}
      /\ \A did \in Dids : v.ptr[did] \in {0, h.ptr[did]} \/ v.ptr[did] \in Visible(h)
    BY <1>3, <1>7, <1>8, ReconciledIs
<1> HIDE DEF v
<1>10. /\ view' \in [Devices -> Views] /\ \A e \in Devices : PointsHome(view'[e].ptr)
       /\ view'[d] = v /\ \A e \in Devices \ {d} : view'[e] = view[e]
       /\ cloud' \in [Pids -> Nat] /\ stale' \in [Devices -> SUBSET Pids]
       /\ \A p \in Pids : cloud'[p] = IF v.kc[p] # view[d].kc[p] THEN v.kc[p] ELSE cloud[p]
       /\ SyncInv'
    BY <1>1, <1>2, <1>9, WriteIs
<1>11. TimesInv'
    BY <1>1, <1>3, <1>8, <1>9, <1>10 DEF TimesInv
<1> DEFINE c == clients'[d]
<1>12. /\ clients' \in [Devices -> [Dids -> Pids \cup {0}]]
       /\ \A e \in Devices \ {d} : clients'[e] = clients[e]
       /\ \A did \in Dids : clients'[d][did] \in {0, clients[d][did], v.ptr[did]}
    <2> DEFINE new == [did \in Dids |->
                  CASE v.ptr[did] = 0 /\ view[Watch].ptr[did] # 0 -> 0
                    [] Loads(v, did) /\ view[Watch].ptr[did] = 0 -> v.ptr[did]
                    [] OTHER -> clients[Watch][did]]
    <2>1. clients' = [clients EXCEPT ![d] = new]
        BY <1>1 DEF ApplySyncedPairings, d
    <2>2. \A did \in Dids : new[did] \in {0, clients[d][did], v.ptr[did]}
        BY DEF d
    <2>3. new \in [Dids -> Pids \cup {0}]
        <3>1. \A did \in Dids : clients[d][did] \in Pids \cup {0} /\ v.ptr[did] \in Pids \cup {0}
            BY <1>2, <1>9 DEF AppTypeInv, GoodView, Views
        <3>2. \A did \in Dids : new[did] \in Pids \cup {0}
            BY <2>2, <3>1
        <3> QED  BY <3>2
    <2> HIDE DEF new
    <2> QED  BY <2>1, <2>2, <2>3, <1>2 DEF AppTypeInv
<1>13. \A e \in Devices : PointsHome(clients'[e])
    <2>1. PointsHome(clients[d]) /\ PointsHome(v.ptr)
        BY <1>2, <1>9 DEF AppTypeInv, GoodView
    <2>2. PointsHome(clients'[d])
        BY <1>12, <2>1 DEF PointsHome
    <2> QED  BY <1>12, <2>2 DEF AppTypeInv
<1>14. AppTypeInv'
    BY <1>1, <1>10, <1>12, <1>13 DEF AppTypeInv
<1>15. \A p \in Pids : Uncommitted(p) => Uncommitted(p)'
    <2> SUFFICES ASSUME NEW p \in Pids, Uncommitted(p) PROVE Uncommitted(p)'
        OBVIOUS
    <2>1. DidOf[p] \in Dids /\ p # 0
        BY AppPairingsAssumption
    <2>2. /\ ctx[DidOf[p]].pid # p /\ view[d].kc[p] = 0 /\ view[d].ptr[DidOf[p]] # p
          /\ clients[d][DidOf[p]] # p
        BY <1>2 DEF Uncommitted
    <2>3. a.kc[p] = 0 /\ a.ptr[DidOf[p]] # p
        BY <1>4, <2>1, <2>2
    <2>4. l.kc[p] = 0 /\ l.ptr[DidOf[p]] # p
        BY <1>6, <2>1, <2>3 DEF Visible
    <2>5. h.kc[p] = 0 /\ h.ptr[DidOf[p]] # p
        BY <1>7, <2>1, <2>4
    <2>6. v.kc[p] = 0 /\ v.ptr[DidOf[p]] # p
        BY <1>9, <2>1, <2>5 DEF Visible
    <2>7. clients'[d][DidOf[p]] # p
        BY <1>12, <2>1, <2>2, <2>6
    <2>8. cloud'[p] = 0 /\ \A e \in Devices : view'[e].kc[p] = 0 /\ view'[e].ptr[DidOf[p]] # p
        BY <1>10, <2>2, <2>6 DEF Uncommitted
    <2>9. \A e \in Devices : clients'[e][DidOf[p]] # p
        BY <1>12, <2>7 DEF Uncommitted
    <2> QED  BY <1>1, <2>2, <2>8, <2>9 DEF Uncommitted
<1>16. \A p \in Pids : Nowhere(p) => Nowhere(p)'
    BY <1>1, <1>15 DEF Nowhere
<1>17. ScanInv'
    BY <1>1, <1>15, <1>16 DEF ScanInv
<1>18. WishInv'
    BY <1>1, <1>2, <1>10, <1>16, DevicesAre DEF WishInv, AppTypeInv
<1>19. PendingInv'
    BY <1>1 DEF PendingInv
<1>20. HidInv'
    BY <1>2, <1>10, <1>12, DevicesAre DEF HidInv
<1>21. \A p \in Pids : Newest(p) => Newest(p)'
    <2> SUFFICES ASSUME NEW p \in Pids, Newest(p) PROVE Newest(p)'
        OBVIOUS
    <2>1. DidOf[p] \in Dids /\ p # 0 /\ cloud[p] \in Nat /\ cloud[p] # 0
        BY AppPairingsAssumption DEF AppTypeInv, Newest
    <2>2. view[d].kc[p] \in {0, cloud[p]}
        BY <1>2 DEF Newest
    <2>3. a.kc[p] \in {view[d].kc[p], cloud[p]}
        BY <1>3, <1>4, <2>1, <2>2 DEF Newest
    <2>4. \A q \in Of(DidOf[p]) \ {p} : a.kc[q] < cloud[p]
        <3> TAKE q \in Of(DidOf[p]) \ {p}
        <3>1. q \in Pids /\ DidOf[q] = DidOf[p] /\ view[d].kc[q] < cloud[p]
            BY <1>2 DEF Of, Newest
        <3>2. q = ctx[DidOf[p]].pid => ctx[DidOf[p]].ts < cloud[p]
            BY DEF Newest
        <3> QED  BY <1>4, <2>1, <3>1, <3>2
    <2>5. Behind(a, p)
        BY <2>2, <2>3, <2>4 DEF Behind
    <2>6. l.kc[p] = a.kc[p] /\ Behind(l, p)
        BY <1>4, <1>5, <2>1, <2>5, ReconciledBehind DEF l
    <2>7. h.kc[p] = l.kc[p] /\ Behind(h, p)
        BY <1>7, <2>6 DEF Behind
    <2>8. v.kc[p] = h.kc[p] /\ Behind(v, p)
        BY <1>7, <1>8, <2>1, <2>7, ReconciledBehind DEF v
    <2>9. v.kc[p] \in {view[d].kc[p], cloud[p]} /\ \A q \in Of(DidOf[p]) \ {p} : v.kc[q] < cloud[p]
        BY <2>3, <2>6, <2>7, <2>8 DEF Behind
    <2> QED  BY <1>1, <1>2, <1>9, <2>9, NewestKept
<1>22. ValidInv'
    BY <1>1, <1>21 DEF ValidInv, OnceScanned, AppTypeInv
<1> QED  BY <1>10, <1>11, <1>14, <1>17, <1>18, <1>19, <1>20, <1>22

LEMMA PromoteConfirmedStep ==
    ASSUME AppInv, NEW d \in Devices, NEW p \in Pids, PromoteConfirmed(d, p)
    PROVE  AppInv'
<1> USE DEF AppInv
<1> DEFINE did == DidOf[p]
           w == Persist(view[d], p, clock + 1)
           v == Reconciled(w)
<1>1. /\ p \in pending[d] /\ clock' = clock + 1 /\ Write(d, v)
      /\ pending' = [pending EXCEPT ![d] = @ \ {p}]
      /\ pclients' = [pclients EXCEPT ![d] = @ \ {p}]
      /\ clients' = [clients EXCEPT ![d][did] = p]
      /\ valid' = [valid EXCEPT ![did] = p]
      /\ UNCHANGED <<ctx, wish, scans>>
    BY DEF PromoteConfirmed, Promote, RemovePending, DisposePending, Notify
<1>2. did \in Dids /\ p # 0 /\ p \in Of(did) /\ clock \in Nat /\ clock + 1 \in Nat \ {0}
    BY AppPairingsAssumption DEF AppTypeInv, Of
<1>3. /\ GoodView(view[d]) /\ view[d].kc \in [Pids -> Nat] /\ view[d].ptr \in [Dids -> Pids \cup {0}]
      /\ \A q \in Pids : view[d].kc[q] <= clock
    BY ViewsAreGood DEF AppTypeInv, Views, TimesInv
<1> HIDE DEF did
<1>4. /\ GoodView(w) /\ w.kc[p] = clock + 1
      /\ \A q \in Of(did) \ {p} : w.kc[q] = 0
      /\ \A q \in Pids \ Of(did) : w.kc[q] = view[d].kc[q]
      /\ w.hid \subseteq view[d].hid \ {p} /\ view[d].hid \ Of(did) \subseteq w.hid
      /\ w.ptr = [view[d].ptr EXCEPT ![did] = p]
    BY <1>2, <1>3, PersistIs DEF did
<1> HIDE DEF w
<1>5. \A q \in Pids : w.kc[q] \in Nat /\ w.kc[q] <= clock + 1
    BY <1>2, <1>3, <1>4
<1>6. /\ GoodView(v) /\ \A q \in Pids : v.kc[q] \in {0, w.kc[q]}
      /\ v.hid = w.hid
      /\ \A x \in Dids : v.ptr[x] \in {0, w.ptr[x]} \/ v.ptr[x] \in Visible(w)
      /\ \A x \in Dids : w.ptr[x] \notin w.hid => v.ptr[x] \notin w.hid
      /\ \A q \in Pids : w.kc[q] # 0 /\ (\A x \in Of(DidOf[q]) \ {q} : w.kc[x] < w.kc[q]) =>
            v.kc[q] = w.kc[q]
    BY <1>2, <1>4, <1>5, ReconciledIs
<1> HIDE DEF v
<1>7. v.kc[p] = clock + 1
    <2>1. \A x \in Of(DidOf[p]) \ {p} : w.kc[x] < w.kc[p]
        BY <1>2, <1>4 DEF did
    <2> QED  BY <1>2, <1>4, <1>6, <2>1
<1>8. \A q \in Of(did) \ {p} : v.kc[q] = 0
    BY <1>4, <1>6, OfPids
<1>9. \A q \in Pids \ Of(did) : v.kc[q] \in {0, view[d].kc[q]}
    BY <1>4, <1>6
<1>10. /\ view' \in [Devices -> Views] /\ \A e \in Devices : PointsHome(view'[e].ptr)
       /\ view'[d] = v /\ \A e \in Devices \ {d} : view'[e] = view[e]
       /\ cloud' \in [Pids -> Nat] /\ stale' \in [Devices -> SUBSET Pids]
       /\ \A q \in Pids : cloud'[q] = IF v.kc[q] # view[d].kc[q] THEN v.kc[q] ELSE cloud[q]
       /\ SyncInv'
    BY <1>1, <1>6, WriteIs
<1>11. TimesInv'
    <2>1. \A q \in Pids : v.kc[q] <= clock + 1 /\ v.kc[q] \in Nat
        BY <1>2, <1>5, <1>6
    <2>2. \A e \in Devices : \A q \in Pids : view'[e].kc[q] <= clock + 1
        <3> TAKE e \in Devices
        <3> TAKE q \in Pids
        <3>1. CASE e = d
            BY <3>1, <2>1, <1>10
        <3>2. CASE e # d
            <4>1. view[e].kc[q] \in Nat /\ view[e].kc[q] <= clock
                BY DEF AppTypeInv, Views, TimesInv
            <4> QED  BY <3>2, <4>1, <1>2, <1>10
        <3> QED  BY <3>1, <3>2
    <2>3. \A q \in Pids : cloud'[q] <= clock + 1
        <3> TAKE q \in Pids
        <3>1. cloud[q] \in Nat /\ cloud[q] <= clock
            BY DEF TimesInv, AppTypeInv
        <3> QED  BY <3>1, <2>1, <1>2, <1>10
    <2>4. \A x \in Dids : ctx[x].ts <= clock + 1
        BY <1>2 DEF TimesInv, AppTypeInv
    <2> QED  BY <1>1, <2>2, <2>3, <2>4 DEF TimesInv
<1>12. /\ clients' \in [Devices -> [Dids -> Pids \cup {0}]]
       /\ \A e \in Devices \ {d} : clients'[e] = clients[e]
       /\ clients'[d][did] = p /\ \A x \in Dids \ {did} : clients'[d][x] = clients[d][x]
       /\ valid' \in [Dids -> Pids \cup {0}]
       /\ valid'[did] = p /\ \A x \in Dids \ {did} : valid'[x] = valid[x]
    BY <1>1, <1>2 DEF AppTypeInv
<1>13. /\ pending' \in [Devices -> SUBSET Pids] /\ pclients' \in [Devices -> SUBSET Pids]
       /\ pending'[d] = pending[d] \ {p} /\ \A e \in Devices \ {d} : pending'[e] = pending[e]
       /\ pclients'[d] = pclients[d] \ {p} /\ \A e \in Devices \ {d} : pclients'[e] = pclients[e]
    BY <1>1 DEF AppTypeInv
<1>14. AppTypeInv'
    <2>1. \A e \in Devices : PointsHome(clients'[e])
        <3>1. \A e \in Devices : PointsHome(clients[e])
            BY DEF AppTypeInv
        <3> QED  BY <3>1, <1>2, <1>12 DEF PointsHome, did
    <2>2. PointsHome(valid')
        BY <1>2, <1>12 DEF AppTypeInv, PointsHome, did
    <2>3. clock' \in Nat /\ wish' \in [Devices -> SUBSET Pids] /\ scans' \in [Pids -> Nat]
        BY <1>1, <1>2 DEF AppTypeInv
    <2> QED  BY <1>1, <1>10, <1>12, <1>13, <2>1, <2>2, <2>3 DEF AppTypeInv
<1>15. \A q \in Pids \ {p} : Uncommitted(q) => Uncommitted(q)'
    <2> SUFFICES ASSUME NEW q \in Pids \ {p}, Uncommitted(q) PROVE Uncommitted(q)'
        OBVIOUS
    <2>1. DidOf[q] \in Dids /\ q # 0
        BY AppPairingsAssumption
    <2>2. /\ view[d].kc[q] = 0 /\ view[d].ptr[DidOf[q]] # q /\ clients[d][DidOf[q]] # q
          /\ valid[DidOf[q]] # q
        BY DEF Uncommitted
    <2>3. w.kc[q] = 0 /\ w.ptr[DidOf[q]] # q
        BY <1>2, <1>3, <1>4, <2>1, <2>2
    <2>4. v.kc[q] = 0 /\ v.ptr[DidOf[q]] # q
        BY <1>6, <2>1, <2>3 DEF Visible
    <2>5. clients'[d][DidOf[q]] # q /\ valid'[DidOf[q]] # q
        BY <1>12, <2>1, <2>2
    <2> QED  BY <1>1, <1>10, <1>12, <2>2, <2>4, <2>5 DEF Uncommitted
<1>16. \A q \in Pids \ {p} : Nowhere(q) => Nowhere(q)'
    BY <1>13, <1>15 DEF Nowhere
<1>17. scans[p] # 0 /\ ~Nowhere(p)
    BY <1>1 DEF ScanInv, Nowhere
<1>18. scans[p] = 1 => Uncommitted(p) /\ \A e \in Devices : p \in pending[e] => e = d
    BY <1>1 DEF ScanInv
<1>19. ScanInv'
    <2> SUFFICES ASSUME NEW q \in Pids
                 PROVE  /\ scans[q] = 0 => Nowhere(q)'
                        /\ \A e \in Devices : scans[q] = 1 /\ q \in pending'[e] =>
                              Uncommitted(q)' /\ \A x \in Devices : q \in pending'[x] => x = e
        BY <1>1 DEF ScanInv
    <2>1. CASE q = p
        BY <2>1, <1>13, <1>17, <1>18
    <2>2. CASE q # p
        BY <2>2, <1>13, <1>15, <1>16 DEF ScanInv
    <2> QED  BY <2>1, <2>2
<1>20. WishInv'
    <2> SUFFICES ASSUME NEW e \in Handhelds, NEW q \in wish[e]
                 PROVE  scans[q] # 0 /\ (scans[q] = 1 => q \in view'[e].hid \/ Nowhere(q)')
        BY <1>1 DEF WishInv
    <2>1. e \in Devices /\ q \in Pids
        BY DevicesAre DEF AppTypeInv
    <2>2. scans[q] # 0 /\ (scans[q] = 1 => q \in view[e].hid \/ Nowhere(q))
        BY DEF WishInv
    <2>3. q = p => q \in view[e].hid \/ scans[q] # 1
        BY <1>17, <2>2
    <2>4. q \in view[e].hid => q \in view'[e].hid
        <3>1. CASE e = d
            <4>1. q \notin Of(did)
                BY <3>1, <1>1 DEF PendingInv, did
            <4> QED  BY <3>1, <4>1, <1>4, <1>6, <1>10
        <3>2. CASE e # d
            BY <3>2, <2>1, <1>10
        <3> QED  BY <3>1, <3>2
    <2> QED  BY <2>1, <2>2, <2>3, <2>4, <1>16
<1>21. PendingInv'
    BY <1>1, <1>13 DEF PendingInv
<1>22. HidInv'
    <2> SUFFICES ASSUME NEW e \in Handhelds, NEW x \in Dids
                 PROVE  view'[e].ptr[x] \notin view'[e].hid /\ clients'[e][x] \notin view'[e].hid
        BY DEF HidInv
    <2>1. e \in Devices /\ view[e].ptr[x] \notin view[e].hid /\ clients[e][x] \notin view[e].hid
        BY DevicesAre DEF HidInv
    <2>2. CASE e # d
        BY <2>1, <2>2, <1>10, <1>12
    <2>3. CASE e = d
        <3>1. w.ptr[x] \notin w.hid
            BY <2>1, <2>3, <1>2, <1>3, <1>4
        <3>2. clients'[d][x] \notin w.hid
            BY <2>1, <2>3, <1>4, <1>12
        <3> QED  BY <2>3, <3>1, <3>2, <1>6, <1>10
    <2> QED  BY <2>2, <2>3
<1>23. scans[p] = 1 => Newest(p)'
    <2> SUFFICES ASSUME scans[p] = 1 PROVE Newest(p)'
        OBVIOUS
    <2>1. Uncommitted(p)
        BY <1>18
    <2>2. cloud'[p] = clock + 1
        BY <2>1, <1>2, <1>7, <1>10 DEF Uncommitted
    <2>3. \A e \in Devices : view'[e].kc[p] \in {0, clock + 1}
        BY <2>1, <1>7, <1>10 DEF Uncommitted
    <2>4. \A q \in Of(did) \ {p} :
              cloud'[q] < clock + 1 /\ \A e \in Devices : view'[e].kc[q] < clock + 1
        <3> TAKE q \in Of(did) \ {p}
        <3>1. q \in Pids /\ v.kc[q] = 0 /\ cloud[q] \in Nat /\ cloud[q] <= clock
            BY <1>8, OfPids DEF AppTypeInv, TimesInv
        <3>2. \A e \in Devices : view[e].kc[q] \in Nat /\ view[e].kc[q] <= clock
            BY <3>1 DEF AppTypeInv, Views, TimesInv
        <3> QED  BY <3>1, <3>2, <1>2, <1>10
    <2>5. ctx[did].pid # p /\ ctx[did].ts < clock + 1
        BY <2>1, <1>2 DEF Uncommitted, TimesInv, AppTypeInv, did
    <2> QED  BY <1>1, <1>2, <2>2, <2>3, <2>4, <2>5 DEF Newest, did
<1>24. ASSUME NEW q \in Pids, Newest(q), DidOf[q] # did
       PROVE  Newest(q)'
    <2>1. q \notin Of(did) /\ Of(DidOf[q]) \cap Of(did) = {}
        BY <1>24 DEF Of
    <2>2. cloud[q] \in Nat /\ cloud[q] # 0 /\ view[d].kc[q] \in {0, cloud[q]}
        BY <1>24 DEF Newest, AppTypeInv
    <2>3. \A x \in Of(DidOf[q]) \ {q} : w.kc[x] < cloud[q] /\ v.kc[x] < cloud[q]
        <3> TAKE x \in Of(DidOf[q]) \ {q}
        <3>1. x \in Pids /\ x \notin Of(did) /\ view[d].kc[x] < cloud[q]
            BY <2>1, <1>24, OfPids DEF Newest
        <3> QED  BY <3>1, <2>2, <1>4, <1>9
    <2>4. w.kc[q] = view[d].kc[q]
        BY <2>1, <1>4
    <2>5. v.kc[q] = view[d].kc[q]
        <3>1. CASE view[d].kc[q] = 0
            BY <3>1, <2>4, <1>6
        <3>2. CASE view[d].kc[q] # 0
            BY <3>2, <2>2, <2>3, <2>4, <1>6
        <3> QED  BY <3>1, <3>2
    <2> QED  BY <2>3, <2>5, <1>1, <1>6, <1>24, NewestKept
<1>25. ValidInv'
    <2> SUFFICES ASSUME NEW x \in Dids, valid'[x] # 0, OnceScanned(valid[x])'
                 PROVE  Newest(valid[x])'
        BY DEF ValidInv
    <2>1. CASE x = did
        <3>1. valid'[x] = p /\ scans[p] = 1
            BY <2>1, <1>1, <1>12 DEF OnceScanned
        <3> QED  BY <3>1, <1>23 DEF Newest
    <2>2. CASE x # did
        <3>1. valid'[x] = valid[x] /\ valid[x] \in Pids /\ DidOf[valid[x]] = x /\ scans[valid[x]] = 1
            BY <2>2, <1>1, <1>12 DEF OnceScanned, AppTypeInv, PointsHome
        <3>2. Newest(valid[x])
            BY <3>1 DEF ValidInv, OnceScanned
        <3>3. \A q \in Pids : q = valid[x] => Newest(q)'
            BY <2>2, <3>1, <3>2, <1>24
        <3> QED  BY <3>1, <3>3 DEF Newest
    <2> QED  BY <2>1, <2>2
<1> QED  BY <1>10, <1>11, <1>14, <1>19, <1>20, <1>21, <1>22, <1>25

-----------------------------------------------------------------------------
(* The theorems.                                                            *)

\* Every step keeps the invariant.
LEMMA AppNext == AppInv /\ [PairingsNext]_pairingsVars => AppInv'
<1> SUFFICES ASSUME AppInv, [PairingsNext]_pairingsVars PROVE AppInv'
    OBVIOUS
<1>1. ASSUME NEW d \in Devices, NEW p \in Pids,
             Sync(d, p) \/ Ingest(d, p) \/ Confirmed(d, p) \/ PromoteLate(d, p)
             \/ PromoteFails(d, p) \/ PromoteConfirmed(d, p) \/ CancelPending(d, p)
      PROVE  AppInv'
    <2>1. CASE Confirmed(d, p)
        BY <2>1, AppFrame DEF Confirmed, store, bridge, history
    <2> QED  BY <1>1, <2>1, SyncStep, IngestStep, PromoteLateStep, PromoteFailsStep,
                PromoteConfirmedStep, CancelPendingStep
<1>2. ASSUME NEW d \in Devices, NEW did \in Dids,
             Unpaired(d, did) \/ OnUnpair(d, did) \/ RemovePairing(d, did) \/ Hide(d, did)
      PROVE  AppInv'
    <2>1. CASE Unpaired(d, did)
        BY <2>1, AppFrame DEF Unpaired, store, bridge
    <2>2. CASE OnUnpair(d, did) \/ RemovePairing(d, did)
        BY <2>2, RemovedStep DEF OnUnpair, RemovePairing
    <2> QED  BY <1>2, <2>1, <2>2, HideStep
<1>3. ASSUME NEW d \in Devices, Nudge(d) \/ Launch(d)
      PROVE  AppInv'
    BY <1>3, NudgeStep, LaunchStep
<1>4. CASE UNCHANGED pairingsVars
    BY <1>4, AppFrame DEF pairingsVars, store, vm, bridge, history
<1> QED  BY <1>1, <1>2, <1>3, <1>4, PublishStep, TakeSnapshotStep DEF PairingsNext

\* What every device, iCloud and the bridge to the watch hold together: types, times,
\* what waits for a confirmation, what is hidden and where the pairing committed last
\* is (PairingStore.swift, TeleprompterApp.swift, PairingSyncBridge.swift).
THEOREM AppInvariant == PairingsSpec => []AppInv
<1>1. PairingsInit => AppInv
    BY AppInit
<1>2. AppInv /\ [PairingsNext]_pairingsVars => AppInv'
    BY AppNext
<1> QED  BY <1>1, <1>2, PTL DEF PairingsSpec

\* The pairing committed last stays in the keychain: it is the newest of its daemon's
\* at iCloud and everywhere it has arrived, so that listing, hiding, adopting and the
\* rollback of a save that failed delete others (PairingStore.swift:494-562, 624-647,
\* 757-884).
THEOREM PairingsSurvive == PairingsSpec => []PairingSurvives
<1>1. AppInv => PairingSurvives
    BY DEF AppInv, ValidInv, Newest, PairingSurvives
<1> QED  BY <1>1, AppInvariant, PTL

\* A pairing hidden on a device is neither its pointer nor a client there until it is
\* scanned again, whatever confirmations and blobs are on their way
\* (PairingStore.swift:624-647, TeleprompterApp.swift:866-877).
THEOREM HiddenPairingsStayHidden == PairingsSpec => []HiddenStaysHidden
<1>1. AppInv => HiddenStaysHidden
    <2> SUFFICES ASSUME AppInv, NEW d \in Handhelds, NEW p \in wish[d], OnceScanned(p)
                 PROVE  p \notin pclients[d] \cup {clients[d][DidOf[p]], view[d].ptr[DidOf[p]]}
        BY DEF HiddenStaysHidden
    <2>1. d \in Devices /\ p \in Pids /\ DidOf[p] \in Dids /\ p \in Of(DidOf[p])
        BY DevicesAre, AppPairingsAssumption DEF AppInv, AppTypeInv, Of
    <2>2. p \notin pclients[d]
        BY <2>1 DEF AppInv, PendingInv
    <2>3. p \in view[d].hid \/ Nowhere(p)
        BY DEF AppInv, WishInv, OnceScanned
    <2> QED  BY <2>1, <2>2, <2>3 DEF AppInv, HidInv, Nowhere, Uncommitted
<1> QED  BY <1>1, AppInvariant, PTL

\* When iCloud has delivered everything and a listing changes nothing, every phone and
\* Mac points at the pairing committed last unless it has hidden it
\* (PairingStore.swift:519-562).
THEOREM SettledDevicesAgree == PairingsSpec => []Agreed
<1>1. AppInv => Agreed
    <2> SUFFICES ASSUME AppInv, Settled, NEW d \in Handhelds, NEW did \in Dids,
                        valid[did] # 0, OnceScanned(valid[did])
                 PROVE  view[d].ptr[did] = valid[did] <=> valid[did] \notin view[d].hid
        BY DEF Agreed
    <2> DEFINE p == valid[did]
    <2>1. d \in Devices /\ p \in Pids /\ DidOf[p] = did /\ Newest(p)
        BY DevicesAre DEF AppInv, AppTypeInv, PointsHome, ValidInv
    <2>2. stale[d] = {} /\ Reconciled(view[d]) = view[d]
        BY DEF Settled
    <2>3. view[d].kc[p] = cloud[p]
        BY <2>1, <2>2 DEF AppInv, SyncInv
    <2>4. view[d].kc[p] # 0 /\ \A q \in Of(DidOf[p]) \ {p} : view[d].kc[q] < view[d].kc[p]
        BY <2>1, <2>3 DEF Newest
    <2>5. GoodView(view[d]) /\ clock \in Nat /\ \A q \in Pids : view[d].kc[q] <= clock
        BY <2>1, ViewsAreGood DEF AppInv, AppTypeInv, TimesInv
    <2> HIDE DEF p
    <2>6. p \notin view[d].hid => Reconciled(view[d]).ptr[DidOf[p]] = p
        BY <2>1, <2>4, <2>5, ReconciledIs
    <2>7. view[d].ptr[did] \notin view[d].hid
        BY DEF AppInv, HidInv
    <2> QED  BY <2>1, <2>2, <2>6, <2>7 DEF p
<1> QED  BY <1>1, AppInvariant, PTL
=============================================================================
