------------------------------- MODULE Push -------------------------------
(***************************************************************************)
(* Push notifications.  An application registers its device token over its *)
(* socket; the relay seals it (push_seal.rs) and hands the blob to the     *)
(* daemon, which keeps it in memory and in its store (notifier.rs).  A     *)
(* record of a notifying event makes the daemon send a push per token; the *)
(* relay opens the blob, samples whether the application is connected, and *)
(* spawns a task that notifies in band or goes through deduplication, the  *)
(* rate limit and APNs (conn.rs, push.rs, apns.rs).  A dead or unreadable  *)
(* token is reported back and evicted.                                     *)
(***************************************************************************)
EXTENDS Naturals, Sequences, FiniteSets

CONSTANTS
    Daemons,        \* pairings of this daemon, by daemon id
    Fids,           \* applications
    Events,         \* (sid, notifying event)
    ConnIds,        \* application sockets at the relay
    Tasks,          \* spawned finish_push_send tasks
    Limit, Window, MaxRetries,
    MaxTime, MaxInbox,
    MaxFaults,      \* bounds; faults are restarts, removals, new device tokens and
                    \* calls of the store that fail
    None

ASSUME PushAssumption ==
    /\ {MaxTime, MaxFaults, MaxInbox, MaxRetries} \subseteq Nat
    /\ {Limit, Window} \subseteq Nat \ {0}
    /\ None \notin ConnIds \cup Daemons \cup (Daemons \X Fids)
    /\ IsFiniteSet(Tasks)

VARIABLES
    device,     \* application -> number of its current device token
    conn,       \* socket -> None or <<daemon, application>>
    key,        \* version of the relay's sealing secret
    configured, \* the relay has APNs credentials
    paired,     \* pairings with a client in the pool
    tokens,     \* the notifier's map: application -> None or a blob
    rows,       \* push_tokens rows: application -> None or a blob
    slipped,    \* history: applications whose last call of the store failed
    sends,      \* pushes on their way to the relay
    inbox,      \* daemon id -> messages of the relay to its client
    task,       \* the relay's push tasks
    dedup,      \* <<application, event>> -> time sent, or None
    rate,       \* <<daemon, application>> -> None or [count, start]
    now, faults

vars == <<device, conn, key, configured, paired, tokens, rows, slipped, sends, inbox,
          task, dedup, rate, now, faults>>
appVars == <<device, conn>>
daemonVars == <<paired, tokens, rows, slipped>>
serviceVars == <<dedup, rate>>
worldVars == <<key, configured, now, faults>>

(* A sealed token: the secret's version, 0 for one kept from a time before *)
(* sealing, the device token, and the pairing it came through.             *)
Blob(v, dev, d) == [ver |-> v, dev |-> dev, d |-> d]
Idle == [pc |-> "idle"]

(* A stored token may be from before sealing, or sealed under an older      *)
(* secret than the relay still has.                                        *)
Init ==
    /\ device = [f \in Fids |-> 1]
    /\ conn = [k \in ConnIds |-> None]
    /\ key = 3 /\ configured \in BOOLEAN
    /\ paired = Daemons
    /\ rows \in [Fids -> {None} \cup {Blob(v, 1, d) : v \in 0..3, d \in Daemons}]
    /\ tokens = rows /\ slipped = {}
    /\ sends = {}
    /\ inbox = [d \in Daemons |-> <<>>]
    /\ task = [t \in Tasks |-> Idle]
    /\ dedup = [x \in Fids \X Events |-> None]
    /\ rate = [x \in Daemons \X Fids |-> None]
    /\ now = 0 /\ faults = 0

---------------------------------------------------------------------------
(* The application.  Having authenticated it registers its token, and so it *)
(* does on every open socket when the token changes.                       *)

(* route_push_register(): sealed under the current version and forwarded   *)
(* to the daemon of the group; without one it is dropped.                  *)
Registered(boxes, f, dev, ds) ==
    [d \in Daemons |-> IF d \in ds \cap paired
                       THEN Append(boxes[d], [type |-> "token", f |-> f, blob |-> Blob(key, dev, d)])
                       ELSE boxes[d]]

Referenced(k) == \E t \in Tasks : task[t].pc # "idle" /\ task[t].conn = k

AppConnects(k, d, f) ==
    /\ conn[k] = None /\ ~Referenced(k)
    /\ Len(inbox[d]) < MaxInbox
    /\ conn' = [conn EXCEPT ![k] = <<d, f>>]
    /\ inbox' = Registered(inbox, f, device[f], {d})
    /\ UNCHANGED <<device, daemonVars, sends, task, serviceVars, worldVars>>

(* The socket goes; a task that has just found it open is marked (history). *)
AppLeaves(k) ==
    /\ conn[k] # None
    /\ conn' = [conn EXCEPT ![k] = None]
    /\ task' = [t \in Tasks |-> IF task[t].pc = "deliver" /\ task[t].conn = k
                                THEN [task[t] EXCEPT !.raced = TRUE] ELSE task[t]]
    /\ UNCHANGED <<device, inbox, daemonVars, sends, serviceVars, worldVars>>

DeviceChanges(f) ==
    /\ faults < MaxFaults
    /\ faults' = faults + 1
    /\ \A d \in Daemons : Len(inbox[d]) < MaxInbox
    /\ device' = [device EXCEPT ![f] = @ + 1]
    /\ inbox' = Registered(inbox, f, device[f] + 1,
                           {d \in Daemons : \E k \in ConnIds : conn[k] = <<d, f>>})
    /\ UNCHANGED <<conn, daemonVars, sends, task, serviceVars, key, configured, now>>

---------------------------------------------------------------------------
(* The daemon: the notifier's map and the stored rows.  The results of the *)
(* store's calls are discarded.                                            *)
Stores(f, blob) ==
    \/ /\ rows' = [rows EXCEPT ![f] = blob] /\ slipped' = slipped \ {f}
       /\ UNCHANGED faults
    \/ /\ faults < MaxFaults /\ faults' = faults + 1
       /\ slipped' = slipped \cup {f}
       /\ UNCHANGED rows

SavePushToken(f, blob) == Stores(f, blob)
DeletePushToken(f) == Stores(f, None)
DeletePushTokensForDaemon(d) ==
    rows' = [f \in Fids |-> IF rows[f] # None /\ rows[f].d = d THEN None ELSE rows[f]]

(* Rows that cannot be read are as good as none.                           *)
LoadPushTokens ==
    \/ tokens' = rows /\ slipped' = {}
    \/ tokens' = [f \in Fids |-> None] /\ slipped' = Fids

RegisterSealedToken(f, blob) ==
    /\ tokens' = [tokens EXCEPT ![f] = blob]
    /\ SavePushToken(f, blob)

(* Variant: the eviction is not persisted.                                 *)
EvictInMemory(f) ==
    /\ tokens' = [tokens EXCEPT ![f] = None]
    /\ UNCHANGED <<rows, slipped, faults>>

(* handle_token_dead(), handle_unseal_failed(): whatever blob is held now. *)
Evict(f) ==
    IF tokens[f] = None THEN UNCHANGED <<tokens, rows, slipped, faults>>
    ELSE /\ tokens' = [tokens EXCEPT ![f] = None]
         /\ DeletePushToken(f)

(* build_events(): what the manager does on each of the client's events    *)
(* about pushes.                                                           *)
BuildEvents(m) ==
    CASE m.type = "token" -> RegisterSealedToken(m.f, m.blob)
      [] m.type = "evict" -> Evict(m.f)
      [] OTHER -> UNCHANGED <<tokens, rows, slipped, faults>>

(* The client of d handles the next message of the relay.                  *)
DaemonReads(d) ==
    /\ d \in paired /\ inbox[d] # <<>>
    /\ inbox' = [inbox EXCEPT ![d] = Tail(@)]
    /\ BuildEvents(Head(inbox[d]))
    /\ UNCHANGED <<appVars, paired, sends, task, serviceVars, key, configured, now>>

(* on_record() for a notifying event: one push per token, sent by a task   *)
(* of its own.                                                             *)
OnRecord(e) ==
    LET pushes == {[f |-> f, blob |-> tokens[f], event |-> e, to |-> None] :
                   f \in {x \in Fids : tokens[x] # None}} IN
    /\ pushes # {} /\ {p \in sends : p.event = e} = {}
    /\ sends' = sends \cup pushes
    /\ UNCHANGED <<appVars, inbox, daemonVars, task, serviceVars, worldVars>>

(* RelayClient::send_push(): a client that is not authenticated sends      *)
(* nothing.                                                                *)
SendPush(p, targets) ==
    \E authenticated \in SUBSET targets :
        sends' = (sends \ {p}) \cup {[p EXCEPT !.to = d] : d \in authenticated}

(* dispatch_push(): through the pairing the token came by, or, when that   *)
(* is gone, through all.                                                   *)
DispatchPush(p) ==
    /\ p \in sends /\ p.to = None
    /\ SendPush(p, IF p.blob.d \in paired THEN {p.blob.d} ELSE paired)
    /\ UNCHANGED <<appVars, inbox, daemonVars, task, serviceVars, worldVars>>

(* delete_pairing() takes the rows of the pairing; its client goes.        *)
Unpair(d) ==
    /\ d \in paired /\ faults < MaxFaults
    /\ faults' = faults + 1
    /\ paired' = paired \ {d}
    /\ DeletePushTokensForDaemon(d)
    /\ inbox' = [inbox EXCEPT ![d] = <<>>]
    /\ UNCHANGED <<appVars, tokens, slipped, sends, task, serviceVars, key, configured, now>>

(* The daemon restarts: PushNotifier::new() loads the rows.  What was on   *)
(* the way is lost, and tasks of the relay answer a socket that is gone.   *)
DaemonRestarts ==
    /\ faults < MaxFaults
    /\ faults' = faults + 1
    /\ LoadPushTokens
    /\ sends' = {}
    /\ inbox' = [d \in Daemons |-> <<>>]
    /\ task' = [t \in Tasks |-> IF task[t].pc = "idle" THEN Idle
                                ELSE [task[t] EXCEPT !.answer = FALSE]]
    /\ UNCHANGED <<appVars, paired, rows, serviceVars, key, configured, now>>

---------------------------------------------------------------------------
(* The relay takes a push.                                                 *)

(* PushSealer::unseal(): this version's secret, the previous one's, or a   *)
(* legacy token that was never sealed.                                     *)
Unseals(blob) == blob.ver = 0 \/ blob.ver = key \/ blob.ver + 1 = key

Say(d, type, f) ==
    inbox' = IF d \in paired
             THEN [inbox EXCEPT ![d] = Append(@, [type |-> type, f |-> f])] ELSE inbox

ConnsOf(d, f) == {k \in ConnIds : conn[k] = <<d, f>>}

(* Over a rate budget of the connection or its group: dropped.             *)
RelayThrottles(p) ==
    /\ p \in sends /\ p.to # None
    /\ sends' = sends \ {p}
    /\ UNCHANGED <<appVars, inbox, daemonVars, task, serviceVars, worldVars>>

RelayCannotUnseal(p) ==
    /\ p \in sends /\ p.to # None /\ ~Unseals(p.blob)
    /\ Len(inbox[p.to]) < MaxInbox
    /\ sends' = sends \ {p}
    /\ Say(p.to, "evict", p.f)
    /\ UNCHANGED <<appVars, daemonVars, task, serviceVars, worldVars>>

(* resolve_push_locked() samples the application's socket; the task is     *)
(* spawned, or, without APNs, an open socket is written to and that is all. *)
RelayTakes(p, t) ==
    /\ p \in sends /\ p.to # None /\ Unseals(p.blob)
    /\ task[t].pc = "idle" /\ Len(inbox[p.to]) < MaxInbox
    /\ sends' = sends \ {p}
    /\ task' = IF ~configured THEN task
               ELSE [task EXCEPT ![t] =
                        [pc |-> "run", f |-> p.f, d |-> p.to, dev |-> p.blob.dev,
                         event |-> p.event,
                         conn |-> IF ConnsOf(p.to, p.f) = {} THEN None
                                  ELSE CHOOSE k \in ConnsOf(p.to, p.f) : TRUE,
                         answer |-> TRUE, raced |-> FALSE, at |-> 0, tries |-> 0]]
    /\ UNCHANGED <<appVars, inbox, daemonVars, serviceVars, worldVars>>

(* Variant: the sampled socket is trusted.                                 *)
TrustSample(t) == task[t].conn # None

(* frontend_conn_live(): asked again once the task runs.                   *)
FrontendConnLive(t) == task[t].conn # None /\ conn[task[t].conn] = <<task[t].d, task[t].f>>

(* finish_push_send(): an open socket takes priority.                      *)
TaskRuns(t) ==
    /\ task[t].pc = "run"
    /\ task' = [task EXCEPT ![t].pc = IF FrontendConnLive(t) THEN "deliver" ELSE "guard"]
    /\ UNCHANGED <<appVars, inbox, daemonVars, sends, serviceVars, worldVars>>

(* deliver_actions() of the in-band notification: nothing tells when the   *)
(* socket has closed meanwhile.                                            *)
Delivers(t) ==
    /\ task[t].pc = "deliver"
    /\ task' = [task EXCEPT ![t] = Idle]
    /\ UNCHANGED <<appVars, inbox, daemonVars, sends, serviceVars, worldVars>>

(* send_or_deliver() while it holds the service's lock: deduplication, a   *)
(* rate window that is reset when it is over, the limit.                   *)
RateKey(t) == <<task[t].d, task[t].f>>
DedupKey(t) == <<task[t].f, task[t].event>>
Deduped(t) == dedup[DedupKey(t)] # None /\ now - dedup[DedupKey(t)] < Window
RateNow(t) == LET r == rate[RateKey(t)] IN
              IF r # None /\ now - r.start >= Window THEN [count |-> 0, start |-> now] ELSE r

(* Variant: one push too many is let through.                              *)
OverByOne(t) == RateNow(t) # None /\ RateNow(t).count > Limit

OverLimit(t) == RateNow(t) # None /\ RateNow(t).count >= Limit

GuardDedups(t) ==
    /\ task[t].pc = "guard" /\ Deduped(t)
    /\ task' = [task EXCEPT ![t] = Idle]
    /\ UNCHANGED <<appVars, inbox, daemonVars, sends, serviceVars, worldVars>>

Answer(t, type) == IF task[t].answer THEN Say(task[t].d, type, task[t].f) ELSE inbox' = inbox

GuardLimits(t) ==
    /\ task[t].pc = "guard" /\ ~Deduped(t) /\ OverLimit(t)
    /\ Answer(t, "error")
    /\ task' = [task EXCEPT ![t] = Idle]
    /\ rate' = [rate EXCEPT ![RateKey(t)] = RateNow(t)]
    /\ UNCHANGED <<appVars, daemonVars, sends, dedup, worldVars>>

GuardPasses(t) ==
    /\ task[t].pc = "guard" /\ ~Deduped(t) /\ ~OverLimit(t)
    /\ task' = [task EXCEPT ![t].pc = "apns", ![t].at = now]
    /\ rate' = [rate EXCEPT ![RateKey(t)] = RateNow(t)]
    /\ UNCHANGED <<appVars, inbox, daemonVars, sends, dedup, worldVars>>

(* ApnsClient::send(), one attempt.  APNs accepts a device's current token *)
(* and calls an old one dead.                                              *)
Current(t) == task[t].dev = device[task[t].f]

ApnsAccepts(t) ==
    /\ task[t].pc = "apns" /\ Current(t)
    /\ task' = [task EXCEPT ![t].pc = "commit"]
    /\ UNCHANGED <<appVars, inbox, daemonVars, sends, serviceVars, worldVars>>

(* The reasons Unregistered and BadDeviceToken.                            *)
DeadToken(t) == ~Current(t)

(* PUSH_TOKEN_DEAD.                                                        *)
ApnsDead(t) ==
    /\ task[t].pc = "apns" /\ DeadToken(t)
    /\ Answer(t, "evict")
    /\ task' = [task EXCEPT ![t] = Idle]
    /\ UNCHANGED <<appVars, daemonVars, sends, serviceVars, worldVars>>

(* Variant: attempts are not counted.                                      *)
AlwaysRetries(t) == TRUE

RetriesLeft(t) == task[t].tries < MaxRetries

(* 429, 5xx, a timeout, the network or the signing key: tried again after  *)
(* a pause while attempts are left.                                        *)
ApnsRetries(t) ==
    /\ task[t].pc = "apns" /\ RetriesLeft(t)
    /\ task' = [task EXCEPT ![t].tries = (@ + 1) % (MaxRetries + 1)]
    /\ UNCHANGED <<appVars, inbox, daemonVars, sends, serviceVars, worldVars>>

(* The same with no attempt left, or another 4xx: PUSH_DELIVERY_ERROR.     *)
ApnsFails(t) ==
    /\ task[t].pc = "apns"
    /\ Answer(t, "error")
    /\ task' = [task EXCEPT ![t] = Idle]
    /\ UNCHANGED <<appVars, daemonVars, sends, serviceVars, worldVars>>

(* The accepted push is counted and remembered, at the time of the guard.  *)
Commits(t) ==
    /\ task[t].pc = "commit"
    /\ dedup' = [dedup EXCEPT ![DedupKey(t)] = task[t].at]
    /\ rate' = [rate EXCEPT ![RateKey(t)] =
                   IF @ = None THEN [count |-> 1, start |-> task[t].at]
                   ELSE [count |-> @.count + 1, start |-> @.start]]
    /\ task' = [task EXCEPT ![t] = Idle]
    /\ UNCHANGED <<appVars, inbox, daemonVars, sends, worldVars>>

(* run_cleanup(), every 30 s when the service was made by start(); the     *)
(* relay makes it by new() and never cleans, which is a behaviour of this  *)
(* specification too: nothing obliges the cleanup to happen.               *)
RunCleanup ==
    /\ dedup' = [x \in Fids \X Events |->
                    IF dedup[x] # None /\ now - dedup[x] >= Window THEN None ELSE dedup[x]]
    /\ rate' = [x \in Daemons \X Fids |->
                   IF rate[x] # None /\ now - rate[x].start >= Window THEN None ELSE rate[x]]
    /\ <<dedup, rate>>' # <<dedup, rate>>
    /\ UNCHANGED <<appVars, inbox, daemonVars, sends, task, worldVars>>

Tick ==
    /\ now < MaxTime
    /\ now' = now + 1
    /\ UNCHANGED <<appVars, inbox, daemonVars, sends, task, serviceVars, key, configured, faults>>

(* The relay is started again with the next secret: every socket and task  *)
(* goes, and the service's tables with them.                               *)
RelayRestarts ==
    /\ faults < MaxFaults
    /\ faults' = faults + 1
    /\ key' = key + 1
    /\ conn' = [k \in ConnIds |-> None]
    /\ task' = [t \in Tasks |-> Idle]
    /\ inbox' = [d \in Daemons |-> <<>>]
    /\ sends' = {p \in sends : p.to = None}
    /\ dedup' = [x \in Fids \X Events |-> None]
    /\ rate' = [x \in Daemons \X Fids |-> None]
    /\ UNCHANGED <<device, daemonVars, configured, now>>

---------------------------------------------------------------------------
TaskStep(t) == \/ TaskRuns(t) \/ Delivers(t) \/ GuardDedups(t) \/ GuardLimits(t)
               \/ GuardPasses(t) \/ ApnsAccepts(t) \/ ApnsDead(t) \/ ApnsRetries(t)
               \/ ApnsFails(t) \/ Commits(t)

Next ==
    \/ \E k \in ConnIds : AppLeaves(k) \/ \E d \in Daemons, f \in Fids : AppConnects(k, d, f)
    \/ \E f \in Fids : DeviceChanges(f)
    \/ \E d \in Daemons : DaemonReads(d) \/ Unpair(d)
    \/ \E e \in Events : OnRecord(e)
    \/ \E p \in sends : \/ DispatchPush(p) \/ RelayThrottles(p) \/ RelayCannotUnseal(p)
                        \/ \E t \in Tasks : RelayTakes(p, t)
    \/ \E t \in Tasks : TaskStep(t)
    \/ DaemonRestarts \/ RunCleanup \/ Tick \/ RelayRestarts

Spec == Init /\ [][Next]_vars

(* The relay's tasks run, APNs answers or times out, and the daemon reads. *)
FairSpec ==
    /\ Spec
    /\ \A t \in Tasks : WF_vars(TaskStep(t))
    /\ \A d \in Daemons : WF_vars(DaemonReads(d))

---------------------------------------------------------------------------
InFlight(x) == {t \in Tasks : task[t].pc \in {"apns", "commit"} /\ RateKey(t) = x}

(* The limit on pushes is checked before APNs is awaited and counted after *)
(* it: an application gets at most the pushes in flight beyond its limit,  *)
(* over resets, cleanups and late commits (PushService::send_or_deliver).  *)
OvershootBounded ==
    \A x \in Daemons \X Fids :
        rate[x] # None => rate[x].count + Cardinality(InFlight(x)) < Limit + Cardinality(Tasks)

(* What is stored is what is used: a push token in the store is the one in *)
(* memory, so a restart brings back no token that was evicted or replaced, *)
(* unless the store's last call for that application failed: then the two  *)
(* part, and nothing but the next call that succeeds brings them together  *)
(* (PushNotifier, StorePushNotifierDeps).                                  *)
RowsAreLoaded ==
    \A f \in Fids \ slipped : rows[f] # None => rows[f] = tokens[f]

(* A push is given to a closed socket only when the socket closed after    *)
(* the task found it open: one that closed while the task waited to run    *)
(* leaves the push to APNs (finish_push_send, frontend_conn_live).         *)
ClosedSocketFallsBack ==
    \A t \in Tasks : task[t].pc = "deliver" /\ conn[task[t].conn] = None => task[t].raced

(* Every push the relay took comes to an end: retries run out.             *)
PushEnds == \A t \in Tasks : task[t].pc # "idle" ~> task[t].pc = "idle"
=============================================================================
