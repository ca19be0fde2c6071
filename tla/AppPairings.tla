----------------------------- MODULE AppPairings -----------------------------
(***************************************************************************)
(* The pairings of the app on several devices of one user.  A committed    *)
(* pairing is a blob in the keychain, which iCloud carries to the other    *)
(* devices item by item; which blob is a daemon's pairing (the pointer),   *)
(* which ones are hidden here (tombstones) and which are still to be       *)
(* confirmed (pending) is local.  Every listing reconciles the pointers    *)
(* with the blobs that have arrived, and deletes, everywhere, the blobs it *)
(* finds superseded.  The phone mirrors its pairings to the watch in one   *)
(* latest-wins slot.                                                       *)
(*                                                                         *)
(* A view [kc, hid, ptr] is what a device's PairingStore works on; the     *)
(* operations of the store are operators from views to views, and the      *)
(* actions are those of the view model and the sync bridge.  The keychain  *)
(* is readable (the device was unlocked once) but a save may fail.  The    *)
(* clocks of the devices agree and no two commits have the same time.      *)
(***************************************************************************)
EXTENDS Naturals, FiniteSets

CONSTANTS
    Handhelds,    \* devices with the full app: they scan, hide and remove
    Phone,        \* the one that mirrors its pairings to the watch
    Watch,
    Dids,         \* daemons
    Pids,         \* pairing ids, numbers
    DidOf,        \* DidOf[p]: the daemon pairing p is with
    Legacy,       \* Legacy[did]: deriveLegacyPairingId
    MaxOps        \* bound on scans, hides, removals, cancels, unpairs and launches

Devices == Handhelds \cup {Watch}

ASSUME AppPairingsAssumption ==
    /\ Phone \in Handhelds /\ Watch \notin Handhelds
    /\ Pids \subseteq Nat \ {0} /\ DidOf \in [Pids -> Dids]
    /\ Legacy \in [Dids -> Pids] /\ \A did \in Dids : DidOf[Legacy[did]] = did

VARIABLES
    view,      \* view[d] = [kc, hid, ptr]: time of each blob (0: absent), tombstones, pointers
    cloud,     \* the time of each blob at iCloud, 0 if absent
    stale,     \* stale[d]: blobs whose newest state has not reached d
    pending,   \* pending[d]: pairings scanned and not confirmed
    pclients,  \* pclients[d]: pendingClients
    clients,   \* clients[d][did]: pairing of the daemon's client, 0 if there is none
    tasks,     \* tasks[d]: main-actor tasks posted by clients, <<"confirmed", p>>, <<"unpair", did>>
    dirty,     \* has the phone's committed set changed since it was mirrored?
    ctx,       \* the application context: newest mirrored pid of each daemon, its time
    fresh,     \* has ctx not been delivered yet?
    clock, ops,
    wish,      \* wish[d]: pairings the user has hidden on d and not scanned since
    valid,     \* valid[did]: pairing committed last and not removed since, 0 if none
    scans      \* scans[p]: how often p was scanned, on any device

store == <<view, cloud, stale>>
vm == <<pending, pclients, clients, tasks>>
bridge == <<dirty, ctx, fresh>>
history == <<clock, ops, wish, valid, scans>>
pairingsVars == <<store, vm, bridge, history>>

-----------------------------------------------------------------------------
(* PairingStore: operators on a view. *)

Of(did) == {p \in Pids : DidOf[p] = did}
Stored(v, did) == {p \in Of(did) : v.kc[p] # 0}

\* pairingIds(forDaemon): what the keychain has, else the pointer.
PairingIds(v, did) ==
    IF Stored(v, did) # {} THEN Stored(v, did) ELSE {v.ptr[did]} \ {0}

Without(kc, S) == [p \in Pids |-> IF p \in S THEN 0 ELSE kc[p]]

HideLocally(v, did) == [v EXCEPT !.hid = @ \cup PairingIds(v, did), !.ptr[did] = 0]

UnhideForDaemon(v, did, p) == [v EXCEPT !.hid = @ \ {p, Legacy[did]}]

RemoveDaemon(v, did) ==
    LET S == PairingIds(v, did)
    IN  [v EXCEPT !.kc = Without(@, S), !.hid = @ \ (S \cup {Legacy[did]}), !.ptr[did] = 0]

\* persist: save, point, unhide, and sweep the daemon's other blobs.
Persist(v, p, ts) ==
    LET did == DidOf[p]
        saved == UnhideForDaemon([v EXCEPT !.kc[p] = ts, !.ptr[did] = p], did, p)
        old == PairingIds(saved, did) \ {p}
    IN  [saved EXCEPT !.kc = Without(@, old), !.hid = @ \ old]

\* KeychainRecordStore.save deletes the item before it adds it.
SaveFailed(v, p) == [v EXCEPT !.kc[p] = 0]

Visible(v) == {p \in Pids : v.kc[p] # 0 /\ p \notin v.hid}

\* Mutant: the oldest blob of a daemon wins.
OldestOf(v, S) == CHOOSE p \in S : \A q \in S : v.kc[p] <= v.kc[q]

NewestOf(v, S) == CHOOSE p \in S : \A q \in S : v.kc[q] <= v.kc[p]

\* Mutant: a daemon without a pointer never gets one here.
KnownOnly(v, did) ==
    LET S == Visible(v) \cap Of(did)
    IN  CASE S # {} /\ v.ptr[did] # 0 -> NewestOf(v, S)
          [] S = {} /\ v.ptr[did] \notin v.hid -> v.ptr[did]
          [] OTHER -> 0

\* The pointer of a daemon after reconciliation: the newest blob; the old
\* pointer while no blob is there, unless it is hidden.
Resolved(v, did) ==
    LET S == Visible(v) \cap Of(did)
    IN  IF S # {} THEN NewestOf(v, S)
        ELSE IF v.ptr[did] \in v.hid THEN 0 ELSE v.ptr[did]

\* reconciledPointers, which every listing calls.  With no visible blob at all
\* the pointers stay as they are.
Reconciled(v) ==
    LET losers == {p \in Visible(v) : p # NewestOf(v, Visible(v) \cap Of(DidOf[p]))}
    IN  IF Visible(v) = {} THEN v
        ELSE [kc |-> Without(v.kc, losers), hid |-> v.hid \ losers,
              ptr |-> [did \in Dids |-> Resolved(v, did)]]

\* committedSnapshot: the newest visible pairing of each daemon.
CommittedSnapshot(v) ==
    [did \in Dids |->
        LET S == Visible(v) \cap Of(did)
        IN  IF S = {} THEN [pid |-> 0, ts |-> 0]
            ELSE [pid |-> NewestOf(v, S), ts |-> v.kc[NewestOf(v, S)]]]

\* applyPeerSnapshot, the pairing of one daemon.
Adopt(v, did, in, saves) ==
    LET older == Stored(v, did) \ {in.pid}
        known == v.kc[in.pid] # 0
        v1 == UnhideForDaemon(v, did, in.pid)
        v2 == IF known THEN [v1 EXCEPT !.hid = @ \cup older] ELSE v1
        refused == \/ known /\ in.ts <= v.kc[in.pid]
                   \/ \E q \in older : in.ts < v.kc[q]
    IN  IF refused THEN v2
        ELSE IF ~saves THEN SaveFailed(v2, in.pid)
        ELSE [v2 EXCEPT !.kc[in.pid] = in.ts, !.ptr[did] = in.pid, !.hid = @ \cup older]

Incoming(snap) == {did \in Dids : snap[did].pid # 0}

Adopted(v, snap, saves) ==
    LET w(p) == IF DidOf[p] \in Incoming(snap)
                THEN Adopt(v, DidOf[p], snap[DidOf[p]], saves) ELSE v
    IN  [kc |-> [p \in Pids |-> w(p).kc[p]],
         hid |-> {p \in Pids : p \in w(p).hid},
         ptr |-> [did \in Dids |-> w(Legacy[did]).ptr[did]]]

\* ... and then the listed daemons the phone no longer has are hidden.
HideOthers(v, snap) ==
    LET S == {did \in Dids : v.ptr[did] # 0} \ Incoming(snap)
    IN  [v EXCEPT !.hid = @ \cup UNION {PairingIds(v, did) : did \in S},
                  !.ptr = [did \in Dids |-> IF did \in S THEN 0 ELSE @[did]]]

-----------------------------------------------------------------------------
\* The installation starts with the legacy pairing of every daemon, migrated.
Installed == [kc |-> [p \in Pids |-> IF \E did \in Dids : Legacy[did] = p THEN 1 ELSE 0],
              hid |-> {}, ptr |-> Legacy]
Fresh == [kc |-> [p \in Pids |-> 0], hid |-> {}, ptr |-> [did \in Dids |-> 0]]

PairingsInit ==
    /\ view = [d \in Devices |-> IF d = Watch THEN Fresh ELSE Installed]
    /\ cloud = Installed.kc
    /\ stale = [d \in Devices |-> IF d = Watch THEN {Legacy[did] : did \in Dids} ELSE {}]
    /\ pending = [d \in Devices |-> {}] /\ pclients = [d \in Devices |-> {}]
    /\ clients = [d \in Devices |-> [did \in Dids |-> IF d = Watch THEN 0 ELSE Legacy[did]]]
    /\ tasks = [d \in Devices |-> {}]
    /\ dirty = TRUE /\ fresh = FALSE
    /\ ctx = [did \in Dids |-> [pid |-> 0, ts |-> 0]]
    /\ clock = 1 /\ ops = 0
    /\ wish = [d \in Devices |-> {}]
    /\ valid = Legacy
    /\ scans = Installed.kc

\* What device d has written is at iCloud, and is news to the others.
Write(d, new) ==
    \E v \in {new} :
    LET changed == {p \in Pids : v.kc[p] # view[d].kc[p]}
    IN  /\ view' = [view EXCEPT ![d] = v]
        /\ cloud' = [p \in Pids |-> IF p \in changed THEN v.kc[p] ELSE cloud[p]]
        /\ stale' = [e \in Devices |->
                        IF e = d THEN stale[d] \ changed ELSE stale[e] \cup changed]

\* iCloud brings one item to a device.
Sync(d, p) ==
    /\ p \in stale[d]
    /\ view' = [view EXCEPT ![d].kc[p] = cloud[p]]
    /\ stale' = [stale EXCEPT ![d] = @ \ {p}]
    /\ UNCHANGED <<cloud, vm, bridge, history>>

Op == ops < MaxOps /\ ops' = ops + 1
Notify(d) == dirty' = (dirty \/ d = Phone) /\ UNCHANGED <<ctx, fresh>>

\* The pending pairings of a device, and their clients.
PersistPending(d, p) == pending' = [pending EXCEPT ![d] = @ \cup {p}]
RemovePending(d, S) == pending' = [pending EXCEPT ![d] = @ \ S]
GcPending(d) == \E kept \in SUBSET pending[d] : pending' = [pending EXCEPT ![d] = kept]
BeginPending(d, S) == pclients' = [pclients EXCEPT ![d] = @ \cup S]
DisposePending(d, S) == pclients' = [pclients EXCEPT ![d] = @ \ S]

\* promote: commit the pairing and drop the pending record.
Promote(d, p) ==
    /\ clock' = clock + 1
    /\ \E v \in {Persist(view[d], p, clock + 1)} : Write(d, Reconciled(v))
    /\ RemovePending(d, {p})

\* ingest, then beginPending.
Ingest(d, p) ==
    /\ d \in Handhelds /\ Op
    /\ scans' = [scans EXCEPT ![p] = @ + 1]
    /\ view' = [view EXCEPT ![d] = UnhideForDaemon(@, DidOf[p], p)]
    /\ PersistPending(d, p) /\ BeginPending(d, {p})
    /\ wish' = [wish EXCEPT ![d] = @ \ Of(DidOf[p])]
    /\ UNCHANGED <<cloud, stale, clients, tasks, bridge, clock, valid>>

\* The pending client has verified the daemon (resolvePromotion).
Confirmed(d, p) ==
    /\ p \in pclients[d]
    /\ tasks' = [tasks EXCEPT ![d] = @ \cup {<<"confirmed", p>>}]
    /\ UNCHANGED <<store, pending, pclients, clients, bridge, history>>

\* promoteConfirmed, when a hide, a cancel or an earlier task came first.
PromoteLate(d, p) ==
    /\ <<"confirmed", p>> \in tasks[d]
    /\ p \notin pclients[d] \cap pending[d]
    /\ tasks' = [tasks EXCEPT ![d] = @ \ {<<"confirmed", p>>}]
    /\ DisposePending(d, {p})
    /\ UNCHANGED <<store, pending, clients, bridge, history>>

PromoteFails(d, p) ==
    /\ <<"confirmed", p>> \in tasks[d]
    /\ p \in pclients[d] \cap pending[d]
    /\ tasks' = [tasks EXCEPT ![d] = @ \ {<<"confirmed", p>>}]
    /\ Write(d, SaveFailed(view[d], p))
    /\ UNCHANGED <<pending, pclients, clients, bridge, history>>

PromoteConfirmed(d, p) ==
    /\ <<"confirmed", p>> \in tasks[d]
    /\ p \in pclients[d] \cap pending[d]
    /\ tasks' = [tasks EXCEPT ![d] = @ \ {<<"confirmed", p>>}]
    /\ Promote(d, p) /\ DisposePending(d, {p})
    /\ clients' = [clients EXCEPT ![d][DidOf[p]] = p]
    /\ valid' = [valid EXCEPT ![DidOf[p]] = p]
    /\ Notify(d)
    /\ UNCHANGED <<ops, wish, scans>>

CancelPending(d, p) ==
    /\ p \in pending[d] /\ Op
    /\ RemovePending(d, {p}) /\ DisposePending(d, {p})
    /\ UNCHANGED <<store, clients, tasks, bridge, clock, wish, valid, scans>>

\* The client of a daemon is told control.unpair.
Unpaired(d, did) ==
    /\ d \in Handhelds /\ clients[d][did] # 0 /\ Op
    /\ tasks' = [tasks EXCEPT ![d] = @ \cup {<<"unpair", did>>}]
    /\ UNCHANGED <<store, pending, pclients, clients, bridge, clock, wish, valid, scans>>

Removed(d, did) ==
    /\ \E v \in {RemoveDaemon(view[d], did)} : Write(d, Reconciled(v))
    /\ clients' = [clients EXCEPT ![d][did] = 0]
    /\ valid' = [valid EXCEPT ![did] = 0]
    /\ wish' = [wish EXCEPT ![d] = @ \ Of(did)]
    /\ Notify(d)
    /\ UNCHANGED <<pending, pclients, clock, scans>>

OnUnpair(d, did) ==
    /\ <<"unpair", did>> \in tasks[d]
    /\ tasks' = [tasks EXCEPT ![d] = @ \ {<<"unpair", did>>}]
    /\ Removed(d, did)
    /\ UNCHANGED ops

RemovePairing(d, did) ==
    /\ d \in Handhelds /\ view[d].ptr[did] # 0 /\ Op
    /\ Removed(d, did)
    /\ UNCHANGED tasks

\* Mutant: pairings that wait for their confirmation stay.
PendingStays(d, did) == {}

\* The pending pairings hideLocally sweeps.
SweptPending(d, did) == pending[d] \cap Of(did)

Hide(d, did) ==
    /\ d \in Handhelds /\ view[d].ptr[did] # 0 /\ Op
    /\ \E v \in {HideLocally(view[d], did)} : Write(d, Reconciled(v))
    /\ clients' = [clients EXCEPT ![d][did] = 0]
    /\ RemovePending(d, SweptPending(d, did))
    /\ DisposePending(d, SweptPending(d, did))
    /\ wish' = [wish EXCEPT ![d] = @ \cup PairingIds(view[d], did)
                                     \cup (pending[d] \cap Of(did))]
    /\ Notify(d)
    /\ UNCHANGED <<tasks, clock, valid, scans>>

\* load(daemonId:): the pointer and its blob.
Loads(v, did) == v.ptr[did] # 0 /\ v.kc[v.ptr[did]] # 0

\* nudgeReconnectAll: list, and connect what has no client.  A daemon whose
\* blob is missing cannot be loaded.
Connected(d, v) ==
    [did \in Dids |-> IF clients[d][did] = 0 /\ Loads(v, did)
                      THEN v.ptr[did] ELSE clients[d][did]]

Nudge(d) ==
    \E v \in {Reconciled(view[d])} :
        /\ v # view[d] \/ Connected(d, v) # clients[d] \/ pclients[d] # pclients[d] \cup pending[d]
        /\ Write(d, v)
        /\ clients' = [clients EXCEPT ![d] = Connected(d, v)]
        /\ BeginPending(d, pending[d])
        /\ UNCHANGED <<pending, tasks, bridge, history>>

\* A new launch: old pending pairings are swept, the rest is connected; the
\* phone mirrors again, the watch applies the context again.
Launch(d) ==
    /\ Op
    /\ GcPending(d)
    /\ pclients' = [pclients EXCEPT ![d] = pending'[d]]
    /\ \E v \in {Reconciled(view[d])} :
         /\ Write(d, v)
         /\ clients' = [clients EXCEPT ![d] =
               [did \in Dids |-> IF Loads(v, did)
                                 THEN v.ptr[did] ELSE 0]]
    /\ tasks' = [tasks EXCEPT ![d] = {}]
    /\ dirty' = (dirty \/ d = Phone)
    /\ fresh' = (fresh \/ (d = Watch /\ \E did \in Dids : ctx[did].pid # 0))
    /\ UNCHANGED <<ctx, clock, wish, valid, scans>>

Publish ==
    /\ dirty /\ dirty' = FALSE
    /\ ctx' = CommittedSnapshot(view[Phone])
    /\ fresh' = TRUE
    /\ UNCHANGED <<store, vm, history>>

\* applySyncedPairings: daemons that were not listed before are connected, if
\* they can be loaded; clients of those no longer listed go.
ApplySyncedPairings(v) ==
    clients' = [clients EXCEPT ![Watch] = [did \in Dids |->
        CASE v.ptr[did] = 0 /\ view[Watch].ptr[did] # 0 -> 0
          [] Loads(v, did) /\ view[Watch].ptr[did] = 0 -> v.ptr[did]
          [] OTHER -> clients[Watch][did]]]

\* The watch takes the context, then its view model lists again.
TakeSnapshot ==
    /\ fresh /\ fresh' = FALSE
    /\ \E saves \in BOOLEAN :
       \E adopted \in {Adopted(view[Watch], ctx, saves)} :
       \E listed \in {Reconciled(adopted)} :
       \E v \in {Reconciled(HideOthers(listed, ctx))} :
            Write(Watch, v) /\ ApplySyncedPairings(v)
    /\ UNCHANGED <<dirty, ctx, pending, pclients, tasks, history>>

-----------------------------------------------------------------------------
PairingsNext ==
    \/ \E d \in Devices :
         \/ \E p \in Pids : Sync(d, p) \/ Ingest(d, p) \/ Confirmed(d, p) \/ PromoteLate(d, p)
                            \/ PromoteFails(d, p) \/ PromoteConfirmed(d, p) \/ CancelPending(d, p)
         \/ \E did \in Dids : Unpaired(d, did) \/ OnUnpair(d, did) \/ RemovePairing(d, did) \/ Hide(d, did)
         \/ Nudge(d) \/ Launch(d)
    \/ Publish \/ TakeSnapshot

PairingsSpec == PairingsInit /\ [][PairingsNext]_pairingsVars

-----------------------------------------------------------------------------
OnceScanned(p) == scans[p] = 1

\* The pairing committed last is in the keychain until the user or the daemon
\* removes it: no device that lists, hides, adopts or is behind deletes it
\* (PairingStore.swift:494-562, 624-647, 757-884).  A pairing id scanned twice
\* is left out: a device that is behind then takes it for the old one, and a save
\* that fails has deleted it.
PairingSurvives ==
    \A did \in Dids : valid[did] # 0 /\ OnceScanned(valid[did]) => cloud[valid[did]] # 0

\* What the user has hidden on a device is neither listed nor connected there
\* until it is scanned again: not by a confirmation that was on its way, not by
\* another blob of the daemon (PairingStore.swift:624-647, TeleprompterApp.swift:866-877).
HiddenStaysHidden ==
    \A d \in Handhelds : \A p \in wish[d] :
        OnceScanned(p) => p \notin pclients[d] \cup {clients[d][DidOf[p]], view[d].ptr[DidOf[p]]}

Settled == \A d \in Handhelds : stale[d] = {} /\ Reconciled(view[d]) = view[d]

\* Where iCloud has delivered everything and no listing changes anything, a phone
\* or Mac points at the pairing committed last exactly if it has not hidden it
\* (PairingStore.swift:519-562).  The watch is left out: its mirror is not refreshed
\* by what iCloud brings to the phone.
Agreed ==
    Settled => \A d \in Handhelds, did \in Dids :
        LET p == valid[did]
        IN  p # 0 /\ OnceScanned(p) => (view[d].ptr[did] = p <=> p \notin view[d].hid)
=============================================================================
