------------------------------ MODULE RelayRing ------------------------------
(***************************************************************************)
(* The relay's recent-frame cache (rust/tp-relay/src/ring.rs): for every   *)
(* "daemonId:sid" key the last CacheSize frames, and at most               *)
(* MaxKeysPerDaemon keys of one daemon, the oldest key giving way.         *)
(*                                                                         *)
(* A cache is a record [buffers, order]: buffers maps a key (a pair        *)
(* <<daemon, sid>>) to its frames, << >> when the key is absent, and order *)
(* is key_insertion_order.  The operators are pure; RelayCore keeps one    *)
(* cache among its variables.                                              *)
(***************************************************************************)
EXTENDS Naturals, FiniteSets, SequencesExt

CONSTANTS
    Daemons, Sids,
    CacheSize,          \* TP_RELAY_CACHE_SIZE
    MaxKeysPerDaemon    \* TP_RELAY_MAX_RECENT_FRAME_KEYS; 0 disables the cap

\* A cache size of 0 (caching disabled) is left out: a key would then exist
\* with no frames.
ASSUME RingAssumption == CacheSize \in Nat \ {0} /\ MaxKeysPerDaemon \in Nat

Keys == Daemons \X Sids

EmptyRing == [buffers |-> [k \in Keys |-> << >>], order |-> << >>]

CachedKeys(ring, d) == {k \in Keys : k[1] = d /\ ring.buffers[k] # << >>}

\* The elements of s at the positions I, in their order.
Retain(s, I) ==
    [n \in 1..Cardinality(I) |-> s[CHOOSE i \in I : Cardinality({j \in I : j <= i}) = n]]

\* The n keys of d that come first in the insertion order.
OldestKeys(ring, d, n) ==
    LET mine == {i \in DOMAIN ring.order : ring.order[i][1] = d}
    IN  {ring.order[i] : i \in {i \in mine : Cardinality({j \in mine : j <= i}) <= n}}

\* Mutant: a dropped key stays in the insertion order.
DropKeysOrderKept(ring, K) ==
    [buffers |-> [k \in Keys |-> IF k \in K THEN << >> ELSE ring.buffers[k]],
     order   |-> ring.order]

DropKeys(ring, K) ==
    [buffers |-> [k \in Keys |-> IF k \in K THEN << >> ELSE ring.buffers[k]],
     order   |-> Retain(ring.order, {i \in DOMAIN ring.order : ring.order[i] \notin K})]

\* The keys of d that have to go before another key of d is created.
KeysToEvict(ring, d) ==
    LET count == Cardinality(CachedKeys(ring, d))
    IN  IF count >= MaxKeysPerDaemon
        THEN OldestKeys(ring, d, (count + 1) - MaxKeysPerDaemon)
        ELSE {}

\* Room for a key: a known key needs none, and without a cap none is tracked.
MakeRoom(ring, key) ==
    IF ring.buffers[key] # << >> \/ MaxKeysPerDaemon = 0
    THEN ring
    ELSE LET kept == DropKeys(ring, KeysToEvict(ring, key[1]))
         IN  [kept EXCEPT !.order = Append(@, key)]

Trim(frames) ==
    SubSeq(frames, IF Len(frames) > CacheSize THEN Len(frames) - CacheSize + 1 ELSE 1,
           Len(frames))

PushFrame(ring, d, s, frame) ==
    LET roomy == MakeRoom(ring, <<d, s>>)
    IN  [roomy EXCEPT !.buffers[<<d, s>>] = Trim(Append(@, frame))]

ReplayAfter(ring, d, s, after) ==
    LET frames == ring.buffers[<<d, s>>]
    IN  Retain(frames, {i \in DOMAIN frames : frames[i].seq > after})

PurgeDaemons(ring, E) == DropKeys(ring, {k \in Keys : k[1] \in E})
=============================================================================
