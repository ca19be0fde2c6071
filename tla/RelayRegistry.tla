---------------------------- MODULE RelayRegistry ----------------------------
(***************************************************************************)
(* The relay's registry (rust/tp-relay/src/registry.rs): which daemons are *)
(* registered, which tokens authenticate whom, and what the relay believes *)
(* about each daemon (online, last seen, sessions, attached frontends).    *)
(*                                                                         *)
(* A HashMap is a total function here.  "Key absent" is None, or for       *)
(* daemon_states non-membership in `known`; the fields of a daemon that is *)
(* not known hold the values DaemonState::seed_offline would give them.    *)
(*                                                                         *)
(* Time: every use of last_seen compares now - last_seen with one of two   *)
(* timeouts, so the model keeps that difference, `quiet`, which Tick       *)
(* advances and which stops growing once it is past both timeouts.         *)
(***************************************************************************)
EXTENDS Integers, FiniteSets, SequencesExt

CONSTANTS
    Daemons, Tokens, Proofs, Sids,
    None,              \* Option::None
    Credentials,       \* the <<daemon, token, proof>> triples pairings hand out
    MaxRegistrations,  \* TP_RELAY_MAX_REGISTRATIONS; 0 disables the cap
    MaxSessions,       \* MAX_SESSIONS_PER_DAEMON
    AttachMax,         \* u32::MAX, where attach saturates
    StaleTimeout,      \* stale_timeout_ms, in ticks
    OfflineEvict       \* offline_evict_ms, in ticks

\* The sentinel is none of the values it stands in for the absence of.
ASSUME NoneAssumption ==
    /\ None \notin Daemons
    /\ None \notin Tokens
    /\ None \notin Proofs

\* A token is derived from one pairing secret, so it belongs to one daemon.
ASSUME CredentialsAssumption ==
    /\ Credentials \subseteq Daemons \X Tokens \X Proofs
    /\ \A c1, c2 \in Credentials : c1[2] = c2[2] => c1[1] = c2[1]

ASSUME BoundsAssumption ==
    /\ MaxRegistrations \in Nat
    /\ MaxSessions \in Nat \ {0}
    /\ AttachMax \in Nat \ {0}
    /\ StaleTimeout \in Nat
    /\ OfflineEvict \in Nat

VARIABLES
    registeredToken,   \* registrations[d].token
    registeredProof,   \* registrations[d].proof
    validTokens,       \* valid_tokens: token -> daemon
    known,             \* the keys of daemon_states
    online, quiet, stateToken, attached, sessions   \* DaemonState fields

registrationVars == <<registeredToken, registeredProof, validTokens>>
daemonStateVars == <<known, online, quiet, stateToken, attached, sessions>>
registryVars == <<registrationVars, daemonStateVars>>

Registered(d) == registeredToken[d] # None
Registrations == {d \in Daemons : Registered(d)}

\* Ticks after which both timeouts have passed: quiet saturates one above.
Horizon == IF StaleTimeout > OfflineEvict THEN StaleTimeout ELSE OfflineEvict

RegistryInit ==
    /\ registeredToken = [d \in Daemons |-> None]
    /\ registeredProof = [d \in Daemons |-> None]
    /\ validTokens = [t \in Tokens |-> None]
    /\ known = {}
    /\ online = [d \in Daemons |-> FALSE]
    /\ quiet = [d \in Daemons |-> 0]
    /\ stateToken = [d \in Daemons |-> None]
    /\ attached = [d \in Daemons |-> [s \in Sids |-> 0]]
    /\ sessions = [d \in Daemons |-> << >>]

-----------------------------------------------------------------------------
(* Operations on one DaemonState.                                          *)

AddSession(ss, s) ==
    LET grown == IF Contains(ss, s) THEN ss ELSE Append(ss, s)
    IN  IF Len(grown) > MaxSessions THEN Tail(grown) ELSE grown

Attach(att, s) == [att EXCEPT ![s] = IF @ < AttachMax THEN @ + 1 ELSE @]

\* One detach for every subscription in S; an absent key (0) stays absent.
Detach(att, S) == [s \in Sids |-> IF s \in S /\ att[s] > 0 THEN att[s] - 1
                                                            ELSE att[s]]

-----------------------------------------------------------------------------
(* Registry operations.                                                    *)

CapacityReached(d) ==
    /\ ~Registered(d)
    /\ MaxRegistrations > 0
    /\ Cardinality(Registrations) >= MaxRegistrations

OtherCredentials(d, p) ==
    /\ Registered(d)
    /\ registeredProof[d] # None
    /\ registeredProof[d] # p

RegisterAccepted(d, p) == ~CapacityReached(d) /\ ~OtherCredentials(d, p)

HandleRegister(d, t, p) ==
    LET rotated == Registered(d) /\ registeredToken[d] # t
        old == registeredToken[d]
    IN
    /\ RegisterAccepted(d, p)
    /\ validTokens' = [u \in Tokens |-> IF u = t THEN d
                                        ELSE IF rotated /\ u = old THEN None
                                        ELSE validTokens[u]]
    /\ registeredToken' = [registeredToken EXCEPT ![d] = t]
    /\ registeredProof' = [registeredProof EXCEPT ![d] = p]
    /\ known' = known \cup {d}
    /\ stateToken' = [stateToken EXCEPT ![d] =
                        IF (rotated /\ d \in known) \/ @ = None THEN t ELSE @]
    /\ UNCHANGED <<online, quiet, attached, sessions>>

\* The daemon's own arrival marks it online; a frontend's only makes it known.
UpsertDaemonState(d, isDaemon, tok) ==
    /\ known' = known \cup {d}
    /\ online' = [online EXCEPT ![d] = isDaemon \/ @]
    /\ quiet' = [quiet EXCEPT ![d] = IF isDaemon THEN 0 ELSE @]
    /\ stateToken' = [stateToken EXCEPT ![d] =
                        IF isDaemon /\ @ = None THEN tok ELSE @]
    /\ UNCHANGED <<attached, sessions>>

TokenAccepted(d, t) == validTokens[t] = d

HandleAuth(d, t, isDaemon) ==
    /\ TokenAccepted(d, t)
    /\ UpsertDaemonState(d, isDaemon, t)
    /\ registeredToken' = [registeredToken EXCEPT ![d] =
                             IF isDaemon /\ @ = None THEN t ELSE @]
    /\ UNCHANGED <<registeredProof, validTokens>>

HandleAuthResume(d, isDaemon) ==
    /\ Registered(d)
    /\ UpsertDaemonState(d, isDaemon, None)
    /\ UNCHANGED registrationVars

\* Mutant: the offline clock starts, but the daemon stays online.
DisconnectStaysOnline(d) ==
    /\ quiet' = [quiet EXCEPT ![d] = 0]
    /\ UNCHANGED <<known, online, stateToken, attached, sessions, registrationVars>>

DaemonDisconnect(d) ==
    /\ online' = [online EXCEPT ![d] = FALSE]
    /\ quiet' = [quiet EXCEPT ![d] = 0]
    /\ UNCHANGED <<known, stateToken, attached, sessions, registrationVars>>

FrontendDisconnect(d, subs) ==
    /\ attached' = [attached EXCEPT ![d] =
                      IF d \in known THEN Detach(@, subs) ELSE @]
    /\ UNCHANGED <<known, online, quiet, stateToken, sessions, registrationVars>>

FrontendAttach(d, s) ==
    /\ attached' = [attached EXCEPT ![d] =
                      IF d \in known THEN Attach(@, s) ELSE @]
    /\ UNCHANGED <<known, online, quiet, stateToken, sessions, registrationVars>>

DaemonPub(d, s) ==
    /\ sessions' = [sessions EXCEPT ![d] =
                      IF d \in known THEN AddSession(@, s) ELSE @]
    /\ quiet' = [quiet EXCEPT ![d] = 0]
    /\ UNCHANGED <<known, online, stateToken, attached, registrationVars>>

DaemonPing(d) ==
    /\ quiet' = [quiet EXCEPT ![d] = 0]
    /\ UNCHANGED <<known, online, stateToken, attached, sessions, registrationVars>>

NewlyOffline == {d \in known : online[d] /\ quiet[d] > StaleTimeout}
Evicted == {d \in known : /\ ~online[d] \/ d \in NewlyOffline
                          /\ quiet[d] > OfflineEvict}

\* Forget every daemon of E: its token, its registration and its state.
EvictDaemons(E) ==
    /\ validTokens' = [t \in Tokens |-> IF \E d \in E : stateToken[d] = t
                                        THEN None ELSE validTokens[t]]
    /\ registeredToken' = [d \in Daemons |-> IF d \in E THEN None ELSE registeredToken[d]]
    /\ registeredProof' = [d \in Daemons |-> IF d \in E THEN None ELSE registeredProof[d]]
    /\ known' = known \ E
    /\ quiet' = [d \in Daemons |-> IF d \in E THEN 0 ELSE quiet[d]]
    /\ stateToken' = [d \in Daemons |-> IF d \in E THEN None ELSE stateToken[d]]
    /\ attached' = [d \in Daemons |-> IF d \in E THEN [s \in Sids |-> 0] ELSE attached[d]]
    /\ sessions' = [d \in Daemons |-> IF d \in E THEN << >> ELSE sessions[d]]

CheckStaleDaemons ==
    /\ online' = [d \in Daemons |-> online[d] /\ d \notin NewlyOffline]
    /\ EvictDaemons(Evicted)

-----------------------------------------------------------------------------
(* The environment: time, and the loss of all of it when the relay stops.  *)

ClockTick ==
    /\ quiet' = [d \in Daemons |-> IF d \in known /\ quiet[d] <= Horizon
                                   THEN quiet[d] + 1 ELSE quiet[d]]
    /\ UNCHANGED <<known, online, stateToken, attached, sessions, registrationVars>>

RegistryRestart ==
    /\ registeredToken' = [d \in Daemons |-> None]
    /\ registeredProof' = [d \in Daemons |-> None]
    /\ validTokens' = [t \in Tokens |-> None]
    /\ known' = {}
    /\ online' = [d \in Daemons |-> FALSE]
    /\ quiet' = [d \in Daemons |-> 0]
    /\ stateToken' = [d \in Daemons |-> None]
    /\ attached' = [d \in Daemons |-> [s \in Sids |-> 0]]
    /\ sessions' = [d \in Daemons |-> << >>]

(* The registry on its own: its callers may make any call in any order.    *)
RegistryNext ==
    \/ \E c \in Credentials : HandleRegister(c[1], c[2], c[3])
    \/ \E c \in Credentials, isDaemon \in BOOLEAN : HandleAuth(c[1], c[2], isDaemon)
    \/ \E d \in Daemons, isDaemon \in BOOLEAN : HandleAuthResume(d, isDaemon)
    \/ \E d \in Daemons : DaemonDisconnect(d)
    \/ \E d \in Daemons, subs \in SUBSET Sids : FrontendDisconnect(d, subs)
    \/ \E d \in Daemons, s \in Sids : FrontendAttach(d, s)
    \/ \E d \in Daemons, s \in Sids : DaemonPub(d, s)
    \/ \E d \in Daemons : DaemonPing(d)
    \/ CheckStaleDaemons
    \/ ClockTick
    \/ RegistryRestart

RegistrySpec == RegistryInit /\ [][RegistryNext]_registryVars
-----------------------------------------------------------------------------
(* Properties.                                                             *)

RegistryTypeOK ==
    /\ registeredToken \in [Daemons -> Tokens \cup {None}]
    /\ registeredProof \in [Daemons -> Proofs \cup {None}]
    /\ validTokens \in [Tokens -> Daemons \cup {None}]
    /\ known \subseteq Daemons
    /\ online \in [Daemons -> BOOLEAN]
    /\ quiet \in [Daemons -> Nat]
    /\ stateToken \in [Daemons -> Tokens \cup {None}]
    /\ attached \in [Daemons -> [Sids -> Nat]]
    /\ sessions \in [Daemons -> Seq(Sids)]

\* A daemon is known exactly while it is registered, with its proof, and the
\* token kept for eviction is the token it registered last.
StateFollowsRegistration ==
    \A d \in Daemons :
        /\ d \in known <=> Registered(d)
        /\ Registered(d) <=> registeredProof[d] # None
        /\ stateToken[d] = registeredToken[d]

\* valid_tokens is the inverse of registrations: after any rotation, eviction
\* or re-registration a registered daemon's token authenticates it (it is not
\* locked out) and no token outlives its registration.
TokenIndexExact ==
    \A d \in Daemons, t \in Tokens : validTokens[t] = d <=> registeredToken[d] = t

\* A registered token is one that a pairing of that daemon handed out.
TokenOwned ==
    \A d \in Registrations : \E c \in Credentials : c[1] = d /\ c[2] = registeredToken[d]

RegistryConsistent == StateFollowsRegistration /\ TokenIndexExact /\ TokenOwned

\* The registration cap holds through every interleaving of registrations,
\* rotations, authentications and evictions.
CapRespected ==
    MaxRegistrations > 0 => Cardinality(Registrations) <= MaxRegistrations

\* Credentials are pinned by the first registration: a step that takes a
\* daemon's proof away is a restart of the relay, or it evicts a daemon that
\* has been quiet beyond the eviction TTL; no step swaps it for another.
CredentialsPinned ==
    [][\A d \in Daemons :
         (registeredProof[d] # None /\ registeredProof'[d] # registeredProof[d])
         => /\ registeredProof'[d] = None
            /\ quiet[d] > OfflineEvict \/ known' = {}]_registryVars
=============================================================================
