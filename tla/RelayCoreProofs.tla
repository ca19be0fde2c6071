--------------------------- MODULE RelayCoreProofs ---------------------------
(***************************************************************************)
(* The relay core for any number of connections, daemons and limiters:     *)
(* its critical sections use the registry only as the registry allows, so  *)
(* the registry's theorems hold of the whole relay; and the tables routing *)
(* looks connections up in stay consistent.                                *)
(***************************************************************************)
EXTENDS RelayCore, FiniteSetTheorems, TLAPS

-----------------------------------------------------------------------------
(* The registry on its own, for any number of daemons and tokens and any   *)
(* values of its limits and timeouts.                                      *)

USE BoundsAssumption

\* add_session keeps a session list a session list.
LEMMA AddSessionType ==
    ASSUME NEW ss \in Seq(Sids), NEW s \in Sids
    PROVE  AddSession(ss, s) \in Seq(Sids)
<1> DEFINE grown == IF Contains(ss, s) THEN ss ELSE Append(ss, s)
<1>1. grown \in Seq(Sids)
  OBVIOUS
<1>2. Len(grown) > MaxSessions => grown # << >>
  BY <1>1
<1> QED
  BY <1>1, <1>2 DEF AddSession

\* attach keeps the counts naturals.
LEMMA AttachType ==
    ASSUME NEW att \in [Sids -> Nat], NEW s \in Sids
    PROVE  Attach(att, s) \in [Sids -> Nat]
BY DEF Attach

\* detach keeps the counts naturals, because an absent key stays absent.
LEMMA DetachType ==
    ASSUME NEW att \in [Sids -> Nat], NEW S
    PROVE  Detach(att, S) \in [Sids -> Nat]
BY DEF Detach

\* Every call, sweep and restart keeps the registry's type.
LEMMA RegistryTypeStep ==
    ASSUME RegistryTypeOK, [RegistryNext]_registryVars
    PROVE  RegistryTypeOK'
<1> USE DEF RegistryTypeOK
<1>1. ASSUME NEW c \in Credentials, HandleRegister(c[1], c[2], c[3])
      PROVE  RegistryTypeOK'
  <2>1. c[1] \in Daemons /\ c[2] \in Tokens /\ c[3] \in Proofs
    BY CredentialsAssumption
  <2> QED
    BY <1>1, <2>1 DEF HandleRegister
<1>2. ASSUME NEW c \in Credentials, NEW isDaemon \in BOOLEAN,
             HandleAuth(c[1], c[2], isDaemon)
      PROVE  RegistryTypeOK'
  <2>1. c[1] \in Daemons /\ c[2] \in Tokens
    BY CredentialsAssumption
  <2> QED
    BY <1>2, <2>1 DEF HandleAuth, UpsertDaemonState
<1>3. ASSUME NEW d \in Daemons, NEW isDaemon \in BOOLEAN, HandleAuthResume(d, isDaemon)
      PROVE  RegistryTypeOK'
  BY <1>3 DEF HandleAuthResume, UpsertDaemonState, registrationVars
<1>4. ASSUME NEW d \in Daemons, DaemonDisconnect(d)
      PROVE  RegistryTypeOK'
  BY <1>4 DEF DaemonDisconnect, registrationVars
<1>5. ASSUME NEW d \in Daemons, NEW S \in SUBSET Sids, FrontendDisconnect(d, S)
      PROVE  RegistryTypeOK'
  <2>1. Detach(attached[d], S) \in [Sids -> Nat]
    BY DetachType
  <2> QED
    BY <1>5, <2>1 DEF FrontendDisconnect, registrationVars
<1>6. ASSUME NEW d \in Daemons, NEW s \in Sids, FrontendAttach(d, s)
      PROVE  RegistryTypeOK'
  <2>1. Attach(attached[d], s) \in [Sids -> Nat]
    BY AttachType
  <2> QED
    BY <1>6, <2>1 DEF FrontendAttach, registrationVars
<1>7. ASSUME NEW d \in Daemons, NEW s \in Sids, DaemonPub(d, s)
      PROVE  RegistryTypeOK'
  <2>1. AddSession(sessions[d], s) \in Seq(Sids)
    BY AddSessionType
  <2> QED
    BY <1>7, <2>1 DEF DaemonPub, registrationVars
<1>8. ASSUME NEW d \in Daemons, DaemonPing(d)
      PROVE  RegistryTypeOK'
  BY <1>8 DEF DaemonPing, registrationVars
<1>9. CASE CheckStaleDaemons
  BY <1>9 DEF CheckStaleDaemons, EvictDaemons
<1>10. CASE ClockTick
  BY <1>10 DEF ClockTick, registrationVars
<1>11. CASE RegistryRestart
  BY <1>11 DEF RegistryRestart
<1>12. CASE UNCHANGED registryVars
  BY <1>12 DEF registryVars, registrationVars, daemonStateVars
<1> QED
  BY <1>1, <1>2, <1>3, <1>4, <1>5, <1>6, <1>7, <1>8, <1>9, <1>10, <1>11, <1>12
     DEF RegistryNext

\* The registry's state keeps its type through every call, sweep and restart:
\* no count underflows and no table holds a foreign value.
THEOREM RegistryTypeCorrect == RegistrySpec => []RegistryTypeOK
<1>1. RegistryInit => RegistryTypeOK
  BY DEF RegistryInit, RegistryTypeOK
<1> QED
  BY <1>1, RegistryTypeStep, PTL DEF RegistrySpec

-----------------------------------------------------------------------------
(* The token index.  RegistryConsistent is inductive together with the     *)
(* type invariant: what makes it so is that a token belongs to one daemon  *)
(* (CredentialsAssumption), so that registering one daemon never takes     *)
(* another one's entry out of the index.                                   *)

Consistent == RegistryTypeOK /\ RegistryConsistent

\* A registration keeps the index the inverse of the registrations: the old
\* token leaves it, the new one enters it, and nobody else's is touched.
LEMMA RegisterConsistent ==
    ASSUME Consistent, NEW c \in Credentials, HandleRegister(c[1], c[2], c[3])
    PROVE  RegistryConsistent'
<1> DEFINE d == c[1]
           t == c[2]
<1> USE NoneAssumption DEF Consistent, RegistryTypeOK, Registered, Registrations
<1>1. d \in Daemons /\ t \in Tokens /\ c[3] \in Proofs
  BY CredentialsAssumption
<1>2. /\ registeredToken' = [registeredToken EXCEPT ![d] = t]
      /\ registeredProof' = [registeredProof EXCEPT ![d] = c[3]]
      /\ known' = known \cup {d}
      /\ validTokens' = [u \in Tokens |->
            IF u = t THEN d
            ELSE IF registeredToken[d] # None /\ registeredToken[d] # t /\ u = registeredToken[d]
                 THEN None ELSE validTokens[u]]
      /\ stateToken' = [stateToken EXCEPT ![d] =
            IF (registeredToken[d] # None /\ registeredToken[d] # t /\ d \in known) \/ @ = None
            THEN t ELSE @]
  BY DEF HandleRegister
<1>3. StateFollowsRegistration'
  BY <1>1, <1>2 DEF RegistryConsistent, StateFollowsRegistration
<1>4. \A e \in Daemons \ {d} : registeredToken[e] # t
  <2> SUFFICES ASSUME NEW e \in Daemons \ {d}, registeredToken[e] = t PROVE FALSE
    OBVIOUS
  <2>0. e \in {x \in Daemons : registeredToken[x] # None}
    BY <1>1
  <2>1. PICK b \in Credentials : b[1] = e /\ b[2] = registeredToken[e]
    BY <2>0 DEF RegistryConsistent, TokenOwned
  <2> QED
    BY <2>1, CredentialsAssumption
<1>5. TokenIndexExact'
  <2> SUFFICES ASSUME NEW e \in Daemons, NEW u \in Tokens
               PROVE  validTokens'[u] = e <=> registeredToken'[e] = u
    BY DEF TokenIndexExact
  <2>1. validTokens[u] = e <=> registeredToken[e] = u
    BY DEF RegistryConsistent, TokenIndexExact
  <2>2. validTokens[u] = d <=> registeredToken[d] = u
    BY <1>1 DEF RegistryConsistent, TokenIndexExact
  <2>3. CASE e = d
    BY <1>1, <1>2, <2>1, <2>3
  <2>4. CASE e # d
    BY <1>1, <1>2, <1>4, <2>1, <2>2, <2>4
  <2> QED
    BY <2>3, <2>4
<1>6. TokenOwned'
  BY <1>1, <1>2 DEF RegistryConsistent, TokenOwned
<1> QED
  BY <1>3, <1>5, <1>6 DEF RegistryConsistent

\* An authentication changes nothing the index depends on: its token is the
\* registered one.
LEMMA AuthConsistent ==
    ASSUME Consistent, NEW c \in Credentials, NEW isDaemon \in BOOLEAN,
           HandleAuth(c[1], c[2], isDaemon)
    PROVE  RegistryConsistent'
<1> USE NoneAssumption DEF Consistent, RegistryTypeOK, Registered, Registrations
<1>1. c[1] \in Daemons /\ c[2] \in Tokens
  BY CredentialsAssumption
<1>2. registeredToken[c[1]] = c[2] /\ c[1] \in known /\ stateToken[c[1]] = c[2]
  BY <1>1 DEF HandleAuth, TokenAccepted, RegistryConsistent, TokenIndexExact,
              StateFollowsRegistration
<1>3. UNCHANGED <<registeredToken, registeredProof, validTokens, known, stateToken>>
  BY <1>1, <1>2 DEF HandleAuth, UpsertDaemonState
<1> QED
  BY <1>3 DEF RegistryConsistent, StateFollowsRegistration, TokenIndexExact, TokenOwned

\* An eviction takes the token out of the index because stateToken, which it
\* goes by, is the registered token.
LEMMA EvictConsistent ==
    ASSUME Consistent, CheckStaleDaemons
    PROVE  RegistryConsistent'
<1> USE NoneAssumption DEF Consistent, RegistryTypeOK, Registered, Registrations
<1> DEFINE E == Evicted
<1>1. /\ validTokens' = [t \in Tokens |-> IF \E d \in E : stateToken[d] = t
                                           THEN None ELSE validTokens[t]]
      /\ registeredToken' = [d \in Daemons |-> IF d \in E THEN None ELSE registeredToken[d]]
      /\ registeredProof' = [d \in Daemons |-> IF d \in E THEN None ELSE registeredProof[d]]
      /\ known' = known \ E
      /\ stateToken' = [d \in Daemons |-> IF d \in E THEN None ELSE stateToken[d]]
  BY DEF CheckStaleDaemons, EvictDaemons
<1>2. E \subseteq Daemons
  BY DEF Evicted
<1> HIDE DEF E
<1>3. StateFollowsRegistration'
  BY <1>1, <1>2 DEF RegistryConsistent, StateFollowsRegistration
<1>4. TokenIndexExact'
  <2> SUFFICES ASSUME NEW e \in Daemons, NEW u \in Tokens
               PROVE  validTokens'[u] = e <=> registeredToken'[e] = u
    BY DEF TokenIndexExact
  <2>1. \A b \in Daemons : validTokens[u] = b <=> registeredToken[b] = u
    BY DEF RegistryConsistent, TokenIndexExact
  <2>2. \A b \in Daemons : stateToken[b] = registeredToken[b]
    BY DEF RegistryConsistent, StateFollowsRegistration
  <2>3. CASE \E b \in E : stateToken[b] = u
    BY <1>1, <1>2, <2>1, <2>2, <2>3
  <2>4. CASE ~\E b \in E : stateToken[b] = u
    BY <1>1, <1>2, <2>1, <2>2, <2>4
  <2> QED
    BY <2>3, <2>4
<1>5. TokenOwned'
  BY <1>1, <1>2 DEF RegistryConsistent, TokenOwned
<1> QED
  BY <1>3, <1>4, <1>5 DEF RegistryConsistent

\* A step that leaves registrations, index and state tokens alone.
LEMMA OthersConsistent ==
    ASSUME Consistent,
           UNCHANGED <<registeredToken, registeredProof, validTokens, known, stateToken>>
    PROVE  RegistryConsistent'
BY DEF Consistent, RegistryConsistent, StateFollowsRegistration, TokenIndexExact, TokenOwned,
       Registered, Registrations

\* The empty registry is consistent, at the start and after a restart.
LEMMA EmptyConsistent ==
    /\ RegistryInit => RegistryConsistent
    /\ RegistryRestart => RegistryConsistent'
BY NoneAssumption DEF RegistryInit, RegistryRestart, RegistryConsistent,
   StateFollowsRegistration, TokenIndexExact, TokenOwned, Registered, Registrations

\* Every call, sweep and restart keeps the registry consistent.
LEMMA RegistryConsistentStep ==
    ASSUME Consistent, [RegistryNext]_registryVars
    PROVE  RegistryConsistent'
<1>1. ASSUME NEW d \in Daemons, NEW isDaemon \in BOOLEAN, HandleAuthResume(d, isDaemon)
      PROVE  RegistryConsistent'
  <2>1. d \in known /\ (isDaemon /\ stateToken[d] = None => FALSE)
    BY <1>1, NoneAssumption
       DEF HandleAuthResume, Consistent, RegistryConsistent, StateFollowsRegistration, Registered
  <2>2. UNCHANGED <<registeredToken, registeredProof, validTokens, known, stateToken>>
    BY <1>1, <2>1 DEF HandleAuthResume, UpsertDaemonState, registrationVars,
                      Consistent, RegistryTypeOK
  <2> QED
    BY <2>2, OthersConsistent
<1>2. ASSUME NEW d \in Daemons, DaemonDisconnect(d) \/ DaemonPing(d)
      PROVE  RegistryConsistent'
  BY <1>2, OthersConsistent DEF DaemonDisconnect, DaemonPing, registrationVars
<1>3. ASSUME NEW d \in Daemons, NEW S \in SUBSET Sids, FrontendDisconnect(d, S)
      PROVE  RegistryConsistent'
  BY <1>3, OthersConsistent DEF FrontendDisconnect, registrationVars
<1>4. ASSUME NEW d \in Daemons, NEW s \in Sids, FrontendAttach(d, s) \/ DaemonPub(d, s)
      PROVE  RegistryConsistent'
  BY <1>4, OthersConsistent DEF FrontendAttach, DaemonPub, registrationVars
<1>5. CASE ClockTick
  BY <1>5, OthersConsistent DEF ClockTick, registrationVars
<1>6. CASE UNCHANGED registryVars
  BY <1>6, OthersConsistent DEF registryVars, registrationVars, daemonStateVars
<1> QED
  BY <1>1, <1>2, <1>3, <1>4, <1>5, <1>6, RegisterConsistent, AuthConsistent, EvictConsistent,
     EmptyConsistent DEF RegistryNext

\* valid_tokens stays the inverse of the registrations and every state follows
\* its registration, whatever the order of registrations, rotations, resumes,
\* evictions and restarts.
THEOREM RegistryStaysConsistent == RegistrySpec => []RegistryConsistent
<1>1. RegistryInit => Consistent
  BY EmptyConsistent DEF Consistent, RegistryInit, RegistryTypeOK
<1>2. Consistent /\ [RegistryNext]_registryVars => Consistent'
  BY RegistryTypeStep, RegistryConsistentStep DEF Consistent
<1>3. Consistent => RegistryConsistent
  BY DEF Consistent
<1> QED
  BY <1>1, <1>2, <1>3, PTL DEF RegistrySpec

-----------------------------------------------------------------------------
(* The registration cap.  The invariant carries that only finitely many    *)
(* daemons are registered, so no bound on the daemons there may be is      *)
(* needed.                                                                 *)

Capped == IsFiniteSet(Registrations) /\ CapRespected

\* A registration adds at most its own daemon, and a new one only below the cap.
LEMMA RegisterCapped ==
    ASSUME RegistryTypeOK, Capped, NEW c \in Credentials, HandleRegister(c[1], c[2], c[3])
    PROVE  Capped'
<1> DEFINE d == c[1]
<1>1. d \in Daemons /\ c[2] \in Tokens
  BY CredentialsAssumption
<1>2. Registrations' = Registrations \cup {d}
  BY <1>1, NoneAssumption DEF HandleRegister, Registrations, Registered, RegistryTypeOK
<1>3. IsFiniteSet(Registrations)'
  BY <1>2, FS_AddElement DEF Capped
<1>4. ASSUME MaxRegistrations > 0 PROVE Cardinality(Registrations)' <= MaxRegistrations
  <2>1. Cardinality(Registrations) \in Nat /\ Cardinality(Registrations) <= MaxRegistrations
    BY <1>4, FS_CardinalityType DEF Capped, CapRespected
  <2>2. CASE d \in Registrations
    <3>1. Registrations' = Registrations
      BY <1>2, <2>2
    <3> QED
      BY <2>1, <3>1
  <2>3. CASE d \notin Registrations
    <3>1. Cardinality(Registrations) < MaxRegistrations
      BY <1>1, <1>4, <2>1, <2>3
         DEF HandleRegister, RegisterAccepted, CapacityReached, Registrations
    <3>2. Cardinality(Registrations') = Cardinality(Registrations) + 1
      BY <1>2, <2>3, FS_AddElement DEF Capped
    <3> QED
      BY <2>1, <3>1, <3>2
  <2> QED
    BY <2>2, <2>3
<1> QED
  BY <1>3, <1>4 DEF Capped, CapRespected

\* A step that registers nobody new.
LEMMA FewerCapped ==
    ASSUME Capped, Registrations' \subseteq Registrations
    PROVE  Capped'
<1>1. /\ IsFiniteSet(Registrations)'
      /\ Cardinality(Registrations)' <= Cardinality(Registrations)
  BY FS_Subset DEF Capped
<1>2. Cardinality(Registrations) \in Nat /\ Cardinality(Registrations)' \in Nat
  BY <1>1, FS_CardinalityType DEF Capped
<1> QED
  BY <1>1, <1>2 DEF Capped, CapRespected

\* Only a registration registers; an authentication finds its daemon registered.
LEMMA CappedStep ==
    ASSUME Consistent, Capped, [RegistryNext]_registryVars
    PROVE  Capped'
<1> USE DEF Registrations, Registered
<1>1. ASSUME NEW c \in Credentials, HandleRegister(c[1], c[2], c[3])
      PROVE  Capped'
  BY <1>1, RegisterCapped DEF Consistent
<1>2. ASSUME NEW c \in Credentials, NEW isDaemon \in BOOLEAN, HandleAuth(c[1], c[2], isDaemon)
      PROVE  Capped'
  <2>1. c[1] \in Daemons /\ c[2] \in Tokens
    BY CredentialsAssumption
  <2>2. registeredToken[c[1]] = c[2]
    BY <1>2, <2>1 DEF HandleAuth, TokenAccepted, Consistent, RegistryConsistent, TokenIndexExact
  <2>3. registeredToken' = registeredToken
    BY <1>2, <2>1, <2>2, NoneAssumption DEF HandleAuth, Consistent, RegistryTypeOK
  <2> QED
    BY <2>3, FewerCapped
<1>3. CASE CheckStaleDaemons
  <2>1. Registrations' \subseteq Registrations
    BY <1>3 DEF CheckStaleDaemons, EvictDaemons, Consistent, RegistryTypeOK
  <2> QED
    BY <2>1, FewerCapped
<1>4. CASE RegistryRestart
  <2>1. Registrations' \subseteq Registrations
    BY <1>4 DEF RegistryRestart
  <2> QED
    BY <2>1, FewerCapped
<1>5. CASE UNCHANGED registeredToken
  BY <1>5, FewerCapped
<1> QED
  BY <1>1, <1>2, <1>3, <1>4, <1>5
     DEF RegistryNext, HandleAuthResume, DaemonDisconnect, FrontendDisconnect, FrontendAttach,
         DaemonPub, DaemonPing, ClockTick, registrationVars, registryVars

\* The relay never holds more registrations than its cap.
THEOREM CapHolds == RegistrySpec => []CapRespected
<1>1. RegistryInit => Consistent /\ Capped
  <2> SUFFICES ASSUME RegistryInit PROVE Consistent /\ Capped
    OBVIOUS
  <2>1. Consistent
    BY EmptyConsistent DEF Consistent, RegistryInit, RegistryTypeOK
  <2>2. Registrations = {}
    BY DEF RegistryInit, Registrations, Registered
  <2>3. Capped
    BY <2>2, FS_EmptySet DEF Capped, CapRespected
  <2> QED
    BY <2>1, <2>3
<1>2. Consistent /\ Capped /\ [RegistryNext]_registryVars => (Consistent /\ Capped)'
  BY RegistryTypeStep, RegistryConsistentStep, CappedStep DEF Consistent
<1>3. Capped => CapRespected
  BY DEF Capped
<1> QED
  BY <1>1, <1>2, <1>3, PTL DEF RegistrySpec

-----------------------------------------------------------------------------
\* The first registration pins a daemon's credentials: they change only when
\* the daemon is evicted after its TTL, or the relay restarts.
THEOREM CredentialsStayPinned == RegistrySpec => CredentialsPinned
<1> DEFINE Pinned ==
      \A d \in Daemons :
         (registeredProof[d] # None /\ registeredProof'[d] # registeredProof[d])
         => /\ registeredProof'[d] = None
            /\ quiet[d] > OfflineEvict \/ known' = {}
<1>1. RegistryInit => Consistent
  BY EmptyConsistent DEF Consistent, RegistryInit, RegistryTypeOK
<1>2. Consistent /\ [RegistryNext]_registryVars => Consistent'
  BY RegistryTypeStep, RegistryConsistentStep DEF Consistent
<1>3. ASSUME Consistent, [RegistryNext]_registryVars PROVE [Pinned]_registryVars
  <2> SUFFICES ASSUME NEW d \in Daemons, registeredProof[d] # None,
                      registeredProof'[d] # registeredProof[d]
               PROVE  /\ registeredProof'[d] = None
                      /\ quiet[d] > OfflineEvict \/ known' = {}
    OBVIOUS
  <2>1. ASSUME NEW c \in Credentials, HandleRegister(c[1], c[2], c[3])
        PROVE  FALSE
    <3>1. c[1] \in Daemons
      BY CredentialsAssumption
    <3>2. registeredProof' = [registeredProof EXCEPT ![c[1]] = c[3]]
      BY <2>1 DEF HandleRegister
    <3>3. c[1] = d
      BY <3>1, <3>2, <1>3 DEF Consistent, RegistryTypeOK
    <3>4. Registered(d)
      BY <1>3 DEF Consistent, RegistryConsistent, StateFollowsRegistration
    <3>5. registeredProof[d] = c[3]
      BY <2>1, <3>3, <3>4 DEF HandleRegister, RegisterAccepted, OtherCredentials
    <3> QED
      BY <1>3, <3>2, <3>3, <3>5 DEF Consistent, RegistryTypeOK
  <2>2. CASE CheckStaleDaemons
    <3>1. registeredProof' = [e \in Daemons |-> IF e \in Evicted THEN None ELSE registeredProof[e]]
      BY <2>2 DEF CheckStaleDaemons, EvictDaemons
    <3>2. d \in Evicted
      BY <3>1
    <3> QED
      BY <3>1, <3>2 DEF Evicted
  <2>3. CASE RegistryRestart
    BY <2>3 DEF RegistryRestart
  <2> QED
    BY <1>3, <2>1, <2>2, <2>3
       DEF RegistryNext, HandleAuth, HandleAuthResume, DaemonDisconnect, FrontendDisconnect,
           FrontendAttach, DaemonPub, DaemonPing, ClockTick, registrationVars, registryVars
<1> QED
  BY <1>1, <1>2, <1>3, PTL DEF RegistrySpec, CredentialsPinned

-----------------------------------------------------------------------------
(* The relay core.                                                         *)

\* An authenticated connection's daemon and subscriptions are real ones.
LEMMA AuthedHome ==
    ASSUME TypeOK, NEW c \in Conns, Authed(c)
    PROVE  home[c] \in Daemons /\ subs[c] \subseteq Sids
BY DEF TypeOK

\* The identity a peer presents names one of the daemons.
LEMMA IdentityParts ==
    ASSUME NEW id \in Identities
    PROVE  /\ id[1] \in Roles
           /\ id[2] \in Daemons
           /\ id[3] \in Fids \cup {None}
BY DEF Identities, Roles

-----------------------------------------------------------------------------
(* Every critical section makes at most one registry call.                 *)

LEMMA ClientIsRegistryStep ==
    ASSUME TypeOK, NEW c \in Conns, ClientStep(c)
    PROVE  RegistryNext \/ UNCHANGED registryVars
<1>1. ASSUME NEW cred \in Credentials, Register(c, cred)
      PROVE  RegistryNext \/ UNCHANGED registryVars
  BY <1>1 DEF Register, RegistryNext
<1>2. ASSUME NEW id \in Identities, NEW cred \in Credentials, Auth(c, id, cred)
      PROVE  RegistryNext \/ UNCHANGED registryVars
  <2>1. CASE HandleAuth(id[2], cred[2], id[1] = "daemon")
    <3>1. HandleAuth(cred[1], cred[2], id[1] = "daemon")
      BY <1>2, <2>1 DEF Auth
    <3> QED
      BY <3>1 DEF RegistryNext
  <2>2. CASE UNCHANGED registryVars
    BY <2>2
  <2> QED
    BY <1>2, <2>1, <2>2 DEF Auth
<1>3. ASSUME NEW id \in Identities, AuthResume(c, id)
      PROVE  RegistryNext \/ UNCHANGED registryVars
  <2>1. id[2] \in Daemons
    BY IdentityParts
  <2>2. CASE HandleAuthResume(id[2], id[1] = "daemon")
    BY <2>1, <2>2 DEF RegistryNext
  <2>3. CASE UNCHANGED registryVars
    BY <2>3
  <2> QED
    BY <1>3, <2>2, <2>3 DEF AuthResume
<1>4. ASSUME NEW s \in Sids, NEW n \in Seqs, RoutePublish(c, s, n)
      PROVE  RegistryNext \/ UNCHANGED registryVars
  BY <1>4, AuthedHome DEF RoutePublish, RegistryNext
<1>5. ASSUME NEW s \in Sids, NEW after \in Seqs \cup {0, None}, RouteSubscribe(c, s, after)
      PROVE  RegistryNext \/ UNCHANGED registryVars
  BY <1>5, AuthedHome DEF RouteSubscribe, RegistryNext
<1>6. ASSUME NEW s \in Sids, RouteUnsubscribe(c, s)
      PROVE  RegistryNext \/ UNCHANGED registryVars
  <2>1. home[c] \in Daemons /\ {s} \in SUBSET Sids
    BY <1>6, AuthedHome DEF RouteUnsubscribe
  <2> QED
    BY <1>6, <2>1 DEF RouteUnsubscribe, RegistryNext
<1>7. CASE RoutePing(c)
  BY <1>7, AuthedHome DEF RoutePing, RegistryNext
<1> QED
  BY <1>1, <1>2, <1>3, <1>4, <1>5, <1>6, <1>7
     DEF ClientStep, AuthWithoutFid, RateLimited, NotAuthenticated, RouteKeyExchange,
         RoutePushRegister

LEMMA CloseIsRegistryStep ==
    ASSUME TypeOK, NEW c \in Conns, HandleClose(c)
    PROVE  RegistryNext \/ UNCHANGED registryVars
<1>1. CASE role[c] = "frontend" /\ FrontendDisconnect(home[c], subs[c])
  <2>1. home[c] \in Daemons /\ subs[c] \in SUBSET Sids
    BY <1>1, AuthedHome, CoreAssumption DEF Authed, Roles
  <2> QED
    BY <1>1, <2>1 DEF RegistryNext
<1>2. ASSUME NEW d \in Daemons, DaemonDisconnect(d)
      PROVE  RegistryNext
  BY <1>2 DEF RegistryNext
<1> QED
  BY <1>1, <1>2 DEF HandleClose

LEMMA StepIsRegistryStep ==
    ASSUME TypeOK, [Next]_vars
    PROVE  [RegistryNext]_registryVars
<1>1. ASSUME NEW c \in Conns, Connect(c) \/ Close(c) \/ ForceClose(c) \/ ClientStep(c)
      PROVE  [RegistryNext]_registryVars
  BY <1>1, ClientIsRegistryStep, CloseIsRegistryStep DEF Connect, Close, ForceClose
<1>2. CASE StaleSweep
  BY <1>2 DEF StaleSweep, RegistryNext
<1>3. CASE Tick
  BY <1>3 DEF Tick, RegistryNext
<1>4. ASSUME NEW id \in Identities, ExpireResumeToken(id)
      PROVE  [RegistryNext]_registryVars
  BY <1>4 DEF ExpireResumeToken
<1>5. CASE Restart
  BY <1>5 DEF Restart, RegistryNext
<1>6. CASE UNCHANGED vars
  BY <1>6 DEF vars
<1> QED
  BY <1>1, <1>2, <1>3, <1>4, <1>5, <1>6 DEF Next

-----------------------------------------------------------------------------
(* The routing tables.  AuthedInGroup and SharedLimiter hold each other    *)
(* up: a group keeps its limiter because it is not empty, and it is not    *)
(* empty because everyone authenticated to the daemon is in it.            *)

CoreInv == TypeOK /\ AuthedInGroup /\ SharedLimiter

\* The part of TypeOK that is not the registry's.
ConnTypeOK ==
    /\ phase \in [Conns -> {"absent", "open", "removed"}]
    /\ role \in [Conns -> Roles \cup {None}]
    /\ home \in [Conns -> Daemons \cup {None}]
    /\ fid \in [Conns -> Fids \cup {None}]
    /\ subs \in [Conns -> SUBSET Sids]
    /\ limiterOf \in [Conns -> Limiters \cup {None}]
    /\ groups \in [Daemons -> SUBSET Conns]
    /\ groupLimiters \in [Daemons -> Limiters \cup {None}]
    /\ \A c \in Conns :
         /\ Authed(c) => phase[c] = "open" /\ home[c] # None
         /\ ~Authed(c) => home[c] = None /\ subs[c] = {} /\ limiterOf[c] = None

TableInv == ConnTypeOK /\ AuthedInGroup /\ SharedLimiter

LEMMA CoreInvParts ==
    CoreInv <=> RegistryTypeOK /\ TableInv /\ resumable \subseteq Identities
BY DEF CoreInv, TableInv, TypeOK, ConnTypeOK

\* Joining a group: whoever is first brings a limiter nobody else uses.
LEMMA RegisterAuthedConnTables ==
    ASSUME TableInv, NEW c \in Conns, NEW r \in Roles, NEW d \in Daemons,
           NEW f \in Fids \cup {None},
           RegisterAuthedConn(c, r, d, f), UNCHANGED phase
    PROVE  TableInv'
<1> USE CoreAssumption, NoneAssumption DEF TableInv, ConnTypeOK, Authed
<1>1. PICK l \in Limiters :
        /\ GroupLimiterFor(d, l)
        /\ groups' = [groups EXCEPT ![d] = @ \cup {c}]
        /\ IF phase[c] = "open"
           THEN /\ role' = [role EXCEPT ![c] = r]
                /\ home' = [home EXCEPT ![c] = d]
                /\ fid' = [fid EXCEPT ![c] = f]
                /\ subs' = [subs EXCEPT ![c] = {}]
                /\ limiterOf' = [limiterOf EXCEPT ![c] = l]
           ELSE UNCHANGED authVars
  BY DEF RegisterAuthedConn
<1>2. /\ groupLimiters' = [groupLimiters EXCEPT ![d] = l]
      /\ groupLimiters[d] # None => l = groupLimiters[d]
      /\ groupLimiters[d] = None => \A e \in Daemons : groupLimiters[e] # l
  BY <1>1 DEF GroupLimiterFor, LimitersInUse
<1>3. \A x \in Conns : Authed(x) /\ home[x] = d => groupLimiters[d] # None
  BY DEF AuthedInGroup, SharedLimiter
<1>4. \A e \in Daemons : groupLimiters'[e] # None <=> groups'[e] # {}
  BY <1>1, <1>2 DEF SharedLimiter
<1>5. \A e1, e2 \in Daemons :
        groupLimiters'[e1] = groupLimiters'[e2] /\ groupLimiters'[e1] # None => e1 = e2
  <2> SUFFICES ASSUME NEW e1 \in Daemons, NEW e2 \in Daemons, e1 # e2,
                      groupLimiters'[e1] = groupLimiters'[e2], groupLimiters'[e1] # None
               PROVE  FALSE
    OBVIOUS
  <2>1. groupLimiters[e1] = groupLimiters[e2] /\ groupLimiters[e1] # None => FALSE
    BY DEF SharedLimiter
  <2>2. CASE e1 = d
    BY <1>2, <2>1, <2>2
  <2>3. CASE e2 = d
    BY <1>2, <2>1, <2>3
  <2>4. CASE e1 # d /\ e2 # d
    BY <1>2, <2>1, <2>4
  <2> QED
    BY <2>2, <2>3, <2>4
<1>6. \A x \in Conns : Authed(x) => limiterOf[x] = groupLimiters'[home[x]]
  <2> SUFFICES ASSUME NEW x \in Conns, Authed(x)
               PROVE  limiterOf[x] = groupLimiters'[home[x]]
    OBVIOUS
  <2>1. limiterOf[x] = groupLimiters[home[x]] /\ home[x] \in Daemons
    BY DEF SharedLimiter
  <2> QED
    BY <1>2, <1>3, <2>1
<1>7. CASE phase[c] = "open"
  <2>1. ConnTypeOK'
    BY <1>1, <1>2, <1>7
  <2>2. AuthedInGroup'
    BY <1>1, <1>7 DEF AuthedInGroup
  <2>3. \A x \in Conns : Authed(x)' => limiterOf'[x] = groupLimiters'[home'[x]]
    BY <1>1, <1>2, <1>6, <1>7
  <2> QED
    BY <1>4, <1>5, <2>1, <2>2, <2>3 DEF SharedLimiter
<1>8. CASE phase[c] # "open"
  <2>1. UNCHANGED <<role, home, fid, subs, limiterOf>>
    BY <1>1, <1>8 DEF authVars
  <2>2. ConnTypeOK'
    BY <1>1, <1>2, <2>1
  <2>3. AuthedInGroup'
    BY <1>1, <2>1 DEF AuthedInGroup
  <2>4. \A x \in Conns : Authed(x)' => limiterOf'[x] = groupLimiters'[home'[x]]
    BY <1>6, <2>1
  <2> QED
    BY <1>4, <1>5, <2>2, <2>3, <2>4 DEF SharedLimiter
<1> QED
  BY <1>7, <1>8

\* Leaving: the limiter goes only with the last member of the group.
LEMMA HandleCloseTables ==
    ASSUME TableInv, NEW c \in Conns, HandleClose(c),
           phase' \in [Conns -> {"absent", "open", "removed"}],
           \A x \in Conns \ {c} : phase'[x] = phase[x]
    PROVE  TableInv'
<1> USE CoreAssumption, NoneAssumption DEF TableInv, ConnTypeOK, Authed
<1>1. /\ role' = [role EXCEPT ![c] = None]
      /\ home' = [home EXCEPT ![c] = None]
      /\ fid' = [fid EXCEPT ![c] = None]
      /\ subs' = [subs EXCEPT ![c] = {}]
      /\ limiterOf' = [limiterOf EXCEPT ![c] = None]
  BY DEF HandleClose
<1>2. CASE ~Authed(c) /\ UNCHANGED groupVars
  BY <1>1, <1>2 DEF groupVars, AuthedInGroup, SharedLimiter
<1>3. CASE Authed(c) /\ RemoveFromGroup(home[c], c)
  <2> DEFINE d == home[c]
  <2>1. d \in Daemons /\ c \in groups[d]
    BY <1>3 DEF AuthedInGroup
  <2>2. /\ groups' = [groups EXCEPT ![d] = @ \ {c}]
        /\ groupLimiters' = [groupLimiters EXCEPT ![d] =
                               IF groups[d] # {} /\ groups[d] \subseteq {c} THEN None ELSE @]
    BY <1>3 DEF RemoveFromGroup
  <2>3. groups[d] \subseteq {c} <=> groups'[d] = {}
    BY <2>1, <2>2
  <2>4. \A x \in Conns \ {c} : Authed(x) /\ home[x] = d => ~(groups[d] \subseteq {c})
    BY DEF AuthedInGroup
  <2>5. ConnTypeOK'
    BY <1>1, <2>1, <2>2
  <2>6. AuthedInGroup'
    BY <1>1, <2>1, <2>2 DEF AuthedInGroup
  <2>7. \A e \in Daemons : groupLimiters'[e] # None <=> groups'[e] # {}
    BY <2>1, <2>2, <2>3 DEF SharedLimiter
  <2>8. \A x \in Conns : Authed(x)' => limiterOf'[x] = groupLimiters'[home'[x]]
    BY <1>1, <2>1, <2>2, <2>4 DEF SharedLimiter
  <2>9. \A e1, e2 \in Daemons :
          groupLimiters'[e1] = groupLimiters'[e2] /\ groupLimiters'[e1] # None => e1 = e2
    BY <2>1, <2>2 DEF SharedLimiter
  <2> QED
    BY <2>5, <2>6, <2>7, <2>8, <2>9 DEF SharedLimiter
<1> QED
  BY <1>2, <1>3 DEF HandleClose, Roles

\* A critical section that touches no connection and no group.
LEMMA UntouchedTables ==
    ASSUME TableInv, UNCHANGED <<phase, authVars, groupVars>>
    PROVE  TableInv'
BY DEF TableInv, ConnTypeOK, Authed, AuthedInGroup, SharedLimiter, authVars, groupVars

\* Subscriptions change only for authenticated connections.
LEMMA SubscriptionTables ==
    ASSUME TableInv, NEW c \in Conns, Authed(c), NEW S \in SUBSET Sids,
           subs' = [subs EXCEPT ![c] = S],
           UNCHANGED <<phase, role, home, fid, limiterOf, groupVars>>
    PROVE  TableInv'
BY DEF TableInv, ConnTypeOK, Authed, AuthedInGroup, SharedLimiter, groupVars

\* Every critical section keeps the tables.
LEMMA TablesStep ==
    ASSUME CoreInv, [Next]_vars
    PROVE  TableInv' /\ (resumable \subseteq Identities)'
<1> USE CoreInvParts
<1>1. ASSUME NEW c \in Conns, Connect(c)
      PROVE  TableInv' /\ (resumable \subseteq Identities)'
  BY <1>1 DEF Connect, TableInv, ConnTypeOK, Authed, AuthedInGroup, SharedLimiter,
              authVars, groupVars
<1>2. ASSUME NEW c \in Conns, Close(c) \/ ForceClose(c)
      PROVE  TableInv' /\ (resumable \subseteq Identities)'
  <2>1. /\ phase' \in [Conns -> {"absent", "open", "removed"}]
        /\ \A x \in Conns \ {c} : phase'[x] = phase[x]
    BY <1>2 DEF Close, ForceClose, TableInv, ConnTypeOK
  <2> QED
    BY <1>2, <2>1, HandleCloseTables DEF Close, ForceClose
<1>3. ASSUME NEW c \in Conns, ClientStep(c)
      PROVE  TableInv' /\ (resumable \subseteq Identities)'
  <2>1. ASSUME NEW id \in Identities, NEW resumed, FinishAuth(c, id, resumed), UNCHANGED phase
        PROVE  TableInv' /\ (resumable \subseteq Identities)'
    <3>1. /\ RegisterAuthedConn(c, id[1], id[2], id[3])
          /\ resumable' = resumable \cup ({id} \cap Resumers)
      BY <2>1 DEF FinishAuth, Issue
    <3>2. id[1] \in Roles /\ id[2] \in Daemons /\ id[3] \in Fids \cup {None}
      BY IdentityParts
    <3>3. TableInv'
      BY <2>1, <3>1, <3>2, RegisterAuthedConnTables
    <3> QED
      BY <3>1, <3>3
  <2>2. ASSUME NEW id \in Identities, NEW cred \in Credentials, Auth(c, id, cred)
        PROVE  TableInv' /\ (resumable \subseteq Identities)'
    BY <2>1, <2>2, UntouchedTables DEF Auth
  <2>3. ASSUME NEW id \in Identities, AuthResume(c, id)
        PROVE  TableInv' /\ (resumable \subseteq Identities)'
    BY <2>1, <2>3, UntouchedTables DEF AuthResume
  <2>4. ASSUME NEW s \in Sids, NEW after \in Seqs \cup {0, None}, RouteSubscribe(c, s, after)
        PROVE  TableInv' /\ (resumable \subseteq Identities)'
    <3>1. CASE UNCHANGED subs
      BY <2>4, <3>1, UntouchedTables DEF RouteSubscribe, authVars
    <3>2. CASE subs' = [subs EXCEPT ![c] = @ \cup {s}]
      <4>1. subs[c] \cup {s} \in SUBSET Sids
        BY DEF TableInv, ConnTypeOK
      <4>2. subs' = [subs EXCEPT ![c] = subs[c] \cup {s}]
        BY <3>2
      <4> QED
        BY <2>4, <4>1, <4>2, SubscriptionTables DEF RouteSubscribe
    <3> QED
      BY <2>4, <3>1, <3>2 DEF RouteSubscribe
  <2>5. ASSUME NEW s \in Sids, RouteUnsubscribe(c, s)
        PROVE  TableInv' /\ (resumable \subseteq Identities)'
    <3>1. subs[c] \ {s} \in SUBSET Sids
      BY DEF TableInv, ConnTypeOK
    <3>2. subs' = [subs EXCEPT ![c] = subs[c] \ {s}]
      BY <2>5 DEF RouteUnsubscribe
    <3> QED
      BY <2>5, <3>1, <3>2, SubscriptionTables DEF RouteUnsubscribe
  <2>6. ASSUME NEW s \in Sids, NEW n \in Seqs, RoutePublish(c, s, n)
        PROVE  TableInv' /\ (resumable \subseteq Identities)'
    BY <2>6, UntouchedTables DEF RoutePublish
  <2>7. CASE UNCHANGED coreVars
    BY <2>7, UntouchedTables DEF coreVars
  <2> QED
    BY <1>3, <2>2, <2>3, <2>4, <2>5, <2>6, <2>7
       DEF ClientStep, Register, AuthWithoutFid, RateLimited, NotAuthenticated,
           RouteKeyExchange, RoutePing, RoutePushRegister
<1>4. CASE StaleSweep
  <2>1. groupLimiters' = groupLimiters
    BY <1>4 DEF StaleSweep, ReclaimLimiter, TableInv, ConnTypeOK, SharedLimiter
  <2> QED
    BY <1>4, <2>1, UntouchedTables DEF StaleSweep, groupVars
<1>5. CASE Tick \/ UNCHANGED vars
  BY <1>5, UntouchedTables DEF Tick, coreVars, vars
<1>6. ASSUME NEW id \in Identities, ExpireResumeToken(id)
      PROVE  TableInv' /\ (resumable \subseteq Identities)'
  BY <1>6, UntouchedTables DEF ExpireResumeToken
<1>7. CASE Restart
  <2>1. TableInv'
    BY <1>7, CoreAssumption DEF Restart, TableInv, ConnTypeOK, Authed, AuthedInGroup,
                                SharedLimiter
  <2> QED
    BY <1>7, <2>1 DEF Restart, ResolveKey
<1> QED
  BY <1>1, <1>2, <1>3, <1>4, <1>5, <1>6, <1>7 DEF Next

LEMMA CoreInvInit == Init => CoreInv
<1> SUFFICES ASSUME Init PROVE CoreInv
  OBVIOUS
<1>1. RegistryTypeOK
  BY DEF Init, RegistryInit, RegistryTypeOK
<1>2. TableInv
  BY CoreAssumption DEF Init, TableInv, ConnTypeOK, Authed, AuthedInGroup, SharedLimiter
<1> QED
  BY <1>1, <1>2, CoreInvParts DEF Init

LEMMA CoreInvStep == CoreInv /\ [Next]_vars => CoreInv'
<1> SUFFICES ASSUME CoreInv, [Next]_vars PROVE CoreInv'
  OBVIOUS
<1>1. RegistryTypeOK'
  BY StepIsRegistryStep, RegistryTypeStep DEF CoreInv, TypeOK
<1>2. TableInv' /\ (resumable \subseteq Identities)'
  BY TablesStep
<1> QED
  BY <1>1, <1>2 DEF CoreInv, TableInv, TypeOK, ConnTypeOK

-----------------------------------------------------------------------------
(* The results.                                                            *)

\* The relay's state keeps its type; a connection without a handle never
\* carries an identity, subscriptions or a limiter.
THEOREM CoreTypeCorrect == Spec => []TypeOK
<1>1. CoreInv => TypeOK
  BY DEF CoreInv
<1> QED
  BY <1>1, CoreInvInit, CoreInvStep, PTL DEF Spec

\* Every authenticated connection is in its daemon's group, so routing finds it.
THEOREM RoutingFindsEveryone == Spec => []AuthedInGroup
<1>1. CoreInv => AuthedInGroup
  BY DEF CoreInv
<1> QED
  BY <1>1, CoreInvInit, CoreInvStep, PTL DEF Spec

\* A daemon's group shares one rate limiter, and no two daemons share theirs.
THEOREM LimiterIsShared == Spec => []SharedLimiter
<1>1. CoreInv => SharedLimiter
  BY DEF CoreInv
<1> QED
  BY <1>1, CoreInvInit, CoreInvStep, PTL DEF Spec

\* The relay core implements the registry's specification: no critical section
\* changes the registry other than by one of its operations.
THEOREM CoreImplementsRegistry == Spec => RegistrySpec
<1>1. Init => RegistryInit
  BY DEF Init
<1>2. CoreInv /\ [Next]_vars => [RegistryNext]_registryVars
  BY StepIsRegistryStep DEF CoreInv
<1> QED
  BY <1>1, <1>2, CoreInvInit, CoreInvStep, PTL DEF Spec, RegistrySpec

\* So what holds of the registry holds of the relay.
THEOREM RelayTokensConsistent == Spec => []RegistryConsistent
BY CoreImplementsRegistry, RegistryStaysConsistent, PTL

-----------------------------------------------------------------------------
(* Fan-out.  Peers that authenticate once per connection (the daemon and   *)
(* the app do) leave no strangers in a group.                              *)

LiveInv == CoreInv /\ GroupsAreLive

LEMMA GroupsAreLiveStep ==
    ASSUME ~Reauth, LiveInv, [Next]_vars
    PROVE  GroupsAreLive'
<1> USE CoreAssumption, NoneAssumption DEF LiveInv, CoreInv, TypeOK, Authed
<1>1. CASE UNCHANGED <<role, home, groups>>
  BY <1>1 DEF GroupsAreLive
<1>2. ASSUME NEW c \in Conns, NEW id \in Identities, MayAuthenticate(c),
             RegisterAuthedConn(c, id[1], id[2], id[3])
      PROVE  GroupsAreLive'
  <2>1. id[1] \in Roles /\ id[2] \in Daemons
    BY IdentityParts
  <2>2. phase[c] = "open" /\ ~Authed(c)
    BY <1>2 DEF MayAuthenticate
  <2>3. /\ groups' = [groups EXCEPT ![id[2]] = @ \cup {c}]
        /\ role' = [role EXCEPT ![c] = id[1]]
        /\ home' = [home EXCEPT ![c] = id[2]]
    BY <1>2, <2>2 DEF RegisterAuthedConn
  <2>4. \A d \in Daemons : c \notin groups[d]
    BY <2>2 DEF GroupsAreLive
  <2> QED
    BY <2>1, <2>3, <2>4 DEF GroupsAreLive
<1>3. ASSUME NEW c \in Conns, HandleClose(c)
      PROVE  GroupsAreLive'
  <2>1. role' = [role EXCEPT ![c] = None] /\ home' = [home EXCEPT ![c] = None]
    BY <1>3 DEF HandleClose
  <2>2. CASE ~Authed(c) /\ UNCHANGED groups
    BY <2>1, <2>2 DEF GroupsAreLive
  <2>3. CASE Authed(c) /\ RemoveFromGroup(home[c], c)
    <3>1. home[c] \in Daemons
      BY <2>3
    <3>2. groups' = [groups EXCEPT ![home[c]] = @ \ {c}]
      BY <2>3 DEF RemoveFromGroup
    <3> QED
      BY <2>1, <3>1, <3>2 DEF GroupsAreLive
  <2> QED
    BY <1>3, <2>2, <2>3 DEF HandleClose, groupVars, Roles
<1>4. ASSUME NEW c \in Conns, ClientStep(c)
      PROVE  GroupsAreLive'
  <2>1. ASSUME NEW id \in Identities, NEW cred \in Credentials, Auth(c, id, cred)
        PROVE  GroupsAreLive'
    BY <1>1, <1>2, <2>1 DEF Auth, FinishAuth, authVars, groupVars
  <2>2. ASSUME NEW id \in Identities, AuthResume(c, id)
        PROVE  GroupsAreLive'
    BY <1>1, <1>2, <2>2 DEF AuthResume, FinishAuth, authVars, groupVars
  <2> QED
    BY <1>1, <1>4, <2>1, <2>2
       DEF ClientStep, Register, AuthWithoutFid, RateLimited, NotAuthenticated, RoutePublish,
           RouteKeyExchange, RouteSubscribe, RouteUnsubscribe, RoutePing, RoutePushRegister,
           coreVars, authVars, groupVars
<1>5. CASE Restart
  BY <1>5 DEF Restart, GroupsAreLive
<1> QED
  BY <1>1, <1>3, <1>4, <1>5
     DEF Next, Connect, Close, ForceClose, StaleSweep, Tick, ExpireResumeToken,
         vars, coreVars, authVars, groupVars

\* Without re-authentication a group holds exactly live connections of its
\* daemon.
THEOREM GroupsStayLive == ASSUME ~Reauth PROVE Spec => []GroupsAreLive
<1>1. Init => LiveInv
  BY CoreInvInit DEF LiveInv, Init, GroupsAreLive
<1>2. LiveInv /\ [Next]_vars => LiveInv'
  BY CoreInvStep, GroupsAreLiveStep DEF LiveInv
<1>3. LiveInv => GroupsAreLive
  BY DEF LiveInv
<1> QED
  BY <1>1, <1>2, <1>3, PTL DEF Spec

LEMMA PublishReachesSubscribers ==
    ASSUME LiveInv, NEW c \in Conns, NEW s \in Sids, NEW n \in Seqs,
           RoutePublish(c, s, n), NEW x \in Conns \ {c}
    PROVE  out'[x] # << >> <=> home[x] = home[c] /\ s \in subs[x]
<1> DEFINE frame == [seq |-> n, from |-> role[c], fid |-> fid[c]]
<1>1. out' = [y \in Conns |-> IF y \in PublishTargets(c, s)
                              THEN <<FrameMsg(home[c], s, frame)>> ELSE << >>]
  BY DEF RoutePublish
<1>2. out'[x] # << >> <=> x \in PublishTargets(c, s)
  BY <1>1
<1>3. home[c] \in Daemons
  BY AuthedHome DEF RoutePublish, LiveInv, CoreInv
<1>4. x \in groups[home[c]] /\ s \in subs[x] <=> home[x] = home[c] /\ s \in subs[x]
  BY <1>3, NoneAssumption DEF LiveInv, CoreInv, TypeOK, AuthedInGroup, GroupsAreLive, Authed
<1> QED
  BY <1>2, <1>4 DEF PublishTargets

\* A published frame goes to exactly the other connections that are
\* authenticated to the same daemon and subscribed to its session.
THEOREM FanOutIsExact == ASSUME ~Reauth PROVE Spec => FanOutExact
<1> DEFINE Exact ==
      \A c \in Conns, s \in Sids, n \in Seqs : RoutePublish(c, s, n) =>
         \A x \in Conns \ {c} :
             out'[x] # << >> <=> home[x] = home[c] /\ s \in subs[x]
<1>1. Init => LiveInv
  BY CoreInvInit DEF LiveInv, Init, GroupsAreLive
<1>2. LiveInv /\ [Next]_vars => LiveInv'
  BY CoreInvStep, GroupsAreLiveStep DEF LiveInv
<1>3. LiveInv => [Exact]_vars
  BY PublishReachesSubscribers
<1> QED
  BY <1>1, <1>2, <1>3, PTL DEF Spec, FanOutExact
-----------------------------------------------------------------------------
(* Presence.  A daemon's own authentication is the only thing that marks   *)
(* it online, and the close of any of its connections marks it offline, so *)
(* peers that authenticate once per connection are never reported wrongly. *)

OnlineInv == CoreInv /\ OnlineHasDaemon

LEMMA OnlineHasDaemonStep ==
    ASSUME ~Reauth, OnlineInv, [Next]_vars
    PROVE  OnlineHasDaemon'
<1> USE CoreAssumption, NoneAssumption DEF OnlineInv, CoreInv, TypeOK, Authed
<1>1. CASE UNCHANGED <<role, home, online>>
  BY <1>1 DEF OnlineHasDaemon
<1>2. ASSUME NEW c \in Conns, NEW id \in Identities, NEW tok, MayAuthenticate(c),
             RegisterAuthedConn(c, id[1], id[2], id[3]),
             UpsertDaemonState(id[2], id[1] = "daemon", tok)
      PROVE  OnlineHasDaemon'
  <2>1. id[1] \in Roles /\ id[2] \in Daemons
    BY IdentityParts
  <2>2. phase[c] = "open" /\ role[c] = None
    BY <1>2 DEF MayAuthenticate
  <2>3. /\ role' = [role EXCEPT ![c] = id[1]]
        /\ home' = [home EXCEPT ![c] = id[2]]
    BY <1>2, <2>2 DEF RegisterAuthedConn
  <2>4. online' = [online EXCEPT ![id[2]] = id[1] = "daemon" \/ @]
    BY <1>2 DEF UpsertDaemonState
  <2>5. online \in [Daemons -> BOOLEAN]
    BY DEF RegistryTypeOK
  <2> SUFFICES ASSUME NEW d \in Daemons, online'[d]
               PROVE  \E x \in Conns : role'[x] = "daemon" /\ home'[x] = d
    BY DEF OnlineHasDaemon
  <2>6. CASE online[d]
    <3>1. PICK x \in Conns : role[x] = "daemon" /\ home[x] = d
      BY <2>6 DEF OnlineHasDaemon
    <3>2. x # c
      BY <2>2, <3>1 DEF Roles
    <3> QED
      BY <2>3, <3>1, <3>2
  <2>7. CASE ~online[d]
    <3>1. d = id[2] /\ id[1] = "daemon"
      BY <2>1, <2>4, <2>5, <2>7
    <3> QED
      BY <2>3, <3>1
  <2> QED
    BY <2>6, <2>7
<1>3. ASSUME NEW c \in Conns, HandleClose(c)
      PROVE  OnlineHasDaemon'
  <2>1. role' = [role EXCEPT ![c] = None] /\ home' = [home EXCEPT ![c] = None]
    BY <1>3 DEF HandleClose
  <2>2. CASE role[c] # "daemon" /\ UNCHANGED online
    BY <2>1, <2>2 DEF OnlineHasDaemon
  <2>3. ASSUME NEW d \in Daemons, role[c] = "daemon", home[c] = d, DaemonDisconnect(d)
        PROVE  OnlineHasDaemon'
    <3>1. online' = [online EXCEPT ![d] = FALSE]
      BY <2>3 DEF DaemonDisconnect
    <3> QED
      BY <2>1, <2>3, <3>1 DEF OnlineHasDaemon, RegistryTypeOK
  <2> QED
    BY <1>3, <2>2, <2>3 DEF HandleClose, FrontendDisconnect, registryVars, daemonStateVars, Roles
<1>4. ASSUME NEW c \in Conns, ClientStep(c)
      PROVE  OnlineHasDaemon'
  <2>1. ASSUME NEW id \in Identities, NEW cred \in Credentials, Auth(c, id, cred)
        PROVE  OnlineHasDaemon'
    BY <1>1, <1>2, <2>1
       DEF Auth, HandleAuth, FinishAuth, authVars, registryVars, daemonStateVars
  <2>2. ASSUME NEW id \in Identities, AuthResume(c, id)
        PROVE  OnlineHasDaemon'
    BY <1>1, <1>2, <2>2
       DEF AuthResume, HandleAuthResume, FinishAuth, authVars, registryVars, daemonStateVars
  <2>3. CASE \E s \in Sids, n \in Seqs : RoutePublish(c, s, n)
    BY <1>1, <2>3 DEF RoutePublish, DaemonPub, authVars, registryVars, daemonStateVars
  <2>4. CASE \/ \E s \in Sids, after \in Seqs \cup {0, None} : RouteSubscribe(c, s, after)
             \/ \E s \in Sids : RouteUnsubscribe(c, s)
    BY <1>1, <2>4 DEF RouteSubscribe, RouteUnsubscribe, FrontendAttach, FrontendDisconnect,
                      registryVars, daemonStateVars
  <2>5. CASE RoutePing(c) \/ \E cred \in Credentials : Register(c, cred)
    BY <1>1, <2>5 DEF RoutePing, DaemonPing, Register, HandleRegister, coreVars, authVars,
                      registryVars, daemonStateVars
  <2> QED
    BY <1>1, <1>4, <2>1, <2>2, <2>3, <2>4, <2>5
       DEF ClientStep, AuthWithoutFid, RateLimited, NotAuthenticated, RouteKeyExchange,
           RoutePushRegister, coreVars, authVars, registryVars, daemonStateVars
<1>5. CASE StaleSweep
  <2>1. \A d \in Daemons : online'[d] => online[d]
    BY <1>5 DEF StaleSweep, CheckStaleDaemons
  <2> QED
    BY <1>5, <2>1 DEF StaleSweep, authVars, OnlineHasDaemon
<1>6. CASE Restart
  BY <1>6 DEF Restart, RegistryRestart, OnlineHasDaemon
<1>7. CASE Tick
  BY <1>1, <1>7 DEF Tick, ClockTick, coreVars, authVars
<1> QED
  BY <1>1, <1>3, <1>4, <1>5, <1>6, <1>7
     DEF Next, Connect, Close, ForceClose, ExpireResumeToken,
         vars, coreVars, authVars, registryVars, daemonStateVars

\* Without re-authentication the relay reports a daemon online only while a
\* connection of that daemon is open and authenticated, whatever other
\* connections of it close and whatever the sweep and restarts do.
THEOREM OnlineDaemonsConnected == ASSUME ~Reauth PROVE Spec => []OnlineHasDaemon
<1>1. Init => OnlineInv
  BY CoreInvInit DEF OnlineInv, Init, RegistryInit, OnlineHasDaemon
<1>2. OnlineInv /\ [Next]_vars => OnlineInv'
  BY CoreInvStep, OnlineHasDaemonStep DEF OnlineInv
<1>3. OnlineInv => OnlineHasDaemon
  BY DEF OnlineInv
<1> QED
  BY <1>1, <1>2, <1>3, PTL DEF Spec
\* The sequence made of a finite set contains every element of the set.
LEMMA SetToSeqContains ==
    ASSUME NEW S, IsFiniteSet(S), NEW e \in S
    PROVE  Contains(SetToSeq(S), e)
<1> DEFINE n == Cardinality(S)
           f == SetToSeq(S)
<1>1. n \in Nat /\ \E g : g \in Bijection(1..n, S)
  BY FS_CardinalityType DEF ExistsBijection
<1>2. \E g \in [1..n -> S] : IsInjective(g)
  BY <1>1 DEF Bijection, Injection, IsInjective
<1>3. f \in [1..n -> S] /\ IsInjective(f)
  BY <1>2 DEF SetToSeq
<1>4. f \in Injection(1..n, S)
  BY <1>3 DEF Injection
<1>5. Cardinality(1..n) = n
  BY <1>1, FS_Interval
<1>6. f \in Surjection(1..n, S)
  BY <1>4, <1>5, FS_Injection
<1>7. PICK i \in 1..n : f[i] = e
  BY <1>6 DEF Surjection
<1>8. Len(f) = n
  BY <1>1, <1>3
<1> QED
  BY <1>7, <1>8 DEF Contains

\* What a critical section must send when it changes what a frontend was last told.
Announces ==
    \A x \in Conns, d \in Daemons :
      ( /\ role'[x] = "frontend" /\ home'[x] = d /\ d \in known'
        /\ \/ online'[d] # online[d]
           \/ role[x] # "frontend"
           \/ home[x] # d )
      => Contains(out'[x], Presence(d, online'[d]))

\* Authentication announces to the whole group, the newcomer included.
LEMMA FinishAuthAnnounces ==
    ASSUME CoreInv, CoreInv', NEW c \in Conns, NEW id \in Identities, NEW tok, NEW resumed,
           FinishAuth(c, id, resumed), UpsertDaemonState(id[2], id[1] = "daemon", tok)
    PROVE  Announces
<1>1. id[1] \in Roles /\ id[2] \in Daemons
  BY IdentityParts
<1> SUFFICES ASSUME NEW x \in Conns, NEW d \in Daemons,
                    role'[x] = "frontend", home'[x] = d, d \in known',
                    online'[d] # online[d] \/ role[x] # "frontend" \/ home[x] # d
             PROVE  Contains(out'[x], Presence(d, online'[d]))
  BY DEF Announces
<1>2. \A y \in Conns \ {c} : role'[y] = role[y] /\ home'[y] = home[y]
  BY DEF FinishAuth, RegisterAuthedConn, authVars, CoreInv, TypeOK
<1>3. x = c => home'[x] = id[2] \/ (role'[x] = role[x] /\ home'[x] = home[x])
  BY DEF FinishAuth, RegisterAuthedConn, authVars, CoreInv, TypeOK
<1>4. \A e \in Daemons \ {id[2]} : online'[e] = online[e]
  BY DEF UpsertDaemonState, CoreInv, TypeOK, RegistryTypeOK
<1>5. d = id[2]
  BY <1>2, <1>3, <1>4
<1>6. x \in groups'[d]
  BY CoreAssumption DEF CoreInv, AuthedInGroup, Authed, Roles
<1>7. (PresenceActions(d)')[x] = <<Presence(d, online'[d])>>
  BY <1>6 DEF PresenceActions
<1>8. out'[x] = Reply(c, <<AuthOk(d, resumed)>>)[x] \o <<Presence(d, online'[d])>>
  BY <1>5, <1>7 DEF FinishAuth
<1>9. CASE x = c
  <2>1. out'[x] = <<AuthOk(d, resumed)>> \o <<Presence(d, online'[d])>>
    BY <1>8, <1>9 DEF Reply
  <2>2. ASSUME NEW a, NEW b PROVE Len(<<a>> \o <<b>>) = 2 /\ (<<a>> \o <<b>>)[2] = b
    OBVIOUS
  <2>3. /\ Len(out'[x]) = 2
        /\ out'[x][2] = Presence(d, online'[d])
    BY <2>1, <2>2
  <2>4. 2 \in 1 .. Len(out'[x])
    BY <2>3
  <2> QED
    BY <2>3, <2>4 DEF Contains
<1>10. CASE x # c
  <2>1. out'[x] = <<Presence(d, online'[d])>>
    BY <1>8, <1>10 DEF Reply
  <2> QED
    BY <2>1 DEF Contains
<1> QED
  BY <1>9, <1>10
\* A close tells the frontends of the daemon whose connection it was.
LEMMA HandleCloseAnnounces ==
    ASSUME CoreInv, CoreInv', NEW c \in Conns, HandleClose(c)
    PROVE  Announces
<1> SUFFICES ASSUME NEW x \in Conns, NEW d \in Daemons,
                    role'[x] = "frontend", home'[x] = d, d \in known',
                    online'[d] # online[d] \/ role[x] # "frontend" \/ home[x] # d
             PROVE  Contains(out'[x], Presence(d, online'[d]))
  BY DEF Announces
<1>1. x # c /\ role'[x] = role[x] /\ home'[x] = home[x]
  BY CoreAssumption DEF HandleClose, CoreInv, TypeOK, Roles
<1>2. online'[d] # online[d]
  BY <1>1
<1>3. PICK e \in Daemons : DaemonDisconnect(e) /\ out' = PresenceActions(e)'
  BY <1>2 DEF HandleClose, FrontendDisconnect, registryVars, daemonStateVars
<1>4. e = d
  BY <1>2, <1>3 DEF DaemonDisconnect, CoreInv, TypeOK, RegistryTypeOK
<1>5. x \in groups'[d]
  BY CoreAssumption DEF CoreInv, AuthedInGroup, Authed, Roles
<1>6. out'[x] = <<Presence(d, online'[d])>>
  BY <1>3, <1>4, <1>5 DEF PresenceActions
<1> QED
  BY <1>6 DEF Contains

\* The sweep tells the frontends of every daemon it marks offline and keeps.
LEMMA StaleSweepAnnounces ==
    ASSUME CoreInv, StaleSweep
    PROVE  Announces
<1> SUFFICES ASSUME NEW x \in Conns, NEW d \in Daemons,
                    role'[x] = "frontend", home'[x] = d, d \in known',
                    online'[d] # online[d] \/ role[x] # "frontend" \/ home[x] # d
             PROVE  Contains(out'[x], Presence(d, online'[d]))
  BY DEF Announces
<1> DEFINE Gone == {e \in NewlyOffline \ Evicted : x \in groups[e] /\ role[x] = "frontend"}
           News == {Presence(e, FALSE) : e \in Gone}
<1>1. role'[x] = role[x] /\ home'[x] = home[x]
  BY DEF StaleSweep, authVars
<1>2. online'[d] = FALSE /\ d \in NewlyOffline \ Evicted
  BY <1>1 DEF StaleSweep, CheckStaleDaemons, EvictDaemons, CoreInv, TypeOK, RegistryTypeOK
<1>3. x \in groups[d]
  BY <1>1, CoreAssumption DEF CoreInv, AuthedInGroup, Authed, Roles
<1>4. Presence(d, FALSE) \in News
  BY <1>1, <1>2, <1>3
<1>5. Gone \subseteq Daemons
  BY DEF NewlyOffline, CoreInv, TypeOK, RegistryTypeOK
<1>6. IsFiniteSet(Gone)
  BY <1>5, FS_Subset, CoreAssumption
<1>7. IsFiniteSet(News)
  <2>1. [e \in Gone |-> Presence(e, FALSE)] \in Surjection(Gone, News)
    BY DEF Surjection
  <2> QED
    BY <1>6, <2>1, FS_Surjection
<1>8. Contains(SetToSeq(News), Presence(d, FALSE))
  BY <1>4, <1>7, SetToSeqContains
<1>9. out'[x] = SetToSeq(News)
  BY DEF StaleSweep
<1> QED
  BY <1>2, <1>8, <1>9

\* Nothing to announce: the step changed no presence and no identity.
LEMMA QuietStepAnnounces ==
    ASSUME UNCHANGED <<role, home, online>>
    PROVE  Announces
BY DEF Announces

LEMMA StepAnnounces ==
    ASSUME CoreInv, CoreInv', Next
    PROVE  Announces
<1>1. ASSUME NEW c \in Conns, ClientStep(c)
      PROVE  Announces
  <2>1. ASSUME NEW id \in Identities, NEW cred \in Credentials, Auth(c, id, cred)
        PROVE  Announces
    BY <2>1, FinishAuthAnnounces, QuietStepAnnounces
       DEF Auth, HandleAuth, authVars, registryVars, daemonStateVars
  <2>2. ASSUME NEW id \in Identities, AuthResume(c, id)
        PROVE  Announces
    BY <2>2, FinishAuthAnnounces, QuietStepAnnounces
       DEF AuthResume, HandleAuthResume, authVars, registryVars, daemonStateVars
  <2>3. CASE \E s \in Sids, n \in Seqs : RoutePublish(c, s, n)
    BY <2>3, QuietStepAnnounces
       DEF RoutePublish, DaemonPub, authVars, registryVars, daemonStateVars
  <2>4. CASE \/ \E s \in Sids, after \in Seqs \cup {0, None} : RouteSubscribe(c, s, after)
             \/ \E s \in Sids : RouteUnsubscribe(c, s)
    BY <2>4, QuietStepAnnounces
       DEF RouteSubscribe, RouteUnsubscribe, FrontendAttach, FrontendDisconnect,
           registryVars, daemonStateVars
  <2>5. CASE RoutePing(c) \/ \E cred \in Credentials : Register(c, cred)
    BY <2>5, QuietStepAnnounces
       DEF RoutePing, DaemonPing, Register, HandleRegister, coreVars, authVars,
           registryVars, daemonStateVars
  <2> QED
    BY <1>1, <2>1, <2>2, <2>3, <2>4, <2>5, QuietStepAnnounces
       DEF ClientStep, AuthWithoutFid, RateLimited, NotAuthenticated, RouteKeyExchange,
           RoutePushRegister, coreVars, authVars, registryVars, daemonStateVars
<1>2. CASE Restart
  BY <1>2, CoreAssumption DEF Restart, Announces, Roles
<1>3. CASE Tick
  BY <1>3, QuietStepAnnounces DEF Tick, ClockTick, coreVars, authVars
<1> QED
  BY <1>1, <1>2, <1>3, HandleCloseAnnounces, StaleSweepAnnounces, QuietStepAnnounces
     DEF Next, Connect, Close, ForceClose, ExpireResumeToken,
         coreVars, authVars, registryVars, daemonStateVars

\* Frontends are never left with a stale view: whichever critical section
\* changes a daemon's presence, or brings a frontend to it, sends that frontend
\* the new state, re-authentication and closes by other tasks included.
THEOREM PresenceIsAnnounced == Spec => PresenceAnnounced
<1>1. CoreInv /\ CoreInv' /\ [Next]_vars => [Announces]_vars
  BY StepAnnounces
<1> QED
  BY <1>1, CoreInvInit, CoreInvStep, PTL DEF Spec, PresenceAnnounced, Announces
=============================================================================
