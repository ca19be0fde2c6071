------------------------------ MODULE RelayCore ------------------------------
(***************************************************************************)
(* Everything behind the relay's one mutex (rust/tp-relay/src/server.rs    *)
(* RelayCore) and the critical sections that change it: the dispatch of    *)
(* every client message (conn.rs dispatch_locked), connection set-up and   *)
(* tear-down, and the periodic stale sweep.  One action is one critical    *)
(* section.  What it decides to send is `out`, delivered after the lock is *)
(* released; RelayDelivery models that delivery.                           *)
(***************************************************************************)
EXTENDS RelayRegistry

CONSTANTS
    Conns,              \* connection ids; one is used again only when nothing mentions it
    Fids,               \* frontend ids
    Seqs,               \* sequence numbers publishers put on frames
    Limiters,           \* identities of group rate limiters (Arc<Limiter>)
    Clients,            \* conn -> the identities its peer may present
    Resumers,           \* identities whose client keeps its resume token
    Reauth,             \* may a peer authenticate again on one connection?
    MaxSubscriptions,   \* MAX_SUBSCRIPTIONS_PER_CLIENT
    CacheSize, MaxKeysPerDaemon

Ring == INSTANCE RelayRing

Roles == {"daemon", "frontend"}
Identities == {<<"daemon", d, None>> : d \in Daemons}
              \cup {<<"frontend", d, f>> : d \in Daemons, f \in Fids}

ASSUME CoreAssumption ==
    /\ None \notin Fids \cup Limiters \cup Roles
    /\ IsFiniteSet(Daemons)
    /\ Seqs \subseteq Nat
    /\ Clients \in [Conns -> SUBSET Identities]
    /\ Resumers \subseteq Identities
    /\ Reauth \in BOOLEAN
    /\ MaxSubscriptions \in Nat

VARIABLES
    phase,          \* conn -> "absent", "open" (in core.conns), or "removed": its
                    \* handle is gone but its read loop still takes messages
    role, home, fid, subs,   \* ConnHandle.auth (AuthState); None before auth
    limiterOf,      \* ConnHandle.group_limiter
    groups,         \* daemon -> connections; {} is "no group"
    groupLimiters,  \* daemon -> limiter
    ring,           \* the recent-frame cache
    resumable,      \* identities for which an unexpired resume token is held
    out             \* what the last critical section decided to send, per conn

authVars == <<role, home, fid, subs, limiterOf>>
groupVars == <<groups, groupLimiters>>
coreVars == <<phase, authVars, groupVars, ring, resumable>>
vars == <<registryVars, coreVars, out>>

Authed(c) == role[c] # None
Receiving(c) == phase[c] # "absent"
Mentioned(c) == \E d \in Daemons : c \in groups[d]

Init ==
    /\ RegistryInit
    /\ phase = [c \in Conns |-> "absent"]
    /\ role = [c \in Conns |-> None]
    /\ home = [c \in Conns |-> None]
    /\ fid = [c \in Conns |-> None]
    /\ subs = [c \in Conns |-> {}]
    /\ limiterOf = [c \in Conns |-> None]
    /\ groups = [d \in Daemons |-> {}]
    /\ groupLimiters = [d \in Daemons |-> None]
    /\ ring = Ring!EmptyRing
    /\ resumable = {}
    /\ out = [c \in Conns |-> << >>]

-----------------------------------------------------------------------------
(* Messages the relay sends.  A frame records the group it was published   *)
(* in, which is not on the wire.                                           *)

ErrMsg(e) == [t |-> "relay.err", e |-> e]
RegisterOk == [t |-> "relay.register.ok"]
RegisterErr == [t |-> "relay.register.err"]
AuthOk(d, resumed) == [t |-> "relay.auth.ok", d |-> d, resumed |-> resumed]
AuthErr(e) == [t |-> "relay.auth.err", e |-> e]
FrameMsg(d, s, f) == [t |-> "relay.frame", d |-> d, s |-> s, f |-> f]
KxFrame(from) == [t |-> "relay.kx.frame", from |-> from]
Presence(d, on) == [t |-> "relay.presence", d |-> d, online |-> on]
Pong == [t |-> "relay.pong"]
PushToken(f) == [t |-> "relay.push.token", f |-> f]
CloseConn(code) == [t |-> "close", code |-> code]

Nothing == [x \in Conns |-> << >>]
Reply(c, msgs) == [x \in Conns |-> IF x = c THEN msgs ELSE << >>]

\* Mutant: only good news is broadcast.
PresenceOnlineOnly(d) ==
    [x \in Conns |-> IF d \in known /\ online[d] /\ x \in groups[d] /\ role[x] = "frontend"
                     THEN <<Presence(d, online[d])>> ELSE << >>]

PresenceActions(d) ==
    [x \in Conns |-> IF d \in known /\ x \in groups[d] /\ role[x] = "frontend"
                     THEN <<Presence(d, online[d])>> ELSE << >>]

-----------------------------------------------------------------------------
(* Connections and groups.                                                 *)

Connect(c) ==
    /\ phase[c] = "absent"
    /\ ~Mentioned(c)
    /\ phase' = [phase EXCEPT ![c] = "open"]
    /\ out' = Nothing
    /\ UNCHANGED <<registryVars, authVars, groupVars, ring, resumable>>

LimitersInUse == {groupLimiters[d] : d \in Daemons} \cup {limiterOf[c] : c \in Conns}

GroupLimiterFor(d, l) ==
    /\ IF groupLimiters[d] = None THEN l \in Limiters \ LimitersInUse ELSE l = groupLimiters[d]
    /\ groupLimiters' = [groupLimiters EXCEPT ![d] = l]

\* The group gains c even if c's handle has been removed in the meantime.
RegisterAuthedConn(c, r, d, f) ==
    \E l \in Limiters :
        /\ GroupLimiterFor(d, l)
        /\ groups' = [groups EXCEPT ![d] = @ \cup {c}]
        /\ IF phase[c] = "open"
           THEN /\ role' = [role EXCEPT ![c] = r]
                /\ home' = [home EXCEPT ![c] = d]
                /\ fid' = [fid EXCEPT ![c] = f]
                /\ subs' = [subs EXCEPT ![c] = {}]
                /\ limiterOf' = [limiterOf EXCEPT ![c] = l]
           ELSE UNCHANGED authVars

\* Mutant: the connection stays in the group.
StayInGroup(d, c) == UNCHANGED groupVars

RemoveFromGroup(d, c) ==
    /\ groups' = [groups EXCEPT ![d] = @ \ {c}]
    /\ groupLimiters' = [groupLimiters EXCEPT ![d] =
                           IF groups[d] # {} /\ groups[d] \subseteq {c} THEN None ELSE @]

\* Drop c's handle.  Presence goes out only for a daemon's connection.
HandleClose(c) ==
    /\ role' = [role EXCEPT ![c] = None]
    /\ home' = [home EXCEPT ![c] = None]
    /\ fid' = [fid EXCEPT ![c] = None]
    /\ subs' = [subs EXCEPT ![c] = {}]
    /\ limiterOf' = [limiterOf EXCEPT ![c] = None]
    /\ \/ /\ ~Authed(c)
          /\ out' = Nothing
          /\ UNCHANGED <<registryVars, groupVars>>
       \/ /\ role[c] = "frontend"
          /\ FrontendDisconnect(home[c], subs[c])
          /\ RemoveFromGroup(home[c], c)
          /\ out' = Nothing
       \/ \E d \in Daemons :
            /\ role[c] = "daemon" /\ home[c] = d
            /\ DaemonDisconnect(d)
            /\ RemoveFromGroup(d, c)
            /\ out' = PresenceActions(d)'

\* The read loop ends: the peer closed, the transport failed, or a deadline passed.
Close(c) ==
    /\ Receiving(c)
    /\ phase' = [phase EXCEPT ![c] = "absent"]
    /\ HandleClose(c)
    /\ UNCHANGED <<ring, resumable>>

\* close_conn, on behalf of another task: the read loop does not stop yet.
ForceClose(c) ==
    /\ phase[c] = "open"
    /\ phase' = [phase EXCEPT ![c] = "removed"]
    /\ HandleClose(c)
    /\ UNCHANGED <<ring, resumable>>

-----------------------------------------------------------------------------
(* Handshake messages.                                                     *)

MayAuthenticate(c) == Reauth \/ (phase[c] = "open" /\ ~Authed(c))

Register(c, cred) ==
    /\ Receiving(c)
    /\ <<"daemon", cred[1], None>> \in Clients[c]
    /\ \/ /\ HandleRegister(cred[1], cred[2], cred[3])
          /\ out' = Reply(c, <<RegisterOk>>)
       \/ /\ ~RegisterAccepted(cred[1], cred[3])
          /\ out' = Reply(c, <<RegisterErr>>)
          /\ UNCHANGED registryVars
    /\ UNCHANGED coreVars

\* issue: a signed token of the identity; some clients keep theirs.
Issue(id) == resumable' = resumable \cup ({id} \cap Resumers)

\* verify: the token is this relay's and has not expired.
Verify(id) == id \in resumable

FinishAuth(c, id, resumed) ==
    /\ RegisterAuthedConn(c, id[1], id[2], id[3])
    /\ Issue(id)
    /\ out' = [x \in Conns |-> Reply(c, <<AuthOk(id[2], resumed)>>)[x]
                                \o (PresenceActions(id[2])')[x]]

\* Mutant: the token is not checked.
AuthUnchecked(c, id, cred) ==
    /\ Receiving(c)
    /\ MayAuthenticate(c)
    /\ id \in Clients[c]
    /\ cred[1] = id[2]
    /\ UpsertDaemonState(id[2], id[1] = "daemon", cred[2])
    /\ FinishAuth(c, id, FALSE)
    /\ UNCHANGED <<registrationVars, phase, ring>>

Auth(c, id, cred) ==
    /\ Receiving(c)
    /\ MayAuthenticate(c)
    /\ id \in Clients[c]
    /\ cred[1] = id[2]
    /\ \/ /\ HandleAuth(id[2], cred[2], id[1] = "daemon")
          /\ FinishAuth(c, id, FALSE)
       \/ /\ ~TokenAccepted(id[2], cred[2])
          /\ out' = Reply(c, <<AuthErr("invalid token")>>)
          /\ UNCHANGED <<registryVars, authVars, groupVars, resumable>>
    /\ UNCHANGED <<phase, ring>>

\* A frontend's relay.auth without a frontendId: refused, and closed unless the
\* field was there and empty.
AuthWithoutFid(c, absent) ==
    LET NoFid == AuthErr("frontendId required")
    IN
    /\ Receiving(c)
    /\ MayAuthenticate(c)
    /\ out' = Reply(c, IF absent THEN <<NoFid, CloseConn(1008)>> ELSE <<NoFid>>)
    /\ UNCHANGED <<registryVars, coreVars>>

AuthResume(c, id) ==
    /\ Receiving(c)
    /\ MayAuthenticate(c)
    /\ id \in Clients[c]
    /\ \/ /\ Verify(id)
          /\ HandleAuthResume(id[2], id[1] = "daemon")
          /\ FinishAuth(c, id, TRUE)
       \/ /\ ~Verify(id) \/ ~Registered(id[2])
          /\ out' = Reply(c, <<AuthErr(IF Verify(id) THEN "no longer registered"
                                                      ELSE "resume token invalid")>>)
          /\ UNCHANGED <<registryVars, authVars, groupVars, resumable>>
    /\ UNCHANGED <<phase, ring>>

-----------------------------------------------------------------------------
(* Routing.  Every message but ping may be refused by a rate limiter.      *)

RateLimited(c) ==
    /\ Authed(c)
    /\ out' = Reply(c, <<ErrMsg("RATE_LIMITED")>>)
    /\ UNCHANGED <<registryVars, coreVars>>

\* pub, kx, sub and push.register before authentication; unsub and ping are silent.
NotAuthenticated(c) ==
    /\ Receiving(c)
    /\ ~Authed(c)
    /\ out' \in {Reply(c, <<ErrMsg("NOT_AUTHENTICATED")>>), Nothing}
    /\ UNCHANGED <<registryVars, coreVars>>

\* Mutant: subscriptions are not looked at.
GroupTargets(c, s) == {x \in groups[home[c]] \ {c} : Authed(x)}

PublishTargets(c, s) == {x \in groups[home[c]] \ {c} : s \in subs[x]}

RoutePublish(c, s, n) ==
    LET frame == [seq |-> n, from |-> role[c], fid |-> fid[c]]
    IN
    /\ Authed(c)
    /\ IF role[c] = "daemon" THEN DaemonPub(home[c], s) ELSE UNCHANGED registryVars
    /\ ring' = Ring!PushFrame(ring, home[c], s, frame)
    /\ out' = [x \in Conns |-> IF x \in PublishTargets(c, s)
                               THEN <<FrameMsg(home[c], s, frame)>> ELSE << >>]
    /\ UNCHANGED <<phase, authVars, groupVars, resumable>>

KxTargets(c) == {x \in groups[home[c]] \ {c} : Authed(x) /\ role[x] # role[c]}

RouteKeyExchange(c) ==
    /\ Authed(c)
    /\ out' = [x \in Conns |-> IF x \in KxTargets(c) THEN <<KxFrame(role[c])>> ELSE << >>]
    /\ UNCHANGED <<registryVars, coreVars>>

RouteSubscribe(c, s, after) ==
    /\ Authed(c)
    /\ \/ /\ Cardinality(subs[c]) >= MaxSubscriptions
          /\ out' = Reply(c, <<ErrMsg("TOO_MANY_SUBS")>>)
          /\ UNCHANGED <<registryVars, subs>>
       \/ /\ Cardinality(subs[c]) < MaxSubscriptions
          /\ subs' = [subs EXCEPT ![c] = @ \cup {s}]
          /\ IF role[c] = "frontend" /\ s \notin subs[c]
             THEN FrontendAttach(home[c], s) ELSE UNCHANGED registryVars
          /\ LET replay == IF after = None THEN << >>
                           ELSE Ring!ReplayAfter(ring, home[c], s, after)
             IN  out' = Reply(c, [i \in DOMAIN replay |-> FrameMsg(home[c], s, replay[i])])
    /\ UNCHANGED <<phase, role, home, fid, limiterOf, groupVars, ring, resumable>>

\* The count is released whether or not the subscription was there.
RouteUnsubscribe(c, s) ==
    /\ Authed(c)
    /\ subs' = [subs EXCEPT ![c] = @ \ {s}]
    /\ IF role[c] = "frontend" THEN FrontendDisconnect(home[c], {s}) ELSE UNCHANGED registryVars
    /\ out' = Nothing
    /\ UNCHANGED <<phase, role, home, fid, limiterOf, groupVars, ring, resumable>>

RoutePing(c) ==
    /\ Authed(c)
    /\ IF role[c] = "daemon" THEN DaemonPing(home[c]) ELSE UNCHANGED registryVars
    /\ out' = Reply(c, <<Pong>>)
    /\ UNCHANGED coreVars

DaemonConns(d) == {x \in groups[d] : role[x] = "daemon"}

\* The sealed token goes to one daemon connection of the group, if there is one.
RoutePushRegister(c) ==
    /\ Authed(c)
    /\ IF role[c] # "frontend"
       THEN out' = Reply(c, <<ErrMsg("UNAUTHORIZED")>>)
       ELSE IF DaemonConns(home[c]) = {} THEN out' = Nothing
       ELSE \E x \in DaemonConns(home[c]) : out' = Reply(x, <<PushToken(fid[c])>>)
    /\ UNCHANGED <<registryVars, coreVars>>

-----------------------------------------------------------------------------
(* The sweep, time, and restarts.                                          *)

\* The limiter of an evicted daemon goes, unless its group outlives it.
ReclaimLimiter(d) == d \in Evicted /\ groups[d] = {}

\* Presence is worked out after the evictions, so for those that are still known.
StaleSweep ==
    /\ CheckStaleDaemons
    /\ ring' = Ring!PurgeDaemons(ring, Evicted)
    /\ groupLimiters' = [d \in Daemons |-> IF ReclaimLimiter(d) THEN None
                                           ELSE groupLimiters[d]]
    /\ out' = [x \in Conns |->
                 SetToSeq({Presence(d, FALSE) : d \in
                    {e \in NewlyOffline \ Evicted : x \in groups[e] /\ role[x] = "frontend"}})]
    /\ UNCHANGED <<phase, authVars, groups, resumable>>

Tick ==
    /\ ClockTick
    /\ out' = Nothing
    /\ UNCHANGED coreVars

\* A resume token reaches its expiry.
ExpireResumeToken(id) ==
    /\ resumable' = resumable \ {id}
    /\ out' = Nothing
    /\ UNCHANGED <<registryVars, phase, authVars, groupVars, ring>>

\* resolve_key: tokens outlive the relay if a signing secret is configured; a
\* random one makes them void.
ResolveKey == resumable' \in {resumable, {}}

\* The relay process stops and starts: its state was all in memory.
Restart ==
    /\ RegistryRestart
    /\ phase' = [c \in Conns |-> "absent"]
    /\ role' = [c \in Conns |-> None]
    /\ home' = [c \in Conns |-> None]
    /\ fid' = [c \in Conns |-> None]
    /\ subs' = [c \in Conns |-> {}]
    /\ limiterOf' = [c \in Conns |-> None]
    /\ groups' = [d \in Daemons |-> {}]
    /\ groupLimiters' = [d \in Daemons |-> None]
    /\ ring' = Ring!EmptyRing
    /\ ResolveKey
    /\ out' = Nothing

ClientStep(c) ==
    \/ \E cred \in Credentials : Register(c, cred)
    \/ \E id \in Identities, cred \in Credentials : Auth(c, id, cred)
    \/ \E absent \in BOOLEAN : AuthWithoutFid(c, absent)
    \/ \E id \in Identities : AuthResume(c, id)
    \/ RateLimited(c)
    \/ NotAuthenticated(c)
    \/ \E s \in Sids, n \in Seqs : RoutePublish(c, s, n)
    \/ RouteKeyExchange(c)
    \/ \E s \in Sids, after \in Seqs \cup {0, None} : RouteSubscribe(c, s, after)
    \/ \E s \in Sids : RouteUnsubscribe(c, s)
    \/ RoutePing(c)
    \/ RoutePushRegister(c)

Next ==
    \/ \E c \in Conns : Connect(c) \/ Close(c) \/ ForceClose(c) \/ ClientStep(c)
    \/ StaleSweep
    \/ Tick
    \/ \E id \in Identities : ExpireResumeToken(id)
    \/ Restart

Spec == Init /\ [][Next]_vars

-----------------------------------------------------------------------------
(* Properties.                                                             *)

TypeOK ==
    /\ RegistryTypeOK
    /\ phase \in [Conns -> {"absent", "open", "removed"}]
    /\ role \in [Conns -> Roles \cup {None}]
    /\ home \in [Conns -> Daemons \cup {None}]
    /\ fid \in [Conns -> Fids \cup {None}]
    /\ subs \in [Conns -> SUBSET Sids]
    /\ limiterOf \in [Conns -> Limiters \cup {None}]
    /\ groups \in [Daemons -> SUBSET Conns]
    /\ groupLimiters \in [Daemons -> Limiters \cup {None}]
    /\ resumable \subseteq Identities
    /\ \A c \in Conns :
         /\ Authed(c) => phase[c] = "open" /\ home[c] # None
         /\ ~Authed(c) => home[c] = None /\ subs[c] = {} /\ limiterOf[c] = None

\* Routing looks connections up through their group: every authenticated
\* connection is in the group of its daemon, through re-authentication,
\* closes by other tasks, eviction and re-registration of the daemon.
AuthedInGroup == \A c \in Conns : Authed(c) => c \in groups[home[c]]

\* The group budget is one budget: a daemon has a limiter exactly while it has
\* a group, and everyone authenticated to it holds that same limiter, also
\* when frontends outlive the daemon's eviction and it registers again.
SharedLimiter ==
    /\ \A d \in Daemons : groupLimiters[d] # None <=> groups[d] # {}
    /\ \A c \in Conns : Authed(c) => limiterOf[c] = groupLimiters[home[c]]
    /\ \A d1, d2 \in Daemons :
         groupLimiters[d1] = groupLimiters[d2] /\ groupLimiters[d1] # None => d1 = d2

\* Frontends are never left with a stale view that a later message will not
\* correct: a frontend that has just authenticated, or whose daemon has just
\* gone on- or offline (without being forgotten), is told the new state.
PresenceAnnounced ==
    [][\A x \in Conns, d \in Daemons :
         ( /\ role'[x] = "frontend" /\ home'[x] = d /\ d \in known'
           /\ \/ online'[d] # online[d]
              \/ role[x] # "frontend"
              \/ home[x] # d )
         => Contains(out'[x], Presence(d, online'[d]))]_vars

\* Fan-out through the group index is what a scan of all connections would
\* give: a published frame goes to exactly the other connections that are
\* authenticated to the same daemon and subscribed to the session.
FanOutExact ==
    [][\A c \in Conns, s \in Sids, n \in Seqs : RoutePublish(c, s, n) =>
         \A x \in Conns \ {c} :
             out'[x] # << >> <=> home[x] = home[c] /\ s \in subs[x]]_vars

\* "daemonId -> set of ConnIds in the group (daemon + all its frontends)":
\* a group holds no connection that is gone or belongs to another daemon.
GroupsAreLive == \A d \in Daemons : \A c \in groups[d] : Authed(c) /\ home[c] = d

\* The relay reports a daemon online only while a connection of it is open.
OnlineHasDaemon ==
    \A d \in Daemons : online[d] => \E c \in Conns : role[c] = "daemon" /\ home[c] = d
=============================================================================
