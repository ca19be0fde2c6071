----------------------------- MODULE KeyExchange -----------------------------
(***************************************************************************)
(* How a daemon and its apps come to share session keys over the relay:    *)
(* the daemon's client (rust/tp-daemon/src/transport/relay_client.rs), the *)
(* app's (ios/Sources/Relay/RelayClient.swift), and of the relay what they *)
(* meet (RelayCore has the whole of it): registration, the group, and the  *)
(* routing of relay.kx, which the relay does not keep for later.           *)
(*                                                                         *)
(* The daemon's key pair belongs to the pairing.  An app makes a new one   *)
(* for every exchange, so a session key is named by the app key it was     *)
(* derived from: both ends share one when they name the same app key.      *)
(***************************************************************************)
EXTENDS Naturals, Sequences, SequencesExt, FiniteSets

CONSTANTS
    Daemon, Frontends,
    Keys,           \* names for app key pairs; one is used again when nothing holds it;
                    \* bound: an exchange waits until one is free
    Nil,            \* stands for no key and no sender
    MayRefuse,      \* may the relay's rate limiter refuse a kx?
    MaxFaults,      \* bound: lost connections and restarts
    MaxQueue        \* bound: messages under way in one direction of a connection

Parties == Frontends \cup {Daemon}

ASSUME KxAssumption ==
    /\ Daemon \notin Frontends
    /\ Nil \notin Keys \cup Frontends
    /\ MayRefuse \in BOOLEAN
    /\ MaxFaults \in Nat
    /\ MaxQueue \in Nat

VARIABLES
    conn,           \* a client's socket: "down", "open" (not authenticated),
                    \* "authed", or "shut" (open, but the client gave up writing)
    token,          \* does the daemon hold a resume token?
    peers,          \* the daemon's peers: app -> the app key its session keys were
                    \* derived from, kept across reconnects
    keyPair,        \* an app's current key pair
    sessionKeys,    \* the key pair an app's session keys were derived from
    registered,     \* does the relay know the daemon?
    joined,         \* connections authenticated at the relay
    up, down,       \* messages under way to and from the relay
    faults,
    lost            \* history: a kx from or to this app was lost since it made
                    \* its current key pair

clientVars == <<conn, token, peers, keyPair, sessionKeys>>
relayVars == <<registered, joined>>
kxVars == <<clientVars, relayVars, up, down, faults, lost>>

Msg(t) == [t |-> t, from |-> Nil, key |-> Nil]
Kx(x, k) == [t |-> "kx", from |-> x, key |-> k]
AuthOk(resumed) == [t |-> IF resumed THEN "resumed" ELSE "authed", from |-> Nil, key |-> Nil]

KxInit ==
    /\ conn = [x \in Parties |-> "down"]
    /\ token = FALSE
    /\ peers = [f \in Frontends |-> Nil]
    /\ keyPair = [f \in Frontends |-> Nil]
    /\ sessionKeys = [f \in Frontends |-> Nil]
    /\ registered = FALSE
    /\ joined = {}
    /\ up = [x \in Parties |-> << >>]
    /\ down = [x \in Parties |-> << >>]
    /\ faults = 0
    /\ lost = [f \in Frontends |-> FALSE]

KxIn(q) == {m \in ToSet(q) : m.t = "kx"}

\* Is a kx under way from f to the daemon, or from the daemon to f?
KxToDaemon(f) == KxIn(up[f]) # {} \/ \E m \in KxIn(down[Daemon]) : m.from = f
KxToApp(f) == KxIn(down[f]) # {} \/ KxIn(up[Daemon]) # {}

\* Key pairs are random: a new one is none of those anything still refers to.
InUse(f) ==
    {peers[f], keyPair[f], sessionKeys[f]}
    \cup {m.key : m \in {n \in KxIn(up[f]) \cup KxIn(down[Daemon]) : n.from = f}}
FreshKey(f) == CHOOSE k \in Keys : k \notin InUse(f)

\* The two halves of the hash of the shared secret, for the app as the client and the
\* daemon as the server of the exchange: what one sends with the other receives with.
Half(k, reader) == [app |-> k, reader |-> reader]
KxClientSessionKeys(k) == [rx |-> Half(k, "app"), tx |-> Half(k, "daemon")]
KxServerSessionKeys(k) == [rx |-> Half(k, "daemon"), tx |-> Half(k, "app")]

-----------------------------------------------------------------------------
(* The daemon's client.                                                    *)

\* connect and on_open: resume if there is a token that has not expired.
DaemonConnect(resume) ==
    /\ conn[Daemon] = "down"
    /\ resume => token
    /\ token' = resume
    /\ conn' = [conn EXCEPT ![Daemon] = "open"]
    /\ up' = [up EXCEPT ![Daemon] = <<Msg(IF resume THEN "resume" ELSE "register")>>]
    /\ UNCHANGED <<peers, keyPair, sessionKeys, relayVars, down, faults, lost>>

DaemonTakes(t) ==
    /\ conn[Daemon] # "down"
    /\ down[Daemon] # << >>
    /\ Head(down[Daemon]).t = t
    /\ down' = [down EXCEPT ![Daemon] = Tail(@)]

DaemonRoom == Len(up[Daemon]) < MaxQueue

\* A send after close_socket goes nowhere.
DaemonSends(m) ==
    up' = [up EXCEPT ![Daemon] = IF conn[Daemon] = "shut" THEN @ ELSE Append(@, m)]

DaemonRegisterOk ==
    /\ DaemonTakes("register.ok")
    /\ DaemonSends(Msg("auth"))
    /\ UNCHANGED <<clientVars, relayVars, faults, lost>>

\* The announcement is left out on a resumed connection if there are peers.
SkipAnnouncement(resumed) == resumed /\ \E f \in Frontends : peers[f] # Nil

DaemonAuthOk(resumed) ==
    /\ DaemonTakes(AuthOk(resumed).t)
    /\ conn' = [conn EXCEPT ![Daemon] = "authed"]
    /\ token' = TRUE
    /\ IF SkipAnnouncement(resumed) THEN UNCHANGED up ELSE DaemonSends(Kx(Daemon, Nil))
    /\ UNCHANGED <<peers, keyPair, sessionKeys, relayVars, faults, lost>>

\* close_socket drops the sender only; reading goes on until the relay closes.
DaemonAuthErr ==
    /\ DaemonTakes("auth.err")
    /\ conn' = [conn EXCEPT ![Daemon] = "shut"]
    /\ token' = FALSE
    /\ UNCHANGED <<peers, keyPair, sessionKeys, relayVars, up, faults, lost>>

\* "ALWAYS answer a frontend's kx with our pubkey."
AnswerKx(f) == DaemonSends(Kx(Daemon, Nil))

HandleKxFrame ==
    LET m == Head(down[Daemon])
    IN
    /\ DaemonTakes("kx")
    /\ DaemonRoom
    /\ peers' = [peers EXCEPT ![m.from] = m.key]
    /\ AnswerKx(m.from)
    /\ UNCHANGED <<conn, token, keyPair, sessionKeys, relayVars, faults, lost>>

-----------------------------------------------------------------------------
(* The app's client.                                                       *)

\* A resume and a full auth do the same here: both end in onAuthOk or onAuthErr.
AppConnect(f) ==
    /\ conn[f] = "down"
    /\ conn' = [conn EXCEPT ![f] = "open"]
    /\ up' = [up EXCEPT ![f] = <<Msg("auth")>>]
    /\ UNCHANGED <<token, peers, keyPair, sessionKeys, relayVars, down, faults, lost>>

AppTakes(f, t) ==
    /\ conn[f] # "down"
    /\ down[f] # << >>
    /\ Head(down[f]).t = t
    /\ down' = [down EXCEPT ![f] = Tail(@)]

StartKeyExchange(f) ==
    /\ Len(up[f]) < MaxQueue
    /\ Keys \ InUse(f) # {}
    /\ keyPair' = [keyPair EXCEPT ![f] = FreshKey(f)]
    /\ up' = [up EXCEPT ![f] = Append(@, Kx(f, FreshKey(f)))]
    /\ lost' = [lost EXCEPT ![f] = FALSE]

OnAuthOk(f) ==
    /\ AppTakes(f, "authed")
    /\ conn' = [conn EXCEPT ![f] = "authed"]
    /\ StartKeyExchange(f)
    /\ UNCHANGED <<token, peers, sessionKeys, relayVars, faults>>

\* scheduleReconnect tears the connection down at both ends.
OnAuthErr(f) ==
    /\ conn[f] # "down"
    /\ down[f] # << >> /\ Head(down[f]).t = "auth.err"
    /\ conn' = [conn EXCEPT ![f] = "down"]
    /\ up' = [up EXCEPT ![f] = << >>]
    /\ down' = [down EXCEPT ![f] = << >>]
    /\ joined' = joined \ {f}
    /\ UNCHANGED <<token, peers, keyPair, sessionKeys, registered, faults, lost>>

\* Mutant: session keys are derived from the key pair of before.
ReKeyFromOld(f) ==
    /\ StartKeyExchange(f)
    /\ sessionKeys' = [sessionKeys EXCEPT ![f] = keyPair[f]]

\* An app that has keys starts over: first the new key pair, then keys from it.
ReKey(f) ==
    /\ StartKeyExchange(f)
    /\ sessionKeys' = [sessionKeys EXCEPT ![f] = FreshKey(f)]

OnKeyExchangeFrame(f) ==
    /\ AppTakes(f, "kx")
    /\ \/ /\ keyPair[f] = Nil
          /\ UNCHANGED <<keyPair, sessionKeys, up, lost>>
       \/ /\ keyPair[f] # Nil /\ sessionKeys[f] = Nil
          /\ sessionKeys' = [sessionKeys EXCEPT ![f] = keyPair[f]]
          /\ UNCHANGED <<keyPair, up, lost>>
       \/ /\ keyPair[f] # Nil /\ sessionKeys[f] # Nil
          /\ ReKey(f)
    /\ UNCHANGED <<conn, token, peers, relayVars, faults>>

-----------------------------------------------------------------------------
(* The relay.                                                              *)

RelayTakes(x, t) ==
    /\ up[x] # << >>
    /\ Head(up[x]).t = t
    /\ up' = [up EXCEPT ![x] = Tail(@)]

RelayReplies(x, m) == down' = [down EXCEPT ![x] = Append(@, m)]

RelayRegister ==
    /\ RelayTakes(Daemon, "register")
    /\ registered' = TRUE
    /\ RelayReplies(Daemon, Msg("register.ok"))
    /\ UNCHANGED <<clientVars, joined, faults, lost>>

\* An unregistered daemon, and its apps, are refused: also with a valid token.
RelayAuth(x, resumed) ==
    /\ RelayTakes(x, IF resumed THEN "resume" ELSE "auth")
    /\ joined' = IF registered THEN joined \cup {x} ELSE joined
    /\ RelayReplies(x, IF registered THEN AuthOk(resumed) ELSE Msg("auth.err"))
    /\ UNCHANGED <<clientVars, registered, faults, lost>>

\* The other side of the group, as far as it is connected.
KxTargets(x) == IF x = Daemon THEN joined \ {Daemon} ELSE joined \cap {Daemon}

RouteKx(x) ==
    LET m == Head(up[x])
    IN
    /\ RelayTakes(x, "kx")
    /\ x \in joined
    /\ \A y \in KxTargets(x) : Len(down[y]) < MaxQueue
    /\ down' = [y \in Parties |-> IF y \in KxTargets(x) THEN Append(down[y], m) ELSE down[y]]
    /\ lost' = [f \in Frontends |-> lost[f] \/ (f = x /\ m.key = keyPair[f] /\ Daemon \notin joined)]
    /\ UNCHANGED <<clientVars, relayVars, faults>>

\* RATE_LIMITED: the frame is dropped, the connection stays.
RefuseKx(x) ==
    /\ MayRefuse
    /\ RelayTakes(x, "kx")
    /\ lost' = [f \in Frontends |-> lost[f] \/ x \in {f, Daemon}]
    /\ UNCHANGED <<clientVars, relayVars, down, faults>>

\* The authentication deadline, for a connection on which nothing more will come.
AuthTimeout(x) ==
    /\ conn[x] \in {"open", "shut"}
    /\ x \notin joined
    /\ up[x] = << >> /\ down[x] = << >>
    /\ conn' = [conn EXCEPT ![x] = "down"]
    /\ UNCHANGED <<token, peers, keyPair, sessionKeys, relayVars, up, down, faults, lost>>

\* The relay forgets a daemon that was away for long.
Forget ==
    /\ conn[Daemon] = "down"
    /\ registered
    /\ registered' = FALSE
    /\ UNCHANGED <<clientVars, joined, up, down, faults, lost>>

-----------------------------------------------------------------------------
(* Faults.                                                                 *)

\* What is under way to or from x is gone.
LostWith(X) ==
    [f \in Frontends |->
        \/ lost[f]
        \/ Daemon \in X /\ ( KxIn(up[Daemon]) # {}
                             \/ \E m \in KxIn(down[Daemon]) : m.from = f )
        \/ f \in X]

Disconnect(X) ==
    /\ faults < MaxFaults
    /\ faults' = faults + 1
    /\ conn' = [x \in Parties |-> IF x \in X THEN "down" ELSE conn[x]]
    /\ up' = [x \in Parties |-> IF x \in X THEN << >> ELSE up[x]]
    /\ down' = [x \in Parties |-> IF x \in X THEN << >> ELSE down[x]]
    /\ joined' = joined \ X
    /\ lost' = LostWith(X)
    /\ keyPair' = [f \in Frontends |-> IF f \in X THEN Nil ELSE keyPair[f]]
    /\ sessionKeys' = [f \in Frontends |-> IF f \in X THEN Nil ELSE sessionKeys[f]]

Drop(x) ==
    /\ conn[x] # "down"
    /\ Disconnect({x})
    /\ UNCHANGED <<token, peers, registered>>

\* Peers and token are in memory; the daemon's key pair is in its store.
DaemonRestart ==
    /\ Disconnect({Daemon})
    /\ token' = FALSE
    /\ peers' = [f \in Frontends |-> Nil]
    /\ UNCHANGED registered

RelayRestart ==
    /\ Disconnect({x \in Parties : conn[x] # "down"})
    /\ registered' = FALSE
    /\ UNCHANGED <<token, peers>>

DaemonStep ==
    \/ \E resume \in BOOLEAN : DaemonConnect(resume)
    \/ DaemonRegisterOk
    \/ \E resumed \in BOOLEAN : DaemonAuthOk(resumed)
    \/ DaemonAuthErr
    \/ HandleKxFrame

AppStep(f) ==
    \/ AppConnect(f)
    \/ OnAuthOk(f)
    \/ OnAuthErr(f)
    \/ OnKeyExchangeFrame(f)

RelayStep(x) ==
    \/ x = Daemon /\ RelayRegister
    \/ \E resumed \in BOOLEAN : RelayAuth(x, resumed)
    \/ RouteKx(x)
    \/ AuthTimeout(x)

KxNext ==
    \/ DaemonStep
    \/ \E f \in Frontends : AppStep(f)
    \/ \E x \in Parties : RelayStep(x) \/ RefuseKx(x) \/ Drop(x)
    \/ Forget
    \/ DaemonRestart
    \/ RelayRestart

KxSpec == KxInit /\ [][KxNext]_kxVars

-----------------------------------------------------------------------------
(* Properties.                                                             *)

Messages ==
    [t : {"register", "register.ok", "auth", "resume", "authed", "resumed", "auth.err"},
     from : {Nil}, key : {Nil}]
    \cup {Kx(Daemon, Nil)} \cup {Kx(f, k) : f \in Frontends, k \in Keys}

\* Queues hold messages, and a client takes itself for authenticated only while
\* the relay has it in the group, over lost connections and restarts.
KxTypeOK ==
    /\ conn \in [Parties -> {"down", "open", "authed", "shut"}]
    /\ token \in BOOLEAN
    /\ peers \in [Frontends -> Keys \cup {Nil}]
    /\ keyPair \in [Frontends -> Keys \cup {Nil}]
    /\ sessionKeys \in [Frontends -> Keys \cup {Nil}]
    /\ registered \in BOOLEAN
    /\ joined \subseteq Parties
    /\ up \in [Parties -> Seq(Messages)]
    /\ down \in [Parties -> Seq(Messages)]
    /\ faults \in 0..MaxFaults
    /\ lost \in [Frontends -> BOOLEAN]
    /\ \A x \in Parties : conn[x] = "authed" => x \in joined

Agree(f) ==
    /\ sessionKeys[f] # Nil /\ peers[f] # Nil
    /\ KxServerSessionKeys(peers[f]).tx = KxClientSessionKeys(sessionKeys[f]).rx
    /\ KxServerSessionKeys(peers[f]).rx = KxClientSessionKeys(sessionKeys[f]).tx

\* Once an app's newest key has arrived, if no kx was lost since it was made, both
\* ends use it: through re-keying, answers meant for another app, old answers,
\* daemon restarts and resumed connections.  They may differ only until a kx of
\* the daemon arrives that is already under way, to an app that has no keys yet
\* or on behalf of a daemon that has forgotten the app.
KeysAgree ==
    \A f \in Frontends :
        conn[f] = "authed" /\ conn[Daemon] = "authed" /\ ~KxToDaemon(f) /\ ~lost[f] =>
            \/ Agree(f)
            \/ KxToApp(f) /\ (sessionKeys[f] = Nil \/ peers[f] = Nil)
=============================================================================
