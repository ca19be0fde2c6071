--------------------------- MODULE DaemonClient ---------------------------
(***************************************************************************)
(* The connection of one pairing's relay client in the daemon              *)
(* (tp-daemon/src/transport/relay_client.rs): connect(), the reader task,  *)
(* the reconnect timer, dispose(), and tasks of the daemon that call       *)
(* subscribe() and unsubscribe().  Each action is what happens under one   *)
(* acquisition of the client's locks, so the steps of these tasks          *)
(* interleave as they do on the daemon's multi-threaded runtime.           *)
(*                                                                         *)
(* Generations are numbered modulo Gens: the code only compares them for   *)
(* equality, and a number is used again when nothing alive holds it.  The  *)
(* attempt counter and delays are reduced to what decides behaviour: a     *)
(* timer is fast or slow (throttled).  KeyExchange models what the keys    *)
(* and the application's side of the exchange do.                          *)
(***************************************************************************)
EXTENDS Integers, Sequences, FiniteSets, SequencesExt

CONSTANTS
    Sids,           \* sessions the daemon subscribes to
    Gens,           \* how many generations are told apart
    Capacity,       \* room of the outbound channel (256 in the code)
    Threshold,      \* PEERLESS_RECONNECT_THRESHOLD
    MaxFaults,      \* bound on closes, failed dials and refusals
    None

Generation == 0 .. Gens - 1

(* A reconnect task: not started or asleep, for which generation, how long. *)
Timers == [pc : {"new", "sleep"}, gen : Generation \cup {None}, slow : BOOLEAN]

ASSUME ClientAssumption ==
    /\ Gens \in Nat \ {0, 1} /\ Capacity \in Nat \ {0}
    /\ Threshold \in Nat /\ MaxFaults \in Nat
    /\ None \notin Generation \cup Timers /\ None \notin {"sub", "unsub"}

VARIABLES
    gen, tx, auth, resume, resuming, hadPeer, peerless, wanted, peers,
    tasks,      \* generations whose reader and writer dispose() can abort
    conn,       \* the connect() in progress: [pc, gen]
    reader,     \* generation -> where its read loop stands
    subs,       \* subscriptions handle_auth_ok has still to send
    timer,      \* None, or the reconnect task: [pc, gen, slow]
    call,       \* sid -> the subscribe or unsubscribe call in progress
    dispose,    \* "no", "flag", "state", "done"
    sock,       \* generation -> the socket and the relay at its other end
    faults

clientVars == <<gen, tx, auth, resume, resuming, hadPeer, peerless, wanted, peers, tasks>>
vars == <<gen, tx, auth, resume, resuming, hadPeer, peerless, wanted, peers, tasks,
          conn, reader, subs, timer, call, dispose, sock, faults>>

disposed == dispose # "no"
NoSocket == [open |-> FALSE, in |-> <<>>, out |-> <<>>, auth |-> FALSE,
             subs |-> {}, refused |-> {}, lost |-> FALSE]
Idle == [pc |-> "idle", gen |-> None]

(* What the client can send: Register, Auth, AuthResume, KeyExchange,      *)
(* Subscribe and Unsubscribe; and what the relay answers.                  *)
Requests == {<<"register">>, <<"auth">>, <<"resume">>, <<"kx">>}
            \cup ({"sub", "unsub"} \X Sids)
Answers == {"registerOk", "registerErr", "authOk", "resumed", "authErr", "kx"}

(* ConnState::new and the call of connect() that follows.                  *)
Init ==
    /\ gen = 0 /\ tx = None /\ auth = FALSE
    /\ resume = "none" /\ resuming = FALSE /\ hadPeer = FALSE /\ peerless = 0
    /\ wanted = {} /\ peers = FALSE /\ tasks = {}
    /\ conn = [pc |-> "check", gen |-> None]
    /\ reader = [g \in Generation |-> "none"]
    /\ subs = {} /\ timer = None
    /\ call = [s \in Sids |-> None]
    /\ dispose = "no"
    /\ sock = [g \in Generation |-> NoSocket]
    /\ faults = 0

---------------------------------------------------------------------------
(* A new generation: one no task or socket holds any more.                 *)
Bump ==
    LET next == (gen + 1) % Gens IN
    /\ gen' = next
    /\ reader[next] \in {"none", "done"} /\ ~sock[next].open /\ tx # next
    /\ conn.gen # next
    /\ timer # None => timer.gen # next

(* send(): into the channel of the current socket.  Without one, or with a *)
(* full channel, the message is dropped; lost records the latter.          *)
Sent(socks, m) ==
    IF tx = None THEN socks
    ELSE IF ~socks[tx].open THEN socks
    ELSE IF Len(socks[tx].in) < Capacity
         THEN [socks EXCEPT ![tx].in = Append(@, m)]
         ELSE [socks EXCEPT ![tx].lost = TRUE]

(* The socket closes when its reader and its writer are gone; the relay    *)
(* then sees the close.                                                    *)
Closed(socks, gs) == [g \in Generation |-> IF g \in gs THEN NoSocket ELSE socks[g]]

(* cleanup(), first lock: no sender, and a generation that ends old loops. *)
CleanState == /\ Bump
              /\ hadPeer' = FALSE
              /\ tx' = None
              /\ UNCHANGED <<auth, resume, resuming, peerless, wanted, peers, tasks>>

(* cleanup(), second lock: the registered reader and writer are aborted,   *)
(* wherever they are suspended.                                            *)
AbortTasks == /\ tasks' = {}
              /\ reader' = [g \in Generation |-> IF g \in tasks THEN "done" ELSE reader[g]]
              /\ sock' = Closed(sock, tasks)
              /\ subs' = {}
              /\ UNCHANGED <<gen, tx, auth, resume, resuming, hadPeer, peerless, wanted, peers>>

(* schedule_reconnect() spawns a task; it reads the counters when it runs. *)
Schedule == timer' = [pc |-> "new", gen |-> None, slow |-> FALSE]

Stay == UNCHANGED <<subs, call, dispose, faults>>

---------------------------------------------------------------------------
(* connect(), one lock after another.                                      *)
ConnectStarts == /\ conn.pc = "check"
                 /\ conn' = IF disposed THEN Idle ELSE [conn EXCEPT !.pc = "clean"]
                 /\ UNCHANGED <<clientVars, reader, timer, sock>> /\ Stay

ConnectCleans == /\ conn.pc = "clean" /\ CleanState
                 /\ conn' = [conn EXCEPT !.pc = "abort"]
                 /\ UNCHANGED <<reader, timer, sock>> /\ Stay

ConnectAborts == /\ conn.pc = "abort" /\ AbortTasks
                 /\ conn' = [conn EXCEPT !.pc = "gen"]
                 /\ UNCHANGED <<timer, call, dispose, faults>>

ConnectNumbers == /\ conn.pc = "gen" /\ Bump
                  /\ conn' = [pc |-> "dial", gen |-> gen']
                  /\ UNCHANGED <<tx, auth, resume, resuming, hadPeer, peerless, wanted, peers,
                                 tasks, reader, timer, sock>> /\ Stay

Dialled == /\ conn.pc = "dial"
           /\ sock' = [sock EXCEPT ![conn.gen].open = TRUE]
           /\ conn' = [conn EXCEPT !.pc = "verify"]
           /\ UNCHANGED <<clientVars, reader, timer>> /\ Stay

(* Variant: a failed dial ends the reconnect loop.                         *)
GivesUp == /\ conn.pc = "dial" /\ faults < MaxFaults
           /\ faults' = faults + 1
           /\ conn' = Idle
           /\ UNCHANGED <<clientVars, reader, subs, timer, call, dispose, sock>>

DialFails == /\ conn.pc = "dial" /\ faults < MaxFaults
             /\ faults' = faults + 1
             /\ conn' = Idle
             /\ Schedule
             /\ UNCHANGED <<clientVars, reader, subs, call, dispose, sock>>

(* Variant: only the generation is checked, not disposed.                  *)
GenerationOnly == gen # conn.gen

(* The client was disposed of, or another connect() took over, while the   *)
(* dial was awaited.                                                       *)
Superseded == disposed \/ gen # conn.gen

ConnectVerifies ==
    /\ conn.pc = "verify"
    /\ IF Superseded
       THEN conn' = Idle /\ sock' = Closed(sock, {conn.gen})
       ELSE conn' = [conn EXCEPT !.pc = "assign"] /\ sock' = sock
    /\ UNCHANGED <<clientVars, reader, timer>> /\ Stay

ConnectAssigns ==
    /\ conn.pc = "assign"
    /\ tx' = conn.gen
    /\ reader' = [reader EXCEPT ![conn.gen] = "wait"]
    /\ conn' = [conn EXCEPT !.pc = "push"]
    /\ UNCHANGED <<gen, auth, resume, resuming, hadPeer, peerless, wanted, peers, tasks,
                   timer, sock>> /\ Stay

ConnectRegisters ==
    /\ conn.pc = "push"
    /\ tasks' = tasks \cup {conn.gen}
    /\ conn' = [conn EXCEPT !.pc = "open"]
    /\ UNCHANGED <<gen, tx, auth, resume, resuming, hadPeer, peerless, wanted, peers,
                   reader, timer, sock>> /\ Stay

(* on_open(): resume with the cached token, or register.                   *)
OnOpen ==
    /\ conn.pc = "open"
    /\ sock' = Sent(sock, IF resume # "none" THEN <<"resume">> ELSE <<"register">>)
    /\ resuming' = (resume # "none" \/ resuming)
    /\ conn' = Idle
    /\ UNCHANGED <<gen, tx, auth, resume, hadPeer, peerless, wanted, peers, tasks,
                   reader, timer>> /\ Stay

---------------------------------------------------------------------------
(* The read loop of generation g.  A message or a close arrives, and the   *)
(* generation is checked before it is handled.                             *)
Stale(g) == gen # g

ReaderEnds(g) == reader' = [reader EXCEPT ![g] = "done"]

ReadStale(g) ==
    /\ reader[g] = "wait" /\ Stale(g)
    /\ ~sock[g].open \/ sock[g].out # <<>>
    /\ ReaderEnds(g)
    /\ UNCHANGED <<clientVars, conn, timer, sock>> /\ Stay

(* on_close() *)
OnClose(g) ==
    /\ reader[g] = "wait" /\ ~sock[g].open /\ ~Stale(g)
    /\ auth' = FALSE
    /\ Schedule
    /\ ReaderEnds(g)
    /\ UNCHANGED <<gen, tx, resume, resuming, hadPeer, peerless, wanted, peers, tasks,
                   conn, sock>> /\ Stay

Takes(g, m) ==
    /\ reader[g] = "wait" /\ sock[g].open /\ ~Stale(g)
    /\ sock[g].out # <<>> /\ Head(sock[g].out) = m

Popped(g) == [sock EXCEPT ![g].out = Tail(@)]

HandleRegisterOk(g) ==
    /\ Takes(g, "registerOk")
    /\ sock' = Sent(Popped(g), <<"auth">>)
    /\ UNCHANGED <<clientVars, conn, reader, timer>> /\ Stay

(* Variant: a refused resume token is kept.                                *)
KeepsResumeToken(g) ==
    /\ Takes(g, "registerErr") \/ Takes(g, "authErr")
    /\ sock' = Popped(g) /\ tx' = None
    /\ UNCHANGED <<gen, auth, resume, resuming, hadPeer, peerless, wanted, peers, tasks,
                   conn, reader, timer>> /\ Stay

(* close_socket() drops the sender; the relay's timeout ends the socket.   *)
HandleRefusal(g) ==
    /\ Takes(g, "registerErr") \/ Takes(g, "authErr")
    /\ sock' = Popped(g)
    /\ tx' = None
    /\ resume' = IF resuming /\ Takes(g, "authErr") THEN "none" ELSE resume
    /\ resuming' = (resuming /\ ~Takes(g, "authErr"))
    /\ UNCHANGED <<gen, auth, hadPeer, peerless, wanted, peers, tasks, conn, reader, timer>>
    /\ Stay

(* handle_auth_ok(): authenticated is set under one lock, the subscriptions *)
(* are copied under the next and sent one by one; then the key is announced *)
(* unless a resumed client has peers already.                               *)
HandleAuthOk(g) ==
    /\ Takes(g, "authOk") \/ Takes(g, "resumed")
    /\ sock' = Popped(g)
    /\ auth' = TRUE /\ resume' = "good" /\ resuming' = FALSE
    /\ reader' = [reader EXCEPT ![g] = IF Takes(g, "resumed") THEN "copyResumed" ELSE "copy"]
    /\ UNCHANGED <<gen, tx, hadPeer, peerless, wanted, peers, tasks, conn, timer>> /\ Stay

(* Variant: a resumed connection is taken to have its subscriptions.       *)
ResumeSkipsSubscriptions(g) ==
    /\ reader[g] \in {"copy", "copyResumed"}
    /\ subs' = IF reader[g] = "copyResumed" THEN {} ELSE wanted
    /\ reader' = [reader EXCEPT ![g] = "subs"]
    /\ UNCHANGED <<clientVars, conn, timer, call, dispose, sock, faults>>

CopySubscriptions(g) ==
    /\ reader[g] \in {"copy", "copyResumed"}
    /\ subs' = wanted
    /\ reader' = [reader EXCEPT ![g] = IF reader[g] = "copyResumed" /\ peers
                                       THEN "quietSubs" ELSE "subs"]
    /\ UNCHANGED <<clientVars, conn, timer, call, dispose, sock, faults>>

SendSubscription(g) ==
    /\ reader[g] \in {"subs", "quietSubs"}
    /\ \E s \in subs : /\ sock' = Sent(sock, <<"sub", s>>)
                       /\ subs' = subs \ {s}
    /\ UNCHANGED <<clientVars, conn, reader, timer, call, dispose, faults>>

AuthHandled(g) ==
    /\ reader[g] \in {"subs", "quietSubs"} /\ subs = {}
    /\ sock' = IF reader[g] = "subs" THEN Sent(sock, <<"kx">>) ELSE sock
    /\ reader' = [reader EXCEPT ![g] = "wait"]
    /\ UNCHANGED <<clientVars, conn, timer>> /\ Stay

(* handle_kx_frame(): the peer is stored, the throttle reset, the key      *)
(* announced again.                                                        *)
HandleKx(g) ==
    /\ Takes(g, "kx")
    /\ peers' = TRUE /\ peerless' = 0 /\ hadPeer' = TRUE
    /\ sock' = Sent(Popped(g), <<"kx">>)
    /\ UNCHANGED <<gen, tx, auth, resume, resuming, wanted, tasks, conn, reader, timer>> /\ Stay

---------------------------------------------------------------------------
(* The task schedule_reconnect() spawned.  Its delay is at least a second,  *)
(* which outlasts the last steps of the connect() whose socket closed: the  *)
(* sleep ends when no connect() is in progress.                             *)
NextPeerless == IF hadPeer THEN 0
                ELSE IF peerless < Threshold THEN peerless + 1 ELSE peerless

TimerStarts ==
    /\ timer # None /\ timer.pc = "new"
    /\ IF disposed
       THEN timer' = None /\ UNCHANGED peerless
       ELSE /\ peerless' = NextPeerless
            /\ timer' = [pc |-> "sleep", gen |-> gen, slow |-> NextPeerless >= Threshold]
    /\ UNCHANGED <<gen, tx, auth, resume, resuming, hadPeer, wanted, peers, tasks,
                   conn, reader, sock>> /\ Stay

TimerFires ==
    /\ timer # None /\ timer.pc = "sleep" /\ conn.pc = "idle"
    /\ timer' = None
    /\ conn' = IF disposed \/ gen # timer.gen THEN Idle ELSE [pc |-> "check", gen |-> None]
    /\ UNCHANGED <<clientVars, reader, sock>> /\ Stay

---------------------------------------------------------------------------
(* dispose() *)
DisposeFlags ==
    /\ dispose = "no"
    /\ dispose' = "flag"
    /\ UNCHANGED <<clientVars, conn, reader, subs, timer, call, sock, faults>>

DisposeCleans ==
    /\ dispose = "flag" /\ CleanState
    /\ dispose' = "state"
    /\ UNCHANGED <<conn, reader, subs, timer, call, sock, faults>>

DisposeAborts ==
    /\ dispose = "state" /\ AbortTasks
    /\ dispose' = "done"
    /\ UNCHANGED <<conn, timer, call, faults>>

(* The owner of a disposed client has let go of it; when its last task ends *)
(* the client is freed, and a sender that connect() stored after cleanup()  *)
(* goes with it.                                                            *)
ClientFreed ==
    /\ dispose = "done" /\ tx # None
    /\ conn.pc = "idle" /\ timer = None
    /\ \A g \in Generation : reader[g] \in {"none", "done"}
    /\ tx' = None
    /\ UNCHANGED <<gen, auth, resume, resuming, hadPeer, peerless, wanted, peers, tasks,
                   conn, reader, timer, sock>> /\ Stay

(* subscribe() and unsubscribe(): the set changes and authenticated is read *)
(* under the lock, the message is sent after it.  One call per session is   *)
(* in progress at a time.                                                   *)
Calls(s, op) ==
    /\ call[s] = None /\ dispose = "no"
    /\ s \in wanted <=> op = "unsub"
    /\ wanted' = IF op = "sub" THEN wanted \cup {s} ELSE wanted \ {s}
    /\ call' = [call EXCEPT ![s] = IF auth THEN op ELSE None]
    /\ UNCHANGED <<gen, tx, auth, resume, resuming, hadPeer, peerless, peers, tasks,
                   conn, reader, subs, timer, dispose, sock, faults>>

Subscribe(s) == Calls(s, "sub")
Unsubscribe(s) == Calls(s, "unsub")

CallSends(s) ==
    /\ call[s] # None
    /\ sock' = Sent(sock, <<call[s], s>>)
    /\ call' = [call EXCEPT ![s] = None]
    /\ UNCHANGED <<clientVars, conn, reader, subs, timer, dispose, faults>>

---------------------------------------------------------------------------
(* The relay at the end of socket g.                                       *)
Answered(g, s) == /\ sock[g].open /\ sock[g].in # <<>>
                  /\ sock' = [sock EXCEPT ![g] = [s EXCEPT !.in = Tail(@)]]
                  /\ UNCHANGED <<clientVars, conn, reader, timer, subs, call, dispose>>

RelayTakes(g) ==
    LET s == sock[g]
        m == Head(s.in)
        Reply(a) == [s EXCEPT !.out = Append(@, a)]
    IN  \/ /\ s.in # <<>> /\ m = <<"register">>
           /\ Answered(g, Reply("registerOk")) /\ UNCHANGED faults
        \/ /\ s.in # <<>> /\ m = <<"auth">>
           /\ Answered(g, [Reply("authOk") EXCEPT !.auth = TRUE]) /\ UNCHANGED faults
        \/ /\ s.in # <<>> /\ m = <<"resume">>
           /\ Answered(g, IF resume = "good" THEN [Reply("resumed") EXCEPT !.auth = TRUE]
                          ELSE Reply("authErr"))
           /\ UNCHANGED faults
        \/ /\ s.in # <<>> /\ m = <<"kx">>
           /\ Answered(g, s) /\ UNCHANGED faults
        \/ /\ s.in # <<>> /\ m[1] \in {"sub", "unsub"}
           /\ Answered(g, IF ~s.auth THEN s
                          ELSE IF m[1] = "sub" THEN [s EXCEPT !.subs = @ \cup {m[2]}]
                          ELSE [s EXCEPT !.subs = @ \ {m[2]}])
           /\ UNCHANGED faults

(* A registration or a token is refused.                                   *)
RelayRefuses(g) ==
    /\ faults < MaxFaults
    /\ sock[g].in # <<>> /\ Head(sock[g].in) \in {<<"register">>, <<"auth">>}
    /\ Answered(g, [sock[g] EXCEPT !.out =
                       Append(@, IF Head(sock[g].in) = <<"register">> THEN "registerErr" ELSE "authErr")])
    /\ faults' = faults + 1

(* An authenticated client's message is dropped by a rate limiter, or a    *)
(* subscription by the cap on them: the relay.err that answers is logged.  *)
(* refused records the subscriptions this socket lost that way.            *)
RelayThrottles(g) ==
    LET s == sock[g]
        m == Head(s.in)
    IN  /\ faults < MaxFaults
        /\ s.in # <<>> /\ s.auth /\ m[1] \in {"sub", "unsub", "kx"}
        /\ Answered(g, IF m[1] = "sub" THEN [s EXCEPT !.refused = @ \cup {m[2]}] ELSE s)
        /\ faults' = faults + 1

(* The resume token runs out on the client's clock, or the relay restarts  *)
(* with another secret and will refuse it.                                 *)
TokenAges ==
    /\ resume = "good" /\ faults < MaxFaults
    /\ faults' = faults + 1
    /\ resume' \in {"none", "bad"}
    /\ UNCHANGED <<gen, tx, auth, resuming, hadPeer, peerless, wanted, peers, tasks,
                   conn, reader, subs, timer, call, dispose, sock>>

(* An application's key exchange is forwarded.                             *)
AppJoins(g) ==
    /\ sock[g].open /\ sock[g].auth /\ ~hadPeer
    /\ "kx" \notin ToSet(sock[g].out)
    /\ sock' = [sock EXCEPT ![g].out = Append(@, "kx")]
    /\ UNCHANGED <<clientVars, conn, reader, timer>> /\ Stay

(* The relay closes what does not authenticate, and any socket may die.    *)
AuthTimeout(g) ==
    /\ sock[g].open /\ ~sock[g].auth /\ sock[g].in = <<>> /\ conn.gen # g
    /\ reader[g] = "done" \/ (reader[g] = "wait" /\ sock[g].out = <<>>)
    /\ sock' = Closed(sock, {g})
    /\ UNCHANGED <<clientVars, conn, reader, timer>> /\ Stay

SocketDies(g) ==
    /\ sock[g].open /\ faults < MaxFaults
    /\ faults' = faults + 1
    /\ sock' = Closed(sock, {g})
    /\ UNCHANGED <<clientVars, conn, reader, subs, timer, call, dispose>>

(* Reader ended and sender dropped: nothing holds the socket any more.     *)
SocketDrops(g) ==
    /\ sock[g].open /\ reader[g] = "done" /\ tx # g
    /\ sock' = Closed(sock, {g})
    /\ UNCHANGED <<clientVars, conn, reader, timer>> /\ Stay

---------------------------------------------------------------------------
Connecting == \/ ConnectStarts \/ ConnectCleans \/ ConnectAborts \/ ConnectNumbers \/ Dialled
              \/ ConnectVerifies \/ ConnectAssigns \/ ConnectRegisters \/ OnOpen

Reading(g) == \/ ReadStale(g) \/ OnClose(g) \/ HandleRegisterOk(g) \/ HandleRefusal(g)
              \/ HandleAuthOk(g) \/ CopySubscriptions(g) \/ SendSubscription(g)
              \/ AuthHandled(g) \/ HandleKx(g)

Disposing == DisposeCleans \/ DisposeAborts \/ ClientFreed

Relaying(g) == RelayTakes(g) \/ AuthTimeout(g) \/ SocketDrops(g)

Next == \/ Connecting \/ DialFails
        \/ \E g \in Generation : \/ Reading(g) \/ Relaying(g) \/ RelayRefuses(g)
                                 \/ RelayThrottles(g) \/ AppJoins(g) \/ SocketDies(g)
        \/ TimerStarts \/ TimerFires \/ TokenAges
        \/ DisposeFlags \/ Disposing
        \/ \E s \in Sids : Subscribe(s) \/ Unsubscribe(s) \/ CallSends(s)

Spec == Init /\ [][Next]_vars

(* Every task runs on, timers fire, and the relay answers, times out and   *)
(* notices dropped sockets; faults, joins and calls need never happen.     *)
FairSpec ==
    /\ Spec
    /\ WF_vars(Connecting) /\ WF_vars(TimerStarts) /\ WF_vars(TimerFires)
    /\ WF_vars(Disposing)
    /\ \A g \in Generation : WF_vars(Reading(g)) /\ WF_vars(Relaying(g))
    /\ \A s \in Sids : WF_vars(CallSends(s))


---------------------------------------------------------------------------
(* Every field keeps its range.                                            *)
ClientTypeOK ==
    /\ gen \in Generation /\ tx \in Generation \cup {None} /\ tasks \subseteq Generation
    /\ peerless \in 0 .. Threshold /\ wanted \subseteq Sids /\ subs \subseteq Sids
    /\ \A g \in Generation : /\ sock[g].in \in Seq(Requests) /\ Len(sock[g].in) <= Capacity
                             /\ sock[g].out \in Seq(Answers)

(* One chain of attempts: until the client is disposed of there is exactly *)
(* one of a connect() on its way to a socket, a read loop of the current   *)
(* generation, and a reconnect task that will connect.  None would leave   *)
(* the pairing dead for good, two would storm the relay with sockets that  *)
(* cut each other off (connect, on_close, schedule_reconnect).             *)
OneChain ==
    dispose = "no" =>
        Cardinality({g \in Generation : reader[g] \notin {"none", "done"} /\ ~Stale(g)})
        + (IF conn.pc \in {"idle", "push", "open"} THEN 0 ELSE 1)
        + (IF timer # None /\ (timer.pc = "new" \/ timer.gen = gen) THEN 1 ELSE 0) = 1

(* A disposed client handles no further message: whatever connect() was    *)
(* doing when dispose() ran, no read loop has the current generation, so a *)
(* pairing that was removed does not come online again.                    *)
DisposedIsDeaf ==
    dispose = "done" =>
        \A g \in Generation : reader[g] \notin {"none", "done"} => Stale(g)

(* Every session the daemon wants is subscribed at the relay once the      *)
(* client has settled, however subscribe() raced the authentication or a   *)
(* reconnect, unless the outbound channel overflowed on this socket or the *)
(* relay refused that session's relay.sub, which the client never sends    *)
(* again on the same socket.                                               *)
WantedAtRelay ==
    \A g \in Generation :
        (/\ gen = g /\ auth /\ reader[g] = "wait" /\ tx = g
         /\ sock[g].open /\ sock[g].in = <<>> /\ sock[g].out = <<>> /\ ~sock[g].lost
         /\ \A s \in Sids : call[s] = None)
        => wanted \ sock[g].refused \subseteq sock[g].subs

(* Once faults end, a client that is not disposed of is authenticated      *)
(* again: refused registrations, resume tokens the relay no longer knows   *)
(* and the throttle only delay it.                                         *)
ComesBack == []<>(auth \/ disposed)
=============================================================================
