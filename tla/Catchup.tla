------------------------------- MODULE Catchup -------------------------------
(***************************************************************************)
(* How the app's copy of a session follows the daemon's log.  The daemon   *)
(* appends a record under the store's lock and publishes it from a task of *)
(* its own (handle_rec); the relay keeps the last frames of a session      *)
(* (RelayRing) and replays them to a subscriber; the app, after every      *)
(* connection, exchanges keys, learns the sessions from `hello`, attaches  *)
(* to the newest, and asks for the records above its cursor.  The app's    *)
(* session store takes a record only if its number exceeds the cursor.     *)
(*                                                                         *)
(* Two sources meet in the app: the batch that answers `resume`, and live  *)
(* or replayed records that arrive on the same socket before it.           *)
(*                                                                         *)
(* A key is the number of the app's key pair; a frame opens only under the *)
(* key it was sealed with.  The details of the exchange are KeyExchange's. *)
(***************************************************************************)
EXTENDS RelayRing

CONSTANTS
    Daemon,      \* the one daemon, the only member of Daemons
    Meta,        \* the channel __meta__; Sids are Meta and 1, 2, ... by age
    Records,     \* what the n-th record of a session is: [k, tool]; tool names the
                 \* call: its id, or the tool's own name where a call has no id
    BatchMax,    \* records in one answer to `resume` (1000 in the code)
    MaxAppends,  \* bound on the records of all sessions
    MaxFaults    \* bound on lost connections and restarts of the app

Sessions == Sids \ {Meta}

ASSUME CatchupAssumption ==
    /\ Daemons = {Daemon} /\ Meta \in Sids
    /\ IsFiniteSet(Sessions) /\ Sessions # {} /\ Sessions = 1..Cardinality(Sessions)
    /\ BatchMax \in Nat \ {0} /\ MaxFaults \in Nat /\ MaxAppends \in Nat

VARIABLES
    started,   \* the daemon's sessions, 1..started
    log,       \* log[s]: number of the last record of session s
    spawned,   \* publications not run yet: a record <<s, n>> or a state <<s, 0>>
    dkey,      \* key the daemon holds for the app, 0 if it holds none
    pooled,    \* is the pairing promoted, its client in the relay manager's pool?
    heard,     \* sessions the daemon's client is subscribed to
    ring,      \* the relay's cache
    subs,      \* channels the app's socket is subscribed to
    up, down,  \* the app's socket, towards and from the relay
    sock,      \* "off", "auth" or "on"
    timer,     \* is the reconnect timer set?
    late,      \* is the failure of a cancelled socket still to be reported?
    akey,      \* key the app reads with, 0 before the exchange
    epoch,     \* key pairs the app has made
    hello, attached,  \* helloReceived, didAutoAttach
    fallback,  \* timers of scheduleHelloFallback that a hello may still be asked by
    cursor,    \* cursor[s]: highest record taken by the session store
    chat,      \* chat[s]: rows [seq, of]; of is the record whose data is shown
    running,   \* running[s]: rows that wait for a tool's result [tool, row]
    asked,     \* history, asked[s]: the cursor of the last resume
    faults

daemonVars == <<started, log, spawned, dkey, pooled, heard>>
storeVars == <<cursor, chat, running, asked>>
linkVars == <<subs, up, down, sock, timer, late, akey, epoch, hello, attached, fallback>>
catchupVars == <<daemonVars, ring, linkVars, storeVars, faults>>

Frame(s, seq, key, msg) == [sid |-> s, seq |-> seq, key |-> key, msg |-> msg]
Rec(s, n) == [t |-> "rec", sid |-> s, recs |-> <<n>>]
State(s) == [t |-> "state", sid |-> s, recs |-> << >>]
Batch(s, recs) == [t |-> "batch", sid |-> s, recs |-> recs]
Hello(n) == [t |-> "hello", sid |-> n, recs |-> << >>]
Kx(e) == [t |-> "kx", sid |-> e, recs |-> << >>]

EmptyStore ==
    /\ cursor = [s \in Sessions |-> 0]
    /\ chat = [s \in Sessions |-> << >>]
    /\ running = [s \in Sessions |-> << >>]
    /\ asked = [s \in Sessions |-> 0]

CatchupInit ==
    /\ started = 1 /\ log = [s \in Sessions |-> 0] /\ spawned = {} /\ dkey = 0
    /\ pooled \in BOOLEAN /\ heard = IF pooled THEN {1} ELSE {}
    /\ ring = EmptyRing
    /\ subs = {} /\ up = << >> /\ down = << >>
    /\ sock = "off" /\ timer = FALSE /\ late = FALSE
    /\ akey = 0 /\ epoch = 0 /\ hello = FALSE /\ attached = FALSE /\ fallback = 0
    /\ EmptyStore
    /\ faults = 0

-----------------------------------------------------------------------------
(* The daemon. *)

StartSession ==
    /\ started < Cardinality(Sessions)
    /\ started' = started + 1
    /\ spawned' = spawned \cup {<<started + 1, 0>>}
    /\ UNCHANGED <<log, dkey, pooled, heard, ring, linkVars, storeVars, faults>>

HandleRec(s) ==
    /\ s <= started /\ log[s] < Len(Records)
    /\ Cardinality(UNION {{t} \X (1..log[t]) : t \in Sessions}) < MaxAppends
    /\ log' = [log EXCEPT ![s] = @ + 1]
    /\ spawned' = spawned \cup {<<s, log[s] + 1>>}
    /\ UNCHANGED <<started, dkey, pooled, heard, ring, linkVars, storeVars, faults>>

\* What is kept of a frame: no subscription replays a number 0, so of such frames,
\* which are all those of Meta, all requests and all answers, only the place counts.
Kept(f) == IF f.seq = 0 THEN Frame(f.sid, 0, 0, << >>) ELSE f

\* route_publish: every frame is cached, and the daemon's goes on to the app's
\* socket if that is subscribed to the channel.
Cached(cache, f) == PushFrame(cache, Daemon, f.sid, Kept(f))
Delivered(f) == IF f.sid \in subs THEN <<f>> ELSE << >>

\* send_encrypted seals under the key of the peer; without a peer nothing is sent,
\* nor by a client that is not in the pool.
Publishes(f) ==
    IF f.key = 0 \/ ~pooled THEN UNCHANGED <<ring, down>>
    ELSE ring' = Cached(ring, f) /\ down' = down \o Delivered(f)

\* A spawned task runs: the tasks of one session run in any order.  The task of a
\* new session subscribes the daemon's client before it publishes the state.
Publish(x) ==
    /\ x \in spawned
    /\ spawned' = spawned \ {x}
    /\ heard' = IF x[2] = 0 /\ pooled THEN heard \cup {x[1]} ELSE heard
    /\ IF x[2] = 0 THEN Publishes(Frame(Meta, 0, dkey, State(x[1])))
                   ELSE Publishes(Frame(x[1], x[2], dkey, Rec(x[1], x[2])))
    /\ UNCHANGED <<started, log, dkey, pooled, subs, up, sock, timer, late, akey, epoch, hello,
                   attached, fallback, storeVars, faults>>

\* register_client: the pairing the app has joined is promoted, and its client
\* subscribed to the sessions there are.
RegisterClient ==
    /\ ~pooled /\ dkey # 0
    /\ pooled' = TRUE
    /\ heard' = 1..started
    /\ UNCHANGED <<started, log, spawned, dkey, ring, linkVars, storeVars, faults>>

\* Mutant: the records from the cursor on, so the answer never gets past a full batch.
RecordsFromCursor(s, c) ==
    LET last == Min({log[s], c + BatchMax - 1})
    IN  IF c = 0 THEN << >> ELSE [i \in 1..(last - c + 1) |-> c + i - 1]

\* get_records_from: the first BatchMax records above the cursor.
RecordsFrom(s, c) ==
    LET last == Min({log[s], c + BatchMax})
    IN  [i \in 1..(last - c) |-> c + i]

-----------------------------------------------------------------------------
(* The relay and the daemon serve what the app sent.  Forwarding and answer *)
(* are one step: whatever happens between them could have happened before.  *)

\* handle_kx_frame and handle_frontend_joined: the daemon keeps the key, answers,
\* and, if the client is found in the pool, greets the app with its sessions and
\* subscribes to them.
HandleFrontendJoined(msg) ==
    /\ msg.t = "kx"
    /\ dkey' = msg.c
    /\ LET answer == <<Frame(Meta, 0, 0, Kx(msg.c))>>
           f == Frame(Meta, 0, msg.c, Hello(started))
       IN  IF pooled
           THEN /\ ring' = Cached(ring, f)
                /\ down' = down \o answer \o Delivered(f)
                /\ heard' = 1..started
           ELSE down' = down \o answer /\ UNCHANGED <<ring, heard>>
    /\ UNCHANGED subs

RouteSubscribe(msg) ==
    /\ msg.t = "sub"
    /\ subs' = subs \cup {msg.sid}
    /\ down' = down \o ReplayAfter(ring, Daemon, msg.sid, msg.c)
    /\ UNCHANGED <<dkey, ring, heard>>

HandleRelayResume(msg) == Batch(msg.sid, RecordsFrom(msg.sid, msg.c))

\* A sealed request is cached, forwarded if the daemon's client is subscribed to its
\* channel, opened, and answered under the peer's key if the client is in the pool.
DispatchRelayControl(msg) ==
    LET answer == CASE msg.t = "hello"  -> Hello(started)
                    [] msg.t = "attach" -> State(msg.sid)
                    [] msg.t = "resume" -> HandleRelayResume(msg)
        channel == IF msg.t = "hello" THEN Meta ELSE msg.sid
        f == Frame(channel, 0, dkey, answer)
    IN  /\ msg.t \in {"hello", "attach", "resume"}
        /\ IF pooled /\ channel \in heard \cup {Meta}
           THEN /\ ring' = Cached(Cached(ring, Frame(channel, 0, 0, msg)), f)
                /\ down' = down \o Delivered(f)
           ELSE /\ ring' = Cached(ring, Frame(channel, 0, 0, msg))
                /\ UNCHANGED down
        /\ UNCHANGED <<dkey, subs, heard>>

HandleFrame ==
    /\ up # << >>
    /\ LET msg == Head(up)
       IN  HandleFrontendJoined(msg) \/ RouteSubscribe(msg) \/ DispatchRelayControl(msg)
    /\ up' = Tail(up)
    /\ UNCHANGED <<started, log, spawned, pooled, sock, timer, late, akey, epoch, hello, attached,
                   fallback, storeVars, faults>>

-----------------------------------------------------------------------------
(* The app's connection. *)

Ask(type, s, c) == [t |-> type, sid |-> s, c |-> c]

\* connectOnQueue: nothing while there is a socket; a set timer is cancelled.
\* The timer calls it, and so does the app when it comes to the foreground.
Connect ==
    /\ sock = "off"
    /\ sock' = "auth" /\ timer' = FALSE
    /\ UNCHANGED <<daemonVars, ring, subs, up, down, late, akey, epoch, hello, attached,
                   fallback, storeVars, faults>>

\* onAuthOk: subscribe to the channels and start the key exchange.
OnAuthOk ==
    /\ sock = "auth"
    /\ sock' = "on"
    /\ subs' = {Meta}
    /\ epoch' = epoch + 1
    /\ up' = <<Ask("kx", Meta, epoch + 1)>>
    /\ UNCHANGED <<daemonVars, ring, down, timer, late, akey, hello, attached, fallback,
                   storeVars, faults>>

\* scheduleReconnect gives the socket and the keys up and sets the timer.
ScheduleReconnect ==
    /\ sock' = "off" /\ timer' = TRUE
    /\ subs' = {} /\ up' = << >> /\ down' = << >>
    /\ akey' = 0 /\ hello' = FALSE /\ attached' = FALSE /\ fallback' = 0

\* The receive of the open socket reports a failure.
SocketFails ==
    /\ faults < MaxFaults /\ faults' = faults + 1
    /\ sock # "off"
    /\ ScheduleReconnect
    /\ UNCHANGED <<daemonVars, ring, late, epoch, storeVars>>

\* startPing: pongs are missing and the app gives the socket up, whose receive then
\* still reports its failure.
PongsMissing ==
    /\ faults < MaxFaults /\ faults' = faults + 1
    /\ sock = "on"
    /\ ScheduleReconnect
    /\ late' = TRUE
    /\ UNCHANGED <<daemonVars, ring, epoch, storeVars>>

\* The report does not say which socket failed; it is ignored only while the
\* timer is set, and otherwise gives up the socket that has replaced the old one.
LateFailure ==
    /\ late /\ late' = FALSE
    /\ IF timer THEN UNCHANGED <<sock, timer, subs, up, down, akey, hello, attached, fallback>>
                ELSE ScheduleReconnect
    /\ UNCHANGED <<daemonVars, ring, epoch, storeVars, faults>>

\* The app is restarted: sessions are kept on disk, records and cursors are not.
AppRestarts ==
    /\ faults < MaxFaults /\ faults' = faults + 1
    /\ sock' = "off" /\ timer' = FALSE /\ late' = FALSE
    /\ subs' = {} /\ up' = << >> /\ down' = << >>
    /\ akey' = 0 /\ hello' = FALSE /\ attached' = FALSE /\ fallback' = 0
    /\ cursor' = [s \in Sessions |-> 0]
    /\ chat' = [s \in Sessions |-> << >>]
    /\ running' = [s \in Sessions |-> << >>]
    /\ asked' = [s \in Sessions |-> 0]
    /\ UNCHANGED <<daemonVars, ring, epoch>>

\* scheduleHelloFallback: one timer for every key exchange, which outlives the
\* connection it was set for and fires once.  One that fires while there is a hello
\* or are no keys does nothing, so timers are counted between an exchange and the
\* hello only.
HelloFallback ==
    /\ fallback > 0 /\ akey # 0 /\ ~hello
    /\ fallback' = fallback - 1
    /\ up' = Append(up, Ask("hello", Meta, 0))
    /\ UNCHANGED <<daemonVars, ring, subs, down, sock, timer, late, akey, epoch, hello, attached,
                   storeVars, faults>>

-----------------------------------------------------------------------------
(* The app's session store.  A store is a record [cursor, chat, running].  *)

Waiting(store, tool) == {i \in 1..Len(store.running) : store.running[i].tool = tool}

\* takePendingPre: the oldest row that waits for this call's result.  Ids are not
\* repeated, so a call that has one waits alone.
TakePendingPre(W) == Min(W)

AddRow(store, n, of) == [store EXCEPT !.chat = Append(@, [seq |-> n, of |-> of])]

\* adopting(seq:): the result takes the place of its call's row, under the call's number.
Adopting(store, i, n) ==
    LET row == store.running[i].row
    IN  [store EXCEPT !.chat = ReplaceAt(@, row, [seq |-> store.chat[row].seq, of |-> n]),
                      !.running = RemoveAt(@, i)]

\* What an accepted record does to the rows.
Shown(store, n) ==
    LET rec == Records[n]  W == Waiting(store, rec.tool)
    IN  CASE rec.k = "pre" ->
               [AddRow(store, n, n) EXCEPT
                  !.running = Append(@, [tool |-> rec.tool, row |-> Len(store.chat) + 1])]
          [] rec.k = "post" /\ W # {} -> Adopting(store, TakePendingPre(W), n)
          [] (rec.k = "post" /\ W = {}) \/ rec.k = "event" -> AddRow(store, n, n)
          [] OTHER -> store      \* io goes to the terminal, meta nowhere

\* Mutant: a record with the cursor's own number is taken again.
AppendRecAgain(store, n) ==
    IF n >= store.cursor THEN Shown([store EXCEPT !.cursor = n], n) ELSE store

\* appendRec: a record at or below the cursor is ignored, whatever was missed.
AppendRec(store, n) ==
    IF n > store.cursor THEN Shown([store EXCEPT !.cursor = n], n) ELSE store

Store(s) == [cursor |-> cursor[s], chat |-> chat[s], running |-> running[s]]

\* appendBatch: one record after the other.
AppendAll(store, recs) ==
    LET after[n \in 0..Len(recs)] ==
            IF n = 0 THEN store ELSE AppendRec(after[n - 1], recs[n])
    IN  after[Len(recs)]

AppendBatch(s, recs) ==
    LET store == AppendAll(Store(s), recs)
    IN  /\ cursor' = [cursor EXCEPT ![s] = store.cursor]
        /\ chat' = [chat EXCEPT ![s] = store.chat]
        /\ running' = [running EXCEPT ![s] = store.running]
        /\ UNCHANGED asked

\* The daemon's answer to the key exchange: the app has its keys and sets a timer.
\* Any of the ones that earlier exchanges set may not have fired yet.
OnKx(key) ==
    /\ akey' = key
    /\ fallback' \in 1..epoch
    /\ UNCHANGED <<up, hello, attached, storeVars>>

\* onHello: the newest session is attached, once for every connection.
OnHello(n) ==
    /\ hello' = TRUE /\ fallback' = 0
    /\ attached' = TRUE
    /\ up' = IF attached THEN up
             ELSE up \o <<Ask("sub", n, 0), Ask("attach", n, 0)>>
    /\ UNCHANGED <<akey, storeVars>>

\* onState: subscribe and ask for the records above the cursor.
OnState(s) ==
    /\ up' = up \o <<Ask("sub", s, cursor[s]), Ask("resume", s, cursor[s])>>
    /\ asked' = [asked EXCEPT ![s] = cursor[s]]
    /\ UNCHANGED <<akey, hello, attached, fallback, cursor, chat, running>>

\* The app handles a frame; one it cannot open is dropped.
OnRelayFrame ==
    /\ down # << >>
    /\ down' = Tail(down)
    /\ LET f == Head(down)  msg == f.msg
       IN  CASE msg.t = "kx" -> OnKx(msg.sid)
             [] msg.t # "kx" /\ (akey = 0 \/ f.key # akey) ->
                  UNCHANGED <<up, akey, hello, attached, fallback, storeVars>>
             [] msg.t = "hello" /\ f.key = akey /\ akey # 0 -> OnHello(msg.sid)
             [] msg.t = "state" /\ f.key = akey /\ akey # 0 -> OnState(msg.sid)
             [] msg.t \in {"rec", "batch"} /\ f.key = akey /\ akey # 0 ->
                  /\ AppendBatch(msg.sid, msg.recs)
                  /\ UNCHANGED <<up, akey, hello, attached, fallback>>
    /\ UNCHANGED <<daemonVars, ring, subs, sock, timer, late, epoch, faults>>

-----------------------------------------------------------------------------
PublishSome == \E x \in spawned : Publish(x)

CatchupNext ==
    \/ StartSession \/ (\E s \in Sessions : HandleRec(s)) \/ PublishSome \/ RegisterClient
    \/ HandleFrame
    \/ Connect \/ OnAuthOk \/ SocketFails \/ PongsMissing \/ LateFailure \/ AppRestarts \/ HelloFallback
    \/ OnRelayFrame

CatchupSpec == CatchupInit /\ [][CatchupNext]_catchupVars

\* What nobody decides on: spawned tasks run, frames are carried and handled, timers
\* fire and the relay answers.
Goes ==
    \/ PublishSome \/ RegisterClient \/ HandleFrame \/ OnRelayFrame
    \/ Connect \/ OnAuthOk \/ LateFailure \/ HelloFallback

\* Nothing makes claude write, or the network fail.  Every one of these steps uses
\* something up, so it is enough that they are not all put off for ever.
CatchupFairSpec == CatchupSpec /\ WF_catchupVars(Goes)

-----------------------------------------------------------------------------
\* A chat shows its records in the order of the log and none of them twice, and
\* a tool's card carries its own result: live records, replayed frames and
\* batches overlap in the session store (SessionStore.swift:374-417).
ChatSound ==
    \A s \in Sessions :
        /\ \A i, j \in 1..Len(chat[s]) : i < j => chat[s][i].seq < chat[s][j].seq
        /\ \A i \in 1..Len(chat[s]) :
              LET row == chat[s][i]
              IN  row.of # row.seq =>
                     /\ Records[row.seq].k = "pre" /\ Records[row.of].k = "post"
                     /\ Records[row.seq].tool = Records[row.of].tool

\* The relay's cache never holds more than a daemon's share of keys, and its
\* insertion order names exactly the keys that hold frames, once each: making
\* room for a new session always finds the oldest key, never one that an
\* earlier eviction took away (RingCache::push).
CacheSound ==
    /\ IsInjective(ring.order)
    /\ ToSet(ring.order) = CachedKeys(ring, Daemon)
    /\ Cardinality(CachedKeys(ring, Daemon)) <= MaxKeysPerDaemon
    /\ \A k \in Keys : Len(ring.buffers[k]) <= CacheSize

\* What one answer to the last resume could bring the app: there is no second
\* request when an answer is full.
Reach(s) == Min({log[s], asked[s] + BatchMax})

\* Once connections stay up, the app has at least the records that it asked for in
\* every session it is subscribed to, up to the size of one batch: attach, state,
\* resume and batch follow every new connection, whatever was replayed or lost
\* (RelayClient.swift:1443-1539).
CatchesUp == <>[](\A s \in subs \ {Meta} : cursor[s] >= Reach(s))
=============================================================================
