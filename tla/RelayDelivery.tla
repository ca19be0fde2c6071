---------------------------- MODULE RelayDelivery ----------------------------
(***************************************************************************)
(* How the relay delivers what its critical sections decide, and how it    *)
(* takes connections down (rust/tp-relay/src/conn.rs): every connection    *)
(* has a read loop, which handles one inbound frame at a time and delivers *)
(* its actions itself, and a write task fed by a bounded outbox and a      *)
(* close channel.  Read loops run concurrently, and the RelayCore lock is  *)
(* held for single steps only, so deliveries and closes interleave.        *)
(*                                                                         *)
(* Routing is reduced to what delivery needs: one daemon connection that   *)
(* publishes frames 1, 2, ... of one session, and frontends subscribed to  *)
(* it (RelayCore has the routing itself).                                  *)
(***************************************************************************)
EXTENDS Naturals, FiniteSets, SequencesExt

CONSTANTS
    Daemon,       \* the daemon's connection
    Frontends,    \* frontends' connections
    OutboxCap,    \* outbox_cap
    CloseCap,     \* capacity of the close channel: 4
    MaxFrames,    \* bound: frames published
    MaxReplays,   \* bound: relay.sub { after } requests, over all frontends
    NoConn

Conns == Frontends \cup {Daemon}

ASSUME DeliveryAssumption ==
    /\ Daemon \notin Frontends /\ NoConn \notin Conns /\ IsFiniteSet(Frontends)
    /\ OutboxCap \in Nat \ {0} /\ CloseCap \in Nat \ {0}
    /\ MaxFrames \in Nat /\ MaxReplays \in Nat

VARIABLES
    handle,      \* conns with a ConnHandle in core.conns
    subscribed,  \* frontends routing finds for the session
    published,   \* frames published so far, all still cached
    replays,     \* relay.sub requests so far
    loop,        \* read loop: "running", "close" (has a code to send), "teardown",
                 \* "presence" (delivering what its own teardown decided), "ended"
    reason,      \* the code the read loop will close with; 0 for none
    stack,       \* deliver_actions calls in progress in the loop's task, innermost last
    sender,      \* the conn whose outbox sender the task has cloned, NoConn if none
    window,      \* a close_conn between its critical section and its send
    outbox, closeq,   \* the channels to the write task
    writer,      \* write task: "running", "looked" (found the close channel empty, the
                 \* outbox not polled yet), "stopped", or "failed" (transport error)
    wire,        \* what the peer has been sent
    missed,      \* frames dropped because the outbox was full
    issued       \* <<conn, by>>: a close code was given to its close channel, by its
                 \* own loop ("self") or through close_conn ("forced")

vars == <<handle, subscribed, published, replays, loop, reason, stack, sender, window,
          outbox, closeq, writer, wire, missed, issued>>
taskVars == <<stack, sender, window>>
writeVars == <<outbox, closeq, writer, wire>>

Frame(n, via) == [t |-> "frame", n |-> n, via |-> via]
ErrReply == [t |-> "err", n |-> 0, via |-> "reply"]
PresenceMsg == [t |-> "presence", n |-> 0, via |-> "reply"]
CloseFrame(code) == [t |-> "close", n |-> code, via |-> "close"]

Send(x, m) == [kind |-> "send", to |-> x, m |-> m]
CloseAction(x, code) == [kind |-> "close", to |-> x, m |-> CloseFrame(code)]

NoWindow == [to |-> NoConn, code |-> 0, held |-> FALSE, presence |-> << >>]
Call(actions) == [todo |-> actions, full |-> << >>]

Init ==
    /\ handle = Conns
    /\ subscribed \in SUBSET Frontends
    /\ published = 0
    /\ replays = 0
    /\ loop = [c \in Conns |-> "running"]
    /\ reason = [c \in Conns |-> 0]
    /\ stack = [c \in Conns |-> << >>]
    /\ sender = [c \in Conns |-> NoConn]
    /\ window = [c \in Conns |-> NoWindow]
    /\ outbox = [c \in Conns |-> << >>]
    /\ closeq = [c \in Conns |-> << >>]
    /\ writer = [c \in Conns |-> "running"]
    /\ wire = [c \in Conns |-> << >>]
    /\ missed = [c \in Conns |-> {}]
    /\ issued = {}

-----------------------------------------------------------------------------
(* Inbound frames.  A loop takes the next one only when the delivery of    *)
(* the last is complete.                                                   *)

\* Mutant: the loop does not wait for the delivery of the last frame's actions.
ReadyEarly(c) ==
    /\ loop[c] = "running" /\ reason[c] = 0
    /\ sender[c] = NoConn /\ window[c] = NoWindow

Ready(c) ==
    /\ loop[c] = "running" /\ reason[c] = 0
    /\ stack[c] = << >> /\ window[c] = NoWindow

Deliver(c, actions) == stack' = [stack EXCEPT ![c] = Append(@, Call(actions))]

Publish ==
    LET n == published + 1
    IN
    /\ Ready(Daemon)
    /\ Daemon \in handle
    /\ published < MaxFrames
    /\ published' = n
    /\ \E order \in SetToSeqs(subscribed) :
          Deliver(Daemon, [i \in DOMAIN order |-> Send(order[i], Frame(n, "live"))])
    /\ UNCHANGED <<handle, subscribed, replays, loop, reason, sender, window, writeVars, missed, issued>>

\* relay.sub { after } on a connection that is already open: whatever number the
\* app gives, the cached frames after it are sent again.
Subscribe(c) ==
    /\ Ready(c)
    /\ c \in handle \cap Frontends
    /\ replays < MaxReplays
    /\ replays' = replays + 1
    /\ subscribed' = subscribed \cup {c}
    /\ \E after \in 0 .. published :
          Deliver(c, [i \in 1 .. published - after |-> Send(c, Frame(after + i, "replay"))])
    /\ UNCHANGED <<handle, published, loop, reason, sender, window, writeVars, missed, issued>>

\* An oversized frame: an error reply, then the loop closes with 1009.
Oversized(c) ==
    /\ Ready(c)
    /\ reason' = [reason EXCEPT ![c] = 1009]
    /\ Deliver(c, <<Send(c, ErrReply)>>)
    /\ UNCHANGED <<handle, subscribed, published, replays, loop, sender, window, writeVars, missed, issued>>

\* relay.auth of a frontend without a frontendId: an error and a forced close.
AuthWithoutFid(c) ==
    /\ Ready(c)
    /\ c \in Frontends
    /\ Deliver(c, <<Send(c, ErrReply), CloseAction(c, 1008)>>)
    /\ UNCHANGED <<handle, subscribed, published, replays, loop, reason, sender, window, writeVars, missed, issued>>

\* The loop breaks: with a code (a deadline passed, or after an oversized
\* frame), or without one (the peer closed or the transport failed).
LoopBreaks(c) ==
    /\ loop[c] = "running"
    /\ stack[c] = << >> /\ window[c] = NoWindow
    /\ \/ /\ reason[c] # 0
          /\ loop' = [loop EXCEPT ![c] = "close"]
          /\ UNCHANGED reason
       \/ /\ reason[c] = 0
          /\ reason' = [reason EXCEPT ![c] = 1008]
          /\ loop' = [loop EXCEPT ![c] = "close"]
       \/ /\ reason[c] = 0
          /\ loop' = [loop EXCEPT ![c] = "teardown"]
          /\ UNCHANGED reason
    /\ UNCHANGED <<handle, subscribed, published, replays, taskVars, writeVars, missed, issued>>

-----------------------------------------------------------------------------
(* Teardown.                                                               *)

PresenceAfter(c) ==
    IF c = Daemon /\ c \in handle
    THEN [i \in DOMAIN SetToSeq(handle \cap Frontends) |->
            Send(SetToSeq(handle \cap Frontends)[i], PresenceMsg)]
    ELSE << >>

\* Mutant: the handle stays in core.conns.
HandleCloseKeeps(c) == subscribed' = subscribed \ {c} /\ UNCHANGED handle

HandleClose(c) ==
    /\ handle' = handle \ {c}
    /\ subscribed' = subscribed \ {c}

Writing(c) == writer[c] \in {"running", "looked"}

\* Put a code on the close channel: lost if the write task is gone, and the
\* caller waits while the channel is full.
SendClose(c, code, by) ==
    /\ issued' = issued \cup {<<c, by>>}
    /\ \/ ~Writing(c) /\ UNCHANGED closeq
       \/ /\ Writing(c) /\ Len(closeq[c]) < CloseCap
          /\ closeq' = [closeq EXCEPT ![c] = Append(@, code)]

\* The loop sends its own close first, while its handle is still there.
SelfClose(c) ==
    /\ loop[c] = "close"
    /\ SendClose(c, reason[c], "self")
    /\ loop' = [loop EXCEPT ![c] = "teardown"]
    /\ UNCHANGED <<handle, subscribed, published, replays, reason, taskVars, outbox, writer, wire, missed>>

Teardown(c) ==
    /\ loop[c] = "teardown"
    /\ HandleClose(c)
    /\ Deliver(c, PresenceAfter(c))
    /\ loop' = [loop EXCEPT ![c] = "presence"]
    /\ UNCHANGED <<published, replays, reason, sender, window, writeVars, missed, issued>>

LoopEnds(c) ==
    /\ loop[c] = "presence" /\ stack[c] = << >> /\ window[c] = NoWindow
    /\ ~Writing(c)
    /\ loop' = [loop EXCEPT ![c] = "ended"]
    /\ UNCHANGED <<handle, subscribed, published, replays, reason, taskVars, writeVars, missed, issued>>

-----------------------------------------------------------------------------
(* deliver_actions and close_conn, run by connection k's task.             *)

Top(k) == Last(stack[k])
SetTop(k, call) == stack' = [stack EXCEPT ![k] = Append(Front(@), call)]
Head1(k) == Head(Top(k).todo)
Rest(k) == [Top(k) EXCEPT !.todo = Tail(@)]
Busy(k) == stack[k] # << >> /\ window[k] = NoWindow

\* Clone the target's outbox sender under the lock; no handle, no delivery.
GrabSender(k) ==
    /\ Busy(k) /\ sender[k] = NoConn
    /\ Top(k).todo # << >> /\ Head1(k).kind = "send"
    /\ IF Head1(k).to \in handle
       THEN sender' = [sender EXCEPT ![k] = Head1(k).to] /\ UNCHANGED stack
       ELSE SetTop(k, Rest(k)) /\ UNCHANGED sender
    /\ UNCHANGED <<handle, subscribed, published, replays, loop, reason, window, writeVars, missed, issued>>

OutboxHasRoom(x) == Len(outbox[x]) < OutboxCap

\* Mutant: the slow consumer is not remembered.
NotBackpressured(k, x) == Rest(k)
Backpressured(k, x) == [Rest(k) EXCEPT !.full = Append(@, x)]

\* try_send, after the lock is released.
TrySend(k) ==
    LET x == sender[k]
        m == Head1(k).m
    IN
    /\ Busy(k) /\ x # NoConn
    /\ sender' = [sender EXCEPT ![k] = NoConn]
    /\ \/ /\ ~Writing(x)
          /\ SetTop(k, Rest(k))
          /\ UNCHANGED <<outbox, missed>>
       \/ /\ Writing(x) /\ OutboxHasRoom(x)
          /\ outbox' = [outbox EXCEPT ![x] = Append(@, m)]
          /\ SetTop(k, Rest(k))
          /\ UNCHANGED missed
       \/ /\ Writing(x) /\ ~OutboxHasRoom(x)
          /\ SetTop(k, Backpressured(k, x))
          /\ missed' = [missed EXCEPT ![x] = @ \cup (IF m.t = "frame" THEN {m.n} ELSE {})]
          /\ UNCHANGED outbox
    /\ UNCHANGED <<handle, subscribed, published, replays, loop, reason, window, closeq, writer, wire, issued>>

\* The critical section of close_conn: for a Close action, or, once every
\* action is done, for a consumer whose outbox was full.
CloseConn(k) ==
    LET forced == Top(k).todo # << >>
        x == IF forced THEN Head1(k).to ELSE Head(Top(k).full)
        code == IF forced THEN Head1(k).m.n ELSE 1013
    IN
    /\ Busy(k) /\ sender[k] = NoConn
    /\ IF forced THEN Head1(k).kind = "close" ELSE Top(k).full # << >>
    /\ window' = [window EXCEPT ![k] = [to |-> x, code |-> code, held |-> x \in handle,
                                        presence |-> PresenceAfter(x)]]
    /\ HandleClose(x)
    /\ SetTop(k, IF forced THEN Rest(k) ELSE [Top(k) EXCEPT !.full = Tail(@)])
    /\ UNCHANGED <<published, replays, loop, reason, sender, writeVars, missed, issued>>

\* Its send, then the recursive delivery of the presence it decided.
CloseConnSend(k) ==
    /\ window[k] # NoWindow
    /\ IF window[k].held THEN SendClose(window[k].to, window[k].code, "forced")
                         ELSE UNCHANGED <<closeq, issued>>
    /\ IF window[k].presence # << >> THEN Deliver(k, window[k].presence) ELSE UNCHANGED stack
    /\ window' = [window EXCEPT ![k] = NoWindow]
    /\ UNCHANGED <<handle, subscribed, published, replays, loop, reason, sender, outbox, writer, wire, missed>>

DeliveryReturns(k) ==
    /\ Busy(k) /\ Top(k).todo = << >> /\ Top(k).full = << >>
    /\ stack' = [stack EXCEPT ![k] = Front(@)]
    /\ UNCHANGED <<handle, subscribed, published, replays, loop, reason, sender, window, writeVars, missed, issued>>

-----------------------------------------------------------------------------
(* The write task: a biased select, which polls the close channel and then  *)
(* the outbox, while other threads send.                                    *)

\* All senders of a channel are gone: the loop's own or the handle's copy, and
\* the clones tasks hold.
OutboxClosed(c) == c \notin handle /\ \A k \in Conns : sender[k] # c
CloseChannelClosed(c) ==
    /\ c \notin handle
    /\ loop[c] \in {"presence", "ended"}
    /\ \A k \in Conns : ~(window[k].to = c /\ window[k].held)

\* A code for c is about to be sent, by its own loop or by a task closing it.
Closing(c) == loop[c] = "close" \/ \E k \in Conns : window[k].to = c /\ window[k].held

\* The task is over, and with it both receivers and what they hold.
WriterEnds(c, how) ==
    /\ writer' = [writer EXCEPT ![c] = how]
    /\ closeq' = [closeq EXCEPT ![c] = << >>]
    /\ outbox' = [outbox EXCEPT ![c] = << >>]

WriteClose(c) ==
    /\ writer[c] = "running" /\ closeq[c] # << >>
    /\ wire' = [wire EXCEPT ![c] = Append(@, CloseFrame(Head(closeq[c])))]
    /\ WriterEnds(c, "stopped")
    /\ UNCHANGED <<handle, subscribed, published, replays, loop, reason, taskVars, missed, issued>>

\* The poll of the close channel finds nothing.  It is a step of its own only
\* while a code may be sent before the poll of the outbox: otherwise nothing that
\* comes between the polls tells them apart.
WriterLooks(c) ==
    /\ writer[c] = "running" /\ closeq[c] = << >> /\ Closing(c)
    /\ writer' = [writer EXCEPT ![c] = "looked"]
    /\ UNCHANGED <<handle, subscribed, published, replays, loop, reason, taskVars, outbox, closeq, wire, missed, issued>>

\* The close channel was polled, empty and open.
PastClose(c) == \/ writer[c] = "looked"
                \/ writer[c] = "running" /\ closeq[c] = << >> /\ ~CloseChannelClosed(c)

WriteMessage(c) ==
    /\ PastClose(c)
    /\ outbox[c] # << >>
    /\ wire' = [wire EXCEPT ![c] = Append(@, Head(outbox[c]))]
    /\ outbox' = [outbox EXCEPT ![c] = Tail(@)]
    /\ writer' = [writer EXCEPT ![c] = "running"]
    /\ UNCHANGED <<handle, subscribed, published, replays, loop, reason, taskVars, closeq, missed, issued>>

\* Neither channel has anything: the task waits for either.
WriterWaits(c) ==
    /\ writer[c] = "looked" /\ outbox[c] = << >> /\ ~OutboxClosed(c)
    /\ writer' = [writer EXCEPT ![c] = "running"]
    /\ UNCHANGED <<handle, subscribed, published, replays, loop, reason, taskVars, outbox, closeq, wire, missed, issued>>

\* A channel is closed and empty: the task stops with nothing to say.
WriterStops(c) ==
    /\ \/ writer[c] = "running" /\ closeq[c] = << >> /\ CloseChannelClosed(c)
       \/ PastClose(c) /\ outbox[c] = << >> /\ OutboxClosed(c)
    /\ WriterEnds(c, "stopped")
    /\ UNCHANGED <<handle, subscribed, published, replays, loop, reason, taskVars, wire, missed, issued>>

TransportFails(c) ==
    /\ Writing(c)
    /\ outbox[c] # << >> \/ closeq[c] # << >>
    /\ WriterEnds(c, "failed")
    /\ UNCHANGED <<handle, subscribed, published, replays, loop, reason, taskVars, wire, missed, issued>>

-----------------------------------------------------------------------------
Inbound(c) == \/ c = Daemon /\ Publish
              \/ Subscribe(c)
              \/ Oversized(c)
              \/ AuthWithoutFid(c)

TaskStep(k) == \/ GrabSender(k)
               \/ TrySend(k)
               \/ CloseConn(k)
               \/ CloseConnSend(k)
               \/ DeliveryReturns(k)
               \/ SelfClose(k)
               \/ Teardown(k)
               \/ LoopEnds(k)

WriterStep(c) == WriteClose(c) \/ WriterLooks(c) \/ WriteMessage(c) \/ WriterWaits(c) \/ WriterStops(c)

Done == (\A c \in Conns : loop[c] = "ended") /\ UNCHANGED vars

Next == \/ \E c \in Conns : Inbound(c) \/ LoopBreaks(c) \/ TaskStep(c) \/ WriterStep(c)
                            \/ TransportFails(c)
        \/ Done

Spec == Init /\ [][Next]_vars

-----------------------------------------------------------------------------
(* Properties.                                                             *)

MsgSet == [t : {"frame", "err", "presence", "close"}, n : Nat,
           via : {"live", "replay", "reply", "close"}]
ActionSet == [kind : {"send", "close"}, to : Conns, m : MsgSet]

DeliveryTypeOK ==
    /\ handle \subseteq Conns /\ subscribed \subseteq handle \cap Frontends
    /\ loop \in [Conns -> {"running", "close", "teardown", "presence", "ended"}]
    /\ reason \in [Conns -> {0, 1008, 1009}]
    /\ \A k \in Conns : \A i \in DOMAIN stack[k] :
         ToSet(stack[k][i].todo) \subseteq ActionSet /\ ToSet(stack[k][i].full) \subseteq Conns
    /\ sender \in [Conns -> Conns \cup {NoConn}]
    /\ \A c \in Conns : Len(outbox[c]) <= OutboxCap
    /\ writer \in [Conns -> {"running", "looked", "stopped", "failed"}]

\* close_conn and the read loop use an awaiting send on the close channel and
\* rely on it never waiting: at most one forced close and the loop's own one
\* are ever queued, whichever tasks find the consumer slow, so no task can
\* block on a connection it is closing.
CloseNeverBlocks == \A c \in Conns : Len(closeq[c]) <= 2

\* A frame is never dropped quietly: while a connection that lost one is still
\* routed to, some task has it on its list of connections to close.
LossLeadsToClose ==
    \A x \in handle : missed[x] # {} =>
        \E k \in Conns : \E i \in DOMAIN stack[k] : Contains(stack[k][i].full, x)

\* The daemon's frames reach each subscriber's socket in the order they were
\* published, although every delivery happens outside the lock.
LiveFramesInOrder ==
    \A x \in Frontends : \A i, j \in DOMAIN wire[x] :
        i < j /\ wire[x][i].via = "live" /\ wire[x][j].via = "live" => wire[x][i].n < wire[x][j].n

\* What the comments of the write task and of the read loop promise: once a
\* close code was given to a connection's close channel, its write task, unless
\* the transport fails, ends by sending one.  The close is queued after or just
\* before the outbox is closed, between the two polls of the select, so the code
\* may never be sent.
CloseCodeDelivered ==
    \A c \in Conns :
        writer[c] = "stopped" /\ (\E by \in {"self", "forced"} : <<c, by>> \in issued)
        => wire[c] # << >> /\ Last(wire[c]).t = "close"
=============================================================================
