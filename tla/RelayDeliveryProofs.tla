------------------------- MODULE RelayDeliveryProofs -------------------------
(***************************************************************************)
(* Delivery by the relay for any number of connections and frames and any  *)
(* capacity of the outboxes.                                               *)
(***************************************************************************)
EXTENDS RelayDelivery, FiniteSetTheorems, SequenceTheorems, TLAPS

CallSet == [todo : Seq(ActionSet), full : Seq(Conns)]
WindowSet == [to : Conns, code : Nat, held : BOOLEAN, presence : Seq(ActionSet)]

Loops == {"running", "close", "teardown", "presence", "ended"}
Reasons == {0, 1008, 1009}

TypeInv ==
    /\ handle \subseteq Conns
    /\ subscribed \subseteq Frontends
    /\ published \in Nat
    /\ loop \in [Conns -> Loops]
    /\ reason \in [Conns -> Reasons]
    /\ stack \in [Conns -> Seq(CallSet)]
    /\ sender \in [Conns -> Conns \cup {NoConn}]
    /\ window \in [Conns -> WindowSet \cup {NoWindow}]
    /\ outbox \in [Conns -> Seq(MsgSet)]
    /\ closeq \in [Conns -> Seq(Nat)]
    /\ writer \in [Conns -> {"running", "looked", "stopped", "failed"}]
    /\ wire \in [Conns -> Seq(MsgSet)]
    /\ missed \in [Conns -> SUBSET Nat]

\* A task that has cloned a sender is about to send its next message to it.
Grab(k) ==
    sender[k] # NoConn =>
        /\ Busy(k)
        /\ Top(k).todo # << >> /\ Head1(k).kind = "send" /\ Head1(k).to = sender[k]

GrabInv == \A k \in Conns : Grab(k)

\* A loop closes and tears down only when it has delivered everything.
IdleInv ==
    \A k \in Conns : loop[k] \in {"close", "teardown"} => stack[k] = << >> /\ window[k] = NoWindow

BaseInv == TypeInv /\ GrabInv /\ IdleInv

-----------------------------------------------------------------------------
(* Close codes.                                                            *)

\* Task k is about to send the code of a connection it took the handle of.
Holds(k, c) == window[k].to = c /\ window[k].held
SelfIssued(c) == <<c, "self">> \in issued
ForcedIssued(c) == <<c, "forced">> \in issued

\* The loop's own code is given to the channel when the loop leaves "close".
SelfInv == \A c \in Conns : SelfIssued(c) => loop[c] \in {"teardown", "presence", "ended"}

\* A handle is taken once: by one close_conn, or by the connection's own teardown.
ForcedInv ==
    \A c \in Conns :
        /\ ForcedIssued(c) => c \notin handle /\ \A k \in Conns : ~Holds(k, c)
        /\ \A k \in Conns : Holds(k, c) =>
               c \notin handle /\ \A j \in Conns : Holds(j, c) => j = k

\* What the channel holds was issued.
QueueInv ==
    \A c \in Conns :
        /\ ~SelfIssued(c) /\ ~ForcedIssued(c) => closeq[c] = << >>
        /\ ~SelfIssued(c) \/ ~ForcedIssued(c) => Len(closeq[c]) <= 1
        /\ Len(closeq[c]) <= 2

CloseInv == SelfInv /\ ForcedInv /\ QueueInv

-----------------------------------------------------------------------------
(* The order of live frames.                                               *)

Live(m) == m.via = "live"
Ordered(s) == \A i, j \in DOMAIN s : i < j /\ Live(s[i]) /\ Live(s[j]) => s[i].n < s[j].n
Before(s, t) == \A i \in DOMAIN s, j \in DOMAIN t : Live(s[i]) /\ Live(t[j]) => s[i].n < t[j].n
AllBelow(s, n) == \A i \in DOMAIN s : Live(s[i]) => s[i].n < n

\* Position j of the i-th call of the daemon's task holds a live frame.
Waiting(i, j) ==
    /\ i \in DOMAIN stack[Daemon] /\ j \in DOMAIN stack[Daemon][i].todo
    /\ Live(stack[Daemon][i].todo[j].m)

\* Only the daemon's task delivers live frames, and only copies of the last one.
LiveInv ==
    \A k \in Conns : \A i \in DOMAIN stack[k] : \A j \in DOMAIN stack[k][i].todo :
        Live(stack[k][i].todo[j].m) => k = Daemon /\ stack[k][i].todo[j].m.n = published

\* Presence is not a frame.
PresenceInv ==
    \A k \in Conns : \A i \in DOMAIN window[k].presence : ~Live(window[k].presence[i].m)

\* One copy for each subscriber.
OnceInv ==
    \A i1, i2, j1, j2 \in Nat :
        /\ Waiting(i1, j1) /\ Waiting(i2, j2)
        /\ stack[Daemon][i1].todo[j1].to = stack[Daemon][i2].todo[j2].to
        => i1 = i2 /\ j1 = j2

\* What a connection was given is in order, and before what it is still to get.
PipeOf(x) ==
    /\ Ordered(wire[x]) /\ Ordered(outbox[x]) /\ Before(wire[x], outbox[x])
    /\ AllBelow(wire[x], published + 1) /\ AllBelow(outbox[x], published + 1)
    /\ \A i, j \in Nat : Waiting(i, j) /\ stack[Daemon][i].todo[j].to = x =>
          AllBelow(wire[x], published) /\ AllBelow(outbox[x], published)

PipeInv == \A x \in Conns : PipeOf(x)

OrderInv == LiveInv /\ PresenceInv /\ OnceInv /\ PipeInv

-----------------------------------------------------------------------------
(* Sequences.                                                              *)

\* All elements but the last one.
LEMMA FrontOf ==
    ASSUME NEW S, NEW s \in Seq(S), s # << >>
    PROVE  /\ Front(s) \in Seq(S) /\ Len(s) \in Nat \ {0} /\ Len(Front(s)) = Len(s) - 1
           /\ \A i \in 1 .. Len(s) - 1 : Front(s)[i] = s[i]
<1> DEFINE f == SubSeq(s, 1, Len(s) - 1)
<1>1. Len(s) \in Nat /\ Len(s) > 0
  OBVIOUS
<1>2. \A i \in 1 .. Len(s) - 1 : s[i] \in S
  BY <1>1
<1>3. /\ f \in Seq(S)
      /\ Len(f) = IF 1 <= Len(s) - 1 THEN Len(s) - 1 - 1 + 1 ELSE 0
      /\ \A i \in 1 .. Len(s) - 1 - 1 + 1 : f[i] = s[1 + i - 1]
  BY <1>1, <1>2, SubSeqProperties
<1>4. Front(s) = f
  BY DEF Front
<1> HIDE DEF f
<1>5. \A i \in 1 .. Len(s) - 1 : i \in 1 .. Len(s) - 1 - 1 + 1 /\ 1 + i - 1 = i
  BY <1>1
<1> QED
  BY <1>1, <1>3, <1>4, <1>5

\* A function on an initial segment is a sequence.
LEMMA ListOf ==
    ASSUME NEW S, NEW n \in Nat, NEW f \in [1 .. n -> S]
    PROVE  f \in Seq(S) /\ Len(f) = n /\ DOMAIN f = 1 .. n
OBVIOUS

\* The call on top is replaced.
LEMMA ReplaceTop ==
    ASSUME NEW S, NEW s \in Seq(S), s # << >>, NEW call \in S
    PROVE  LET t == Append(Front(s), call)
           IN  /\ t \in Seq(S) /\ Len(t) = Len(s) /\ Len(s) \in Nat \ {0}
               /\ \A i \in 1 .. Len(s) - 1 : t[i] = s[i]
               /\ t[Len(s)] = call
<1> DEFINE f == SubSeq(s, 1, Len(s) - 1)
<1>1. Len(s) \in Nat /\ Len(s) > 0
  OBVIOUS
<1>2. f \in Seq(S) /\ Len(f) = Len(s) - 1 /\ \A i \in 1 .. Len(s) - 1 : f[i] = s[i]
  BY <1>1, FrontOf DEF Front
<1>3. Front(s) = f
  BY DEF Front
<1> HIDE DEF f
<1> QED
  BY <1>1, <1>2, <1>3

\* A call is put on top.
LEMMA PushTop ==
    ASSUME NEW S, NEW s \in Seq(S), NEW e \in S
    PROVE  /\ Append(s, e) \in Seq(S) /\ Len(s) \in Nat /\ Len(Append(s, e)) = Len(s) + 1
           /\ \A i \in 1 .. Len(s) : Append(s, e)[i] = s[i]
           /\ Append(s, e)[Len(s) + 1] = e
OBVIOUS

LEMMA TailOf ==
    ASSUME NEW S, NEW s \in Seq(S), s # << >>
    PROVE  /\ Tail(s) \in Seq(S) /\ Len(s) \in Nat \ {0} /\ Len(Tail(s)) = Len(s) - 1
           /\ \A i \in 1 .. Len(s) - 1 : Tail(s)[i] = s[i + 1]
           /\ Head(s) = s[1] /\ Head(s) \in S
OBVIOUS

LEMMA TopOf ==
    ASSUME NEW S, NEW s \in Seq(S), s # << >>
    PROVE  Len(s) \in DOMAIN s /\ Last(s) = s[Len(s)] /\ Last(s) \in S
BY DEF Last

LEMMA Assigned ==
    ASSUME NEW S, NEW T, NEW f \in [S -> T], NEW c \in S, NEW v \in T
    PROVE  /\ [f EXCEPT ![c] = v] \in [S -> T] /\ [f EXCEPT ![c] = v][c] = v
           /\ \A q \in S : q # c => [f EXCEPT ![c] = v][q] = f[q]
OBVIOUS

LEMMA LoopAssigned ==
    /\ \A st \in {"running", "close", "teardown", "presence", "ended"} : st \in Loops
    /\ 0 \in Reasons /\ 1008 \in Reasons /\ 1009 \in Reasons
    /\ \A r \in Reasons : r \in Nat
BY DEF Loops, Reasons

-----------------------------------------------------------------------------
(* The calls and messages the actions build.                               *)

LEMMA MessagesTyped ==
    /\ \A n \in Nat : Frame(n, "live") \in MsgSet /\ Frame(n, "replay") \in MsgSet
                      /\ CloseFrame(n) \in MsgSet
    /\ ErrReply \in MsgSet /\ PresenceMsg \in MsgSet
BY DEF MsgSet, Frame, CloseFrame, ErrReply, PresenceMsg

LEMMA ActionsTyped ==
    ASSUME NEW x \in Conns, NEW m \in MsgSet
    PROVE  Send(x, m) \in ActionSet
BY DEF Send, ActionSet

LEMMA CloseTyped ==
    ASSUME NEW x \in Conns, NEW n \in Nat
    PROVE  CloseAction(x, n) \in ActionSet
BY MessagesTyped DEF CloseAction, ActionSet

LEMMA CallTyped ==
    ASSUME NEW actions \in Seq(ActionSet)
    PROVE  Call(actions) \in CallSet /\ Call(actions).todo = actions /\ Call(actions).full = << >>
BY DEF Call, CallSet

\* A field of a call is assigned.
LEMMA CallExcept ==
    ASSUME NEW T, NEW F, NEW call \in [todo : T, full : F], NEW v
    PROVE  /\ [call EXCEPT !.todo = v] = [todo |-> v, full |-> call.full]
           /\ [call EXCEPT !.full = v] = [todo |-> call.todo, full |-> v]
OBVIOUS

\* The call left once its next action is taken.
LEMMA RestTyped ==
    ASSUME NEW call \in CallSet, call.todo # << >>
    PROVE  /\ [call EXCEPT !.todo = Tail(@)] = [todo |-> Tail(call.todo), full |-> call.full]
           /\ [call EXCEPT !.todo = Tail(@)] \in CallSet
<1>1. call.todo \in Seq(ActionSet) /\ call.full \in Seq(Conns)
  BY DEF CallSet
<1>2. Tail(call.todo) \in Seq(ActionSet)
  BY <1>1
<1>3. \A v : [call EXCEPT !.todo = v] = [todo |-> v, full |-> call.full]
  BY CallExcept DEF CallSet
<1>4. [call EXCEPT !.todo = Tail(@)] = [todo |-> Tail(call.todo), full |-> call.full]
  BY <1>3
<1> QED
  BY <1>1, <1>2, <1>4 DEF CallSet

LEMMA FullTyped ==
    ASSUME NEW call \in CallSet, NEW x \in Conns
    PROVE  /\ [call EXCEPT !.full = Append(@, x)] = [todo |-> call.todo, full |-> Append(call.full, x)]
           /\ [call EXCEPT !.full = Append(@, x)] \in CallSet
<1>1. call.todo \in Seq(ActionSet) /\ call.full \in Seq(Conns)
  BY DEF CallSet
<1>2. Append(call.full, x) \in Seq(Conns)
  BY <1>1
<1>3. [call EXCEPT !.full = Append(@, x)] = [todo |-> call.todo, full |-> Append(call.full, x)]
  BY CallExcept DEF CallSet
<1> QED
  BY <1>1, <1>2, <1>3 DEF CallSet

LEMMA ClosedTyped ==
    ASSUME NEW call \in CallSet, call.full # << >>
    PROVE  /\ [call EXCEPT !.full = Tail(@)] = [todo |-> call.todo, full |-> Tail(call.full)]
           /\ [call EXCEPT !.full = Tail(@)] \in CallSet
<1>1. call.todo \in Seq(ActionSet) /\ call.full \in Seq(Conns)
  BY DEF CallSet
<1>2. Tail(call.full) \in Seq(Conns)
  BY <1>1
<1>3. [call EXCEPT !.full = Tail(@)] = [todo |-> call.todo, full |-> Tail(call.full)]
  BY CallExcept DEF CallSet
<1> QED
  BY <1>1, <1>2, <1>3 DEF CallSet

\* A real window is not the absence of one.
LEMMA WindowIsReal ==
    ASSUME NEW w \in WindowSet
    PROVE  w # NoWindow
BY DeliveryAssumption DEF WindowSet, NoWindow

\* A set of frontends in some order.
LEMMA OrderExists ==
    ASSUME NEW S \in SUBSET Frontends
    PROVE  /\ Cardinality(S) \in Nat
           /\ SetToSeq(S) \in [1 .. Cardinality(S) -> S]
<1>1. IsFiniteSet(S)
  BY DeliveryAssumption, FS_Subset
<1>2. Cardinality(S) \in Nat
  BY <1>1, FS_CardinalityType
<1>3. ExistsBijection(1 .. Cardinality(S), S)
  BY <1>1, FS_CardinalityType
<1>4. \E f \in [1 .. Cardinality(S) -> S] : IsInjective(f)
  BY <1>3 DEF ExistsBijection, Bijection, Injection, IsInjective
<1> QED
  BY <1>2, <1>4 DEF SetToSeq

\* The presence a close decides, in no order the model knows.
LEMMA PresenceTyped ==
    ASSUME TypeInv, NEW c
    PROVE  /\ PresenceAfter(c) \in Seq(ActionSet)
           /\ \A i \in DOMAIN PresenceAfter(c) : ~Live(PresenceAfter(c)[i].m)
<1> DEFINE S == handle \cap Frontends
           o == SetToSeq(S)
           p == [i \in DOMAIN o |-> Send(o[i], PresenceMsg)]
<1>1. Cardinality(S) \in Nat /\ o \in [1 .. Cardinality(S) -> S]
  BY OrderExists
<1>2. \A i \in DOMAIN o : Send(o[i], PresenceMsg) \in ActionSet
  BY <1>1, ActionsTyped, MessagesTyped DEF Conns
<1>3. p \in [1 .. Cardinality(S) -> ActionSet]
  BY <1>1, <1>2
<1>4. p \in Seq(ActionSet)
  BY <1>1, <1>3, ListOf
<1>7. \A i \in DOMAIN p : p[i] = Send(o[i], PresenceMsg)
  OBVIOUS
<1>5. \A x : ~Live(Send(x, PresenceMsg).m)
  BY DEF Send, PresenceMsg, Live
<1>6. PresenceAfter(c) = p \/ PresenceAfter(c) = << >>
  BY DEF PresenceAfter
<1>8. CASE PresenceAfter(c) = p
  BY <1>4, <1>5, <1>7, <1>8
<1>9. CASE PresenceAfter(c) = << >>
  <2>1. << >> \in Seq(ActionSet) /\ DOMAIN << >> = {}
    OBVIOUS
  <2> QED
    BY <1>9, <2>1
<1> QED
  BY <1>6, <1>8, <1>9

-----------------------------------------------------------------------------
(* What the steps do to a task's calls.                                    *)

\* The calls of every task but k's are left alone.
Elsewhere(k) == \A q \in Conns : q # k => stack'[q] = stack[q]

LEMMA Delivers ==
    ASSUME TypeInv, NEW k \in Conns, NEW actions \in Seq(ActionSet), Deliver(k, actions)
    PROVE  /\ stack' \in [Conns -> Seq(CallSet)] /\ Elsewhere(k)
           /\ Len(stack[k]) \in Nat
           /\ DOMAIN stack[k] = 1 .. Len(stack[k])
           /\ DOMAIN stack'[k] = 1 .. Len(stack[k]) + 1
           /\ \A i \in 1 .. Len(stack[k]) : stack'[k][i] = stack[k][i]
           /\ stack'[k][Len(stack[k]) + 1].todo = actions
           /\ stack'[k][Len(stack[k]) + 1].full = << >>
<1>1. stack' = [stack EXCEPT ![k] = Append(stack[k], Call(actions))]
  BY DEF Deliver
<1>2. stack[k] \in Seq(CallSet) /\ stack \in [Conns -> Seq(CallSet)]
  BY DEF TypeInv
<1>3. Call(actions) \in CallSet /\ Call(actions).todo = actions /\ Call(actions).full = << >>
  BY CallTyped
<1> DEFINE t == Append(stack[k], Call(actions))
<1>4. /\ t \in Seq(CallSet) /\ Len(stack[k]) \in Nat /\ Len(t) = Len(stack[k]) + 1
      /\ \A i \in 1 .. Len(stack[k]) : t[i] = stack[k][i]
      /\ t[Len(stack[k]) + 1] = Call(actions)
  BY <1>2, <1>3, PushTop
<1>5. stack'[k] = t /\ Elsewhere(k)
  BY <1>1, <1>2 DEF Elsewhere
<1>6. stack' \in [Conns -> Seq(CallSet)]
  BY <1>1, <1>2, <1>4
<1>7. DOMAIN stack[k] = 1 .. Len(stack[k]) /\ DOMAIN t = 1 .. Len(t)
  BY <1>2, <1>4
<1> HIDE DEF t
<1> QED
  BY <1>3, <1>4, <1>5, <1>6, <1>7

LEMMA SetsTop ==
    ASSUME TypeInv, NEW k \in Conns, NEW call \in CallSet, stack[k] # << >>, SetTop(k, call)
    PROVE  /\ stack' \in [Conns -> Seq(CallSet)] /\ Elsewhere(k)
           /\ Len(stack[k]) \in Nat \ {0}
           /\ DOMAIN stack[k] = 1 .. Len(stack[k])
           /\ DOMAIN stack'[k] = 1 .. Len(stack[k])
           /\ \A i \in 1 .. Len(stack[k]) - 1 : stack'[k][i] = stack[k][i]
           /\ stack'[k][Len(stack[k])] = call
<1> DEFINE t == Append(Front(stack[k]), call)
<1>1. stack' = [stack EXCEPT ![k] = t]
  BY DEF SetTop
<1>2. stack[k] \in Seq(CallSet) /\ stack \in [Conns -> Seq(CallSet)]
  BY DEF TypeInv
<1>3. /\ t \in Seq(CallSet) /\ Len(t) = Len(stack[k]) /\ Len(stack[k]) \in Nat \ {0}
      /\ \A i \in 1 .. Len(stack[k]) - 1 : t[i] = stack[k][i]
      /\ t[Len(stack[k])] = call
  BY <1>2, ReplaceTop
<1>4. DOMAIN stack[k] = 1 .. Len(stack[k]) /\ DOMAIN t = 1 .. Len(t)
  BY <1>2, <1>3
<1> HIDE DEF t
<1>5. stack'[k] = t /\ Elsewhere(k)
  BY <1>1, <1>2 DEF Elsewhere
<1>6. stack' \in [Conns -> Seq(CallSet)]
  BY <1>1, <1>2, <1>3
<1> QED
  BY <1>3, <1>4, <1>5, <1>6

LEMMA Returns ==
    ASSUME TypeInv, NEW k \in Conns, stack[k] # << >>,
           stack' = [stack EXCEPT ![k] = Front(@)]
    PROVE  /\ stack' \in [Conns -> Seq(CallSet)] /\ Elsewhere(k)
           /\ Len(stack[k]) \in Nat \ {0}
           /\ DOMAIN stack[k] = 1 .. Len(stack[k])
           /\ DOMAIN stack'[k] = 1 .. Len(stack[k]) - 1
           /\ \A i \in 1 .. Len(stack[k]) - 1 : stack'[k][i] = stack[k][i]
<1> DEFINE t == Front(stack[k])
<1>1. stack' = [stack EXCEPT ![k] = t]
  OBVIOUS
<1>2. stack[k] \in Seq(CallSet) /\ stack \in [Conns -> Seq(CallSet)]
  BY DEF TypeInv
<1>3. /\ t \in Seq(CallSet) /\ Len(t) = Len(stack[k]) - 1 /\ Len(stack[k]) \in Nat \ {0}
      /\ \A i \in 1 .. Len(stack[k]) - 1 : t[i] = stack[k][i]
  BY <1>2, FrontOf
<1>4. DOMAIN stack[k] = 1 .. Len(stack[k]) /\ DOMAIN t = 1 .. Len(t)
  BY <1>2, <1>3
<1> HIDE DEF t
<1>5. stack'[k] = t /\ Elsewhere(k)
  BY <1>1, <1>2 DEF Elsewhere
<1>6. stack' \in [Conns -> Seq(CallSet)]
  BY <1>1, <1>2, <1>3
<1> QED
  BY <1>3, <1>4, <1>5, <1>6

\* The call a task is working on.
LEMMA TopTyped ==
    ASSUME TypeInv, NEW k \in Conns, stack[k] # << >>
    PROVE  /\ Top(k) \in CallSet /\ Len(stack[k]) \in DOMAIN stack[k]
           /\ Top(k) = stack[k][Len(stack[k])]
           /\ Top(k).todo \in Seq(ActionSet) /\ Top(k).full \in Seq(Conns)
<1>1. stack[k] \in Seq(CallSet)
  BY DEF TypeInv
<1>2. Top(k) \in CallSet /\ Len(stack[k]) \in DOMAIN stack[k] /\ Top(k) = stack[k][Len(stack[k])]
  BY <1>1, TopOf DEF Top
<1> QED
  BY <1>2 DEF CallSet

LEMMA HeadTyped ==
    ASSUME TypeInv, NEW k \in Conns, stack[k] # << >>, Top(k).todo # << >>
    PROVE  /\ Head1(k) \in ActionSet /\ Head1(k) = Top(k).todo[1]
           /\ Rest(k) \in CallSet /\ Rest(k).todo = Tail(Top(k).todo) /\ Rest(k).full = Top(k).full
<1>1. Top(k) \in CallSet /\ Top(k).todo \in Seq(ActionSet)
  BY TopTyped
<1>2. Head1(k) \in ActionSet /\ Head1(k) = Top(k).todo[1]
  BY <1>1, TailOf DEF Head1
<1>3. Rest(k) = [todo |-> Tail(Top(k).todo), full |-> Top(k).full] /\ Rest(k) \in CallSet
  BY <1>1, RestTyped DEF Rest
<1> QED
  BY <1>2, <1>3

LEMMA BackpressuredTyped ==
    ASSUME TypeInv, NEW k \in Conns, stack[k] # << >>, Top(k).todo # << >>, NEW x \in Conns
    PROVE  /\ Backpressured(k, x) \in CallSet
           /\ Backpressured(k, x).todo = Tail(Top(k).todo)
           /\ Backpressured(k, x).full = Append(Top(k).full, x)
<1>1. Rest(k) \in CallSet /\ Rest(k).todo = Tail(Top(k).todo) /\ Rest(k).full = Top(k).full
  BY HeadTyped
<1>2. /\ Backpressured(k, x) = [todo |-> Rest(k).todo, full |-> Append(Rest(k).full, x)]
      /\ Backpressured(k, x) \in CallSet
  BY <1>1, FullTyped DEF Backpressured
<1> QED
  BY <1>1, <1>2

-----------------------------------------------------------------------------
(* What a loop gives its task to deliver.                                  *)

\* One copy of the new frame for every subscriber.
LEMMA PublishDelivers ==
    ASSUME TypeInv, Publish
    PROVE  \E actions \in Seq(ActionSet) :
              /\ Deliver(Daemon, actions)
              /\ \A i \in DOMAIN actions : actions[i].m.n = published + 1
              /\ \A i, j \in DOMAIN actions : actions[i].to = actions[j].to => i = j
<1>1. PICK order \in SetToSeqs(subscribed) :
         Deliver(Daemon, [i \in DOMAIN order |-> Send(order[i], Frame(published + 1, "live"))])
  BY DEF Publish
<1> DEFINE actions == [i \in DOMAIN order |-> Send(order[i], Frame(published + 1, "live"))]
           D == 1 .. Cardinality(subscribed)
<1>2. Cardinality(subscribed) \in Nat
  BY OrderExists DEF TypeInv
<1>3. order \in [D -> subscribed] /\ \A i, j \in D : i # j => order[i] # order[j]
  BY DEF SetToSeqs
<1>4. Frame(published + 1, "live") \in MsgSet
  BY MessagesTyped DEF TypeInv
<1>5. \A i \in D : Send(order[i], Frame(published + 1, "live")) \in ActionSet
  <2>1. subscribed \subseteq Conns
    BY DEF TypeInv, Conns
  <2>2. \A i \in D : order[i] \in Conns
    BY <1>3, <2>1
  <2> QED
    BY <1>4, <2>2, ActionsTyped
<1>6. actions \in [D -> ActionSet]
  BY <1>3, <1>5
<1>7. actions \in Seq(ActionSet) /\ DOMAIN actions = D
  BY <1>2, <1>6, ListOf
<1>8. \A i \in D : actions[i].to = order[i] /\ actions[i].m.n = published + 1
  BY <1>3 DEF Send, Frame
<1> HIDE DEF actions, D
<1>9. Deliver(Daemon, actions)
  BY <1>1 DEF actions
<1> QED
  BY <1>3, <1>7, <1>8, <1>9

\* Every other delivery is of replayed frames, replies or presence.
Quiet(actions) == \A i \in DOMAIN actions : ~Live(actions[i].m)

LEMMA SubscribeDelivers ==
    ASSUME TypeInv, NEW c \in Conns, Subscribe(c)
    PROVE  \E actions \in Seq(ActionSet) : Deliver(c, actions) /\ Quiet(actions)
<1>1. PICK after \in 0 .. published :
         Deliver(c, [i \in 1 .. published - after |-> Send(c, Frame(after + i, "replay"))])
  BY DEF Subscribe
<1> DEFINE n == published - after
           actions == [i \in 1 .. n |-> Send(c, Frame(after + i, "replay"))]
<1>2. n \in Nat
  BY DEF TypeInv
<1>3. \A i \in 1 .. n : after + i \in Nat
  BY <1>2 DEF TypeInv
<1>4. \A i \in 1 .. n : Send(c, Frame(after + i, "replay")) \in ActionSet
  BY <1>3, MessagesTyped, ActionsTyped
<1>5. actions \in [1 .. n -> ActionSet]
  BY <1>4
<1>6. actions \in Seq(ActionSet) /\ DOMAIN actions = 1 .. n
  BY <1>2, <1>5, ListOf
<1>7. \A i \in 1 .. n : ~Live(actions[i].m)
  BY DEF Send, Frame, Live
<1> HIDE DEF actions, n
<1>8. Deliver(c, actions)
  BY <1>1 DEF actions, n
<1> QED
  BY <1>6, <1>7, <1>8 DEF Quiet

LEMMA RepliesDeliver ==
    ASSUME TypeInv, NEW c \in Conns, Oversized(c) \/ AuthWithoutFid(c)
    PROVE  \E actions \in Seq(ActionSet) : Deliver(c, actions) /\ Quiet(actions)
<1> DEFINE e == Send(c, ErrReply)
           a == CloseAction(c, 1008)
<1>1. e \in ActionSet /\ a \in ActionSet
  BY ActionsTyped, CloseTyped, MessagesTyped
<1>2. ~Live(e.m) /\ ~Live(a.m)
  BY DEF Send, ErrReply, CloseAction, CloseFrame, Live
<1>3. Deliver(c, <<e>>) \/ Deliver(c, <<e, a>>)
  BY DEF Oversized, AuthWithoutFid
<1> HIDE DEF e, a
<1>4. <<e>> \in Seq(ActionSet) /\ <<e, a>> \in Seq(ActionSet)
  BY <1>1
<1>5. Quiet(<<e>>) /\ Quiet(<<e, a>>)
  BY <1>2 DEF Quiet
<1> QED
  BY <1>3, <1>4, <1>5

LEMMA TeardownDelivers ==
    ASSUME TypeInv, NEW c \in Conns, Teardown(c)
    PROVE  \E actions \in Seq(ActionSet) : Deliver(c, actions) /\ Quiet(actions)
<1>1. Deliver(c, PresenceAfter(c))
  BY DEF Teardown
<1>2. PresenceAfter(c) \in Seq(ActionSet) /\ Quiet(PresenceAfter(c))
  BY PresenceTyped DEF Quiet
<1> QED
  BY <1>1, <1>2

\* The loop of c hands its task something to deliver.
Starts(c) == Subscribe(c) \/ Oversized(c) \/ AuthWithoutFid(c) \/ Teardown(c)

LEMMA StartDelivers ==
    ASSUME TypeInv, NEW c \in Conns, Starts(c)
    PROVE  \E actions \in Seq(ActionSet) : Deliver(c, actions) /\ Quiet(actions)
BY SubscribeDelivers, RepliesDeliver, TeardownDelivers DEF Starts

\* A loop starts a delivery only when its task is idle.
LEMMA StartsIdle ==
    ASSUME BaseInv, NEW c \in Conns, Starts(c) \/ (c = Daemon /\ Publish)
    PROVE  stack[c] = << >> /\ window[c] = NoWindow /\ sender[c] = NoConn
<1>1. stack[c] = << >> /\ window[c] = NoWindow
  BY DEF Starts, Subscribe, Oversized, AuthWithoutFid, Teardown, Publish, Ready, BaseInv, IdleInv
<1> QED
  BY <1>1 DEF BaseInv, GrabInv, Grab, Busy

-----------------------------------------------------------------------------
(* Types, and what a task is about to do.                                  *)

LEMMA BaseInit == Init => BaseInv
<1> SUFFICES ASSUME Init PROVE BaseInv
  OBVIOUS
<1> USE DEF Init
<1>1. << >> \in Seq(CallSet) /\ << >> \in Seq(MsgSet) /\ << >> \in Seq(Nat)
  OBVIOUS
<1>2. subscribed \subseteq Frontends /\ handle \subseteq Conns
  OBVIOUS
<1>3. [c \in Conns |-> "running"] \in [Conns -> Loops] /\ [c \in Conns |-> 0] \in [Conns -> Reasons]
  BY DEF Loops, Reasons
<1>5. TypeInv
  BY <1>1, <1>2, <1>3 DEF TypeInv
<1>4. GrabInv /\ IdleInv
  BY DEF GrabInv, Grab, IdleInv
<1> QED
  BY <1>4, <1>5 DEF BaseInv

\* Only k's calls move, and k has no sender: what the tasks are about to do stands.
LEMMA GrabElsewhere ==
    ASSUME GrabInv, NEW k \in Conns, Elsewhere(k),
           \A q \in Conns : q # k => sender'[q] = sender[q] /\ window'[q] = window[q],
           sender'[k] = NoConn
    PROVE  GrabInv'
BY DEF GrabInv, Grab, Elsewhere, Busy, Top, Head1

LEMMA StartBase ==
    ASSUME BaseInv, NEW c \in Conns, Starts(c) \/ (c = Daemon /\ Publish)
    PROVE  BaseInv'
<1>1. stack[c] = << >> /\ window[c] = NoWindow /\ sender[c] = NoConn
  BY StartsIdle
<1>2. PICK actions \in Seq(ActionSet) : Deliver(c, actions)
  BY StartDelivers, PublishDelivers DEF BaseInv
<1>3. stack' \in [Conns -> Seq(CallSet)] /\ Elsewhere(c)
  BY <1>2, Delivers DEF BaseInv
<1>4. /\ UNCHANGED <<sender, window, writeVars, missed>>
      /\ handle' \subseteq handle /\ subscribed' \subseteq subscribed \cup (Frontends \cap {c})
      /\ published' \in {published, published + 1}
  BY DEF Starts, Subscribe, Oversized, AuthWithoutFid, Teardown, Publish, HandleClose
<1>5. /\ loop' = loop \/ loop' = [loop EXCEPT ![c] = "presence"]
      /\ reason' = reason \/ reason' = [reason EXCEPT ![c] = 1009]
  BY DEF Starts, Subscribe, Oversized, AuthWithoutFid, Teardown, Publish, HandleClose
<1>6. TypeInv'
  <2>1. /\ loop' \in [Conns -> Loops]
        /\ reason' \in [Conns -> Reasons]
    <3>1. loop \in [Conns -> Loops] /\ reason \in [Conns -> Reasons]
      BY DEF BaseInv, TypeInv
    <3>2. loop' \in [Conns -> Loops]
      BY <1>5, <3>1 DEF Loops
    <3>3. reason' \in [Conns -> Reasons]
      BY <1>5, <3>1, Assigned, LoopAssigned
    <3> QED
      BY <3>2, <3>3
  <2>2. handle' \subseteq Conns /\ subscribed' \subseteq Frontends /\ published' \in Nat
    BY <1>4 DEF BaseInv, TypeInv
  <2> QED
    BY <1>3, <1>4, <2>1, <2>2 DEF BaseInv, TypeInv, writeVars
<1>7. GrabInv'
  BY <1>1, <1>3, <1>4, GrabElsewhere DEF BaseInv
<1>8. IdleInv'
  <2>1. loop'[c] \notin {"close", "teardown"}
    <3>1. CASE Teardown(c)
      BY <3>1 DEF Teardown, BaseInv, TypeInv
    <3>2. CASE ~Teardown(c)
      BY <3>2 DEF Starts, Subscribe, Oversized, AuthWithoutFid, Publish, Ready
    <3> QED
      BY <3>1, <3>2
  <2>2. \A q \in Conns : q # c => loop'[q] = loop[q]
    BY <1>5 DEF BaseInv, TypeInv
  <2> QED
    BY <1>3, <1>4, <2>1, <2>2 DEF BaseInv, IdleInv, Elsewhere
<1> QED
  BY <1>6, <1>7, <1>8 DEF BaseInv

LEMMA LoopBreaksBase ==
    ASSUME BaseInv, NEW c \in Conns, LoopBreaks(c)
    PROVE  BaseInv'
<1>1. /\ UNCHANGED <<handle, subscribed, published, taskVars, writeVars, missed>>
      /\ stack[c] = << >> /\ window[c] = NoWindow
      /\ loop' = [loop EXCEPT ![c] = "close"] \/ loop' = [loop EXCEPT ![c] = "teardown"]
      /\ reason' = reason \/ reason' = [reason EXCEPT ![c] = 1008]
  BY DEF LoopBreaks
<1>2. TypeInv'
  <2>1. /\ loop' \in [Conns -> Loops]
        /\ reason' \in [Conns -> Reasons]
    <3>1. loop \in [Conns -> Loops] /\ reason \in [Conns -> Reasons]
      BY DEF BaseInv, TypeInv
    <3>2. loop' \in [Conns -> Loops]
      BY <1>1, <3>1 DEF Loops
    <3>3. reason' \in [Conns -> Reasons]
      BY <1>1, <3>1, Assigned, LoopAssigned
    <3> QED
      BY <3>2, <3>3
  <2> QED
    BY <1>1, <2>1 DEF BaseInv, TypeInv, taskVars, writeVars
<1>3. GrabInv'
  BY <1>1 DEF BaseInv, GrabInv, Grab, Busy, Top, Head1, taskVars
<1>4. IdleInv'
  BY <1>1 DEF BaseInv, TypeInv, IdleInv, taskVars
<1> QED
  BY <1>2, <1>3, <1>4 DEF BaseInv

\* A code goes to a close channel.
LEMMA SendCloseTyped ==
    ASSUME TypeInv, NEW c \in Conns, NEW code \in Nat, NEW by, SendClose(c, code, by)
    PROVE  /\ closeq' \in [Conns -> Seq(Nat)]
           /\ issued' = issued \cup {<<c, by>>}
           /\ \A q \in Conns : q # c => closeq'[q] = closeq[q]
           /\ closeq'[c] = closeq[c] \/ closeq'[c] = Append(closeq[c], code)
<1>1. closeq \in [Conns -> Seq(Nat)] /\ Append(closeq[c], code) \in Seq(Nat)
  BY DEF TypeInv
<1> QED
  BY <1>1 DEF SendClose

LEMMA SelfCloseBase ==
    ASSUME BaseInv, NEW c \in Conns, SelfClose(c)
    PROVE  BaseInv'
<1>1. /\ SendClose(c, reason[c], "self") /\ loop[c] = "close"
      /\ UNCHANGED <<handle, subscribed, published, reason, taskVars, outbox, writer, wire, missed>>
      /\ loop' = [loop EXCEPT ![c] = "teardown"]
  BY DEF SelfClose
<1>2. closeq' \in [Conns -> Seq(Nat)]
  <2>1. reason[c] \in Nat
    BY LoopAssigned DEF BaseInv, TypeInv
  <2> QED
    BY <1>1, <2>1, SendCloseTyped DEF BaseInv
<1>3. TypeInv'
  <2>1. loop' \in [Conns -> Loops]
    BY <1>1, Assigned, LoopAssigned DEF BaseInv, TypeInv
  <2> QED
    BY <1>1, <1>2, <2>1 DEF BaseInv, TypeInv, taskVars
<1>4. GrabInv'
  BY <1>1 DEF BaseInv, GrabInv, Grab, Busy, Top, Head1, taskVars
<1>5. IdleInv'
  BY <1>1 DEF BaseInv, TypeInv, IdleInv, taskVars
<1> QED
  BY <1>3, <1>4, <1>5 DEF BaseInv

LEMMA LoopEndsBase ==
    ASSUME BaseInv, NEW c \in Conns, LoopEnds(c)
    PROVE  BaseInv'
<1>1. /\ UNCHANGED <<handle, subscribed, published, reason, taskVars, writeVars, missed>>
      /\ loop' = [loop EXCEPT ![c] = "ended"]
  BY DEF LoopEnds
<1>3. TypeInv'
  <2>1. loop' \in [Conns -> Loops]
    BY <1>1, Assigned, LoopAssigned DEF BaseInv, TypeInv
  <2> QED
    BY <1>1, <2>1 DEF BaseInv, TypeInv, taskVars, writeVars
<1>4. GrabInv'
  BY <1>1 DEF BaseInv, GrabInv, Grab, Busy, Top, Head1, taskVars
<1>5. IdleInv'
  BY <1>1 DEF BaseInv, TypeInv, IdleInv, taskVars
<1> QED
  BY <1>3, <1>4, <1>5 DEF BaseInv

\* A message is taken off the top call: sent, dropped, or its target remembered.
LEMMA TrySendDoes ==
    ASSUME BaseInv, NEW k \in Conns, TrySend(k)
    PROVE  /\ sender[k] \in Conns /\ Head1(k).to = sender[k]
           /\ stack[k] # << >> /\ Top(k).todo # << >>
           /\ Head1(k).m \in MsgSet /\ Head1(k) = Top(k).todo[1]
           /\ sender' = [sender EXCEPT ![k] = NoConn]
           /\ UNCHANGED <<handle, subscribed, published, loop, reason, window, closeq, writer, wire, issued>>
           /\ \E call \in CallSet :
                /\ SetTop(k, call) /\ call.todo = Tail(Top(k).todo)
                /\ \/ /\ call.full = Top(k).full /\ missed' = missed
                      /\ \/ outbox' = outbox
                         \/ outbox' = [outbox EXCEPT ![sender[k]] = Append(@, Head1(k).m)]
                   \/ /\ call.full = Append(Top(k).full, sender[k])
                      /\ outbox' = outbox
                      /\ missed' = [missed EXCEPT ![sender[k]] =
                                      @ \cup (IF Head1(k).m.t = "frame" THEN {Head1(k).m.n} ELSE {})]
<1>1. sender[k] # NoConn /\ sender[k] \in Conns
  BY DEF TrySend, BaseInv, TypeInv
<1>2. /\ Busy(k) /\ Top(k).todo # << >> /\ Head1(k).to = sender[k]
  BY <1>1 DEF BaseInv, GrabInv, Grab
<1>3. stack[k] # << >>
  BY <1>2 DEF Busy
<1>4. /\ Head1(k) \in ActionSet /\ Head1(k) = Top(k).todo[1]
      /\ Rest(k) \in CallSet /\ Rest(k).todo = Tail(Top(k).todo) /\ Rest(k).full = Top(k).full
  BY <1>2, <1>3, HeadTyped DEF BaseInv
<1>5. Head1(k).m \in MsgSet
  BY <1>4 DEF ActionSet
<1>6. /\ Backpressured(k, sender[k]) \in CallSet
      /\ Backpressured(k, sender[k]).todo = Tail(Top(k).todo)
      /\ Backpressured(k, sender[k]).full = Append(Top(k).full, sender[k])
  BY <1>1, <1>2, <1>3, BackpressuredTyped DEF BaseInv
<1>7. /\ sender' = [sender EXCEPT ![k] = NoConn]
      /\ UNCHANGED <<handle, subscribed, published, loop, reason, window, closeq, writer, wire, issued>>
  BY DEF TrySend
<1>8. \/ SetTop(k, Rest(k)) /\ UNCHANGED <<outbox, missed>>
      \/ /\ SetTop(k, Rest(k)) /\ UNCHANGED missed
         /\ outbox' = [outbox EXCEPT ![sender[k]] = Append(@, Head1(k).m)]
      \/ /\ SetTop(k, Backpressured(k, sender[k])) /\ UNCHANGED outbox
         /\ missed' = [missed EXCEPT ![sender[k]] =
                         @ \cup (IF Head1(k).m.t = "frame" THEN {Head1(k).m.n} ELSE {})]
  BY DEF TrySend
<1>9. \E call \in CallSet :
                /\ SetTop(k, call) /\ call.todo = Tail(Top(k).todo)
                /\ \/ /\ call.full = Top(k).full /\ missed' = missed
                      /\ \/ outbox' = outbox
                         \/ outbox' = [outbox EXCEPT ![sender[k]] = Append(@, Head1(k).m)]
                   \/ /\ call.full = Append(Top(k).full, sender[k])
                      /\ outbox' = outbox
                      /\ missed' = [missed EXCEPT ![sender[k]] =
                                      @ \cup (IF Head1(k).m.t = "frame" THEN {Head1(k).m.n} ELSE {})]
  <2>1. CASE SetTop(k, Rest(k)) /\ UNCHANGED <<outbox, missed>>
    BY <1>4, <2>1
  <2>2. CASE /\ SetTop(k, Rest(k)) /\ UNCHANGED missed
             /\ outbox' = [outbox EXCEPT ![sender[k]] = Append(@, Head1(k).m)]
    BY <1>4, <2>2
  <2>3. CASE /\ SetTop(k, Backpressured(k, sender[k])) /\ UNCHANGED outbox
             /\ missed' = [missed EXCEPT ![sender[k]] =
                             @ \cup (IF Head1(k).m.t = "frame" THEN {Head1(k).m.n} ELSE {})]
    BY <1>6, <2>3
  <2> QED
    BY <1>8, <2>1, <2>2, <2>3
<1> QED
  BY <1>1, <1>2, <1>3, <1>4, <1>5, <1>7, <1>9

\* A connection is taken down, for a Close action or off the list of slow ones.
LEMMA CloseConnDoes ==
    ASSUME BaseInv, NEW k \in Conns, CloseConn(k)
    PROVE  /\ stack[k] # << >> /\ window[k] = NoWindow /\ sender[k] = NoConn
           /\ UNCHANGED <<published, loop, reason, sender, outbox, closeq, writer, wire, missed, issued>>
           /\ \E x \in Conns, code \in Nat, call \in CallSet :
                /\ window' = [window EXCEPT ![k] = [to |-> x, code |-> code, held |-> x \in handle,
                                                    presence |-> PresenceAfter(x)]]
                /\ HandleClose(x)
                /\ SetTop(k, call)
                /\ \/ /\ Top(k).todo # << >> /\ call.todo = Tail(Top(k).todo)
                      /\ call.full = Top(k).full
                   \/ /\ Top(k).full # << >> /\ call.todo = Top(k).todo
                      /\ call.full = Tail(Top(k).full) /\ x = Head(Top(k).full)
<1>1. /\ Busy(k) /\ sender[k] = NoConn
      /\ UNCHANGED <<published, loop, reason, sender, outbox, closeq, writer, wire, missed, issued>>
  BY DEF CloseConn, writeVars
<1>2. stack[k] # << >> /\ window[k] = NoWindow
  BY <1>1 DEF Busy
<1>3. Top(k) \in CallSet /\ Top(k).todo \in Seq(ActionSet) /\ Top(k).full \in Seq(Conns)
  BY <1>2, TopTyped DEF BaseInv
<1>4. CASE Top(k).todo # << >>
  <2>1. /\ window' = [window EXCEPT ![k] = [to |-> Head1(k).to, code |-> Head1(k).m.n,
                                            held |-> Head1(k).to \in handle,
                                            presence |-> PresenceAfter(Head1(k).to)]]
        /\ HandleClose(Head1(k).to)
        /\ SetTop(k, Rest(k))
    BY <1>4 DEF CloseConn
  <2>2. /\ Head1(k) \in ActionSet
        /\ Rest(k) \in CallSet /\ Rest(k).todo = Tail(Top(k).todo) /\ Rest(k).full = Top(k).full
    BY <1>2, <1>4, HeadTyped DEF BaseInv
  <2>3. Head1(k).to \in Conns /\ Head1(k).m.n \in Nat
    BY <2>2 DEF ActionSet, MsgSet
  <2> QED
    BY <1>1, <1>2, <1>4, <2>1, <2>2, <2>3
<1>5. CASE Top(k).todo = << >>
  <2>1. /\ window' = [window EXCEPT ![k] = [to |-> Head(Top(k).full), code |-> 1013,
                                            held |-> Head(Top(k).full) \in handle,
                                            presence |-> PresenceAfter(Head(Top(k).full))]]
        /\ HandleClose(Head(Top(k).full))
        /\ SetTop(k, [Top(k) EXCEPT !.full = Tail(@)])
        /\ Top(k).full # << >>
    BY <1>5 DEF CloseConn
  <2>2. Head(Top(k).full) \in Conns
    BY <1>3, <2>1, TailOf
  <2>3. /\ [Top(k) EXCEPT !.full = Tail(@)] \in CallSet
        /\ [Top(k) EXCEPT !.full = Tail(@)].todo = Top(k).todo
        /\ [Top(k) EXCEPT !.full = Tail(@)].full = Tail(Top(k).full)
    BY <1>3, <2>1, ClosedTyped
  <2> DEFINE y == Head(Top(k).full)
             rest == [Top(k) EXCEPT !.full = Tail(@)]
  <2>4. PICK code \in Nat : code = 1013
    OBVIOUS
  <2>5. /\ window' = [window EXCEPT ![k] = [to |-> y, code |-> code, held |-> y \in handle,
                                            presence |-> PresenceAfter(y)]]
        /\ HandleClose(y) /\ SetTop(k, rest) /\ Top(k).full # << >>
    BY <2>1, <2>4
  <2>6. y \in Conns /\ rest \in CallSet /\ rest.todo = Top(k).todo /\ rest.full = Tail(Top(k).full)
    BY <2>2, <2>3
  <2>7. y = Head(Top(k).full)
    OBVIOUS
  <2> HIDE DEF y, rest
  <2> QED
    BY <1>1, <1>2, <2>5, <2>6, <2>7
<1> QED
  BY <1>4, <1>5

LEMMA GrabSenderBase ==
    ASSUME BaseInv, NEW k \in Conns, GrabSender(k)
    PROVE  BaseInv'
<1>1. /\ Busy(k) /\ sender[k] = NoConn /\ Top(k).todo # << >> /\ Head1(k).kind = "send"
      /\ UNCHANGED <<handle, subscribed, published, loop, reason, window, writeVars, missed>>
  BY DEF GrabSender
<1>2. stack[k] # << >> /\ window[k] = NoWindow
  BY <1>1 DEF Busy
<1>3. CASE Head1(k).to \in handle
  <2>1. sender' = [sender EXCEPT ![k] = Head1(k).to] /\ stack' = stack
    BY <1>3 DEF GrabSender
  <2>2. TypeInv'
    <3>1. Head1(k).to \in Conns \cup {NoConn}
      BY <1>3 DEF BaseInv, TypeInv
    <3>2. sender' \in [Conns -> Conns \cup {NoConn}]
      BY <2>1, <3>1, Assigned DEF BaseInv, TypeInv
    <3> QED
      BY <1>1, <2>1, <3>2 DEF BaseInv, TypeInv, writeVars
  <2>3. GrabInv'
    <3>1. Grab(k)'
      BY <1>1, <2>1 DEF Grab, BaseInv, TypeInv, Busy, Top, Head1
    <3>2. \A q \in Conns : q # k => Grab(q)'
      BY <1>1, <2>1 DEF Grab, BaseInv, TypeInv, GrabInv, Busy, Top, Head1
    <3> QED
      BY <3>1, <3>2 DEF GrabInv
  <2>4. IdleInv'
    BY <1>1, <2>1 DEF BaseInv, IdleInv
  <2> QED
    BY <2>2, <2>3, <2>4 DEF BaseInv
<1>4. CASE Head1(k).to \notin handle
  <2>1. SetTop(k, Rest(k)) /\ sender' = sender
    BY <1>4 DEF GrabSender
  <2>2. Rest(k) \in CallSet
    BY <1>1, <1>2, HeadTyped DEF BaseInv
  <2>3. stack' \in [Conns -> Seq(CallSet)] /\ Elsewhere(k)
    BY <1>2, <2>1, <2>2, SetsTop DEF BaseInv
  <2>4. TypeInv'
    BY <1>1, <2>1, <2>3 DEF BaseInv, TypeInv, writeVars
  <2>5. GrabInv'
    BY <1>1, <2>1, <2>3, GrabElsewhere DEF BaseInv
  <2>6. IdleInv'
    BY <1>1, <1>2, <2>3 DEF BaseInv, IdleInv, Elsewhere
  <2> QED
    BY <2>4, <2>5, <2>6 DEF BaseInv
<1> QED
  BY <1>3, <1>4

LEMMA TrySendBase ==
    ASSUME BaseInv, NEW k \in Conns, TrySend(k)
    PROVE  BaseInv'
<1>1. /\ sender[k] \in Conns /\ stack[k] # << >> /\ Head1(k).m \in MsgSet
      /\ sender' = [sender EXCEPT ![k] = NoConn]
      /\ UNCHANGED <<handle, subscribed, published, loop, reason, window, closeq, writer, wire>>
  BY TrySendDoes
<1>2. PICK call \in CallSet : SetTop(k, call)
  BY TrySendDoes
<1>3. stack' \in [Conns -> Seq(CallSet)] /\ Elsewhere(k)
  BY <1>1, <1>2, SetsTop DEF BaseInv
<1>4. outbox' \in [Conns -> Seq(MsgSet)]
  <2>1. outbox' = outbox \/ outbox' = [outbox EXCEPT ![sender[k]] = Append(@, Head1(k).m)]
    BY TrySendDoes
  <2>2. outbox \in [Conns -> Seq(MsgSet)]
    BY DEF BaseInv, TypeInv
  <2>3. Append(outbox[sender[k]], Head1(k).m) \in Seq(MsgSet)
    BY <1>1, <2>2
  <2> QED
    BY <1>1, <2>1, <2>2, <2>3
<1>5. missed' \in [Conns -> SUBSET Nat]
  <2>1. \/ missed' = missed
        \/ missed' = [missed EXCEPT ![sender[k]] =
                        @ \cup (IF Head1(k).m.t = "frame" THEN {Head1(k).m.n} ELSE {})]
    BY TrySendDoes
  <2>2. missed \in [Conns -> SUBSET Nat]
    BY DEF BaseInv, TypeInv
  <2>3. Head1(k).m.n \in Nat
    BY <1>1 DEF MsgSet
  <2> QED
    BY <1>1, <2>1, <2>2, <2>3
<1>6. sender' \in [Conns -> Conns \cup {NoConn}] /\ sender'[k] = NoConn
      /\ \A q \in Conns : q # k => sender'[q] = sender[q]
  BY <1>1 DEF BaseInv, TypeInv
<1>7. TypeInv'
  BY <1>1, <1>3, <1>4, <1>5, <1>6 DEF BaseInv, TypeInv
<1>8. GrabInv'
  BY <1>1, <1>3, <1>6, GrabElsewhere DEF BaseInv
<1>9. IdleInv'
  BY <1>1, <1>3 DEF BaseInv, IdleInv, Elsewhere
<1> QED
  BY <1>7, <1>8, <1>9 DEF BaseInv

\* What close_conn remembers until its send.
LEMMA WindowTyped ==
    ASSUME TypeInv, NEW x \in Conns, NEW code \in Nat
    PROVE  [to |-> x, code |-> code, held |-> x \in handle, presence |-> PresenceAfter(x)] \in WindowSet
<1>1. PresenceAfter(x) \in Seq(ActionSet)
  BY PresenceTyped
<1>2. \A b \in BOOLEAN, p \in Seq(ActionSet) :
         [to |-> x, code |-> code, held |-> b, presence |-> p] \in WindowSet
  BY DEF WindowSet
<1>3. (x \in handle) \in BOOLEAN
  OBVIOUS
<1> QED
  BY <1>1, <1>2, <1>3

LEMMA CloseConnBase ==
    ASSUME BaseInv, NEW k \in Conns, CloseConn(k)
    PROVE  BaseInv'
<1>1. /\ stack[k] # << >> /\ window[k] = NoWindow /\ sender[k] = NoConn
      /\ UNCHANGED <<published, loop, reason, sender, outbox, closeq, writer, wire, missed>>
  BY CloseConnDoes
<1>2. PICK x \in Conns, code \in Nat, call \in CallSet :
         /\ window' = [window EXCEPT ![k] = [to |-> x, code |-> code, held |-> x \in handle,
                                             presence |-> PresenceAfter(x)]]
         /\ HandleClose(x)
         /\ SetTop(k, call)
  BY CloseConnDoes
<1>3. stack' \in [Conns -> Seq(CallSet)] /\ Elsewhere(k)
  BY <1>1, <1>2, SetsTop DEF BaseInv
<1>4. /\ window' \in [Conns -> WindowSet \cup {NoWindow}]
      /\ \A q \in Conns : q # k => window'[q] = window[q]
  <2> DEFINE w == [to |-> x, code |-> code, held |-> x \in handle, presence |-> PresenceAfter(x)]
  <2>1. w \in WindowSet
    BY WindowTyped DEF BaseInv
  <2>2. window' = [window EXCEPT ![k] = w] /\ window \in [Conns -> WindowSet \cup {NoWindow}]
    BY <1>2 DEF BaseInv, TypeInv
  <2> HIDE DEF w
  <2> QED
    BY <2>1, <2>2
<1>5. handle' \subseteq Conns /\ subscribed' \subseteq Frontends
  BY <1>2 DEF HandleClose, BaseInv, TypeInv
<1>6. TypeInv'
  BY <1>1, <1>3, <1>4, <1>5 DEF BaseInv, TypeInv
<1>7. GrabInv'
  BY <1>1, <1>3, <1>4, GrabElsewhere DEF BaseInv
<1>8. IdleInv'
  BY <1>1, <1>3, <1>4 DEF BaseInv, IdleInv, Elsewhere
<1> QED
  BY <1>6, <1>7, <1>8 DEF BaseInv

\* The window is left; what was decided about presence is delivered next.
LEMMA CloseConnSendDoes ==
    ASSUME BaseInv, NEW k \in Conns, CloseConnSend(k)
    PROVE  /\ window[k] \in WindowSet /\ sender[k] = NoConn
           /\ window' = [window EXCEPT ![k] = NoWindow]
           /\ UNCHANGED <<handle, subscribed, published, loop, reason, sender, outbox, writer, wire, missed>>
           /\ \/ window[k].held /\ SendClose(window[k].to, window[k].code, "forced")
              \/ ~window[k].held /\ UNCHANGED <<closeq, issued>>
           /\ stack' = stack \/ Deliver(k, window[k].presence)
<1>1. window[k] # NoWindow
  BY DEF CloseConnSend
<1>2. window[k] \in WindowSet
  BY <1>1 DEF BaseInv, TypeInv
<1>3. sender[k] = NoConn
  BY <1>1 DEF BaseInv, GrabInv, Grab, Busy
<1> QED
  BY <1>2, <1>3 DEF CloseConnSend

LEMMA CloseConnSendBase ==
    ASSUME BaseInv, NEW k \in Conns, CloseConnSend(k)
    PROVE  BaseInv'
<1>1. /\ window[k] \in WindowSet /\ sender[k] = NoConn
      /\ window' = [window EXCEPT ![k] = NoWindow]
      /\ UNCHANGED <<handle, subscribed, published, loop, reason, sender, outbox, writer, wire, missed>>
  BY CloseConnSendDoes
<1>2. window[k].to \in Conns /\ window[k].code \in Nat /\ window[k].presence \in Seq(ActionSet)
  BY <1>1 DEF WindowSet
<1>3. closeq' \in [Conns -> Seq(Nat)]
  <2>1. CASE window[k].held /\ SendClose(window[k].to, window[k].code, "forced")
    BY <1>2, <2>1, SendCloseTyped DEF BaseInv
  <2>2. CASE UNCHANGED <<closeq, issued>>
    BY <2>2 DEF BaseInv, TypeInv
  <2> QED
    BY <2>1, <2>2, CloseConnSendDoes
<1>4. stack' \in [Conns -> Seq(CallSet)] /\ Elsewhere(k)
  <2>1. CASE stack' = stack
    BY <2>1 DEF BaseInv, TypeInv, Elsewhere
  <2>2. CASE Deliver(k, window[k].presence)
    BY <1>2, <2>2, Delivers DEF BaseInv
  <2> QED
    BY <2>1, <2>2, CloseConnSendDoes
<1>5. /\ window' \in [Conns -> WindowSet \cup {NoWindow}]
      /\ \A q \in Conns : q # k => window'[q] = window[q]
  BY <1>1 DEF BaseInv, TypeInv
<1>6. TypeInv'
  BY <1>1, <1>3, <1>4, <1>5 DEF BaseInv, TypeInv
<1>7. GrabInv'
  BY <1>1, <1>4, <1>5, GrabElsewhere DEF BaseInv
<1>8. loop[k] \notin {"close", "teardown"}
  BY <1>1, WindowIsReal DEF BaseInv, IdleInv
<1>9. IdleInv'
  BY <1>1, <1>4, <1>5, <1>8 DEF BaseInv, IdleInv, Elsewhere
<1> QED
  BY <1>6, <1>7, <1>9 DEF BaseInv

LEMMA DeliveryReturnsBase ==
    ASSUME BaseInv, NEW k \in Conns, DeliveryReturns(k)
    PROVE  BaseInv'
<1>1. /\ Busy(k) /\ Top(k).todo = << >> /\ Top(k).full = << >>
      /\ stack' = [stack EXCEPT ![k] = Front(@)]
      /\ UNCHANGED <<handle, subscribed, published, loop, reason, sender, window, writeVars, missed>>
  BY DEF DeliveryReturns
<1>2. stack[k] # << >> /\ sender[k] = NoConn
  BY <1>1 DEF Busy, BaseInv, GrabInv, Grab
<1>3. stack' \in [Conns -> Seq(CallSet)] /\ Elsewhere(k)
  BY <1>1, <1>2, Returns DEF BaseInv
<1>4. TypeInv'
  BY <1>1, <1>3 DEF BaseInv, TypeInv, writeVars
<1>5. GrabInv'
  BY <1>1, <1>2, <1>3, GrabElsewhere DEF BaseInv
<1>6. IdleInv'
  BY <1>1, <1>2, <1>3 DEF BaseInv, IdleInv, Elsewhere
<1> QED
  BY <1>4, <1>5, <1>6 DEF BaseInv

\* The write task sends what is first in its channels, or stops.
WriteTask(c) == WriterStep(c) \/ TransportFails(c)

LEMMA WriterDoes ==
    ASSUME TypeInv, NEW c \in Conns, WriteTask(c)
    PROVE  /\ UNCHANGED <<handle, subscribed, published, loop, reason, taskVars, missed, issued>>
           /\ \E w \in {"running", "looked", "stopped", "failed"} : writer' = [writer EXCEPT ![c] = w]
           /\ \/ UNCHANGED <<outbox, closeq, wire>>
              \/ /\ outbox[c] # << >> /\ closeq' = closeq
                 /\ wire' = [wire EXCEPT ![c] = Append(@, Head(outbox[c]))]
                 /\ outbox' = [outbox EXCEPT ![c] = Tail(@)]
              \/ /\ closeq' = [closeq EXCEPT ![c] = << >>]
                 /\ outbox' = [outbox EXCEPT ![c] = << >>]
                 /\ \/ wire' = wire
                    \/ /\ closeq[c] # << >>
                       /\ wire' = [wire EXCEPT ![c] = Append(@, CloseFrame(Head(closeq[c])))]
BY DEF WriteTask, WriterStep, WriteClose, WriterLooks, WriteMessage, WriterWaits, WriterStops,
       TransportFails, WriterEnds

LEMMA WriterBase ==
    ASSUME BaseInv, NEW c \in Conns, WriteTask(c)
    PROVE  BaseInv'
<1>1. UNCHANGED <<handle, subscribed, published, loop, reason, taskVars, missed>>
  BY WriterDoes DEF BaseInv
<1>2. /\ outbox \in [Conns -> Seq(MsgSet)] /\ closeq \in [Conns -> Seq(Nat)]
      /\ wire \in [Conns -> Seq(MsgSet)] /\ writer \in [Conns -> {"running", "looked", "stopped", "failed"}]
  BY DEF BaseInv, TypeInv
<1>3. closeq[c] # << >> => Tail(closeq[c]) \in Seq(Nat) /\ CloseFrame(Head(closeq[c])) \in MsgSet
  BY <1>2, TailOf, MessagesTyped
<1>4. outbox[c] # << >> => Tail(outbox[c]) \in Seq(MsgSet) /\ Head(outbox[c]) \in MsgSet
  BY <1>2, TailOf
<1>5. \A m \in MsgSet : Append(wire[c], m) \in Seq(MsgSet)
  BY <1>2
<1>6. /\ outbox' \in [Conns -> Seq(MsgSet)] /\ closeq' \in [Conns -> Seq(Nat)]
      /\ wire' \in [Conns -> Seq(MsgSet)] /\ writer' \in [Conns -> {"running", "looked", "stopped", "failed"}]
  <2>1. writer' \in [Conns -> {"running", "looked", "stopped", "failed"}]
    BY <1>2, WriterDoes DEF BaseInv
  <2>2. CASE UNCHANGED <<outbox, closeq, wire>>
    BY <1>2, <2>1, <2>2
  <2>3. CASE outbox[c] # << >> /\ closeq' = closeq
             /\ wire' = [wire EXCEPT ![c] = Append(@, Head(outbox[c]))]
             /\ outbox' = [outbox EXCEPT ![c] = Tail(@)]
    <3>1. Append(wire[c], Head(outbox[c])) \in Seq(MsgSet)
      BY <1>4, <1>5, <2>3
    <3> QED
      BY <1>2, <1>4, <2>1, <2>3, <3>1
  <2>4. CASE /\ closeq' = [closeq EXCEPT ![c] = << >>]
             /\ outbox' = [outbox EXCEPT ![c] = << >>]
             /\ \/ wire' = wire
                \/ /\ closeq[c] # << >>
                   /\ wire' = [wire EXCEPT ![c] = Append(@, CloseFrame(Head(closeq[c])))]
    <3>1. << >> \in Seq(Nat) /\ << >> \in Seq(MsgSet)
      OBVIOUS
    <3>2. closeq' \in [Conns -> Seq(Nat)] /\ outbox' \in [Conns -> Seq(MsgSet)]
      BY <1>2, <2>4, <3>1
    <3>3. closeq[c] # << >> => Append(wire[c], CloseFrame(Head(closeq[c]))) \in Seq(MsgSet)
      BY <1>3, <1>5
    <3>4. wire' \in [Conns -> Seq(MsgSet)]
      BY <1>2, <2>4, <3>3
    <3> QED
      BY <2>1, <3>2, <3>4
  <2> QED
    BY <2>2, <2>3, <2>4, WriterDoes DEF BaseInv
<1>7. TypeInv'
  BY <1>1, <1>6 DEF BaseInv, TypeInv, taskVars
<1>8. GrabInv'
  BY <1>1 DEF BaseInv, GrabInv, Grab, Busy, Top, Head1, taskVars
<1>9. IdleInv'
  BY <1>1 DEF BaseInv, IdleInv, taskVars
<1> QED
  BY <1>7, <1>8, <1>9 DEF BaseInv

\* Every step is one of these.
LEMMA StepKinds ==
    ASSUME [Next]_vars
    PROVE  \/ UNCHANGED vars
           \/ \E c \in Conns :
                 \/ Starts(c) \/ (c = Daemon /\ Publish)
                 \/ LoopBreaks(c) \/ SelfClose(c) \/ LoopEnds(c)
                 \/ GrabSender(c) \/ TrySend(c) \/ CloseConn(c) \/ CloseConnSend(c)
                 \/ DeliveryReturns(c) \/ WriteTask(c)
BY DEF Next, Inbound, TaskStep, Starts, WriteTask, Done

LEMMA BaseStep ==
    ASSUME BaseInv, [Next]_vars
    PROVE  BaseInv'
<1>1. CASE UNCHANGED vars
  BY <1>1 DEF vars, taskVars, writeVars, BaseInv, TypeInv, GrabInv, Grab, IdleInv, Busy, Top, Head1
<1>2. CASE \E c \in Conns :
                 \/ Starts(c) \/ (c = Daemon /\ Publish)
                 \/ LoopBreaks(c) \/ SelfClose(c) \/ LoopEnds(c)
                 \/ GrabSender(c) \/ TrySend(c) \/ CloseConn(c) \/ CloseConnSend(c)
                 \/ DeliveryReturns(c) \/ WriteTask(c)
  BY <1>2, StartBase, LoopBreaksBase, SelfCloseBase, LoopEndsBase, GrabSenderBase, TrySendBase,
     CloseConnBase, CloseConnSendBase, DeliveryReturnsBase, WriterBase
<1> QED
  BY <1>1, <1>2, StepKinds

\* Everything the relay's tasks hold has its type, and no task sends a message
\* to a connection other than the one whose sender it cloned.
THEOREM DeliveryTyped == Spec => []BaseInv
<1>1. Init => BaseInv
  BY BaseInit
<1>2. BaseInv /\ [Next]_vars => BaseInv'
  BY BaseStep
<1> QED
  BY <1>1, <1>2, PTL DEF Spec

-----------------------------------------------------------------------------
(* Close codes.                                                            *)

\* Steps that leave the way down of every connection alone.
Calm == UNCHANGED <<handle, loop, window, closeq, issued>>

LEMMA CalmSteps ==
    ASSUME BaseInv, NEW c \in Conns,
           \/ Subscribe(c) \/ Oversized(c) \/ AuthWithoutFid(c) \/ (c = Daemon /\ Publish)
           \/ GrabSender(c) \/ TrySend(c) \/ DeliveryReturns(c) \/ UNCHANGED vars
    PROVE  Calm
<1>1. UNCHANGED <<handle, loop, window, closeq, issued, writer, wire>>
  BY DEF Subscribe, Oversized, AuthWithoutFid, Publish, GrabSender, TrySend, DeliveryReturns, vars,
         writeVars
<1> QED
  BY <1>1 DEF Calm

LEMMA CalmClosing ==
    ASSUME BaseInv, CloseInv, Calm
    PROVE  CloseInv'
<1>1. UNCHANGED <<handle, loop, window, closeq, issued>>
  BY DEF Calm
<1>2. CloseInv'
  BY <1>1 DEF CloseInv, SelfInv, ForcedInv, QueueInv, SelfIssued, ForcedIssued, Holds
<1> QED
  BY <1>2

LEMMA ClosingInit == Init => CloseInv
<1> SUFFICES ASSUME Init PROVE CloseInv
  OBVIOUS
<1>1. \A c \in Conns : ~SelfIssued(c) /\ ~ForcedIssued(c)
  BY DEF Init, SelfIssued, ForcedIssued
<1>2. \A c, k \in Conns : ~Holds(k, c)
  BY DEF Init, Holds, NoWindow
<1>3. \A c \in Conns : closeq[c] = << >> /\ Len(closeq[c]) = 0
  BY DEF Init
<1> QED
  BY <1>1, <1>2, <1>3
     DEF CloseInv, SelfInv, ForcedInv, QueueInv

\* The loop breaks or ends: nothing is issued, no handle is taken.
LEMMA LoopClosing ==
    ASSUME BaseInv, CloseInv, NEW c \in Conns, LoopBreaks(c) \/ LoopEnds(c)
    PROVE  CloseInv'
<1>1. /\ UNCHANGED <<handle, window, closeq, issued, writer, wire>>
      /\ \/ /\ loop[c] = "running" /\ loop'[c] \in {"close", "teardown"}
            /\ \A q \in Conns : q # c => reason'[q] = reason[q]
         \/ loop[c] = "presence" /\ loop'[c] = "ended" /\ reason' = reason
      /\ \A q \in Conns : q # c => loop'[q] = loop[q]
  <2>1. CASE LoopBreaks(c)
    BY <2>1 DEF LoopBreaks, taskVars, writeVars, BaseInv, TypeInv
  <2>2. CASE LoopEnds(c)
    BY <2>2 DEF LoopEnds, taskVars, writeVars, BaseInv, TypeInv
  <2> QED
    BY <2>1, <2>2
<1>3. SelfInv'
  BY <1>1 DEF CloseInv, SelfInv, SelfIssued
<1>4. ForcedInv' /\ QueueInv'
  BY <1>1 DEF CloseInv, ForcedInv, QueueInv, SelfIssued, ForcedIssued, Holds
<1> QED
  BY <1>3, <1>4 DEF CloseInv

\* A channel with one code more.
LEMMA OneMore ==
    ASSUME NEW s \in Seq(Nat), NEW code \in Nat
    PROVE  /\ Len(Append(s, code)) = Len(s) + 1 /\ Len(s) \in Nat
           /\ s = << >> => Append(s, code) = <<code>>
           /\ s = << >> => Len(s) = 0
<1>1. Len(Append(s, code)) = Len(s) + 1 /\ Len(s) \in Nat
  OBVIOUS
<1>2. ASSUME s = << >>
      PROVE  Append(s, code) = <<code>> /\ Len(s) = 0
  <2>1. Len(s) = 0
    BY <1>2
  <2>2. Append(s, code) \in Seq(Nat) /\ <<code>> \in Seq(Nat)
    OBVIOUS
  <2>3. Len(Append(s, code)) = 1 /\ Append(s, code)[1] = code
    BY <2>1
  <2>4. Len(<<code>>) = 1 /\ <<code>>[1] = code
    OBVIOUS
  <2>5. Append(s, code) = <<code>>
    <3>1. \A i \in 1 .. Len(Append(s, code)) : Append(s, code)[i] = <<code>>[i]
      BY <2>3, <2>4
    <3> QED
      BY <2>2, <2>3, <2>4, <3>1, SeqEqual
  <2> QED
    BY <2>1, <2>5
<1> QED
  BY <1>1, <1>2

LEMMA SelfCloseClosing ==
    ASSUME BaseInv, CloseInv, NEW c \in Conns, SelfClose(c)
    PROVE  CloseInv'
<1>1. /\ SendClose(c, reason[c], "self") /\ loop[c] = "close"
      /\ UNCHANGED <<handle, reason, window, writer, wire>>
      /\ loop' = [loop EXCEPT ![c] = "teardown"]
  BY DEF SelfClose, taskVars
<1>2. reason[c] \in Nat /\ closeq[c] \in Seq(Nat)
  BY LoopAssigned DEF BaseInv, TypeInv
<1>3. /\ issued' = issued \cup {<<c, "self">>}
      /\ \A q \in Conns : q # c => closeq'[q] = closeq[q]
      /\ closeq'[c] = closeq[c] \/ closeq'[c] = Append(closeq[c], reason[c])
  BY <1>1, <1>2, SendCloseTyped DEF BaseInv
<1>4. /\ loop'[c] = "teardown" /\ \A q \in Conns : q # c => loop'[q] = loop[q]
  BY <1>1 DEF BaseInv, TypeInv
<1>5. ~SelfIssued(c)
  BY <1>1 DEF CloseInv, SelfInv
<1>6. /\ SelfIssued(c)' /\ \A q \in Conns : q # c => SelfIssued(q)' = SelfIssued(q)
      /\ \A q \in Conns : ForcedIssued(q)' = ForcedIssued(q)
      /\ \A q, k \in Conns : Holds(k, q)' = Holds(k, q)
  BY <1>1, <1>3 DEF SelfIssued, ForcedIssued, Holds
<1>7. SelfInv'
  BY <1>4, <1>6 DEF CloseInv, SelfInv
<1>8. ForcedInv'
  BY <1>1, <1>6 DEF CloseInv, ForcedInv
<1>9. QueueInv'
  <2>1. \A q \in Conns : q # c =>
           (/\ ~SelfIssued(q) /\ ~ForcedIssued(q) => closeq[q] = << >>
            /\ ~SelfIssued(q) \/ ~ForcedIssued(q) => Len(closeq[q]) <= 1
            /\ Len(closeq[q]) <= 2)'
    BY <1>3, <1>6 DEF CloseInv, QueueInv
  <2>2. /\ Len(closeq[c]) <= 1 /\ (~ForcedIssued(c) => closeq[c] = << >>)
    BY <1>5 DEF CloseInv, QueueInv
  <2>3. Len(closeq'[c]) <= 2 /\ (~ForcedIssued(c) => Len(closeq'[c]) <= 1)
    BY <1>2, <1>3, <2>2, OneMore
  <2> QED
    BY <1>6, <2>1, <2>3 DEF QueueInv
<1> QED
  BY <1>7, <1>8, <1>9 DEF CloseInv

LEMMA TeardownClosing ==
    ASSUME BaseInv, CloseInv, NEW c \in Conns, Teardown(c)
    PROVE  CloseInv'
<1>1. /\ UNCHANGED <<reason, window, closeq, issued, writer, wire>>
      /\ handle' = handle \ {c} /\ loop' = [loop EXCEPT ![c] = "presence"]
      /\ loop[c] = "teardown"
  BY DEF Teardown, HandleClose, writeVars
<1>2. /\ loop'[c] = "presence" /\ \A q \in Conns : q # c => loop'[q] = loop[q]
  BY <1>1 DEF BaseInv, TypeInv
<1>3. SelfInv'
  BY <1>1, <1>2 DEF CloseInv, SelfInv, SelfIssued
<1>4. ForcedInv' /\ QueueInv'
  BY <1>1 DEF CloseInv, ForcedInv, QueueInv, SelfIssued, ForcedIssued, Holds
<1> QED
  BY <1>3, <1>4 DEF CloseInv

LEMMA CloseConnClosing ==
    ASSUME BaseInv, CloseInv, NEW k \in Conns, CloseConn(k)
    PROVE  CloseInv'
<1>1. /\ window[k] = NoWindow
      /\ UNCHANGED <<loop, reason, closeq, issued, writer, wire>>
  BY CloseConnDoes
<1>2. PICK x \in Conns, code \in Nat :
         /\ window' = [window EXCEPT ![k] = [to |-> x, code |-> code, held |-> x \in handle,
                                             presence |-> PresenceAfter(x)]]
         /\ HandleClose(x)
  BY CloseConnDoes
<1>3. handle' = handle \ {x}
  BY <1>2 DEF HandleClose
<1>4. /\ window'[k].to = x /\ window'[k].held = (x \in handle)
      /\ \A q \in Conns : q # k => window'[q] = window[q]
  BY <1>2 DEF BaseInv, TypeInv
<1>5. \A c \in Conns : ~Holds(k, c)
  BY <1>1 DEF Holds, NoWindow
<1>6. /\ \A c, q \in Conns : q # k => (Holds(q, c)' <=> Holds(q, c))
      /\ \A c \in Conns : Holds(k, c)' <=> (c = x /\ x \in handle)
  BY <1>4 DEF Holds
<1>7. \A c \in Conns : (SelfIssued(c)' <=> SelfIssued(c)) /\ (ForcedIssued(c)' <=> ForcedIssued(c))
  BY <1>1 DEF SelfIssued, ForcedIssued
<1>9. SelfInv' /\ QueueInv'
  BY <1>1, <1>7 DEF CloseInv, SelfInv, QueueInv
<1>10. ForcedInv'
  <2> SUFFICES ASSUME NEW c \in Conns
               PROVE  (/\ ForcedIssued(c) => c \notin handle /\ \A q \in Conns : ~Holds(q, c)
                       /\ \A q \in Conns : Holds(q, c) =>
                              c \notin handle /\ \A j \in Conns : Holds(j, c) => j = q)'
    BY DEF ForcedInv
  <2>1. /\ ForcedIssued(c) => c \notin handle /\ \A q \in Conns : ~Holds(q, c)
        /\ \A q \in Conns : Holds(q, c) =>
              c \notin handle /\ \A j \in Conns : Holds(j, c) => j = q
    BY DEF CloseInv, ForcedInv
  <2>2. CASE c = x /\ x \in handle
    BY <1>3, <1>6, <1>7, <2>1, <2>2
  <2>3. CASE ~(c = x /\ x \in handle)
    BY <1>3, <1>5, <1>6, <1>7, <2>1, <2>3
  <2> QED
    BY <2>2, <2>3
<1> QED
  BY <1>9, <1>10 DEF CloseInv

LEMMA CloseConnSendClosing ==
    ASSUME BaseInv, CloseInv, NEW k \in Conns, CloseConnSend(k)
    PROVE  CloseInv'
<1>1. /\ window[k] \in WindowSet /\ window' = [window EXCEPT ![k] = NoWindow]
      /\ UNCHANGED <<handle, loop, reason, writer, wire>>
  BY CloseConnSendDoes
<1>2. /\ \A q \in Conns : q # k => window'[q] = window[q]
      /\ window'[k] = NoWindow
  BY <1>1 DEF BaseInv, TypeInv
<1>3. /\ \A c, q \in Conns : q # k => (Holds(q, c)' <=> Holds(q, c))
      /\ \A c \in Conns : ~Holds(k, c)'
  BY <1>2 DEF Holds, NoWindow
<1>4. CASE ~window[k].held /\ UNCHANGED <<closeq, issued>>
  <2>1. \A c, q \in Conns : Holds(q, c)' <=> Holds(q, c)
    BY <1>3, <1>4 DEF Holds
  <2>2. \A c \in Conns : (SelfIssued(c)' <=> SelfIssued(c)) /\ (ForcedIssued(c)' <=> ForcedIssued(c))
    BY <1>4 DEF SelfIssued, ForcedIssued
  <2> QED
    BY <1>1, <1>4, <2>1, <2>2
       DEF CloseInv, SelfInv, ForcedInv, QueueInv
<1>5. CASE window[k].held /\ SendClose(window[k].to, window[k].code, "forced")
  <2>1. window[k].to \in Conns /\ window[k].code \in Nat
    BY <1>1 DEF WindowSet
  <2>14. PICK x \in Conns : x = window[k].to
    BY <2>1
  <2>2. /\ issued' = issued \cup {<<x, "forced">>}
        /\ \A q \in Conns : q # x => closeq'[q] = closeq[q]
        /\ \/ closeq'[x] = closeq[x]
           \/ closeq'[x] = Append(closeq[x], window[k].code)
    BY <1>5, <2>1, <2>14, SendCloseTyped DEF BaseInv
  <2>3. Holds(k, x)
    BY <1>5, <2>14 DEF Holds
  <2>4. /\ x \notin handle /\ ~ForcedIssued(x) /\ \A j \in Conns : Holds(j, x) => j = k
    BY <2>1, <2>3 DEF CloseInv, ForcedInv
  <2>5. \A c \in Conns : SelfIssued(c)' <=> SelfIssued(c)
    BY <2>2 DEF SelfIssued
  <2>6. \A c \in Conns : ForcedIssued(c)' <=> (ForcedIssued(c) \/ c = x)
    BY <2>2 DEF ForcedIssued
  <2>7. \A c \in Conns : Holds(k, c) => c = x
    BY <2>14 DEF Holds
  <2>9. SelfInv'
    BY <1>1, <2>5 DEF CloseInv, SelfInv
  <2>10. ForcedInv'
    <3>1. \A q \in Conns : ~Holds(q, x)'
      BY <1>3, <2>1, <2>4
    <3>2. \A c \in Conns : c # x =>
             (/\ ForcedIssued(c) => c \notin handle /\ \A q \in Conns : ~Holds(q, c)
              /\ \A q \in Conns : Holds(q, c) =>
                    c \notin handle /\ \A j \in Conns : Holds(j, c) => j = q)'
      BY <1>1, <1>3, <2>6 DEF CloseInv, ForcedInv
    <3> QED
      BY <1>1, <2>4, <3>1, <3>2 DEF ForcedInv
  <2>11. QueueInv'
    <3>1. \A c \in Conns : c # x =>
             (/\ ~SelfIssued(c) /\ ~ForcedIssued(c) => closeq[c] = << >>
              /\ ~SelfIssued(c) \/ ~ForcedIssued(c) => Len(closeq[c]) <= 1
              /\ Len(closeq[c]) <= 2)'
      BY <2>2, <2>5, <2>6 DEF CloseInv, QueueInv
    <3>2. /\ Len(closeq[x]) <= 1 /\ (~SelfIssued(x) => closeq[x] = << >>)
      BY <2>1, <2>4 DEF CloseInv, QueueInv
    <3>3. closeq[x] \in Seq(Nat)
      BY <2>1 DEF BaseInv, TypeInv
    <3>4. Len(closeq'[x]) <= 2 /\ (~SelfIssued(x) => Len(closeq'[x]) <= 1)
      BY <2>1, <2>2, <3>2, <3>3, OneMore
    <3> QED
      BY <2>1, <2>5, <2>6, <3>1, <3>4 DEF QueueInv
  <2> QED
    BY <2>9, <2>10, <2>11 DEF CloseInv
<1> QED
  BY <1>4, <1>5, CloseConnSendDoes

LEMMA WriterClosing ==
    ASSUME BaseInv, CloseInv, NEW c \in Conns, WriteTask(c)
    PROVE  CloseInv'
<1>1. UNCHANGED <<handle, loop, window, issued>>
  BY WriterDoes DEF BaseInv, taskVars
<1>2. closeq \in [Conns -> Seq(Nat)]
  BY DEF BaseInv, TypeInv
<1>3. \A q \in Conns : q # c => closeq'[q] = closeq[q]
  BY <1>2, WriterDoes DEF BaseInv
<1>4. /\ \A q \in Conns : (SelfIssued(q)' <=> SelfIssued(q)) /\ (ForcedIssued(q)' <=> ForcedIssued(q))
      /\ \A q, k \in Conns : Holds(k, q)' <=> Holds(k, q)
  BY <1>1 DEF SelfIssued, ForcedIssued, Holds
<1>5. SelfInv' /\ ForcedInv'
  BY <1>1, <1>4 DEF CloseInv, SelfInv, ForcedInv
<1>6. closeq'[c] = closeq[c] \/ closeq'[c] = << >>
  BY <1>2, WriterDoes DEF BaseInv
<1>7. QueueInv'
  <2>2. closeq[c] = << >> => closeq'[c] = << >>
    BY <1>6
  <2>3. Len(closeq'[c]) <= Len(closeq[c]) /\ Len(closeq[c]) \in Nat /\ Len(closeq'[c]) \in Int
    BY <1>2, <1>6
  <2>4. /\ ~SelfIssued(c) /\ ~ForcedIssued(c) => closeq[c] = << >>
        /\ ~SelfIssued(c) \/ ~ForcedIssued(c) => Len(closeq[c]) <= 1
        /\ Len(closeq[c]) <= 2
    BY DEF CloseInv, QueueInv
  <2>5. /\ ~SelfIssued(c) /\ ~ForcedIssued(c) => closeq'[c] = << >>
        /\ ~SelfIssued(c) \/ ~ForcedIssued(c) => Len(closeq'[c]) <= 1
        /\ Len(closeq'[c]) <= 2
    BY <2>2, <2>3, <2>4
  <2> QED
    BY <1>3, <1>4, <2>5 DEF CloseInv, QueueInv
<1> QED
  BY <1>5, <1>7 DEF CloseInv

LEMMA ClosingStep ==
    ASSUME BaseInv, CloseInv, [Next]_vars
    PROVE  CloseInv'
<1>1. CASE UNCHANGED vars
  <2>1. Daemon \in Conns
    BY DEF Conns
  <2> QED
    BY <1>1, <2>1, CalmSteps, CalmClosing
<1>2. ASSUME NEW c \in Conns,
             \/ Starts(c) \/ (c = Daemon /\ Publish)
             \/ LoopBreaks(c) \/ SelfClose(c) \/ LoopEnds(c)
             \/ GrabSender(c) \/ TrySend(c) \/ CloseConn(c) \/ CloseConnSend(c)
             \/ DeliveryReturns(c) \/ WriteTask(c)
      PROVE  CloseInv'
  <2>1. CASE \/ Subscribe(c) \/ Oversized(c) \/ AuthWithoutFid(c) \/ (c = Daemon /\ Publish)
             \/ GrabSender(c) \/ TrySend(c) \/ DeliveryReturns(c)
    BY <2>1, CalmSteps, CalmClosing
  <2> QED
    BY <1>2, <2>1, LoopClosing, SelfCloseClosing, TeardownClosing, CloseConnClosing,
       CloseConnSendClosing, WriterClosing DEF Starts
<1> QED
  BY <1>1, <1>2, StepKinds

LEMMA ClosingAlways == Spec => [](BaseInv /\ CloseInv)
<1>1. Init => BaseInv /\ CloseInv
  BY BaseInit, ClosingInit
<1>2. BaseInv /\ CloseInv /\ [Next]_vars => BaseInv' /\ CloseInv'
  BY BaseStep, ClosingStep
<1> QED
  BY <1>1, <1>2, PTL DEF Spec

\* The close channel (capacity 4) never holds more than one forced close and the
\* loop's own one, however many tasks find the consumer slow: the awaiting send
\* of close_conn and of the read loop never waits.
THEOREM CloseSendNeverBlocks == Spec => []CloseNeverBlocks
<1>1. CloseInv => CloseNeverBlocks
  BY DEF CloseInv, QueueInv, CloseNeverBlocks
<1> QED
  BY <1>1, ClosingAlways, PTL

-----------------------------------------------------------------------------
(* Slow consumers.                                                         *)

LEMMA Remembered ==
    ASSUME NEW S, NEW s \in Seq(S), NEW x \in S
    PROVE  Contains(Append(s, x), x) /\ \A y : Contains(s, y) => Contains(Append(s, x), y)
<1>1. /\ Len(s) \in Nat /\ Len(Append(s, x)) = Len(s) + 1
      /\ \A i \in 1 .. Len(s) : Append(s, x)[i] = s[i]
      /\ Append(s, x)[Len(s) + 1] = x
  BY PushTop
<1>2. Len(s) + 1 \in 1 .. Len(s) + 1 /\ \A i \in 1 .. Len(s) : i \in 1 .. Len(s) + 1
  BY <1>1
<1> QED
  BY <1>1, <1>2 DEF Contains

LEMMA Forgotten ==
    ASSUME NEW S, NEW s \in Seq(S), s # << >>, NEW y, Contains(s, y), y # Head(s)
    PROVE  Contains(Tail(s), y)
<1>1. /\ Len(s) \in Nat \ {0} /\ Len(Tail(s)) = Len(s) - 1
      /\ \A i \in 1 .. Len(s) - 1 : Tail(s)[i] = s[i + 1]
      /\ Head(s) = s[1]
  BY TailOf
<1>2. PICK i \in 1 .. Len(s) : s[i] = y
  BY DEF Contains
<1>3. i # 1
  BY <1>1, <1>2
<1>4. i - 1 \in 1 .. Len(s) - 1 /\ (i - 1) + 1 = i
  BY <1>1, <1>3
<1>5. Tail(s)[i - 1] = y
  BY <1>1, <1>2, <1>4
<1> QED
  BY <1>1, <1>4, <1>5 DEF Contains

\* Task k still has on its lists everyone but x.
KeepsBut(k, x) ==
    \A i \in DOMAIN stack[k] : \A y :
        y # x /\ Contains(stack[k][i].full, y) =>
            i \in DOMAIN stack'[k] /\ Contains(stack'[k][i].full, y)

LEMMA ListsKept ==
    ASSUME LossLeadsToClose, NEW x, x \notin handle', handle' \subseteq handle,
           \A k \in Conns : KeepsBut(k, x), missed' = missed
    PROVE  LossLeadsToClose'
BY DEF LossLeadsToClose, KeepsBut

\* The calls do not move.
LEMMA StillKeeps ==
    ASSUME stack' = stack, NEW x
    PROVE  \A k \in Conns : KeepsBut(k, x)
BY DEF KeepsBut

\* A call is put on top.
LEMMA DeliverKeeps ==
    ASSUME TypeInv, NEW k \in Conns, NEW actions \in Seq(ActionSet), Deliver(k, actions), NEW x
    PROVE  \A q \in Conns : KeepsBut(q, x)
<1>1. /\ Elsewhere(k) /\ Len(stack[k]) \in Nat
      /\ DOMAIN stack[k] = 1 .. Len(stack[k])
      /\ DOMAIN stack'[k] = 1 .. Len(stack[k]) + 1
      /\ \A i \in 1 .. Len(stack[k]) : stack'[k][i] = stack[k][i]
  BY Delivers
<1>2. \A i \in 1 .. Len(stack[k]) : i \in 1 .. Len(stack[k]) + 1
  BY <1>1
<1> QED
  BY <1>1, <1>2 DEF KeepsBut, Elsewhere

\* The top call changes, and forgets nobody but x.
LEMMA SetTopKeeps ==
    ASSUME TypeInv, NEW k \in Conns, NEW call \in CallSet, stack[k] # << >>, SetTop(k, call),
           NEW x, \A y : y # x /\ Contains(Top(k).full, y) => Contains(call.full, y)
    PROVE  \A q \in Conns : KeepsBut(q, x)
<1>1. /\ Elsewhere(k) /\ Len(stack[k]) \in Nat \ {0}
      /\ DOMAIN stack[k] = 1 .. Len(stack[k])
      /\ DOMAIN stack'[k] = 1 .. Len(stack[k])
      /\ \A i \in 1 .. Len(stack[k]) - 1 : stack'[k][i] = stack[k][i]
      /\ stack'[k][Len(stack[k])] = call
  BY SetsTop
<1>2. Top(k) = stack[k][Len(stack[k])]
  BY TopTyped
<1>3. \A i \in 1 .. Len(stack[k]) : i = Len(stack[k]) \/ i \in 1 .. Len(stack[k]) - 1
  BY <1>1
<1>4. KeepsBut(k, x)
  BY <1>1, <1>2, <1>3 DEF KeepsBut
<1>5. \A q \in Conns : q # k => KeepsBut(q, x)
  BY <1>1 DEF KeepsBut, Elsewhere
<1> QED
  BY <1>4, <1>5

\* A call returns only when its list is empty.
LEMMA ReturnKeeps ==
    ASSUME TypeInv, NEW k \in Conns, stack[k] # << >>, Top(k).full = << >>,
           stack' = [stack EXCEPT ![k] = Front(@)], NEW x
    PROVE  \A q \in Conns : KeepsBut(q, x)
<1>1. /\ Elsewhere(k) /\ Len(stack[k]) \in Nat \ {0}
      /\ DOMAIN stack[k] = 1 .. Len(stack[k])
      /\ DOMAIN stack'[k] = 1 .. Len(stack[k]) - 1
      /\ \A i \in 1 .. Len(stack[k]) - 1 : stack'[k][i] = stack[k][i]
  BY Returns
<1>2. Top(k) = stack[k][Len(stack[k])]
  BY TopTyped
<1>3. \A y : ~Contains(<< >>, y)
  BY DEF Contains
<1>4. \A i \in 1 .. Len(stack[k]) : i = Len(stack[k]) \/ i \in 1 .. Len(stack[k]) - 1
  BY <1>1
<1>5. KeepsBut(k, x)
  BY <1>1, <1>2, <1>3, <1>4 DEF KeepsBut
<1>6. \A q \in Conns : q # k => KeepsBut(q, x)
  BY <1>1 DEF KeepsBut, Elsewhere
<1> QED
  BY <1>5, <1>6

LEMMA TrySendLoss ==
    ASSUME BaseInv, LossLeadsToClose, NEW k \in Conns, TrySend(k)
    PROVE  LossLeadsToClose'
<1>1. stack[k] # << >> /\ sender[k] \in Conns /\ handle' = handle
  BY TrySendDoes
<1>2. PICK call \in CallSet :
         /\ SetTop(k, call)
         /\ \/ call.full = Top(k).full /\ missed' = missed
            \/ /\ call.full = Append(Top(k).full, sender[k])
               /\ missed' = [missed EXCEPT ![sender[k]] =
                               @ \cup (IF Head1(k).m.t = "frame" THEN {Head1(k).m.n} ELSE {})]
  BY TrySendDoes
<1>3. Top(k).full \in Seq(Conns)
  BY <1>1, TopTyped DEF BaseInv
<1>4. \A y : y # NoConn /\ Contains(Top(k).full, y) => Contains(call.full, y)
  <2>1. call.full = Top(k).full \/ call.full = Append(Top(k).full, sender[k])
    BY <1>2
  <2>2. \A y : Contains(Top(k).full, y) => Contains(Append(Top(k).full, sender[k]), y)
    BY <1>1, <1>3, Remembered
  <2> QED
    BY <2>1, <2>2
<1>5. \A q \in Conns : KeepsBut(q, NoConn)
  BY <1>1, <1>2, <1>4, SetTopKeeps DEF BaseInv
<1>6. NoConn \notin handle
  BY DeliveryAssumption DEF BaseInv, TypeInv
<1>7. CASE missed' = missed
  BY <1>1, <1>5, <1>6, <1>7, ListsKept
<1>8. CASE /\ call.full = Append(Top(k).full, sender[k])
           /\ missed' = [missed EXCEPT ![sender[k]] =
                           @ \cup (IF Head1(k).m.t = "frame" THEN {Head1(k).m.n} ELSE {})]
  <2>1. Contains(call.full, sender[k])
    BY <1>1, <1>3, <1>8, Remembered
  <2>2. Len(stack[k]) \in DOMAIN stack'[k] /\ stack'[k][Len(stack[k])] = call
    <3>1. /\ Len(stack[k]) \in Nat \ {0} /\ DOMAIN stack'[k] = 1 .. Len(stack[k])
          /\ stack'[k][Len(stack[k])] = call
      BY <1>1, <1>2, SetsTop DEF BaseInv
    <3> QED
      BY <3>1
  <2>3. \A x \in Conns : x # sender[k] => missed'[x] = missed[x]
    BY <1>8 DEF BaseInv, TypeInv
  <2>4. \A x \in handle : missed[x] # {} =>
           \E q \in Conns : \E i \in DOMAIN stack[q] : Contains(stack[q][i].full, x)
    BY DEF LossLeadsToClose
  <2>5. \A x \in handle : x # NoConn /\ x \in Conns
    BY <1>6 DEF BaseInv, TypeInv
  <2>6. \A x \in handle : x # sender[k] /\ missed'[x] # {} =>
           \E q \in Conns : \E i \in DOMAIN stack'[q] : Contains(stack'[q][i].full, x)
    BY <1>5, <2>3, <2>4, <2>5 DEF KeepsBut
  <2>7. \E q \in Conns : \E i \in DOMAIN stack'[q] : Contains(stack'[q][i].full, sender[k])
    BY <2>1, <2>2
  <2> QED
    BY <1>1, <2>6, <2>7 DEF LossLeadsToClose
<1> QED
  BY <1>2, <1>7, <1>8

LEMMA LossStep ==
    ASSUME BaseInv, LossLeadsToClose, [Next]_vars
    PROVE  LossLeadsToClose'
<1> USE DEF BaseInv
<1>1. NoConn \notin Conns /\ handle \subseteq Conns
  BY DeliveryAssumption DEF TypeInv
<1>2. CASE UNCHANGED vars
  BY <1>2 DEF vars, LossLeadsToClose
<1>3. ASSUME NEW c \in Conns,
             \/ Starts(c) \/ (c = Daemon /\ Publish)
             \/ LoopBreaks(c) \/ SelfClose(c) \/ LoopEnds(c)
             \/ GrabSender(c) \/ TrySend(c) \/ CloseConn(c) \/ CloseConnSend(c)
             \/ DeliveryReturns(c) \/ WriteTask(c)
      PROVE  LossLeadsToClose'
  <2>1. CASE Starts(c) \/ (c = Daemon /\ Publish)
    <3>1. missed' = missed /\ handle' \subseteq handle
      BY <2>1 DEF Starts, Subscribe, Oversized, AuthWithoutFid, Teardown, Publish, HandleClose
    <3>2. PICK actions \in Seq(ActionSet) : Deliver(c, actions)
      BY <2>1, StartDelivers, PublishDelivers
    <3>3. \A q \in Conns : KeepsBut(q, NoConn)
      BY <3>2, DeliverKeeps
    <3> QED
      BY <1>1, <3>1, <3>3, ListsKept
  <2>2. CASE LoopBreaks(c) \/ SelfClose(c) \/ LoopEnds(c) \/ WriteTask(c)
    <3>1. missed' = missed /\ handle' = handle /\ stack' = stack
      BY <2>2, WriterDoes DEF LoopBreaks, SelfClose, LoopEnds, taskVars
    <3> QED
      BY <1>1, <3>1, StillKeeps, ListsKept
  <2>3. CASE GrabSender(c)
    <3>1. /\ missed' = missed /\ handle' = handle
          /\ stack' = stack \/ SetTop(c, Rest(c))
          /\ stack[c] # << >> /\ Top(c).todo # << >>
      BY <2>3 DEF GrabSender, Busy
    <3>2. Rest(c) \in CallSet /\ Rest(c).full = Top(c).full
      BY <3>1, HeadTyped
    <3>3. \A q \in Conns : KeepsBut(q, NoConn)
      BY <3>1, <3>2, StillKeeps, SetTopKeeps
    <3> QED
      BY <1>1, <3>1, <3>3, ListsKept
  <2>4. CASE TrySend(c)
    BY <2>4, TrySendLoss
  <2>5. CASE CloseConn(c)
    <3>1. missed' = missed /\ stack[c] # << >>
      BY <2>5, CloseConnDoes
    <3>2. PICK x \in Conns, call \in CallSet :
             /\ HandleClose(x) /\ SetTop(c, call)
             /\ \/ call.full = Top(c).full
                \/ Top(c).full # << >> /\ call.full = Tail(Top(c).full) /\ x = Head(Top(c).full)
      BY <2>5, CloseConnDoes
    <3>3. handle' = handle \ {x}
      BY <3>2 DEF HandleClose
    <3>4. Top(c).full \in Seq(Conns)
      BY <3>1, TopTyped
    <3>5. \A y : y # x /\ Contains(Top(c).full, y) => Contains(call.full, y)
      BY <3>2, <3>4, Forgotten
    <3>6. \A q \in Conns : KeepsBut(q, x)
      BY <3>1, <3>2, <3>5, SetTopKeeps
    <3> QED
      BY <3>1, <3>3, <3>6, ListsKept
  <2>6. CASE CloseConnSend(c)
    <3>1. /\ missed' = missed /\ handle' = handle
          /\ window[c] \in WindowSet
          /\ stack' = stack \/ Deliver(c, window[c].presence)
      BY <2>6, CloseConnSendDoes
    <3>2. window[c].presence \in Seq(ActionSet)
      BY <3>1 DEF WindowSet
    <3>3. \A q \in Conns : KeepsBut(q, NoConn)
      BY <3>1, <3>2, StillKeeps, DeliverKeeps
    <3> QED
      BY <1>1, <3>1, <3>3, ListsKept
  <2>7. CASE DeliveryReturns(c)
    <3>1. /\ missed' = missed /\ handle' = handle
          /\ stack[c] # << >> /\ Top(c).full = << >>
          /\ stack' = [stack EXCEPT ![c] = Front(@)]
      BY <2>7 DEF DeliveryReturns, Busy
    <3>2. \A q \in Conns : KeepsBut(q, NoConn)
      BY <3>1, ReturnKeeps
    <3> QED
      BY <1>1, <3>1, <3>2, ListsKept
  <2> QED
    BY <1>3, <2>1, <2>2, <2>3, <2>4, <2>5, <2>6, <2>7
<1> QED
  BY <1>2, <1>3, StepKinds

\* A frame dropped on a full outbox is never forgotten: as long as the connection
\* is routed to, some task has it on the list of those deliver_actions closes.
THEOREM DroppedFramesClose == Spec => []LossLeadsToClose
<1>1. Init => LossLeadsToClose
  BY DEF Init, LossLeadsToClose
<1>2. BaseInv /\ LossLeadsToClose /\ [Next]_vars => LossLeadsToClose'
  BY LossStep
<1> QED
  BY <1>1, <1>2, DeliveryTyped, PTL DEF Spec

-----------------------------------------------------------------------------
(* The order of live frames.                                               *)

LEMMA AppendInOrder ==
    ASSUME NEW s \in Seq(MsgSet), NEW m \in MsgSet, NEW w \in Seq(MsgSet), NEW n \in Nat,
           Ordered(s), Before(w, s), AllBelow(s, n + 1),
           Live(m) => AllBelow(s, m.n) /\ AllBelow(w, m.n) /\ m.n <= n
    PROVE  Ordered(Append(s, m)) /\ Before(w, Append(s, m)) /\ AllBelow(Append(s, m), n + 1)
<1> DEFINE t == Append(s, m)
<1>1. /\ t \in Seq(MsgSet) /\ Len(s) \in Nat /\ Len(t) = Len(s) + 1
      /\ \A i \in 1 .. Len(s) : t[i] = s[i]
      /\ t[Len(s) + 1] = m
  BY PushTop
<1>2. DOMAIN t = 1 .. Len(s) + 1 /\ DOMAIN s = 1 .. Len(s)
  BY <1>1
<1>3. \A i \in DOMAIN t : (i \in DOMAIN s /\ t[i] = s[i]) \/ (i = Len(s) + 1 /\ t[i] = m)
  BY <1>1, <1>2
<1>4. m.n \in Nat
  BY DEF MsgSet
<1> HIDE DEF t
<1>5. Ordered(t)
  <2> SUFFICES ASSUME NEW i \in DOMAIN t, NEW j \in DOMAIN t, i < j, Live(t[i]), Live(t[j])
               PROVE  t[i].n < t[j].n
    BY DEF Ordered
  <2>1. CASE j \in DOMAIN s /\ t[j] = s[j]
    <3>1. i \in DOMAIN s /\ t[i] = s[i]
      BY <1>1, <1>2, <1>3, <2>1
    <3> QED
      BY <2>1, <3>1 DEF Ordered
  <2>2. CASE j = Len(s) + 1 /\ t[j] = m
    <3>1. i \in DOMAIN s /\ t[i] = s[i]
      BY <1>1, <1>2, <1>3, <2>2
    <3> QED
      BY <2>2, <3>1 DEF AllBelow
  <2> QED
    BY <1>3, <2>1, <2>2
<1>6. Before(w, t)
  BY <1>3 DEF Before, AllBelow
<1>7. AllBelow(t, n + 1)
  BY <1>3, <1>4 DEF AllBelow
<1> QED
  BY <1>5, <1>6, <1>7 DEF t

LEMMA TailInOrder ==
    ASSUME NEW s \in Seq(MsgSet), s # << >>, NEW w \in Seq(MsgSet), NEW n,
           Ordered(s), Ordered(w), Before(w, s), AllBelow(s, n), AllBelow(w, n)
    PROVE  /\ Ordered(Tail(s)) /\ AllBelow(Tail(s), n)
           /\ Ordered(Append(w, Head(s))) /\ AllBelow(Append(w, Head(s)), n)
           /\ Before(Append(w, Head(s)), Tail(s))
<1> DEFINE u == Tail(s)
           t == Append(w, Head(s))
<1>1. /\ u \in Seq(MsgSet) /\ Len(s) \in Nat \ {0} /\ Len(u) = Len(s) - 1
      /\ \A i \in 1 .. Len(s) - 1 : u[i] = s[i + 1]
      /\ Head(s) = s[1] /\ Head(s) \in MsgSet
  BY TailOf
<1>2. DOMAIN s = 1 .. Len(s) /\ DOMAIN u = 1 .. Len(s) - 1 /\ 1 \in DOMAIN s
  BY <1>1
<1>3. \A i \in DOMAIN u : i \in Nat /\ i + 1 \in DOMAIN s /\ 1 < i + 1 /\ u[i] = s[i + 1]
  BY <1>1, <1>2
<1>4. /\ Len(w) \in Nat /\ Len(t) = Len(w) + 1 /\ t \in Seq(MsgSet)
      /\ \A i \in 1 .. Len(w) : t[i] = w[i]
      /\ t[Len(w) + 1] = s[1]
  BY <1>1, PushTop
<1>5. DOMAIN t = 1 .. Len(w) + 1 /\ DOMAIN w = 1 .. Len(w)
  BY <1>4
<1>6. \A i \in DOMAIN t : (i \in DOMAIN w /\ t[i] = w[i]) \/ (i = Len(w) + 1 /\ t[i] = s[1])
  BY <1>4, <1>5
<1> HIDE DEF u, t
<1>7. Ordered(u)
  <2> SUFFICES ASSUME NEW i \in DOMAIN u, NEW j \in DOMAIN u, i < j, Live(u[i]), Live(u[j])
               PROVE  u[i].n < u[j].n
    BY DEF Ordered
  <2>1. i + 1 \in DOMAIN s /\ j + 1 \in DOMAIN s /\ i + 1 < j + 1 /\ u[i] = s[i + 1] /\ u[j] = s[j + 1]
    BY <1>3
  <2> QED
    BY <2>1 DEF Ordered
<1>8. AllBelow(u, n)
  BY <1>3 DEF AllBelow
<1>9. Ordered(t)
  <2> SUFFICES ASSUME NEW i \in DOMAIN t, NEW j \in DOMAIN t, i < j, Live(t[i]), Live(t[j])
               PROVE  t[i].n < t[j].n
    BY DEF Ordered
  <2>1. i \in DOMAIN w /\ t[i] = w[i]
    BY <1>4, <1>5, <1>6
  <2>2. CASE j \in DOMAIN w /\ t[j] = w[j]
    BY <2>1, <2>2 DEF Ordered
  <2>3. CASE t[j] = s[1]
    BY <1>2, <2>1, <2>3 DEF Before
  <2> QED
    BY <1>6, <2>2, <2>3
<1>10. AllBelow(t, n)
  BY <1>2, <1>6 DEF AllBelow
<1>11. Before(t, u)
  <2> SUFFICES ASSUME NEW i \in DOMAIN t, NEW j \in DOMAIN u, Live(t[i]), Live(u[j])
               PROVE  t[i].n < u[j].n
    BY DEF Before
  <2>1. j + 1 \in DOMAIN s /\ 1 < j + 1 /\ u[j] = s[j + 1]
    BY <1>3
  <2>2. CASE i \in DOMAIN w /\ t[i] = w[i]
    BY <2>1, <2>2 DEF Before
  <2>3. CASE t[i] = s[1]
    BY <1>2, <2>1, <2>3 DEF Ordered
  <2> QED
    BY <1>6, <2>2, <2>3
<1> QED
  BY <1>7, <1>8, <1>9, <1>10, <1>11 DEF u, t

\* A message that is not a live frame disturbs nothing.
LEMMA OtherInOrder ==
    ASSUME NEW w \in Seq(MsgSet), NEW m \in MsgSet, ~Live(m), NEW s, NEW n,
           Ordered(w), Before(w, s), AllBelow(w, n)
    PROVE  Ordered(Append(w, m)) /\ Before(Append(w, m), s) /\ AllBelow(Append(w, m), n)
<1> DEFINE t == Append(w, m)
<1>1. /\ t \in Seq(MsgSet) /\ Len(w) \in Nat /\ Len(t) = Len(w) + 1
      /\ \A i \in 1 .. Len(w) : t[i] = w[i]
      /\ t[Len(w) + 1] = m
  BY PushTop
<1>2. DOMAIN t = 1 .. Len(w) + 1 /\ DOMAIN w = 1 .. Len(w)
  BY <1>1
<1>3. \A i \in DOMAIN t : Live(t[i]) => i \in DOMAIN w /\ t[i] = w[i]
  BY <1>1, <1>2
<1> HIDE DEF t
<1>4. Ordered(t) /\ Before(t, s) /\ AllBelow(t, n)
  BY <1>3 DEF Ordered, Before, AllBelow
<1> QED
  BY <1>4 DEF t

\* How far the i-th call has moved on, when the call at position n drops d actions.
Moved(i, n, d) == IF i = n THEN d ELSE 0

\* Task k's live frames were all there before, at most one action dropped.
Shift(k, n, d) ==
    /\ Elsewhere(k)
    /\ \A i \in DOMAIN stack'[k] : \A j \in DOMAIN stack'[k][i].todo :
          Live(stack'[k][i].todo[j].m) =>
              /\ i \in DOMAIN stack[k] /\ j + Moved(i, n, d) \in DOMAIN stack[k][i].todo
              /\ stack'[k][i].todo[j] = stack[k][i].todo[j + Moved(i, n, d)]

\* Positions are numbers.
LEMMA Positions ==
    ASSUME TypeInv, NEW k \in Conns, NEW i \in DOMAIN stack[k]
    PROVE  /\ i \in Nat /\ i > 0 /\ stack[k][i] \in CallSet
           /\ stack[k][i].todo \in Seq(ActionSet)
           /\ \A j \in DOMAIN stack[k][i].todo :
                 j \in Nat /\ j > 0 /\ stack[k][i].todo[j] \in ActionSet
<1>1. stack[k] \in Seq(CallSet)
  BY DEF TypeInv
<1>2. i \in Nat /\ i > 0 /\ stack[k][i] \in CallSet
  BY <1>1
<1>3. stack[k][i].todo \in Seq(ActionSet)
  BY <1>2 DEF CallSet
<1>4. \A j \in DOMAIN stack[k][i].todo : j \in Nat /\ j > 0 /\ stack[k][i].todo[j] \in ActionSet
  BY <1>3
<1> QED
  BY <1>2, <1>3, <1>4

LEMMA StillShift ==
    ASSUME TypeInv, stack' = stack, NEW k \in Conns
    PROVE  Shift(k, 0, 0)
<1>1. \A i \in DOMAIN stack[k] : \A j \in DOMAIN stack[k][i].todo : j + Moved(i, 0, 0) = j
  BY Positions DEF Moved
<1> QED
  BY <1>1 DEF Shift, Elsewhere

LEMMA DeliverShift ==
    ASSUME TypeInv, NEW k \in Conns, NEW actions \in Seq(ActionSet), Deliver(k, actions), Quiet(actions)
    PROVE  Shift(k, 0, 0)
<1>1. /\ Elsewhere(k) /\ Len(stack[k]) \in Nat
      /\ DOMAIN stack[k] = 1 .. Len(stack[k])
      /\ DOMAIN stack'[k] = 1 .. Len(stack[k]) + 1
      /\ \A i \in 1 .. Len(stack[k]) : stack'[k][i] = stack[k][i]
      /\ stack'[k][Len(stack[k]) + 1].todo = actions
  BY Delivers
<1>2. \A i \in 1 .. Len(stack[k]) + 1 : i = Len(stack[k]) + 1 \/ i \in 1 .. Len(stack[k])
  BY <1>1
<1>3. \A i \in DOMAIN stack[k] : \A j \in DOMAIN stack[k][i].todo : j + Moved(i, 0, 0) = j
  BY Positions DEF Moved
<1>4. ASSUME NEW i \in DOMAIN stack'[k], NEW j \in DOMAIN stack'[k][i].todo,
             Live(stack'[k][i].todo[j].m)
      PROVE  /\ i \in DOMAIN stack[k] /\ j + Moved(i, 0, 0) \in DOMAIN stack[k][i].todo
             /\ stack'[k][i].todo[j] = stack[k][i].todo[j + Moved(i, 0, 0)]
  <2>1. i # Len(stack[k]) + 1
    BY <1>1, <1>4 DEF Quiet
  <2>2. i \in DOMAIN stack[k] /\ stack'[k][i] = stack[k][i]
    BY <1>1, <1>2, <2>1
  <2> QED
    BY <1>3, <1>4, <2>2
<1> QED
  BY <1>1, <1>4 DEF Shift

LEMMA ReturnShift ==
    ASSUME TypeInv, NEW k \in Conns, stack[k] # << >>, stack' = [stack EXCEPT ![k] = Front(@)]
    PROVE  Shift(k, 0, 0)
<1>1. /\ Elsewhere(k) /\ Len(stack[k]) \in Nat \ {0}
      /\ DOMAIN stack[k] = 1 .. Len(stack[k])
      /\ DOMAIN stack'[k] = 1 .. Len(stack[k]) - 1
      /\ \A i \in 1 .. Len(stack[k]) - 1 : stack'[k][i] = stack[k][i]
  BY Returns
<1>2. \A i \in 1 .. Len(stack[k]) - 1 : i \in 1 .. Len(stack[k])
  BY <1>1
<1>3. \A i \in DOMAIN stack[k] : \A j \in DOMAIN stack[k][i].todo : j + Moved(i, 0, 0) = j
  BY Positions DEF Moved
<1> QED
  BY <1>1, <1>2, <1>3 DEF Shift

\* The top call drops its first action (d = 1) or only shortens its list (d = 0).
LEMMA SetTopShift ==
    ASSUME TypeInv, NEW k \in Conns, NEW call \in CallSet, stack[k] # << >>, SetTop(k, call),
           NEW d \in {0, 1},
           d = 1 => Top(k).todo # << >> /\ call.todo = Tail(Top(k).todo),
           d = 0 => call.todo = Top(k).todo
    PROVE  Shift(k, Len(stack[k]), d)
<1>1. /\ Elsewhere(k) /\ Len(stack[k]) \in Nat \ {0}
      /\ DOMAIN stack[k] = 1 .. Len(stack[k])
      /\ DOMAIN stack'[k] = 1 .. Len(stack[k])
      /\ \A i \in 1 .. Len(stack[k]) - 1 : stack'[k][i] = stack[k][i]
      /\ stack'[k][Len(stack[k])] = call
  BY SetsTop
<1>2. Top(k) = stack[k][Len(stack[k])] /\ Top(k).todo \in Seq(ActionSet)
  BY TopTyped
<1>3. \A j \in DOMAIN call.todo :
         j + d \in DOMAIN Top(k).todo /\ call.todo[j] = Top(k).todo[j + d]
  <2>1. CASE d = 0
    <3>1. \A j \in DOMAIN Top(k).todo : j + 0 = j
      BY <1>2
    <3> QED
      BY <2>1, <3>1
  <2>2. CASE d = 1
    <3>1. /\ Len(Top(k).todo) \in Nat \ {0} /\ Len(call.todo) = Len(Top(k).todo) - 1
          /\ call.todo \in Seq(ActionSet)
          /\ \A j \in 1 .. Len(Top(k).todo) - 1 : call.todo[j] = Top(k).todo[j + 1]
      BY <1>2, <2>2, TailOf
    <3>2. DOMAIN call.todo = 1 .. Len(Top(k).todo) - 1 /\ DOMAIN Top(k).todo = 1 .. Len(Top(k).todo)
      BY <1>2, <3>1
    <3>3. \A j \in 1 .. Len(Top(k).todo) - 1 : j + 1 \in 1 .. Len(Top(k).todo)
      BY <3>1
    <3> QED
      BY <2>2, <3>1, <3>2, <3>3
  <2> QED
    BY <2>1, <2>2
<1>4. ASSUME NEW i \in DOMAIN stack'[k], NEW j \in DOMAIN stack'[k][i].todo
      PROVE  /\ i \in DOMAIN stack[k]
             /\ j + Moved(i, Len(stack[k]), d) \in DOMAIN stack[k][i].todo
             /\ stack'[k][i].todo[j] = stack[k][i].todo[j + Moved(i, Len(stack[k]), d)]
  <2>1. CASE i = Len(stack[k])
    BY <1>1, <1>2, <1>3, <1>4, <2>1 DEF Moved
  <2>2. CASE i # Len(stack[k])
    <3>1. stack'[k][i] = stack[k][i] /\ i \in DOMAIN stack[k]
      BY <1>1, <2>2
    <3>2. j \in Nat
      BY <1>4, <3>1, Positions
    <3>3. j + Moved(i, Len(stack[k]), d) = j
      BY <2>2, <3>2 DEF Moved
    <3> QED
      BY <1>4, <3>1, <3>3
  <2> QED
    BY <2>1, <2>2
<1> QED
  BY <1>1, <1>4 DEF Shift

\* A copy still waiting was waiting before.
LEMMA ShiftWaits ==
    ASSUME TypeInv, TypeInv', NEW k \in Conns, NEW n \in Nat, NEW d \in {0, 1}, Shift(k, n, d),
           NEW i \in Nat, NEW j \in Nat, Waiting(i, j)'
    PROVE  /\ j > 0
           /\ k = Daemon => /\ Waiting(i, j + Moved(i, n, d))
                            /\ stack'[Daemon][i].todo[j] = stack[Daemon][i].todo[j + Moved(i, n, d)]
           /\ k # Daemon => /\ Waiting(i, j)
                            /\ stack'[Daemon][i].todo[j] = stack[Daemon][i].todo[j]
<1>1. /\ i \in DOMAIN stack'[Daemon] /\ j \in DOMAIN stack'[Daemon][i].todo
      /\ Live(stack'[Daemon][i].todo[j].m)
  BY DEF Waiting, Live
<1>2. Daemon \in Conns
  BY DEF Conns
<1>3. j > 0
  <2>1. stack'[Daemon] \in Seq(CallSet)
    BY <1>2 DEF TypeInv
  <2>2. stack'[Daemon][i] \in CallSet
    BY <1>1, <2>1
  <2>3. stack'[Daemon][i].todo \in Seq(ActionSet)
    BY <2>2 DEF CallSet
  <2> QED
    BY <1>1, <2>3
<1>4. CASE k = Daemon
  BY <1>1, <1>2, <1>3, <1>4 DEF Shift, Waiting
<1>5. CASE k # Daemon
  BY <1>1, <1>2, <1>3, <1>5 DEF Shift, Elsewhere, Waiting
<1> QED
  BY <1>4, <1>5

LEMMA ShiftLive ==
    ASSUME TypeInv, TypeInv', LiveInv, NEW k \in Conns, NEW n \in Nat, NEW d \in {0, 1}, Shift(k, n, d),
           published' = published
    PROVE  LiveInv'
<1> SUFFICES ASSUME NEW q \in Conns, NEW i \in DOMAIN stack'[q], NEW j \in DOMAIN stack'[q][i].todo,
                    Live(stack'[q][i].todo[j].m)
             PROVE  q = Daemon /\ stack'[q][i].todo[j].m.n = published
  BY DEF LiveInv, Live
<1>1. CASE q = k
  <2>1. /\ i \in DOMAIN stack[k] /\ j + Moved(i, n, d) \in DOMAIN stack[k][i].todo
        /\ stack'[k][i].todo[j] = stack[k][i].todo[j + Moved(i, n, d)]
    BY <1>1 DEF Shift
  <2> QED
    BY <1>1, <2>1 DEF LiveInv
<1>2. CASE q # k
  BY <1>2 DEF Shift, Elsewhere, LiveInv
<1> QED
  BY <1>1, <1>2

LEMMA ShiftOnce ==
    ASSUME TypeInv, TypeInv', OnceInv, NEW k \in Conns, NEW n \in Nat, NEW d \in {0, 1}, Shift(k, n, d)
    PROVE  OnceInv'
<1> SUFFICES ASSUME NEW i1 \in Nat, NEW i2 \in Nat, NEW j1 \in Nat, NEW j2 \in Nat,
                    Waiting(i1, j1)', Waiting(i2, j2)',
                    stack'[Daemon][i1].todo[j1].to = stack'[Daemon][i2].todo[j2].to
             PROVE  i1 = i2 /\ j1 = j2
  BY DEF OnceInv
<1>1. Moved(i1, n, d) \in Nat /\ Moved(i2, n, d) \in Nat
  BY DEF Moved
<1>2. CASE k = Daemon
  <2>1. /\ Waiting(i1, j1 + Moved(i1, n, d))
        /\ stack'[Daemon][i1].todo[j1] = stack[Daemon][i1].todo[j1 + Moved(i1, n, d)]
    BY <1>2, ShiftWaits
  <2>2. /\ Waiting(i2, j2 + Moved(i2, n, d))
        /\ stack'[Daemon][i2].todo[j2] = stack[Daemon][i2].todo[j2 + Moved(i2, n, d)]
    BY <1>2, ShiftWaits
  <2>3. j1 + Moved(i1, n, d) \in Nat /\ j2 + Moved(i2, n, d) \in Nat
    BY <1>1
  <2>4. i1 = i2 /\ j1 + Moved(i1, n, d) = j2 + Moved(i2, n, d)
    BY <2>1, <2>2, <2>3 DEF OnceInv
  <2> QED
    BY <1>1, <2>4
<1>3. CASE k # Daemon
  <2>1. /\ Waiting(i1, j1) /\ stack'[Daemon][i1].todo[j1] = stack[Daemon][i1].todo[j1]
        /\ Waiting(i2, j2) /\ stack'[Daemon][i2].todo[j2] = stack[Daemon][i2].todo[j2]
    BY <1>3, ShiftWaits
  <2> QED
    BY <2>1 DEF OnceInv
<1> QED
  BY <1>2, <1>3

\* A connection that gets nothing, while no new copies wait.
LEMMA ShiftPipe ==
    ASSUME TypeInv, TypeInv', NEW k \in Conns, NEW n \in Nat, NEW d \in {0, 1}, Shift(k, n, d),
           NEW x \in Conns, PipeOf(x), published' = published,
           wire'[x] = wire[x], outbox'[x] = outbox[x]
    PROVE  PipeOf(x)'
<1>1. ASSUME NEW i \in Nat, NEW j \in Nat, Waiting(i, j)', stack'[Daemon][i].todo[j].to = x
      PROVE  AllBelow(wire[x], published) /\ AllBelow(outbox[x], published)
  <2>1. j + Moved(i, n, d) \in Nat
    BY DEF Moved
  <2>2. \E l \in Nat : Waiting(i, l) /\ stack[Daemon][i].todo[l].to = x
    <3>1. CASE k = Daemon
      <4>1. /\ Waiting(i, j + Moved(i, n, d))
            /\ stack'[Daemon][i].todo[j] = stack[Daemon][i].todo[j + Moved(i, n, d)]
        BY <1>1, <3>1, ShiftWaits
      <4>2. stack[Daemon][i].todo[j + Moved(i, n, d)].to = x
        BY <1>1, <4>1
      <4> QED
        BY <2>1, <4>1, <4>2
    <3>2. CASE k # Daemon
      <4>1. Waiting(i, j) /\ stack'[Daemon][i].todo[j] = stack[Daemon][i].todo[j]
        BY <1>1, <3>2, ShiftWaits
      <4>2. stack[Daemon][i].todo[j].to = x
        BY <1>1, <4>1
      <4> QED
        BY <4>1, <4>2
    <3> QED
      BY <3>1, <3>2
  <2> QED
    BY <2>2 DEF PipeOf
<1>2. /\ Ordered(wire'[x]) /\ Ordered(outbox'[x]) /\ Before(wire'[x], outbox'[x])
      /\ AllBelow(wire'[x], published' + 1) /\ AllBelow(outbox'[x], published' + 1)
  BY DEF PipeOf
<1>3. \A i, j \in Nat : Waiting(i, j)' /\ stack'[Daemon][i].todo[j].to = x =>
         AllBelow(wire'[x], published') /\ AllBelow(outbox'[x], published')
  BY <1>1
<1> QED
  BY <1>2, <1>3 DEF PipeOf, Ordered, Before, AllBelow, Live

\* Steps that move no live frame but drop some, and give nobody anything.
LEMMA ShiftOrder ==
    ASSUME BaseInv, BaseInv', OrderInv, NEW k \in Conns, NEW n \in Nat, NEW d \in {0, 1}, Shift(k, n, d),
           published' = published, wire' = wire, outbox' = outbox, PresenceInv'
    PROVE  OrderInv'
<1>1. LiveInv' /\ OnceInv'
  BY ShiftLive, ShiftOnce DEF BaseInv, OrderInv
<1>2. \A x \in Conns : PipeOf(x)'
  BY ShiftPipe DEF BaseInv, OrderInv, PipeInv
<1> QED
  BY <1>1, <1>2 DEF OrderInv, PipeInv

LEMMA PresenceSame ==
    ASSUME PresenceInv, window' = window
    PROVE  PresenceInv'
BY DEF PresenceInv, Live

\* The frame a task sends is after all its connection was given, and is no longer waiting.
LEMMA TrySendOrder ==
    ASSUME BaseInv, BaseInv', OrderInv, NEW k \in Conns, TrySend(k)
    PROVE  OrderInv'
<1>1. /\ Head1(k).to = sender[k] /\ stack[k] # << >> /\ Top(k).todo # << >>
      /\ sender[k] \in Conns
      /\ Head1(k).m \in MsgSet /\ Head1(k) = Top(k).todo[1]
      /\ published' = published /\ wire' = wire /\ window' = window
  BY TrySendDoes
<1>2. PICK call \in CallSet :
         /\ SetTop(k, call) /\ call.todo = Tail(Top(k).todo)
         /\ \/ outbox' = outbox
            \/ outbox' = [outbox EXCEPT ![sender[k]] = Append(@, Head1(k).m)]
  BY TrySendDoes
<1>3. Shift(k, Len(stack[k]), 1) /\ Len(stack[k]) \in Nat
  <2>1. Len(stack[k]) \in Nat
    BY DEF BaseInv, TypeInv
  <2>2. Shift(k, Len(stack[k]), 1)
    BY <1>1, <1>2, SetTopShift DEF BaseInv
  <2> QED
    BY <2>1, <2>2
<1>4. PICK n \in Nat : n = Len(stack[k])
  BY <1>3
<1>5. Shift(k, n, 1)
  BY <1>3, <1>4
<1>6. PresenceInv'
  BY <1>1, PresenceSame DEF OrderInv
<1>7. CASE outbox' = outbox
  BY <1>1, <1>5, <1>6, <1>7, ShiftOrder
<1>8. CASE outbox' = [outbox EXCEPT ![sender[k]] = Append(@, Head1(k).m)]
  <2>1. LiveInv' /\ OnceInv'
    BY <1>1, <1>5, ShiftLive, ShiftOnce DEF BaseInv, OrderInv
  <2>2. PICK x \in Conns, m \in MsgSet : x = sender[k] /\ m = Head1(k).m
    BY <1>1
  <2>3. /\ outbox'[x] = Append(outbox[x], m)
        /\ \A y \in Conns : y # x => outbox'[y] = outbox[y]
    BY <1>8, <2>2 DEF BaseInv, TypeInv
  <2>4. \A y \in Conns : y # x => PipeOf(y)'
    BY <1>1, <1>5, <2>3, ShiftPipe DEF BaseInv, OrderInv, PipeInv
  <2>5. /\ outbox[x] \in Seq(MsgSet) /\ wire[x] \in Seq(MsgSet) /\ published \in Nat /\ m.n \in Nat
    BY DEF BaseInv, TypeInv, MsgSet
  <2>6. PipeOf(x)
    BY DEF OrderInv, PipeInv
  <2>7. /\ n \in DOMAIN stack[k] /\ Top(k) = stack[k][n] /\ 1 \in DOMAIN Top(k).todo
        /\ stack[k][n].todo[1].m = m /\ stack[k][n].todo[1].to = x
    <3>1. /\ n \in DOMAIN stack[k] /\ Top(k) = stack[k][n] /\ Top(k).todo \in Seq(ActionSet)
      BY <1>1, <1>4, TopTyped DEF BaseInv
    <3>2. 1 \in DOMAIN Top(k).todo
      BY <1>1, <3>1
    <3> QED
      BY <1>1, <2>2, <3>1, <3>2
  <2>8. ASSUME Live(m)
        PROVE  /\ k = Daemon /\ m.n = published /\ Waiting(n, 1)
               /\ AllBelow(wire[x], published) /\ AllBelow(outbox[x], published)
    <3>1. k = Daemon /\ m.n = published
      BY <2>7, <2>8 DEF OrderInv, LiveInv
    <3>2. Waiting(n, 1) /\ stack[Daemon][n].todo[1].to = x
      BY <2>7, <2>8, <3>1 DEF Waiting
    <3> QED
      BY <2>6, <3>1, <3>2 DEF PipeOf
  <2>9. /\ Ordered(outbox[x]) /\ Before(wire[x], outbox[x]) /\ AllBelow(outbox[x], published + 1)
        /\ Ordered(wire[x]) /\ AllBelow(wire[x], published + 1)
    BY <2>6 DEF PipeOf
  <2>10. /\ Ordered(Append(outbox[x], m)) /\ Before(wire[x], Append(outbox[x], m))
         /\ AllBelow(Append(outbox[x], m), published + 1)
    <3>1. Live(m) => AllBelow(outbox[x], m.n) /\ AllBelow(wire[x], m.n) /\ m.n <= published
      BY <2>5, <2>8
    <3> QED
      BY <2>5, <2>9, <3>1, AppendInOrder
  <2>11. ASSUME NEW i \in Nat, NEW j \in Nat, Waiting(i, j)', stack'[Daemon][i].todo[j].to = x
         PROVE  AllBelow(wire[x], published) /\ AllBelow(Append(outbox[x], m), published)
    <3>1. /\ j > 0
          /\ k = Daemon => /\ Waiting(i, j + Moved(i, n, 1))
                           /\ stack[Daemon][i].todo[j + Moved(i, n, 1)].to = x
          /\ k # Daemon => Waiting(i, j) /\ stack[Daemon][i].todo[j].to = x
      BY <1>5, <2>11, ShiftWaits DEF BaseInv
    <3>2. j + Moved(i, n, 1) \in Nat
      BY DEF Moved
    <3>3. ~Live(m)
      <4> SUFFICES ASSUME Live(m) PROVE FALSE
        OBVIOUS
      <4>1. Waiting(i, j + Moved(i, n, 1)) /\ stack[Daemon][i].todo[j + Moved(i, n, 1)].to = x
        BY <2>8, <3>1
      <4>2. Waiting(n, 1) /\ stack[Daemon][n].todo[1].to = x
        BY <2>7, <2>8
      <4>3. i = n /\ j + Moved(i, n, 1) = 1
        BY <3>2, <4>1, <4>2 DEF OrderInv, OnceInv
      <4> QED
        BY <3>1, <4>3 DEF Moved
    <3>4. AllBelow(wire[x], published) /\ AllBelow(outbox[x], published)
      BY <2>6, <3>1, <3>2 DEF PipeOf
    <3>5. Before(outbox[x], << >>)
      BY DEF Before
    <3>6. AllBelow(Append(outbox[x], m), published)
      BY <2>5, <2>9, <3>3, <3>4, <3>5, OtherInOrder
    <3> QED
      BY <3>4, <3>6
  <2>12. PipeOf(x)'
    <3>1. /\ Ordered(wire'[x]) /\ Ordered(outbox'[x]) /\ Before(wire'[x], outbox'[x])
          /\ AllBelow(wire'[x], published' + 1) /\ AllBelow(outbox'[x], published' + 1)
      BY <1>1, <2>3, <2>9, <2>10
    <3>2. \A i, j \in Nat : Waiting(i, j)' /\ stack'[Daemon][i].todo[j].to = x =>
             AllBelow(wire'[x], published') /\ AllBelow(outbox'[x], published')
      BY <1>1, <2>3, <2>11
    <3> QED
      BY <3>1, <3>2 DEF PipeOf, Ordered, Before, AllBelow, Live
  <2> QED
    BY <1>6, <2>1, <2>4, <2>12 DEF OrderInv, PipeInv
<1> QED
  BY <1>2, <1>7, <1>8

\* A new frame: the daemon's task was idle, so no copy of an earlier one waits.
LEMMA PublishOrder ==
    ASSUME BaseInv, BaseInv', OrderInv, Publish
    PROVE  OrderInv'
<1>1. Daemon \in Conns
  BY DEF Conns
<1>2. stack[Daemon] = << >>
  BY <1>1, StartsIdle
<1>3. /\ published' = published + 1 /\ published \in Nat
      /\ window' = window /\ wire' = wire /\ outbox' = outbox
  BY DEF Publish, writeVars, BaseInv, TypeInv
<1>4. PICK actions \in Seq(ActionSet) :
         /\ Deliver(Daemon, actions)
         /\ \A i \in DOMAIN actions : actions[i].m.n = published + 1
         /\ \A i, j \in DOMAIN actions : actions[i].to = actions[j].to => i = j
  BY PublishDelivers DEF BaseInv
<1>5. /\ Elsewhere(Daemon) /\ DOMAIN stack'[Daemon] = {1} /\ stack'[Daemon][1].todo = actions
  <2>1. /\ Elsewhere(Daemon)
        /\ DOMAIN stack'[Daemon] = 1 .. Len(stack[Daemon]) + 1
        /\ stack'[Daemon][Len(stack[Daemon]) + 1].todo = actions
    BY <1>1, <1>4, Delivers DEF BaseInv
  <2>2. Len(stack[Daemon]) = 0
    BY <1>2
  <2> QED
    BY <2>1, <2>2
<1>6. LiveInv'
  <2> SUFFICES ASSUME NEW q \in Conns, NEW i \in DOMAIN stack'[q],
                      NEW j \in DOMAIN stack'[q][i].todo, Live(stack'[q][i].todo[j].m)
               PROVE  q = Daemon /\ stack'[q][i].todo[j].m.n = published'
    BY DEF LiveInv, Live
  <2>1. CASE q = Daemon
    BY <1>3, <1>4, <1>5, <2>1
  <2>2. CASE q # Daemon
    BY <1>5, <2>2 DEF Elsewhere, OrderInv, LiveInv
  <2> QED
    BY <2>1, <2>2
<1>7. OnceInv'
  <2> SUFFICES ASSUME NEW i1 \in Nat, NEW i2 \in Nat, NEW j1 \in Nat, NEW j2 \in Nat,
                      Waiting(i1, j1)', Waiting(i2, j2)',
                      stack'[Daemon][i1].todo[j1].to = stack'[Daemon][i2].todo[j2].to
               PROVE  i1 = i2 /\ j1 = j2
    BY DEF OnceInv
  <2>1. /\ i1 \in DOMAIN stack'[Daemon] /\ j1 \in DOMAIN stack'[Daemon][i1].todo
        /\ i2 \in DOMAIN stack'[Daemon] /\ j2 \in DOMAIN stack'[Daemon][i2].todo
    BY DEF Waiting
  <2>2. i1 = 1 /\ i2 = 1
    BY <1>5, <2>1
  <2>3. j1 \in DOMAIN actions /\ j2 \in DOMAIN actions /\ actions[j1].to = actions[j2].to
    BY <1>5, <2>1, <2>2
  <2> QED
    BY <1>4, <2>2, <2>3
<1>8. PresenceInv'
  BY <1>3, PresenceSame DEF OrderInv
<1>9. ASSUME NEW x \in Conns
      PROVE  PipeOf(x)'
  <2>1. /\ Ordered(wire[x]) /\ Ordered(outbox[x]) /\ Before(wire[x], outbox[x])
        /\ AllBelow(wire[x], published') /\ AllBelow(outbox[x], published')
    BY <1>3 DEF OrderInv, PipeInv, PipeOf
  <2>2. wire[x] \in Seq(MsgSet) /\ outbox[x] \in Seq(MsgSet)
    BY DEF BaseInv, TypeInv
  <2>3. /\ \A i \in DOMAIN wire[x] : wire[x][i].n \in Nat
        /\ \A i \in DOMAIN outbox[x] : outbox[x][i].n \in Nat
    <3>1. \A m \in MsgSet : m.n \in Nat
      BY DEF MsgSet
    <3>2. /\ \A i \in DOMAIN wire[x] : wire[x][i] \in MsgSet
          /\ \A i \in DOMAIN outbox[x] : outbox[x][i] \in MsgSet
      BY <2>2
    <3> QED
      BY <3>1, <3>2
  <2>4. AllBelow(wire[x], published' + 1) /\ AllBelow(outbox[x], published' + 1)
    BY <1>3, <2>1, <2>3 DEF AllBelow
  <2> QED
    BY <1>3, <2>1, <2>4 DEF PipeOf, Ordered, Before, AllBelow, Live
<1> QED
  BY <1>6, <1>7, <1>8, <1>9 DEF OrderInv, PipeInv

\* The write task moves the first message from the outbox to the wire.
LEMMA WriterOrder ==
    ASSUME BaseInv, BaseInv', OrderInv, NEW c \in Conns, WriteTask(c)
    PROVE  OrderInv'
<1>1. published' = published /\ stack' = stack /\ window' = window
  BY WriterDoes DEF BaseInv, taskVars
<1>2. Shift(c, 0, 0)
  BY <1>1, StillShift DEF BaseInv
<1>3. LiveInv' /\ OnceInv' /\ PresenceInv'
  BY <1>1, <1>2, ShiftLive, ShiftOnce, PresenceSame DEF BaseInv, OrderInv
<1>4. /\ outbox \in [Conns -> Seq(MsgSet)] /\ wire \in [Conns -> Seq(MsgSet)]
      /\ closeq \in [Conns -> Seq(Nat)]
  BY DEF BaseInv, TypeInv
<1>11. \/ UNCHANGED <<outbox, closeq, wire>>
       \/ /\ outbox[c] # << >>
          /\ wire' = [wire EXCEPT ![c] = Append(@, Head(outbox[c]))]
          /\ outbox' = [outbox EXCEPT ![c] = Tail(@)]
       \/ /\ outbox' = [outbox EXCEPT ![c] = << >>]
          /\ \/ wire' = wire
             \/ /\ closeq[c] # << >>
                /\ wire' = [wire EXCEPT ![c] = Append(@, CloseFrame(Head(closeq[c])))]
  BY WriterDoes DEF BaseInv
<1>5. \A y \in Conns : y # c => wire'[y] = wire[y] /\ outbox'[y] = outbox[y]
  BY <1>4, <1>11
<1>6. \A y \in Conns : y # c => PipeOf(y)'
  BY <1>1, <1>2, <1>5, ShiftPipe DEF BaseInv, OrderInv, PipeInv
<1>7. \/ wire'[c] = wire[c] /\ outbox'[c] \in {outbox[c], << >>}
      \/ /\ closeq[c] # << >> /\ outbox'[c] = << >>
         /\ wire'[c] = Append(wire[c], CloseFrame(Head(closeq[c])))
      \/ /\ outbox[c] # << >> /\ wire'[c] = Append(wire[c], Head(outbox[c]))
         /\ outbox'[c] = Tail(outbox[c])
  BY <1>4, <1>11
<1>8. /\ Ordered(wire[c]) /\ Ordered(outbox[c]) /\ Before(wire[c], outbox[c])
      /\ AllBelow(wire[c], published + 1) /\ AllBelow(outbox[c], published + 1)
      /\ \A i, j \in Nat : Waiting(i, j) /\ stack[Daemon][i].todo[j].to = c =>
            AllBelow(wire[c], published) /\ AllBelow(outbox[c], published)
  BY DEF OrderInv, PipeInv, PipeOf
<1>9. \A n : AllBelow(wire[c], n) /\ AllBelow(outbox[c], n) =>
         /\ Ordered(wire'[c]) /\ Ordered(outbox'[c]) /\ Before(wire'[c], outbox'[c])
         /\ AllBelow(wire'[c], n) /\ AllBelow(outbox'[c], n)
  <2> SUFFICES ASSUME NEW n, AllBelow(wire[c], n), AllBelow(outbox[c], n)
               PROVE  /\ Ordered(wire'[c]) /\ Ordered(outbox'[c]) /\ Before(wire'[c], outbox'[c])
                      /\ AllBelow(wire'[c], n) /\ AllBelow(outbox'[c], n)
    OBVIOUS
  <2>4. Ordered(<< >>) /\ Before(wire'[c], << >>) /\ AllBelow(<< >>, n)
    BY DEF Ordered, Before, AllBelow
  <2>1. CASE wire'[c] = wire[c] /\ outbox'[c] \in {outbox[c], << >>}
    BY <1>8, <2>1, <2>4
  <2>2. CASE /\ closeq[c] # << >> /\ outbox'[c] = << >>
             /\ wire'[c] = Append(wire[c], CloseFrame(Head(closeq[c])))
    <3>1. CloseFrame(Head(closeq[c])) \in MsgSet
      BY <1>4, <2>2, TailOf, MessagesTyped
    <3>2. ~Live(CloseFrame(Head(closeq[c])))
      BY DEF CloseFrame, Live
    <3> QED
      BY <1>4, <1>8, <2>2, <2>4, <3>1, <3>2, OtherInOrder
  <2>3. CASE /\ outbox[c] # << >> /\ wire'[c] = Append(wire[c], Head(outbox[c]))
             /\ outbox'[c] = Tail(outbox[c])
    BY <1>4, <1>8, <2>3, TailInOrder
  <2> QED
    BY <1>7, <2>1, <2>2, <2>3
<1>10. PipeOf(c)'
  <2>1. /\ Ordered(wire'[c]) /\ Ordered(outbox'[c]) /\ Before(wire'[c], outbox'[c])
        /\ AllBelow(wire'[c], published' + 1) /\ AllBelow(outbox'[c], published' + 1)
    BY <1>1, <1>8, <1>9
  <2>2. \A i, j \in Nat : Waiting(i, j)' /\ stack'[Daemon][i].todo[j].to = c =>
           AllBelow(wire'[c], published') /\ AllBelow(outbox'[c], published')
    <3>1. \A i, j \in Nat : Waiting(i, j)' <=> Waiting(i, j)
      BY <1>1 DEF Waiting, Live
    <3> QED
      BY <1>1, <1>8, <1>9, <3>1
  <2> QED
    BY <2>1, <2>2 DEF PipeOf, Ordered, Before, AllBelow, Live
<1> QED
  BY <1>3, <1>6, <1>10 DEF OrderInv, PipeInv

LEMMA OrderInit == Init => OrderInv
<1> SUFFICES ASSUME Init PROVE OrderInv
  OBVIOUS
<1>1. Daemon \in Conns
  BY DEF Conns
<1>2. /\ \A k \in Conns : DOMAIN stack[k] = {} /\ DOMAIN window[k].presence = {}
      /\ \A k \in Conns : DOMAIN wire[k] = {} /\ DOMAIN outbox[k] = {}
  <2>1. DOMAIN << >> = {} /\ NoWindow.presence = << >>
    BY DEF NoWindow
  <2> QED
    BY <2>1 DEF Init
<1>3. \A i, j \in Nat : ~Waiting(i, j)
  BY <1>1, <1>2 DEF Waiting
<1> QED
  BY <1>2, <1>3 DEF OrderInv, LiveInv, PresenceInv, OnceInv, PipeInv, PipeOf, Ordered, Before, AllBelow

\* Every other step.
LEMMA OtherOrder ==
    ASSUME BaseInv, BaseInv', OrderInv, NEW c \in Conns,
           \/ Starts(c) \/ LoopBreaks(c) \/ SelfClose(c) \/ LoopEnds(c)
           \/ GrabSender(c) \/ CloseConn(c) \/ CloseConnSend(c) \/ DeliveryReturns(c)
    PROVE  OrderInv'
<1> USE DEF BaseInv
<1>1. CASE Starts(c)
  <2>1. published' = published /\ wire' = wire /\ outbox' = outbox /\ window' = window
    BY <1>1 DEF Starts, Subscribe, Oversized, AuthWithoutFid, Teardown, writeVars
  <2>2. PICK actions \in Seq(ActionSet) : Deliver(c, actions) /\ Quiet(actions)
    BY <1>1, StartDelivers
  <2>3. Shift(c, 0, 0)
    BY <2>2, DeliverShift
  <2>4. PresenceInv'
    BY <2>1, PresenceSame DEF OrderInv
  <2> QED
    BY <2>1, <2>3, <2>4, ShiftOrder
<1>2. CASE LoopBreaks(c) \/ SelfClose(c) \/ LoopEnds(c)
  <2>1. /\ published' = published /\ wire' = wire /\ outbox' = outbox /\ window' = window
        /\ stack' = stack
    BY <1>2 DEF LoopBreaks, SelfClose, LoopEnds, taskVars, writeVars
  <2>2. Shift(c, 0, 0) /\ PresenceInv'
    BY <2>1, StillShift, PresenceSame DEF OrderInv
  <2> QED
    BY <2>1, <2>2, ShiftOrder
<1>3. CASE GrabSender(c)
  <2>1. /\ published' = published /\ wire' = wire /\ outbox' = outbox /\ window' = window
        /\ stack' = stack \/ SetTop(c, Rest(c))
        /\ stack[c] # << >> /\ Top(c).todo # << >>
    BY <1>3 DEF GrabSender, Busy, writeVars
  <2>2. Rest(c) \in CallSet /\ Rest(c).todo = Tail(Top(c).todo)
    BY <2>1, HeadTyped
  <2>3. PICK n \in Nat : n = Len(stack[c])
    BY DEF TypeInv
  <2>4. stack' = stack => Shift(c, 0, 0)
    BY StillShift
  <2>5. SetTop(c, Rest(c)) => Shift(c, n, 1)
    BY <2>1, <2>2, <2>3, SetTopShift
  <2>6. PresenceInv'
    BY <2>1, PresenceSame DEF OrderInv
  <2> QED
    BY <2>1, <2>4, <2>5, <2>6, ShiftOrder
<1>4. CASE CloseConn(c)
  <2>1. published' = published /\ wire' = wire /\ outbox' = outbox /\ stack[c] # << >>
    BY <1>4, CloseConnDoes
  <2>2. PICK x \in Conns, code \in Nat, call \in CallSet :
           /\ window' = [window EXCEPT ![c] = [to |-> x, code |-> code, held |-> x \in handle,
                                               presence |-> PresenceAfter(x)]]
           /\ SetTop(c, call)
           /\ \/ Top(c).todo # << >> /\ call.todo = Tail(Top(c).todo)
              \/ call.todo = Top(c).todo
    BY <1>4, CloseConnDoes
  <2>3. PICK n \in Nat : n = Len(stack[c])
    BY DEF TypeInv
  <2>4. \E d \in {0, 1} : Shift(c, n, d)
    <3>1. CASE Top(c).todo # << >> /\ call.todo = Tail(Top(c).todo)
      <4>1. Shift(c, n, 1)
        BY <2>1, <2>2, <2>3, <3>1, SetTopShift
      <4> QED
        BY <4>1
    <3>2. CASE call.todo = Top(c).todo
      <4>1. Shift(c, n, 0)
        BY <2>1, <2>2, <2>3, <3>2, SetTopShift
      <4> QED
        BY <4>1
    <3> QED
      BY <2>2, <3>1, <3>2
  <2>5. PresenceInv'
    <3>1. /\ window'[c].presence = PresenceAfter(x)
          /\ \A q \in Conns : q # c => window'[q] = window[q]
      BY <2>2 DEF TypeInv
    <3>2. \A i \in DOMAIN PresenceAfter(x) : ~Live(PresenceAfter(x)[i].m)
      BY PresenceTyped
    <3> QED
      BY <3>1, <3>2 DEF OrderInv, PresenceInv, Live
  <2> QED
    BY <2>1, <2>4, <2>5, ShiftOrder
<1>5. CASE CloseConnSend(c)
  <2>1. /\ published' = published /\ wire' = wire /\ outbox' = outbox
        /\ window' = [window EXCEPT ![c] = NoWindow] /\ window[c] \in WindowSet
        /\ stack' = stack \/ Deliver(c, window[c].presence)
    BY <1>5, CloseConnSendDoes
  <2>2. window[c].presence \in Seq(ActionSet) /\ Quiet(window[c].presence)
    BY <2>1 DEF WindowSet, Quiet, OrderInv, PresenceInv
  <2>3. Shift(c, 0, 0)
    BY <2>1, <2>2, StillShift, DeliverShift
  <2>4. PresenceInv'
    <3>1. /\ window'[c] = NoWindow /\ \A q \in Conns : q # c => window'[q] = window[q]
      BY <2>1 DEF TypeInv
    <3>2. DOMAIN NoWindow.presence = {}
      BY DEF NoWindow
    <3> QED
      BY <3>1, <3>2 DEF OrderInv, PresenceInv, Live
  <2> QED
    BY <2>1, <2>3, <2>4, ShiftOrder
<1>6. CASE DeliveryReturns(c)
  <2>1. /\ published' = published /\ wire' = wire /\ outbox' = outbox /\ window' = window
        /\ stack[c] # << >> /\ stack' = [stack EXCEPT ![c] = Front(@)]
    BY <1>6 DEF DeliveryReturns, Busy, writeVars
  <2>2. Shift(c, 0, 0) /\ PresenceInv'
    BY <2>1, ReturnShift, PresenceSame DEF OrderInv
  <2> QED
    BY <2>1, <2>2, ShiftOrder
<1> QED
  BY <1>1, <1>2, <1>3, <1>4, <1>5, <1>6

LEMMA OrderStep ==
    ASSUME BaseInv, OrderInv, [Next]_vars
    PROVE  OrderInv'
<1>1. BaseInv'
  BY BaseStep
<1>2. CASE UNCHANGED vars
  <2>1. /\ published' = published /\ wire' = wire /\ outbox' = outbox /\ window' = window
        /\ stack' = stack /\ Daemon \in Conns
    BY <1>2 DEF vars, Conns
  <2>2. Shift(Daemon, 0, 0) /\ PresenceInv'
    BY <2>1, StillShift, PresenceSame DEF OrderInv, BaseInv
  <2> QED
    BY <1>1, <2>1, <2>2, ShiftOrder
<1>3. ASSUME NEW c \in Conns,
             \/ Starts(c) \/ (c = Daemon /\ Publish)
             \/ LoopBreaks(c) \/ SelfClose(c) \/ LoopEnds(c)
             \/ GrabSender(c) \/ TrySend(c) \/ CloseConn(c) \/ CloseConnSend(c)
             \/ DeliveryReturns(c) \/ WriteTask(c)
      PROVE  OrderInv'
  BY <1>1, <1>3, PublishOrder, TrySendOrder, WriterOrder, OtherOrder
<1> QED
  BY <1>2, <1>3, StepKinds

\* Every subscriber gets the daemon's frames in the order they were published,
\* although each copy is sent after the lock is released and other tasks close
\* connections and replay frames meanwhile.
THEOREM FramesArriveInOrder == Spec => []LiveFramesInOrder
<1>1. Init => OrderInv
  BY OrderInit
<1>2. BaseInv /\ OrderInv /\ [Next]_vars => OrderInv'
  BY OrderStep
<1>3. OrderInv => LiveFramesInOrder
  BY DEF OrderInv, PipeInv, PipeOf, Ordered, Live, LiveFramesInOrder, Conns
<1> QED
  BY <1>1, <1>2, <1>3, DeliveryTyped, PTL DEF Spec

=============================================================================
