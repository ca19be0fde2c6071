---------------------------- MODULE RunnerProofs -----------------------------
(***************************************************************************)
(* Proofs about a record's way, from Runner to Catchup.                    *)
(*                                                                         *)
(* Runner.  Sent is all the frames the loop has queued and the connection  *)
(* has not dropped, written or not: every action appends to it or cuts it  *)
(* to what was written.  What the daemon may see of a runner is a          *)
(* statement about every prefix of Sent (Lawful), and that nothing is      *)
(* missing before the bye is one about the chunks that are in Sent, in the *)
(* channel and on the terminal together (Covered).                         *)
(*                                                                         *)
(* Catchup.  StoreSound is kept by every record the app takes, in whatever *)
(* order and however often they arrive, so of the rest it is enough to     *)
(* know that frames and requests are well formed.  What a batch computes   *)
(* is shown by induction on its length (Induct).                           *)
(***************************************************************************)
EXTENDS Runner, Catchup, SequenceTheorems, FiniteSetTheorems, WellFoundedInduction, TLAPS

Chunk == Nat \ {0}
Frames == {Life!Hello, Life!Event} \cup {Life!Bye(r) : r \in Life!ByeReasons}
          \cup {Life!Io(n) : n \in Chunk}

Sent == wire \o out

\* A hello and then no other, chunks in order, and nothing after a bye.
Lawful(w) ==
    /\ w \in Seq(Frames)
    /\ w # << >> => w[1] = Life!Hello
    /\ \A i \in 2 .. Len(w) : w[i] # Life!Hello
    /\ \A i \in 1 .. Len(w) : w[i].t = "bye" => i = Len(w)
    /\ Life!InOrder(w)

\* The numbers of s rise from one place to the next.
Rising(s) == \A i, j \in 1 .. Len(s) : i < j => s[i] < s[j]

Below(s, t) == \A i \in 1 .. Len(s), j \in 1 .. Len(t) : s[i] < t[j]

\* All chunks of w are smaller than those of s.
SentBelow(w, s) == \A i \in 1 .. Len(w), j \in 1 .. Len(s) : Life!IsIo(w[i]) => w[i].n < s[j]

In(n, s) == \E i \in 1 .. Len(s) : s[i] = n
InFrames(n, w) == \E i \in 1 .. Len(w) : w[i] = Life!Io(n)

TypeInv ==
    /\ pc \in {"start", "loop", "writing", "closing", "over"}
    /\ writer \in BOOLEAN /\ exited \in BOOLEAN /\ exit \in BOOLEAN /\ lost \in BOOLEAN
    /\ child \in {"none", "alive", "dead"}
    /\ made \in 0 .. Chunks
    /\ wire \in Seq(Frames) /\ out \in Seq(Frames)
    /\ tty \in Seq(Chunk) /\ data \in Seq(Chunk)

\* Where the process stands: before the loop there is nothing, a bye is queued
\* when the loop ends, and the exit code comes from a dead claude.
PhaseInv ==
    /\ pc = "start" => made = 0 /\ wire = << >> /\ ~writer /\ child = "none"
    /\ writer => wire \o out # << >>
    /\ \A i \in 1 .. Len(Sent) : Sent[i].t = "bye" => pc \in {"closing", "over"}
    /\ \A i \in 1 .. Len(Sent) : Sent[i] = Life!Bye("exit") => exit
    /\ exit => exited
    /\ exited => child = "dead"
    /\ exit /\ ~lost => tty = << >>

\* The chunks flow from the terminal through the channel into frames in order.
FlowInv ==
    /\ \A i \in 1 .. Len(tty) : tty[i] <= made
    /\ \A i \in 1 .. Len(data) : data[i] <= made
    /\ \A i \in 1 .. Len(Sent) : Life!IsIo(Sent[i]) => Sent[i].n <= made
    /\ Rising(tty) /\ Rising(data) /\ Below(data, tty)
    /\ SentBelow(Sent, data) /\ SentBelow(Sent, tty)

\* While the loop can still report an exit, and once it has, no chunk is missing.
Covered ==
    /\ pc \in {"loop", "writing"} /\ writer /\ ~lost
          => \A n \in 1 .. made : In(n, tty) \/ In(n, data) \/ InFrames(n, Sent)
    /\ \A i \in 1 .. Len(Sent) :
          Sent[i] = Life!Bye("exit") /\ ~lost => \A n \in 1 .. made : InFrames(n, Sent)

RunnerInv == TypeInv /\ PhaseInv /\ Lawful(Sent) /\ FlowInv /\ Covered

-----------------------------------------------------------------------------
(* Frames and sequences of them.                                           *)

Prefix(v, w) == Len(v) <= Len(w) /\ \A i \in 1 .. Len(v) : v[i] = w[i]

RecordFrames == {Life!Event} \cup {Life!Io(n) : n \in Chunk}

\* The kinds of frame are told apart by their fields.
LEMMA FrameKinds ==
    /\ Life!Hello \in Frames /\ Life!Event \in Frames
    /\ Life!Hello.t = "hello" /\ ~Life!IsIo(Life!Hello)
    /\ \A r \in Life!ByeReasons : /\ Life!Bye(r) \in Frames /\ Life!Bye(r).t = "bye"
                                  /\ ~Life!IsIo(Life!Bye(r)) /\ Life!Bye(r).reason = r
    /\ \A n \in Chunk : /\ Life!Io(n) \in Frames /\ Life!IsIo(Life!Io(n))
                        /\ Life!Io(n).n = n /\ Life!Io(n).t = "rec"
    /\ \A f \in Frames : Life!IsIo(f) => f.n \in Chunk /\ f = Life!Io(f.n)
    /\ \A f \in Frames : f.t = "bye" => \E r \in Life!ByeReasons : f = Life!Bye(r)
    /\ \A f \in Frames \ RecordFrames : ~Life!IsIo(f)
    /\ \A f \in RecordFrames : f \in Frames /\ f.t = "rec" /\ f # Life!Hello
<1>1. /\ Life!Hello \in Frames /\ Life!Event \in Frames
      /\ Life!Hello.t = "hello" /\ ~Life!IsIo(Life!Hello)
  BY DEF Frames, Life!Hello, Life!IsIo
<1>2. \A r \in Life!ByeReasons : Life!Bye(r) \in Frames
  BY DEF Frames
<1>3. \A r \in Life!ByeReasons : Life!Bye(r).t = "bye" /\ Life!Bye(r).reason = r /\ ~Life!IsIo(Life!Bye(r))
  BY DEF Life!Bye, Life!IsIo
<1>4. \A n \in Chunk : Life!Io(n) \in Frames /\ Life!Io(n) \in RecordFrames
  BY DEF Frames, RecordFrames
<1>5. \A n \in Chunk : Life!IsIo(Life!Io(n)) /\ Life!Io(n).n = n /\ Life!Io(n).t = "rec"
  BY DEF Life!Io, Life!IsIo
<1>6. Life!Event.t = "rec" /\ ~Life!IsIo(Life!Event)
  BY DEF Life!Event, Life!IsIo
<1>7. \A f \in Frames : \/ f = Life!Hello \/ f = Life!Event
                        \/ \E r \in Life!ByeReasons : f = Life!Bye(r)
                        \/ \E n \in Chunk : f = Life!Io(n)
  BY DEF Frames
<1>8. \A f \in RecordFrames : f = Life!Event \/ \E n \in Chunk : f = Life!Io(n)
  BY DEF RecordFrames
<1>9. \A f \in Frames : Life!IsIo(f) => f.n \in Chunk /\ f = Life!Io(f.n)
  BY <1>1, <1>3, <1>5, <1>6, <1>7
<1>10. \A f \in Frames : f.t = "bye" => \E r \in Life!ByeReasons : f = Life!Bye(r)
  BY <1>1, <1>5, <1>6, <1>7
<1>11. \A f \in RecordFrames : f \in Frames /\ f.t = "rec" /\ f # Life!Hello
  BY <1>1, <1>4, <1>5, <1>6, <1>8
<1>12. \A f \in Frames \ RecordFrames : ~Life!IsIo(f)
  BY <1>9, <1>4
<1>. QED BY <1>1, <1>2, <1>3, <1>4, <1>5, <1>9, <1>10, <1>11, <1>12

\* A prefix of a lawful sequence is lawful: the loop's queue may be dropped at any
\* frame.
LEMMA CutLawful ==
  ASSUME NEW w, NEW v \in Seq(Frames), Lawful(w), Prefix(v, w)
  PROVE  Lawful(v)
<1>1. w \in Seq(Frames) /\ Len(v) \in Nat /\ Len(w) \in Nat
  BY DEF Lawful
<1>2. v # << >> => v[1] = Life!Hello
  BY <1>1 DEF Lawful, Prefix
<1>3. \A i \in 2 .. Len(v) : v[i] # Life!Hello
  BY <1>1 DEF Lawful, Prefix
<1>4. \A i \in 1 .. Len(v) : v[i].t = "bye" => i = Len(v)
  BY <1>1 DEF Lawful, Prefix
<1>5. Life!InOrder(v)
  <2>1. DOMAIN v = 1 .. Len(v) /\ DOMAIN w = 1 .. Len(w)
    BY <1>1
  <2> SUFFICES ASSUME NEW i \in 1 .. Len(v), NEW j \in 1 .. Len(v), i < j,
                      Life!IsIo(v[i]), Life!IsIo(v[j])
               PROVE  v[i].n < v[j].n
    BY <2>1 DEF Life!InOrder
  <2>2. i \in DOMAIN w /\ j \in DOMAIN w /\ v[i] = w[i] /\ v[j] = w[j]
    BY <1>1, <2>1 DEF Prefix
  <2>. QED BY <2>2 DEF Lawful, Life!InOrder
<1>. QED BY <1>2, <1>3, <1>4, <1>5 DEF Lawful

\* What may be added to frames already sent.
LEMMA GrowLawful ==
  ASSUME NEW w, NEW fs \in Seq(Frames), Lawful(w), w # << >>,
         \A i \in 1 .. Len(w) : w[i].t # "bye",
         \A i \in 1 .. Len(fs) : fs[i] # Life!Hello,
         \A i \in 1 .. Len(fs) : fs[i].t = "bye" => i = Len(fs),
         Life!InOrder(fs),
         \A i \in 1 .. Len(w), j \in 1 .. Len(fs) :
            Life!IsIo(w[i]) /\ Life!IsIo(fs[j]) => w[i].n < fs[j].n
  PROVE  Lawful(w \o fs)
<1> DEFINE u == w \o fs
<1>1. w \in Seq(Frames) /\ Len(fs) \in Nat /\ Len(w) \in Nat \ {0}
  BY DEF Lawful
<1>2. u \in Seq(Frames) /\ Len(u) = Len(w) + Len(fs)
  BY <1>1
<1>3. \A i \in 1 .. Len(u) : \/ i \in 1 .. Len(w) /\ u[i] = w[i]
                             \/ i - Len(w) \in 1 .. Len(fs) /\ i > Len(w) /\ u[i] = fs[i - Len(w)]
  BY <1>1, <1>2
<1>4. u[1] = Life!Hello
  BY <1>1, <1>2, <1>3 DEF Lawful
<1> HIDE DEF u
<1>5. \A i \in 2 .. Len(u) : u[i] # Life!Hello
  <2> SUFFICES ASSUME NEW i \in 2 .. Len(u) PROVE u[i] # Life!Hello
    OBVIOUS
  <2>1. i \in 1 .. Len(u)
    BY <1>1, <1>2
  <2>2. CASE i \in 1 .. Len(w) /\ u[i] = w[i]
    BY <2>2 DEF Lawful
  <2>3. CASE i - Len(w) \in 1 .. Len(fs) /\ u[i] = fs[i - Len(w)]
    BY <2>3
  <2>. QED BY <2>1, <2>2, <2>3, <1>3
<1>6. \A i \in 1 .. Len(u) : u[i].t = "bye" => i = Len(u)
  <2> SUFFICES ASSUME NEW i \in 1 .. Len(u), u[i].t = "bye" PROVE i = Len(u)
    OBVIOUS
  <2>1. ~(i \in 1 .. Len(w) /\ u[i] = w[i])
    OBVIOUS
  <2>2. i - Len(w) \in 1 .. Len(fs) /\ u[i] = fs[i - Len(w)]
    BY <2>1, <1>3
  <2>3. i - Len(w) = Len(fs)
    BY <2>2
  <2>4. i \in Int /\ Len(w) \in Int /\ Len(fs) \in Int
    BY <1>1, <1>2
  <2>. QED BY <2>3, <2>4, <1>2
<1>7. Life!InOrder(u)
  <2>1. DOMAIN u = 1 .. Len(u) /\ DOMAIN w = 1 .. Len(w) /\ DOMAIN fs = 1 .. Len(fs)
    BY <1>1, <1>2
  <2> SUFFICES ASSUME NEW i \in 1 .. Len(u), NEW j \in 1 .. Len(u), i < j,
                      Life!IsIo(u[i]), Life!IsIo(u[j])
               PROVE  u[i].n < u[j].n
    BY <2>1 DEF Life!InOrder
  <2>2. CASE j \in 1 .. Len(w) /\ u[j] = w[j]
    <3>1. i \in 1 .. Len(w) /\ u[i] = w[i]
      BY <1>1, <1>3, <2>2
    <3>. QED BY <2>1, <2>2, <3>1 DEF Lawful, Life!InOrder
  <2>3. CASE j - Len(w) \in 1 .. Len(fs) /\ j > Len(w) /\ u[j] = fs[j - Len(w)]
    <3>1. CASE i \in 1 .. Len(w) /\ u[i] = w[i]
      BY <3>1, <2>3
    <3>2. CASE i - Len(w) \in 1 .. Len(fs) /\ i > Len(w) /\ u[i] = fs[i - Len(w)]
      <4>1. i - Len(w) < j - Len(w)
        BY <1>1, <1>2
      <4>. QED BY <2>1, <3>2, <2>3, <4>1 DEF Life!InOrder
    <3>. QED BY <3>1, <3>2, <1>3
  <2>. QED BY <2>2, <2>3, <1>3
<1>. QED BY <1>2, <1>4, <1>5, <1>6, <1>7 DEF Lawful, u

-----------------------------------------------------------------------------
(* What the loop hands to the connection.                                  *)

\* fs is made of records whose chunks come, in order, from the front of channel d,
\* and e is what remains of the channel.
Fed(fs, d, e) ==
    /\ fs \in Seq(RecordFrames) /\ e \in Seq(Chunk)
    /\ Life!InOrder(fs) /\ Rising(e) /\ SentBelow(fs, e)
    /\ \A i \in 1 .. Len(fs) : Life!IsIo(fs[i]) => In(fs[i].n, d)
    /\ \A i \in 1 .. Len(e) : In(e[i], d)
    /\ \A i \in 1 .. Len(d) : In(d[i], e) \/ InFrames(d[i], fs)

\* The hook arm takes no chunk.
LEMMA FedEvent ==
  ASSUME NEW d \in Seq(Chunk), Rising(d)
  PROVE  Fed(<<Life!Event>>, d, d)
<1>1. /\ <<Life!Event>> \in Seq(RecordFrames) /\ Len(<<Life!Event>>) = 1
      /\ <<Life!Event>>[1] = Life!Event /\ ~Life!IsIo(Life!Event)
  BY DEF RecordFrames, Life!Event, Life!IsIo
<1>2. \A i \in 1 .. Len(d) : In(d[i], d)
  BY DEF In
<1>. QED BY <1>1, <1>2 DEF Fed, Life!InOrder, SentBelow

\* The closed and signal arms take nothing.
LEMMA FedNothing ==
  ASSUME NEW d \in Seq(Chunk), Rising(d)
  PROVE  Fed(<< >>, d, d)
<1>1. << >> \in Seq(RecordFrames) /\ Len(<< >>) = 0
  OBVIOUS
<1>2. \A i \in 1 .. Len(d) : In(d[i], d)
  BY DEF In
<1>. QED BY <1>1, <1>2 DEF Fed, Life!InOrder, SentBelow

\* The data arm takes the first chunk.
LEMMA FedIo ==
  ASSUME NEW d \in Seq(Chunk), Rising(d), d # << >>
  PROVE  Fed(<<Life!Io(Head(d))>>, d, Tail(d))
<1> DEFINE fs == <<Life!Io(Head(d))>>
           e == Tail(d)
<1>1. /\ Len(d) \in Nat \ {0} /\ Head(d) = d[1] /\ d[1] \in Chunk
      /\ e \in Seq(Chunk) /\ Len(e) = Len(d) - 1
      /\ \A i \in 1 .. Len(e) : e[i] = d[i + 1]
  BY HeadTailProperties
<1>2. Life!Io(d[1]) \in RecordFrames
  BY <1>1 DEF RecordFrames
<1>3. fs \in Seq(RecordFrames) /\ Len(fs) = 1 /\ fs[1] = Life!Io(d[1])
  BY <1>1, <1>2
<1>4. Life!IsIo(fs[1]) /\ fs[1].n = d[1]
  BY <1>1, <1>3, FrameKinds
<1>5. DOMAIN fs = 1 .. 1
  BY <1>3
<1> HIDE DEF fs, e
<1>6. \A i \in 1 .. Len(fs) : i = 1
  BY <1>3
<1>7. Life!InOrder(fs)
  BY <1>5 DEF Life!InOrder
<1>8. Rising(e)
  BY <1>1 DEF Rising
<1>9. SentBelow(fs, e)
  <2> SUFFICES ASSUME NEW j \in 1 .. Len(e) PROVE d[1] < e[j]
    BY <1>4, <1>6 DEF SentBelow
  <2>1. j + 1 \in 1 .. Len(d) /\ 1 \in 1 .. Len(d) /\ 1 < j + 1
    BY <1>1
  <2>. QED BY <2>1, <1>1 DEF Rising
<1>10. \A i \in 1 .. Len(fs) : Life!IsIo(fs[i]) => In(fs[i].n, d)
  BY <1>1, <1>4, <1>6 DEF In
<1>11. \A i \in 1 .. Len(e) : In(e[i], d)
  <2> SUFFICES ASSUME NEW j \in 1 .. Len(e) PROVE In(e[j], d)
    OBVIOUS
  <2>1. j + 1 \in 1 .. Len(d) /\ e[j] = d[j + 1]
    BY <1>1
  <2>. QED BY <2>1 DEF In
<1>12. \A i \in 1 .. Len(d) : In(d[i], e) \/ InFrames(d[i], fs)
  <2> SUFFICES ASSUME NEW i \in 1 .. Len(d) PROVE In(d[i], e) \/ InFrames(d[i], fs)
    OBVIOUS
  <2>1. CASE i = 1
    BY <2>1, <1>3 DEF InFrames
  <2>2. CASE i # 1
    <3>1. i - 1 \in 1 .. Len(e) /\ e[i - 1] = d[i]
      BY <2>2, <1>1
    <3>. QED BY <3>1 DEF In
  <2>. QED BY <2>1, <2>2
<1>13. fs \in Seq(RecordFrames) /\ e \in Seq(Chunk)
  BY <1>1, <1>3
<1>14. Fed(fs, d, e)
  BY <1>7, <1>8, <1>9, <1>10, <1>11, <1>12, <1>13 DEF Fed
<1>. QED BY <1>14 DEF fs, e

\* The exit arm takes all of them.
LEMMA FedDrained ==
  ASSUME data \in Seq(Chunk), Rising(data)
  PROVE  Fed(Drained, data, << >>)
<1>1. Len(data) \in Nat /\ DOMAIN data = 1 .. Len(data)
      /\ \A i \in 1 .. Len(data) : data[i] \in Chunk
  OBVIOUS
<1>2. \A i \in 1 .. Len(data) : Life!Io(data[i]) \in RecordFrames
  BY <1>1 DEF RecordFrames
<1>3. Drained = [i \in 1 .. Len(data) |-> Life!Io(data[i])]
  BY <1>1 DEF Drained
<1>4. Drained \in Seq(RecordFrames) /\ Len(Drained) = Len(data) /\ DOMAIN Drained = 1 .. Len(data)
      /\ \A i \in 1 .. Len(data) : Drained[i] = Life!Io(data[i])
  BY <1>1, <1>2, <1>3
<1>5. \A i \in 1 .. Len(data) : Life!IsIo(Drained[i]) /\ Drained[i].n = data[i]
  BY <1>1, <1>4, FrameKinds
<1>6. Life!InOrder(Drained)
  BY <1>1, <1>4, <1>5 DEF Life!InOrder, Rising
<1>7. << >> \in Seq(Chunk) /\ Len(<< >>) = 0
  OBVIOUS
<1>8. \A i \in 1 .. Len(Drained) : In(Drained[i].n, data)
  BY <1>4, <1>5 DEF In
<1>9. \A i \in 1 .. Len(data) : InFrames(data[i], Drained)
  BY <1>4 DEF InFrames
<1>. QED BY <1>4, <1>6, <1>7, <1>8, <1>9 DEF Fed, Rising, SentBelow

\* Frames are queued from the front, and none without a writer.
LEMMA QueuedPrefix ==
  ASSUME NEW fs \in Seq(Frames), TypeInv
  PROVE  /\ Queued(fs) \in Seq(Frames) /\ Prefix(Queued(fs), fs)
         /\ ~writer => Queued(fs) = << >>
         /\ Len(Queued(fs)) = Len(fs) => Queued(fs) = fs
<1> DEFINE room == IF writer THEN OUTBOUND_CAPACITY - Len(out) ELSE 0
           k == IF Len(fs) <= room THEN Len(fs) ELSE room
<1>1. Len(fs) \in Nat /\ Len(out) \in Nat /\ OUTBOUND_CAPACITY \in Nat
  BY RunnerAssumption DEF TypeInv
<1>2. room \in Int /\ k \in Int /\ k <= Len(fs) /\ (~writer => k <= 0)
  BY <1>1
<1>3. Queued(fs) = SubSeq(fs, 1, k)
  BY DEF Queued
<1> HIDE DEF room, k
<1>4. \A i \in 1 .. k : fs[i] \in Frames
  BY <1>1, <1>2
<1>5. /\ SubSeq(fs, 1, k) \in Seq(Frames)
      /\ Len(SubSeq(fs, 1, k)) = IF 1 <= k THEN k - 1 + 1 ELSE 0
      /\ \A i \in 1 .. k - 1 + 1 : SubSeq(fs, 1, k)[i] = fs[1 + i - 1]
  BY <1>2, <1>4, SubSeqProperties
<1>6. Len(SubSeq(fs, 1, k)) = IF 1 <= k THEN k ELSE 0
  BY <1>2, <1>5
<1>7. \A i \in 1 .. k : SubSeq(fs, 1, k)[i] = fs[i]
  BY <1>2, <1>5
<1>8. Prefix(SubSeq(fs, 1, k), fs)
  BY <1>1, <1>2, <1>6, <1>7 DEF Prefix
<1>9. ~writer => SubSeq(fs, 1, k) = << >>
  BY <1>2, SubSeqEmpty
<1>10. Len(SubSeq(fs, 1, k)) = Len(fs) => SubSeq(fs, 1, k) = fs
  BY <1>5, <1>8, SeqEqual DEF Prefix
<1>. QED BY <1>3, <1>5, <1>8, <1>9, <1>10

\* A place of a concatenation is a place of one of its parts.
LEMMA Places ==
  ASSUME NEW S, NEW w \in Seq(S), NEW q \in Seq(S)
  PROVE  /\ w \o q \in Seq(S) /\ Len(w \o q) = Len(w) + Len(q)
         /\ Len(w) \in Nat /\ Len(q) \in Nat
         /\ \A i \in 1 .. Len(w \o q) :
               \/ i \in 1 .. Len(w) /\ (w \o q)[i] = w[i]
               \/ i - Len(w) \in 1 .. Len(q) /\ (w \o q)[i] = q[i - Len(w)]
         /\ \A i \in 1 .. Len(w) : i \in 1 .. Len(w \o q) /\ (w \o q)[i] = w[i]
         /\ \A i \in 1 .. Len(q) : Len(w) + i \in 1 .. Len(w \o q) /\ (w \o q)[Len(w) + i] = q[i]
<1>1. /\ w \o q \in Seq(S) /\ Len(w \o q) = Len(w) + Len(q)
      /\ Len(w) \in Nat /\ Len(q) \in Nat
      /\ \A i \in 1 .. Len(w) + Len(q) : (w \o q)[i] = IF i <= Len(w) THEN w[i] ELSE q[i - Len(w)]
  BY ConcatProperties
<1>2. \A i \in 1 .. Len(w \o q) :
               \/ i \in 1 .. Len(w) /\ (w \o q)[i] = w[i]
               \/ i - Len(w) \in 1 .. Len(q) /\ (w \o q)[i] = q[i - Len(w)]
  BY <1>1
<1>3. \A i \in 1 .. Len(w) : i \in 1 .. Len(w \o q) /\ (w \o q)[i] = w[i]
  BY <1>1
<1>4. \A i \in 1 .. Len(q) : Len(w) + i \in 1 .. Len(w \o q) /\ (w \o q)[Len(w) + i] = q[i]
  BY <1>1
<1>. QED BY <1>1, <1>2, <1>3, <1>4

\* Frames with chunks drawn from channel d that leaves e.
Draws(q, d, e) ==
    /\ q \in Seq(Frames)
    /\ \A i \in 1 .. Len(q) : Life!IsIo(q[i]) => In(q[i].n, d)
    /\ \A i \in 1 .. Len(e) : In(e[i], d)
    /\ SentBelow(q, e)

\* What the loop queues when it ends: the records and the bye after them.
LEMMA FedWithBye ==
  ASSUME NEW fs, NEW d, NEW e, Fed(fs, d, e), NEW r \in Life!ByeReasons
  PROVE  LET gs == fs \o <<Life!Bye(r)>>
         IN  /\ gs \in Seq(Frames) /\ Draws(gs, d, e) /\ Life!InOrder(gs)
             /\ \A i \in 1 .. Len(gs) : gs[i] # Life!Hello
             /\ \A i \in 1 .. Len(gs) : gs[i].t = "bye" => i = Len(gs) /\ gs[i] = Life!Bye(r)
             /\ Len(gs) = Len(fs) + 1
             /\ \A i \in 1 .. Len(fs) : gs[i] = fs[i]
<1> DEFINE b == <<Life!Bye(r)>>
           gs == fs \o b
<1>1. RecordFrames \subseteq Frames
  BY FrameKinds
<1>2. fs \in Seq(RecordFrames) /\ fs \in Seq(Frames) /\ Len(fs) \in Nat
  BY <1>1, SeqMonotonic DEF Fed
<1>3. /\ Life!Bye(r) \in Frames /\ Life!Bye(r).t = "bye" /\ ~Life!IsIo(Life!Bye(r))
      /\ Life!Bye(r) # Life!Hello
  BY FrameKinds
<1>4. b \in Seq(Frames) /\ Len(b) = 1 /\ b[1] = Life!Bye(r)
  BY <1>3
<1> HIDE DEF b
<1>5. /\ gs \in Seq(Frames) /\ Len(gs) = Len(fs) + 1
      /\ \A i \in 1 .. Len(fs) : gs[i] = fs[i]
      /\ gs[Len(fs) + 1] = Life!Bye(r)
  <2>0. fs \in Seq(Frames) /\ b \in Seq(Frames)
    BY <1>2, <1>4
  <2>1. /\ gs \in Seq(Frames) /\ Len(gs) = Len(fs) + Len(b)
        /\ \A i \in 1 .. Len(fs) : gs[i] = fs[i]
        /\ \A i \in 1 .. Len(b) : gs[Len(fs) + i] = b[i]
    BY <2>0, Places
  <2>2. 1 \in 1 .. Len(b)
    BY <1>4
  <2> HIDE DEF gs
  <2>3. gs[Len(fs) + 1] = b[1]
    BY <2>1, <2>2
  <2>. QED BY <1>4, <2>1, <2>3
<1> HIDE DEF gs
<1>6. \A i \in 1 .. Len(gs) : i \in 1 .. Len(fs) \/ i = Len(fs) + 1
  BY <1>2, <1>5
<1>7. \A i \in 1 .. Len(fs) : fs[i].t = "rec" /\ fs[i] # Life!Hello
  BY <1>2, FrameKinds
<1>8. \A i \in 1 .. Len(gs) : gs[i] # Life!Hello
  BY <1>3, <1>5, <1>6, <1>7
<1>9. \A i \in 1 .. Len(gs) : gs[i].t = "bye" => i = Len(gs) /\ gs[i] = Life!Bye(r)
  BY <1>5, <1>6, <1>7
<1>10. \A i \in 1 .. Len(gs) : Life!IsIo(gs[i]) => i \in 1 .. Len(fs) /\ gs[i] = fs[i]
  BY <1>3, <1>5, <1>6
<1>11. Life!InOrder(gs)
  <2>1. DOMAIN gs = 1 .. Len(gs) /\ DOMAIN fs = 1 .. Len(fs)
    BY <1>2, <1>5
  <2> SUFFICES ASSUME NEW i \in 1 .. Len(gs), NEW j \in 1 .. Len(gs), i < j,
                      Life!IsIo(gs[i]), Life!IsIo(gs[j])
               PROVE  gs[i].n < gs[j].n
    BY <2>1 DEF Life!InOrder
  <2>2. i \in 1 .. Len(fs) /\ j \in 1 .. Len(fs) /\ gs[i] = fs[i] /\ gs[j] = fs[j]
    BY <1>10
  <2>. QED BY <2>1, <2>2 DEF Fed, Life!InOrder
<1>12. Draws(gs, d, e)
  <2>1. \A i \in 1 .. Len(gs) : Life!IsIo(gs[i]) => In(gs[i].n, d)
    BY <1>10 DEF Fed
  <2>2. SentBelow(gs, e)
    BY <1>10 DEF Fed, SentBelow
  <2>. QED BY <1>5, <2>1, <2>2 DEF Fed, Draws
<1>. QED BY <1>5, <1>8, <1>9, <1>11, <1>12 DEF gs, b

\* So does every prefix.
LEMMA PrefixDraws ==
  ASSUME NEW gs, NEW d, NEW e, Draws(gs, d, e), NEW q \in Seq(Frames), Prefix(q, gs)
  PROVE  Draws(q, d, e)
<1>0. Len(q) \in Nat /\ Len(gs) \in Nat /\ Len(q) <= Len(gs)
  BY DEF Prefix, Draws
<1>1. \A i \in 1 .. Len(q) : i \in 1 .. Len(gs) /\ q[i] = gs[i]
  BY <1>0 DEF Prefix
<1>. QED BY <1>1 DEF Draws, SentBelow

\* Chunks that go from the channel into frames stay between what was sent before
\* and what is still on the terminal.
LEMMA FlowGrows ==
  ASSUME NEW w \in Seq(Frames), NEW q, NEW d \in Seq(Chunk), NEW e \in Seq(Chunk),
         NEW t \in Seq(Chunk), NEW m \in Nat,
         Draws(q, d, e), SentBelow(w, d), SentBelow(w, t), Below(d, t),
         \A i \in 1 .. Len(d) : d[i] <= m,
         \A i \in 1 .. Len(w) : Life!IsIo(w[i]) => w[i].n <= m
  PROVE  /\ \A i \in 1 .. Len(e) : e[i] <= m
         /\ \A i \in 1 .. Len(w \o q) : Life!IsIo((w \o q)[i]) => (w \o q)[i].n <= m
         /\ Below(e, t) /\ SentBelow(w \o q, e) /\ SentBelow(w \o q, t)
<1> DEFINE u == w \o q
<1>1. q \in Seq(Frames)
  BY DEF Draws
<1>2. \A i \in 1 .. Len(u) : \/ i \in 1 .. Len(w) /\ u[i] = w[i]
                             \/ i - Len(w) \in 1 .. Len(q) /\ u[i] = q[i - Len(w)]
  BY <1>1, Places
<1> HIDE DEF u
<1>3. \A i \in 1 .. Len(e) : e[i] <= m
  BY DEF Draws, In
<1>4. Below(e, t)
  <2>1. \A i \in 1 .. Len(e) : \E j \in 1 .. Len(d) : e[i] = d[j]
    BY DEF Draws, In
  <2>. QED BY <2>1 DEF Below
<1>5. \A i \in 1 .. Len(q) : Life!IsIo(q[i]) => \E j \in 1 .. Len(d) : q[i].n = d[j]
  BY DEF Draws, In
<1>6. \A i \in 1 .. Len(u) : Life!IsIo(u[i]) => u[i].n <= m
  <2> SUFFICES ASSUME NEW i \in 1 .. Len(u), Life!IsIo(u[i]) PROVE u[i].n <= m
    OBVIOUS
  <2>1. CASE i \in 1 .. Len(w) /\ u[i] = w[i]
    BY <2>1
  <2>2. CASE i - Len(w) \in 1 .. Len(q) /\ u[i] = q[i - Len(w)]
    BY <2>2, <1>5
  <2>. QED BY <2>1, <2>2, <1>2
<1>7. SentBelow(u, t)
  <2> SUFFICES ASSUME NEW i \in 1 .. Len(u), NEW j \in 1 .. Len(t), Life!IsIo(u[i])
               PROVE  u[i].n < t[j]
    BY DEF SentBelow
  <2>1. CASE i \in 1 .. Len(w) /\ u[i] = w[i]
    BY <2>1 DEF SentBelow
  <2>2. CASE i - Len(w) \in 1 .. Len(q) /\ u[i] = q[i - Len(w)]
    BY <2>2, <1>5 DEF Below
  <2>. QED BY <2>1, <2>2, <1>2
<1>8. SentBelow(u, e)
  <2> SUFFICES ASSUME NEW i \in 1 .. Len(u), NEW j \in 1 .. Len(e), Life!IsIo(u[i])
               PROVE  u[i].n < e[j]
    BY DEF SentBelow
  <2>1. CASE i \in 1 .. Len(w) /\ u[i] = w[i]
    BY <2>1 DEF SentBelow, Draws, In
  <2>2. CASE i - Len(w) \in 1 .. Len(q) /\ u[i] = q[i - Len(w)]
    BY <2>2 DEF SentBelow, Draws
  <2>. QED BY <2>1, <2>2, <1>2
<1>. QED BY <1>3, <1>4, <1>6, <1>7, <1>8 DEF u

-----------------------------------------------------------------------------
(* The steps, by what they do to the frames.                               *)

invVars == <<pc, writer, exited, exit, lost, child, made, wire, out, tty, data>>

\* Sent is a sequence of frames.
LEMMA SentTyped ==
  ASSUME TypeInv
  PROVE  /\ Sent \in Seq(Frames) /\ Len(Sent) = Len(wire) + Len(out)
         /\ Len(wire) \in Nat /\ Len(out) \in Nat /\ Len(Sent) \in Nat
         /\ Prefix(wire, Sent)
<1>1. wire \in Seq(Frames) /\ out \in Seq(Frames)
  BY DEF TypeInv
<1>. QED BY <1>1, Places DEF Sent, Prefix

\* The connection loses its queue: what is written remains.  A bye that remains
\* was the last frame, so nothing before it is gone.
LEMMA CutStep ==
  ASSUME RunnerInv, wire' = wire, out' = << >>, writer' = FALSE,
         pc' \in {pc, "over"}, pc' # "start",
         UNCHANGED <<made, tty, data, lost, exit, exited, child>>
  PROVE  RunnerInv'
<1>1. wire \in Seq(Frames) /\ Len(wire) \in Nat
  BY DEF RunnerInv, TypeInv
<1>2. Sent' = wire
  BY <1>1, ConcatEmptySeq DEF Sent
<1>3. Prefix(wire, Sent) /\ Len(Sent) \in Nat
  BY SentTyped DEF RunnerInv
<1>4. \A i \in 1 .. Len(wire) : i \in 1 .. Len(Sent) /\ wire[i] = Sent[i]
  BY <1>1, <1>3 DEF Prefix
<1>0. writer' \in BOOLEAN /\ ~writer' /\ << >> \in Seq(Frames)
  <2>1. writer' \in BOOLEAN /\ ~writer'
    BY Zenon
  <2>2. << >> \in Seq(Frames)
    OBVIOUS
  <2>. QED BY <2>1, <2>2
<1>5. TypeInv'
  <2>1. pc' \in {"start", "loop", "writing", "closing", "over"} /\ out' \in Seq(Frames)
    BY <1>0 DEF RunnerInv, TypeInv
  <2>. QED BY <1>0, <2>1 DEF RunnerInv, TypeInv
<1>6. Lawful(Sent)'
  <2>1. Lawful(wire)
    BY <1>1, <1>3, CutLawful DEF RunnerInv
  <2>. QED BY <1>2, <2>1 DEF Lawful
<1>7. PhaseInv'
  <2>1. \A i \in 1 .. Len(wire) : wire[i].t = "bye" => pc' \in {"closing", "over"}
    BY <1>4 DEF RunnerInv, PhaseInv
  <2>2. \A i \in 1 .. Len(wire) : wire[i] = Life!Bye("exit") => exit
    BY <1>4 DEF RunnerInv, PhaseInv
  <2>3. /\ (exit' => exited') /\ (exited' => child' = "dead")
        /\ (exit' /\ ~lost' => tty' = << >>)
    BY DEF RunnerInv, PhaseInv
  <2>4. \A i \in 1 .. Len(Sent') : Sent'[i] = Life!Bye("exit") => exit'
    BY <1>2, <2>2
  <2>5. \A i \in 1 .. Len(Sent') : Sent'[i].t = "bye" => pc' \in {"closing", "over"}
    BY <1>2, <2>1
  <2>. QED BY <1>0, <2>3, <2>4, <2>5 DEF PhaseInv
<1>8. FlowInv'
  <2>1. /\ \A i \in 1 .. Len(wire) : Life!IsIo(wire[i]) => wire[i].n <= made
        /\ SentBelow(wire, data) /\ SentBelow(wire, tty)
    BY <1>4 DEF RunnerInv, FlowInv, SentBelow
  <2>2. /\ \A i \in 1 .. Len(tty) : tty[i] <= made
        /\ \A i \in 1 .. Len(data) : data[i] <= made
        /\ Rising(tty) /\ Rising(data) /\ Below(data, tty)
    BY DEF RunnerInv, FlowInv
  <2>. QED BY <1>2, <2>1, <2>2 DEF FlowInv, SentBelow, Rising, Below
<1>9. Covered'
  <2> SUFFICES ASSUME NEW i \in 1 .. Len(wire), wire[i] = Life!Bye("exit"), ~lost,
                      NEW n \in 1 .. made
               PROVE  InFrames(n, wire)
    BY <1>2 DEF Covered, InFrames
  <2>1. Sent[i] = Life!Bye("exit") /\ i \in 1 .. Len(Sent)
    BY <1>4
  <2>2. Life!Bye("exit").t = "bye"
    BY DEF Life!Bye
  <2>3. i = Len(Sent)
    BY <2>1, <2>2 DEF RunnerInv, Lawful
  <2>4. InFrames(n, Sent)
    BY <2>1 DEF RunnerInv, Covered
  <2>5. \A j \in 1 .. Len(Sent) : j \in 1 .. Len(wire)
    BY <1>1, <1>3, <2>3
  <2>. QED BY <1>4, <2>4, <2>5 DEF InFrames
<1>. QED BY <1>5, <1>6, <1>7, <1>8, <1>9 DEF RunnerInv

\* Frames are added behind those that are queued.
LEMMA Appended ==
  ASSUME TypeInv, NEW q \in Seq(Frames), wire' = wire, out' = out \o q
  PROVE  out' \in Seq(Frames) /\ Sent' = Sent \o q
<1>1. wire \in Seq(Frames) /\ out \in Seq(Frames)
  BY DEF TypeInv
<1>2. out \o q \in Seq(Frames)
  BY <1>1, ConcatProperties
<1>3. (wire \o out) \o q = wire \o (out \o q)
  <2>1. ASSUME NEW a \in Seq(Frames), NEW b \in Seq(Frames), NEW c \in Seq(Frames)
        PROVE  (a \o b) \o c = a \o (b \o c)
    OBVIOUS
  <2>. QED BY <1>1, <2>1, Zenon
<1>. QED BY <1>2, <1>3 DEF Sent

\* The loop forwards records and goes round.
LEMMA ContinueStep ==
  ASSUME RunnerInv, NEW fs, NEW e, Fed(fs, data, e), pc = "loop", writer,
         out' = out \o fs, data' = e,
         UNCHANGED <<pc, wire, writer, exited, exit, lost, child, made, tty>>
  PROVE  RunnerInv'
<1> DEFINE w == Sent
<1>1. RecordFrames \subseteq Frames
  BY FrameKinds
<1>2. fs \in Seq(RecordFrames) /\ fs \in Seq(Frames) /\ Len(fs) \in Nat /\ e \in Seq(Chunk)
  BY <1>1, SeqMonotonic DEF Fed
<1>3. /\ w \in Seq(Frames) /\ w # << >> /\ Len(w) \in Nat
      /\ data \in Seq(Chunk) /\ tty \in Seq(Chunk) /\ made \in Nat
  <2>1. made \in Nat
    BY RunnerAssumption DEF RunnerInv, TypeInv
  <2>. QED BY <2>1, SentTyped DEF RunnerInv, PhaseInv, TypeInv, Sent
<1>4. Sent' = w \o fs /\ out' \in Seq(Frames)
  BY <1>2, Appended DEF RunnerInv
<1>5. \A i \in 1 .. Len(fs) : fs[i] # Life!Hello /\ fs[i].t = "rec"
  BY <1>2, FrameKinds
<1>6. Draws(fs, data, e)
  BY <1>2 DEF Fed, Draws
<1>7. \A i \in 1 .. Len(w) : w[i].t # "bye"
  BY DEF RunnerInv, PhaseInv
<1>8. \A i \in 1 .. Len(w), j \in 1 .. Len(fs) :
          Life!IsIo(w[i]) /\ Life!IsIo(fs[j]) => w[i].n < fs[j].n
  <2>1. SentBelow(w, data)
    BY DEF RunnerInv, FlowInv
  <2> HIDE DEF w
  <2>. QED BY <2>1, <1>6 DEF SentBelow, Draws, In
<1>9. Lawful(w \o fs)
  <2>1. Lawful(w)
    BY DEF RunnerInv
  <2>2. Life!InOrder(fs)
    BY DEF Fed
  <2> HIDE DEF w
  <2>3. \A i \in 1 .. Len(fs) : fs[i].t = "bye" => i = Len(fs)
    BY <1>5
  <2>. QED BY <1>2, <1>3, <1>5, <1>7, <1>8, <2>1, <2>2, <2>3, GrowLawful
<1>10. Lawful(Sent)'
  BY <1>4, <1>9 DEF Lawful
<1>11. TypeInv'
  BY <1>2, <1>4 DEF RunnerInv, TypeInv
<1>12. /\ Len(w \o fs) = Len(w) + Len(fs)
       /\ \A i \in 1 .. Len(w \o fs) :
            \/ i \in 1 .. Len(w) /\ (w \o fs)[i] = w[i]
            \/ i - Len(w) \in 1 .. Len(fs) /\ (w \o fs)[i] = fs[i - Len(w)]
       /\ \A i \in 1 .. Len(w) : i \in 1 .. Len(w \o fs) /\ (w \o fs)[i] = w[i]
       /\ \A i \in 1 .. Len(fs) : Len(w) + i \in 1 .. Len(w \o fs) /\ (w \o fs)[Len(w) + i] = fs[i]
  <2> HIDE DEF w
  <2>. QED BY <1>2, <1>3, Places
<1>13. \A i \in 1 .. Len(Sent') : Sent'[i].t # "bye"
  <2>1. \A i \in 1 .. Len(w \o fs) : (w \o fs)[i].t # "bye"
    <3> HIDE DEF w
    <3>. QED BY <1>5, <1>7, <1>12
  <2>. QED BY <2>1, <1>4
<1>14. Life!Bye("exit").t = "bye"
  BY DEF Life!Bye
<1>15. PhaseInv'
  <2>1. Sent' # << >>
    <3>1. Len(w \o fs) # 0
      BY <1>2, <1>3, <1>12
    <3>. QED BY <3>1, <1>4
  <2>2. wire' \o out' # << >>
    BY <2>1 DEF Sent
  <2>3. /\ pc' = "loop" /\ (exit' => exited') /\ (exited' => child' = "dead")
        /\ (exit' /\ ~lost' => tty' = << >>)
    BY DEF RunnerInv, PhaseInv
  <2>. QED BY <1>13, <1>14, <2>2, <2>3 DEF PhaseInv
<1>16. FlowInv'
  <2>1. /\ SentBelow(w, data) /\ SentBelow(w, tty) /\ Below(data, tty)
        /\ \A i \in 1 .. Len(data) : data[i] <= made
        /\ \A i \in 1 .. Len(w) : Life!IsIo(w[i]) => w[i].n <= made
    BY DEF RunnerInv, FlowInv
  <2>2. /\ \A i \in 1 .. Len(e) : e[i] <= made
        /\ \A i \in 1 .. Len(w \o fs) : Life!IsIo((w \o fs)[i]) => (w \o fs)[i].n <= made
        /\ Below(e, tty) /\ SentBelow(w \o fs, e) /\ SentBelow(w \o fs, tty)
    <3> HIDE DEF w
    <3>. QED BY <1>2, <1>3, <1>6, <2>1, FlowGrows
  <2>3. Rising(e) /\ Rising(tty) /\ \A i \in 1 .. Len(tty) : tty[i] <= made
    BY DEF Fed, RunnerInv, FlowInv
  <2> HIDE DEF w
  <2>. QED BY <1>4, <2>2, <2>3 DEF FlowInv, SentBelow, Rising, Below
<1>17. Covered'
  <2>1. ASSUME ~lost, NEW n \in 1 .. made
        PROVE  In(n, tty) \/ In(n, e) \/ InFrames(n, w \o fs)
    <3>1. In(n, tty) \/ In(n, data) \/ InFrames(n, w)
      BY <2>1 DEF RunnerInv, Covered
    <3> HIDE DEF w
    <3>2. CASE In(n, tty)
      BY <3>2
    <3>3. CASE In(n, data)
      <4>1. In(n, e) \/ InFrames(n, fs)
        BY <3>3 DEF In, Fed
      <4>2. InFrames(n, fs) => InFrames(n, w \o fs)
        BY <1>12 DEF InFrames
      <4>. QED BY <4>1, <4>2
    <3>4. CASE InFrames(n, w)
      BY <3>4, <1>12 DEF InFrames
    <3>. QED BY <3>1, <3>2, <3>3, <3>4
  <2> HIDE DEF w
  <2>2. ~lost' => \A n \in 1 .. made' : In(n, tty') \/ In(n, data') \/ InFrames(n, Sent')
    BY <1>4, <2>1
  <2>3. \A i \in 1 .. Len(Sent') : Sent'[i] # Life!Bye("exit")
    BY <1>13, <1>14
  <2>. QED BY <2>2, <2>3 DEF Covered, In, InFrames
<1>. QED BY <1>10, <1>11, <1>15, <1>16, <1>17 DEF RunnerInv

\* The loop ends: records and a bye go into the queue as far as there is room.  A
\* bye that reports the exit finds its way in only behind everything else.
LEMMA BreakStep ==
  ASSUME RunnerInv, NEW fs, NEW e, Fed(fs, data, e), pc = "loop",
         NEW r \in Life!ByeReasons, r = "exit" => exit /\ e = << >>,
         out' = out \o Farewell(fs, r), pc' = "closing", data' = e, KillPty,
         UNCHANGED <<wire, writer, exited, exit, lost, made, tty>>
  PROVE  RunnerInv'
<1> DEFINE w == Sent
           gs == fs \o <<Life!Bye(r)>>
           q == Queued(gs)
<1>1. /\ gs \in Seq(Frames) /\ Draws(gs, data, e) /\ Life!InOrder(gs)
      /\ \A i \in 1 .. Len(gs) : gs[i] # Life!Hello
      /\ \A i \in 1 .. Len(gs) : gs[i].t = "bye" => i = Len(gs) /\ gs[i] = Life!Bye(r)
      /\ Len(gs) = Len(fs) + 1
      /\ \A i \in 1 .. Len(fs) : gs[i] = fs[i]
  BY FedWithBye
<1>2. out' = out \o q
  BY DEF Farewell
<1> HIDE DEF gs
<1>3. /\ q \in Seq(Frames) /\ Prefix(q, gs) /\ (~writer => q = << >>)
      /\ (Len(q) = Len(gs) => q = gs)
  BY <1>1, QueuedPrefix DEF RunnerInv
<1> HIDE DEF q
<1>4. /\ w \in Seq(Frames) /\ Len(w) \in Nat /\ e \in Seq(Chunk) /\ Len(fs) \in Nat
      /\ data \in Seq(Chunk) /\ tty \in Seq(Chunk) /\ made \in Nat
  <2>1. made \in Nat
    BY RunnerAssumption DEF RunnerInv, TypeInv
  <2>. QED BY <2>1, SentTyped DEF RunnerInv, TypeInv, Sent, Fed
<1>5. Sent' = w \o q /\ out' \in Seq(Frames)
  BY <1>2, <1>3, Appended DEF RunnerInv
<1>6. Draws(q, data, e)
  BY <1>1, <1>3, PrefixDraws
<1>7. \A i \in 1 .. Len(w) : w[i].t # "bye"
  BY DEF RunnerInv, PhaseInv
<1>8. Lawful(w) /\ SentBelow(w, data) /\ (writer => w # << >>)
  BY DEF RunnerInv, FlowInv, PhaseInv, Sent
<1>9. /\ Len(w \o q) = Len(w) + Len(q) /\ Len(q) \in Nat /\ w \o q \in Seq(Frames)
      /\ \A i \in 1 .. Len(w \o q) :
           \/ i \in 1 .. Len(w) /\ (w \o q)[i] = w[i]
           \/ i - Len(w) \in 1 .. Len(q) /\ (w \o q)[i] = q[i - Len(w)]
      /\ \A i \in 1 .. Len(w) : i \in 1 .. Len(w \o q) /\ (w \o q)[i] = w[i]
      /\ \A i \in 1 .. Len(q) : Len(w) + i \in 1 .. Len(w \o q) /\ (w \o q)[Len(w) + i] = q[i]
  <2> HIDE DEF w
  <2>. QED BY <1>3, <1>4, Places
<1>10. Lawful(w \o q)
  <2> HIDE DEF w
  <2>1. CASE writer
    <3>1. \A i \in 1 .. Len(w), j \in 1 .. Len(q) :
             Life!IsIo(w[i]) /\ Life!IsIo(q[j]) => w[i].n < q[j].n
      BY <1>6, <1>8 DEF SentBelow, Draws, In
    <3>2. \A i \in 1 .. Len(q) : i \in 1 .. Len(gs) /\ q[i] = gs[i]
      BY <1>1, <1>3, <1>9 DEF Prefix
    <3>3. \A i \in 1 .. Len(q) : q[i].t = "bye" => i = Len(q)
      <4> SUFFICES ASSUME NEW i \in 1 .. Len(q), q[i].t = "bye" PROVE i = Len(q)
        OBVIOUS
      <4>1. i = Len(gs) /\ Len(q) <= Len(gs)
        BY <3>2, <1>1, <1>3 DEF Prefix
      <4>. QED BY <4>1, <1>9
    <3>4. \A i \in 1 .. Len(q) : q[i] # Life!Hello
      BY <3>2, <1>1
    <3>5. Life!InOrder(q)
      <4>1. DOMAIN q = 1 .. Len(q) /\ DOMAIN gs = 1 .. Len(gs)
        BY <1>1, <1>3
      <4> SUFFICES ASSUME NEW i \in 1 .. Len(q), NEW j \in 1 .. Len(q), i < j,
                          Life!IsIo(q[i]), Life!IsIo(q[j])
                   PROVE  q[i].n < q[j].n
        BY <4>1 DEF Life!InOrder
      <4>2. i \in DOMAIN gs /\ j \in DOMAIN gs /\ q[i] = gs[i] /\ q[j] = gs[j]
        BY <3>2, <4>1
      <4>. QED BY <4>2, <1>1 DEF Life!InOrder
    <3>. QED BY <2>1, <1>3, <1>7, <1>8, <3>1, <3>3, <3>4, <3>5, GrowLawful
  <2>2. CASE ~writer
    BY <2>2, <1>3, <1>4, <1>8, ConcatEmptySeq
  <2>. QED BY <2>1, <2>2
<1>11. Lawful(Sent)'
  BY <1>5, <1>10 DEF Lawful
<1>12. child' \in {"none", "alive", "dead"} /\ (exited => child' = "dead")
  BY DEF KillPty, RunnerInv, TypeInv, PhaseInv
<1>13. TypeInv'
  BY <1>4, <1>5, <1>12 DEF RunnerInv, TypeInv
<1>14. /\ Life!Bye("exit").t = "bye"
       /\ Life!Bye("exit") = Life!Bye(r) => r = "exit"
  <2>1. Life!Bye("exit").reason = "exit" /\ Life!Bye(r).reason = r /\ Life!Bye("exit").t = "bye"
    BY DEF Life!Bye
  <2>. QED BY <2>1
<1>15. ASSUME NEW i \in 1 .. Len(w \o q), (w \o q)[i] = Life!Bye("exit")
       PROVE  r = "exit" /\ q = gs
  <2> HIDE DEF w
  <2>1. ~(i \in 1 .. Len(w) /\ (w \o q)[i] = w[i])
    BY <1>7, <1>14, <1>15
  <2>2. PICK j \in 1 .. Len(q) : q[j] = Life!Bye("exit")
    BY <1>9, <1>15, <2>1
  <2>3. j \in 1 .. Len(gs) /\ q[j] = gs[j]
    BY <1>1, <1>3, <1>9 DEF Prefix
  <2>4. j = Len(gs) /\ gs[j] = Life!Bye(r)
    BY <1>1, <1>14, <2>2, <2>3
  <2>5. Len(q) = Len(gs)
    BY <1>1, <1>3, <1>9, <2>4 DEF Prefix
  <2>. QED BY <1>3, <1>14, <2>2, <2>3, <2>4, <2>5
<1>16. PhaseInv'
  <2>1. \A i \in 1 .. Len(Sent') : Sent'[i] = Life!Bye("exit") => exit'
    <3>1. \A i \in 1 .. Len(w \o q) : (w \o q)[i] = Life!Bye("exit") => exit
      BY <1>15
    <3>. QED BY <3>1, <1>5
  <2>2. writer' => wire' \o out' # << >>
    <3>1. writer => Len(w \o q) # 0
      <4>1. writer => Len(w) # 0
        BY <1>4, <1>8
      <4>. QED BY <4>1, <1>4, <1>9
    <3>2. writer => w \o q # << >>
      BY <3>1
    <3>. QED BY <3>2, <1>5 DEF Sent
  <2>3. /\ (exit' => exited') /\ (exited' => child' = "dead")
        /\ (exit' /\ ~lost' => tty' = << >>)
    BY <1>12 DEF RunnerInv, PhaseInv
  <2>4. pc' = "closing" /\ pc' # "start"
    OBVIOUS
  <2>. QED BY <2>1, <2>2, <2>3, <2>4 DEF PhaseInv
<1>17. FlowInv'
  <2>1. /\ SentBelow(w, data) /\ SentBelow(w, tty) /\ Below(data, tty)
        /\ \A i \in 1 .. Len(data) : data[i] <= made
        /\ \A i \in 1 .. Len(w) : Life!IsIo(w[i]) => w[i].n <= made
    BY DEF RunnerInv, FlowInv
  <2>2. /\ \A i \in 1 .. Len(e) : e[i] <= made
        /\ \A i \in 1 .. Len(w \o q) : Life!IsIo((w \o q)[i]) => (w \o q)[i].n <= made
        /\ Below(e, tty) /\ SentBelow(w \o q, e) /\ SentBelow(w \o q, tty)
    <3> HIDE DEF w
    <3>. QED BY <1>4, <1>6, <2>1, FlowGrows
  <2>3. Rising(e) /\ Rising(tty) /\ \A i \in 1 .. Len(tty) : tty[i] <= made
    BY DEF Fed, RunnerInv, FlowInv
  <2> HIDE DEF w
  <2>. QED BY <1>5, <2>2, <2>3 DEF FlowInv, SentBelow, Rising, Below
<1>18. Covered'
  <2>1. ASSUME NEW i \in 1 .. Len(w \o q), (w \o q)[i] = Life!Bye("exit"), ~lost,
               NEW n \in 1 .. made
        PROVE  InFrames(n, w \o q)
    <3>1. r = "exit" /\ q = gs
      BY <1>15, <2>1
    <3>2. exit /\ e = << >> /\ tty = << >>
      BY <3>1, <2>1 DEF RunnerInv, PhaseInv
    <3>3. writer
      <4>1. Len(gs) # 0
        BY <1>1, <1>4
      <4>. QED BY <4>1, <3>1, <1>3
    <3>4. In(n, tty) \/ In(n, data) \/ InFrames(n, w)
      BY <2>1, <3>3 DEF RunnerInv, Covered
    <3>5. ~In(n, tty) /\ ~In(n, e)
      BY <3>2 DEF In
    <3> HIDE DEF w
    <3>6. In(n, data) => InFrames(n, fs)
      BY <3>5 DEF In, Fed
    <3>7. InFrames(n, fs) => InFrames(n, q)
      <4>1. \A j \in 1 .. Len(fs) : j \in 1 .. Len(gs)
        BY <1>1, <1>4
      <4>. QED BY <4>1, <3>1, <1>1 DEF InFrames
    <3>8. InFrames(n, q) => InFrames(n, w \o q)
      BY <1>9 DEF InFrames
    <3>9. InFrames(n, w) => InFrames(n, w \o q)
      BY <1>9 DEF InFrames
    <3>. QED BY <3>4, <3>5, <3>6, <3>7, <3>8, <3>9
  <2> HIDE DEF w
  <2>2. \A i \in 1 .. Len(Sent') :
           Sent'[i] = Life!Bye("exit") /\ ~lost' => \A n \in 1 .. made' : InFrames(n, Sent')
    BY <1>5, <2>1
  <2>. QED BY <2>2 DEF Covered, InFrames
<1>. QED BY <1>11, <1>13, <1>16, <1>17, <1>18 DEF RunnerInv

-----------------------------------------------------------------------------
(* The other steps.                                                        *)

\* The writer takes a frame from the queue to the socket.
LEMMA WriteStep ==
  ASSUME RunnerInv, writer, out # << >>, wire' = Append(wire, Head(out)), out' = Tail(out),
         UNCHANGED <<pc, writer, exited, exit, lost, child, made, tty, data>>
  PROVE  RunnerInv'
<1>1. wire \in Seq(Frames) /\ out \in Seq(Frames)
  BY DEF RunnerInv, TypeInv
<1>2. /\ wire' \in Seq(Frames) /\ out' \in Seq(Frames)
      /\ wire' \o out' = wire \o out
  BY <1>1
<1>3. Sent' = Sent
  BY <1>2 DEF Sent
<1>4. TypeInv'
  BY <1>2 DEF RunnerInv, TypeInv
<1>5. PhaseInv'
  BY <1>2, <1>3 DEF RunnerInv, PhaseInv
<1>6. Lawful(Sent)'
  BY <1>3 DEF RunnerInv, Lawful
<1>7. FlowInv'
  BY <1>3 DEF RunnerInv, FlowInv, Rising, Below, SentBelow
<1>8. Covered'
  BY <1>3 DEF RunnerInv, Covered, In, InFrames
<1>. QED BY <1>4, <1>5, <1>6, <1>7, <1>8 DEF RunnerInv

\* Nothing that the invariant speaks of.
LEMMA OtherStep ==
  ASSUME RunnerInv, UNCHANGED invVars
  PROVE  RunnerInv'
<1>1. Sent' = Sent
  BY DEF Sent, invVars
<1>2. TypeInv'
  BY DEF RunnerInv, TypeInv, invVars
<1>3. PhaseInv'
  BY <1>1 DEF RunnerInv, PhaseInv, invVars
<1>4. Lawful(Sent)'
  BY <1>1 DEF RunnerInv, Lawful
<1>5. FlowInv'
  BY <1>1 DEF RunnerInv, FlowInv, Rising, Below, SentBelow, invVars
<1>6. Covered'
  BY <1>1 DEF RunnerInv, Covered, In, InFrames, invVars
<1>. QED BY <1>2, <1>3, <1>4, <1>5, <1>6 DEF RunnerInv

\* The hello is the first frame.
LEMMA StartStep ==
  ASSUME RunnerInv, Start
  PROVE  RunnerInv'
<1>1. /\ pc = "start" /\ pc' = "loop" /\ child' = "alive" /\ writer' = TRUE
      /\ out' = <<Life!Hello>>
      /\ UNCHANGED <<wire, tty, data, exited, exit, made, lost>>
  BY DEF Start, Connected, StartHooks, SpawnPty, counts
<1>2. wire = << >> /\ made = 0 /\ child = "none" /\ ~exited /\ ~exit
  BY <1>1 DEF RunnerInv, PhaseInv
<1>3. Life!Hello \in Frames /\ ~Life!IsIo(Life!Hello) /\ Life!Hello.t = "hello"
      /\ Life!Hello # Life!Bye("exit")
  <2>1. Life!Bye("exit").t = "bye"
    BY DEF Life!Bye
  <2>. QED BY <2>1, FrameKinds
<1>4. out' \in Seq(Frames) /\ Sent' = <<Life!Hello>>
  BY <1>1, <1>2, <1>3 DEF Sent
<1>5. Len(Sent') = 1 /\ Sent'[1] = Life!Hello /\ DOMAIN Sent' = 1 .. 1 /\ Sent' # << >>
      /\ Sent' \in Seq(Frames)
  BY <1>3, <1>4
<1>6. \A i \in 1 .. Len(Sent') : Sent'[i] = Life!Hello
  BY <1>5
<1>7. writer' \in BOOLEAN
  BY <1>1, Zenon
<1>8. TypeInv'
  BY <1>1, <1>4, <1>7 DEF RunnerInv, TypeInv
<1>9. PhaseInv'
  BY <1>1, <1>2, <1>3, <1>5, <1>6 DEF RunnerInv, PhaseInv, Sent
<1>10. Lawful(Sent)'
  BY <1>3, <1>5, <1>6 DEF Lawful, Life!InOrder
<1>11. FlowInv'
  BY <1>1, <1>3, <1>6 DEF RunnerInv, FlowInv, Rising, Below, SentBelow
<1>12. Covered'
  BY <1>1, <1>2, <1>3, <1>6 DEF Covered
<1>. QED BY <1>8, <1>9, <1>10, <1>11, <1>12 DEF RunnerInv

\* A run that fails before the loop has written nothing.
LEMMA StartFailsStep ==
  ASSUME RunnerInv, StartFails
  PROVE  RunnerInv'
<1>1. /\ pc = "start" /\ pc' = "over"
      /\ UNCHANGED <<wire, out, writer, tty, data, exited, exit, made, lost, child>>
  BY DEF StartFails, connVars, ptyVars, counts
<1>2. Sent' = Sent
  BY <1>1 DEF Sent
<1>3. TypeInv'
  BY <1>1 DEF RunnerInv, TypeInv
<1>4. PhaseInv'
  BY <1>1, <1>2 DEF RunnerInv, PhaseInv
<1>5. Lawful(Sent)'
  BY <1>2 DEF RunnerInv, Lawful
<1>6. FlowInv'
  BY <1>1, <1>2 DEF RunnerInv, FlowInv, Rising, Below, SentBelow
<1>7. Covered'
  BY <1>1, <1>2 DEF RunnerInv, Covered, In, InFrames
<1>. QED BY <1>3, <1>4, <1>5, <1>6, <1>7 DEF RunnerInv

\* A new chunk is larger than all others, and claude is alive: no exit is reported.
LEMMA ClaudeWritesStep ==
  ASSUME RunnerInv, ClaudeWrites
  PROVE  RunnerInv'
<1> DEFINE m == made + 1
<1>1. /\ child = "alive" /\ made < Chunks /\ made' = m /\ tty' = Append(tty, m)
      /\ UNCHANGED <<pc, wire, out, writer, data, exited, exit, lost, child>>
  BY DEF ClaudeWrites, connVars
<1>2. Sent' = Sent
  BY <1>1 DEF Sent
<1>3. made \in Nat /\ Chunks \in Nat /\ m \in Chunk /\ m \in Nat
  BY RunnerAssumption DEF RunnerInv, TypeInv, Chunk
<1>4. tty \in Seq(Chunk) /\ data \in Seq(Chunk) /\ Sent \in Seq(Frames)
  BY SentTyped DEF RunnerInv, TypeInv
<1>5. /\ tty' \in Seq(Chunk) /\ Len(tty') = Len(tty) + 1 /\ Len(tty) \in Nat
      /\ \A i \in 1 .. Len(tty) : tty'[i] = tty[i]
      /\ tty'[Len(tty) + 1] = m
  BY <1>1, <1>3, <1>4, AppendProperties
<1>6. \A i \in 1 .. Len(tty') : i \in 1 .. Len(tty) \/ i = Len(tty) + 1
  BY <1>5
<1>7. ~exited /\ ~exit
  BY <1>1 DEF RunnerInv, PhaseInv
<1>8. TypeInv'
  <2>1. made' \in 0 .. Chunks
    BY <1>1, <1>3
  <2>. QED BY <1>1, <1>5, <2>1 DEF RunnerInv, TypeInv
<1>9. PhaseInv'
  <2>1. pc # "start"
    BY <1>1 DEF RunnerInv, PhaseInv
  <2>. QED BY <1>1, <1>2, <1>7, <2>1 DEF RunnerInv, PhaseInv
<1>10. Lawful(Sent)'
  BY <1>2 DEF RunnerInv, Lawful
<1>11. FlowInv'
  <2>1. /\ \A i \in 1 .. Len(tty) : tty[i] <= made /\ tty[i] \in Nat
        /\ \A i \in 1 .. Len(data) : data[i] <= made /\ data[i] \in Nat
        /\ \A i \in 1 .. Len(Sent) : Life!IsIo(Sent[i]) => Sent[i].n <= made /\ Sent[i].n \in Nat
    <3>1. \A i \in 1 .. Len(Sent) : Life!IsIo(Sent[i]) => Sent[i].n \in Chunk
      BY <1>4, FrameKinds
    <3>. QED BY <1>4, <3>1 DEF RunnerInv, FlowInv, Chunk
  <2>2. \A i \in 1 .. Len(tty') : tty'[i] <= m
    BY <1>3, <1>5, <1>6, <2>1
  <2>3. Rising(tty')
    <3> SUFFICES ASSUME NEW i \in 1 .. Len(tty'), NEW j \in 1 .. Len(tty'), i < j
                 PROVE  tty'[i] < tty'[j]
      BY DEF Rising
    <3>1. i \in 1 .. Len(tty) /\ tty'[i] = tty[i] /\ tty[i] < m
      BY <1>3, <1>5, <1>6, <2>1
    <3>2. CASE j \in 1 .. Len(tty)
      BY <3>1, <3>2, <1>5 DEF RunnerInv, FlowInv, Rising
    <3>3. CASE j = Len(tty) + 1
      BY <3>1, <3>3, <1>5
    <3>. QED BY <3>2, <3>3, <1>6
  <2>4. Below(data, tty')
    <3> SUFFICES ASSUME NEW i \in 1 .. Len(data), NEW j \in 1 .. Len(tty')
                 PROVE  data[i] < tty'[j]
      BY DEF Below
    <3>1. CASE j \in 1 .. Len(tty)
      BY <3>1, <1>5 DEF RunnerInv, FlowInv, Below
    <3>2. CASE j = Len(tty) + 1
      BY <3>2, <1>3, <1>5, <2>1
    <3>. QED BY <3>1, <3>2, <1>6
  <2>5. SentBelow(Sent, tty')
    <3> SUFFICES ASSUME NEW i \in 1 .. Len(Sent), NEW j \in 1 .. Len(tty'), Life!IsIo(Sent[i])
                 PROVE  Sent[i].n < tty'[j]
      BY DEF SentBelow
    <3>1. CASE j \in 1 .. Len(tty)
      BY <3>1, <1>5 DEF RunnerInv, FlowInv, SentBelow
    <3>2. CASE j = Len(tty) + 1
      BY <3>2, <1>3, <1>5, <2>1
    <3>. QED BY <3>1, <3>2, <1>6
  <2>6. /\ \A i \in 1 .. Len(data) : data[i] <= m
        /\ \A i \in 1 .. Len(Sent) : Life!IsIo(Sent[i]) => Sent[i].n <= m
    BY <1>3, <2>1
  <2>7. Rising(data) /\ SentBelow(Sent, data)
    BY DEF RunnerInv, FlowInv
  <2>8. data' = data /\ made' = m
    BY <1>1
  <2> HIDE DEF m
  <2>9. Rising(data') /\ Below(data', tty') /\ SentBelow(Sent', data') /\ SentBelow(Sent', tty')
        /\ Rising(tty')
    BY <1>2, <2>3, <2>4, <2>5, <2>7, <2>8
  <2>. QED BY <1>2, <2>2, <2>6, <2>8, <2>9 DEF FlowInv, Rising, Below, SentBelow
<1>12. Covered'
  <2>1. ASSUME pc \in {"loop", "writing"}, writer, ~lost, NEW n \in 1 .. m
        PROVE  In(n, tty') \/ In(n, data) \/ InFrames(n, Sent)
    <3>1. CASE n = m
      <4>1. Len(tty) + 1 \in 1 .. Len(tty')
        BY <1>5
      <4>. QED BY <3>1, <4>1, <1>5 DEF In
    <3>2. CASE n # m
      <4>1. n \in 1 .. made
        BY <3>2, <1>3
      <4>2. In(n, tty) \/ In(n, data) \/ InFrames(n, Sent)
        BY <2>1, <4>1 DEF RunnerInv, Covered
      <4>3. \A i \in 1 .. Len(tty) : i \in 1 .. Len(tty')
        BY <1>5
      <4>. QED BY <4>2, <4>3, <1>5 DEF In
    <3>. QED BY <3>1, <3>2
  <2>2. \A i \in 1 .. Len(Sent) : Sent[i] # Life!Bye("exit")
    BY <1>7 DEF RunnerInv, PhaseInv
  <2> HIDE DEF m
  <2>. QED BY <1>1, <1>2, <2>1, <2>2 DEF Covered, In, InFrames
<1>. QED BY <1>8, <1>9, <1>10, <1>11, <1>12 DEF RunnerInv

\* The terminal's reader moves the first chunk to the end of the channel, or drops
\* it and leaves the mark that something is missing.
LEMMA ReadTtyStep ==
  ASSUME RunnerInv, ReadTty
  PROVE  RunnerInv'
<1>1. /\ tty # << >> /\ tty' = Tail(tty)
      /\ UNCHANGED <<pc, wire, out, writer, exited, exit, made, child>>
      /\ \/ data' = Append(data, Head(tty)) /\ lost' = lost
         \/ lost' = TRUE /\ data' = data
  BY DEF ReadTty, connVars, counts
<1>2. Sent' = Sent
  BY <1>1 DEF Sent
<1>3. tty \in Seq(Chunk) /\ data \in Seq(Chunk) /\ made \in Nat
  BY RunnerAssumption DEF RunnerInv, TypeInv
<1>4. /\ tty' \in Seq(Chunk) /\ Len(tty') = Len(tty) - 1 /\ Len(tty) \in Nat \ {0}
      /\ Head(tty) = tty[1] /\ tty[1] \in Chunk
      /\ \A i \in 1 .. Len(tty') : tty'[i] = tty[i + 1]
  BY <1>1, <1>3, HeadTailProperties
<1>5. lost' \in BOOLEAN /\ (lost => lost')
  <2>1. lost \in BOOLEAN
    BY DEF RunnerInv, TypeInv
  <2>2. lost' = lost \/ lost' = TRUE
    BY <1>1, Zenon
  <2>. QED BY <2>1, <2>2, Zenon
<1>6. /\ \A i \in 1 .. Len(tty') : i + 1 \in 1 .. Len(tty) /\ tty'[i] = tty[i + 1] /\ 1 < i + 1
      /\ 1 \in 1 .. Len(tty)
  BY <1>4
<1>7. data' \in Seq(Chunk)
  <2>1. data' = Append(data, Head(tty)) \/ data' = data
    BY <1>1, Zenon
  <2>2. \A c \in Chunk : Append(data, c) \in Seq(Chunk)
    BY <1>3
  <2>. QED BY <2>1, <2>2, <1>3, <1>4
<1>8. TypeInv'
  BY <1>1, <1>4, <1>5, <1>7 DEF RunnerInv, TypeInv
<1>9. PhaseInv'
  <2>1. exit /\ ~lost' => FALSE
    BY <1>1, <1>5 DEF RunnerInv, PhaseInv
  <2>. QED BY <1>1, <1>2, <2>1 DEF RunnerInv, PhaseInv
<1>10. Lawful(Sent)'
  BY <1>2 DEF RunnerInv, Lawful
<1>11. /\ Rising(tty) /\ Rising(data) /\ Below(data, tty)
       /\ SentBelow(Sent, data) /\ SentBelow(Sent, tty)
       /\ \A i \in 1 .. Len(tty) : tty[i] <= made
       /\ \A i \in 1 .. Len(data) : data[i] <= made
       /\ \A i \in 1 .. Len(Sent) : Life!IsIo(Sent[i]) => Sent[i].n <= made
  BY DEF RunnerInv, FlowInv
<1>12. /\ Rising(tty') /\ SentBelow(Sent, tty') /\ Below(data, tty')
       /\ \A i \in 1 .. Len(tty') : tty'[i] <= made /\ tty[1] < tty'[i]
  <2>1. Rising(tty')
    <3> SUFFICES ASSUME NEW i \in 1 .. Len(tty'), NEW j \in 1 .. Len(tty'), i < j
                 PROVE  tty'[i] < tty'[j]
      BY DEF Rising
    <3>1. i + 1 < j + 1
      BY <1>4
    <3>. QED BY <3>1, <1>6, <1>11 DEF Rising
  <2>2. SentBelow(Sent, tty') /\ Below(data, tty')
    BY <1>6, <1>11 DEF SentBelow, Below
  <2>3. \A i \in 1 .. Len(tty') : tty'[i] <= made /\ tty[1] < tty'[i]
    BY <1>6, <1>11 DEF Rising
  <2>. QED BY <2>1, <2>2, <2>3
<1>13. CASE lost' = TRUE /\ data' = data
  <2>1. FlowInv'
    BY <1>1, <1>2, <1>11, <1>12, <1>13 DEF FlowInv, Rising, Below, SentBelow
  <2>2. lost'
    BY <1>13, Zenon
  <2>3. Covered'
    BY <2>2 DEF Covered
  <2>. QED BY <1>8, <1>9, <1>10, <2>1, <2>3 DEF RunnerInv
<1>14. CASE data' = Append(data, Head(tty)) /\ lost' = lost
  <2>1. /\ Len(data') = Len(data) + 1 /\ Len(data) \in Nat
        /\ \A i \in 1 .. Len(data) : data'[i] = data[i]
        /\ data'[Len(data) + 1] = tty[1]
    BY <1>3, <1>4, <1>14, AppendProperties
  <2>2. \A i \in 1 .. Len(data') : i \in 1 .. Len(data) \/ i = Len(data) + 1
    BY <2>1
  <2>3. Rising(data')
    <3> SUFFICES ASSUME NEW i \in 1 .. Len(data'), NEW j \in 1 .. Len(data'), i < j
                 PROVE  data'[i] < data'[j]
      BY DEF Rising
    <3>1. i \in 1 .. Len(data)
      BY <2>1, <2>2
    <3>2. CASE j \in 1 .. Len(data)
      BY <3>1, <3>2, <2>1, <1>11 DEF Rising
    <3>3. CASE j = Len(data) + 1
      BY <3>1, <3>3, <2>1, <1>6, <1>11 DEF Below
    <3>. QED BY <3>2, <3>3, <2>2
  <2>4. \A i \in 1 .. Len(data') : data'[i] <= made
    <3>1. tty[1] <= made
      BY <1>6, <1>11
    <3>. QED BY <3>1, <2>1, <2>2, <1>11
  <2>5. Below(data', tty')
    <3> SUFFICES ASSUME NEW i \in 1 .. Len(data'), NEW j \in 1 .. Len(tty')
                 PROVE  data'[i] < tty'[j]
      BY DEF Below
    <3>1. CASE i \in 1 .. Len(data)
      BY <3>1, <2>1, <1>12 DEF Below
    <3>2. CASE i = Len(data) + 1
      BY <3>2, <2>1, <1>12
    <3>. QED BY <3>1, <3>2, <2>2
  <2>6. SentBelow(Sent, data')
    <3> SUFFICES ASSUME NEW i \in 1 .. Len(Sent), NEW j \in 1 .. Len(data'), Life!IsIo(Sent[i])
                 PROVE  Sent[i].n < data'[j]
      BY DEF SentBelow
    <3>1. CASE j \in 1 .. Len(data)
      BY <3>1, <2>1, <1>11 DEF SentBelow
    <3>2. CASE j = Len(data) + 1
      BY <3>2, <2>1, <1>6, <1>11 DEF SentBelow
    <3>. QED BY <3>1, <3>2, <2>2
  <2>7. FlowInv'
    <3>1. SentBelow(Sent', data') /\ SentBelow(Sent', tty') /\ made' = made
      BY <1>1, <1>2, <1>12, <2>6
    <3>2. /\ \A i \in 1 .. Len(tty') : tty'[i] <= made'
          /\ \A i \in 1 .. Len(data') : data'[i] <= made'
          /\ \A i \in 1 .. Len(Sent') : Life!IsIo(Sent'[i]) => Sent'[i].n <= made'
      BY <1>2, <1>11, <1>12, <2>4, <3>1
    <3>. QED BY <1>12, <2>3, <2>5, <3>1, <3>2 DEF FlowInv, Rising, Below, SentBelow
  <2>8. Covered'
    <3>1. ASSUME pc \in {"loop", "writing"}, writer, ~lost, NEW n \in 1 .. made
          PROVE  In(n, tty') \/ In(n, data') \/ InFrames(n, Sent)
      <4>1. In(n, tty) \/ In(n, data) \/ InFrames(n, Sent)
        BY <3>1 DEF RunnerInv, Covered
      <4>2. In(n, data) => In(n, data')
        <5>1. \A i \in 1 .. Len(data) : i \in 1 .. Len(data') /\ data'[i] = data[i]
          BY <2>1
        <5>. QED BY <5>1 DEF In
      <4>3. In(n, tty) => In(n, tty') \/ In(n, data')
        <5> SUFFICES ASSUME NEW i \in 1 .. Len(tty), tty[i] = n
                     PROVE  In(n, tty') \/ In(n, data')
          BY DEF In
        <5>1. CASE i = 1
          <6>1. Len(data) + 1 \in 1 .. Len(data') /\ data'[Len(data) + 1] = n
            BY <5>1, <2>1
          <6>. QED BY <6>1 DEF In
        <5>2. CASE i # 1
          <6>1. i - 1 \in 1 .. Len(tty') /\ tty'[i - 1] = n
            BY <5>2, <1>4
          <6>. QED BY <6>1 DEF In
        <5>. QED BY <5>1, <5>2
      <4>. QED BY <4>1, <4>2, <4>3
    <3>2. \A i \in 1 .. Len(Sent) :
             Sent[i] = Life!Bye("exit") /\ ~lost => \A n \in 1 .. made : InFrames(n, Sent)
      BY DEF RunnerInv, Covered
    <3>. QED BY <1>1, <1>2, <1>14, <3>1, <3>2 DEF Covered, In, InFrames
  <2>. QED BY <1>8, <1>9, <1>10, <2>7, <2>8 DEF RunnerInv
<1>. QED BY <1>1, <1>13, <1>14

\* Claude's end and its report: a report with chunks still on the terminal leaves
\* the mark that something is missing.
LEMMA ClaudeEndsStep ==
  ASSUME RunnerInv, ClaudeExits \/ WaiterReaps \/ WaiterReports
  PROVE  RunnerInv'
<1>1. UNCHANGED <<pc, wire, out, writer, tty, data, made>>
  BY DEF ClaudeExits, WaiterReaps, WaiterReports, connVars, counts
<1>2. Sent' = Sent
  BY <1>1 DEF Sent
<1>3. lost \in BOOLEAN /\ exit \in BOOLEAN /\ exited \in BOOLEAN
  BY DEF RunnerInv, TypeInv
<1>4. /\ lost' \in BOOLEAN /\ exit' \in BOOLEAN /\ exited' \in BOOLEAN
      /\ child' \in {"none", "alive", "dead"} /\ (lost => lost') /\ (exit => exit')
      /\ (exit' => exited') /\ (exited' => child' = "dead")
      /\ (exit' /\ ~lost' => tty = << >>)
      /\ (pc = "start" => child' = "none")
  <2>1. CASE ClaudeExits
    BY <1>3, <2>1 DEF ClaudeExits, RunnerInv, PhaseInv
  <2>2. CASE WaiterReaps
    <3>1. exited' = TRUE /\ child = "dead" /\ UNCHANGED <<child, exit, lost>>
      BY <2>2 DEF WaiterReaps
    <3>2. exited' /\ exited' \in BOOLEAN
      BY <3>1, Zenon
    <3>. QED BY <1>3, <3>1, <3>2 DEF RunnerInv, PhaseInv
  <2>3. CASE WaiterReports
    <3>1. exit' = TRUE /\ exited /\ lost' = (lost \/ tty # << >>) /\ UNCHANGED <<child, exited>>
      BY <2>3 DEF WaiterReports
    <3>2. exit' /\ exit' \in BOOLEAN /\ lost' \in BOOLEAN /\ (lost => lost')
          /\ (~lost' => tty = << >>)
      BY <3>1, Zenon
    <3>. QED BY <1>3, <3>1, <3>2 DEF RunnerInv, PhaseInv, TypeInv
  <2>. QED BY <2>1, <2>2, <2>3
<1>5. TypeInv'
  BY <1>1, <1>4 DEF RunnerInv, TypeInv
<1>6. PhaseInv'
  BY <1>1, <1>2, <1>4 DEF RunnerInv, PhaseInv
<1>7. Lawful(Sent)'
  BY <1>2 DEF RunnerInv, Lawful
<1>8. FlowInv'
  BY <1>1, <1>2 DEF RunnerInv, FlowInv, Rising, Below, SentBelow
<1>9. Covered'
  BY <1>1, <1>2, <1>4 DEF RunnerInv, Covered, In, InFrames
<1>. QED BY <1>5, <1>6, <1>7, <1>8, <1>9 DEF RunnerInv

\* One record that finds room has a writer.
LEMMA RoomHasWriter ==
  ASSUME RunnerInv, NEW f \in Frames, ~SendFails(<<f>>)
  PROVE  writer
<1>1. <<f>> \in Seq(Frames) /\ <<f>> # << >>
  OBVIOUS
<1>2. ~writer => Queued(<<f>>) = << >>
  BY <1>1, QueuedPrefix DEF RunnerInv
<1>. QED BY <1>1, <1>2 DEF SendFails

\* The arms of the loop that forward records.
LEMMA ForwardStep ==
  ASSUME RunnerInv, RecvHook \/ RecvData
  PROVE  RunnerInv'
<1>1. data \in Seq(Chunk) /\ Rising(data) /\ pc = "loop"
  BY DEF RecvHook, RecvData, RunnerInv, TypeInv, FlowInv
<1>2. "signal" \in Life!ByeReasons /\ "signal" # "exit"
  BY DEF Life!ByeReasons
<1>3. CASE RecvHook
  <2>1. /\ UNCHANGED <<wire, writer, tty, data, exited, exit, made, lost>>
        /\ \/ SendFails(<<Life!Event>>) /\ Break(<<Life!Event>>, "signal")
           \/ ~SendFails(<<Life!Event>>) /\ Continue(<<Life!Event>>)
    BY <1>3 DEF RecvHook, connVars, counts
  <2>2. Fed(<<Life!Event>>, data, data) /\ Life!Event \in Frames
    BY <1>1, FedEvent, FrameKinds
  <2>3. CASE Break(<<Life!Event>>, "signal")
    <3>1. /\ pc' = "closing" /\ KillPty
          /\ out' = out \o Farewell(<<Life!Event>>, "signal")
      BY <2>3 DEF Break
    <3>. QED BY <1>1, <1>2, <2>1, <2>2, <3>1, BreakStep
  <2>4. CASE ~SendFails(<<Life!Event>>) /\ Continue(<<Life!Event>>)
    <3>1. writer
      BY <2>2, <2>4, RoomHasWriter
    <3>2. out' = out \o <<Life!Event>> /\ UNCHANGED <<pc, child>>
      BY <2>4 DEF Continue
    <3>. QED BY <1>1, <2>1, <2>2, <3>1, <3>2, ContinueStep
  <2>. QED BY <2>1, <2>3, <2>4
<1>4. CASE RecvData
  <2> DEFINE f == Life!Io(Head(data))
             e == Tail(data)
  <2>1. /\ data # << >> /\ data' = e
        /\ UNCHANGED <<wire, writer, tty, exited, exit, made, lost>>
        /\ \/ SendFails(<<f>>) /\ Break(<<f>>, "signal")
           \/ ~SendFails(<<f>>) /\ Continue(<<f>>)
    BY <1>4 DEF RecvData, Forward, connVars, counts
  <2>2. Fed(<<f>>, data, e) /\ f \in Frames
    <3>1. Head(data) \in Chunk
      BY <1>1, <2>1
    <3>. QED BY <1>1, <2>1, <3>1, FedIo, FrameKinds
  <2> HIDE DEF f, e
  <2>3. CASE Break(<<f>>, "signal")
    <3>1. /\ pc' = "closing" /\ KillPty
          /\ out' = out \o Farewell(<<f>>, "signal")
      BY <2>3 DEF Break
    <3>. QED BY <1>1, <1>2, <2>1, <2>2, <3>1, BreakStep
  <2>4. CASE ~SendFails(<<f>>) /\ Continue(<<f>>)
    <3>1. writer
      BY <2>2, <2>4, RoomHasWriter
    <3>2. out' = out \o <<f>> /\ UNCHANGED <<pc, child>>
      BY <2>4 DEF Continue
    <3>. QED BY <1>1, <2>1, <2>2, <3>1, <3>2, ContinueStep
  <2>. QED BY <2>1, <2>3, <2>4
<1>. QED BY <1>3, <1>4

\* The arms of the loop that end it.
LEMMA EndStep ==
  ASSUME RunnerInv, RecvExit \/ RecvClosed \/ RecvSignal
  PROVE  RunnerInv'
<1>1. data \in Seq(Chunk) /\ Rising(data) /\ pc = "loop"
  BY DEF RecvExit, RecvClosed, RecvSignal, RunnerInv, TypeInv, FlowInv
<1>2. "signal" \in Life!ByeReasons /\ "signal" # "exit" /\ "exit" \in Life!ByeReasons
  BY DEF Life!ByeReasons
<1>3. CASE RecvExit
  <2>1. /\ exit /\ data' = << >> /\ pc' = "closing" /\ KillPty
        /\ out' = out \o Farewell(Drained, "exit")
        /\ UNCHANGED <<wire, writer, tty, exited, exit, made, lost>>
    BY <1>3 DEF RecvExit, Break, connVars, counts
  <2>2. Fed(Drained, data, << >>)
    BY <1>1, FedDrained
  <2>. QED BY <1>1, <1>2, <2>1, <2>2, BreakStep
<1>4. CASE RecvClosed \/ RecvSignal
  <2>1. /\ data' = data /\ pc' = "closing" /\ KillPty
        /\ out' = out \o Farewell(<< >>, "signal")
        /\ UNCHANGED <<wire, writer, tty, exited, exit, made, lost>>
    BY <1>4 DEF RecvClosed, RecvSignal, Break, connVars, counts
  <2>2. Fed(<< >>, data, data)
    BY <1>1, FedNothing
  <2>. QED BY <1>1, <1>2, <2>1, <2>2, BreakStep
<1>. QED BY <1>3, <1>4

-----------------------------------------------------------------------------
(* The theorems.                                                           *)

\* The invariant holds before the runner has started.
LEMMA RunnerInvInit == Init => RunnerInv
<1> SUFFICES ASSUME Init PROVE RunnerInv
  OBVIOUS
<1>1. /\ pc = "start" /\ child = "none" /\ out = << >> /\ wire = << >> /\ tty = << >>
      /\ data = << >> /\ made = 0 /\ writer = FALSE /\ exited = FALSE /\ exit = FALSE
      /\ lost = FALSE
  BY DEF Init
<1>2. /\ writer \in BOOLEAN /\ exited \in BOOLEAN /\ exit \in BOOLEAN /\ lost \in BOOLEAN
      /\ ~writer /\ ~exited /\ ~exit
  BY <1>1, Zenon
<1>3. /\ << >> \in Seq(Frames) /\ << >> \in Seq(Chunk) /\ Len(<< >>) = 0
      /\ << >> \o << >> = << >> /\ 0 \in 0 .. Chunks
  BY RunnerAssumption
<1>4. Sent = << >>
  BY <1>1, <1>3 DEF Sent
<1>5. TypeInv
  BY <1>1, <1>2, <1>3 DEF TypeInv
<1>6. PhaseInv
  BY <1>1, <1>2, <1>3, <1>4 DEF PhaseInv
<1>7. Lawful(Sent)
  BY <1>3, <1>4 DEF Lawful, Life!InOrder
<1>8. FlowInv
  BY <1>1, <1>3, <1>4 DEF FlowInv, Rising, Below, SentBelow
<1>9. Covered
  BY <1>1, <1>3, <1>4 DEF Covered
<1>. QED BY <1>5, <1>6, <1>7, <1>8, <1>9 DEF RunnerInv

\* The loop goes into a write to the terminal, or comes back from it.
LEMMA PtyWriteStep ==
  ASSUME RunnerInv, RecvInbound \/ PtyWritten
  PROVE  RunnerInv'
<1>1. /\ pc \in {"loop", "writing"} /\ pc' \in {"loop", "writing"}
      /\ UNCHANGED <<writer, exited, exit, lost, child, made, wire, out, tty, data>>
  BY DEF RecvInbound, PtyWritten, connVars, ptyVars, counts
<1>2. Sent' = Sent
  BY <1>1 DEF Sent
<1>3. TypeInv'
  BY <1>1 DEF RunnerInv, TypeInv
<1>4. PhaseInv'
  BY <1>1, <1>2 DEF RunnerInv, PhaseInv
<1>5. Lawful(Sent)' /\ FlowInv'
  BY <1>1, <1>2 DEF RunnerInv, FlowInv
<1>6. Covered'
  BY <1>1, <1>2 DEF RunnerInv, Covered
<1>. QED BY <1>3, <1>4, <1>5, <1>6 DEF RunnerInv

\* Every step preserves it.
LEMMA RunnerInvStep == RunnerInv /\ [Next]_vars => RunnerInv'
<1> SUFFICES ASSUME RunnerInv, [Next]_vars PROVE RunnerInv'
  OBVIOUS
<1>1. CASE Start
  BY <1>1, StartStep
<1>2. CASE StartFails
  BY <1>2, StartFailsStep
<1>3. CASE Signal \/ (\E m \in Inbound : DaemonSends(m)) \/ DaemonCloses \/ ReaderEnds
           \/ HookArrives \/ ReaderThreadEnds \/ RecvNone
  <2>1. UNCHANGED invVars
    BY <1>3 DEF Signal, DaemonSends, DaemonCloses, ReaderEnds, HookArrives, ReaderThreadEnds,
                RecvNone, invVars, connVars, ptyVars, counts
  <2>. QED BY <2>1, OtherStep
<1>4. CASE Write
  <2>1. /\ writer /\ out # << >>
        /\ UNCHANGED <<pc, tty, data, exited, exit, child, made, lost>>
        /\ \/ wire' = Append(wire, Head(out)) /\ out' = Tail(out) /\ UNCHANGED writer
           \/ writer' = FALSE /\ out' = << >> /\ UNCHANGED wire
    BY <1>4 DEF Write, ptyVars, counts
  <2>2. CASE wire' = Append(wire, Head(out)) /\ out' = Tail(out) /\ UNCHANGED writer
    BY <2>1, <2>2, WriteStep
  <2>3. CASE writer' = FALSE /\ out' = << >> /\ UNCHANGED wire
    <3>1. pc # "start"
      BY <2>1 DEF RunnerInv, PhaseInv
    <3>. QED BY <2>1, <2>3, <3>1, CutStep
  <2>. QED BY <2>1, <2>2, <2>3
<1>5. CASE ClaudeWrites
  BY <1>5, ClaudeWritesStep
<1>6. CASE ReadTty
  BY <1>6, ReadTtyStep
<1>7. CASE ClaudeExits \/ WaiterReaps \/ WaiterReports
  BY <1>7, ClaudeEndsStep
<1>8. CASE RecvHook \/ RecvData
  BY <1>8, ForwardStep
<1>9. CASE RecvExit \/ RecvClosed \/ RecvSignal
  BY <1>9, EndStep
<1>10. CASE Leave \/ Killed
  <2>1. /\ wire' = wire /\ out' = << >> /\ writer' = FALSE /\ pc' = "over"
        /\ UNCHANGED <<made, tty, data, lost, exit, exited, child>>
    BY <1>10 DEF Leave, Killed, ptyVars, counts
  <2>. QED BY <2>1, CutStep
<1>11. CASE UNCHANGED vars
  <2>1. UNCHANGED invVars
    BY <1>11 DEF vars, invVars, connVars, ptyVars, counts
  <2>. QED BY <2>1, OtherStep
<1>12. CASE RecvInbound \/ PtyWritten
  BY <1>12, PtyWriteStep
<1>. QED BY <1>1, <1>2, <1>3, <1>4, <1>5, <1>6, <1>7, <1>8, <1>9, <1>10, <1>11, <1>12 DEF Next, Arms

\* The invariant holds in every state of a runner.
THEOREM RunnerInvariant == Spec => []RunnerInv
<1>. QED BY RunnerInvInit, RunnerInvStep, PTL DEF Spec

\* For every number of chunks and every capacity of the channels: a bye that
\* reports claude's exit comes after each of claude's chunks, in order and once,
\* unless the terminal's reader dropped one or read it too late (runner.rs, the
\* exit arm drains the channel before the bye).
THEOREM OutputBeforeExitHolds == Spec => []OutputBeforeExit
<1>1. RunnerInv => OutputBeforeExit
  <2> SUFFICES ASSUME RunnerInv, NEW i \in DOMAIN Sent, Sent[i] = Life!Bye("exit"), ~lost
               PROVE  /\ Life!ChunksIn(SubSeq(Sent, 1, i)) = 1 .. made
                      /\ Life!InOrder(SubSeq(Sent, 1, i))
    BY DEF OutputBeforeExit, Sent
  <2>1. /\ Sent \in Seq(Frames) /\ DOMAIN Sent = 1 .. Len(Sent) /\ made \in Nat
    BY SentTyped, RunnerAssumption DEF RunnerInv, TypeInv
  <2>2. i = Len(Sent)
    <3>1. Life!Bye("exit").t = "bye"
      BY DEF Life!Bye
    <3>. QED BY <2>1, <3>1 DEF RunnerInv, Lawful
  <2>3. SubSeq(Sent, 1, i) = Sent
    BY <2>1, <2>2, SubSeqFull
  <2>4. ASSUME NEW n \in 1 .. made PROVE n \in Life!ChunksIn(Sent)
    <3>1. PICK j \in 1 .. Len(Sent) : Sent[j] = Life!Io(n)
      BY <2>1 DEF RunnerInv, Covered, InFrames
    <3>2. n \in Chunk
      BY <2>1 DEF Chunk
    <3>3. Life!IsIo(Sent[j]) /\ Sent[j].n = n
      BY <3>1, <3>2, FrameKinds
    <3>. QED BY <2>1, <3>3 DEF Life!ChunksIn
  <2>5. ASSUME NEW n \in Life!ChunksIn(Sent) PROVE n \in 1 .. made
    <3>1. PICK j \in 1 .. Len(Sent) : Life!IsIo(Sent[j]) /\ Sent[j].n = n
      BY <2>1 DEF Life!ChunksIn
    <3>2. n \in Chunk
      BY <2>1, <3>1, FrameKinds
    <3>3. n <= made
      BY <3>1 DEF RunnerInv, FlowInv
    <3>. QED BY <2>1, <3>2, <3>3 DEF Chunk
  <2>6. Life!InOrder(Sent)
    BY DEF RunnerInv, Lawful
  <2>. QED BY <2>3, <2>4, <2>5, <2>6
<1>. QED BY <1>1, RunnerInvariant, PTL

\* The next frame of the queue may follow those that are written.
LEMMA QueueMayFollow ==
  ASSUME RunnerInv, out # << >>
  PROVE  Head(out) \in Life!MayFollow(wire)
<1> DEFINE f == Head(out)
           k == Len(wire) + 1
<1>1. wire \in Seq(Frames) /\ out \in Seq(Frames) /\ Len(wire) \in Nat /\ Len(out) \in Nat
      /\ Len(out) # 0 /\ f = out[1] /\ f \in Frames
  BY DEF RunnerInv, TypeInv
<1>2. /\ Len(Sent) = Len(wire) + Len(out) /\ Len(Sent) \in Nat
      /\ \A i \in 1 .. Len(wire) : i \in 1 .. Len(Sent) /\ Sent[i] = wire[i]
      /\ \A i \in 1 .. Len(out) : Len(wire) + i \in 1 .. Len(Sent) /\ Sent[Len(wire) + i] = out[i]
  <2>1. wire \in Seq(Frames) /\ out \in Seq(Frames)
    BY <1>1
  <2>. QED BY <2>1, SentTyped, Places DEF Sent, RunnerInv
<1>3. k \in 1 .. Len(Sent) /\ Sent[k] = f
  <2>1. 1 \in 1 .. Len(out)
    BY <1>1
  <2>. QED BY <1>1, <1>2, <2>1
<1> HIDE DEF f
<1>4. CASE wire = << >>
  <2>1. k = 1 /\ Sent # << >>
    BY <1>1, <1>2, <1>4
  <2>2. Sent[1] = Life!Hello
    BY <2>1 DEF RunnerInv, Lawful
  <2>. QED BY <1>3, <1>4, <2>1, <2>2 DEF Life!MayFollow, f
<1>5. CASE wire # << >>
  <2>1. Len(wire) \in 1 .. Len(wire) /\ k \in 2 .. Len(Sent) /\ Len(wire) # Len(Sent)
    BY <1>1, <1>2, <1>3, <1>5
  <2>2. Life!Last(wire).t # "bye"
    <3>1. Sent[Len(wire)] = wire[Len(wire)] /\ Len(wire) \in 1 .. Len(Sent)
      BY <1>2, <2>1
    <3>2. Sent[Len(wire)].t # "bye"
      BY <2>1, <3>1 DEF RunnerInv, Lawful
    <3>. QED BY <3>1, <3>2 DEF Life!Last
  <2>3. f # Life!Hello
    BY <1>3, <2>1 DEF RunnerInv, Lawful
  <2>4. f = Life!Event \/ (\E r \in Life!ByeReasons : f = Life!Bye(r)) \/ (\E n \in Chunk : f = Life!Io(n))
    BY <1>1, <2>3 DEF Frames
  <2>5. ASSUME NEW n \in Chunk, f = Life!Io(n)
        PROVE  n \in 1 .. Chunks /\ \A c \in Life!ChunksIn(wire) : c < n
    <3>1. Life!IsIo(f) /\ f.n = n
      BY <2>5, FrameKinds
    <3>2. n <= made /\ made \in Nat /\ made <= Chunks /\ Chunks \in Nat
      BY <1>3, <3>1, RunnerAssumption DEF RunnerInv, FlowInv, TypeInv
    <3>3. n \in 1 .. Chunks
      BY <3>2 DEF Chunk
    <3>4. ASSUME NEW c \in Life!ChunksIn(wire) PROVE c < n
      <4>1. PICK j \in 1 .. Len(wire) : Life!IsIo(wire[j]) /\ wire[j].n = c
        BY <1>1 DEF Life!ChunksIn
      <4>2. j \in 1 .. Len(Sent) /\ Sent[j] = wire[j] /\ j < k
        BY <1>1, <1>2
      <4>3. DOMAIN Sent = 1 .. Len(Sent)
        BY SentTyped DEF RunnerInv
      <4>. QED BY <1>3, <3>1, <4>1, <4>2, <4>3 DEF RunnerInv, Lawful, Life!InOrder
    <3>. QED BY <3>3, <3>4
  <2>6. CASE \E n \in Chunk : f = Life!Io(n)
    <3>1. PICK n \in Chunk : f = Life!Io(n)
      BY <2>6
    <3>2. f \in {Life!Io(m) : m \in {x \in 1 .. Chunks : \A c \in Life!ChunksIn(wire) : c < x}}
      BY <3>1, <2>5
    <3>. QED BY <1>5, <2>2, <3>2 DEF Life!MayFollow, f
  <2>7. CASE f = Life!Event \/ \E r \in Life!ByeReasons : f = Life!Bye(r)
    BY <1>5, <2>2, <2>7 DEF Life!MayFollow, f
  <2>. QED BY <2>4, <2>6, <2>7
<1>. QED BY <1>4, <1>5

\* Every step of the runner is a step it promised, or none that the daemon sees.
LEMMA RunnerStepKeepsPromise ==
  RunnerInv /\ [Next]_vars => [Life!Next]_<<wire, pc = "over">>
<1> SUFFICES ASSUME RunnerInv, [Next]_vars PROVE [Life!Next]_<<wire, pc = "over">>
  OBVIOUS
<1>1. CASE StartFails \/ Leave \/ Killed
  <2>1. pc # "over" /\ pc' = "over" /\ wire' = wire
    BY <1>1 DEF StartFails, Leave, Killed, connVars
  <2>2. Life!End
    BY <2>1 DEF Life!End
  <2>. QED BY <2>2 DEF Life!Next
<1>2. CASE Write
  <2>1. /\ pc # "over" /\ pc' = pc /\ out # << >>
        /\ wire' = Append(wire, Head(out)) \/ wire' = wire
    BY <1>2 DEF Write, Polling
  <2>2. CASE wire' = Append(wire, Head(out))
    <3>1. Head(out) \in Life!MayFollow(wire)
      BY <2>1, QueueMayFollow
    <3>2. (pc' = "over") = (pc = "over")
      BY <2>1
    <3>3. Life!Send
      BY <2>1, <2>2, <3>1, <3>2 DEF Life!Send
    <3>. QED BY <3>3 DEF Life!Next
  <2>3. CASE wire' = wire
    BY <2>1, <2>3
  <2>. QED BY <2>1, <2>2, <2>3
<1>3. CASE Start \/ RecvHook \/ RecvData \/ RecvExit \/ RecvClosed \/ RecvSignal
  <2>1. wire' = wire /\ pc # "over"
    BY <1>3 DEF Start, RecvHook, RecvData, RecvExit, RecvClosed, RecvSignal, connVars
  <2>2. pc' # "over"
    BY <1>3 DEF Start, RecvHook, RecvData, RecvExit, RecvClosed, RecvSignal, Forward, Break,
                Continue
  <2>. QED BY <2>1, <2>2
<1>4. CASE \/ Signal \/ (\E m \in Inbound : DaemonSends(m)) \/ DaemonCloses \/ ReaderEnds
           \/ HookArrives \/ ReaderThreadEnds \/ RecvInbound \/ PtyWritten \/ RecvNone \/ ClaudeWrites \/ ReadTty
           \/ ClaudeExits \/ WaiterReaps \/ WaiterReports
  <2>1. wire' = wire /\ (pc' = "over") = (pc = "over")
    BY <1>4 DEF Signal, DaemonSends, DaemonCloses, ReaderEnds, HookArrives, ReaderThreadEnds,
                RecvInbound, PtyWritten, RecvNone, ClaudeWrites, ReadTty, ClaudeExits, WaiterReaps,
                WaiterReports, connVars
  <2>. QED BY <2>1
<1>5. CASE UNCHANGED vars
  <2>1. wire' = wire /\ pc' = pc
    BY <1>5 DEF vars, connVars
  <2>. QED BY <2>1
<1>. QED BY <1>1, <1>2, <1>3, <1>4, <1>5 DEF Next, Arms

\* The runner implements RunnerLife, for every number of chunks and every capacity:
\* whatever the terminal, hooks, signals, the daemon and the end of the process do
\* to the loop, the daemon reads a hello, records with the chunks in order, and at
\* most one bye with nothing after it.
THEOREM RunnerImplementsLife == Spec => RunnerKeepsPromise
<1>1. Init => Life!Init
  <2> SUFFICES ASSUME Init PROVE Life!Init
    OBVIOUS
  <2>1. wire = << >> /\ pc = "start"
    BY DEF Init
  <2>2. (pc = "over") = FALSE
    BY <2>1
  <2>. QED BY <2>1, <2>2 DEF Life!Init
<1>. QED BY <1>1, RunnerInvariant, RunnerStepKeepsPromise, PTL DEF Spec, RunnerKeepsPromise, Life!Spec

-----------------------------------------------------------------------------
(* Induction, and positions in a sequence. *)

\* A set of naturals has a least one.
LEMMA LeastNatural ==
  ASSUME NEW T \in SUBSET Nat, T # {}
  PROVE  \E x \in T : \A y \in T : x <= y
<1>1. PICK R : R = OpToRel(<, Nat) /\ IsWellFoundedOn(R, Nat)
  BY NatLessThanWellFounded
<1>2. R = {ss \in Nat \X Nat : ss[1] < ss[2]}
  BY <1>1 DEF OpToRel
<1>3. PICK x \in T : \A y \in T : <<y, x>> \notin R
  BY <1>1, WFMin
<1>4. \A y \in T : x <= y
  <2> SUFFICES ASSUME NEW y \in T PROVE x <= y
    OBVIOUS
  <2>1. x \in Nat /\ y \in Nat /\ <<y, x>> \in Nat \X Nat
    OBVIOUS
  <2>2. ~(y < x)
    BY <1>2, <1>3, <2>1
  <2> QED BY <2>1, <2>2
<1> QED BY <1>4

LEMMA MinInSet ==
  ASSUME NEW T \in SUBSET Nat, T # {}
  PROVE  Min(T) \in T /\ \A y \in T : Min(T) <= y
BY LeastNatural DEF Min

\* A set of naturals with 0 and with n + 1 for each n in it has them all.
LEMMA Induct ==
  ASSUME NEW S, 0 \in S, \A n \in Nat : n \in S => n + 1 \in S
  PROVE  \A n \in Nat : n \in S
<1> DEFINE T == Nat \ S
<1>1. SUFFICES ASSUME T # {} PROVE FALSE
  OBVIOUS
<1>2. T \in SUBSET Nat
  OBVIOUS
<1> HIDE DEF T
<1>3. PICK x \in T : \A y \in T : x <= y
  BY <1>1, <1>2, LeastNatural
<1>4. x \in Nat /\ x \notin S
  BY DEF T
<1>5. x # 0 /\ x - 1 \in Nat
  BY <1>4
<1>6. x - 1 \notin S
  BY <1>4, <1>5
<1>7. x - 1 \in T
  BY <1>5, <1>6 DEF T
<1> QED BY <1>3, <1>4, <1>7

Rank(I, i) == Cardinality({j \in I : j <= i})

LEMMA RankBounds ==
  ASSUME NEW I, IsFiniteSet(I), I \subseteq Nat, NEW i \in I
  PROVE  Rank(I, i) \in 1 .. Cardinality(I)
<1> DEFINE J == {j \in I : j <= i}
<1>1. J \subseteq I /\ i \in J
  OBVIOUS
<1>2. IsFiniteSet(J) /\ Cardinality(J) <= Cardinality(I)
  BY <1>1, FS_Subset
<1>3. Cardinality(J) \in Nat /\ Cardinality(I) \in Nat
  BY <1>2, FS_CardinalityType
<1>4. Cardinality(J) # 0
  BY <1>1, <1>2, FS_EmptySet
<1> QED BY <1>2, <1>3, <1>4 DEF Rank

LEMMA RankRises ==
  ASSUME NEW I, IsFiniteSet(I), I \subseteq Nat, NEW i \in I, NEW k \in I, i < k
  PROVE  Rank(I, i) < Rank(I, k)
<1> DEFINE J == {j \in I : j <= i}  K == {j \in I : j <= k}
<1>0. i \in Nat /\ k \in Nat /\ \A j \in I : j \in Nat
  OBVIOUS
<1>1. J \subseteq K /\ k \in K /\ k \notin J /\ K \subseteq I
  <2>1. \A j \in I : j <= i => j <= k
    BY <1>0
  <2>2. k <= k /\ ~(k <= i)
    BY <1>0
  <2> QED BY <2>1, <2>2
<1>2. IsFiniteSet(K)
  BY <1>1, FS_Subset
<1>3. Cardinality(J) <= Cardinality(K) /\ (Cardinality(J) = Cardinality(K) => J = K)
  BY <1>1, <1>2, FS_Subset
<1>4. IsFiniteSet(J)
  BY <1>1, <1>2, FS_Subset
<1>5. Cardinality(J) \in Nat /\ Cardinality(K) \in Nat
  BY <1>2, <1>4, FS_CardinalityType
<1> QED BY <1>1, <1>3, <1>5 DEF Rank

\* The place of rank n, the one Retain puts at n.
Place(I, n) == CHOOSE i \in I : Cardinality({j \in I : j <= i}) = n

LEMMA PlaceOfRank ==
  ASSUME NEW I, IsFiniteSet(I), I \subseteq Nat
  PROVE  /\ \A n \in 1 .. Cardinality(I) : Place(I, n) \in I /\ Rank(I, Place(I, n)) = n
         /\ \A i \in I : Rank(I, i) \in 1 .. Cardinality(I) /\ Place(I, Rank(I, i)) = i
<1> DEFINE N == 1 .. Cardinality(I)
           r == [i \in I |-> Rank(I, i)]
<1>2. \A i \in I : Rank(I, i) \in N
  BY RankBounds
<1>3. Cardinality(I) \in Nat
  BY FS_CardinalityType
<1>0. \A i, k \in I : i < k => Rank(I, i) < Rank(I, k)
  BY RankRises
<1>1. \A i, k \in I : Rank(I, i) = Rank(I, k) => i = k
  <2>1. \A i \in I : Rank(I, i) \in Nat /\ i \in Nat
    BY <1>2, <1>3
  <2> QED BY <1>0, <2>1
<1>4. IsFiniteSet(N) /\ Cardinality(N) = Cardinality(I)
  <2>1. /\ IsFiniteSet(1 .. Cardinality(I))
        /\ Cardinality(1 .. Cardinality(I)) = IF 1 > Cardinality(I) THEN 0 ELSE Cardinality(I) - 1 + 1
    BY <1>3, FS_Interval
  <2> QED BY <1>3, <2>1
<1>5. r \in Injection(I, N)
  BY <1>1, <1>2 DEF Injection, IsInjective
<1>6. r \in Surjection(I, N)
  BY <1>4, <1>5, FS_Injection
<1>7. \A n \in N : \E i \in I : Rank(I, i) = n
  BY <1>6 DEF Surjection
<1>8. \A n \in N : Place(I, n) \in I /\ Rank(I, Place(I, n)) = n
  BY <1>7 DEF Place, Rank
<1>9. \A i \in I : Place(I, Rank(I, i)) = i
  BY <1>1, <1>2, <1>8
<1> QED BY <1>2, <1>8, <1>9

\* Retain(s, I) holds the elements of s at I, each once.
LEMMA Retained ==
  ASSUME NEW D, NEW s \in Seq(D), NEW I \in SUBSET DOMAIN s
  PROVE  LET t == Retain(s, I)
         IN  /\ t \in Seq(D)
             /\ \A n \in DOMAIN t : \E i \in I : t[n] = s[i]
             /\ \A i \in I : \E n \in DOMAIN t : t[n] = s[i]
             /\ IsInjective(s) => IsInjective(t)
<1> DEFINE t == Retain(s, I)
<1>1. DOMAIN s = 1 .. Len(s) /\ Len(s) \in Nat
  OBVIOUS
<1>2. IsFiniteSet(1 .. Len(s))
  BY <1>1, FS_Interval
<1>3. IsFiniteSet(I) /\ I \subseteq Nat
  BY <1>1, <1>2, FS_Subset
<1>4. Cardinality(I) \in Nat
  BY <1>3, FS_CardinalityType
<1>5. t = [n \in 1 .. Cardinality(I) |-> s[Place(I, n)]]
  BY DEF Retain, Place
<1>6. \A n \in 1 .. Cardinality(I) : Place(I, n) \in I /\ Rank(I, Place(I, n)) = n
  BY <1>3, PlaceOfRank
<1>7. \A i \in I : Rank(I, i) \in 1 .. Cardinality(I) /\ Place(I, Rank(I, i)) = i
  BY <1>3, PlaceOfRank
<1>8. t \in Seq(D)
  BY <1>1, <1>4, <1>5, <1>6
<1>9. IsInjective(s) => IsInjective(t)
  <2> SUFFICES ASSUME IsInjective(s), NEW m \in DOMAIN t, NEW n \in DOMAIN t, t[m] = t[n]
               PROVE m = n
    BY DEF IsInjective
  <2>1. m \in 1 .. Cardinality(I) /\ n \in 1 .. Cardinality(I)
    BY <1>5
  <2>2. s[Place(I, m)] = s[Place(I, n)]
    BY <1>5, <2>1
  <2>3. Place(I, m) = Place(I, n)
    BY <1>6, <2>1, <2>2 DEF IsInjective
  <2> QED BY <1>6, <2>1, <2>3
<1>10. \A n \in DOMAIN t : \E i \in I : t[n] = s[i]
  BY <1>5, <1>6
<1>11. \A i \in I : \E n \in DOMAIN t : t[n] = s[i]
  <2> SUFFICES ASSUME NEW i \in I PROVE \E n \in DOMAIN t : t[n] = s[i]
    OBVIOUS
  <2>1. Rank(I, i) \in DOMAIN t /\ t[Rank(I, i)] = s[i]
    BY <1>5, <1>7
  <2> QED BY <2>1
<1> QED BY <1>8, <1>9, <1>10, <1>11

-----------------------------------------------------------------------------
(* The session store. *)

Rows == [seq : Nat, of : Nat]
Runs == [tool : {Records[n].tool : n \in Nat}, row : Nat]

RowSound(row) ==
    row.of # row.seq =>
        /\ Records[row.seq].k = "pre" /\ Records[row.of].k = "post"
        /\ Records[row.seq].tool = Records[row.of].tool

\* Rows rise and none is above the cursor, and a row that waits is that of the
\* tool it waits for.
StoreSound(store) ==
    /\ store \in [cursor : Nat, chat : Seq(Rows), running : Seq(Runs)]
    /\ \A i, j \in 1 .. Len(store.chat) : i < j => store.chat[i].seq < store.chat[j].seq
    /\ \A i \in 1 .. Len(store.chat) : store.chat[i].seq <= store.cursor /\ RowSound(store.chat[i])
    /\ \A i \in 1 .. Len(store.running) :
          LET run == store.running[i]
          IN  /\ run.row \in 1 .. Len(store.chat)
              /\ Records[store.chat[run.row].seq].k = "pre"
              /\ Records[store.chat[run.row].seq].tool = run.tool

\* Another record's row comes last.
LEMMA RowAdded ==
  ASSUME NEW store, StoreSound(store), NEW n \in Nat, n > store.cursor
  PROVE  StoreSound([cursor |-> n, chat |-> Append(store.chat, [seq |-> n, of |-> n]),
                     running |-> store.running])
<1> DEFINE row == [seq |-> n, of |-> n]
           c == store.chat
           d == Append(c, row)
<1>1. c \in Seq(Rows) /\ row \in Rows /\ store.cursor \in Nat /\ store.running \in Seq(Runs)
  BY DEF StoreSound, Rows
<1>2. d \in Seq(Rows) /\ Len(d) = Len(c) + 1 /\ d[Len(d)] = row /\ Len(c) \in Nat
      /\ \A i \in 1 .. Len(c) : d[i] = c[i]
  BY <1>1
<1>3. \A i \in 1 .. Len(d) : i \in 1 .. Len(c) \/ i = Len(d)
  BY <1>2
<1>4. \A i \in 1 .. Len(c) : c[i].seq <= store.cursor /\ c[i].seq \in Nat /\ RowSound(c[i])
  <2>1. \A i \in 1 .. Len(c) : c[i] \in Rows
    BY <1>1
  <2>2. \A i \in 1 .. Len(c) : c[i].seq \in Nat
    BY <2>1 DEF Rows
  <2> QED BY <2>2 DEF StoreSound
<1>5. \A i \in 1 .. Len(d) : d[i].seq <= n /\ RowSound(d[i])
  <2>1. row.seq <= n /\ RowSound(row)
    BY DEF RowSound
  <2>2. \A i \in 1 .. Len(c) : c[i].seq <= n
    BY <1>1, <1>4
  <2> HIDE DEF row, d, c
  <2> QED BY <1>2, <1>3, <1>4, <2>1, <2>2
<1>6. \A i, j \in 1 .. Len(d) : i < j => d[i].seq < d[j].seq
  <2> SUFFICES ASSUME NEW i \in 1 .. Len(d), NEW j \in 1 .. Len(d), i < j PROVE d[i].seq < d[j].seq
    OBVIOUS
  <2>1. i \in 1 .. Len(c) /\ d[i] = c[i]
    BY <1>2
  <2>2. CASE j = Len(d)
    <3>1. d[j].seq = n
      BY <1>2, <2>2
    <3>2. c[i].seq < n
      BY <1>1, <1>4, <2>1
    <3> QED BY <2>1, <3>1, <3>2
  <2>3. CASE j \in 1 .. Len(c)
    <3>1. d[j] = c[j]
      BY <1>2, <2>3
    <3>2. c[i].seq < c[j].seq
      BY <2>1, <2>3 DEF StoreSound
    <3> QED BY <2>1, <3>1, <3>2
  <2> QED BY <1>3, <2>2, <2>3
<1>7. \A i \in 1 .. Len(store.running) :
          /\ store.running[i].row \in 1 .. Len(d)
          /\ d[store.running[i].row] = c[store.running[i].row]
          /\ Records[c[store.running[i].row].seq].k = "pre"
          /\ Records[c[store.running[i].row].seq].tool = store.running[i].tool
  BY <1>2 DEF StoreSound
<1> DEFINE new == [cursor |-> n, chat |-> d, running |-> store.running]
<1>8. new.cursor = n /\ new.chat = d /\ new.running = store.running
      /\ new \in [cursor : Nat, chat : Seq(Rows), running : Seq(Runs)]
  BY <1>1, <1>2
<1> HIDE DEF new, d, c
<1>9. StoreSound(new)
  <2>1. \A i, j \in 1 .. Len(new.chat) : i < j => new.chat[i].seq < new.chat[j].seq
    BY <1>6, <1>8
  <2>2. \A i \in 1 .. Len(new.chat) : new.chat[i].seq <= new.cursor /\ RowSound(new.chat[i])
    BY <1>5, <1>8
  <2>3. \A i \in 1 .. Len(new.running) :
            /\ new.running[i].row \in 1 .. Len(new.chat)
            /\ Records[new.chat[new.running[i].row].seq].k = "pre"
            /\ Records[new.chat[new.running[i].row].seq].tool = new.running[i].tool
    <3> SUFFICES ASSUME NEW i \in 1 .. Len(store.running)
                 PROVE  /\ store.running[i].row \in 1 .. Len(d)
                        /\ Records[d[store.running[i].row].seq].k = "pre"
                        /\ Records[d[store.running[i].row].seq].tool = store.running[i].tool
      BY <1>8
    <3> QED BY <1>7
  <2> QED BY <1>8, <2>1, <2>2, <2>3 DEF StoreSound
<1> QED BY <1>9 DEF new, d, c

\* A tool call's row is also put on the list of those that wait.
LEMMA RunAdded ==
  ASSUME NEW store, StoreSound(store), NEW n \in Nat, Records[n].k = "pre",
         NEW k \in 1 .. Len(store.chat), store.chat[k].seq = n
  PROVE  StoreSound([store EXCEPT !.running = Append(@, [tool |-> Records[n].tool, row |-> k])])
<1> DEFINE run == [tool |-> Records[n].tool, row |-> k]
           r == store.running
           q == Append(r, run)
           new == [store EXCEPT !.running = q]
<1>1. store \in [cursor : Nat, chat : Seq(Rows), running : Seq(Runs)] /\ run \in Runs
  BY DEF StoreSound, Runs
<1>2. q \in Seq(Runs) /\ Len(q) = Len(r) + 1 /\ q[Len(q)] = run /\ Len(r) \in Nat
      /\ \A i \in 1 .. Len(r) : q[i] = r[i]
  BY <1>1
<1>3. \A i \in 1 .. Len(q) : i \in 1 .. Len(r) \/ i = Len(q)
  BY <1>2
<1>4. new.cursor = store.cursor /\ new.chat = store.chat /\ new.running = q
      /\ new \in [cursor : Nat, chat : Seq(Rows), running : Seq(Runs)]
  BY <1>1, <1>2
<1>5. run.row = k /\ run.tool = Records[n].tool
  OBVIOUS
<1>6. \A i \in 1 .. Len(q) :
          /\ q[i].row \in 1 .. Len(store.chat)
          /\ Records[store.chat[q[i].row].seq].k = "pre"
          /\ Records[store.chat[q[i].row].seq].tool = q[i].tool
  <2>1. \A i \in 1 .. Len(r) :
          /\ r[i].row \in 1 .. Len(store.chat)
          /\ Records[store.chat[r[i].row].seq].k = "pre"
          /\ Records[store.chat[r[i].row].seq].tool = r[i].tool
    BY DEF StoreSound
  <2> HIDE DEF run, r, q, new
  <2> QED BY <1>2, <1>3, <1>5, <2>1
<1> HIDE DEF run, q, new
<1>7. StoreSound(new)
  BY <1>4, <1>6 DEF StoreSound
<1> QED BY <1>7 DEF new, q, run

\* The oldest row that waits for the tool gets the result.
LEMMA ResultTaken ==
  ASSUME NEW store, StoreSound(store), NEW n \in Nat, Records[n].k = "post",
         NEW i \in 1 .. Len(store.running), store.running[i].tool = Records[n].tool
  PROVE  StoreSound(Adopting(store, i, n))
<1> DEFINE k == store.running[i].row
           c == store.chat
           r == store.running
           e == [seq |-> c[k].seq, of |-> n]
           d == ReplaceAt(c, k, e)
           q == RemoveAt(r, i)
           new == [cursor |-> store.cursor, chat |-> d, running |-> q]
<1>1. store \in [cursor : Nat, chat : Seq(Rows), running : Seq(Runs)]
  BY DEF StoreSound
<1>2. c \in Seq(Rows) /\ r \in Seq(Runs) /\ Len(c) \in Nat /\ Len(r) \in Nat /\ store.cursor \in Nat
  BY <1>1
<1>3. /\ k \in 1 .. Len(c) /\ Records[c[k].seq].k = "pre"
      /\ Records[c[k].seq].tool = Records[n].tool
  BY DEF StoreSound
<1>4. \A j \in 1 .. Len(c) : c[j] \in Rows
  BY <1>2
<1>5. c[k] \in Rows
  BY <1>3, <1>4
<1>6. e \in Rows /\ e.seq = c[k].seq /\ e.of = n
  BY <1>5 DEF Rows
<1>7. d \in Seq(Rows) /\ Len(d) = Len(c)
      /\ \A j \in 1 .. Len(c) : d[j] = IF j = k THEN e ELSE c[j]
  <2> HIDE DEF c, k, e
  <2> QED BY <1>2, <1>3, <1>6 DEF ReplaceAt
<1>8. \A j \in 1 .. Len(c) : d[j].seq = c[j].seq
  <2> HIDE DEF c, k, d, e
  <2> QED BY <1>6, <1>7
<1>9. \A j \in 1 .. Len(d) : d[j].seq <= store.cursor /\ RowSound(d[j])
  <2> SUFFICES ASSUME NEW j \in 1 .. Len(c) PROVE d[j].seq <= store.cursor /\ RowSound(d[j])
    BY <1>7
  <2>1. c[j].seq <= store.cursor /\ RowSound(c[j])
    BY DEF StoreSound
  <2>2. CASE j = k
    <3> HIDE DEF d, c, k, r, e
    <3>1. d[j].of = n /\ d[j].seq = c[k].seq
      BY <1>6, <1>7, <2>2
    <3> QED BY <1>3, <1>8, <2>1, <2>2, <3>1 DEF RowSound
  <2>3. CASE j # k
    <3>1. d[j] = c[j]
      BY <1>7, <2>3
    <3> HIDE DEF d
    <3> QED BY <2>1, <3>1
  <2> QED BY <2>2, <2>3
<1>10. \A j, m \in 1 .. Len(d) : j < m => d[j].seq < d[m].seq
  <2>1. \A j, m \in 1 .. Len(c) : j < m => c[j].seq < c[m].seq
    BY DEF StoreSound
  <2> HIDE DEF d, c
  <2> QED BY <1>7, <1>8, <2>1
<1>11. q \in Seq(Runs) /\ \A j \in 1 .. Len(q) : \E m \in 1 .. Len(r) : q[j] = r[m]
  <2> DEFINE a == SubSeq(r, 1, i - 1)  b == SubSeq(r, i + 1, Len(r))
  <2>1. /\ a \in Seq(Runs) /\ Len(a) = i - 1 /\ b \in Seq(Runs) /\ Len(b) = Len(r) - i
        /\ \A j \in 1 .. Len(a) : a[j] = r[j]
        /\ \A j \in 1 .. Len(b) : b[j] = r[i + j]
    BY <1>2
  <2>2. q = a \o b
    BY DEF RemoveAt
  <2> HIDE DEF a, b, q, r
  <2>3. q \in Seq(Runs) /\ Len(q) = Len(a) + Len(b)
        /\ \A j \in 1 .. Len(q) : q[j] = IF j <= Len(a) THEN a[j] ELSE b[j - Len(a)]
    <3>1. /\ a \o b \in Seq(Runs) /\ Len(a \o b) = Len(a) + Len(b)
          /\ \A j \in 1 .. Len(a) + Len(b) : (a \o b)[j] = IF j <= Len(a) THEN a[j] ELSE b[j - Len(a)]
      BY <2>1, ConcatProperties
    <3> QED BY <2>2, <3>1
  <2> SUFFICES ASSUME NEW j \in 1 .. Len(q) PROVE \E m \in 1 .. Len(r) : q[j] = r[m]
    BY <2>3
  <2>0. i \in 1 .. Len(r)
    BY DEF r
  <2>4. CASE j <= Len(a)
    <3>1. j \in 1 .. Len(a) /\ j \in 1 .. Len(r)
      BY <1>2, <2>0, <2>1, <2>4
    <3>2. q[j] = r[j]
      BY <2>1, <2>3, <2>4, <3>1
    <3> QED BY <3>1, <3>2
  <2>5. CASE ~(j <= Len(a))
    <3>1. j - Len(a) \in 1 .. Len(b) /\ i + (j - Len(a)) \in 1 .. Len(r)
      BY <1>2, <2>0, <2>1, <2>3, <2>5
    <3>2. q[j] = r[i + (j - Len(a))]
      BY <2>1, <2>3, <2>5, <3>1
    <3> QED BY <3>1, <3>2
  <2> QED BY <2>4, <2>5
<1>12. \A j \in 1 .. Len(q) :
          /\ q[j].row \in 1 .. Len(d)
          /\ Records[d[q[j].row].seq].k = "pre"
          /\ Records[d[q[j].row].seq].tool = q[j].tool
  <2>1. \A m \in 1 .. Len(r) :
          /\ r[m].row \in 1 .. Len(c)
          /\ Records[c[r[m].row].seq].k = "pre"
          /\ Records[c[r[m].row].seq].tool = r[m].tool
    BY DEF StoreSound
  <2>2. Len(d) = Len(c)
    BY <1>7
  <2> HIDE DEF d, c, q, r
  <2> SUFFICES ASSUME NEW j \in 1 .. Len(q)
               PROVE  /\ q[j].row \in 1 .. Len(d)
                      /\ Records[d[q[j].row].seq].k = "pre"
                      /\ Records[d[q[j].row].seq].tool = q[j].tool
    OBVIOUS
  <2>3. PICK m \in 1 .. Len(r) : q[j] = r[m]
    BY <1>11
  <2>4. /\ r[m].row \in 1 .. Len(c) /\ Records[c[r[m].row].seq].k = "pre"
        /\ Records[c[r[m].row].seq].tool = r[m].tool
    BY <2>1
  <2>5. d[r[m].row].seq = c[r[m].row].seq
    BY <1>8, <2>4
  <2> QED BY <2>2, <2>3, <2>4, <2>5
<1> HIDE DEF d, q
<1>13. Adopting(store, i, n) = new
  <2>1. Adopting(store, i, n) = [store EXCEPT !.chat = d, !.running = q]
    BY DEF Adopting, d, q
  <2> QED BY <1>1, <2>1
<1> HIDE DEF c, r, k
<1>14. new.cursor = store.cursor /\ new.chat = d /\ new.running = q
       /\ new \in [cursor : Nat, chat : Seq(Rows), running : Seq(Runs)]
  BY <1>2, <1>7, <1>11
<1> HIDE DEF new
<1>15. StoreSound(new)
  BY <1>9, <1>10, <1>12, <1>14 DEF StoreSound
<1> QED BY <1>13, <1>15

LEMMA CursorRaised ==
  ASSUME NEW store, StoreSound(store), NEW n \in Nat, n > store.cursor
  PROVE  StoreSound([store EXCEPT !.cursor = n])
<1> DEFINE new == [store EXCEPT !.cursor = n]
<1>1. store \in [cursor : Nat, chat : Seq(Rows), running : Seq(Runs)]
  BY DEF StoreSound
<1>2. new.cursor = n /\ new.chat = store.chat /\ new.running = store.running
      /\ new \in [cursor : Nat, chat : Seq(Rows), running : Seq(Runs)]
  BY <1>1
<1>3. \A i \in 1 .. Len(store.chat) : store.chat[i].seq <= n
  <2>1. \A i \in 1 .. Len(store.chat) : store.chat[i] \in Rows
    BY <1>1
  <2>2. \A i \in 1 .. Len(store.chat) : store.chat[i].seq \in Nat
    BY <2>1 DEF Rows
  <2>3. \A i \in 1 .. Len(store.chat) : store.chat[i].seq <= store.cursor
    BY DEF StoreSound
  <2>4. store.cursor \in Nat
    BY <1>1
  <2> QED BY <2>2, <2>3, <2>4
<1> HIDE DEF new
<1>4. StoreSound(new)
  BY <1>2, <1>3 DEF StoreSound
<1> QED BY <1>4 DEF new

\* appendRec keeps a store sound.
LEMMA AppendRecSound ==
  ASSUME NEW store, StoreSound(store), NEW n \in Nat
  PROVE  StoreSound(AppendRec(store, n))
<1>1. CASE ~(n > store.cursor)
  BY <1>1 DEF AppendRec
<1>2. CASE n > store.cursor
  <2> DEFINE raised == [store EXCEPT !.cursor = n]
             rec == Records[n]
             W == Waiting(raised, rec.tool)
             added == AddRow(raised, n, n)
  <2>1. store \in [cursor : Nat, chat : Seq(Rows), running : Seq(Runs)]
    BY DEF StoreSound
  <2>2. StoreSound(raised)
    BY <1>2, CursorRaised
  <2>3. raised.cursor = n /\ raised.chat = store.chat /\ raised.running = store.running
    BY <2>1
  <2>4. added = [cursor |-> n, chat |-> Append(store.chat, [seq |-> n, of |-> n]),
                 running |-> store.running]
    <3>1. raised = [cursor |-> n, chat |-> store.chat, running |-> store.running]
      BY <2>1
    <3> DEFINE d == Append(store.chat, [seq |-> n, of |-> n])
    <3> HIDE DEF raised
    <3>2. raised.chat = store.chat
      BY <3>1
    <3>3. added = [raised EXCEPT !.chat = d]
      BY <3>2 DEF AddRow
    <3> HIDE DEF added, d
    <3>4. added = [cursor |-> n, chat |-> d, running |-> store.running]
      BY <3>1, <3>3
    <3> QED BY <3>4 DEF d
  <2>5. StoreSound(added)
    BY <1>2, <2>4, RowAdded
  <2>6. AppendRec(store, n) = Shown(raised, n)
    BY <1>2 DEF AppendRec
  <2>7. CASE rec.k = "pre"
    <3> DEFINE k == Len(store.chat) + 1
    <3>1. added.chat = Append(store.chat, [seq |-> n, of |-> n])
      BY <2>4
    <3>2. k \in 1 .. Len(added.chat) /\ added.chat[k].seq = n
      BY <2>1, <3>1
    <3>3. Shown(raised, n) = [added EXCEPT !.running = Append(@, [tool |-> rec.tool, row |-> k])]
      BY <2>3, <2>7 DEF Shown
    <3> HIDE DEF added, k
    <3> QED BY <2>5, <2>6, <2>7, <3>2, <3>3, RunAdded
  <2>8. CASE rec.k = "post" /\ W # {}
    <3> DEFINE i == TakePendingPre(W)
    <3>1. W \subseteq 1 .. Len(store.running) /\ W \subseteq Nat
      BY <2>3 DEF Waiting
    <3>2. i \in W
      BY <2>8, <3>1, MinInSet DEF TakePendingPre
    <3>3. i \in 1 .. Len(raised.running) /\ raised.running[i].tool = rec.tool
      BY <3>2 DEF Waiting
    <3> HIDE DEF raised
    <3>4. Shown(raised, n) = Adopting(raised, i, n)
      BY <2>8 DEF Shown
    <3> HIDE DEF i
    <3> QED BY <2>2, <2>6, <2>8, <3>3, <3>4, ResultTaken
  <2>9. CASE (rec.k = "post" /\ W = {}) \/ rec.k = "event"
    <3>1. Shown(raised, n) = added
      BY <2>9 DEF Shown
    <3> QED BY <2>5, <2>6, <3>1
  <2>10. CASE rec.k \notin {"pre", "post", "event"}
    <3>1. Shown(raised, n) = raised
      BY <2>10 DEF Shown
    <3> QED BY <2>2, <2>6, <3>1
  <2> QED BY <2>7, <2>8, <2>9, <2>10
<1> QED BY <1>1, <1>2

\* What appendBatch computes: there is a function that gives the store after the
\* first n records.
LEMMA AppendAllComputes ==
  ASSUME NEW store, NEW recs \in Seq(Nat)
  PROVE  \E after : /\ after = [n \in 0 .. Len(recs) |->
                                  IF n = 0 THEN store ELSE AppendRec(after[n - 1], recs[n])]
                    /\ AppendAll(store, recs) = after[Len(recs)]
<1> DEFINE Run(g, m) == g = [n \in 0 .. m |-> IF n = 0 THEN store ELSE AppendRec(g[n - 1], recs[n])]
           S == {m \in Nat : \E g : Run(g, m)}
<1>1. 0 \in S
  <2> DEFINE h == [n \in 0 .. 0 |-> store]
  <2>1. \A n \in 0 .. 0 : n = 0
    OBVIOUS
  <2>2. [n \in 0 .. 0 |-> IF n = 0 THEN store ELSE AppendRec(h[n - 1], recs[n])] = h
    BY <2>1
  <2>3. Run(h, 0)
    BY <2>2
  <2> HIDE DEF h, Run
  <2> QED BY <2>3
<1>2. \A m \in Nat : m \in S => m + 1 \in S
  <2> HIDE DEF Run
  <2> SUFFICES ASSUME NEW m \in Nat, NEW g, Run(g, m) PROVE \E h : Run(h, m + 1)
    OBVIOUS
  <2> USE DEF Run
  <2> DEFINE h == [n \in 0 .. (m + 1) |-> IF n <= m THEN g[n] ELSE AppendRec(g[m], recs[m + 1])]
  <2>1. \A n \in 0 .. m : g[n] = IF n = 0 THEN store ELSE AppendRec(g[n - 1], recs[n])
    OBVIOUS
  <2>2. \A n \in 0 .. (m + 1) : h[n] = IF n = 0 THEN store ELSE AppendRec(h[n - 1], recs[n])
    <3> SUFFICES ASSUME NEW n \in 0 .. (m + 1)
                 PROVE  h[n] = IF n = 0 THEN store ELSE AppendRec(h[n - 1], recs[n])
      OBVIOUS
    <3>1. CASE n = 0
      BY <2>1, <3>1
    <3>2. CASE n # 0 /\ n <= m
      <4>1. n \in 0 .. m /\ n - 1 \in 0 .. m
        BY <3>2
      <4>2. h[n] = g[n] /\ h[n - 1] = g[n - 1]
        BY <4>1
      <4> HIDE DEF h
      <4> QED BY <2>1, <3>2, <4>1, <4>2
    <3>3. CASE n = m + 1
      <4>1. h[n] = AppendRec(g[m], recs[m + 1]) /\ h[n - 1] = g[m]
        BY <3>3
      <4>2. n # 0
        BY <3>3
      <4> HIDE DEF h
      <4> QED BY <3>3, <4>1, <4>2
    <3> QED BY <3>1, <3>2, <3>3
  <2>3. Run(h, m + 1)
    <3>1. DOMAIN h = 0 .. (m + 1) /\ h = [n \in 0 .. (m + 1) |-> h[n]]
      OBVIOUS
    <3> HIDE DEF h
    <3> QED BY <2>2, <3>1
  <2> HIDE DEF Run
  <2> QED BY <2>3
<1> HIDE DEF S
<1>3. Len(recs) \in S
  BY <1>1, <1>2, Induct
<1> DEFINE after == CHOOSE f : Run(f, Len(recs))
<1>4. Run(after, Len(recs))
  BY <1>3 DEF S
<1>5. AppendAll(store, recs) = after[Len(recs)]
  BY DEF AppendAll
<1> HIDE DEF after
<1> QED BY <1>4, <1>5

LEMMA AppendAllSound ==
  ASSUME NEW store, StoreSound(store), NEW recs \in Seq(Nat)
  PROVE  StoreSound(AppendAll(store, recs))
<1>1. PICK after : /\ after = [n \in 0 .. Len(recs) |->
                                  IF n = 0 THEN store ELSE AppendRec(after[n - 1], recs[n])]
                   /\ AppendAll(store, recs) = after[Len(recs)]
  BY AppendAllComputes
<1> DEFINE S == {n \in Nat : n <= Len(recs) => StoreSound(after[n])}
<1>2. Len(recs) \in Nat /\ \A n \in 1 .. Len(recs) : recs[n] \in Nat
  OBVIOUS
<1>3. after[0] = store /\ \A n \in 1 .. Len(recs) : after[n] = AppendRec(after[n - 1], recs[n])
  <2>1. \A n \in 0 .. Len(recs) : after[n] = IF n = 0 THEN store ELSE AppendRec(after[n - 1], recs[n])
    BY <1>1
  <2> QED BY <1>2, <2>1
<1>4. 0 \in S
  BY <1>3
<1>5. \A n \in Nat : n \in S => n + 1 \in S
  <2> SUFFICES ASSUME NEW n \in Nat, n \in S, n + 1 <= Len(recs) PROVE StoreSound(after[n + 1])
    OBVIOUS
  <2>1. n <= Len(recs) /\ n + 1 \in 1 .. Len(recs) /\ (n + 1) - 1 = n
    BY <1>2
  <2>2. StoreSound(after[n])
    BY <2>1
  <2>3. after[n + 1] = AppendRec(after[n], recs[n + 1])
    BY <1>3, <2>1
  <2>4. recs[n + 1] \in Nat
    BY <1>2, <2>1
  <2> QED BY <2>2, <2>3, <2>4, AppendRecSound
<1> HIDE DEF S
<1>6. Len(recs) \in S
  BY <1>2, <1>4, <1>5, Induct
<1> QED BY <1>1, <1>2, <1>6 DEF S

-----------------------------------------------------------------------------
(* The relay's cache. *)

\* What the app may receive and send, and what the cache holds.  A request is
\* cached under number 0, which no replay reaches.
Messages == [t : {"rec", "batch", "state", "hello"}, sid : Sessions, recs : Seq(Nat)]
            \cup [t : {"kx"}, sid : Nat, recs : Seq(Nat)]
Requests == [t : {"kx", "hello"}, sid : {Meta}, c : Nat]
            \cup [t : {"sub", "attach", "resume"}, sid : Sessions, c : Nat]
AppFrames == [sid : Sids, seq : Nat, key : Nat, msg : Messages]
CacheFrames == AppFrames \cup [sid : Sids, seq : {0}, key : Nat, msg : Requests]
               \cup {Frame(s, 0, 0, << >>) : s \in Sids}

RingTyped(r) == r \in [buffers : [Keys -> Seq(CacheFrames)], order : Seq(Keys)]

RingSound(r) ==
    /\ IsInjective(r.order)
    /\ ToSet(r.order) = CachedKeys(r, Daemon)
    /\ Cardinality(CachedKeys(r, Daemon)) <= MaxKeysPerDaemon
    /\ \A k \in Keys : Len(r.buffers[k]) <= CacheSize

LEMMA KeysAreDaemons ==
  /\ \A k \in Keys : k[1] = Daemon
  /\ \A s \in Sids : <<Daemon, s>> \in Keys /\ <<Daemon, s>>[1] = Daemon
BY CatchupAssumption DEF Keys, CatchupAssumption

LEMMA Trimmed ==
  ASSUME NEW F, NEW b \in Seq(F), NEW f \in F
  PROVE  LET q == Trim(Append(b, f))
         IN  q \in Seq(F) /\ q # << >> /\ Len(q) <= CacheSize
<1> DEFINE a == Append(b, f)
<1>1. a \in Seq(F) /\ Len(a) \in Nat /\ Len(a) >= 1 /\ CacheSize \in Nat /\ CacheSize >= 1
  BY RingAssumption DEF RingAssumption
<1> HIDE DEF a
<1>2. CASE Len(a) > CacheSize
  <2>1. Trim(a) = SubSeq(a, Len(a) - CacheSize + 1, Len(a))
    BY <1>2 DEF Trim
  <2>2. Len(a) - CacheSize + 1 \in 1 .. Len(a)
    BY <1>1, <1>2
  <2>3. Trim(a) \in Seq(F) /\ Len(Trim(a)) = CacheSize
    BY <1>1, <1>2, <2>1, <2>2
  <2> QED BY <1>1, <2>3 DEF a
<1>3. CASE ~(Len(a) > CacheSize)
  <2>1. Trim(a) = SubSeq(a, 1, Len(a))
    BY <1>3 DEF Trim
  <2>2. Trim(a) \in Seq(F) /\ Len(Trim(a)) = Len(a)
    BY <1>1, <2>1
  <2> QED BY <1>1, <1>3, <2>2 DEF a
<1> QED BY <1>2, <1>3

\* DropKeys takes exactly the keys K out of a cache.
LEMMA Dropped ==
  ASSUME NEW r, RingTyped(r), NEW K
  PROVE  LET e == DropKeys(r, K)
         IN  /\ RingTyped(e)
             /\ \A k \in Keys : e.buffers[k] = IF k \in K THEN << >> ELSE r.buffers[k]
             /\ ToSet(e.order) = ToSet(r.order) \ K
             /\ IsInjective(r.order) => IsInjective(e.order)
<1> DEFINE I == {i \in DOMAIN r.order : r.order[i] \notin K}
           o == Retain(r.order, I)
           b == [k \in Keys |-> IF k \in K THEN << >> ELSE r.buffers[k]]
           e == [buffers |-> b, order |-> o]
<1>1. r.buffers \in [Keys -> Seq(CacheFrames)] /\ r.order \in Seq(Keys)
  BY DEF RingTyped
<1>2. I \in SUBSET DOMAIN r.order
  OBVIOUS
<1>3. DropKeys(r, K) = e
  BY DEF DropKeys
<1> HIDE DEF o
<1>4. /\ o \in Seq(Keys)
      /\ \A n \in DOMAIN o : \E i \in I : o[n] = r.order[i]
      /\ \A i \in I : \E n \in DOMAIN o : o[n] = r.order[i]
      /\ IsInjective(r.order) => IsInjective(o)
  BY <1>1, <1>2, Retained DEF o
<1>5. ToSet(o) = ToSet(r.order) \ K
  BY <1>4 DEF ToSet
<1>6. b \in [Keys -> Seq(CacheFrames)]
  BY <1>1
<1>7. e.buffers = b /\ e.order = o /\ RingTyped(e)
  BY <1>4, <1>6 DEF RingTyped
<1>8. \A k \in Keys : b[k] = IF k \in K THEN << >> ELSE r.buffers[k]
  OBVIOUS
<1> HIDE DEF b, e, I
<1> QED BY <1>3, <1>4, <1>5, <1>7, <1>8

\* What push makes of a cache with room: the frame is last in its key's buffer.
LEMMA Pushed ==
  ASSUME NEW r, RingTyped(r), NEW s \in Sids, NEW f \in CacheFrames
  PROVE  LET key == <<Daemon, s>>
             n == [r EXCEPT !.buffers[key] = Trim(Append(@, f))]
         IN  /\ RingTyped(n) /\ n.order = r.order
             /\ n.buffers[key] # << >> /\ Len(n.buffers[key]) <= CacheSize
             /\ \A k \in Keys \ {key} : n.buffers[k] = r.buffers[k]
<1> DEFINE key == <<Daemon, s>>
           q == Trim(Append(r.buffers[key], f))
           n == [r EXCEPT !.buffers[key] = Trim(Append(@, f))]
           b == [r.buffers EXCEPT ![key] = q]
<1>1. r.buffers \in [Keys -> Seq(CacheFrames)] /\ r.order \in Seq(Keys) /\ key \in Keys
  BY KeysAreDaemons DEF RingTyped
<1>2. q \in Seq(CacheFrames) /\ q # << >> /\ Len(q) <= CacheSize
  BY <1>1, Trimmed
<1> HIDE DEF q, key
<1>3. b \in [Keys -> Seq(CacheFrames)] /\ b[key] = q /\ \A k \in Keys \ {key} : b[k] = r.buffers[k]
  BY <1>1, <1>2
<1>4. n = [r EXCEPT !.buffers = b]
  BY DEF q, RingTyped
<1> HIDE DEF b, n
<1>5. n.buffers = b /\ n.order = r.order /\ RingTyped(n)
  BY <1>1, <1>3, <1>4 DEF RingTyped
<1> QED BY <1>2, <1>3, <1>5 DEF n, key

\* Appending a key that is not there keeps the order free of repetitions.
LEMMA OrderExtended ==
  ASSUME NEW o \in Seq(Keys), NEW key \in Keys, key \notin ToSet(o), IsInjective(o)
  PROVE  IsInjective(Append(o, key)) /\ ToSet(Append(o, key)) = ToSet(o) \cup {key}
<1> DEFINE p == Append(o, key)
<1>1. DOMAIN o = 1 .. Len(o) /\ Len(o) \in Nat /\ DOMAIN p = 1 .. (Len(o) + 1)
      /\ p[Len(o) + 1] = key /\ \A i \in 1 .. Len(o) : p[i] = o[i]
  OBVIOUS
<1> HIDE DEF p
<1>2. \A i \in DOMAIN o : o[i] # key
  BY DEF ToSet
<1>3. \A i \in DOMAIN p : i \in DOMAIN o \/ i = Len(o) + 1
  BY <1>1
<1>4. \A i, j \in DOMAIN p : p[i] = p[j] => i = j
  BY <1>1, <1>2, <1>3 DEF IsInjective
<1>5. ToSet(p) = ToSet(o) \cup {key}
  <2>1. \A x \in ToSet(p) : x \in ToSet(o) \cup {key}
    BY <1>1, <1>3 DEF ToSet
  <2>2. \A x \in ToSet(o) \cup {key} : x \in ToSet(p)
    BY <1>1 DEF ToSet
  <2> QED BY <2>1, <2>2
<1> QED BY <1>4, <1>5 DEF IsInjective, p

\* Before another key of the daemon enters, eviction leaves fewer than the cap:
\* the oldest key is found, since the order names only keys that hold frames.
LEMMA Evicted ==
  ASSUME NEW r, RingTyped(r), RingSound(r), MaxKeysPerDaemon > 0
  PROVE  LET C == CachedKeys(r, Daemon)  E == KeysToEvict(r, Daemon)
         IN  IsFiniteSet(C) /\ Cardinality(C \ E) + 1 <= MaxKeysPerDaemon
<1> DEFINE C == CachedKeys(r, Daemon)
           E == KeysToEvict(r, Daemon)
           o == r.order
<1>1. o \in Seq(Keys) /\ ToSet(o) = C /\ Cardinality(C) <= MaxKeysPerDaemon
      /\ MaxKeysPerDaemon \in Nat
  BY RingAssumption DEF RingTyped, RingSound, RingAssumption
<1>2. IsFiniteSet(C)
  <2>1. DOMAIN o = 1 .. Len(o) /\ Len(o) \in Nat
    BY <1>1
  <2>2. IsFiniteSet(DOMAIN o)
    BY <2>1, FS_Interval
  <2>3. o \in Surjection(DOMAIN o, C)
    BY <1>1, <2>1 DEF ToSet, Surjection
  <2> QED BY <2>2, <2>3, FS_Surjection
<1>3. Cardinality(C) \in Nat
  BY <1>2, FS_CardinalityType
<1>4. CASE Cardinality(C) < MaxKeysPerDaemon
  <2>1. E = {}
    BY <1>1, <1>3, <1>4 DEF KeysToEvict
  <2>2. C \ E = C
    BY <2>1
  <2> HIDE DEF C, E
  <2>4. Cardinality(C) + 1 <= MaxKeysPerDaemon
    BY <1>1, <1>3, <1>4
  <2>3. Cardinality(C \ E) + 1 <= MaxKeysPerDaemon
    BY <2>2, <2>4
  <2> QED BY <1>2, <2>3 DEF C, E
<1>5. CASE Cardinality(C) = MaxKeysPerDaemon
  <2>1. E = OldestKeys(r, Daemon, 1)
    <3>1. E = OldestKeys(r, Daemon, (Cardinality(C) + 1) - MaxKeysPerDaemon)
      BY <1>1, <1>3, <1>5 DEF KeysToEvict
    <3>2. (Cardinality(C) + 1) - MaxKeysPerDaemon = 1
      BY <1>1, <1>3, <1>5
    <3> QED BY <3>1, <3>2
  <2>2. C # {}
    BY <1>2, <1>5, <1>1, FS_EmptySet
  <2>3. Len(o) \in Nat /\ Len(o) >= 1 /\ DOMAIN o = 1 .. Len(o)
    BY <1>1, <2>2 DEF ToSet
  <2> DEFINE mine == {i \in DOMAIN o : o[i][1] = Daemon}
  <2>4. 1 \in mine
    BY <1>1, <2>3, KeysAreDaemons
  <2>5. {j \in mine : j <= 1} = {1}
    BY <2>3, <2>4
  <2>6. Cardinality({j \in mine : j <= 1}) <= 1
    BY <2>5, FS_Singleton
  <2>7. o[1] \in E
    <3>1. OldestKeys(r, Daemon, 1) =
            {o[i] : i \in {i \in mine : Cardinality({j \in mine : j <= i}) <= 1}}
      BY DEF OldestKeys
    <3> HIDE DEF mine
    <3> QED BY <2>1, <2>4, <2>6, <3>1
  <2>8. o[1] \in C
    BY <1>1, <2>3 DEF ToSet
  <2> HIDE DEF C, E, o
  <2>9. IsFiniteSet(C \ {o[1]}) /\ Cardinality(C \ {o[1]}) = Cardinality(C) - 1
    BY <1>2, <2>8, FS_RemoveElement
  <2>10. C \ E \subseteq C \ {o[1]}
    BY <2>7
  <2>11. IsFiniteSet(C \ E) /\ Cardinality(C \ E) <= Cardinality(C \ {o[1]})
    BY <2>9, <2>10, FS_Subset
  <2>12. Cardinality(C \ E) \in Nat
    BY <2>11, FS_CardinalityType
  <2>13. Cardinality(C \ E) + 1 <= MaxKeysPerDaemon
    BY <1>1, <1>3, <1>5, <2>9, <2>11, <2>12
  <2> QED BY <1>2, <2>13 DEF C, E
<1> QED BY <1>1, <1>3, <1>4, <1>5

LEMMA RoomTyped ==
  ASSUME NEW r, RingTyped(r), NEW key \in Keys
  PROVE  RingTyped(MakeRoom(r, key))
<1> DEFINE kept == DropKeys(r, KeysToEvict(r, key[1]))
<1>1. RingTyped(kept)
  BY Dropped
<1> HIDE DEF kept
<1>2. kept.order \in Seq(Keys) /\ kept \in [buffers : [Keys -> Seq(CacheFrames)], order : Seq(Keys)]
  BY <1>1 DEF RingTyped
<1> DEFINE o == Append(kept.order, key)
<1>3. o \in Seq(Keys)
  BY <1>2
<1> HIDE DEF o
<1>4. RingTyped([kept EXCEPT !.order = o])
  BY <1>2, <1>3 DEF RingTyped
<1>5. MakeRoom(r, key) = r \/ MakeRoom(r, key) = [kept EXCEPT !.order = o]
  BY DEF MakeRoom, kept, o
<1> QED BY <1>4, <1>5

LEMMA PushTyped ==
  ASSUME NEW r, RingTyped(r), NEW s \in Sids, NEW f \in CacheFrames
  PROVE  RingTyped(PushFrame(r, Daemon, s, f))
<1> DEFINE roomy == MakeRoom(r, <<Daemon, s>>)
<1>1. RingTyped(roomy)
  BY RoomTyped, KeysAreDaemons
<1>2. PushFrame(r, Daemon, s, f) = [roomy EXCEPT !.buffers[<<Daemon, s>>] = Trim(Append(@, f))]
  BY DEF PushFrame
<1> HIDE DEF roomy
<1> QED BY <1>1, <1>2, Pushed

\* push keeps order and buffers together and within their bounds.
LEMMA PushSound ==
  ASSUME NEW r, RingTyped(r), RingSound(r), NEW s \in Sids, NEW f \in CacheFrames,
         MaxKeysPerDaemon > 0
  PROVE  RingSound(PushFrame(r, Daemon, s, f))
<1> DEFINE key == <<Daemon, s>>
           roomy == MakeRoom(r, key)
           new == PushFrame(r, Daemon, s, f)
           C == CachedKeys(r, Daemon)
           E == KeysToEvict(r, Daemon)
<1>1. key \in Keys /\ key[1] = Daemon /\ \A k \in Keys : k[1] = Daemon
  BY KeysAreDaemons
<1>2. RingTyped(roomy)
  BY <1>1, RoomTyped
<1>3. new = [roomy EXCEPT !.buffers[key] = Trim(Append(@, f))]
  BY DEF PushFrame
<1> HIDE DEF roomy, new
<1>4. /\ RingTyped(new) /\ new.order = roomy.order
      /\ new.buffers[key] # << >> /\ Len(new.buffers[key]) <= CacheSize
      /\ \A k \in Keys \ {key} : new.buffers[k] = roomy.buffers[k]
  BY <1>2, <1>3, Pushed
<1>5. MaxKeysPerDaemon \in Nat /\ CacheSize \in Nat
  BY RingAssumption DEF RingAssumption
<1> HIDE DEF key
<1>6. C = {k \in Keys : r.buffers[k] # << >>}
      /\ CachedKeys(new, Daemon) = {k \in Keys : new.buffers[k] # << >>}
  BY <1>1 DEF CachedKeys
<1>7. /\ IsInjective(r.order) /\ ToSet(r.order) = C /\ Cardinality(C) <= MaxKeysPerDaemon
      /\ \A k \in Keys : Len(r.buffers[k]) <= CacheSize
  BY DEF RingSound
<1>8. CASE r.buffers[key] # << >>
  <2>1. roomy = r
    BY <1>8 DEF roomy, MakeRoom
  <2>2. CachedKeys(new, Daemon) = C
    BY <1>1, <1>4, <1>6, <1>8, <2>1
  <2>3. \A k \in Keys : Len(new.buffers[k]) <= CacheSize
    BY <1>4, <1>7, <2>1
  <2> HIDE DEF C
  <2>4. RingSound(new)
    BY <1>4, <1>7, <2>1, <2>2, <2>3 DEF RingSound
  <2> QED BY <2>4 DEF new
<1>9. CASE r.buffers[key] = << >>
  <2> DEFINE kept == DropKeys(r, E)
  <2>1. roomy = [kept EXCEPT !.order = Append(@, key)]
    BY <1>1, <1>5, <1>9 DEF roomy, MakeRoom
  <2>2. /\ RingTyped(kept)
        /\ \A k \in Keys : kept.buffers[k] = IF k \in E THEN << >> ELSE r.buffers[k]
        /\ ToSet(kept.order) = ToSet(r.order) \ E
        /\ IsInjective(r.order) => IsInjective(kept.order)
    BY Dropped
  <2> HIDE DEF kept
  <2>3. kept.order \in Seq(Keys)
    BY <2>2 DEF RingTyped
  <2>4. roomy.order = Append(kept.order, key) /\ roomy.buffers = kept.buffers
    BY <2>1, <2>2 DEF RingTyped
  <2>5. key \notin C
    BY <1>6, <1>9
  <2>6. IsFiniteSet(C) /\ Cardinality(C \ E) + 1 <= MaxKeysPerDaemon
    BY Evicted
  <2> HIDE DEF C, E
  <2>7. ToSet(kept.order) = C \ E /\ IsInjective(kept.order)
    BY <1>7, <2>2
  <2>8. IsInjective(new.order) /\ ToSet(new.order) = (C \ E) \cup {key}
    BY <1>1, <1>4, <2>3, <2>4, <2>5, <2>7, OrderExtended
  <2>9. CachedKeys(new, Daemon) = (C \ E) \cup {key}
    <3>1. \A k \in Keys \ {key} : new.buffers[k] # << >> <=> k \in C \ E
      BY <1>4, <1>6, <2>2, <2>4
    <3>2. C \subseteq Keys
      BY <1>6
    <3> QED BY <1>1, <1>4, <1>6, <3>1, <3>2
  <2>10. Cardinality((C \ E) \cup {key}) <= MaxKeysPerDaemon
    <3>1. IsFiniteSet(C \ E)
      BY <2>6, FS_Subset
    <3>2. Cardinality((C \ E) \cup {key}) = Cardinality(C \ E) + 1
      BY <2>5, <3>1, FS_AddElement
    <3> QED BY <2>6, <3>2
  <2>11. \A k \in Keys : Len(new.buffers[k]) <= CacheSize
    <3>1. Len(<< >>) <= CacheSize
      BY <1>5
    <3> QED BY <1>4, <1>7, <2>2, <2>4, <3>1
  <2>12. RingSound(new)
    BY <2>8, <2>9, <2>10, <2>11 DEF RingSound
  <2> QED BY <2>12 DEF new
<1> QED BY <1>8, <1>9 DEF new

\* A replay holds frames for the app only.
LEMMA ReplayTyped ==
  ASSUME NEW r, RingTyped(r), NEW s \in Sids, NEW n \in Nat
  PROVE  ReplayAfter(r, Daemon, s, n) \in Seq(AppFrames)
<1> DEFINE b == r.buffers[<<Daemon, s>>]
           I == {i \in DOMAIN b : b[i].seq > n}
           t == Retain(b, I)
<1>1. b \in Seq(CacheFrames)
  BY KeysAreDaemons DEF RingTyped
<1>2. ReplayAfter(r, Daemon, s, n) = t
  BY DEF ReplayAfter
<1>3. I \in SUBSET DOMAIN b
  OBVIOUS
<1> HIDE DEF t, b
<1>4. t \in Seq(CacheFrames) /\ \A m \in DOMAIN t : \E i \in I : t[m] = b[i]
  BY <1>1, <1>3, Retained DEF t
<1>5. \A i \in I : b[i] \in AppFrames
  <2> SUFFICES ASSUME NEW i \in DOMAIN b, b[i].seq > n PROVE b[i] \in AppFrames
    OBVIOUS
  <2>1. b[i] \in CacheFrames
    BY <1>1
  <2>2. b[i].seq # 0
    OBVIOUS
  <2>3. \A z \in Sids : Frame(z, 0, 0, << >>).seq = 0
    BY DEF Frame
  <2> QED BY <2>1, <2>2, <2>3 DEF CacheFrames
<1>6. \A m \in 1 .. Len(t) : t[m] \in AppFrames
  BY <1>4, <1>5
<1>7. t \in Seq(AppFrames)
  BY <1>4, <1>6
<1> QED BY <1>2, <1>7

-----------------------------------------------------------------------------
(* The invariant. *)

CatchupInv ==
    /\ started \in Sessions /\ log \in [Sessions -> Nat] /\ spawned \in SUBSET (Sessions \X Nat)
    /\ dkey \in Nat /\ epoch \in Nat
    /\ up \in Seq(Requests) /\ down \in Seq(AppFrames)
    /\ RingTyped(ring)
    /\ cursor \in [Sessions -> Nat] /\ chat \in [Sessions -> Seq(Rows)]
    /\ running \in [Sessions -> Seq(Runs)]
    /\ \A s \in Sessions : StoreSound(Store(s))

LEMMA SessionNumbers ==
  /\ Sessions \subseteq Nat /\ Sessions \subseteq Sids /\ 1 \in Sessions /\ Meta \in Sids
  /\ \A n \in Sessions : n < Cardinality(Sessions) => n + 1 \in Sessions
<1>1. IsFiniteSet(Sessions) /\ Sessions # {} /\ Sessions = 1 .. Cardinality(Sessions)
      /\ Meta \in Sids
  BY CatchupAssumption DEF CatchupAssumption
<1>2. Cardinality(Sessions) \in Nat
  BY <1>1, FS_CardinalityType
<1>3. Cardinality(Sessions) # 0
  BY <1>1, FS_EmptySet
<1>4. Sessions \subseteq Sids
  BY DEF Sessions
<1> DEFINE N == Cardinality(Sessions)
<1> HIDE DEF N
<1>5. N \in Nat /\ N # 0 /\ Sessions = 1 .. N
  BY <1>1, <1>2, <1>3 DEF N
<1>6. Sessions \subseteq Nat /\ 1 \in Sessions /\ \A n \in Sessions : n < N => n + 1 \in Sessions
  BY <1>5
<1> QED BY <1>1, <1>4, <1>6 DEF N

LEMMA FramesTyped ==
  /\ \A s \in Sessions, n \in Nat : Rec(s, n) \in Messages
  /\ \A s \in Sessions : State(s) \in Messages /\ Hello(s) \in Messages
  /\ \A s \in Sessions, q \in Seq(Nat) : Batch(s, q) \in Messages
  /\ \A e \in Nat : Kx(e) \in Messages
  /\ \A s \in Sids, n \in Nat, k \in Nat, m \in Messages :
        Frame(s, n, k, m) \in AppFrames /\ Frame(s, n, k, m) \in CacheFrames
  /\ \A s \in Sids, k \in Nat, m \in Requests : Frame(s, 0, k, m) \in CacheFrames
<1>1. \A n \in Nat : <<n>> \in Seq(Nat)
  OBVIOUS
<1>2. << >> \in Seq(Nat)
  OBVIOUS
<1>3. \A s \in Sessions, n \in Nat : Rec(s, n) \in Messages
  BY <1>1 DEF Rec, Messages
<1>4. \A s \in Sessions : State(s) \in Messages /\ Hello(s) \in Messages
  BY <1>2 DEF State, Hello, Messages
<1>5. \A s \in Sessions, q \in Seq(Nat) : Batch(s, q) \in Messages
  BY DEF Batch, Messages
<1>6. \A e \in Nat : Kx(e) \in Messages
  BY <1>2 DEF Kx, Messages
<1>7. \A s \in Sids, n \in Nat, k \in Nat, m \in Messages : Frame(s, n, k, m) \in AppFrames
  BY DEF Frame, AppFrames
<1>8. \A s \in Sids, k \in Nat, m \in Requests : Frame(s, 0, k, m) \in CacheFrames
  BY DEF Frame, CacheFrames
<1> QED BY <1>3, <1>4, <1>5, <1>6, <1>7, <1>8 DEF CacheFrames

LEMMA FrameFields ==
  ASSUME NEW s, NEW n, NEW k, NEW m
  PROVE  Frame(s, n, k, m).sid = s /\ Frame(s, n, k, m).seq = n
         /\ Frame(s, n, k, m).key = k /\ Frame(s, n, k, m).msg = m
BY DEF Frame

LEMMA KeptTyped ==
  ASSUME NEW f \in CacheFrames
  PROVE  f.sid \in Sids /\ Kept(f) \in CacheFrames
<1>1. f.sid \in Sids
  BY DEF CacheFrames, AppFrames, Frame
<1>2. Frame(f.sid, 0, 0, << >>) \in CacheFrames
  BY <1>1 DEF CacheFrames
<1> QED BY <1>1, <1>2 DEF Kept

LEMMA CachedTyped ==
  ASSUME NEW r, RingTyped(r), NEW f \in CacheFrames
  PROVE  RingTyped(Cached(r, f))
BY KeptTyped, PushTyped DEF Cached

LEMMA CachedSound ==
  ASSUME NEW r, RingTyped(r), RingSound(r), NEW f \in CacheFrames, MaxKeysPerDaemon > 0
  PROVE  RingSound(Cached(r, f))
BY KeptTyped, PushSound DEF Cached

LEMMA DeliveredTyped ==
  ASSUME NEW f \in AppFrames
  PROVE  Delivered(f) \in Seq(AppFrames)
<1>1. <<f>> \in Seq(AppFrames) /\ << >> \in Seq(AppFrames)
  OBVIOUS
<1> QED BY <1>1 DEF Delivered

\* The answer to a resume names records.
LEMMA RecordsTyped ==
  ASSUME CatchupInv, NEW s \in Sessions, NEW c \in Nat
  PROVE  RecordsFrom(s, c) \in Seq(Nat)
<1> DEFINE last == Min({log[s], c + BatchMax})
<1>1. log[s] \in Nat /\ c + BatchMax \in Nat
  BY CatchupAssumption DEF CatchupInv, CatchupAssumption
<1>2. last \in Nat
  BY <1>1, MinInSet
<1>3. RecordsFrom(s, c) = [i \in 1 .. (last - c) |-> c + i]
  BY DEF RecordsFrom
<1> HIDE DEF last
<1>4. CASE last >= c
  <2>1. last - c \in Nat
    BY <1>2, <1>4
  <2> QED BY <1>3, <2>1
<1>5. CASE ~(last >= c)
  <2>1. 1 .. (last - c) = 1 .. 0
    BY <1>2, <1>5
  <2>2. [i \in 1 .. 0 |-> c + i] \in Seq(Nat)
    OBVIOUS
  <2> QED BY <1>3, <2>1, <2>2
<1> QED BY <1>4, <1>5

LEMMA RequestFields ==
  ASSUME NEW m \in Requests
  PROVE  /\ m.c \in Nat /\ m.sid \in Sids
         /\ m.t \in {"sub", "attach", "resume"} => m.sid \in Sessions
BY SessionNumbers DEF Requests

LEMMA MessageFields ==
  ASSUME NEW m \in Messages
  PROVE  /\ m.recs \in Seq(Nat)
         /\ m.t \in {"rec", "batch", "state", "hello"} => m.sid \in Sessions
BY DEF Messages

LEMMA StoreKept ==
  ASSUME CatchupInv, UNCHANGED <<cursor, chat, running>>
  PROVE  /\ cursor' \in [Sessions -> Nat] /\ chat' \in [Sessions -> Seq(Rows)]
         /\ running' \in [Sessions -> Seq(Runs)]
         /\ \A s \in Sessions : StoreSound(Store(s))'
<1>1. cursor' = cursor /\ chat' = chat /\ running' = running
  OBVIOUS
<1>2. \A s \in Sessions : Store(s)' = Store(s)
  BY <1>1 DEF Store
<1>3. \A s \in Sessions : StoreSound(Store(s))'
  BY <1>2 DEF CatchupInv
<1> QED BY <1>1, <1>3 DEF CatchupInv

\* Where log, sessions and tasks stay as they are, and the link's parts are typed.
LEMMA CatchupStep ==
  ASSUME CatchupInv, UNCHANGED <<started, log, cursor, chat, running>>,
         spawned' \in SUBSET (Sessions \X Nat), dkey' \in Nat, epoch' \in Nat,
         up' \in Seq(Requests), down' \in Seq(AppFrames), RingTyped(ring')
  PROVE  CatchupInv'
<1>1. /\ cursor' \in [Sessions -> Nat] /\ chat' \in [Sessions -> Seq(Rows)]
      /\ running' \in [Sessions -> Seq(Runs)]
      /\ \A s \in Sessions : StoreSound(Store(s))'
  BY StoreKept
<1>2. started' \in Sessions /\ log' \in [Sessions -> Nat]
  BY DEF CatchupInv
<1> QED BY <1>1, <1>2 DEF CatchupInv

\* A record or a state is published, or dropped where nobody could open it.
LEMMA PublishKeeps ==
  ASSUME CatchupInv, NEW x \in spawned, Publish(x)
  PROVE  CatchupInv'
<1> DEFINE f == IF x[2] = 0 THEN Frame(Meta, 0, dkey, State(x[1]))
                            ELSE Frame(x[1], x[2], dkey, Rec(x[1], x[2]))
<1>1. x \in Sessions \X Nat /\ dkey \in Nat /\ down \in Seq(AppFrames) /\ RingTyped(ring)
  BY DEF CatchupInv
<1>2. x[1] \in Sessions /\ x[2] \in Nat /\ x[1] \in Sids /\ Meta \in Sids
  BY <1>1, SessionNumbers
<1>3. f \in AppFrames /\ f \in CacheFrames
  BY <1>1, <1>2, FramesTyped
<1>4. Publishes(f)
  BY DEF Publish
<1> HIDE DEF f
<1>5. RingTyped(Cached(ring, f)) /\ Delivered(f) \in Seq(AppFrames)
  BY <1>1, <1>3, CachedTyped, DeliveredTyped
<1>6. down \o Delivered(f) \in Seq(AppFrames)
  BY <1>1, <1>5, ConcatProperties
<1>7. RingTyped(ring') /\ down' \in Seq(AppFrames)
  BY <1>1, <1>4, <1>5, <1>6 DEF Publishes
<1>8. /\ spawned' \in SUBSET (Sessions \X Nat) /\ UNCHANGED <<started, log, dkey, up, epoch, storeVars>>
  BY DEF Publish, CatchupInv
<1> QED BY <1>7, <1>8, CatchupStep DEF CatchupInv, storeVars

LEMMA JoinKeeps ==
  ASSUME CatchupInv, NEW msg \in Requests, HandleFrontendJoined(msg)
  PROVE  dkey' \in Nat /\ down' \in Seq(AppFrames) /\ RingTyped(ring')
<1> DEFINE g == Frame(Meta, 0, 0, Kx(msg.c))
           f == Frame(Meta, 0, msg.c, Hello(started))
<1>1. msg.c \in Nat /\ started \in Sessions /\ Meta \in Sids /\ RingTyped(ring)
      /\ down \in Seq(AppFrames)
  BY RequestFields, SessionNumbers DEF CatchupInv
<1>2. g \in AppFrames /\ f \in AppFrames /\ f \in CacheFrames
  BY <1>1, FramesTyped
<1>3. /\ dkey' = msg.c
      /\ \/ ring' = Cached(ring, f) /\ down' = down \o <<g>> \o Delivered(f)
         \/ ring' = ring /\ down' = down \o <<g>>
  BY DEF HandleFrontendJoined
<1> HIDE DEF f, g
<1>4. RingTyped(Cached(ring, f)) /\ Delivered(f) \in Seq(AppFrames) /\ <<g>> \in Seq(AppFrames)
  BY <1>1, <1>2, CachedTyped, DeliveredTyped
<1>5. down \o <<g>> \in Seq(AppFrames)
  BY <1>1, <1>4, ConcatProperties
<1>6. down \o <<g>> \o Delivered(f) \in Seq(AppFrames)
  BY <1>4, <1>5, ConcatProperties
<1> QED BY <1>1, <1>3, <1>4, <1>5, <1>6

LEMMA SubscribeKeeps ==
  ASSUME CatchupInv, NEW msg \in Requests, RouteSubscribe(msg)
  PROVE  dkey' \in Nat /\ down' \in Seq(AppFrames) /\ RingTyped(ring')
<1>1. msg.c \in Nat /\ msg.sid \in Sids /\ RingTyped(ring) /\ down \in Seq(AppFrames)
  BY RequestFields DEF CatchupInv
<1>2. ReplayAfter(ring, Daemon, msg.sid, msg.c) \in Seq(AppFrames)
  BY <1>1, ReplayTyped
<1>3. down' \in Seq(AppFrames)
  BY <1>1, <1>2, ConcatProperties DEF RouteSubscribe
<1> QED BY <1>1, <1>3 DEF RouteSubscribe, CatchupInv

\* The frames of a control message: the request as it is cached, and the answer.
LEMMA ControlFrames ==
  ASSUME CatchupInv, NEW msg \in Requests, DispatchRelayControl(msg)
  PROVE  \E f \in AppFrames, g \in CacheFrames :
            \/ ring' = Cached(Cached(ring, g), f) /\ down' = down \o Delivered(f)
            \/ ring' = Cached(ring, g) /\ down' = down
<1> DEFINE answer == CASE msg.t = "hello"  -> Hello(started)
                       [] msg.t = "attach" -> State(msg.sid)
                       [] msg.t = "resume" -> HandleRelayResume(msg)
           channel == IF msg.t = "hello" THEN Meta ELSE msg.sid
           f == Frame(channel, 0, dkey, answer)
           g == Frame(channel, 0, 0, msg)
<1>1. msg.c \in Nat /\ msg.sid \in Sids /\ started \in Sessions /\ dkey \in Nat /\ Meta \in Sids
  BY RequestFields, SessionNumbers DEF CatchupInv
<1>2. msg.t \in {"hello", "attach", "resume"}
  BY DEF DispatchRelayControl
<1>3. answer \in Messages
  <2>1. CASE msg.t = "hello"
    BY <1>1, <2>1, FramesTyped
  <2>2. CASE msg.t = "attach"
    <3>1. msg.sid \in Sessions
      BY <2>2, RequestFields
    <3>2. answer = State(msg.sid)
      BY <2>2
    <3> QED BY <3>1, <3>2, FramesTyped
  <2>3. CASE msg.t = "resume"
    <3>1. msg.sid \in Sessions
      BY <2>3, RequestFields
    <3>2. RecordsFrom(msg.sid, msg.c) \in Seq(Nat)
      BY <1>1, <3>1, RecordsTyped
    <3>3. HandleRelayResume(msg) \in Messages
      BY <3>1, <3>2, FramesTyped DEF HandleRelayResume
    <3>4. answer = HandleRelayResume(msg)
      BY <2>3
    <3> QED BY <3>3, <3>4
  <2> QED BY <1>2, <2>1, <2>2, <2>3
<1>4. channel \in Sids
  BY <1>1
<1> HIDE DEF answer, channel
<1>5. f \in AppFrames /\ g \in CacheFrames
  BY <1>1, <1>3, <1>4, FramesTyped
<1>6. \/ ring' = Cached(Cached(ring, g), f) /\ down' = down \o Delivered(f)
      \/ ring' = Cached(ring, g) /\ down' = down
  BY DEF DispatchRelayControl, answer, channel
<1> QED BY <1>5, <1>6

LEMMA ControlKeeps ==
  ASSUME CatchupInv, NEW msg \in Requests, DispatchRelayControl(msg)
  PROVE  dkey' \in Nat /\ down' \in Seq(AppFrames) /\ RingTyped(ring')
<1>1. PICK f \in AppFrames, g \in CacheFrames :
         \/ ring' = Cached(Cached(ring, g), f) /\ down' = down \o Delivered(f)
         \/ ring' = Cached(ring, g) /\ down' = down
  BY ControlFrames
<1>2. RingTyped(ring) /\ down \in Seq(AppFrames) /\ dkey' \in Nat /\ f \in CacheFrames
  BY DEF CatchupInv, DispatchRelayControl, CacheFrames
<1>3. RingTyped(Cached(ring, g))
  BY <1>2, CachedTyped
<1>4. RingTyped(Cached(Cached(ring, g), f)) /\ Delivered(f) \in Seq(AppFrames)
  BY <1>2, <1>3, CachedTyped, DeliveredTyped
<1>5. down \o Delivered(f) \in Seq(AppFrames)
  BY <1>2, <1>4, ConcatProperties
<1> QED BY <1>1, <1>2, <1>3, <1>4, <1>5

LEMMA HandleFrameKeeps ==
  ASSUME CatchupInv, HandleFrame
  PROVE  CatchupInv'
<1> DEFINE msg == Head(up)
<1>1. up \in Seq(Requests) /\ up # << >>
  BY DEF CatchupInv, HandleFrame
<1>2. msg \in Requests /\ Tail(up) \in Seq(Requests)
  BY <1>1
<1>3. HandleFrontendJoined(msg) \/ RouteSubscribe(msg) \/ DispatchRelayControl(msg)
  BY DEF HandleFrame
<1> HIDE DEF msg
<1>4. dkey' \in Nat /\ down' \in Seq(AppFrames) /\ RingTyped(ring')
  BY <1>2, <1>3, JoinKeeps, SubscribeKeeps, ControlKeeps
<1>5. up' = Tail(up) /\ UNCHANGED <<started, log, spawned, epoch, storeVars>>
  BY DEF HandleFrame
<1> QED BY <1>2, <1>4, <1>5, CatchupStep DEF CatchupInv, storeVars

\* A batch changes one session's store, by appendRec only.
LEMMA BatchKeeps ==
  ASSUME CatchupInv, NEW s \in Sessions, NEW recs \in Seq(Nat), AppendBatch(s, recs)
  PROVE  /\ cursor' \in [Sessions -> Nat] /\ chat' \in [Sessions -> Seq(Rows)]
         /\ running' \in [Sessions -> Seq(Runs)]
         /\ \A z \in Sessions : StoreSound(Store(z))'
<1> DEFINE new == AppendAll(Store(s), recs)
<1>1. StoreSound(new)
  BY AppendAllSound DEF CatchupInv
<1>2. /\ cursor' = [cursor EXCEPT ![s] = new.cursor]
      /\ chat' = [chat EXCEPT ![s] = new.chat]
      /\ running' = [running EXCEPT ![s] = new.running]
  BY DEF AppendBatch
<1> HIDE DEF new
<1>3. new \in [cursor : Nat, chat : Seq(Rows), running : Seq(Runs)]
  BY <1>1 DEF StoreSound
<1>4. new.cursor \in Nat /\ new.chat \in Seq(Rows) /\ new.running \in Seq(Runs)
      /\ new = [cursor |-> new.cursor, chat |-> new.chat, running |-> new.running]
  BY <1>3
<1>5. cursor \in [Sessions -> Nat] /\ chat \in [Sessions -> Seq(Rows)] /\ running \in [Sessions -> Seq(Runs)]
  BY DEF CatchupInv
<1>6. /\ cursor' \in [Sessions -> Nat] /\ chat' \in [Sessions -> Seq(Rows)]
      /\ running' \in [Sessions -> Seq(Runs)]
  BY <1>2, <1>4, <1>5
<1>7. \A z \in Sessions : StoreSound(Store(z))'
  <2> SUFFICES ASSUME NEW z \in Sessions PROVE StoreSound(Store(z))'
    OBVIOUS
  <2>1. CASE z = s
    <3>1. cursor'[z] = new.cursor /\ chat'[z] = new.chat /\ running'[z] = new.running
      BY <1>2, <1>5, <2>1
    <3>2. Store(z)' = new
      BY <1>4, <3>1 DEF Store
    <3> QED BY <1>1, <3>2
  <2>2. CASE z # s
    <3>1. cursor'[z] = cursor[z] /\ chat'[z] = chat[z] /\ running'[z] = running[z]
      BY <1>2, <1>5, <2>2
    <3>2. Store(z)' = Store(z)
      BY <3>1 DEF Store
    <3> QED BY <3>2 DEF CatchupInv
  <2> QED BY <2>1, <2>2
<1> QED BY <1>6, <1>7

LEMMA AsksTyped ==
  ASSUME NEW s \in Sessions, NEW c \in Nat, up \in Seq(Requests)
  PROVE  /\ up \o <<Ask("sub", s, 0), Ask("attach", s, 0)>> \in Seq(Requests)
         /\ up \o <<Ask("sub", s, c), Ask("resume", s, c)>> \in Seq(Requests)
<1>1. /\ Ask("sub", s, 0) \in Requests /\ Ask("attach", s, 0) \in Requests
      /\ Ask("sub", s, c) \in Requests /\ Ask("resume", s, c) \in Requests
  BY DEF Ask, Requests
<1> HIDE DEF Ask
<1>2. /\ <<Ask("sub", s, 0), Ask("attach", s, 0)>> \in Seq(Requests)
      /\ <<Ask("sub", s, c), Ask("resume", s, c)>> \in Seq(Requests)
  BY <1>1
<1> QED BY <1>2, ConcatProperties

LEMMA RelayFrameKeeps ==
  ASSUME CatchupInv, OnRelayFrame
  PROVE  CatchupInv'
<1> DEFINE f == Head(down)
<1>1. down \in Seq(AppFrames) /\ down # << >> /\ up \in Seq(Requests)
  BY DEF CatchupInv, OnRelayFrame
<1>2. f \in AppFrames /\ Tail(down) \in Seq(AppFrames)
  BY <1>1
<1>3. f.msg \in Messages
  BY <1>2 DEF AppFrames
<1>4. /\ down' = Tail(down) /\ started' = started /\ log' = log /\ spawned' = spawned /\ dkey' = dkey
      /\ ring' = ring /\ epoch' = epoch
  BY DEF OnRelayFrame, daemonVars
<1>5. \/ UNCHANGED <<up, storeVars>>
      \/ f.msg.t = "hello" /\ OnHello(f.msg.sid)
      \/ f.msg.t = "state" /\ OnState(f.msg.sid)
      \/ f.msg.t \in {"rec", "batch"} /\ AppendBatch(f.msg.sid, f.msg.recs) /\ UNCHANGED up
  <2>1. f.msg.t \in {"rec", "batch", "state", "hello", "kx"}
    BY <1>3 DEF Messages
  <2> QED BY <2>1 DEF OnRelayFrame, OnKx
<1> HIDE DEF f
<1>6. CASE UNCHANGED <<up, storeVars>>
  BY <1>1, <1>2, <1>4, <1>6, CatchupStep DEF CatchupInv, storeVars
<1>7. CASE f.msg.t = "hello" /\ OnHello(f.msg.sid)
  <2>1. f.msg.sid \in Sessions
    BY <1>3, <1>7, MessageFields
  <2>2. up' \in Seq(Requests) /\ UNCHANGED storeVars
    BY <1>1, <1>7, <2>1, AsksTyped DEF OnHello
  <2> QED BY <1>2, <1>4, <2>2, CatchupStep DEF CatchupInv, storeVars
<1>8. CASE f.msg.t = "state" /\ OnState(f.msg.sid)
  <2>1. f.msg.sid \in Sessions
    BY <1>3, <1>8, MessageFields
  <2>2. cursor[f.msg.sid] \in Nat
    BY <2>1 DEF CatchupInv
  <2>3. up' \in Seq(Requests) /\ UNCHANGED <<cursor, chat, running>>
    BY <1>1, <1>8, <2>1, <2>2, AsksTyped DEF OnState
  <2> QED BY <1>2, <1>4, <2>3, CatchupStep DEF CatchupInv
<1>9. CASE f.msg.t \in {"rec", "batch"} /\ AppendBatch(f.msg.sid, f.msg.recs) /\ UNCHANGED up
  <2>1. f.msg.sid \in Sessions /\ f.msg.recs \in Seq(Nat)
    BY <1>3, <1>9, MessageFields
  <2>2. /\ cursor' \in [Sessions -> Nat] /\ chat' \in [Sessions -> Seq(Rows)]
        /\ running' \in [Sessions -> Seq(Runs)]
        /\ \A z \in Sessions : StoreSound(Store(z))'
    BY <1>9, <2>1, BatchKeeps
  <2>3. /\ started' \in Sessions /\ log' \in [Sessions -> Nat] /\ spawned' \in SUBSET (Sessions \X Nat)
        /\ dkey' \in Nat /\ epoch' \in Nat /\ up' \in Seq(Requests) /\ RingTyped(ring')
    BY <1>4, <1>9 DEF CatchupInv
  <2> QED BY <1>2, <1>4, <2>2, <2>3 DEF CatchupInv
<1> QED BY <1>5, <1>6, <1>7, <1>8, <1>9

\* Nothing is shown yet.
LEMMA EmptyStoreSound ==
  ASSUME cursor = [s \in Sessions |-> 0], chat = [s \in Sessions |-> << >>],
         running = [s \in Sessions |-> << >>]
  PROVE  /\ cursor \in [Sessions -> Nat] /\ chat \in [Sessions -> Seq(Rows)]
         /\ running \in [Sessions -> Seq(Runs)]
         /\ \A s \in Sessions : StoreSound(Store(s))
<1>1. << >> \in Seq(Rows) /\ << >> \in Seq(Runs) /\ Len(<< >>) = 0
  OBVIOUS
<1>2. \A s \in Sessions : Store(s) = [cursor |-> 0, chat |-> << >>, running |-> << >>]
  BY DEF Store
<1>3. StoreSound([cursor |-> 0, chat |-> << >>, running |-> << >>])
  BY <1>1 DEF StoreSound
<1> QED BY <1>1, <1>2, <1>3

LEMMA CatchupInitInv == CatchupInit => CatchupInv
<1> SUFFICES ASSUME CatchupInit PROVE CatchupInv
  OBVIOUS
<1>1. /\ cursor \in [Sessions -> Nat] /\ chat \in [Sessions -> Seq(Rows)]
      /\ running \in [Sessions -> Seq(Runs)] /\ \A s \in Sessions : StoreSound(Store(s))
  BY EmptyStoreSound DEF CatchupInit, EmptyStore
<1>2. RingTyped(ring)
  <2>1. << >> \in Seq(Keys) /\ << >> \in Seq(CacheFrames)
    OBVIOUS
  <2> QED BY <2>1 DEF CatchupInit, EmptyRing, RingTyped
<1>3. up \in Seq(Requests) /\ down \in Seq(AppFrames)
  BY DEF CatchupInit
<1>4. started \in Sessions /\ log \in [Sessions -> Nat] /\ spawned \in SUBSET (Sessions \X Nat)
      /\ dkey \in Nat /\ epoch \in Nat
  BY SessionNumbers DEF CatchupInit
<1> QED BY <1>1, <1>2, <1>3, <1>4 DEF CatchupInv

LEMMA AppSideKeeps ==
  ASSUME CatchupInv, \/ Connect \/ OnAuthOk \/ SocketFails \/ PongsMissing \/ LateFailure
                     \/ HelloFallback \/ RegisterClient
  PROVE  CatchupInv'
<1>1. up \in Seq(Requests) /\ down \in Seq(AppFrames) /\ epoch \in Nat /\ RingTyped(ring) /\ dkey \in Nat
      /\ spawned \in SUBSET (Sessions \X Nat)
  BY DEF CatchupInv
<1>2. << >> \in Seq(Requests) /\ << >> \in Seq(AppFrames)
      /\ \A n \in Nat : <<Ask("kx", Meta, n)>> \in Seq(Requests) /\ <<Ask("hello", Meta, n)>> \in Seq(Requests)
  <2>1. \A n \in Nat : Ask("kx", Meta, n) \in Requests /\ Ask("hello", Meta, n) \in Requests
    BY DEF Ask, Requests
  <2> QED BY <2>1
<1>3. /\ UNCHANGED <<started, log, spawned, dkey, ring, storeVars>>
  BY DEF Connect, OnAuthOk, SocketFails, PongsMissing, LateFailure, HelloFallback, RegisterClient, daemonVars,
         storeVars
<1>4. up' \in Seq(Requests) /\ down' \in Seq(AppFrames) /\ epoch' \in Nat
  <2>1. CASE Connect \/ RegisterClient
    BY <1>1, <2>1 DEF Connect, RegisterClient, linkVars
  <2>2. CASE OnAuthOk
    <3>1. epoch + 1 \in Nat
      BY <1>1
    <3>2. up' = <<Ask("kx", Meta, epoch + 1)>> /\ down' = down /\ epoch' = epoch + 1
      BY <2>2 DEF OnAuthOk
    <3> QED BY <1>1, <1>2, <3>1, <3>2
  <2>3. CASE SocketFails \/ PongsMissing \/ LateFailure
    BY <1>1, <1>2, <2>3 DEF SocketFails, PongsMissing, LateFailure, ScheduleReconnect
  <2>4. CASE HelloFallback
    <3>1. /\ up' = Append(up, Ask("hello", Meta, 0)) \/ up' = up
          /\ down' = down /\ epoch' = epoch
      BY <2>4 DEF HelloFallback
    <3>2. Ask("hello", Meta, 0) \in Requests
      BY DEF Ask, Requests
    <3> QED BY <1>1, <3>1, <3>2
  <2> QED BY <2>1, <2>2, <2>3, <2>4
<1>5. RingTyped(ring') /\ dkey' \in Nat /\ spawned' \in SUBSET (Sessions \X Nat)
  BY <1>1, <1>3
<1> QED BY <1>3, <1>4, <1>5, CatchupStep DEF storeVars

LEMMA AppRestartsKeeps ==
  ASSUME CatchupInv, AppRestarts
  PROVE  CatchupInv'
<1>1. cursor' = [s \in Sessions |-> 0] /\ chat' = [s \in Sessions |-> << >>]
      /\ running' = [s \in Sessions |-> << >>] /\ up' = << >> /\ down' = << >>
      /\ UNCHANGED <<started, log, spawned, dkey, ring, epoch>>
  BY DEF AppRestarts, daemonVars
<1>2. << >> \in Seq(Rows) /\ << >> \in Seq(Runs) /\ Len(<< >>) = 0
      /\ << >> \in Seq(Requests) /\ << >> \in Seq(AppFrames)
  OBVIOUS
<1>3. StoreSound([cursor |-> 0, chat |-> << >>, running |-> << >>])
  BY <1>2 DEF StoreSound
<1>4. \A s \in Sessions : Store(s)' = [cursor |-> 0, chat |-> << >>, running |-> << >>]
  BY <1>1 DEF Store
<1>5. \A s \in Sessions : StoreSound(Store(s))'
  BY <1>3, <1>4
<1>6. /\ cursor' \in [Sessions -> Nat] /\ chat' \in [Sessions -> Seq(Rows)]
      /\ running' \in [Sessions -> Seq(Runs)]
  BY <1>1, <1>2
<1>7. /\ started' \in Sessions /\ log' \in [Sessions -> Nat] /\ spawned' \in SUBSET (Sessions \X Nat)
      /\ dkey' \in Nat /\ epoch' \in Nat /\ RingTyped(ring')
  BY <1>1 DEF CatchupInv
<1> QED BY <1>1, <1>2, <1>5, <1>6, <1>7 DEF CatchupInv

LEMMA LogKeeps ==
  ASSUME CatchupInv, StartSession \/ \E s \in Sessions : HandleRec(s)
  PROVE  CatchupInv'
<1>1. /\ cursor' \in [Sessions -> Nat] /\ chat' \in [Sessions -> Seq(Rows)]
      /\ running' \in [Sessions -> Seq(Runs)]
      /\ \A s \in Sessions : StoreSound(Store(s))'
  <2>1. UNCHANGED storeVars
    BY DEF StartSession, HandleRec
  <2> QED BY <2>1, StoreKept DEF storeVars
<1>2. dkey' \in Nat /\ epoch' \in Nat /\ up' \in Seq(Requests) /\ down' \in Seq(AppFrames)
      /\ RingTyped(ring')
  BY DEF StartSession, HandleRec, CatchupInv, linkVars
<1>3. started' \in Sessions /\ log' \in [Sessions -> Nat] /\ spawned' \in SUBSET (Sessions \X Nat)
  <2>1. CASE StartSession
    <3>1. started + 1 \in Sessions
      BY <2>1, SessionNumbers DEF StartSession, CatchupInv
    <3> QED BY <2>1, <3>1 DEF StartSession, CatchupInv
  <2>2. ASSUME NEW s \in Sessions, HandleRec(s)
        PROVE  started' \in Sessions /\ log' \in [Sessions -> Nat] /\ spawned' \in SUBSET (Sessions \X Nat)
    <3>1. log[s] + 1 \in Nat
      BY DEF CatchupInv
    <3>2. log' = [log EXCEPT ![s] = @ + 1] /\ spawned' = spawned \cup {<<s, log[s] + 1>>}
          /\ started' = started
      BY <2>2, Zenon DEF HandleRec
    <3> QED BY <3>1, <3>2 DEF CatchupInv
  <2> QED BY <2>1, <2>2
<1> QED BY <1>1, <1>2, <1>3 DEF CatchupInv

LEMMA CatchupNextInv == CatchupInv /\ [CatchupNext]_catchupVars => CatchupInv'
<1> SUFFICES ASSUME CatchupInv, [CatchupNext]_catchupVars PROVE CatchupInv'
  OBVIOUS
<1>1. CASE UNCHANGED catchupVars
  <2>1. UNCHANGED <<started, log, spawned, dkey, epoch, up, down, ring, storeVars>>
    BY <1>1 DEF catchupVars, daemonVars, linkVars
  <2> QED BY <2>1, CatchupStep DEF CatchupInv, storeVars
<1>2. CASE PublishSome
  BY <1>2, PublishKeeps DEF PublishSome
<1>3. CASE HandleFrame
  BY <1>3, HandleFrameKeeps
<1>4. CASE OnRelayFrame
  BY <1>4, RelayFrameKeeps
<1>5. CASE AppRestarts
  BY <1>5, AppRestartsKeeps
<1>6. CASE StartSession \/ \E s \in Sessions : HandleRec(s)
  BY <1>6, LogKeeps
<1>7. CASE \/ Connect \/ OnAuthOk \/ SocketFails \/ PongsMissing \/ LateFailure
           \/ HelloFallback \/ RegisterClient
  BY <1>7, AppSideKeeps
<1> QED BY <1>1, <1>2, <1>3, <1>4, <1>5, <1>6, <1>7 DEF CatchupNext

\* Whatever is published, cached, replayed, batched or lost, each session's store
\* is sound (SessionStore.swift appendRec, appendBatch, takePendingPre).
THEOREM CatchupInvariant == CatchupSpec => []CatchupInv
<1>1. CatchupInv /\ [CatchupNext]_catchupVars => CatchupInv'
  BY CatchupNextInv
<1> QED BY CatchupInitInv, <1>1, PTL DEF CatchupSpec

\* For any records, tools, sessions and batch size, a chat shows its records in the
\* order of the log, none twice, and a tool's card its own result.
THEOREM ChatIsSound == CatchupSpec => []ChatSound
<1>1. CatchupInv => ChatSound
  <2> SUFFICES ASSUME CatchupInv, NEW s \in Sessions
               PROVE /\ \A i, j \in 1..Len(chat[s]) : i < j => chat[s][i].seq < chat[s][j].seq
                     /\ \A i \in 1..Len(chat[s]) : RowSound(chat[s][i])
    BY DEF ChatSound, RowSound
  <2>1. StoreSound(Store(s)) /\ Store(s).chat = chat[s]
    BY DEF CatchupInv, Store
  <2> QED BY <2>1 DEF StoreSound
<1> QED BY <1>1, CatchupInvariant, PTL

\* The cache changes by pushes only.
LEMMA RingSteps ==
  ASSUME CatchupInv, CatchupNext, RingSound(ring), MaxKeysPerDaemon > 0
  PROVE  RingSound(ring')
<1>0. RingTyped(ring)
  BY DEF CatchupInv
<1>1. CASE PublishSome
  <2> PICK x \in spawned : Publish(x)
    BY <1>1 DEF PublishSome
  <2> DEFINE f == IF x[2] = 0 THEN Frame(Meta, 0, dkey, State(x[1]))
                              ELSE Frame(x[1], x[2], dkey, Rec(x[1], x[2]))
  <2>1. x \in Sessions \X Nat /\ dkey \in Nat
    BY DEF CatchupInv
  <2>2. x[1] \in Sessions /\ x[2] \in Nat /\ x[1] \in Sids /\ Meta \in Sids
    BY <2>1, SessionNumbers
  <2>3. f \in CacheFrames
    BY <2>1, <2>2, FramesTyped
  <2>4. Publishes(f)
    BY DEF Publish
  <2> HIDE DEF f
  <2>5. ring' = ring \/ ring' = Cached(ring, f)
    BY <2>4 DEF Publishes
  <2> QED BY <1>0, <2>3, <2>5, CachedSound
<1>2. CASE HandleFrame
  <2> DEFINE msg == Head(up)
  <2>1. up \in Seq(Requests) /\ up # << >>
    BY <1>2 DEF CatchupInv, HandleFrame
  <2>2. msg \in Requests
    BY <2>1
  <2>3. HandleFrontendJoined(msg) \/ RouteSubscribe(msg) \/ DispatchRelayControl(msg)
    BY <1>2 DEF HandleFrame
  <2> HIDE DEF msg
  <2>4. CASE HandleFrontendJoined(msg)
    <3> DEFINE f == Frame(Meta, 0, msg.c, Hello(started))
    <3>1. msg.c \in Nat /\ started \in Sessions /\ Meta \in Sids
      BY <2>2, RequestFields, SessionNumbers DEF CatchupInv
    <3>2. f \in CacheFrames
      BY <3>1, FramesTyped
    <3>3. ring' = Cached(ring, f) \/ ring' = ring
      BY <2>4 DEF HandleFrontendJoined
    <3> HIDE DEF f
    <3> QED BY <1>0, <3>2, <3>3, CachedSound
  <2>5. CASE RouteSubscribe(msg)
    BY <2>5 DEF RouteSubscribe
  <2>6. CASE DispatchRelayControl(msg)
    <3>1. PICK f \in AppFrames, g \in CacheFrames :
             ring' = Cached(Cached(ring, g), f) \/ ring' = Cached(ring, g)
      BY <2>2, <2>6, ControlFrames
    <3>2. RingTyped(Cached(ring, g)) /\ RingSound(Cached(ring, g))
      BY <1>0, CachedTyped, CachedSound
    <3>3. f \in CacheFrames
      BY DEF CacheFrames
    <3>4. RingSound(Cached(Cached(ring, g), f))
      BY <3>2, <3>3, CachedSound
    <3> QED BY <3>1, <3>2, <3>4
  <2> QED BY <2>3, <2>4, <2>5, <2>6
<1>3. CASE ring' = ring
  BY <1>3
<1>4. PublishSome \/ HandleFrame \/ ring' = ring
  BY DEF CatchupNext, StartSession, HandleRec, RegisterClient, Connect, OnAuthOk, SocketFails, PongsMissing,
         LateFailure, AppRestarts, HelloFallback, OnRelayFrame
<1> QED BY <1>1, <1>2, <1>3, <1>4

\* For any number of sessions, cache size and cap, the cache stays within its bounds
\* and its order names the keys that hold frames (RingCache::push).  Without a cap
\* (0) the code keeps no order, so there is nothing to say.
THEOREM CacheStaysSound == ASSUME MaxKeysPerDaemon > 0 PROVE CatchupSpec => []CacheSound
<1>1. CatchupInit => RingSound(ring)
  <2> SUFFICES ASSUME CatchupInit PROVE RingSound(ring)
    OBVIOUS
  <2>1. ring.order = << >> /\ ring.buffers = [k \in Keys |-> << >>]
    BY DEF CatchupInit, EmptyRing
  <2>2. CachedKeys(ring, Daemon) = {}
    BY <2>1 DEF CachedKeys
  <2>3. IsInjective(<< >>) /\ ToSet(<< >>) = {}
    BY DEF IsInjective, ToSet
  <2>4. \A k \in Keys : Len(ring.buffers[k]) = 0
    BY <2>1
  <2>5. MaxKeysPerDaemon \in Nat /\ CacheSize \in Nat /\ Cardinality({}) = 0
    BY RingAssumption, FS_EmptySet DEF RingAssumption
  <2> QED BY <2>1, <2>2, <2>3, <2>4, <2>5 DEF RingSound
<1>2. CatchupInv /\ RingSound(ring) /\ [CatchupNext]_catchupVars => RingSound(ring)'
  <2>1. RingSound(ring) /\ UNCHANGED catchupVars => RingSound(ring)'
    BY DEF catchupVars
  <2> QED BY <2>1, RingSteps
<1>3. RingSound(ring) => CacheSound
  BY DEF RingSound, CacheSound
<1> QED BY <1>1, <1>2, <1>3, CatchupInvariant, PTL DEF CatchupSpec
=============================================================================
