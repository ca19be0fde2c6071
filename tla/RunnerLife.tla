----------------------------- MODULE RunnerLife ------------------------------
(***************************************************************************)
(* What a runner promises the daemon about its connection, whatever        *)
(* happens inside it: a hello first, then records, with the terminal's     *)
(* chunks in the order they were read, then at most one bye and nothing    *)
(* after it.  The connection may end at any point.  Runner implements this *)
(* specification, and Sessions lets its runners send whatever it allows.   *)
(***************************************************************************)
EXTENDS Naturals, Sequences, SequencesExt

CONSTANT Chunks         \* a chunk of terminal output is a number in 1 .. Chunks

Hello == [t |-> "hello"]
Event == [t |-> "rec", kind |-> "event"]
Io(n) == [t |-> "rec", kind |-> "io", n |-> n]
Bye(reason) == [t |-> "bye", reason |-> reason]
ByeReasons == {"signal", "exit"}

IsIo(f) == f.t = "rec" /\ f.kind = "io"
ChunksIn(w) == {w[i].n : i \in {j \in DOMAIN w : IsIo(w[j])}}

\* The chunks of w come in the order they were read, each once.
InOrder(w) == \A i, j \in DOMAIN w : i < j /\ IsIo(w[i]) /\ IsIo(w[j]) => w[i].n < w[j].n

\* The frames that may follow those sent so far.
MayFollow(w) ==
    IF w = << >> THEN {Hello}
    ELSE IF Last(w).t = "bye" THEN {}
    ELSE {Event} \cup {Bye(r) : r \in ByeReasons}
         \cup {Io(n) : n \in {k \in 1 .. Chunks : \A c \in ChunksIn(w) : c < k}}

VARIABLES wire, over

Init == wire = << >> /\ over = FALSE

Send == ~over /\ \E f \in MayFollow(wire) : wire' = Append(wire, f) /\ UNCHANGED over

End == ~over /\ over' = TRUE /\ UNCHANGED wire

Next == Send \/ End

Spec == Init /\ [][Next]_<<wire, over>>
=============================================================================
