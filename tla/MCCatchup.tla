------------------------------ MODULE MCCatchup ------------------------------
(* Two sessions, each with a tool call and its result.                      *)
EXTENDS Catchup

MCDaemons == {"d"}
MCSids == {0, 1, 2}
MCMeta == 0
MCRecords == << [k |-> "pre", tool |-> "t"], [k |-> "post", tool |-> "t"] >>
=============================================================================
