---------------------------- MODULE MCPairCommands ----------------------------
(* The commands that delete things, and the daemon's pairings.               *)
(*                                                                           *)
(* Two commands; two sessions, one sid the start of the other; two pairings, *)
(* one of whose labels is the rest of the other's id.  Two runs of `tp pair  *)
(* new` compete, one pairing is removed at a time.                           *)
(*                                                                           *)
(* The two specifications have no variable in common.  They are checked in   *)
(* one run: one of them moves while the other is where it started.           *)
EXTENDS Commands, Pairing, TLC

CONSTANTS d1, c1, c2, r1

MCSids == {<<"1">>, <<"1", "2">>}
MCDids == {<<"daemon-", "1">>, <<"daemon-", "2">>}
MCTyped == {<< >>, <<"1">>, <<"2">>}
MCLabels == {<<"2">>}
MCFirstRows == {(<<"1">> :> "stopped") @@ (<<"1", "2">> :> st) : st \in {"stopped", "running"}}
MCFirstOld == {<<"1">>}
MCFirstLabels == (<<"daemon-", "1">> :> <<"2">>) @@ (<<"daemon-", "2">> :> << >>)

MCMixes == {<<"cleanup", "prune">>, <<"delete", "prune">>, <<"delete", "delete">>, <<"cleanup", "delete">>,
            <<"pairDelete", "pairRename">>, <<"completions", "completions">>}
MCPrunes == {[all |-> TRUE, running |-> TRUE, dry |-> FALSE, yes |-> FALSE],
             [all |-> FALSE, running |-> FALSE, dry |-> FALSE, yes |-> TRUE],
             [all |-> TRUE, running |-> FALSE, dry |-> TRUE, yes |-> FALSE]}

\* The pairings move beside one of the commands' starting states, it matters not which.
AtRest == CommandsInit /\ live # {}

MCInit == CommandsInit /\ Init
MCNext ==
    \/ Init /\ CommandsNext /\ UNCHANGED vars
    \/ AtRest /\ Next /\ UNCHANGED commandsVars
MCSpec == MCInit /\ [][MCNext]_<<commandsVars, vars>>
=============================================================================
