------------------------------ MODULE MCBetTick ------------------------------
(* Model-checking values for BetTick: lists of no, one and two picks, one of *)
(* them a draw and one of them given twice.                                  *)
EXTENDS BetTick

CONSTANTS e1, e2

Home1 == [event |-> e1, outcome |-> "home"]
Draw2 == [event |-> e2, outcome |-> "draw"]

MCPickLists == {<<>>, <<Home1>>, <<Home1, Draw2>>, <<Home1, Home1>>}
=============================================================================
