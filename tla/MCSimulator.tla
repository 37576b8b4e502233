---------------------------- MODULE MCSimulator ----------------------------
(* Simulator with one key.  Prices are multiples of 60, so that the average *)
(* prices of positions of at most 6 lots are whole.                         *)
EXTENDS Simulator, TLC

MCKeys == {"24000_CE"}
MCPrices == {60, 120}
MCLots == {1, 2}
MCExits == {[sl |-> {60}, target |-> {60}]}
Symmetry == Permutations(Clients)
=============================================================================
