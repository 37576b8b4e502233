---------------------------- MODULE MCCollectors ----------------------------
(* Collectors over a market that opens and closes twice.        *)
EXTENDS Collectors
=============================================================================
