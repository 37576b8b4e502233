-------------------------- MODULE MCRuntimeManager --------------------------
(* RuntimeManager on a small instance: the first object may publish twice,  *)
(* the second once.                                                         *)
EXTENDS RuntimeManager, TLC

CONSTANTS r1, r2

TwoAndOne == r1 :> 2 @@ r2 :> 1
OneEach == r1 :> 1 @@ r2 :> 1
=============================================================================
