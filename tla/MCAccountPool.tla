---------------------------- MODULE MCAccountPool ----------------------------
(* An instance of AccountPool for TLC: two playbacks of one account that is *)
(* edited between them.                                                     *)
EXTENDS AccountPool, TLC

CONSTANTS a1, t1, t2

EditSymmetry == Permutations({t1, t2})
=============================================================================
