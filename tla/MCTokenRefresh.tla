---------------------------- MODULE MCTokenRefresh ----------------------------
(* Instances of TokenRefresh for TLC. *)
EXTENDS TokenRefresh, TLC

CONSTANTS c1, c2

Symmetry2 == Permutations({c1, c2})
===============================================================================
