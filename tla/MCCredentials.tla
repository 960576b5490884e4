--------------------------- MODULE MCCredentials ----------------------------
(***************************************************************************)
(* Three rotations of one account's credentials, and Basic requests.       *)
(***************************************************************************)
EXTENDS Credentials, TLC

CONSTANTS n1, n2, n3, b1, b2

RequestSymmetry == Permutations(Rotations) \cup Permutations(Calls)
=============================================================================
