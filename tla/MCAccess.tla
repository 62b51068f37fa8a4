------------------------------ MODULE MCAccess ------------------------------
(***************************************************************************)
(* An instance of Access for TLC: two groups, two changes at a time.       *)
(***************************************************************************)
EXTENDS Access, TLC

CONSTANTS g1, g2, c1, c2

Symmetric == Permutations({g1, g2}) \cup Permutations({c1, c2})
=============================================================================
