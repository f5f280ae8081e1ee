---------------------------- MODULE MCDiscovery ----------------------------
(***************************************************************************)
(* Two users and two identifiers: one user rotates or stops while the      *)
(* other's report is between its commands.                                 *)
(***************************************************************************)
EXTENDS Discovery, TLC

Symmetry == Permutations(Users) \cup Permutations(Identifiers)
=============================================================================
