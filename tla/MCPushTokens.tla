---------------------------- MODULE MCPushTokens ----------------------------
(***************************************************************************)
(* Two users and two devices: a handover in each direction, a second       *)
(* device that keeps a list alive, and a drop overtaken by either.         *)
(***************************************************************************)
EXTENDS PushTokens, TLC

Symmetry == Permutations(Users) \cup Permutations(Tokens)
              \cup Permutations(Deliveries)
=============================================================================
