----------------------------- MODULE MCSession -----------------------------
(***************************************************************************)
(* Two request ids, three calls on their way, two changes and a reload.     *)
(***************************************************************************)
EXTENDS Session, TLC

Alike == Permutations(Requests) \cup Permutations(Calls)

=============================================================================
