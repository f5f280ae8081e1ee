---------------------------- MODULE MCMessaging ----------------------------
(***************************************************************************)
(* Two users, who are enough for every race of the send script: both may   *)
(* write first, retry, reuse an id for another text and crash the server   *)
(* in between.                                                             *)
(***************************************************************************)
EXTENDS Messaging, TLC

Symmetry == UNION {Permutations(S) : S \in {Users, Texts, Conversations}}
=============================================================================
