---------------------------- MODULE MCChatScreen ----------------------------
(***************************************************************************)
(* Two chats to move between and pages of one row, so that a history of    *)
(* two messages already takes two pages.  The peers are not symmetric: the *)
(* run checks a temporal property, and TLC's check of one does not allow   *)
(* a symmetry set.                                                         *)
(***************************************************************************)
EXTENDS ChatScreen

=============================================================================
