---------------------------- MODULE ChatPromise ----------------------------
(***************************************************************************)
(* What POST /api/v1/messages promises its callers, with none of the Redis *)
(* keys behind it: every pair of users has one dialogue, which only grows, *)
(* and one client_message_id of one sender adds at most one entry to one   *)
(* dialogue, however often the request is sent.                            *)
(***************************************************************************)
EXTENDS Sequences

CONSTANTS Users, ClientIds, Texts

VARIABLES
    dialogue,   \* dialogue[{a, b}]: what a and b have written to each other
    claimed     \* the <<sender, client_message_id>> keys already used

Entry == [sender : Users, text : Texts]

Init ==
    /\ dialogue = [p \in SUBSET Users |-> <<>>]
    /\ claimed = {}

Post(s, r, i, x) ==
    /\ s # r
    /\ <<s, i>> \notin claimed
    /\ claimed' = claimed \cup {<<s, i>>}
    /\ dialogue' = [dialogue EXCEPT ![{s, r}] =
                      Append(@, [sender |-> s, text |-> x])]

Next == \E s, r \in Users, i \in ClientIds, x \in Texts : Post(s, r, i, x)

Spec == Init /\ [][Next]_<<dialogue, claimed>>

=============================================================================
