------------------------- MODULE MCRecommendations -------------------------
(***************************************************************************)
(* One viewer and one candidate, two processes with a job each or two jobs *)
(* on one of them.                                                         *)
(***************************************************************************)
EXTENDS Recommendations, TLC

CONSTANTS v, x

MCKeys ==
    {[viewer |-> v, viewer_revision |-> i, candidate |-> x, candidate_revision |-> j] :
        i, j \in Revisions}

\* Processes and tasks are alike.
Alike == Permutations(Workers) \cup Permutations(Calls)

=============================================================================
