---------------------------- MODULE MCEvaluation ----------------------------
(***************************************************************************)
(* Two calls about x, one of them also about y; answers that name a        *)
(* candidate once, twice, badly, not at all, or somebody else; entries     *)
(* stored under other texts and another revision.                          *)
(***************************************************************************)
EXTENDS Evaluation, TLC

CONSTANTS v, x, y, c1, c2

Person(id, revision, about, intent) ==
    [user_id |-> id, profile_revision |-> revision, self_description |-> about,
     connection_intent |-> intent, oversized |-> FALSE]

Viewer == Person(v, 1, {}, {"vq"})
X == Person(x, 1, {"xq"}, {"xi"})
Y == Person(y, 1, {"."}, {"yi"})
Long(p) == [p EXCEPT !.oversized = TRUE]

MCQuotes == {"vq", "xq", "xi", "old", "yi", "."}
MCTelling == MCQuotes \ {"."}

MCRequests ==
    c1 :> {[viewer |-> Viewer, candidates |-> <<X, Y>>]}
    @@ c2 :> {[viewer |-> Viewer, candidates |-> <<Long(X), Y>>],
              [viewer |-> Long(Viewer), candidates |-> <<X>>]}

Says(id, status, score, quotes) ==
    [fits |-> TRUE, id |-> id, status |-> status, score |-> score, reason |-> status = "evaluated",
     intent_conflict |-> FALSE, evidence |-> quotes]

Quote(source, quote) == [source |-> source, quote |-> quote]

Full(id, quote) == Says(id, "evaluated", 2, {Quote("vi", "vq"), Quote("ci", quote)})
Bad(id) == [Says(id, "evaluated", 2, {}) EXCEPT !.fits = FALSE]

MCReplies ==
    [who \in SUBSET {v, x, y} |->
       (IF x \in who
        THEN {[entries |-> <<Full(x, "xi"), Full(v, "vq")>>, usage |-> Fields],
              [entries |-> <<Full(x, "xi"), Bad(x)>>, usage |-> {"in"}]}
        ELSE {})
       \cup
       (IF y \in who
        THEN {[entries |-> <<Says(y, "insufficient", Nothing, {Quote("cs", ".")})>>, usage |-> {}]}
        ELSE {})]

MCTroubles ==
    {[code |-> "gateway_timeout", usage |-> {}], [code |-> "output_truncated", usage |-> Fields]}

Stored(quotes, id, revision) ==
    [candidate_user_id |-> id, status |-> "evaluated", score |-> 2, reason |-> TRUE,
     excerpts |-> {[source |-> q.source, quote |-> q.quote, verified |-> TRUE] : q \in quotes},
     intent_conflict |-> FALSE, failure_code |-> Nothing,
     viewer_profile_revision |-> 1, candidate_profile_revision |-> revision]

MCFound == {Stored({Quote("ci", "old")}, x, 0)}

=============================================================================
