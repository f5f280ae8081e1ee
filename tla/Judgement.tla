----------------------------- MODULE Judgement -----------------------------
(***************************************************************************)
(* What the recommendation service makes of a model's answer, of a stored  *)
(* evaluation and of a set of outcomes (server/app/ai).  A field of a      *)
(* profile is the set of the quotes that occur in it.                      *)
(***************************************************************************)
EXTENDS Integers, FiniteSets, Sequences

CONSTANTS
    Nothing,         \* None
    People, Quotes,
    Telling,         \* the quotes with at least min_excerpt_chars letters
    TopScore,        \* scores are 0..TopScore
    Threshold,       \* notification_score_threshold
    RequireMutual, RequireIntent,
    MaxPerRequest    \* notification_max_per_request

JudgementAssumption ==
    /\ Telling \subseteq Quotes
    /\ TopScore \in Nat /\ Threshold \in Int /\ MaxPerRequest \in Nat
    /\ RequireMutual \in BOOLEAN /\ RequireIntent \in BOOLEAN
    /\ Nothing \notin 0..TopScore

ASSUME JudgementAssumption

Profile == [user_id : People, profile_revision : Nat, self_description : SUBSET Quotes,
            connection_intent : SUBSET Quotes, oversized : BOOLEAN]

ViewerSources == {"vs", "vi"}
CandidateSources == {"cs", "ci"}

SourceText(source, viewer, candidate) ==
    CASE source = "vs" -> viewer.self_description
      [] source = "vi" -> viewer.connection_intent
      [] source = "cs" -> candidate.self_description
      [] source = "ci" -> candidate.connection_intent

VerifyExcerpt(e, viewer, candidate) ==
    e.quote \in Telling \cap SourceText(e.source, viewer, candidate)

\* Fault: an excerpt that says it was verified is believed.
VerifyExcerptsOnce(excerpts, viewer, candidate) == excerpts

\* Recomputed against the live text, whatever the excerpts claim.
VerifyExcerpts(excerpts, viewer, candidate) ==
    {[e EXCEPT !.verified = VerifyExcerpt(e, viewer, candidate)] : e \in excerpts}

HasVerified(excerpts, sources) == \E e \in excerpts : e.verified /\ e.source \in sources

Sources == ViewerSources \cup CandidateSources

Grounded(excerpts) == HasVerified(excerpts, Sources)

-----------------------------------------------------------------------------
(***************************************************************************)
(* Outcomes                                                                *)
(***************************************************************************)

FailureCodes ==
    {"configuration_missing", "gateway_timeout", "gateway_http_error", "gateway_network_error",
     "invalid_json", "schema_mismatch", "missing_in_response", "input_too_long",
     "duplicate_in_response", "ungrounded_reason", "output_truncated"}

CandidateRecommendation ==
    [candidate_user_id : People, status : {"evaluated", "insufficient", "failed"},
     score : 0..TopScore \cup {Nothing}, reason : BOOLEAN,
     excerpts : SUBSET [source : Sources, quote : Quotes, verified : BOOLEAN],
     intent_conflict : BOOLEAN, failure_code : FailureCodes \cup {Nothing},
     viewer_profile_revision : Nat, candidate_profile_revision : Nat]

Placeholder(viewer, candidate, code) ==
    [candidate_user_id |-> candidate.user_id, status |-> "failed",
     score |-> Nothing, reason |-> FALSE, excerpts |-> {}, intent_conflict |-> FALSE,
     failure_code |-> code,
     viewer_profile_revision |-> viewer.profile_revision,
     candidate_profile_revision |-> candidate.profile_revision]

\* Fault: the model's quotes are taken for true ones.
QuotedAsGiven(viewer, candidate, raw) ==
    {[source |-> e.source, quote |-> e.quote, verified |-> TRUE] : e \in raw.evidence}

\* The excerpts of an entry, each one checked.
Quoted(viewer, candidate, raw) ==
    VerifyExcerpts({[source |-> e.source, quote |-> e.quote, verified |-> FALSE]
                       : e \in raw.evidence}, viewer, candidate)

\* One entry of the model's answer that fits the schema (raw.fits).
Build(viewer, candidate, raw) ==
    LET excerpts == Quoted(viewer, candidate, raw)
        outcome == [Placeholder(viewer, candidate, Nothing) EXCEPT
                       !.excerpts = excerpts, !.intent_conflict = raw.intent_conflict]
    IN CASE raw.status = "insufficient" -> [outcome EXCEPT !.status = "insufficient"]
         [] raw.status \notin {"evaluated", "insufficient"}
            \/ (raw.status = "evaluated" /\ (~raw.reason \/ raw.score \notin 0..TopScore)) ->
                Placeholder(viewer, candidate, "schema_mismatch")
         [] raw.status = "evaluated" /\ raw.reason /\ raw.score \in 0..TopScore ->
                IF Grounded(excerpts)
                THEN [outcome EXCEPT !.status = "evaluated", !.score = raw.score, !.reason = TRUE]
                ELSE [outcome EXCEPT !.failure_code = "ungrounded_reason"]

\* The entries of an answer that name a candidate, well formed or not.
Mentions(entries, candidate) == {i \in DOMAIN entries : entries[i].id = candidate.user_id}

\* What is built of one entry; `fits` is parse_evaluation not refusing it.
Judged(viewer, candidate, raw) ==
    IF raw.fits THEN Build(viewer, candidate, raw)
    ELSE Placeholder(viewer, candidate, "schema_mismatch")

\* Fault: the first of several entries for a candidate counts.
FirstCounts(viewer, candidate, entries) ==
    LET named == Mentions(entries, candidate) IN
    IF named = {} THEN Placeholder(viewer, candidate, "missing_in_response")
    ELSE Judged(viewer, candidate, entries[CHOOSE i \in named : \A j \in named : i <= j])

\* A candidate of a batch is judged by the one entry that names it; entries for
\* anyone else are dropped.
Accounted(viewer, candidate, entries) ==
    LET named == Mentions(entries, candidate) IN
    CASE named = {} -> Placeholder(viewer, candidate, "missing_in_response")
      [] Cardinality(named) > 1 -> Placeholder(viewer, candidate, "duplicate_in_response")
      [] Cardinality(named) = 1 ->
            Judged(viewer, candidate, entries[CHOOSE i \in named : TRUE])

\* Fault: a stored evaluation keeps the revisions it was stored with.
RevalidatedAsStored(cached, viewer, candidate) ==
    IF cached = Nothing \/ cached.candidate_user_id # candidate.user_id THEN Nothing
    ELSE [cached EXCEPT !.excerpts = VerifyExcerpts(@, viewer, candidate)]

\* A stored evaluation is re-checked against the live text and re-stamped; one
\* that names somebody else is a miss.
Revalidated(cached, viewer, candidate) ==
    IF cached = Nothing \/ cached.candidate_user_id # candidate.user_id THEN Nothing
    ELSE LET live == [cached EXCEPT
                         !.excerpts = VerifyExcerpts(@, viewer, candidate),
                         !.viewer_profile_revision = viewer.profile_revision,
                         !.candidate_profile_revision = candidate.profile_revision]
         IN IF cached.status = "evaluated" /\ ~Grounded(live.excerpts)
            THEN [live EXCEPT !.status = "failed", !.failure_code = "ungrounded_reason",
                              !.score = Nothing, !.reason = FALSE]
            ELSE live

-----------------------------------------------------------------------------
(***************************************************************************)
(* NotificationPolicy, and the order of a result                           *)
(***************************************************************************)

Eligible(item) ==
    /\ item.status = "evaluated"
    /\ ~item.intent_conflict
    /\ item.score # Nothing /\ item.score >= Threshold
    /\ item.reason
    /\ \A e \in item.excerpts : e.verified
    /\ RequireMutual => /\ HasVerified(item.excerpts, ViewerSources)
                        /\ HasVerified(item.excerpts, CandidateSources)
    /\ RequireIntent => /\ HasVerified(item.excerpts, {"vi"})
                        /\ HasVerified(item.excerpts, {"ci"})

StatusOrder == [evaluated |-> 0, insufficient |-> 1, failed |-> 3]

\* Status class, then score, then the order the server supplied.
Before(items, i, j) ==
    LET score(k) == IF items[k].score = Nothing THEN 0 ELSE items[k].score
        class(k) == StatusOrder[items[k].status]
    IN \/ class(i) < class(j)
       \/ class(i) = class(j) /\ score(i) > score(j)
       \/ class(i) = class(j) /\ score(i) = score(j) /\ i < j

\* The best ones that clear the bar, up to the cap.
Marked(items) ==
    LET worthy == {i \in DOMAIN items : Eligible(items[i])}
    IN {i \in worthy : Cardinality({j \in worthy : Before(items, j, i)}) < MaxPerRequest}

=============================================================================
