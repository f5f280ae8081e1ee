-------------------------- MODULE EvaluationProofs --------------------------
(***************************************************************************)
(* Every call answers its request, on true quotes, by one entry each, and  *)
(* nothing outlives it, for any number of calls, candidates, attempts and  *)
(* permits and whatever the model says.  The argument: an outcome that is  *)
(* found, built or made up for a candidate is sound when it is made, and a *)
(* candidate without one is in exactly one batch.                          *)
(***************************************************************************)
EXTENDS Evaluation, FiniteSetTheorems, TLAPS

\* What an outcome for a candidate must be.
Sound(o, viewer, candidate) ==
    /\ o \in CandidateRecommendation
    /\ o.candidate_user_id = candidate.user_id
    /\ o.viewer_profile_revision = viewer.profile_revision
    /\ o.candidate_profile_revision = candidate.profile_revision
    /\ \A e \in o.excerpts : e.verified = VerifyExcerpt(e, viewer, candidate)
    /\ o.status = "evaluated" => Grounded(o.excerpts)

Excerpt == [source : Sources, quote : Quotes, verified : BOOLEAN]

Reply == [entries : Seq(RawEvaluation), usage : SUBSET Fields]

Phases == {"idle", "reading", "evaluating", "cancelling", "answered", "raised"}

TaskType ==
    [at : {"queued", "posting", "storing", "done", "cancelled"}, members : SUBSET Nat,
     tries : 0..MaxAttempts, reply : Reply \cup {Nothing},
     results : {<<>>} \cup UNION {[m -> CandidateRecommendation] : m \in SUBSET Nat},
     unsaved : SUBSET Nat]

\* A result of an evaluated batch is sound, and an evaluation rests on one entry.
ResultRight(t, i, r) ==
    /\ i \in DOMAIN t.results
    /\ Sound(t.results[i], r.viewer, r.candidates[i])
    /\ t.results[i].status # "failed" => Cardinality(Mentions(t.reply.entries, r.candidates[i])) = 1

TaskRight(t, r) ==
    /\ t \in TaskType
    /\ t.members \subseteq DOMAIN r.candidates
    /\ t.unsaved \subseteq t.members
    /\ t.at \in {"storing", "done"} => \A i \in t.members : ResultRight(t, i, r)

\* The outcomes and batches of a call that is past the idle phase.
OutcomesRight(r, re, ba) ==
    /\ re \in [DOMAIN r.candidates -> CandidateRecommendation \cup {Nothing}]
    /\ \A i \in DOMAIN r.candidates : re[i] # Nothing => Sound(re[i], r.viewer, r.candidates[i])
    /\ \A n \in DOMAIN ba : TaskRight(ba[n], r)
    /\ \A m, n \in DOMAIN ba : m # n => ba[m].members \cap ba[n].members = {}

\* A candidate without an outcome is in a batch, and only such a candidate.
BatchesRight(r, re, ba) ==
    \A i \in DOMAIN r.candidates : re[i] = Nothing <=> \E n \in DOMAIN ba : i \in ba[n].members

ByOneEntry(r, re, ba) ==
    \A n \in DOMAIN ba : \A i \in ba[n].members :
        re[i].status # "failed" =>
            /\ ba[n].at = "done"
            /\ Cardinality(Mentions(ba[n].reply.entries, r.candidates[i])) = 1

\* One call, by its phase, request, reads in flight, reads done, outcomes, batches.
CallRight(ph, r, un, fo, re, ba) ==
    /\ ph \in Phases
    /\ ph \in {"idle", "reading"} => ba = <<>>
    /\ ph # "reading" => un = {}
    /\ ph # "idle" =>
         /\ r \in AllRequests
         /\ un \subseteq DOMAIN r.candidates
         /\ OutcomesRight(r, re, ba)
    /\ ph = "reading" => fo \in [DOMAIN r.candidates -> CandidateRecommendation \cup {Nothing}]
    /\ ph \in {"evaluating", "cancelling"} => BatchesRight(r, re, ba)
    /\ ph = "answered" => /\ \A i \in DOMAIN r.candidates : re[i] # Nothing
                          /\ ByOneEntry(r, re, ba)
    /\ ph \in {"answered", "raised"} => \A n \in DOMAIN ba : Over(ba[n])

CallsRight ==
    \A c \in Calls :
        CallRight(phase[c], request[c], unread[c], found[c], resolved[c], batch[c])

\* Each call has its cells.
CellsRight ==
    /\ request \in [Calls -> AllRequests \cup {Nothing}]
    /\ phase \in [Calls -> Phases]
    /\ DOMAIN unread = Calls /\ DOMAIN found = Calls
    /\ DOMAIN resolved = Calls /\ DOMAIN batch = Calls
    /\ timedOut \in [Calls -> BOOLEAN]
    /\ cache \in [AllKeys -> CandidateRecommendation \cup {Nothing}]

CountsRight ==
    /\ metrics \in [Calls -> [count : Nat, coverage : [Fields -> Nat]]]
    /\ whole \in [Calls -> Nat]

\* A permit is missing for each batch inside.
PermitsRight ==
    /\ IsFiniteSet(Inside)
    /\ permits \in Nat
    /\ permits + Cardinality(Inside) = MaxConcurrent

IInv == CallsRight /\ CellsRight /\ CountsRight /\ PermitsRight

-----------------------------------------------------------------------------
(***************************************************************************)
(* The operators of Judgement                                              *)
(***************************************************************************)

\* A placeholder is sound.
LEMMA PlaceholderSound ==
    ASSUME NEW viewer \in Profile, NEW candidate \in Profile, NEW code \in FailureCodes
    PROVE  Sound(Placeholder(viewer, candidate, code), viewer, candidate)
BY DEF Sound, Placeholder, Profile, CandidateRecommendation

\* Verified excerpts are excerpts, and say of themselves what is true.
LEMMA VerifyExcerptsTrue ==
    ASSUME NEW viewer, NEW candidate, NEW excerpts \in SUBSET Excerpt
    PROVE  /\ VerifyExcerpts(excerpts, viewer, candidate) \in SUBSET Excerpt
           /\ \A e \in VerifyExcerpts(excerpts, viewer, candidate) :
                 e.verified = VerifyExcerpt(e, viewer, candidate)
<1> SUFFICES ASSUME NEW e \in excerpts
             PROVE  LET x == [e EXCEPT !.verified = VerifyExcerpt(e, viewer, candidate)]
                    IN x \in Excerpt /\ x.verified = VerifyExcerpt(x, viewer, candidate)
  BY DEF VerifyExcerpts
<1>1. VerifyExcerpt(e, viewer, candidate) \in BOOLEAN
  BY DEF VerifyExcerpt
<1>2. e \in Excerpt
  OBVIOUS
<1> DEFINE x == [e EXCEPT !.verified = VerifyExcerpt(e, viewer, candidate)]
<1>3. x \in Excerpt /\ x.source = e.source /\ x.quote = e.quote
      /\ x.verified = VerifyExcerpt(e, viewer, candidate)
  BY <1>1, <1>2 DEF Excerpt
<1>4. VerifyExcerpt(x, viewer, candidate) = VerifyExcerpt(e, viewer, candidate)
  BY <1>3 DEF VerifyExcerpt
<1> QED BY <1>3, <1>4

\* An entry of the model's answer becomes a sound outcome.
LEMMA BuildSound ==
    ASSUME NEW viewer \in Profile, NEW candidate \in Profile, NEW raw \in RawEvaluation
    PROVE  Sound(Build(viewer, candidate, raw), viewer, candidate)
<1> DEFINE claimed == {[source |-> e.source, quote |-> e.quote, verified |-> FALSE]
                          : e \in raw.evidence}
           excerpts == VerifyExcerpts(claimed, viewer, candidate)
           outcome == [Placeholder(viewer, candidate, Nothing) EXCEPT
                         !.excerpts = excerpts, !.intent_conflict = raw.intent_conflict]
<1>1. claimed \in SUBSET Excerpt
  <2>1. raw.evidence \in SUBSET [source : Sources, quote : Quotes]
    BY DEF RawEvaluation
  <2>2. ASSUME NEW e \in raw.evidence
        PROVE  [source |-> e.source, quote |-> e.quote, verified |-> FALSE] \in Excerpt
    BY <2>1, <2>2 DEF Excerpt
  <2> QED BY <2>2
<1>2. /\ excerpts \in SUBSET Excerpt
      /\ \A e \in excerpts : e.verified = VerifyExcerpt(e, viewer, candidate)
  BY <1>1, VerifyExcerptsTrue
<1> HIDE DEF claimed, excerpts
<1> DEFINE blank == Placeholder(viewer, candidate, Nothing)
<1>3. /\ outcome \in CandidateRecommendation
      /\ outcome.candidate_user_id = candidate.user_id
      /\ outcome.viewer_profile_revision = viewer.profile_revision
      /\ outcome.candidate_profile_revision = candidate.profile_revision
      /\ outcome.excerpts = excerpts
      /\ outcome.status = "failed"
  <2>1. blank \in CandidateRecommendation
    BY DEF Placeholder, CandidateRecommendation, Profile
  <2>2. /\ blank.candidate_user_id = candidate.user_id
        /\ blank.viewer_profile_revision = viewer.profile_revision
        /\ blank.candidate_profile_revision = candidate.profile_revision
        /\ blank.status = "failed"
    BY DEF Placeholder
  <2>3. raw.intent_conflict \in BOOLEAN
    BY DEF RawEvaluation
  <2>4. outcome = [blank EXCEPT !.excerpts = excerpts, !.intent_conflict = raw.intent_conflict]
    OBVIOUS
  <2> HIDE DEF blank, outcome
  <2> QED BY <1>2, <2>1, <2>2, <2>3, <2>4 DEF CandidateRecommendation, Excerpt
<1> HIDE DEF outcome
<1>4. Sound([outcome EXCEPT !.status = "insufficient"], viewer, candidate)
  BY <1>2, <1>3 DEF Sound, CandidateRecommendation
<1>5. Sound([outcome EXCEPT !.failure_code = "ungrounded_reason"], viewer, candidate)
  BY <1>2, <1>3 DEF Sound, CandidateRecommendation, FailureCodes
<1>6. ASSUME raw.score \in 0..TopScore, Grounded(excerpts)
      PROVE  Sound([outcome EXCEPT !.status = "evaluated", !.score = raw.score, !.reason = TRUE],
                   viewer, candidate)
  BY <1>2, <1>3, <1>6 DEF Sound, CandidateRecommendation
<1>7. Sound(Placeholder(viewer, candidate, "schema_mismatch"), viewer, candidate)
  BY PlaceholderSound DEF FailureCodes
<1>8. Build(viewer, candidate, raw) =
        CASE raw.status = "insufficient" -> [outcome EXCEPT !.status = "insufficient"]
          [] raw.status \notin {"evaluated", "insufficient"}
             \/ (raw.status = "evaluated" /\ (~raw.reason \/ raw.score \notin 0..TopScore)) ->
                 Placeholder(viewer, candidate, "schema_mismatch")
          [] raw.status = "evaluated" /\ raw.reason /\ raw.score \in 0..TopScore ->
                 IF Grounded(excerpts)
                 THEN [outcome EXCEPT !.status = "evaluated", !.score = raw.score, !.reason = TRUE]
                 ELSE [outcome EXCEPT !.failure_code = "ungrounded_reason"]
  BY DEF Build, Quoted, outcome, excerpts, claimed
<1>9. raw.reason \in BOOLEAN
  BY DEF RawEvaluation
<1> QED
  <2>1. CASE raw.status = "insufficient"
    BY <2>1, <1>4, <1>8
  <2>2. CASE raw.status \notin {"evaluated", "insufficient"}
             \/ (raw.status = "evaluated" /\ (~raw.reason \/ raw.score \notin 0..TopScore))
    BY <2>2, <1>7, <1>8
  <2>3. CASE raw.status = "evaluated" /\ raw.reason /\ raw.score \in 0..TopScore
    BY <2>3, <1>5, <1>6, <1>8
  <2> QED BY <2>1, <2>2, <2>3

\* The positions of an answer that name a candidate can be counted.
LEMMA MentionsFinite ==
    ASSUME NEW entries \in Seq(RawEvaluation), NEW candidate
    PROVE  /\ IsFiniteSet(Mentions(entries, candidate))
           /\ Cardinality(Mentions(entries, candidate)) \in Nat
           /\ Cardinality(Mentions(entries, candidate)) = 0 <=> Mentions(entries, candidate) = {}
<1>1. IsFiniteSet(1..Len(entries)) /\ Mentions(entries, candidate) \subseteq 1..Len(entries)
  BY FS_Interval DEF Mentions
<1> QED BY <1>1, FS_Subset, FS_CardinalityType, FS_EmptySet

\* A candidate of a batch gets a sound outcome, which is an evaluation only if one
\* entry names the candidate.
LEMMA AccountedSound ==
    ASSUME NEW viewer \in Profile, NEW candidate \in Profile, NEW entries \in Seq(RawEvaluation)
    PROVE  /\ Sound(Accounted(viewer, candidate, entries), viewer, candidate)
           /\ Accounted(viewer, candidate, entries).status # "failed" =>
                Cardinality(Mentions(entries, candidate)) = 1
<1> DEFINE named == Mentions(entries, candidate)
           first == CHOOSE i \in named : TRUE
<1>1. /\ Cardinality(named) \in Nat
      /\ Cardinality(named) = 0 <=> named = {}
  BY MentionsFinite
<1>2. ASSUME NEW code \in {"missing_in_response", "duplicate_in_response", "schema_mismatch"}
      PROVE  /\ Sound(Placeholder(viewer, candidate, code), viewer, candidate)
             /\ Placeholder(viewer, candidate, code).status = "failed"
  <2>1. code \in FailureCodes
    BY <1>2 DEF FailureCodes
  <2> QED BY <2>1, PlaceholderSound DEF Placeholder
<1>3. CASE named = {}
  <2>1. Accounted(viewer, candidate, entries) = Placeholder(viewer, candidate, "missing_in_response")
    BY <1>1, <1>3 DEF Accounted
  <2> QED BY <2>1, <1>2
<1>4. CASE Cardinality(named) > 1
  <2>1. Accounted(viewer, candidate, entries) = Placeholder(viewer, candidate, "duplicate_in_response")
    BY <1>1, <1>4 DEF Accounted
  <2> QED BY <2>1, <1>2
<1>5. CASE Cardinality(named) = 1
  <2>1. named # {}
    BY <1>1, <1>5
  <2>2. first \in DOMAIN entries
    BY <2>1 DEF Mentions
  <2>3. entries[first] \in RawEvaluation
    BY <2>2
  <2>4. Accounted(viewer, candidate, entries) = Judged(viewer, candidate, entries[first])
    BY <1>1, <1>5, <2>1 DEF Accounted
  <2>5. Sound(Judged(viewer, candidate, entries[first]), viewer, candidate)
    BY <2>3, <1>2, BuildSound DEF Judged
  <2> QED BY <1>5, <2>4, <2>5
<1> QED BY <1>1, <1>3, <1>4, <1>5

\* A stored entry becomes nothing, or a sound outcome.
LEMMA RevalidatedSound ==
    ASSUME NEW viewer \in Profile, NEW candidate \in Profile,
           NEW cached \in CandidateRecommendation \cup {Nothing}
    PROVE  \/ Revalidated(cached, viewer, candidate) = Nothing
           \/ Sound(Revalidated(cached, viewer, candidate), viewer, candidate)
<1> SUFFICES ASSUME cached # Nothing, cached.candidate_user_id = candidate.user_id
             PROVE  Sound(Revalidated(cached, viewer, candidate), viewer, candidate)
  BY DEF Revalidated
<1> DEFINE excerpts == VerifyExcerpts(cached.excerpts, viewer, candidate)
           live == [cached EXCEPT
                      !.excerpts = excerpts,
                      !.viewer_profile_revision = viewer.profile_revision,
                      !.candidate_profile_revision = candidate.profile_revision]
<1>1. cached \in CandidateRecommendation /\ cached.excerpts \in SUBSET Excerpt
  BY DEF CandidateRecommendation, Excerpt
<1>2. /\ excerpts \in SUBSET Excerpt
      /\ \A e \in excerpts : e.verified = VerifyExcerpt(e, viewer, candidate)
  BY <1>1, VerifyExcerptsTrue
<1>3. Revalidated(cached, viewer, candidate) =
        IF cached.status = "evaluated" /\ ~Grounded(live.excerpts)
        THEN [live EXCEPT !.status = "failed", !.failure_code = "ungrounded_reason",
                          !.score = Nothing, !.reason = FALSE]
        ELSE live
  BY DEF Revalidated
<1> HIDE DEF excerpts
<1>4. /\ live \in CandidateRecommendation
      /\ live.excerpts = excerpts
      /\ live.status = cached.status
      /\ live.candidate_user_id = candidate.user_id
      /\ live.viewer_profile_revision = viewer.profile_revision
      /\ live.candidate_profile_revision = candidate.profile_revision
  BY <1>1, <1>2 DEF CandidateRecommendation, Excerpt, Profile
<1> HIDE DEF live
<1>5. CASE cached.status = "evaluated" /\ ~Grounded(live.excerpts)
  <2>1. Sound([live EXCEPT !.status = "failed", !.failure_code = "ungrounded_reason",
                           !.score = Nothing, !.reason = FALSE], viewer, candidate)
    BY <1>2, <1>4 DEF Sound, CandidateRecommendation, FailureCodes
  <2> QED BY <1>3, <1>5, <2>1
<1>6. CASE ~(cached.status = "evaluated" /\ ~Grounded(live.excerpts))
  <2>1. Sound(live, viewer, candidate)
    BY <1>2, <1>4, <1>6 DEF Sound
  <2> QED BY <1>3, <1>6, <2>1
<1> QED BY <1>5, <1>6

-----------------------------------------------------------------------------
(***************************************************************************)
(* The initial state, and what a step of one call leaves alone             *)
(***************************************************************************)

\* What a call is about is typed.
LEMMA RequestsTyped ==
    ASSUME NEW r \in AllRequests
    PROVE  /\ r.viewer \in Profile /\ r.candidates \in Seq(Profile)
           /\ DOMAIN r.candidates \subseteq Nat
           /\ \A i \in DOMAIN r.candidates : r.candidates[i] \in Profile
<1>1. r.viewer \in Profile /\ r.candidates \in Seq(Profile)
  BY EvaluationAssumption DEF EvaluationAssumption
<1> QED BY <1>1

LEMMA InsideMeaning ==
    ASSUME NEW c, NEW n
    PROVE  <<c, n>> \in Inside <=> c \in Calls /\ n \in DOMAIN batch[c] /\ Busy(batch[c][n])
BY DEF Inside

\* The service starts with every call idle and every permit free.
THEOREM InitRight == Init => IInv
<1> SUFFICES ASSUME Init PROVE IInv
  OBVIOUS
<1>1. CallsRight
  BY DEF Init, CallsRight, CallRight, Phases
<1>2. CellsRight
  BY EvaluationAssumption DEF Init, CellsRight, EvaluationAssumption, Phases
<1>3. CountsRight
  BY DEF Init, CountsRight, NoMetrics
<1>4. PermitsRight
  <2>1. Inside = {}
    BY DEF Init, Inside
  <2> QED BY <2>1, FS_EmptySet, EvaluationAssumption DEF Init, PermitsRight, EvaluationAssumption
<1> QED BY <1>1, <1>2, <1>3, <1>4 DEF IInv

\* A step of one call leaves the other calls right.
LEMMA OneCall ==
    ASSUME CallsRight, NEW c \in Calls,
           \A d \in Calls \ {c} :
              /\ phase'[d] = phase[d] /\ request'[d] = request[d] /\ unread'[d] = unread[d]
              /\ found'[d] = found[d] /\ resolved'[d] = resolved[d] /\ batch'[d] = batch[d],
           CallRight(phase'[c], request'[c], unread'[c], found'[c], resolved'[c], batch'[c])
    PROVE  CallsRight'
BY DEF CallsRight

\* No batch of the call comes or goes inside.
LEMMA InsideKept ==
    ASSUME PermitsRight, UNCHANGED permits, NEW c \in Calls,
           \A d \in Calls \ {c} : batch'[d] = batch[d],
           \A n \in DOMAIN batch[c] : Busy(batch[c][n]) =>
                n \in DOMAIN batch'[c] /\ Busy(batch'[c][n]),
           \A n \in DOMAIN batch'[c] : Busy(batch'[c][n]) =>
                n \in DOMAIN batch[c] /\ Busy(batch[c][n])
    PROVE  PermitsRight'
<1>1. Inside' = Inside
  BY DEF Inside
<1> QED BY <1>1 DEF PermitsRight

\* One batch comes or goes inside, and takes or gives back a permit.
LEMMA InsideMoved ==
    ASSUME PermitsRight, NEW c \in Calls, NEW n \in DOMAIN batch[c],
           DOMAIN batch'[c] = DOMAIN batch[c],
           \A d \in Calls \ {c} : batch'[d] = batch[d],
           \A m \in DOMAIN batch[c] \ {n} : batch'[c][m] = batch[c][m],
           permits' = permits + (IF Busy(batch[c][n]) THEN 1 ELSE 0)
                              - (IF Busy(batch'[c][n]) THEN 1 ELSE 0),
           Busy(batch'[c][n]) /\ ~Busy(batch[c][n]) => permits > 0
    PROVE  PermitsRight'
<1>1. CASE Busy(batch[c][n]) <=> Busy(batch'[c][n])
  <2>1. permits' = permits
    BY <1>1 DEF PermitsRight
  <2>2. Inside' = Inside
    BY <1>1 DEF Inside
  <2> QED BY <2>1, <2>2 DEF PermitsRight
<1>2. CASE Busy(batch[c][n]) /\ ~Busy(batch'[c][n])
  <2>1. Inside' = Inside \ {<<c, n>>}
    BY <1>2 DEF Inside
  <2>2. <<c, n>> \in Inside
    BY <1>2, InsideMeaning
  <2>3. IsFiniteSet(Inside') /\ Cardinality(Inside') = Cardinality(Inside) - 1
    BY <2>1, <2>2, FS_RemoveElement DEF PermitsRight
  <2>4. permits' = permits + 1 /\ permits \in Nat /\ Cardinality(Inside) \in Nat
    BY <1>2, FS_CardinalityType DEF PermitsRight
  <2> QED BY <2>3, <2>4 DEF PermitsRight
<1>3. CASE ~Busy(batch[c][n]) /\ Busy(batch'[c][n])
  <2>1. Inside' = Inside \cup {<<c, n>>}
    BY <1>3 DEF Inside
  <2>2. <<c, n>> \notin Inside
    BY <1>3, InsideMeaning
  <2>3. IsFiniteSet(Inside') /\ Cardinality(Inside') = Cardinality(Inside) + 1
    BY <2>1, <2>2, FS_AddElement DEF PermitsRight
  <2>4. permits' = permits - 1 /\ permits \in Nat /\ permits > 0 /\ Cardinality(Inside) \in Nat
    BY <1>3, FS_CardinalityType DEF PermitsRight
  <2> QED BY <2>3, <2>4 DEF PermitsRight
<1> QED BY <1>1, <1>2, <1>3

-----------------------------------------------------------------------------
(***************************************************************************)
(* The steps of a call                                                     *)
(***************************************************************************)

\* A failure for a candidate of a request is a sound outcome.
LEMMA FailedSound ==
    ASSUME NEW r \in AllRequests, NEW i \in DOMAIN r.candidates, NEW code \in FailureCodes
    PROVE  /\ Sound(Failed(r, i, code), r.viewer, r.candidates[i])
           /\ Failed(r, i, code).status = "failed"
           /\ Failed(r, i, code) # Nothing
           /\ Failed(r, i, code) \in CandidateRecommendation
<1>1. Sound(Failed(r, i, code), r.viewer, r.candidates[i])
  BY RequestsTyped, PlaceholderSound DEF Failed
<1>2. Failed(r, i, code).status = "failed" /\ Failed(r, i, code) \in CandidateRecommendation
  BY <1>1 DEF Sound, Failed, Placeholder
<1>3. Failed(r, i, code) # Nothing
  BY <1>2, EvaluationAssumption DEF EvaluationAssumption
<1> QED BY <1>1, <1>2, <1>3

\* From here on: each step keeps the invariant.
LEMMA RefuseKeeps ==
    ASSUME IInv, NEW c \in Calls, NEW r \in Requests[c], Refuse(c, r) PROVE IInv'
<1>1. r \in AllRequests
  BY DEF AllRequests
<1> DEFINE re == [i \in DOMAIN r.candidates |-> Failed(r, i, Refusal(r))]
<1>2. Refusal(r) \in FailureCodes
  BY EvaluationAssumption DEF Refuse, Refusal, FailureCodes, EvaluationAssumption
<1>3. \A i \in DOMAIN r.candidates :
        /\ re[i] # Nothing
        /\ re[i] \in CandidateRecommendation
        /\ Sound(re[i], r.viewer, r.candidates[i])
  BY <1>1, <1>2, FailedSound
<1>4. phase[c] = "idle" /\ batch[c] = <<>>
  BY DEF IInv, CallsRight, CallRight, Refuse
<1>5. /\ phase'[c] = "answered" /\ request'[c] = r /\ resolved'[c] = re
      /\ unread'[c] = unread[c] /\ batch'[c] = <<>>
      /\ \A d \in Calls \ {c} :
            /\ phase'[d] = phase[d] /\ request'[d] = request[d] /\ unread'[d] = unread[d]
            /\ found'[d] = found[d] /\ resolved'[d] = resolved[d] /\ batch'[d] = batch[d]
  BY <1>4 DEF Refuse, IInv, CellsRight
<1>6. unread[c] = {}
  BY <1>4 DEF IInv, CallsRight, CallRight
<1>7. CallRight(phase'[c], request'[c], unread'[c], found'[c], resolved'[c], batch'[c])
  <2> HIDE DEF re
  <2>1. re \in [DOMAIN r.candidates -> CandidateRecommendation \cup {Nothing}]
    BY <1>3 DEF re
  <2> QED BY <1>1, <1>3, <1>5, <1>6, <2>1 DEF CallRight, OutcomesRight, ByOneEntry, Phases
<1>8. CallsRight'
  BY <1>5, <1>7, OneCall DEF IInv
<1>9. PermitsRight'
  BY <1>4, <1>5, InsideKept DEF IInv, Refuse
<1>10. CellsRight' /\ CountsRight'
  BY <1>1 DEF IInv, CellsRight, CountsRight, Refuse, counts, Phases
<1> QED BY <1>8, <1>9, <1>10 DEF IInv

LEMMA StartKeeps ==
    ASSUME IInv, NEW c \in Calls, NEW r \in Requests[c], Start(c, r) PROVE IInv'
<1>1. r \in AllRequests
  BY DEF AllRequests
<1> DEFINE re == [i \in DOMAIN r.candidates |->
                    IF r.candidates[i].oversized THEN Failed(r, i, "input_too_long") ELSE Nothing]
           un == {i \in DOMAIN r.candidates : ~r.candidates[i].oversized}
           fo == [i \in DOMAIN r.candidates |-> Nothing]
<1>2. "input_too_long" \in FailureCodes
  BY DEF FailureCodes
<1>3. \A i \in DOMAIN r.candidates :
        /\ re[i] \in CandidateRecommendation \cup {Nothing}
        /\ re[i] # Nothing => Sound(re[i], r.viewer, r.candidates[i])
  BY <1>1, <1>2, FailedSound
<1>4. phase[c] = "idle" /\ batch[c] = <<>>
  BY DEF IInv, CallsRight, CallRight, Start
<1>5. /\ phase'[c] = "reading" /\ request'[c] = r /\ resolved'[c] = re
      /\ unread'[c] = un /\ found'[c] = fo /\ batch'[c] = <<>>
      /\ \A d \in Calls \ {c} :
            /\ phase'[d] = phase[d] /\ request'[d] = request[d] /\ unread'[d] = unread[d]
            /\ found'[d] = found[d] /\ resolved'[d] = resolved[d] /\ batch'[d] = batch[d]
  BY <1>4 DEF Start, IInv, CellsRight
<1>6. CallRight(phase'[c], request'[c], unread'[c], found'[c], resolved'[c], batch'[c])
  <2>1. fo \in [DOMAIN r.candidates -> CandidateRecommendation \cup {Nothing}]
    OBVIOUS
  <2> HIDE DEF re, fo
  <2>2. re \in [DOMAIN r.candidates -> CandidateRecommendation \cup {Nothing}]
    BY <1>3 DEF re
  <2> QED BY <1>1, <1>3, <1>5, <2>1, <2>2 DEF CallRight, OutcomesRight, Phases
<1>7. CallsRight'
  BY <1>5, <1>6, OneCall DEF IInv
<1>8. PermitsRight'
  BY <1>4, <1>5, InsideKept DEF IInv, Start
<1>9. CellsRight' /\ CountsRight'
  BY <1>1 DEF IInv, CellsRight, CountsRight, Start, counts, Phases
<1> QED BY <1>7, <1>8, <1>9 DEF IInv

LEMMA ReadKeeps ==
    ASSUME IInv, NEW c \in Calls, NEW i \in unread[c], Read(c, i) PROVE IInv'
<1> DEFINE r == request[c]
<1>1. /\ phase[c] = "reading" /\ r \in AllRequests /\ batch[c] = <<>>
      /\ unread[c] \subseteq DOMAIN r.candidates
      /\ OutcomesRight(r, resolved[c], batch[c])
      /\ found[c] \in [DOMAIN r.candidates -> CandidateRecommendation \cup {Nothing}]
  BY DEF Read, IInv, CallsRight, CallRight
<1>2. PICK value \in {cache[KeyAt(r, i)], Nothing} : found' = [found EXCEPT ![c][i] = value]
  BY DEF Read
<1>3. value \in CandidateRecommendation \cup {Nothing}
  <2>1. KeyAt(r, i) \in AllKeys
    BY <1>1 DEF AllKeys
  <2> QED BY <1>2, <2>1 DEF IInv, CellsRight
<1>4. /\ phase'[c] = "reading" /\ request'[c] = r /\ resolved'[c] = resolved[c]
      /\ unread'[c] = unread[c] \ {i} /\ found'[c] = [found[c] EXCEPT ![i] = value]
      /\ batch'[c] = <<>>
      /\ \A d \in Calls \ {c} :
            /\ phase'[d] = phase[d] /\ request'[d] = request[d] /\ unread'[d] = unread[d]
            /\ found'[d] = found[d] /\ resolved'[d] = resolved[d] /\ batch'[d] = batch[d]
  BY <1>1, <1>2 DEF Read, IInv, CellsRight
<1>5. found'[c] \in [DOMAIN r.candidates -> CandidateRecommendation \cup {Nothing}]
  BY <1>1, <1>3, <1>4
<1>6. CallRight(phase'[c], request'[c], unread'[c], found'[c], resolved'[c], batch'[c])
  BY <1>1, <1>4, <1>5 DEF CallRight, Phases
<1>7. CallsRight'
  BY <1>4, <1>6, OneCall DEF IInv
<1>8. PermitsRight'
  BY <1>1, <1>4, InsideKept DEF IInv, Read
<1>9. CellsRight' /\ CountsRight'
  BY <1>2 DEF IInv, CellsRight, CountsRight, Read, counts
<1> QED BY <1>7, <1>8, <1>9 DEF IInv

LEMMA LookedUpKeeps ==
    ASSUME IInv, NEW c \in Calls, LookedUp(c) PROVE IInv'
<1> DEFINE r == request[c]
           usable(i) == IF resolved[c][i] # Nothing THEN resolved[c][i]
                        ELSE Revalidated(found[c][i], r.viewer, r.candidates[i])
           known == [i \in DOMAIN r.candidates |-> usable(i)]
           pending == {i \in DOMAIN known : known[i] = Nothing}
           numbers == {Chunk(pending, i) : i \in pending}
           members(n) == {i \in pending : Chunk(pending, i) = n}
           tasks == [n \in numbers |-> Task(members(n))]
<1>1. /\ phase[c] = "reading" /\ r \in AllRequests /\ batch[c] = <<>>
      /\ OutcomesRight(r, resolved[c], batch[c])
      /\ found[c] \in [DOMAIN r.candidates -> CandidateRecommendation \cup {Nothing}]
  BY DEF LookedUp, IInv, CallsRight, CallRight
<1>2. /\ phase'[c] = (IF pending = {} THEN "answered" ELSE "evaluating")
      /\ request'[c] = r /\ resolved'[c] = known
      /\ unread'[c] = {} /\ batch'[c] = tasks
      /\ \A d \in Calls \ {c} :
            /\ phase'[d] = phase[d] /\ request'[d] = request[d] /\ unread'[d] = unread[d]
            /\ found'[d] = found[d] /\ resolved'[d] = resolved[d] /\ batch'[d] = batch[d]
  BY DEF LookedUp, IInv, CellsRight
<1>3. ASSUME NEW i \in DOMAIN r.candidates
      PROVE  /\ known[i] \in CandidateRecommendation \cup {Nothing}
             /\ known[i] # Nothing => Sound(known[i], r.viewer, r.candidates[i])
  <2>1. CASE resolved[c][i] # Nothing
    BY <1>1, <2>1 DEF OutcomesRight
  <2>2. CASE resolved[c][i] = Nothing
    <3>1. known[i] = Revalidated(found[c][i], r.viewer, r.candidates[i])
      BY <2>2
    <3> HIDE DEF known
    <3>2. /\ found[c][i] \in CandidateRecommendation \cup {Nothing}
          /\ r.viewer \in Profile /\ r.candidates[i] \in Profile
      BY <1>1, RequestsTyped
    <3>3. known[i] = Nothing \/ Sound(known[i], r.viewer, r.candidates[i])
      BY <3>1, <3>2, RevalidatedSound
    <3> QED BY <3>3 DEF Sound
  <2> QED BY <2>1, <2>2
<1>4. /\ known \in [DOMAIN r.candidates -> CandidateRecommendation \cup {Nothing}]
      /\ DOMAIN known = DOMAIN r.candidates
  BY <1>3
<1> HIDE DEF known
<1>5. ASSUME NEW n \in numbers
      PROVE  /\ tasks[n].members = members(n) /\ tasks[n].at = "queued"
             /\ TaskRight(tasks[n], r)
  <2>1. tasks[n] = Task(members(n))
    OBVIOUS
  <2>2. members(n) \subseteq DOMAIN r.candidates /\ members(n) \in SUBSET Nat
    BY <1>1, <1>4, RequestsTyped
  <2>3. 0 \in 0..MaxAttempts
    BY EvaluationAssumption DEF EvaluationAssumption
  <2> HIDE DEF members
  <2> QED BY <2>1, <2>2, <2>3 DEF Task, TaskRight, TaskType
<1>6. DOMAIN tasks = numbers
  OBVIOUS
<1>7. OutcomesRight(r, known, tasks)
  <2>1. ASSUME NEW m \in numbers, NEW n \in numbers, m # n
        PROVE  members(m) \cap members(n) = {}
    BY <2>1
  <2> HIDE DEF tasks, members, numbers
  <2> QED BY <1>3, <1>4, <1>5, <1>6, <2>1 DEF OutcomesRight
<1>8. BatchesRight(r, known, tasks)
  <2>1. ASSUME NEW i \in DOMAIN r.candidates, known[i] = Nothing
        PROVE  Chunk(pending, i) \in numbers /\ i \in members(Chunk(pending, i))
    BY <1>4, <2>1
  <2>2. ASSUME NEW n \in numbers, NEW i \in members(n) PROVE known[i] = Nothing
    OBVIOUS
  <2> HIDE DEF tasks, members, numbers, pending
  <2> QED BY <1>5, <1>6, <2>1, <2>2 DEF BatchesRight
<1>9. pending = {} => numbers = {} /\ \A i \in DOMAIN r.candidates : known[i] # Nothing
  BY <1>4
<1> HIDE DEF tasks, members, numbers, pending
<1>10. CallRight(phase'[c], request'[c], unread'[c], found'[c], resolved'[c], batch'[c])
  <2>1. CASE pending = {}
    BY <1>1, <1>2, <1>6, <1>7, <1>9, <2>1 DEF CallRight, ByOneEntry, Phases
  <2>2. CASE pending # {}
    BY <1>1, <1>2, <1>7, <1>8, <2>2 DEF CallRight, Phases
  <2> QED BY <2>1, <2>2
<1>11. CallsRight'
  BY <1>2, <1>10, OneCall DEF IInv
<1>12. PermitsRight'
  <2>1. \A n \in DOMAIN batch'[c] : ~Busy(batch'[c][n])
    BY <1>2, <1>5, <1>6 DEF Busy
  <2>2. DOMAIN batch[c] = {}
    BY <1>1
  <2>3. permits' = permits
    BY DEF LookedUp
  <2> QED BY <1>2, <2>1, <2>2, <2>3, InsideKept DEF IInv
<1>13. CellsRight' /\ CountsRight'
  <2>1. phase'[c] \in Phases
    BY <1>2 DEF Phases
  <2> QED BY <2>1 DEF IInv, CellsRight, CountsRight, LookedUp, counts, Phases
<1> QED BY <1>11, <1>12, <1>13 DEF IInv

LEMMA CancelReadsKeeps ==
    ASSUME IInv, NEW c \in Calls, CancelReads(c) PROVE IInv'
<1>1. /\ phase[c] = "reading" /\ request[c] \in AllRequests /\ batch[c] = <<>>
      /\ OutcomesRight(request[c], resolved[c], batch[c])
  BY DEF CancelReads, IInv, CallsRight, CallRight
<1>2. /\ phase'[c] = "raised" /\ request'[c] = request[c] /\ resolved'[c] = resolved[c]
      /\ unread'[c] = {} /\ batch'[c] = <<>>
      /\ \A d \in Calls \ {c} :
            /\ phase'[d] = phase[d] /\ request'[d] = request[d] /\ unread'[d] = unread[d]
            /\ found'[d] = found[d] /\ resolved'[d] = resolved[d] /\ batch'[d] = batch[d]
  BY <1>1 DEF CancelReads, IInv, CellsRight
<1>3. CallRight(phase'[c], request'[c], unread'[c], found'[c], resolved'[c], batch'[c])
  BY <1>1, <1>2 DEF CallRight, Phases
<1>4. CallsRight'
  BY <1>2, <1>3, OneCall DEF IInv
<1>5. PermitsRight'
  BY <1>1, <1>2, InsideKept DEF IInv, CancelReads
<1>6. CellsRight' /\ CountsRight'
  BY DEF IInv, CellsRight, CountsRight, CancelReads, counts, Phases
<1> QED BY <1>4, <1>5, <1>6 DEF IInv

-----------------------------------------------------------------------------
(***************************************************************************)
(* The steps of a batch                                                    *)
(***************************************************************************)

\* A running call, one of whose tasks moves on.
OneTask(c, n) ==
    /\ UNCHANGED <<request, phase, unread, found, resolved>>
    /\ DOMAIN batch' = Calls /\ DOMAIN batch'[c] = DOMAIN batch[c]
    /\ \A d \in Calls \ {c} : batch'[d] = batch[d]
    /\ \A m \in DOMAIN batch[c] \ {n} : batch'[c][m] = batch[c][m]

LEMMA OneTaskOf ==
    ASSUME CellsRight, NEW c \in Calls, NEW n \in DOMAIN batch[c], NEW t,
           batch' = [batch EXCEPT ![c] = [@ EXCEPT ![n] = t]],
           UNCHANGED <<request, phase, unread, found, resolved>>
    PROVE  OneTask(c, n) /\ batch'[c][n] = t
BY DEF OneTask, CellsRight

LEMMA OneTaskKeeps ==
    ASSUME CallsRight, NEW c \in Calls, NEW n \in DOMAIN batch[c], OneTask(c, n),
           phase[c] \in {"evaluating", "cancelling"},
           TaskRight(batch'[c][n], request[c]), batch'[c][n].members = batch[c][n].members
    PROVE  CallsRight'
<1>1. CallRight(phase[c], request[c], unread[c], found[c], resolved[c], batch[c])
  BY DEF CallsRight
<1>2. OutcomesRight(request[c], resolved[c], batch'[c])
  BY <1>1 DEF CallRight, OutcomesRight, OneTask
<1>3. BatchesRight(request[c], resolved[c], batch'[c])
  BY <1>1 DEF CallRight, BatchesRight, OneTask
<1>4. CallRight(phase'[c], request'[c], unread'[c], found'[c], resolved'[c], batch'[c])
  BY <1>1, <1>2, <1>3 DEF CallRight, OneTask
<1> QED BY <1>4, OneCall DEF OneTask

\* A running task of a running call.
LEMMA TaskOf ==
    ASSUME IInv, NEW c \in Calls, NEW n \in DOMAIN batch[c],
           phase[c] \in {"evaluating", "cancelling"}
    PROVE  /\ request[c] \in AllRequests
           /\ TaskRight(batch[c][n], request[c])
           /\ batch[c][n] \in TaskType
BY DEF IInv, CallsRight, CallRight, OutcomesRight, TaskRight

LEMMA AttemptKeeps ==
    ASSUME CountsRight, NEW c \in Calls, Attempt(c) PROVE CountsRight'
<1>1. metrics[c] \in [count : Nat, coverage : [Fields -> Nat]]
  BY DEF CountsRight
<1>2. [metrics[c] EXCEPT !.count = @ + 1] \in [count : Nat, coverage : [Fields -> Nat]]
  BY <1>1
<1> QED BY <1>2 DEF CountsRight, Attempt

LEMMA ReportedKeeps ==
    ASSUME CountsRight, NEW c \in Calls, NEW reported, Reported(c, reported) PROVE CountsRight'
<1> DEFINE cover == [f \in Fields |->
                       metrics[c].coverage[f] + (IF f \in reported THEN 1 ELSE 0)]
<1>1. metrics[c] \in [count : Nat, coverage : [Fields -> Nat]]
  BY DEF CountsRight
<1>2. cover \in [Fields -> Nat]
  BY <1>1
<1>3. metrics' = [metrics EXCEPT ![c] = [@ EXCEPT !.coverage = cover]]
  BY DEF Reported, CountsRight
<1> HIDE DEF cover
<1>4. [metrics[c] EXCEPT !.coverage = cover] \in [count : Nat, coverage : [Fields -> Nat]]
  BY <1>1, <1>2
<1>5. whole' \in [Calls -> Nat]
  BY DEF Reported, CountsRight
<1> QED BY <1>3, <1>4, <1>5 DEF CountsRight

LEMMA EnterKeeps ==
    ASSUME IInv, NEW c \in Calls, NEW n \in DOMAIN batch[c], Enter(c, n) PROVE IInv'
<1> DEFINE u == [batch[c][n] EXCEPT !.at = "posting", !.tries = 1]
<1>1. TaskRight(batch[c][n], request[c]) /\ batch[c][n] \in TaskType /\ batch[c][n].at = "queued"
  BY TaskOf DEF Enter
<1>2. batch' = [batch EXCEPT ![c] = [@ EXCEPT ![n] = u]]
  BY <1>1 DEF Enter, IInv, CellsRight
<1>3. OneTask(c, n) /\ batch'[c][n] = u
  <2>1. UNCHANGED <<request, phase, unread, found, resolved>>
    BY DEF Enter
  <2>2. CellsRight
    BY DEF IInv
  <2> HIDE DEF u
  <2> QED BY <1>2, <2>1, <2>2, OneTaskOf
<1>4. TaskRight(u, request[c]) /\ u.members = batch[c][n].members /\ u.at = "posting"
  <2>1. 1 \in 0..MaxAttempts
    BY EvaluationAssumption DEF EvaluationAssumption
  <2>2. u \in TaskType /\ u.at = "posting" /\ u.members = batch[c][n].members
        /\ u.unsaved = batch[c][n].unsaved
    BY <1>1, <2>1 DEF TaskType
  <2> HIDE DEF u
  <2> QED BY <1>1, <2>2 DEF TaskRight
<1> HIDE DEF u
<1>5. CallsRight'
  BY <1>3, <1>4, OneTaskKeeps DEF IInv, Enter
<1>6. PermitsRight'
  <2>1. ~Busy(batch[c][n]) /\ Busy(batch'[c][n])
    BY <1>1, <1>3, <1>4 DEF Busy
  <2>2. permits' = permits - 1 /\ permits > 0 /\ permits \in Nat
    BY DEF Enter, IInv, PermitsRight
  <2>3. permits' = permits + (IF Busy(batch[c][n]) THEN 1 ELSE 0)
                           - (IF Busy(batch'[c][n]) THEN 1 ELSE 0)
    BY <2>1, <2>2
  <2> QED BY <1>3, <2>2, <2>3, InsideMoved DEF IInv, OneTask
<1>7. CountsRight'
  BY AttemptKeeps DEF IInv, Enter
<1>8. CellsRight'
  BY <1>3 DEF IInv, CellsRight, Enter, OneTask
<1> QED BY <1>5, <1>6, <1>7, <1>8 DEF IInv

LEMMA AgainKeeps ==
    ASSUME IInv, NEW c \in Calls, NEW n \in DOMAIN batch[c], Again(c, n) PROVE IInv'
<1> DEFINE u == [batch[c][n] EXCEPT !.tries = @ + 1]
<1>1. /\ TaskRight(batch[c][n], request[c]) /\ batch[c][n] \in TaskType
      /\ batch[c][n].at = "posting" /\ batch[c][n].tries < MaxAttempts
  BY TaskOf DEF Again, Posting
<1>2. batch' = [batch EXCEPT ![c] = [@ EXCEPT ![n] = u]]
  BY DEF Again
<1>3. OneTask(c, n) /\ batch'[c][n] = u
  <2>1. UNCHANGED <<request, phase, unread, found, resolved>>
    BY DEF Again
  <2>2. CellsRight
    BY DEF IInv
  <2> HIDE DEF u
  <2> QED BY <1>2, <2>1, <2>2, OneTaskOf
<1>4. TaskRight(u, request[c]) /\ u.members = batch[c][n].members /\ u.at = "posting"
  <2>1. batch[c][n].tries + 1 \in 0..MaxAttempts
    BY <1>1, EvaluationAssumption DEF TaskType, EvaluationAssumption
  <2>2. u \in TaskType /\ u.at = "posting" /\ u.members = batch[c][n].members
        /\ u.unsaved = batch[c][n].unsaved
    BY <1>1, <2>1 DEF TaskType
  <2> HIDE DEF u
  <2> QED BY <1>1, <2>2 DEF TaskRight
<1> HIDE DEF u
<1>5. CallsRight'
  BY <1>3, <1>4, OneTaskKeeps DEF IInv, Again, Posting
<1>6. PermitsRight'
  <2>1. Busy(batch[c][n]) /\ Busy(batch'[c][n]) /\ permits' = permits /\ permits \in Nat
    BY <1>1, <1>3, <1>4 DEF Busy, Again, IInv, PermitsRight
  <2> QED BY <1>3, <2>1, InsideMoved DEF IInv, OneTask
<1>7. CountsRight'
  BY AttemptKeeps DEF IInv, Again
<1>8. CellsRight'
  BY <1>3 DEF IInv, CellsRight, Again, OneTask
<1> QED BY <1>5, <1>6, <1>7, <1>8 DEF IInv

\* A batch that fails as a whole is over, and gives its permit back.
LEMMA FailBatchKeeps ==
    ASSUME IInv, NEW c \in Calls, NEW n \in DOMAIN batch[c], Posting(c, n),
           NEW code \in FailureCodes, FailBatch(c, n, code),
           UNCHANGED <<request, phase, unread, found, resolved, timedOut, cache>>
    PROVE  CallsRight' /\ CellsRight' /\ PermitsRight'
<1> DEFINE r == request[c]
           t == batch[c][n]
           results == [i \in t.members |-> Failed(r, i, code)]
           u == [t EXCEPT !.at = "done", !.results = results]
<1>1. /\ r \in AllRequests /\ TaskRight(t, r) /\ t \in TaskType /\ t.at = "posting"
      /\ t.members \subseteq DOMAIN r.candidates
  BY TaskOf DEF Posting, TaskRight
<1>2. batch' = [batch EXCEPT ![c] = [@ EXCEPT ![n] = u]] /\ permits' = permits + 1
  BY DEF FailBatch, Finish, IInv, CellsRight
<1>3. OneTask(c, n) /\ batch'[c][n] = u
  <2> HIDE DEF u
  <2> QED BY <1>2, OneTaskOf DEF IInv
<1>4. \A i \in t.members :
        /\ results[i] \in CandidateRecommendation
        /\ Sound(results[i], r.viewer, r.candidates[i])
        /\ results[i].status = "failed"
  BY <1>1, FailedSound
<1>5. results \in [t.members -> CandidateRecommendation] /\ t.members \in SUBSET Nat
  BY <1>1, <1>4 DEF TaskType
<1> HIDE DEF results
<1>6. u \in TaskType /\ u.at = "done" /\ u.members = t.members /\ u.unsaved = t.unsaved
      /\ u.results = results
  BY <1>1, <1>5 DEF TaskType
<1> HIDE DEF u
<1>7. TaskRight(u, r)
  BY <1>1, <1>4, <1>5, <1>6 DEF TaskRight, ResultRight
<1>8. CallsRight'
  BY <1>3, <1>6, <1>7, OneTaskKeeps DEF IInv, Posting
<1>9. PermitsRight'
  <2>1. Busy(t) /\ ~Busy(batch'[c][n])
    BY <1>1, <1>3, <1>6 DEF Busy
  <2>2. permits' = permits + (IF Busy(batch[c][n]) THEN 1 ELSE 0)
                           - (IF Busy(batch'[c][n]) THEN 1 ELSE 0)
    BY <1>2, <2>1 DEF IInv, PermitsRight
  <2> QED BY <1>3, <2>1, <2>2, InsideMoved DEF IInv, OneTask
<1>10. CellsRight'
  BY <1>3 DEF IInv, CellsRight, OneTask
<1> QED BY <1>8, <1>9, <1>10

LEMMA NoAnswerKeeps ==
    ASSUME IInv, NEW c \in Calls, NEW n \in DOMAIN batch[c], NoAnswer(c, n) PROVE IInv'
<1>1. PICK trouble \in Troubles : FailBatch(c, n, trouble.code)
  BY DEF NoAnswer
<1>2. trouble.code \in FailureCodes
  BY EvaluationAssumption DEF EvaluationAssumption
<1>3. CallsRight' /\ CellsRight' /\ PermitsRight'
  BY <1>1, <1>2, FailBatchKeeps DEF NoAnswer
<1>4. CountsRight'
  BY DEF IInv, CountsRight, NoAnswer, counts
<1> QED BY <1>3, <1>4 DEF IInv

LEMMA UnusableKeeps ==
    ASSUME IInv, NEW c \in Calls, NEW n \in DOMAIN batch[c], Unusable(c, n) PROVE IInv'
<1>1. PICK trouble \in Troubles : FailBatch(c, n, trouble.code) /\ Reported(c, trouble.usage)
  BY DEF Unusable
<1>2. trouble.code \in FailureCodes
  BY EvaluationAssumption DEF EvaluationAssumption
<1>3. CallsRight' /\ CellsRight' /\ PermitsRight'
  BY <1>1, <1>2, FailBatchKeeps DEF Unusable
<1>4. CountsRight'
  BY <1>1, ReportedKeeps DEF IInv
<1> QED BY <1>3, <1>4 DEF IInv

\* The model is asked about people, and answers in entries.
LEMMA AnswersTyped ==
    ASSUME NEW c \in Calls, NEW n \in DOMAIN batch[c], request[c] \in AllRequests,
           batch[c][n].members \subseteq DOMAIN request[c].candidates
    PROVE  AnswersTo(c, n) \subseteq Reply
<1> DEFINE who == {request[c].candidates[i].user_id : i \in batch[c][n].members}
<1>1. who \in SUBSET People
  BY RequestsTyped DEF Profile
<1>2. Replies \in [SUBSET People -> SUBSET Reply]
  BY EvaluationAssumption DEF EvaluationAssumption, Reply
<1> HIDE DEF who
<1>3. Replies[who] \subseteq Reply
  BY <1>1, <1>2
<1> QED BY <1>3 DEF AnswersTo, who

LEMMA AnsweredKeeps ==
    ASSUME IInv, NEW c \in Calls, NEW n \in DOMAIN batch[c], NEW reply \in AnswersTo(c, n),
           Answered(c, n, reply)
    PROVE  IInv'
<1> DEFINE r == request[c]
           t == batch[c][n]
           results == [i \in t.members |-> Accounted(r.viewer, r.candidates[i], reply.entries)]
           unsaved == Storable(results)
           at == IF unsaved = {} THEN "done" ELSE "storing"
           u == [t EXCEPT !.at = at, !.reply = reply, !.results = results, !.unsaved = unsaved]
<1>1. /\ r \in AllRequests /\ TaskRight(t, r) /\ t \in TaskType /\ t.at = "posting"
      /\ t.members \subseteq DOMAIN r.candidates /\ phase[c] = "evaluating"
  BY TaskOf DEF Answered, Posting, TaskRight
<1>2. reply \in Reply /\ reply.entries \in Seq(RawEvaluation)
  BY <1>1, AnswersTyped DEF Reply
<1>3. /\ batch' = [batch EXCEPT ![c] = [@ EXCEPT ![n] = u]]
      /\ permits' = IF unsaved = {} THEN permits + 1 ELSE permits
  BY DEF Answered
<1>4. OneTask(c, n) /\ batch'[c][n] = u
  <2>1. UNCHANGED <<request, phase, unread, found, resolved>>
    BY DEF Answered
  <2>2. CellsRight
    BY DEF IInv
  <2> HIDE DEF u
  <2> QED BY <1>3, <2>1, <2>2, OneTaskOf
<1>5. \A i \in t.members :
        /\ Sound(results[i], r.viewer, r.candidates[i])
        /\ results[i] \in CandidateRecommendation
        /\ results[i].status # "failed" =>
             Cardinality(Mentions(reply.entries, r.candidates[i])) = 1
  BY <1>1, <1>2, AccountedSound, RequestsTyped DEF Sound
<1>6. results \in [t.members -> CandidateRecommendation] /\ t.members \in SUBSET Nat
  BY <1>1, <1>5 DEF TaskType
<1> HIDE DEF results
<1>7. unsaved \subseteq t.members
  BY <1>6 DEF Storable
<1> HIDE DEF unsaved
<1>8. at \in {"done", "storing"}
  OBVIOUS
<1> HIDE DEF at
<1>9. u \in TaskType /\ u.at = at /\ u.members = t.members /\ u.unsaved = unsaved
      /\ u.results = results /\ u.reply = reply
  BY <1>1, <1>2, <1>6, <1>7, <1>8 DEF TaskType
<1> HIDE DEF u
<1>10. TaskRight(u, r)
  BY <1>1, <1>5, <1>6, <1>7, <1>9 DEF TaskRight, ResultRight
<1>11. CallsRight'
  BY <1>1, <1>4, <1>9, <1>10, OneTaskKeeps DEF IInv
<1>12. PermitsRight'
  <2>1. Busy(t) /\ (Busy(batch'[c][n]) <=> unsaved # {})
    BY <1>1, <1>4, <1>9 DEF Busy, at
  <2>2. permits' = permits + (IF Busy(batch[c][n]) THEN 1 ELSE 0)
                           - (IF Busy(batch'[c][n]) THEN 1 ELSE 0)
    BY <1>3, <2>1 DEF IInv, PermitsRight
  <2> QED BY <1>4, <2>1, <2>2, InsideMoved DEF IInv, OneTask
<1>13. CountsRight'
  BY ReportedKeeps DEF IInv, Answered
<1>14. CellsRight'
  BY <1>4 DEF IInv, CellsRight, Answered, OneTask
<1> QED BY <1>11, <1>12, <1>13, <1>14 DEF IInv

LEMMA StoreKeeps ==
    ASSUME IInv, NEW c \in Calls, NEW n \in DOMAIN batch[c], NEW i \in batch[c][n].unsaved,
           Store(c, n, i)
    PROVE  IInv'
<1> DEFINE r == request[c]
           t == batch[c][n]
           left == t.unsaved \ {i}
           at == IF left = {} THEN "done" ELSE "storing"
           u == [t EXCEPT !.unsaved = left, !.at = at]
<1>1. /\ r \in AllRequests /\ TaskRight(t, r) /\ t \in TaskType /\ t.at = "storing"
      /\ phase[c] = "evaluating" /\ i \in t.members
  BY TaskOf DEF Store, TaskRight
<1>2. batch' = [batch EXCEPT ![c] = [@ EXCEPT ![n] = u]]
      /\ permits' = IF left = {} THEN permits + 1 ELSE permits
  BY DEF Store, IInv, CellsRight
<1>3. OneTask(c, n) /\ batch'[c][n] = u
  <2>1. UNCHANGED <<request, phase, unread, found, resolved>>
    BY DEF Store
  <2>2. CellsRight
    BY DEF IInv
  <2> HIDE DEF u
  <2> QED BY <1>2, <2>1, <2>2, OneTaskOf
<1>4. left \subseteq t.unsaved
  OBVIOUS
<1> HIDE DEF left
<1>5. u \in TaskType /\ u.at = at /\ u.members = t.members /\ u.unsaved = left
      /\ u.results = t.results /\ u.reply = t.reply /\ at \in {"done", "storing"}
  BY <1>1, <1>4 DEF TaskType
<1> HIDE DEF u
<1>6. TaskRight(u, r)
  BY <1>1, <1>4, <1>5 DEF TaskRight, ResultRight
<1>7. CallsRight'
  BY <1>1, <1>3, <1>5, <1>6, OneTaskKeeps DEF IInv
<1>8. PermitsRight'
  <2>1. Busy(t) /\ (Busy(batch'[c][n]) <=> left # {})
    BY <1>1, <1>3, <1>5 DEF Busy
  <2>2. permits' = permits + (IF Busy(batch[c][n]) THEN 1 ELSE 0)
                           - (IF Busy(batch'[c][n]) THEN 1 ELSE 0)
    BY <1>2, <2>1 DEF IInv, PermitsRight
  <2> QED BY <1>3, <2>1, <2>2, InsideMoved DEF IInv, OneTask
<1>9. cache' \in [AllKeys -> CandidateRecommendation \cup {Nothing}]
  <2>1. t.results[i] \in CandidateRecommendation
    BY <1>1 DEF TaskRight, ResultRight, Sound
  <2> QED BY <2>1 DEF Store, IInv, CellsRight
<1>10. CellsRight' /\ CountsRight'
  BY <1>3, <1>9 DEF IInv, CellsRight, CountsRight, Store, OneTask, counts
<1> QED BY <1>7, <1>8, <1>10 DEF IInv

LEMMA TaskCancelledKeeps ==
    ASSUME IInv, NEW c \in Calls, NEW n \in DOMAIN batch[c], TaskCancelled(c, n) PROVE IInv'
<1> DEFINE u == [batch[c][n] EXCEPT !.at = "cancelled"]
<1>1. /\ TaskRight(batch[c][n], request[c]) /\ batch[c][n] \in TaskType
      /\ phase[c] = "cancelling"
  BY TaskOf DEF TaskCancelled
<1>2. batch' = [batch EXCEPT ![c] = [@ EXCEPT ![n] = u]]
  BY DEF TaskCancelled
<1>3. OneTask(c, n) /\ batch'[c][n] = u
  <2>1. UNCHANGED <<request, phase, unread, found, resolved>>
    BY DEF TaskCancelled
  <2>2. CellsRight
    BY DEF IInv
  <2> HIDE DEF u
  <2> QED BY <1>2, <2>1, <2>2, OneTaskOf
<1>4. u \in TaskType /\ u.at = "cancelled" /\ u.members = batch[c][n].members
      /\ u.unsaved = batch[c][n].unsaved
  BY <1>1 DEF TaskType
<1> HIDE DEF u
<1>5. TaskRight(u, request[c])
  BY <1>1, <1>4 DEF TaskRight
<1>6. CallsRight'
  BY <1>1, <1>3, <1>4, <1>5, OneTaskKeeps DEF IInv
<1>7. PermitsRight'
  <2>1. ~Busy(batch'[c][n])
    BY <1>3, <1>4 DEF Busy
  <2>2. permits' = permits + (IF Busy(batch[c][n]) THEN 1 ELSE 0)
                           - (IF Busy(batch'[c][n]) THEN 1 ELSE 0)
    BY <2>1 DEF IInv, PermitsRight, TaskCancelled, Leaves
  <2> QED BY <1>3, <2>1, <2>2, InsideMoved DEF IInv, OneTask
<1>8. CellsRight' /\ CountsRight'
  BY <1>3 DEF IInv, CellsRight, CountsRight, TaskCancelled, OneTask, counts
<1> QED BY <1>6, <1>7, <1>8 DEF IInv

-----------------------------------------------------------------------------
(***************************************************************************)
(* The end of a call                                                       *)
(***************************************************************************)

\* The deadline and the caller's cancellation change the phase only.
LEMMA CancellingKeeps ==
    ASSUME IInv, NEW c \in Calls, phase[c] \in {"evaluating", "cancelling"},
           phase' = [phase EXCEPT ![c] = "cancelling"], timedOut' \in [Calls -> BOOLEAN],
           UNCHANGED <<request, unread, found, resolved, batch, permits, cache, counts>>
    PROVE  IInv'
<1>1. phase'[c] = "cancelling" /\ \A d \in Calls \ {c} : phase'[d] = phase[d]
  BY DEF IInv, CellsRight
<1>2. CallRight(phase[c], request[c], unread[c], found[c], resolved[c], batch[c])
  BY DEF IInv, CallsRight
<1>3. CallRight(phase'[c], request'[c], unread'[c], found'[c], resolved'[c], batch'[c])
  BY <1>1, <1>2 DEF CallRight, Phases
<1>4. CallsRight'
  BY <1>1, <1>3, OneCall DEF IInv
<1>5. PermitsRight'
  BY DEF IInv, PermitsRight, Inside
<1>6. CellsRight' /\ CountsRight'
  BY DEF IInv, CellsRight, CountsRight, counts, Phases
<1> QED BY <1>4, <1>5, <1>6 DEF IInv

LEMMA DeadlineKeeps ==
    ASSUME IInv, NEW c \in Calls, Deadline(c) PROVE IInv'
<1>1. timedOut' \in [Calls -> BOOLEAN]
  BY DEF Deadline, IInv, CellsRight
<1> QED BY <1>1, CancellingKeeps DEF Deadline

LEMMA CancelCallerKeeps ==
    ASSUME IInv, NEW c \in Calls, CancelCaller(c) PROVE IInv'
<1>1. timedOut' \in [Calls -> BOOLEAN]
  BY DEF CancelCaller, IInv, CellsRight
<1> QED BY <1>1, CancellingKeeps DEF CancelCaller

LEMMA CollectKeeps ==
    ASSUME IInv, NEW c \in Calls, Collect(c) PROVE IInv'
<1> DEFINE r == request[c]
           ba == batch[c]
           outcomeOf(i) ==
             IF resolved[c][i] # Nothing THEN resolved[c][i]
             ELSE LET t == ba[BatchOf(c, i)] IN
                  IF t.at = "done" THEN t.results[i] ELSE Failed(r, i, "gateway_timeout")
           re == [i \in DOMAIN r.candidates |-> outcomeOf(i)]
<1>1. /\ phase[c] \in {"evaluating", "cancelling"} /\ Ended(c)
      /\ CallRight(phase[c], r, unread[c], found[c], resolved[c], ba)
  BY DEF Collect, IInv, CallsRight
<1>2. /\ r \in AllRequests /\ OutcomesRight(r, resolved[c], ba)
      /\ BatchesRight(r, resolved[c], ba) /\ unread[c] = {}
  BY <1>1 DEF CallRight
<1>3. \A n \in DOMAIN ba : Over(ba[n])
  BY <1>1 DEF Ended
<1>4. /\ request'[c] = r /\ unread'[c] = {} /\ found'[c] = found[c] /\ batch'[c] = ba
      /\ \A d \in Calls \ {c} :
            /\ phase'[d] = phase[d] /\ request'[d] = request[d] /\ unread'[d] = unread[d]
            /\ found'[d] = found[d] /\ resolved'[d] = resolved[d] /\ batch'[d] = batch[d]
  BY <1>2 DEF Collect, IInv, CellsRight
<1>5. \/ phase' = [phase EXCEPT ![c] = "raised"] /\ resolved' = resolved
      \/ phase' = [phase EXCEPT ![c] = "answered"] /\ resolved' = [resolved EXCEPT ![c] = re]
  BY DEF Collect
<1>6. ASSUME NEW i \in DOMAIN r.candidates, resolved[c][i] = Nothing
      PROVE  /\ BatchOf(c, i) \in DOMAIN ba
             /\ \A n \in DOMAIN ba : i \in ba[n].members => n = BatchOf(c, i)
             /\ re[i] = IF ba[BatchOf(c, i)].at = "done" THEN ba[BatchOf(c, i)].results[i]
                        ELSE Failed(r, i, "gateway_timeout")
             /\ ba[BatchOf(c, i)].at = "done" => ResultRight(ba[BatchOf(c, i)], i, r)
  <2>1. \E n \in DOMAIN ba : i \in ba[n].members
    BY <1>2, <1>6 DEF BatchesRight
  <2>2. BatchOf(c, i) \in DOMAIN ba /\ i \in ba[BatchOf(c, i)].members
    BY <2>1 DEF BatchOf
  <2>3. \A n \in DOMAIN ba : i \in ba[n].members => n = BatchOf(c, i)
    BY <1>2, <2>2 DEF OutcomesRight
  <2>4. ba[BatchOf(c, i)].at = "done" => ResultRight(ba[BatchOf(c, i)], i, r)
    BY <1>2, <2>2 DEF OutcomesRight, TaskRight
  <2> QED BY <1>6, <2>2, <2>3, <2>4
<1>7. "gateway_timeout" \in FailureCodes
  BY DEF FailureCodes
<1>8. ASSUME NEW i \in DOMAIN r.candidates
      PROVE  /\ Sound(re[i], r.viewer, r.candidates[i])
             /\ re[i] \in CandidateRecommendation /\ re[i] # Nothing
             /\ \A n \in DOMAIN ba : i \in ba[n].members /\ re[i].status # "failed" =>
                  /\ ba[n].at = "done"
                  /\ Cardinality(Mentions(ba[n].reply.entries, r.candidates[i])) = 1
  <2>1. CASE resolved[c][i] # Nothing
    <3>1. re[i] = resolved[c][i]
      BY <2>1
    <3>2. \A n \in DOMAIN ba : i \notin ba[n].members
      BY <1>2, <2>1 DEF BatchesRight
    <3>3. Sound(resolved[c][i], r.viewer, r.candidates[i])
      BY <1>2, <2>1 DEF OutcomesRight
    <3> HIDE DEF re
    <3> QED BY <2>1, <3>1, <3>2, <3>3 DEF Sound
  <2>2. CASE resolved[c][i] = Nothing
    <3>1. CASE ba[BatchOf(c, i)].at = "done"
      <4>1. re[i] = ba[BatchOf(c, i)].results[i] /\ ResultRight(ba[BatchOf(c, i)], i, r)
        BY <1>6, <2>2, <3>1
      <4> HIDE DEF re
      <4>2. Sound(re[i], r.viewer, r.candidates[i]) /\ re[i] \in CandidateRecommendation
        BY <4>1 DEF ResultRight, Sound
      <4> QED BY <1>6, <2>2, <3>1, <4>1, <4>2, EvaluationAssumption
              DEF ResultRight, EvaluationAssumption
    <3>2. CASE ba[BatchOf(c, i)].at # "done"
      <4>1. re[i] = Failed(r, i, "gateway_timeout")
        BY <1>6, <2>2, <3>2
      <4> HIDE DEF re
      <4> QED BY <1>2, <1>7, <4>1, FailedSound
    <3> QED BY <3>1, <3>2
  <2> QED BY <2>1, <2>2
<1>9. DOMAIN re = DOMAIN r.candidates
  OBVIOUS
<1>10. re \in [DOMAIN r.candidates -> CandidateRecommendation \cup {Nothing}]
  BY <1>8
<1> HIDE DEF re
<1>11. CallRight(phase'[c], request'[c], unread'[c], found'[c], resolved'[c], batch'[c])
  <2>1. CASE phase' = [phase EXCEPT ![c] = "raised"] /\ resolved' = resolved
    <3>1. phase'[c] = "raised"
      BY <2>1 DEF IInv, CellsRight
    <3> QED BY <1>2, <1>3, <1>4, <2>1, <3>1 DEF CallRight, Phases
  <2>2. CASE phase' = [phase EXCEPT ![c] = "answered"] /\ resolved' = [resolved EXCEPT ![c] = re]
    <3>1. phase'[c] = "answered" /\ resolved'[c] = re
      BY <2>2 DEF IInv, CellsRight
    <3>2. OutcomesRight(r, re, ba)
      BY <1>2, <1>8, <1>10 DEF OutcomesRight
    <3>3. ByOneEntry(r, re, ba)
      <4>1. \A n \in DOMAIN ba : ba[n].members \subseteq DOMAIN r.candidates
        BY <1>2 DEF OutcomesRight, TaskRight
      <4> QED BY <1>8, <4>1 DEF ByOneEntry
    <3> QED BY <1>2, <1>3, <1>4, <1>8, <3>1, <3>2, <3>3 DEF CallRight, Phases
  <2> QED BY <1>5, <2>1, <2>2
<1>12. CallsRight'
  BY <1>4, <1>11, OneCall DEF IInv
<1>13. PermitsRight'
  BY DEF IInv, PermitsRight, Inside, Collect
<1>14. CellsRight' /\ CountsRight'
  <2>1. CellsRight /\ CountsRight /\ c \in Calls
    BY DEF IInv
  <2>2. phase' \in [Calls -> Phases]
    <3>1. {"raised", "answered"} \subseteq Phases
      BY DEF Phases
    <3> QED BY <1>5, <2>1, <3>1 DEF CellsRight
  <2>3. DOMAIN resolved' = Calls
    <3>1. DOMAIN resolved = Calls
      BY <2>1 DEF CellsRight
    <3>2. CASE resolved' = resolved
      BY <3>1, <3>2
    <3>3. CASE resolved' = [resolved EXCEPT ![c] = re]
      BY <3>1, <3>3
    <3> QED BY <1>5, <3>2, <3>3
  <2>4. /\ request' = request /\ unread' = unread /\ found' = found /\ batch' = batch
        /\ timedOut' = timedOut /\ cache' = cache /\ metrics' = metrics /\ whole' = whole
    BY DEF Collect, counts
  <2>5. CellsRight'
    BY <2>1, <2>2, <2>3, <2>4 DEF CellsRight
  <2>6. CountsRight'
    BY <2>1, <2>4 DEF CountsRight
  <2> QED BY <2>5, <2>6
<1> QED BY <1>12, <1>13, <1>14 DEF IInv

LEMMA ReturnKeeps ==
    ASSUME IInv, NEW c \in Calls, Return(c) PROVE IInv'
<1>1. /\ phase[c] \in {"answered", "raised"} /\ unread[c] = {}
      /\ \A n \in DOMAIN batch[c] : Over(batch[c][n])
  BY DEF Return, IInv, CallsRight, CallRight
<1>2. /\ phase'[c] = "idle" /\ request'[c] = Nothing /\ resolved'[c] = <<>>
      /\ unread'[c] = {} /\ batch'[c] = <<>>
      /\ \A d \in Calls \ {c} :
            /\ phase'[d] = phase[d] /\ request'[d] = request[d] /\ unread'[d] = unread[d]
            /\ found'[d] = found[d] /\ resolved'[d] = resolved[d] /\ batch'[d] = batch[d]
  BY <1>1 DEF Return, IInv, CellsRight
<1>3. CallRight(phase'[c], request'[c], unread'[c], found'[c], resolved'[c], batch'[c])
  BY <1>2 DEF CallRight, Phases
<1>4. CallsRight'
  BY <1>2, <1>3, OneCall DEF IInv
<1>5. PermitsRight'
  <2>1. \A n \in DOMAIN batch[c] : ~Busy(batch[c][n])
    BY <1>1 DEF Over, Busy
  <2>2. DOMAIN batch'[c] = {} /\ permits' = permits
    BY <1>2 DEF Return
  <2> QED BY <1>2, <2>1, <2>2, InsideKept DEF IInv
<1>6. CellsRight' /\ CountsRight'
  <2>1. NoMetrics \in [count : Nat, coverage : [Fields -> Nat]]
    BY DEF NoMetrics
  <2> QED BY <2>1 DEF IInv, CellsRight, CountsRight, Return, Phases
<1> QED BY <1>4, <1>5, <1>6 DEF IInv

-----------------------------------------------------------------------------
(***************************************************************************)
(* The invariant, and what follows from it                                 *)
(***************************************************************************)

THEOREM StepKeeps == IInv /\ [Next]_vars => IInv'
<1> SUFFICES ASSUME IInv, [Next]_vars PROVE IInv'
  OBVIOUS
<1>1. CASE UNCHANGED vars
  BY <1>1 DEF vars, counts, IInv, CallsRight, CellsRight, CountsRight, PermitsRight, Inside
<1>2. ASSUME NEW c \in Calls, NEW r \in Requests[c], Refuse(c, r) \/ Start(c, r) PROVE IInv'
  BY <1>2, RefuseKeeps, StartKeeps
<1>3. ASSUME NEW c \in Calls, NEW i \in unread[c], Read(c, i) PROVE IInv'
  BY <1>3, ReadKeeps
<1>4. ASSUME NEW c \in Calls, ReadsDone(c) \/ ReadsExpire(c) PROVE IInv'
  BY <1>4, LookedUpKeeps DEF ReadsDone, ReadsExpire
<1>5. ASSUME NEW c \in Calls, CancelReads(c) PROVE IInv'
  BY <1>5, CancelReadsKeeps
<1>6. ASSUME NEW c \in Calls, NEW n \in DOMAIN batch[c],
             Enter(c, n) \/ Again(c, n) \/ NoAnswer(c, n) \/ Unusable(c, n)
      PROVE  IInv'
  BY <1>6, EnterKeeps, AgainKeeps, NoAnswerKeeps, UnusableKeeps
<1>7. ASSUME NEW c \in Calls, NEW n \in DOMAIN batch[c], NEW reply \in AnswersTo(c, n),
             Answered(c, n, reply)
      PROVE  IInv'
  BY <1>7, AnsweredKeeps
<1>8. ASSUME NEW c \in Calls, NEW n \in DOMAIN batch[c], NEW i \in batch[c][n].unsaved,
             Store(c, n, i)
      PROVE  IInv'
  BY <1>8, StoreKeeps
<1>9. ASSUME NEW c \in Calls, NEW n \in DOMAIN batch[c], TaskCancelled(c, n) PROVE IInv'
  BY <1>9, TaskCancelledKeeps
<1>10. ASSUME NEW c \in Calls, Deadline(c) \/ CancelCaller(c) PROVE IInv'
  BY <1>10, DeadlineKeeps, CancelCallerKeeps
<1>11. ASSUME NEW c \in Calls, Collect(c) \/ Return(c) PROVE IInv'
  BY <1>11, CollectKeeps, ReturnKeeps
<1> QED BY <1>1, <1>2, <1>3, <1>4, <1>5, <1>6, <1>7, <1>8, <1>9, <1>10, <1>11 DEF Next

THEOREM IInvAlways == Spec => []IInv
<1> QED BY InitRight, StepKeeps, PTL DEF Spec

\* Every variable holds what the code may put into it; no more permits are out
\* than there are, and none too many is given back.
THEOREM TypeCorrect == Spec => []TypeOK
<1>1. IInv => TypeOK
  <2> SUFFICES ASSUME IInv PROVE TypeOK
    OBVIOUS
  <2>1. permits \in 0..MaxConcurrent
    <3>1. Cardinality(Inside) \in Nat /\ permits \in Nat /\ permits + Cardinality(Inside) = MaxConcurrent
      BY FS_CardinalityType DEF IInv, PermitsRight
    <3>2. MaxConcurrent \in Nat
      BY EvaluationAssumption DEF EvaluationAssumption
    <3> QED BY <3>1, <3>2
  <2>2. ASSUME NEW c \in Calls, phase[c] # "idle"
        PROVE  /\ request[c] # Nothing
               /\ unread[c] \subseteq DOMAIN request[c].candidates
               /\ resolved[c] \in Results(c)
               /\ \A n \in DOMAIN batch[c] :
                    /\ batch[c][n].at \in {"queued", "posting", "storing", "done", "cancelled"}
                    /\ batch[c][n].members \subseteq DOMAIN request[c].candidates
                    /\ batch[c][n].tries \in 0..MaxAttempts
    <3>1. CallRight(phase[c], request[c], unread[c], found[c], resolved[c], batch[c])
      BY DEF IInv, CallsRight
    <3>2. request[c] \in AllRequests /\ OutcomesRight(request[c], resolved[c], batch[c])
          /\ unread[c] \subseteq DOMAIN request[c].candidates
      BY <2>2, <3>1 DEF CallRight
    <3>3. request[c] # Nothing
      BY <3>2, EvaluationAssumption DEF EvaluationAssumption
    <3>4. resolved[c] \in Results(c)
      BY <3>2 DEF OutcomesRight, Results
    <3>5. ASSUME NEW n \in DOMAIN batch[c]
          PROVE  /\ batch[c][n].at \in {"queued", "posting", "storing", "done", "cancelled"}
                 /\ batch[c][n].members \subseteq DOMAIN request[c].candidates
                 /\ batch[c][n].tries \in 0..MaxAttempts
      BY <3>2 DEF OutcomesRight, TaskRight, TaskType
    <3> QED BY <3>2, <3>3, <3>4, <3>5
  <2> QED BY <2>1, <2>2 DEF TypeOK, IInv, CellsRight, CountsRight, Phases
<1> QED BY IInvAlways, <1>1, PTL

\* An answer has one outcome for each candidate, at the revisions of the request,
\* and none for anybody else.
THEOREM AnswersAlwaysRight == Spec => []AnswersTheRequest
<1>1. IInv => AnswersTheRequest
  <2> SUFFICES ASSUME IInv, NEW c \in Calls, phase[c] = "answered"
               PROVE  /\ \A i \in DOMAIN resolved[c] : resolved[c][i] # Nothing
                      /\ StaleCandidateIds(resolved[c], request[c]) = {}
    BY DEF AnswersTheRequest
  <2>1. /\ OutcomesRight(request[c], resolved[c], batch[c])
        /\ \A i \in DOMAIN request[c].candidates : resolved[c][i] # Nothing
    BY DEF IInv, CallsRight, CallRight
  <2>2. DOMAIN resolved[c] = DOMAIN request[c].candidates
    BY <2>1 DEF OutcomesRight
  <2>3. \A i \in DOMAIN resolved[c] :
          /\ resolved[c][i].candidate_user_id = request[c].candidates[i].user_id
          /\ resolved[c][i].viewer_profile_revision = request[c].viewer.profile_revision
          /\ resolved[c][i].candidate_profile_revision = request[c].candidates[i].profile_revision
    BY <2>1, <2>2 DEF OutcomesRight, Sound
  <2> QED BY <2>1, <2>2, <2>3 DEF StaleCandidateIds
<1> QED BY IInvAlways, <1>1, PTL

\* A candidate that was put into a batch is evaluated by the one entry that names
\* it, or fails.
THEOREM OneEntryAlways == Spec => []EvaluatedByOneEntry
<1>1. IInv => EvaluatedByOneEntry
  BY DEF IInv, CallsRight, CallRight, ByOneEntry, EvaluatedByOneEntry
<1> QED BY IInvAlways, <1>1, PTL

\* What is shown has a true quote, and a notice true quotes only.
THEOREM NoticesAlwaysGrounded == Spec => []NoticesAreGrounded
<1>1. IInv => NoticesAreGrounded
  <2> SUFFICES ASSUME IInv, NEW c \in Calls, phase[c] = "answered"
               PROVE  LET r == request[c]
                          items == resolved[c]
                          true(i, e) == e.quote \in Telling \cap SourceText(e.source, r.viewer, r.candidates[i])
                      IN /\ \A i \in DOMAIN items : items[i].status = "evaluated" =>
                               \E e \in items[i].excerpts : true(i, e)
                         /\ \A i \in Marked(items) :
                               /\ \A e \in items[i].excerpts : true(i, e)
                               /\ RequireIntent => {"vi", "ci"} \subseteq {e.source : e \in items[i].excerpts}
    BY DEF NoticesAreGrounded
  <2> DEFINE r == request[c]
             items == resolved[c]
  <2>1. /\ OutcomesRight(r, items, batch[c])
        /\ \A i \in DOMAIN r.candidates : items[i] # Nothing
    BY DEF IInv, CallsRight, CallRight
  <2>2. ASSUME NEW i \in DOMAIN items
        PROVE  /\ \A e \in items[i].excerpts : e.verified = VerifyExcerpt(e, r.viewer, r.candidates[i])
               /\ items[i].status = "evaluated" => Grounded(items[i].excerpts)
    BY <2>1 DEF OutcomesRight, Sound
  <2>3. ASSUME NEW i \in DOMAIN items, items[i].status = "evaluated"
        PROVE  \E e \in items[i].excerpts : VerifyExcerpt(e, r.viewer, r.candidates[i])
    BY <2>2, <2>3 DEF Grounded, HasVerified
  <2>4. ASSUME NEW i \in Marked(items)
        PROVE  /\ \A e \in items[i].excerpts : VerifyExcerpt(e, r.viewer, r.candidates[i])
               /\ RequireIntent => {"vi", "ci"} \subseteq {e.source : e \in items[i].excerpts}
    <3>1. i \in DOMAIN items /\ Eligible(items[i])
      BY <2>4 DEF Marked
    <3> QED BY <2>2, <3>1 DEF Eligible, HasVerified
  <2> QED BY <2>3, <2>4 DEF VerifyExcerpt
<1> QED BY IInvAlways, <1>1, PTL

\* No task works on after its call, and the permits add up.
THEOREM NothingOutlives == Spec => []NothingOutlivesItsCall
<1>1. IInv => NothingOutlivesItsCall
  <2> SUFFICES ASSUME IInv PROVE NothingOutlivesItsCall
    OBVIOUS
  <2>1. ASSUME NEW c \in Calls, phase[c] \in {"idle", "answered", "raised"},
               NEW n \in DOMAIN batch[c]
        PROVE  Over(batch[c][n])
    BY <2>1 DEF IInv, CallsRight, CallRight
  <2> QED BY <2>1 DEF NothingOutlivesItsCall, IInv, PermitsRight
<1> QED BY IInvAlways, <1>1, PTL

=============================================================================
