----------------------------- MODULE Evaluation -----------------------------
(***************************************************************************)
(* RecommendationService.recommend (server/app/ai/service.py) and the      *)
(* gateway below it.  Calls run side by side on one service: they share    *)
(* the cache and the semaphore.  An action is what a coroutine does from   *)
(* one await to the next.  A candidate is its position in the request.     *)
(***************************************************************************)
EXTENDS Judgement

CONSTANTS
    Calls,
    Requests,             \* what each call may be asked: records [viewer, candidates]
    Replies,              \* what the model may answer about the people it is asked
                          \* about: records [entries, usage]
    Found,                \* entries that may be in the cache beforehand
    Troubles,             \* how else a provider request may end: records [code, usage]
    Fields,               \* the token counts of a usage report
    Configured,           \* key, base URL and model are set
    MaxConcurrent,        \* max_concurrent_requests
    MaxAttempts,          \* max_attempts
    BatchSize, MaxOutput, Overhead, PerCandidate

VARIABLES
    request,   \* what each call was asked
    phase,     \* where each call is
    unread,    \* cache reads in flight
    found,     \* what the reads brought
    resolved,  \* candidates whose outcome is known
    batch,     \* the batch tasks of each call
    timedOut,  \* the deadline, not the caller, ended the tasks
    permits,   \* value of the semaphore
    cache,
    metrics,   \* what collect_metrics() gathers for each call
    whole      \* history: provider requests answered with every token count

vars == <<request, phase, unread, found, resolved, batch, timedOut, permits, cache,
          metrics, whole>>
counts == <<metrics, whole>>

AllRequests == UNION {Requests[c] : c \in Calls}

\* An entry of the model's answer; one that does not fit has whatever it has.
RawEvaluation ==
    [fits : BOOLEAN, id : People, status : STRING, score : Int \cup {Nothing}, reason : BOOLEAN,
     intent_conflict : BOOLEAN, evidence : SUBSET [source : Sources, quote : Quotes]]

NoReply == {"gateway_timeout", "gateway_network_error"}

EvaluationAssumption ==
    /\ MaxConcurrent \in Nat \ {0} /\ MaxAttempts \in Nat \ {0}
    /\ BatchSize \in Nat \ {0} /\ PerCandidate \in Nat \ {0}
    /\ MaxOutput \in Nat /\ Overhead \in Nat
    /\ Configured \in BOOLEAN
    /\ AllRequests \subseteq [viewer : Profile, candidates : Seq(Profile)]
    /\ Nothing \notin AllRequests
    /\ Fields # {}
    /\ Troubles \subseteq [code : FailureCodes, usage : SUBSET Fields]
    /\ \A t \in Troubles : t.code \in NoReply \cup {"gateway_http_error"} => t.usage = {}
    /\ Replies \in [SUBSET People -> SUBSET [entries : Seq(RawEvaluation), usage : SUBSET Fields]]
    /\ \A r \in AllRequests : \A i, j \in DOMAIN r.candidates :
         i # j => r.candidates[i].user_id # r.candidates[j].user_id
    /\ Found \subseteq CandidateRecommendation /\ Nothing \notin CandidateRecommendation

ASSUME EvaluationAssumption

Key(viewer, candidate) ==
    <<viewer.user_id, viewer.profile_revision, viewer.self_description, viewer.connection_intent,
      candidate.user_id, candidate.profile_revision,
      candidate.self_description, candidate.connection_intent>>

KeyAt(r, i) == Key(r.viewer, r.candidates[i])
AllKeys == UNION {{KeyAt(r, i) : i \in DOMAIN r.candidates} : r \in AllRequests}

\* Fault: the budget of the answer is not looked at.
BatchSizeAsSet == BatchSize

EffectiveBatchSize ==
    LET affordable == (MaxOutput - Overhead) \div PerCandidate
        atLeastOne == IF affordable < 1 THEN 1 ELSE affordable
    IN IF BatchSize < atLeastOne THEN BatchSize ELSE atLeastOne

\* The number, from 1, of the batch that position i of `pending` is in.
Chunk(pending, i) == (Cardinality({j \in pending : j < i}) \div EffectiveBatchSize) + 1

NoMetrics == [count |-> 0, coverage |-> [f \in Fields |-> 0]]

Init ==
    /\ request = [c \in Calls |-> Nothing]
    /\ phase = [c \in Calls |-> "idle"]
    /\ unread = [c \in Calls |-> {}]
    /\ found = [c \in Calls |-> <<>>]
    /\ resolved = [c \in Calls |-> <<>>]
    /\ batch = [c \in Calls |-> <<>>]
    /\ timedOut = [c \in Calls |-> FALSE]
    /\ permits = MaxConcurrent
    /\ cache \in [AllKeys -> Found \cup {Nothing}]
    /\ metrics = [c \in Calls |-> NoMetrics]
    /\ whole = [c \in Calls |-> 0]

-----------------------------------------------------------------------------
(***************************************************************************)
(* recommend, and the cache reads                                          *)
(***************************************************************************)

Refusal(r) ==
    CASE ~Configured -> "configuration_missing"
      [] Configured /\ r.viewer.oversized -> "input_too_long"
      [] OTHER -> Nothing

Failed(r, i, code) == Placeholder(r.viewer, r.candidates[i], code)

Refuse(c, r) ==
    /\ phase[c] = "idle"
    /\ Refusal(r) # Nothing
    /\ request' = [request EXCEPT ![c] = r]
    /\ resolved' = [resolved EXCEPT ![c] = [i \in DOMAIN r.candidates |-> Failed(r, i, Refusal(r))]]
    /\ phase' = [phase EXCEPT ![c] = "answered"]
    /\ UNCHANGED <<unread, found, batch, timedOut, permits, cache, counts>>

\* The lookups start together; candidates too long to send are failed already.
Start(c, r) ==
    /\ phase[c] = "idle"
    /\ Refusal(r) = Nothing
    /\ request' = [request EXCEPT ![c] = r]
    /\ unread' = [unread EXCEPT ![c] = {i \in DOMAIN r.candidates : ~r.candidates[i].oversized}]
    /\ found' = [found EXCEPT ![c] = [i \in DOMAIN r.candidates |-> Nothing]]
    /\ resolved' = [resolved EXCEPT ![c] =
                      [i \in DOMAIN r.candidates |->
                         IF r.candidates[i].oversized THEN Failed(r, i, "input_too_long") ELSE Nothing]]
    /\ phase' = [phase EXCEPT ![c] = "reading"]
    /\ UNCHANGED <<batch, timedOut, permits, cache, counts>>

\* An entry that has expired, an outage and an entry of a foreign shape are all
\* a miss.
Read(c, i) ==
    /\ phase[c] = "reading"
    /\ i \in unread[c]
    /\ unread' = [unread EXCEPT ![c] = @ \ {i}]
    /\ \E value \in {cache[KeyAt(request[c], i)], Nothing} :
         found' = [found EXCEPT ![c][i] = value]
    /\ UNCHANGED <<request, phase, resolved, batch, timedOut, permits, cache, counts>>

Task(members) ==
    [at |-> "queued", members |-> members, tries |-> 0, reply |-> Nothing,
     results |-> <<>>, unsaved |-> {}]

\* All reads answered, or the deadline cancelled the ones in flight: the usable
\* entries are results, the other candidates are put into batches.  After the
\* deadline the batches are started too, and cancelled at the next turn.
LookedUp(c) ==
    LET r == request[c]
        usable(i) == IF resolved[c][i] # Nothing THEN resolved[c][i]
                     ELSE Revalidated(found[c][i], r.viewer, r.candidates[i])
        known == [i \in DOMAIN r.candidates |-> usable(i)]
        pending == {i \in DOMAIN known : known[i] = Nothing}
        numbers == {Chunk(pending, i) : i \in pending}
    IN /\ phase[c] = "reading"
       /\ unread' = [unread EXCEPT ![c] = {}]
       /\ found' = [found EXCEPT ![c] = <<>>]
       /\ resolved' = [resolved EXCEPT ![c] = known]
       /\ batch' = [batch EXCEPT ![c] =
                      [n \in numbers |-> Task({i \in pending : Chunk(pending, i) = n})]]
       /\ phase' = [phase EXCEPT ![c] = IF pending = {} THEN "answered" ELSE "evaluating"]
       /\ UNCHANGED <<request, timedOut, permits, cache, counts>>

ReadsDone(c) == unread[c] = {} /\ LookedUp(c)
ReadsExpire(c) == unread[c] # {} /\ LookedUp(c)

\* The caller is cancelled while it waits for the cache.
CancelReads(c) ==
    /\ phase[c] = "reading"
    /\ unread' = [unread EXCEPT ![c] = {}]
    /\ found' = [found EXCEPT ![c] = <<>>]
    /\ phase' = [phase EXCEPT ![c] = "raised"]
    /\ UNCHANGED <<request, resolved, batch, timedOut, permits, cache, counts>>

-----------------------------------------------------------------------------
(***************************************************************************)
(* A batch: the semaphore, the gateway, the answer, the cache writes       *)
(***************************************************************************)

Busy(t) == t.at \in {"posting", "storing"}
Over(t) == t.at \in {"done", "cancelled"}

\* complete() counts before it sends.
Attempt(c) ==
    /\ metrics' = [metrics EXCEPT ![c].count = @ + 1]
    /\ UNCHANGED whole

Enter(c, n) ==
    /\ phase[c] = "evaluating"
    /\ batch[c][n].at = "queued"
    /\ permits > 0
    /\ permits' = permits - 1
    /\ batch' = [batch EXCEPT ![c][n].at = "posting", ![c][n].tries = 1]
    /\ Attempt(c)
    /\ UNCHANGED <<request, phase, unread, found, resolved, timedOut, cache>>

Posting(c, n) == phase[c] = "evaluating" /\ batch[c][n].at = "posting"

\* A timeout or a transport error is tried again.
Again(c, n) ==
    /\ Posting(c, n)
    /\ batch[c][n].tries < MaxAttempts
    /\ batch' = [batch EXCEPT ![c][n].tries = @ + 1]
    /\ Attempt(c)
    /\ UNCHANGED <<request, phase, unread, found, resolved, timedOut, permits, cache>>

Finish(c, n, results) ==
    /\ batch' = [batch EXCEPT ![c][n].at = "done", ![c][n].results = results]
    /\ permits' = permits + 1

FailBatch(c, n, code) ==
    Finish(c, n, [i \in batch[c][n].members |-> Failed(request[c], i, code)])

NoAnswer(c, n) ==
    /\ Posting(c, n)
    /\ batch[c][n].tries = MaxAttempts
    /\ \E trouble \in {t \in Troubles : t.code \in NoReply} : FailBatch(c, n, trouble.code)
    /\ UNCHANGED <<request, phase, unread, found, resolved, timedOut, cache, counts>>

\* Fault: a reply that reports usage is taken to report all of it.
ReportedAll(c, reported) ==
    /\ metrics' = [metrics EXCEPT ![c].coverage = [f \in Fields |-> @[f] + 1]]
    /\ whole' = [whole EXCEPT ![c] = @ + (IF reported = Fields THEN 1 ELSE 0)]

\* record_usage, before anything in the body can be refused.
Reported(c, reported) ==
    /\ metrics' = [metrics EXCEPT ![c].coverage =
                     [f \in Fields |-> @[f] + (IF f \in reported THEN 1 ELSE 0)]]
    /\ whole' = [whole EXCEPT ![c] = @ + (IF reported = Fields THEN 1 ELSE 0)]

\* An error status carries no usage; a body that cannot be used may.
Unusable(c, n) ==
    /\ Posting(c, n)
    /\ \E trouble \in {t \in Troubles : t.code \notin NoReply} :
         FailBatch(c, n, trouble.code) /\ Reported(c, trouble.usage)
    /\ UNCHANGED <<request, phase, unread, found, resolved, timedOut, cache>>

\* Fault: whatever came out is stored.
StorableAll(results) == DOMAIN results

\* Only outcomes that can be used again are stored.
Storable(results) == {i \in DOMAIN results : results[i].status # "failed"}

AnswersTo(c, n) == Replies[{request[c].candidates[i].user_id : i \in batch[c][n].members}]

Answered(c, n, reply) ==
    LET r == request[c]
        results == [i \in batch[c][n].members |-> Accounted(r.viewer, r.candidates[i], reply.entries)]
        unsaved == Storable(results)
    IN /\ Posting(c, n)
       /\ batch' = [batch EXCEPT ![c][n] =
                      [@ EXCEPT !.at = IF unsaved = {} THEN "done" ELSE "storing",
                                !.reply = reply, !.results = results, !.unsaved = unsaved]]
       /\ permits' = IF unsaved = {} THEN permits + 1 ELSE permits
       /\ Reported(c, reply.usage)
       /\ UNCHANGED <<request, phase, unread, found, resolved, timedOut, cache>>

\* One SET of _store; a write that fails loses nothing but the entry.
Store(c, n, i) ==
    LET left == batch[c][n].unsaved \ {i} IN
    /\ phase[c] = "evaluating"
    /\ batch[c][n].at = "storing"
    /\ i \in batch[c][n].unsaved
    /\ cache' \in {cache, [cache EXCEPT ![KeyAt(request[c], i)] = batch[c][n].results[i]]}
    /\ batch' = [batch EXCEPT ![c][n].unsaved = left,
                              ![c][n].at = IF left = {} THEN "done" ELSE "storing"]
    /\ permits' = IF left = {} THEN permits + 1 ELSE permits
    /\ UNCHANGED <<request, phase, unread, found, resolved, timedOut, counts>>

-----------------------------------------------------------------------------
(***************************************************************************)
(* The end of a call                                                       *)
(***************************************************************************)

\* Fault: the deadline is started by the first batch that gets a permit.
DueOnceRunning(c) == \A n \in DOMAIN batch[c] : batch[c][n].at # "queued"

\* The deadline runs whether or not the batches got beyond the queue.
Due(c) == TRUE

Deadline(c) ==
    /\ phase[c] = "evaluating"
    /\ \E n \in DOMAIN batch[c] : ~Over(batch[c][n])
    /\ Due(c)
    /\ phase' = [phase EXCEPT ![c] = "cancelling"]
    /\ timedOut' = [timedOut EXCEPT ![c] = TRUE]
    /\ UNCHANGED <<request, unread, found, resolved, batch, permits, cache, counts>>

\* The task that called recommend is cancelled while its batches run or, after the
\* deadline, while they are being ended: it waits for them and then raises.
CancelCaller(c) ==
    /\ phase[c] \in {"evaluating", "cancelling"}
    /\ \E n \in DOMAIN batch[c] : ~Over(batch[c][n])
    /\ phase' = [phase EXCEPT ![c] = "cancelling"]
    /\ timedOut' = [timedOut EXCEPT ![c] = FALSE]
    /\ UNCHANGED <<request, unread, found, resolved, batch, permits, cache, counts>>

\* Fault: every cancelled task gives back a permit.
LeavesAlways(t) == TRUE

Leaves(t) == Busy(t)

\* A cancelled task leaves the semaphore if it was inside; what it had stored
\* stays stored, what it had evaluated is dropped.
TaskCancelled(c, n) ==
    /\ phase[c] = "cancelling"
    /\ ~Over(batch[c][n])
    /\ batch' = [batch EXCEPT ![c][n].at = "cancelled"]
    /\ permits' = IF Leaves(batch[c][n]) THEN permits + 1 ELSE permits
    /\ UNCHANGED <<request, phase, unread, found, resolved, timedOut, cache, counts>>

\* Fault: a cancelled caller does not wait for the tasks it has cancelled.
EndedOrRaising(c) ==
    \/ \A n \in DOMAIN batch[c] : Over(batch[c][n])
    \/ phase[c] = "cancelling" /\ ~timedOut[c]

Ended(c) == \A n \in DOMAIN batch[c] : Over(batch[c][n])

BatchOf(c, i) == CHOOSE n \in DOMAIN batch[c] : i \in batch[c][n].members

\* The outcomes of the batches that ended; a cancelled batch timed out.  A batch
\* handles its own errors: that one raises (service.py:543-548) is left out.
Collect(c) ==
    LET outcomeOf(i) ==
          IF resolved[c][i] # Nothing THEN resolved[c][i]
          ELSE LET t == batch[c][BatchOf(c, i)] IN
               IF t.at = "done" THEN t.results[i]
               ELSE Failed(request[c], i, "gateway_timeout")
    IN /\ phase[c] \in {"evaluating", "cancelling"}
       /\ Ended(c)
       /\ IF phase[c] = "cancelling" /\ ~timedOut[c]
          THEN /\ phase' = [phase EXCEPT ![c] = "raised"]
               /\ UNCHANGED resolved
          ELSE /\ phase' = [phase EXCEPT ![c] = "answered"]
               /\ resolved' = [resolved EXCEPT ![c] =
                                 [i \in DOMAIN request[c].candidates |-> outcomeOf(i)]]
       /\ UNCHANGED <<request, unread, found, batch, timedOut, permits, cache, counts>>

\* The caller has the result, and may call again.
Return(c) ==
    /\ phase[c] \in {"answered", "raised"}
    /\ phase' = [phase EXCEPT ![c] = "idle"]
    /\ request' = [request EXCEPT ![c] = Nothing]
    /\ resolved' = [resolved EXCEPT ![c] = <<>>]
    /\ batch' = [batch EXCEPT ![c] = <<>>]
    /\ timedOut' = [timedOut EXCEPT ![c] = FALSE]
    /\ metrics' = [metrics EXCEPT ![c] = NoMetrics]
    /\ whole' = [whole EXCEPT ![c] = 0]
    /\ UNCHANGED <<unread, found, permits, cache>>

-----------------------------------------------------------------------------

Next ==
    \E c \in Calls :
         \/ \E r \in Requests[c] : Refuse(c, r) \/ Start(c, r)
         \/ \E i \in unread[c] : Read(c, i)
         \/ ReadsDone(c) \/ ReadsExpire(c) \/ CancelReads(c)
         \/ \E n \in DOMAIN batch[c] :
              \/ Enter(c, n) \/ Again(c, n) \/ NoAnswer(c, n) \/ Unusable(c, n)
              \/ \E reply \in AnswersTo(c, n) : Answered(c, n, reply)
              \/ \E i \in batch[c][n].unsaved : Store(c, n, i)
              \/ TaskCancelled(c, n)
         \/ Deadline(c) \/ CancelCaller(c) \/ Collect(c) \/ Return(c)

Spec == Init /\ [][Next]_vars

\* The event loop runs what is ready and lets the deadline fire.  Nothing is
\* asked of the cache, the provider or the semaphore.
Fairness ==
    \A c \in Calls :
        /\ WF_vars(ReadsDone(c)) /\ WF_vars(ReadsExpire(c))
        /\ WF_vars(Deadline(c)) /\ WF_vars(Collect(c))
        /\ WF_vars(\E n \in DOMAIN batch[c] : TaskCancelled(c, n))

FairSpec == Spec /\ Fairness

-----------------------------------------------------------------------------
(***************************************************************************)
(* Correctness                                                             *)
(***************************************************************************)

Results(c) == [DOMAIN request[c].candidates -> CandidateRecommendation \cup {Nothing}]

\* Each variable holds what the code may put into it; the semaphore is never
\* negative and never above its initial value.
TypeOK ==
    /\ request \in [Calls -> AllRequests \cup {Nothing}]
    /\ phase \in [Calls -> {"idle", "reading", "evaluating", "cancelling", "answered", "raised"}]
    /\ timedOut \in [Calls -> BOOLEAN]
    /\ permits \in 0..MaxConcurrent
    /\ cache \in [AllKeys -> CandidateRecommendation \cup {Nothing}]
    /\ metrics \in [Calls -> [count : Nat, coverage : [Fields -> Nat]]]
    /\ whole \in [Calls -> Nat]
    /\ \A c \in Calls : phase[c] # "idle" =>
         /\ request[c] # Nothing
         /\ unread[c] \subseteq DOMAIN request[c].candidates
         /\ resolved[c] \in Results(c)
         /\ \A n \in DOMAIN batch[c] :
              /\ batch[c][n].at \in {"queued", "posting", "storing", "done", "cancelled"}
              /\ batch[c][n].members \subseteq DOMAIN request[c].candidates
              /\ batch[c][n].tries \in 0..MaxAttempts

\* Ids whose outcome is not for the revisions in the request, and outcomes for
\* somebody the request does not name.
StaleCandidateIds(outcomes, r) ==
    LET current == {r.candidates[i].user_id : i \in DOMAIN r.candidates}
        matches(item, candidate) ==
            /\ item.candidate_user_id = candidate.user_id
            /\ item.viewer_profile_revision = r.viewer.profile_revision
            /\ item.candidate_profile_revision = candidate.profile_revision
    IN {r.candidates[i].user_id : i \in {i \in DOMAIN r.candidates :
            ~\E j \in DOMAIN outcomes : matches(outcomes[j], r.candidates[i])}}
       \cup ({outcomes[j].candidate_user_id : j \in DOMAIN outcomes} \ current)

\* An answer has one outcome for each candidate at the supplied revisions and
\* for nobody else (service.py:4-5), whatever the model and the cache named.
AnswersTheRequest ==
    \A c \in Calls : phase[c] = "answered" =>
        /\ \A i \in DOMAIN resolved[c] : resolved[c][i] # Nothing
        /\ StaleCandidateIds(resolved[c], request[c]) = {}

\* A candidate that was put into a batch has an evaluation only if the batch
\* ended by itself and its answer has exactly one entry about the candidate.
EvaluatedByOneEntry ==
    \A c \in Calls : phase[c] = "answered" =>
        \A n \in DOMAIN batch[c] : \A i \in batch[c][n].members :
            resolved[c][i].status # "failed" =>
                /\ batch[c][n].at = "done"
                /\ Cardinality(Mentions(batch[c][n].reply.entries, request[c].candidates[i])) = 1

\* A reason that is shown has a quote from the texts of this request, also when
\* it was stored under other texts; a notice rests on true quotes only and, where
\* that is asked for, on both intents.
NoticesAreGrounded ==
    \A c \in Calls : phase[c] = "answered" =>
        LET r == request[c]
            items == resolved[c]
            true(i, e) == e.quote \in Telling \cap SourceText(e.source, r.viewer, r.candidates[i])
        IN /\ \A i \in DOMAIN items : items[i].status = "evaluated" =>
                 \E e \in items[i].excerpts : true(i, e)
           /\ \A i \in Marked(items) :
                 /\ \A e \in items[i].excerpts : true(i, e)
                 /\ RequireIntent => {"vi", "ci"} \subseteq {e.source : e \in items[i].excerpts}

\* What a call stores, the next one that looks it up takes over as it is, whichever
\* request it comes from: same score, same quotes, and no second payment for an
\* entry that its reader would refuse.
StoredIsTakenOver ==
    [][\A k \in AllKeys : cache'[k] # cache[k] =>
          \A r \in AllRequests : \A i \in DOMAIN r.candidates :
              KeyAt(r, i) = k => Revalidated(cache'[k], r.viewer, r.candidates[i]) = cache'[k]]_vars

\* gateway_calls: the gateway counts its own requests, and is believed.
GatewayCalls(c) == metrics[c].count

Covers(c) ==
    GatewayCalls(c) > 0 /\ \A f \in Fields : metrics[c].coverage[f] = GatewayCalls(c)

\* _usage: nothing was sent, or every request that was made reported every field.
Complete(c) == GatewayCalls(c) = 0 \/ Covers(c)

\* The requests that the batches of a call have sent.
Attempts(c) == UNION {{n} \X (1..batch[c][n].tries) : n \in DOMAIN batch[c]}

\* The usage of a call is called complete exactly when every attempt of its
\* batches, those cut off by a cancellation included, was answered and reported
\* every field: counts of single fields and of requests do not hide a gap, and an
\* attempt that was retried or never answered is one.
UsageIsHonest ==
    \A c \in Calls : Complete(c) <=> whole[c] = Cardinality(Attempts(c))

\* The answer to a batch fits max_output_tokens as far as a smaller batch helps
\* ("reduced so one batch's answer fits the budget"), and no batch is empty.
BatchesFit ==
    \A c \in Calls : \A n \in DOMAIN batch[c] :
        LET size == Cardinality(batch[c][n].members) IN
        /\ size \in 1..BatchSize
        /\ size > 1 => Overhead + size * PerCandidate <= MaxOutput

\* The batches that are inside the semaphore.
Inside == UNION {{<<c, n>> : n \in {n \in DOMAIN batch[c] : Busy(batch[c][n])}} : c \in Calls}

\* No batch works on after its call has returned or raised, and a permit is
\* missing from the semaphore only while a batch is inside.
NothingOutlivesItsCall ==
    /\ \A c \in Calls : phase[c] \in {"idle", "answered", "raised"} =>
         \A n \in DOMAIN batch[c] : Over(batch[c][n])
    /\ permits + Cardinality(Inside) = MaxConcurrent

\* A call ends although the cache, the provider and the other calls' batches
\* may never move again.
CallsEnd ==
    \A c \in Calls : phase[c] \in {"reading", "evaluating", "cancelling"}
                      ~> phase[c] \in {"answered", "raised"}

-----------------------------------------------------------------------------
(***************************************************************************)
(* What the callers see of it                                              *)
(***************************************************************************)

AskedKeys(c) ==
    IF phase[c] = "idle" THEN {}
    ELSE {KeyAt(request[c], i) : i \in DOMAIN request[c].candidates}

Entry(outcome) ==
    CASE outcome = Nothing -> Nothing
      [] outcome # Nothing -> IF outcome.status = "failed" THEN "failed" ELSE "usable"

Public(c, i) ==
    IF i \in Marked(resolved[c]) THEN "worthy" ELSE Entry(resolved[c][i])

Promise == INSTANCE RecommendPromise WITH
    Keys <- AllKeys, Cap <- MaxPerRequest, Absent <- Nothing,
    asked <- [c \in Calls |-> AskedKeys(c)],
    stage <- [c \in Calls |-> IF phase[c] \in {"reading", "evaluating", "cancelling"}
                              THEN "asked" ELSE phase[c]],
    outcome <- [c \in Calls |-> [k \in AllKeys |->
        IF phase[c] = "answered" /\ k \in AskedKeys(c)
        THEN Public(c, CHOOSE i \in DOMAIN request[c].candidates : KeyAt(request[c], i) = k)
        ELSE Nothing]],
    kept <- [k \in AllKeys |-> Entry(cache[k])]

\* The tasks, batches and deadlines implement RecommendPromise: what is stored
\* is stored under the keys of a call that has not returned yet.
KeepsPromise == Promise!PromiseSpec

=============================================================================
