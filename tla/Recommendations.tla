-------------------------- MODULE Recommendations --------------------------
(***************************************************************************)
(* The bridge between the observation endpoints and the evaluation service *)
(* (server/app/recommendations.py) on several server processes that share  *)
(* one Redis.  A job is one background task of Recommendations._evaluate;  *)
(* it calls recommend() at most once, which RecommendPromise specifies.    *)
(* An action is what a coroutine does up to its next await together with   *)
(* the Redis command it waits for; reads that commute with everything in   *)
(* between are taken with the step before them.                            *)
(***************************************************************************)
EXTENDS RecommendPromise

CONSTANTS
    Users, Viewers,
    Workers,        \* server processes
    None,
    AskTicks,       \* total_timeout_seconds, in ticks: recommend() ends by then
    ClaimTicks,     \* how long the claims of a job may wait for Redis
    Slack,          \* the seconds a lease lasts beyond AskTicks
    MaxChanges,     \* bound on edits, switches, moves and evaluations lost from the cache
    MaxTroubles     \* bound on crashes, shutdowns and commands Redis does not answer

VARIABLES
    profile,        \* user:{u}: profile_revision and discovery_enabled
    near,           \* near[v]: who v has observed within the window
    changes, troubles,   \* how many of them so far
    worker,         \* worker[w]: "up" or "closing"
    inflight,       \* inflight[w]: _inflight of the process
    lease,          \* the job keys in Redis: token and time left
    job,            \* the background tasks
    told,           \* pairs with a push:told key
    sent            \* history: notices for a pair since its push:told key was free

bridgeVars == <<worker, inflight, lease, job>>
worldVars == <<profile, near, changes, troubles>>
noticeVars == <<told, sent>>
vars == <<promiseVars, worldVars, bridgeVars, noticeVars>>

Revisions == 1..(MaxChanges + 1)

\* Fault: the lease lasts as long as the evaluation may.
TtlWithoutSlack == AskTicks

Ttl == AskTicks + Slack

\* by = None: the token is lost with the job that drew it.
Lease == [by : Calls \cup {None}, left : 1..Ttl]

RecommendationsAssumption ==
    /\ Viewers \subseteq Users
    /\ Keys = {k \in [viewer : Viewers, viewer_revision : Revisions,
                      candidate : Users, candidate_revision : Revisions] : k.viewer # k.candidate}
    /\ AskTicks \in Nat /\ ClaimTicks \in Nat /\ Slack \in Nat \ {0} /\ MaxChanges \in Nat /\ MaxTroubles \in Nat
    /\ ClaimTicks < Slack
    /\ None \notin Calls \cup Workers \cup Lease

ASSUME RecommendationsAssumption

Pairs == {<<k.viewer, k.candidate>> : k \in Keys}
PairOf(k) == <<k.viewer, k.candidate>>

NoJob ==
    [pc |-> "free", worker |-> None, wants |-> {}, trying |-> {}, held |-> {}, unguarded |-> {},
     failing |-> {}, telling |-> {}, age |-> 0]

\* The keys of the `leases` dictionary of a job.
Leases(j) == job[j].trying \cup job[j].held

Init ==
    /\ PromiseInit
    /\ kept = [k \in Keys |-> Absent]
    /\ profile = [u \in Users |-> [rev |-> 1, on |-> TRUE]]
    /\ near = [v \in Viewers |-> Users \ {v}]
    /\ changes = 0 /\ troubles = 0
    /\ worker = [w \in Workers |-> "up"]
    /\ inflight = [w \in Workers |-> {}]
    /\ lease = [k \in Keys |-> None]
    /\ job = [j \in Calls |-> NoJob]
    /\ told = {}
    /\ sent = [p \in Pairs |-> 0]

-----------------------------------------------------------------------------
(***************************************************************************)
(* What users do: put_profile, set_discovery, walking about                *)
(***************************************************************************)

Change == changes < MaxChanges /\ changes' = changes + 1 /\ UNCHANGED troubles

Trouble == troubles < MaxTroubles /\ troubles' = troubles + 1 /\ UNCHANGED <<profile, near, changes>>

\* put_profile.lua with another text; the same text changes nothing.
PutProfile(u) ==
    /\ Change
    /\ profile' = [profile EXCEPT ![u].rev = @ + 1]
    /\ UNCHANGED <<promiseVars, near, bridgeVars, noticeVars>>

SetDiscovery(u) ==
    /\ Change
    /\ profile' = [profile EXCEPT ![u].on = ~@]
    /\ UNCHANGED <<promiseVars, near, bridgeVars, noticeVars>>

\* Observations come and go by themselves (module Discovery).
Move(v, u) ==
    /\ u # v
    /\ Change
    /\ near' = [near EXCEPT ![v] = IF u \in @ THEN @ \ {u} ELSE @ \cup {u}]
    /\ UNCHANGED <<promiseVars, profile, bridgeVars, noticeVars>>

-----------------------------------------------------------------------------
(***************************************************************************)
(* annotate: the request path                                              *)
(***************************************************************************)

KeyFor(v, u) ==
    [viewer |-> v, viewer_revision |-> profile[v].rev,
     candidate |-> u, candidate_revision |-> profile[u].rev]

Visible(v) == {u \in near[v] : profile[u].on}

Wanted(v) == {KeyFor(v, u) : u \in Visible(v)}

Schedule(w, missing) ==
    \E j \in Calls :
        /\ job[j] = NoJob
        /\ job' = [job EXCEPT ![j] = [NoJob EXCEPT !.pc = "claiming", !.worker = w, !.wants = missing]]

\* A poll of v that reaches process w: what is not in the cache is put into a
\* job; a poll that finds everything does nothing.
Poll(w, v) ==
    LET missing == {k \in Wanted(v) : kept[k] = Absent} IN
    /\ worker[w] = "up"
    /\ profile[v].on
    /\ missing # {}
    /\ Schedule(w, missing)
    /\ UNCHANGED <<promiseVars, worldVars, worker, inflight, lease, noticeVars>>

\* A poll during which Redis does not answer some of the reads, or answers with an
\* entry that names somebody else: either way the pair counts as missing.
PollInOutage(w, v) ==
    /\ worker[w] = "up"
    /\ profile[v].on
    /\ Trouble
    /\ \E missing \in SUBSET Wanted(v) :
         /\ {k \in Wanted(v) : kept[k] = Absent} \subseteq missing
         /\ missing # {}
         /\ Schedule(w, missing)
    /\ UNCHANGED <<promiseVars, worker, inflight, lease, noticeVars>>

-----------------------------------------------------------------------------
(***************************************************************************)
(* _claim                                                                  *)
(***************************************************************************)

\* The part before the SET: what the process is busy with already is left out.
Claim(j) ==
    LET w == job[j].worker
        fresh == job[j].wants \ inflight[w]
    IN /\ job[j].pc = "claiming"
       /\ job[j].wants # {}
       /\ job' = [job EXCEPT ![j].wants = {}, ![j].trying = fresh]
       /\ inflight' = [inflight EXCEPT ![w] = @ \cup fresh]
       /\ UNCHANGED <<promiseVars, worldVars, worker, lease, noticeVars>>

Trying(j, k) == job[j].pc = "claiming" /\ k \in job[j].trying

Grant(j, k) == lease' = [lease EXCEPT ![k] = [by |-> j, left |-> Ttl]]

Granted(j, k) ==
    /\ Trying(j, k)
    /\ lease[k] = None
    /\ Grant(j, k)
    /\ job' = [job EXCEPT ![j].trying = @ \ {k}, ![j].held = @ \cup {k}]
    /\ UNCHANGED <<promiseVars, worldVars, worker, inflight, noticeVars>>

\* Fault: a key that is given up stays in _inflight.
Remembered(w, k) == UNCHANGED inflight

Forget(w, k) == inflight' = [inflight EXCEPT ![w] = @ \ {k}]

Refused(j, k) ==
    /\ Trying(j, k)
    /\ lease[k] # None
    /\ job' = [job EXCEPT ![j].trying = @ \ {k}]
    /\ Forget(job[j].worker, k)
    /\ UNCHANGED <<promiseVars, worldVars, worker, lease, noticeVars>>

\* Redis fails or does not answer, with or without having set the key: the job
\* goes on as if it had the lease.
Unanswered(j, k) ==
    /\ Trying(j, k)
    /\ Trouble
    /\ UNCHANGED lease \/ (lease[k] = None /\ Grant(j, k))
    /\ job' = [job EXCEPT ![j].trying = @ \ {k}, ![j].held = @ \cup {k}, ![j].unguarded = @ \cup {k}]
    /\ UNCHANGED <<promiseVars, worker, inflight, noticeVars>>

-----------------------------------------------------------------------------
(***************************************************************************)
(* _evaluate: the call of the service, and what follows it                 *)
(***************************************************************************)

Claimed(j) == job[j].pc = "claiming" /\ job[j].wants = {} /\ job[j].trying = {}

NothingToDo(j) ==
    /\ Claimed(j)
    /\ job[j].held = {}
    /\ job' = [job EXCEPT ![j] = NoJob]
    /\ UNCHANGED <<promiseVars, worldVars, worker, inflight, lease, noticeVars>>

CallService(j) ==
    /\ Claimed(j)
    /\ job[j].held # {}
    /\ Ask(j) /\ asked'[j] = job[j].held
    /\ job' = [job EXCEPT ![j].pc = "asking", ![j].age = 0]
    /\ UNCHANGED <<worldVars, worker, inflight, lease, noticeVars>>

\* recommend() is over; unguarded is not looked at any more.
Fails(j, failed) ==
    job' = [job EXCEPT ![j].pc = "failing", ![j].age = 0, ![j].failing = failed, ![j].unguarded = {}]

\* The service fails every pair at once.
CallDeclined(j) ==
    /\ Claimed(j)
    /\ job[j].held # {}
    /\ Decline(j) /\ asked'[j] = job[j].held
    /\ Fails(j, job[j].held)
    /\ UNCHANGED <<worldVars, worker, inflight, lease, noticeVars>>

Asking(j) == job[j].pc = "asking"

ServiceKeeps(j, k) ==
    /\ Asking(j)
    /\ Keep(j, k)
    /\ UNCHANGED <<worldVars, bridgeVars, noticeVars>>

ServiceAnswers(j) ==
    /\ Asking(j)
    /\ Answer(j)
    /\ Fails(j, {k \in Keys : outcome'[j][k] = "failed"})
    /\ UNCHANGED <<worldVars, worker, inflight, lease, noticeVars>>

\* An exception: everything the job has a lease for counts as failed.
ServiceRaises(j) ==
    /\ Asking(j)
    /\ Raise(j)
    /\ Fails(j, job[j].held)
    /\ UNCHANGED <<worldVars, worker, inflight, lease, noticeVars>>

\* _cache_failure; Redis may fail.
CacheFailure(j, k) ==
    /\ job[j].pc = "failing"
    /\ k \in job[j].failing
    /\ KeepFailure(j, k) \/ UNCHANGED promiseVars
    /\ job' = [job EXCEPT ![j].failing = @ \ {k}]
    /\ UNCHANGED <<worldVars, worker, inflight, lease, noticeVars>>

\* _notify, get_user: the viewer takes part and has the text that was evaluated.
CheckViewer(j) ==
    /\ job[j].pc = "failing" /\ job[j].failing = {} /\ stage[j] = "answered"
    /\ \A k \in asked[j] : profile[k.viewer].on /\ profile[k.viewer].rev = k.viewer_revision
    /\ job' = [job EXCEPT ![j].pc = "looking"]
    /\ UNCHANGED <<promiseVars, worldVars, worker, inflight, lease, noticeVars>>

\* No push, a viewer who has changed or gone, an exception earlier or now.
NoNotice(j) ==
    /\ \/ job[j].pc = "failing" /\ job[j].failing = {}
       \/ job[j].pc = "looking"
    /\ Return(j)
    /\ job' = [job EXCEPT ![j].pc = "releasing"]
    /\ UNCHANGED <<worldVars, worker, inflight, lease, noticeVars>>

\* _notify, observed_snapshots, asked about those worth a notice.
Look(j) ==
    /\ job[j].pc = "looking"
    /\ job' = [job EXCEPT ![j].pc = "telling",
                 ![j].telling = {k \in asked[j] :
                    /\ outcome[j][k] = "worthy"
                    /\ k.candidate \in Visible(k.viewer)
                    /\ profile[k.candidate].rev = k.candidate_revision}]
    /\ Return(j)
    /\ UNCHANGED <<worldVars, worker, inflight, lease, noticeVars>>

Telling(j, k) ==
    /\ job[j].pc = "telling"
    /\ k \in job[j].telling
    /\ job' = [job EXCEPT ![j].telling = @ \ {k}]
    /\ UNCHANGED <<promiseVars, worker, inflight, lease>>

\* Fault: the key is written without NX.
FreeToTell(p) == TRUE

Untold(p) == p \notin told

\* claim_once and push.recommendation.
Tell(j, k) ==
    /\ Telling(j, k)
    /\ Untold(PairOf(k))
    /\ told' = told \cup {PairOf(k)}
    /\ sent' = [sent EXCEPT ![PairOf(k)] = @ + 1]
    /\ UNCHANGED worldVars

ToldAlready(j, k) ==
    /\ Telling(j, k)
    /\ PairOf(k) \in told
    /\ UNCHANGED <<worldVars, noticeVars>>

\* Redis does not answer: no notice, though the key may be set.
NotTold(j, k) ==
    /\ Telling(j, k)
    /\ Trouble
    /\ told' \in {told, told \cup {PairOf(k)}}
    /\ UNCHANGED sent

AllTold(j) ==
    /\ job[j].pc = "telling"
    /\ job[j].telling = {}
    /\ job' = [job EXCEPT ![j].pc = "releasing"]
    /\ UNCHANGED <<promiseVars, worldVars, worker, inflight, lease, noticeVars>>

ToldExpires(p) ==
    /\ p \in told
    /\ told' = told \ {p}
    /\ sent' = [sent EXCEPT ![p] = 0]
    /\ UNCHANGED <<promiseVars, worldVars, bridgeVars>>

-----------------------------------------------------------------------------
(***************************************************************************)
(* _release                                                                *)
(***************************************************************************)

\* Fault: the lease is deleted without comparing the token.
Present(j, k) == lease[k] # None

Owns(j, k) == lease[k] # None /\ lease[k].by = j

Deleted(j, k) == IF Owns(j, k) THEN [lease EXCEPT ![k] = None] ELSE lease

\* The EVAL did not get through: the lease, if it is this job's, runs out.
Abandoned(j, k) ==
    IF lease[k] # None /\ lease[k].by = j THEN [lease EXCEPT ![k].by = None] ELSE lease

Release(j, k) ==
    /\ job[j].pc = "releasing"
    /\ k \in job[j].held
    /\ \/ lease' = Deleted(j, k) /\ UNCHANGED worldVars
       \/ lease' = Abandoned(j, k) /\ Trouble
    /\ Forget(job[j].worker, k)
    /\ job' = [job EXCEPT ![j].held = @ \ {k}]
    /\ UNCHANGED <<promiseVars, worker, noticeVars>>

Finish(j) ==
    /\ job[j].pc = "releasing"
    /\ job[j].held = {}
    /\ Return(j) \/ (stage[j] = "idle" /\ UNCHANGED promiseVars)
    /\ job' = [job EXCEPT ![j] = NoJob]
    /\ UNCHANGED <<worldVars, worker, inflight, lease, noticeVars>>

-----------------------------------------------------------------------------
(***************************************************************************)
(* Shutdown, crash, and time                                               *)
(***************************************************************************)

\* aclose cancels every task.
Close(w) ==
    /\ worker[w] = "up"
    /\ Trouble
    /\ worker' = [worker EXCEPT ![w] = "closing"]
    /\ UNCHANGED <<promiseVars, inflight, lease, job, noticeVars>>

\* Before anything else of the process, every task gets the cancellation: it only
\* releases.  A claim that was on its way may have reached Redis.
Cancelled(j) ==
    /\ job[j] # NoJob
    /\ worker[job[j].worker] = "closing"
    /\ job[j].pc # "releasing"
    /\ \E reached \in SUBSET {k \in job[j].trying : lease[k] = None} :
         lease' = [k \in Keys |-> IF k \in reached THEN [by |-> j, left |-> Ttl] ELSE lease[k]]
    /\ job' = [job EXCEPT ![j] = [NoJob EXCEPT !.pc = "releasing", !.worker = job[j].worker,
                                               !.held = Leases(j)]]
    /\ Raise(j) \/ Return(j) \/ (stage[j] = "idle" /\ UNCHANGED promiseVars)
    /\ UNCHANGED <<worldVars, worker, inflight, noticeVars>>

JobsOf(w) == {j \in Calls : job[j].worker = w}

Restart(w) ==
    /\ worker[w] = "closing"
    /\ JobsOf(w) = {}
    /\ worker' = [worker EXCEPT ![w] = "up"]
    /\ UNCHANGED <<promiseVars, worldVars, inflight, lease, job, noticeVars>>

\* A claim that was on its way is one that has or has not got through before.
Crash(w) ==
    /\ Trouble
    /\ worker' = [worker EXCEPT ![w] = "up"]
    /\ inflight' = [inflight EXCEPT ![w] = {}]
    /\ lease' = [k \in Keys |->
                   IF lease[k] # None /\ lease[k].by \in JobsOf(w)
                   THEN [lease[k] EXCEPT !.by = None] ELSE lease[k]]
    /\ job' = [j \in Calls |-> IF j \in JobsOf(w) THEN NoJob ELSE job[j]]
    /\ asked' = [j \in Calls |-> IF j \in JobsOf(w) THEN {} ELSE asked[j]]
    /\ stage' = [j \in Calls |-> IF j \in JobsOf(w) THEN "idle" ELSE stage[j]]
    /\ outcome' = [j \in Calls |-> IF j \in JobsOf(w) THEN NoOutcome ELSE outcome[j]]
    /\ UNCHANGED <<kept, noticeVars>>

\* Fault: a lease is still there when its time is over.
AgedToZero(l) == IF l = None THEN None ELSE [l EXCEPT !.left = @ - 1]

Aged(l) ==
    IF l = None \/ l.left = 1 THEN None ELSE [l EXCEPT !.left = @ - 1]

Timed(j) == job[j].pc \in {"claiming", "asking"}
Limit(j) == IF job[j].pc = "claiming" THEN ClaimTicks ELSE AskTicks

\* Redis answers or is given up, and recommend() ends, within their times.
Tick ==
    /\ \A j \in Calls : Timed(j) => job[j].age < Limit(j)
    /\ lease' = [k \in Keys |-> Aged(lease[k])]
    /\ job' = [j \in Calls |-> IF Timed(j) THEN [job[j] EXCEPT !.age = @ + 1] ELSE job[j]]
    /\ UNCHANGED <<promiseVars, worldVars, worker, inflight, noticeVars>>

\* A failure is cached for seconds, an evaluation for minutes.
CacheExpires(k) ==
    /\ kept[k] # Absent
    /\ Expire(k)
    /\ IF kept[k] = "failed" THEN UNCHANGED <<changes, troubles>> ELSE Change
    /\ UNCHANGED <<profile, near, bridgeVars, noticeVars>>

-----------------------------------------------------------------------------

\* A task of a process that runs on, up to the end of its call and its notices.
JobStep(j) ==
    \/ Claim(j) \/ NothingToDo(j) \/ CallService(j) \/ CallDeclined(j)
    \/ ServiceAnswers(j) \/ ServiceRaises(j)
    \/ CheckViewer(j) \/ NoNotice(j) \/ Look(j) \/ AllTold(j)
    \/ \E k \in Keys :
         \/ Granted(j, k) \/ Refused(j, k) \/ Unanswered(j, k)
         \/ CacheFailure(j, k) \/ Tell(j, k) \/ ToldAlready(j, k) \/ NotTold(j, k) \/ ServiceKeeps(j, k)

Running(j) == job[j] # NoJob /\ worker[job[j].worker] = "up"

UserStep ==
    \/ \E u \in Users : PutProfile(u) \/ SetDiscovery(u)
    \/ \E v \in Viewers, u \in Users : Move(v, u)

Next ==
    \/ UserStep
    \/ \E w \in Workers : Close(w) \/ Restart(w) \/ Crash(w) \/ \E v \in Viewers : Poll(w, v) \/ PollInOutage(w, v)
    \/ \E j \in Calls :
         \/ Running(j) /\ JobStep(j)
         \/ Cancelled(j) \/ Finish(j) \/ \E k \in Keys : Release(j, k)
    \/ \E p \in Pairs : ToldExpires(p)
    \/ \E k \in Keys : CacheExpires(k)
    \/ Tick

Spec == Init /\ [][Next]_vars

-----------------------------------------------------------------------------
(***************************************************************************)
(* Correctness                                                             *)
(***************************************************************************)

JobType ==
    [pc : {"free", "claiming", "asking", "failing", "looking", "telling", "releasing"},
     worker : Workers \cup {None}, wants : SUBSET Keys, trying : SUBSET Keys,
     held : SUBSET Keys, unguarded : SUBSET Keys, failing : SUBSET Keys,
     telling : SUBSET Keys, age : Nat]

\* Each variable holds what the code may put into it.
TypeOK ==
    /\ PromiseTypeOK
    /\ profile \in [Users -> [rev : Nat, on : BOOLEAN]]
    /\ near \in [Viewers -> SUBSET Users]
    /\ changes \in 0..MaxChanges /\ troubles \in 0..MaxTroubles
    /\ worker \in [Workers -> {"up", "closing"}]
    /\ inflight \in [Workers -> SUBSET Keys]
    /\ lease \in [Keys -> Lease \cup {None}]
    /\ job \in [Calls -> JobType]
    /\ told \subseteq Pairs
    /\ sent \in [Pairs -> Nat]

\* _inflight is exactly what the process's own tasks have claimed or are
\* claiming, each key by one of them: no pair is shut out by a task that is gone.
InflightBelongsToJobs ==
    \A w \in Workers :
        /\ inflight[w] = UNION {Leases(j) : j \in JobsOf(w)}
        /\ \A i, j \in JobsOf(w) : i # j => Leases(i) \cap Leases(j) = {}

\* The same pair with the same texts is evaluated twice at a time only by two
\* processes, and only if Redis did not answer a claim of one of them, whatever
\* crashes, shutdowns and slow claims there are.
OnePaidEvaluation ==
    \A i, j \in Calls : \A k \in asked[i] \cap asked[j] :
        i # j /\ stage[i] = "asked" /\ stage[j] = "asked" =>
            /\ job[i].worker # job[j].worker
            /\ k \in job[i].unguarded \cup job[j].unguarded

\* A pair is told at most once in the life of its push:told key, on whichever
\* processes and for however many revisions it is evaluated.
NoticedOnce == \A p \in Pairs : sent[p] <= (IF p \in told THEN 1 ELSE 0)

\* A lease goes when its time is over or when the task that drew its token
\* releases it; a task that has overrun its lease deletes nobody else's.
LeaseOnlyByOwner ==
    [][\A k \in Keys : lease[k] # None /\ lease'[k] # lease[k] =>
          \/ Tick
          \/ \E j \in Calls : lease[k].by = j /\ k \in job[j].held /\ k \notin job'[j].held]_vars

\* "Before publishing or notifying, the server MUST atomically recheck
\* profile/discovery revisions, current discovery participation, observation
\* validity and notification de-duplication." (server/app/ai/service.py:151-153)
NoticeIsCurrent ==
    [][\A j \in Calls, k \in Keys :
          Tell(j, k) => /\ profile[k.viewer] = [rev |-> k.viewer_revision, on |-> TRUE]
                        /\ k.candidate \in near[k.viewer]
                        /\ profile[k.candidate] = [rev |-> k.candidate_revision, on |-> TRUE]]_vars

=============================================================================
