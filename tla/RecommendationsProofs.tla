----------------------- MODULE RecommendationsProofs -----------------------
(***************************************************************************)
(* One paid evaluation of a pair at a time, one notice in the life of its  *)
(* key, and leases that only their owner or time removes, for any number   *)
(* of processes, tasks, pairs, crashes and edits.  The argument: while a   *)
(* task claims or asks, a lease it was granted is still its own, because   *)
(* the time the claims may take is shorter than the slack of the lease.    *)
(***************************************************************************)
EXTENDS Recommendations, TLAPS

\* The keys a poll can ask for are keys: revisions stay within their bound.
WorldRight ==
    /\ \A u \in Users : profile[u].rev \in 1..(changes + 1)
    /\ \A v \in Viewers : near[v] \subseteq Users \ {v}

\* What a task carries at each point of its program.
JobRight(j) ==
    /\ job[j] = NoJob \/ (job[j].pc # "free" /\ job[j].worker \in Workers)
    /\ job[j].pc # "claiming" => job[j].wants = {} /\ job[j].trying = {}
    /\ job[j].wants # {} => job[j].trying = {} /\ job[j].held = {}
    /\ job[j].trying \cap job[j].held = {}
    /\ job[j].unguarded \subseteq job[j].held
    /\ job[j].pc \notin {"claiming", "asking"} => job[j].unguarded = {}
    /\ stage[j] = "asked" => job[j].pc = "asking" /\ asked[j] = job[j].held
    /\ Timed(j) => job[j].age <= Limit(j)

JobsRight == \A j \in Calls : JobRight(j)

\* The time since the first claim of a task that is claiming or asking.
Elapsed(j) == IF job[j].pc = "claiming" THEN job[j].age ELSE ClaimTicks + job[j].age

\* A granted lease lasts while it is needed.
LeaseLasts ==
    \A j \in Calls : Timed(j) =>
        \A k \in job[j].held \ job[j].unguarded :
            lease[k] # None /\ lease[k].by = j /\ lease[k].left >= Ttl - Elapsed(j)

\* A token is known to the task that drew it, or to nobody.
TokensKnown ==
    \A k \in Keys : lease[k] # None /\ lease[k].by \in Calls => k \in job[lease[k].by].held

IInv ==
    /\ TypeOK
    /\ WorldRight
    /\ JobsRight
    /\ InflightBelongsToJobs
    /\ LeaseLasts
    /\ TokensKnown

-----------------------------------------------------------------------------
(***************************************************************************)
(* Types                                                                   *)
(***************************************************************************)

\* A job record stays one when fields are replaced by values of their types.
LEMMA NoJobType == NoJob \in JobType
BY DEF NoJob, JobType

\* The keys a poll finds wanting are keys.
LEMMA WantedAreKeys ==
    ASSUME TypeOK, WorldRight, NEW v \in Viewers PROVE Wanted(v) \subseteq Keys
<1> SUFFICES ASSUME NEW u \in Visible(v) PROVE KeyFor(v, u) \in Keys
  BY DEF Wanted
<1>1. u \in Users /\ u # v /\ v \in Users
  BY RecommendationsAssumption DEF Visible, TypeOK, WorldRight, RecommendationsAssumption
<1>2. profile[u].rev \in Revisions /\ profile[v].rev \in Revisions
  BY <1>1, RecommendationsAssumption
  DEF TypeOK, WorldRight, Revisions, RecommendationsAssumption
<1> QED BY <1>1, <1>2, RecommendationsAssumption DEF KeyFor, RecommendationsAssumption

THEOREM InitRight == Init => IInv
<1> SUFFICES ASSUME Init PROVE IInv
  OBVIOUS
<1>1. TypeOK
  BY NoJobType, RecommendationsAssumption
  DEF Init, PromiseInit, TypeOK, PromiseTypeOK, NoOutcome, Entries, Lease, RecommendationsAssumption
<1>2. WorldRight
  BY RecommendationsAssumption DEF Init, WorldRight, RecommendationsAssumption
<1>3. JobsRight
  BY DEF Init, PromiseInit, JobsRight, JobRight, NoJob, Timed
<1>4. InflightBelongsToJobs
  <2>1. \A w \in Workers : JobsOf(w) = {}
    BY RecommendationsAssumption DEF Init, JobsOf, NoJob, RecommendationsAssumption
  <2> QED BY <2>1 DEF Init, InflightBelongsToJobs
<1>5. LeaseLasts
  BY DEF Init, LeaseLasts, Timed, NoJob
<1>6. TokensKnown
  BY DEF Init, TokensKnown
<1> QED BY <1>1, <1>2, <1>3, <1>4, <1>5, <1>6 DEF IInv

\* The world's part of the state.
WorldType ==
    /\ profile \in [Users -> [rev : Nat, on : BOOLEAN]]
    /\ near \in [Viewers -> SUBSET Users]
    /\ changes \in 0..MaxChanges /\ troubles \in 0..MaxTroubles

\* The bridge's part of the state.
BridgeType ==
    /\ worker \in [Workers -> {"up", "closing"}]
    /\ inflight \in [Workers -> SUBSET Keys]
    /\ lease \in [Keys -> Lease \cup {None}]
    /\ job \in [Calls -> JobType]

NoticeType == told \subseteq Pairs /\ sent \in [Pairs -> Nat]

LEMMA TypeParts == TypeOK <=> PromiseTypeOK /\ WorldType /\ BridgeType /\ NoticeType
BY DEF TypeOK, WorldType, BridgeType, NoticeType

\* What the bridge asks of the service keeps the service's types.
LEMMA PromiseStepType ==
    ASSUME PromiseTypeOK,
           \/ UNCHANGED promiseVars
           \/ \E c \in Calls : \/ Ask(c) \/ Decline(c) \/ Answer(c) \/ Raise(c) \/ Return(c)
                               \/ \E k \in Keys : Keep(c, k) \/ KeepFailure(c, k)
           \/ \E k \in Keys : Expire(k)
    PROVE PromiseTypeOK'
<1>1. CASE UNCHANGED promiseVars
  BY <1>1 DEF promiseVars, PromiseTypeOK
<1>2. ASSUME NEW c \in Calls, Ask(c) PROVE PromiseTypeOK'
  BY <1>2 DEF Ask, Asks, PromiseTypeOK
<1>3. ASSUME NEW c \in Calls, Decline(c) PROVE PromiseTypeOK'
  <2>1. asked' \in [Calls -> SUBSET Keys]
    BY <1>3 DEF Decline, Asks, PromiseTypeOK
  <2> QED BY <1>3, <2>1 DEF Decline, PromiseTypeOK, Outcomes
<1>4. ASSUME NEW c \in Calls, Answer(c) PROVE PromiseTypeOK'
  <2>1. outcome' \in [Calls -> [Keys -> Outcomes \cup {Absent}]]
    BY <1>4 DEF Answer, PromiseTypeOK
  <2> QED BY <1>4, <2>1 DEF Answer, PromiseTypeOK
<1>5. ASSUME NEW c \in Calls, Raise(c) PROVE PromiseTypeOK'
  BY <1>5 DEF Raise, PromiseTypeOK
<1>6. ASSUME NEW c \in Calls, Return(c) PROVE PromiseTypeOK'
  BY <1>6 DEF Return, PromiseTypeOK, NoOutcome
<1>7. ASSUME NEW c \in Calls, NEW k \in Keys, Keep(c, k) \/ KeepFailure(c, k) PROVE PromiseTypeOK'
  BY <1>7 DEF Keep, KeepFailure, PromiseTypeOK, Entries
<1>8. ASSUME NEW k \in Keys, Expire(k) PROVE PromiseTypeOK'
  BY <1>8 DEF Expire, PromiseTypeOK, Entries
<1> QED BY <1>1, <1>2, <1>3, <1>4, <1>5, <1>6, <1>7, <1>8

\* What the users do: nothing of the bridge moves.
WorldStep ==
    /\ UserStep
    /\ UNCHANGED <<promiseVars, bridgeVars, noticeVars>>

LEMMA UserStepIsWorldStep == UserStep => WorldStep
BY DEF UserStep, WorldStep, PutProfile, SetDiscovery, Move

\* Edits count as changes, so revisions stay within their bound.
LEMMA WorldTypeKept ==
    ASSUME TypeOK, WorldRight, Next PROVE WorldType' /\ WorldRight'
<1> USE RecommendationsAssumption DEF RecommendationsAssumption
<1>1. ASSUME NEW u \in Users, PutProfile(u) PROVE WorldType' /\ WorldRight'
  BY <1>1 DEF PutProfile, Change, TypeOK, WorldType, WorldRight
<1>2. ASSUME NEW u \in Users, SetDiscovery(u) PROVE WorldType' /\ WorldRight'
  <2>1. \A d \in Users : profile'[d].rev = profile[d].rev /\ profile'[d] \in [rev : Nat, on : BOOLEAN]
    BY <1>2 DEF SetDiscovery, TypeOK
  <2>2. profile' \in [Users -> [rev : Nat, on : BOOLEAN]]
    BY <1>2, <2>1 DEF SetDiscovery, TypeOK
  <2>3. changes' = changes + 1 /\ changes < MaxChanges /\ UNCHANGED <<near, troubles>>
    BY <1>2 DEF SetDiscovery, Change
  <2> QED BY <2>1, <2>2, <2>3 DEF TypeOK, WorldType, WorldRight
<1>3. ASSUME NEW v \in Viewers, NEW u \in Users, Move(v, u) PROVE WorldType' /\ WorldRight'
  BY <1>3 DEF Move, Change, TypeOK, WorldType, WorldRight
<1>4. ASSUME NEW k \in Keys, CacheExpires(k) PROVE WorldType' /\ WorldRight'
  <2>1. profile' = profile /\ near' = near /\ troubles' = troubles
        /\ (changes' = changes \/ Change)
    BY <1>4 DEF CacheExpires, Change
  <2> QED BY <2>1 DEF Change, TypeOK, WorldType, WorldRight
<1>5. CASE UNCHANGED worldVars
  BY <1>5 DEF worldVars, TypeOK, WorldType, WorldRight
<1>6. CASE Trouble
  BY <1>6 DEF Trouble, TypeOK, WorldType, WorldRight
<1>7. ASSUME NEW j \in Calls, JobStep(j) \/ Cancelled(j) \/ Finish(j) \/ \E k \in Keys : Release(j, k)
      PROVE UNCHANGED worldVars \/ Trouble
  BY <1>7 DEF JobStep, Claim, NothingToDo, CallService, CallDeclined, ServiceAnswers, ServiceRaises,
     CheckViewer, NoNotice, Look, AllTold, Granted, Refused, Unanswered, CacheFailure, Tell,
     ToldAlready, NotTold, ServiceKeeps, Cancelled, Finish, Release
<1>8. ASSUME NEW w \in Workers,
             Close(w) \/ Restart(w) \/ Crash(w) \/ \E v \in Viewers : Poll(w, v) \/ PollInOutage(w, v)
      PROVE UNCHANGED worldVars \/ Trouble
  BY <1>8 DEF Close, Restart, Crash, Poll, PollInOutage
<1>9. Tick \/ (\E p \in Pairs : ToldExpires(p)) => UNCHANGED worldVars
  BY DEF Tick, ToldExpires
<1> QED BY <1>1, <1>2, <1>3, <1>4, <1>5, <1>6, <1>7, <1>8, <1>9 DEF Next, UserStep

\* What the bridge asks of the service is what the service promises, except
\* that a crash ends its calls.
LEMMA PromiseTypeKept ==
    ASSUME TypeOK, Next PROVE PromiseTypeOK'
<1> DEFINE Asked == \/ UNCHANGED promiseVars
                    \/ \E c \in Calls : \/ Ask(c) \/ Decline(c) \/ Answer(c) \/ Raise(c) \/ Return(c)
                                        \/ \E k \in Keys : Keep(c, k) \/ KeepFailure(c, k)
                    \/ \E k \in Keys : Expire(k)
<1>1. UserStep => Asked
  BY UserStepIsWorldStep DEF WorldStep
<1>2. ASSUME NEW j \in Calls, JobStep(j) PROVE Asked
  BY <1>2 DEF JobStep, Claim, NothingToDo, CallService, CallDeclined, ServiceAnswers, ServiceRaises,
     CheckViewer, NoNotice, Look, AllTold, Granted, Refused, Unanswered, CacheFailure, Tell,
     ToldAlready, NotTold, ServiceKeeps, Telling
<1>3. ASSUME NEW j \in Calls, Cancelled(j) \/ Finish(j) \/ \E k \in Keys : Release(j, k) PROVE Asked
  BY <1>3 DEF Cancelled, Finish, Release
<1>4. ASSUME NEW w \in Workers, Close(w) \/ Restart(w) \/ \E v \in Viewers : Poll(w, v) \/ PollInOutage(w, v)
      PROVE Asked
  BY <1>4 DEF Close, Restart, Poll, PollInOutage
<1>5. Tick \/ (\E p \in Pairs : ToldExpires(p)) \/ (\E k \in Keys : CacheExpires(k)) => Asked
  BY DEF Tick, ToldExpires, CacheExpires
<1>6. Asked => PromiseTypeOK'
  BY PromiseStepType, TypeParts
<1>7. ASSUME NEW w \in Workers, Crash(w) PROVE PromiseTypeOK'
  BY <1>7 DEF Crash, TypeOK, PromiseTypeOK, NoOutcome
<1> HIDE DEF Asked
<1> QED BY <1>1, <1>2, <1>3, <1>4, <1>5, <1>6, <1>7 DEF Next

\* Who changes what has been told.
LEMMA NoticeSteps ==
    Next => \/ UNCHANGED noticeVars
            \/ \E j \in Calls, k \in Keys : Tell(j, k) \/ NotTold(j, k)
            \/ \E p \in Pairs : ToldExpires(p)
<1> SUFFICES ASSUME Next
             PROVE \/ UNCHANGED noticeVars
                   \/ \E j \in Calls, k \in Keys : Tell(j, k) \/ NotTold(j, k)
                   \/ \E p \in Pairs : ToldExpires(p)
  OBVIOUS
<1>1. UserStep => UNCHANGED noticeVars
  BY UserStepIsWorldStep DEF WorldStep
<1>2. ASSUME NEW j \in Calls, JobStep(j)
      PROVE UNCHANGED noticeVars \/ \E k \in Keys : Tell(j, k) \/ NotTold(j, k)
  BY <1>2 DEF JobStep, Claim, NothingToDo, CallService, CallDeclined, ServiceAnswers, ServiceRaises,
     CheckViewer, NoNotice, Look, AllTold, Granted, Refused, Unanswered, CacheFailure,
     ToldAlready, ServiceKeeps, bridgeVars, noticeVars
<1>3. ASSUME NEW j \in Calls, Cancelled(j) \/ Finish(j) \/ \E k \in Keys : Release(j, k)
      PROVE UNCHANGED noticeVars
  BY <1>3 DEF Cancelled, Finish, Release
<1>4. ASSUME NEW w \in Workers,
             Close(w) \/ Restart(w) \/ Crash(w) \/ \E v \in Viewers : Poll(w, v) \/ PollInOutage(w, v)
      PROVE UNCHANGED noticeVars
  BY <1>4 DEF Close, Restart, Crash, Poll, PollInOutage
<1>5. Tick \/ (\E k \in Keys : CacheExpires(k)) => UNCHANGED noticeVars
  BY DEF Tick, CacheExpires
<1> QED BY <1>1, <1>2, <1>3, <1>4, <1>5 DEF Next

\* Notices concern pairs.
LEMMA NoticeTypeKept ==
    ASSUME TypeOK, Next PROVE NoticeType'
<1>1. CASE UNCHANGED noticeVars
  BY <1>1 DEF noticeVars, TypeOK, NoticeType
<1>2. ASSUME NEW j \in Calls, NEW k \in Keys, Tell(j, k) \/ NotTold(j, k) PROVE NoticeType'
  <2>1. PairOf(k) \in Pairs
    BY DEF PairOf, Pairs
  <2>2. /\ told' \subseteq told \cup {PairOf(k)}
        /\ sent' = sent \/ sent' = [sent EXCEPT ![PairOf(k)] = @ + 1]
    BY <1>2 DEF Tell, NotTold
  <2> QED BY <2>1, <2>2 DEF TypeOK, NoticeType
<1>3. ASSUME NEW p \in Pairs, ToldExpires(p) PROVE NoticeType'
  BY <1>3 DEF ToldExpires, TypeOK, NoticeType
<1> QED BY <1>1, <1>2, <1>3, NoticeSteps

-----------------------------------------------------------------------------
(***************************************************************************)
(* The bridge                                                              *)
(***************************************************************************)

BridgeRight ==
    /\ BridgeType
    /\ JobsRight
    /\ InflightBelongsToJobs
    /\ LeaseLasts
    /\ TokensKnown

LEMMA InvParts ==
    IInv <=> PromiseTypeOK /\ WorldType /\ WorldRight /\ NoticeType /\ BridgeRight
BY TypeParts DEF IInv, BridgeRight

\* A step that moves no key between tasks or to and from _inflight.
LEMMA KeysUnmoved ==
    ASSUME BridgeType, BridgeType', InflightBelongsToJobs, UNCHANGED inflight,
           \A i \in Calls : /\ Leases(i)' = Leases(i)
                            /\ Leases(i) = {} \/ job'[i].worker = job[i].worker
    PROVE InflightBelongsToJobs'
<1> SUFFICES ASSUME NEW w \in Workers
             PROVE /\ inflight[w] = UNION {Leases(j)' : j \in JobsOf(w)'}
                   /\ \A i, j \in JobsOf(w)' : i # j => Leases(i)' \cap Leases(j)' = {}
  BY DEF InflightBelongsToJobs
<1>1. \A j \in Calls : Leases(j) # {} => (j \in JobsOf(w) <=> j \in JobsOf(w)')
  BY DEF JobsOf
<1>2. JobsOf(w) \subseteq Calls /\ JobsOf(w)' \subseteq Calls
  BY DEF JobsOf
<1>3. UNION {Leases(j)' : j \in JobsOf(w)'} = UNION {Leases(j) : j \in JobsOf(w)}
  <2>1. ASSUME NEW k PROVE (\E j \in JobsOf(w)' : k \in Leases(j)') <=> (\E j \in JobsOf(w) : k \in Leases(j))
    BY <1>1, <1>2
  <2> QED BY <2>1
<1>4. inflight[w] = UNION {Leases(j) : j \in JobsOf(w)}
  BY DEF InflightBelongsToJobs
<1>5. ASSUME NEW i \in JobsOf(w)', NEW j \in JobsOf(w)', i # j PROVE Leases(i)' \cap Leases(j)' = {}
  <2>1. CASE Leases(i) = {} \/ Leases(j) = {}
    BY <2>1, <1>2
  <2>2. CASE Leases(i) # {} /\ Leases(j) # {}
    <3>1. i \in JobsOf(w) /\ j \in JobsOf(w)
      BY <2>2, <1>1, <1>2
    <3> QED BY <3>1, <1>2, <1>5 DEF InflightBelongsToJobs
  <2> QED BY <2>1, <2>2
<1> QED BY <1>3, <1>4, <1>5

\* A step that moves no lease and gives no task more time.
LEMMA LeasesUnmoved ==
    ASSUME BridgeType, JobsRight, LeaseLasts, TokensKnown, UNCHANGED lease, BridgeType',
           \A i \in Calls :
              /\ job'[i].held = job[i].held
              /\ Timed(i)' => \/ job[i].held = {}
                              \/ /\ Timed(i) /\ Elapsed(i)' >= Elapsed(i)
                                 /\ job'[i].unguarded = job[i].unguarded
    PROVE LeaseLasts' /\ TokensKnown'
<1>1. TokensKnown'
  BY DEF TokensKnown
<1>2. ASSUME NEW i \in Calls, Timed(i)', NEW k \in job'[i].held \ job'[i].unguarded
      PROVE lease[k] # None /\ lease[k].by = i /\ lease[k].left >= Ttl - Elapsed(i)'
  <2>1. /\ Timed(i) /\ Elapsed(i)' >= Elapsed(i)
        /\ k \in job[i].held \ job[i].unguarded
    BY <1>2
  <2>2. lease[k] # None /\ lease[k].by = i /\ lease[k].left >= Ttl - Elapsed(i)
    BY <2>1 DEF LeaseLasts
  <2>3. k \in Keys
    BY <2>1 DEF BridgeType, JobType
  <2>4. lease[k].left \in Nat /\ Elapsed(i) \in Nat /\ Elapsed(i)' \in Nat /\ Ttl \in Nat
    BY <2>2, <2>3, RecommendationsAssumption
    DEF BridgeType, Lease, JobType, Elapsed, Ttl, RecommendationsAssumption
  <2> QED BY <2>1, <2>2, <2>4
<1>3. LeaseLasts'
  BY <1>2 DEF LeaseLasts
<1> QED BY <1>1, <1>3

\* One task's record changes into another that is right for its point.
LEMMA OneJob ==
    ASSUME BridgeRight, NEW j \in Calls, NEW x \in JobType,
           job' = [job EXCEPT ![j] = x],
           UNCHANGED <<worker, lease, inflight>>,
           \A i \in Calls \ {j} : stage'[i] = stage[i] /\ asked'[i] = asked[i],
           JobRight(j)',
           x.held = job[j].held,
           x.trying \cup x.held = Leases(j),
           Leases(j) = {} \/ x.worker = job[j].worker,
           x.pc \in {"claiming", "asking"} => \/ job[j].held = {}
                                              \/ /\ Timed(j) /\ Elapsed(j)' >= Elapsed(j)
                                                 /\ x.unguarded = job[j].unguarded
    PROVE BridgeRight'
<1>1. BridgeType'
  BY DEF BridgeRight, BridgeType
<1>2. job'[j] = x /\ \A i \in Calls \ {j} : job'[i] = job[i]
  BY DEF BridgeRight, BridgeType
<1>3. JobsRight'
  <2> SUFFICES ASSUME NEW i \in Calls \ {j} PROVE JobRight(i)'
    BY DEF JobsRight
  <2>1. job'[i] = job[i] /\ stage'[i] = stage[i] /\ asked'[i] = asked[i]
    BY <1>2
  <2> QED BY <2>1 DEF BridgeRight, JobsRight, JobRight, Timed, Limit
<1>4. InflightBelongsToJobs'
  <2>1. \A i \in Calls : Leases(i)' = Leases(i) /\ (Leases(i) = {} \/ job'[i].worker = job[i].worker)
    BY <1>2 DEF Leases
  <2> QED BY <1>1, <2>1, KeysUnmoved DEF BridgeRight
<1>5. LeaseLasts' /\ TokensKnown'
  <2>1. ASSUME NEW i \in Calls \ {j} PROVE
          /\ job'[i].held = job[i].held
          /\ Timed(i)' => /\ Timed(i) /\ Elapsed(i)' >= Elapsed(i)
                          /\ job'[i].unguarded = job[i].unguarded
    <3>1. job'[i] = job[i] /\ Elapsed(i)' = Elapsed(i) /\ (Timed(i)' <=> Timed(i))
      BY <1>2 DEF Elapsed, Timed
    <3>2. Elapsed(i) \in Nat
      BY RecommendationsAssumption DEF Elapsed, BridgeRight, BridgeType, JobType, RecommendationsAssumption
    <3> QED BY <3>1, <3>2
  <2>2. /\ job'[j].held = job[j].held
        /\ Timed(j)' => \/ job[j].held = {}
                        \/ /\ Timed(j) /\ Elapsed(j)' >= Elapsed(j)
                           /\ job'[j].unguarded = job[j].unguarded
    BY <1>2 DEF Timed
  <2> QED BY <1>1, <2>1, <2>2, LeasesUnmoved DEF BridgeRight
<1> QED BY <1>1, <1>3, <1>4, <1>5 DEF BridgeRight

\* The constants' part of the facts about time.
LEMMA Times ==
    /\ AskTicks \in Nat /\ ClaimTicks \in Nat /\ Slack \in Nat /\ ClaimTicks < Slack
    /\ Ttl \in Nat /\ Ttl = AskTicks + Slack
BY RecommendationsAssumption DEF RecommendationsAssumption, Ttl

\* A poll starts a task that holds nothing.
LEMMA ScheduleKeeps ==
    ASSUME IInv, NEW w \in Workers, NEW missing \in SUBSET Keys, Schedule(w, missing),
           UNCHANGED <<promiseVars, worker, inflight, lease>>
    PROVE BridgeRight'
<1>1. PICK j \in Calls :
        /\ job[j] = NoJob
        /\ job' = [job EXCEPT ![j] = [NoJob EXCEPT !.pc = "claiming", !.worker = w, !.wants = missing]]
  BY DEF Schedule
<1> DEFINE x == [NoJob EXCEPT !.pc = "claiming", !.worker = w, !.wants = missing]
<1>2. x \in JobType
  BY DEF NoJob, JobType
<1>3. BridgeRight
  BY InvParts
<1>4. job'[j] = x /\ stage'[j] # "asked"
  BY <1>1, <1>3 DEF BridgeRight, BridgeType, JobsRight, JobRight, NoJob, promiseVars
<1>5. JobRight(j)'
  BY <1>4, Times DEF JobRight, NoJob, Timed, Limit
<1>6. x.held = {} /\ x.trying = {} /\ Leases(j) = {} /\ job[j].held = {}
  BY <1>1 DEF NoJob, Leases
<1>7. \A i \in Calls \ {j} : stage'[i] = stage[i] /\ asked'[i] = asked[i]
  BY DEF promiseVars
<1> HIDE DEF x
<1> QED BY <1>1, <1>2, <1>3, <1>5, <1>6, <1>7, OneJob DEF x

LEMMA PollKeeps ==
    ASSUME IInv, NEW w \in Workers, NEW v \in Viewers, Poll(w, v) \/ PollInOutage(w, v)
    PROVE BridgeRight'
<1>1. Wanted(v) \subseteq Keys
  BY WantedAreKeys DEF IInv
<1>2. CASE Poll(w, v)
  BY <1>1, <1>2, ScheduleKeeps DEF Poll
<1>3. CASE PollInOutage(w, v)
  BY <1>1, <1>3, ScheduleKeeps DEF PollInOutage
<1> QED BY <1>2, <1>3

\* A task that has claimed nothing ends.
LEMMA NothingToDoKeeps ==
    ASSUME BridgeRight, NEW j \in Calls, NothingToDo(j) PROVE BridgeRight'
<1>1. job'[j] = NoJob /\ stage'[j] # "asked" /\ Leases(j) = {} /\ job[j].held = {}
  BY DEF NothingToDo, Claimed, BridgeRight, BridgeType, JobsRight, JobRight, NoJob, promiseVars, Leases
<1>2. JobRight(j)'
  BY <1>1 DEF JobRight, NoJob, Timed
<1> QED BY <1>1, <1>2, NoJobType, OneJob DEF NothingToDo, NoJob, promiseVars

\* The question takes what the task holds along, and the clock starts anew.
LEMMA CallServiceKeeps ==
    ASSUME BridgeRight, PromiseTypeOK, NEW j \in Calls, CallService(j) PROVE BridgeRight'
<1> DEFINE x == [job[j] EXCEPT !.pc = "asking", !.age = 0]
<1>1. /\ job[j] \in JobType /\ JobRight(j)
      /\ job[j].pc = "claiming" /\ job[j].wants = {} /\ job[j].trying = {}
  BY DEF CallService, Claimed, BridgeRight, BridgeType, JobsRight
<1>2. x \in JobType
  BY <1>1 DEF JobType
<1>3. job' = [job EXCEPT ![j] = x]
  BY DEF CallService, BridgeRight, BridgeType
<1>4. job'[j] = x
  BY <1>3 DEF BridgeRight, BridgeType
<1>5. JobRight(j)'
  <2>1. /\ job'[j].pc = "asking" /\ job'[j].worker = job[j].worker /\ job'[j].wants = {}
        /\ job'[j].trying = {} /\ job'[j].held = job[j].held
        /\ job'[j].unguarded = job[j].unguarded /\ job'[j].age = 0
    BY <1>1, <1>4 DEF JobType
  <2>2. asked'[j] = job[j].held /\ job[j].worker \in Workers
    BY <1>1 DEF CallService, JobRight, NoJob
  <2>3. job[j].unguarded \subseteq job[j].held
    BY <1>1 DEF JobRight
  <2> QED BY <2>1, <2>2, <2>3, Times DEF JobRight, NoJob, Timed, Limit
<1>6. \A i \in Calls \ {j} : stage'[i] = stage[i] /\ asked'[i] = asked[i]
  BY DEF CallService, Ask, Asks, PromiseTypeOK
<1>7. x.held = job[j].held /\ x.trying \cup x.held = Leases(j) /\ x.worker = job[j].worker
      /\ x.unguarded = job[j].unguarded
  BY <1>1 DEF Leases, JobType
<1>8. Timed(j) /\ Elapsed(j)' >= Elapsed(j)
  BY <1>1, <1>4, Times DEF JobRight, JobType, Timed, Elapsed, Limit
<1> HIDE DEF x
<1> QED BY <1>2, <1>3, <1>5, <1>6, <1>7, <1>8, OneJob DEF CallService

\* A task beyond its call: its record changes, what it holds does not.
LEMMA LaterKeeps ==
    ASSUME BridgeRight, PromiseTypeOK, NEW j \in Calls, NEW x \in JobType,
           job' = [job EXCEPT ![j] = x],
           UNCHANGED <<worker, lease, inflight>>,
           job[j].wants = {} /\ job[j].trying = {},
           x = [job[j] EXCEPT !.pc = x.pc, !.age = x.age, !.failing = x.failing,
                              !.telling = x.telling, !.unguarded = {}],
           job[j] # NoJob,
           x.pc \in {"failing", "looking", "telling", "releasing"},
           stage'[j] # "asked",
           \A i \in Calls \ {j} : stage'[i] = stage[i] /\ asked'[i] = asked[i]
    PROVE BridgeRight'
<1>1. job[j] \in JobType /\ JobRight(j) /\ job'[j] = x
  BY DEF BridgeRight, BridgeType, JobsRight
<1>2. /\ x.held = job[j].held /\ x.trying = {} /\ x.wants = {} /\ x.worker = job[j].worker
      /\ x.unguarded = {}
  BY <1>1 DEF JobType
<1>3. JobRight(j)'
  BY <1>1, <1>2 DEF JobRight, Timed
<1>4. x.trying \cup x.held = Leases(j)
  BY <1>2 DEF Leases
<1> QED BY <1>2, <1>3, <1>4, OneJob

LEMMA FailsKeeps ==
    ASSUME BridgeRight, PromiseTypeOK, NEW j \in Calls, NEW failed \in SUBSET Keys, Fails(j, failed),
           UNCHANGED <<worker, lease, inflight>>,
           (Claimed(j) /\ job[j].held # {}) \/ Asking(j),
           stage'[j] # "asked",
           \A i \in Calls \ {j} : stage'[i] = stage[i] /\ asked'[i] = asked[i]
    PROVE BridgeRight'
<1> DEFINE x == [job[j] EXCEPT !.pc = "failing", !.age = 0, !.failing = failed, !.unguarded = {}]
<1>1. job[j] \in JobType /\ JobRight(j)
  BY DEF BridgeRight, BridgeType, JobsRight
<1>2. x \in JobType /\ x.pc = "failing"
      /\ x = [job[j] EXCEPT !.pc = x.pc, !.age = x.age, !.failing = x.failing,
                            !.telling = x.telling, !.unguarded = {}]
  BY <1>1 DEF JobType
<1>3. job' = [job EXCEPT ![j] = x]
  BY DEF Fails, BridgeRight, BridgeType
<1>4. job[j].wants = {} /\ job[j].trying = {} /\ job[j] # NoJob
  BY <1>1 DEF JobRight, Claimed, Asking, NoJob
<1> HIDE DEF x
<1> QED BY <1>2, <1>3, <1>4, LaterKeeps

\* The call ends, whichever way.
LEMMA CallEndKeeps ==
    ASSUME BridgeRight, PromiseTypeOK, NEW j \in Calls,
           CallDeclined(j) \/ ServiceAnswers(j) \/ ServiceRaises(j)
    PROVE BridgeRight'
<1>1. job[j].held \in SUBSET Keys
  BY DEF BridgeRight, BridgeType, JobType
<1>2. CASE CallDeclined(j)
  <2>1. stage'[j] # "asked" /\ \A i \in Calls \ {j} : stage'[i] = stage[i] /\ asked'[i] = asked[i]
    BY <1>2 DEF CallDeclined, Decline, Asks, PromiseTypeOK
  <2> QED BY <1>1, <1>2, <2>1, FailsKeeps DEF CallDeclined, Claimed
<1>3. CASE ServiceAnswers(j)
  <2>1. stage'[j] # "asked" /\ \A i \in Calls \ {j} : stage'[i] = stage[i] /\ asked'[i] = asked[i]
    BY <1>3 DEF ServiceAnswers, Answer, PromiseTypeOK
  <2>2. {k \in Keys : outcome'[j][k] = "failed"} \in SUBSET Keys
    OBVIOUS
  <2> QED BY <1>3, <2>1, <2>2, FailsKeeps DEF ServiceAnswers
<1>4. CASE ServiceRaises(j)
  <2>1. stage'[j] # "asked" /\ \A i \in Calls \ {j} : stage'[i] = stage[i] /\ asked'[i] = asked[i]
    BY <1>4 DEF ServiceRaises, Raise, PromiseTypeOK
  <2> QED BY <1>1, <1>4, <2>1, FailsKeeps DEF ServiceRaises
<1> QED BY <1>2, <1>3, <1>4

\* The notices and the cached failures.
LEMMA NoticeStepKeeps ==
    ASSUME BridgeRight, PromiseTypeOK, NEW j \in Calls,
           \/ CheckViewer(j) \/ NoNotice(j) \/ Look(j) \/ AllTold(j)
           \/ \E k \in Keys : CacheFailure(j, k) \/ Telling(j, k)
    PROVE BridgeRight'
<1>1. job[j] \in JobType /\ JobRight(j) /\ asked[j] \subseteq Keys
  BY DEF BridgeRight, BridgeType, JobsRight, PromiseTypeOK
<1> DEFINE At == /\ job[j].pc \in {"failing", "looking", "telling"}
                 /\ UNCHANGED <<worker, lease, inflight>>
                 /\ stage'[j] # "asked"
                 /\ \A i \in Calls \ {j} : stage'[i] = stage[i] /\ asked'[i] = asked[i]
<1>2. ASSUME At PROVE job[j].wants = {} /\ job[j].trying = {} /\ job[j].unguarded = {} /\ job[j] # NoJob
  BY <1>1, <1>2 DEF JobRight, NoJob
<1>3. CASE CheckViewer(j)
  <2> DEFINE x == [job[j] EXCEPT !.pc = "looking"]
  <2>1. At
    BY <1>1, <1>3 DEF CheckViewer, JobRight, promiseVars
  <2>2. x \in JobType /\ x.pc = "looking" /\ job' = [job EXCEPT ![j] = x]
        /\ x = [job[j] EXCEPT !.pc = x.pc, !.age = x.age, !.failing = x.failing,
                              !.telling = x.telling, !.unguarded = {}]
    BY <1>1, <1>2, <1>3, <2>1 DEF CheckViewer, JobType, BridgeRight, BridgeType
  <2> HIDE DEF x
  <2> QED BY <1>2, <2>1, <2>2, LaterKeeps
<1>4. CASE NoNotice(j) \/ AllTold(j)
  <2> DEFINE x == [job[j] EXCEPT !.pc = "releasing"]
  <2>1. At
    BY <1>1, <1>4 DEF NoNotice, AllTold, JobRight, promiseVars, Return, PromiseTypeOK
  <2>2. x \in JobType /\ x.pc = "releasing" /\ job' = [job EXCEPT ![j] = x]
        /\ x = [job[j] EXCEPT !.pc = x.pc, !.age = x.age, !.failing = x.failing,
                              !.telling = x.telling, !.unguarded = {}]
    BY <1>1, <1>2, <1>4, <2>1 DEF NoNotice, AllTold, JobType, BridgeRight, BridgeType
  <2> HIDE DEF x
  <2> QED BY <1>2, <2>1, <2>2, LaterKeeps
<1>5. CASE Look(j)
  <2> DEFINE tell == {k \in asked[j] : /\ outcome[j][k] = "worthy"
                                       /\ k.candidate \in Visible(k.viewer)
                                       /\ profile[k.candidate].rev = k.candidate_revision}
             x == [job[j] EXCEPT !.pc = "telling", !.telling = tell]
  <2>1. At
    BY <1>1, <1>5 DEF Look, JobRight, Return, PromiseTypeOK
  <2>2. tell \in SUBSET Keys
    BY <1>1
  <2>3. job' = [job EXCEPT ![j] = x]
    BY <1>5 DEF Look, BridgeRight, BridgeType
  <2> HIDE DEF tell
  <2>4. x \in JobType /\ x.pc = "telling"
        /\ x = [job[j] EXCEPT !.pc = x.pc, !.age = x.age, !.failing = x.failing,
                              !.telling = x.telling, !.unguarded = {}]
    BY <1>1, <1>2, <2>1, <2>2 DEF JobType
  <2> HIDE DEF x
  <2> QED BY <1>2, <2>1, <2>3, <2>4, LaterKeeps
<1>6. ASSUME NEW k \in Keys, CacheFailure(j, k) PROVE BridgeRight'
  <2> DEFINE x == [job[j] EXCEPT !.failing = @ \ {k}]
  <2>1. At
    BY <1>1, <1>6 DEF CacheFailure, JobRight, promiseVars, KeepFailure, PromiseTypeOK
  <2>2. job' = [job EXCEPT ![j] = x] /\ job[j] \in JobType /\ job[j].pc = "failing"
    BY <1>6 DEF CacheFailure, BridgeRight, BridgeType
  <2>3. job[j].unguarded = {}
    BY <1>2, <2>1
  <2>4. x \in JobType /\ x.pc = "failing"
    BY <2>2 DEF JobType
  <2>5. x = [job[j] EXCEPT !.pc = x.pc, !.age = x.age, !.failing = x.failing,
                           !.telling = x.telling, !.unguarded = {}]
    BY <2>2, <2>3 DEF JobType
  <2> HIDE DEF x
  <2> QED BY <1>2, <2>1, <2>2, <2>4, <2>5, LaterKeeps
<1>7. ASSUME NEW k \in Keys, Telling(j, k) PROVE BridgeRight'
  <2> DEFINE x == [job[j] EXCEPT !.telling = @ \ {k}]
  <2>1. At
    BY <1>1, <1>7 DEF Telling, JobRight, promiseVars
  <2>2. job' = [job EXCEPT ![j] = x] /\ job[j] \in JobType /\ job[j].pc = "telling"
    BY <1>7 DEF Telling, BridgeRight, BridgeType
  <2>3. job[j].unguarded = {}
    BY <1>2, <2>1
  <2>4. x \in JobType /\ x.pc = "telling"
    BY <2>2 DEF JobType
  <2>5. x = [job[j] EXCEPT !.pc = x.pc, !.age = x.age, !.failing = x.failing,
                           !.telling = x.telling, !.unguarded = {}]
    BY <2>2, <2>3 DEF JobType
  <2> HIDE DEF x
  <2> QED BY <1>2, <2>1, <2>2, <2>4, <2>5, LaterKeeps
<1> QED BY <1>3, <1>4, <1>5, <1>6, <1>7

\* The end of a task that has released everything.
LEMMA FinishKeeps ==
    ASSUME BridgeRight, PromiseTypeOK, NEW j \in Calls, Finish(j) PROVE BridgeRight'
<1>1. job[j] \in JobType /\ JobRight(j)
  BY DEF BridgeRight, BridgeType, JobsRight
<1>2. /\ job'[j] = NoJob /\ Leases(j) = {} /\ job[j].held = {}
      /\ job' = [job EXCEPT ![j] = NoJob] /\ UNCHANGED <<worker, lease, inflight>>
  BY <1>1 DEF Finish, JobRight, BridgeRight, BridgeType, Leases
<1>3. stage'[j] # "asked" /\ \A i \in Calls \ {j} : stage'[i] = stage[i] /\ asked'[i] = asked[i]
  BY DEF Finish, Return, promiseVars, PromiseTypeOK
<1>4. JobRight(j)'
  BY <1>2, <1>3 DEF JobRight, NoJob, Timed
<1>5. NoJob.held = {} /\ NoJob.trying = {} /\ NoJob.pc = "free"
  BY DEF NoJob
<1> QED BY <1>2, <1>3, <1>4, <1>5, NoJobType, OneJob

\* Only one task's record changes: the others stay right.
LEMMA OthersRight ==
    ASSUME BridgeType, JobsRight, NEW j \in Calls,
           \A i \in Calls \ {j} : job'[i] = job[i] /\ stage'[i] = stage[i] /\ asked'[i] = asked[i],
           JobRight(j)'
    PROVE JobsRight'
<1> SUFFICES ASSUME NEW i \in Calls \ {j} PROVE JobRight(i)'
  BY DEF JobsRight
<1> QED BY DEF JobsRight, JobRight, Timed, Limit

\* One task's keys change, and _inflight of its process with them.
LEMMA KeysMoved ==
    ASSUME BridgeType, InflightBelongsToJobs, BridgeType', NEW j \in Calls,
           NEW w \in Workers, job[j].worker = w, job'[j].worker = w,
           \A i \in Calls \ {j} : job'[i] = job[i],
           \A v \in Workers \ {w} : inflight'[v] = inflight[v],
           \A k \in Keys : k \in inflight'[w] <=> \/ k \in inflight[w] /\ k \notin Leases(j)
                                                  \/ k \in Leases(j)',
           Leases(j)' \cap inflight[w] \subseteq Leases(j)
    PROVE InflightBelongsToJobs'
<1>1. \A v \in Workers : JobsOf(v)' = JobsOf(v) /\ JobsOf(v) \subseteq Calls
  BY DEF JobsOf
<1>2. j \in JobsOf(w) /\ \A v \in Workers \ {w} : j \notin JobsOf(v)
  BY DEF JobsOf
<1>3. \A i \in Calls \ {j} : Leases(i)' = Leases(i)
  BY DEF Leases
<1>4. \A i \in Calls : Leases(i) \subseteq Keys /\ Leases(i)' \subseteq Keys
  BY DEF Leases, BridgeType, JobType
<1>5. ASSUME NEW v \in Workers \ {w}
      PROVE /\ inflight'[v] = UNION {Leases(i)' : i \in JobsOf(v)'}
            /\ \A i, k \in JobsOf(v)' : i # k => Leases(i)' \cap Leases(k)' = {}
  <2>1. \A i \in JobsOf(v) : Leases(i)' = Leases(i)
    BY <1>1, <1>2, <1>3
  <2>2. {Leases(i)' : i \in JobsOf(v)'} = {Leases(i) : i \in JobsOf(v)}
    BY <1>1, <2>1
  <2> QED BY <1>1, <2>1, <2>2 DEF InflightBelongsToJobs
<1>6. \A i \in JobsOf(w) \ {j} : Leases(i) \cap Leases(j) = {} /\ Leases(i) \subseteq inflight[w]
  BY <1>2 DEF InflightBelongsToJobs
<1>7. ASSUME NEW i \in JobsOf(w)', NEW k \in JobsOf(w)', i # k PROVE Leases(i)' \cap Leases(k)' = {}
  <2>1. CASE i # j /\ k # j
    BY <1>1, <1>3, <1>7, <2>1 DEF InflightBelongsToJobs
  <2>2. CASE i = j \/ k = j
    BY <1>1, <1>3, <1>6, <1>7, <2>2
  <2> QED BY <2>1, <2>2
<1>8. inflight'[w] = UNION {Leases(i)' : i \in JobsOf(w)'}
  <2>1. ASSUME NEW k \in Keys PROVE k \in inflight'[w] <=> \E i \in JobsOf(w)' : k \in Leases(i)'
    <3>1. k \in inflight[w] /\ k \notin Leases(j) <=> \E i \in JobsOf(w) \ {j} : k \in Leases(i)
      BY <1>2, <1>6 DEF InflightBelongsToJobs
    <3>2. (\E i \in JobsOf(w)' : k \in Leases(i)')
             <=> k \in Leases(j)' \/ \E i \in JobsOf(w) \ {j} : k \in Leases(i)
      BY <1>1, <1>2, <1>3
    <3> QED BY <3>1, <3>2
  <2>2. inflight'[w] \subseteq Keys
    BY DEF BridgeType
  <2>3. \A i \in JobsOf(w)' : Leases(i)' \subseteq Keys
    BY <1>1, <1>4
  <2> QED BY <2>1, <2>2, <2>3
<1> QED BY <1>5, <1>7, <1>8 DEF InflightBelongsToJobs

\* What the process is busy with already is not claimed again.
LEMMA ClaimKeeps ==
    ASSUME BridgeRight, NEW j \in Calls, Claim(j) PROVE BridgeRight'
<1> DEFINE w == job[j].worker
           fresh == job[j].wants \ inflight[w]
<1>1. job[j] \in JobType /\ JobRight(j) /\ w \in Workers
  BY DEF BridgeRight, BridgeType, JobsRight, JobRight, Claim, NoJob
<1>2. /\ job[j].pc = "claiming" /\ job[j].wants # {} /\ job[j].trying = {} /\ job[j].held = {}
      /\ job[j].unguarded = {} /\ fresh \subseteq Keys
  BY <1>1 DEF Claim, JobRight, JobType
<1>3. /\ job'[j].wants = {} /\ job'[j].trying = fresh
      /\ job'[j] = [job[j] EXCEPT !.wants = {}, !.trying = fresh]
      /\ \A i \in Calls \ {j} : job'[i] = job[i]
      /\ UNCHANGED <<stage, asked, lease, worker>>
      /\ inflight' = [inflight EXCEPT ![w] = @ \cup fresh]
  BY <1>1 DEF Claim, BridgeRight, BridgeType, JobType, promiseVars
<1>4. BridgeType'
  <2>1. [job[j] EXCEPT !.wants = {}, !.trying = fresh] \in JobType
    BY <1>1, <1>2 DEF JobType
  <2>2. job' = [job EXCEPT ![j] = [job[j] EXCEPT !.wants = {}, !.trying = fresh]]
    BY DEF Claim, BridgeRight, BridgeType
  <2> QED BY <1>1, <1>2, <1>3, <2>1, <2>2 DEF BridgeRight, BridgeType
<1>5. JobRight(j)'
  BY <1>1, <1>2, <1>3 DEF JobRight, JobType, NoJob, Timed, Limit
<1>6. Leases(j) = {} /\ Leases(j)' = fresh /\ job'[j].worker = w
  BY <1>1, <1>2, <1>3 DEF Leases, JobType
<1>7. InflightBelongsToJobs'
  <2>1. /\ \A v \in Workers \ {w} : inflight'[v] = inflight[v]
        /\ inflight'[w] = inflight[w] \cup fresh
    BY <1>1, <1>3 DEF BridgeRight, BridgeType
  <2> QED BY <1>1, <1>3, <1>4, <1>6, <2>1, KeysMoved DEF BridgeRight
<1>8. LeaseLasts' /\ TokensKnown'
  <2>1. ASSUME NEW i \in Calls \ {j} PROVE
          /\ job'[i].held = job[i].held
          /\ Timed(i)' => /\ Timed(i) /\ Elapsed(i)' >= Elapsed(i)
                          /\ job'[i].unguarded = job[i].unguarded
    <3>1. job'[i] = job[i] /\ Elapsed(i)' = Elapsed(i) /\ (Timed(i)' <=> Timed(i))
      BY <1>3 DEF Elapsed, Timed
    <3>2. Elapsed(i) \in Nat
      BY Times DEF Elapsed, BridgeRight, BridgeType, JobType
    <3> QED BY <3>1, <3>2
  <2>2. job'[j].held = {}
    BY <1>1, <1>2, <1>3 DEF JobType
  <2>4. UNCHANGED lease
    BY <1>3
  <2> QED BY <1>2, <1>4, <2>1, <2>2, <2>4, LeasesUnmoved DEF BridgeRight
<1> QED BY <1>3, <1>4, <1>5, <1>7, <1>8, OthersRight DEF BridgeRight

\* A task changes the lease of one key, which nobody else holds.
LEMMA OneLease ==
    ASSUME BridgeRight, NEW j \in Calls, NEW k \in Keys,
           \A i \in Calls \ {j} : job'[i] = job[i],
           \A q \in Keys \ {k} : lease'[q] = lease[q],
           \/ lease'[k] = lease[k]
           \/ /\ lease[k] = None \/ lease[k].by \in {j, None}
              /\ lease'[k] = None \/ lease'[k].by \in {j, None},
           \A q \in Keys : lease'[q] # None /\ lease'[q].by = j => q \in job'[j].held,
           Timed(j)' => \A q \in job'[j].held \ job'[j].unguarded :
               lease'[q] # None /\ lease'[q].by = j /\ lease'[q].left >= Ttl - Elapsed(j)'
    PROVE LeaseLasts' /\ TokensKnown'
<1>1. None \notin Calls
  BY RecommendationsAssumption DEF RecommendationsAssumption
<1>2. ASSUME NEW i \in Calls \ {j}, Timed(i)', NEW q \in job'[i].held \ job'[i].unguarded
      PROVE lease'[q] # None /\ lease'[q].by = i /\ lease'[q].left >= Ttl - Elapsed(i)'
  <2>1. job'[i] = job[i] /\ Timed(i) /\ Elapsed(i)' = Elapsed(i) /\ q \in job[i].held \ job[i].unguarded
    BY <1>2 DEF Timed, Elapsed
  <2>2. lease[q] # None /\ lease[q].by = i /\ lease[q].left >= Ttl - Elapsed(i) /\ q \in Keys
    BY <2>1 DEF BridgeRight, LeaseLasts, BridgeType, JobType
  <2>3. lease'[q] = lease[q]
    BY <1>1, <2>2
  <2> QED BY <2>1, <2>2, <2>3
<1>3. LeaseLasts'
  BY <1>2 DEF LeaseLasts
<1>4. ASSUME NEW q \in Keys, lease'[q] # None, lease'[q].by \in Calls
      PROVE q \in job'[lease'[q].by].held
  <2>1. CASE lease'[q].by = j
    BY <1>4, <2>1
  <2>2. CASE lease'[q].by # j
    <3>1. lease'[q] = lease[q]
      BY <1>1, <1>4, <2>2
    <3> QED BY <1>4, <2>2, <3>1 DEF BridgeRight, TokensKnown
  <2> QED BY <2>1, <2>2
<1>5. TokensKnown'
  BY <1>4 DEF TokensKnown
<1> QED BY <1>3, <1>5

\* A claim is granted, or Redis does not answer it.
LEMMA ClaimedKeeps ==
    ASSUME BridgeRight, NEW j \in Calls, NEW k \in Keys, Granted(j, k) \/ Unanswered(j, k)
    PROVE BridgeRight'
<1>1. job[j] \in JobType /\ JobRight(j)
  BY DEF BridgeRight, BridgeType, JobsRight
<1> DEFINE y == job'[j]
<1>2. /\ job[j].pc = "claiming" /\ k \in job[j].trying /\ k \notin job[j].held
      /\ job[j].wants = {} /\ job[j].worker \in Workers /\ job[j].age <= ClaimTicks
  BY <1>1 DEF Granted, Unanswered, Trying, JobRight, NoJob, Timed, Limit
<1>3. /\ y.pc = "claiming" /\ y.wants = {} /\ y.worker = job[j].worker /\ y.age = job[j].age
      /\ y.trying = job[j].trying \ {k} /\ y.held = job[j].held \cup {k}
      /\ y.unguarded \in {job[j].unguarded, job[j].unguarded \cup {k}}
      /\ y \in JobType
      /\ \A i \in Calls \ {j} : job'[i] = job[i]
      /\ job' \in [Calls -> JobType]
  <2>1. PICK u \in {job[j].unguarded, job[j].unguarded \cup {k}} :
          job' = [job EXCEPT ![j] = [job[j] EXCEPT !.trying = @ \ {k}, !.held = @ \cup {k},
                                                   !.unguarded = u]]
    <3>1. CASE Granted(j, k)
      <4>1. job' = [job EXCEPT ![j] = [job[j] EXCEPT !.trying = @ \ {k}, !.held = @ \cup {k}]]
        BY <3>1 DEF Granted, BridgeRight, BridgeType
      <4>2. [job[j] EXCEPT !.trying = @ \ {k}, !.held = @ \cup {k}]
              = [job[j] EXCEPT !.trying = @ \ {k}, !.held = @ \cup {k}, !.unguarded = job[j].unguarded]
        BY <1>1 DEF JobType
      <4> QED BY <4>1, <4>2
    <3>2. CASE Unanswered(j, k)
      <4>1. job' = [job EXCEPT ![j] = [job[j] EXCEPT !.trying = @ \ {k}, !.held = @ \cup {k},
                                                     !.unguarded = job[j].unguarded \cup {k}]]
        BY <3>2 DEF Unanswered, BridgeRight, BridgeType
      <4> QED BY <4>1
    <3> QED BY <3>1, <3>2
  <2> DEFINE x == [job[j] EXCEPT !.trying = @ \ {k}, !.held = @ \cup {k}, !.unguarded = u]
  <2>2. /\ x.pc = job[j].pc /\ x.wants = job[j].wants /\ x.worker = job[j].worker
        /\ x.age = job[j].age /\ x.trying = job[j].trying \ {k} /\ x.held = job[j].held \cup {k}
        /\ x.unguarded = u /\ x \in JobType
    BY <1>1 DEF JobType
  <2> HIDE DEF x
  <2>3. y = x /\ \A i \in Calls \ {j} : job'[i] = job[i]
    BY <2>1 DEF x, BridgeRight, BridgeType
  <2>4. job' \in [Calls -> JobType]
    BY <2>1, <2>2 DEF x, BridgeRight, BridgeType
  <2> QED BY <1>2, <2>2, <2>3, <2>4
<1>4. /\ UNCHANGED <<stage, asked, worker, inflight>>
      /\ \/ UNCHANGED lease /\ y.unguarded = job[j].unguarded \cup {k}
         \/ lease[k] = None /\ Grant(j, k)
  BY <1>1 DEF Granted, Unanswered, promiseVars, BridgeRight, BridgeType, JobType
<1> HIDE DEF y
<1>5. /\ lease' \in [Keys -> Lease \cup {None}]
      /\ \A q \in Keys \ {k} : lease'[q] = lease[q]
      /\ \/ UNCHANGED lease /\ y.unguarded = job[j].unguarded \cup {k}
         \/ lease[k] = None /\ lease'[k] = [by |-> j, left |-> Ttl]
  <2>1. [by |-> j, left |-> Ttl] \in Lease
    BY Times, RecommendationsAssumption DEF Lease, RecommendationsAssumption
  <2> QED BY <1>4, <2>1 DEF Grant, BridgeRight, BridgeType
<1>6. BridgeType'
  BY <1>3, <1>4, <1>5 DEF BridgeRight, BridgeType
<1>7. JobRight(j)'
  BY <1>1, <1>2, <1>3, <1>4 DEF JobRight, y, NoJob, Timed, Limit
<1>8. InflightBelongsToJobs'
  <2>1. Leases(j)' = Leases(j)
    BY <1>2, <1>3 DEF Leases, y
  <2>2. \A i \in Calls \ {j} : Leases(i)' = Leases(i)
    BY <1>3 DEF Leases
  <2>3. \A i \in Calls : job'[i].worker = job[i].worker
    BY <1>3 DEF y
  <2> QED BY <1>4, <1>6, <2>1, <2>2, <2>3, KeysUnmoved DEF BridgeRight
<1>9. LeaseLasts' /\ TokensKnown'
  <2>1. Elapsed(j)' = Elapsed(j) /\ Elapsed(j) \in Nat /\ Timed(j)
    BY <1>1, <1>2, <1>3 DEF Elapsed, Timed, y, JobType
  <2>2. ASSUME NEW q \in y.held \ y.unguarded
        PROVE lease'[q] # None /\ lease'[q].by = j /\ lease'[q].left >= Ttl - Elapsed(j)'
    <3>1. CASE q = k
      <4>1. lease'[k] = [by |-> j, left |-> Ttl]
        BY <1>3, <1>5, <2>2, <3>1
      <4>2. [by |-> j, left |-> Ttl] # None
        BY Times, RecommendationsAssumption DEF Lease, RecommendationsAssumption
      <4> QED BY <2>1, <3>1, <4>1, <4>2, Times
    <3>2. CASE q # k
      <4>1. q \in job[j].held \ job[j].unguarded /\ q \in Keys
        BY <1>1, <1>3, <2>2, <3>2 DEF JobType
      <4>2. lease[q] # None /\ lease[q].by = j /\ lease[q].left >= Ttl - Elapsed(j)
        BY <2>1, <4>1 DEF BridgeRight, LeaseLasts
      <4> QED BY <1>5, <2>1, <3>2, <4>1, <4>2
    <3> QED BY <3>1, <3>2
  <2>3. ASSUME NEW q \in Keys, lease'[q] # None, lease'[q].by = j PROVE q \in y.held
    BY <1>3, <1>5, <2>3 DEF BridgeRight, TokensKnown
  <2>4. \/ lease'[k] = lease[k]
        \/ /\ lease[k] = None \/ lease[k].by \in {j, None}
           /\ lease'[k] = None \/ lease'[k].by \in {j, None}
    BY <1>5
  <2> QED BY <1>3, <1>5, <2>2, <2>3, <2>4, OneLease DEF y
<1>10. JobsRight'
  BY <1>3, <1>4, <1>7, OthersRight DEF BridgeRight
<1> QED BY <1>6, <1>8, <1>9, <1>10 DEF BridgeRight

\* A key that is refused or released leaves the task and _inflight together.
LEMMA ForgetKeeps ==
    ASSUME BridgeRight, BridgeType', NEW j \in Calls, NEW k \in Leases(j),
           job[j].worker \in Workers, job'[j].worker = job[j].worker,
           \A i \in Calls \ {j} : job'[i] = job[i],
           Forget(job[j].worker, k), Leases(j)' = Leases(j) \ {k}
    PROVE InflightBelongsToJobs'
<1> DEFINE w == job[j].worker
<1>1. /\ inflight'[w] = inflight[w] \ {k}
      /\ \A v \in Workers \ {w} : inflight'[v] = inflight[v]
  BY DEF Forget, BridgeRight, BridgeType
<1>2. Leases(j) \subseteq inflight[w]
  BY DEF BridgeRight, InflightBelongsToJobs, JobsOf
<1> QED BY <1>1, <1>2, KeysMoved DEF BridgeRight

LEMMA RefusedKeeps ==
    ASSUME BridgeRight, NEW j \in Calls, NEW k \in Keys, Refused(j, k) PROVE BridgeRight'
<1> DEFINE x == [job[j] EXCEPT !.trying = @ \ {k}]
<1>1. job[j] \in JobType /\ JobRight(j)
  BY DEF BridgeRight, BridgeType, JobsRight
<1>2. /\ job[j].pc = "claiming" /\ k \in job[j].trying /\ k \notin job[j].held
      /\ job[j].wants = {} /\ job[j].worker \in Workers
  BY <1>1 DEF Refused, Trying, JobRight, NoJob
<1>3. /\ x \in JobType /\ x.pc = "claiming" /\ x.wants = {} /\ x.worker = job[j].worker
      /\ x.age = job[j].age /\ x.trying = job[j].trying \ {k} /\ x.held = job[j].held
      /\ x.unguarded = job[j].unguarded
  BY <1>1, <1>2 DEF JobType
<1>4. job' = [job EXCEPT ![j] = x]
  BY DEF Refused, BridgeRight, BridgeType
<1> HIDE DEF x
<1>5. job'[j] = x /\ \A i \in Calls \ {j} : job'[i] = job[i]
  BY <1>4 DEF BridgeRight, BridgeType
<1>6. UNCHANGED <<stage, asked, worker, lease>> /\ Forget(job[j].worker, k)
  BY DEF Refused, promiseVars
<1>7. BridgeType'
  BY <1>2, <1>3, <1>4, <1>6 DEF Forget, BridgeRight, BridgeType
<1>8. JobRight(j)'
  BY <1>1, <1>2, <1>3, <1>5, <1>6 DEF JobRight, NoJob, Timed, Limit
<1>9. JobsRight'
  BY <1>5, <1>6, <1>8, OthersRight DEF BridgeRight
<1>10. InflightBelongsToJobs'
  <2>1. k \in Leases(j) /\ Leases(j)' = Leases(j) \ {k} /\ job'[j].worker = job[j].worker
    BY <1>2, <1>3, <1>5 DEF Leases
  <2> QED BY <1>2, <1>5, <1>6, <1>7, <2>1, ForgetKeeps
<1>11. LeaseLasts' /\ TokensKnown'
  <2>1. ASSUME NEW i \in Calls PROVE
          /\ job'[i].held = job[i].held
          /\ Timed(i)' => /\ Timed(i) /\ Elapsed(i)' >= Elapsed(i)
                          /\ job'[i].unguarded = job[i].unguarded
    <3>1. job'[i].held = job[i].held /\ job'[i].unguarded = job[i].unguarded
          /\ Elapsed(i)' = Elapsed(i) /\ (Timed(i)' <=> Timed(i))
      BY <1>2, <1>3, <1>5 DEF Elapsed, Timed
    <3>2. Elapsed(i) \in Nat
      BY Times DEF Elapsed, BridgeRight, BridgeType, JobType
    <3> QED BY <3>1, <3>2
  <2> QED BY <1>6, <1>7, <2>1, LeasesUnmoved DEF BridgeRight
<1> QED BY <1>7, <1>9, <1>10, <1>11 DEF BridgeRight

\* A release removes the task's own lease or none; if the command does not get
\* through the token is nobody's from then on.
LEMMA ReleaseKeeps ==
    ASSUME BridgeRight, NEW j \in Calls, NEW k \in Keys, Release(j, k) PROVE BridgeRight'
<1> DEFINE x == [job[j] EXCEPT !.held = @ \ {k}]
<1>1. job[j] \in JobType /\ JobRight(j)
  BY DEF BridgeRight, BridgeType, JobsRight
<1>2. /\ job[j].pc = "releasing" /\ k \in job[j].held /\ job[j].trying = {} /\ job[j].unguarded = {}
      /\ job[j].wants = {} /\ job[j].worker \in Workers /\ stage[j] # "asked"
  BY <1>1 DEF Release, JobRight, NoJob
<1>3. /\ x \in JobType /\ x.pc = "releasing" /\ x.wants = {} /\ x.worker = job[j].worker
      /\ x.trying = {} /\ x.held = job[j].held \ {k} /\ x.unguarded = {}
  BY <1>1, <1>2 DEF JobType
<1>4. job' = [job EXCEPT ![j] = x]
  BY DEF Release, BridgeRight, BridgeType
<1> HIDE DEF x
<1>5. job'[j] = x /\ \A i \in Calls \ {j} : job'[i] = job[i]
  BY <1>4 DEF BridgeRight, BridgeType
<1>6. UNCHANGED <<stage, asked, worker>> /\ Forget(job[j].worker, k)
  BY DEF Release, promiseVars
<1>7. /\ lease' \in [Keys -> Lease \cup {None}]
      /\ \A q \in Keys \ {k} : lease'[q] = lease[q]
      /\ \/ lease'[k] = lease[k] /\ (lease[k] # None => lease[k].by # j)
         \/ lease[k] # None /\ lease[k].by = j /\ (lease'[k] = None \/ lease'[k].by = None)
  <2>1. lease \in [Keys -> Lease \cup {None}]
    BY DEF BridgeRight, BridgeType
  <2>2. CASE lease[k] # None /\ lease[k].by = j
    <3>1. CASE lease' = Deleted(j, k)
      BY <2>1, <2>2, <3>1 DEF Deleted, Owns
    <3>2. CASE lease' = Abandoned(j, k)
      <4>1. lease[k] \in Lease
        BY <2>1, <2>2
      <4>2. [lease[k] EXCEPT !.by = None] \in Lease /\ [lease[k] EXCEPT !.by = None].by = None
        BY <4>1 DEF Lease
      <4>3. lease' = [lease EXCEPT ![k] = [lease[k] EXCEPT !.by = None]]
        BY <2>1, <2>2, <3>2 DEF Abandoned
      <4> QED BY <2>1, <2>2, <4>2, <4>3
    <3> QED BY <3>1, <3>2 DEF Release
  <2>3. CASE ~(lease[k] # None /\ lease[k].by = j)
    <3>1. lease' = lease
      BY <2>3 DEF Release, Deleted, Owns, Abandoned
    <3> QED BY <2>1, <2>3, <3>1
  <2> QED BY <2>2, <2>3
<1>8. BridgeType'
  BY <1>2, <1>3, <1>4, <1>6, <1>7 DEF Forget, BridgeRight, BridgeType
<1>9. JobRight(j)'
  BY <1>2, <1>3, <1>5, <1>6 DEF JobRight, NoJob, Timed
<1>10. JobsRight'
  BY <1>5, <1>6, <1>9, OthersRight DEF BridgeRight
<1>11. InflightBelongsToJobs'
  <2>1. k \in Leases(j) /\ Leases(j)' = Leases(j) \ {k} /\ job'[j].worker = job[j].worker
    BY <1>2, <1>3, <1>5 DEF Leases
  <2> QED BY <1>2, <1>5, <1>6, <1>8, <2>1, ForgetKeeps
<1>12. LeaseLasts' /\ TokensKnown'
  <2>1. None \notin Calls
    BY RecommendationsAssumption DEF RecommendationsAssumption
  <2>2. ASSUME NEW q \in Keys, lease'[q] # None, lease'[q].by = j PROVE q \in job'[j].held
    <3>1. q # k /\ lease'[q] = lease[q]
      BY <1>7, <2>1, <2>2
    <3> QED BY <1>3, <1>5, <2>2, <3>1 DEF BridgeRight, TokensKnown
  <2>3. ~Timed(j)'
    BY <1>3, <1>5 DEF Timed
  <2>4. \/ lease'[k] = lease[k]
        \/ /\ lease[k] = None \/ lease[k].by \in {j, None}
           /\ lease'[k] = None \/ lease'[k].by \in {j, None}
    BY <1>7
  <2> QED BY <1>5, <1>7, <2>2, <2>3, <2>4, OneLease
<1> QED BY <1>8, <1>10, <1>11, <1>12 DEF BridgeRight

\* The cancellation turns every claim on its way into one to be released.
LEMMA CancelledKeeps ==
    ASSUME BridgeRight, PromiseTypeOK, NEW j \in Calls, Cancelled(j) PROVE BridgeRight'
<1> DEFINE x == [NoJob EXCEPT !.pc = "releasing", !.worker = job[j].worker, !.held = Leases(j)]
<1>1. job[j] \in JobType /\ JobRight(j) /\ job[j].worker \in Workers
  BY DEF Cancelled, BridgeRight, BridgeType, JobsRight, JobRight, NoJob
<1>2. /\ x \in JobType /\ x.pc = "releasing" /\ x.wants = {} /\ x.worker = job[j].worker
      /\ x.trying = {} /\ x.held = Leases(j) /\ x.unguarded = {}
  BY <1>1 DEF JobType, NoJob, Leases
<1>3. job' = [job EXCEPT ![j] = x]
  BY DEF Cancelled
<1> HIDE DEF x
<1>4. job'[j] = x /\ \A i \in Calls \ {j} : job'[i] = job[i]
  BY <1>3 DEF BridgeRight, BridgeType
<1>5. PICK reached \in SUBSET {k \in job[j].trying : lease[k] = None} :
        lease' = [k \in Keys |-> IF k \in reached THEN [by |-> j, left |-> Ttl] ELSE lease[k]]
  BY DEF Cancelled
<1>6. stage'[j] # "asked" /\ \A i \in Calls \ {j} : stage'[i] = stage[i] /\ asked'[i] = asked[i]
  BY DEF Cancelled, Raise, Return, promiseVars, PromiseTypeOK
<1>7. UNCHANGED <<worker, inflight>>
  BY DEF Cancelled
<1>8. BridgeType'
  <2>1. [by |-> j, left |-> Ttl] \in Lease
    BY Times, RecommendationsAssumption DEF Lease, RecommendationsAssumption
  <2> QED BY <1>2, <1>3, <1>5, <1>7, <2>1 DEF BridgeRight, BridgeType
<1>9. JobsRight'
  <2>1. JobRight(j)'
    BY <1>1, <1>2, <1>4, <1>6 DEF JobRight, NoJob, Timed
  <2> QED BY <1>4, <1>6, <2>1, OthersRight DEF BridgeRight
<1>10. InflightBelongsToJobs'
  <2>1. \A i \in Calls : Leases(i)' = Leases(i) /\ job'[i].worker = job[i].worker
    BY <1>2, <1>4 DEF Leases
  <2> QED BY <1>7, <1>8, <2>1, KeysUnmoved DEF BridgeRight
<1>11. LeaseLasts'
  <2> SUFFICES ASSUME NEW i \in Calls, Timed(i)', NEW q \in job'[i].held \ job'[i].unguarded
               PROVE lease'[q] # None /\ lease'[q].by = i /\ lease'[q].left >= Ttl - Elapsed(i)'
    BY DEF LeaseLasts
  <2>1. i # j /\ job'[i] = job[i]
    BY <1>2, <1>4 DEF Timed
  <2>2. Timed(i) /\ Elapsed(i)' = Elapsed(i) /\ q \in job[i].held \ job[i].unguarded
    BY <2>1 DEF Timed, Elapsed
  <2>3. lease[q] # None /\ lease[q].by = i /\ lease[q].left >= Ttl - Elapsed(i) /\ q \in Keys
    BY <2>2 DEF BridgeRight, LeaseLasts, BridgeType, JobType
  <2>4. lease'[q] = lease[q]
    BY <1>5, <2>3
  <2> QED BY <2>2, <2>3, <2>4
<1>12. TokensKnown'
  <2> SUFFICES ASSUME NEW q \in Keys, lease'[q] # None, lease'[q].by \in Calls
               PROVE q \in job'[lease'[q].by].held
    BY DEF TokensKnown
  <2>1. CASE q \in reached
    BY <1>2, <1>4, <1>5, <2>1 DEF Leases
  <2>2. CASE q \notin reached
    <3>1. lease'[q] = lease[q] /\ q \in job[lease[q].by].held
      BY <1>5, <2>2 DEF BridgeRight, TokensKnown
    <3>2. job[lease[q].by].held \subseteq job'[lease[q].by].held
      BY <1>2, <1>4, <3>1 DEF Leases
    <3> QED BY <3>1, <3>2
  <2> QED BY <2>1, <2>2
<1> QED BY <1>8, <1>9, <1>10, <1>11, <1>12 DEF BridgeRight

\* With the process go its tasks, its _inflight and what it knew of tokens.
LEMMA CrashKeeps ==
    ASSUME BridgeRight, PromiseTypeOK, NEW w \in Workers, Crash(w) PROVE BridgeRight'
<1>1. None \notin Calls /\ None \notin Workers
  BY RecommendationsAssumption DEF RecommendationsAssumption
<1>2. \A i \in Calls : /\ i \in JobsOf(w) => job'[i] = NoJob /\ stage'[i] = "idle"
                       /\ i \notin JobsOf(w) => /\ job'[i] = job[i] /\ stage'[i] = stage[i]
                                                /\ asked'[i] = asked[i]
  BY DEF Crash
<1>3. \A q \in Keys : lease[q] \in Lease \cup {None}
  BY DEF BridgeRight, BridgeType
<1>4. \A q \in Keys : lease'[q] = IF lease[q] # None /\ lease[q].by \in JobsOf(w)
                                  THEN [lease[q] EXCEPT !.by = None] ELSE lease[q]
  BY DEF Crash
<1>5. BridgeType'
  <2>1. job' \in [Calls -> JobType]
    BY NoJobType DEF Crash, BridgeRight, BridgeType
  <2>2. lease' \in [Keys -> Lease \cup {None}]
    <3>1. ASSUME NEW q \in Keys, lease[q] # None PROVE [lease[q] EXCEPT !.by = None] \in Lease
      BY <1>3, <3>1 DEF Lease
    <3> QED BY <1>3, <3>1 DEF Crash
  <2>3. worker' \in [Workers -> {"up", "closing"}] /\ inflight' \in [Workers -> SUBSET Keys]
    BY DEF Crash, BridgeRight, BridgeType
  <2> QED BY <2>1, <2>2, <2>3 DEF BridgeType
<1>6. JobsRight'
  <2> SUFFICES ASSUME NEW i \in Calls PROVE JobRight(i)'
    BY DEF JobsRight
  <2>1. CASE i \in JobsOf(w)
    <3>1. job'[i] = NoJob /\ stage'[i] # "asked"
      BY <1>2, <2>1
    <3> QED BY <3>1 DEF JobRight, NoJob, Timed
  <2>2. CASE i \notin JobsOf(w)
    BY <1>2, <2>2 DEF BridgeRight, JobsRight, JobRight, Timed, Limit
  <2> QED BY <2>1, <2>2
<1>7. InflightBelongsToJobs'
  <2> SUFFICES ASSUME NEW v \in Workers
               PROVE /\ inflight'[v] = UNION {Leases(i)' : i \in JobsOf(v)'}
                     /\ \A i, k \in JobsOf(v)' : i # k => Leases(i)' \cap Leases(k)' = {}
    BY DEF InflightBelongsToJobs
  <2>1. CASE v = w
    <3>1. JobsOf(w)' = {}
      BY <1>1, <1>2 DEF JobsOf, NoJob
    <3>2. inflight'[w] = {}
      BY DEF Crash, BridgeRight, BridgeType
    <3> QED BY <2>1, <3>1, <3>2
  <2>2. CASE v # w
    <3>1. JobsOf(v)' = JobsOf(v) /\ JobsOf(v) \cap JobsOf(w) = {} /\ JobsOf(v) \subseteq Calls
      BY <1>1, <1>2, <2>2 DEF JobsOf, NoJob
    <3>2. \A i \in JobsOf(v) : Leases(i)' = Leases(i)
      BY <1>2, <3>1 DEF Leases
    <3>3. inflight'[v] = inflight[v]
      BY <2>2 DEF Crash, BridgeRight, BridgeType
    <3>4. {Leases(i)' : i \in JobsOf(v)'} = {Leases(i) : i \in JobsOf(v)}
      BY <3>1, <3>2
    <3> QED BY <3>1, <3>2, <3>3, <3>4 DEF BridgeRight, InflightBelongsToJobs
  <2> QED BY <2>1, <2>2
<1>8. LeaseLasts'
  <2> SUFFICES ASSUME NEW i \in Calls, Timed(i)', NEW q \in job'[i].held \ job'[i].unguarded
               PROVE lease'[q] # None /\ lease'[q].by = i /\ lease'[q].left >= Ttl - Elapsed(i)'
    BY DEF LeaseLasts
  <2>1. i \notin JobsOf(w) /\ job'[i] = job[i]
    BY <1>2 DEF Timed, NoJob
  <2>2. Timed(i) /\ Elapsed(i)' = Elapsed(i) /\ q \in job[i].held \ job[i].unguarded
    BY <2>1 DEF Timed, Elapsed
  <2>3. lease[q] # None /\ lease[q].by = i /\ lease[q].left >= Ttl - Elapsed(i) /\ q \in Keys
    BY <2>2 DEF BridgeRight, LeaseLasts, BridgeType, JobType
  <2>4. lease'[q] = lease[q]
    BY <1>4, <2>1, <2>3
  <2> QED BY <2>2, <2>3, <2>4
<1>9. TokensKnown'
  <2> SUFFICES ASSUME NEW q \in Keys, lease'[q] # None, lease'[q].by \in Calls
               PROVE q \in job'[lease'[q].by].held
    BY DEF TokensKnown
  <2>1. lease[q] # None /\ lease[q].by \notin JobsOf(w) /\ lease'[q] = lease[q]
    <3>1. ASSUME lease[q] # None PROVE [lease[q] EXCEPT !.by = None].by = None
      BY <1>3, <3>1 DEF Lease
    <3> QED BY <1>1, <1>4, <3>1
  <2>2. q \in job[lease[q].by].held
    BY <2>1 DEF BridgeRight, TokensKnown
  <2> QED BY <1>2, <2>1, <2>2
<1> QED BY <1>5, <1>6, <1>7, <1>8, <1>9 DEF BridgeRight

\* A lease that is needed has time left, because it is longer than the claims
\* and the call together may take.
LEMMA TickKeeps ==
    ASSUME BridgeRight, Tick PROVE BridgeRight'
<1>1. \A i \in Calls : job[i] \in JobType /\ JobRight(i)
  BY DEF BridgeRight, BridgeType, JobsRight
<1>2. \A i \in Calls : job'[i] = IF Timed(i) THEN [job[i] EXCEPT !.age = @ + 1] ELSE job[i]
  BY DEF Tick
<1>3. ASSUME NEW i \in Calls
      PROVE /\ job'[i] \in JobType
            /\ job'[i].pc = job[i].pc /\ job'[i].worker = job[i].worker
            /\ job'[i].wants = job[i].wants /\ job'[i].trying = job[i].trying
            /\ job'[i].held = job[i].held /\ job'[i].unguarded = job[i].unguarded
            /\ Timed(i) => job'[i].age = job[i].age + 1 /\ job[i].age < Limit(i)
            /\ job[i] = NoJob => job'[i] = NoJob
            /\ Timed(i)' <=> Timed(i)
            /\ Limit(i)' = Limit(i)
  <2>1. CASE Timed(i)
    BY <1>1, <1>2, <2>1 DEF JobType, Timed, Limit, Tick, NoJob
  <2>2. CASE ~Timed(i)
    BY <1>1, <1>2, <2>2 DEF Timed, Limit
  <2> QED BY <2>1, <2>2
<1>4. UNCHANGED <<stage, asked, worker, inflight>>
  BY DEF Tick, promiseVars
<1>5. ASSUME NEW l \in Lease \cup {None}
      PROVE /\ Aged(l) \in Lease \cup {None}
            /\ l # None /\ l.left > 1 => Aged(l) # None /\ Aged(l).by = l.by /\ Aged(l).left = l.left - 1
            /\ Aged(l) # None => l # None /\ Aged(l).by = l.by
  <2>1. CASE l = None \/ l.left = 1
    BY <2>1 DEF Aged
  <2>2. CASE l # None /\ l.left # 1
    <3>1. Aged(l) = [l EXCEPT !.left = @ - 1]
      BY <2>2 DEF Aged
    <3>2. [l EXCEPT !.left = @ - 1] \in Lease
      BY <2>2, Times DEF Lease
    <3>3. None \notin Lease
      BY RecommendationsAssumption DEF RecommendationsAssumption
    <3>4. [l EXCEPT !.left = @ - 1].by = l.by /\ [l EXCEPT !.left = @ - 1].left = l.left - 1
      BY <2>2 DEF Lease
    <3> QED BY <2>2, <3>1, <3>2, <3>3, <3>4
  <2> QED BY <2>1, <2>2
<1>6. \A q \in Keys : lease'[q] = Aged(lease[q]) /\ lease[q] \in Lease \cup {None}
  BY DEF Tick, BridgeRight, BridgeType
<1>7. BridgeType'
  <2>1. job' \in [Calls -> JobType]
    BY <1>3 DEF Tick
  <2>2. lease' \in [Keys -> Lease \cup {None}]
    BY <1>5, <1>6 DEF Tick
  <2> QED BY <1>4, <2>1, <2>2 DEF BridgeRight, BridgeType
<1>8. JobsRight'
  <2> SUFFICES ASSUME NEW i \in Calls PROVE JobRight(i)'
    BY DEF JobsRight
  <2>1. Timed(i)' => job'[i].age <= Limit(i)'
    BY <1>1, <1>3, Times DEF JobType, Limit
  <2>2. job'[i] = NoJob \/ (job'[i].pc # "free" /\ job'[i].worker \in Workers)
    BY <1>1, <1>3 DEF JobRight
  <2>3. /\ job'[i].pc # "claiming" => job'[i].wants = {} /\ job'[i].trying = {}
        /\ job'[i].wants # {} => job'[i].trying = {} /\ job'[i].held = {}
        /\ job'[i].trying \cap job'[i].held = {}
        /\ job'[i].unguarded \subseteq job'[i].held
        /\ job'[i].pc \notin {"claiming", "asking"} => job'[i].unguarded = {}
        /\ stage'[i] = "asked" => job'[i].pc = "asking" /\ asked'[i] = job'[i].held
    <3>1. JobRight(i)
      BY <1>1
    <3> QED BY <1>3, <1>4, <3>1 DEF JobRight
  <2> QED BY <2>1, <2>2, <2>3 DEF JobRight, Timed, Limit, NoJob
<1>9. InflightBelongsToJobs'
  <2>1. \A i \in Calls : Leases(i)' = Leases(i) /\ job'[i].worker = job[i].worker
    BY <1>3 DEF Leases
  <2> QED BY <1>4, <1>7, <2>1, KeysUnmoved DEF BridgeRight
<1>10. LeaseLasts'
  <2> SUFFICES ASSUME NEW i \in Calls, Timed(i)', NEW q \in job'[i].held \ job'[i].unguarded
               PROVE lease'[q] # None /\ lease'[q].by = i /\ lease'[q].left >= Ttl - Elapsed(i)'
    BY DEF LeaseLasts
  <2>1. Timed(i) /\ q \in job[i].held \ job[i].unguarded /\ q \in Keys
    BY <1>1, <1>3 DEF JobType
  <2>2. lease[q] # None /\ lease[q].by = i /\ lease[q].left >= Ttl - Elapsed(i) /\ lease[q] \in Lease
    BY <1>6, <2>1 DEF BridgeRight, LeaseLasts
  <2>3. /\ job[i].age \in Nat /\ job'[i].age = job[i].age + 1 /\ job[i].age < Limit(i)
        /\ job[i].pc \in {"claiming", "asking"} /\ job'[i].pc = job[i].pc
    BY <1>1, <1>3, <2>1 DEF JobType, Timed
  <2>4. /\ Elapsed(i) \in Nat /\ Elapsed(i)' = Elapsed(i) + 1
        /\ Elapsed(i) < ClaimTicks + AskTicks
    BY <2>3, Times DEF Elapsed, Limit
  <2>5. lease[q].left \in Nat /\ lease[q].left > 1
    BY <2>2, <2>4, Times DEF Lease
  <2>6. lease'[q] # None /\ lease'[q].by = i /\ lease'[q].left = lease[q].left - 1
    BY <1>5, <1>6, <2>1, <2>2, <2>5
  <2> QED BY <2>2, <2>4, <2>5, <2>6, Times
<1>11. TokensKnown'
  <2> SUFFICES ASSUME NEW q \in Keys, lease'[q] # None, lease'[q].by \in Calls
               PROVE q \in job'[lease'[q].by].held
    BY DEF TokensKnown
  <2>1. lease[q] # None /\ lease'[q].by = lease[q].by
    BY <1>5, <1>6
  <2> QED BY <1>3, <2>1 DEF BridgeRight, TokensKnown
<1> QED BY <1>7, <1>8, <1>9, <1>10, <1>11 DEF BridgeRight


\* Everything else leaves the bridge and the questions alone.
LEMMA BridgeUnmoved ==
    ASSUME BridgeRight, UNCHANGED <<inflight, lease, job, stage, asked>>, worker' \in [Workers -> {"up", "closing"}]
    PROVE BridgeRight'
<1>1. BridgeType' /\ JobsRight' /\ InflightBelongsToJobs'
  BY DEF BridgeRight, BridgeType, JobsRight, JobRight, Timed, Limit, InflightBelongsToJobs, JobsOf, Leases
<1>2. LeaseLasts' /\ TokensKnown'
  BY DEF BridgeRight, LeaseLasts, TokensKnown, Timed, Elapsed
<1> QED BY <1>1, <1>2 DEF BridgeRight

LEMMA BridgeKept ==
    ASSUME IInv, Next PROVE BridgeRight'
<1>1. BridgeRight /\ PromiseTypeOK
  BY InvParts
<1>2. worker \in [Workers -> {"up", "closing"}]
  BY <1>1 DEF BridgeRight, BridgeType
<1>3. CASE UserStep
  <2>1. WorldStep
    BY <1>3, UserStepIsWorldStep
  <2> QED BY <1>1, <1>2, <2>1, BridgeUnmoved DEF WorldStep, bridgeVars, promiseVars
<1>4. ASSUME NEW w \in Workers, Close(w) \/ Restart(w) PROVE BridgeRight'
  <2>1. UNCHANGED <<inflight, lease, job, stage, asked>> /\ worker' \in [Workers -> {"up", "closing"}]
    BY <1>2, <1>4 DEF Close, Restart, promiseVars
  <2> QED BY <1>1, <2>1, BridgeUnmoved
<1>5. ASSUME NEW p \in Pairs, ToldExpires(p) PROVE BridgeRight'
  BY <1>1, <1>2, <1>5, BridgeUnmoved DEF ToldExpires, bridgeVars, promiseVars
<1>6. ASSUME NEW k \in Keys, CacheExpires(k) PROVE BridgeRight'
  BY <1>1, <1>2, <1>6, BridgeUnmoved DEF CacheExpires, Expire, bridgeVars
<1>7. ASSUME NEW j \in Calls, NEW k \in Keys, ServiceKeeps(j, k) PROVE BridgeRight'
  BY <1>1, <1>2, <1>7, BridgeUnmoved DEF ServiceKeeps, Keep, bridgeVars
<1>8. ASSUME NEW j \in Calls, JobStep(j) PROVE BridgeRight'
  <2>1. (\E k \in Keys : Tell(j, k) \/ ToldAlready(j, k) \/ NotTold(j, k)) => \E k \in Keys : Telling(j, k)
    BY DEF Tell, ToldAlready, NotTold
  <2> QED BY <1>1, <1>7, <1>8, <2>1, ClaimKeeps, NothingToDoKeeps, CallServiceKeeps, CallEndKeeps,
             NoticeStepKeeps, ClaimedKeeps, RefusedKeeps DEF JobStep
<1>9. ASSUME NEW w \in Workers, \E v \in Viewers : Poll(w, v) \/ PollInOutage(w, v) PROVE BridgeRight'
  BY <1>9, PollKeeps
<1> QED BY <1>1, <1>3, <1>4, <1>5, <1>6, <1>8, <1>9, CancelledKeeps, FinishKeeps, ReleaseKeeps,
           CrashKeeps, TickKeeps DEF Next

THEOREM StepRight == IInv /\ [Next]_vars => IInv'
<1> SUFFICES ASSUME IInv, [Next]_vars PROVE IInv'
  OBVIOUS
<1>1. PromiseTypeOK' /\ WorldType' /\ WorldRight' /\ NoticeType' /\ BridgeRight'
  <2>1. CASE Next
    <3>1. TypeOK /\ WorldRight
      BY DEF IInv
    <3> QED BY <2>1, <3>1, PromiseTypeKept, WorldTypeKept, NoticeTypeKept, BridgeKept
  <2>2. CASE UNCHANGED vars
    <3>1. BridgeRight'
      BY <2>2, InvParts, BridgeUnmoved DEF vars, bridgeVars, promiseVars, BridgeRight, BridgeType
    <3>2. PromiseTypeOK' /\ WorldType' /\ WorldRight' /\ NoticeType'
      BY <2>2, InvParts DEF vars, promiseVars, worldVars, noticeVars, PromiseTypeOK, WorldType, WorldRight,
         NoticeType
    <3> QED BY <3>1, <3>2
  <2> QED BY <2>1, <2>2
<1>2. TypeOK'
  BY <1>1 DEF TypeOK, WorldType, BridgeType, NoticeType, BridgeRight
<1> QED BY <1>1, <1>2 DEF IInv, BridgeRight

\* IInv holds in every reachable state.
THEOREM Invariance == Spec => []IInv
BY InitRight, StepRight, PTL DEF Spec

-----------------------------------------------------------------------------
(***************************************************************************)
(* The theorems                                                            *)
(***************************************************************************)

\* Every variable keeps its type: a lease never outlives its time, an age never
\* passes its limit.
THEOREM TypeCorrect == Spec => []TypeOK
<1>1. IInv => TypeOK
  BY DEF IInv
<1> QED BY <1>1, Invariance, PTL

\* _inflight is what the process's tasks hold or are claiming, through crashes,
\* cancellations and answers that never came.
THEOREM InflightAlwaysRight == Spec => []InflightBelongsToJobs
<1>1. IInv => InflightBelongsToJobs
  BY DEF IInv
<1> QED BY <1>1, Invariance, PTL

\* Two calls about one key at a time are those of two processes, and one of them
\* never got an answer to its claim.
THEOREM OnePaidAlways == Spec => []OnePaidEvaluation
<1>1. IInv => OnePaidEvaluation
  <2> SUFFICES ASSUME IInv, NEW i \in Calls, NEW j \in Calls, NEW k \in asked[i] \cap asked[j],
                      i # j, stage[i] = "asked", stage[j] = "asked"
               PROVE job[i].worker # job[j].worker /\ k \in job[i].unguarded \cup job[j].unguarded
    BY DEF OnePaidEvaluation
  <2>1. /\ job[i].pc = "asking" /\ job[j].pc = "asking" /\ k \in job[i].held \cap job[j].held
        /\ job[i].worker \in Workers /\ job[j].worker \in Workers
    BY DEF IInv, JobsRight, JobRight, NoJob
  <2>2. job[i].worker # job[j].worker
    BY <2>1 DEF IInv, InflightBelongsToJobs, JobsOf, Leases
  <2>3. k \in job[i].unguarded \cup job[j].unguarded
    <3> SUFFICES ASSUME k \notin job[i].unguarded, k \notin job[j].unguarded PROVE FALSE
      OBVIOUS
    <3>1. lease[k].by = i /\ lease[k].by = j
      BY <2>1 DEF IInv, LeaseLasts, Timed
    <3> QED BY <3>1
  <2> QED BY <2>2, <2>3
<1> QED BY <1>1, Invariance, PTL

\* A key that is told is told once until it expires.
THEOREM NoticedOnceAlways == Spec => []NoticedOnce
<1>1. Init => NoticedOnce
  BY DEF Init, NoticedOnce
<1>2. TypeOK /\ NoticedOnce /\ [Next]_vars => NoticedOnce'
  <2> SUFFICES ASSUME TypeOK, NoticedOnce, [Next]_vars PROVE NoticedOnce'
    OBVIOUS
  <2>1. CASE UNCHANGED noticeVars
    BY <2>1 DEF noticeVars, NoticedOnce
  <2>2. ASSUME NEW j \in Calls, NEW k \in Keys, Tell(j, k) PROVE NoticedOnce'
    <3>1. PairOf(k) \in Pairs
      BY DEF PairOf, Pairs
    <3> QED BY <2>2, <3>1 DEF Tell, Untold, NoticedOnce, TypeOK
  <2>3. ASSUME NEW j \in Calls, NEW k \in Keys, NotTold(j, k) PROVE NoticedOnce'
    BY <2>3 DEF NotTold, NoticedOnce, TypeOK
  <2>4. ASSUME NEW p \in Pairs, ToldExpires(p) PROVE NoticedOnce'
    BY <2>4 DEF ToldExpires, NoticedOnce, TypeOK
  <2>5. Next => \/ UNCHANGED noticeVars
                \/ \E j \in Calls, k \in Keys : Tell(j, k) \/ NotTold(j, k)
                \/ \E p \in Pairs : ToldExpires(p)
    BY NoticeSteps
  <2> QED BY <2>1, <2>2, <2>3, <2>4, <2>5 DEF vars, noticeVars
<1> QED BY <1>1, <1>2, TypeCorrect, PTL DEF Spec

\* No step but time and the release of the task that drew the token changes a
\* lease.
THEOREM LeaseOnlyByOwnerAlways == Spec => LeaseOnlyByOwner
<1> DEFINE Owned == \A k \in Keys : lease[k] # None /\ lease'[k] # lease[k] =>
                       \/ Tick
                       \/ \E j \in Calls : lease[k].by = j /\ k \in job[j].held /\ k \notin job'[j].held
<1>1. IInv /\ [Next]_vars => [Owned]_vars
  <2> SUFFICES ASSUME IInv, Next, NEW k \in Keys, lease[k] # None, lease'[k] # lease[k]
               PROVE \/ Tick
                     \/ \E j \in Calls : lease[k].by = j /\ k \in job[j].held /\ k \notin job'[j].held
    OBVIOUS
  <2>1. \/ Tick \/ (\E w \in Workers : Crash(w))
        \/ \E j \in Calls : Cancelled(j) \/ \E q \in Keys : Release(j, q) \/ Granted(j, q) \/ Unanswered(j, q)
    <3>1. ~UNCHANGED lease
      OBVIOUS
    <3>2. UserStep => UNCHANGED lease
      BY DEF UserStep, PutProfile, SetDiscovery, Move, bridgeVars
    <3>3. ASSUME NEW w \in Workers,
                 Close(w) \/ Restart(w) \/ \E v \in Viewers : Poll(w, v) \/ PollInOutage(w, v)
          PROVE UNCHANGED lease
      BY <3>3 DEF Close, Restart, Poll, PollInOutage
    <3>4. ASSUME NEW j \in Calls, JobStep(j)
          PROVE UNCHANGED lease \/ \E q \in Keys : Granted(j, q) \/ Unanswered(j, q)
      BY <3>4 DEF JobStep, Claim, NothingToDo, CallService, CallDeclined, ServiceAnswers, ServiceRaises,
         CheckViewer, NoNotice, Look, AllTold, Refused, CacheFailure, Tell,
         ToldAlready, NotTold, ServiceKeeps, Telling, bridgeVars
    <3>5. ASSUME (\E j \in Calls : Finish(j)) \/ (\E p \in Pairs : ToldExpires(p)) \/ (\E q \in Keys : CacheExpires(q))
          PROVE UNCHANGED lease
      BY <3>5 DEF Finish, ToldExpires, CacheExpires, bridgeVars
    <3> QED BY <3>1, <3>2, <3>3, <3>4, <3>5 DEF Next
  <2>2. lease \in [Keys -> Lease \cup {None}] /\ job \in [Calls -> JobType]
    BY DEF IInv, TypeOK
  <2>4. ASSUME NEW w \in Workers, Crash(w) PROVE \E j \in Calls : lease[k].by = j /\ k \in job[j].held /\ k \notin job'[j].held
    <3>1. lease[k].by \in JobsOf(w) /\ lease[k].by \in Calls
      BY <2>4 DEF Crash, JobsOf
    <3>2. k \in job[lease[k].by].held /\ job'[lease[k].by] = NoJob
      BY <2>4, <3>1 DEF Crash, IInv, TokensKnown
    <3> QED BY <3>1, <3>2 DEF NoJob
  <2>5. ASSUME NEW j \in Calls, Cancelled(j) PROVE FALSE
    BY <2>5 DEF Cancelled
  <2>6. ASSUME NEW j \in Calls, NEW q \in Keys, Granted(j, q) \/ Unanswered(j, q) PROVE FALSE
    BY <2>2, <2>6 DEF Granted, Unanswered, Grant
  <2>7. ASSUME NEW j \in Calls, NEW q \in Keys, Release(j, q) PROVE lease[k].by = j /\ k \in job[j].held /\ k \notin job'[j].held
    <3>1. q = k /\ lease[k].by = j
      BY <2>2, <2>7 DEF Release, Deleted, Owns, Abandoned
    <3>2. job'[j].held = job[j].held \ {k} /\ k \in job[j].held
      BY <2>2, <2>7, <3>1 DEF Release, JobType
    <3> QED BY <3>1, <3>2
  <2> QED BY <2>1, <2>4, <2>5, <2>6, <2>7
<1> HIDE DEF Owned
<1>2. Spec => [][Owned]_vars
  BY <1>1, Invariance, PTL DEF Spec
<1> QED BY <1>2 DEF LeaseOnlyByOwner, Owned

=============================================================================
