-------------------------- MODULE RecommendPromise --------------------------
(***************************************************************************)
(* What recommend() promises its callers (server/app/ai/service.py) with   *)
(* no tasks, batches or deadlines in sight: one outcome for each pair it   *)
(* was asked about, and evaluations stored only under those pairs' keys    *)
(* and only before it returns.                                             *)
(***************************************************************************)
EXTENDS Integers, FiniteSets

CONSTANTS
    Calls,
    Keys,       \* cache keys: a directed pair with both revisions and texts
    Cap,        \* notification_max_per_request
    Absent      \* no entry, no outcome

VARIABLES
    asked,      \* the keys each call was asked about
    stage,      \* how far each call is
    outcome,    \* what each call answered
    kept        \* the entries in the cache

promiseVars == <<asked, stage, outcome, kept>>

\* "worthy" is an evaluation marked for a notification.
Outcomes == {"usable", "worthy", "failed"}
Entries == {"usable", "failed", Absent}

PromiseTypeOK ==
    /\ asked \in [Calls -> SUBSET Keys]
    /\ stage \in [Calls -> {"idle", "asked", "answered", "raised"}]
    /\ outcome \in [Calls -> [Keys -> Outcomes \cup {Absent}]]
    /\ kept \in [Keys -> Entries]

NoOutcome == [k \in Keys |-> Absent]

PromiseInit ==
    /\ asked = [c \in Calls |-> {}]
    /\ stage = [c \in Calls |-> "idle"]
    /\ outcome = [c \in Calls |-> NoOutcome]
    /\ kept \in [Keys -> Entries]

\* It may be asked about any pairs.
Asks(c) == asked' \in {[asked EXCEPT ![c] = ks] : ks \in SUBSET Keys}

Ask(c) ==
    /\ stage[c] = "idle"
    /\ stage' = [stage EXCEPT ![c] = "asked"]
    /\ Asks(c)
    /\ UNCHANGED <<outcome, kept>>

Keep(c, k) ==
    /\ stage[c] = "asked"
    /\ k \in asked[c]
    /\ kept' = [kept EXCEPT ![k] = "usable"]
    /\ UNCHANGED <<asked, stage, outcome>>

\* Without a provider, or with a viewer's text too long to send, every pair
\* fails at once.
Decline(c) ==
    /\ stage[c] = "idle"
    /\ stage' = [stage EXCEPT ![c] = "answered"]
    /\ Asks(c)
    /\ outcome' = [outcome EXCEPT ![c] =
                     [k \in Keys |-> IF k \in asked'[c] THEN "failed" ELSE Absent]]
    /\ UNCHANGED kept

\* Every pair has an outcome, nobody else has one, and few are worth a notice.
Answer(c) ==
    /\ stage[c] = "asked"
    /\ stage' = [stage EXCEPT ![c] = "answered"]
    /\ \E answer \in [asked[c] -> Outcomes] :
         /\ Cardinality({k \in asked[c] : answer[k] = "worthy"}) <= Cap
         /\ outcome' = [outcome EXCEPT ![c] =
                          [k \in Keys |-> IF k \in asked[c] THEN answer[k] ELSE Absent]]
    /\ UNCHANGED <<asked, kept>>

\* The caller was cancelled, and so is the call.
Raise(c) ==
    /\ stage[c] = "asked"
    /\ stage' = [stage EXCEPT ![c] = "raised"]
    /\ UNCHANGED <<asked, outcome, kept>>

\* The caller has taken the result.
Return(c) ==
    /\ stage[c] \in {"answered", "raised"}
    /\ stage' = [stage EXCEPT ![c] = "idle"]
    /\ asked' = [asked EXCEPT ![c] = {}]
    /\ outcome' = [outcome EXCEPT ![c] = NoOutcome]
    /\ UNCHANGED kept

\* A failure is put into the cache by the caller, after the call, for a while.
KeepFailure(c, k) ==
    /\ stage[c] \in {"answered", "raised"}
    /\ k \in asked[c]
    /\ kept' = [kept EXCEPT ![k] = "failed"]
    /\ UNCHANGED <<asked, stage, outcome>>

Expire(k) ==
    /\ kept' = [kept EXCEPT ![k] = Absent]
    /\ UNCHANGED <<asked, stage, outcome>>

PromiseNext ==
    \/ \E c \in Calls :
         \/ Ask(c) \/ Decline(c) \/ Answer(c) \/ Raise(c) \/ Return(c)
         \/ \E k \in Keys : Keep(c, k) \/ KeepFailure(c, k)
    \/ \E k \in Keys : Expire(k)

PromiseSpec == PromiseInit /\ [][PromiseNext]_promiseVars

=============================================================================
