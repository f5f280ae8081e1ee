----------------------------- MODULE Discovery -----------------------------
(***************************************************************************)
(* The discovery endpoints of routers/v1.py and their store functions: BLE *)
(* identifiers, observation reports and the discovery switch.  Only the    *)
(* Lua scripts are atomic; report_observations and set_discovery(off) are  *)
(* sequences of Redis commands between which any other handler may run and *)
(* the process may stop.  One handler of each kind per user is in flight   *)
(* at a time, and MaxHandlers in all.                                      *)
(***************************************************************************)
EXTENDS Proximity, FiniteSets

CONSTANTS
    Identifiers,    \* pool of the 128-bit values; none is drawn twice
    None,
    RefreshAfter,   \* identifier_refresh_after_seconds, in ticks
    Ttl,            \* identifier_ttl_seconds, in ticks
    MaxHandlers     \* bound on the handlers in flight

\* ident:current:{u}: what was issued.  Redis drops the key and the mapping of
\* the identifier at the tick `until`.
Record == [owner : Users, refresh_after : Nat, until : Nat]

ASSUME DiscoveryAssumption ==
    /\ None \notin Identifiers \cup Record
    /\ RefreshAfter \in Nat
    /\ Ttl \in Nat \ {0}
    /\ MaxHandlers \in Nat

VARIABLES
    minted,      \* minted[i]: what issue_identifier.lua wrote for i, or None
    mapped,      \* identifiers whose ident:map key has not been deleted
    current,     \* current[u]: the identifier of ident:current:{u}, or None
    issuing,     \* issuing[u]: the clock sample of an issue handler, or Never
    reporting,   \* reporting[o]: the report handler of o
    stopping,    \* stopping[u]: the set_discovery(off) handler of u
    leftover     \* history: users whose last switching off was not cleaned up

handlerVars == <<issuing, reporting, stopping>>
identifierVars == <<minted, mapped, current>>
vars == <<proximityVars, identifierVars, handlerVars, leftover>>

NoReport == [step |-> "idle", moment |-> Never, users |-> {}]
NoStop == [step |-> "idle", found |-> None]

TypeOK ==
    /\ ProximityTypeOK
    /\ minted \in [Identifiers -> Record \cup {None}]
    /\ mapped \subseteq Identifiers
    /\ current \in [Users -> Identifiers \cup {None}]
    /\ issuing \in [Users -> Nat]
    /\ reporting \in [Users -> [step : {"idle", "resolve", "read", "write"},
                                moment : Nat, users : SUBSET Users]]
    /\ stopping \in [Users -> [step : {"idle", "read", "unmap", "clear"},
                               found : Identifiers \cup {None}]]
    /\ leftover \subseteq Users

Init ==
    /\ ProximityInit
    /\ minted = [i \in Identifiers |-> None]
    /\ mapped = {}
    /\ current = [u \in Users |-> None]
    /\ issuing = [u \in Users |-> Never]
    /\ reporting = [o \in Users |-> NoReport]
    /\ stopping = [u \in Users |-> NoStop]
    /\ leftover = {}

\* A Redis key written with PX exists until its time is over.
Unexpired(i) == minted[i] # None /\ now < minted[i].until

HasCurrent(u) == current[u] # None /\ Unexpired(current[u])

\* Fault: the mapping is written without an expiry.
ResolvesForever(i) == i \in mapped

\* GET ident:map:{i} answers.
Resolves(i) == i \in mapped /\ Unexpired(i)

-----------------------------------------------------------------------------
(***************************************************************************)
(* POST /discovery/identifiers: issue_identifier, issue_identifier.lua     *)
(***************************************************************************)

IssueStart(u) ==
    /\ u \in registered
    /\ issuing[u] = Never
    /\ issuing' = [issuing EXCEPT ![u] = now]
    /\ UNCHANGED <<proximityVars, identifierVars, reporting, stopping, leftover>>

\* PROFILE_REQUIRED or DISCOVERY_DISABLED.
IssueRefuse(u) ==
    /\ issuing[u] # Never
    /\ u \notin profiled \cap enabled
    /\ issuing' = [issuing EXCEPT ![u] = Never]
    /\ UNCHANGED <<proximityVars, identifierVars, reporting, stopping, leftover>>

NotYetDue(u) == HasCurrent(u) /\ issuing[u] < minted[current[u]].refresh_after

\* The script answers with the current record and writes nothing.
IssueReuse(u) ==
    /\ issuing[u] # Never
    /\ u \in profiled \cap enabled
    /\ NotYetDue(u)
    /\ issuing' = [issuing EXCEPT ![u] = Never]
    /\ UNCHANGED <<proximityVars, identifierVars, reporting, stopping, leftover>>

\* The times of the record count from the sample, the keys' PX from the write.
IssueNew(u) ==
    /\ issuing[u] # Never
    /\ u \in profiled \cap enabled
    /\ ~NotYetDue(u)
    /\ \E i \in Identifiers :
         /\ minted[i] = None
         /\ minted' = [minted EXCEPT ![i] =
                         [owner |-> u, refresh_after |-> issuing[u] + RefreshAfter,
                          until |-> now + Ttl]]
         /\ mapped' = mapped \cup {i}
         /\ current' = [current EXCEPT ![u] = i]
    /\ issuing' = [issuing EXCEPT ![u] = Never]
    /\ UNCHANGED <<proximityVars, reporting, stopping, leftover>>

-----------------------------------------------------------------------------
(***************************************************************************)
(* POST /me/discovery: set_discovery                                       *)
(***************************************************************************)

SwitchOn(u) ==
    /\ SetFlag(u, TRUE)
    /\ UNCHANGED <<identifierVars, handlerVars, leftover>>

\* HSET discovery_enabled 0.
StopFlag(u) ==
    /\ stopping[u].step = "idle"
    /\ SetFlag(u, FALSE)
    /\ stopping' = [stopping EXCEPT ![u] = [step |-> "read", found |-> None]]
    /\ UNCHANGED <<identifierVars, issuing, reporting, leftover>>

\* GET ident:current.
StopRead(u) ==
    /\ stopping[u].step = "read"
    /\ stopping' = [stopping EXCEPT ![u] =
                      IF HasCurrent(u) THEN [step |-> "unmap", found |-> current[u]]
                      ELSE [step |-> "clear", found |-> None]]
    /\ UNCHANGED <<proximityVars, identifierVars, issuing, reporting, leftover>>

\* DEL ident:map of the identifier that was read.
StopUnmap(u) ==
    /\ stopping[u].step = "unmap"
    /\ mapped' = mapped \ {stopping[u].found}
    /\ stopping' = [stopping EXCEPT ![u] = [step |-> "clear", found |-> None]]
    /\ UNCHANGED <<proximityVars, minted, current, issuing, reporting, leftover>>

\* Fault: the observations are left for their window to close.
StopClearIdentifier(u) ==
    /\ stopping[u].step = "clear"
    /\ current' = [current EXCEPT ![u] = None]
    /\ stopping' = [stopping EXCEPT ![u] = NoStop]
    /\ leftover' = leftover \ {u}
    /\ UNCHANGED <<proximityVars, minted, mapped, issuing, reporting>>

\* Fault: the current record outlives the mapping that was deleted.
StopClearObservations(u) ==
    /\ stopping[u].step = "clear"
    /\ Forget(u)
    /\ stopping' = [stopping EXCEPT ![u] = NoStop]
    /\ leftover' = leftover \ {u}
    /\ UNCHANGED <<identifierVars, issuing, reporting>>

\* DEL ident:current and obs.
StopClear(u) ==
    /\ stopping[u].step = "clear"
    /\ Forget(u)
    /\ current' = [current EXCEPT ![u] = None]
    /\ stopping' = [stopping EXCEPT ![u] = NoStop]
    /\ leftover' = leftover \ {u}
    /\ UNCHANGED <<minted, mapped, issuing, reporting>>

-----------------------------------------------------------------------------
(***************************************************************************)
(* POST /discovery/observations: the router and report_observations        *)
(***************************************************************************)

\* The router reads the reporter: 409 without a profile, an empty answer when
\* discovery is off.
ReportAdmit(o) ==
    /\ reporting[o].step = "idle"
    /\ o \in profiled \cap enabled
    /\ reporting' = [reporting EXCEPT ![o] =
                       [step |-> "resolve", moment |-> now, users |-> {}]]
    /\ UNCHANGED <<proximityVars, identifierVars, issuing, stopping, leftover>>

\* The handler moves on, or answers at once when it has nobody left.
ReportGoesOn(o, step, moment, users) ==
    reporting' = [reporting EXCEPT ![o] =
                    IF users = {} THEN NoReport
                    ELSE [step |-> step, moment |-> moment, users |-> users]]

\* Fault: the reporter's own identifier is not skipped.
HeardBySelfToo(o, heard) == {minted[i].owner : i \in {j \in heard : Resolves(j)}}

\* Unknown, expired, own and repeated identifiers drop out.
HeardBy(o, heard) == {minted[i].owner : i \in {j \in heard : Resolves(j)}} \ {o}

\* now_ms is sampled at some instant after the router's read, then MGET runs.
ReportResolve(o, heard) ==
    /\ reporting[o].step = "resolve"
    /\ \E moment \in reporting[o].moment..now :
         ReportGoesOn(o, "read", moment, HeardBy(o, heard))
    /\ UNCHANGED <<proximityVars, identifierVars, issuing, stopping, leftover>>

\* The pipeline of HGETALLs: profile complete and discovery on.
ReportRead(o) ==
    /\ reporting[o].step = "read"
    /\ ReportGoesOn(o, "write", reporting[o].moment,
                    reporting[o].users \cap profiled \cap enabled)
    /\ UNCHANGED <<proximityVars, identifierVars, issuing, stopping, leftover>>

\* The pipeline of ZADDs.  The reporter's own flag is not read again.
ReportWrite(o) ==
    /\ reporting[o].step = "write"
    /\ observed' = [observed EXCEPT ![o] =
                      [v \in Users |-> IF v \in reporting[o].users
                                       THEN reporting[o].moment ELSE @[v]]]
    /\ reporting' = [reporting EXCEPT ![o] = NoReport]
    /\ leftover' = IF o \in enabled THEN leftover ELSE leftover \cup {o}
    /\ UNCHANGED <<now, registered, profiled, enabled, identifierVars, issuing,
                   stopping>>

-----------------------------------------------------------------------------

\* The API process stops; the commands a handler had not issued are never run.
Crash ==
    /\ issuing' = [u \in Users |-> Never]
    /\ reporting' = [o \in Users |-> NoReport]
    /\ stopping' = [u \in Users |-> NoStop]
    /\ leftover' = leftover \cup {u \in Users : stopping[u].step # "idle"}
    /\ UNCHANGED <<proximityVars, identifierVars>>

\* The handlers in flight, at most one of each kind and user.
InFlight ==
    ({"issue"} \X {u \in Users : issuing[u] # Never})
      \cup ({"report"} \X {o \in Users : reporting[o].step # "idle"})
      \cup ({"stop"} \X {u \in Users : stopping[u].step # "idle"})

Next ==
    \/ /\ Tick \/ \E u \in Users : Register(u) \/ PutProfile(u)
       /\ UNCHANGED <<identifierVars, handlerVars, leftover>>
    \/ /\ Cardinality(InFlight) < MaxHandlers
       /\ \E u \in Users : IssueStart(u) \/ StopFlag(u) \/ ReportAdmit(u)
    \/ \E u \in Users :
         \/ IssueRefuse(u) \/ IssueReuse(u) \/ IssueNew(u)
         \/ SwitchOn(u)
         \/ StopRead(u) \/ StopUnmap(u) \/ StopClear(u)
         \/ ReportRead(u) \/ ReportWrite(u)
         \/ \E heard \in SUBSET Identifiers : ReportResolve(u, heard)
    \/ Crash

Spec == Init /\ [][Next]_vars

-----------------------------------------------------------------------------
(***************************************************************************)
(* Correctness                                                             *)
(***************************************************************************)

\* An observation is never dated past the life of every identifier its subject
\* was issued: somebody who stops being issued identifiers can no longer be
\* written to for the first time once Ttl and Window have passed, however the
\* handlers that observe them are delayed.
SightingsRestOnIdentifiers ==
    \A o, v \in Users : observed[o][v] # Never =>
        \E i \in Identifiers :
            /\ minted[i] # None
            /\ minted[i].owner = v
            /\ observed[o][v] < minted[i].until

\* The record that the issue script hands out again resolves, unless switching
\* off is between its two deletions or was cut short there by a crash.
CurrentResolves ==
    \A u \in Users : HasCurrent(u) =>
        \/ current[u] \in mapped
        \/ stopping[u].step = "clear"
        \/ u \in leftover

\* Somebody whose discovery is off has no observations left, unless switching
\* off has not finished, was cut short by a crash, or was overtaken by one of
\* their own reports.
OffForgets ==
    \A u \in Users \ enabled : observed[u] # Nobody =>
        stopping[u].step # "idle" \/ u \in leftover

\* An answer to an issue request names an identifier that observers can resolve
\* (docs/api-contract.md:121: valid for five minutes from its issue).
IssuedIdentifierResolves ==
    [][\A u \in Users : IssueReuse(u) => Resolves(current[u])]_vars

\* While discovery is off the user keeps no observation once switching off has
\* finished (store.py:168-169: "drop what this user observed").
OffDropsObservations ==
    \A u \in registered \ enabled : stopping[u].step = "idle" => observed[u] = Nobody

=============================================================================
