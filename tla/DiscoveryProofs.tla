-------------------------- MODULE DiscoveryProofs --------------------------
(***************************************************************************)
(* Discovery keeps its types and its safety invariants and implements      *)
(* Proximity, for any users, identifiers, times and handlers in flight.    *)
(***************************************************************************)
EXTENDS Discovery, TLAPS

-----------------------------------------------------------------------------
(***************************************************************************)
(* Types                                                                   *)
(***************************************************************************)

\* Nothing has happened and no handler runs.
LEMMA InitTypes == Init => TypeOK
BY DiscoveryAssumption
   DEF Init, TypeOK, ProximityInit, ProximityTypeOK, Nobody, Never, NoReport, NoStop

\* The issue handlers write well-typed records.
LEMMA IssueTypes ==
    ASSUME TypeOK, NEW u \in Users,
           IssueStart(u) \/ IssueRefuse(u) \/ IssueReuse(u) \/ IssueNew(u)
    PROVE  TypeOK'
<1>1. CASE IssueStart(u) \/ IssueRefuse(u) \/ IssueReuse(u)
    <2>1. issuing' \in [Users -> Nat]
        <3>1. issuing \in [Users -> Nat] /\ now \in Nat /\ Never \in Nat
            BY DEF TypeOK, ProximityTypeOK, Never
        <3>2. issuing' = [issuing EXCEPT ![u] = now] \/ issuing' = [issuing EXCEPT ![u] = Never]
            BY <1>1 DEF IssueStart, IssueRefuse, IssueReuse
        <3>3. QED
            BY <3>1, <3>2
    <2>2. UNCHANGED <<proximityVars, identifierVars, reporting, stopping, leftover>>
        BY <1>1 DEF IssueStart, IssueRefuse, IssueReuse
    <2>3. QED
        BY <2>1, <2>2 DEF TypeOK, ProximityTypeOK, proximityVars, identifierVars
<1>2. CASE IssueNew(u)
    <2>1. /\ issuing' \in [Users -> Nat]
          /\ UNCHANGED <<proximityVars, reporting, stopping, leftover>>
        BY <1>2 DEF IssueNew, TypeOK, Never
    <2>2. PICK i \in Identifiers :
            /\ minted' = [minted EXCEPT ![i] =
                            [owner |-> u, refresh_after |-> issuing[u] + RefreshAfter,
                             until |-> now + Ttl]]
            /\ mapped' = mapped \cup {i}
            /\ current' = [current EXCEPT ![u] = i]
        BY <1>2 DEF IssueNew
    <2>3. [owner |-> u, refresh_after |-> issuing[u] + RefreshAfter,
           until |-> now + Ttl] \in Record
        BY DiscoveryAssumption DEF TypeOK, ProximityTypeOK, Record
    <2>4. /\ minted' \in [Identifiers -> Record \cup {None}]
          /\ mapped' \subseteq Identifiers
          /\ current' \in [Users -> Identifiers \cup {None}]
        BY <2>2, <2>3 DEF TypeOK
    <2>5. QED
        BY <2>1, <2>4 DEF TypeOK, ProximityTypeOK, proximityVars
<1>3. QED
    BY <1>1, <1>2

\* The steps of the discovery switch keep the types.
LEMMA SwitchTypes ==
    ASSUME TypeOK, NEW u \in Users,
           SwitchOn(u) \/ StopFlag(u) \/ StopRead(u) \/ StopUnmap(u) \/ StopClear(u)
    PROVE  TypeOK'
<1>1. CASE SwitchOn(u)
    BY <1>1 DEF SwitchOn, SetFlag, TypeOK, ProximityTypeOK, identifierVars, handlerVars
<1>2. CASE StopFlag(u)
    BY <1>2 DEF StopFlag, SetFlag, TypeOK, ProximityTypeOK, identifierVars
<1>3. CASE StopRead(u)
    BY <1>3 DEF StopRead, HasCurrent, TypeOK, ProximityTypeOK, proximityVars,
                identifierVars
<1>4. CASE StopUnmap(u)
    BY <1>4 DEF StopUnmap, TypeOK, ProximityTypeOK, proximityVars
<1>5. CASE StopClear(u)
    <2>1. Nobody \in [Users -> Nat]
        BY DEF Nobody, Never
    <2>2. QED
        BY <1>5, <2>1 DEF StopClear, Forget, NoStop, TypeOK, ProximityTypeOK
<1>6. QED
    BY <1>1, <1>2, <1>3, <1>4, <1>5

\* Only users are found by resolving what was heard.
LEMMA HeardAreUsers ==
    ASSUME TypeOK, NEW o \in Users, NEW heard \in SUBSET Identifiers
    PROVE  HeardBy(o, heard) \subseteq Users
BY DEF HeardBy, Resolves, Unexpired, TypeOK, Record

\* The steps of a report keep the types.
LEMMA ReportTypes ==
    ASSUME TypeOK, NEW o \in Users,
           \/ ReportAdmit(o) \/ ReportRead(o) \/ ReportWrite(o)
           \/ \E heard \in SUBSET Identifiers : ReportResolve(o, heard)
    PROVE  TypeOK'
<1> DEFINE Report == [step : {"idle", "resolve", "read", "write"},
                      moment : Nat, users : SUBSET Users]
<1>1. NoReport \in Report
    BY DEF NoReport, Never
<1>2. ASSUME NEW step \in {"read", "write"}, NEW moment \in Nat,
             NEW users \in SUBSET Users, ReportGoesOn(o, step, moment, users)
      PROVE  reporting' \in [Users -> Report]
    BY <1>1, <1>2 DEF ReportGoesOn, TypeOK
<1>3. CASE ReportAdmit(o)
    BY <1>3 DEF ReportAdmit, TypeOK, ProximityTypeOK, proximityVars, identifierVars
<1>4. CASE ReportRead(o)
    <2>1. reporting' \in [Users -> Report]
        BY <1>2, <1>4 DEF ReportRead, TypeOK
    <2>2. QED
        BY <1>4, <2>1 DEF ReportRead, TypeOK, ProximityTypeOK, proximityVars,
                          identifierVars
<1>5. CASE ReportWrite(o)
    <2>1. reporting' \in [Users -> Report]
        BY <1>1, <1>5 DEF ReportWrite, TypeOK
    <2>2. observed' \in [Users -> [Users -> Nat]]
        BY <1>5 DEF ReportWrite, TypeOK, ProximityTypeOK
    <2>3. QED
        BY <1>5, <2>1, <2>2 DEF ReportWrite, TypeOK, ProximityTypeOK, identifierVars
<1>6. ASSUME NEW heard \in SUBSET Identifiers, ReportResolve(o, heard)
      PROVE  TypeOK'
    <2>1. PICK moment \in reporting[o].moment..now :
            ReportGoesOn(o, "read", moment, HeardBy(o, heard))
        BY <1>6 DEF ReportResolve
    <2>2. moment \in Nat
        BY DEF TypeOK, ProximityTypeOK
    <2>3. reporting' \in [Users -> Report]
        BY <1>2, <2>1, <2>2, HeardAreUsers
    <2>4. QED
        BY <1>6, <2>3 DEF ReportResolve, TypeOK, ProximityTypeOK, proximityVars,
                          identifierVars
<1>7. QED
    BY <1>3, <1>4, <1>5, <1>6

\* Time, new users, profiles and crashes keep the types.
LEMMA OtherTypes ==
    ASSUME TypeOK,
           \/ /\ Tick \/ \E u \in Users : Register(u) \/ PutProfile(u)
              /\ UNCHANGED <<identifierVars, handlerVars, leftover>>
           \/ Crash
           \/ UNCHANGED vars
    PROVE  TypeOK'
<1>1. CASE Tick /\ UNCHANGED <<identifierVars, handlerVars, leftover>>
    BY <1>1 DEF Tick, TypeOK, ProximityTypeOK, identifierVars, handlerVars
<1>2. ASSUME NEW u \in Users, Register(u) \/ PutProfile(u),
             UNCHANGED <<identifierVars, handlerVars, leftover>>
      PROVE  TypeOK'
    BY <1>2 DEF Register, PutProfile, TypeOK, ProximityTypeOK, identifierVars,
                handlerVars
<1>3. CASE Crash
    BY <1>3 DEF Crash, TypeOK, ProximityTypeOK, proximityVars, identifierVars,
                NoReport, NoStop, Never
<1>4. CASE UNCHANGED vars
    BY <1>4 DEF vars, TypeOK, ProximityTypeOK, proximityVars, identifierVars,
                handlerVars
<1>5. QED
    BY <1>1, <1>2, <1>3, <1>4

\* Every step keeps the types.
LEMMA NextTypes == TypeOK /\ [Next]_vars => TypeOK'
BY IssueTypes, SwitchTypes, ReportTypes, OtherTypes DEF Next

\* Every variable keeps its type.
THEOREM TypeCorrect == Spec => []TypeOK
BY InitTypes, NextTypes, PTL DEF Spec

-----------------------------------------------------------------------------
(***************************************************************************)
(* The inductive invariant                                                 *)
(***************************************************************************)

\* Somebody was issued an identifier that had not expired at this moment.
IssuedBeyond(v, moment) ==
    \E i \in Identifiers :
        minted[i] # None /\ minted[i].owner = v /\ moment < minted[i].until

\* What a report handler carries between its commands is worth writing: its
\* moment lies in the past, its users are others, exist, were resolved from an
\* identifier alive at that moment and, once read, have profiles.
ReportsRight ==
    \A o \in Users : reporting[o].step # "idle" =>
        /\ o \in profiled
        /\ reporting[o].moment \in 1..now
        /\ reporting[o].step # "resolve" =>
             /\ reporting[o].users # {}
             /\ o \notin reporting[o].users
             /\ \A v \in reporting[o].users : IssuedBeyond(v, reporting[o].moment)
        /\ reporting[o].step = "write" => reporting[o].users \subseteq profiled

\* A current record was issued to its user, and so was the identifier that a
\* switching off has read: no handler ever unmaps somebody else's.
OwnersRight ==
    \A u \in Users :
        /\ current[u] # None => minted[current[u]] # None /\ minted[current[u]].owner = u
        /\ stopping[u].step = "unmap" =>
             /\ stopping[u].found # None
             /\ minted[stopping[u].found] # None
             /\ minted[stopping[u].found].owner = u

IInv ==
    /\ TypeOK
    /\ ReportsRight
    /\ OwnersRight
    /\ SightingsRestOnIdentifiers
    /\ CurrentResolves
    /\ OffForgets

\* The initial state satisfies the invariant.
LEMMA InitInv == Init => IInv
<1> SUFFICES ASSUME Init
             PROVE  IInv
    OBVIOUS
<1>1. TypeOK
    BY InitTypes
<1>2. ReportsRight /\ OwnersRight
    BY DEF Init, ReportsRight, OwnersRight, NoReport, NoStop
<1>3. SightingsRestOnIdentifiers
    BY DEF Init, ProximityInit, Nobody, SightingsRestOnIdentifiers
<1>4. CurrentResolves /\ OffForgets
    BY DEF Init, ProximityInit, HasCurrent, CurrentResolves, OffForgets
<1>5. QED
    BY <1>1, <1>2, <1>3, <1>4 DEF IInv

\* An identifier that was issued stays issued, to the same user and as long.
LEMMA MintedStays ==
    ASSUME TypeOK, [Next]_vars, NEW i \in Identifiers, minted[i] # None
    PROVE  minted'[i] = minted[i]
<1>1. CASE minted' = minted
    BY <1>1
<1>2. ASSUME NEW u \in Users, IssueNew(u)
      PROVE  minted'[i] = minted[i]
    BY <1>2 DEF IssueNew, TypeOK
<1>3. minted' = minted \/ \E u \in Users : IssueNew(u)
    BY DEF Next, vars, identifierVars, IssueStart, IssueRefuse, IssueReuse, SwitchOn,
           StopFlag, StopRead, StopUnmap, StopClear, ReportAdmit, ReportResolve,
           ReportRead, ReportWrite, Crash
<1>4. QED
    BY <1>1, <1>2, <1>3

\* Time goes on, profiles are not taken back and who was issued an identifier
\* stays so.
LEMMA NothingIsUndone ==
    ASSUME TypeOK, [Next]_vars
    PROVE  /\ now \in Nat /\ now' \in Nat /\ now <= now'
           /\ profiled \subseteq profiled'
           /\ \A v \in Users, moment \in Nat :
                 IssuedBeyond(v, moment) => IssuedBeyond(v, moment)'
<1>1. now \in Nat /\ now' \in Nat
    BY NextTypes DEF TypeOK, ProximityTypeOK
<1>2. /\ now' = now \/ now' = now + 1
      /\ profiled' = profiled \/ \E u \in Users : profiled' = profiled \cup {u}
    BY DEF Next, vars, proximityVars, Tick, Register, PutProfile, IssueStart,
           IssueRefuse, IssueReuse, IssueNew, SwitchOn, SetFlag, StopFlag, StopRead,
           StopUnmap, StopClear, Forget, ReportAdmit, ReportResolve, ReportRead,
           ReportWrite, Crash
<1>3. ASSUME NEW v \in Users, NEW moment \in Nat, IssuedBeyond(v, moment)
      PROVE  IssuedBeyond(v, moment)'
    <2>1. PICK i \in Identifiers :
            minted[i] # None /\ minted[i].owner = v /\ moment < minted[i].until
        BY <1>3 DEF IssuedBeyond
    <2>2. minted'[i] = minted[i]
        BY <2>1, MintedStays
    <2>3. QED
        BY <2>1, <2>2 DEF IssuedBeyond
<1>4. QED
    BY <1>1, <1>2, <1>3

\* Whom a report resolves was issued an identifier that is alive at its moment.
LEMMA HeardAreIssued ==
    ASSUME TypeOK, NEW o \in Users, NEW heard \in SUBSET Identifiers,
           NEW moment \in Nat, moment <= now, NEW v \in HeardBy(o, heard)
    PROVE  v # o /\ IssuedBeyond(v, moment)
<1>1. PICK i \in heard : Resolves(i) /\ v = minted[i].owner
    BY DEF HeardBy
<1>2. minted[i] # None /\ now < minted[i].until
    BY <1>1 DEF Resolves, Unexpired
<1>3. minted[i].until \in Nat /\ now \in Nat
    BY <1>1, <1>2 DEF TypeOK, ProximityTypeOK, Record
<1>4. QED
    BY <1>1, <1>2, <1>3 DEF HeardBy, IssuedBeyond

\* What one report handler carries, in ReportsRight.
Worthwhile(o) ==
    reporting[o].step # "idle" =>
        /\ o \in profiled
        /\ reporting[o].moment \in 1..now
        /\ reporting[o].step # "resolve" =>
             /\ reporting[o].users # {}
             /\ o \notin reporting[o].users
             /\ \A v \in reporting[o].users : IssuedBeyond(v, reporting[o].moment)
        /\ reporting[o].step = "write" => reporting[o].users \subseteq profiled

\* A handler that does not move keeps what it carries worth writing.
LEMMA WorthwhileStays ==
    ASSUME TypeOK, [Next]_vars, NEW o \in Users, Worthwhile(o),
           reporting'[o] = reporting[o]
    PROVE  Worthwhile(o)'
<1>1. reporting[o].moment \in Nat /\ reporting[o].users \subseteq Users
    BY DEF TypeOK
<1>2. QED
    BY <1>1, NothingIsUndone DEF Worthwhile

\* Every step of a report handler leaves it with something worth writing.
LEMMA ReportsKept ==
    ASSUME TypeOK, ReportsRight, [Next]_vars
    PROVE  ReportsRight'
<1> SUFFICES ASSUME NEW o \in Users
             PROVE  Worthwhile(o)'
    BY DEF ReportsRight, Worthwhile
<1>1. Worthwhile(o)
    BY DEF ReportsRight, Worthwhile
<1>2. /\ now \in Nat \ {0} /\ Never = 0 /\ reporting[o].moment \in Nat
      /\ reporting[o].users \subseteq Users
      /\ DOMAIN reporting = Users
    BY DEF TypeOK, ProximityTypeOK, Never
<1>3. CASE reporting'[o] = reporting[o]
    BY <1>1, <1>3, WorthwhileStays
<1>4. CASE ReportAdmit(o)
    <2>1. /\ o \in profiled
          /\ reporting'[o] = [step |-> "resolve", moment |-> now, users |-> {}]
          /\ UNCHANGED <<now, profiled>>
        BY <1>2, <1>4 DEF ReportAdmit, proximityVars
    <2>2. QED
        BY <1>2, <2>1 DEF Worthwhile
<1>5. ASSUME NEW heard \in SUBSET Identifiers, ReportResolve(o, heard)
      PROVE  Worthwhile(o)'
    <2>1. PICK moment \in reporting[o].moment..now :
            ReportGoesOn(o, "read", moment, HeardBy(o, heard))
        BY <1>5 DEF ReportResolve
    <2>2. /\ o \in profiled
          /\ moment \in 1..now
        BY <1>1, <1>2, <1>5 DEF Worthwhile, ReportResolve
    <2>3. UNCHANGED <<now, profiled, minted>>
        BY <1>5 DEF ReportResolve, proximityVars, identifierVars
    <2>4. reporting'[o] = IF HeardBy(o, heard) = {} THEN NoReport
                          ELSE [step |-> "read", moment |-> moment,
                                users |-> HeardBy(o, heard)]
        BY <1>2, <2>1 DEF ReportGoesOn
    <2>5. o \notin HeardBy(o, heard)
        BY DEF HeardBy
    <2>6. \A v \in HeardBy(o, heard) : IssuedBeyond(v, moment)'
        BY <1>2, <2>2, <2>3, HeardAreIssued DEF IssuedBeyond
    <2>7. QED
        BY <2>2, <2>3, <2>4, <2>5, <2>6 DEF Worthwhile, NoReport
<1>6. CASE ReportRead(o)
    <2> DEFINE left == reporting[o].users \cap profiled \cap enabled
    <2>1. /\ reporting[o].step = "read"
          /\ reporting'[o] = IF left = {} THEN NoReport
                             ELSE [step |-> "write", moment |-> reporting[o].moment,
                                   users |-> left]
          /\ UNCHANGED <<now, profiled, minted>>
        BY <1>2, <1>6 DEF ReportRead, ReportGoesOn, proximityVars, identifierVars
    <2>2. \A v \in left : IssuedBeyond(v, reporting[o].moment)'
        BY <1>1, <2>1 DEF Worthwhile, IssuedBeyond
    <2>3. QED
        BY <1>1, <2>1, <2>2 DEF Worthwhile, NoReport
<1>7. CASE ReportWrite(o) \/ Crash
    BY <1>2, <1>7 DEF ReportWrite, Crash, Worthwhile, NoReport
<1>8. \/ reporting'[o] = reporting[o]
      \/ ReportAdmit(o) \/ ReportRead(o) \/ ReportWrite(o) \/ Crash
      \/ \E heard \in SUBSET Identifiers : ReportResolve(o, heard)
    <2>1. ASSUME NEW u \in Users, u # o,
                 \/ ReportAdmit(u) \/ ReportRead(u) \/ ReportWrite(u)
                 \/ \E heard \in SUBSET Identifiers : ReportResolve(u, heard)
          PROVE  reporting'[o] = reporting[o]
        BY <1>2, <2>1 DEF ReportAdmit, ReportRead, ReportWrite, ReportResolve,
                          ReportGoesOn
    <2>2. \/ reporting' = reporting
          \/ Crash
          \/ \E u \in Users :
               \/ ReportAdmit(u) \/ ReportRead(u) \/ ReportWrite(u)
               \/ \E heard \in SUBSET Identifiers : ReportResolve(u, heard)
        BY DEF Next, vars, handlerVars, IssueStart, IssueRefuse, IssueReuse, IssueNew,
               SwitchOn, StopFlag, StopRead, StopUnmap, StopClear
    <2>3. QED
        BY <2>1, <2>2
<1>9. QED
    BY <1>3, <1>4, <1>5, <1>6, <1>7, <1>8

\* A current record and an identifier to unmap belong to their user.
LEMMA OwnersKept ==
    ASSUME TypeOK, OwnersRight, [Next]_vars
    PROVE  OwnersRight'
<1> DEFINE Owned(i, u) == minted[i] # None /\ minted[i].owner = u
           OwnedThen(i, u) == minted'[i] # None /\ minted'[i].owner = u
<1> SUFFICES ASSUME NEW u \in Users
             PROVE  /\ current'[u] # None => OwnedThen(current'[u], u)
                    /\ stopping'[u].step = "unmap" =>
                         stopping'[u].found # None /\ OwnedThen(stopping'[u].found, u)
    BY DEF OwnersRight
<1>1. /\ current[u] \in Identifiers \cup {None}
      /\ stopping[u].found \in Identifiers \cup {None}
      /\ None \notin Record
      /\ DOMAIN current = Users /\ DOMAIN stopping = Users
    BY DiscoveryAssumption DEF TypeOK
<1>2. /\ current[u] # None => Owned(current[u], u)
      /\ stopping[u].step = "unmap" =>
           stopping[u].found # None /\ Owned(stopping[u].found, u)
    BY DEF OwnersRight
<1>3. \A i \in Identifiers : Owned(i, u) => OwnedThen(i, u)
    BY MintedStays
<1>4. current'[u] # None => OwnedThen(current'[u], u)
    <2>1. CASE current'[u] = current[u]
        BY <1>1, <1>2, <1>3, <2>1
    <2>2. CASE IssueNew(u)
        <3>1. PICK i \in Identifiers :
                /\ minted' = [minted EXCEPT ![i] =
                                [owner |-> u, refresh_after |-> issuing[u] + RefreshAfter,
                                 until |-> now + Ttl]]
                /\ current' = [current EXCEPT ![u] = i]
            BY <2>2 DEF IssueNew
        <3>2. minted'[i] \in Record /\ minted'[i].owner = u /\ current'[u] = i
            BY <3>1, DiscoveryAssumption DEF TypeOK, ProximityTypeOK, Record
        <3>3. QED
            BY <1>1, <3>2
    <2>3. CASE StopClear(u)
        BY <1>1, <2>3 DEF StopClear
    <2>4. ASSUME NEW v \in Users, v # u, IssueNew(v) \/ StopClear(v)
          PROVE  current'[u] = current[u]
        BY <1>1, <2>4 DEF IssueNew, StopClear
    <2>5. current' = current \/ \E v \in Users : IssueNew(v) \/ StopClear(v)
        BY DEF Next, vars, identifierVars, IssueStart, IssueRefuse, IssueReuse,
               SwitchOn, StopFlag, StopRead, StopUnmap, ReportAdmit, ReportResolve,
               ReportRead, ReportWrite, Crash
    <2>6. QED
        BY <2>1, <2>2, <2>3, <2>4, <2>5
<1>5. ASSUME stopping'[u].step = "unmap"
      PROVE  stopping'[u].found # None /\ OwnedThen(stopping'[u].found, u)
    <2>1. CASE stopping'[u] = stopping[u]
        BY <1>1, <1>2, <1>3, <1>5, <2>1
    <2>2. CASE StopRead(u)
        <3>1. /\ stopping'[u] = [step |-> "unmap", found |-> current[u]]
              /\ current[u] # None
              /\ minted' = minted
            BY <1>1, <1>5, <2>2 DEF StopRead, HasCurrent, identifierVars
        <3>2. QED
            BY <1>2, <3>1
    <2>3. CASE StopFlag(u) \/ StopUnmap(u) \/ StopClear(u) \/ Crash
        <3>1. \/ stopping'[u] = [step |-> "read", found |-> None]
              \/ stopping'[u] = [step |-> "clear", found |-> None]
              \/ stopping'[u] = NoStop
            BY <1>1, <2>3 DEF StopFlag, StopUnmap, StopClear, Crash
        <3>2. QED
            BY <1>5, <3>1 DEF NoStop
    <2>4. ASSUME NEW v \in Users, v # u,
                 StopFlag(v) \/ StopRead(v) \/ StopUnmap(v) \/ StopClear(v)
          PROVE  stopping'[u] = stopping[u]
        BY <1>1, <2>4 DEF StopFlag, StopRead, StopUnmap, StopClear
    <2>5. \/ stopping' = stopping
          \/ Crash
          \/ \E v \in Users : StopFlag(v) \/ StopRead(v) \/ StopUnmap(v) \/ StopClear(v)
        BY DEF Next, vars, handlerVars, IssueStart, IssueRefuse, IssueReuse, IssueNew,
               SwitchOn, ReportAdmit, ReportResolve, ReportRead, ReportWrite
    <2>6. QED
        BY <2>1, <2>2, <2>3, <2>4, <2>5
<1>6. QED
    BY <1>4, <1>5

\* What is observed was observed by a report that resolved it in time.
LEMMA SightingsKept ==
    ASSUME IInv, [Next]_vars
    PROVE  SightingsRestOnIdentifiers'
<1> SUFFICES ASSUME NEW o \in Users, NEW v \in Users, observed'[o][v] # Never
             PROVE  IssuedBeyond(v, observed[o][v])'
    BY DEF SightingsRestOnIdentifiers, IssuedBeyond, Never
<1>1. /\ TypeOK
      /\ observed \in [Users -> [Users -> Nat]]
      /\ reporting[o].moment \in Nat
      /\ reporting[o].users \subseteq Users
    BY DEF IInv, TypeOK, ProximityTypeOK
<1>2. CASE observed'[o][v] = observed[o][v]
    <2>1. IssuedBeyond(v, observed[o][v])
        BY <1>2 DEF IInv, SightingsRestOnIdentifiers, IssuedBeyond
    <2>2. PICK i \in Identifiers :
            minted[i] # None /\ minted[i].owner = v /\ observed[o][v] < minted[i].until
        BY <2>1 DEF IssuedBeyond
    <2>3. minted'[i] = minted[i]
        BY <1>1, <2>2, MintedStays
    <2>4. QED
        BY <1>2, <2>2, <2>3 DEF IssuedBeyond
<1>3. CASE StopClear(o)
    BY <1>1, <1>3 DEF StopClear, Forget, Nobody
<1>4. CASE ReportWrite(o)
    <2>1. observed'[o][v] = IF v \in reporting[o].users THEN reporting[o].moment
                            ELSE observed[o][v]
        BY <1>1, <1>4 DEF ReportWrite
    <2>2. CASE v \in reporting[o].users
        <3>1. /\ IssuedBeyond(v, reporting[o].moment)
              /\ minted' = minted
              /\ observed'[o][v] = reporting[o].moment
            BY <1>4, <2>1, <2>2 DEF IInv, ReportsRight, ReportWrite, identifierVars
        <3>2. QED
            BY <3>1 DEF IssuedBeyond
    <2>3. QED
        BY <1>2, <2>1, <2>2
<1>5. ASSUME NEW u \in Users, u # o, StopClear(u) \/ ReportWrite(u)
      PROVE  observed'[o][v] = observed[o][v]
    BY <1>1, <1>5 DEF StopClear, Forget, ReportWrite
<1>6. observed' = observed \/ \E u \in Users : StopClear(u) \/ ReportWrite(u)
    BY DEF Next, vars, proximityVars, Tick, Register, PutProfile, IssueStart,
           IssueRefuse, IssueReuse, IssueNew, SwitchOn, SetFlag, StopFlag, StopRead,
           StopUnmap, ReportAdmit, ReportResolve, ReportRead, Crash
<1>7. QED
    BY <1>2, <1>3, <1>4, <1>5, <1>6

\* The excuse of CurrentResolves holds until its user's keys are deleted.
LEMMA ClearingStays ==
    ASSUME TypeOK, [Next]_vars, NEW u \in Users,
           stopping[u].step = "clear" \/ u \in leftover
    PROVE  stopping'[u].step = "clear" \/ u \in leftover' \/ StopClear(u)
<1>1. DOMAIN stopping = Users
    BY DEF TypeOK
<1>2. CASE stopping' = stopping /\ leftover \subseteq leftover'
    BY <1>2
<1>3. ASSUME NEW w \in Users, StopFlag(w) \/ StopRead(w) \/ StopUnmap(w) \/ StopClear(w)
      PROVE  stopping'[u].step = "clear" \/ u \in leftover' \/ StopClear(u)
    BY <1>1, <1>3 DEF StopFlag, StopRead, StopUnmap, StopClear
<1>4. CASE Crash
    BY <1>4 DEF Crash
<1>5. \/ stopping' = stopping /\ leftover \subseteq leftover'
      \/ \E w \in Users : StopFlag(w) \/ StopRead(w) \/ StopUnmap(w) \/ StopClear(w)
      \/ Crash
    BY DEF Next, vars, handlerVars, IssueStart, IssueRefuse, IssueReuse, IssueNew,
           SwitchOn, ReportAdmit, ReportResolve, ReportRead, ReportWrite
<1>6. QED
    BY <1>2, <1>3, <1>4, <1>5

\* A current record resolves until its user's switching off unmaps it.
LEMMA CurrentKept ==
    ASSUME IInv, [Next]_vars
    PROVE  CurrentResolves'
<1> SUFFICES ASSUME NEW u \in Users, HasCurrent(u)'
             PROVE  \/ current'[u] \in mapped'
                    \/ stopping'[u].step = "clear"
                    \/ u \in leftover'
    BY DEF CurrentResolves
<1>1. /\ TypeOK /\ OwnersRight /\ CurrentResolves
      /\ current[u] \in Identifiers \cup {None}
      /\ DOMAIN current = Users /\ DOMAIN stopping = Users
    BY DEF IInv, TypeOK
<1>2. CASE IssueNew(u)
    BY <1>1, <1>2 DEF IssueNew
<1>3. CASE StopClear(u)
    BY <1>1, <1>3 DEF StopClear, HasCurrent
<1>4. ASSUME ~IssueNew(u), ~StopClear(u)
      PROVE  current'[u] = current[u]
    <2>1. ASSUME NEW w \in Users, w # u, IssueNew(w) \/ StopClear(w)
          PROVE  current'[u] = current[u]
        BY <1>1, <2>1 DEF IssueNew, StopClear
    <2>2. current' = current \/ \E w \in Users : IssueNew(w) \/ StopClear(w)
        BY DEF Next, vars, identifierVars, IssueStart, IssueRefuse, IssueReuse,
               SwitchOn, StopFlag, StopRead, StopUnmap, ReportAdmit, ReportResolve,
               ReportRead, ReportWrite, Crash
    <2>3. QED
        BY <1>4, <2>1, <2>2
<1>5. ASSUME ~StopClear(u), current'[u] = current[u]
      PROVE  \/ current'[u] \in mapped'
             \/ stopping'[u].step = "clear"
             \/ u \in leftover'
    <2>1. /\ current[u] \in Identifiers
          /\ minted[current[u]] # None
          /\ minted[current[u]].owner = u
          /\ minted[current[u]].until \in Nat
        BY <1>1, <1>5 DEF HasCurrent, OwnersRight, TypeOK, Record
    <2>2. HasCurrent(u)
        <3>1. minted'[current[u]] = minted[current[u]]
            BY <1>1, <2>1, MintedStays
        <3>2. now \in Nat /\ now' \in Nat /\ now <= now'
            BY <1>1, NothingIsUndone
        <3>3. now' < minted[current[u]].until
            BY <1>5, <3>1 DEF HasCurrent, Unexpired
        <3>4. now < minted[current[u]].until
            BY <2>1, <3>2, <3>3
        <3>5. current[u] # None
            BY <2>1, DiscoveryAssumption
        <3>6. QED
            BY <2>1, <3>4, <3>5 DEF HasCurrent, Unexpired
    <2>3. CASE stopping[u].step = "clear" \/ u \in leftover
        BY <1>1, <1>5, <2>3, ClearingStays
    <2>4. CASE current[u] \in mapped
        <3>1. CASE mapped \subseteq mapped'
            BY <1>5, <2>4, <3>1
        <3>2. CASE StopUnmap(u)
            BY <1>1, <3>2 DEF StopUnmap
        <3>3. ASSUME NEW w \in Users, w # u, StopUnmap(w)
              PROVE  current'[u] \in mapped'
            <4>1. minted[stopping[w].found].owner = w
                BY <1>1, <3>3 DEF OwnersRight, StopUnmap
            <4>2. current[u] # stopping[w].found
                BY <2>1, <3>3, <4>1
            <4>3. QED
                BY <1>5, <2>4, <3>3, <4>2 DEF StopUnmap
        <3>4. mapped \subseteq mapped' \/ \E w \in Users : StopUnmap(w)
            BY DEF Next, vars, identifierVars, IssueStart, IssueRefuse, IssueReuse,
                   IssueNew, SwitchOn, StopFlag, StopRead, StopClear, ReportAdmit,
                   ReportResolve, ReportRead, ReportWrite, Crash
        <3>5. QED
            BY <3>1, <3>2, <3>3, <3>4
    <2>5. QED
        BY <1>1, <2>2, <2>3, <2>4 DEF CurrentResolves
<1>6. QED
    BY <1>2, <1>3, <1>4, <1>5

\* The excuse of OffForgets holds until its user's observations are deleted.
LEMMA StoppingStays ==
    ASSUME TypeOK, [Next]_vars, NEW u \in Users,
           stopping[u].step # "idle" \/ u \in leftover
    PROVE  stopping'[u].step # "idle" \/ u \in leftover' \/ StopClear(u)
<1>1. DOMAIN stopping = Users
    BY DEF TypeOK
<1>2. CASE stopping' = stopping /\ leftover \subseteq leftover'
    BY <1>2
<1>3. ASSUME NEW w \in Users, StopFlag(w) \/ StopRead(w) \/ StopUnmap(w) \/ StopClear(w)
      PROVE  stopping'[u].step # "idle" \/ u \in leftover' \/ StopClear(u)
    <2>1. CASE w = u /\ ~StopClear(u)
        <3>1. \/ stopping'[u] = [step |-> "read", found |-> None]
              \/ stopping'[u] = [step |-> "unmap", found |-> current[u]]
              \/ stopping'[u] = [step |-> "clear", found |-> None]
            BY <1>1, <1>3, <2>1 DEF StopFlag, StopRead, StopUnmap
        <3>2. QED
            BY <3>1
    <2>2. CASE w # u
        <3>1. stopping'[u] = stopping[u] /\ (u \in leftover => u \in leftover')
            BY <1>1, <1>3, <2>2 DEF StopFlag, StopRead, StopUnmap, StopClear
        <3>2. QED
            BY <3>1
    <2>3. QED
        BY <2>1, <2>2
<1>4. CASE Crash
    BY <1>4 DEF Crash
<1>5. \/ stopping' = stopping /\ leftover \subseteq leftover'
      \/ \E w \in Users : StopFlag(w) \/ StopRead(w) \/ StopUnmap(w) \/ StopClear(w)
      \/ Crash
    BY DEF Next, vars, handlerVars, IssueStart, IssueRefuse, IssueReuse, IssueNew,
           SwitchOn, ReportAdmit, ReportResolve, ReportRead, ReportWrite
<1>6. QED
    BY <1>2, <1>3, <1>4, <1>5

\* Somebody who is off keeps no observations but those of an unfinished or
\* overtaken switching off.
LEMMA OffKept ==
    ASSUME IInv, [Next]_vars
    PROVE  OffForgets'
<1> SUFFICES ASSUME NEW u \in Users, u \notin enabled', observed'[u] # Nobody
             PROVE  stopping'[u].step # "idle" \/ u \in leftover'
    BY DEF OffForgets, Nobody, Never
<1>1. /\ TypeOK /\ OffForgets
      /\ DOMAIN stopping = Users
      /\ DOMAIN observed = Users
    BY DEF IInv, TypeOK, ProximityTypeOK
<1>2. CASE StopClear(u)
    BY <1>1, <1>2 DEF StopClear, Forget
<1>3. CASE ReportWrite(u)
    BY <1>3 DEF ReportWrite
<1>4. CASE StopFlag(u)
    <2>1. stopping'[u] = [step |-> "read", found |-> None]
        BY <1>1, <1>4 DEF StopFlag
    <2>2. QED
        BY <2>1
<1>5. ASSUME ~StopClear(u), ~ReportWrite(u), ~StopFlag(u)
      PROVE  u \notin enabled /\ observed'[u] = observed[u]
    <2>1. ASSUME NEW w \in Users, w # u, StopClear(w) \/ ReportWrite(w)
          PROVE  observed'[u] = observed[u]
        BY <1>1, <2>1 DEF StopClear, Forget, ReportWrite
    <2>2. observed' = observed \/ \E w \in Users : StopClear(w) \/ ReportWrite(w)
        BY DEF Next, vars, proximityVars, Tick, Register, PutProfile, IssueStart,
               IssueRefuse, IssueReuse, IssueNew, SwitchOn, SetFlag, StopFlag, StopRead,
               StopUnmap, ReportAdmit, ReportResolve, ReportRead, Crash
    <2>3. ASSUME NEW w \in Users, w # u, StopFlag(w)
          PROVE  u \notin enabled
        BY <2>3 DEF StopFlag, SetFlag
    <2>4. enabled \subseteq enabled' \/ \E w \in Users : StopFlag(w)
        BY DEF Next, vars, proximityVars, Tick, Register, PutProfile, IssueStart,
               IssueRefuse, IssueReuse, IssueNew, SwitchOn, SetFlag, StopRead,
               StopUnmap, StopClear, Forget, ReportAdmit, ReportResolve, ReportRead,
               ReportWrite, Crash
    <2>5. QED
        BY <1>5, <2>1, <2>2, <2>3, <2>4
<1>6. CASE ~StopClear(u) /\ ~ReportWrite(u) /\ ~StopFlag(u)
    <2>1. stopping[u].step # "idle" \/ u \in leftover
        BY <1>1, <1>5, <1>6 DEF OffForgets
    <2>2. QED
        BY <1>1, <1>6, <2>1, StoppingStays
<1>7. QED
    BY <1>2, <1>3, <1>4, <1>6

\* The strengthened invariant is inductive.
LEMMA NextInv == IInv /\ [Next]_vars => IInv'
BY NextTypes, ReportsKept, OwnersKept, SightingsKept, CurrentKept, OffKept DEF IInv

\* So it holds in every reachable state.
LEMMA Invariance == Spec => []IInv
BY InitInv, NextInv, PTL DEF Spec

-----------------------------------------------------------------------------
(***************************************************************************)
(* Theorems                                                                *)
(***************************************************************************)

\* Nobody is observed later than the life of an identifier of theirs, however
\* slow the reports are.
THEOREM SightingsAlwaysRest == Spec => []SightingsRestOnIdentifiers
<1>1. IInv => SightingsRestOnIdentifiers
    BY DEF IInv
<1>2. QED
    BY <1>1, Invariance, PTL

\* What is handed out again resolves, but for a switching off that is not over
\* or never finished.
THEOREM CurrentAlwaysResolves == Spec => []CurrentResolves
<1>1. IInv => CurrentResolves
    BY DEF IInv
<1>2. QED
    BY <1>1, Invariance, PTL

\* Switching off leaves no observations, but for the reports that overtake it
\* and the crashes that cut it short.
THEOREM OffAlwaysForgets == Spec => []OffForgets
<1>1. IInv => OffForgets
    BY DEF IInv
<1>2. QED
    BY <1>1, Invariance, PTL

-----------------------------------------------------------------------------
(***************************************************************************)
(* Discovery implements Proximity                                          *)
(***************************************************************************)

\* The write that ends a report is one observation of Proximity: its reporter
\* and everyone in it have profiles, and its moment has passed.
LEMMA WriteObserves ==
    ASSUME IInv, NEW o \in Users, ReportWrite(o)
    PROVE  Observe(o, reporting[o].users, reporting[o].moment)
<1>1. /\ o \in profiled
      /\ reporting[o].users # {}
      /\ reporting[o].users \subseteq profiled \ {o}
    BY DEF IInv, ReportsRight, ReportWrite
<1>2. QED
    BY <1>1 DEF Observe, ReportWrite

\* Every command is a step of Proximity or does not concern it.
LEMMA StepsObserve == IInv /\ [Next]_vars => [ProximityNext]_proximityVars
<1> SUFFICES ASSUME IInv, [Next]_vars
             PROVE  [ProximityNext]_proximityVars
    OBVIOUS
<1>1. CASE Tick \/ \E u \in Users : Register(u) \/ PutProfile(u)
    BY <1>1 DEF ProximityNext
<1>2. ASSUME NEW u \in Users, SwitchOn(u) \/ StopFlag(u)
      PROVE  ProximityNext
    BY <1>2 DEF SwitchOn, StopFlag, ProximityNext
<1>3. ASSUME NEW u \in Users, StopClear(u)
      PROVE  ProximityNext
    BY <1>3 DEF StopClear, ProximityNext
<1>4. ASSUME NEW u \in Users, ReportWrite(u)
      PROVE  ProximityNext
    <2>1. /\ reporting[u].users \in SUBSET Users
          /\ reporting[u].moment \in 1..now
        BY <1>4 DEF IInv, TypeOK, ReportsRight, ReportWrite
    <2>2. QED
        BY <1>4, <2>1, WriteObserves DEF ProximityNext
<1>5. \/ UNCHANGED proximityVars
      \/ Tick \/ \E u \in Users : Register(u) \/ PutProfile(u)
      \/ \E u \in Users : SwitchOn(u) \/ StopFlag(u) \/ StopClear(u) \/ ReportWrite(u)
    BY DEF Next, vars, IssueStart, IssueRefuse, IssueReuse, IssueNew, StopRead,
           StopUnmap, ReportAdmit, ReportResolve, ReportRead, Crash
<1>6. QED
    BY <1>1, <1>2, <1>3, <1>4, <1>5

\* The handlers of discovery, with the reads that precede each command and
\* their crashes, implement the specification that Messaging is built on.
THEOREM ImplementsProximity == Spec => ProximitySpec
<1>1. Init => ProximityInit
    BY DEF Init
<1>2. QED
    BY <1>1, StepsObserve, Invariance, PTL DEF Spec, ProximitySpec

=============================================================================
