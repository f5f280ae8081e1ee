-------------------------- MODULE PushTokensProofs --------------------------
(***************************************************************************)
(* A delivery sends to its user's devices, and a live device is reached,   *)
(* for any number of users and devices, any lifetime, and any number of    *)
(* deliveries at once to whomever they are.  The argument: a place on a    *)
(* list that counts when a delivery takes the clock rests on an owner key, *)
(* and while that key lives whoever registers takes the place away before  *)
(* the delivery reads it; and a list lives at least as long as the last    *)
(* registration of any of its devices counts.                              *)
(***************************************************************************)
EXTENDS PushTokens, TLAPS

\* The token has a place on the user's list that a read at this instant keeps.
Counts(u, t) == listed[u][t] # Never /\ (u \in legacy \/ now <= listed[u][t] + Ttl)

\* A place that counts is the owner's, whose key lives at least as long.
PlacesRestOnOwner ==
    \A t \in Tokens \ overtaken, u \in Users :
        Counts(u, t) => /\ holder[t] = u /\ owner[t] = u
                        /\ ownerUntil[t] >= listed[u][t] + Ttl
                        /\ u \in legacy => ownerUntil[t] = Forever

\* A drop that nobody overtook still knows the owner, and when it comes to
\* delete the token's keys the token counts nowhere.
DropsRight ==
    \A d \in Deliveries :
        LET t == delivery[d].token IN
        /\ t \in Tokens \ overtaken /\ delivery[d].step \in {"shape", "remove"} =>
              owner[t] \in {delivery[d].of, None}
        /\ t \in Tokens \ overtaken /\ delivery[d].step = "delete" =>
              \A u \in Users : ~Counts(u, t)

\* An owner key names whoever registered last.
OwnersRight == \A t \in Tokens : owner[t] \in {holder[t], None}

\* The device is the user's that the delivery is for, or its handover is the
\* delivery's to miss.
Missable(d, t) == holder[t] = delivery[d].to \/ t \in away[d]

\* What the delivery would read by now, and what it has read.
ReadRight(d) ==
    /\ delivery[d].step = "reading" =>
          /\ delivery[d].moment <= now
          /\ \A t \in KeptBy(delivery[d].to, delivery[d].moment) \ overtaken : Missable(d, t)
    /\ delivery[d].step = "sent" =>
          \A t \in delivery[d].tokens \ overtaken : Missable(d, t)

ReadsRight == \A d \in Deliveries : ReadRight(d)

\* What a registration within its lifetime promises its device.
ListsLastLongEnough ==
    \A t \in Tokens \ dropped :
        holder[t] # None /\ now <= seen[t] + Ttl =>
          /\ listed[holder[t]][t] # Never
          /\ holder[t] \in legacy \/ seen[t] <= listed[holder[t]][t]
          /\ seen[t] + Ttl <= listUntil[holder[t]]

\* Clock samples are past ones; who still has a plain set has not registered
\* since the server was updated.
SamplesRight ==
    /\ \A u \in Users, t \in Tokens : listed[u][t] <= MaxTime
    /\ \A t \in Tokens : seen[t] <= now
    /\ \A t \in Tokens : holder[t] \in legacy => seen[t] <= 1

IInv ==
    /\ TypeOK
    /\ PlacesRestOnOwner
    /\ DropsRight
    /\ OwnersRight
    /\ ReadsRight
    /\ ListsLastLongEnough
    /\ SamplesRight

Lists == [Users -> [Tokens -> Nat]]

-----------------------------------------------------------------------------

\* An older server's plain sets and owners agree and do not expire.
LEMMA InitRight == Init => IInv
<1> SUFFICES ASSUME Init PROVE IInv
    OBVIOUS
<1> USE PushAssumption
<1>0. PICK old \in [Tokens -> Users \cup {None}] :
         /\ owner = old /\ holder = old
         /\ listed = [u \in Users |-> [t \in Tokens |-> IF old[t] = u THEN 1 ELSE Never]]
         /\ legacy = {old[t] : t \in Tokens} \ {None}
         /\ seen = [t \in Tokens |-> IF old[t] = None THEN Never ELSE 1]
    BY DEF Init
<1>1. /\ now = 1 /\ dropped = {} /\ overtaken = {}
      /\ ownerUntil = [t \in Tokens |-> IF owner[t] = None THEN Never ELSE Forever]
      /\ listUntil = [u \in Users |-> IF u \in legacy THEN Forever ELSE Never]
      /\ delivery = [d \in Deliveries |-> Idle]
      /\ away = [d \in Deliveries |-> {}]
    BY DEF Init
<1>2. Idle \in Tasks /\ Forever \in Nat /\ Never \in Nat
    BY DEF Idle, Tasks, Forever, Never
<1>3. TypeOK
    <2>1. legacy \subseteq Users
        BY <1>0
    <2>2. /\ delivery \in [Deliveries -> Tasks] /\ \A d \in Deliveries : TaskRight(delivery[d])
          /\ away \in [Deliveries -> SUBSET Tokens]
        BY <1>1, <1>2 DEF Idle, TaskRight
    <2>3. listed \in Lists
        BY <1>0, <1>2 DEF Lists
    <2>4. /\ ownerUntil \in [Tokens -> Nat] /\ listUntil \in [Users -> Nat]
          /\ seen \in [Tokens -> Nat]
        BY <1>0, <1>1, <1>2
    <2> QED
        BY <1>0, <1>1, <2>1, <2>2, <2>3, <2>4 DEF TypeOK, Lists
<1>4. \A u \in Users, t \in Tokens :
          /\ listed[u][t] = IF old[t] = u THEN 1 ELSE 0
          /\ old[t] = u => /\ u \in legacy /\ ownerUntil[t] = Forever
                           /\ listUntil[u] = Forever /\ seen[t] = 1
    BY <1>0, <1>1 DEF Never
<1>5. PlacesRestOnOwner
    BY <1>0, <1>4 DEF PlacesRestOnOwner, Counts, Never, Forever
<1>6. ListsLastLongEnough
    BY <1>0, <1>4 DEF ListsLastLongEnough, Never, Forever
<1>7. SamplesRight
    BY <1>0, <1>1, <1>4 DEF SamplesRight, Never
<1>8. DropsRight /\ OwnersRight /\ ReadsRight
    BY <1>0, <1>1 DEF DropsRight, OwnersRight, ReadsRight, ReadRight, Idle
<1> QED
    BY <1>3, <1>5, <1>6, <1>7, <1>8 DEF IInv

\* When places only go, a delivery that has taken the clock stays right, and the
\* step has to care for the deliveries it moves only.
LEMMA FewerPlacesKeepReads ==
    ASSUME IInv, UNCHANGED <<legacy, holder, overtaken>>, now' \in Nat, now <= now',
           \A u \in Users, t \in Tokens : listed'[u][t] \in {Never, listed[u][t]},
           \A d \in Deliveries : \/ delivery'[d] = delivery[d] /\ away'[d] = away[d]
                                 \/ ReadRight(d)'
    PROVE  ReadsRight'
<1> SUFFICES ASSUME NEW d \in Deliveries,
                    delivery'[d] = delivery[d], away'[d] = away[d]
             PROVE  ReadRight(d)'
    BY DEF ReadsRight
<1>0. /\ delivery[d] \in Tasks /\ now \in Nat
      /\ delivery[d].step = "reading" => delivery[d].to \in Users
      /\ ReadRight(d)
    BY DEF IInv, TypeOK, Tasks, TaskRight, ReadsRight
<1>1. ASSUME delivery[d].step = "reading"
      PROVE  KeptBy(delivery[d].to, delivery[d].moment)'
               \subseteq KeptBy(delivery[d].to, delivery[d].moment)
    BY <1>0, <1>1 DEF KeptBy
<1>2. CASE delivery[d].step = "reading"
    <2>1. delivery[d].moment <= now'
        BY <1>0, <1>2 DEF ReadRight, Tasks
    <2> QED
        BY <1>0, <1>1, <1>2, <2>1 DEF ReadRight, Missable
<1>3. CASE delivery[d].step # "reading"
    BY <1>0, <1>3 DEF ReadRight, Missable
<1> QED
    BY <1>2, <1>3

\* A step that only moves deliveries is right if each task it leaves is.
LEMMA TasksKeep ==
    ASSUME IInv, UNCHANGED <<now, keyVars, holder, seen, dropped, overtaken>>,
           delivery' \in [Deliveries -> Tasks], away' \in [Deliveries -> SUBSET Tokens],
           \A d \in Deliveries : TaskRight(delivery'[d]),
           DropsRight', ReadsRight'
    PROVE  IInv'
<1>1. TypeOK'
    BY DEF IInv, TypeOK, keyVars
<1>2. PlacesRestOnOwner' /\ OwnersRight' /\ ListsLastLongEnough' /\ SamplesRight'
    BY DEF IInv, PlacesRestOnOwner, OwnersRight, ListsLastLongEnough, SamplesRight, Counts,
           keyVars, Forever
<1> QED
    BY <1>1, <1>2 DEF IInv

\* One task moves: it takes the clock, hears of its sends, or is at the commands of
\* a drop that only read; or it is over.
LEMMA TaskMoves ==
    ASSUME IInv, NEW d \in Deliveries, NEW task \in Tasks, TaskRight(task),
           delivery' = [delivery EXCEPT ![d] = task],
           away' \in [Deliveries -> SUBSET Tokens],
           \A e \in Deliveries : e # d => away'[e] = away[e],
           UNCHANGED <<now, keyVars, holder, seen, dropped, overtaken>>,
           \/ task.step \in {"idle", "owner"}
           \/ /\ task.step = "reading" /\ task.moment = now
           \/ /\ task.step \in {"shape", "remove"}
              /\ task.token \in Tokens \ overtaken => owner[task.token] \in {task.of, None}
           \/ /\ task.step = "delete"
              /\ task.token \in Tokens \ overtaken => owner[task.token] = None
    PROVE  IInv'
<1> USE PushAssumption
<1>0. /\ delivery \in [Deliveries -> Tasks] /\ \A e \in Deliveries : TaskRight(delivery[e])
      /\ now \in 1..MaxTime /\ listed \in Lists
    BY DEF IInv, TypeOK, Lists
<1>1. \A e \in Deliveries : delivery'[e] = IF e = d THEN task ELSE delivery[e]
    BY <1>0
<1>2. task.token \in Tokens \ overtaken /\ task.step = "delete" =>
          \A u \in Users : ~Counts(u, task.token)
    BY DEF IInv, PlacesRestOnOwner
<1>3. DropsRight'
    BY <1>1, <1>2 DEF IInv, DropsRight, Counts, keyVars
<1>4. ReadRight(d)'
    <2>1. CASE task.step = "reading"
        <3>1. task.to \in Users /\ task.moment = now
            BY <2>1 DEF Tasks, TaskRight
        <3>2. \A t \in KeptBy(task.to, now) \ overtaken : holder[t] = task.to
            BY <3>1 DEF IInv, PlacesRestOnOwner, Counts, KeptBy
        <3>3. KeptBy(task.to, now)' = KeptBy(task.to, now)
            BY DEF KeptBy, keyVars
        <3> QED
            BY <1>0, <1>1, <2>1, <3>1, <3>2, <3>3 DEF ReadRight, Missable
    <2>2. CASE task.step # "reading"
        BY <1>1, <2>2 DEF ReadRight
    <2> QED
        BY <2>1, <2>2
<1>5. ReadsRight'
    BY <1>0, <1>1, <1>4, FewerPlacesKeepReads DEF keyVars
<1> QED
    BY <1>0, <1>1, <1>3, <1>5, TasksKeep

\* A new delivery, its sends, and the commands of a drop that only read.
LEMMA ReadingKeeps ==
    ASSUME IInv,
           \/ Stop
           \/ \E d \in Deliveries : \/ \E u \in Users : Deliver(d, u)
                                    \/ \E answers \in [Tokens -> Answers] : Outcomes(d, answers)
                                    \/ \E t \in Tokens : DropOwner(d, t)
                                    \/ DropShape(d) \/ DropWrongType(d)
    PROVE  IInv'
<1>0. /\ delivery \in [Deliveries -> Tasks] /\ \A d \in Deliveries : TaskRight(delivery[d])
      /\ owner \in [Tokens -> Users \cup {None}] /\ now \in 1..MaxTime
      /\ away \in [Deliveries -> SUBSET Tokens]
    BY DEF IInv, TypeOK
<1>1. Idle \in Tasks /\ TaskRight(Idle) /\ Idle.step = "idle"
    BY DEF Idle, Tasks, TaskRight, Never
<1>2. CASE Stop
    <2>1. /\ delivery' = [d \in Deliveries |-> Idle] /\ away' = [d \in Deliveries |-> {}]
          /\ UNCHANGED <<now, keyVars, holder, seen, dropped, overtaken>>
        BY <1>2 DEF Stop
    <2>2. DropsRight' /\ ReadsRight'
        BY <1>1, <2>1 DEF DropsRight, ReadsRight, ReadRight
    <2> QED
        BY <1>1, <2>1, <2>2, TasksKeep
<1>3. ASSUME NEW d \in Deliveries, NEW u \in Users, Deliver(d, u)
      PROVE  IInv'
    <2> DEFINE task == [Idle EXCEPT !.step = "reading", !.to = u, !.moment = now]
    <2>1. /\ task \in Tasks /\ TaskRight(task)
          /\ task.step = "reading" /\ task.moment = now
        <3>1. now \in Nat /\ u # None
            BY <1>0, PushAssumption
        <3>2. /\ Idle \in Tasks /\ task.step = "reading" /\ task.to = u /\ task.moment = now
            BY <1>1 DEF Idle
        <3>3. task \in Tasks
            BY <1>1, <3>1 DEF Tasks
        <3> HIDE DEF task
        <3> QED
            BY <3>1, <3>2, <3>3 DEF TaskRight
    <2>2. /\ delivery' = [delivery EXCEPT ![d] = task]
          /\ UNCHANGED <<now, keyVars, historyVars>>
        BY <1>3 DEF Deliver
    <2> HIDE DEF task
    <2> QED
        BY <1>0, <2>1, <2>2, TaskMoves DEF historyVars
<1>4. ASSUME NEW d \in Deliveries, NEW answers \in [Tokens -> Answers], Outcomes(d, answers)
      PROVE  IInv'
    <2> DEFINE dead == {t \in delivery[d].tokens : Dead(answers[t])}
               task == IF dead = {} THEN Idle
                       ELSE [Idle EXCEPT !.step = "owner", !.to = delivery[d].to,
                                         !.tokens = dead]
    <2>1. dead \subseteq Tokens /\ delivery[d].step = "sent"
        BY <1>0, <1>4 DEF Tasks, Outcomes
    <2>2. /\ delivery' = [delivery EXCEPT ![d] = task]
          /\ away' = [away EXCEPT ![d] = {}]
          /\ UNCHANGED <<now, keyVars, holder, seen, dropped, overtaken>>
        BY <1>4 DEF Outcomes
    <2> HIDE DEF dead
    <2>3. task \in Tasks /\ TaskRight(task) /\ task.step \in {"idle", "owner"}
        BY <1>0, <2>1 DEF Idle, Tasks, TaskRight, Never
    <2> HIDE DEF task
    <2>4. away' \in [Deliveries -> SUBSET Tokens] /\ \A e \in Deliveries : e # d => away'[e] = away[e]
        BY <1>0, <2>2
    <2> QED
        BY <2>2, <2>3, <2>4, TaskMoves
<1>5. ASSUME NEW d \in Deliveries, NEW t \in Tokens, DropOwner(d, t)
      PROVE  IInv'
    <2> DEFINE task == [delivery[d] EXCEPT !.step = CommandAfterOwner(t), !.tokens = @ \ {t},
                                           !.token = t, !.of = owner[t]]
    <2>0. delivery[d].step = "owner" /\ CommandAfterOwner(t) \in {"shape", "delete"}
        BY <1>5 DEF DropOwner, CommandAfterOwner
    <2>1. task \in Tasks /\ TaskRight(task)
        <3>1. /\ delivery[d] \in Tasks /\ delivery[d].to # None
              /\ owner[t] \in Users \cup {None}
              /\ CommandAfterOwner(t) = "shape" => owner[t] # None
            BY <1>0, <2>0 DEF TaskRight, CommandAfterOwner
        <3>2. task \in Tasks
            BY <2>0, <3>1 DEF Tasks
        <3>3. /\ task.step = CommandAfterOwner(t) /\ task.to = delivery[d].to
              /\ task.of = owner[t] /\ task.token = t
            BY <3>1 DEF Tasks
        <3> HIDE DEF task
        <3> QED
            BY <2>0, <3>1, <3>2, <3>3, PushAssumption DEF TaskRight
    <2>2. /\ delivery' = [delivery EXCEPT ![d] = task]
          /\ UNCHANGED <<now, keyVars, historyVars>>
        BY <1>5 DEF DropOwner
    <2>3. /\ task.token = t /\ task.of = owner[t] /\ task.step = CommandAfterOwner(t)
          /\ task.step \in {"shape", "delete"} /\ (task.step = "delete" => owner[t] = None)
        BY <1>0, <2>0 DEF CommandAfterOwner, Tasks
    <2> HIDE DEF task
    <2> QED
        BY <1>0, <2>1, <2>2, <2>3, TaskMoves DEF historyVars
<1>6. ASSUME NEW d \in Deliveries, DropShape(d)
      PROVE  IInv'
    <2> DEFINE s == Shape(delivery[d].of)
               task == [delivery[d] EXCEPT !.step = "remove", !.shape = s]
    <2>0. s \in {"none", "set", "zset"}
        BY DEF Shape
    <2> HIDE DEF s
    <2>1. task \in Tasks /\ TaskRight(task)
        BY <1>0, <1>6, <2>0 DEF Tasks, TaskRight, DropShape
    <2>2. /\ delivery' = [delivery EXCEPT ![d] = task]
          /\ UNCHANGED <<now, keyVars, historyVars>>
        BY <1>0, <1>6 DEF DropShape, Goes, Tasks, s
    <2>3. /\ task.step = "remove" /\ task.token = delivery[d].token /\ task.of = delivery[d].of
          /\ task.token \in Tokens \ overtaken => owner[task.token] \in {task.of, None}
        BY <1>0, <1>6 DEF DropShape, Tasks, IInv, DropsRight
    <2> HIDE DEF task
    <2> QED
        BY <1>0, <2>1, <2>2, <2>3, TaskMoves DEF historyVars
<1>7. ASSUME NEW d \in Deliveries, DropWrongType(d)
      PROVE  IInv'
    <2>1. /\ delivery' = [delivery EXCEPT ![d] = Idle]
          /\ UNCHANGED <<now, keyVars, historyVars>>
        BY <1>7 DEF DropWrongType
    <2> QED
        BY <1>0, <1>1, <2>1, TaskMoves DEF historyVars
<1> QED
    BY <1>2, <1>3, <1>4, <1>5, <1>6, <1>7

\* Reading drops places that count no more; a device's last registration is
\* never among them while its lifetime lasts.
LEMMA DeliverReadKeeps ==
    ASSUME IInv, NEW d \in Deliveries, DeliverRead(d)
    PROVE  IInv'
<1> USE PushAssumption
<1> DEFINE u == delivery[d].to
           moment == delivery[d].moment
           kept == KeptBy(u, moment)
           task == IF kept = {} THEN Idle
                   ELSE [Idle EXCEPT !.step = "sent", !.to = u, !.tokens = kept]
<1>0. /\ delivery \in [Deliveries -> Tasks] /\ \A e \in Deliveries : TaskRight(delivery[e])
      /\ away \in [Deliveries -> SUBSET Tokens]
      /\ listed \in Lists /\ now \in 1..MaxTime /\ kept \subseteq Tokens
      /\ delivery[d].step = "reading"
    BY DEF IInv, TypeOK, Lists, KeptBy, DeliverRead
<1>a. u \in Users /\ moment \in Nat /\ moment <= now
    BY <1>0 DEF Tasks, TaskRight, IInv, ReadsRight, ReadRight
<1>1. /\ listed' = [listed EXCEPT ![u] = Restricted(listed[u], kept)]
      /\ delivery' = [delivery EXCEPT ![d] = task]
      /\ away' = [away EXCEPT ![d] = @ \cap kept]
      /\ UNCHANGED <<now, owner, ownerUntil, listUntil, legacy,
                     holder, seen, dropped, overtaken>>
    BY DEF DeliverRead
<1>2. /\ delivery' \in [Deliveries -> Tasks] /\ away' \in [Deliveries -> SUBSET Tokens]
      /\ \A e \in Deliveries : TaskRight(delivery'[e])
      /\ \A e \in Deliveries : e # d => delivery'[e] = delivery[e] /\ away'[e] = away[e]
      /\ delivery'[d].step \in {"idle", "sent"}
      /\ delivery'[d].step = "sent" => delivery'[d].to = u /\ delivery'[d].tokens = kept
      /\ away'[d] = away[d] \cap kept
    <2>1. /\ task \in Tasks /\ TaskRight(task) /\ task.step \in {"idle", "sent"}
          /\ task.step = "sent" => task.to = u /\ task.tokens = kept
        BY <1>0, <1>a DEF Idle, Tasks, TaskRight, Never
    <2> HIDE DEF task
    <2> QED
        BY <1>0, <1>1, <2>1
<1> HIDE DEF task
<1>3. \A v \in Users, t \in Tokens :
          listed'[v][t] = IF v = u /\ t \notin kept THEN Never ELSE listed[v][t]
    BY <1>0, <1>1, <1>a DEF Lists, Restricted
<1>4. listed' \in Lists
    BY <1>0, <1>1, <1>a DEF Lists, Restricted, Never
<1>5. TypeOK'
    BY <1>1, <1>2, <1>4 DEF IInv, TypeOK, Lists
<1>6. \A v \in Users, t \in Tokens :
          Counts(v, t)' => Counts(v, t) /\ listed'[v][t] = listed[v][t]
    BY <1>1, <1>3 DEF Counts, Never
<1>7. PlacesRestOnOwner'
    BY <1>1, <1>6 DEF IInv, PlacesRestOnOwner, Forever
<1>8. DropsRight'
    BY <1>1, <1>2, <1>6 DEF IInv, DropsRight
<1>9. ListsLastLongEnough'
    <2> SUFFICES ASSUME NEW t \in Tokens \ dropped, holder[t] # None,
                        now <= seen[t] + Ttl
                 PROVE  /\ listed'[holder[t]][t] # Never
                        /\ holder[t] \in legacy \/ seen[t] <= listed'[holder[t]][t]
                        /\ seen[t] + Ttl <= listUntil[holder[t]]
        BY <1>1 DEF ListsLastLongEnough
    <2>1. holder[t] \in Users /\ seen[t] \in Nat
        BY DEF IInv, TypeOK
    <2>2. /\ listed[holder[t]][t] # Never
          /\ holder[t] \in legacy \/ seen[t] <= listed[holder[t]][t]
          /\ seen[t] + Ttl <= listUntil[holder[t]]
        BY DEF IInv, ListsLastLongEnough
    <2>3. holder[t] = u => t \in kept
        BY <1>0, <1>1, <1>a, <2>1, <2>2 DEF KeptBy, Lists
    <2> QED
        BY <1>3, <2>1, <2>2, <2>3
<1>10. SamplesRight'
    BY <1>1, <1>3 DEF IInv, SamplesRight, Never
<1>11. ReadRight(d)'
    <2>1. \A t \in kept \ overtaken : Missable(d, t)
        BY <1>0 DEF IInv, ReadsRight, ReadRight
    <2> QED
        BY <1>1, <1>2, <2>1 DEF ReadRight, Missable
<1>12. ReadsRight'
    BY <1>0, <1>1, <1>2, <1>3, <1>11, FewerPlacesKeepReads
<1>13. OwnersRight'
    BY <1>1 DEF IInv, OwnersRight
<1> QED
    BY <1>5, <1>7, <1>8, <1>9, <1>10, <1>12, <1>13 DEF IInv

\* The place that a drop takes away is the last one that may count: the token
\* counts with its owner only, and that is who the drop has read, unless the
\* device registered meanwhile.
LEMMA DropRemoveKeeps ==
    ASSUME IInv, NEW d \in Deliveries, DropRemove(d)
    PROVE  IInv'
<1> USE PushAssumption
<1> DEFINE v == delivery[d].of
           t == delivery[d].token
<1>0. /\ delivery \in [Deliveries -> Tasks] /\ \A e \in Deliveries : TaskRight(delivery[e])
      /\ listed \in Lists /\ v \in Users /\ t \in Tokens
    BY DEF IInv, TypeOK, Tasks, TaskRight, Lists, DropRemove
<1>1. /\ listed' = [listed EXCEPT ![v] = [listed[v] EXCEPT ![t] = Never]]
      /\ dropped' = dropped \cup {t}
      /\ delivery' = [delivery EXCEPT ![d].step = "delete"]
      /\ UNCHANGED <<now, owner, ownerUntil, listUntil, legacy, holder, seen, overtaken,
                     away>>
      /\ delivery[d].step = "remove"
    BY <1>0 DEF DropRemove, Removed, Goes
<1>2. /\ delivery' \in [Deliveries -> Tasks] /\ \A e \in Deliveries : TaskRight(delivery'[e])
      /\ \A e \in Deliveries : e # d => delivery'[e] = delivery[e]
      /\ delivery'[d].step = "delete" /\ delivery'[d].token = t
    BY <1>0, <1>1 DEF Tasks, TaskRight
<1>3. \A w \in Users, x \in Tokens :
          listed'[w][x] = IF w = v /\ x = t THEN Never ELSE listed[w][x]
    BY <1>0, <1>1 DEF Lists
<1>4. listed' \in Lists
    BY <1>0, <1>1 DEF Lists, Never
<1>5. TypeOK'
    BY <1>0, <1>1, <1>2, <1>4 DEF IInv, TypeOK, Tasks, TaskRight, Lists
<1>6. \A w \in Users, x \in Tokens :
          Counts(w, x)' => Counts(w, x) /\ listed'[w][x] = listed[w][x] /\ ~(w = v /\ x = t)
    BY <1>1, <1>3 DEF Counts, Never
<1>7. PlacesRestOnOwner'
    BY <1>1, <1>6 DEF IInv, PlacesRestOnOwner, Forever
<1>8. DropsRight'
    <2>1. \A x \in Tokens \ overtaken, w \in Users : x = t => ~Counts(w, x)'
        <3> SUFFICES ASSUME NEW x \in Tokens \ overtaken, NEW w \in Users,
                            x = t, Counts(w, x)'
                     PROVE  FALSE
            OBVIOUS
        <3>1. owner[t] \in {v, None}
            BY <1>0, <1>1 DEF IInv, DropsRight
        <3>2. Counts(w, x) /\ w # v
            BY <1>6
        <3>3. owner[x] = w
            BY <3>2 DEF IInv, PlacesRestOnOwner
        <3> QED
            BY <3>1, <3>2, <3>3
    <2> QED
        BY <1>0, <1>1, <1>2, <1>6, <2>1 DEF IInv, DropsRight
<1>9. ListsLastLongEnough'
    BY <1>0, <1>1, <1>3 DEF IInv, TypeOK, ListsLastLongEnough
<1>10. SamplesRight'
    BY <1>1, <1>3 DEF IInv, SamplesRight, Never
<1>11. ReadsRight' /\ OwnersRight'
    <2>1. ReadRight(d)'
        BY <1>2 DEF ReadRight
    <2>2. ReadsRight'
        BY <1>0, <1>1, <1>2, <1>3, <2>1, FewerPlacesKeepReads DEF IInv, TypeOK
    <2> QED
        BY <1>1, <2>2 DEF IInv, OwnersRight
<1> QED
    BY <1>5, <1>7, <1>8, <1>9, <1>10, <1>11 DEF IInv

\* The owner key goes when the token counts nowhere.
LEMMA DropDeleteKeeps ==
    ASSUME IInv, NEW d \in Deliveries, DropDelete(d)
    PROVE  IInv'
<1> USE PushAssumption
<1> DEFINE t == delivery[d].token
           task == IF delivery[d].tokens = {} THEN Idle
                   ELSE [Idle EXCEPT !.step = "owner", !.to = delivery[d].to,
                                     !.tokens = delivery[d].tokens]
<1>0. /\ delivery \in [Deliveries -> Tasks] /\ \A e \in Deliveries : TaskRight(delivery[e])
      /\ t \in Tokens /\ delivery[d].step = "delete"
      /\ owner \in [Tokens -> Users \cup {None}] /\ ownerUntil \in [Tokens -> Nat]
    BY DEF IInv, TypeOK, Tasks, TaskRight, DropDelete
<1>1. /\ owner' = [owner EXCEPT ![t] = None]
      /\ ownerUntil' = [ownerUntil EXCEPT ![t] = Never]
      /\ delivery' = [delivery EXCEPT ![d] = task]
      /\ UNCHANGED <<now, listed, listUntil, legacy, historyVars>>
    BY DEF DropDelete
<1>2. task \in Tasks /\ TaskRight(task) /\ task.step \in {"idle", "owner"}
    BY <1>0 DEF Idle, Tasks, TaskRight, Never
<1> HIDE DEF task
<1>3. /\ delivery' \in [Deliveries -> Tasks] /\ \A e \in Deliveries : TaskRight(delivery'[e])
      /\ \A e \in Deliveries : \/ delivery'[e] = delivery[e]
                               \/ delivery'[e].step \in {"idle", "owner"}
    BY <1>0, <1>1, <1>2
<1>4. t \notin overtaken => \A w \in Users : ~Counts(w, t)
    BY <1>0 DEF IInv, DropsRight
<1>5. \A w \in Users, x \in Tokens : Counts(w, x)' = Counts(w, x)
    BY <1>1 DEF Counts
<1>6. TypeOK'
    BY <1>0, <1>1, <1>3 DEF IInv, TypeOK, Tasks, TaskRight, historyVars, Never
<1>7. PlacesRestOnOwner'
    BY <1>0, <1>1, <1>4, <1>5 DEF IInv, PlacesRestOnOwner, historyVars, Forever
<1>8. DropsRight'
    BY <1>0, <1>1, <1>3, <1>5 DEF IInv, DropsRight, historyVars
<1>9. ListsLastLongEnough' /\ SamplesRight'
    BY <1>1 DEF IInv, ListsLastLongEnough, SamplesRight, historyVars
<1>10. ReadsRight' /\ OwnersRight'
    <2>1. \A e \in Deliveries : delivery'[e] = delivery[e] \/ ReadRight(e)'
        BY <1>3 DEF ReadRight
    <2>2. ReadsRight'
        BY <1>1, <2>1, FewerPlacesKeepReads DEF IInv, TypeOK, historyVars
    <2> QED
        BY <1>0, <1>1, <2>2 DEF IInv, OwnersRight, historyVars
<1> QED
    BY <1>6, <1>7, <1>8, <1>9, <1>10 DEF IInv

\* A key that a place rests on is still there when the place counts on.
LEMMA TickKeeps ==
    ASSUME IInv, Tick
    PROVE  IInv'
<1> USE PushAssumption
<1>0. /\ now \in 1..MaxTime /\ listed \in Lists /\ legacy \subseteq Users
      /\ owner \in [Tokens -> Users \cup {None}] /\ ownerUntil \in [Tokens -> Nat]
      /\ listUntil \in [Users -> Nat] /\ seen \in [Tokens -> Nat]
      /\ holder \in [Tokens -> Users \cup {None}]
    BY DEF IInv, TypeOK, Lists
<1>1. /\ now < MaxTime /\ now' = now + 1
      /\ owner' = [t \in Tokens |-> IF now < ownerUntil[t] THEN owner[t] ELSE None]
      /\ ownerUntil' = [t \in Tokens |-> IF now < ownerUntil[t] THEN ownerUntil[t] ELSE Never]
      /\ listed' = [u \in Users |-> IF now < listUntil[u] THEN listed[u] ELSE NoDevice]
      /\ listUntil' = [u \in Users |-> IF now < listUntil[u] THEN listUntil[u] ELSE Never]
      /\ UNCHANGED <<legacy, delivery, historyVars>>
    BY DEF Tick
<1>2. /\ \A u \in Users, t \in Tokens :
            listed'[u][t] = IF now < listUntil[u] THEN listed[u][t] ELSE Never
      /\ listed' \in Lists
    BY <1>0, <1>1 DEF Lists, NoDevice, Never
<1>3. TypeOK'
    BY <1>0, <1>1, <1>2 DEF IInv, TypeOK, Lists, historyVars, Never
<1>4. \A u \in Users, t \in Tokens :
          Counts(u, t)' => Counts(u, t) /\ listed'[u][t] = listed[u][t]
    BY <1>0, <1>1, <1>2 DEF Counts, Lists, Never
<1>5. PlacesRestOnOwner'
    <2> SUFFICES ASSUME NEW t \in Tokens \ overtaken, NEW u \in Users, Counts(u, t)'
                 PROVE  /\ holder[t] = u /\ owner'[t] = u
                        /\ ownerUntil'[t] >= listed'[u][t] + Ttl
                        /\ u \in legacy => ownerUntil'[t] = Forever
        BY <1>1 DEF PlacesRestOnOwner, historyVars, Forever
    <2>1. /\ holder[t] = u /\ owner[t] = u
          /\ ownerUntil[t] >= listed[u][t] + Ttl
          /\ u \in legacy => ownerUntil[t] = Forever
          /\ listed'[u][t] = listed[u][t] /\ listed[u][t] \in Nat
        BY <1>0, <1>4 DEF IInv, PlacesRestOnOwner, Lists
    <2>2. u \in legacy \/ now + 1 <= listed[u][t] + Ttl
        BY <1>1, <2>1 DEF Counts
    <2>3. now < ownerUntil[t]
        BY <1>0, <2>1, <2>2 DEF Forever
    <2> QED
        BY <1>1, <2>1, <2>3
<1>6. DropsRight'
    <2>1. \A t \in Tokens : owner'[t] \in {owner[t], None}
        BY <1>1
    <2> QED
        BY <1>1, <1>4, <2>1 DEF IInv, DropsRight, historyVars
<1>7. ListsLastLongEnough'
    <2> SUFFICES ASSUME NEW t \in Tokens \ dropped, holder[t] # None,
                        now + 1 <= seen[t] + Ttl
                 PROVE  /\ listed'[holder[t]][t] # Never
                        /\ holder[t] \in legacy \/ seen[t] <= listed'[holder[t]][t]
                        /\ seen[t] + Ttl <= listUntil'[holder[t]]
        BY <1>1 DEF ListsLastLongEnough, historyVars
    <2>1. holder[t] \in Users /\ seen[t] \in Nat
        BY <1>0
    <2>2. /\ listed[holder[t]][t] # Never
          /\ holder[t] \in legacy \/ seen[t] <= listed[holder[t]][t]
          /\ seen[t] + Ttl <= listUntil[holder[t]]
        BY <1>0, <2>1 DEF IInv, ListsLastLongEnough
    <2>3. now < listUntil[holder[t]]
        BY <1>0, <2>1, <2>2
    <2> QED
        BY <1>1, <1>2, <2>1, <2>2, <2>3
<1>8. SamplesRight'
    BY <1>0, <1>1, <1>2 DEF IInv, SamplesRight, historyVars, Never
<1>9. ReadsRight'
    BY <1>0, <1>1, <1>2, FewerPlacesKeepReads DEF historyVars
<1>10. OwnersRight'
    BY <1>1 DEF IInv, OwnersRight, historyVars
<1> QED
    BY <1>3, <1>5, <1>6, <1>7, <1>8, <1>9, <1>10 DEF IInv

\* A registration moves the device to its user's list, off the previous owner's,
\* and both lists outlive the other devices on them.
LEMMA PutTokenKeeps ==
    ASSUME IInv, NEW u \in Users, NEW t \in Tokens, NEW moment \in 1..MaxTime,
           PutToken(u, t, moment)
    PROVE  IInv'
<1> USE PushAssumption
<1>0. /\ now \in 1..MaxTime /\ listed \in Lists /\ legacy \subseteq Users
      /\ owner \in [Tokens -> Users \cup {None}] /\ ownerUntil \in [Tokens -> Nat]
      /\ listUntil \in [Users -> Nat] /\ seen \in [Tokens -> Nat]
      /\ holder \in [Tokens -> Users \cup {None}]
      /\ delivery \in [Deliveries -> Tasks] /\ \A d \in Deliveries : TaskRight(delivery[d])
      /\ away \in [Deliveries -> SUBSET Tokens]
    BY DEF IInv, TypeOK, Lists
<1>1. /\ moment <= now
      /\ legacy' = legacy \ ({u} \cup Previous(u, t))
      /\ owner' = [owner EXCEPT ![t] = u]
      /\ ownerUntil' = [ownerUntil EXCEPT ![t] = now + Ttl]
      /\ holder' = [holder EXCEPT ![t] = u]
      /\ seen' = [seen EXCEPT ![t] = moment]
      /\ dropped' = dropped \ {t}
      /\ overtaken' = IF BeingDropped(t) THEN overtaken \cup {t} ELSE overtaken
      /\ away' = [d \in Deliveries |->
                    CASE delivery[d].to = u -> away[d] \ {t}
                      [] Loses(d, u, t) -> away[d] \cup {t}
                      [] OTHER -> away[d]]
      /\ UNCHANGED <<now, delivery>>
    BY DEF PutToken
<1>2. \A v \in Users : Devices(v, moment) \in [Tokens -> Nat]
    BY <1>0 DEF Devices, Lists, Never
<1>3. /\ listed' \in Lists
      /\ \A v \in Users, x \in Tokens :
            listed'[v][x] =
              IF x = t /\ v = u THEN moment
              ELSE IF x = t /\ v \in Previous(u, t) THEN Never
              ELSE IF v \in {u} \cup Previous(u, t) THEN Devices(v, moment)[x]
              ELSE listed[v][x]
    <2>1. listed' = [v \in Users |->
                       CASE v = u -> [Devices(u, moment) EXCEPT ![t] = moment]
                         [] v \in Previous(u, t) -> [Devices(v, moment) EXCEPT ![t] = Never]
                         [] OTHER -> listed[v]]
        BY DEF PutToken
    <2>2. u \notin Previous(u, t)
        BY DEF Previous
    <2> QED
        BY <1>0, <1>2, <2>1, <2>2 DEF Lists, Never
<1>4. \A v \in Users : v \in legacy' <=> v \in legacy /\ v # u /\ v \notin Previous(u, t)
    BY <1>1
<1>5. /\ listUntil' \in [Users -> Nat]
      /\ listUntil'[u] = now + Ttl
      /\ \A v \in Users : v # u => \/ listUntil'[v] = listUntil[v]
                                  \/ listUntil'[v] = Forever
    <2>1. listUntil' = [v \in Users |-> ListLife(u, t, v)]
        BY DEF PutToken
    <2>2. ListLife(u, t, u) = now + Ttl
        <3>1. u \notin Previous(u, t)
            BY DEF Previous
        <3> QED
            BY <3>1 DEF ListLife
    <2>3. \A v \in Users : v # u => ListLife(u, t, v) \in {listUntil[v], Forever}
        BY DEF ListLife
    <2>4. now + Ttl \in Nat /\ Forever \in Nat
        BY <1>0 DEF Forever
    <2> QED
        BY <1>0, <2>1, <2>2, <2>3, <2>4
<1>6. \A v \in Users, x \in Tokens : x # t =>
          \/ listed'[v][x] = listed[v][x] /\ (v \in legacy' <=> v \in legacy)
          \/ /\ v \in legacy /\ v \notin legacy'
             /\ listed'[v][x] = IF listed[v][x] # Never THEN moment ELSE Never
    BY <1>3, <1>4 DEF Devices
<1>7. \A v \in Users, x \in Tokens : x # t /\ Counts(v, x)' => Counts(v, x)
    BY <1>1, <1>6 DEF Counts, Never
<1>8. TypeOK'
    BY <1>0, <1>1, <1>3, <1>5 DEF IInv, TypeOK, Lists
<1>9. PlacesRestOnOwner'
    <2>1. ASSUME NEW v \in Users, Counts(v, t)', t \notin overtaken'
          PROVE  /\ v = u /\ v \notin legacy' /\ listed'[v][t] = moment
        <3>1. t \notin overtaken
            BY <1>1, <2>1
        <3>2. ASSUME v # u PROVE FALSE
            <4>1. v \notin Previous(u, t)
                BY <1>3, <2>1, <3>2 DEF Counts
            <4>2. Counts(v, t)
                BY <1>1, <1>3, <1>4, <2>1, <3>2, <4>1 DEF Counts
            <4>3. owner[t] = v
                BY <3>1, <4>2 DEF IInv, PlacesRestOnOwner
            <4> QED
                BY <3>2, <4>1, <4>3 DEF Previous
        <3> QED
            BY <1>3, <1>4, <3>2
    <2>2. ASSUME NEW v \in Users, NEW x \in Tokens \ overtaken', x # t, Counts(v, x)'
          PROVE  /\ holder'[x] = v /\ owner'[x] = v
                 /\ ownerUntil'[x] >= listed'[v][x] + Ttl
                 /\ v \in legacy' => ownerUntil'[x] = Forever
        <3>1. /\ holder[x] = v /\ owner[x] = v
              /\ ownerUntil[x] >= listed[v][x] + Ttl
              /\ v \in legacy => ownerUntil[x] = Forever
            BY <1>1, <1>7, <2>2 DEF IInv, PlacesRestOnOwner
        <3>2. moment <= MaxTime
            OBVIOUS
        <3> QED
            BY <1>0, <1>1, <1>6, <2>2, <3>1, <3>2 DEF Forever, Counts, Never
    <2>3. moment + Ttl <= now + Ttl
        BY <1>0, <1>1
    <2> QED
        BY <1>0, <1>1, <2>1, <2>2, <2>3 DEF PlacesRestOnOwner, Forever
<1>10. DropsRight'
    <2> SUFFICES ASSUME NEW d \in Deliveries, NEW x \in Tokens \ overtaken',
                        delivery[d].token = x,
                        delivery[d].step \in {"shape", "remove", "delete"}
                 PROVE  /\ delivery[d].step \in {"shape", "remove"} =>
                               owner'[x] \in {delivery[d].of, None}
                        /\ delivery[d].step = "delete" => \A w \in Users : ~Counts(w, x)'
        BY <1>1 DEF DropsRight
    <2>1. x # t /\ x \notin overtaken
        BY <1>1 DEF BeingDropped
    <2> QED
        BY <1>0, <1>1, <1>7, <2>1 DEF IInv, DropsRight
<1>11. ListsLastLongEnough'
    <2> SUFFICES ASSUME NEW x \in Tokens \ dropped', holder'[x] # None,
                        now <= seen'[x] + Ttl
                 PROVE  /\ listed'[holder'[x]][x] # Never
                        /\ holder'[x] \in legacy' \/ seen'[x] <= listed'[holder'[x]][x]
                        /\ seen'[x] + Ttl <= listUntil'[holder'[x]]
        BY <1>1 DEF ListsLastLongEnough
    <2>1. CASE x = t
        BY <1>0, <1>1, <1>3, <1>5, <2>1 DEF Never
    <2>2. CASE x # t
        <3> DEFINE v == holder[x]
        <3>1. /\ holder'[x] = v /\ seen'[x] = seen[x] /\ x \notin dropped
              /\ v \in Users /\ seen[x] \in Nat /\ seen[x] <= now
            BY <1>0, <1>1, <2>2 DEF IInv, SamplesRight
        <3>2. /\ listed[v][x] # Never
              /\ v \in legacy \/ seen[x] <= listed[v][x]
              /\ seen[x] + Ttl <= listUntil[v]
              /\ v \in legacy => seen[x] <= 1
            BY <3>1 DEF IInv, ListsLastLongEnough, SamplesRight
        <3> HIDE DEF v
        <3>3. listed'[v][x] # Never /\ (v \in legacy' \/ seen[x] <= listed'[v][x])
            BY <1>6, <2>2, <3>1, <3>2 DEF Never
        <3>4. seen[x] + Ttl <= listUntil'[v]
            BY <1>0, <1>5, <3>1, <3>2 DEF Forever
        <3> QED
            BY <3>1, <3>3, <3>4
    <2> QED
        BY <2>1, <2>2
<1>12. SamplesRight'
    <2>1. \A v \in Users, x \in Tokens : listed'[v][x] <= MaxTime
        <3>1. \A v \in Users, x \in Tokens : Devices(v, moment)[x] <= MaxTime
            BY <1>0 DEF IInv, SamplesRight, Devices, Never
        <3> QED
            BY <1>3, <3>1 DEF IInv, SamplesRight, Never
    <2>2. \A x \in Tokens : seen'[x] <= now'
        BY <1>0, <1>1 DEF IInv, SamplesRight
    <2>3. \A x \in Tokens : holder'[x] \in legacy' => seen'[x] <= 1
        BY <1>0, <1>1 DEF IInv, SamplesRight
    <2> QED
        BY <2>1, <2>2, <2>3 DEF SamplesRight
<1>13. OwnersRight'
    BY <1>0, <1>1 DEF IInv, OwnersRight
<1>14. ReadsRight'
    <2> SUFFICES ASSUME NEW d \in Deliveries PROVE ReadRight(d)'
        BY DEF ReadsRight
    <2> DEFINE w == delivery[d].to
    <2>0. /\ delivery[d] \in Tasks /\ ReadRight(d)
          /\ delivery[d].step = "reading" => w \in Users
        BY <1>0 DEF IInv, ReadsRight, Tasks, TaskRight
    <2>1. \A x \in Tokens : Missable(d, x) /\ x # t => Missable(d, x)'
        BY <1>0, <1>1 DEF Missable
    <2>2. w = u \/ Loses(d, u, t) => Missable(d, t)'
        BY <1>0, <1>1 DEF Missable, Loses
    <2>3. ASSUME delivery[d].step = "sent", NEW x \in delivery[d].tokens \ overtaken'
          PROVE  Missable(d, x)'
        <3>1. x \in Tokens /\ x \notin overtaken
            BY <1>1, <2>0, <2>3 DEF Tasks
        <3>2. Missable(d, x)
            BY <2>0, <2>3, <3>1 DEF ReadRight
        <3>3. x = t => w = u \/ Loses(d, u, t)
            BY <2>3 DEF Loses
        <3> QED
            BY <2>1, <2>2, <3>1, <3>2, <3>3
    <2>4. ASSUME delivery[d].step = "reading",
                 NEW x \in KeptBy(w, delivery[d].moment)' \ overtaken'
          PROVE  Missable(d, x)'
        <3>1. x \in Tokens /\ x \notin overtaken
            BY <1>1, <2>4 DEF KeptBy
        <3>2. CASE w = u /\ x = t
            BY <2>2, <3>2
        <3>3. CASE ~(w = u /\ x = t)
            <4>1. x \in KeptBy(w, delivery[d].moment) /\ ~(x = t /\ w \in Previous(u, t))
                BY <1>1, <1>3, <1>6, <2>0, <2>4, <3>1, <3>3 DEF KeptBy, Never
            <4>2. Missable(d, x)
                BY <2>0, <2>4, <3>1, <4>1 DEF ReadRight
            <4>3. ASSUME x = t PROVE owner[t] = None \/ t \in away[d]
                BY <2>0, <2>4, <3>3, <4>1, <4>2, <4>3 DEF IInv, OwnersRight, Missable, Previous
            <4>4. x = t => Missable(d, x)'
                BY <1>0, <1>1, <2>2, <2>4, <3>3, <4>1, <4>3 DEF Loses, Missable
            <4> QED
                BY <2>1, <4>2, <4>4, <3>1
        <3> QED
            BY <3>2, <3>3
    <2> QED
        BY <1>1, <2>0, <2>3, <2>4 DEF ReadRight
<1> QED
    BY <1>8, <1>9, <1>10, <1>11, <1>12, <1>13, <1>14 DEF IInv

-----------------------------------------------------------------------------

\* Every step keeps the invariant.
LEMMA StepKeeps == IInv /\ [Next]_vars => IInv'
<1> SUFFICES ASSUME IInv, [Next]_vars PROVE IInv'
    OBVIOUS
<1>1. CASE Tick
    BY <1>1, TickKeeps
<1>2. CASE \/ Stop
           \/ \E d \in Deliveries : \/ \E u \in Users : Deliver(d, u)
                                    \/ \E answers \in [Tokens -> Answers] : Outcomes(d, answers)
                                    \/ \E t \in Tokens : DropOwner(d, t)
                                    \/ DropShape(d) \/ DropWrongType(d)
    BY <1>2, ReadingKeeps
<1>3. CASE \E u \in Users, t \in Tokens, moment \in 1..MaxTime : PutToken(u, t, moment)
    BY <1>3, PutTokenKeeps
<1>4. CASE \E d \in Deliveries : DeliverRead(d)
    BY <1>4, DeliverReadKeeps
<1>5. CASE \E d \in Deliveries : DropRemove(d) \/ DropDelete(d)
    BY <1>5, DropRemoveKeeps, DropDeleteKeeps
<1>6. CASE UNCHANGED vars
    <2>1. DropsRight'
        BY <1>6 DEF IInv, DropsRight, Counts, vars, keyVars, historyVars
    <2>2. ReadsRight'
        BY <1>6, FewerPlacesKeepReads DEF IInv, TypeOK, vars, keyVars, historyVars
    <2> QED
        BY <1>6, <2>1, <2>2, TasksKeep DEF IInv, TypeOK, vars, keyVars, historyVars
<1> QED
    BY <1>1, <1>2, <1>3, <1>4, <1>5, <1>6 DEF Next

\* The invariant holds always.
LEMMA Invariant == Spec => []IInv
BY InitRight, StepKeeps, PTL DEF Spec

\* The keys and the deliveries stay well typed; in particular a drop between its
\* commands knows its token and its owner.
THEOREM TypeCorrect == Spec => []TypeOK
<1>1. IInv => TypeOK
    BY DEF IInv
<1> QED
    BY <1>1, Invariant, PTL

\* What any delivery sends to is a device of its user, though the clock it read by
\* is older than the read and other deliveries, also to the same user, read and drop
\* around it; but for the devices whose handover OneUserPerDevice lets it miss
\* (put_push_token.lua, read_push_tokens.lua, push_tokens, drop_push_token).
THEOREM OneUserPerDeviceAlways == Spec => []OneUserPerDevice
<1>1. IInv => OneUserPerDevice
    BY DEF IInv, ReadsRight, ReadRight, Missable, OneUserPerDevice
<1> QED
    BY <1>1, Invariant, PTL

\* A device that registered within the lifetime is among what every read for its
\* user returns, unless it was taken off a list since it registered.
THEOREM LiveDeviceAlwaysReached == Spec => []LiveDeviceIsReached
<1>1. IInv => LiveDeviceIsReached
    <2> SUFFICES ASSUME IInv, NEW t \in Tokens \ dropped, holder[t] # None,
                        now <= seen[t] + Ttl, NEW moment \in 1..now
                 PROVE  t \in KeptBy(holder[t], moment)
        BY DEF LiveDeviceIsReached
    <2>1. /\ holder[t] \in Users /\ seen[t] \in Nat /\ now \in Nat
          /\ listed[holder[t]][t] \in Nat
        BY DEF IInv, TypeOK
    <2>2. /\ listed[holder[t]][t] # Never
          /\ holder[t] \in legacy \/ seen[t] <= listed[holder[t]][t]
        BY DEF IInv, ListsLastLongEnough
    <2> QED
        BY <2>1, <2>2, PushAssumption DEF KeptBy
<1> QED
    BY <1>1, Invariant, PTL

=============================================================================
