----------------------------- MODULE PushTokens -----------------------------
(***************************************************************************)
(* Which device a user's notifications reach: put_push_token.lua,          *)
(* read_push_tokens.lua, drop_push_token of store.py and Push._deliver of  *)
(* push.py.  Registering and reading are one script each; forgetting a     *)
(* token that FCM called dead is four Redis commands, during which the     *)
(* device may register again under any user.  Every notification has a     *)
(* task of its own, so a user may have any number in flight; a task takes  *)
(* the clock before the script that reads the list, and the two may be any *)
(* time apart.  Nothing here depends on what a notification says.          *)
(***************************************************************************)
EXTENDS Naturals

CONSTANTS
    Users,
    Tokens,       \* FCM registration tokens, one per device install
    None,
    Ttl,          \* push_token_ttl_days, in ticks
    MaxLag,       \* bound on the ticks from a registration's clock to its script
    MaxTime,      \* bound on the clock
    Deliveries    \* the tasks that deliver a notification

ASSUME PushAssumption ==
    /\ None \notin Users \cup Tokens
    /\ {Ttl, MaxLag} \subseteq Nat
    /\ MaxTime \in Nat \ {0}

VARIABLES
    now,
    owner,        \* owner[t]: push:owner:{t}, or None when there is no such key
    ownerUntil,   \* the last tick at which Redis answers owner[t]
    listed,       \* listed[u][t]: score of t in push:tokens:{u}, or Never
    listUntil,    \* the last tick at which Redis answers push:tokens:{u}
    legacy,       \* users whose list is still the plain set of older servers
    delivery,     \* delivery[d]: where the task is with its notification
    holder,       \* history: who registered t last, or None
    seen,         \* history: the clock sample of t's last registration
    dropped,      \* history: tokens taken off a list since they registered
    overtaken,    \* history: tokens that registered while being dropped
    away          \* history: away[d]: tokens somebody else registered while d had
                  \* them or was about to read them with no owner key left

keyVars == <<owner, ownerUntil, listed, listUntil, legacy>>
historyVars == <<holder, seen, dropped, overtaken, away>>
vars == <<now, keyVars, delivery, historyVars>>

Never == 0
Forever == MaxTime + Ttl + 1     \* a key without EX

NoDevice == [t \in Tokens |-> Never]

Tasks == [step : {"idle", "reading", "sent", "owner", "shape", "remove", "delete"},
          to : Users \cup {None}, moment : Nat, tokens : SUBSET Tokens,
          token : Tokens \cup {None}, of : Users \cup {None},
          shape : {"none", "set", "zset"}]

Idle == [step |-> "idle", to |-> None, moment |-> Never, tokens |-> {},
         token |-> None, of |-> None, shape |-> "none"]

\* A task under way knows for whom, and a drop between its commands which token
\* and whose list.
TaskRight(task) ==
    /\ task.step # "idle" => task.to # None
    /\ task.step \in {"shape", "remove"} => task.of # None
    /\ task.step \in {"shape", "remove", "delete"} => task.token # None

TypeOK ==
    /\ now \in 1..MaxTime
    /\ owner \in [Tokens -> Users \cup {None}]
    /\ ownerUntil \in [Tokens -> Nat]
    /\ listed \in [Users -> [Tokens -> Nat]]
    /\ listUntil \in [Users -> Nat]
    /\ legacy \subseteq Users
    /\ delivery \in [Deliveries -> Tasks]
    /\ \A d \in Deliveries : TaskRight(delivery[d])
    /\ holder \in [Tokens -> Users \cup {None}]
    /\ seen \in [Tokens -> Nat]
    /\ dropped \subseteq Tokens
    /\ overtaken \subseteq Tokens
    /\ away \in [Deliveries -> SUBSET Tokens]

\* An older server may have left some users a plain set without a TTL, each
\* token in its owner's set only.
Init ==
    /\ now = 1
    /\ \E old \in [Tokens -> Users \cup {None}] :
         /\ owner = old
         /\ holder = old
         /\ listed = [u \in Users |-> [t \in Tokens |-> IF old[t] = u THEN 1 ELSE Never]]
         /\ legacy = {old[t] : t \in Tokens} \ {None}
         /\ seen = [t \in Tokens |-> IF old[t] = None THEN Never ELSE 1]
    /\ ownerUntil = [t \in Tokens |-> IF owner[t] = None THEN Never ELSE Forever]
    /\ listUntil = [u \in Users |-> IF u \in legacy THEN Forever ELSE Never]
    /\ delivery = [d \in Deliveries |-> Idle]
    /\ dropped = {}
    /\ overtaken = {}
    /\ away = [d \in Deliveries |-> {}]

-----------------------------------------------------------------------------
(***************************************************************************)
(* What Redis answers                                                      *)
(***************************************************************************)

\* TYPE push:tokens:{u}.  A set or sorted set without members does not exist.
Shape(u) == IF listed[u] = NoDevice THEN "none" ELSE IF u \in legacy THEN "set" ELSE "zset"

\* read_push_tokens.lua: the tokens that stay on the list for a read that
\* sampled the clock at this moment.
KeptBy(u, moment) ==
    {t \in Tokens : listed[u][t] # Never
                      /\ (u \in legacy \/ moment <= listed[u][t] + Ttl)}

Restricted(list, kept) == [t \in Tokens |-> IF t \in kept THEN list[t] ELSE Never]

-----------------------------------------------------------------------------
(***************************************************************************)
(* POST /me/push-token: put_push_token.lua                                 *)
(***************************************************************************)

\* devices(): a plain set becomes a sorted set stamped with this moment.
Devices(u, moment) ==
    IF u \in legacy
    THEN [t \in Tokens |-> IF listed[u][t] # Never THEN moment ELSE Never]
    ELSE listed[u]

\* Drops of t that have read its owner and not yet deleted its keys.
BeingDropped(t) ==
    \E d \in Deliveries : /\ delivery[d].token = t
                          /\ delivery[d].step \in {"shape", "remove", "delete"}

\* What the registration of t by u takes from under a delivery to somebody else:
\* a token it sends to, or one it will read although no owner key ties it to the
\* list any more.
Loses(d, u, t) ==
    /\ delivery[d].to # u
    /\ \/ delivery[d].step = "sent" /\ t \in delivery[d].tokens
       \/ /\ delivery[d].step = "reading" /\ owner[t] = None
          /\ t \in KeptBy(delivery[d].to, delivery[d].moment)

\* Fault: the token stays on the list of whoever held it.
PreviousLeft(u, t) == {}

\* Who has to give the token up.
Previous(u, t) == {owner[t]} \ {u, None}

\* Fault: EXPIRE only when the list is new, so it dies with its first device.
ListLifeOnce(u, t, v) ==
    CASE v = u /\ Shape(u) # "zset" -> now + Ttl
      [] v \in Previous(u, t) \cap legacy -> Forever
      [] OTHER -> listUntil[v]

\* EXPIRE on u's list.  A list converted for somebody else gets no TTL.
ListLife(u, t, v) ==
    CASE v = u -> now + Ttl
      [] v \in Previous(u, t) \cap legacy -> Forever
      [] OTHER -> listUntil[v]

\* The token leaves the list of its previous owner and joins u's.
PutToken(u, t, moment) ==
    /\ moment <= now /\ now <= moment + MaxLag
    /\ listed' = [v \in Users |->
                    CASE v = u -> [Devices(u, moment) EXCEPT ![t] = moment]
                      [] v \in Previous(u, t) -> [Devices(v, moment) EXCEPT ![t] = Never]
                      [] OTHER -> listed[v]]
    /\ listUntil' = [v \in Users |-> ListLife(u, t, v)]
    /\ legacy' = legacy \ ({u} \cup Previous(u, t))
    /\ owner' = [owner EXCEPT ![t] = u]
    /\ ownerUntil' = [ownerUntil EXCEPT ![t] = now + Ttl]
    /\ holder' = [holder EXCEPT ![t] = u]
    /\ seen' = [seen EXCEPT ![t] = moment]
    /\ dropped' = dropped \ {t}
    /\ overtaken' = IF BeingDropped(t) THEN overtaken \cup {t} ELSE overtaken
    /\ away' = [d \in Deliveries |->
                  CASE delivery[d].to = u -> away[d] \ {t}
                    [] Loses(d, u, t) -> away[d] \cup {t}
                    [] OTHER -> away[d]]
    /\ UNCHANGED <<now, delivery>>

-----------------------------------------------------------------------------
(***************************************************************************)
(* _deliver, and drop_push_token for each token that FCM called dead       *)
(***************************************************************************)

Goes(d, step) == [delivery EXCEPT ![d].step = step]

\* message, recommendation: a task for u, which takes the clock first.
Deliver(d, u) ==
    /\ delivery[d] = Idle
    /\ delivery' = [delivery EXCEPT ![d] = [Idle EXCEPT !.step = "reading", !.to = u,
                                                       !.moment = now]]
    /\ UNCHANGED <<now, keyVars, historyVars>>

\* push_tokens drops the stale tokens and returns the rest; with none the task
\* ends there.
DeliverRead(d) ==
    LET u == delivery[d].to
        kept == KeptBy(u, delivery[d].moment)
    IN
    /\ delivery[d].step = "reading"
    /\ listed' = [listed EXCEPT ![u] = Restricted(listed[u], kept)]
    /\ delivery' = [delivery EXCEPT ![d] =
                      IF kept = {} THEN Idle
                      ELSE [Idle EXCEPT !.step = "sent", !.to = u, !.tokens = kept]]
    /\ away' = [away EXCEPT ![d] = @ \cap kept]
    /\ UNCHANGED <<now, owner, ownerUntil, listUntil, legacy,
                   holder, seen, dropped, overtaken>>

\* How a send may end; "unreachable" also stands for no OAuth token.
Answers == {"accepted", "404", "UNREGISTERED", "INVALID_ARGUMENT", "rejected", "unreachable"}

\* FcmSender.send says DEAD.
Dead(answer) == answer \in {"404", "UNREGISTERED", "INVALID_ARGUMENT"}

\* Every send has its outcome; the tokens that are dead are to be dropped.
Outcomes(d, answers) ==
    LET dead == {t \in delivery[d].tokens : Dead(answers[t])} IN
    /\ delivery[d].step = "sent"
    /\ delivery' = [delivery EXCEPT ![d] =
                      IF dead = {} THEN Idle
                      ELSE [Idle EXCEPT !.step = "owner", !.to = delivery[d].to,
                                         !.tokens = dead]]
    /\ away' = [away EXCEPT ![d] = {}]
    /\ UNCHANGED <<now, keyVars, holder, seen, dropped, overtaken>>

\* Fault: the owner that GET did not find is not missed.
CommandAfterOwnerBlind(t) == "shape"

CommandAfterOwner(t) == IF owner[t] = None THEN "delete" ELSE "shape"

\* GET push:owner:{t}; a token nobody owns has only its own keys deleted.
DropOwner(d, t) ==
    /\ delivery[d].step = "owner"
    /\ t \in delivery[d].tokens
    /\ delivery' = [delivery EXCEPT ![d] =
                      [delivery[d] EXCEPT !.step = CommandAfterOwner(t), !.tokens = @ \ {t},
                                          !.token = t, !.of = owner[t]]]
    /\ UNCHANGED <<now, keyVars, historyVars>>

\* TYPE push:tokens:{owner}.
DropShape(d) ==
    /\ delivery[d].step = "shape"
    /\ delivery' = [Goes(d, "remove") EXCEPT ![d].shape = Shape(delivery[d].of)]
    /\ UNCHANGED <<now, keyVars, historyVars>>

\* SREM on a list that has been converted since: the error ends the delivery.
DropWrongType(d) ==
    /\ delivery[d].step = "remove"
    /\ delivery[d].shape = "set"
    /\ Shape(delivery[d].of) = "zset"
    /\ delivery' = [delivery EXCEPT ![d] = Idle]
    /\ UNCHANGED <<now, keyVars, historyVars>>

\* SREM or ZREM of one token.
Removed(list, t) == [list EXCEPT ![t] = Never]

DropRemove(d) ==
    LET v == delivery[d].of
        t == delivery[d].token
    IN
    /\ delivery[d].step = "remove"
    /\ ~(delivery[d].shape = "set" /\ Shape(v) = "zset")
    /\ listed' = [listed EXCEPT ![v] = Removed(listed[v], t)]
    /\ dropped' = dropped \cup {t}
    /\ delivery' = Goes(d, "delete")
    /\ UNCHANGED <<now, owner, ownerUntil, listUntil, legacy, holder, seen, overtaken,
                   away>>

\* DEL push:owner:{t} push:token:{t}, whoever owns the token by now; then the
\* next dead token.
DropDelete(d) ==
    /\ delivery[d].step = "delete"
    /\ owner' = [owner EXCEPT ![delivery[d].token] = None]
    /\ ownerUntil' = [ownerUntil EXCEPT ![delivery[d].token] = Never]
    /\ delivery' = [delivery EXCEPT ![d] =
                      IF delivery[d].tokens = {} THEN Idle
                      ELSE [Idle EXCEPT !.step = "owner", !.to = delivery[d].to,
                                         !.tokens = delivery[d].tokens]]
    /\ UNCHANGED <<now, listed, listUntil, legacy, historyVars>>

-----------------------------------------------------------------------------

\* Time passes and Redis drops the keys whose last tick it was.
Tick ==
    /\ now < MaxTime
    /\ now' = now + 1
    /\ owner' = [t \in Tokens |-> IF now < ownerUntil[t] THEN owner[t] ELSE None]
    /\ ownerUntil' = [t \in Tokens |-> IF now < ownerUntil[t] THEN ownerUntil[t] ELSE Never]
    /\ listed' = [u \in Users |-> IF now < listUntil[u] THEN listed[u] ELSE NoDevice]
    /\ listUntil' = [u \in Users |-> IF now < listUntil[u] THEN listUntil[u] ELSE Never]
    /\ UNCHANGED <<legacy, delivery, historyVars>>

\* Push.aclose cancels the deliveries, and so does a crash.
Stop ==
    /\ \E d \in Deliveries : delivery[d] # Idle
    /\ delivery' = [d \in Deliveries |-> Idle]
    /\ away' = [d \in Deliveries |-> {}]
    /\ UNCHANGED <<now, keyVars, holder, seen, dropped, overtaken>>

Next ==
    \/ Tick
    \/ Stop
    \/ \E u \in Users, t \in Tokens, moment \in 1..MaxTime : PutToken(u, t, moment)
    \/ \E d \in Deliveries :
         \/ \E u \in Users : Deliver(d, u)
         \/ DeliverRead(d)
         \/ \E answers \in [Tokens -> Answers] : Outcomes(d, answers)
         \/ \E t \in Tokens : DropOwner(d, t)
         \/ DropShape(d) \/ DropWrongType(d) \/ DropRemove(d) \/ DropDelete(d)

Spec == Init /\ [][Next]_vars

-----------------------------------------------------------------------------
(***************************************************************************)
(* Correctness                                                             *)
(***************************************************************************)

\* What a delivery has read and is sending to is a device of its user, by whoever
\* registered on it last, however long ago the delivery took the clock.  Exempt
\* are a device that registered while a drop of its token was between reading the
\* owner and deleting it, and one that somebody else registered on since the
\* delivery read, or since it took the clock if the owner key was gone by then:
\* between the two the place counts for the read and ties to nobody.
OneUserPerDevice ==
    \A d \in Deliveries : delivery[d].step = "sent" =>
        \A t \in delivery[d].tokens \ overtaken :
            holder[t] = delivery[d].to \/ t \in away[d]

\* Every read, whenever it took the clock, returns a device that registered within
\* the TTL, however the other devices of the list come and go.  Exempt is a
\* device taken off a list since it registered: by a verdict of FCM, which may be
\* one about the time before it registered.
LiveDeviceIsReached ==
    \A t \in Tokens \ dropped :
        holder[t] # None /\ now <= seen[t] + Ttl =>
            \A moment \in 1..now : t \in KeptBy(holder[t], moment)

\* A late failure report about the old owner does not take the token off the new
\* owner's list (store.py:309-310).
LateReportSparesNewOwner ==
    [][\A d \in Deliveries, v \in Users :
         DropRemove(d) /\ v # delivery[d].to => listed'[v] = listed[v]]_vars

=============================================================================
