--------------------------- MODULE SessionProofs ---------------------------
(***************************************************************************)
(* One user for one installation, and no acknowledged change taken back    *)
(* from the screen, for any number of calls in flight, losses, reloads and *)
(* changes.  The argument: the server's link and owner tables are inverse  *)
(* to each other; and a /me answer the screen still waits for was read     *)
(* after everything that has been acknowledged.                            *)
(***************************************************************************)
EXTENDS Session, TLAPS

\* The link of a request and the owner of a user name each other.
ServerRight ==
    /\ \A r \in Requests : link[r] # None => link[r] \in Users /\ owner[link[r]] = r
    /\ \A n \in Users : link[owner[n]] = n

Covers(me) == me.profile >= acked.profile /\ me.discovery >= acked.discovery

\* What an answer says is true of the server, and not older than what was
\* acknowledged.
AnswerRight(x) ==
    \/ /\ x.kind = "register"
       /\ x.reply \in [user : Nat]
       /\ x.reply.user # 0 => x.reply.user \in Users /\ owner[x.reply.user] = x.request
    \/ /\ x.kind = "getMe"
       /\ x.reply \in Me
       /\ Covers(x.reply)
    \/ /\ x.kind \in Fields
       /\ x.reply \in [value : Nat]
       /\ x.reply.value <= record[x.user][x.kind]

CallRight(x) ==
    /\ x.kind = "register" => x.request \in Requests
    /\ x.kind \in {"getMe"} \cup Fields => x.user \in Users
    /\ x.reply # None => x.live /\ AnswerRight(x)
    /\ x.live => /\ x.kind # "none"
                 /\ x.kind = "register" => /\ page.credential = None /\ stored.credential = None
                                           /\ x.request = page.request
                 /\ x.kind # "register" => x.user = page.credential

CallsRight == \A c \in Calls, x \in CallType : x = call[c] => CallRight(x)

\* Which call a scope waits for.
ScopesRight ==
    /\ \A s, t \in Scopes : current[s] # None /\ current[s] = current[t] => s = t
    /\ current["boot"] # None =>
         /\ call[current["boot"]].kind \in {"register", "getMe"}
         /\ current["mutation"] = None
         /\ page.booting
    /\ current["me"] # None => call[current["me"]].kind = "getMe"
    /\ current["mutation"] # None => /\ call[current["mutation"]].kind \in Fields
                                     /\ page.me # None

\* The credentials the app holds.
CredentialsRight ==
    /\ page.credential # None => page.credential \in Users
    /\ stored.credential # None => stored.credential \in Users
    /\ page.me # None => page.credential # None
    /\ stored.credential # None =>
         IF page.credential = None THEN page.request = None ELSE page.credential = stored.credential
    /\ page.credential # None /\ page.request # None => owner[page.credential] = page.request
    /\ ~durable => stored.credential = None

Held == IF page.credential # None THEN page.credential ELSE stored.credential

\* What was acknowledged is stored for the user.
AckRight ==
    /\ Held # None => record[Held].profile >= acked.profile /\ record[Held].discovery >= acked.discovery
    /\ Held = None => acked = Fresh

IInv ==
    /\ TypeOK
    /\ ServerRight
    /\ CallsRight
    /\ ScopesRight
    /\ CredentialsRight
    /\ AckRight
    /\ AcknowledgedStays

-----------------------------------------------------------------------------

LEMMA NoCallRight == NoCall \in CallType /\ CallRight(NoCall)
BY DEF NoCall, CallType, CallRight, Fields

\* Users are numbered from 1.
LEMMA UsersAre ==
    ASSUME TypeOK
    PROVE Users = 1..Len(owner) /\ Len(owner) \in Nat /\ Users = 1..Len(record)
          /\ \A n \in Users : owner[n] \in Requests /\ record[n] \in Me
BY DEF TypeOK, Users

\* What becomes of a call that is let go.
LEMMA LetGoIs ==
    ASSUME NEW x \in CallType
    PROVE /\ LetGo(x) \in CallType
          /\ ~LetGo(x).live /\ LetGo(x).reply = None
          /\ LetGo(x).kind = "none" \/ (LetGo(x).kind = x.kind /\ LetGo(x).user = x.user
                                        /\ LetGo(x).request = x.request)
BY DEF LetGo, CallType, NoCall

\* A new call that waits for its answer.
LEMMA SentIs ==
    ASSUME NEW kind \in {"register", "getMe"} \cup Fields,
           NEW user \in Nat \cup {None}, NEW request \in Requests \cup {None}
    PROVE /\ Sent(kind, user, request) \in CallType
          /\ Sent(kind, user, request).kind = kind /\ Sent(kind, user, request).user = user
          /\ Sent(kind, user, request).request = request
          /\ Sent(kind, user, request).live /\ Sent(kind, user, request).reply = None
BY DEF Sent, CallType

THEOREM InitRight == Init => IInv
<1> SUFFICES ASSUME Init PROVE IInv
  OBVIOUS
<1>1. TypeOK
  <2>1. NewPage \in [booting : BOOLEAN, error : BOOLEAN, me : Me \cup {None}, busy : BOOLEAN,
                     credential : Nat \cup {None}, request : Requests \cup {None}]
    BY DEF NewPage
  <2>2. Fresh \in Me /\ NoCall \in CallType
    BY NoCallRight DEF Fresh, Me
  <2>3. \A c \in Calls : call[c].live <=> \E t \in Scopes : current[t] = c
    BY SessionAssumption DEF Init, SessionAssumption, NoCall, Scopes
  <2>4. owner \in Seq(Requests) /\ record \in Seq(Me) /\ Len(record) = Len(owner)
    BY DEF Init
  <2>5. mutations \in 0..MaxChanges /\ reloads \in 0..MaxReloads
    BY SessionAssumption DEF Init, SessionAssumption
  <2> QED BY <2>1, <2>2, <2>3, <2>4, <2>5 DEF Init, TypeOK
<1>2. ServerRight /\ CallsRight /\ ScopesRight
  BY NoCallRight DEF Init, ServerRight, CallsRight, ScopesRight, Users, Scopes
<1>3. CredentialsRight /\ AckRight /\ AcknowledgedStays
  BY DEF Init, CredentialsRight, AckRight, AcknowledgedStays, Held, NewPage
<1> QED BY <1>1, <1>2, <1>3 DEF IInv


\* A call stays right while users and their records only grow and the screen
\* keeps its credential.
LEMMA CallStays ==
    ASSUME TypeOK, TypeOK', NEW x \in CallType, CallRight(x),
           \A n \in Users : /\ n \in Users' /\ owner'[n] = owner[n]
                            /\ record'[n].profile >= record[n].profile
                            /\ record'[n].discovery >= record[n].discovery,
           page'.credential = page.credential, page'.request = page.request,
           stored'.credential = stored.credential, acked' = acked
    PROVE CallRight(x)'
<1>1. x.reply # None => AnswerRight(x)'
  <2> SUFFICES ASSUME x.reply # None PROVE AnswerRight(x)'
    OBVIOUS
  <2>1. AnswerRight(x)
    BY DEF CallRight
  <2>2. CASE x.kind \in Fields
    <3>1. x.user \in Users /\ x.reply.value <= record[x.user][x.kind] /\ x.reply \in [value : Nat]
      BY <2>1, <2>2 DEF CallRight, AnswerRight, Fields
    <3>2. record[x.user] \in Me /\ record'[x.user] \in Me
      BY <3>1 DEF TypeOK, Users
    <3> QED BY <2>2, <3>1, <3>2 DEF AnswerRight, Fields, Me
  <2>3. CASE x.kind \notin Fields
    BY <2>1, <2>3 DEF AnswerRight, Covers, Fields
  <2> QED BY <2>2, <2>3
<1>2. /\ x.kind = "register" => x.request \in Requests
      /\ x.kind \in {"getMe"} \cup Fields => x.user \in Users'
      /\ x.reply # None => x.live
      /\ x.live => /\ x.kind # "none"
                   /\ x.kind = "register" => /\ page'.credential = None /\ stored'.credential = None
                                             /\ x.request = page'.request
                   /\ x.kind # "register" => x.user = page'.credential
  BY DEF CallRight
<1> QED BY <1>1, <1>2 DEF CallRight

\* A call that nobody waits for stays right whatever the screen does.
LEMMA GivenUpStays ==
    ASSUME TypeOK, NEW x \in CallType, CallRight(x), ~x.live,
           \A n \in Users : n \in Users'
    PROVE CallRight(x)'
BY DEF CallRight

-----------------------------------------------------------------------------
(***************************************************************************)
(* The server's steps: the screen does not move                            *)
(***************************************************************************)

\* The answer is put into a call that is waited for, or the call is over.
LEMMA ReplyIs ==
    ASSUME TypeOK, NEW c \in Calls, NEW value \in Me \cup [user : Nat] \cup [value : Nat],
           call[c].kind # "none", Reply(c, value)
    PROVE /\ call' \in [Calls -> CallType]
          /\ \A d \in Calls \ {c} : call'[d] = call[d]
          /\ call'[c].live <=> call[c].live
          /\ \/ call'[c] = NoCall /\ ~call[c].live
             \/ /\ call[c].live /\ call'[c].reply = value /\ call'[c].kind = call[c].kind
                /\ call'[c].user = call[c].user /\ call'[c].request = call[c].request
                /\ call'[c] = [call[c] EXCEPT !.reply = value]
<1>1. call[c] \in CallType
  BY DEF TypeOK
<1>2. CASE call[c].live
  <2> DEFINE x == [call[c] EXCEPT !.reply = value]
  <2>1. /\ x \in CallType /\ x.live = call[c].live /\ x.reply = value /\ x.kind = call[c].kind
        /\ x.user = call[c].user /\ x.request = call[c].request
    BY <1>1 DEF CallType
  <2> HIDE DEF x
  <2>2. call' = [call EXCEPT ![c] = x]
    BY <1>2 DEF Reply, TypeOK, x
  <2>3. call'[c] = x /\ call' \in [Calls -> CallType] /\ \A d \in Calls \ {c} : call'[d] = call[d]
    BY <2>1, <2>2 DEF TypeOK
  <2>4. call'[c] = [call[c] EXCEPT !.reply = value]
    BY <2>3 DEF x
  <2>5. call'[c].live <=> call[c].live
    BY <2>1, <2>3, Zenon
  <2>6. call'[c].reply = value /\ call'[c].kind = call[c].kind /\ call'[c].user = call[c].user
        /\ call'[c].request = call[c].request
    BY <2>1, <2>3
  <2>7. call[c].live /\ call'[c].reply = value /\ call'[c].kind = call[c].kind
        /\ call'[c].user = call[c].user /\ call'[c].request = call[c].request
        /\ call'[c] = [call[c] EXCEPT !.reply = value]
    BY <1>2, <2>4, <2>6
  <2> QED BY <2>3, <2>5, <2>7
<1>3. CASE ~call[c].live
  <2>1. call' = [call EXCEPT ![c] = NoCall]
    BY <1>3 DEF Reply, TypeOK
  <2> QED BY <1>1, <1>3, <2>1, NoCallRight DEF TypeOK, NoCall
<1> QED BY <1>1, <1>2, <1>3 DEF CallType

\* A step of the server that answers call c keeps everything, if the answer is
\* right and its users only grow.
LEMMA ServerStepKeeps ==
    ASSUME IInv, NEW c \in Calls, NEW value \in Me \cup [user : Nat] \cup [value : Nat],
           call[c].kind # "none", call[c].reply = None, Reply(c, value),
           UNCHANGED <<clientVars, mutations, reloads>>,
           link' \in [Requests -> Nat \cup {None}], replay' \subseteq Requests,
           owner' \in Seq(Requests), record' \in Seq(Me), Len(record') = Len(owner'),
           ServerRight',
           \A n \in Users : /\ n \in Users' /\ owner'[n] = owner[n]
                            /\ record'[n].profile >= record[n].profile
                            /\ record'[n].discovery >= record[n].discovery,
           \A x \in CallType : call[c].live /\ x = [call[c] EXCEPT !.reply = value] => AnswerRight(x)'
    PROVE IInv'
<1>1. /\ call' \in [Calls -> CallType]
      /\ \A d \in Calls \ {c} : call'[d] = call[d]
      /\ call'[c].live <=> call[c].live
      /\ \/ call'[c] = NoCall /\ ~call[c].live
         \/ /\ call[c].live /\ call'[c].reply = value /\ call'[c].kind = call[c].kind
            /\ call'[c].user = call[c].user /\ call'[c].request = call[c].request
            /\ call'[c] = [call[c] EXCEPT !.reply = value]
  BY ReplyIs DEF IInv
<1>2. TypeOK'
  <2>1. UNCHANGED <<durable, stored, page, current, acked, mutations, reloads>>
    BY DEF clientVars
  <2>2. ASSUME NEW d \in Calls PROVE call'[d].live <=> \E t \in Scopes : current'[t] = d
    <3>1. call'[d].live <=> call[d].live
      BY <1>1
    <3> QED BY <2>1, <3>1 DEF IInv, TypeOK
  <2> QED BY <1>1, <2>1, <2>2 DEF IInv, TypeOK
<1>3. \A d \in Calls : call[d] \in CallType /\ call'[d] \in CallType
  BY <1>1 DEF IInv, TypeOK
<1>4. CallsRight'
  <2> SUFFICES ASSUME NEW d \in Calls, NEW x \in CallType, x = call'[d] PROVE CallRight(x)'
    BY DEF CallsRight
  <2>1. CASE d # c
    <3>1. CallRight(x)
      BY <1>1, <2>1 DEF IInv, CallsRight
    <3> QED BY <1>2, <3>1, CallStays DEF IInv, clientVars
  <2>2. CASE d = c /\ ~call[c].live
    BY <1>1, <2>2 DEF CallRight, NoCall, Fields
  <2>3. CASE d = c /\ call[c].live
    <3>1. x = [call[c] EXCEPT !.reply = value]
      BY <1>1, <2>3
    <3>2. AnswerRight(x)'
      BY <2>3, <3>1
    <3>3. CallRight(call[c])
      BY <1>3 DEF IInv, CallsRight
    <3>4. x.live /\ x.kind = call[c].kind /\ x.user = call[c].user /\ x.request = call[c].request
      BY <1>1, <2>3
    <3>5. UNCHANGED <<stored, page>> /\ \A n \in Users : n \in Users'
      BY DEF clientVars
    <3> QED BY <3>2, <3>3, <3>4, <3>5, <2>3 DEF CallRight
  <2> QED BY <2>1, <2>2, <2>3
<1>5. ScopesRight'
  <2>1. UNCHANGED <<page, current>>
    BY DEF clientVars
  <2>2. ASSUME NEW t \in Scopes, current[t] # None PROVE call'[current[t]].kind = call[current[t]].kind
    <3>1. current[t] \in Calls /\ call[current[t]].live
      BY <2>2 DEF IInv, TypeOK
    <3> QED BY <1>1, <3>1
  <2> QED BY <2>1, <2>2 DEF IInv, ScopesRight, Scopes
<1>6. CredentialsRight' /\ AckRight' /\ AcknowledgedStays'
  <2>1. UNCHANGED <<durable, stored, page, current, acked>>
    BY DEF clientVars
  <2>2. CredentialsRight'
    BY <2>1 DEF IInv, CredentialsRight
  <2>3. AcknowledgedStays'
    BY <2>1 DEF IInv, AcknowledgedStays
  <2>4. AckRight'
    <3>1. Held' = Held /\ (Held # None => Held \in Users)
      BY <2>1 DEF Held, IInv, CredentialsRight
    <3>2. CASE Held = None
      BY <2>1, <3>1, <3>2 DEF AckRight, IInv
    <3>3. CASE Held # None
      <4>1. record[Held] \in Me /\ record'[Held] \in Me /\ acked \in Me
        BY <1>2, <3>1, <3>3 DEF IInv, TypeOK, Users
      <4>2. /\ record'[Held].profile >= record[Held].profile
            /\ record'[Held].discovery >= record[Held].discovery
        BY <3>1, <3>3
      <4> HIDE DEF Held
      <4> QED BY <2>1, <3>1, <3>3, <4>1, <4>2 DEF AckRight, IInv, Me
    <3> QED BY <3>2, <3>3
  <2> QED BY <2>2, <2>3, <2>4
<1> QED BY <1>2, <1>4, <1>5, <1>6 DEF IInv


\* A request id is used for a new user only if it has none.
LEMMA RegisterKeeps ==
    ASSUME IInv, NEW c \in Calls, HandleRegister(c) PROVE IInv'
<1> DEFINE r == call[c].request
<1>1. call[c] \in CallType /\ CallRight(call[c]) /\ call[c].kind = "register" /\ call[c].reply = None
      /\ UNCHANGED <<clientVars, mutations, reloads>>
  BY DEF IInv, TypeOK, CallsRight, HandleRegister, ToServer, Answered
<1>2. r \in Requests
  BY <1>1 DEF CallRight
<1>3. Users = 1..Len(owner) /\ Len(owner) \in Nat
  BY UsersAre DEF IInv
<1> HIDE DEF r
<1>4. CASE ~Known(r) /\ Create(r) /\ Reply(c, [user |-> Len(owner) + 1])
  <2>1. /\ owner' = Append(owner, r) /\ record' = Append(record, Fresh)
        /\ owner \in Seq(Requests) /\ record \in Seq(Me) /\ Len(record) = Len(owner)
        /\ Fresh \in Me
    BY <1>4 DEF Create, IInv, TypeOK, Fresh, Me
  <2>2. /\ owner' \in Seq(Requests) /\ record' \in Seq(Me)
        /\ Len(owner') = Len(owner) + 1 /\ Len(record') = Len(owner')
        /\ Users' = 1..(Len(owner) + 1)
        /\ owner'[Len(owner) + 1] = r
        /\ \A n \in Users : owner'[n] = owner[n] /\ record'[n] = record[n]
    BY <1>2, <1>3, <2>1 DEF Users
  <2>3. \A n \in Users : record[n] \in Me
    BY UsersAre DEF IInv
  <2>4. /\ link' = [link EXCEPT ![r] = Len(owner) + 1] /\ link \in [Requests -> Nat \cup {None}]
        /\ replay' \subseteq Requests /\ link[r] = None
    BY <1>2, <1>4 DEF Create, Known, IInv, TypeOK
  <2>5. None \notin Nat
    BY SessionAssumption DEF SessionAssumption
  <2>6. ServerRight'
    <3>1. \A n \in Users : owner[n] # r /\ owner[n] \in Requests
      BY <1>3, <2>4, <2>5, UsersAre DEF IInv, ServerRight
    <3>2. ASSUME NEW q \in Requests, link'[q] # None PROVE link'[q] \in Users' /\ owner'[link'[q]] = q
      <4>1. CASE q = r
        BY <1>2, <1>3, <2>2, <2>4, <4>1
      <4>2. CASE q # r
        <5>1. link[q] \in Users /\ owner[link[q]] = q /\ link'[q] = link[q]
          BY <2>4, <3>2, <4>2 DEF IInv, ServerRight
        <5> QED BY <1>3, <2>2, <5>1
      <4> QED BY <4>1, <4>2
    <3>3. ASSUME NEW n \in Users' PROVE link'[owner'[n]] = n
      <4>1. CASE n = Len(owner) + 1
        BY <1>2, <2>2, <2>4, <4>1
      <4>2. CASE n # Len(owner) + 1
        <5>1. n \in Users /\ owner'[n] = owner[n]
          BY <1>3, <2>2, <4>2
        <5> QED BY <2>4, <3>1, <5>1 DEF IInv, ServerRight
      <4> QED BY <4>1, <4>2
    <3> QED BY <3>2, <3>3 DEF ServerRight
  <2>7. ASSUME NEW n \in Users
        PROVE /\ n \in Users' /\ owner'[n] = owner[n]
              /\ record'[n].profile >= record[n].profile /\ record'[n].discovery >= record[n].discovery
    BY <1>3, <2>2, <2>3 DEF Me
  <2>8. ASSUME NEW x \in CallType, x = [call[c] EXCEPT !.reply = [user |-> Len(owner) + 1]]
        PROVE AnswerRight(x)'
    <3>1. x.kind = "register" /\ x.reply = [user |-> Len(owner) + 1] /\ x.request = r
      BY <1>1, <2>8 DEF CallType, r
    <3>2. x.reply \in [user : Nat] /\ x.reply.user = Len(owner) + 1
      BY <1>3, <3>1
    <3> QED BY <1>3, <2>2, <3>1, <3>2 DEF AnswerRight
  <2>9. [user |-> Len(owner) + 1] \in [user : Nat]
    BY <1>3
  <2>10. link' \in [Requests -> Nat \cup {None}]
    <3>1. Len(owner) + 1 \in Nat \cup {None}
      BY <1>3
    <3> QED BY <2>4, <3>1
  <2> QED BY <1>1, <1>4, <2>2, <2>4, <2>6, <2>7, <2>8, <2>9, <2>10, ServerStepKeeps
<1>5. CASE Known(r) /\ Reply(c, [user |-> IF r \in replay THEN link[r] ELSE 0]) /\ UNCHANGED serverVars
  <2> DEFINE u == IF r \in replay THEN link[r] ELSE 0
  <2>1. u \in Nat /\ (u # 0 => u \in Users /\ owner[u] = r)
    BY <1>2, <1>3, <1>5 DEF Known, IInv, ServerRight
  <2> HIDE DEF u
  <2>2. UNCHANGED <<link, replay, owner, record>> /\ Reply(c, [user |-> u])
    BY <1>5 DEF serverVars, u
  <2>3. ASSUME NEW x \in CallType, x = [call[c] EXCEPT !.reply = [user |-> u]]
        PROVE AnswerRight(x)'
    <3>1. x.kind = "register" /\ x.reply = [user |-> u] /\ x.request = r
      BY <1>1, <2>3 DEF CallType, r
    <3>2. x.reply \in [user : Nat] /\ x.reply.user = u
      BY <2>1, <3>1
    <3> QED BY <2>1, <2>2, <3>1, <3>2 DEF AnswerRight, Users
  <2>4. \A n \in Users : record[n] \in Me
    BY UsersAre DEF IInv
  <2>5. ASSUME NEW n \in Users
        PROVE /\ n \in Users' /\ owner'[n] = owner[n]
              /\ record'[n].profile >= record[n].profile /\ record'[n].discovery >= record[n].discovery
    BY <2>2, <2>4 DEF Users, Me
  <2>6. ServerRight'
    BY <2>2 DEF IInv, ServerRight, Users
  <2>7. [user |-> u] \in [user : Nat]
    BY <2>1
  <2> QED BY <1>1, <2>2, <2>3, <2>5, <2>6, <2>7, ServerStepKeeps DEF IInv, TypeOK
<1> QED BY <1>4, <1>5 DEF HandleRegister, r

\* What getMe reads is at least what was acknowledged, if the screen still waits
\* for it: it was asked for with the credential the screen holds.
LEMMA GetMeKeeps ==
    ASSUME IInv, NEW c \in Calls, HandleGetMe(c) PROVE IInv'
<1>1. call[c] \in CallType /\ CallRight(call[c]) /\ call[c].kind = "getMe" /\ call[c].reply = None
      /\ UNCHANGED <<clientVars, mutations, reloads, link, replay, owner, record>>
      /\ Reply(c, record[call[c].user])
  BY DEF IInv, TypeOK, CallsRight, HandleGetMe, ToServer, Answered, serverVars
<1>2. call[c].user \in Users /\ record[call[c].user] \in Me
  BY <1>1, UsersAre DEF CallRight, IInv
<1>3. ASSUME NEW x \in CallType, call[c].live, x = [call[c] EXCEPT !.reply = record[call[c].user]]
      PROVE AnswerRight(x)'
  <2>1. x.kind = "getMe" /\ x.reply = record[call[c].user]
    BY <1>1, <1>3 DEF CallType
  <2>2. call[c].user = Held
    BY <1>1, <1>2, <1>3, SessionAssumption, UsersAre DEF CallRight, Held, IInv, CredentialsRight, SessionAssumption
  <2>3. Covers(x.reply)
    <3>1. Held # None
      BY <1>2, <2>2, UsersAre, SessionAssumption DEF IInv, SessionAssumption
    <3> HIDE DEF Held
    <3> QED BY <2>1, <2>2, <3>1 DEF IInv, AckRight, Covers
  <2> QED BY <1>1, <1>2, <2>1, <2>3 DEF AnswerRight, Covers, clientVars
<1>4. \A n \in Users : record[n] \in Me
  BY UsersAre DEF IInv
<1>5. ASSUME NEW n \in Users
      PROVE /\ n \in Users' /\ owner'[n] = owner[n]
            /\ record'[n].profile >= record[n].profile /\ record'[n].discovery >= record[n].discovery
  BY <1>1, <1>4 DEF Users, Me
<1>6. ServerRight'
  BY <1>1 DEF IInv, ServerRight, Users
<1> QED BY <1>1, <1>2, <1>3, <1>5, <1>6, ServerStepKeeps DEF IInv, TypeOK

LEMMA MutationKeeps ==
    ASSUME IInv, NEW c \in Calls, NEW field \in Fields, HandleMutation(c, field) PROVE IInv'
<1> DEFINE u == call[c].user
           new == record[u][field] + 1
<1>1. call[c] \in CallType /\ CallRight(call[c]) /\ call[c].kind = field /\ call[c].reply = None
      /\ UNCHANGED <<clientVars, mutations, reloads, link, replay, owner>>
      /\ Reply(c, [value |-> new])
      /\ record' = [record EXCEPT ![u][field] = new]
  BY DEF IInv, TypeOK, CallsRight, HandleMutation, ToServer, Answered
<1>2. /\ u \in Users /\ record \in Seq(Me) /\ Len(record) = Len(owner) /\ Users = 1..Len(record)
      /\ \A n \in Users : record[n] \in Me
  BY <1>1, UsersAre DEF CallRight, IInv, TypeOK
<1>3. new \in Nat /\ [record[u] EXCEPT ![field] = new] \in Me
  <2>1. record[u] \in Me /\ record[u] \in [profile : Nat, discovery : Nat]
    BY <1>2 DEF Me
  <2>2. CASE field = "profile"
    BY <2>1, <2>2 DEF Me
  <2>3. CASE field = "discovery"
    BY <2>1, <2>3 DEF Me
  <2> QED BY <2>2, <2>3 DEF Fields
<1>4. record' = [record EXCEPT ![u] = [record[u] EXCEPT ![field] = new]]
  BY <1>1
<1>5. record' \in Seq(Me) /\ Len(record') = Len(record)
  BY <1>2, <1>3, <1>4
<1>6. record'[u][field] = new
  BY <1>2, <1>4 DEF Me, Fields
<1>7. ASSUME NEW n \in Users
      PROVE /\ n \in Users' /\ owner'[n] = owner[n]
            /\ record'[n].profile >= record[n].profile /\ record'[n].discovery >= record[n].discovery
  BY <1>1, <1>2, <1>4 DEF Users, Me, Fields
<1>8. ASSUME NEW x \in CallType, x = [call[c] EXCEPT !.reply = [value |-> new]]
      PROVE AnswerRight(x)'
  <2> HIDE DEF new
  <2>1. x.kind = field /\ x.reply = [value |-> new] /\ x.user = u
    BY <1>1, <1>8 DEF CallType
  <2>2. x.reply \in [value : Nat] /\ x.reply.value = new
    BY <1>3, <2>1
  <2> QED BY <1>3, <1>6, <2>1, <2>2 DEF AnswerRight
<1>9. ServerRight'
  BY <1>1 DEF IInv, ServerRight, Users
<1>10. call[c].kind # "none"
  BY <1>1 DEF Fields
<1>11. [value |-> new] \in [value : Nat]
  BY <1>3
<1> HIDE DEF new
<1>12. /\ link' \in [Requests -> Nat \cup {None}] /\ replay' \subseteq Requests
       /\ owner' \in Seq(Requests) /\ Len(record') = Len(owner')
  BY <1>1, <1>2, <1>5 DEF IInv, TypeOK
<1> QED BY <1>1, <1>5, <1>7, <1>8, <1>9, <1>10, <1>11, <1>12, ServerStepKeeps

-----------------------------------------------------------------------------
(***************************************************************************)
(* The network and the clock                                               *)
(***************************************************************************)

LEMMA ExpiryKeeps ==
    ASSUME IInv, NEW r \in Requests, ReplayExpires(r) PROVE IInv'
<1>1. UNCHANGED <<link, owner, record, durable, stored, page, current, acked, call, mutations, reloads>>
  BY DEF ReplayExpires, clientVars
<1>2. TypeOK'
  BY <1>1 DEF ReplayExpires, IInv, TypeOK
<1>3. CallsRight'
  BY <1>1 DEF IInv, CallsRight, CallRight, AnswerRight, Covers, Users
<1>4. ServerRight' /\ ScopesRight'
  BY <1>1 DEF IInv, ServerRight, ScopesRight, Users
<1>5. CredentialsRight' /\ AckRight' /\ AcknowledgedStays'
  BY <1>1 DEF IInv, CredentialsRight, AckRight, AcknowledgedStays, Held, Users
<1> QED BY <1>2, <1>3, <1>4, <1>5 DEF IInv

\* A call keeps being right if it is left alone by a step that keeps the
\* credential, or is let go.
LEMMA OldCallRight ==
    ASSUME IInv, NEW d \in Calls, NEW x \in CallType,
           x = call[d] \/ x = LetGo(call[d]) \/ x = NoCall,
           UNCHANGED <<owner, record>>,
           x.live => UNCHANGED <<acked, page.credential, page.request, stored.credential>>
    PROVE CallRight(x)'
<1>1. call[d] \in CallType /\ CallRight(call[d])
  BY DEF IInv, TypeOK, CallsRight
<1>2. CASE x.live
  <2>1. x = call[d]
    BY <1>1, <1>2, LetGoIs, NoCallRight DEF NoCall
  <2> QED BY <1>1, <1>2, <2>1 DEF CallRight, AnswerRight, Covers, Users
<1>3. CASE ~x.live
  <2>1. x.reply = None
    BY <1>1, <1>3, LetGoIs DEF NoCall, CallRight
  <2>2. x.kind = "none" \/ (x.kind = call[d].kind /\ x.user = call[d].user /\ x.request = call[d].request)
    BY <1>1, LetGoIs DEF NoCall
  <2> QED BY <1>1, <1>3, <2>1, <2>2 DEF CallRight, Users, Fields
<1> QED BY <1>2, <1>3

LEMMA LostKeeps ==
    ASSUME IInv, NEW c \in Calls, Lost(c) PROVE IInv'
<1>1. UNCHANGED <<link, replay, owner, record, durable, stored, page, current, acked, mutations, reloads>>
  BY DEF Lost, clientVars, serverVars
<1>2. /\ call' \in [Calls -> CallType] /\ call'[c] = NoCall /\ ~call[c].live
      /\ \A d \in Calls \ {c} : call'[d] = call[d]
  BY NoCallRight DEF Lost, IInv, TypeOK
<1>3. TypeOK'
  <2>1. ASSUME NEW d \in Calls PROVE call'[d].live <=> \E s \in Scopes : current'[s] = d
    BY <1>1, <1>2 DEF NoCall, IInv, TypeOK
  <2> QED BY <1>1, <1>2, <2>1 DEF IInv, TypeOK
<1>4. CallsRight'
  <2> SUFFICES ASSUME NEW d \in Calls, NEW x \in CallType, x = call'[d] PROVE CallRight(x)'
    BY DEF CallsRight
  <2>1. x = call[d] \/ x = NoCall
    BY <1>2
  <2> QED BY <1>1, <2>1, OldCallRight
<1>5. ServerRight' /\ ScopesRight'
  <2>1. \A s \in Scopes : current[s] # None => current[s] \in Calls /\ current[s] # c
    BY <1>2 DEF IInv, TypeOK
  <2> QED BY <1>1, <1>2, <2>1 DEF IInv, ServerRight, ScopesRight, Users, Scopes
<1>6. CredentialsRight' /\ AckRight' /\ AcknowledgedStays'
  BY <1>1 DEF IInv, CredentialsRight, AckRight, AcknowledgedStays, Held, Users
<1> QED BY <1>3, <1>4, <1>5, <1>6 DEF IInv

-----------------------------------------------------------------------------
(***************************************************************************)
(* The screen's steps: the server does not move                            *)
(***************************************************************************)

\* The pieces that a step of the screen has to keep.
LEMMA ScreenStepKeeps ==
    ASSUME IInv, UNCHANGED <<link, replay, owner, record, durable>>,
           stored' \in [credential : Nat \cup {None}, request : Requests \cup {None}],
           page' \in [booting : BOOLEAN, error : BOOLEAN, me : Me \cup {None}, busy : BOOLEAN,
                      credential : Nat \cup {None}, request : Requests \cup {None}],
           mutations' \in 0..MaxChanges, reloads' \in 0..MaxReloads, acked' \in Me,
           current' \in [Scopes -> Calls \cup {None}], call' \in [Calls -> CallType],
           \A d \in Calls : call'[d].live <=> \E s \in Scopes : current'[s] = d,
           CallsRight', ScopesRight', CredentialsRight', AckRight', AcknowledgedStays'
    PROVE IInv'
<1>1. TypeOK'
  BY DEF IInv, TypeOK
<1>2. ServerRight'
  BY DEF IInv, ServerRight, Users
<1> QED BY <1>1, <1>2 DEF IInv

\* A scope's call is one of the calls, and it is live.
LEMMA WaitedFor ==
    ASSUME IInv, NEW s \in Scopes, NEW c \in Calls, current[s] = c
    PROVE /\ call[c] \in CallType /\ CallRight(call[c]) /\ call[c].live /\ call[c] # NoCall
          /\ \A t \in Scopes : current[t] = c => t = s
<1>1. call[c] \in CallType /\ CallRight(call[c]) /\ call[c].live
  BY DEF IInv, TypeOK, CallsRight
<1>2. c # None
  BY SessionAssumption DEF SessionAssumption
<1> QED BY <1>1, <1>2 DEF IInv, ScopesRight, NoCall

\* The state of the calls when one scope's call is over and the page keeps its
\* credential and its me.
LEMMA GivenUpIs ==
    ASSUME IInv, NEW s \in Scopes, NEW c \in Calls, current[s] = c,
           current' = [current EXCEPT ![s] = None],
           call' = [call EXCEPT ![c] = LetGo(@)] \/ call' = [call EXCEPT ![c] = NoCall],
           UNCHANGED <<owner, record, acked, page.credential, page.request, stored.credential>>
    PROVE /\ current' \in [Scopes -> Calls \cup {None}] /\ call' \in [Calls -> CallType]
          /\ \A d \in Calls : call'[d].live <=> \E t \in Scopes : current'[t] = d
          /\ CallsRight'
          /\ \A t \in Scopes : current'[t] # None =>
                /\ t # s /\ current'[t] = current[t] /\ call'[current[t]] = call[current[t]]
          /\ current'[s] = None
<1> DEFINE x == call'[c]
<1>1. call[c] \in CallType /\ \A t \in Scopes : current[t] = c => t = s
  BY WaitedFor
<1>2. /\ call' \in [Calls -> CallType] /\ (x = LetGo(call[c]) \/ x = NoCall) /\ ~x.live
      /\ \A d \in Calls \ {c} : call'[d] = call[d]
  <2>1. LetGo(call[c]) \in CallType /\ ~LetGo(call[c]).live /\ NoCall \in CallType /\ ~NoCall.live
    BY <1>1, LetGoIs, NoCallRight DEF NoCall
  <2> QED BY <2>1 DEF IInv, TypeOK
<1>3. /\ current' \in [Scopes -> Calls \cup {None}] /\ current'[s] = None
      /\ \A t \in Scopes \ {s} : current'[t] = current[t]
  BY DEF IInv, TypeOK
<1>4. None \notin Calls
  BY SessionAssumption DEF SessionAssumption
<1>5. ASSUME NEW d \in Calls PROVE call'[d].live <=> \E t \in Scopes : current'[t] = d
  <2>1. CASE d = c
    BY <1>1, <1>2, <1>3, <1>4, <2>1
  <2>2. CASE d # c
    BY <1>2, <1>3, <1>4, <2>2 DEF IInv, TypeOK
  <2> QED BY <2>1, <2>2
<1>6. CallsRight'
  <2> SUFFICES ASSUME NEW d \in Calls, NEW y \in CallType, y = call'[d] PROVE CallRight(y)'
    BY DEF CallsRight
  <2>1. y = call[d] \/ y = LetGo(call[d]) \/ y = NoCall
    BY <1>2
  <2> QED BY <2>1, OldCallRight
<1>7. ASSUME NEW t \in Scopes, current'[t] # None
      PROVE t # s /\ current'[t] = current[t] /\ call'[current[t]] = call[current[t]]
  BY <1>1, <1>2, <1>3, <1>7 DEF IInv, TypeOK
<1> QED BY <1>2, <1>3, <1>5, <1>6, <1>7

\* Booted takes an answer that covers what was acknowledged.
LEMMA BootedKeeps ==
    ASSUME IInv, NEW c \in Calls, Booted(c) PROVE IInv'
<1>1. /\ UNCHANGED <<link, replay, owner, record, durable, stored, mutations, reloads, acked>>
      /\ current["boot"] = c /\ call[c].reply # None /\ call[c].kind = "getMe"
      /\ page' = [page EXCEPT !.me = call[c].reply, !.booting = FALSE]
      /\ current' = [current EXCEPT !["boot"] = None] /\ call' = [call EXCEPT ![c] = NoCall]
  BY DEF Booted, Arrives, Answered, Settled, serverVars
<1>2. "boot" \in Scopes
  BY DEF Scopes
<1>3. call[c] \in CallType /\ CallRight(call[c]) /\ call[c].live /\ call[c].reply \in Me /\ Covers(call[c].reply)
      /\ call[c].user = page.credential /\ call[c].user \in Users
  BY <1>1, <1>2, WaitedFor DEF CallRight, AnswerRight, Fields
<1>4. /\ page' \in [booting : BOOLEAN, error : BOOLEAN, me : Me \cup {None}, busy : BOOLEAN,
                    credential : Nat \cup {None}, request : Requests \cup {None}]
      /\ UNCHANGED <<page.credential, page.request>>
      /\ page'.me = call[c].reply
  BY <1>1, <1>3 DEF IInv, TypeOK
<1>5. page.credential # None
  BY <1>3, UsersAre, SessionAssumption DEF IInv, SessionAssumption
<1>6. /\ current' \in [Scopes -> Calls \cup {None}] /\ call' \in [Calls -> CallType]
      /\ \A d \in Calls : call'[d].live <=> \E t \in Scopes : current'[t] = d
      /\ CallsRight'
      /\ \A t \in Scopes : current'[t] # None =>
            /\ t # "boot" /\ current'[t] = current[t] /\ call'[current[t]] = call[current[t]]
      /\ current'["boot"] = None
  BY <1>1, <1>2, <1>4, GivenUpIs
<1>7. ScopesRight'
  <2>1. call[c].reply # None
    BY <1>1
  <2> QED BY <1>1, <1>2, <1>4, <1>6 DEF IInv, ScopesRight, Scopes
<1>8. CredentialsRight'
  BY <1>1, <1>4, <1>5 DEF IInv, CredentialsRight, Users
<1>9. AckRight' /\ AcknowledgedStays'
  BY <1>1, <1>3, <1>4 DEF IInv, AckRight, AcknowledgedStays, Held, Covers
<1>10. stored' \in [credential : Nat \cup {None}, request : Requests \cup {None}]
       /\ mutations' \in 0..MaxChanges /\ reloads' \in 0..MaxReloads /\ acked' \in Me
  BY <1>1 DEF IInv, TypeOK
<1> QED BY <1>1, <1>4, <1>6, <1>7, <1>8, <1>9, <1>10, ScreenStepKeeps

LEMMA MeRefreshedKeeps ==
    ASSUME IInv, NEW c \in Calls, MeRefreshed(c) PROVE IInv'
<1>1. /\ UNCHANGED <<link, replay, owner, record, durable, stored, mutations, reloads, acked>>
      /\ current["me"] = c /\ call[c].reply # None
      /\ page' = [page EXCEPT !.me = call[c].reply]
      /\ current' = [current EXCEPT !["me"] = None] /\ call' = [call EXCEPT ![c] = NoCall]
  BY DEF MeRefreshed, Arrives, Answered, Settled, serverVars
<1>2. "me" \in Scopes
  BY DEF Scopes
<1>a. c # None
  BY SessionAssumption DEF SessionAssumption
<1>b. call[c].kind = "getMe"
  BY <1>1, <1>a DEF IInv, ScopesRight
<1>3. call[c] \in CallType /\ CallRight(call[c]) /\ call[c].live /\ call[c].reply \in Me /\ Covers(call[c].reply)
      /\ call[c].user = page.credential /\ call[c].user \in Users
  BY <1>1, <1>2, <1>b, WaitedFor DEF CallRight, AnswerRight, Fields
<1>4. /\ page' \in [booting : BOOLEAN, error : BOOLEAN, me : Me \cup {None}, busy : BOOLEAN,
                    credential : Nat \cup {None}, request : Requests \cup {None}]
      /\ UNCHANGED <<page.credential, page.request, page.booting>>
      /\ page'.me = call[c].reply
  BY <1>1, <1>3 DEF IInv, TypeOK
<1>5. page.credential # None
  BY <1>3, UsersAre, SessionAssumption DEF IInv, SessionAssumption
<1>6. /\ current' \in [Scopes -> Calls \cup {None}] /\ call' \in [Calls -> CallType]
      /\ \A d \in Calls : call'[d].live <=> \E t \in Scopes : current'[t] = d
      /\ CallsRight'
      /\ \A t \in Scopes : current'[t] # None =>
            /\ t # "me" /\ current'[t] = current[t] /\ call'[current[t]] = call[current[t]]
      /\ current'["me"] = None
  BY <1>1, <1>2, <1>4, GivenUpIs
<1>7. ScopesRight'
  BY <1>1, <1>2, <1>4, <1>6 DEF IInv, ScopesRight, Scopes
<1>8. CredentialsRight'
  BY <1>1, <1>4, <1>5 DEF IInv, CredentialsRight, Users
<1>9. AckRight' /\ AcknowledgedStays'
  BY <1>1, <1>3, <1>4 DEF IInv, AckRight, AcknowledgedStays, Held, Covers
<1>10. stored' \in [credential : Nat \cup {None}, request : Requests \cup {None}]
       /\ mutations' \in 0..MaxChanges /\ reloads' \in 0..MaxReloads /\ acked' \in Me
  BY <1>1 DEF IInv, TypeOK
<1> QED BY <1>1, <1>4, <1>6, <1>7, <1>8, <1>9, <1>10, ScreenStepKeeps

\* A call fails: only the flags of the page change.
LEMMA FailureKeeps ==
    ASSUME IInv, NEW s \in Scopes, NEW c \in Calls, current[s] = c, GivenUp(c, s),
           UNCHANGED <<link, replay, owner, record, durable, stored, mutations, reloads, acked>>,
           page' \in [booting : BOOLEAN, error : BOOLEAN, me : Me \cup {None}, busy : BOOLEAN,
                      credential : Nat \cup {None}, request : Requests \cup {None}],
           UNCHANGED <<page.credential, page.request, page.me>>,
           s # "boot" => page'.booting = page.booting
    PROVE IInv'
<1>1. /\ current' = [current EXCEPT ![s] = None] /\ call' = [call EXCEPT ![c] = LetGo(@)]
  BY DEF GivenUp
<1>2. /\ current' \in [Scopes -> Calls \cup {None}] /\ call' \in [Calls -> CallType]
      /\ \A d \in Calls : call'[d].live <=> \E t \in Scopes : current'[t] = d
      /\ CallsRight'
      /\ \A t \in Scopes : current'[t] # None =>
            /\ t # s /\ current'[t] = current[t] /\ call'[current[t]] = call[current[t]]
      /\ current'[s] = None
  BY <1>1, GivenUpIs
<1>3. ScopesRight'
  <2>1. current["boot"] # None /\ s # "boot" => page'.booting
    <3>1. current["boot"] # None => page.booting
      BY DEF IInv, ScopesRight
    <3> QED BY <3>1
  <2>2. \A t \in Scopes : current'[t] # None => current[t] # None
    BY <1>2
  <2>3. current'["boot"] # None => current["mutation"] = None
    BY <2>2 DEF IInv, ScopesRight, Scopes
  <2>4. current["mutation"] = None => current'["mutation"] = None
    BY <2>2 DEF Scopes
  <2>5. current'["boot"] # None => /\ call'[current'["boot"]].kind \in {"register", "getMe"}
                                   /\ page'.booting
    BY <1>2, <2>1 DEF IInv, ScopesRight, Scopes
  <2>6. /\ current'["me"] # None => call'[current'["me"]].kind = "getMe"
        /\ current'["mutation"] # None => call'[current'["mutation"]].kind \in Fields /\ page'.me # None
    BY <1>2 DEF IInv, ScopesRight, Scopes
  <2>7. \A t, u \in Scopes : current'[t] # None /\ current'[t] = current'[u] => t = u
    BY <1>2 DEF IInv, ScopesRight
  <2> QED BY <2>3, <2>4, <2>5, <2>6, <2>7 DEF ScopesRight
<1>4. CredentialsRight' /\ AckRight' /\ AcknowledgedStays'
  BY DEF IInv, CredentialsRight, AckRight, AcknowledgedStays, Held, Users
<1>5. stored' \in [credential : Nat \cup {None}, request : Requests \cup {None}]
      /\ mutations' \in 0..MaxChanges /\ reloads' \in 0..MaxReloads /\ acked' \in Me
  BY DEF IInv, TypeOK
<1> QED BY <1>2, <1>3, <1>4, <1>5, ScreenStepKeeps

LEMMA FailuresKeep ==
    ASSUME IInv, NEW c \in Calls, BootFails(c) \/ RefreshFails(c) \/ MutationFails(c) PROVE IInv'
<1> USE DEF serverVars, Scopes
<1>1. CASE BootFails(c)
  <2>1. /\ page' = [page EXCEPT !.booting = FALSE, !.error = TRUE]
        /\ UNCHANGED <<link, replay, owner, record, durable, stored, mutations, reloads, acked>>
        /\ current["boot"] = c /\ GivenUp(c, "boot")
    BY <1>1 DEF BootFails
  <2>2. /\ page' \in [booting : BOOLEAN, error : BOOLEAN, me : Me \cup {None}, busy : BOOLEAN,
                      credential : Nat \cup {None}, request : Requests \cup {None}]
        /\ UNCHANGED <<page.credential, page.request, page.me>>
    BY <2>1 DEF IInv, TypeOK
  <2> QED BY <2>1, <2>2, FailureKeeps
<1>2. CASE RefreshFails(c)
  <2>1. /\ page' = page
        /\ UNCHANGED <<link, replay, owner, record, durable, stored, mutations, reloads, acked>>
        /\ current["me"] = c /\ GivenUp(c, "me")
    BY <1>2 DEF RefreshFails
  <2>2. /\ page' \in [booting : BOOLEAN, error : BOOLEAN, me : Me \cup {None}, busy : BOOLEAN,
                      credential : Nat \cup {None}, request : Requests \cup {None}]
        /\ UNCHANGED <<page.credential, page.request, page.me, page.booting>>
    BY <2>1 DEF IInv, TypeOK
  <2> QED BY <2>1, <2>2, FailureKeeps
<1>3. CASE MutationFails(c)
  <2>1. /\ page' = [page EXCEPT !.busy = FALSE]
        /\ UNCHANGED <<link, replay, owner, record, durable, stored, mutations, reloads, acked>>
        /\ current["mutation"] = c /\ GivenUp(c, "mutation")
    BY <1>3 DEF MutationFails
  <2>2. /\ page' \in [booting : BOOLEAN, error : BOOLEAN, me : Me \cup {None}, busy : BOOLEAN,
                      credential : Nat \cup {None}, request : Requests \cup {None}]
        /\ UNCHANGED <<page.credential, page.request, page.me, page.booting>>
    BY <2>1 DEF IInv, TypeOK
  <2> QED BY <2>1, <2>2, FailureKeeps
<1> QED BY <1>1, <1>2, <1>3

\* Start aborts everything and begins one call of the boot.
LEMMA BeginIs ==
    ASSUME IInv, NEW c \in Calls, call[c] = NoCall, NEW x \in CallType, x.live,
           x.kind \in {"register", "getMe"}, CallRight(x)',
           current' = [s \in Scopes |-> IF s = "boot" THEN c ELSE None],
           call' = [d \in Calls |-> IF d = c THEN x ELSE LetGo(call[d])],
           UNCHANGED <<owner, record>>, page'.booting
    PROVE /\ current' \in [Scopes -> Calls \cup {None}] /\ call' \in [Calls -> CallType]
          /\ \A d \in Calls : call'[d].live <=> \E s \in Scopes : current'[s] = d
          /\ CallsRight' /\ ScopesRight'
<1>1. \A d \in Calls : LetGo(call[d]) \in CallType /\ ~LetGo(call[d]).live
  <2> TAKE d \in Calls
  <2>1. call[d] \in CallType
    BY DEF IInv, TypeOK
  <2> QED BY <2>1, LetGoIs
<1>2. None \notin Calls
  BY SessionAssumption DEF SessionAssumption
<1>3. current' \in [Scopes -> Calls \cup {None}] /\ call' \in [Calls -> CallType]
  BY <1>1
<1>4. ASSUME NEW d \in Calls PROVE call'[d].live <=> \E s \in Scopes : current'[s] = d
  <2>1. CASE d = c
    <3>1. call'[d].live /\ current'["boot"] = d
      BY <2>1 DEF Scopes
    <3> QED BY <3>1 DEF Scopes
  <2>2. CASE d # c
    <3>1. ~call'[d].live
      BY <1>1, <2>2
    <3>2. \A s \in Scopes : current'[s] # d
      BY <1>2, <2>2
    <3> QED BY <3>1, <3>2
  <2> QED BY <2>1, <2>2
<1>5. CallsRight'
  <2> SUFFICES ASSUME NEW d \in Calls, NEW y \in CallType, y = call'[d] PROVE CallRight(y)'
    BY DEF CallsRight
  <2>1. CASE d = c
    BY <2>1
  <2>2. CASE d # c
    <3>1. y = LetGo(call[d]) /\ ~y.live
      BY <1>1, <2>2
    <3> QED BY <3>1, OldCallRight
  <2> QED BY <2>1, <2>2
<1>6. ScopesRight'
  <2>1. current'["boot"] = c /\ current'["me"] = None /\ current'["mutation"] = None /\ call'[c] = x
    BY DEF Scopes
  <2> QED BY <1>2, <2>1 DEF ScopesRight, Scopes
<1> QED BY <1>3, <1>4, <1>5, <1>6

LEMMA StartKeeps == ASSUME IInv, Start PROVE IInv'
<1> DEFINE credential == IF page.credential # None THEN page.credential ELSE stored.credential
           begin(x) == \E c \in Calls :
               /\ call[c] = NoCall
               /\ current' = [s \in Scopes |-> IF s = "boot" THEN c ELSE None]
               /\ call' = [d \in Calls |-> IF d = c THEN x ELSE LetGo(call[d])]
<1>1. /\ UNCHANGED <<link, replay, owner, record, durable, mutations, reloads, acked>>
      /\ IF credential # None
         THEN /\ begin(Sent("getMe", credential, None))
              /\ page' = [page EXCEPT !.booting = TRUE, !.error = FALSE, !.credential = credential]
              /\ UNCHANGED stored
         ELSE \E r \in Requests :
              /\ RequestId(r)
              /\ begin(Sent("register", None, r))
              /\ page' = [page EXCEPT !.booting = TRUE, !.error = FALSE, !.request = r]
              /\ stored' = IF durable THEN [stored EXCEPT !.request = r] ELSE stored
  BY DEF Start, serverVars
<1>2. mutations' \in 0..MaxChanges /\ reloads' \in 0..MaxReloads /\ acked' \in Me
  BY <1>1 DEF IInv, TypeOK
<1>3. None \notin Nat /\ \A n \in Users : n \in Nat
  BY SessionAssumption, UsersAre DEF IInv, SessionAssumption
<1>4. CASE credential # None
  <2>1. credential \in Users /\ credential = Held
    BY <1>4 DEF Held, IInv, CredentialsRight
  <2>2. begin(Sent("getMe", credential, None)) /\ stored' = stored
        /\ page' = [page EXCEPT !.booting = TRUE, !.error = FALSE, !.credential = credential]
    BY <1>1, <1>4
  <2>3. /\ page' \in [booting : BOOLEAN, error : BOOLEAN, me : Me \cup {None}, busy : BOOLEAN,
                      credential : Nat \cup {None}, request : Requests \cup {None}]
        /\ page'.credential = credential /\ page'.request = page.request /\ page'.me = page.me
        /\ page'.booting
    BY <1>3, <2>1, <2>2 DEF IInv, TypeOK
  <2>4. /\ (page.credential # None => page.credential = credential)
        /\ (page.credential = None => stored.credential = credential)
    BY <1>4
  <2> HIDE DEF credential
  <2>5. PICK x \in CallType : /\ x = Sent("getMe", credential, None)
                              /\ x.live /\ x.kind = "getMe" /\ x.reply = None /\ x.user = credential
    <3>1. credential \in Nat \cup {None} /\ None \in Requests \cup {None}
      BY <1>3, <2>1
    <3> QED BY <3>1, SentIs
  <2>6. CallRight(x)'
    BY <1>1, <2>1, <2>3, <2>5 DEF CallRight, Users, Fields
  <2>7. /\ current' \in [Scopes -> Calls \cup {None}] /\ call' \in [Calls -> CallType]
        /\ \A d \in Calls : call'[d].live <=> \E s \in Scopes : current'[s] = d
        /\ CallsRight' /\ ScopesRight'
    BY <1>1, <2>2, <2>3, <2>5, <2>6, BeginIs
  <2>8. CredentialsRight'
    BY <1>1, <1>4, <2>1, <2>2, <2>3, <2>4 DEF IInv, CredentialsRight, Users
  <2>9. Held' = Held
    BY <1>4, <2>1, <2>3 DEF Held
  <2>10. AckRight' /\ AcknowledgedStays'
    BY <1>1, <2>3, <2>9 DEF IInv, AckRight, AcknowledgedStays
  <2>11. stored' \in [credential : Nat \cup {None}, request : Requests \cup {None}]
    BY <2>2 DEF IInv, TypeOK
  <2> QED BY <1>1, <1>2, <2>3, <2>7, <2>8, <2>10, <2>11, ScreenStepKeeps
<1>5. CASE credential = None
  <2>1. page.credential = None /\ stored.credential = None /\ page.me = None
    BY <1>5 DEF IInv, CredentialsRight
  <2>2. PICK r \in Requests :
              /\ begin(Sent("register", None, r))
              /\ page' = [page EXCEPT !.booting = TRUE, !.error = FALSE, !.request = r]
              /\ stored' = IF durable THEN [stored EXCEPT !.request = r] ELSE stored
    BY <1>1, <1>5
  <2>3. /\ page' \in [booting : BOOLEAN, error : BOOLEAN, me : Me \cup {None}, busy : BOOLEAN,
                      credential : Nat \cup {None}, request : Requests \cup {None}]
        /\ page'.credential = None /\ page'.request = r /\ page'.me = None /\ page'.booting
    BY <2>1, <2>2 DEF IInv, TypeOK
  <2>4. stored' \in [credential : Nat \cup {None}, request : Requests \cup {None}]
        /\ stored'.credential = None
    BY <2>1, <2>2 DEF IInv, TypeOK
  <2>5. /\ Sent("register", None, r) \in CallType /\ Sent("register", None, r).live
        /\ Sent("register", None, r).kind = "register" /\ Sent("register", None, r).reply = None
        /\ Sent("register", None, r).request = r
    BY DEF Sent, CallType
  <2>6. CallRight(Sent("register", None, r))'
    BY <2>3, <2>4, <2>5 DEF CallRight, Fields
  <2>7. /\ current' \in [Scopes -> Calls \cup {None}] /\ call' \in [Calls -> CallType]
        /\ \A d \in Calls : call'[d].live <=> \E s \in Scopes : current'[s] = d
        /\ CallsRight' /\ ScopesRight'
    BY <1>1, <2>2, <2>3, <2>5, <2>6, BeginIs
  <2>8. CredentialsRight'
    BY <2>3, <2>4 DEF CredentialsRight
  <2>9. Held' = None /\ Held = None
    BY <2>1, <2>3, <2>4 DEF Held
  <2>10. AckRight' /\ AcknowledgedStays'
    BY <1>1, <2>3, <2>9 DEF IInv, AckRight, AcknowledgedStays
  <2> QED BY <1>1, <1>2, <2>3, <2>4, <2>7, <2>8, <2>10, ScreenStepKeeps
<1> QED BY <1>4, <1>5

\* While the registration is waited for the app has no credential, so no other
\* call of the screen is on its way.
LEMMA RegisteredKeeps ==
    ASSUME IInv, NEW c \in Calls, Registered(c) PROVE IInv'
<1> DEFINE u == call[c].reply.user
           x == Sent("getMe", u, None)
<1>1. /\ UNCHANGED <<link, replay, owner, record, durable, current, mutations, reloads, acked>>
      /\ current["boot"] = c /\ call[c].reply # None /\ call[c].kind = "register" /\ u # 0
      /\ page' = [page EXCEPT !.credential = u]
      /\ stored' = IF durable THEN [stored EXCEPT !.credential = u] ELSE stored
      /\ call' = [call EXCEPT ![c] = x]
  BY DEF Registered, Arrives, Answered, serverVars
<1>2. None \notin Nat /\ None \notin Calls /\ \A n \in Users : n \in Nat
  BY SessionAssumption, UsersAre DEF IInv, SessionAssumption
<1>3. call[c] \in CallType /\ CallRight(call[c]) /\ call[c].live /\ u \in Users /\ owner[u] = call[c].request
      /\ page.credential = None /\ stored.credential = None /\ call[c].request = page.request
  BY <1>1, WaitedFor DEF CallRight, AnswerRight, Fields, Scopes
<1> HIDE DEF u
<1>4. /\ x \in CallType /\ x.live /\ x.kind = "getMe" /\ x.reply = None /\ x.user = u
  <2>1. u \in Nat \cup {None} /\ None \in Requests \cup {None}
    BY <1>2, <1>3
  <2> QED BY <2>1, SentIs
<1> HIDE DEF x
<1>5. ASSUME NEW d \in Calls, d # c PROVE ~call[d].live
  <2> SUFFICES ASSUME call[d].live PROVE FALSE
    OBVIOUS
  <2>1. PICK s \in Scopes : current[s] = d
    BY DEF IInv, TypeOK
  <2>2. s = "me"
    BY <1>1, <1>2, <1>5, <2>1 DEF IInv, ScopesRight, Scopes
  <2>3. call[d].kind = "getMe"
    BY <1>2, <2>1, <2>2 DEF IInv, ScopesRight
  <2>4. CallRight(call[d])
    BY DEF IInv, TypeOK, CallsRight
  <2> QED BY <1>2, <1>3, <2>3, <2>4 DEF CallRight
<1>6. /\ page' \in [booting : BOOLEAN, error : BOOLEAN, me : Me \cup {None}, busy : BOOLEAN,
                    credential : Nat \cup {None}, request : Requests \cup {None}]
      /\ page'.credential = u /\ page'.request = page.request /\ page'.me = page.me
      /\ page'.booting = page.booting
  BY <1>1, <1>2, <1>3 DEF IInv, TypeOK
<1>7. /\ stored' \in [credential : Nat \cup {None}, request : Requests \cup {None}]
      /\ stored'.credential = IF durable THEN u ELSE None
  BY <1>1, <1>2, <1>3 DEF IInv, TypeOK
<1>8. /\ call' \in [Calls -> CallType] /\ current' \in [Scopes -> Calls \cup {None}]
      /\ call'[c] = x /\ \A d \in Calls \ {c} : call'[d] = call[d]
  BY <1>1, <1>4 DEF IInv, TypeOK
<1>9. ASSUME NEW d \in Calls PROVE call'[d].live <=> \E s \in Scopes : current'[s] = d
  BY <1>1, <1>3, <1>4, <1>8 DEF IInv, TypeOK
<1>10. CallsRight'
  <2> SUFFICES ASSUME NEW d \in Calls, NEW y \in CallType, y = call'[d] PROVE CallRight(y)'
    BY DEF CallsRight
  <2>1. CASE d = c
    BY <1>1, <1>3, <1>4, <1>6, <1>8, <2>1 DEF CallRight, Users, Fields
  <2>2. CASE d # c
    <3>1. y = call[d] /\ ~y.live
      BY <1>5, <1>8, <2>2
    <3> QED BY <1>1, <3>1, OldCallRight
  <2> QED BY <2>1, <2>2
<1>11. ScopesRight'
  <2>1. \A s \in Scopes : current[s] # None /\ s # "boot" => current[s] \in Calls \ {c}
    BY <1>1, <1>2 DEF IInv, ScopesRight, TypeOK, Scopes
  <2>2. current["boot"] # None /\ current["mutation"] = None /\ page.booting
    BY <1>1, <1>2 DEF IInv, ScopesRight
  <2> QED BY <1>1, <1>4, <1>6, <1>8, <2>1, <2>2 DEF IInv, ScopesRight, Scopes
<1>12. CredentialsRight'
  BY <1>1, <1>2, <1>3, <1>6, <1>7 DEF IInv, CredentialsRight, Users
<1>13. AckRight' /\ AcknowledgedStays'
  <2>1. Held = None /\ Held' = u
    BY <1>2, <1>3, <1>6 DEF Held
  <2>2. acked = Fresh /\ record[u] \in Me
    BY <1>3, <2>1, UsersAre DEF IInv, AckRight
  <2> QED BY <1>1, <1>2, <1>3, <1>6, <2>1, <2>2 DEF AckRight, AcknowledgedStays, IInv, Fresh, Me
<1>14. mutations' \in 0..MaxChanges /\ reloads' \in 0..MaxReloads /\ acked' \in Me
  BY <1>1 DEF IInv, TypeOK
<1> QED BY <1>1, <1>6, <1>7, <1>8, <1>9, <1>10, <1>11, <1>12, <1>13, <1>14, ScreenStepKeeps

\* A scope's new call supersedes the one it was waiting for.
LEMMA CallIs ==
    ASSUME IInv, NEW s \in Scopes, NEW x \in CallType, x.live, CallRight(x)', Call(s, x),
           UNCHANGED <<owner, record, acked, page.credential, page.request, stored.credential>>
    PROVE /\ current' \in [Scopes -> Calls \cup {None}] /\ call' \in [Calls -> CallType]
          /\ \A d \in Calls : call'[d].live <=> \E t \in Scopes : current'[t] = d
          /\ CallsRight'
          /\ current'[s] # None /\ call'[current'[s]] = x
          /\ \A t \in Scopes : t # s =>
                /\ current'[t] = current[t]
                /\ current[t] # None => call'[current[t]] = call[current[t]]
                                        /\ current'[t] # current'[s]
<1>1. PICK c \in Calls :
        /\ call[c] = NoCall
        /\ current' = [current EXCEPT ![s] = c]
        /\ call' = [d \in Calls |-> IF d = c THEN x
                                    ELSE IF d = current[s] THEN LetGo(call[d]) ELSE call[d]]
  BY DEF Call
<1>2. None \notin Calls
  BY SessionAssumption DEF SessionAssumption
<1>3. \A d \in Calls : call[d] \in CallType /\ LetGo(call[d]) \in CallType /\ ~LetGo(call[d]).live
  <2> TAKE d \in Calls
  <2>1. call[d] \in CallType
    BY DEF IInv, TypeOK
  <2> QED BY <2>1, LetGoIs
<1>4. /\ current' \in [Scopes -> Calls \cup {None}] /\ call' \in [Calls -> CallType]
      /\ current'[s] = c /\ call'[c] = x /\ \A t \in Scopes : t # s => current'[t] = current[t]
  BY <1>1, <1>3 DEF IInv, TypeOK
<1>5. \A t \in Scopes : current[t] # c
  <2>1. ~call[c].live
    BY <1>1 DEF NoCall
  <2> QED BY <2>1 DEF IInv, TypeOK
<1>6. \A t \in Scopes : t # s /\ current[t] # None => current[t] # current[s] /\ current[t] \in Calls
  BY DEF IInv, ScopesRight, TypeOK
<1>7. ASSUME NEW t \in Scopes, t # s, current[t] # None
      PROVE call'[current[t]] = call[current[t]] /\ current'[t] # current'[s]
  BY <1>1, <1>4, <1>5, <1>6, <1>7
<1>8. ASSUME NEW d \in Calls PROVE call'[d].live <=> \E t \in Scopes : current'[t] = d
  <2>1. CASE d = c
    BY <1>4, <2>1
  <2>2. CASE d # c /\ d = current[s]
    <3>1. ~call'[d].live
      BY <1>1, <1>3, <2>2
    <3>2. \A t \in Scopes : current'[t] # d
      BY <1>2, <1>4, <1>6, <2>2
    <3> QED BY <3>1, <3>2
  <2>3. CASE d # c /\ d # current[s]
    <3>1. call'[d] = call[d]
      BY <1>1, <2>3
    <3>2. (\E t \in Scopes : current'[t] = d) <=> (\E t \in Scopes : current[t] = d)
      BY <1>4, <2>3
    <3> QED BY <3>1, <3>2 DEF IInv, TypeOK
  <2> QED BY <2>1, <2>2, <2>3
<1>9. CallsRight'
  <2> SUFFICES ASSUME NEW d \in Calls, NEW y \in CallType, y = call'[d] PROVE CallRight(y)'
    BY DEF CallsRight
  <2>1. CASE d = c
    BY <1>4, <2>1
  <2>2. CASE d # c
    <3>1. y = call[d] \/ y = LetGo(call[d])
      BY <1>1, <2>2
    <3> QED BY <3>1, OldCallRight
  <2> QED BY <2>1, <2>2
<1> QED BY <1>2, <1>4, <1>7, <1>8, <1>9

LEMMA RefreshMeKeeps == ASSUME IInv, RefreshMe PROVE IInv'
<1>1. /\ UNCHANGED <<link, replay, owner, record, durable, stored, page, mutations, reloads, acked>>
      /\ page.me # None /\ Call("me", Sent("getMe", page.credential, None))
  BY DEF RefreshMe, serverVars
<1>2. page.credential \in Users /\ \A n \in Users : n \in Nat
  BY <1>1, UsersAre DEF IInv, CredentialsRight
<1>3. "me" \in Scopes
  BY DEF Scopes
<1>4. PICK x \in CallType : /\ x = Sent("getMe", page.credential, None) /\ Call("me", x)
                            /\ x.live /\ x.kind = "getMe" /\ x.reply = None /\ x.user = page.credential
  <2>1. page.credential \in Nat \cup {None} /\ None \in Requests \cup {None}
    BY <1>2
  <2> DEFINE y == Sent("getMe", page.credential, None)
  <2>2. y \in CallType /\ y.live /\ y.kind = "getMe" /\ y.reply = None /\ y.user = page.credential
    BY <2>1 DEF Sent, CallType
  <2>3. Call("me", y)
    BY <1>1
  <2> QED BY <2>2, <2>3
<1>5. CallRight(x)'
  BY <1>1, <1>2, <1>4 DEF CallRight, Users, Fields
<1>6. /\ current' \in [Scopes -> Calls \cup {None}] /\ call' \in [Calls -> CallType]
      /\ \A d \in Calls : call'[d].live <=> \E t \in Scopes : current'[t] = d
      /\ CallsRight'
      /\ current'["me"] # None /\ call'[current'["me"]] = x
      /\ \A t \in Scopes : t # "me" =>
            /\ current'[t] = current[t]
            /\ current[t] # None => call'[current[t]] = call[current[t]]
                                    /\ current'[t] # current'["me"]
  BY <1>1, <1>3, <1>4, <1>5, CallIs
<1>7. ScopesRight'
  BY <1>1, <1>3, <1>4, <1>6 DEF IInv, ScopesRight, Scopes
<1>8. CredentialsRight' /\ AckRight' /\ AcknowledgedStays'
  BY <1>1 DEF IInv, CredentialsRight, AckRight, AcknowledgedStays, Held, Users
<1>9. /\ stored' \in [credential : Nat \cup {None}, request : Requests \cup {None}]
      /\ page' \in [booting : BOOLEAN, error : BOOLEAN, me : Me \cup {None}, busy : BOOLEAN,
                    credential : Nat \cup {None}, request : Requests \cup {None}]
      /\ mutations' \in 0..MaxChanges /\ reloads' \in 0..MaxReloads /\ acked' \in Me
  BY <1>1 DEF IInv, TypeOK
<1> QED BY <1>1, <1>6, <1>7, <1>8, <1>9, ScreenStepKeeps

\* A change is asked for only when the boot is over.
LEMMA MutateKeeps == ASSUME IInv, NEW field \in Fields, Mutate(field) PROVE IInv'
<1>1. /\ UNCHANGED <<link, replay, owner, record, durable, stored, reloads, acked>>
      /\ page.me # None /\ ~page.booting /\ mutations < MaxChanges /\ mutations' = mutations + 1
      /\ page' = [page EXCEPT !.busy = TRUE]
      /\ Call("mutation", Sent(field, page.credential, None))
  BY DEF Mutate, serverVars
<1>2. page.credential \in Users /\ \A n \in Users : n \in Nat
  BY <1>1, UsersAre DEF IInv, CredentialsRight
<1>3. "mutation" \in Scopes
  BY DEF Scopes
<1>4. PICK x \in CallType : /\ x = Sent(field, page.credential, None) /\ Call("mutation", x)
                            /\ x.live /\ x.kind = field /\ x.reply = None /\ x.user = page.credential
  <2>1. page.credential \in Nat \cup {None} /\ None \in Requests \cup {None}
        /\ field \in {"register", "getMe"} \cup Fields
    BY <1>2
  <2> DEFINE y == Sent(field, page.credential, None)
  <2>2. y \in CallType /\ y.live /\ y.kind = field /\ y.reply = None /\ y.user = page.credential
    BY <2>1 DEF Sent, CallType
  <2>3. Call("mutation", y)
    BY <1>1
  <2> QED BY <2>2, <2>3
<1>5. /\ page' \in [booting : BOOLEAN, error : BOOLEAN, me : Me \cup {None}, busy : BOOLEAN,
                    credential : Nat \cup {None}, request : Requests \cup {None}]
      /\ UNCHANGED <<page.credential, page.request, page.me, page.booting>>
  BY <1>1 DEF IInv, TypeOK
<1>6. CallRight(x)'
  BY <1>1, <1>2, <1>4, <1>5 DEF CallRight, Users, Fields
<1>7. /\ current' \in [Scopes -> Calls \cup {None}] /\ call' \in [Calls -> CallType]
      /\ \A d \in Calls : call'[d].live <=> \E t \in Scopes : current'[t] = d
      /\ CallsRight'
      /\ current'["mutation"] # None /\ call'[current'["mutation"]] = x
      /\ \A t \in Scopes : t # "mutation" =>
            /\ current'[t] = current[t]
            /\ current[t] # None => call'[current[t]] = call[current[t]]
                                    /\ current'[t] # current'["mutation"]
  BY <1>1, <1>3, <1>4, <1>5, <1>6, CallIs
<1>8. ScopesRight'
  <2>1. current["boot"] = None
    BY <1>1 DEF IInv, ScopesRight
  <2> QED BY <1>1, <1>3, <1>4, <1>5, <1>7, <2>1 DEF IInv, ScopesRight, Scopes
<1>9. CredentialsRight' /\ AckRight' /\ AcknowledgedStays'
  BY <1>1, <1>5 DEF IInv, CredentialsRight, AckRight, AcknowledgedStays, Held, Users
<1>10. /\ stored' \in [credential : Nat \cup {None}, request : Requests \cup {None}]
       /\ mutations' \in 0..MaxChanges /\ reloads' \in 0..MaxReloads /\ acked' \in Me
  BY <1>1, SessionAssumption DEF IInv, TypeOK, SessionAssumption
<1> QED BY <1>1, <1>5, <1>7, <1>8, <1>9, <1>10, ScreenStepKeeps

\* When a change is acknowledged no /me answer is waited for any more: the boot is
\* over and the refresh is let go.
LEMMA MutatedKeeps == ASSUME IInv, NEW c \in Calls, NEW field \in Fields, Mutated(c, field) PROVE IInv'
<1> DEFINE v == call[c].reply.value
<1>1. /\ UNCHANGED <<link, replay, owner, record, durable, stored, mutations, reloads>>
      /\ current["mutation"] = c /\ call[c].reply # None /\ call[c].kind = field
      /\ page' = [page EXCEPT !.me[field] = v, !.busy = FALSE]
      /\ acked' = [acked EXCEPT ![field] = v]
      /\ current' = [current EXCEPT !["mutation"] = None, !["me"] = None]
      /\ call' = [d \in Calls |-> IF d = c THEN NoCall
                                  ELSE IF d = current["me"] THEN LetGo(call[d]) ELSE call[d]]
  BY DEF Mutated, Arrives, Answered, MeCancelled, serverVars
<1>2. None \notin Nat /\ None \notin Calls /\ \A n \in Users : n \in Nat /\ record[n] \in Me
  BY SessionAssumption, UsersAre DEF IInv, SessionAssumption
<1>3. /\ call[c] \in CallType /\ CallRight(call[c]) /\ call[c].live
      /\ v \in Nat /\ call[c].user \in Users /\ call[c].user = page.credential
      /\ v <= record[page.credential][field]
  <2>1. "mutation" \in Scopes
    BY DEF Scopes
  <2> QED BY <1>1, <2>1, WaitedFor DEF CallRight, AnswerRight, Fields
<1> HIDE DEF v
<1>4. current["boot"] = None /\ page.me \in Me /\ acked \in Me
  BY <1>1, <1>2 DEF IInv, ScopesRight, TypeOK
<1>5. /\ page' = [page EXCEPT !.me = [page.me EXCEPT ![field] = v], !.busy = FALSE]
      /\ [page.me EXCEPT ![field] = v] \in Me /\ acked' \in Me
  BY <1>1, <1>3, <1>4 DEF Me, Fields
<1>6. /\ page' \in [booting : BOOLEAN, error : BOOLEAN, me : Me \cup {None}, busy : BOOLEAN,
                    credential : Nat \cup {None}, request : Requests \cup {None}]
      /\ UNCHANGED <<page.credential, page.request, page.booting>>
      /\ page'.me = [page.me EXCEPT ![field] = v]
  BY <1>5 DEF IInv, TypeOK
<1>7. \A d \in Calls : call[d] \in CallType /\ LetGo(call[d]) \in CallType /\ ~LetGo(call[d]).live
  <2> TAKE d \in Calls
  <2>1. call[d] \in CallType
    BY DEF IInv, TypeOK
  <2> QED BY <2>1, LetGoIs
<1>8. current' \in [Scopes -> Calls \cup {None}] /\ call' \in [Calls -> CallType]
      /\ \A s \in Scopes : current'[s] = None
  BY <1>1, <1>4, <1>7, NoCallRight DEF IInv, TypeOK, Scopes
<1>9. ASSUME NEW d \in Calls PROVE ~call'[d].live
  <2>1. CASE d = c \/ d = current["me"]
    BY <1>1, <1>7, <2>1 DEF NoCall
  <2>2. CASE d # c /\ d # current["me"]
    <3>1. \A s \in Scopes : current[s] # d
      BY <1>1, <1>2, <1>4, <2>2 DEF Scopes
    <3>2. ~call[d].live
      BY <3>1 DEF IInv, TypeOK
    <3> QED BY <1>1, <2>2, <3>2
  <2> QED BY <2>1, <2>2
<1>10. \A d \in Calls : call'[d].live <=> \E s \in Scopes : current'[s] = d
  BY <1>2, <1>8, <1>9
<1>11. CallsRight'
  <2> SUFFICES ASSUME NEW d \in Calls, NEW y \in CallType, y = call'[d] PROVE CallRight(y)'
    BY DEF CallsRight
  <2>1. (y = call[d] \/ y = LetGo(call[d]) \/ y = NoCall) /\ ~y.live
    BY <1>1, <1>9
  <2> QED BY <1>1, <2>1, OldCallRight
<1>12. ScopesRight'
  BY <1>8 DEF ScopesRight, Scopes
<1>13. CredentialsRight'
  BY <1>1, <1>2, <1>3, <1>6 DEF IInv, CredentialsRight, Users
<1>14. AckRight' /\ AcknowledgedStays'
  <2>1. Held = page.credential /\ Held' = Held /\ Held # None
    BY <1>2, <1>3, <1>6 DEF Held
  <2>2. /\ record[page.credential].profile >= acked.profile
        /\ record[page.credential].discovery >= acked.discovery
    <3> HIDE DEF Held
    <3> QED BY <2>1 DEF IInv, AckRight
  <2>3. /\ page.me.profile >= acked.profile /\ page.me.discovery >= acked.discovery
    BY <1>2, <1>4, SessionAssumption DEF IInv, AcknowledgedStays, SessionAssumption, Me
  <2>4. record[page.credential] \in Me
    BY <1>2, <1>3
  <2>5. CASE field = "profile"
    <3>1. acked'.profile = v /\ acked'.discovery = acked.discovery
          /\ page'.me.profile = v /\ page'.me.discovery = page.me.discovery
      BY <1>1, <1>4, <1>6, <2>5 DEF Me
    <3> QED BY <1>1, <1>3, <1>6, <2>1, <2>2, <2>3, <2>4, <2>5, <3>1 DEF AckRight, AcknowledgedStays, Me
  <2>6. CASE field = "discovery"
    <3>1. acked'.discovery = v /\ acked'.profile = acked.profile
          /\ page'.me.discovery = v /\ page'.me.profile = page.me.profile
      BY <1>1, <1>4, <1>6, <2>6 DEF Me
    <3> QED BY <1>1, <1>3, <1>6, <2>1, <2>2, <2>3, <2>4, <2>6, <3>1 DEF AckRight, AcknowledgedStays, Me
  <2> QED BY <2>5, <2>6 DEF Fields
<1>15. /\ stored' \in [credential : Nat \cup {None}, request : Requests \cup {None}]
       /\ mutations' \in 0..MaxChanges /\ reloads' \in 0..MaxReloads
  BY <1>1 DEF IInv, TypeOK
<1> QED BY <1>1, <1>5, <1>6, <1>8, <1>10, <1>11, <1>12, <1>13, <1>14, <1>15, ScreenStepKeeps

LEMMA ReloadKeeps == ASSUME IInv, Reload PROVE IInv'
<1>1. /\ UNCHANGED <<link, replay, owner, record, durable, stored, mutations>>
      /\ reloads < MaxReloads /\ reloads' = reloads + 1
      /\ page' = NewPage
      /\ current' = [s \in Scopes |-> None]
      /\ call' = [c \in Calls |-> LetGo(call[c])]
      /\ acked' = IF stored.credential # None THEN acked ELSE Fresh
  BY DEF Reload, serverVars
<1>2. None \notin Nat /\ None \notin Calls
  BY SessionAssumption DEF SessionAssumption
<1>3. \A d \in Calls : LetGo(call[d]) \in CallType /\ ~LetGo(call[d]).live
  <2> TAKE d \in Calls
  <2>1. call[d] \in CallType
    BY DEF IInv, TypeOK
  <2> QED BY <2>1, LetGoIs
<1>4. /\ current' \in [Scopes -> Calls \cup {None}] /\ call' \in [Calls -> CallType]
      /\ \A d \in Calls : call'[d].live <=> \E s \in Scopes : current'[s] = d
  BY <1>1, <1>2, <1>3
<1>5. CallsRight'
  <2> SUFFICES ASSUME NEW d \in Calls, NEW y \in CallType, y = call'[d] PROVE CallRight(y)'
    BY DEF CallsRight
  <2>1. y = LetGo(call[d]) /\ ~y.live
    BY <1>1, <1>3
  <2> QED BY <1>1, <2>1, OldCallRight
<1>6. ScopesRight'
  BY <1>1 DEF ScopesRight, Scopes
<1>7. page' \in [booting : BOOLEAN, error : BOOLEAN, me : Me \cup {None}, busy : BOOLEAN,
                 credential : Nat \cup {None}, request : Requests \cup {None}]
      /\ page'.credential = None /\ page'.request = None /\ page'.me = None
  BY <1>1 DEF NewPage
<1>8. CredentialsRight'
  BY <1>1, <1>7 DEF IInv, CredentialsRight, Users
<1>9. AckRight' /\ AcknowledgedStays'
  <2>1. Held' = stored.credential
    BY <1>1, <1>7 DEF Held
  <2>2. CASE stored.credential = None
    BY <1>1, <1>7, <2>1, <2>2 DEF AckRight, AcknowledgedStays
  <2>3. CASE stored.credential # None
    <3>1. Held = stored.credential
      BY <2>3 DEF Held, IInv, CredentialsRight
    <3> HIDE DEF Held
    <3> QED BY <1>1, <1>7, <2>1, <2>3, <3>1 DEF IInv, AckRight, AcknowledgedStays
  <2> QED BY <2>2, <2>3
<1>10. /\ stored' \in [credential : Nat \cup {None}, request : Requests \cup {None}]
       /\ mutations' \in 0..MaxChanges /\ reloads' \in 0..MaxReloads /\ acked' \in Me
  BY <1>1, SessionAssumption DEF IInv, TypeOK, SessionAssumption, Fresh, Me
<1> QED BY <1>1, <1>4, <1>5, <1>6, <1>7, <1>8, <1>9, <1>10, ScreenStepKeeps

-----------------------------------------------------------------------------

LEMMA StutterKeeps == ASSUME IInv, UNCHANGED vars PROVE IInv'
<1> USE DEF vars, serverVars, clientVars
<1>1. TypeOK' /\ ServerRight' /\ ScopesRight'
  BY DEF IInv, TypeOK, ServerRight, ScopesRight, Users
<1>2. CallsRight'
  BY DEF IInv, CallsRight, CallRight, AnswerRight, Covers, Users
<1>3. CredentialsRight' /\ AckRight' /\ AcknowledgedStays'
  BY DEF IInv, CredentialsRight, AckRight, AcknowledgedStays, Held, Users
<1> QED BY <1>1, <1>2, <1>3 DEF IInv

\* Every step of the server and of the screen keeps the inductive invariant.
THEOREM StepRight == IInv /\ [Next]_vars => IInv'
<1> SUFFICES ASSUME IInv, [Next]_vars PROVE IInv'
  OBVIOUS
<1>1. CASE ServerStep
  BY <1>1, RegisterKeeps, GetMeKeeps, LostKeeps, MutationKeeps, ExpiryKeeps DEF ServerStep
<1>2. CASE ClientStep
  <2>1. CASE Start \/ RefreshMe \/ Reload \/ \E f \in Fields : Mutate(f)
    BY <2>1, StartKeeps, RefreshMeKeeps, ReloadKeeps, MutateKeeps
  <2>2. ASSUME NEW c \in Calls,
               \/ Registered(c) \/ Booted(c) \/ BootFails(c)
               \/ MeRefreshed(c) \/ RefreshFails(c) \/ MutationFails(c)
               \/ \E f \in Fields : Mutated(c, f)
        PROVE IInv'
    BY <2>2, RegisteredKeeps, BootedKeeps, MeRefreshedKeeps, FailuresKeep, MutatedKeeps
  <2> QED BY <1>2, <2>1, <2>2 DEF ClientStep
<1>3. CASE UNCHANGED vars
  BY <1>3, StutterKeeps
<1> QED BY <1>1, <1>2, <1>3 DEF Next

\* The inductive invariant holds throughout.
THEOREM Invariance == Spec => []IInv
BY InitRight, StepRight, PTL DEF Spec

\* Every reachable state has the types of Session, whatever the numbers of
\* calls, requests, changes and reloads.
THEOREM TypeCorrect == Spec => []TypeOK
<1>1. IInv => TypeOK
  BY DEF IInv
<1> QED BY <1>1, Invariance, PTL

\* One installation request makes at most one user, and a credential the app
\* holds is that user's (register_installation.lua, credentials.js).
THEOREM OneUserAlways == Spec => []OneUserPerInstallation
<1>1. IInv => OneUserPerInstallation
  <2> SUFFICES ASSUME IInv PROVE OneUserPerInstallation
    OBVIOUS
  <2>1. \A m, n \in Users : owner[m] = owner[n] => m = n
    BY DEF IInv, ServerRight
  <2>2. \A held \in {page.credential, stored.credential} :
          held # None => held \in Users /\ link[owner[held]] = held
    BY DEF IInv, ServerRight, CredentialsRight
  <2>3. page.credential # None /\ page.request # None => owner[page.credential] = page.request
    BY DEF IInv, CredentialsRight
  <2> QED BY <2>1, <2>2, <2>3 DEF OneUserPerInstallation
<1> QED BY <1>1, Invariance, PTL

\* No /me answer takes back from the screen what the server has acknowledged
\* (applyMe and cancelScope in discovery-controller.js).
THEOREM AcknowledgedAlways == Spec => []AcknowledgedStays
<1>1. IInv => AcknowledgedStays
  BY DEF IInv
<1> QED BY <1>1, Invariance, PTL

=============================================================================
