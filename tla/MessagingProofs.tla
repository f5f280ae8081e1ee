-------------------------- MODULE MessagingProofs --------------------------
(***************************************************************************)
(* What Messaging guarantees for any number of users, ids, texts and       *)
(* conversations, any window and any bounds.                               *)
(***************************************************************************)
EXTENDS Messaging, SequenceTheorems, TLAPS

-----------------------------------------------------------------------------
(***************************************************************************)
(* Types                                                                   *)
(***************************************************************************)

\* The discovery state keeps its types under every step of its own.
LEMMA ProximityTypes ==
    ASSUME ProximityTypeOK, ProximityNext
    PROVE  ProximityTypeOK'
<1>1. CASE Tick
    BY <1>1 DEF Tick, ProximityTypeOK
<1>2. ASSUME NEW u \in Users, Register(u)
      PROVE  ProximityTypeOK'
    BY <1>2 DEF Register, ProximityTypeOK
<1>3. ASSUME NEW u \in Users, PutProfile(u)
      PROVE  ProximityTypeOK'
    BY <1>3 DEF PutProfile, ProximityTypeOK
<1>4. ASSUME NEW u \in Users, NEW on \in BOOLEAN, SetFlag(u, on)
      PROVE  ProximityTypeOK'
    BY <1>4 DEF SetFlag, ProximityTypeOK
<1>5. ASSUME NEW u \in Users, Forget(u)
      PROVE  ProximityTypeOK'
    BY <1>5 DEF Forget, ProximityTypeOK, Nobody, Never
<1>6. ASSUME NEW u \in Users, NEW seen \in SUBSET Users, NEW moment \in 1..now,
             Observe(u, seen, moment)
      PROVE  ProximityTypeOK'
    <2>1. moment \in Nat
        BY DEF ProximityTypeOK
    <2>2. observed' \in [Users -> [Users -> Nat]]
        BY <1>6, <2>1 DEF Observe, ProximityTypeOK
    <2>3. QED
        BY <1>6, <2>2 DEF Observe, ProximityTypeOK
<1>7. QED
    BY <1>1, <1>2, <1>3, <1>4, <1>5, <1>6 DEF ProximityNext

\* A request's new message is a message, with the next number of its list.
LEMMA NewMessageType ==
    ASSUME TypeOK, NEW r \in Request, NEW c \in Conversations
    PROVE  /\ NewMessage(r, c) \in Message
           /\ NewMessage(r, c) # None
           /\ Key(r) \in Users \X ClientIds
           /\ {r.sender, r.recipient} \in SUBSET Users
<1>1. counter[c] + 1 \in Nat
    BY DEF TypeOK
<1>2. NewMessage(r, c) \in Message
    BY <1>1 DEF NewMessage, Message, Request
<1>3. QED
    BY <1>2, MessagingAssumption DEF Key, Request

\* Saving a message keeps the types of everything it writes.
LEMMA SaveTypes ==
    ASSUME TypeOK, NEW r \in arrived, NEW c \in Conversations, Save(r, c)
    PROVE  /\ stored' \subseteq [request : Request, message : Message]
           /\ counter' \in [Conversations -> Nat]
           /\ log' \in [Conversations -> Seq(Message)]
           /\ idem' \in [Users \X ClientIds -> Message \cup {None}]
           /\ convs' \in [Users -> [Conversations -> Nat]]
<1> DEFINE m == NewMessage(r, c)
<1>1. /\ r \in Request
      /\ m \in Message
      /\ Key(r) \in Users \X ClientIds
    BY NewMessageType DEF TypeOK
<1>2. stored' \subseteq [request : Request, message : Message]
    BY <1>1 DEF Save, TypeOK
<1>3. counter' \in [Conversations -> Nat]
    BY DEF Save, TypeOK
<1>4. log' \in [Conversations -> Seq(Message)]
    BY <1>1 DEF Save, TypeOK
<1>5. idem' \in [Users \X ClientIds -> Message \cup {None}]
    BY <1>1 DEF Save, TypeOK
<1>6. convs' \in [Users -> [Conversations -> Nat]]
    <2>1. r.moment \in Nat
        BY <1>1 DEF Request
    <2>2. QED
        BY <2>1 DEF Save, TypeOK
<1>7. QED
    BY <1>2, <1>3, <1>4, <1>5, <1>6

\* What AnswerTo builds is an answer.
LEMMA AnswerType ==
    ASSUME NEW r \in Request, NEW m \in Message
    PROVE  AnswerTo(r, m) \in Answer
BY DEF AnswerTo, Answer, Request

\* The empty database is well typed.
LEMMA InitTypes == Init => TypeOK
BY DEF Init, ProximityInit, ChatInit, TypeOK, ProximityTypeOK, Nobody, Never

\* Every step of discovery, of a handler or of the process keeps the types.
LEMMA NextTypes == TypeOK /\ [Next]_vars => TypeOK'
<1> SUFFICES ASSUME TypeOK, [Next]_vars
             PROVE  TypeOK'
    OBVIOUS
<1>1. CASE ProximityNext /\ UNCHANGED chatVars
    <2>1. ProximityTypeOK'
        BY <1>1, ProximityTypes DEF TypeOK
    <2>2. QED
        BY <1>1, <2>1 DEF TypeOK, chatVars
<1>2. ASSUME NEW s \in Users, NEW t \in Users, NEW i \in ClientIds, NEW x \in Texts,
             Arrive([sender |-> s, recipient |-> t, id |-> i, text |-> x,
                     moment |-> now])
      PROVE  TypeOK'
    <2>1. [sender |-> s, recipient |-> t, id |-> i, text |-> x, moment |-> now]
            \in Request
        BY DEF TypeOK, ProximityTypeOK, Request
    <2>2. arrived' \subseteq Request
        BY <1>2, <2>1 DEF Arrive, TypeOK
    <2>3. QED
        BY <1>2, <2>2 DEF Arrive, TypeOK, ProximityTypeOK, proximityVars
<1>3. ASSUME NEW r \in arrived, Refuse(r)
      PROVE  TypeOK'
    BY <1>3 DEF Refuse, TypeOK, ProximityTypeOK, proximityVars
<1>4. ASSUME NEW r \in arrived, Replay(r)
      PROVE  TypeOK'
    <2>1. r \in Request /\ Key(r) \in Users \X ClientIds
        BY DEF TypeOK, Key, Request
    <2>2. idem[Key(r)] \in Message
        BY <1>4, <2>1 DEF Replay, TypeOK
    <2>3. answers' \subseteq Answer
        BY <1>4, <2>1, <2>2, AnswerType DEF Replay, TypeOK
    <2>4. QED
        BY <1>4, <2>3 DEF Replay, TypeOK, ProximityTypeOK, proximityVars
<1>5. ASSUME NEW r \in arrived, Create(r)
      PROVE  TypeOK'
    <2>1. PICK c \in Conversations :
            /\ pair' = [pair EXCEPT ![{r.sender, r.recipient}] = c]
            /\ members' = [members EXCEPT ![c] = {r.sender, r.recipient}]
            /\ Save(r, c)
        BY <1>5 DEF Create
    <2>2. {r.sender, r.recipient} \in SUBSET Users
        BY DEF TypeOK, Request
    <2>3. /\ pair' \in [SUBSET Users -> Conversations \cup {None}]
          /\ members' \in [Conversations -> SUBSET Users]
        BY <2>1, <2>2 DEF TypeOK
    <2>4. QED
        BY <1>5, <2>1, <2>3, SaveTypes DEF Create, TypeOK, ProximityTypeOK, proximityVars
<1>6. ASSUME NEW r \in arrived, AppendTo(r)
      PROVE  TypeOK'
    <2>1. Known(r) \in Conversations
        <3>1. {r.sender, r.recipient} \in SUBSET Users
            BY DEF TypeOK, Request
        <3>2. pair[{r.sender, r.recipient}] \in Conversations \cup {None}
            BY <3>1 DEF TypeOK
        <3>3. QED
            BY <1>6, <3>2 DEF AppendTo, Known
    <2>2. Save(r, Known(r))
        BY <1>6 DEF AppendTo
    <2>3. QED
        BY <1>6, <2>1, <2>2, SaveTypes DEF AppendTo, TypeOK, ProximityTypeOK, proximityVars
<1>7. ASSUME NEW h \in stored, Notify(h)
      PROVE  TypeOK'
    <2>1. h.request \in Request /\ h.message \in Message
        BY DEF TypeOK
    <2>2. answers' \subseteq Answer /\ pushed' \in Seq(Message)
        BY <1>7, <2>1, AnswerType DEF Notify, TypeOK
    <2>3. QED
        BY <1>7, <2>2 DEF Notify, TypeOK, ProximityTypeOK, proximityVars
<1>8. CASE Crash
    BY <1>8 DEF Crash, TypeOK, ProximityTypeOK, proximityVars
<1>9. CASE UNCHANGED vars
    BY <1>9 DEF vars, proximityVars, chatVars, TypeOK, ProximityTypeOK
<1>10. QED
    BY <1>1, <1>2, <1>3, <1>4, <1>5, <1>6, <1>7, <1>8, <1>9 DEF Next, ChatNext

\* Every variable keeps its type.
THEOREM TypeCorrect == Spec => []TypeOK
<1>1. QED
    BY InitTypes, NextTypes, PTL DEF Spec

-----------------------------------------------------------------------------
(***************************************************************************)
(* The inductive invariant                                                 *)
(***************************************************************************)

\* A handler is past the router's check that nobody writes to themselves and
\* has a clock sample; once its script has stored a message, the message is
\* what it asked for and is recorded under its key.
HandlersRight ==
    /\ \A r \in arrived : r.sender # r.recipient /\ r.moment # Never
    /\ \A h \in stored :
          /\ idem[Key(h.request)] = h.message
          /\ h.message.sender = h.request.sender
          /\ h.message.recipient = h.request.recipient
          /\ h.message.text = h.request.text

\* conv:{c}:seq and the list conv:{c}:msgs never drift apart, and every row's
\* seq is its index plus one: get_messages turns one into the other.
SeqMatchesIndex ==
    \A c \in Conversations :
        /\ counter[c] = Len(log[c])
        /\ \A i \in 1..Len(log[c]) :
              log[c][i].seq = i /\ log[c][i].conversation = c

\* A conversation exists from its first message on, and exactly its members
\* list it, at the time of its last message.
ConversationsRight ==
    /\ \A c \in Conversations : members[c] = {} <=> log[c] = <<>>
    /\ \A c \in Conversations, u \in Users :
          /\ u \notin members[c] => convs[u][c] = Never
          /\ u \in members[c] =>
                /\ convs[u][c] = log[c][Len(log[c])].created_at
                /\ convs[u][c] # Never
    /\ \A c \in Conversations : members[c] \subseteq profiled
    /\ pair[{}] = None

\* No message is waiting to be announced twice, or after it was announced.
WaitingOnce ==
    /\ \A g, h \in stored : g.message = h.message => g = h
    /\ \A h \in stored : StoredIn(log, h.message)
    /\ \A h \in stored, i \in 1..Len(pushed) : pushed[i] # h.message

IInv ==
    /\ TypeOK
    /\ SeqMatchesIndex
    /\ OneConversationPerPair
    /\ StoredOncePerKey
    /\ AnswersAgree
    /\ HandlersRight
    /\ ConversationsRight
    /\ NotifiedOnce
    /\ WaitingOnce

\* The empty database satisfies the strengthened invariant.
LEMMA InitInv == Init => IInv
<1> SUFFICES ASSUME Init
             PROVE  IInv
    OBVIOUS
<1>1. TypeOK
    BY InitTypes
<1>2. SeqMatchesIndex
    BY DEF Init, ChatInit, SeqMatchesIndex
<1>3. OneConversationPerPair
    BY DEF Init, ChatInit, OneConversationPerPair
<1>4. StoredOncePerKey
    BY DEF Init, ChatInit, StoredOncePerKey
<1>5. AnswersAgree /\ HandlersRight /\ NotifiedOnce /\ WaitingOnce
    BY DEF Init, ChatInit, AnswersAgree, HandlersRight, NotifiedOnce, WaitingOnce
<1>6. ConversationsRight
    BY DEF Init, ChatInit, ConversationsRight
<1>7. QED
    BY <1>1, <1>2, <1>3, <1>4, <1>5, <1>6 DEF IInv

-----------------------------------------------------------------------------
(***************************************************************************)
(* Saving a message: what Create and AppendTo have in common               *)
(***************************************************************************)

SaveStep(r, c) ==
    /\ r \in arrived
    /\ c \in Conversations
    /\ idem[Key(r)] = None
    /\ Save(r, c)
    /\ members[c] \in {{}, {r.sender, r.recipient}}
    /\ members' = [members EXCEPT ![c] = {r.sender, r.recipient}]
    /\ {r.sender, r.recipient} \subseteq profiled
    /\ arrived' = arrived \ {r}
    /\ UNCHANGED <<answers, pushed, profiled>>

\* The list grows by the new message, whose seq is the new length.
LEMMA SaveAppends ==
    ASSUME IInv, NEW r, NEW c, SaveStep(r, c)
    PROVE  /\ NewMessage(r, c) \in Message
           /\ NewMessage(r, c).seq = Len(log[c]) + 1
           /\ counter'[c] = Len(log[c]) + 1
           /\ Len(log[c]) \in Nat
           /\ Len(log'[c]) = Len(log[c]) + 1
           /\ \A i \in 1..Len(log[c]) : log'[c][i] = log[c][i]
           /\ log'[c][Len(log[c]) + 1] = NewMessage(r, c)
           /\ \A d \in Conversations \ {c} :
                 log'[d] = log[d] /\ counter'[d] = counter[d]
<1>1. NewMessage(r, c) \in Message
    BY NewMessageType DEF IInv, SaveStep, TypeOK
<1>2. counter[c] = Len(log[c])
    BY DEF IInv, SeqMatchesIndex, SaveStep
<1>3. /\ log \in [Conversations -> Seq(Message)]
      /\ counter \in [Conversations -> Nat]
    BY DEF IInv, TypeOK
<1>4. /\ log' = [log EXCEPT ![c] = Append(@, NewMessage(r, c))]
      /\ counter' = [counter EXCEPT ![c] = @ + 1]
      /\ c \in Conversations
    BY DEF SaveStep, Save
<1>5. log'[c] = Append(log[c], NewMessage(r, c)) /\ log[c] \in Seq(Message)
    BY <1>3, <1>4
<1>6. /\ Len(log[c]) \in Nat
      /\ Len(log'[c]) = Len(log[c]) + 1
      /\ \A i \in 1..Len(log[c]) : log'[c][i] = log[c][i]
      /\ log'[c][Len(log[c]) + 1] = NewMessage(r, c)
    BY <1>1, <1>5
<1>7. NewMessage(r, c).seq = counter[c] + 1
    BY DEF NewMessage
<1>8. counter'[c] = Len(log[c]) + 1
    BY <1>2, <1>3, <1>4
<1>9. \A d \in Conversations \ {c} : log'[d] = log[d] /\ counter'[d] = counter[d]
    BY <1>3, <1>4
<1>10. QED
    BY <1>1, <1>2, <1>6, <1>7, <1>8, <1>9

\* What is stored stays where it is and is not the new message.
LEMMA SaveKeeps ==
    ASSUME IInv, NEW r, NEW c, SaveStep(r, c), NEW m \in Message, StoredIn(log, m)
    PROVE  StoredIn(log', m) /\ m # NewMessage(r, c)
<1>1. m.conversation \in Conversations /\ m.seq \in Nat
    BY DEF Message
<1>2. CASE m.conversation = c
    <2>1. m.seq \in 1..Len(log[c]) /\ log[c][m.seq] = m
        BY <1>2 DEF StoredIn
    <2>2. m.seq # Len(log[c]) + 1
        BY <2>1, SaveAppends
    <2>3. m.seq \in 1..Len(log'[c]) /\ log'[c][m.seq] = m
        BY <2>1, SaveAppends
    <2>4. QED
        BY <1>2, <2>2, <2>3, SaveAppends DEF StoredIn
<1>3. CASE m.conversation # c
    <2>1. log'[m.conversation] = log[m.conversation]
        BY <1>1, <1>3, SaveAppends
    <2>2. NewMessage(r, c).conversation = c
        BY DEF NewMessage
    <2>3. QED
        BY <1>3, <2>1, <2>2 DEF StoredIn
<1>4. QED
    BY <1>2, <1>3

\* The saved message can be read back at the place its seq names.
LEMMA SaveStores ==
    ASSUME IInv, NEW r, NEW c, SaveStep(r, c)
    PROVE  StoredIn(log', NewMessage(r, c))
<1> DEFINE m == NewMessage(r, c)
<1>1. m.conversation = c
    BY DEF NewMessage
<1>2. m.seq \in 1..Len(log'[c]) /\ log'[c][m.seq] = m
    BY SaveAppends
<1>3. QED
    BY <1>1, <1>2 DEF StoredIn

\* Saving keeps counters, lists and seqs in step: INCR and RPUSH go together.
LEMMA SaveKeepsSeq ==
    ASSUME IInv, NEW r, NEW c, SaveStep(r, c)
    PROVE  SeqMatchesIndex'
<1> SUFFICES ASSUME NEW d \in Conversations
             PROVE  /\ counter'[d] = Len(log'[d])
                    /\ \A i \in 1..Len(log'[d]) :
                          log'[d][i].seq = i /\ log'[d][i].conversation = d
    BY DEF SeqMatchesIndex
<1>1. CASE d = c
    <2>1. \A i \in 1..Len(log[c]) : log[c][i].seq = i /\ log[c][i].conversation = c
        BY <1>1 DEF IInv, SeqMatchesIndex
    <2>2. NewMessage(r, c).conversation = c
        BY DEF NewMessage
    <2>3. QED
        BY <1>1, <2>1, <2>2, SaveAppends
<1>2. CASE d # c
    BY <1>2, SaveAppends DEF IInv, SeqMatchesIndex
<1>3. QED
    BY <1>1, <1>2

\* Saving keeps keys and stored messages one to one: the key was free, and the
\* new message is in no other list.
LEMMA SaveKeepsKeys ==
    ASSUME IInv, NEW r, NEW c, SaveStep(r, c)
    PROVE  StoredOncePerKey'
<1> DEFINE m == NewMessage(r, c)
           Keys == Users \X ClientIds
<1>1. /\ r \in Request
      /\ Key(r) \in Keys
      /\ m \in Message
      /\ m # None
      /\ m.sender = Key(r)[1]
    BY NewMessageType DEF IInv, TypeOK, SaveStep, NewMessage, Key
<1>2. /\ idem \in [Keys -> Message \cup {None}]
      /\ idem' = [idem EXCEPT ![Key(r)] = m]
    BY DEF IInv, TypeOK, SaveStep, Save
<1>3. /\ idem'[Key(r)] = m
      /\ \A k \in Keys : k # Key(r) => idem'[k] = idem[k]
    BY <1>1, <1>2
<1>4. \A k \in Keys : idem[k] # None =>
        idem[k] \in Message /\ idem[k].sender = k[1] /\ StoredIn(log, idem[k])
    BY <1>2 DEF IInv, StoredOncePerKey
<1>5. \A k \in Keys : idem[k] # m
    BY <1>1, <1>2, <1>4, SaveKeeps
<1>6. idem[Key(r)] = None
    BY DEF SaveStep
<1>7. ASSUME NEW k \in Keys, idem'[k] # None
      PROVE  idem'[k].sender = k[1] /\ StoredIn(log', idem'[k])
    <2>1. CASE k = Key(r)
        BY <1>1, <1>3, <2>1, SaveStores
    <2>2. CASE k # Key(r)
        <3>1. idem'[k] = idem[k] /\ idem[k] # None
            BY <1>3, <1>7, <2>2
        <3>2. idem[k] \in Message /\ StoredIn(log, idem[k]) /\ idem[k].sender = k[1]
            BY <1>4, <3>1
        <3>3. QED
            BY <3>1, <3>2, SaveKeeps
    <2>3. QED
        BY <2>1, <2>2
<1>8. ASSUME NEW d \in Conversations, NEW i \in 1..Len(log'[d])
      PROVE  \E k \in Keys :
                /\ idem'[k] = log'[d][i]
                /\ \A other \in Keys : idem'[other] = idem'[k] => other = k
    <2>1. CASE d = c /\ i = Len(log[c]) + 1
        <3>1. idem'[Key(r)] = log'[d][i]
            BY <1>3, <2>1, SaveAppends
        <3>2. \A other \in Keys : idem'[other] = idem'[Key(r)] => other = Key(r)
            BY <1>3, <1>5
        <3>3. QED
            BY <1>1, <3>1, <3>2
    <2>2. CASE ~(d = c /\ i = Len(log[c]) + 1)
        <3>1. i \in 1..Len(log[d]) /\ log'[d][i] = log[d][i]
            BY <1>8, <2>2, SaveAppends
        <3>2. log[d][i] \in Message
            BY <3>1 DEF IInv, TypeOK
        <3>3. PICK k \in Keys :
                /\ idem[k] = log[d][i]
                /\ \A other \in Keys : idem[other] = idem[k] => other = k
            BY <3>1 DEF IInv, StoredOncePerKey
        <3>4. k # Key(r)
            BY <1>6, <3>2, <3>3, MessagingAssumption
        <3>5. idem'[k] = log'[d][i]
            BY <1>3, <3>1, <3>3, <3>4
        <3>6. idem[k] # m
            BY <1>5
        <3>7. \A other \in Keys : idem'[other] = idem'[k] => other = k
            BY <1>3, <3>3, <3>4, <3>6
        <3>8. QED
            BY <3>5, <3>7
    <2>3. QED
        BY <2>1, <2>2
<1>9. QED
    BY <1>7, <1>8 DEF StoredOncePerKey

\* Saving leaves what earlier answers and waiting handlers say about their keys.
LEMMA SaveKeepsAnswers ==
    ASSUME IInv, NEW r, NEW c, SaveStep(r, c)
    PROVE  AnswersAgree' /\ HandlersRight'
<1> DEFINE m == NewMessage(r, c)
           Keys == Users \X ClientIds
<1>1. /\ r \in Request
      /\ Key(r) \in Keys
      /\ m.sender = r.sender
      /\ m.recipient = r.recipient
      /\ m.text = r.text
    BY NewMessageType DEF IInv, TypeOK, SaveStep, NewMessage
<1>2. /\ idem'[Key(r)] = m
      /\ \A k \in Keys : k # Key(r) => idem'[k] = idem[k]
    BY <1>1 DEF IInv, TypeOK, SaveStep, Save
<1>3. idem[Key(r)] = None
    BY DEF SaveStep
<1>4. AnswersAgree'
    <2> SUFFICES ASSUME NEW a \in answers
                 PROVE  /\ idem'[Key(a)] = a.message
                        /\ a.message.sender = a.sender
                        /\ a.message.recipient = a.recipient
                        /\ a.message.text = a.text
        BY DEF AnswersAgree, SaveStep, Key
    <2>1. a \in Answer
        BY DEF IInv, TypeOK
    <2>2. Key(a) \in Keys /\ a.message \in Message
        BY <2>1 DEF Answer, Key
    <2>3. /\ idem[Key(a)] = a.message
          /\ a.message.sender = a.sender
          /\ a.message.recipient = a.recipient
          /\ a.message.text = a.text
        BY DEF IInv, AnswersAgree
    <2>4. Key(a) # Key(r)
        BY <1>3, <2>2, <2>3, MessagingAssumption
    <2>5. QED
        BY <1>2, <2>2, <2>3, <2>4
<1>5. \A q \in arrived' : q.sender # q.recipient /\ q.moment # Never
    BY DEF SaveStep, IInv, HandlersRight
<1>6. ASSUME NEW h \in stored'
      PROVE  /\ idem'[Key(h.request)] = h.message
             /\ h.message.sender = h.request.sender
             /\ h.message.recipient = h.request.recipient
             /\ h.message.text = h.request.text
    <2>1. CASE h = [request |-> r, message |-> m]
        BY <1>1, <1>2, <2>1
    <2>2. CASE h \in stored
        <3>1. h.request \in Request /\ h.message \in Message
            BY <2>2 DEF IInv, TypeOK
        <3>2. Key(h.request) \in Keys
            BY <3>1 DEF Request, Key
        <3>3. /\ idem[Key(h.request)] = h.message
              /\ h.message.sender = h.request.sender
              /\ h.message.recipient = h.request.recipient
              /\ h.message.text = h.request.text
            BY <2>2 DEF IInv, HandlersRight
        <3>4. Key(h.request) # Key(r)
            BY <1>3, <3>1, <3>3, MessagingAssumption
        <3>5. QED
            BY <1>2, <3>2, <3>3, <3>4
    <2>3. QED
        BY <2>1, <2>2 DEF SaveStep, Save
<1>7. HandlersRight'
    BY <1>5, <1>6 DEF HandlersRight, Key
<1>8. QED
    BY <1>4, <1>7

\* Saving moves both members' scores to the time of the new last message.
LEMMA SaveKeepsConversations ==
    ASSUME IInv, NEW r, NEW c, SaveStep(r, c), pair'[{}] = None
    PROVE  ConversationsRight'
<1> DEFINE m == NewMessage(r, c)
           both == {r.sender, r.recipient}
<1>1. /\ c \in Conversations
      /\ both \subseteq Users
      /\ m.created_at = r.moment
      /\ r.moment # Never
      /\ both # {}
    BY DEF IInv, TypeOK, SaveStep, NewMessage, HandlersRight, Request
<1>2. /\ members' \in [Conversations -> SUBSET Users]
      /\ members'[c] = both
      /\ \A d \in Conversations \ {c} : members'[d] = members[d]
    BY <1>1 DEF IInv, TypeOK, SaveStep
<1>3. \A u \in Users :
        /\ u \in both => convs'[u] = [convs[u] EXCEPT ![c] = r.moment]
        /\ u \notin both => convs'[u] = convs[u]
    BY DEF SaveStep, Save
<1>4. \A u \in Users : convs[u] \in [Conversations -> Nat]
    BY DEF IInv, TypeOK
<1>5. log'[c] # <<>>
    BY SaveAppends
<1>6. \A d \in Conversations : members'[d] = {} <=> log'[d] = <<>>
    <2>1. \A d \in Conversations : members[d] = {} <=> log[d] = <<>>
        BY DEF IInv, ConversationsRight
    <2>2. \A d \in Conversations \ {c} : log'[d] = log[d]
        BY SaveAppends
    <2>3. QED
        BY <1>1, <1>2, <1>5, <2>1, <2>2
<1>7. ASSUME NEW d \in Conversations, NEW u \in Users
      PROVE  /\ u \notin members'[d] => convs'[u][d] = Never
             /\ u \in members'[d] =>
                   /\ convs'[u][d] = log'[d][Len(log'[d])].created_at
                   /\ convs'[u][d] # Never
    <2>1. CASE d # c
        <3>1. convs'[u][d] = convs[u][d]
            BY <1>3, <1>4, <2>1
        <3>2. log'[d] = log[d] /\ members'[d] = members[d]
            BY <1>2, <2>1, SaveAppends
        <3>3. QED
            BY <3>1, <3>2 DEF IInv, ConversationsRight
    <2>2. CASE d = c /\ u \in both
        <3>1. convs'[u][d] = r.moment
            BY <1>3, <1>4, <2>2
        <3>2. log'[d][Len(log'[d])] = m
            BY <2>2, SaveAppends
        <3>3. QED
            BY <1>1, <1>2, <2>2, <3>1, <3>2
    <2>3. CASE d = c /\ u \notin both
        <3>1. convs'[u][d] = convs[u][d] /\ u \notin members[d]
            BY <1>3, <2>3 DEF SaveStep
        <3>2. QED
            BY <1>2, <2>3, <3>1 DEF IInv, ConversationsRight
    <2>4. QED
        BY <2>1, <2>2, <2>3
<1>8. \A d \in Conversations : members'[d] \subseteq profiled'
    BY <1>2 DEF SaveStep, IInv, ConversationsRight
<1>9. QED
    BY <1>6, <1>7, <1>8 DEF ConversationsRight

\* Saving adds one handler that will announce the message, which nobody has yet.
LEMMA SaveKeepsNotices ==
    ASSUME IInv, NEW r, NEW c, SaveStep(r, c)
    PROVE  NotifiedOnce' /\ WaitingOnce'
<1> DEFINE m == NewMessage(r, c)
<1>1. pushed \in Seq(Message) /\ pushed' = pushed
    BY DEF IInv, TypeOK, SaveStep
<1>2. \A i \in 1..Len(pushed) : StoredIn(log', pushed[i]) /\ pushed[i] # m
    BY <1>1, SaveKeeps DEF IInv, NotifiedOnce
<1>3. NotifiedOnce'
    BY <1>1, <1>2 DEF IInv, NotifiedOnce
<1>4. \A h \in stored : StoredIn(log', h.message) /\ h.message # m
    BY SaveKeeps DEF IInv, TypeOK, WaitingOnce
<1>5. stored' = stored \cup {[request |-> r, message |-> m]}
    BY DEF SaveStep, Save
<1>6. \A g, h \in stored' : g.message = h.message => g = h
    BY <1>4, <1>5 DEF IInv, WaitingOnce
<1>7. \A h \in stored' : StoredIn(log', h.message)
    BY <1>4, <1>5, SaveStores
<1>8. \A h \in stored', i \in 1..Len(pushed') : pushed'[i] # h.message
    BY <1>1, <1>2, <1>5 DEF IInv, WaitingOnce
<1>9. QED
    BY <1>3, <1>6, <1>7, <1>8 DEF WaitingOnce

\* Saving into a new or the known conversation keeps pairs and records mutual.
LEMMA SaveKeepsPairs ==
    ASSUME IInv, NEW r, NEW c, SaveStep(r, c),
           pair' = [pair EXCEPT ![{r.sender, r.recipient}] = c],
           pair[{r.sender, r.recipient}] \in {None, c},
           pair[{r.sender, r.recipient}] = None => members[c] = {}
    PROVE  OneConversationPerPair' /\ pair'[{}] = None
<1> DEFINE m == NewMessage(r, c)
           both == {r.sender, r.recipient}
<1>1. /\ c \in Conversations
      /\ both \in SUBSET Users
      /\ both # {}
      /\ pair \in [SUBSET Users -> Conversations \cup {None}]
      /\ {m.sender, m.recipient} = both
    BY DEF IInv, TypeOK, SaveStep, NewMessage, Request
<1>2. /\ members'[c] = both
      /\ \A d \in Conversations \ {c} : members'[d] = members[d]
    BY <1>1 DEF IInv, TypeOK, SaveStep
<1>3. /\ pair'[both] = c
      /\ \A p \in SUBSET Users : p # both => pair'[p] = pair[p]
    BY <1>1
<1>4. /\ \A p \in SUBSET Users : pair[p] # None => members[pair[p]] = p
      /\ \A d \in Conversations : members[d] # {} => pair[members[d]] = d
      /\ \A d \in Conversations : \A i \in 1..Len(log[d]) :
            {log[d][i].sender, log[d][i].recipient} = members[d]
    BY DEF IInv, OneConversationPerPair
<1>5. pair[{}] = None /\ pair'[{}] = None
    BY <1>1, <1>3 DEF IInv, ConversationsRight
<1>6. ASSUME NEW p \in SUBSET Users, pair'[p] # None
      PROVE  members'[pair'[p]] = p
    <2>1. CASE p = both
        BY <1>2, <1>3, <2>1
    <2>2. CASE p # both
        <3>1. pair'[p] = pair[p] /\ pair[p] \in Conversations
            BY <1>1, <1>3, <1>6, <2>2
        <3>2. members[pair[p]] = p /\ p # {}
            BY <1>4, <1>5, <1>6, <3>1
        <3>3. pair[p] # c
            BY <2>2, <3>2 DEF SaveStep
        <3>4. QED
            BY <1>2, <3>1, <3>2, <3>3
    <2>3. QED
        BY <2>1, <2>2
<1>7. ASSUME NEW d \in Conversations, members'[d] # {}
      PROVE  pair'[members'[d]] = d
    <2>1. CASE d = c
        BY <1>2, <1>3, <2>1
    <2>2. CASE d # c
        <3>1. members'[d] = members[d] /\ pair[members[d]] = d
            BY <1>2, <1>4, <1>7, <2>2
        <3>2. members[d] \in SUBSET Users
            BY DEF IInv, TypeOK
        <3>3. members[d] # both
            BY <1>1, <2>2, <3>1, MessagingAssumption
        <3>4. QED
            BY <1>3, <3>1, <3>2, <3>3
    <2>3. QED
        BY <2>1, <2>2
<1>8. ASSUME NEW d \in Conversations, NEW i \in 1..Len(log'[d])
      PROVE  {log'[d][i].sender, log'[d][i].recipient} = members'[d]
    <2>1. CASE d # c
        <3>1. log'[d] = log[d] /\ members'[d] = members[d]
            BY <1>2, <2>1, SaveAppends
        <3>2. QED
            BY <1>4, <1>8, <3>1
    <2>2. CASE d = c /\ i = Len(log[c]) + 1
        <3>1. log'[d][i] = m
            BY <2>2, SaveAppends
        <3>2. {m.sender, m.recipient} = members'[d]
            BY <1>1, <1>2, <2>2
        <3>3. QED
            BY <3>1, <3>2
    <2>3. CASE d = c /\ i # Len(log[c]) + 1
        <3>1. i \in 1..Len(log[c]) /\ log'[c][i] = log[c][i]
            BY <1>8, <2>3, SaveAppends
        <3>2. members[c] = both
            <4>1. log[c] # <<>>
                BY <3>1
            <4>2. members[c] # {}
                BY <1>1, <4>1 DEF IInv, ConversationsRight
            <4>3. QED
                BY <4>2 DEF SaveStep
        <3>3. QED
            BY <1>1, <1>2, <1>4, <2>3, <3>1, <3>2
    <2>4. QED
        BY <2>1, <2>2, <2>3
<1>9. QED
    BY <1>5, <1>6, <1>7, <1>8 DEF OneConversationPerPair

-----------------------------------------------------------------------------
(***************************************************************************)
(* Every step                                                              *)
(***************************************************************************)

\* Create and AppendTo are the same save, into a new or the known list.
LEMMA SavesAreSteps ==
    ASSUME IInv, NEW r \in arrived, Create(r) \/ AppendTo(r)
    PROVE  \E c \in Conversations :
              /\ SaveStep(r, c)
              /\ pair[{r.sender, r.recipient}] \in {None, c}
              /\ pair[{r.sender, r.recipient}] = None => members[c] = {}
              /\ pair' = [pair EXCEPT ![{r.sender, r.recipient}] = c]
<1> DEFINE both == {r.sender, r.recipient}
<1>1. CASE Create(r)
    <2>1. PICK c \in Conversations :
            /\ members[c] = {}
            /\ pair' = [pair EXCEPT ![both] = c]
            /\ members' = [members EXCEPT ![c] = both]
            /\ Save(r, c)
        BY <1>1 DEF Create
    <2>2. SaveStep(r, c)
        BY <1>1, <2>1 DEF Create, SaveStep, MayStart, proximityVars
    <2>3. QED
        BY <1>1, <2>1, <2>2 DEF Create, Known
<1>2. CASE AppendTo(r)
    <2>1. both \in SUBSET Users
        BY DEF IInv, TypeOK, Request
    <2>2. /\ pair[both] # None
          /\ pair[both] \in Conversations
          /\ members[pair[both]] = both
        BY <1>2, <2>1 DEF IInv, TypeOK, OneConversationPerPair, AppendTo, Known
    <2>3. PICK c \in Conversations : c = pair[both]
        BY <2>2
    <2>4. Save(r, c)
        BY <1>2, <2>3 DEF AppendTo, Known
    <2>5. members' = [members EXCEPT ![c] = both] /\ pair' = [pair EXCEPT ![both] = c]
        BY <1>2, <2>1, <2>2, <2>3 DEF AppendTo, IInv, TypeOK
    <2>6. both \subseteq profiled
        BY <2>2 DEF IInv, ConversationsRight
    <2>7. SaveStep(r, c)
        BY <1>2, <2>2, <2>3, <2>4, <2>5, <2>6 DEF AppendTo, SaveStep, proximityVars
    <2>8. QED
        BY <2>2, <2>3, <2>5, <2>7
<1>3. QED
    BY <1>1, <1>2

\* A step that saves a message keeps the invariant.
LEMMA SaveInv ==
    ASSUME IInv, TypeOK', NEW r \in arrived, Create(r) \/ AppendTo(r)
    PROVE  IInv'
<1>1. PICK c \in Conversations :
        /\ SaveStep(r, c)
        /\ pair[{r.sender, r.recipient}] \in {None, c}
        /\ pair[{r.sender, r.recipient}] = None => members[c] = {}
        /\ pair' = [pair EXCEPT ![{r.sender, r.recipient}] = c]
    BY SavesAreSteps
<1>2. OneConversationPerPair' /\ pair'[{}] = None
    BY <1>1, SaveKeepsPairs
<1>3. QED
    BY <1>1, <1>2, SaveKeepsSeq, SaveKeepsKeys, SaveKeepsAnswers,
       SaveKeepsConversations, SaveKeepsNotices DEF IInv

\* A step that leaves the conversations and keys alone keeps what is said of
\* them; profiles may be added meanwhile.
LEMMA ChatUntouched ==
    ASSUME IInv, profiled \subseteq profiled',
           UNCHANGED <<pair, members, counter, log, idem, convs>>
    PROVE  /\ SeqMatchesIndex'
           /\ OneConversationPerPair'
           /\ StoredOncePerKey'
           /\ ConversationsRight'
<1>1. SeqMatchesIndex'
    BY DEF IInv, SeqMatchesIndex
<1>2. OneConversationPerPair'
    BY DEF IInv, OneConversationPerPair
<1>3. StoredOncePerKey'
    BY DEF IInv, StoredOncePerKey, StoredIn
<1>4. ConversationsRight'
    BY DEF IInv, ConversationsRight
<1>5. QED
    BY <1>1, <1>2, <1>3, <1>4

\* An answer that repeats what its request's key records agrees with it.
LEMMA AnswerAgrees ==
    ASSUME IInv, NEW r \in Request, idem' = idem,
           answers' = answers \cup {AnswerTo(r, idem[Key(r)])},
           idem[Key(r)].sender = r.sender,
           idem[Key(r)].recipient = r.recipient,
           idem[Key(r)].text = r.text
    PROVE  AnswersAgree'
<1> DEFINE new == AnswerTo(r, idem[Key(r)])
<1>1. /\ new.sender = r.sender
      /\ new.recipient = r.recipient
      /\ new.text = r.text
      /\ new.message = idem[Key(r)]
      /\ Key(new) = Key(r)
    BY DEF AnswerTo, Key
<1>2. ASSUME NEW a \in answers'
      PROVE  /\ idem'[Key(a)] = a.message
             /\ a.message.sender = a.sender
             /\ a.message.recipient = a.recipient
             /\ a.message.text = a.text
    <2>1. CASE a = new
        BY <1>1, <2>1
    <2>2. CASE a \in answers
        BY <2>2 DEF IInv, AnswersAgree
    <2>3. QED
        BY <2>1, <2>2
<1>3. QED
    BY <1>2 DEF AnswersAgree, Key

\* Announcing a stored message and answering keeps the invariant.
LEMMA NotifyInv ==
    ASSUME IInv, TypeOK', NEW h \in stored, Notify(h)
    PROVE  IInv'
<1>1. /\ SeqMatchesIndex'
      /\ OneConversationPerPair'
      /\ StoredOncePerKey'
      /\ ConversationsRight'
    BY ChatUntouched DEF Notify, proximityVars
<1>2. /\ h.message \in Message
      /\ pushed \in Seq(Message)
      /\ pushed' = Append(pushed, h.message)
      /\ stored' = stored \ {h}
    BY DEF IInv, TypeOK, Notify
<1>3. /\ Len(pushed') = Len(pushed) + 1
      /\ Len(pushed) \in Nat
      /\ \A i \in 1..Len(pushed) : pushed'[i] = pushed[i]
      /\ pushed'[Len(pushed) + 1] = h.message
    BY <1>2
<1>4. \A i \in 1..Len(pushed) : pushed[i] # h.message
    BY DEF IInv, WaitingOnce
<1>5. /\ \A i, j \in 1..Len(pushed) : pushed[i] = pushed[j] => i = j
      /\ \A i \in 1..Len(pushed) : StoredIn(log, pushed[i])
      /\ \A g \in stored : StoredIn(log, g.message)
    BY DEF IInv, NotifiedOnce, WaitingOnce
<1>6. \A i \in 1..Len(pushed') : i \in 1..Len(pushed) \/ i = Len(pushed) + 1
    BY <1>3
<1>7. log' = log
    BY DEF Notify
<1>8. NotifiedOnce'
    <2>1. \A i, j \in 1..Len(pushed') : pushed'[i] = pushed'[j] => i = j
        BY <1>3, <1>4, <1>5, <1>6
    <2>2. \A i \in 1..Len(pushed') : StoredIn(log', pushed'[i])
        BY <1>3, <1>5, <1>6, <1>7
    <2>3. QED
        BY <2>1, <2>2 DEF NotifiedOnce
<1>9. WaitingOnce'
    <2>1. \A g \in stored' : g \in stored /\ g.message # h.message
        BY <1>2 DEF IInv, WaitingOnce
    <2>2. \A g \in stored', i \in 1..Len(pushed') : pushed'[i] # g.message
        BY <1>3, <1>6, <2>1 DEF IInv, WaitingOnce
    <2>3. QED
        BY <1>5, <1>7, <2>1, <2>2 DEF IInv, WaitingOnce
<1>10. AnswersAgree'
    <2>1. /\ h.request \in Request
          /\ idem[Key(h.request)] = h.message
          /\ h.message.sender = h.request.sender
          /\ h.message.recipient = h.request.recipient
          /\ h.message.text = h.request.text
        BY DEF IInv, TypeOK, HandlersRight
    <2>2. answers' = answers \cup {AnswerTo(h.request, h.message)} /\ idem' = idem
        BY DEF Notify
    <2>3. QED
        BY <2>1, <2>2, AnswerAgrees
<1>11. HandlersRight'
    BY DEF IInv, HandlersRight, Notify, Key
<1>12. QED
    BY <1>1, <1>8, <1>9, <1>10, <1>11 DEF IInv

\* Answering a retry from its key keeps the invariant.
LEMMA ReplayInv ==
    ASSUME IInv, TypeOK', NEW r \in arrived, Replay(r)
    PROVE  IInv'
<1>1. /\ SeqMatchesIndex'
      /\ OneConversationPerPair'
      /\ StoredOncePerKey'
      /\ ConversationsRight'
    BY ChatUntouched DEF Replay, proximityVars
<1>2. NotifiedOnce' /\ WaitingOnce' /\ HandlersRight'
    BY DEF IInv, NotifiedOnce, WaitingOnce, HandlersRight, Replay, StoredIn, Key
<1>3. AnswersAgree'
    <2>1. r \in Request /\ Key(r) \in Users \X ClientIds /\ Key(r)[1] = r.sender
        BY DEF IInv, TypeOK, Key, Request
    <2>2. idem[Key(r)].sender = r.sender
        BY <2>1 DEF IInv, StoredOncePerKey, Replay
    <2>3. answers' = answers \cup {AnswerTo(r, idem[Key(r)])} /\ idem' = idem
        BY DEF Replay
    <2>4. QED
        BY <2>1, <2>2, <2>3, AnswerAgrees DEF Replay, SameContent
<1>4. QED
    BY <1>1, <1>2, <1>3 DEF IInv

\* Arriving, being refused and crashing touch handlers only.
LEMMA HandlerInv ==
    ASSUME IInv, TypeOK', stored' \subseteq stored,
           \A r \in arrived' : r.sender # r.recipient /\ r.moment # Never,
           profiled \subseteq profiled',
           UNCHANGED <<pair, members, counter, log, idem, convs, answers, pushed>>
    PROVE  IInv'
<1>1. /\ SeqMatchesIndex'
      /\ OneConversationPerPair'
      /\ StoredOncePerKey'
      /\ ConversationsRight'
    BY ChatUntouched
<1>2. AnswersAgree'
    BY DEF IInv, AnswersAgree, Key
<1>3. HandlersRight'
    BY DEF IInv, HandlersRight, Key
<1>4. NotifiedOnce' /\ WaitingOnce'
    BY DEF IInv, NotifiedOnce, WaitingOnce, StoredIn
<1>5. QED
    BY <1>1, <1>2, <1>3, <1>4 DEF IInv

\* The strengthened invariant is inductive.
LEMMA NextInv == IInv /\ [Next]_vars => IInv'
<1> SUFFICES ASSUME IInv, [Next]_vars
             PROVE  IInv'
    OBVIOUS
<1>1. TypeOK'
    BY NextTypes DEF IInv
<1>2. \A r \in arrived : r.sender # r.recipient /\ r.moment # Never
    BY DEF IInv, HandlersRight
<1>3. CASE ProximityNext /\ UNCHANGED chatVars
    <2>1. profiled \subseteq profiled'
        BY <1>3 DEF ProximityNext, Tick, Register, PutProfile, SetFlag, Forget, Observe
    <2>2. QED
        BY <1>1, <1>2, <1>3, <2>1, HandlerInv DEF chatVars
<1>4. ASSUME NEW s \in Users, NEW t \in Users, NEW i \in ClientIds, NEW x \in Texts,
             Arrive([sender |-> s, recipient |-> t, id |-> i, text |-> x,
                     moment |-> now])
      PROVE  IInv'
    <2>1. now # Never
        BY DEF IInv, TypeOK, ProximityTypeOK, Never
    <2>2. \A r \in arrived' : r.sender # r.recipient /\ r.moment # Never
        BY <1>2, <1>4, <2>1 DEF Arrive
    <2>3. QED
        BY <1>1, <1>4, <2>2, HandlerInv DEF Arrive, proximityVars
<1>5. ASSUME NEW r \in arrived, Refuse(r)
      PROVE  IInv'
    BY <1>1, <1>2, <1>5, HandlerInv DEF Refuse, proximityVars
<1>6. ASSUME NEW r \in arrived, Replay(r) \/ Create(r) \/ AppendTo(r)
      PROVE  IInv'
    BY <1>1, <1>6, ReplayInv, SaveInv
<1>7. ASSUME NEW h \in stored, Notify(h)
      PROVE  IInv'
    BY <1>1, <1>7, NotifyInv
<1>8. CASE Crash
    BY <1>1, <1>8, HandlerInv DEF Crash, proximityVars
<1>9. CASE UNCHANGED vars
    BY <1>1, <1>2, <1>9, HandlerInv DEF vars, proximityVars, chatVars
<1>10. QED
    BY <1>3, <1>4, <1>5, <1>6, <1>7, <1>8, <1>9 DEF Next, ChatNext

\* So it holds in every reachable state.
LEMMA Invariance == Spec => []IInv
BY InitInv, NextInv, PTL DEF Spec

-----------------------------------------------------------------------------
(***************************************************************************)
(* Theorems                                                                *)
(***************************************************************************)

\* The sequence counter never drifts from the list it numbers.
THEOREM SeqMatchesIndexAlways == Spec => []SeqMatchesIndex
<1>1. IInv => SeqMatchesIndex
    BY DEF IInv
<1>2. QED
    BY <1>1, Invariance, PTL

\* Two users never have two conversations, however their first messages race.
THEOREM OneConversationAlways == Spec => []OneConversationPerPair
<1>1. IInv => OneConversationPerPair
    BY DEF IInv
<1>2. QED
    BY <1>1, Invariance, PTL

\* A request repeated any number of times is saved at most once, and whatever
\* is saved is found by a repetition.
THEOREM StoredOnceAlways == Spec => []StoredOncePerKey
<1>1. IInv => StoredOncePerKey
    BY DEF IInv
<1>2. QED
    BY <1>1, Invariance, PTL

\* Every answer names the stored message that its request asked for.
THEOREM AnswersAgreeAlways == Spec => []AnswersAgree
<1>1. IInv => AnswersAgree
    BY DEF IInv
<1>2. QED
    BY <1>1, Invariance, PTL

\* No stored message is announced twice, whatever is retried or crashes.
THEOREM NotifiedOnceAlways == Spec => []NotifiedOnce
<1>1. IInv => NotifiedOnce
    BY DEF IInv
<1>2. QED
    BY <1>1, Invariance, PTL

\* Both members list exactly their conversations, in the order of the last
\* messages' times.
THEOREM ListsFollowAlways == Spec => []ListsFollowMessages
<1>1. IInv => ListsFollowMessages
    BY DEF IInv, ConversationsRight, ListsFollowMessages, Listed, TypeOK
<1>2. QED
    BY <1>1, Invariance, PTL

-----------------------------------------------------------------------------
(***************************************************************************)
(* What a step may do to the history                                       *)
(***************************************************************************)

\* Turning discovery off, expiry, a crash or another message never removes or
\* changes a stored message, a conversation or what a key stands for.
HistoryIsKept ==
    [][/\ \A c \in Conversations :
             /\ Len(log'[c]) >= Len(log[c])
             /\ \A i \in 1..Len(log[c]) : log'[c][i] = log[c][i]
             /\ members[c] # {} => members'[c] = members[c]
       /\ \A k \in Users \X ClientIds : idem[k] # None => idem'[k] = idem[k]
      ]_chatVars

\* What HistoryIsKept says of a step.
Kept ==
    /\ \A c \in Conversations :
          /\ Len(log'[c]) >= Len(log[c])
          /\ \A i \in 1..Len(log[c]) : log'[c][i] = log[c][i]
          /\ members[c] # {} => members'[c] = members[c]
    /\ \A k \in Users \X ClientIds : idem[k] # None => idem'[k] = idem[k]

\* A step that leaves lists, records and keys alone keeps the history.
LEMMA KeptWhenUntouched ==
    ASSUME IInv, UNCHANGED <<members, log, idem>>
    PROVE  Kept
<1>1. \A c \in Conversations : Len(log[c]) \in Nat
    BY DEF IInv, TypeOK
<1>2. QED
    BY <1>1 DEF Kept

\* Saving only appends, and writes a key that was free.
LEMMA KeptWhenSaved ==
    ASSUME IInv, NEW r, NEW c, SaveStep(r, c)
    PROVE  Kept
<1>1. c \in Conversations /\ members \in [Conversations -> SUBSET Users]
    BY DEF SaveStep, IInv, TypeOK
<1>2. \A d \in Conversations : Len(log[d]) \in Nat
    BY DEF IInv, TypeOK
<1>3. ASSUME NEW d \in Conversations
      PROVE  /\ Len(log'[d]) >= Len(log[d])
             /\ \A i \in 1..Len(log[d]) : log'[d][i] = log[d][i]
             /\ members[d] # {} => members'[d] = members[d]
    <2>1. members[d] # {} => members'[d] = members[d]
        BY <1>1 DEF SaveStep
    <2>2. CASE d = c
        BY <2>1, <2>2, SaveAppends
    <2>3. CASE d # c
        <3>1. log'[d] = log[d]
            BY <2>3, SaveAppends
        <3>2. QED
            BY <1>2, <2>1, <3>1
    <2>4. QED
        BY <2>2, <2>3
<1>4. \A k \in Users \X ClientIds : idem[k] # None => idem'[k] = idem[k]
    BY DEF SaveStep, Save, IInv, TypeOK
<1>5. QED
    BY <1>3, <1>4 DEF Kept

\* A step either leaves pairs, lists and keys alone or is one save.
LEMMA StepsSaveOrKeep ==
    ASSUME IInv, [Next]_vars
    PROVE  \/ UNCHANGED <<pair, members, log, idem>>
           \/ \E r \in arrived : Create(r) \/ AppendTo(r)
<1> DEFINE Same == UNCHANGED <<pair, members, log, idem>>
<1>1. CASE (ProximityNext /\ UNCHANGED chatVars) \/ UNCHANGED vars
    BY <1>1 DEF vars, chatVars
<1>2. ASSUME NEW r, Arrive(r)
      PROVE  Same
    BY <1>2 DEF Arrive
<1>3. ASSUME NEW r, Refuse(r) \/ Replay(r)
      PROVE  Same
    BY <1>3 DEF Refuse, Replay
<1>4. ASSUME NEW h, Notify(h)
      PROVE  Same
    BY <1>4 DEF Notify
<1>5. CASE Crash
    BY <1>5 DEF Crash
<1>6. QED
    BY <1>1, <1>2, <1>3, <1>4, <1>5 DEF Next, ChatNext

\* No step removes or alters a message, a conversation or a key.
LEMMA StepsKeep == IInv /\ [Next]_vars => Kept
<1> SUFFICES ASSUME IInv, [Next]_vars
             PROVE  Kept
    OBVIOUS
<1>1. CASE UNCHANGED <<pair, members, log, idem>>
    BY <1>1, KeptWhenUntouched
<1>2. ASSUME NEW r \in arrived, Create(r) \/ AppendTo(r)
      PROVE  Kept
    BY <1>2, SavesAreSteps, KeptWhenSaved
<1>3. QED
    BY <1>1, <1>2, StepsSaveOrKeep

\* Messages, conversations and keys are never removed or altered.
THEOREM HistoryAlwaysKept == Spec => HistoryIsKept
<1>1. Kept => [Kept]_chatVars
    OBVIOUS
<1>2. IInv /\ [Next]_vars => [Kept]_chatVars
    BY StepsKeep
<1>3. Spec => [][Kept]_chatVars
    BY <1>2, Invariance, PTL DEF Spec
<1>4. QED
    BY <1>3 DEF HistoryIsKept, Kept

-----------------------------------------------------------------------------
(***************************************************************************)
(* Messaging implements ChatPromise                                        *)
(***************************************************************************)

\* A function on 1..n is a sequence of length n.
LEMMA FunctionIsSeq ==
    ASSUME NEW S, NEW n \in Nat, NEW f \in [1..n -> S]
    PROVE  f \in Seq(S) /\ Len(f) = n
BY SeqDef, LenProperties

\* The empty database is an empty dialogue for every pair.
LEMMA PromiseInit == Init => Promise!Init
BY DEF Init, ChatInit, Promise!Init, Dialogue, Claimed

\* A save is a post: it claims an unclaimed key and extends the pair's dialogue.
LEMMA SavePosts ==
    ASSUME IInv, NEW r, NEW c, SaveStep(r, c),
           pair[{r.sender, r.recipient}] \in {None, c},
           pair[{r.sender, r.recipient}] = None => members[c] = {},
           pair' = [pair EXCEPT ![{r.sender, r.recipient}] = c]
    PROVE  Promise!Next
<1> DEFINE both == {r.sender, r.recipient}
           m == NewMessage(r, c)
           Entries(list) == [n \in 1..Len(list) |->
                               [sender |-> list[n].sender, text |-> list[n].text]]
           entry == [sender |-> r.sender, text |-> r.text]
<1>1. /\ r \in Request
      /\ r.sender # r.recipient
      /\ both \in SUBSET Users
      /\ c \in Conversations
      /\ c # None
      /\ m # None
      /\ m.sender = r.sender
      /\ m.text = r.text
      /\ Key(r) \in Users \X ClientIds
      /\ Key(r) = <<r.sender, r.id>>
    BY NewMessageType, MessagingAssumption
       DEF IInv, TypeOK, SaveStep, HandlersRight, NewMessage, Request, Key
<1>2. Key(r) \notin Claimed
    BY DEF SaveStep, Claimed
<1>3. Claimed' = Claimed \cup {Key(r)}
    <2>1. idem \in [Users \X ClientIds -> Message \cup {None}]
        BY DEF IInv, TypeOK
    <2>2. idem' = [idem EXCEPT ![Key(r)] = m]
        BY DEF SaveStep, Save
    <2>3. QED
        BY <1>1, <2>1, <2>2 DEF Claimed
<1>4. Entries(log'[c]) = Append(Entries(log[c]), entry)
    <2>1. /\ Len(log[c]) \in Nat
          /\ Len(log'[c]) = Len(log[c]) + 1
          /\ \A n \in 1..Len(log[c]) : log'[c][n] = log[c][n]
          /\ log'[c][Len(log[c]) + 1] = m
        BY SaveAppends
    <2> DEFINE before == Entries(log[c])
               after == Entries(log'[c])
    <2>2. /\ before \in Seq([sender : Users, text : Texts])
          /\ Len(before) = Len(log[c])
        <3>1. \A n \in 1..Len(log[c]) : log[c][n] \in Message
            BY <1>1 DEF IInv, TypeOK
        <3>2. \A n \in 1..Len(log[c]) : before[n] \in [sender : Users, text : Texts]
            BY <3>1 DEF Message
        <3>3. before \in [1..Len(log[c]) -> [sender : Users, text : Texts]]
            BY <3>2
        <3>4. QED
            BY <2>1, <3>3, FunctionIsSeq
    <2>3. Append(before, entry) =
            [n \in 1..(Len(log[c]) + 1) |-> IF n = Len(log[c]) + 1 THEN entry ELSE before[n]]
        BY <2>1, <2>2
    <2>4. \A n \in 1..(Len(log[c]) + 1) :
            after[n] = IF n = Len(log[c]) + 1 THEN entry ELSE before[n]
        BY <1>1, <2>1
    <2>5. QED
        BY <2>1, <2>3, <2>4
<1>5. Dialogue[both] = Entries(log[c])
    <2>1. CASE pair[both] = c
        BY <1>1, <2>1 DEF Dialogue
    <2>2. CASE pair[both] = None
        <3>1. log[c] = <<>>
            BY <1>1, <2>2 DEF IInv, ConversationsRight
        <3>2. QED
            BY <1>1, <2>2, <3>1 DEF Dialogue
    <2>3. QED
        BY <2>1, <2>2
<1>6. Dialogue'[both] = Entries(log'[c])
    BY <1>1 DEF Dialogue, IInv, TypeOK
<1>7. ASSUME NEW p \in SUBSET Users, p # both
      PROVE  Dialogue'[p] = Dialogue[p]
    <2>1. pair'[p] = pair[p]
        BY <1>1, <1>7 DEF IInv, TypeOK
    <2>2. pair[p] # None => pair[p] \in Conversations /\ members[pair[p]] = p
        BY DEF IInv, TypeOK, OneConversationPerPair
    <2>3. pair[p] # None => pair[p] # c
        <3>1. members[c] = both \/ members[c] = {}
            BY DEF SaveStep
        <3>2. p # {} \/ pair[p] = None
            BY DEF IInv, ConversationsRight
        <3>3. QED
            BY <1>7, <2>2, <3>1, <3>2
    <2>4. pair[p] # None => log'[pair[p]] = log[pair[p]]
        BY <2>2, <2>3, SaveAppends
    <2>5. QED
        BY <2>1, <2>4 DEF Dialogue
<1>8. Dialogue' = [Dialogue EXCEPT ![both] = Append(@, entry)]
    <2>1. Dialogue'[both] = Append(Dialogue[both], entry)
        BY <1>4, <1>5, <1>6
    <2>2. /\ Dialogue = [p \in SUBSET Users |-> Dialogue[p]]
          /\ Dialogue' = [p \in SUBSET Users |-> Dialogue'[p]]
        BY DEF Dialogue
    <2>3. ASSUME NEW D, NEW E, NEW x,
                 D = [p \in SUBSET Users |-> D[p]],
                 E = [p \in SUBSET Users |-> E[p]],
                 E[both] = x,
                 \A p \in SUBSET Users : p # both => E[p] = D[p]
          PROVE  E = [D EXCEPT ![both] = x]
        BY <1>1, <2>3
    <2>4. QED
        BY <1>7, <2>1, <2>2, <2>3
<1>9. Promise!Post(r.sender, r.recipient, r.id, r.text)
    BY <1>1, <1>2, <1>3, <1>8 DEF Promise!Post
<1>10. QED
    BY <1>1, <1>9 DEF Promise!Next, Request

\* Every step is a post of the promise or leaves its state alone.
LEMMA PromiseStep ==
    IInv /\ [Next]_vars => [Promise!Next]_<<Dialogue, Claimed>>
<1> SUFFICES ASSUME IInv, [Next]_vars
             PROVE  [Promise!Next]_<<Dialogue, Claimed>>
    OBVIOUS
<1>1. CASE UNCHANGED <<pair, members, log, idem>>
    BY <1>1 DEF Dialogue, Claimed
<1>2. ASSUME NEW r \in arrived, Create(r) \/ AppendTo(r)
      PROVE  Promise!Next
    BY <1>2, SavesAreSteps, SavePosts
<1>3. QED
    BY <1>1, <1>2, StepsSaveOrKeep

\* The Redis keys and the send script implement the promise.
THEOREM PromiseIsKept == Spec => KeepsPromise
BY PromiseInit, PromiseStep, Invariance, PTL DEF Spec, KeepsPromise, Promise!Spec

-----------------------------------------------------------------------------
(***************************************************************************)
(* Pages                                                                   *)
(***************************************************************************)

\* The page is a stretch of the list after the cursor, cut off by the limit only.
IsStretch(page, list, total, after, limit) ==
    LET rows == page.messages
    IN  /\ rows \in Seq(Message) /\ Len(rows) \in 0..limit
        /\ Len(rows) > 0 => after + Len(rows) <= Len(list)
        /\ Len(rows) < limit => after + Len(rows) >= Len(list)
        /\ \A n \in 1..Len(rows) : rows[n] = list[after + n]
        /\ page.has_more <=> total > after + Len(rows)
        /\ page.has_more => rows # <<>> /\ page.next_after_seq = after + Len(rows)

\* A page of a numbered list is the rows after the cursor, up to the limit.
LEMMA PageRows ==
    ASSUME NEW list \in Seq(Message), \A n \in 1..Len(list) : list[n].seq = n,
           NEW after \in Nat, NEW limit \in Nat \ {0}, NEW total \in 0..Len(list),
           NEW page, page = PageOf(list, total, after + 1, after + limit, after)
    PROVE  IsStretch(page, list, total, after, limit)
<1> DEFINE last == IF after + limit < Len(list) THEN after + limit ELSE Len(list)
           rows == SubSeq(list, after + 1, last)
<1>1. Len(list) \in Nat /\ last \in Int /\ last <= Len(list) /\ last <= after + limit
      /\ (last < after + limit => last = Len(list))
    OBVIOUS
<1>2. /\ page.messages = rows
      /\ page.has_more = (total > after + Len(rows))
      /\ page.next_after_seq = IF total > after + Len(rows) /\ rows # <<>>
                               THEN rows[Len(rows)].seq ELSE None
    BY DEF PageOf
<1> HIDE DEF last
<1>3. rows \in Seq(Message) /\ Len(rows) = (IF after + 1 <= last THEN last - after ELSE 0)
    BY <1>1
<1>4. \A n \in 1..Len(rows) : rows[n] = list[after + n] /\ after + n \in 1..Len(list)
    <2> SUFFICES ASSUME NEW n \in 1..Len(rows)
                 PROVE  rows[n] = list[after + n] /\ after + n \in 1..Len(list)
        OBVIOUS
    <2>1. after + 1 <= last /\ n \in 1..(last - after)
        BY <1>1, <1>3
    <2>2. rows[n] = list[after + 1 + n - 1]
        BY <1>1, <2>1
    <2>3. after + 1 + n - 1 = after + n /\ after + n \in 1..Len(list)
        BY <1>1, <2>1
    <2>4. QED
        BY <2>2, <2>3
<1> HIDE DEF rows
<1>5. /\ Len(rows) \in 0..limit
      /\ Len(rows) > 0 => after + Len(rows) <= Len(list)
      /\ Len(rows) < limit => after + Len(rows) >= Len(list)
    BY <1>1, <1>3
<1>6. ASSUME page.has_more
      PROVE  rows # <<>> /\ page.next_after_seq = after + Len(rows)
    <2>1. total > after + Len(rows)
        BY <1>2, <1>6
    <2>2. Len(rows) = limit
        <3>1. Len(rows) \in Nat /\ total \in Int /\ total <= Len(list)
            BY <1>1, <1>5
        <3>2. QED
            BY <1>1, <1>5, <2>1, <3>1
    <2>3. rows # <<>> /\ Len(rows) \in 1..Len(rows)
        BY <1>3, <2>2
    <2>4. rows[Len(rows)].seq = after + Len(rows)
        BY <1>4, <2>3
    <2>5. QED
        BY <1>2, <2>1, <2>3, <2>4
<1>7. QED
    BY <1>2, <1>3, <1>4, <1>5, <1>6 DEF IsStretch

\* Whatever is saved between LLEN and LRANGE, a page hands over to exactly the
\* rest, in order.
THEOREM PagesAlwaysFollow == Spec => []PagesFollowSeq
<1>1. IInv => PagesFollowSeq
    <2> SUFFICES ASSUME IInv, NEW c \in Conversations, NEW after \in 0..MaxLength,
                        NEW limit \in 1..MaxLength, NEW total \in 0..Len(log[c])
                 PROVE  LET page == Page(c, total, after, limit)
                            rows == page.messages
                        IN  /\ Len(rows) <= limit
                            /\ \A i, j \in 1..Len(rows) : i < j => rows[i].seq < rows[j].seq
                            /\ page.has_more =>
                                 rows # <<>> /\ HandsOver(page, c, after, page.next_after_seq)
                            /\ ~page.has_more =>
                                 /\ HandsOver(page, c, after, after + Len(rows))
                                 /\ {log[c][n] : n \in after + 1..total} \subseteq RowsOf(rows)
        BY DEF PagesFollowSeq
    <2> DEFINE page == Page(c, total, after, limit)
               rows == page.messages
               list == log[c]
    <2>1. /\ list \in Seq(Message) /\ \A n \in 1..Len(list) : list[n].seq = n
          /\ after \in Nat /\ limit \in Nat \ {0} /\ Len(list) \in Nat
          /\ total \in Int /\ total \in 0..Len(list)
          /\ page = PageOf(list, total, after + 1, after + limit, after)
        BY MessagingAssumption DEF IInv, TypeOK, SeqMatchesIndex, Page
    <2> HIDE DEF page, list
    <2>2. /\ rows \in Seq(Message) /\ Len(rows) \in 0..limit
          /\ Len(rows) > 0 => after + Len(rows) <= Len(list)
          /\ Len(rows) < limit => after + Len(rows) >= Len(list)
          /\ \A n \in 1..Len(rows) : rows[n] = list[after + n]
          /\ page.has_more <=> total > after + Len(rows)
          /\ page.has_more => rows # <<>> /\ page.next_after_seq = after + Len(rows)
        <3>1. IsStretch(page, list, total, after, limit)
            BY <2>1, PageRows
        <3>2. QED
            BY <3>1 DEF IsStretch
    <2>3. \A n \in 1..Len(rows) : after + n \in 1..Len(list) /\ rows[n].seq = after + n
        <3>1. ASSUME NEW n \in 1..Len(rows) PROVE after + n \in 1..Len(list)
            <4>1. Len(rows) \in Nat
                BY <2>2
            <4>2. n \in Int /\ 1 <= n /\ n <= Len(rows) /\ after + Len(rows) <= Len(list)
                BY <2>2, <4>1
            <4>3. QED
                BY <2>1, <4>1, <4>2
        <3>2. QED
            BY <2>1, <2>2, <3>1
    <2>4. ASSUME NEW i \in 1..Len(rows), NEW j \in 1..Len(rows), i < j
          PROVE  rows[i].seq < rows[j].seq
        <3>1. rows[i].seq = after + i /\ rows[j].seq = after + j
            BY <2>3
        <3>2. i \in Int /\ j \in Int
            OBVIOUS
        <3>3. QED
            BY <2>1, <2>4, <3>1, <3>2
    <2>5. ASSUME NEW m
          PROVE  /\ m \in RowsOf(rows) <=> \E n \in 1..Len(list) :
                       m = list[n] /\ after < n /\ n <= after + Len(rows)
                 /\ \A cursor \in Nat : m \in Beyond(c, cursor) <=>
                       \E n \in 1..Len(list) : m = list[n] /\ n > cursor
        <3>1. m \in RowsOf(rows) <=> \E n \in 1..Len(rows) : m = list[after + n]
            BY <2>2 DEF RowsOf
        <3>2. ASSUME NEW n \in 1..Len(list), after < n, n <= after + Len(rows)
              PROVE  n - after \in 1..Len(rows) /\ after + (n - after) = n
            BY <2>1, <2>2, <3>2
        <3>3. ASSUME NEW n \in 1..Len(rows)
              PROVE  after + n \in 1..Len(list) /\ after < after + n /\ after + n <= after + Len(rows)
            BY <2>1, <2>2, <2>3
        <3>4. m \in RowsOf(rows) <=> \E n \in 1..Len(list) :
                 m = list[n] /\ after < n /\ n <= after + Len(rows)
            BY <3>1, <3>2, <3>3
        <3>5. \A cursor \in Nat : m \in Beyond(c, cursor) <=>
                 \E n \in 1..Len(list) : m = list[n] /\ n > cursor
            BY <2>1 DEF Beyond, RowsOf, list
        <3>6. QED
            BY <3>4, <3>5
    <2>6. after + Len(rows) \in Nat
        BY <2>1, <2>2
    <2>7. HandsOver(page, c, after, after + Len(rows))
        <3>1. RowsOf(rows) \cup Beyond(c, after + Len(rows)) = Beyond(c, after)
            <4>1. Len(rows) \in Nat
                BY <2>2
            <4>2. ASSUME NEW m
                  PROVE  m \in RowsOf(rows) \cup Beyond(c, after + Len(rows)) <=> m \in Beyond(c, after)
                <5>1. m \in RowsOf(rows) <=> \E n \in 1..Len(list) :
                         m = list[n] /\ after < n /\ n <= after + Len(rows)
                    BY <2>5
                <5>2. m \in Beyond(c, after + Len(rows)) <=> \E n \in 1..Len(list) :
                         m = list[n] /\ n > after + Len(rows)
                    BY <2>5, <2>6
                <5>3. m \in Beyond(c, after) <=> \E n \in 1..Len(list) : m = list[n] /\ n > after
                    BY <2>1, <2>5
                <5>4. QED
                    BY <2>1, <4>1, <5>1, <5>2, <5>3
            <4>3. QED
                BY <4>2
        <3>2. RowsOf(rows) \cap Beyond(c, after + Len(rows)) = {}
            <4>1. ASSUME NEW m \in RowsOf(rows) PROVE m \notin Beyond(c, after + Len(rows))
                <5>1. PICK n \in 1..Len(list) : m = list[n] /\ n <= after + Len(rows)
                    BY <2>5
                <5>2. m.seq \in Nat /\ m.seq <= after + Len(rows)
                    BY <2>1, <5>1
                <5>3. QED
                    BY <2>6, <5>2 DEF Beyond
            <4>2. QED
                BY <4>1
        <3>3. QED
            BY <3>1, <3>2 DEF HandsOver
    <2>8. ASSUME ~page.has_more
          PROVE  {list[n] : n \in after + 1..total} \subseteq RowsOf(rows)
        <3>1. total <= after + Len(rows)
            BY <2>1, <2>2, <2>8
        <3>2. ASSUME NEW n \in after + 1..total PROVE list[n] \in RowsOf(rows)
            <4>1. n \in 1..Len(list) /\ after < n /\ n <= after + Len(rows)
                BY <2>1, <2>6, <3>1
            <4>2. QED
                BY <2>5, <4>1
        <3>3. QED
            BY <3>2
    <2>9. QED
        BY <2>2, <2>4, <2>7, <2>8 DEF page, list
<1>2. QED
    BY Invariance, <1>1, PTL

\* The refresh and the send script read the observation window alike: whoever a
\* refresh shows may be written to at that moment.
THEOREM ShownAlwaysMayBeWrittenTo == Spec => []ShownMayBeWrittenTo
<1>1. ShownMayBeWrittenTo
  <2> SUFFICES ASSUME NEW o \in profiled \cap enabled, NEW i \in ClientIds, NEW x \in Texts,
                      NEW v \in Snapshot(o, now)
               PROVE  MayStart([sender |-> o, recipient |-> v, id |-> i, text |-> x,
                                moment |-> now])
    BY DEF ShownMayBeWrittenTo
  <2>1. v \in profiled \cap enabled /\ observed[o][v] # Never /\ observed[o][v] + Window > now
    BY DEF Snapshot
  <2> QED BY <2>1 DEF MayStart
<1> QED BY <1>1, PTL

=============================================================================
