----------------------------- MODULE Messaging -----------------------------
(***************************************************************************)
(* POST /api/v1/messages: the router's create_message, store.send_message  *)
(* and the script send_message.lua, on top of the discovery state of       *)
(* Proximity.  A handler samples the clock (Arrive), runs the script as    *)
(* one atomic Redis command (Refuse, Replay, Create, Append), and for a    *)
(* new message schedules the recipient's push before it answers (Notify).  *)
(* Any request may arrive at any time and any number of times: that covers *)
(* a client that retries after a lost answer, one whose first attempt is   *)
(* still running, and one that reuses an id for another text.              *)
(***************************************************************************)
EXTENDS Proximity, Sequences, FiniteSets

CONSTANTS
    ClientIds,       \* client_message_id values
    Texts,
    Conversations,   \* pool of the uuids new_conv is drawn from
    None,
    MaxPending,      \* bound on the handlers in flight
    MaxLength        \* bound on the length of a conversation

Message == [sender : Users, recipient : Users, seq : Nat, text : Texts,
            conversation : Conversations, created_at : Nat]

ASSUME MessagingAssumption == None \notin Conversations \cup Message /\ MaxLength \in Nat

VARIABLES
    arrived,   \* handlers that have sampled the clock, before the script
    stored,    \* handlers whose script stored a message, before the push
    pair,      \* pair[{a, b}]: the conversation of a and b, or None
    members,   \* members[c]: user_a and user_b of conv:{c}, {} when absent
    counter,   \* counter[c]: conv:{c}:seq
    log,       \* log[c]: the list conv:{c}:msgs
    idem,      \* idem[<<sender, id>>]: the message saved under the key, or None
    convs,     \* convs[u][c]: score of c in user:{u}:convs, Never when absent
    answers,   \* the successful answers given so far
    pushed     \* the message notifications scheduled so far, in order

chatVars == <<arrived, stored, pair, members, counter, log, idem, convs,
              answers, pushed>>
vars == <<proximityVars, chatVars>>

Request == [sender : Users, recipient : Users, id : ClientIds, text : Texts,
            moment : Nat]

\* Nothing in an answer depends on the moment at which its request arrived.
Answer == [sender : Users, recipient : Users, id : ClientIds, text : Texts,
           message : Message]

Key(r) == <<r.sender, r.id>>

AnswerTo(r, m) == [sender |-> r.sender, recipient |-> r.recipient, id |-> r.id,
                   text |-> r.text, message |-> m]

TypeOK ==
    /\ ProximityTypeOK
    /\ arrived \subseteq Request
    /\ stored \subseteq [request : Request, message : Message]
    /\ pair \in [SUBSET Users -> Conversations \cup {None}]
    /\ members \in [Conversations -> SUBSET Users]
    /\ counter \in [Conversations -> Nat]
    /\ log \in [Conversations -> Seq(Message)]
    /\ idem \in [Users \X ClientIds -> Message \cup {None}]
    /\ convs \in [Users -> [Conversations -> Nat]]
    /\ answers \subseteq Answer
    /\ pushed \in Seq(Message)

ChatInit ==
    /\ arrived = {}
    /\ stored = {}
    /\ pair = [p \in SUBSET Users |-> None]
    /\ members = [c \in Conversations |-> {}]
    /\ counter = [c \in Conversations |-> 0]
    /\ log = [c \in Conversations |-> <<>>]
    /\ idem = [k \in Users \X ClientIds |-> None]
    /\ convs = [u \in Users |-> [c \in Conversations |-> Never]]
    /\ answers = {}
    /\ pushed = <<>>

Init == ProximityInit /\ ChatInit

-----------------------------------------------------------------------------
(***************************************************************************)
(* send_message.lua                                                        *)
(***************************************************************************)

\* Fault: a key seen before is taken for a retry whatever it carries.
SameContentAssumed(r) == TRUE

SameContent(r) ==
    idem[Key(r)].recipient = r.recipient /\ idem[Key(r)].text = r.text

\* Fault: the pair is never looked up.
KnownNeverRead(r) == None

\* The pair key sorts the two ids, so it does not depend on who sends.
Known(r) == pair[{r.sender, r.recipient}]

\* What a first message must satisfy.  The moment is the one sampled before
\* the script was called.
MayStart(r) ==
    /\ {r.sender, r.recipient} \subseteq profiled
    /\ {r.sender, r.recipient} \subseteq enabled
    /\ observed[r.sender][r.recipient] # Never
    /\ observed[r.sender][r.recipient] + Window > r.moment

NewMessage(r, c) ==
    [sender |-> r.sender, recipient |-> r.recipient, seq |-> counter[c] + 1,
     text |-> r.text, conversation |-> c, created_at |-> r.moment]

\* Fault: the key is not written.
SaveUnkeyed(r, c) ==
    LET m == NewMessage(r, c) IN
    /\ counter[c] < MaxLength
    /\ counter' = [counter EXCEPT ![c] = @ + 1]
    /\ log' = [log EXCEPT ![c] = Append(@, m)]
    /\ UNCHANGED idem
    /\ convs' = [u \in Users |-> IF u \in {r.sender, r.recipient}
                                THEN [convs[u] EXCEPT ![c] = r.moment]
                                ELSE convs[u]]
    /\ stored' = stored \cup {[request |-> r, message |-> m]}

\* Fault: only the sender's conversation list is updated.
SaveOneList(r, c) ==
    LET m == NewMessage(r, c) IN
    /\ counter[c] < MaxLength
    /\ counter' = [counter EXCEPT ![c] = @ + 1]
    /\ log' = [log EXCEPT ![c] = Append(@, m)]
    /\ idem' = [idem EXCEPT ![Key(r)] = m]
    /\ convs' = [convs EXCEPT ![r.sender][c] = r.moment]
    /\ stored' = stored \cup {[request |-> r, message |-> m]}

\* INCR, RPUSH, SET idem and the two ZADDs.
Save(r, c) ==
    LET m == NewMessage(r, c) IN
    /\ counter[c] < MaxLength
    /\ counter' = [counter EXCEPT ![c] = @ + 1]
    /\ log' = [log EXCEPT ![c] = Append(@, m)]
    /\ idem' = [idem EXCEPT ![Key(r)] = m]
    /\ convs' = [u \in Users |-> IF u \in {r.sender, r.recipient}
                                THEN [convs[u] EXCEPT ![c] = r.moment]
                                ELSE convs[u]]
    /\ stored' = stored \cup {[request |-> r, message |-> m]}

\* IDEMPOTENCY_CONFLICT, RECIPIENT_NOT_FOUND, PROFILE_REQUIRED,
\* DISCOVERY_DISABLED or OBSERVATION_REQUIRED: an error and no write.
Refuse(r) ==
    /\ \/ idem[Key(r)] # None /\ ~SameContent(r)
       \/ idem[Key(r)] = None /\ r.recipient \notin registered
       \/ idem[Key(r)] = None /\ r.recipient \in registered
          /\ Known(r) = None /\ ~MayStart(r)
    /\ arrived' = arrived \ {r}
    /\ UNCHANGED <<proximityVars, stored, pair, members, counter, log, idem,
                   convs, answers, pushed>>

\* Fault: a retry notifies the recipient again.
ReplayNotifying(r) ==
    /\ idem[Key(r)] # None
    /\ SameContent(r)
    /\ stored' = stored \cup {[request |-> r, message |-> idem[Key(r)]]}
    /\ arrived' = arrived \ {r}
    /\ UNCHANGED <<proximityVars, pair, members, counter, log, idem, convs,
                   answers, pushed>>

\* REPLAYED: the router answers at once and notifies nobody.
Replay(r) ==
    /\ idem[Key(r)] # None
    /\ SameContent(r)
    /\ answers' = answers \cup {AnswerTo(r, idem[Key(r)])}
    /\ arrived' = arrived \ {r}
    /\ UNCHANGED <<proximityVars, stored, pair, members, counter, log, idem,
                   convs, pushed>>

Create(r) ==
    /\ idem[Key(r)] = None
    /\ r.recipient \in registered
    /\ Known(r) = None
    /\ MayStart(r)
    /\ \E c \in Conversations :
         /\ members[c] = {}
         /\ pair' = [pair EXCEPT ![{r.sender, r.recipient}] = c]
         /\ members' = [members EXCEPT ![c] = {r.sender, r.recipient}]
         /\ Save(r, c)
    /\ arrived' = arrived \ {r}
    /\ UNCHANGED <<proximityVars, answers, pushed>>

\* Fault: a key reused for another text overwrites what it stood for.
AppendOverwriting(r) ==
    /\ idem[Key(r)] # None => ~SameContent(r)
    /\ r.recipient \in registered
    /\ Known(r) # None
    /\ Save(r, Known(r))
    /\ arrived' = arrived \ {r}
    /\ UNCHANGED <<proximityVars, pair, members, answers, pushed>>

\* An existing conversation is not checked again.
AppendTo(r) ==
    /\ idem[Key(r)] = None
    /\ r.recipient \in registered
    /\ Known(r) # None
    /\ Save(r, Known(r))
    /\ arrived' = arrived \ {r}
    /\ UNCHANGED <<proximityVars, pair, members, answers, pushed>>

-----------------------------------------------------------------------------
(***************************************************************************)
(* create_message                                                          *)
(***************************************************************************)

\* The recipient is not the sender, the sender is authenticated, and
\* send_message samples the clock.
Arrive(r) ==
    /\ r.sender # r.recipient
    /\ r.sender \in registered
    /\ r.moment = now
    /\ r \notin arrived
    /\ arrived' = arrived \cup {r}
    /\ UNCHANGED <<proximityVars, stored, pair, members, counter, log, idem,
                   convs, answers, pushed>>

\* CREATED or APPENDED: schedule the push task, then answer 201.
Notify(h) ==
    /\ pushed' = Append(pushed, h.message)
    /\ answers' = answers \cup {AnswerTo(h.request, h.message)}
    /\ stored' = stored \ {h}
    /\ UNCHANGED <<proximityVars, arrived, pair, members, counter, log, idem,
                   convs>>

\* The API process stops and restarts: its handlers are gone, Redis (which
\* fsyncs every write) is not.
Crash ==
    /\ arrived # {} \/ stored # {}
    /\ arrived' = {}
    /\ stored' = {}
    /\ UNCHANGED <<proximityVars, pair, members, counter, log, idem, convs,
                   answers, pushed>>

Pending == arrived \cup {h.request : h \in stored}

ChatNext ==
    \/ \E s, t \in Users, i \in ClientIds, x \in Texts :
         /\ Cardinality(Pending) < MaxPending
         /\ Arrive([sender |-> s, recipient |-> t, id |-> i, text |-> x,
                    moment |-> now])
    \/ \E r \in arrived : Refuse(r) \/ Replay(r) \/ Create(r) \/ AppendTo(r)
    \/ \E h \in stored : Notify(h)
    \/ Crash

Next ==
    \/ ProximityNext /\ UNCHANGED chatVars
    \/ ChatNext

Spec == Init /\ [][Next]_vars

-----------------------------------------------------------------------------
(***************************************************************************)
(* Reads                                                                   *)
(***************************************************************************)

\* get_messages: LRANGE from index after_seq, at most limit rows.  LLEN ran
\* before it, so its total may be smaller than the list that LRANGE reads.
PageOf(list, total, first, last, after) ==
    LET rows == SubSeq(list, first, IF last < Len(list) THEN last ELSE Len(list))
        more == total > after + Len(rows)
    IN  [messages |-> rows,
         has_more |-> more,
         next_after_seq |-> IF more /\ rows # <<>> THEN rows[Len(rows)].seq ELSE None]

\* Fault: the cursor's row is sent again.
PageFromCursor(c, total, after, limit) ==
    PageOf(log[c], total, IF after = 0 THEN 1 ELSE after, after + limit, after)

Page(c, total, after, limit) ==
    PageOf(log[c], total, after + 1, after + limit, after)

\* list_conversations shows what the sorted set names, unless the conversation,
\* its last message or the peer's profile is missing.  It reads them in three
\* round trips (store.py:345, :352, :368), here one look at the state: an answer
\* that mixes the moments of the three is not represented.
Listed(u) ==
    {c \in Conversations :
        /\ convs[u][c] # Never
        /\ members[c] # {}
        /\ log[c] # <<>>
        /\ members[c] \ {u} \subseteq profiled}

-----------------------------------------------------------------------------
(***************************************************************************)
(* Correctness                                                             *)
(***************************************************************************)

\* The message can be read back at its own place in these lists.
StoredIn(lists, m) ==
    /\ m.seq \in 1..Len(lists[m.conversation])
    /\ lists[m.conversation][m.seq] = m

\* The pair key and the conversation records name each other, so two users
\* never have two conversations even when both send the first message, and
\* every message lies in the conversation of the two it is between.
OneConversationPerPair ==
    /\ \A p \in SUBSET Users : pair[p] # None => members[pair[p]] = p
    /\ \A c \in Conversations :
          /\ members[c] # {} => pair[members[c]] = c
          /\ \A i \in 1..Len(log[c]) :
                {log[c][i].sender, log[c][i].recipient} = members[c]

\* Each stored message is the record of exactly one idempotency key of its
\* sender and each key records a stored message: nothing a client repeats is
\* saved twice, and nothing is saved that a retry would not find.
StoredOncePerKey ==
    /\ \A k \in Users \X ClientIds :
          idem[k] # None => idem[k].sender = k[1] /\ StoredIn(log, idem[k])
    /\ \A c \in Conversations : \A i \in 1..Len(log[c]) :
          \E k \in Users \X ClientIds :
             /\ idem[k] = log[c][i]
             /\ \A other \in Users \X ClientIds : idem[other] = idem[k] => other = k

\* A client that was told its message was saved was told of the message it
\* sent, and every answer to the same key told it of the same one.
AnswersAgree ==
    \A a \in answers :
        /\ idem[Key(a)] = a.message
        /\ a.message.sender = a.sender
        /\ a.message.recipient = a.recipient
        /\ a.message.text = a.text

\* The stored keys let both members list exactly their conversations, none hidden
\* by a missing record, message or profile, and the score that orders the list is
\* the time shown on the conversation's last message.
ListsFollowMessages ==
    \A u \in Users :
        /\ Listed(u) = {c \in Conversations : u \in members[c]}
        /\ \A c \in Listed(u) : convs[u][c] = log[c][Len(log[c])].created_at

\* No message is announced twice, and what is announced can be read.
NotifiedOnce ==
    /\ \A i, j \in 1..Len(pushed) : pushed[i] = pushed[j] => i = j
    /\ \A i \in 1..Len(pushed) : StoredIn(log, pushed[i])

RowsOf(list) == {list[n] : n \in 1..Len(list)}

Beyond(c, cursor) == {m \in RowsOf(log[c]) : m.seq > cursor}

\* What the page shows and what lies beyond the cursor is what lay beyond `after`.
HandsOver(page, c, after, cursor) ==
    /\ RowsOf(page.messages) \cup Beyond(c, cursor) = Beyond(c, after)
    /\ RowsOf(page.messages) \cap Beyond(c, cursor) = {}

\* Reading page after page misses and repeats nothing, and keeps the order, even
\* when messages are saved between the two commands of a page: a page with
\* has_more hands over to exactly the rest, and one without has everything that
\* LLEN had counted.
PagesFollowSeq ==
    \A c \in Conversations, after \in 0..MaxLength, limit \in 1..MaxLength :
        \A total \in 0..Len(log[c]) :
            LET page == Page(c, total, after, limit)
                rows == page.messages
            IN  /\ Len(rows) <= limit
                /\ \A i, j \in 1..Len(rows) : i < j => rows[i].seq < rows[j].seq
                /\ page.has_more =>
                     rows # <<>> /\ HandsOver(page, c, after, page.next_after_seq)
                /\ ~page.has_more =>
                     /\ HandsOver(page, c, after, after + Len(rows))
                     /\ {log[c][n] : n \in after + 1..total} \subseteq RowsOf(rows)

\* The refresh endpoint and the send script agree on the observation window:
\* whoever a refresh shows at this moment may be written to at this moment.
ShownMayBeWrittenTo ==
    \A o \in profiled \cap enabled, i \in ClientIds, x \in Texts :
        \A v \in Snapshot(o, now) :
            MayStart([sender |-> o, recipient |-> v, id |-> i, text |-> x,
                      moment |-> now])

\* The pair's list, without the keys and times the promise does not speak of.
Dialogue ==
    [p \in SUBSET Users |->
       IF pair[p] = None THEN <<>>
       ELSE [n \in 1..Len(log[pair[p]]) |->
               [sender |-> log[pair[p]][n].sender, text |-> log[pair[p]][n].text]]]

Claimed == {k \in Users \X ClientIds : idem[k] # None}

Promise == INSTANCE ChatPromise WITH dialogue <- Dialogue, claimed <- Claimed

\* The Redis keys implement the promise: a dialogue is its pair's list, and an
\* id is claimed once its key has a record.
KeepsPromise == Promise!Spec

=============================================================================
