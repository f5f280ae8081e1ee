----------------------------- MODULE ChatScreen -----------------------------
(***************************************************************************)
(* The chat screen of the web app: navigate, loadConversations, loadChat,  *)
(* syncHistory, send and the poll of refreshAll in discovery-controller.js.*)
(* JavaScript runs one callback at a time, so a step is what runs from one *)
(* network answer, timer or tap to the next await; a call that continues   *)
(* after an await finds whatever the other callbacks left.  Conversations  *)
(* are named by the peer, messages by their seq.                           *)
(***************************************************************************)
EXTENDS Naturals, FiniteSets

CONSTANTS
    Peers,
    None,
    Limit,        \* rows of one page of GET .../messages
    MaxStored     \* bound on the length of a conversation

ASSUME ChatScreenAssumption ==
    /\ None \notin Peers
    /\ Limit \in Nat \ {0}
    /\ MaxStored \in Nat

VARIABLES
    stored,         \* stored[p]: messages the server has between us and p
    view,           \* the peer whose chat is open, None on any other screen
    conversation,   \* whether conversationId is known
    shown,          \* state.messages, as <<peer, seq>>
    cursor,         \* historyCursor ?? 0
    listing,        \* the current request of scope 'conversations'
    history,        \* the running syncHistory and its request
    again,          \* historyAgain
    outbox,         \* outbox[p] and what the server saved for its id
    overtaken,      \* history: this chat was opened during a load of its history
    due             \* history: what was stored when this visit last called syncHistory

screenVars == <<view, conversation, shown, cursor, overtaken>>
vars == <<stored, screenVars, listing, history, again, outbox, due>>

NoList == [step |-> "none", opens |-> None, polled |-> FALSE, found |-> {}]
NoHistory == [step |-> "none", id |-> None, after |-> 0, items |-> {},
              total |-> 0, page |-> {}, more |-> FALSE]
NoEntry == [status |-> "none", seq |-> 0]

TypeOK ==
    /\ stored \in [Peers -> 0..MaxStored]
    /\ view \in Peers \cup {None}
    /\ conversation \in BOOLEAN
    /\ conversation => view # None
    /\ shown \subseteq Peers \X (1..MaxStored)
    /\ cursor \in Nat
    /\ listing \in [step : {"none", "asked", "answered"}, opens : Peers \cup {None},
                    polled : BOOLEAN, found : SUBSET Peers]
    /\ history \in [step : {"none", "asked", "counted", "answered"}, id : Peers \cup {None},
                    after : Nat, items : SUBSET (1..MaxStored), total : Nat,
                    page : SUBSET (1..MaxStored), more : BOOLEAN]
    /\ again \in BOOLEAN
    /\ outbox \in [Peers -> [status : {"none", "sending", "failed"}, seq : 0..MaxStored]]
    /\ overtaken \in BOOLEAN
    /\ due \in 0..MaxStored

Init ==
    /\ stored \in [Peers -> 0..MaxStored]
    /\ view = None
    /\ conversation = FALSE
    /\ shown = {}
    /\ cursor = 0
    /\ listing = NoList
    /\ history = NoHistory
    /\ again = FALSE
    /\ outbox = [p \in Peers |-> NoEntry]
    /\ overtaken = FALSE
    /\ due = 0

-----------------------------------------------------------------------------
(***************************************************************************)
(* syncHistory                                                             *)
(***************************************************************************)

\* A request for the pages after the cursor.
Asked(id, at) == [NoHistory EXCEPT !.step = "asked", !.id = id, !.after = at]

\* The call: only one runs, and a call during it makes it run once more.
SyncCalled(id, known, at) ==
    /\ due' = IF id # None /\ known THEN stored[id] ELSE due
    /\ IF history.step # "none"
       THEN again' = TRUE /\ UNCHANGED history
       ELSE /\ again' = FALSE
            /\ history' = IF id # None /\ known THEN Asked(id, at) ELSE NoHistory

\* The server reads a page in two commands (Messaging, Page): LLEN,
PageCounted ==
    /\ history.step = "asked"
    /\ history' = [history EXCEPT !.step = "counted", !.total = stored[history.id]]
    /\ UNCHANGED <<stored, screenVars, listing, again, outbox, due>>

\* and LRANGE, which may find more than was counted.
PageAnswered ==
    /\ history.step = "counted"
    /\ LET page == {n \in 1..stored[history.id] : history.after < n /\ n <= history.after + Limit}
       IN  history' = [history EXCEPT !.step = "answered", !.total = 0, !.page = page,
                         !.more = history.total > history.after + Cardinality(page)]
    /\ UNCHANGED <<stored, screenVars, listing, again, outbox, due>>

\* next_after_seq is the seq of the page's last row.
NextPage ==
    /\ history.step = "answered"
    /\ history.more
    /\ history' = [history EXCEPT !.step = "asked",
                     !.after = @ + Cardinality(history.page),
                     !.items = @ \cup history.page, !.page = {}, !.more = FALSE]
    /\ UNCHANGED <<stored, screenVars, listing, again, outbox, due>>

\* Fault: the answer is applied to whatever chat is open.
AppliesAnywhere == view # None

\* The screen still shows the conversation the load was for.
Applies == view = history.id /\ conversation

\* Fault: the seq of the conversation's last message, read or not.
LastOfConversation == stored[history.id]

\* The seq of the last row, or the cursor when no row came.
Last == history.after + Cardinality(history.page)

\* Fault: a call during the load is forgotten when the load ends.
RoundOnce(at) == again' = FALSE /\ history' = NoHistory

\* The loop of syncHistory goes round if it was called meanwhile.
Round(at) ==
    /\ again' = FALSE
    /\ history' = IF again /\ view # None /\ conversation THEN Asked(view, at) ELSE NoHistory

HistoryArrives ==
    /\ history.step = "answered"
    /\ ~history.more
    /\ IF Applies
       THEN /\ shown' = shown \cup {<<history.id, n>> : n \in history.items \cup history.page}
            /\ cursor' = Last
            /\ Round(Last)
       ELSE /\ UNCHANGED <<shown, cursor>>
            /\ Round(cursor)
    /\ UNCHANGED <<stored, view, conversation, overtaken, listing, outbox, due>>

\* A page's request or its answer is lost, which is the same to this side: what
\* earlier pages brought is dropped.
HistoryFails ==
    /\ history.step = "asked"
    /\ Round(cursor)
    /\ due' = IF history' = NoHistory THEN 0 ELSE due
    /\ UNCHANGED <<stored, screenVars, listing, outbox>>

-----------------------------------------------------------------------------
(***************************************************************************)
(* loadConversations and loadChat                                          *)
(***************************************************************************)

\* Fault: the list request of a poll does not load the open chat.
ListingOnly(p, poll) == [NoList EXCEPT !.step = "asked", !.opens = IF poll THEN None ELSE p, !.polled = poll]

Listing(p, poll) == [NoList EXCEPT !.step = "asked", !.opens = p, !.polled = poll]

ListAnswered ==
    /\ listing.step = "asked"
    /\ listing' = [listing EXCEPT !.step = "answered",
                                  !.found = {p \in Peers : stored[p] > 0}]
    /\ UNCHANGED <<stored, screenVars, history, again, outbox, due>>

\* loadChat goes on when its list came, failed or was superseded: it loads the
\* history if its chat is still open and its conversation known.
ChatGoesOn(known) ==
    IF listing.opens # None /\ listing.opens = view /\ known
    THEN SyncCalled(view, known, cursor)
    ELSE UNCHANGED <<history, again, due>>

ListArrives ==
    /\ listing.step = "answered"
    /\ listing' = NoList
    /\ conversation' = (conversation \/ view \in listing.found)
    /\ ChatGoesOn(conversation')
    /\ UNCHANGED <<stored, view, shown, cursor, overtaken, outbox>>

ListFails ==
    /\ listing.step = "asked"
    /\ listing' = NoList
    /\ ChatGoesOn(conversation)
    /\ UNCHANGED <<stored, screenVars, outbox>>

\* refreshAll, by the 15 second timer or after a send, when an earlier one is
\* not waiting.  A second list request supersedes the first.
Refresh ==
    /\ view # None
    /\ ~listing.polled
    /\ listing' = Listing(view, TRUE)
    /\ ChatGoesOn(conversation)
    /\ UNCHANGED <<stored, screenVars, outbox>>

-----------------------------------------------------------------------------
(***************************************************************************)
(* navigate                                                                *)
(***************************************************************************)

Cleared == conversation' = FALSE /\ shown' = {} /\ cursor' = 0 /\ due' = 0

\* To the chat with p from any other screen or chat.  The load of an earlier
\* visit is not cancelled.
OpenChat(p) ==
    /\ view # p
    /\ view' = p
    /\ Cleared
    /\ overtaken' = (history.id = p)
    /\ listing' = Listing(p, FALSE)
    /\ UNCHANGED <<stored, history, again, outbox>>

\* popstate and hashchange both navigate, so the same chat is opened twice.
OpenAgain ==
    /\ view # None
    /\ listing' = Listing(view, FALSE)
    /\ ChatGoesOn(conversation)
    /\ UNCHANGED <<stored, screenVars, outbox>>

\* To another screen; the list of conversations asks for itself.
Leave ==
    /\ view # None
    /\ view' = None
    /\ Cleared
    /\ overtaken' = FALSE
    /\ listing' \in {listing, Listing(None, FALSE)}
    /\ UNCHANGED <<stored, history, again, outbox>>

-----------------------------------------------------------------------------
(***************************************************************************)
(* send, and the server                                                    *)
(***************************************************************************)

\* A new message, or a retry with the id of the failed one.
Send(p, retry) ==
    /\ view = p
    /\ outbox[p].status # "sending"
    /\ retry => outbox[p].status = "failed"
    /\ outbox' = [outbox EXCEPT ![p] = [status |-> "sending",
                                        seq |-> IF retry THEN @.seq ELSE 0]]
    /\ UNCHANGED <<stored, screenVars, listing, history, again, due>>

\* The server saves the message of an id once, also when the client has given
\* up waiting.
Store(p) ==
    /\ outbox[p].status # "none"
    /\ outbox[p].seq = 0
    /\ stored[p] < MaxStored
    /\ stored' = [stored EXCEPT ![p] = @ + 1]
    /\ outbox' = [outbox EXCEPT ![p].seq = stored[p] + 1]
    /\ UNCHANGED <<screenVars, listing, history, again, due>>

\* Fault: the watermark follows our own message.
CursorAfterSend(seq) == seq

\* A send answer leaves the watermark alone.
CursorAfter(seq) == cursor

\* Fault: the sent message is shown on whatever screen is open.
SentHereAlways(p) == TRUE

SentHere(p) == view = p

SendArrives(p) ==
    /\ outbox[p].status = "sending"
    /\ outbox[p].seq # 0
    /\ outbox' = [outbox EXCEPT ![p] = NoEntry]
    /\ IF SentHere(p)
       THEN /\ conversation' = TRUE
            /\ shown' = shown \cup {<<p, outbox[p].seq>>}
            /\ cursor' = CursorAfter(outbox[p].seq)
       ELSE UNCHANGED <<conversation, shown, cursor>>
    /\ UNCHANGED <<stored, view, overtaken, listing, history, again, due>>

\* Refused, lost or timed out.
SendFails(p) ==
    /\ outbox[p].status = "sending"
    /\ outbox' = [outbox EXCEPT ![p].status = "failed"]
    /\ UNCHANGED <<stored, screenVars, listing, history, again, due>>

\* Somebody writes a message that this screen did not send.
PeerWrites(p) ==
    /\ stored[p] < MaxStored
    /\ stored' = [stored EXCEPT ![p] = @ + 1]
    /\ UNCHANGED <<screenVars, listing, history, again, outbox, due>>

-----------------------------------------------------------------------------

Next ==
    \/ PageCounted \/ PageAnswered \/ NextPage \/ HistoryArrives \/ HistoryFails
    \/ ListAnswered \/ ListArrives \/ ListFails \/ Refresh
    \/ OpenAgain \/ Leave
    \/ \E p \in Peers :
         \/ OpenChat(p)
         \/ \E retry \in BOOLEAN : Send(p, retry)
         \/ Store(p) \/ SendArrives(p) \/ SendFails(p) \/ PeerWrites(p)

\* The visible screen polls, a request that waits is answered and the answer
\* arrives or fails; a list that is superseded and asked for again and again
\* comes in the end.
Fairness ==
    /\ WF_vars(Refresh)
    /\ WF_vars(PageCounted) /\ WF_vars(PageAnswered) /\ WF_vars(NextPage) /\ WF_vars(HistoryArrives)
    /\ SF_vars(ListAnswered) /\ SF_vars(ListArrives)

Spec == Init /\ [][Next]_vars

FairSpec == Spec /\ Fairness

-----------------------------------------------------------------------------
(***************************************************************************)
(* Correctness                                                             *)
(***************************************************************************)

\* The messages on the screen are those of the peer whose chat is open, however
\* late the answers to an earlier chat's load or send come.
OnlyThisPeer == \A m \in shown : m[1] = view

Seen == {n \in 1..MaxStored : <<view, n>> \in shown}

\* Everything up to the watermark is on the screen: the next load asks for what
\* comes after it and for nothing else.  Except when the chat was closed and
\* opened again during a load of its history.
NoGapBelowWatermark == view # None /\ ~overtaken => 1..cursor \subseteq Seen

\* No call of syncHistory is lost: when no load runs any more, everything that was
\* stored when one was last asked for in this visit is on the screen, without
\* another poll, unless a load has failed since; with the same exception.
NoCallLost == view # None /\ ~overtaken /\ history.step = "none" => 1..due \subseteq Seen

\* A chat that stays open shows in the end everything the server has, whatever
\* was lost before the network recovered and however often the list request is
\* superseded; with the same exception.
CatchesUp ==
    /\ <>[](view # None /\ ~overtaken)
    /\ <>[][view' = view /\ ~HistoryFails /\ ~ListFails]_vars
    => <>[](view # None => Seen = 1..stored[view])

\* A message is never skipped (discovery-controller.js:190-192), whenever the
\* chat was opened.
NeverSkipped == view # None => 1..cursor \subseteq Seen

=============================================================================
