-------------------------- MODULE ChatScreenProofs --------------------------
(***************************************************************************)
(* The chat screen shows only messages of its peer and has no gap below    *)
(* its watermark, for any number of peers, any page size and any history.  *)
(* The argument: a load of history carries the messages from the watermark *)
(* it started at, without a gap, to the page it is at; and a load that is  *)
(* applied belongs to this visit of the chat, unless it was overtaken.     *)
(***************************************************************************)
EXTENDS ChatScreen, FiniteSetTheorems, TLAPS

\* The rows of a page are the next ones, without a gap.
PageIsNext ==
    /\ IsFiniteSet(history.page)
    /\ history.page = (history.after + 1)..Last

\* A load that belongs to this visit has, together with the screen, everything
\* up to its page.
NoGapInLoad == 1..history.after \subseteq Seen \cup history.items

Loads == [step : {"none", "asked", "counted", "answered"}, id : Peers \cup {None},
          after : Nat, items : SUBSET (1..MaxStored), total : Nat,
          page : SUBSET (1..MaxStored), more : BOOLEAN]
Lists == [step : {"none", "asked", "answered"}, opens : Peers \cup {None},
          polled : BOOLEAN, found : SUBSET Peers]
Outbox == [Peers -> [status : {"none", "sending", "failed"}, seq : 0..MaxStored]]

HistoryRight ==
    /\ history.step # "none" => history.id \in Peers
    /\ history.step = "answered" => PageIsNext
    /\ history.step # "none" /\ history.id = view /\ ~overtaken => NoGapInLoad

IInv ==
    /\ TypeOK
    /\ OnlyThisPeer
    /\ NoGapBelowWatermark
    /\ HistoryRight

-----------------------------------------------------------------------------

\* At the start nothing is shown and nothing is being loaded.
LEMMA InitRight == Init => IInv
<1> SUFFICES ASSUME Init PROVE IInv
    OBVIOUS
<1> USE ChatScreenAssumption DEF Init
<1>1. TypeOK
    <2>1. history \in Loads
        BY DEF Loads, NoHistory
    <2>2. listing \in Lists
        BY DEF Lists, NoList
    <2>3. outbox \in Outbox
        BY DEF Outbox, NoEntry
    <2>4. due \in 0..MaxStored
        OBVIOUS
    <2> QED
        BY <2>1, <2>2, <2>3, <2>4 DEF TypeOK, Loads, Lists, Outbox
<1>2. OnlyThisPeer /\ NoGapBelowWatermark
    BY DEF OnlyThisPeer, NoGapBelowWatermark
<1>3. HistoryRight
    BY DEF HistoryRight, NoHistory
<1> QED
    BY <1>1, <1>2, <1>3 DEF IInv

\* What a page holds: the rows after the cursor, up to the limit or the end of
\* the conversation.
RowsAfter(length, after) == {n \in 1..length : after < n /\ n <= after + Limit}

LEMMA PageRows ==
    ASSUME NEW length \in Nat, NEW after \in Nat
    PROVE  /\ IsFiniteSet(RowsAfter(length, after))
           /\ RowsAfter(length, after)
                = (after + 1)..(after + Cardinality(RowsAfter(length, after)))
<1> USE ChatScreenAssumption
<1> DEFINE page == RowsAfter(length, after)
           end == IF length <= after + Limit THEN length ELSE after + Limit
<1>1. page = (after + 1)..end
    BY DEF RowsAfter
<1>2. end \in Nat
    OBVIOUS
<1> HIDE DEF page, end
<1>3. /\ IsFiniteSet(page)
      /\ Cardinality(page) = IF after + 1 > end THEN 0 ELSE end - (after + 1) + 1
    <2>1. after + 1 \in Int /\ end \in Int
        BY <1>2
    <2> QED
        BY <1>1, <2>1, FS_Interval
<1>4. CASE after + 1 > end
    <2>1. Cardinality(page) = 0 /\ page = {}
        BY <1>1, <1>2, <1>3, <1>4
    <2>2. (after + 1)..(after + Cardinality(page)) = {}
        BY <2>1
    <2> QED
        BY <1>3, <2>1, <2>2 DEF page
<1>5. CASE ~(after + 1 > end)
    <2>1. Cardinality(page) = end - after
        BY <1>2, <1>3, <1>5
    <2>2. Cardinality(page) \in Nat /\ after + Cardinality(page) = end
        BY <1>2, <1>5, <2>1
    <2> QED
        BY <1>1, <1>3, <2>2 DEF page
<1> QED
    BY <1>4, <1>5

\* A call of syncHistory that starts a load starts it at a watermark below which
\* nothing is missing, so it keeps what loads promise.
LEMMA SyncKeeps ==
    ASSUME TypeOK, HistoryRight, NoGapBelowWatermark, NEW known \in BOOLEAN,
           view \in Peers, UNCHANGED <<view, shown, cursor, overtaken>>,
           SyncCalled(view, known, cursor)
    PROVE  /\ HistoryRight'
           /\ history' \in Loads
           /\ again' \in BOOLEAN
           /\ due' \in 0..MaxStored
<1> USE ChatScreenAssumption
<1>0. due' \in 0..MaxStored
    <2>1. due' \in {stored[view], due}
        BY DEF SyncCalled
    <2> QED
        BY <2>1 DEF TypeOK
<1>1. CASE history' = history
    BY <1>0, <1>1 DEF TypeOK, Loads, HistoryRight, PageIsNext, Last, NoGapInLoad, Seen, SyncCalled
<1>2. CASE history' = NoHistory /\ again' = FALSE
    BY <1>0, <1>2 DEF Loads, HistoryRight, NoHistory
<1>3. CASE history' = Asked(view, cursor) /\ again' = FALSE
    <2>1. /\ history'.step = "asked" /\ history'.id = view
          /\ history'.after = cursor /\ history'.items = {}
        BY <1>3 DEF Asked, NoHistory
    <2>2. ~overtaken => NoGapInLoad'
        BY <2>1 DEF NoGapBelowWatermark, NoGapInLoad, Seen, TypeOK
    <2>3. HistoryRight'
        BY <2>1, <2>2 DEF HistoryRight
    <2> QED
        BY <1>0, <1>3, <2>3 DEF TypeOK, Loads, Asked, NoHistory
<1>4. \/ history' = history
      \/ again' = FALSE /\ history' \in {NoHistory, Asked(view, cursor)}
    BY DEF SyncCalled
<1> QED
    BY <1>0, <1>1, <1>2, <1>3, <1>4

\* The end of a load, which may start the next one, at the watermark it left.
LEMMA RoundKeeps ==
    ASSUME NEW at \in Nat, TypeOK, NoGapBelowWatermark', cursor' = at,
           UNCHANGED <<view, conversation, overtaken>>, Round(at)
    PROVE  HistoryRight' /\ history' \in Loads /\ again' \in BOOLEAN
<1> USE ChatScreenAssumption
<1>1. CASE history' = NoHistory
    <2>1. history'.step = "none"
        BY <1>1 DEF NoHistory
    <2>2. HistoryRight'
        BY <2>1 DEF HistoryRight
    <2>3. history' \in Loads
        BY <1>1 DEF Loads, NoHistory
    <2> QED
        BY <2>2, <2>3 DEF Round
<1>2. CASE history' = Asked(view, at) /\ view # None
    <2>1. /\ history'.step = "asked" /\ history'.id = view
          /\ history'.after = at /\ history'.items = {}
        BY <1>2 DEF Asked, NoHistory
    <2>2. ~overtaken => NoGapInLoad'
        BY <1>2, <2>1 DEF NoGapBelowWatermark, NoGapInLoad
    <2>3. HistoryRight'
        BY <1>2, <2>1, <2>2 DEF HistoryRight, TypeOK
    <2>4. Asked(view, at) \in Loads
        BY DEF TypeOK, Loads, Asked, NoHistory
    <2> QED
        BY <1>2, <2>3, <2>4 DEF Round
<1>3. history' = NoHistory \/ (history' = Asked(view, at) /\ view # None)
    BY DEF Round
<1> QED
    BY <1>1, <1>2, <1>3

\* What the screen shows only grows while nothing navigates, and a load that
\* did not move stays right.
LEMMA LoadStays ==
    ASSUME HistoryRight, UNCHANGED <<view, overtaken, history>>, shown \subseteq shown'
    PROVE  HistoryRight'
BY DEF HistoryRight, PageIsNext, Last, NoGapInLoad, Seen

-----------------------------------------------------------------------------
(***************************************************************************)
(* One lemma per group of actions                                          *)
(***************************************************************************)

\* The steps of a load that show nothing yet.
LEMMA PageCountedKeeps == IInv /\ PageCounted => IInv'
<1> SUFFICES ASSUME IInv, PageCounted PROVE IInv'
    OBVIOUS
<1> USE ChatScreenAssumption
<1>1. history \in Loads /\ history.id \in Peers /\ stored[history.id] \in Nat
    BY DEF IInv, TypeOK, HistoryRight, PageCounted, Loads
<1>2. /\ history' \in Loads /\ history'.step = "counted" /\ history'.id = history.id
      /\ history'.after = history.after /\ history'.items = history.items
    BY <1>1 DEF PageCounted, Loads
<1>3. HistoryRight'
    BY <1>1, <1>2 DEF IInv, HistoryRight, NoGapInLoad, Seen, PageCounted, screenVars
<1> QED
    BY <1>2, <1>3 DEF IInv, TypeOK, Loads, OnlyThisPeer, NoGapBelowWatermark, Seen,
                      PageCounted, screenVars

LEMMA PageAnsweredKeeps == IInv /\ PageAnswered => IInv'
<1> SUFFICES ASSUME IInv, PageAnswered PROVE IInv'
    OBVIOUS
<1> USE ChatScreenAssumption
<1>1. history \in Loads /\ history.id \in Peers /\ history.step = "counted"
    BY DEF IInv, TypeOK, HistoryRight, PageAnswered, Loads
<1>2. stored[history.id] \in 0..MaxStored
    BY <1>1 DEF IInv, TypeOK
<1> DEFINE length == stored[history.id]
           page == RowsAfter(length, history.after)
<1>3. /\ history'.step = "answered" /\ history'.id = history.id
      /\ history'.after = history.after /\ history'.items = history.items
      /\ history'.page = page
      /\ history' \in Loads
    <2>1. page \in SUBSET (1..MaxStored)
        BY <1>2 DEF RowsAfter
    <2> DEFINE more == history.total > history.after + Cardinality(page)
    <2>2. history' = [history EXCEPT !.step = "answered", !.total = 0, !.page = page, !.more = more]
        BY DEF PageAnswered, RowsAfter
    <2>3. more \in BOOLEAN
        OBVIOUS
    <2> HIDE DEF page, more
    <2> QED
        BY <1>1, <2>1, <2>2, <2>3 DEF Loads
<1>4. PageIsNext'
    <2>1. length \in Nat /\ history.after \in Nat
        BY <1>1, <1>2 DEF Loads
    <2>2. /\ IsFiniteSet(page)
          /\ page = (history.after + 1)..(history.after + Cardinality(page))
        BY <2>1, PageRows
    <2> HIDE DEF page
    <2> QED
        BY <1>3, <2>2 DEF PageIsNext, Last
<1>5. history.id = view /\ ~overtaken => NoGapInLoad'
    BY <1>1, <1>3 DEF IInv, HistoryRight, NoGapInLoad, Seen, PageAnswered, screenVars
<1>6. HistoryRight'
    BY <1>1, <1>3, <1>4, <1>5 DEF HistoryRight, PageAnswered, screenVars
<1> QED
    BY <1>3, <1>6 DEF IInv, TypeOK, Loads, OnlyThisPeer, NoGapBelowWatermark, Seen,
                      PageAnswered, screenVars

\* The next page is asked for after the last row of this one.
LEMMA NextPageKeeps == IInv /\ NextPage => IInv'
<1> SUFFICES ASSUME IInv, NextPage PROVE IInv'
    OBVIOUS
<1> USE ChatScreenAssumption
<1>1. history \in Loads /\ history.id \in Peers /\ PageIsNext
    BY DEF IInv, TypeOK, HistoryRight, NextPage, Loads
<1>2. Cardinality(history.page) \in Nat
    BY <1>1, FS_CardinalityType DEF PageIsNext
<1>3. /\ history'.step = "asked" /\ history'.id = history.id
      /\ history'.after = Last
      /\ history'.items = history.items \cup history.page
      /\ history' \in Loads
    <2>1. history' = [history EXCEPT !.step = "asked", !.after = Last,
                        !.items = history.items \cup history.page, !.page = {},
                        !.more = FALSE]
        BY DEF NextPage, Last
    <2>2. Last \in Nat
        BY <1>1, <1>2 DEF Loads, Last
    <2> QED
        BY <1>1, <2>1, <2>2 DEF Loads
<1>4. history.id = view /\ ~overtaken => NoGapInLoad'
    <2>1. 1..Last = (1..history.after) \cup history.page
        BY <1>1, <1>2 DEF PageIsNext, Last, Loads
    <2> QED
        BY <1>3, <2>1 DEF IInv, HistoryRight, NoGapInLoad, Seen, NextPage, screenVars
<1>5. HistoryRight'
    BY <1>1, <1>3, <1>4 DEF HistoryRight, NextPage, screenVars
<1> QED
    BY <1>3, <1>5 DEF IInv, TypeOK, Loads, OnlyThisPeer, NoGapBelowWatermark, Seen,
                      NextPage, screenVars

\* A load that is applied belongs to the open chat; it brings everything from
\* the watermark it started at to the new one.
LEMMA HistoryArrivesKeeps == IInv /\ HistoryArrives => IInv'
<1> SUFFICES ASSUME IInv, HistoryArrives PROVE IInv'
    OBVIOUS
<1> USE ChatScreenAssumption
<1>1. history \in Loads /\ history.id \in Peers /\ PageIsNext
    BY DEF IInv, TypeOK, HistoryRight, HistoryArrives, Loads
<1>2. Cardinality(history.page) \in Nat /\ Last \in Nat
    BY <1>1, FS_CardinalityType DEF PageIsNext, Last, Loads
<1>3. CASE Applies
    <2> DEFINE rows == history.items \cup history.page
    <2>1. /\ shown' = shown \cup {<<history.id, n>> : n \in rows}
          /\ cursor' = Last /\ Round(Last)
          /\ UNCHANGED <<stored, view, conversation, overtaken, listing, outbox, due>>
          /\ view = history.id
        BY <1>3 DEF HistoryArrives, Applies
    <2>2. rows \subseteq 1..MaxStored
        BY <1>1 DEF Loads
    <2>3. shown' \subseteq Peers \X (1..MaxStored) /\ OnlyThisPeer'
        BY <1>1, <2>1, <2>2 DEF IInv, TypeOK, OnlyThisPeer
    <2>4. NoGapBelowWatermark'
        <3>1. ASSUME ~overtaken PROVE 1..Last \subseteq Seen'
            <4>1. 1..history.after \subseteq Seen \cup history.items
                BY <2>1, <3>1 DEF IInv, HistoryRight, NoGapInLoad, HistoryArrives
            <4>2. 1..Last = (1..history.after) \cup history.page
                BY <1>1, <1>2 DEF PageIsNext, Last, Loads
            <4>3. 1..Last \subseteq Seen \cup rows
                BY <4>1, <4>2
            <4>4. Seen \subseteq Seen' /\ rows \subseteq Seen'
                BY <2>1, <2>2 DEF Seen
            <4> QED
                BY <4>3, <4>4
        <3> QED
            BY <2>1, <3>1 DEF NoGapBelowWatermark
    <2>5. HistoryRight' /\ history' \in Loads /\ again' \in BOOLEAN
        BY <1>2, <2>1, <2>4, RoundKeeps DEF IInv
    <2> QED
        BY <1>2, <2>1, <2>3, <2>4, <2>5 DEF IInv, TypeOK, Loads
<1>4. CASE ~Applies
    <2>1. /\ UNCHANGED <<stored, screenVars, listing, outbox, due>>
          /\ Round(cursor)
        BY <1>4 DEF HistoryArrives, screenVars
    <2>2. NoGapBelowWatermark' /\ OnlyThisPeer'
        BY <2>1 DEF IInv, NoGapBelowWatermark, OnlyThisPeer, Seen, screenVars
    <2>3. HistoryRight' /\ history' \in Loads /\ again' \in BOOLEAN
        BY <2>1, <2>2, RoundKeeps DEF IInv, TypeOK, screenVars
    <2> QED
        BY <2>1, <2>2, <2>3 DEF IInv, TypeOK, Loads, screenVars
<1> QED
    BY <1>3, <1>4

\* A load that failed changes nothing on the screen.
LEMMA HistoryFailsKeeps == IInv /\ HistoryFails => IInv'
<1> SUFFICES ASSUME IInv, HistoryFails PROVE IInv'
    OBVIOUS
<1>1. /\ UNCHANGED <<stored, screenVars, listing, outbox>> /\ Round(cursor)
      /\ due' \in {0, due}
    BY DEF HistoryFails
<1>2. NoGapBelowWatermark' /\ OnlyThisPeer'
    BY <1>1 DEF IInv, NoGapBelowWatermark, OnlyThisPeer, Seen, screenVars
<1>3. HistoryRight' /\ history' \in Loads /\ again' \in BOOLEAN
    BY <1>1, <1>2, RoundKeeps DEF IInv, TypeOK, screenVars
<1>4. due' \in 0..MaxStored
    BY <1>1, ChatScreenAssumption DEF IInv, TypeOK
<1> QED
    BY <1>1, <1>2, <1>3, <1>4 DEF IInv, TypeOK, Loads, screenVars

\* The list of conversations shows nothing and may start a load; so may opening
\* the chat once more.
LEMMA ListsKeep ==
    IInv /\ (ListAnswered \/ ListArrives \/ ListFails \/ Refresh \/ OpenAgain) => IInv'
<1> SUFFICES ASSUME IInv,
                    ListAnswered \/ ListArrives \/ ListFails \/ Refresh \/ OpenAgain
             PROVE  IInv'
    OBVIOUS
<1> USE ChatScreenAssumption
<1>1. UNCHANGED <<stored, view, shown, cursor, overtaken, outbox>>
    BY DEF ListAnswered, ListArrives, ListFails, Refresh, OpenAgain, screenVars
<1>2. listing' \in Lists
    <2>1. listing \in Lists /\ view \in Peers \cup {None}
        BY DEF IInv, TypeOK, Lists
    <2>2. CASE ListAnswered
        <3> DEFINE found == {p \in Peers : stored[p] > 0}
        <3>1. listing' = [listing EXCEPT !.step = "answered", !.found = found]
            BY <2>2 DEF ListAnswered
        <3>2. found \in SUBSET Peers
            OBVIOUS
        <3> HIDE DEF found
        <3> QED
            BY <2>1, <3>1, <3>2 DEF Lists
    <2>3. CASE ListArrives \/ ListFails
        <3>1. listing' = NoList
            BY <2>3 DEF ListArrives, ListFails
        <3> QED
            BY <3>1 DEF NoList, Lists
    <2>4. CASE Refresh \/ OpenAgain
        BY <2>1, <2>4 DEF Refresh, OpenAgain, Listing, NoList, Lists
    <2> QED
        BY <2>2, <2>3, <2>4
<1>3. conversation' \in BOOLEAN /\ (conversation' => view # None)
    <2>1. CASE ListArrives
        <3>1. listing.found \subseteq Peers /\ (conversation => view # None)
            BY DEF IInv, TypeOK
        <3>2. conversation' = (conversation \/ view \in listing.found)
            BY <2>1 DEF ListArrives
        <3>3. conversation' \in BOOLEAN
            BY <3>2
        <3>4. view \in listing.found => view # None
            BY <3>1
        <3> QED
            BY <3>1, <3>2, <3>3, <3>4, Zenon
    <2>2. CASE ~ListArrives
        <3>1. conversation' = conversation
            BY <2>2 DEF ListAnswered, ListFails, Refresh, OpenAgain, screenVars
        <3> QED
            BY <3>1 DEF IInv, TypeOK
    <2> QED
        BY <2>1, <2>2
<1>4. /\ HistoryRight' /\ history' \in Loads /\ again' \in BOOLEAN
      /\ due' \in 0..MaxStored
    <2>1. CASE UNCHANGED <<history, again, due>>
        BY <1>1, <2>1, LoadStays DEF IInv, TypeOK, Loads
    <2>2. CASE \E known \in BOOLEAN : view \in Peers /\ SyncCalled(view, known, cursor)
        BY <1>1, <2>2, SyncKeeps DEF IInv
    <2>3. \/ UNCHANGED <<history, again, due>>
          \/ \E known \in BOOLEAN : view \in Peers /\ SyncCalled(view, known, cursor)
        <3>1. conversation \in BOOLEAN /\ (view # None => view \in Peers)
            BY DEF IInv, TypeOK
        <3>2. CASE ListAnswered
            BY <3>2 DEF ListAnswered
        <3>3. CASE ListArrives
            BY <1>3, <3>1, <3>3 DEF ListArrives, ChatGoesOn
        <3>4. CASE ListFails \/ Refresh \/ OpenAgain
            BY <3>1, <3>4 DEF ListFails, Refresh, OpenAgain, ChatGoesOn
        <3> QED
            BY <3>2, <3>3, <3>4
    <2> QED
        BY <2>1, <2>2, <2>3
<1>5. NoGapBelowWatermark' /\ OnlyThisPeer'
    BY <1>1 DEF IInv, NoGapBelowWatermark, OnlyThisPeer, Seen
<1> QED
    BY <1>1, <1>2, <1>3, <1>4, <1>5 DEF IInv, TypeOK, Loads, Lists

\* Navigation clears the screen; a load of the chat that opens is an earlier
\* visit's.
LEMMA NavigationKeeps ==
    ASSUME IInv, Leave \/ \E p \in Peers : OpenChat(p)
    PROVE  IInv'
<1> USE ChatScreenAssumption
<1>1. /\ UNCHANGED <<stored, history, again, outbox>>
      /\ conversation' = FALSE /\ shown' = {} /\ cursor' = 0 /\ due' = 0
      /\ view' \in Peers \cup {None}
      /\ overtaken' = (history.id = view' /\ view' # None)
    BY DEF Leave, OpenChat, Cleared
<1>2. listing' \in Lists
    <2>1. listing \in Lists
        BY DEF IInv, TypeOK, Lists
    <2>2. \A p \in Peers \cup {None} : Listing(p, FALSE) \in Lists
        BY DEF Listing, NoList, Lists
    <2> QED
        BY <2>1, <2>2 DEF Leave, OpenChat
<1>3. OnlyThisPeer' /\ NoGapBelowWatermark'
    BY <1>1 DEF OnlyThisPeer, NoGapBelowWatermark
<1>4. HistoryRight'
    BY <1>1 DEF IInv, HistoryRight, PageIsNext, Last
<1>5. 0 \in 0..MaxStored /\ 0 \in Nat
    OBVIOUS
<1>6. history \in Loads /\ again \in BOOLEAN /\ outbox \in Outbox
    BY DEF IInv, TypeOK, Loads, Outbox
<1>7. TypeOK'
    BY <1>1, <1>2, <1>5, <1>6 DEF IInv, TypeOK, Lists, Loads, Outbox
<1> QED
    BY <1>3, <1>4, <1>7 DEF IInv

\* Sending shows our message, of this chat, and leaves the watermark; the server
\* and the peer touch nothing here.
LEMMA SendingKeeps ==
    ASSUME IInv, NEW p \in Peers,
           \/ \E retry \in BOOLEAN : Send(p, retry)
           \/ Store(p) \/ SendArrives(p) \/ SendFails(p) \/ PeerWrites(p)
    PROVE  IInv'
<1> USE ChatScreenAssumption
<1>1. UNCHANGED <<view, cursor, overtaken, listing, history, again, due>>
    BY DEF Send, Store, SendArrives, SendFails, PeerWrites, CursorAfter, screenVars
<1>2. outbox[p] \in [status : {"none", "sending", "failed"}, seq : 0..MaxStored]
    BY DEF IInv, TypeOK
<1>3. outbox' \in Outbox
    <2>1. outbox \in Outbox /\ stored[p] \in 0..MaxStored
        BY DEF IInv, TypeOK, Outbox
    <2>2. CASE \E retry \in BOOLEAN : Send(p, retry)
        BY <1>2, <2>1, <2>2 DEF Send, Outbox
    <2>3. CASE Store(p)
        BY <1>2, <2>1, <2>3 DEF Store, Outbox
    <2>4. CASE SendArrives(p)
        BY <2>1, <2>4 DEF SendArrives, NoEntry, Outbox
    <2>5. CASE SendFails(p) \/ PeerWrites(p)
        BY <1>2, <2>1, <2>5 DEF SendFails, PeerWrites, Outbox
    <2> QED
        BY <2>2, <2>3, <2>4, <2>5
<1>4. stored' \in [Peers -> 0..MaxStored]
    BY DEF IInv, TypeOK, Send, Store, SendArrives, SendFails, PeerWrites
<1>5. \/ UNCHANGED <<conversation, shown>>
      \/ /\ view = p /\ conversation' = TRUE
         /\ shown' = shown \cup {<<p, outbox[p].seq>>}
         /\ outbox[p].seq \in 1..MaxStored
    BY <1>2 DEF Send, Store, SendArrives, SendFails, PeerWrites, SentHere, screenVars
<1>6. /\ shown \subseteq shown' /\ shown' \subseteq Peers \X (1..MaxStored)
      /\ OnlyThisPeer' /\ NoGapBelowWatermark'
    BY <1>1, <1>5 DEF IInv, TypeOK, OnlyThisPeer, NoGapBelowWatermark, Seen
<1>7. conversation' \in BOOLEAN /\ (conversation' => view' # None)
    <2>1. CASE conversation' = conversation
        BY <1>1, <2>1 DEF IInv, TypeOK
    <2>2. CASE view = p /\ conversation' = TRUE
        BY <1>1, <2>2
    <2> QED
        BY <1>5, <2>1, <2>2
<1>8. HistoryRight'
    BY <1>1, <1>6, LoadStays DEF IInv
<1> QED
    BY <1>1, <1>3, <1>4, <1>6, <1>7, <1>8 DEF IInv, TypeOK, Outbox

-----------------------------------------------------------------------------

\* Every step keeps the invariant.
LEMMA StepKeeps == IInv /\ [Next]_vars => IInv'
<1> SUFFICES ASSUME IInv, [Next]_vars PROVE IInv'
    OBVIOUS
<1>1. CASE PageCounted \/ PageAnswered \/ NextPage \/ HistoryArrives \/ HistoryFails
    BY <1>1, PageCountedKeeps, PageAnsweredKeeps, NextPageKeeps, HistoryArrivesKeeps, HistoryFailsKeeps
<1>2. CASE ListAnswered \/ ListArrives \/ ListFails \/ Refresh \/ OpenAgain
    BY <1>2, ListsKeep
<1>3. CASE Leave \/ \E p \in Peers : OpenChat(p)
    BY <1>3, NavigationKeeps
<1>4. CASE \E p \in Peers : \/ \E retry \in BOOLEAN : Send(p, retry)
                            \/ Store(p) \/ SendArrives(p) \/ SendFails(p)
                            \/ PeerWrites(p)
    BY <1>4, SendingKeeps
<1>5. CASE UNCHANGED vars
    <2>1. OnlyThisPeer' /\ NoGapBelowWatermark' /\ HistoryRight'
        BY <1>5, LoadStays
           DEF IInv, OnlyThisPeer, NoGapBelowWatermark, Seen, vars, screenVars
    <2> QED
        BY <1>5, <2>1 DEF IInv, TypeOK, vars, screenVars
<1> QED
    BY <1>1, <1>2, <1>3, <1>4, <1>5 DEF Next

\* The invariant holds always.
LEMMA Invariant == Spec => []IInv
BY InitRight, StepKeeps, PTL DEF Spec

\* The screen's state stays well typed: in particular a known conversation
\* means that a chat is open.
THEOREM TypeCorrect == Spec => []TypeOK
<1>1. IInv => TypeOK
    BY DEF IInv
<1> QED
    BY <1>1, Invariant, PTL

\* However late the answers to an earlier chat's requests come, an open chat
\* shows messages of its peer only (syncHistory's and send's checks after await).
THEOREM OnlyThisPeerAlways == Spec => []OnlyThisPeer
<1>1. IInv => OnlyThisPeer
    BY DEF IInv
<1> QED
    BY <1>1, Invariant, PTL

\* The next load asks for what comes after the watermark, and nothing before it
\* is missing, unless a load of this chat was under way when it was opened.
THEOREM NoGapAlways == Spec => []NoGapBelowWatermark
<1>1. IInv => NoGapBelowWatermark
    BY DEF IInv
<1> QED
    BY <1>1, Invariant, PTL

-----------------------------------------------------------------------------
(***************************************************************************)
(* No call of syncHistory is lost                                          *)
(***************************************************************************)

\* What this visit has asked for exists, and its conversation is known; when no
\* load runs, the watermark has reached it; and a load that will not go round
\* again was started for this chat at the last call, so that its pages are
\* counted to there and the last one reaches it.
DueRight ==
    /\ due > 0 => view # None /\ conversation /\ due <= stored[view]
    /\ history.step = "none" => due <= cursor
    /\ history.step # "none" /\ ~again /\ due > 0 =>
         /\ history.id = view
         /\ history.step = "counted" => due <= history.total
         /\ history.step = "answered" /\ ~history.more => due <= Last

\* A call while nothing is being loaded starts a load; during a load it makes
\* the load go round.
LEMMA SyncDue ==
    ASSUME IInv, DueRight, view \in Peers, conversation' \in BOOLEAN,
           conversation => conversation',
           UNCHANGED <<stored, view, cursor>>, SyncCalled(view, conversation', cursor)
    PROVE  DueRight'
<1> USE ChatScreenAssumption
<1>1. CASE ~conversation'
    <2>1. due' = due /\ due \in 0..MaxStored /\ ~(due > 0)
        BY <1>1 DEF SyncCalled, DueRight, IInv, TypeOK
    <2>2. due' = 0 /\ cursor' \in Nat
        BY <2>1 DEF IInv, TypeOK
    <2> QED
        BY <2>2 DEF DueRight
<1>2. CASE conversation'
    <2>1. due' = stored[view] /\ stored[view] \in 0..MaxStored
        BY <1>2 DEF SyncCalled, IInv, TypeOK
    <2>2. CASE history.step # "none"
        <3>1. again' = TRUE /\ history' = history
            BY <2>2 DEF SyncCalled
        <3> QED
            BY <1>2, <2>1, <2>2, <3>1 DEF DueRight
    <2>3. CASE history.step = "none"
        <3>1. history'.step = "asked" /\ history'.id = view
            BY <1>2, <2>3 DEF SyncCalled, Asked, NoHistory
        <3> QED
            BY <1>2, <2>1, <3>1 DEF DueRight
    <2> QED
        BY <2>2, <2>3
<1> QED
    BY <1>1, <1>2

\* At the end of a load, what was asked for is reached or asked for again.
LEMMA RoundDue ==
    ASSUME IInv, DueRight, NEW at \in Nat, cursor' = at, history.step # "none",
           UNCHANGED <<stored, view, conversation, due>>, Round(at),
           again \/ due <= at
    PROVE  DueRight'
<1> USE ChatScreenAssumption
<1>1. due \in 0..MaxStored /\ (due > 0 => view # None /\ conversation /\ due <= stored[view])
    BY DEF DueRight, IInv, TypeOK
<1>2. CASE again /\ view # None /\ conversation
    <2>1. history'.step = "asked" /\ history'.id = view
        BY <1>2 DEF Round, Asked, NoHistory
    <2> QED
        BY <1>1, <2>1 DEF DueRight
<1>3. CASE ~(again /\ view # None /\ conversation)
    <2>1. history'.step = "none"
        BY <1>3 DEF Round, NoHistory
    <2>2. due <= at
        BY <1>1, <1>3
    <2> QED
        BY <1>1, <2>1, <2>2 DEF DueRight
<1> QED
    BY <1>2, <1>3

\* A load that ends has reached what was asked for, or goes round.
LEMMA HistoryArrivesDue == IInv /\ DueRight /\ HistoryArrives => DueRight'
<1> SUFFICES ASSUME IInv, DueRight, HistoryArrives PROVE DueRight'
    OBVIOUS
<1> USE ChatScreenAssumption
<1>1. /\ history.step = "answered" /\ ~history.more
      /\ UNCHANGED <<stored, view, conversation, due>>
    BY DEF HistoryArrives
<1>2. due \in 0..MaxStored /\ cursor \in Nat /\ Last \in Nat
    BY <1>1, FS_CardinalityType DEF IInv, TypeOK, HistoryRight, PageIsNext, Last
<1>3. ~again /\ due > 0 => Applies /\ due <= Last
    BY <1>1 DEF DueRight, Applies
<1>4. CASE Applies
    <2>1. cursor' = Last /\ Round(Last)
        BY <1>4 DEF HistoryArrives
    <2>2. again \/ due <= Last
        BY <1>2, <1>3
    <2> QED
        BY <1>1, <1>2, <2>1, <2>2, RoundDue
<1>5. CASE ~Applies
    <2>1. cursor' = cursor /\ Round(cursor)
        BY <1>5 DEF HistoryArrives
    <2>2. again \/ due <= cursor
        BY <1>2, <1>3, <1>5
    <2> QED
        BY <1>1, <1>2, <2>1, <2>2, RoundDue
<1> QED
    BY <1>4, <1>5

\* A load that fails goes round, or what was asked for is given up.
LEMMA HistoryFailsDue == IInv /\ DueRight /\ HistoryFails => DueRight'
<1> SUFFICES ASSUME IInv, DueRight, HistoryFails PROVE DueRight'
    OBVIOUS
<1> USE ChatScreenAssumption
<1>1. /\ history.step = "asked" /\ Round(cursor) /\ cursor' = cursor /\ cursor \in Nat
      /\ UNCHANGED <<stored, view, conversation>> /\ due \in 0..MaxStored
      /\ due' = IF history' = NoHistory THEN 0 ELSE due
    BY DEF HistoryFails, screenVars, IInv, TypeOK
<1>2. CASE history' = NoHistory
    BY <1>1, <1>2 DEF DueRight
<1>3. CASE history' # NoHistory
    <2>1. again /\ due' = due
        BY <1>1, <1>3 DEF Round
    <2> QED
        BY <1>1, <2>1, RoundDue
<1> QED
    BY <1>2, <1>3

\* The last page has everything that was counted when its request got there.
LEMMA PagesDue == IInv /\ DueRight /\ (PageCounted \/ PageAnswered \/ NextPage) => DueRight'
<1> SUFFICES ASSUME IInv, DueRight, PageCounted \/ PageAnswered \/ NextPage PROVE DueRight'
    OBVIOUS
<1> USE ChatScreenAssumption
<1>1. UNCHANGED <<stored, view, conversation, cursor, again, due>> /\ due \in 0..MaxStored
    BY DEF PageCounted, PageAnswered, NextPage, screenVars, IInv, TypeOK
<1>2. history \in Loads /\ history.id \in Peers
    BY DEF IInv, TypeOK, HistoryRight, PageCounted, PageAnswered, NextPage, Loads
<1>3. CASE NextPage
    <2>1. history.step # "none" /\ history'.step = "asked" /\ history'.id = history.id
        BY <1>2, <1>3 DEF NextPage, Loads
    <2> QED
        BY <1>1, <2>1 DEF DueRight
<1>4. CASE PageAnswered
    <2> DEFINE length == stored[history.id]
               page == RowsAfter(length, history.after)
               more == history.total > history.after + Cardinality(page)
    <2>1. history' = [history EXCEPT !.step = "answered", !.total = 0, !.page = page, !.more = more]
        BY <1>4 DEF PageAnswered, RowsAfter
    <2> HIDE DEF page
    <2>2. /\ history.step = "counted" /\ history'.step = "answered"
          /\ history'.id = history.id /\ history'.after = history.after
          /\ history'.page = page /\ history'.more = more
        BY <1>2, <1>4, <2>1 DEF Loads, PageAnswered
    <2>3. length \in Nat /\ history.after \in Nat /\ history.total \in Nat
        BY <1>2 DEF IInv, TypeOK, Loads
    <2>4. IsFiniteSet(page)
        BY <2>3, PageRows DEF page
    <2>5. Cardinality(page) \in Nat
        BY <2>4, FS_CardinalityType
    <2>6. Last' = history.after + Cardinality(page)
        BY <2>2 DEF Last
    <2>7. ~more => history.total <= Last'
        BY <2>3, <2>5, <2>6
    <2>8. ~again /\ due > 0 => history.id = view /\ due <= history.total
        BY <2>2 DEF DueRight
    <2>9. ~again /\ due > 0 /\ ~more => due <= Last'
        <3> HIDE DEF more
        <3>1. Last' \in Nat
            BY <2>3, <2>5, <2>6
        <3> QED
            BY <1>1, <2>3, <2>7, <2>8, <3>1
    <2> HIDE DEF more
    <2> QED
        BY <1>1, <2>2, <2>8, <2>9 DEF DueRight
<1>5. CASE PageCounted
    <2>1. /\ history.step = "asked" /\ history'.step = "counted"
          /\ history'.id = history.id /\ history'.total = stored[history.id]
        BY <1>2, <1>5 DEF PageCounted, Loads
    <2> QED
        BY <1>1, <2>1 DEF DueRight
<1> QED
    BY <1>3, <1>4, <1>5

\* The list asks for the history of the open chat, once its conversation is
\* known; so does opening the chat again.
LEMMA ListsDue ==
    IInv /\ DueRight /\ (ListAnswered \/ ListArrives \/ ListFails \/ Refresh \/ OpenAgain)
        => DueRight'
<1> SUFFICES ASSUME IInv, DueRight,
                    ListAnswered \/ ListArrives \/ ListFails \/ Refresh \/ OpenAgain
             PROVE  DueRight'
    OBVIOUS
<1>1. UNCHANGED <<stored, view, cursor>> /\ (conversation => conversation')
    <2>1. UNCHANGED <<stored, view, cursor>>
        BY DEF ListAnswered, ListArrives, ListFails, Refresh, OpenAgain, screenVars
    <2>2. CASE ListArrives
        <3>1. conversation' = (conversation \/ view \in listing.found)
            BY <2>2 DEF ListArrives
        <3> QED
            BY <2>1, <3>1, Zenon
    <2>3. CASE ~ListArrives
        <3>1. conversation' = conversation
            BY <2>3 DEF ListAnswered, ListFails, Refresh, OpenAgain, screenVars
        <3> QED
            BY <2>1, <3>1
    <2> QED
        BY <2>2, <2>3
<1>2. conversation \in BOOLEAN /\ conversation' \in BOOLEAN
    <2>1. conversation \in BOOLEAN
        BY DEF IInv, TypeOK
    <2>2. conversation' = (conversation \/ view \in listing.found) \/ conversation' = conversation
        BY DEF ListAnswered, ListArrives, ListFails, Refresh, OpenAgain, screenVars
    <2> QED
        BY <2>1, <2>2
<1>3. CASE UNCHANGED <<history, again, due>>
    BY <1>1, <1>2, <1>3 DEF DueRight, Last
<1>4. CASE view \in Peers /\ SyncCalled(view, conversation', cursor)
    BY <1>1, <1>2, <1>4, SyncDue
<1>5. \/ UNCHANGED <<history, again, due>>
      \/ view \in Peers /\ SyncCalled(view, conversation', cursor)
    <2>1. view # None => view \in Peers
        BY DEF IInv, TypeOK
    <2>2. CASE ListAnswered
        BY <2>2 DEF ListAnswered
    <2>3. CASE ListArrives
        BY <2>1, <2>3 DEF ListArrives, ChatGoesOn
    <2>4. CASE ListFails \/ Refresh \/ OpenAgain
        <3>1. conversation' = conversation /\ ChatGoesOn(conversation)
            BY <2>4 DEF ListFails, Refresh, OpenAgain, screenVars
        <3> QED
            BY <2>1, <3>1 DEF ChatGoesOn
    <2> QED
        BY <2>2, <2>3, <2>4
<1> QED
    BY <1>3, <1>4, <1>5

\* A new visit has asked for nothing; sending and the server only add.
LEMMA OthersDue ==
    ASSUME IInv, DueRight,
           \/ Leave
           \/ \E p \in Peers :
                \/ OpenChat(p) \/ \E retry \in BOOLEAN : Send(p, retry)
                \/ Store(p) \/ SendArrives(p) \/ SendFails(p) \/ PeerWrites(p)
           \/ UNCHANGED vars
    PROVE  DueRight'
<1>1. CASE Leave \/ \E p \in Peers : OpenChat(p)
    <2>1. due' = 0 /\ cursor' = 0
        BY <1>1 DEF Leave, OpenChat, Cleared
    <2> QED
        BY <2>1 DEF DueRight
<1>2. CASE \/ \E p \in Peers : \/ \E retry \in BOOLEAN : Send(p, retry)
                                \/ Store(p) \/ SendArrives(p) \/ SendFails(p) \/ PeerWrites(p)
           \/ UNCHANGED vars
    <2>1. UNCHANGED <<view, cursor, history, again, due>> /\ (conversation => conversation')
        BY <1>2 DEF Send, Store, SendArrives, SendFails, PeerWrites, CursorAfter, vars, screenVars
    <2>2. /\ due \in Nat /\ (view # None => view \in Peers)
          /\ \A p \in Peers : stored[p] \in Nat /\ stored'[p] \in Nat /\ stored[p] <= stored'[p]
        <3>1. stored \in [Peers -> 0..MaxStored]
            BY DEF IInv, TypeOK
        <3>2. stored' = stored \/ \E p \in Peers : stored' = [stored EXCEPT ![p] = @ + 1]
            BY <1>2 DEF Send, Store, SendArrives, SendFails, PeerWrites, vars
        <3> QED
            BY <3>1, <3>2, ChatScreenAssumption DEF IInv, TypeOK
    <2> QED
        BY <2>1, <2>2 DEF DueRight, Last
<1> QED
    BY <1>1, <1>2

LEMMA DueStep == IInv /\ DueRight /\ [Next]_vars => DueRight'
BY PagesDue, HistoryArrivesDue, HistoryFailsDue, ListsDue, OthersDue DEF Next

\* Whatever syncHistory was called for is on the screen when no load runs any
\* more, without another poll: a call that comes during a load, also during that
\* of another chat, is not forgotten (historyRunning and historyAgain).
THEOREM NoCallLostAlways == Spec => []NoCallLost
<1>1. Init => DueRight
    <2> SUFFICES ASSUME Init PROVE DueRight
        OBVIOUS
    <2> QED
        BY DEF Init, DueRight, NoHistory
<1>2. IInv /\ DueRight => NoCallLost
    <2> SUFFICES ASSUME IInv, DueRight, view # None, ~overtaken, history.step = "none"
                 PROVE  1..due \subseteq Seen
        BY DEF NoCallLost
    <2>1. due <= cursor /\ due \in Nat /\ cursor \in Nat
        BY ChatScreenAssumption DEF DueRight, IInv, TypeOK
    <2>2. 1..cursor \subseteq Seen
        BY DEF IInv, NoGapBelowWatermark
    <2> QED
        BY <2>1, <2>2
<1> QED
    BY <1>1, <1>2, DueStep, Invariant, PTL DEF Spec

=============================================================================
