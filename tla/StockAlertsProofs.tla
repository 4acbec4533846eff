------------------------- MODULE StockAlertsProofs -------------------------
(***************************************************************************)
(* Proofs about the stock-alert outbox, for every set of users, products   *)
(* and stores and every value of the bounds.                               *)
(***************************************************************************)
EXTENDS StockAlerts, TLAPS

(* What the two queries return are rows about live, unprocessed events.      *)
LEMMA OnlineRowsDef ==
    ASSUME NEW r
    PROVE  r \in OnlineRows <=>
             \E e \in PendingEvents : /\ e.store = Online
                                      /\ \E u \in Recipients(e.sku, e.store) :
                                           r = NotificationRow(e, u)
  BY DEF OnlineRows, RowsOf

LEMMA StoreRowsDef ==
    ASSUME NEW r
    PROVE  r \in StoreRows <=>
             \E e \in PendingEvents : /\ e.store # Online
                                      /\ \E u \in Recipients(e.sku, e.store) :
                                           r = NotificationRow(e, u)
  BY DEF StoreRows, RowsOf

LEMMA RowsType ==
    ASSUME TypeOK, NEW e \in PendingEvents, NEW u \in Recipients(e.sku, e.store)
    PROVE  NotificationRow(e, u) \in Row
<1>1. e \in Event /\ u \in Users
  BY DEF TypeOK, PendingEvents, Recipients
<1> QED
  BY <1>1 DEF NotificationRow, Event, Row

LEMMA PendingRowsType ==
    TypeOK => OnlineRows \subseteq Row /\ PendingRows \subseteq Row
<1> SUFFICES ASSUME TypeOK PROVE OnlineRows \subseteq Row /\ StoreRows \subseteq Row
  BY DEF PendingRows, TypeOK
<1>1. OnlineRows \subseteq Row
  BY OnlineRowsDef, RowsType
<1>2. StoreRows \subseteq Row
  BY StoreRowsDef, RowsType
<1> QED
  BY <1>1, <1>2

LEMMA EventIdsType ==
    ASSUME NEW rows \in SUBSET Row
    PROVE  /\ EventIds(rows) \subseteq Ids
           /\ Pairs(rows) \subseteq Ids \X Users
  BY DEF EventIds, Pairs, Row

-----------------------------------------------------------------------------
(* Type correctness. *)

LEMMA InitTypeOK == Init => TypeOK
  BY StockAlertsAssumption DEF Init, TypeOK, Ids

LEMMA NextTypeOK == TypeOK /\ [Next]_vars => TypeOK'
<1> SUFFICES ASSUME TypeOK, [Next]_vars PROVE TypeOK'
  OBVIOUS
<1> USE StockAlertsAssumption
<1>1. ASSUME NEW u \in Users, NEW s \in Skus,
             CreateWatch(u, s) \/ DeleteWatch(u, s)
      PROVE  TypeOK'
  BY <1>1 DEF TypeOK, CreateWatch, DeleteWatch, history, botVars
<1>2. ASSUME NEW u \in Users, NEW m \in Stores,
             AddUserStore(u, m) \/ RemoveUserStore(u, m)
      PROVE  TypeOK'
  BY <1>2 DEF TypeOK, AddUserStore, RemoveUserStore, history, botVars
<1>3. ASSUME NEW skus \in SUBSET Skus, MarkDelisted(skus) \/ ClearDelisted(skus)
      PROVE  TypeOK'
  BY <1>3 DEF TypeOK, MarkDelisted, ClearDelisted, history, botVars
<1>4. ASSUME NEW s \in Skus, NEW store \in Stores \union {Online},
             NEW available \in Directions, EmitStockEvent(s, store, available)
      PROVE  TypeOK'
  <2>1. [id |-> nextId, sku |-> s, store |-> store, available |-> available] \in Event
    BY <1>4 DEF EmitStockEvent, Event
  <2>2. stock_events' \subseteq Event
    BY <1>4, <2>1 DEF EmitStockEvent, TypeOK
  <2>3. owed' \subseteq Route
    <3>1. \A u \in Recipients(s, store) :
            [event_id |-> nextId, user |-> u, sku |-> s, store |-> store] \in Route
      BY <1>4 DEF EmitStockEvent, Recipients, Route
    <3> QED
      BY <1>4, <3>1 DEF EmitStockEvent, TypeOK
  <2>4. nextId' \in 1..MaxEvents + 1
    BY <1>4 DEF EmitStockEvent, TypeOK, Ids
  <2> QED
    BY <1>4, <2>2, <2>3, <2>4 DEF EmitStockEvent, TypeOK, botVars
<1>5. CASE DeleteOldStockEvents
  BY <1>5 DEF TypeOK, DeleteOldStockEvents, history, botVars
<1>6. CASE Age
  BY <1>6 DEF TypeOK, Age, history, botVars
<1>7. CASE PollStart \/ FetchOnline \/ FetchFails \/ FetchNothing
  BY <1>7, PendingRowsType
     DEF TypeOK, PollStart, FetchOnline, FetchFails, FetchNothing, db, history
<1>8. CASE Fetch
  <2>1. PICK rows \in SUBSET PendingRows :
          /\ batch' = rows
          /\ unsent' = ToMessage(rows)
          /\ cut' = cut \union (EventIds(rows) \intersect
                                  EventIds(PendingRows \ rows))
    BY <1>8 DEF Fetch
  <2>2. rows \in SUBSET Row
    BY PendingRowsType
  <2>3. EventIds(rows) \subseteq Ids
    BY <2>2, EventIdsType
  <2> QED
    BY <1>8, <2>1, <2>2, <2>3 DEF TypeOK, Fetch, ToMessage, db
<1>9. CASE SendMessage
  <2>1. PICK r \in unsent :
          /\ unsent' = unsent \ SameMessage(r)
          /\ attempted' = attempted \union Pairs(SameMessage(r))
    BY <1>9 DEF SendMessage
  <2>2. SameMessage(r) \in SUBSET Row
    BY DEF SameMessage, TypeOK
  <2>3. Pairs(SameMessage(r)) \subseteq Ids \X Users
    BY <2>2, EventIdsType
  <2> QED
    BY <1>9, <2>1, <2>3 DEF TypeOK, SendMessage, db
<1>10. CASE SendAck
  <2>1. EventIds(batch) \subseteq Ids
    BY EventIdsType DEF TypeOK
  <2>2. [ids |-> EventIds(batch), awaited |-> TRUE] \in Ack
    BY <2>1 DEF Ack
  <2> QED
    BY <1>10, <2>2 DEF TypeOK, SendAck, db, history
<1>11. CASE AckAnswered \/ AckGivenUp \/ BotCrash
  <2>1. EventIds(batch) \subseteq Ids
    BY EventIdsType DEF TypeOK
  <2>2. LetGo \in Ack
    BY <2>1 DEF LetGo, Ack
  <2>3. Late \subseteq Ack
    BY DEF Late, TypeOK
  <2>4. CASE AckAnswered \/ AckGivenUp
    BY <2>1, <2>2, <2>3, <2>4 DEF TypeOK, AckAnswered, AckGivenUp, StopWaiting, db
  <2>5. CASE BotCrash
    BY <2>1, <2>2, <2>3, <2>5 DEF TypeOK, BotCrash, db
  <2> QED
    BY <1>11, <2>4, <2>5
<1>12. ASSUME NEW a \in acks, AckCommit(a)
       PROVE  TypeOK'
  <2>1. MarkProcessed(a.ids) \subseteq Ids
    BY DEF MarkProcessed, TypeOK, Event
  <2> QED
    BY <1>12, <2>1 DEF TypeOK, AckCommit, botVars
<1>13. ASSUME NEW a \in acks, AckFails(a)
       PROVE  TypeOK'
  BY <1>13 DEF TypeOK, AckFails, Ack, db
<1>14. CASE UNCHANGED vars
  BY <1>14 DEF TypeOK, vars, db, botVars, history
<1> QED
  BY <1>1, <1>2, <1>3, <1>4, <1>5, <1>6, <1>7, <1>8, <1>9, <1>10, <1>11,
     <1>12, <1>13, <1>14
     DEF Next, UserStep, ScraperStep, BotStep, BackendStep

(* The variables keep their types, in every behaviour of the outbox. *)
THEOREM TypeCorrect == Spec => []TypeOK
<1> QED
  BY InitTypeOK, NextTypeOK, PTL DEF Spec

-----------------------------------------------------------------------------
(* The inductive invariant behind FanOutComplete.                            *)

(* No id that is still to be given is known anywhere. *)
IdsFresh ==
    /\ \A e \in stock_events : e.id < nextId
    /\ \A o \in owed : o.event_id < nextId
    /\ \A r \in batch \union online : r.event_id < nextId
    /\ \A a \in acks : \A i \in a.ids : i < nextId
    /\ \A i \in processed : i < nextId

(* A kept route is still one the pending query follows. *)
OwedRouted ==
    \A o \in owed :
        /\ o.user \in Recipients(o.sku, o.store)
        /\ \A e \in stock_events :
             e.id = o.event_id => e.sku = o.sku /\ e.store = o.store

(* A batch with one row of an uncut event has a row of each of its routes. *)
BatchCovers ==
    \A o \in owed, r \in batch :
        o.event_id = r.event_id /\ o.event_id \notin cut
        => <<o.event_id, o.user>> \in Pairs(batch)

(* The rows of the first query are those of all the routes of their events. *)
OnlineCovers ==
    \A o \in owed, r \in online :
        o.event_id = r.event_id => <<o.event_id, o.user>> \in Pairs(online)

SentAttempted ==
    \A r \in batch :
        r.user \in TgUsers /\ r \notin unsent
        => <<r.event_id, r.user>> \in attempted

(* An ack under way names only events whose routes have been served. *)
AckCovers ==
    \A a \in acks, o \in owed :
        /\ o.event_id \in a.ids
        /\ o.user \in TgUsers
        /\ o.event_id \notin cut
        => <<o.event_id, o.user>> \in attempted

(* The bot waits for at most one ack, and only once its messages are out. *)
AckPhase ==
    /\ bot = "ack" => unsent = {}
    /\ bot # "stores" => online = {}
    /\ \A a \in acks : a.awaited => bot = "ack"
    /\ \A a, b \in acks : a.awaited /\ b.awaited => a = b

FanOutInv ==
    /\ IdsFresh /\ OwedRouted /\ BatchCovers /\ OnlineCovers /\ SentAttempted /\ AckCovers
    /\ AckPhase /\ FanOutComplete

LEMMA InitFanOut == Init => FanOutInv
  BY DEF Init, FanOutInv, IdsFresh, OwedRouted, BatchCovers, OnlineCovers, SentAttempted,
         AckCovers, AckPhase, FanOutComplete

LEMMA EmitFanOut ==
    ASSUME TypeOK, FanOutInv, NEW s \in Skus, NEW store \in Stores \union {Online},
           NEW available \in Directions, EmitStockEvent(s, store, available)
    PROVE  FanOutInv'
<1> DEFINE new == {[event_id |-> nextId, user |-> u, sku |-> s, store |-> store] :
                      u \in Recipients(s, store)}
           event == [id |-> nextId, sku |-> s, store |-> store, available |-> available]
<1>1. /\ owed' = owed \union new
      /\ stock_events' = stock_events \union {event}
      /\ nextId' = nextId + 1
      /\ UNCHANGED <<watches, prefs, processed, bot, online, batch, unsent, acks,
                     attempted, cut>>
  BY DEF EmitStockEvent, botVars
<1>2. nextId \in Nat
  BY StockAlertsAssumption DEF TypeOK
<1>3. \A i : i \in Ids /\ i < nextId => i # nextId /\ i < nextId + 1
  BY <1>2, StockAlertsAssumption DEF Ids
<1>4. \A o \in new : /\ o.event_id = nextId /\ o.sku = s /\ o.store = store
                     /\ o.user \in Recipients(s, store)
  OBVIOUS
<1>5. /\ \A e \in stock_events : e.id \in Ids
      /\ \A o \in owed : o.event_id \in Ids
      /\ \A r \in batch \union online : r.event_id \in Ids
      /\ \A a \in acks : a.ids \subseteq Ids
      /\ processed \subseteq Ids
  BY DEF TypeOK, Event, Route, Row, Ack
<1>6. nextId < nextId + 1
  BY <1>2
<1>7. IdsFresh'
  BY <1>1, <1>3, <1>4, <1>5, <1>6 DEF FanOutInv, IdsFresh
<1>8. OwedRouted'
  <2>1. Recipients(s, store)' = Recipients(s, store)
    BY <1>1 DEF Recipients
  <2>2. \A o \in owed : Recipients(o.sku, o.store)' = Recipients(o.sku, o.store)
    BY <1>1 DEF Recipients
  <2>3. ASSUME NEW o \in owed', NEW e \in stock_events', e.id = o.event_id
        PROVE  e.sku = o.sku /\ e.store = o.store
    <3>1. CASE o \in owed /\ e \in stock_events
      BY <2>3, <3>1 DEF FanOutInv, OwedRouted
    <3>2. CASE o \in new /\ e \in stock_events
      BY <2>3, <3>2, <1>3, <1>4, <1>5 DEF FanOutInv, IdsFresh
    <3>3. CASE o \in owed /\ e = event
      BY <2>3, <3>3, <1>3, <1>5 DEF FanOutInv, IdsFresh
    <3>4. CASE o \in new /\ e = event
      BY <3>4, <1>4
    <3> QED
      BY <1>1, <3>1, <3>2, <3>3, <3>4
  <2>4. ASSUME NEW o \in owed' PROVE o.user \in Recipients(o.sku, o.store)'
    BY <1>1, <1>4, <2>1, <2>2 DEF FanOutInv, OwedRouted
  <2> QED
    BY <2>3, <2>4 DEF OwedRouted
<1>9. BatchCovers' /\ OnlineCovers'
  BY <1>1, <1>3, <1>4, <1>5 DEF FanOutInv, IdsFresh, BatchCovers, OnlineCovers, Pairs
<1>10. SentAttempted' /\ AckPhase'
  BY <1>1 DEF FanOutInv, SentAttempted, AckPhase
<1>11. AckCovers'
  BY <1>1, <1>3, <1>4, <1>5 DEF FanOutInv, IdsFresh, AckCovers
<1>12. FanOutComplete'
  BY <1>1, <1>3, <1>4, <1>5 DEF FanOutInv, IdsFresh, FanOutComplete
<1> QED
  BY <1>7, <1>8, <1>9, <1>10, <1>11, <1>12 DEF FanOutInv

LEMMA FetchOnlineFanOut ==
    ASSUME TypeOK, FanOutInv, FetchOnline
    PROVE  FanOutInv'
<1>1. /\ UNCHANGED <<watches, prefs, stock_events, processed, nextId, batch, unsent,
                     acks, owed, attempted, cut>>
      /\ bot = "fetch" /\ bot' = "stores" /\ online' = OnlineRows
  BY DEF FetchOnline, db, history
<1>2. \A r \in OnlineRows : r.event_id < nextId
  BY OnlineRowsDef DEF FanOutInv, IdsFresh, PendingEvents, NotificationRow
<1>3. IdsFresh' /\ OwedRouted'
  BY <1>1, <1>2 DEF FanOutInv, IdsFresh, OwedRouted, Recipients
<1>4. OnlineCovers'
  <2> SUFFICES ASSUME NEW o \in owed, NEW r \in OnlineRows, o.event_id = r.event_id
               PROVE  <<o.event_id, o.user>> \in Pairs(OnlineRows)
    BY <1>1 DEF OnlineCovers, Pairs
  <2>1. PICK e \in PendingEvents : /\ e.store = Online
                                   /\ \E u \in Recipients(e.sku, e.store) :
                                        r = NotificationRow(e, u)
    BY OnlineRowsDef
  <2>2. e \in stock_events /\ e.id = o.event_id
    BY <2>1 DEF PendingEvents, NotificationRow
  <2>3. o.user \in Recipients(e.sku, e.store)
    BY <2>2 DEF FanOutInv, OwedRouted
  <2>4. NotificationRow(e, o.user) \in OnlineRows
    BY <2>1, <2>3, OnlineRowsDef
  <2> QED
    BY <2>2, <2>4 DEF NotificationRow, Pairs
<1>5. BatchCovers' /\ SentAttempted' /\ AckCovers' /\ AckPhase' /\ FanOutComplete'
  BY <1>1 DEF FanOutInv, BatchCovers, SentAttempted, AckCovers, AckPhase,
              FanOutComplete, Pairs
<1> QED
  BY <1>3, <1>4, <1>5 DEF FanOutInv

LEMMA FetchFanOut ==
    ASSUME TypeOK, FanOutInv, Fetch
    PROVE  FanOutInv'
<1>1. PICK rows \in SUBSET PendingRows :
        /\ batch' = rows
        /\ unsent' = ToMessage(rows)
        /\ cut' = cut \union (EventIds(rows) \intersect EventIds(PendingRows \ rows))
  BY DEF Fetch
<1>2. /\ UNCHANGED <<watches, prefs, stock_events, processed, nextId, acks,
                     owed, attempted>>
      /\ bot = "stores" /\ bot' = "send" /\ online' = {}
  BY DEF Fetch, db
<1>3. IdsFresh'
  <2>1. \A r \in StoreRows : r.event_id < nextId
    BY StoreRowsDef DEF FanOutInv, IdsFresh, PendingEvents, NotificationRow
  <2>2. \A r \in PendingRows : r.event_id < nextId
    BY <2>1 DEF PendingRows, FanOutInv, IdsFresh
  <2> QED
    BY <1>1, <1>2, <2>2 DEF FanOutInv, IdsFresh
<1>4. OwedRouted'
  BY <1>2 DEF FanOutInv, OwedRouted, Recipients
<1>5. BatchCovers'
  <2> SUFFICES ASSUME NEW o \in owed, NEW r \in rows, o.event_id = r.event_id,
                      o.event_id \notin cut'
               PROVE  <<o.event_id, o.user>> \in Pairs(rows)
    BY <1>1, <1>2 DEF BatchCovers, Pairs
  <2>1. \E q \in PendingRows : q.event_id = o.event_id /\ q.user = o.user
    <3>1. CASE r \in online
      BY <3>1 DEF FanOutInv, OnlineCovers, Pairs, PendingRows
    <3>2. CASE r \in StoreRows
      <4>1. PICK e \in PendingEvents : /\ e.store # Online
                                       /\ \E u \in Recipients(e.sku, e.store) :
                                            r = NotificationRow(e, u)
        BY <3>2, StoreRowsDef
      <4>2. e \in stock_events /\ e.id = o.event_id
        BY <4>1 DEF PendingEvents, NotificationRow
      <4>3. o.user \in Recipients(e.sku, e.store)
        BY <4>2 DEF FanOutInv, OwedRouted
      <4>4. NotificationRow(e, o.user) \in StoreRows
        BY <4>1, <4>3, StoreRowsDef
      <4> QED
        BY <4>2, <4>4 DEF NotificationRow, PendingRows
    <3> QED
      BY <3>1, <3>2 DEF PendingRows
  <2>2. PICK q \in PendingRows : q.event_id = o.event_id /\ q.user = o.user
    BY <2>1
  <2>3. q \in rows
    <3>1. o.event_id \in EventIds(rows)
      BY DEF EventIds
    <3>2. o.event_id \notin EventIds(PendingRows \ rows)
      BY <1>1, <3>1
    <3> QED
      BY <2>2, <3>2 DEF EventIds
  <2> QED
    BY <2>2, <2>3 DEF Pairs
<1>6. SentAttempted' /\ OnlineCovers'
  BY <1>1, <1>2 DEF SentAttempted, ToMessage, OnlineCovers
<1>7. AckCovers' /\ FanOutComplete'
  BY <1>1, <1>2 DEF FanOutInv, AckCovers, FanOutComplete
<1>8. AckPhase'
  BY <1>2 DEF FanOutInv, AckPhase
<1> QED
  BY <1>3, <1>4, <1>5, <1>6, <1>7, <1>8 DEF FanOutInv

LEMMA UserFanOut ==
    ASSUME TypeOK, FanOutInv, UserStep
    PROVE  FanOutInv'
<1>1. /\ UNCHANGED <<stock_events, processed, nextId, bot, online, batch, unsent,
                     acks, attempted, cut>>
      /\ owed' \subseteq owed
  BY DEF UserStep, CreateWatch, DeleteWatch, AddUserStore, RemoveUserStore,
         history, botVars
<1>2. OwedRouted'
  <2>1. ASSUME NEW u \in Users, NEW s \in Skus, CreateWatch(u, s) PROVE OwedRouted'
    BY <2>1 DEF CreateWatch, history, FanOutInv, OwedRouted, Recipients
  <2>2. ASSUME NEW u \in Users, NEW s \in Skus, DeleteWatch(u, s) PROVE OwedRouted'
    BY <2>2 DEF DeleteWatch, FanOutInv, OwedRouted, Recipients
  <2>3. ASSUME NEW u \in Users, NEW m \in Stores, AddUserStore(u, m) PROVE OwedRouted'
    BY <2>3 DEF AddUserStore, history, FanOutInv, OwedRouted, Recipients
  <2>4. ASSUME NEW u \in Users, NEW m \in Stores, RemoveUserStore(u, m)
        PROVE  OwedRouted'
    BY <2>4 DEF RemoveUserStore, FanOutInv, OwedRouted, Recipients
  <2> QED
    BY <2>1, <2>2, <2>3, <2>4 DEF UserStep
<1>3. IdsFresh' /\ BatchCovers' /\ OnlineCovers' /\ AckCovers' /\ FanOutComplete'
  BY <1>1 DEF FanOutInv, IdsFresh, BatchCovers, OnlineCovers, AckCovers, FanOutComplete, Pairs
<1>4. SentAttempted' /\ AckPhase'
  BY <1>1 DEF FanOutInv, SentAttempted, AckPhase
<1> QED
  BY <1>2, <1>3, <1>4 DEF FanOutInv

(* Actions that leave the routes, the batch and the acks alone. *)
LEMMA QuietFanOut ==
    ASSUME TypeOK, FanOutInv,
           UNCHANGED <<watches, prefs, processed, nextId, batch, unsent, acks,
                       owed, attempted, cut>>,
           stock_events' \subseteq stock_events,
           \/ UNCHANGED <<bot, online>>
           \/ bot # "ack" /\ bot' # "ack" /\ online' = {}
    PROVE  FanOutInv'
<1>1. IdsFresh' /\ OwedRouted'
  BY DEF FanOutInv, IdsFresh, OwedRouted, Recipients
<1>2. BatchCovers' /\ OnlineCovers' /\ SentAttempted' /\ AckCovers' /\ FanOutComplete'
  BY DEF FanOutInv, BatchCovers, OnlineCovers, SentAttempted, AckCovers, FanOutComplete, Pairs
<1>3. AckPhase'
  BY DEF FanOutInv, AckPhase
<1> QED
  BY <1>1, <1>2, <1>3 DEF FanOutInv

LEMMA SendMessageFanOut ==
    ASSUME TypeOK, FanOutInv, SendMessage
    PROVE  FanOutInv'
<1>1. PICK r \in unsent :
        /\ unsent' = unsent \ SameMessage(r)
        /\ attempted' = attempted \union Pairs(SameMessage(r))
  BY DEF SendMessage
<1>2. /\ UNCHANGED <<watches, prefs, stock_events, processed, nextId, online, batch,
                     acks, owed, cut>>
      /\ bot = "send" /\ bot' = "send"
  BY DEF SendMessage, db
<1>3. IdsFresh' /\ OwedRouted' /\ BatchCovers' /\ OnlineCovers'
  BY <1>2 DEF FanOutInv, IdsFresh, OwedRouted, Recipients, BatchCovers, OnlineCovers,
              Pairs
<1>4. SentAttempted'
  <2> SUFFICES ASSUME NEW q \in batch, q.user \in TgUsers, q \notin unsent'
               PROVE  <<q.event_id, q.user>> \in attempted'
    BY <1>2 DEF SentAttempted
  <2>1. CASE q \in unsent
    <3>1. q \in SameMessage(r)
      BY <1>1, <2>1
    <3> QED
      BY <1>1, <3>1 DEF Pairs
  <2>2. CASE q \notin unsent
    BY <1>1, <2>2 DEF FanOutInv, SentAttempted
  <2> QED
    BY <2>1, <2>2
<1>5. AckCovers' /\ FanOutComplete' /\ AckPhase'
  BY <1>1, <1>2 DEF FanOutInv, AckCovers, FanOutComplete, AckPhase
<1> QED
  BY <1>3, <1>4, <1>5 DEF FanOutInv

(* Once the batch is through, its events may be acknowledged. *)
LEMMA BatchServed ==
    ASSUME TypeOK, FanOutInv, unsent = {},
           NEW o \in owed, o.event_id \in EventIds(batch), o.user \in TgUsers,
           o.event_id \notin cut
    PROVE  <<o.event_id, o.user>> \in attempted
<1>1. PICK r \in batch : r.event_id = o.event_id
  BY DEF EventIds
<1>2. <<o.event_id, o.user>> \in Pairs(batch)
  BY <1>1 DEF FanOutInv, BatchCovers
<1>3. PICK q \in batch : q.event_id = o.event_id /\ q.user = o.user
  BY <1>2 DEF Pairs
<1> QED
  BY <1>3 DEF FanOutInv, SentAttempted

LEMMA BatchIdsFresh ==
    ASSUME FanOutInv, NEW i \in EventIds(batch)
    PROVE  i < nextId
  BY DEF FanOutInv, IdsFresh, EventIds

LEMMA SendAckFanOut ==
    ASSUME TypeOK, FanOutInv, SendAck
    PROVE  FanOutInv'
<1> DEFINE ack == [ids |-> EventIds(batch), awaited |-> TRUE]
<1>1. /\ UNCHANGED <<watches, prefs, stock_events, processed, nextId, online, batch,
                     unsent, owed, attempted, cut>>
      /\ acks' = acks \union {ack}
      /\ bot = "send" /\ bot' = "ack" /\ unsent = {}
  BY DEF SendAck, MessagesDone, db, history
<1>2. IdsFresh'
  BY <1>1, BatchIdsFresh DEF FanOutInv, IdsFresh
<1>3. OwedRouted' /\ BatchCovers' /\ OnlineCovers' /\ SentAttempted' /\ FanOutComplete'
  BY <1>1 DEF FanOutInv, OwedRouted, Recipients, BatchCovers, OnlineCovers, SentAttempted,
              FanOutComplete, Pairs
<1>4. AckCovers'
  BY <1>1, BatchServed DEF FanOutInv, AckCovers
<1>5. AckPhase'
  BY <1>1 DEF FanOutInv, AckPhase
<1> QED
  BY <1>2, <1>3, <1>4, <1>5 DEF FanOutInv

LEMMA BotGoesFanOut ==
    ASSUME TypeOK, FanOutInv, AckAnswered \/ AckGivenUp \/ BotCrash
    PROVE  FanOutInv'
<1>1. /\ UNCHANGED <<watches, prefs, stock_events, processed, nextId,
                     owed, attempted, cut>>
      /\ batch' = {} /\ unsent' = {} /\ bot' # "ack"
      /\ online' = {}
      /\ \/ Awaited = {} /\ acks' = acks
         \/ Awaited # {} /\ acks' = Late \union {LetGo}
  BY DEF AckAnswered, AckGivenUp, StopWaiting, BotCrash, db, FanOutInv, AckPhase
<1>2. Awaited # {} => unsent = {}
  BY DEF Awaited, FanOutInv, AckPhase
<1>3. IdsFresh'
  BY <1>1, BatchIdsFresh DEF FanOutInv, IdsFresh, Late, LetGo
<1>4. OwedRouted' /\ BatchCovers' /\ OnlineCovers' /\ SentAttempted' /\ FanOutComplete'
  BY <1>1 DEF FanOutInv, OwedRouted, Recipients, BatchCovers, OnlineCovers, SentAttempted,
              FanOutComplete, Pairs
<1>5. AckCovers'
  BY <1>1, <1>2, BatchServed DEF FanOutInv, AckCovers, Late, LetGo
<1>6. AckPhase'
  BY <1>1 DEF FanOutInv, AckPhase, Awaited, Late, LetGo
<1> QED
  BY <1>3, <1>4, <1>5, <1>6 DEF FanOutInv

LEMMA AckCommitFanOut ==
    ASSUME TypeOK, FanOutInv, NEW a \in acks, AckCommit(a)
    PROVE  FanOutInv'
<1> DEFINE gone == {e.sku : e \in {x \in stock_events : x.id \in a.ids}}
                     \intersect delisted
<1>1. /\ watches' = {w \in watches : w[2] \notin gone}
      /\ owed' = {o \in owed : o.sku \notin gone}
      /\ processed' = processed \union MarkProcessed(a.ids)
      /\ acks' = acks \ {a}
      /\ UNCHANGED <<prefs, stock_events, nextId, bot, online, batch, unsent, attempted,
                     cut>>
  BY DEF AckCommit, botVars
<1>2. MarkProcessed(a.ids) \subseteq a.ids
  BY DEF MarkProcessed
<1>3. IdsFresh'
  BY <1>1, <1>2 DEF FanOutInv, IdsFresh
<1>4. OwedRouted'
  BY <1>1 DEF FanOutInv, OwedRouted, Recipients
<1>5. BatchCovers' /\ OnlineCovers' /\ SentAttempted' /\ AckCovers' /\ AckPhase'
  BY <1>1 DEF FanOutInv, BatchCovers, OnlineCovers, SentAttempted, AckCovers, AckPhase, Pairs
<1>6. FanOutComplete'
  BY <1>1, <1>2 DEF FanOutInv, FanOutComplete, AckCovers
<1> QED
  BY <1>3, <1>4, <1>5, <1>6 DEF FanOutInv

LEMMA AckFailsFanOut ==
    ASSUME TypeOK, FanOutInv, NEW a \in acks, AckFails(a)
    PROVE  FanOutInv'
<1>1. /\ UNCHANGED <<watches, prefs, stock_events, processed, nextId,
                     owed, attempted, cut>>
      /\ acks' = acks \ {a} /\ online' = online
      /\ \/ a.awaited /\ batch' = {} /\ unsent' = {} /\ bot' = "idle"
         \/ UNCHANGED <<bot, batch, unsent>>
  BY DEF AckFails, db
<1>2. IdsFresh' /\ OwedRouted' /\ BatchCovers' /\ OnlineCovers' /\ SentAttempted'
  BY <1>1 DEF FanOutInv, IdsFresh, OwedRouted, Recipients, BatchCovers,
              OnlineCovers, SentAttempted, Pairs
<1>3. AckCovers' /\ FanOutComplete' /\ AckPhase'
  BY <1>1 DEF FanOutInv, AckCovers, FanOutComplete, AckPhase
<1> QED
  BY <1>2, <1>3 DEF FanOutInv

LEMMA NextFanOut == TypeOK /\ FanOutInv /\ [Next]_vars => FanOutInv'
<1> SUFFICES ASSUME TypeOK, FanOutInv, [Next]_vars PROVE FanOutInv'
  OBVIOUS
<1>1. ASSUME NEW skus \in SUBSET Skus, MarkDelisted(skus) \/ ClearDelisted(skus)
      PROVE  FanOutInv'
  BY <1>1, QuietFanOut DEF MarkDelisted, ClearDelisted, botVars, history
<1>2. CASE DeleteOldStockEvents
  BY <1>2, QuietFanOut DEF DeleteOldStockEvents, botVars, history
<1>3. CASE Age
  BY <1>3, QuietFanOut DEF Age, botVars, history
<1>4. CASE PollStart \/ FetchFails \/ FetchNothing
  BY <1>4, QuietFanOut
     DEF PollStart, FetchFails, FetchNothing, db, history, FanOutInv, AckPhase
<1>5. CASE UNCHANGED vars
  BY <1>5, QuietFanOut DEF vars, db, botVars, history
<1> QED
  BY <1>1, <1>2, <1>3, <1>4, <1>5, UserFanOut, EmitFanOut,
     FetchOnlineFanOut, FetchFanOut, SendMessageFanOut, SendAckFanOut, BotGoesFanOut, AckCommitFanOut, AckFailsFanOut
     DEF Next, ScraperStep, BotStep, BackendStep

(* One event fans out to all its watchers, the batch limit aside: proved for *)
(* any number of users, events, crashes and delayed acks.                    *)
THEOREM FanOutHolds == Spec => []FanOutComplete
<1>1. FanOutInv => FanOutComplete
  BY DEF FanOutInv
<1> QED
  BY <1>1, TypeCorrect, InitFanOut, NextFanOut, PTL DEF Spec

-----------------------------------------------------------------------------
(* The inductive invariant behind ResendsExplained.                          *)

UniqueIds == \A e, f \in stock_events : e.id = f.id => e = f

OneRowEach ==
    \A r, q \in batch : r.event_id = q.event_id /\ r.user = q.user => r = q

(* What the first query read: one row per event and user, of online events,  *)
(* and any of them that was messaged before has its resend accounted for.    *)
OnlineRead ==
    /\ \A r, q \in online : r.event_id = q.event_id /\ r.user = q.user => r = q
    /\ \A r \in online, e \in stock_events : e.id = r.event_id => e.store = Online
    /\ \A r \in online :
         <<r.event_id, r.user>> \in attempted => r.event_id \in unsettled

(* An event no later fetch returns, or one whose resend is accounted for. *)
Settled(i) ==
    \/ i \in processed
    \/ i \in unsettled
    \/ \A e \in stock_events : e.id # i

AttemptedSettled ==
    \A p \in attempted :
        /\ p[1] < nextId
        /\ Settled(p[1]) \/ p[1] \in EventIds(batch)

(* The ack the bot waits for is its batch's, and once it is no longer under *)
(* way it has been committed.                                               *)
AwaitedIsBatch ==
    /\ \A a \in acks : a.awaited => a.ids = EventIds(batch)
    /\ bot = "ack" /\ Awaited = {} => \A i \in EventIds(batch) : Settled(i)
    /\ bot \in {"idle", "fetch", "stores"} => batch = {}

ResendInv ==
    /\ UniqueIds /\ OneRowEach /\ OnlineRead /\ AttemptedSettled
    /\ AwaitedIsBatch /\ ResendsExplained

LEMMA InitResend == Init => ResendInv
  BY DEF Init, ResendInv, UniqueIds, OneRowEach, OnlineRead, AttemptedSettled, AwaitedIsBatch,
         ResendsExplained, EventIds

LEMMA OnlineUntouched ==
    ASSUME ResendInv, online' = online \/ online' = {},
           stock_events' \subseteq stock_events,
           attempted' = attempted, unsettled \subseteq unsettled'
    PROVE  OnlineRead'
  BY DEF ResendInv, OnlineRead

(* Steps that change neither the bot's side nor the marks on the events. *)
LEMMA QuietResend ==
    ASSUME TypeOK, FanOutInv, ResendInv,
           UNCHANGED <<processed, nextId, bot, online, batch, unsent, acks, attempted,
                       unsettled>>,
           stock_events' \subseteq stock_events
    PROVE  ResendInv'
<1>1. \A i : Settled(i) => Settled(i)'
  BY DEF Settled
<1>2. EventIds(batch)' = EventIds(batch) /\ Awaited' = Awaited
  BY DEF EventIds, Awaited
<1>3. UniqueIds' /\ OneRowEach' /\ ResendsExplained'
  BY DEF ResendInv, UniqueIds, OneRowEach, ResendsExplained
<1>4. AttemptedSettled' /\ AwaitedIsBatch'
  BY <1>1, <1>2 DEF ResendInv, AttemptedSettled, AwaitedIsBatch
<1> QED
  BY <1>3, <1>4, OnlineUntouched DEF ResendInv

LEMMA EmitResend ==
    ASSUME TypeOK, FanOutInv, ResendInv, NEW s \in Skus,
           NEW store \in Stores \union {Online}, NEW available \in Directions,
           EmitStockEvent(s, store, available)
    PROVE  ResendInv'
<1> DEFINE event == [id |-> nextId, sku |-> s, store |-> store, available |-> available]
<1>1. /\ stock_events' = stock_events \union {event}
      /\ nextId' = nextId + 1
      /\ UNCHANGED <<processed, bot, online, batch, unsent, acks, attempted, unsettled>>
  BY DEF EmitStockEvent, botVars
<1>2. nextId \in Nat
  BY StockAlertsAssumption DEF TypeOK
<1>3. \A i \in Ids : i < nextId => i # nextId /\ i < nextId + 1
  BY <1>2, StockAlertsAssumption DEF Ids
<1>4. \A i \in Ids : i < nextId /\ Settled(i) => Settled(i)'
  BY <1>1, <1>3 DEF Settled
<1>5. EventIds(batch)' = EventIds(batch) /\ Awaited' = Awaited
  BY <1>1 DEF EventIds, Awaited
<1>6. \A i \in EventIds(batch) : i \in Ids /\ i < nextId
  BY DEF EventIds, TypeOK, Row, FanOutInv, IdsFresh
<1>7. \A p \in attempted : p[1] \in Ids
  BY DEF TypeOK
<1>8. UniqueIds'
  <2>1. \A e \in stock_events : e.id \in Ids /\ e.id < nextId
    BY DEF TypeOK, Event, FanOutInv, IdsFresh
  <2> QED
    BY <1>1, <1>3, <2>1 DEF ResendInv, UniqueIds
<1>9. OneRowEach' /\ ResendsExplained'
  BY <1>1 DEF ResendInv, OneRowEach, ResendsExplained
<1>10. AttemptedSettled'
  BY <1>1, <1>3, <1>4, <1>5, <1>7 DEF ResendInv, AttemptedSettled
<1>11. AwaitedIsBatch'
  BY <1>1, <1>4, <1>5, <1>6 DEF ResendInv, AwaitedIsBatch
<1>12. OnlineRead'
  <2>1. \A r \in online : r.event_id \in Ids /\ r.event_id < nextId
    BY DEF TypeOK, Row, FanOutInv, IdsFresh
  <2> QED
    BY <1>1, <1>3, <2>1 DEF ResendInv, OnlineRead
<1> QED
  BY <1>8, <1>9, <1>10, <1>11, <1>12 DEF ResendInv

LEMMA PollResend ==
    ASSUME TypeOK, FanOutInv, ResendInv, PollStart \/ FetchFails \/ FetchNothing
    PROVE  ResendInv'
<1>1. /\ UNCHANGED <<stock_events, processed, nextId, batch, unsent, acks, attempted,
                     unsettled>>
      /\ bot \in {"idle", "fetch", "stores"} /\ bot' \in {"idle", "fetch", "stores"}
      /\ online' = online \/ online' = {}
  BY DEF PollStart, FetchFails, FetchNothing, db, history
<1>2. UniqueIds' /\ OneRowEach' /\ ResendsExplained'
  BY <1>1 DEF ResendInv, UniqueIds, OneRowEach, ResendsExplained
<1>3. AttemptedSettled' /\ AwaitedIsBatch'
  BY <1>1 DEF ResendInv, AttemptedSettled, AwaitedIsBatch, Settled, EventIds
<1> QED
  BY <1>1, <1>2, <1>3, OnlineUntouched DEF ResendInv

(* A pending event that was messaged before was let go. *)
LEMMA PendingResend ==
    ASSUME ResendInv, batch = {}, NEW e \in PendingEvents, NEW u,
           <<e.id, u>> \in attempted
    PROVE  e.id \in unsettled
<1>1. Settled(e.id)
  BY DEF ResendInv, AttemptedSettled, EventIds
<1> QED
  BY <1>1 DEF Settled, PendingEvents

LEMMA FetchOnlineResend ==
    ASSUME TypeOK, FanOutInv, ResendInv, FetchOnline
    PROVE  ResendInv'
<1>1. /\ UNCHANGED <<stock_events, processed, nextId, batch, unsent, acks, attempted,
                     unsettled>>
      /\ bot = "fetch" /\ bot' = "stores" /\ online' = OnlineRows
  BY DEF FetchOnline, db, history
<1>2. batch = {}
  BY <1>1 DEF ResendInv, AwaitedIsBatch
<1>3. OnlineRead'
  <2>1. ASSUME NEW r \in OnlineRows, NEW q \in OnlineRows,
               r.event_id = q.event_id, r.user = q.user
        PROVE  r = q
    <3>1. PICK e \in PendingEvents : \E u \in Recipients(e.sku, e.store) :
                r = NotificationRow(e, u)
      BY OnlineRowsDef
    <3>2. PICK f \in PendingEvents : \E u \in Recipients(f.sku, f.store) :
                q = NotificationRow(f, u)
      BY OnlineRowsDef
    <3>3. e = f
      BY <2>1, <3>1, <3>2 DEF ResendInv, UniqueIds, PendingEvents, NotificationRow
    <3> QED
      BY <2>1, <3>1, <3>2, <3>3 DEF NotificationRow
  <2>2. ASSUME NEW r \in OnlineRows
        PROVE  /\ \A e \in stock_events : e.id = r.event_id => e.store = Online
               /\ <<r.event_id, r.user>> \in attempted => r.event_id \in unsettled
    <3>1. PICK e \in PendingEvents : /\ e.store = Online
                                     /\ \E u \in Recipients(e.sku, e.store) :
                                          r = NotificationRow(e, u)
      BY OnlineRowsDef
    <3>2. e \in stock_events /\ e.id = r.event_id
      BY <3>1 DEF PendingEvents, NotificationRow
    <3> QED
      BY <1>2, <3>1, <3>2, PendingResend DEF ResendInv, UniqueIds
  <2> QED
    BY <1>1, <2>1, <2>2 DEF OnlineRead
<1>4. UniqueIds' /\ OneRowEach' /\ ResendsExplained'
  BY <1>1 DEF ResendInv, UniqueIds, OneRowEach, ResendsExplained
<1>5. AttemptedSettled' /\ AwaitedIsBatch'
  BY <1>1 DEF ResendInv, AttemptedSettled, AwaitedIsBatch, Settled, EventIds
<1> QED
  BY <1>3, <1>4, <1>5 DEF ResendInv

LEMMA FetchResend ==
    ASSUME TypeOK, FanOutInv, ResendInv, Fetch
    PROVE  ResendInv'
<1>1. PICK rows \in SUBSET PendingRows : batch' = rows /\ unsent' = ToMessage(rows)
  BY DEF Fetch
<1>2. /\ UNCHANGED <<stock_events, processed, nextId, acks, attempted, unsettled>>
      /\ bot = "stores" /\ bot' = "send" /\ online' = {}
  BY DEF Fetch, db
<1>3. \A i : Settled(i)' <=> Settled(i)
  BY <1>2 DEF Settled
<1>4. UniqueIds' /\ OnlineRead'
  BY <1>2, OnlineUntouched DEF ResendInv, UniqueIds
<1>5. OneRowEach'
  <2> SUFFICES ASSUME NEW r \in rows, NEW q \in rows, r.event_id = q.event_id,
                      r.user = q.user
               PROVE  r = q
    BY <1>1 DEF OneRowEach
  <2>1. CASE r \in online /\ q \in online
    BY <2>1 DEF ResendInv, OnlineRead
  <2>2. \A x \in StoreRows :
          \E e \in stock_events : e.store # Online /\ e.id = x.event_id
    BY StoreRowsDef DEF PendingEvents, NotificationRow
  <2>3. ~(r \in online /\ q \in StoreRows) /\ ~(q \in online /\ r \in StoreRows)
    BY <2>2 DEF ResendInv, OnlineRead
  <2>4. CASE r \in StoreRows /\ q \in StoreRows
    <3>1. PICK e \in PendingEvents : \E u \in Recipients(e.sku, e.store) :
                r = NotificationRow(e, u)
      BY <2>4, StoreRowsDef
    <3>2. PICK f \in PendingEvents : \E u \in Recipients(f.sku, f.store) :
                q = NotificationRow(f, u)
      BY <2>4, StoreRowsDef
    <3>3. e = f
      BY <3>1, <3>2 DEF ResendInv, UniqueIds, PendingEvents, NotificationRow
    <3> QED
      BY <3>1, <3>2, <3>3 DEF NotificationRow
  <2> QED
    BY <2>1, <2>3, <2>4 DEF PendingRows
<1>6. batch = {}
  BY <1>2 DEF ResendInv, AwaitedIsBatch
<1>7. AttemptedSettled'
  BY <1>2, <1>3, <1>6 DEF ResendInv, AttemptedSettled, EventIds
<1>8. ResendsExplained'
  <2> SUFFICES ASSUME NEW r \in rows, <<r.event_id, r.user>> \in attempted
               PROVE  r.event_id \in unsettled
    BY <1>1, <1>2 DEF ResendsExplained, ToMessage
  <2>1. CASE r \in online
    BY <2>1 DEF ResendInv, OnlineRead
  <2>2. CASE r \in StoreRows
    <3>1. PICK e \in PendingEvents : \E u \in Recipients(e.sku, e.store) :
                r = NotificationRow(e, u)
      BY <2>2, StoreRowsDef
    <3>2. e.id = r.event_id
      BY <3>1 DEF NotificationRow
    <3> QED
      BY <1>6, <3>2, PendingResend
  <2> QED
    BY <2>1, <2>2 DEF PendingRows
<1>9. AwaitedIsBatch'
  BY <1>2 DEF FanOutInv, AckPhase, AwaitedIsBatch
<1> QED
  BY <1>4, <1>5, <1>7, <1>8, <1>9 DEF ResendInv

LEMMA SendMessageResend ==
    ASSUME TypeOK, FanOutInv, ResendInv, SendMessage
    PROVE  ResendInv'
<1>1. PICK r \in unsent :
        /\ unsent' = unsent \ SameMessage(r)
        /\ attempted' = attempted \union Pairs(SameMessage(r))
  BY DEF SendMessage
<1>2. /\ UNCHANGED <<stock_events, processed, nextId, batch, acks, unsettled>>
      /\ bot = "send" /\ bot' = "send"
  BY DEF SendMessage, db
<1>3. /\ \A i : Settled(i)' <=> Settled(i)
      /\ EventIds(batch)' = EventIds(batch) /\ Awaited' = Awaited
  BY <1>2 DEF Settled, EventIds, Awaited
<1>4. SameMessage(r) \subseteq batch
  BY DEF SameMessage, TypeOK
<1>5. UniqueIds' /\ OneRowEach' /\ OnlineRead'
  <2>1. online = {} /\ online' = {}
    BY <1>2 DEF FanOutInv, AckPhase, SendMessage
  <2> QED
    BY <1>2, <2>1 DEF ResendInv, UniqueIds, OneRowEach, OnlineRead
<1>6. AttemptedSettled'
  <2>1. \A p \in Pairs(SameMessage(r)) : p[1] \in EventIds(batch) /\ p[1] < nextId
    BY <1>4 DEF Pairs, EventIds, FanOutInv, IdsFresh
  <2> QED
    BY <1>1, <1>2, <1>3, <2>1 DEF ResendInv, AttemptedSettled
<1>7. AwaitedIsBatch'
  BY <1>2, <1>3 DEF ResendInv, AwaitedIsBatch
<1>8. ResendsExplained'
  <2> SUFFICES ASSUME NEW q \in unsent', <<q.event_id, q.user>> \in attempted'
               PROVE  q.event_id \in unsettled
    BY <1>2 DEF ResendsExplained
  <2>1. q \in unsent /\ q \in batch /\ q \notin SameMessage(r)
    BY <1>1 DEF TypeOK
  <2>2. <<q.event_id, q.user>> \notin Pairs(SameMessage(r))
    BY <1>4, <2>1 DEF Pairs, ResendInv, OneRowEach
  <2> QED
    BY <1>1, <2>1, <2>2 DEF ResendInv, ResendsExplained
<1> QED
  BY <1>5, <1>6, <1>7, <1>8 DEF ResendInv

LEMMA SendAckResend ==
    ASSUME TypeOK, FanOutInv, ResendInv, SendAck
    PROVE  ResendInv'
<1> DEFINE ack == [ids |-> EventIds(batch), awaited |-> TRUE]
<1>1. /\ UNCHANGED <<stock_events, processed, nextId, online, batch, unsent,
                     attempted, unsettled>>
      /\ acks' = acks \union {ack}
      /\ bot = "send" /\ bot' = "ack"
  BY DEF SendAck, db, history
<1>2. \A a \in acks : ~a.awaited
  BY <1>1 DEF FanOutInv, AckPhase
<1>3. UniqueIds' /\ OneRowEach' /\ ResendsExplained'
  BY <1>1 DEF ResendInv, UniqueIds, OneRowEach, ResendsExplained
<1>4. AttemptedSettled'
  BY <1>1 DEF ResendInv, AttemptedSettled, Settled, EventIds
<1>5. AwaitedIsBatch'
  <2>1. EventIds(batch)' = EventIds(batch) /\ ack \in Awaited'
    BY <1>1 DEF EventIds, Awaited
  <2> QED
    BY <1>1, <1>2, <2>1 DEF AwaitedIsBatch
<1> QED
  BY <1>1, <1>3, <1>4, <1>5, OnlineUntouched DEF ResendInv

LEMMA BotGoesResend ==
    ASSUME TypeOK, FanOutInv, ResendInv, AckAnswered \/ AckGivenUp \/ BotCrash
    PROVE  ResendInv'
<1>1. /\ UNCHANGED <<stock_events, processed, nextId, attempted>>
      /\ batch' = {} /\ unsent' = {} /\ bot' \in {"idle", "fetch"}
      /\ online' = online \/ online' = {}
      /\ acks' \subseteq acks \union {LetGo}
      /\ Awaited # {} => acks' = Late \union {LetGo}
      /\ \/ bot = "ack" /\ Awaited = {} /\ unsettled' = unsettled
         \/ unsettled' = unsettled \union EventIds(batch)
  BY DEF AckAnswered, AckGivenUp, StopWaiting, BotCrash, db, Late
<1>2. \A i : Settled(i) => Settled(i)'
  BY <1>1 DEF Settled
<1>3. \A i \in EventIds(batch) : Settled(i)'
  BY <1>1, <1>2 DEF ResendInv, AwaitedIsBatch, Settled
<1>4. UniqueIds' /\ OneRowEach' /\ ResendsExplained'
  BY <1>1 DEF ResendInv, UniqueIds, OneRowEach, ResendsExplained
<1>5. AttemptedSettled'
  BY <1>1, <1>2, <1>3 DEF ResendInv, AttemptedSettled
<1>6. \A a \in acks' : ~a.awaited
  BY <1>1 DEF Awaited, Late, LetGo
<1>7. AwaitedIsBatch'
  BY <1>1, <1>6 DEF AwaitedIsBatch
<1> QED
  BY <1>1, <1>4, <1>5, <1>7, OnlineUntouched DEF ResendInv

LEMMA AckCommitResend ==
    ASSUME TypeOK, FanOutInv, ResendInv, NEW a \in acks, AckCommit(a)
    PROVE  ResendInv'
<1>1. /\ processed' = processed \union MarkProcessed(a.ids)
      /\ acks' = acks \ {a}
      /\ UNCHANGED <<stock_events, nextId, bot, online, batch, unsent, attempted,
                     unsettled>>
  BY DEF AckCommit, botVars
<1>2. \A i : Settled(i) => Settled(i)'
  BY <1>1 DEF Settled
<1>3. \A i \in a.ids : Settled(i)'
  BY <1>1 DEF Settled, MarkProcessed
<1>4. EventIds(batch)' = EventIds(batch)
  BY <1>1 DEF EventIds
<1>5. UniqueIds' /\ OneRowEach' /\ ResendsExplained'
  BY <1>1 DEF ResendInv, UniqueIds, OneRowEach, ResendsExplained
<1>6. AttemptedSettled'
  BY <1>1, <1>2, <1>4 DEF ResendInv, AttemptedSettled
<1>7. AwaitedIsBatch'
  <2>1. ASSUME bot = "ack", Awaited' = {} PROVE \A i \in EventIds(batch) : Settled(i)'
    <3>1. CASE a.awaited
      BY <1>3, <3>1 DEF ResendInv, AwaitedIsBatch
    <3>2. CASE ~a.awaited
      BY <1>1, <1>2, <2>1, <3>2 DEF ResendInv, AwaitedIsBatch, Awaited
    <3> QED
      BY <3>1, <3>2
  <2> QED
    BY <1>1, <1>4, <2>1 DEF ResendInv, AwaitedIsBatch
<1> QED
  BY <1>1, <1>5, <1>6, <1>7, OnlineUntouched DEF ResendInv

LEMMA AckFailsResend ==
    ASSUME TypeOK, FanOutInv, ResendInv, NEW a \in acks, AckFails(a)
    PROVE  ResendInv'
<1>1. /\ UNCHANGED <<stock_events, processed, nextId, attempted>>
      /\ acks' = acks \ {a} /\ online' = online
  BY DEF AckFails, db
<1>2. CASE a.awaited
  <2>1. /\ bot' = "idle" /\ batch' = {} /\ unsent' = {}
        /\ unsettled' = unsettled \union a.ids
    BY <1>2 DEF AckFails
  <2>2. a.ids = EventIds(batch)
    BY <1>2 DEF ResendInv, AwaitedIsBatch
  <2>3. \A i : Settled(i) \/ i \in EventIds(batch) => Settled(i)'
    BY <1>1, <2>1, <2>2 DEF Settled
  <2>4. UniqueIds' /\ OneRowEach' /\ ResendsExplained'
    BY <1>1, <2>1 DEF ResendInv, UniqueIds, OneRowEach, ResendsExplained
  <2>5. AttemptedSettled'
    BY <1>1, <2>3 DEF ResendInv, AttemptedSettled
  <2>6. AwaitedIsBatch'
    BY <1>1, <1>2, <2>1 DEF FanOutInv, AckPhase, AwaitedIsBatch
  <2> QED
    BY <1>1, <2>1, <2>4, <2>5, <2>6, OnlineUntouched DEF ResendInv
<1>3. CASE ~a.awaited
  <2>1. UNCHANGED <<bot, batch, unsent, unsettled>>
    BY <1>3 DEF AckFails
  <2>2. \A i : Settled(i)' <=> Settled(i)
    BY <1>1, <2>1 DEF Settled
  <2>3. EventIds(batch)' = EventIds(batch) /\ Awaited' = Awaited
    BY <1>1, <1>3, <2>1 DEF EventIds, Awaited
  <2>4. UniqueIds' /\ OneRowEach' /\ ResendsExplained'
    BY <1>1, <2>1 DEF ResendInv, UniqueIds, OneRowEach, ResendsExplained
  <2>5. AttemptedSettled' /\ AwaitedIsBatch'
    BY <1>1, <2>1, <2>2, <2>3 DEF ResendInv, AttemptedSettled, AwaitedIsBatch
  <2> QED
    BY <1>1, <2>1, <2>4, <2>5, OnlineUntouched DEF ResendInv
<1> QED
  BY <1>2, <1>3 DEF TypeOK, Ack

LEMMA NextResend == TypeOK /\ FanOutInv /\ ResendInv /\ [Next]_vars => ResendInv'
<1> SUFFICES ASSUME TypeOK, FanOutInv, ResendInv, [Next]_vars PROVE ResendInv'
  OBVIOUS
<1>1. CASE UserStep
  BY <1>1, QuietResend DEF UserStep, CreateWatch, DeleteWatch, AddUserStore,
                           RemoveUserStore, botVars, history
<1>2. ASSUME NEW skus \in SUBSET Skus, MarkDelisted(skus) \/ ClearDelisted(skus)
      PROVE  ResendInv'
  BY <1>2, QuietResend DEF MarkDelisted, ClearDelisted, botVars, history
<1>3. CASE DeleteOldStockEvents
  BY <1>3, QuietResend DEF DeleteOldStockEvents, botVars, history
<1>4. CASE Age
  BY <1>4, QuietResend DEF Age, botVars, history
<1>5. CASE UNCHANGED vars
  BY <1>5, QuietResend DEF vars, db, botVars, history
<1> QED
  BY <1>1, <1>2, <1>3, <1>4, <1>5, EmitResend, PollResend,
     FetchOnlineResend, FetchResend,
     SendMessageResend, SendAckResend, BotGoesResend, AckCommitResend, AckFailsResend
     DEF Next, ScraperStep, BotStep, BackendStep

(* No notification is sent twice but after a crash, a failed or abandoned    *)
(* ack, or an ack answered before its commit.                                *)
THEOREM ResendsHold == Spec => []ResendsExplained
<1>1. ResendInv => ResendsExplained
  BY DEF ResendInv
<1> QED
  BY <1>1, TypeCorrect, InitFanOut, NextFanOut, InitResend, NextResend, PTL DEF Spec

-----------------------------------------------------------------------------
(* The refinement of AlertDelivery.                                          *)

(* A request the bot does not wait for is of events it has let go. *)
LateLetGo == \A a \in acks : ~a.awaited => a.ids \subseteq unsettled

LEMMA NextLateLetGo ==
    TypeOK /\ FanOutInv /\ ResendInv /\ LateLetGo /\ [Next]_vars => LateLetGo'
<1> SUFFICES ASSUME TypeOK, FanOutInv, ResendInv, LateLetGo, [Next]_vars
             PROVE  LateLetGo'
  OBVIOUS
<1>1. CASE UNCHANGED <<acks, unsettled>>
  BY <1>1 DEF LateLetGo
<1>2. CASE UserStep \/ ScraperStep \/ Age \/ UNCHANGED vars
  <2>1. UNCHANGED <<acks, unsettled>>
    BY <1>2 DEF UserStep, CreateWatch, DeleteWatch, AddUserStore, RemoveUserStore,
       ScraperStep, MarkDelisted, ClearDelisted, EmitStockEvent, DeleteOldStockEvents,
       Age, history, vars
  <2> QED
    BY <1>1, <2>1
<1>3. CASE PollStart \/ FetchOnline \/ FetchFails \/ FetchNothing \/ Fetch \/ SendMessage
  <2>1. UNCHANGED <<acks, unsettled>>
    BY <1>3 DEF PollStart, FetchOnline, FetchFails, FetchNothing, Fetch, SendMessage, history
  <2> QED
    BY <1>1, <2>1
<1>4. CASE SendAck
  BY <1>4 DEF SendAck, history, LateLetGo
<1>5. CASE AckAnswered \/ AckGivenUp \/ BotCrash
  <2>1. \/ acks' = acks /\ unsettled \subseteq unsettled'
        \/ /\ acks' = Late \union {LetGo}
           /\ unsettled' = unsettled \union EventIds(batch)
    BY <1>5 DEF AckAnswered, AckGivenUp, StopWaiting, BotCrash, FanOutInv, AckPhase, Awaited
  <2> QED
    BY <2>1 DEF LateLetGo, Late, LetGo
<1>6. ASSUME NEW a \in acks, AckCommit(a) \/ AckFails(a) PROVE LateLetGo'
  <2>1. acks' = acks \ {a} /\ unsettled \subseteq unsettled'
    BY <1>6 DEF AckCommit, AckFails
  <2> QED
    BY <2>1 DEF LateLetGo
<1> QED
  BY <1>2, <1>3, <1>4, <1>5, <1>6 DEF Next, BotStep, BackendStep

(* Only users with a chat are to be messaged. *)
UnsentReachable == \A r \in unsent : r.user \in TgUsers

LEMMA NextUnsentReachable == UnsentReachable /\ [Next]_vars => UnsentReachable'
<1> SUFFICES ASSUME UnsentReachable, [Next]_vars PROVE UnsentReachable'
  OBVIOUS
<1>1. CASE unsent' \subseteq unsent
  BY <1>1 DEF UnsentReachable
<1>2. CASE UserStep \/ ScraperStep \/ Age \/ UNCHANGED vars
  <2>1. UNCHANGED unsent
    BY <1>2 DEF UserStep, CreateWatch, DeleteWatch, AddUserStore, RemoveUserStore,
       ScraperStep, MarkDelisted, ClearDelisted, EmitStockEvent, DeleteOldStockEvents,
       Age, botVars, vars
  <2> QED
    BY <1>1, <2>1
<1>3. CASE BotStep /\ ~Fetch
  <2>1. unsent' \subseteq unsent
    BY <1>3 DEF BotStep, PollStart, FetchOnline, FetchFails, FetchNothing, SendMessage,
       SendAck, AckAnswered, AckGivenUp, StopWaiting, BotCrash
  <2> QED
    BY <1>1, <2>1
<1>4. CASE Fetch
  BY <1>4 DEF Fetch, ToMessage, UnsentReachable
<1>5. ASSUME NEW a \in acks, AckCommit(a) \/ AckFails(a) PROVE UnsentReachable'
  <2>1. unsent' \subseteq unsent
    BY <1>5 DEF AckCommit, AckFails, botVars
  <2> QED
    BY <1>1, <2>1
<1> QED
  BY <1>2, <1>3, <1>4, <1>5 DEF Next, BackendStep

DeliveryInv == TypeOK /\ FanOutInv /\ ResendInv /\ LateLetGo /\ UnsentReachable

-----------------------------------------------------------------------------
(* A row of either query is of a pair that is concerned. *)
LEMMA RowConcerned ==
    ASSUME TypeOK, NEW r \in OnlineRows \union StoreRows
    PROVE  <<r.event_id, r.user>> \in ConcernedPairs
<1>1. PICK e \in PendingEvents : \E u \in Recipients(e.sku, e.store) :
             r = NotificationRow(e, u)
  BY OnlineRowsDef, StoreRowsDef
<1>2. PICK u \in Recipients(e.sku, e.store) : r = NotificationRow(e, u)
  BY <1>1
<1>3. e \in stock_events /\ e.id \notin processed /\ e.id \in Ids /\ u \in Users
  BY DEF PendingEvents, TypeOK, Event, Recipients
<1>4. <<u, e.sku>> \in watches /\ (e.store = Online \/ <<u, e.store>> \in prefs)
  BY DEF Recipients
<1>5. r.event_id = e.id /\ r.user = u
  BY <1>2 DEF NotificationRow
<1> QED
  BY <1>3, <1>4, <1>5 DEF ConcernedPairs

LEMMA PairsAre ==
    ASSUME NEW rows, NEW p
    PROVE  p \in Pairs(rows) <=> \E r \in rows : p = <<r.event_id, r.user>>
  BY DEF Pairs

LEMMA EventsAnnounced ==
    ASSUME DeliveryInv, NEW e \in stock_events
    PROVE  e.id \in 1..nextId - 1
<1>1. e.id \in Ids /\ e.id < nextId /\ nextId \in Nat
  BY StockAlertsAssumption DEF DeliveryInv, FanOutInv, IdsFresh, TypeOK, Event
<1> QED
  BY <1>1, StockAlertsAssumption DEF Ids

LEMMA ConcernedOpen ==
    ASSUME DeliveryInv, NEW p \in ConcernedPairs
    PROVE  p[1] \in (1..nextId - 1) \ processed
  BY EventsAnnounced DEF ConcernedPairs

LEMMA SameTables ==
    ASSUME UNCHANGED <<watches, prefs, stock_events, processed>>
    PROVE  ConcernedPairs' = ConcernedPairs
  BY DEF ConcernedPairs

LEMMA SameDealing ==
    ASSUME UNCHANGED <<online, batch, unsent, cut>>
    PROVE  HeldPairs' = HeldPairs /\ EventIds(batch)' = EventIds(batch)
  BY DEF HeldPairs, Pairs, EventIds

LEMMA SameOwed ==
    ASSUME UNCHANGED owed
    PROVE  OwedPairs' = OwedPairs
  BY DEF OwedPairs

-----------------------------------------------------------------------------
LEMMA EmitAnnounces ==
    ASSUME DeliveryInv, NEW s \in Skus, NEW store \in Stores \union {Online},
           NEW available \in Directions, EmitStockEvent(s, store, available)
    PROVE  Delivery!Announce
<1> DEFINE e == [id |-> nextId, sku |-> s, store |-> store, available |-> available]
           new == {nextId} \X Recipients(s, store)
<1>1. /\ nextId \in Ids /\ stock_events' = stock_events \union {e} /\ nextId' = nextId + 1
      /\ owed' = owed \union
           {[event_id |-> nextId, user |-> u, sku |-> s, store |-> store] :
              u \in Recipients(s, store)}
      /\ UNCHANGED <<watches, prefs, processed, online, batch, unsent, attempted, cut,
                     unsettled>>
  BY DEF EmitStockEvent, botVars
<1>2. nextId \in Nat /\ nextId >= 1
  BY <1>1, StockAlertsAssumption DEF Ids
<1>3. 1..nextId' - 1 = (1..nextId - 1) \union {nextId} /\ nextId \notin 1..nextId - 1
  BY <1>1, <1>2
<1>4. nextId \notin processed
  BY <1>2 DEF DeliveryInv, FanOutInv, IdsFresh
<1>5. ConcernedPairs' = ConcernedPairs \union new
  <2>1. ASSUME NEW p \in ConcernedPairs' PROVE p \in ConcernedPairs \union new
    <3>1. PICK f \in stock_events' :
            /\ f.id = p[1] /\ f.id \notin processed' /\ <<p[2], f.sku>> \in watches'
            /\ f.store = Online \/ <<p[2], f.store>> \in prefs'
      BY <2>1 DEF ConcernedPairs
    <3>2. p \in Ids \X Users
      BY <2>1 DEF ConcernedPairs
    <3>3. CASE f \in stock_events
      BY <1>1, <3>1, <3>2, <3>3 DEF ConcernedPairs
    <3>4. CASE f = e
      BY <1>1, <3>1, <3>2, <3>4 DEF Recipients
    <3> QED
      BY <1>1, <3>3, <3>4
  <2>2. ASSUME NEW p \in ConcernedPairs PROVE p \in ConcernedPairs'
    BY <1>1, <2>2 DEF ConcernedPairs
  <2>3. ASSUME NEW u \in Recipients(s, store) PROVE <<nextId, u>> \in ConcernedPairs'
    <3>1. e \in stock_events' /\ e.id = nextId /\ e.sku = s /\ e.store = store
      BY <1>1
    <3>2. u \in Users /\ <<u, s>> \in watches' /\ (store = Online \/ <<u, store>> \in prefs')
      BY <1>1 DEF Recipients
    <3> QED
      BY <1>1, <1>4, <3>1, <3>2 DEF ConcernedPairs
  <2> QED
    BY <2>1, <2>2, <2>3
<1>6. ConcernedPairs \intersect new = {}
  BY <1>3, ConcernedOpen
<1>7. OwedPairs' = OwedPairs \union new
  <2> DEFINE route(u) == [event_id |-> nextId, user |-> u, sku |-> s, store |-> store]
  <2>1. \A u : <<route(u).event_id, route(u).user>> = <<nextId, u>>
    OBVIOUS
  <2>2. owed' = owed \union {route(u) : u \in Recipients(s, store)}
    BY <1>1
  <2> HIDE DEF route
  <2>3. OwedPairs' = OwedPairs \union {<<nextId, u>> : u \in Recipients(s, store)}
    BY <2>1, <2>2 DEF OwedPairs
  <2>4. new = {<<nextId, u>> : u \in Recipients(s, store)}
    OBVIOUS
  <2> QED
    BY <2>3, <2>4
<1>8. ConcernedPairs' \ ConcernedPairs = new
  BY <1>5, <1>6
<1>9. new \subseteq {nextId} \X Users
  BY DEF Recipients
<1>10. HeldPairs' = HeldPairs /\ EventIds(batch)' = EventIds(batch)
  BY <1>1, SameDealing
<1> HIDE DEF new
<1> QED
  BY <1>1, <1>3, <1>5, <1>7, <1>8, <1>9, <1>10 DEF Delivery!Announce, Delivery!dealing

LEMMA UserChanges ==
    ASSUME DeliveryInv, UserStep
    PROVE  Delivery!Change
<1>1. /\ UNCHANGED <<stock_events, processed, nextId, online, batch, unsent, attempted, cut,
                     unsettled>>
      /\ owed' \subseteq owed
  BY DEF UserStep, CreateWatch, DeleteWatch, AddUserStore, RemoveUserStore, botVars, history
<1>2. ASSUME NEW o \in owed \ owed' PROVE <<o.event_id, o.user>> \notin ConcernedPairs'
  <2> SUFFICES ASSUME NEW e \in stock_events, e.id = o.event_id,
                      <<o.user, e.sku>> \in watches',
                      e.store = Online \/ <<o.user, e.store>> \in prefs'
               PROVE  FALSE
    BY <1>1 DEF ConcernedPairs
  <2>1. e.sku = o.sku /\ e.store = o.store
    BY DEF DeliveryInv, FanOutInv, OwedRouted
  <2>2. \/ \E u \in Users, s \in Skus : DeleteWatch(u, s)
        \/ \E u \in Users, m \in Stores : RemoveUserStore(u, m)
    BY <1>2 DEF UserStep, CreateWatch, AddUserStore, history
  <2>3. ASSUME NEW u \in Users, NEW s \in Skus, DeleteWatch(u, s) PROVE FALSE
    <3>1. o.user = u /\ o.sku = s /\ <<u, s>> \notin watches'
      BY <1>2, <2>3 DEF DeleteWatch
    <3> QED
      BY <2>1, <3>1
  <2>4. ASSUME NEW u \in Users, NEW m \in Stores, RemoveUserStore(u, m) PROVE FALSE
    <3>1. o.user = u /\ o.store = m /\ <<u, m>> \notin prefs'
      BY <1>2, <2>4 DEF RemoveUserStore
    <3>2. m # Online
      BY StockAlertsAssumption
    <3> QED
      BY <2>1, <3>1, <3>2
  <2> QED
    BY <2>2, <2>3, <2>4
<1>3. OwedPairs' \subseteq OwedPairs /\ (OwedPairs \ OwedPairs') \intersect ConcernedPairs' = {}
  BY <1>1, <1>2 DEF OwedPairs
<1>4. ASSUME NEW p \in ConcernedPairs' PROVE p[1] \in (1..nextId - 1) \ processed
  <2>1. PICK e \in stock_events : e.id = p[1] /\ e.id \notin processed
    BY <1>1 DEF ConcernedPairs
  <2> QED
    BY <2>1, EventsAnnounced
<1>5. HeldPairs' = HeldPairs /\ EventIds(batch)' = EventIds(batch)
  BY <1>1, SameDealing
<1> QED
  BY <1>1, <1>3, <1>4, <1>5 DEF Delivery!Change, Delivery!dealing

LEMMA PurgeChanges ==
    ASSUME DeliveryInv, DeleteOldStockEvents
    PROVE  Delivery!Change
<1>1. /\ stock_events' \subseteq stock_events
      /\ UNCHANGED <<watches, prefs, processed, nextId, online, batch, unsent, owed, attempted,
                     cut, unsettled>>
  BY DEF DeleteOldStockEvents, botVars, history
<1>2. ConcernedPairs' \subseteq ConcernedPairs
  BY <1>1 DEF ConcernedPairs
<1>3. HeldPairs' = HeldPairs /\ EventIds(batch)' = EventIds(batch)
  BY <1>1, SameDealing
<1> QED
  BY <1>1, <1>2, <1>3, SameOwed DEF Delivery!Change, Delivery!dealing

-----------------------------------------------------------------------------
LEMMA LookLooks ==
    ASSUME DeliveryInv, FetchOnline
    PROVE  Delivery!Look
<1>1. /\ UNCHANGED <<watches, prefs, stock_events, processed, nextId, batch, unsent, owed,
                     attempted, cut, unsettled>>
      /\ bot = "fetch" /\ online' = OnlineRows
  BY DEF FetchOnline, db, history
<1>2. batch = {}
  BY <1>1 DEF DeliveryInv, ResendInv, AwaitedIsBatch
<1>3. EventIds(batch) = {} /\ EventIds(batch)' = EventIds(batch)
  BY <1>1, <1>2 DEF EventIds
<1>4. HeldPairs' \subseteq HeldPairs \union ConcernedPairs
  <2>1. HeldPairs' = Pairs(OnlineRows) \union Pairs(unsent)
    BY <1>1 DEF HeldPairs, Pairs
  <2>2. Pairs(OnlineRows) \subseteq ConcernedPairs
    BY RowConcerned, PairsAre DEF DeliveryInv
  <2> QED
    BY <2>1, <2>2 DEF HeldPairs
<1> QED
  BY <1>1, <1>3, <1>4, SameTables, SameOwed DEF Delivery!Look, Delivery!audience

(* A batch with a row of an uncut event has all the rows it is owed.         *)
LEMMA FetchTakes ==
    ASSUME DeliveryInv, Fetch
    PROVE  Delivery!Take
<1>1. PICK rows \in SUBSET PendingRows :
        /\ batch' = rows /\ unsent' = ToMessage(rows)
        /\ cut' = cut \union (EventIds(rows) \intersect EventIds(PendingRows \ rows))
  BY DEF Fetch
<1>2. /\ UNCHANGED <<watches, prefs, stock_events, processed, nextId, owed, attempted, unsettled>>
      /\ bot = "stores" /\ online' = {}
  BY DEF Fetch, db
<1>3. batch = {} /\ EventIds(batch) = {}
  BY <1>2 DEF DeliveryInv, ResendInv, AwaitedIsBatch, EventIds
<1>4. EventIds(batch)' = EventIds(rows)
  BY <1>1 DEF EventIds
<1>5. HeldPairs' = Pairs(ToMessage(rows))
  BY <1>1, <1>2 DEF HeldPairs, Pairs
<1>6. \A r \in rows : <<r.event_id, r.user>> \in HeldPairs \union ConcernedPairs
  BY RowConcerned DEF DeliveryInv, PendingRows, HeldPairs, Pairs
<1>7. \A i \in EventIds(rows) : \E p \in HeldPairs \union ConcernedPairs : p[1] = i
  <2> SUFFICES ASSUME NEW r \in rows
               PROVE  \E p \in HeldPairs \union ConcernedPairs : p[1] = r.event_id
    BY DEF EventIds
  <2>1. <<r.event_id, r.user>>[1] = r.event_id
    OBVIOUS
  <2> QED
    BY <1>6, <2>1
<1>8. HeldPairs' \subseteq HeldPairs \union ConcernedPairs
  BY <1>5, <1>6 DEF Pairs, ToMessage
<1>9. cut \subseteq cut' /\ cut' \ cut \subseteq EventIds(rows)
  BY <1>1
<1>10. \A p \in HeldPairs' : p[1] \in EventIds(rows)
  BY <1>5 DEF Pairs, ToMessage, EventIds
<1>11. ASSUME NEW o \in owed, o.event_id \in EventIds(rows) \ cut', o.user \in TgUsers
       PROVE  <<o.event_id, o.user>> \in HeldPairs'
  <2>1. FanOutInv'
    BY FetchFanOut DEF DeliveryInv
  <2>2. <<o.event_id, o.user>> \in Pairs(rows)
    BY <1>1, <1>2, <1>11, <2>1 DEF FanOutInv, BatchCovers, EventIds, Pairs
  <2>3. PICK r \in rows : r.event_id = o.event_id /\ r.user = o.user
    BY <2>2 DEF Pairs
  <2> QED
    BY <1>5, <1>11, <2>3 DEF Pairs, ToMessage
<1>12. \A p \in OwedPairs : p[1] \in EventIds(rows) \ cut' /\ p[2] \in TgUsers => p \in HeldPairs'
  BY <1>11 DEF OwedPairs
<1> QED
  BY <1>2, <1>3, <1>4, <1>7, <1>8, <1>9, <1>10, <1>12, SameTables, SameOwed
     DEF Delivery!Take, Delivery!audience

LEMMA MessageAlerts ==
    ASSUME DeliveryInv, SendMessage
    PROVE  Delivery!Alert
<1>1. PICK r \in unsent :
        /\ unsent' = unsent \ SameMessage(r)
        /\ attempted' = attempted \union Pairs(SameMessage(r))
  BY DEF SendMessage
<1>2. /\ UNCHANGED <<watches, prefs, stock_events, processed, nextId, online, batch, owed, cut,
                     unsettled>>
      /\ bot = "send"
  BY DEF SendMessage, db
<1>3. online = {} /\ unsent \subseteq batch /\ SameMessage(r) \subseteq unsent
  BY <1>2 DEF DeliveryInv, FanOutInv, AckPhase, TypeOK, SameMessage
<1>4. HeldPairs = Pairs(unsent) /\ HeldPairs' = Pairs(unsent \ SameMessage(r))
  BY <1>1, <1>2, <1>3 DEF HeldPairs, Pairs
<1>5. HeldPairs' \subseteq HeldPairs /\ HeldPairs \ HeldPairs' = Pairs(SameMessage(r))
  <2>1. \A x, y \in unsent :
          <<x.event_id, x.user>> = <<y.event_id, y.user>> => x = y
    BY <1>3 DEF DeliveryInv, ResendInv, OneRowEach
  <2>2. ASSUME NEW p \in Pairs(SameMessage(r)) PROVE p \notin HeldPairs'
    <3>1. PICK x \in SameMessage(r) : p = <<x.event_id, x.user>>
      BY <2>2, PairsAre
    <3> QED
      BY <1>3, <1>4, <2>1, <3>1 DEF Pairs
  <2>3. Pairs(unsent) = Pairs(unsent \ SameMessage(r)) \union Pairs(SameMessage(r))
    BY <1>3 DEF Pairs
  <2> QED
    BY <1>4, <2>2, <2>3
<1>6. r \in SameMessage(r)
  BY DEF SameMessage
<1>7. HeldPairs' # HeldPairs
  BY <1>5, <1>6 DEF Pairs
<1>8. ASSUME NEW p \in Pairs(SameMessage(r))
      PROVE  /\ p[2] = r.user /\ p[1] \in EventIds(batch)
             /\ p \notin attempted \/ p[1] \in unsettled
  <2>1. PICK x \in SameMessage(r) : p = <<x.event_id, x.user>>
    BY <1>8, PairsAre
  <2>2. x \in unsent /\ x \in batch /\ x.user = r.user
    BY <1>3 DEF SameMessage
  <2>3. p[1] = x.event_id /\ p[2] = x.user
    BY <2>1
  <2> QED
    BY <2>1, <2>2, <2>3 DEF DeliveryInv, ResendInv, ResendsExplained, EventIds
<1>9. r.user \in TgUsers
  BY DEF DeliveryInv, UnsentReachable
<1>10. EventIds(batch)' = EventIds(batch)
  BY <1>2 DEF EventIds
<1> QED
  BY <1>1, <1>2, <1>5, <1>7, <1>8, <1>9, <1>10, SameTables, SameOwed
     DEF Delivery!Alert, Delivery!audience

LEMMA BotLetsGo ==
    ASSUME DeliveryInv, FetchFails \/ AckAnswered \/ AckGivenUp \/ BotCrash
    PROVE  Delivery!LetGo
<1>1. /\ UNCHANGED <<watches, prefs, stock_events, processed, nextId, owed, attempted, cut>>
      /\ online' = {}
  BY DEF FetchFails, AckAnswered, AckGivenUp, StopWaiting, BotCrash, db, history, DeliveryInv,
         FanOutInv, AckPhase
<1>2. batch' = {} /\ unsent' = {}
  BY DEF FetchFails, AckAnswered, AckGivenUp, StopWaiting, BotCrash, DeliveryInv, TypeOK,
         ResendInv, AwaitedIsBatch
<1>3. unsettled' = unsettled \/ unsettled' = unsettled \union EventIds(batch)
  BY DEF FetchFails, AckAnswered, AckGivenUp, StopWaiting, BotCrash, history
<1>4. EventIds(batch)' = {} /\ HeldPairs' = {}
  BY <1>1, <1>2 DEF EventIds, HeldPairs, Pairs
<1> QED
  BY <1>1, <1>3, <1>4, SameTables, SameOwed DEF Delivery!LetGo, Delivery!audience

LEMMA FailureLetsGo ==
    ASSUME DeliveryInv, NEW a \in acks, AckFails(a), a.awaited
    PROVE  Delivery!LetGo
<1>1. /\ UNCHANGED <<watches, prefs, stock_events, processed, nextId, online, owed, attempted,
                     cut>>
      /\ batch' = {} /\ unsent' = {} /\ unsettled' = unsettled \union a.ids
  BY DEF AckFails, db
<1>2. online = {} /\ a.ids = EventIds(batch)
  BY DEF DeliveryInv, FanOutInv, AckPhase, ResendInv, AwaitedIsBatch
<1>3. EventIds(batch)' = {} /\ HeldPairs' = {}
  BY <1>1, <1>2 DEF EventIds, HeldPairs, Pairs
<1> QED
  BY <1>1, <1>2, <1>3, SameTables, SameOwed DEF Delivery!LetGo, Delivery!audience

(* What is marked was in hand when the bot asked, or let go since; the watches *)
(* that go with a delisted product take with them what was owed for it.        *)
LEMMA CommitCloses ==
    ASSUME DeliveryInv, NEW a \in acks, AckCommit(a)
    PROVE  Delivery!Close
<1> DEFINE gone == {e.sku : e \in {x \in stock_events : x.id \in a.ids}} \intersect delisted
<1>1. /\ watches' = {w \in watches : w[2] \notin gone}
      /\ owed' = {o \in owed : o.sku \notin gone}
      /\ processed' = processed \union MarkProcessed(a.ids)
      /\ UNCHANGED <<prefs, stock_events, nextId, online, batch, unsent, attempted, cut,
                     unsettled>>
  BY DEF AckCommit, botVars
<1>2. MarkProcessed(a.ids) \subseteq a.ids
  BY DEF MarkProcessed
<1>3. a.ids \subseteq EventIds(batch) \union unsettled
  BY DEF DeliveryInv, ResendInv, AwaitedIsBatch, LateLetGo, TypeOK, Ack
<1>4. ConcernedPairs' \subseteq {p \in ConcernedPairs : p[1] \notin processed'}
  BY <1>1 DEF ConcernedPairs
<1>5. ASSUME NEW o \in owed \ owed' PROVE <<o.event_id, o.user>> \notin ConcernedPairs'
  <2> SUFFICES ASSUME NEW e \in stock_events, e.id = o.event_id, <<o.user, e.sku>> \in watches'
               PROVE  FALSE
    BY <1>1 DEF ConcernedPairs
  <2>1. e.sku = o.sku
    BY DEF DeliveryInv, FanOutInv, OwedRouted
  <2>2. o.sku \in gone
    BY <1>1, <1>5
  <2> HIDE DEF gone
  <2> QED
    BY <1>1, <2>1, <2>2
<1>6. OwedPairs' \subseteq OwedPairs /\ (OwedPairs \ OwedPairs') \intersect ConcernedPairs' = {}
  <2>1. owed' \subseteq owed
    BY <1>1
  <2> QED
    BY <1>5, <2>1 DEF OwedPairs
<1>7. \A p \in OwedPairs : p[1] \in processed' \ processed /\ p[2] \in TgUsers
                           => p \in attempted \/ p[1] \in cut
  <2> SUFFICES ASSUME NEW o \in owed, o.event_id \in a.ids, o.user \in TgUsers,
                      o.event_id \notin cut
               PROVE  <<o.event_id, o.user>> \in attempted
    BY <1>1, <1>2 DEF OwedPairs
  <2> QED
    BY DEF DeliveryInv, FanOutInv, AckCovers
<1>8. HeldPairs' = HeldPairs /\ EventIds(batch)' = EventIds(batch)
  BY <1>1, SameDealing
<1> HIDE DEF gone
<1> QED
  BY <1>1, <1>2, <1>3, <1>4, <1>6, <1>7, <1>8 DEF Delivery!Close, Delivery!dealing

LEMMA QuietStutters ==
    ASSUME UNCHANGED <<watches, prefs, stock_events, processed, nextId, online, batch, unsent,
                       history>>
    PROVE  UNCHANGED Delivery!deliveryVars
<1>1. UNCHANGED <<owed, attempted, cut, unsettled>>
  BY DEF history
<1> QED
  BY <1>1, SameTables, SameOwed, SameDealing
     DEF Delivery!deliveryVars, Delivery!audience, Delivery!dealing

LEMMA InitDelivery == Init => Delivery!DeliveryInit
<1> SUFFICES ASSUME Init PROVE Delivery!DeliveryInit
  OBVIOUS
<1>1. 1..nextId - 1 = {}
  BY DEF Init
<1>2. ConcernedPairs = {} /\ OwedPairs = {} /\ EventIds(batch) = {} /\ HeldPairs = {}
  BY DEF Init, ConcernedPairs, OwedPairs, EventIds, HeldPairs, Pairs
<1> QED
  BY <1>1, <1>2 DEF Init, Delivery!DeliveryInit

LEMMA NextDelivery ==
    DeliveryInv /\ [Next]_vars => [Delivery!DeliveryNext]_(Delivery!deliveryVars)
<1> SUFFICES ASSUME DeliveryInv, [Next]_vars
             PROVE  Delivery!DeliveryNext \/ UNCHANGED Delivery!deliveryVars
  OBVIOUS
<1> USE DEF Delivery!DeliveryNext
<1>1. CASE UserStep
  BY <1>1, UserChanges
<1>2. CASE ScraperStep
  <2>1. ASSUME NEW skus \in SUBSET Skus, MarkDelisted(skus) \/ ClearDelisted(skus)
        PROVE  UNCHANGED Delivery!deliveryVars
    BY <2>1, QuietStutters DEF MarkDelisted, ClearDelisted, botVars
  <2> QED
    BY <1>2, <2>1, EmitAnnounces, PurgeChanges DEF ScraperStep
<1>3. CASE Age \/ PollStart \/ SendAck \/ UNCHANGED vars
  BY <1>3, QuietStutters DEF Age, PollStart, SendAck, vars, db, botVars
<1>4. CASE FetchNothing
  <2>1. online' = online
    BY <1>4 DEF FetchNothing, PendingRows
  <2> QED
    BY <1>4, <2>1, QuietStutters DEF FetchNothing, db
<1>5. ASSUME NEW a \in acks, AckFails(a), ~a.awaited
      PROVE  UNCHANGED Delivery!deliveryVars
  BY <1>5, QuietStutters DEF AckFails, db, history
<1>6. \A a \in acks : a.awaited \in BOOLEAN
  BY DEF DeliveryInv, TypeOK, Ack
<1> QED
  BY <1>1, <1>2, <1>3, <1>4, <1>5, <1>6, LookLooks, FetchTakes, MessageAlerts, BotLetsGo,
     FailureLetsGo, CommitCloses
     DEF Next, BotStep, BackendStep

(* The outbox keeps its promise: for any users, products, stores and bounds, *)
(* each of its steps is one of AlertDelivery, or changes nothing of it.      *)
THEOREM OutboxDelivers == Spec => DeliversAlerts
<1>1. Init => DeliveryInv
  BY InitTypeOK, InitFanOut, InitResend DEF DeliveryInv, Init, LateLetGo, UnsentReachable
<1>2. DeliveryInv /\ [Next]_vars => DeliveryInv'
  BY NextTypeOK, NextFanOut, NextResend, NextLateLetGo, NextUnsentReachable DEF DeliveryInv
<1> QED
  BY <1>1, <1>2, InitDelivery, NextDelivery, PTL DEF Spec, DeliversAlerts, Delivery!DeliverySpec
=============================================================================
