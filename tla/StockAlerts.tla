---------------------------- MODULE StockAlerts ----------------------------
(***************************************************************************)
(* The stock-alert outbox: the tables watches, user_store_preferences and  *)
(* stock_events, the backend's two notification endpoints (fetch pending,  *)
(* acknowledge), and the Telegram bot's polling job that drains them.      *)
(*                                                                         *)
(* The scraper appears through the four database functions it calls        *)
(* (mark_delisted, clear_delisted, emit_stock_event,                       *)
(* delete_old_stock_events), each with whatever argument; who calls them   *)
(* and when is the business of the modules that model its commands.        *)
(***************************************************************************)
EXTENDS Naturals, FiniteSets

CONSTANTS
    Users,       \* opaque user ids: "tg:<chat>" or "user:<id>"
    TgUsers,     \* those with the "tg:" prefix, which the bot can message
    Skus,        \* the products of the catalogue
    Stores,      \* the SAQ stores a user may prefer
    Online,      \* stands for saq_store_id = NULL
    Directions,  \* what the scraper records: TRUE a restock, FALSE the opposite
    MaxBatch,    \* MAX_ACK_BATCH_SIZE, 100 in the code
    MaxEvents,   \* bound: events ever inserted
    MaxLate,     \* bound: ack requests the bot no longer waits for
    MaxCrashes   \* bound: restarts of the bot in the middle of a poll

ASSUME StockAlertsAssumption ==
    /\ TgUsers \subseteq Users
    /\ Online \notin Stores
    /\ Directions \subseteq BOOLEAN
    /\ MaxBatch \in Nat \ {0}
    /\ {MaxEvents, MaxLate, MaxCrashes} \subseteq Nat

VARIABLES
    \* the database
    watches,        \* <<user, sku>> rows, unique by uq_watches_user_sku
    prefs,          \* <<user, store>> rows of user_store_preferences
    delisted,       \* skus whose delisted_at is not NULL
    stock_events,   \* rows of the table, id in order of detected_at
    processed,      \* ids whose processed_at is not NULL
    nextId,
    aged,           \* ids up to this one are older than the retention
    \* the bot's polling job
    bot,            \* where the job is
    online,         \* the rows the first query of a GET under way has read
    batch,          \* the rows its last fetch returned
    unsent,         \* those of them that it has still to message
    crashes,
    \* PATCH /watches/notifications requests that are not committed yet
    acks,
    \* history, read by no action
    owed,           \* routes an event had when inserted and kept since
    attempted,      \* <<event, user>> pairs passed to send_message
    cut,            \* events of which a batch held only some rows
    unsettled       \* events whose batch or ack the bot let go uncommitted

db == <<watches, prefs, delisted, stock_events, processed, nextId, aged>>
botVars == <<bot, online, batch, unsent, crashes>>
history == <<owed, attempted, cut, unsettled>>
vars == <<db, botVars, acks, history>>

Ids == 1..MaxEvents
Event == [id: Ids, sku: Skus, store: Stores \union {Online}, available: BOOLEAN]
Row == [event_id: Ids, user: Users, sku: Skus, available: BOOLEAN,
        delisted: BOOLEAN]
Route == [event_id: Ids, user: Users, sku: Skus, store: Stores \union {Online}]
Ack == [ids: SUBSET Ids, awaited: BOOLEAN]

TypeOK ==
    /\ watches \subseteq Users \X Skus
    /\ prefs \subseteq Users \X Stores
    /\ delisted \subseteq Skus
    /\ stock_events \subseteq Event
    /\ processed \subseteq Ids
    /\ nextId \in 1..MaxEvents + 1
    /\ aged \in 0..MaxEvents
    /\ bot \in {"idle", "fetch", "stores", "send", "ack"}
    /\ online \subseteq Row
    /\ batch \subseteq Row
    /\ unsent \subseteq batch
    /\ crashes \in 0..MaxCrashes
    /\ acks \subseteq Ack
    /\ owed \subseteq Route
    /\ attempted \subseteq Ids \X Users
    /\ cut \subseteq Ids
    /\ unsettled \subseteq Ids

Init ==
    /\ watches = {} /\ prefs = {} /\ delisted = {}
    /\ stock_events = {} /\ processed = {} /\ nextId = 1 /\ aged = 0
    /\ bot = "idle" /\ online = {} /\ batch = {} /\ unsent = {} /\ crashes = 0
    /\ acks = {}
    /\ owed = {} /\ attempted = {} /\ cut = {} /\ unsettled = {}

-----------------------------------------------------------------------------
(* Which users an event concerns: the two joins of the pending query. *)

Recipients(sku, store) ==
    {u \in Users : <<u, sku>> \in watches /\ (store = Online \/ <<u, store>> \in prefs)}

NotificationRow(e, u) ==
    [event_id |-> e.id, user |-> u, sku |-> e.sku, available |-> e.available,
     delisted |-> e.sku \in delisted]

RowsOf(events) ==
    UNION {{NotificationRow(e, u) : u \in Recipients(e.sku, e.store)} : e \in events}

(* Mutants: the store query is forgotten; the processed filter is dropped. *)
PendingOnlineOnly ==
    {e \in stock_events : e.id \notin processed /\ e.store = Online}
PendingOrProcessed == stock_events

PendingEvents == {e \in stock_events : e.id \notin processed}

OnlineRows == RowsOf({e \in PendingEvents : e.store = Online})
StoreRows == RowsOf({e \in PendingEvents : e.store # Online})

EventIds(rows) == {r.event_id : r \in rows}
Pairs(rows) == {<<r.event_id, r.user>> : r \in rows}

-----------------------------------------------------------------------------
(* Users, through the web app or the bot's commands. *)

CreateWatch(u, s) ==
    /\ <<u, s>> \notin watches
    /\ watches' = watches \union {<<u, s>>}
    /\ UNCHANGED <<prefs, delisted, stock_events, processed, nextId, aged,
                   botVars, acks, history>>

DeleteWatch(u, s) ==
    /\ <<u, s>> \in watches
    /\ watches' = watches \ {<<u, s>>}
    /\ owed' = {o \in owed : ~(o.user = u /\ o.sku = s)}
    /\ UNCHANGED <<prefs, delisted, stock_events, processed, nextId, aged,
                   botVars, acks, attempted, cut, unsettled>>

AddUserStore(u, m) ==
    /\ <<u, m>> \notin prefs
    /\ prefs' = prefs \union {<<u, m>>}
    /\ UNCHANGED <<watches, delisted, stock_events, processed, nextId, aged,
                   botVars, acks, history>>

RemoveUserStore(u, m) ==
    /\ <<u, m>> \in prefs
    /\ prefs' = prefs \ {<<u, m>>}
    /\ owed' = {o \in owed : ~(o.user = u /\ o.store = m)}
    /\ UNCHANGED <<watches, delisted, stock_events, processed, nextId, aged,
                   botVars, acks, attempted, cut, unsettled>>

-----------------------------------------------------------------------------
(* The scraper's database functions, each one transaction. *)

MarkDelisted(skus) ==
    /\ delisted' = delisted \union skus
    /\ UNCHANGED <<watches, prefs, stock_events, processed, nextId, aged,
                   botVars, acks, history>>

ClearDelisted(skus) ==
    /\ delisted' = delisted \ skus
    /\ UNCHANGED <<watches, prefs, stock_events, processed, nextId, aged,
                   botVars, acks, history>>

EmitStockEvent(s, store, available) ==
    /\ nextId \in Ids
    /\ stock_events' = stock_events \union
         {[id |-> nextId, sku |-> s, store |-> store, available |-> available]}
    /\ nextId' = nextId + 1
    /\ owed' = owed \union
         {[event_id |-> nextId, user |-> u, sku |-> s, store |-> store] :
             u \in Recipients(s, store)}
    /\ UNCHANGED <<watches, prefs, delisted, processed, aged,
                   botVars, acks, attempted, cut, unsettled>>

(* Time: the oldest event not yet past the retention gets past it. *)
Age ==
    /\ aged + 1 < nextId
    /\ aged' = aged + 1
    /\ UNCHANGED <<watches, prefs, delisted, stock_events, processed, nextId,
                   botVars, acks, history>>

DeleteOldStockEvents ==
    /\ stock_events' = {e \in stock_events : e.id > aged}
    /\ UNCHANGED <<watches, prefs, delisted, processed, nextId, aged,
                   botVars, acks, history>>

-----------------------------------------------------------------------------
(* The bot's polling job and the endpoints it calls. *)

(* The JobQueue runs poll_notifications, never twice at a time. *)
PollStart ==
    /\ bot = "idle"
    /\ bot' = "fetch"
    /\ UNCHANGED <<db, online, batch, unsent, crashes, acks, history>>

(* find_pending_notifications runs two queries, each on the committed state  *)
(* of its own moment (READ COMMITTED): online events, then store events.     *)
FetchOnline ==
    /\ bot = "fetch"
    /\ bot' = "stores"
    /\ online' = OnlineRows
    /\ UNCHANGED <<db, batch, unsent, crashes, acks, history>>

PendingRows == online \union StoreRows

(* The GET failed, or nothing is pending: the loop ends. *)
FetchFails ==
    /\ bot \in {"fetch", "stores"}
    /\ bot' = "idle" /\ online' = {}
    /\ UNCHANGED <<db, batch, unsent, crashes, acks, history>>

FetchNothing ==
    /\ bot = "stores"
    /\ PendingRows = {}
    /\ bot' = "idle" /\ online' = {}
    /\ UNCHANGED <<db, batch, unsent, crashes, acks, history>>

(* The oldest MaxBatch rows of both, which is also what is left when each    *)
(* query has been cut to MaxBatch first; the database breaks ties.           *)
OldestFirst(rows) ==
    /\ rows \subseteq PendingRows
    /\ Cardinality(rows) =
         IF Cardinality(PendingRows) > MaxBatch THEN MaxBatch
         ELSE Cardinality(PendingRows)
    /\ \A r \in rows, q \in PendingRows \ rows : r.event_id <= q.event_id

(* Mutant: rows beyond the limit are messaged too. *)
ToMessageAll(rows) == {r \in PendingRows : r.user \in TgUsers}

(* Rows whose user id is no chat are skipped, and acknowledged all the same. *)
ToMessage(rows) == {r \in rows : r.user \in TgUsers}

Fetch ==
    /\ bot = "stores"
    /\ PendingRows # {}
    /\ \E rows \in SUBSET PendingRows :
         /\ OldestFirst(rows)
         /\ batch' = rows
         /\ unsent' = ToMessage(rows)
         /\ cut' = cut \union (EventIds(rows) \intersect
                                 EventIds(PendingRows \ rows))
    /\ bot' = "send" /\ online' = {}
    /\ UNCHANGED <<db, crashes, acks, owed, attempted, unsettled>>

(* One message per (chat, sku, direction, delisted), in the order of the    *)
(* groups' first rows. A TelegramError is logged and changes nothing here.  *)
SameMessage(r) ==
    {q \in unsent : /\ q.user = r.user /\ q.sku = r.sku
                    /\ q.available = r.available /\ q.delisted = r.delisted}

SendMessage ==
    /\ bot = "send"
    /\ \E r \in unsent :
         /\ \A q \in unsent : r.event_id <= q.event_id
         /\ unsent' = unsent \ SameMessage(r)
         /\ attempted' = attempted \union Pairs(SameMessage(r))
    /\ UNCHANGED <<db, bot, online, batch, crashes, acks, owed, cut, unsettled>>

(* Mutant: the batch is acknowledged before its messages are out. *)
AckFirst == TRUE

MessagesDone == unsent = {}

SendAck ==
    /\ bot = "send"
    /\ MessagesDone
    /\ acks' = acks \union {[ids |-> EventIds(batch), awaited |-> TRUE]}
    /\ bot' = "ack"
    /\ UNCHANGED <<db, online, batch, unsent, crashes, history>>

Awaited == {a \in acks : a.awaited}
Late == {a \in acks : ~a.awaited}
LetGo == [ids |-> EventIds(batch), awaited |-> FALSE]

(* The bot stops waiting for its ack, which may still be executed later. *)
StopWaiting ==
    /\ batch' = {} /\ unsent' = {}
    /\ IF Awaited = {}
       THEN UNCHANGED <<acks, unsettled>>
       ELSE /\ Cardinality(Late) < MaxLate
            /\ acks' = Late \union {LetGo}
            /\ unsettled' = unsettled \union EventIds(batch)

(* 204: the job fetches again. The session is committed when the request's  *)
(* dependencies are torn down, which may be after the answer has been sent. *)
AckAnswered ==
    /\ bot = "ack"
    /\ StopWaiting
    /\ bot' = "fetch"
    /\ UNCHANGED <<db, online, crashes, owed, attempted, cut>>

(* Timeout or lost answer: the job ends, the next poll fetches again. *)
AckGivenUp ==
    /\ bot = "ack"
    /\ StopWaiting
    /\ bot' = "idle"
    /\ UNCHANGED <<db, online, crashes, owed, attempted, cut>>

(* Mutants: the update forgets its list of ids; the update is forgotten. *)
MarksAll(ids) == {e.id : e \in stock_events}
MarksNothing(ids) == {}

MarkProcessed(ids) == {e.id : e \in {x \in stock_events : x.id \in ids}}

(* ack_notifications in one transaction: the watches of the delisted skus  *)
(* among the acked events go, whoever owns them; then the events are marked. *)
AckCommit(a) ==
    LET gone == {e.sku : e \in {x \in stock_events : x.id \in a.ids}}
                  \intersect delisted
    IN  /\ watches' = {w \in watches : w[2] \notin gone}
        /\ owed' = {o \in owed : o.sku \notin gone}
        /\ processed' = processed \union MarkProcessed(a.ids)
        /\ acks' = acks \ {a}
        /\ UNCHANGED <<prefs, delisted, stock_events, nextId, aged, botVars,
                       attempted, cut, unsettled>>

(* The request never arrives or is rolled back; a bot that waits sees an error. *)
AckFails(a) ==
    /\ acks' = acks \ {a}
    /\ IF a.awaited
       THEN /\ bot' = "idle" /\ batch' = {} /\ unsent' = {}
            /\ unsettled' = unsettled \union a.ids
       ELSE UNCHANGED <<bot, batch, unsent, unsettled>>
    /\ UNCHANGED <<db, online, crashes, owed, attempted, cut>>

(* The bot restarts: nothing of the poll survives. *)
BotCrash ==
    /\ bot # "idle"
    /\ crashes < MaxCrashes
    /\ crashes' = crashes + 1
    /\ bot' = "idle" /\ online' = {} /\ batch' = {} /\ unsent' = {}
    /\ IF bot = "ack" /\ Awaited = {}
       THEN UNCHANGED unsettled
       ELSE unsettled' = unsettled \union EventIds(batch)
    /\ acks' = IF Awaited = {} THEN acks ELSE Late \union {LetGo}
    /\ UNCHANGED <<db, owed, attempted, cut>>

-----------------------------------------------------------------------------
UserStep ==
    \/ \E u \in Users, s \in Skus : CreateWatch(u, s) \/ DeleteWatch(u, s)
    \/ \E u \in Users, m \in Stores : AddUserStore(u, m) \/ RemoveUserStore(u, m)

ScraperStep ==
    \/ \E skus \in SUBSET Skus : MarkDelisted(skus) \/ ClearDelisted(skus)
    \/ \E s \in Skus, store \in Stores \union {Online}, available \in Directions :
         EmitStockEvent(s, store, available)
    \/ DeleteOldStockEvents

BotStep ==
    \/ PollStart \/ FetchOnline \/ FetchFails \/ FetchNothing \/ Fetch
    \/ SendMessage \/ SendAck \/ AckAnswered \/ AckGivenUp \/ BotCrash

BackendStep == \E a \in acks : AckCommit(a) \/ AckFails(a)

Next == UserStep \/ ScraperStep \/ Age \/ BotStep \/ BackendStep

Spec == Init /\ [][Next]_vars

(***************************************************************************)
(* Fairness. The JobQueue calls the job for ever and the job never stops   *)
(* in the middle by itself (weak fairness of its steps). The backend is up *)
(* again and again: a fetch that keeps being tried succeeds some day, and  *)
(* an ack that keeps being sent is committed and answered some day (strong *)
(* fairness). Nothing is assumed of users, of the scraper or of time.      *)
(***************************************************************************)
Fairness ==
    /\ WF_vars(PollStart) /\ WF_vars(SendMessage) /\ WF_vars(SendAck)
    /\ SF_vars(FetchOnline) /\ SF_vars(Fetch \/ FetchNothing)
    /\ WF_vars(AckAnswered \/ AckGivenUp)
    /\ SF_vars(\E a \in acks : AckCommit(a))

FairSpec == Spec /\ Fairness

-----------------------------------------------------------------------------
(* One event fans out to all its watchers: once an event is marked as       *)
(* processed, every Telegram user it was routed to when it was inserted,    *)
(* and still is, has been messaged about it (or at least send_message was   *)
(* called: a blocked bot is not retried). Events cut by the batch limit are *)
(* left out: the limit counts rows, the ack marks events.                   *)
FanOutComplete ==
    \A o \in owed :
        /\ o.user \in TgUsers
        /\ o.event_id \in processed
        /\ o.event_id \notin cut
        => <<o.event_id, o.user>> \in attempted

(* A user is about to be messaged again about an event only if the bot let  *)
(* that event go uncommitted before: it crashed, timed out, or was answered *)
(* before the commit. Without that, each notification is sent exactly once. *)
ResendsExplained ==
    \A r \in unsent :
        <<r.event_id, r.user>> \in attempted => r.event_id \in unsettled

(* Every notification owed to a Telegram user is sent some day, unless the  *)
(* user leaves the route, the event outlives the retention, or the batch    *)
(* limit cuts it.                                                           *)
OwedTo(i, u) == \E o \in owed : o.event_id = i /\ o.user = u

EventuallyMessaged ==
    \A i \in Ids, u \in TgUsers :
        OwedTo(i, u) ~> \/ <<i, u>> \in attempted
                        \/ ~OwedTo(i, u)
                        \/ i <= aged
                        \/ i \in cut

(* A poll drains: "while await _process_batch" comes to an end, whatever    *)
(* users and scrapers do meanwhile.                                         *)
PollEnds == (bot # "idle") ~> (bot = "idle")

-----------------------------------------------------------------------------
(* The promise behind all that, in the terms of AlertDelivery. *)

(* Whom each event that is neither processed nor purged concerns now: those  *)
(* who watch the product and, if it is of a store, follow the store.         *)
ConcernedPairs ==
    {p \in Ids \X Users : \E e \in stock_events :
        /\ e.id = p[1] /\ e.id \notin processed
        /\ <<p[2], e.sku>> \in watches
        /\ e.store = Online \/ <<p[2], e.store>> \in prefs}

OwedPairs == {<<o.event_id, o.user>> : o \in owed}
HeldPairs == Pairs(online) \union Pairs(unsent)

Delivery == INSTANCE AlertDelivery WITH
    Events <- Ids, Reachable <- TgUsers,
    announced <- 1..nextId - 1,
    concerned <- ConcernedPairs,
    owed <- OwedPairs,
    hand <- EventIds(batch),
    held <- HeldPairs,
    alerted <- attempted,
    excused <- cut,
    doubtful <- unsettled,
    closed <- processed

(* The outbox implements AlertDelivery: only those are alerted who were     *)
(* found to watch the product and follow the store, one user per message    *)
(* and nobody twice of an event that is not in doubt; a batch has all those *)
(* an event owes an alert, or the event is cut; and only an event that was  *)
(* in a batch is marked as processed, once all those have been messaged.    *)
DeliversAlerts == Delivery!DeliverySpec
=============================================================================
