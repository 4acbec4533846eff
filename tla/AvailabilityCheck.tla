------------------------- MODULE AvailabilityCheck -------------------------
(***************************************************************************)
(* The daily availability command: it reads the whole market from Adobe    *)
(* Live Search, writes the availability columns, clears those of products  *)
(* Adobe no longer returns, then compares what the table says of watched   *)
(* products with the answer and records the differences as stock events.   *)
(* It shares the database (StockAlerts) with users and with a scrape       *)
(* command that may run at the same time. The bot is left out: all it does *)
(* to the tables read here is to remove watches, as users do.              *)
(***************************************************************************)
EXTENDS StockAlerts

(* Both directions are recorded here. *)
ASSUME AvailabilityAssumption == Directions = BOOLEAN

VARIABLES
    catalog,   \* skus with a row in products
    avail,     \* their two availability columns
    check,     \* the run of the command
    \* history, read by no action
    before,    \* the columns when the run under way was about to write them
    touched    \* rows another writer wrote since that run read the skus

checkVars == <<vars, catalog, avail, check, before, touched>>

(* online_availability, NULL being "unknown"; store_availability, NULL being {}. *)
Availability == [online: {"unknown", "in", "out"}, stores: SUBSET Stores]
Found == [online: {"in", "out"}, stores: SUBSET Stores]
Nothing == [online |-> "unknown", stores |-> {}]

(* The products a query returns, with what it says of each. *)
Tables(values) == UNION {[skus -> values] : skus \in SUBSET Skus}

NoTable == [s \in {} |-> Nothing]

Transition == [sku: Skus, store: Stores \union {Online}, available: BOOLEAN]

CheckPhase == {"idle", "known", "update", "reset", "previous", "preferred",
               "emit", "purge"}

Idle == [pc |-> "idle", data |-> NoTable, known |-> {}, prev |-> NoTable, todo |-> {}]

AvailabilityTypeOK ==
    /\ TypeOK
    /\ catalog \subseteq Skus
    /\ avail \in [Skus -> Availability]
    /\ \A s \in Skus \ catalog : avail[s] = Nothing
    /\ check \in [pc: CheckPhase,
                  data: Tables(Found),         \* _AvailabilityData
                  known: SUBSET Skus,          \* get_all_skus
                  prev: Tables(Availability),  \* the "previous" state
                  todo: SUBSET Transition]     \* transitions still to record
    /\ before \in Tables(Availability)
    /\ touched \subseteq Skus

AvailabilityInit ==
    /\ Init
    /\ catalog = {}
    /\ avail = [s \in Skus |-> Nothing]
    /\ check = Idle
    /\ before = NoTable
    /\ touched = {}

-----------------------------------------------------------------------------
(* availability_check. Each step is at most one transaction. *)

(* Adobe has answered both queries; if it does not, the run ends before it   *)
(* has done anything. *)
CheckStart(data) ==
    /\ check.pc = "idle"
    /\ check' = [Idle EXCEPT !.pc = "known", !.data = data]
    /\ UNCHANGED <<vars, catalog, avail, before, touched>>

ReadKnown ==
    /\ check.pc = "known"
    /\ check' = [check EXCEPT !.pc = "update", !.known = catalog]
    /\ touched' = {}
    /\ UNCHANGED <<vars, catalog, avail, before>>

(* Mutants: rows are inserted as well; products out of stock are left out. *)
WrittenAll == DOMAIN check.data
WrittenInStock ==
    {s \in DOMAIN check.data \intersect check.known : check.data[s].online = "in"}

Written == DOMAIN check.data \intersect check.known

(* bulk_update_availability: the answer, for the skus that were known. *)
UpdateAvailability ==
    /\ check.pc = "update"
    /\ avail' = [s \in Skus |->
                   IF s \in Written THEN check.data[s] ELSE avail[s]]
    /\ before' = avail
    /\ check' = [check EXCEPT !.pc = "reset"]
    /\ UNCHANGED <<vars, catalog, touched>>

(* Mutant: the known skus are excluded instead of the collected ones. *)
StaleUnknown == catalog \ (delisted \union check.known)

Stale == catalog \ (delisted \union DOMAIN check.data)

(* reset_stale_availability: an empty answer clears nothing. *)
ResetStale ==
    /\ check.pc = "reset"
    /\ avail' = [s \in Skus |->
                   IF /\ DOMAIN check.data # {}
                      /\ s \in Stale
                      /\ avail[s].online = "in" \/ avail[s].stores # {}
                   THEN [online |-> "out", stores |-> {}] ELSE avail[s]]
    /\ check' = [check EXCEPT !.pc = "previous"]
    /\ UNCHANGED <<vars, catalog, before, touched>>

(* get_watched_product_availability; without watched products the diff is skipped. *)
ReadPrevious ==
    LET watched == {s \in catalog \ delisted : \E u \in Users : <<u, s>> \in watches}
    IN  /\ check.pc = "previous"
        /\ check' = [check EXCEPT !.pc = IF watched = {} THEN "purge" ELSE "preferred",
                                  !.prev = [s \in watched |-> avail[s]]]
        /\ UNCHANGED <<vars, catalog, avail, before, touched>>

(* get_preferred_store_ids *)
PreferredStores ==
    {p \in (Skus \ delisted) \X Stores :
       \E u \in Users : <<u, p[1]>> \in watches /\ <<u, p[2]>> \in prefs}

OnlineTransitions(prev, data) ==
    {[sku |-> s, store |-> Online, available |-> data[s].online = "in"] :
       s \in {x \in DOMAIN prev \intersect DOMAIN data :
                prev[x].online \notin {"unknown", data[x].online}}}
    \union
    {[sku |-> s, store |-> Online, available |-> FALSE] :
       s \in {x \in DOMAIN prev \ DOMAIN data : prev[x].online = "in"}}

StoreTransitions(prev, data, preferred) ==
    {[sku |-> p[1], store |-> p[2], available |-> p[2] \in data[p[1]].stores] :
       p \in {q \in preferred : /\ q[1] \in DOMAIN prev \intersect DOMAIN data
                                /\ (q[2] \in prev[q[1]].stores)
                                     # (q[2] \in data[q[1]].stores)}}

Transitions(prev, data, preferred) ==
    OnlineTransitions(prev, data) \union StoreTransitions(prev, data, preferred)

ReadPreferred ==
    /\ check.pc = "preferred"
    /\ check' = [check EXCEPT
                   !.pc = "emit",
                   !.todo = Transitions(check.prev, check.data, PreferredStores)]
    /\ UNCHANGED <<vars, catalog, avail, before, touched>>

Emit(t) ==
    /\ check.pc = "emit"
    /\ t \in check.todo
    /\ EmitStockEvent(t.sku, t.store, t.available)
    /\ check' = [check EXCEPT !.todo = @ \ {t}]
    /\ UNCHANGED <<catalog, avail, before, touched>>

(* The insert fails: counted, and the next one is tried. *)
EmitFails(t) ==
    /\ check.pc = "emit"
    /\ t \in check.todo
    /\ check' = [check EXCEPT !.todo = @ \ {t}]
    /\ UNCHANGED <<vars, catalog, avail, before, touched>>

Finish == check' = Idle /\ before' = NoTable /\ touched' = {}

CheckPurge ==
    /\ \/ check.pc = "purge"
       \/ check.pc = "emit" /\ check.todo = {}
    /\ DeleteOldStockEvents
    /\ Finish
    /\ UNCHANGED <<catalog, avail>>

(* A database error outside an insert, or the process is killed. *)
CheckDies ==
    /\ check.pc # "idle"
    /\ Finish
    /\ UNCHANGED <<vars, catalog, avail>>

-----------------------------------------------------------------------------
Touch(s) == touched' = IF check.pc = "idle" THEN {} ELSE touched \union {s}

(* The scrape command: a page is inserted, or rewritten with the availability *)
(* it carries; products leave the sitemap and come back. *)
ScrapePage(s, online_availability) ==
    /\ catalog' = catalog \union {s}
    /\ avail' = [avail EXCEPT ![s].online = online_availability]
    /\ Touch(s)
    /\ UNCHANGED <<vars, check, before>>

Delist(s) ==
    /\ s \in catalog \ delisted
    /\ MarkDelisted({s})
    /\ UNCHANGED <<catalog, avail, check, before, touched>>

Relist(s) ==
    /\ s \in delisted
    /\ ClearDelisted({s})
    /\ Touch(s)
    /\ UNCHANGED <<catalog, avail, check, before>>

(* watches.sku references products: only a product in the table is watched. *)
OthersStep ==
    /\ UserStep \/ Age
    /\ \A w \in watches' \ watches : w[2] \in catalog
    /\ UNCHANGED <<catalog, avail, check, before, touched>>

CheckStep ==
    \/ \E data \in Tables(Found) : CheckStart(data)
    \/ ReadKnown \/ UpdateAvailability \/ ResetStale \/ ReadPrevious \/ ReadPreferred
    \/ \E t \in check.todo : Emit(t) \/ EmitFails(t)
    \/ CheckPurge \/ CheckDies

ScrapeStep ==
    \E s \in Skus :
        \/ \E value \in {"unknown", "in", "out"} : ScrapePage(s, value)
        \/ Delist(s) \/ Relist(s)

AvailabilityNext == CheckStep \/ ScrapeStep \/ OthersStep

AvailabilitySpec == AvailabilityInit /\ [][AvailabilityNext]_checkVars

-----------------------------------------------------------------------------
(* Once the run has written, the table says what Adobe answered: of every    *)
(* product the answer names, and that the others on sale are not available.  *)
(* A run that Adobe gave nothing has left the columns as it found them. Rows *)
(* that another command wrote meanwhile are excepted.                        *)
TableMatchesAnswer ==
    check.pc \in {"previous", "preferred", "emit", "purge"} =>
        \A s \in catalog \ touched :
            IF DOMAIN check.data = {} THEN avail[s] = before[s]
            ELSE /\ s \in DOMAIN check.data => avail[s] = check.data[s]
                 /\ s \notin DOMAIN check.data \union delisted =>
                      avail[s].online # "in" /\ avail[s].stores = {}

(* No false alarm: because the diff reads what the run has just written, it  *)
(* has something to record only of a product another command wrote in        *)
(* between, or after an empty answer.                                        *)
AlarmsExplained ==
    \A t \in check.todo : t.sku \in touched \/ DOMAIN check.data = {}

(* docs/specs/scraper.md: the command "emits stock_events on transitions for *)
(* watched products". The transitions are the differences between the table  *)
(* as the run found it and the answer.                                       *)
TransitionsDetected ==
    [][check.pc = "preferred" /\ check'.pc = "emit" =>
         Transitions([s \in DOMAIN check.prev |-> before[s]], check.data,
                     PreferredStores) \subseteq check'.todo]_checkVars
=============================================================================
