--------------------------- MODULE AlertPipeline ---------------------------
(***************************************************************************)
(* The delist path from end to end: the weekly scrape command, which       *)
(* compares the sitemap with the products table, marks what has gone,      *)
(* records an event for each watched product among it and clears what is   *)
(* back, composed with the outbox and the bot of StockAlerts. The two      *)
(* sides share only the database and interleave at every transaction.      *)
(***************************************************************************)
EXTENDS StockAlerts

(* A delist is recorded as an event with available = FALSE. *)
ASSUME PipelineAssumption == FALSE \in Directions

VARIABLES
    catalog,    \* skus with a row in products
    scan,       \* the scrape command's run
    \* history, read by no action
    explained,  \* watches whose owner was sent a delist message for them
    watchers    \* watches the run's read of the watched skus saw, kept since

pipelineVars == <<vars, catalog, scan, explained, watchers>>

ScanPhase == {"idle", "pages", "watched", "emit", "relist", "clear", "purge"}

PipelineTypeOK ==
    /\ TypeOK
    /\ catalog \subseteq Skus
    /\ scan \in [pc: ScanPhase,
                 sitemap: SUBSET Skus,   \* the entries the sitemap listed
                 known: SUBSET Skus,     \* products before the first page
                 todo: SUBSET Skus,      \* to emit, then to relist
                 first: 1..MaxEvents + 1,\* the first id the run may use
                 ok: BOOLEAN]            \* no database error so far
    /\ {explained, watchers} \subseteq SUBSET (Users \X Skus)

NoScan == [pc |-> "idle", sitemap |-> {}, known |-> {}, todo |-> {},
           first |-> 1, ok |-> TRUE]

PipelineInit ==
    /\ Init
    /\ catalog \in SUBSET Skus
    /\ scan = NoScan
    /\ explained = {} /\ watchers = {}

-----------------------------------------------------------------------------
(* scrape_products. Each step is at most one transaction. *)

Goto(pc) == scan' = [scan EXCEPT !.pc = pc]

(* The sitemap is fetched and the products table is read; a failure of      *)
(* either ends the run before it has done anything.                         *)
ScanStart(sitemap) ==
    /\ scan.pc = "idle"
    /\ scan' = [NoScan EXCEPT !.pc = "pages", !.sitemap = sitemap,
                              !.known = catalog, !.first = nextId]
    /\ UNCHANGED <<vars, catalog>>

(* A page that was not in the table is inserted; one that fails is skipped. *)
ScanPage(s) ==
    /\ scan.pc = "pages"
    /\ s \in scan.sitemap \ catalog
    /\ catalog' = catalog \union {s}
    /\ UNCHANGED <<vars, scan>>

(* Mutants: already marked products are left out; only watched ones count. *)
GoneUnmarked == (scan.known \ scan.sitemap) \ delisted
GoneWatched == {s \in scan.known \ scan.sitemap : \E u \in Users : <<u, s>> \in watches}

Gone == scan.known \ scan.sitemap

ScanMark ==
    /\ scan.pc = "pages"
    /\ MarkDelisted(Gone)
    /\ Goto(IF Gone = {} THEN "relist" ELSE "watched")
    /\ UNCHANGED catalog

ScanReadWatched ==
    /\ scan.pc = "watched"
    /\ scan' = [scan EXCEPT !.pc = "emit",
                  !.todo = {s \in Gone : \E u \in Users : <<u, s>> \in watches}]
    /\ UNCHANGED <<vars, catalog>>

ScanEmit(s) ==
    /\ scan.pc = "emit"
    /\ s \in scan.todo
    /\ EmitStockEvent(s, Online, FALSE)
    /\ scan' = [scan EXCEPT !.todo = @ \ {s}]
    /\ UNCHANGED catalog

ScanReadDelisted ==
    /\ \/ scan.pc = "emit" /\ scan.todo = {}
       \/ scan.pc = "relist"
    /\ scan' = [scan EXCEPT !.pc = "clear", !.todo = delisted \intersect scan.sitemap]
    /\ UNCHANGED <<vars, catalog>>

ScanClear ==
    /\ scan.pc = "clear"
    /\ ClearDelisted(scan.todo)
    /\ scan' = [scan EXCEPT !.pc = "purge", !.todo = {}]
    /\ UNCHANGED catalog

(* A database error anywhere in _detect_delists skips the rest of it. *)
ScanFails ==
    /\ scan.pc \notin {"idle", "purge"}
    /\ scan' = [scan EXCEPT !.pc = "purge", !.todo = {}, !.ok = FALSE]
    /\ UNCHANGED <<vars, catalog>>

ScanPurge ==
    /\ scan.pc = "purge"
    /\ DeleteOldStockEvents
    /\ scan' = NoScan
    /\ UNCHANGED catalog

(* The process is killed, or the purge fails, which it does silently. *)
ScanDies ==
    /\ scan.pc # "idle"
    /\ scan' = NoScan
    /\ UNCHANGED <<vars, catalog>>

-----------------------------------------------------------------------------
ScanStep ==
    \/ \E sitemap \in SUBSET Skus : ScanStart(sitemap)
    \/ \E s \in Skus : ScanPage(s) \/ ScanEmit(s)
    \/ ScanMark \/ ScanReadWatched \/ ScanReadDelisted \/ ScanClear
    \/ ScanFails \/ ScanPurge \/ ScanDies

(* watches.sku references products: only a product in the table is watched. *)
OutboxStep ==
    /\ UserStep \/ Age \/ BotStep \/ BackendStep
    /\ \A w \in watches' \ watches : w[2] \in catalog
    /\ UNCHANGED <<catalog, scan>>

DelistMessages ==
    {<<r.user, r.sku>> : r \in {q \in unsent \ unsent' : q.delisted /\ bot' = "send"}}

History ==
    /\ explained' = (explained \union DelistMessages) \intersect watches'
    /\ watchers' = IF scan.pc = "watched" /\ scan'.pc = "emit" THEN watches
                   ELSE watchers \intersect watches'

PipelineNext == (ScanStep \/ OutboxStep) /\ History

PipelineSpec == PipelineInit /\ [][PipelineNext]_pipelineVars

-----------------------------------------------------------------------------
(* A run whose delist detection meets no error leaves exactly the products  *)
(* missing from the sitemap delisted, whatever earlier runs left half done: *)
(* "if it fails, next run catches up".                                      *)
DelistedMatchesSitemap ==
    scan.pc = "purge" /\ scan.ok => delisted = catalog \ scan.sitemap

(* Such a run has recorded an event for everyone who watches a product that *)
(* is gone and watched it when the run looked, even if an earlier run died  *)
(* between marking the product and announcing it.                           *)
DelistAnnounced ==
    scan.pc \in {"clear", "purge"} /\ scan.ok =>
        \A w \in watchers :
            w[2] \in scan.known \ scan.sitemap =>
                \E o \in owed : /\ o.user = w[1] /\ o.sku = w[2]
                                /\ o.event_id >= scan.first

(* docs/specs/bot.md: "one event fans out to all watchers in a single pass". *)
(* Without FanOutComplete's exception it would hold whatever the batch size. *)
EveryWatcherMessaged ==
    \A o \in owed :
        o.user \in TgUsers /\ o.event_id \in processed
        => <<o.event_id, o.user>> \in attempted

(* CHANGELOG.md: "Watches auto-removed when a delisted product is acked - no *)
(* manual cleanup needed, message explains why": no ack removes the watch of *)
(* a Telegram user who was not sent that message.                            *)
RemovalExplained ==
    [][\A w \in watches \ watches' :
         w[1] \in TgUsers /\ acks' # acks => w \in explained]_pipelineVars
=============================================================================
