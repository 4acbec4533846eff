------------------------ MODULE AlertPipelineProofs ------------------------
(***************************************************************************)
(* Proofs about the delist path: the pipeline implements the outbox's      *)
(* specification, so what is proved of the outbox holds in it, and a run   *)
(* of the delist scan that meets no error leaves the database as it should *)
(* and has announced every loss, for any catalogue and any interleaving.   *)
(***************************************************************************)
EXTENDS AlertPipeline, StockAlertsProofs

(* Every step of the pipeline is one the outbox allows, or none of its own. *)
LEMMA PipelineStep ==
    ASSUME PipelineTypeOK, [PipelineNext]_pipelineVars
    PROVE  [Next]_vars
<1>1. CASE UNCHANGED pipelineVars
  BY <1>1 DEF pipelineVars
<1>2. CASE OutboxStep
  BY <1>2 DEF OutboxStep, Next
<1>3. CASE ScanStep
  <2>1. CASE \/ \E sitemap \in SUBSET Skus : ScanStart(sitemap)
             \/ \E s \in Skus : ScanPage(s)
             \/ ScanReadWatched \/ ScanReadDelisted \/ ScanFails \/ ScanDies
    BY <2>1 DEF ScanStart, ScanPage, ScanReadWatched, ScanReadDelisted, ScanFails,
                ScanDies
  <2>2. CASE ScanMark
    <3>1. Gone \in SUBSET Skus
      BY DEF Gone, PipelineTypeOK
    <3>2. MarkDelisted(Gone)
      BY <2>2 DEF ScanMark
    <3> QED
      BY <3>1, <3>2 DEF Next, ScraperStep
  <2>3. CASE ScanClear
    <3>1. scan.todo \in SUBSET Skus
      BY DEF PipelineTypeOK
    <3>2. ClearDelisted(scan.todo)
      BY <2>3 DEF ScanClear
    <3> QED
      BY <3>1, <3>2 DEF Next, ScraperStep
  <2>4. ASSUME NEW s \in Skus, ScanEmit(s) PROVE Next
    BY <2>4, PipelineAssumption DEF ScanEmit, Next, ScraperStep
  <2>5. CASE ScanPurge
    BY <2>5 DEF ScanPurge, Next, ScraperStep
  <2> QED
    BY <1>3, <2>1, <2>2, <2>3, <2>4, <2>5 DEF ScanStep
<1> QED
  BY <1>1, <1>2, <1>3 DEF PipelineNext

-----------------------------------------------------------------------------
(* Type correctness. *)

ScanType == [pc: ScanPhase, sitemap: SUBSET Skus, known: SUBSET Skus,
             todo: SUBSET Skus, first: 1..MaxEvents + 1, ok: BOOLEAN]

LEMMA NoScanType == NoScan \in ScanType
<1>1. 1 \in 1..MaxEvents + 1
  BY StockAlertsAssumption
<1> QED
  BY <1>1 DEF NoScan, ScanType, ScanPhase

LEMMA ScanTypeStep ==
    ASSUME PipelineTypeOK, ScanStep
    PROVE  scan' \in ScanType /\ catalog' \subseteq Skus
<1>1. scan \in ScanType /\ catalog \subseteq Skus
  BY DEF PipelineTypeOK, ScanType
<1>2. ASSUME NEW sitemap \in SUBSET Skus, ScanStart(sitemap)
      PROVE  scan' \in ScanType /\ catalog' \subseteq Skus
  BY <1>1, <1>2, NoScanType DEF ScanStart, ScanType, ScanPhase, PipelineTypeOK, TypeOK
<1>3. ASSUME NEW s \in Skus, ScanPage(s) \/ ScanEmit(s)
      PROVE  scan' \in ScanType /\ catalog' \subseteq Skus
  BY <1>1, <1>3 DEF ScanPage, ScanEmit, ScanType
<1>4. CASE ScanMark
  BY <1>1, <1>4 DEF ScanMark, Goto, ScanType, ScanPhase
<1>5. CASE ScanReadWatched \/ ScanReadDelisted
  BY <1>1, <1>5 DEF ScanReadWatched, ScanReadDelisted, Gone, ScanType, ScanPhase
<1>6. CASE ScanClear \/ ScanFails
  BY <1>1, <1>6 DEF ScanClear, ScanFails, ScanType, ScanPhase
<1>7. CASE ScanPurge \/ ScanDies
  BY <1>1, <1>7, NoScanType DEF ScanPurge, ScanDies
<1> QED
  BY <1>2, <1>3, <1>4, <1>5, <1>6, <1>7 DEF ScanStep

LEMMA PipelineTypeStep ==
    PipelineTypeOK /\ [PipelineNext]_pipelineVars => PipelineTypeOK'
<1> SUFFICES ASSUME PipelineTypeOK, [PipelineNext]_pipelineVars PROVE PipelineTypeOK'
  OBVIOUS
<1>1. TypeOK'
  BY PipelineStep, NextTypeOK DEF PipelineTypeOK
<1>2. scan' \in ScanType /\ catalog' \subseteq Skus
  <2>1. scan \in ScanType /\ catalog \subseteq Skus
    BY DEF PipelineTypeOK, ScanType
  <2> QED
    BY <2>1, ScanTypeStep DEF PipelineNext, OutboxStep, pipelineVars
<1>3. explained' \subseteq Users \X Skus /\ watchers' \subseteq Users \X Skus
  <2>1. /\ watches \subseteq Users \X Skus /\ watches' \subseteq Users \X Skus
        /\ explained \subseteq Users \X Skus /\ watchers \subseteq Users \X Skus
    BY <1>1 DEF TypeOK, PipelineTypeOK
  <2> QED
    BY <2>1 DEF PipelineNext, History, pipelineVars
<1> QED
  BY <1>1, <1>2, <1>3 DEF PipelineTypeOK, ScanType

LEMMA PipelineTypeInit == PipelineInit => PipelineTypeOK
  BY InitTypeOK, NoScanType DEF PipelineInit, PipelineTypeOK, ScanType

(* The pipeline's variables keep their types. *)
THEOREM PipelineTypeCorrect == PipelineSpec => []PipelineTypeOK
  BY PipelineTypeInit, PipelineTypeStep, PTL DEF PipelineSpec

(* The pipeline implements the outbox: whatever the scrape command does to   *)
(* the tables is one of the calls StockAlerts lets a scraper make.           *)
THEOREM PipelineImplementsOutbox == PipelineSpec => Spec
<1>1. PipelineInit => Init
  BY DEF PipelineInit
<1>2. PipelineTypeOK /\ [PipelineNext]_pipelineVars => [Next]_vars
  BY PipelineStep
<1> QED
  BY <1>1, <1>2, PipelineTypeCorrect, PTL DEF PipelineSpec, Spec

-----------------------------------------------------------------------------
(* The inductive invariant behind DelistedMatchesSitemap.                    *)

(* The run's reading of the table is only ever missing what the sitemap has. *)
Snapshot ==
    /\ delisted \subseteq catalog
    /\ scan.known \subseteq catalog
    /\ scan.pc # "idle" => catalog \subseteq scan.known \union scan.sitemap
    /\ scan.pc # "purge" => scan.ok

(* What the run has marked stays marked until it has decided what to clear. *)
GoneMarked ==
    /\ scan.pc \in {"watched", "emit", "relist", "clear"} => Gone \subseteq delisted
    /\ scan.pc = "clear" => scan.todo = delisted \intersect scan.sitemap

ScanInv == Snapshot /\ GoneMarked /\ DelistedMatchesSitemap

LEMMA ScanInvInit == PipelineInit => ScanInv
  BY DEF PipelineInit, Init, NoScan, ScanInv, Snapshot, GoneMarked,
         DelistedMatchesSitemap, Gone

LEMMA ScanInvStep ==
    PipelineTypeOK /\ ScanInv /\ [PipelineNext]_pipelineVars => ScanInv'
<1> SUFFICES ASSUME PipelineTypeOK, ScanInv, [PipelineNext]_pipelineVars
             PROVE  ScanInv'
  OBVIOUS
<1> USE DEF ScanInv, Snapshot, GoneMarked, DelistedMatchesSitemap
<1> USE DEF Gone
<1>0. scan \in ScanType
  BY DEF PipelineTypeOK, ScanType
<1>1. CASE UNCHANGED pipelineVars
  BY <1>1 DEF pipelineVars, vars, db
<1>2. CASE OutboxStep
  <2>1. UNCHANGED <<delisted, catalog, scan>>
    BY <1>2 DEF OutboxStep, UserStep, CreateWatch, DeleteWatch, AddUserStore,
                RemoveUserStore, Age, BotStep, PollStart, FetchOnline, FetchFails,
                FetchNothing, Fetch, SendMessage, SendAck, AckAnswered, AckGivenUp,
                BotCrash, BackendStep, AckCommit, AckFails, db
  <2> QED
    BY <2>1
<1>3. ASSUME NEW sitemap \in SUBSET Skus, ScanStart(sitemap) PROVE ScanInv'
  BY <1>3 DEF ScanStart, NoScan, vars, db
<1>4. ASSUME NEW s \in Skus, ScanPage(s) PROVE ScanInv'
  BY <1>4 DEF ScanPage, vars, db
<1>5. ASSUME NEW s \in Skus, ScanEmit(s) PROVE ScanInv'
  BY <1>0, <1>5 DEF ScanEmit, EmitStockEvent, ScanType
<1>6. CASE ScanMark
  BY <1>0, <1>6 DEF ScanMark, MarkDelisted, Goto, ScanType
<1>7. CASE ScanReadWatched \/ ScanReadDelisted
  BY <1>0, <1>7 DEF ScanReadWatched, ScanReadDelisted, ScanType, vars, db
<1>8. CASE ScanClear
  BY <1>0, <1>8 DEF ScanClear, ClearDelisted, ScanType
<1>9. CASE ScanFails
  BY <1>0, <1>9 DEF ScanFails, ScanType, vars, db
<1>10. CASE ScanPurge \/ ScanDies
  BY <1>10 DEF ScanPurge, DeleteOldStockEvents, ScanDies, NoScan, vars, db
<1> QED
  BY <1>1, <1>2, <1>3, <1>4, <1>5, <1>6, <1>7, <1>8, <1>9, <1>10
     DEF PipelineNext, ScanStep

(* A run whose detection meets no error leaves exactly the products missing  *)
(* from the sitemap delisted, whatever state earlier runs left behind.       *)
THEOREM DelistedMatches == PipelineSpec => []DelistedMatchesSitemap
<1>1. ScanInv => DelistedMatchesSitemap
  BY DEF ScanInv
<1> QED
  BY <1>1, PipelineTypeCorrect, ScanInvInit, ScanInvStep, PTL DEF PipelineSpec

-----------------------------------------------------------------------------
(* The inductive invariant behind DelistAnnounced.                           *)

(* The run has recorded an online event for this watch. *)
Announced(w) ==
    \E o \in owed : /\ o.user = w[1] /\ o.sku = w[2] /\ o.store = Online
                    /\ o.event_id >= scan.first

Announcing ==
    \A w \in watchers :
        w[2] \in Gone =>
          /\ scan.pc = "emit" => w[2] \in scan.todo \/ Announced(w)
          /\ scan.pc \in {"clear", "purge"} /\ scan.ok => Announced(w)

AnnounceInv ==
    /\ watchers \subseteq watches
    /\ scan.first \in Nat /\ nextId \in Nat /\ scan.first <= nextId
    /\ scan.pc = "relist" => Gone = {}
    /\ Announcing

LEMMA AnnounceInit == PipelineInit => AnnounceInv
  BY DEF PipelineInit, Init, NoScan, AnnounceInv, Announcing

(* Users, the bot and the backend take no route from a watch that stays.     *)
LEMMA OwedKept ==
    ASSUME PipelineTypeOK, OutboxStep, NEW o \in owed, o.store = Online,
           <<o.user, o.sku>> \in watches'
    PROVE  o \in owed'
<1>1. ASSUME NEW u \in Users, NEW s \in Skus, CreateWatch(u, s) \/ DeleteWatch(u, s)
      PROVE  o \in owed'
  BY <1>1 DEF CreateWatch, DeleteWatch, history
<1>2. ASSUME NEW u \in Users, NEW m \in Stores,
             AddUserStore(u, m) \/ RemoveUserStore(u, m)
      PROVE  o \in owed'
  BY <1>2, StockAlertsAssumption DEF AddUserStore, RemoveUserStore, history
<1>3. CASE Age \/ BotStep
  BY <1>3 DEF Age, BotStep, PollStart, FetchOnline, FetchFails, FetchNothing, Fetch,
              SendMessage, SendAck, AckAnswered, AckGivenUp, BotCrash, history
<1>4. ASSUME NEW a \in acks, AckCommit(a) PROVE o \in owed'
  BY <1>4 DEF AckCommit
<1>5. ASSUME NEW a \in acks, AckFails(a) PROVE o \in owed'
  BY <1>5 DEF AckFails
<1> QED
  BY <1>1, <1>2, <1>3, <1>4, <1>5 DEF OutboxStep, UserStep, BackendStep

LEMMA OutboxNextId == OutboxStep => nextId' = nextId
  BY DEF OutboxStep, UserStep, CreateWatch, DeleteWatch, AddUserStore,
         RemoveUserStore, Age, BotStep, PollStart, FetchOnline, FetchFails,
         FetchNothing, Fetch, SendMessage, SendAck, AckAnswered, AckGivenUp,
         BotCrash, BackendStep, AckCommit, AckFails, db

LEMMA AnnounceEmit ==
    ASSUME PipelineTypeOK, AnnounceInv, NEW s \in Skus, ScanEmit(s), History
    PROVE  AnnounceInv'
<1> DEFINE new == {[event_id |-> nextId, user |-> u, sku |-> s, store |-> Online] :
                      u \in Recipients(s, Online)}
<1>0. scan \in ScanType
  BY DEF PipelineTypeOK, ScanType
<1>1. /\ scan' = [scan EXCEPT !.todo = @ \ {s}] /\ scan.pc = "emit"
      /\ owed' = owed \union new
      /\ nextId' = nextId + 1 /\ watches' = watches
  BY DEF ScanEmit, EmitStockEvent
<1>2. watchers' \subseteq watchers
  BY <1>1 DEF History
<1>3. Gone' = Gone
  BY <1>0, <1>1 DEF Gone, ScanType
<1>4. ASSUME NEW w \in watchers', w[2] = s PROVE Announced(w)'
  <2>1. w \in watches /\ w \in Users \X Skus
    BY <1>2, <1>4 DEF AnnounceInv, PipelineTypeOK
  <2>2. w[1] \in Recipients(s, Online)
    BY <1>4, <2>1 DEF Recipients
  <2>3. [event_id |-> nextId, user |-> w[1], sku |-> s, store |-> Online] \in owed'
    BY <1>1, <2>2
  <2>4. nextId >= scan'.first
    BY <1>0, <1>1 DEF AnnounceInv, ScanType
  <2> QED
    BY <1>4, <2>3, <2>4 DEF Announced
<1>5. ASSUME NEW w \in watchers', Announced(w) PROVE Announced(w)'
  BY <1>0, <1>1, <1>5 DEF Announced, ScanType
<1>6. Announcing'
  BY <1>0, <1>1, <1>2, <1>3, <1>4, <1>5 DEF AnnounceInv, Announcing, ScanType
<1> QED
  BY <1>0, <1>1, <1>2, <1>6 DEF AnnounceInv, ScanType

LEMMA AnnounceOutbox ==
    ASSUME PipelineTypeOK, AnnounceInv, OutboxStep, History
    PROVE  AnnounceInv'
<1>1. scan' = scan /\ nextId' = nextId
  BY OutboxNextId DEF OutboxStep
<1>2. watchers' = watchers \intersect watches'
  BY <1>1 DEF History
<1>3. ASSUME NEW w \in watchers', Announced(w) PROVE Announced(w)'
  <2>1. PICK o \in owed : /\ o.user = w[1] /\ o.sku = w[2] /\ o.store = Online
                          /\ o.event_id >= scan.first
    BY <1>3 DEF Announced
  <2>2. w = <<w[1], w[2]>>
    BY <1>2 DEF PipelineTypeOK
  <2>3. o \in owed'
    BY <1>2, <2>1, <2>2, OwedKept
  <2> QED
    BY <1>1, <2>1, <2>3 DEF Announced
<1>4. Announcing'
  BY <1>1, <1>2, <1>3 DEF AnnounceInv, Announcing, Gone
<1> QED
  BY <1>1, <1>2, <1>4 DEF AnnounceInv, Gone

(* Steps of the scan that only read, mark or clear. *)
LEMMA AnnounceQuiet ==
    ASSUME PipelineTypeOK, AnnounceInv, History,
           UNCHANGED <<watches, owed, nextId>>,
           \/ \E sitemap \in SUBSET Skus : ScanStart(sitemap)
           \/ \E s \in Skus : ScanPage(s)
           \/ ScanMark \/ ScanReadWatched \/ ScanReadDelisted \/ ScanClear
           \/ ScanFails \/ ScanPurge \/ ScanDies
    PROVE  AnnounceInv'
<1>0. scan \in ScanType
  BY DEF PipelineTypeOK, ScanType
<1>1. watchers' \subseteq watches' /\ (scan.pc # "watched" => watchers' \subseteq watchers)
  BY DEF History
<1>2. \A w : scan'.first = scan.first /\ Announced(w) => Announced(w)'
  BY DEF Announced
<1> USE DEF AnnounceInv, Announcing, Gone
<1>3. ASSUME NEW sitemap \in SUBSET Skus, ScanStart(sitemap) PROVE AnnounceInv'
  <2>1. scan'.pc = "pages" /\ scan'.first = nextId /\ scan.pc = "idle"
    BY <1>3 DEF ScanStart, NoScan
  <2> QED
    BY <1>1, <2>1
<1>4. ASSUME NEW s \in Skus, ScanPage(s) PROVE AnnounceInv'
  BY <1>0, <1>1, <1>4 DEF ScanPage, ScanType
<1>5. CASE ScanMark
  BY <1>0, <1>1, <1>5 DEF ScanMark, Goto, ScanType
<1>6. CASE ScanReadWatched
  <2>1. \A w \in watchers' : w[2] \in Gone => w[2] \in scan'.todo
    <3>1. \A w \in watches : w = <<w[1], w[2]>> /\ w[1] \in Users
      BY DEF PipelineTypeOK, TypeOK
    <3> QED
      BY <1>0, <1>1, <1>6, <3>1 DEF ScanReadWatched, ScanType
  <2> QED
    BY <1>0, <1>1, <1>6, <2>1 DEF ScanReadWatched, ScanType
<1>7. CASE ScanReadDelisted
  BY <1>0, <1>1, <1>2, <1>7 DEF ScanReadDelisted, ScanType
<1>8. CASE ScanClear
  BY <1>0, <1>1, <1>2, <1>8 DEF ScanClear, ScanType
<1>9. CASE ScanFails
  BY <1>0, <1>1, <1>2, <1>9 DEF ScanFails, ScanType
<1>10. CASE ScanPurge \/ ScanDies
  BY <1>1, <1>10, StockAlertsAssumption DEF ScanPurge, ScanDies, NoScan, PipelineTypeOK, TypeOK
<1> QED
  BY <1>3, <1>4, <1>5, <1>6, <1>7, <1>8, <1>9, <1>10

LEMMA AnnounceStep ==
    ASSUME PipelineTypeOK, AnnounceInv, [PipelineNext]_pipelineVars
    PROVE  AnnounceInv'
<1>1. CASE UNCHANGED pipelineVars
  BY <1>1 DEF pipelineVars, vars, db, history, AnnounceInv, Announcing, Announced, Gone
<1>2. CASE OutboxStep /\ History
  BY <1>2, AnnounceOutbox
<1>3. ASSUME NEW s \in Skus, ScanEmit(s), History PROVE AnnounceInv'
  BY <1>3, AnnounceEmit
<1>4. CASE /\ History
           /\ \/ \E sitemap \in SUBSET Skus : ScanStart(sitemap)
              \/ \E s \in Skus : ScanPage(s)
              \/ ScanMark \/ ScanReadWatched \/ ScanReadDelisted \/ ScanClear
              \/ ScanFails \/ ScanPurge \/ ScanDies
  <2>1. UNCHANGED <<watches, owed, nextId>>
    BY <1>4 DEF ScanStart, ScanPage, ScanMark, MarkDelisted, ScanReadWatched,
                ScanReadDelisted, ScanClear, ClearDelisted, ScanFails, ScanPurge,
                DeleteOldStockEvents, ScanDies, vars, db, history
  <2> QED
    BY <1>4, <2>1, AnnounceQuiet
<1> QED
  BY <1>1, <1>2, <1>3, <1>4 DEF PipelineNext, ScanStep

(* A run that meets no error has an event for every watch, of a lost         *)
(* product, that it saw and that is still there.                             *)
THEOREM DelistAnnouncedHolds == PipelineSpec => []DelistAnnounced
<1>1. AnnounceInv => DelistAnnounced
  BY DEF AnnounceInv, Announcing, Announced, DelistAnnounced, Gone
<1> QED
  BY <1>1, PipelineTypeCorrect, AnnounceInit, AnnounceStep, PTL DEF PipelineSpec
=============================================================================
