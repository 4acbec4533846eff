--------------------------- MODULE StoreDirectory ---------------------------
(***************************************************************************)
(* The stores table: "stores" copies the SAQ's directory, which can only   *)
(* be read ten stores at a time by position, while stores open and close;  *)
(* "seed" fills an empty development database in one transaction. No store *)
(* is ever deleted.                                                        *)
(***************************************************************************)
EXTENDS Naturals, Sequences, FiniteSets, SequencesExt

CONSTANTS
    Stores,        \* stores the SAQ may have
    Facts,         \* what the directory can say of a store
    SeedStores, SeedProducts,   \* the fixture
    RealProducts,  \* what a scrape inserts
    PageLength,    \* ten
    MaxMoves       \* bound: changes of the directory

ASSUME StoreDirectoryAssumption ==
    /\ IsFiniteSet(Stores)
    /\ SeedProducts \intersect RealProducts = {} /\ SeedProducts # {}
    /\ PageLength \in Nat \ {0} /\ MaxMoves \in Nat

Seeded == "seeded"      \* the facts of a store of the fixture

VARIABLES
    directory,     \* the SAQ's list, in its order
    facts,         \* what it says of each store
    stores,        \* rows of the table, by identifier
    skus,          \* rows of products
    sync,          \* the run of "stores"
    seed,          \* the run of "seed"
    moves,
    \* history, read by no action
    throughout,    \* stores listed all along the run of "stores"
    told,          \* what the directory has said of each store during the run
    closed         \* a store has left the list during the run

saq == <<directory, facts>>
syncHistory == <<throughout, told, closed>>
storeVars == <<saq, stores, skus, sync, seed, moves, syncHistory>>

NoSync == [pc |-> "idle"]
Reading == sync.pc = "page"
Entry == [id: Stores, facts: Facts]

StoreDirectoryTypeOK ==
    /\ ToSet(directory) \subseteq Stores /\ IsInjective(directory)
    /\ facts \in [Stores -> Facts]
    /\ DOMAIN stores \subseteq Stores \union SeedStores
    /\ \A s \in DOMAIN stores : stores[s] \in Facts \union {Seeded}
    /\ skus \subseteq SeedProducts \union RealProducts
    /\ sync.pc \in {"idle", "page", "upsert"}
    /\ sync # NoSync => ToSet(sync.list) \subseteq Entry /\ sync.offset \in Nat
    /\ seed \in {"idle", "insert"}

StoreDirectoryInit ==
    /\ directory \in {SetToSeq(Stores \ {s}) : s \in Stores} \union {SetToSeq(Stores)}
    /\ facts \in {[s \in Stores |-> f] : f \in Facts}
    /\ stores = <<>> /\ skus = {} /\ sync = NoSync /\ seed = "idle" /\ moves = 0
    /\ throughout = {} /\ told = [s \in Stores |-> {}] /\ closed = FALSE

-----------------------------------------------------------------------------
(* The SAQ's directory. *)
Move ==
    /\ moves < MaxMoves /\ moves' = moves + 1
    /\ UNCHANGED <<stores, skus, sync, seed>>

StoreOpens(s) ==
    /\ Move /\ s \notin ToSet(directory)
    /\ \E i \in 1..Len(directory) + 1 : directory' = InsertAt(directory, i, s)
    /\ UNCHANGED <<facts, syncHistory>>

StoreCloses(s) ==
    /\ Move
    /\ \E i \in 1..Len(directory) : directory[i] = s /\ directory' = RemoveAt(directory, i)
    /\ throughout' = throughout \ {s} /\ closed' = (closed \/ Reading)
    /\ UNCHANGED <<facts, told>>

StoreMoves(s) ==
    /\ Move
    /\ \E f \in Facts \ {facts[s]} :
          /\ facts' = [facts EXCEPT ![s] = f]
          /\ told' = IF Reading THEN [told EXCEPT ![s] = @ \union {f}] ELSE told
    /\ UNCHANGED <<directory, throughout, closed>>

-----------------------------------------------------------------------------
(* stores *)
SyncBegins ==
    /\ sync = NoSync
    /\ sync' = [pc |-> "page", offset |-> 0, list |-> <<>>]
    /\ throughout' = ToSet(directory) /\ closed' = FALSE
    /\ told' = [s \in Stores |-> {facts[s]}]
    /\ UNCHANGED <<saq, stores, skus, seed, moves>>

(* Mutant: the offset counts from one. *)
OffsetFromOne(offset) == offset + 1
FirstOfPage(offset) == offset

SyncPage ==
    /\ Reading
    /\ LET first == FirstOfPage(sync.offset)
           last == first + PageLength
           ids == SubSeq(directory, first + 1, IF last < Len(directory) THEN last
                                               ELSE Len(directory))
           list == sync.list \o [i \in DOMAIN ids |-> [id |-> ids[i], facts |-> facts[ids[i]]]]
       IN  sync' = IF last >= Len(directory)
                   THEN [pc |-> "upsert", offset |-> sync.offset, list |-> list]
                   ELSE [pc |-> "page", offset |-> last, list |-> list]
    /\ UNCHANGED <<saq, stores, skus, seed, moves, syncHistory>>

EndSync ==
    /\ sync' = NoSync
    /\ throughout' = {} /\ told' = [s \in Stores |-> {}] /\ closed' = FALSE

(* One statement, INSERT ... ON CONFLICT DO UPDATE: PostgreSQL refuses to       *)
(* touch a row twice in it, so a list that names a store twice writes nothing. *)
OncePerStore(list) == \A i, k \in DOMAIN list : list[i].id = list[k].id => i = k

Listed(list) == {list[i].id : i \in DOMAIN list}
FactsOf(list, s) == list[Max({i \in DOMAIN list : list[i].id = s})].facts

SyncCommit ==
    /\ sync.pc = "upsert" /\ OncePerStore(sync.list)
    /\ stores' = [s \in DOMAIN stores \union Listed(sync.list) |->
                     IF s \in Listed(sync.list) THEN FactsOf(sync.list, s) ELSE stores[s]]
    /\ EndSync
    /\ UNCHANGED <<saq, skus, seed, moves>>

SyncFails ==
    /\ sync # NoSync
    /\ EndSync
    /\ UNCHANGED <<saq, stores, skus, seed, moves>>

-----------------------------------------------------------------------------
(* seed, and the scrape that may run beside it *)
SeedCount ==
    /\ seed = "idle" /\ skus = {}
    /\ seed' = "insert"
    /\ UNCHANGED <<saq, stores, skus, sync, moves, syncHistory>>

(* Mutant: a commit for the stores, then one for the products. *)
EitherPart(parts) == parts \in SUBSET {"stores", "products"}
BothParts(parts) == parts = {"stores", "products"}

SeedInsert ==
    /\ seed = "insert"
    /\ \E parts \in SUBSET {"stores", "products"} :
          /\ BothParts(parts)
          /\ stores' = IF "stores" \notin parts THEN stores
                       ELSE [s \in DOMAIN stores \union SeedStores |->
                                IF s \in DOMAIN stores THEN stores[s] ELSE Seeded]
          /\ skus' = IF "products" \in parts THEN skus \union SeedProducts ELSE skus
    /\ seed' = "idle"
    /\ UNCHANGED <<saq, sync, moves, syncHistory>>

SeedFails ==
    /\ seed = "insert" /\ seed' = "idle"
    /\ UNCHANGED <<saq, stores, skus, sync, moves, syncHistory>>

ProductScraped(p) ==
    /\ p \notin skus
    /\ skus' = skus \union {p}
    /\ UNCHANGED <<saq, stores, sync, seed, moves, syncHistory>>

StoreDirectoryNext ==
    \/ \E s \in Stores : StoreOpens(s) \/ StoreCloses(s) \/ StoreMoves(s)
    \/ SyncBegins \/ SyncPage \/ SyncCommit \/ SyncFails
    \/ SeedCount \/ SeedInsert \/ SeedFails
    \/ \E p \in RealProducts : ProductScraped(p)

StoreDirectorySpec == StoreDirectoryInit /\ [][StoreDirectoryNext]_storeVars

-----------------------------------------------------------------------------
(* A run that commits has every store that was in the directory throughout,   *)
(* with what the directory said of it during the run, unless a store closed   *)
(* meanwhile: one that opened made a page repeat a store, and the run fail.   *)
DirectoryWhole ==
    [][SyncCommit => \/ closed
                     \/ \A s \in throughout : s \in DOMAIN stores' /\ stores'[s] \in told[s]
      ]_storeVars

(* "One commit, so a crash never leaves a half-seeded DB that the emptiness   *)
(* check would skip": seeded products never stand without the seeded stores,  *)
(* whatever a scrape, a store sync or a second seed does at the same time.    *)
SeededWhole ==
    skus \intersect SeedProducts # {} =>
        SeedProducts \subseteq skus /\ SeedStores \subseteq DOMAIN stores
=============================================================================
