--------------------------- MODULE WineEnrichment ---------------------------
(***************************************************************************)
(* "enrich" reads Adobe's catalogue a search at a time: a subcategory; when *)
(* that is beyond what Adobe will page through, its countries one by one;  *)
(* and when a country is, five price ranges. Each search is read in pages  *)
(* by number, and nothing holds Adobe's catalogue still in the meantime.   *)
(* What was collected is written in one transaction at the end.            *)
(***************************************************************************)
EXTENDS Naturals, FiniteSets, Sequences, SequencesExt

CONSTANTS
    Skus,
    Wines,          \* sets of attributes
    RankOf,         \* the place of each sku in the order Adobe gives them
    Subcategories,  \* in the order of the code
    Countries,
    SubcategoryOf, CountryOf,
    Prices,         \* prices a wine may have
    FirstAttributes, FirstPrice,  \* Adobe's catalogue to begin with
    PriceRanges,    \* pairs, bounds included
    PageSize, MaxPage,
    MaxChanges      \* bound: changes to Adobe's catalogue

NoAttributes == "none"
NoCountry == "no country"
All == "any"

ASSUME WineEnrichmentAssumption ==
    /\ NoAttributes \notin Wines
    /\ IsFiniteSet(Skus)
    /\ RankOf \in [Skus -> Nat] /\ \A s, t \in Skus : RankOf[s] = RankOf[t] => s = t
    /\ Subcategories \in Seq(ToSet(Subcategories))
    /\ SubcategoryOf \in [Skus -> ToSet(Subcategories)]
    /\ All \notin Countries /\ CountryOf \in [Skus -> Countries \union {NoCountry}]
    /\ Prices \subseteq Nat /\ PriceRanges \in Seq(Nat \X Nat)
    /\ FirstAttributes \in [Skus -> Wines \union {NoAttributes}]
    /\ FirstPrice \in [Skus -> Prices]
    /\ PageSize \in Nat \ {0} /\ MaxPage \in Nat \ {0}
    /\ MaxChanges \in Nat

VARIABLES
    \* Adobe
    listed, attributes, price,
    \* the table
    column,         \* rows and their attributes, by sku
    \* the run
    known,          \* <<"running", the skus of the table at its start>>
    todo,           \* the searches left, the first one under way
    next,           \* the page to ask for
    pages,          \* how many the first page announced, 0 before it
    collected,
    \* history, read by no action
    held,           \* what Adobe has answered for each wine since the run began
    moved,          \* wines that were elsewhere in a search during the run
    capped,         \* the searches of this run that were partitioned
    changes

catalogue == <<listed, attributes, price>>
progress == <<todo, next, pages, collected>>
enrichVars == <<catalogue, column, known, progress, held, moved, capped, changes>>

Idle == <<"idle">>
Running == known # Idle
Adobe == [s \in Skus |-> IF s \in listed THEN attributes[s] ELSE NoAttributes]

Search(sub, country, range) == [sub |-> sub, country |-> country, range |-> range]
Ranges == ToSet(PriceRanges) \union {<<All>>}
Searches == [sub: ToSet(Subcategories), country: Countries \union {All}, range: Ranges]

EnrichmentTypeOK ==
    /\ listed \subseteq Skus /\ attributes \in [Skus -> Wines \union {NoAttributes}]
    /\ price \in [Skus -> Prices]
    /\ DOMAIN column \subseteq Skus /\ \A s \in DOMAIN column : column[s] \in Wines \union {NoAttributes}
    /\ Running => known[1] = "running" /\ known[2] \subseteq Skus
    /\ todo \in Seq(Searches)
    /\ next \in 1..MaxPage /\ pages \in 0..MaxPage
    /\ DOMAIN collected \subseteq Skus /\ \A s \in DOMAIN collected : collected[s] \in Wines

EnrichmentInit ==
    /\ listed = Skus /\ attributes = FirstAttributes /\ price = FirstPrice
    /\ column = <<>>
    /\ known = Idle /\ todo = <<>> /\ next = 1 /\ pages = 0 /\ collected = <<>>
    /\ held = [s \in Skus |-> {}] /\ moved = {} /\ capped = {} /\ changes = 0

-----------------------------------------------------------------------------
(* Adobe's catalogue. A wine that joins, leaves or changes price shifts those *)
(* ranked after it. *)
Hold == held' = IF Running THEN [s \in Skus |-> held[s] \union {Adobe'[s]}] ELSE held
From(s) == {x \in Skus : RankOf[s] <= RankOf[x]}
Shift(s) == moved' = IF Running THEN moved \union From(s) ELSE moved

Change ==
    /\ changes < MaxChanges /\ changes' = changes + 1
    /\ UNCHANGED <<column, known, progress, capped>>

Delist(s) == /\ Change /\ s \in listed /\ listed' = listed \ {s}
             /\ UNCHANGED <<attributes, price>> /\ Hold /\ Shift(s)
Relist(s) == /\ Change /\ s \notin listed /\ listed' = listed \union {s}
             /\ UNCHANGED <<attributes, price>> /\ Hold /\ Shift(s)
Reprice(s) == /\ Change /\ \E p \in Prices \ {price[s]} : price' = [price EXCEPT ![s] = p]
              /\ UNCHANGED <<listed, attributes>> /\ Hold /\ Shift(s)
Retaste(s) == /\ Change
              /\ \E w \in (Wines \union {NoAttributes}) \ {attributes[s]} :
                    attributes' = [attributes EXCEPT ![s] = w]
              /\ UNCHANGED <<listed, price, moved>> /\ Hold

ScrapeInserts(s) ==
    /\ s \notin DOMAIN column
    /\ column' = [x \in DOMAIN column \union {s} |-> IF x = s THEN NoAttributes ELSE column[x]]
    /\ UNCHANGED <<catalogue, known, progress, held, moved, capped, changes>>

-----------------------------------------------------------------------------
(* The filters of a search, all of them to be met; a price range includes both *)
(* its bounds. *)
Between(p, range) == range[1] <= p /\ p <= range[2]
Matches(s, f) ==
    /\ s \in listed
    /\ SubcategoryOf[s] = f.sub
    /\ f.country # All => CountryOf[s] = f.country
    /\ f.range # <<All>> => Between(price[s], f.range)

(* Adobe numbers what matches, and a page is an interval of these numbers. *)
Matching(f) == {s \in Skus : Matches(s, f)}
Place(s, f) == Cardinality({x \in Matching(f) : RankOf[x] <= RankOf[s]})
PageCount(n) == (n + PageSize - 1) \div PageSize
(* Mutant: pages numbered from zero. *)
PageFromZero(f, n) == {s \in Matching(f) : n * PageSize < Place(s, f)
                                            /\ Place(s, f) <= (n + 1) * PageSize}
PageOf(f, n) == {s \in Matching(f) : (n - 1) * PageSize < Place(s, f)
                                      /\ Place(s, f) <= n * PageSize}
OverCap(f) == Cardinality(Matching(f)) > PageSize * MaxPage

EnrichBegins ==
    /\ ~Running
    /\ DOMAIN column # {}
    /\ known' = <<"running", DOMAIN column>>
    /\ todo' = [i \in DOMAIN Subcategories |-> Search(Subcategories[i], All, <<All>>)]
    /\ next' = 1 /\ pages' = 0 /\ collected' = <<>>
    /\ held' = [s \in Skus |-> {Adobe[s]}] /\ moved' = {} /\ capped' = {}
    /\ UNCHANGED <<catalogue, column, changes>>

(* A page: its wines are kept if they have an attribute at all. The number of *)
(* pages is the one the first page announced. *)
(* Mutant: a wine without attributes is kept with nulls. *)
KeepAll(items) == items
Keep(items) == {s \in items : attributes[s] # NoAttributes}
Collect(items) == [s \in DOMAIN collected \union Keep(items) |->
                      IF s \in Keep(items) THEN attributes[s] ELSE collected[s]]

SearchPage ==
    /\ Running /\ todo # <<>>
    /\ LET search == Head(todo)
           announced == IF next = 1 THEN PageCount(Cardinality(Matching(search))) ELSE pages
       IN  /\ next = 1 => ~OverCap(search)
           /\ collected' = Collect(PageOf(search, next))
           /\ IF next < announced
              THEN next' = next + 1 /\ pages' = announced /\ UNCHANGED todo
              ELSE next' = 1 /\ pages' = 0 /\ todo' = Tail(todo)
    /\ UNCHANGED <<catalogue, column, known, held, moved, capped, changes>>

(* More than Adobe pages through: nothing is yielded. The search is replaced  *)
(* by one for each country of the facets, asked for now and in their order, or *)
(* by the price ranges; a price range cannot be divided and the run is over.   *)
Facets(f) == {CountryOf[s] : s \in Matching(f)} \ {NoCountry}

Partitions(f) ==
    IF f.country = All
    THEN {[i \in DOMAIN cs |-> Search(f.sub, cs[i], <<All>>)] : cs \in SetToSeqs(Facets(f))}
    ELSE {[i \in DOMAIN PriceRanges |-> Search(f.sub, f.country, PriceRanges[i])]}

SearchCapped ==
    /\ Running /\ todo # <<>> /\ next = 1 /\ OverCap(Head(todo))
    /\ Head(todo).range = <<All>>
    /\ capped' = capped \union {Head(todo)}
    /\ \E parts \in Partitions(Head(todo)) : todo' = parts \o Tail(todo)
    /\ UNCHANGED <<catalogue, column, known, next, pages, collected, held, moved, changes>>

Stop ==
    /\ known' = Idle /\ todo' = <<>> /\ next' = 1 /\ pages' = 0 /\ collected' = <<>>
    /\ held' = [s \in Skus |-> {}] /\ moved' = {} /\ capped' = {}

(* A price range over the cap, an error of Adobe's, of the database, a stop. *)
EnrichFails ==
    /\ Running
    /\ Stop
    /\ UNCHANGED <<catalogue, column, changes>>

(* Mutant: the rows are looked up again before writing. *)
KnownNow == DOMAIN column
Known == known[2]

Written == DOMAIN collected \intersect Known

EnrichWrite ==
    /\ Running /\ todo = <<>>
    /\ column' = [s \in DOMAIN column |-> IF s \in Written THEN collected[s] ELSE column[s]]
    /\ Stop
    /\ UNCHANGED <<catalogue, changes>>

EnrichmentNext ==
    \/ \E s \in Skus : Delist(s) \/ Relist(s) \/ Reprice(s) \/ Retaste(s) \/ ScrapeInserts(s)
    \/ EnrichBegins \/ SearchPage \/ SearchCapped \/ EnrichFails \/ EnrichWrite

EnrichmentSpec == EnrichmentInit /\ [][EnrichmentNext]_enrichVars

-----------------------------------------------------------------------------
(* Which wines a run that writes may have left out, of those in the table at  *)
(* its start and listed with attributes all along: one whose place in the      *)
(* pages moved, one without a country in a subcategory that was partitioned,   *)
(* one whose price is in no range in a country that was. (The partitions of    *)
(* _collect_subcategory cover the rest.)                                       *)
OutOfPartitions(s) ==
    \/ \E f \in capped : f.country = All /\ f.sub = SubcategoryOf[s]
                           /\ CountryOf[s] = NoCountry
    \/ \E f \in capped : f.country = CountryOf[s] /\ f.sub = SubcategoryOf[s]
                           /\ \A i \in DOMAIN PriceRanges : ~Between(price[s], PriceRanges[i])
LeftOut(s) == s \in known[2] /\ NoAttributes \notin held[s] /\ s \notin Written
CoverageExplained ==
    [][EnrichWrite => \A s \in Skus : LeftOut(s) => s \in moved \/ OutOfPartitions(s)]_enrichVars

(* A run writes all it collected or nothing, only rows that were there when it *)
(* began, and only what Adobe gave for that wine in the meantime.              *)
Promise == INSTANCE EnrichmentRun WITH adobe <- Adobe
KeepsPromise == Promise!RunSpec
=============================================================================
