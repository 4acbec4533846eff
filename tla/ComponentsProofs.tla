-------------------------- MODULE ComponentsProofs --------------------------
(***************************************************************************)
(* Proofs about the components that share no state with the others: for    *)
(* each, the invariant its property needs, that every action keeps it, and *)
(* the property. Lemmas on sequences and numbers stand where first needed. *)
(* At the end, what holds of all of them together.                         *)
(***************************************************************************)
EXTENDS MCComponents, CellarProofs, TastingNotesProofs, FiniteSetTheorems,
        SequenceTheorems, WellFoundedInduction, TLAPS

-----------------------------------------------------------------------------
(* The enrichment: what the run keeps is what Adobe gave, and its searches    *)
(* cover what does not move.                                                  *)

Collections == UNION {[D -> Wines] : D \in SUBSET Skus}

(* What a run holds is of its own time.                                       *)
RunInv ==
    /\ listed \subseteq Skus /\ attributes \in [Skus -> Wines \union {NoAttributes}]
    /\ price \in [Skus -> Prices]
    /\ column \in UNION {[D -> Wines \union {NoAttributes}] : D \in SUBSET Skus}
    /\ known = Idle \/ known \in {"running"} \X SUBSET Skus
    /\ held \in [Skus -> SUBSET (Wines \union {NoAttributes})]
    /\ collected \in Collections
    /\ \A s \in DOMAIN collected : collected[s] \in held[s]
    /\ Running => \A s \in Skus : Adobe[s] \in held[s]

(* The wine's page of the first search left is still to come; any page of the  *)
(* others is.                                                                 *)
ToCome(s, k) ==
    /\ Matches(s, todo[k])
    /\ k = 1 /\ next > 1 => /\ (next - 1) * PageSize < Place(s, todo[1])
                            /\ Place(s, todo[1]) <= pages * PageSize

Reached(s) ==
    s \in DOMAIN collected \/ OutOfPartitions(s) \/ \E k \in 1..Len(todo) : ToCome(s, k)

Steady(s) == s \notin moved /\ NoAttributes \notin held[s]

CoverInv ==
    /\ todo \in Seq(Searches) /\ next \in Nat \ {0} /\ pages \in Nat
    /\ Running => \A s \in Skus : Steady(s) => Reached(s)

LEMMA AdobeTyped ==
    ASSUME RunInv
    PROVE  Adobe \in [Skus -> Wines \union {NoAttributes}]
  BY DEF RunInv, Adobe

LEMMA HoldGrows ==
    ASSUME RunInv, Adobe' \in [Skus -> Wines \union {NoAttributes}], Hold,
           UNCHANGED known
    PROVE  /\ held' \in [Skus -> SUBSET (Wines \union {NoAttributes})]
           /\ \A s \in Skus : held[s] \subseteq held'[s]
           /\ Running => \A s \in Skus : Adobe'[s] \in held'[s]
           /\ held' = IF known = Idle THEN held
                      ELSE [s \in Skus |-> held[s] \union {Adobe'[s]}]
  BY DEF Hold, RunInv, Running

LEMMA RunInit == EnrichmentInit => RunInv
  <1> SUFFICES ASSUME EnrichmentInit PROVE RunInv OBVIOUS
  <1>1. /\ collected \in [{} -> Wines] /\ column \in [{} -> Wines \union {NoAttributes}]
        /\ DOMAIN collected = {}
    BY DEF EnrichmentInit
  <1>2. collected \in Collections /\ column \in UNION {[D -> Wines \union {NoAttributes}] : D \in SUBSET Skus}
    BY <1>1 DEF Collections
  <1> QED
    BY <1>1, <1>2, WineEnrichmentAssumption DEF EnrichmentInit, RunInv, Running

(* What Adobe changes, a run that is under way has held.                      *)
LEMMA AdobeStep ==
    ASSUME RunInv, NEW s \in Skus, Delist(s) \/ Relist(s) \/ Reprice(s) \/ Retaste(s)
    PROVE  /\ RunInv' /\ Promise!AdobeChanges
           /\ \A x \in Skus : held[x] \subseteq held'[x]
  <1> DEFINE Tastes == Wines \union {NoAttributes}
  <1>1. /\ listed' \subseteq Skus /\ attributes' \in [Skus -> Tastes] /\ price' \in [Skus -> Prices]
    BY DEF RunInv, Delist, Relist, Reprice, Retaste
  <1>2. Adobe' \in [Skus -> Tastes]
    BY <1>1 DEF Adobe
  <1>3. Hold /\ UNCHANGED <<column, known, collected>>
    BY DEF Delist, Relist, Reprice, Retaste, Change, progress
  <1>4. /\ held' \in [Skus -> SUBSET Tastes] /\ \A x \in Skus : held[x] \subseteq held'[x]
        /\ Running => \A x \in Skus : Adobe'[x] \in held'[x]
        /\ held' = IF known = Idle THEN held ELSE [x \in Skus |-> held[x] \union {Adobe'[x]}]
    BY <1>2, <1>3, HoldGrows
  <1>5. \A x \in DOMAIN collected' : collected'[x] \in held'[x]
    <2>1. DOMAIN collected \subseteq Skus
      BY DEF RunInv, Collections
    <2> QED
      BY <1>3, <1>4, <2>1 DEF RunInv
  <1>6. RunInv'
    BY <1>1, <1>3, <1>4, <1>5 DEF RunInv, Running
  <1>7. Promise!AdobeChanges
    BY <1>2, <1>3, <1>4
       DEF Promise!AdobeChanges, Promise!AttributeSets, Promise!NoAttributes, Promise!NotRunning,
           NoAttributes, Idle
  <1> QED
    BY <1>4, <1>6, <1>7

LEMMA InsertStep ==
    ASSUME RunInv, NEW s \in Skus, ScrapeInserts(s)
    PROVE  RunInv' /\ Promise!NewRow
  <1> DEFINE Tastes == Wines \union {NoAttributes}
  <1>1. PICK D \in SUBSET Skus : column \in [D -> Tastes]
    BY DEF RunInv
  <1>2. column' \in [D \union {s} -> Tastes]
    BY <1>1 DEF ScrapeInserts
  <1>3. column' \in UNION {[E -> Tastes] : E \in SUBSET Skus}
    BY <1>1, <1>2
  <1>4. UNCHANGED <<listed, attributes, price, known, collected, held>>
    BY DEF ScrapeInserts, catalogue, progress
  <1>5. Adobe' = Adobe
    BY <1>4 DEF Adobe
  <1>6. RunInv'
    BY <1>3, <1>4, <1>5 DEF RunInv, Running
  <1>7. Promise!NewRow
    BY <1>4, <1>5 DEF ScrapeInserts, Promise!NewRow, Promise!NoAttributes, NoAttributes
  <1> QED
    BY <1>6, <1>7

LEMMA BeginStep ==
    ASSUME RunInv, EnrichBegins
    PROVE  RunInv' /\ Promise!RunBegins
  <1> DEFINE Tastes == Wines \union {NoAttributes}
  <1>1. UNCHANGED <<listed, attributes, price, column>> /\ Adobe' = Adobe
    BY DEF EnrichBegins, catalogue, Adobe
  <1>2. DOMAIN column \subseteq Skus /\ Adobe \in [Skus -> Tastes]
    BY AdobeTyped DEF RunInv
  <1>3. held' = [s \in Skus |-> {Adobe[s]}] /\ known' = <<"running", DOMAIN column>>
        /\ collected' = <<>> /\ known = Idle
    BY DEF EnrichBegins, Running
  <1>4. collected' \in Collections /\ DOMAIN collected' = {}
    <2>1. collected' \in [{} -> Wines]
      BY <1>3
    <2> QED
      BY <2>1 DEF Collections
  <1>5. held' \in [Skus -> SUBSET Tastes] /\ \A s \in Skus : Adobe'[s] \in held'[s]
    BY <1>1, <1>2, <1>3
  <1>6. RunInv'
    BY <1>1, <1>2, <1>3, <1>4, <1>5 DEF RunInv
  <1>7. Promise!RunBegins
    BY <1>1, <1>3 DEF Promise!RunBegins, Promise!NotRunning, Idle
  <1> QED
    BY <1>6, <1>7

LEMMA PageStep ==
    ASSUME RunInv, SearchPage
    PROVE  RunInv' /\ UNCHANGED <<Adobe, column, known, held>>
  <1>1. PICK items \in SUBSET {s \in Skus : s \in listed} : collected' = Collect(items)
    BY DEF SearchPage, PageOf, Matching, Matches
  <1>2. UNCHANGED <<listed, attributes, price, column, known, held>> /\ Adobe' = Adobe
    BY DEF SearchPage, catalogue, Adobe
  <1>3. PICK D \in SUBSET Skus : collected \in [D -> Wines]
    BY DEF RunInv, Collections
  <1>4. \A s \in Keep(items) : s \in Skus /\ attributes[s] \in Wines /\ Adobe[s] = attributes[s]
    BY DEF Keep, RunInv, Adobe
  <1>5. collected' \in [D \union Keep(items) -> Wines]
    BY <1>1, <1>3, <1>4 DEF Collect
  <1>6. D \union Keep(items) \in SUBSET Skus
    BY <1>4
  <1>7. collected' \in Collections
    BY <1>5, <1>6 DEF Collections
  <1>8. ASSUME NEW s \in DOMAIN collected' PROVE collected'[s] \in held'[s]
    <2>1. s \in D \union Keep(items)
      BY <1>5, <1>8
    <2>2. collected'[s] = IF s \in Keep(items) THEN attributes[s] ELSE collected[s]
      BY <1>1, <1>3, <2>1 DEF Collect
    <2>3. Running
      BY DEF SearchPage
    <2> QED
      BY <1>2, <1>3, <1>4, <2>1, <2>2, <2>3 DEF RunInv
  <1> QED
    BY <1>2, <1>7, <1>8 DEF RunInv, Running

LEMMA StopStep ==
    ASSUME RunInv, Stop, UNCHANGED catalogue,
           column' \in UNION {[D -> Wines \union {NoAttributes}] : D \in SUBSET Skus}
    PROVE  RunInv' /\ Adobe' = Adobe
  <1>1. collected' \in Collections /\ DOMAIN collected' = {}
    <2>1. collected' \in [{} -> Wines]
      BY DEF Stop
    <2> QED
      BY <2>1 DEF Collections
  <1>2. UNCHANGED <<listed, attributes, price>> /\ Adobe' = Adobe
    BY DEF catalogue, Adobe
  <1> QED
    BY <1>1, <1>2 DEF RunInv, Stop, Running

LEMMA FailStep ==
    ASSUME RunInv, EnrichFails
    PROVE  RunInv' /\ Promise!RunEnds
  <1>1. RunInv' /\ Adobe' = Adobe /\ UNCHANGED column
    BY StopStep DEF EnrichFails, RunInv
  <1> QED
    BY <1>1 DEF EnrichFails, Stop, Running, Idle, Promise!RunEnds, Promise!NotRunning

LEMMA WriteStep ==
    ASSUME RunInv, EnrichWrite
    PROVE  RunInv' /\ Promise!RunEnds
  <1> DEFINE Tastes == Wines \union {NoAttributes}
  <1>1. PICK D \in SUBSET Skus : column \in [D -> Tastes]
    BY DEF RunInv
  <1>2. \A s \in Written : collected[s] \in Wines /\ collected[s] \in held[s] /\ s \in known[2]
    BY DEF Written, Known, RunInv, Collections
  <1>3. column' = [s \in D |-> IF s \in Written THEN collected[s] ELSE column[s]]
    BY <1>1 DEF EnrichWrite
  <1>4. column' \in [D -> Tastes]
    BY <1>1, <1>2, <1>3
  <1>5. column' \in UNION {[E -> Tastes] : E \in SUBSET Skus}
    BY <1>4
  <1>6. RunInv' /\ Adobe' = Adobe
    BY <1>5, StopStep DEF EnrichWrite
  <1>7. ASSUME NEW s \in DOMAIN column, column'[s] # column[s]
        PROVE  s \in known[2] /\ column'[s] \in held[s] \intersect Wines
    BY <1>1, <1>2, <1>3, <1>7
  <1> QED
    BY <1>1, <1>4, <1>6, <1>7
       DEF EnrichWrite, Stop, Running, Idle, Promise!RunEnds, Promise!NotRunning

(* Every step of the run, as the abstract run sees it.                        *)
LEMMA RunStep ==
    ASSUME RunInv, [EnrichmentNext]_enrichVars
    PROVE  RunInv' /\ [Promise!RunNext]_(Promise!runVars)
  <1> USE DEF Promise!RunNext, Promise!runVars
  <1>1. CASE \E s \in Skus : Delist(s) \/ Relist(s) \/ Reprice(s) \/ Retaste(s)
    BY <1>1, AdobeStep
  <1>2. CASE \E s \in Skus : ScrapeInserts(s)
    BY <1>2, InsertStep
  <1>3. CASE EnrichBegins
    BY <1>3, BeginStep
  <1>4. CASE SearchPage
    BY <1>4, PageStep
  <1>5. CASE SearchCapped
    <2>1. UNCHANGED <<listed, attributes, price, column, known, held, collected>>
      BY <1>5 DEF SearchCapped, catalogue
    <2>2. Adobe' = Adobe
      BY <2>1 DEF Adobe
    <2> QED
      BY <2>1, <2>2 DEF RunInv, Running
  <1>6. CASE EnrichFails
    BY <1>6, FailStep
  <1>7. CASE EnrichWrite
    BY <1>7, WriteStep
  <1>8. CASE UNCHANGED enrichVars
    <2>1. UNCHANGED <<listed, attributes, price, column, known, held, collected>>
      BY <1>8 DEF enrichVars, catalogue, progress
    <2>2. Adobe' = Adobe
      BY <2>1 DEF Adobe
    <2> QED
      BY <2>1, <2>2 DEF RunInv, Running
  <1> QED
    BY <1>1, <1>2, <1>3, <1>4, <1>5, <1>6, <1>7, <1>8 DEF EnrichmentNext

LEMMA RunInvariant == EnrichmentSpec => []RunInv
  BY RunInit, RunStep, PTL DEF EnrichmentSpec

(* The enrichment keeps the promise of the abstract run: it writes all it      *)
(* collected or nothing, and only what Adobe gave.                            *)
THEOREM EnrichmentKeepsPromise == EnrichmentSpec => KeepsPromise
  <1>1. EnrichmentInit => Promise!RunInit
    <2>1. EnrichmentInit => RunInv
      BY RunInit
    <2>2. RunInv => Adobe \in [Skus -> Wines \union {NoAttributes}]
      BY AdobeTyped
    <2> QED
      BY <2>1, <2>2 DEF EnrichmentInit, Promise!RunInit, Promise!AttributeSets,
         Promise!NoAttributes, Promise!NotRunning, NoAttributes, Idle
  <1>2. RunInv /\ [EnrichmentNext]_enrichVars => [Promise!RunNext]_(Promise!runVars)
    BY RunStep
  <1> QED
    BY <1>1, <1>2, RunInvariant, PTL DEF EnrichmentSpec, KeepsPromise, Promise!RunSpec
-----------------------------------------------------------------------------
(* The numbers of pages.                                                      *)
LEMMA PagesOrdered ==
    ASSUME NEW a \in Nat, NEW b \in Nat, NEW p \in Nat, a <= b
    PROVE  a * p <= b * p
  <1>1. PICK d \in Nat : b = a + d
    BY b - a \in Nat
  <1>2. b * p = a * p + d * p
    BY <1>1
  <1>3. d * p >= 0 /\ d * p \in Int /\ a * p \in Int
    OBVIOUS
  <1> QED
    BY <1>2, <1>3

LEMMA PagesCount ==
    ASSUME NEW n \in Nat
    PROVE  PageCount(n) \in Nat /\ n <= PageCount(n) * PageSize
  <1>1. PageSize \in Nat /\ PageSize > 0
    BY WineEnrichmentAssumption
  <1> DEFINE q == (n + PageSize - 1) \div PageSize
             r == (n + PageSize - 1) % PageSize
  <1>2. q \in Nat /\ r \in 0..(PageSize - 1) /\ n + PageSize - 1 = q * PageSize + r
    BY <1>1
  <1> HIDE DEF q, r
  <1>3. q * PageSize \in Int
    BY <1>1, <1>2
  <1>4. n <= q * PageSize
    BY <1>1, <1>2, <1>3
  <1> QED
    BY <1>2, <1>4 DEF PageCount, q

(* A wine that matches has a place, no further than there are matches.        *)
LEMMA PlaceTyped ==
    ASSUME NEW f, NEW s \in Matching(f)
    PROVE  /\ Place(s, f) \in Nat \ {0} /\ Place(s, f) <= Cardinality(Matching(f))
           /\ Cardinality(Matching(f)) \in Nat
  <1> DEFINE upto == {x \in Matching(f) : RankOf[x] <= RankOf[s]}
  <1>1. IsFiniteSet(Matching(f))
    BY FS_Subset, WineEnrichmentAssumption DEF Matching
  <1>2. IsFiniteSet(upto) /\ Cardinality(upto) <= Cardinality(Matching(f))
    BY <1>1, FS_Subset
  <1>3. s \in upto
    BY WineEnrichmentAssumption DEF Matching
  <1>4. Cardinality(upto) \in Nat /\ Cardinality(upto) # 0
    BY <1>2, <1>3, FS_CardinalityType, FS_EmptySet
  <1>5. Cardinality(Matching(f)) \in Nat
    BY <1>1, FS_CardinalityType
  <1> QED
    BY <1>2, <1>4, <1>5 DEF Place

-----------------------------------------------------------------------------
(* A steady wine is listed, with attributes.                                  *)
LEMMA SteadyListed ==
    ASSUME RunInv, Running, NEW s \in Skus, NoAttributes \notin held[s]
    PROVE  s \in listed /\ attributes[s] # NoAttributes
  BY DEF RunInv, Adobe

(* Whatever Adobe changes, a wine that did not move keeps its place, and what  *)
(* comes before it in the pages.                                              *)
LEMMA NothingMoved ==
    ASSUME RunInv, Running, NEW x \in Skus, Delist(x) \/ Relist(x) \/ Reprice(x) \/ Retaste(x),
           NEW s \in Skus, s \notin moved'
    PROVE  /\ s \notin moved
           /\ price'[s] = price[s]
           /\ \A f : Matches(s, f) <=> Matches(s, f)'
           /\ \A f : Place(s, f)' = Place(s, f)
  <1>1. RankOf \in [Skus -> Nat] /\ price \in [Skus -> Prices]
    BY WineEnrichmentAssumption DEF RunInv
  <1>2. CASE Retaste(x)
    <2>1. UNCHANGED <<listed, price, moved>>
      BY <1>2 DEF Retaste
    <2> QED
      BY <2>1 DEF Matches, Place, Matching
  <1>3. CASE Delist(x) \/ Relist(x) \/ Reprice(x)
    <2>1. moved' = moved \union From(x)
      BY <1>3 DEF Delist, Relist, Reprice, Shift
    <2>2. s \notin moved /\ ~(RankOf[x] <= RankOf[s])
      BY <2>1 DEF From
    <2>3. ASSUME NEW y \in Skus, RankOf[y] <= RankOf[s]
          PROVE  (y \in listed <=> y \in listed') /\ price'[y] = price[y]
      <3>1. y # x
        BY <2>2, <2>3
      <3> QED
        BY <1>1, <1>3, <3>1 DEF Delist, Relist, Reprice
    <2>4. ASSUME NEW y \in Skus, RankOf[y] <= RankOf[s], NEW f
          PROVE  Matches(y, f) <=> Matches(y, f)'
      BY <2>3, <2>4 DEF Matches
    <2>5. ASSUME NEW f
          PROVE  {y \in Matching(f) : RankOf[y] <= RankOf[s]}
                   = {y \in Matching(f)' : RankOf[y] <= RankOf[s]}
      BY <2>4 DEF Matching
    <2>6. RankOf[s] <= RankOf[s]
      BY <1>1
    <2>7. \A f : Place(s, f)' = Place(s, f)
      BY <2>5 DEF Place
    <2> QED
      BY <2>2, <2>3, <2>4, <2>6, <2>7
  <1> QED
    BY <1>2, <1>3

LEMMA CoverAdobe ==
    ASSUME RunInv, CoverInv, NEW x \in Skus, Delist(x) \/ Relist(x) \/ Reprice(x) \/ Retaste(x)
    PROVE  CoverInv'
  <1>1. UNCHANGED <<todo, next, pages, collected, known, capped>>
    BY DEF Delist, Relist, Reprice, Retaste, Change, progress
  <1>2. ASSUME Running, NEW s \in Skus, Steady(s)' PROVE Reached(s)'
    <2>1. /\ s \notin moved /\ price'[s] = price[s]
          /\ \A f : Matches(s, f) <=> Matches(s, f)'
          /\ \A f : Place(s, f)' = Place(s, f)
      BY <1>2, NothingMoved DEF Steady
    <2>2. held[s] \subseteq held'[s]
      BY AdobeStep
    <2>3. Reached(s)
      BY <1>2, <2>1, <2>2 DEF Steady, CoverInv
    <2>4. OutOfPartitions(s) => OutOfPartitions(s)'
      BY <1>1, <2>1 DEF OutOfPartitions
    <2>5. ASSUME NEW k \in 1..Len(todo), ToCome(s, k) PROVE ToCome(s, k)'
      <3>1. PICK f, g : f = todo[k] /\ g = todo[1]
        OBVIOUS
      <3>2. Matches(s, f) /\ (k = 1 /\ next > 1 => /\ (next - 1) * PageSize < Place(s, g)
                                                   /\ Place(s, g) <= pages * PageSize)
        BY <2>5, <3>1 DEF ToCome
      <3> QED
        BY <1>1, <2>1, <3>1, <3>2 DEF ToCome
    <2> QED
      BY <1>1, <2>3, <2>4, <2>5 DEF Reached
  <1> QED
    BY <1>1, <1>2 DEF CoverInv, Running

LEMMA CoverBegins ==
    ASSUME RunInv, RunInv', CoverInv, EnrichBegins
    PROVE  CoverInv'
  <1>1. /\ todo' = [i \in DOMAIN Subcategories |-> Search(Subcategories[i], All, <<All>>)]
        /\ next' = 1 /\ pages' = 0
    BY DEF EnrichBegins
  <1>2. Subcategories \in Seq(ToSet(Subcategories))
    BY WineEnrichmentAssumption
  <1>3. DOMAIN Subcategories = 1..Len(Subcategories) /\ Len(Subcategories) \in Nat
    BY <1>2
  <1>4. \A i \in 1..Len(Subcategories) : Search(Subcategories[i], All, <<All>>) \in Searches
    BY <1>3 DEF Search, Searches, Ranges, ToSet
  <1>5. todo' \in Seq(Searches) /\ Len(todo') = Len(Subcategories)
    BY <1>1, <1>3, <1>4
  <1>6. ASSUME Running', NEW s \in Skus, Steady(s)' PROVE Reached(s)'
    <2>1. s \in listed'
      BY <1>6 DEF Steady, RunInv, Adobe
    <2>2. PICK i \in 1..Len(Subcategories) : Subcategories[i] = SubcategoryOf[s]
      BY <1>3, WineEnrichmentAssumption DEF ToSet
    <2>3. todo'[i] = Search(SubcategoryOf[s], All, <<All>>)
      BY <1>1, <1>3, <2>2
    <2>4. Matches(s, Search(SubcategoryOf[s], All, <<All>>))'
      BY <2>1 DEF Matches, Search
    <2> QED
      BY <1>1, <1>5, <2>2, <2>3, <2>4 DEF Reached, ToCome
  <1> QED
    BY <1>1, <1>5, <1>6 DEF CoverInv

LEMMA CoverPage ==
    ASSUME RunInv, CoverInv, SearchPage
    PROVE  CoverInv'
  <1> DEFINE f == todo[1]
             total == Cardinality(Matching(f))
  <1>1. /\ Running /\ todo \in Seq(Searches) /\ todo # <<>> /\ Head(todo) = f
        /\ next \in Nat \ {0} /\ pages \in Nat
    BY DEF SearchPage, CoverInv
  <1>2. PICK announced : announced = IF next = 1 THEN PageCount(total) ELSE pages
    OBVIOUS
  <1>3. /\ collected' = Collect(PageOf(f, next))
        /\ IF next < announced
           THEN next' = next + 1 /\ pages' = announced /\ todo' = todo
           ELSE next' = 1 /\ pages' = 0 /\ todo' = Tail(todo)
        /\ UNCHANGED <<listed, attributes, price, known, held, moved, capped>>
    BY <1>1, <1>2 DEF SearchPage, catalogue
  <1>4. total \in Nat
    <2>1. IsFiniteSet(Matching(f))
      BY FS_Subset, WineEnrichmentAssumption DEF Matching
    <2> QED
      BY <2>1, FS_CardinalityType
  <1>5. announced \in Nat
    BY <1>1, <1>2, <1>4, PagesCount
  <1>6. /\ todo' \in Seq(Searches) /\ next' \in Nat \ {0} /\ pages' \in Nat
    BY <1>1, <1>3, <1>5
  <1>7. ASSUME NEW s \in Skus, Steady(s)' PROVE Reached(s)'
    <2>1. Reached(s) /\ Steady(s)
      BY <1>1, <1>3, <1>7 DEF Steady, CoverInv
    <2>2. OutOfPartitions(s) => OutOfPartitions(s)'
      BY <1>3 DEF OutOfPartitions
    <2>3. s \in DOMAIN collected => s \in DOMAIN collected'
      BY <1>3 DEF Collect
    <2>4. \A g : (Matches(s, g) <=> Matches(s, g)') /\ Place(s, g)' = Place(s, g)
      BY <1>3 DEF Matches, Place, Matching
    <2>5. ASSUME NEW k \in 2..Len(todo), Matches(s, todo[k]) PROVE Reached(s)'
      <3>1. CASE next < announced
        <4>1. ToCome(s, k)'
          BY <1>3, <2>4, <2>5, <3>1 DEF ToCome
        <4> QED
          BY <1>3, <3>1, <4>1 DEF Reached
      <3>2. CASE ~(next < announced)
        <4>1. todo' = Tail(todo) /\ next' = 1
          BY <1>3, <3>2
        <4>2. k - 1 \in 1..Len(todo') /\ todo'[k - 1] = todo[k]
          BY <1>1, <4>1
        <4>4. PICK g : g = todo[k]
          OBVIOUS
        <4>5. Matches(s, g)' /\ todo'[k - 1] = g
          BY <2>4, <2>5, <4>2, <4>4
        <4>6. PICK j : j = k - 1
          OBVIOUS
        <4>7. ToCome(s, j)' /\ j \in 1..Len(todo')
          BY <4>1, <4>2, <4>5, <4>6 DEF ToCome
        <4> QED
          BY <4>7 DEF Reached
      <3> QED
        BY <3>1, <3>2
    <2>6. ASSUME 1 \in 1..Len(todo), ToCome(s, 1) PROVE Reached(s)'
      <3>1. s \in Matching(f)
        BY <2>6 DEF ToCome, Matching
      <3>2. PICK p : p = Place(s, f)
        OBVIOUS
      <3>3. p \in Nat \ {0} /\ p <= total
        BY <3>1, <3>2, PlaceTyped
      <3>4. (next - 1) * PageSize < p
        BY <1>1, <2>6, <3>2, <3>3, WineEnrichmentAssumption DEF ToCome
      <3>5. p <= announced * PageSize
        <4>1. CASE next = 1
          <5>1. announced = PageCount(total)
            BY <1>2, <4>1
          <5>2. total <= announced * PageSize
            BY <1>4, <5>1, PagesCount
          <5>3. announced * PageSize \in Int
            BY <1>5, WineEnrichmentAssumption
          <5> QED
            BY <1>4, <3>3, <5>2, <5>3
        <4>2. CASE next # 1
          BY <1>1, <1>2, <2>6, <3>2, <4>2 DEF ToCome
        <4> QED
          BY <4>1, <4>2
      <3>6. CASE p <= next * PageSize
        <4>1. s \in PageOf(f, next)
          BY <3>1, <3>2, <3>4, <3>6 DEF PageOf
        <4>2. attributes[s] # NoAttributes
          BY <1>1, <2>1, SteadyListed DEF Steady
        <4>3. s \in DOMAIN collected'
          BY <1>3, <4>1, <4>2 DEF Collect, Keep
        <4> QED
          BY <4>3 DEF Reached
      <3>7. CASE ~(p <= next * PageSize)
        <4>1. next < announced
          <5>1. CASE announced <= next
            <6>1. announced * PageSize <= next * PageSize
              BY <1>1, <1>5, <5>1, PagesOrdered, WineEnrichmentAssumption
            <6>2. announced * PageSize \in Int /\ next * PageSize \in Int
              BY <1>1, <1>5, WineEnrichmentAssumption
            <6> QED
              BY <3>3, <3>5, <3>7, <6>1, <6>2
          <5> QED
            BY <1>1, <1>5, <5>1
        <4>2. next' = next + 1 /\ pages' = announced /\ todo' = todo
          BY <1>3, <4>1
        <4>3. next' - 1 = next
          BY <1>1, <4>2
        <4>4. next * PageSize \in Int
          BY <1>1, WineEnrichmentAssumption
        <4>5. (next' - 1) * PageSize < p /\ p <= pages' * PageSize
          BY <3>3, <3>5, <3>7, <4>2, <4>3, <4>4
        <4>6. PICK g : g = todo[1]
          OBVIOUS
        <4>7. Matches(s, g)' /\ Place(s, g)' = p /\ todo'[1] = g
          BY <2>4, <2>6, <3>2, <4>2, <4>6 DEF ToCome
        <4>8. ToCome(s, 1)'
          BY <4>5, <4>7 DEF ToCome
        <4> QED
          BY <2>6, <4>2, <4>8 DEF Reached
      <3> QED
        BY <3>6, <3>7
    <2>7. ASSUME NEW k \in 1..Len(todo), ToCome(s, k) PROVE Reached(s)'
      <3>1. k = 1 \/ k \in 2..Len(todo)
        BY <1>1
      <3> QED
        BY <2>5, <2>6, <2>7, <3>1 DEF ToCome
    <2> QED
      BY <2>1, <2>2, <2>3, <2>7 DEF Reached
  <1> QED
    BY <1>6, <1>7 DEF CoverInv

(* Whatever order the facets come in, each of their countries has a search.   *)
LEMMA EachCountry ==
    ASSUME NEW S, IsFiniteSet(S), NEW cs \in SetToSeqs(S)
    PROVE  cs \in Seq(S) /\ \A c \in S : \E i \in 1..Len(cs) : cs[i] = c
  <1>1. Cardinality(S) \in Nat
    BY FS_CardinalityType
  <1>2. cs \in [1..Cardinality(S) -> S] /\ \A i, j \in 1..Cardinality(S) : i # j => cs[i] # cs[j]
    BY DEF SetToSeqs
  <1>3. cs \in Seq(S) /\ Len(cs) = Cardinality(S)
    BY <1>1, <1>2
  <1>4. cs \in Injection(1..Cardinality(S), S)
    BY <1>2 DEF Injection, IsInjective
  <1>5. Cardinality(1..Cardinality(S)) = Cardinality(S)
    BY <1>1, FS_Interval
  <1>6. IsFiniteSet(1..Cardinality(S))
    BY <1>1, FS_Interval
  <1>7. cs \in Surjection(1..Cardinality(S), S)
    BY <1>4, <1>5, FS_Injection
  <1> QED
    BY <1>3, <1>7 DEF Surjection

(* A capped search is replaced by parts that reach what it would have, but     *)
(* what is in no partition.                                                   *)
LEMMA CoverParts ==
    ASSUME RunInv, CoverInv, SearchCapped, NEW f, f = todo[1], NEW parts \in Seq(Searches),
           todo' = parts \o Tail(todo),
           \A s \in Skus : Matches(s, f) =>
              OutOfPartitions(s)' \/ \E i \in 1..Len(parts) : Matches(s, parts[i])
    PROVE  CoverInv'
  <1>1. /\ Running /\ todo \in Seq(Searches) /\ todo # <<>> /\ next = 1 /\ pages \in Nat
        /\ Head(todo) = f
    BY DEF SearchCapped, CoverInv
  <1>2. /\ UNCHANGED <<listed, attributes, price, known, held, moved, collected, next, pages>>
        /\ capped \subseteq capped'
    BY DEF SearchCapped, catalogue
  <1>3. /\ Len(parts) \in Nat /\ Len(todo) \in Nat /\ Len(todo') = Len(parts) + Len(todo) - 1
        /\ \A i \in 1..Len(parts) : todo'[i] = parts[i]
        /\ \A k \in 2..Len(todo) : todo'[Len(parts) + k - 1] = todo[k]
        /\ todo' \in Seq(Searches)
    BY <1>1
  <1>4. ASSUME NEW s \in Skus, Steady(s)' PROVE Reached(s)'
    <2>1. Reached(s)
      BY <1>1, <1>2, <1>4 DEF Steady, CoverInv
    <2>2. ASSUME NEW j \in 1..Len(todo'), NEW g, todo'[j] = g, Matches(s, g) PROVE Reached(s)'
      <3>1. Matches(s, g)'
        BY <1>2, <2>2 DEF Matches
      <3>2. ToCome(s, j)'
        BY <1>1, <1>2, <2>2, <3>1 DEF ToCome
      <3> QED
        BY <2>2, <3>2 DEF Reached
    <2>3. ASSUME NEW k \in 1..Len(todo), ToCome(s, k) PROVE Reached(s)'
      <3>1. CASE k = 1
        <4>1. OutOfPartitions(s)' => Reached(s)'
          BY DEF Reached
        <4>2. ASSUME NEW i \in 1..Len(parts), Matches(s, parts[i]) PROVE Reached(s)'
          <5>1. i \in 1..Len(todo')
            BY <1>1, <1>3
          <5> QED
            BY <1>3, <2>2, <4>2, <5>1
        <4> QED
          BY <2>3, <3>1, <4>1, <4>2 DEF ToCome
      <3>2. CASE k # 1
        <4>1. k \in 2..Len(todo) /\ Len(parts) + k - 1 \in 1..Len(todo')
          BY <1>3, <3>2
        <4>2. Matches(s, todo[k]) /\ todo'[Len(parts) + k - 1] = todo[k]
          BY <1>3, <2>3, <4>1 DEF ToCome
        <4> QED
          BY <2>2, <4>1, <4>2
      <3> QED
        BY <3>1, <3>2
    <2> QED
      BY <1>2, <2>1, <2>3 DEF Reached, OutOfPartitions
  <1> QED
    BY <1>1, <1>2, <1>3, <1>4 DEF CoverInv

LEMMA CoverCapped ==
    ASSUME RunInv, CoverInv, SearchCapped
    PROVE  CoverInv'
  <1>1. PICK f : f = todo[1]
    OBVIOUS
  <1>2. /\ Running /\ todo \in Seq(Searches) /\ todo # <<>> /\ Head(todo) = f /\ next = 1
        /\ f \in Searches /\ pages \in Nat /\ 1 \in 1..Len(todo)
    BY <1>1 DEF SearchCapped, CoverInv
  <1>3. PICK parts \in Partitions(f) : todo' = parts \o Tail(todo)
    BY <1>2 DEF SearchCapped
  <1>4. /\ UNCHANGED <<listed, attributes, price, known, held, moved, collected, next, pages>>
        /\ capped' = capped \union {f}
    BY <1>2 DEF SearchCapped, catalogue
  <1>5. IsFiniteSet(Facets(f)) /\ Facets(f) \subseteq Countries
    <2>1. IsFiniteSet(Matching(f)) /\ Matching(f) \subseteq Skus
      BY FS_Subset, WineEnrichmentAssumption DEF Matching
    <2> DEFINE image == {CountryOf[s] : s \in Matching(f)}
    <2>2. IsFiniteSet(image)
      <3>1. [s \in Matching(f) |-> CountryOf[s]] \in Surjection(Matching(f), image)
        BY DEF Surjection
      <3> QED
        BY <2>1, <3>1, FS_Surjection
    <2>3. IsFiniteSet(Facets(f))
      BY <2>2, FS_Subset DEF Facets
    <2> QED
      BY <2>1, <2>3, WineEnrichmentAssumption DEF Facets
  <1>6. CASE f.country = All
    <2>1. PICK cs \in SetToSeqs(Facets(f)) :
             parts = [i \in DOMAIN cs |-> Search(f.sub, cs[i], <<All>>)]
      BY <1>3, <1>6 DEF Partitions
    <2>2. cs \in Seq(Facets(f)) /\ \A c \in Facets(f) : \E i \in 1..Len(cs) : cs[i] = c
      BY <1>5, EachCountry
    <2>3. DOMAIN cs = 1..Len(cs) /\ Len(cs) \in Nat
      BY <2>2
    <2>4. \A i \in 1..Len(cs) : Search(f.sub, cs[i], <<All>>) \in Searches
      BY <1>2, <1>5, <2>2, <2>3 DEF Search, Searches, Ranges
    <2>5. parts \in Seq(Searches) /\ Len(parts) = Len(cs)
      BY <2>1, <2>3, <2>4
    <2>6. ASSUME NEW s \in Skus, Matches(s, f), CountryOf[s] # NoCountry
          PROVE  \E i \in 1..Len(parts) : Matches(s, parts[i])
      <3>1. CountryOf[s] \in Facets(f)
        BY <2>6 DEF Facets, Matching
      <3>2. PICK i \in 1..Len(cs) : cs[i] = CountryOf[s]
        BY <2>2, <3>1
      <3>3. parts[i] = Search(f.sub, CountryOf[s], <<All>>)
        BY <2>1, <2>3, <3>2
      <3>4. Matches(s, Search(f.sub, CountryOf[s], <<All>>))
        BY <2>6 DEF Matches, Search
      <3> QED
        BY <2>5, <3>2, <3>3, <3>4
    <2>7. ASSUME NEW s \in Skus, Matches(s, f), CountryOf[s] = NoCountry PROVE OutOfPartitions(s)'
      BY <1>4, <1>6, <2>7 DEF OutOfPartitions, Matches
    <2> QED
      BY <2>5, <2>6, <2>7, CoverParts, <1>1, <1>3, <1>4
  <1>7. CASE f.country # All
    <2> DEFINE n == Len(PriceRanges)
    <2>1. parts = [i \in DOMAIN PriceRanges |-> Search(f.sub, f.country, PriceRanges[i])]
      BY <1>3, <1>7 DEF Partitions
    <2>2. PriceRanges \in Seq(Nat \X Nat) /\ DOMAIN PriceRanges = 1..n /\ n \in Nat
      BY WineEnrichmentAssumption
    <2>3. \A i \in 1..n : Search(f.sub, f.country, PriceRanges[i]) \in Searches
      BY <1>2, <2>2 DEF Search, Searches, Ranges, ToSet
    <2>4. parts \in Seq(Searches) /\ Len(parts) = n
      BY <2>1, <2>2, <2>3
    <2>5. ASSUME NEW s \in Skus, Matches(s, f), NEW i \in 1..n, Between(price[s], PriceRanges[i])
          PROVE  \E k \in 1..Len(parts) : Matches(s, parts[k])
      <3>1. parts[i] = Search(f.sub, f.country, PriceRanges[i])
        BY <2>1, <2>2
      <3>2. Matches(s, Search(f.sub, f.country, PriceRanges[i]))
        BY <1>7, <2>5 DEF Matches, Search
      <3> QED
        BY <2>4, <3>1, <3>2
    <2>6. ASSUME NEW s \in Skus, Matches(s, f),
                 \A i \in 1..n : ~Between(price[s], PriceRanges[i])
          PROVE  OutOfPartitions(s)'
      BY <1>4, <1>7, <2>2, <2>6 DEF OutOfPartitions, Matches
    <2> QED
      BY <2>4, <2>5, <2>6, CoverParts, <1>1, <1>3, <1>4
  <1> QED
    BY <1>6, <1>7

(* Whatever Adobe changes between two searches, the invariant stands.          *)
LEMMA CoverInvariant == EnrichmentSpec => [](RunInv /\ CoverInv)
  <1>1. EnrichmentInit => CoverInv
    BY DEF EnrichmentInit, CoverInv, Running
  <1>2. RunInv /\ RunInv' /\ CoverInv /\ [EnrichmentNext]_enrichVars => CoverInv'
    <2> SUFFICES ASSUME RunInv, RunInv', CoverInv, [EnrichmentNext]_enrichVars PROVE CoverInv'
      OBVIOUS
    <2>1. ASSUME UNCHANGED <<listed, price, known, progress, held, moved, capped>> PROVE CoverInv'
      BY <2>1 DEF CoverInv, Running, Steady, Reached, OutOfPartitions, ToCome, Place, Matching,
         Matches, progress
    <2>2. ASSUME Stop PROVE CoverInv'
      BY <2>2 DEF Stop, CoverInv, Running
    <2> QED
      BY <2>1, <2>2, CoverAdobe, CoverBegins, CoverPage, CoverCapped
         DEF EnrichmentNext, ScrapeInserts, EnrichFails, EnrichWrite, enrichVars, catalogue
  <1> QED
    BY <1>1, <1>2, RunInvariant, PTL DEF EnrichmentSpec

(* A run that writes has left out no steady wine but those out of partitions.  *)
THEOREM EnrichmentCovers == EnrichmentSpec => CoverageExplained
  <1> DEFINE Covered == EnrichWrite => \A s \in Skus : LeftOut(s) => s \in moved \/ OutOfPartitions(s)
  <1>1. RunInv /\ CoverInv => Covered
    <2> SUFFICES ASSUME RunInv, CoverInv, EnrichWrite, NEW s \in Skus, LeftOut(s), s \notin moved
                 PROVE  OutOfPartitions(s)
      OBVIOUS
    <2>1. Running /\ Len(todo) = 0
      BY DEF EnrichWrite
    <2>2. Reached(s)
      BY <2>1 DEF LeftOut, CoverInv, Steady
    <2>3. s \notin DOMAIN collected
      BY DEF LeftOut, Written, Known
    <2> QED
      BY <2>1, <2>2, <2>3 DEF Reached
  <1>2. RunInv /\ CoverInv /\ [EnrichmentNext]_enrichVars => [Covered]_enrichVars
    BY <1>1
  <1> HIDE DEF Covered
  <1>3. EnrichmentSpec => [][Covered]_enrichVars
    BY <1>2, CoverInvariant, PTL DEF EnrichmentSpec
  <1> QED
    BY <1>3 DEF Covered, CoverageExplained

-----------------------------------------------------------------------------
(* The gates of the bot.                                                     *)

Handled == [at: Times, known: BOOLEAN, since: Times]

(* A non-empty set of natural numbers has a least one.                       *)
LEMMA LeastNat ==
    ASSUME NEW S \in SUBSET Nat, S # {}
    PROVE  \E x \in S : \A y \in S : x <= y
<1> DEFINE R == OpToRel(<, Nat)
<1>1. IsWellFoundedOn(R, Nat)
  BY NatLessThanWellFounded
<1>2. \A x, y \in Nat : y < x => <<y, x>> \in R
  BY DEF OpToRel
<1> HIDE DEF R
<1>3. \E x \in S : \A y \in S : ~(<<y, x>> \in R)
  BY <1>1, WFMin
<1>4. PICK x \in S : \A y \in S : ~(<<y, x>> \in R)
  BY <1>3
<1>5. \A y \in S : ~(y < x)
  BY <1>2, <1>4
<1> QED
  BY <1>5

(* The head of the deque that has left the window.                           *)
LEMMA ExpiredFound ==
    ASSUME NEW q \in Seq(Nat), now \in Nat
    PROVE  /\ Expired(q) \in 0..Len(q)
           /\ \A i \in 1..Expired(q) : q[i] + Window <= now
           /\ Expired(q) < Len(q) => q[Expired(q) + 1] + Window > now
<1> DEFINE Left(n) == /\ \A i \in 1..n : q[i] + Window <= now
                      /\ n < Len(q) => q[n + 1] + Window > now
           Stay == {i \in 1..Len(q) : ~(q[i] + Window <= now)}
<1>1. \E n \in 0..Len(q) : Left(n)
  <2>1. CASE Stay = {}
    BY <2>1
  <2>2. CASE Stay # {}
    <3>0. Stay \in SUBSET Nat
      OBVIOUS
    <3> HIDE DEF Stay
    <3>1. \E x \in Stay : \A y \in Stay : x <= y
      BY <2>2, <3>0, LeastNat
    <3> PICK x \in Stay : \A y \in Stay : x <= y
      BY <3>1
    <3> USE DEF Stay
    <3>2. x - 1 \in 0..Len(q) /\ x \in 1..Len(q)
      OBVIOUS
    <3>3. \A i \in 1..(x - 1) : q[i] + Window <= now
      BY <3>2
    <3>4. q[x] + Window > now
      <4>1. q[x] \in Nat /\ Window \in Nat
        BY <3>2, BotGateAssumption
      <4> QED
        BY <4>1
    <3>5. (x - 1) + 1 = x
      BY <3>2
    <3>6. Left(x - 1)
      BY <3>3, <3>4, <3>5
    <3> QED
      BY <3>2, <3>6, Zenon
  <2> QED
    BY <2>1, <2>2
<1>2. Expired(q) = CHOOSE n \in 0..Len(q) : Left(n)
  BY Zenon DEF Expired
<1> HIDE DEF Left
<1> DEFINE d == CHOOSE n \in 0..Len(q) : Left(n)
<1>3. d \in 0..Len(q) /\ Left(d)
  BY <1>1, Zenon
<1> QED
  BY <1>2, <1>3 DEF Left

LEMMA InWindowIs ==
    ASSUME NEW q \in Seq(Times), now \in Times
    PROVE  /\ InWindow(q) \in Seq(Times)
           /\ Expired(q) \in 0..Len(q)
           /\ Len(InWindow(q)) = Len(q) - Expired(q)
           /\ \A i \in 1..Len(InWindow(q)) : InWindow(q)[i] = q[Expired(q) + i]
<1>1. q \in Seq(Nat) /\ now \in Nat
  BY BotGateAssumption DEF Times
<1>2. Expired(q) \in 0..Len(q)
  BY <1>1, ExpiredFound
<1>3. Expired(q) + 1 \in 1..Len(q) + 1 /\ Len(q) \in Nat
  BY <1>2
<1> QED
  BY <1>2, <1>3, SubSeqProperties DEF InWindow

(* What the limiter counts is what was handled last, in the order of time;   *)
(* whatever was handled before has left the window.                          *)
LimitInv ==
    /\ handled \in Seq(Handled)
    /\ Len(calls) <= MaxCalls /\ Len(calls) <= Len(handled)
    /\ \A i, k \in 1..Len(handled) : i <= k => handled[i].at <= handled[k].at
    /\ \A i \in 1..Len(handled) : handled[i].at <= now
    /\ \A i \in 1..Len(calls) : calls[i] = handled[Len(handled) - Len(calls) + i].at
    /\ \A i \in 1..(Len(handled) - Len(calls)) : handled[i].at + Window <= now

(* A yes is no older than the client's patience, when it comes.              *)
YesInv ==
    /\ lastActive <= now /\ (active => lastActive = now)
    /\ gate[1] # "none" => gate[2] <= now /\ now - gate[2] <= Patience
    /\ gate[1] = "answered" /\ gate[3] => gate[2] <= lastActive
    /\ authorized => checkedAt <= now /\ checkedAt - lastActive <= Patience
    /\ StaleYesBounded

GateInv == BotGateTypeOK /\ LimitInv /\ YesInv

LEMMA GateInvInit == BotGateInit => GateInv
<1> SUFFICES ASSUME BotGateInit PROVE GateInv
  OBVIOUS
<1>1. Len(calls) = 0 /\ Len(handled) = 0 /\ calls \in Seq(Times) /\ handled \in Seq(Handled)
  BY EmptySeq DEF BotGateInit
<1>2. DOMAIN handled = {}
  BY DEF BotGateInit
<1>3. gate \in Gates /\ gate[1] = "none"
  BY DEF BotGateInit, Gates
<1>4. BotGateTypeOK
  <2>1. /\ now \in Times /\ checkedAt \in Times /\ lastActive \in Times /\ updates \in 0..MaxUpdates
        /\ Len(calls) <= MaxCalls
    BY <1>1, BotGateAssumption DEF BotGateInit, Times
  <2>2. active \in BOOLEAN /\ authorized \in BOOLEAN
    BY Zenon DEF BotGateInit
  <2> QED
    BY <1>1, <1>2, <1>3, <2>1, <2>2 DEF BotGateTypeOK
<1>5. LimitInv
  BY <1>1, BotGateAssumption DEF LimitInv
<1>6. YesInv
  BY <1>2, <1>3, BotGateAssumption DEF BotGateInit, YesInv, StaleYesBounded
<1> QED
  BY <1>4, <1>5, <1>6 DEF GateInv

(* An update that comes to the limiter with a yes no staler than allowed.    *)
LEMMA LimitStep ==
    ASSUME GateInv, NEW saidYes \in BOOLEAN, RateLimit(saidYes), now' = now,
           saidYes => now - lastActive < Ttl + Patience
    PROVE  /\ calls' \in Seq(Times) /\ LimitInv' /\ StaleYesBounded'
           /\ \A i \in DOMAIN handled' : handled'[i] \in Handled
<1> DEFINE w == InWindow(calls)
           e == Expired(calls)
           x == [at |-> now, known |-> saidYes, since |-> lastActive]
<1>1. /\ calls \in Seq(Times) /\ now \in Times /\ lastActive \in Times
      /\ handled \in Seq(Handled) /\ Times \subseteq Nat
  BY BotGateAssumption DEF GateInv, BotGateTypeOK, LimitInv, Times
<1>2. /\ w \in Seq(Times) /\ e \in 0..Len(calls) /\ Len(w) = Len(calls) - e
      /\ \A i \in 1..Len(w) : w[i] = calls[e + i]
  BY <1>1, InWindowIs
<1>3. \A i \in 1..e : calls[i] + Window <= now
  <2>1. calls \in Seq(Nat) /\ now \in Nat
    BY <1>1, BotGateAssumption DEF Times
  <2> QED
    BY <2>1, ExpiredFound
<1>4. x \in Handled /\ x.at = now /\ x.known = saidYes /\ x.since = lastActive
  BY <1>1 DEF Handled
<1>5. /\ calls' = IF Len(w) < MaxCalls THEN Append(w, now) ELSE w
      /\ handled' = IF Len(w) < MaxCalls THEN Append(handled, x) ELSE handled
  BY DEF RateLimit, Count
<1> HIDE DEF w, e, x
<1> DEFINE d == Len(handled) - Len(calls)
<1>6. Len(handled) \in Nat /\ Len(calls) \in Nat /\ Len(w) \in Nat /\ d \in Nat /\ e \in Nat
      /\ Window \in Nat /\ MaxCalls \in Nat \ {0}
  BY <1>1, <1>2, BotGateAssumption DEF GateInv, LimitInv
<1>7. \A i \in 1..(d + e) : handled[i].at + Window <= now
  <2>1. \A i \in 1..Len(calls) : calls[i] = handled[d + i].at
    BY DEF GateInv, LimitInv
  <2>2. \A i \in 1..d : handled[i].at + Window <= now
    BY DEF GateInv, LimitInv
  <2>3. ASSUME NEW i \in (d + 1)..(d + e) PROVE handled[i].at + Window <= now
    <3>1. i - d \in 1..e /\ i - d \in 1..Len(calls) /\ d + (i - d) = i
      BY <1>2, <1>6
    <3> QED
      BY <1>3, <2>1, <3>1
  <2> QED
    BY <1>6, <2>2, <2>3
<1>8. \A i \in 1..Len(w) : w[i] = handled[d + e + i].at
  <2> SUFFICES ASSUME NEW i \in 1..Len(w) PROVE w[i] = handled[d + e + i].at
    OBVIOUS
  <2>1. e + i \in 1..Len(calls) /\ d + (e + i) = d + e + i
    BY <1>2, <1>6
  <2>2. calls[e + i] = handled[d + (e + i)].at
    BY <2>1 DEF GateInv, LimitInv
  <2> QED
    BY <1>2, <2>1, <2>2
<1>9. Len(handled) - Len(w) = d + e /\ Len(w) <= MaxCalls /\ Len(w) <= Len(handled)
  BY <1>2, <1>6 DEF GateInv, LimitInv
<1>10. CASE Len(w) < MaxCalls
  <2>1. /\ calls' = Append(w, now) /\ handled' = Append(handled, x)
    BY <1>5, <1>10
  <2>2. /\ calls' \in Seq(Times) /\ Len(calls') = Len(w) + 1
        /\ calls'[Len(w) + 1] = now /\ \A i \in 1..Len(w) : calls'[i] = w[i]
    BY <1>1, <1>2, <2>1, AppendProperties
  <2>3. /\ handled' \in Seq(Handled) /\ Len(handled') = Len(handled) + 1
        /\ handled'[Len(handled) + 1] = x
        /\ \A i \in 1..Len(handled) : handled'[i] = handled[i]
    BY <1>1, <1>4, <2>1, AppendProperties
  <2> DEFINE n == Len(handled)
             h == handled'
  <2>0. /\ Len(h) = n + 1 /\ h[n + 1].at = now /\ \A i \in 1..n : h[i] = handled[i]
        /\ now \in Nat /\ \A i \in 1..(n + 1) : h[i].at \in Nat
    <3>1. h \in Seq(Handled) /\ Len(h) = n + 1
      BY <2>3
    <3>2. \A i \in 1..(n + 1) : h[i] \in Handled
      BY <3>1
    <3> QED
      BY <1>1, <1>4, <2>3, <3>2 DEF Handled
  <2>a. /\ \A i, k \in 1..n : i <= k => handled[i].at <= handled[k].at
        /\ \A i \in 1..n : handled[i].at <= now
    BY DEF GateInv, LimitInv
  <2>n. n \in Nat
    BY <1>6
  <2> HIDE DEF n, h
  <2>b. \A i \in 1..(n + 1) : h[i].at <= now
    <3> SUFFICES ASSUME NEW i \in 1..(n + 1) PROVE h[i].at <= now
      OBVIOUS
    <3>1. i \in 1..n \/ i = n + 1
      BY <2>n
    <3> QED
      BY <2>0, <2>a, <3>1
  <2>c. \A i, k \in 1..(n + 1) : i <= k => h[i].at <= h[k].at
    <3> SUFFICES ASSUME NEW i \in 1..(n + 1), NEW k \in 1..(n + 1), i <= k PROVE h[i].at <= h[k].at
      OBVIOUS
    <3>1. CASE k = n + 1
      BY <2>0, <2>b, <3>1
    <3>2. CASE k # n + 1
      <4>1. i \in 1..n /\ k \in 1..n
        BY <2>n, <3>2
      <4> QED
        BY <2>0, <2>a, <4>1
    <3> QED
      BY <3>1, <3>2
  <2>4. \A i, k \in 1..Len(handled') : i <= k => handled'[i].at <= handled'[k].at
    BY <2>0, <2>c DEF h
  <2>5. \A i \in 1..Len(handled') : handled'[i].at <= now'
    BY <2>0, <2>b DEF h
  <2>6. \A i \in 1..Len(calls') : calls'[i] = handled'[Len(handled') - Len(calls') + i].at
    <3>1. Len(handled') - Len(calls') = d + e
      BY <1>6, <1>9, <2>2, <2>3
    <3>2. ASSUME NEW i \in 1..Len(w) PROVE calls'[i] = handled'[d + e + i].at
      <4>1. d + e + i \in 1..Len(handled)
        BY <1>6, <1>9
      <4> QED
        BY <1>8, <2>2, <2>3, <4>1
    <3>3. d + e + (Len(w) + 1) = Len(handled) + 1
      BY <1>6, <1>9
    <3>4. calls'[Len(w) + 1] = handled'[d + e + (Len(w) + 1)].at
      BY <1>4, <2>2, <2>3, <3>3
    <3>5. \A i \in 1..Len(calls') : i \in 1..Len(w) \/ i = Len(w) + 1
      BY <1>6, <2>2
    <3> QED
      BY <3>1, <3>2, <3>4, <3>5
  <2>7. \A i \in 1..(Len(handled') - Len(calls')) : handled'[i].at + Window <= now'
    <3>1. Len(handled') - Len(calls') = d + e
      BY <1>6, <1>9, <2>2, <2>3
    <3>2. \A i \in 1..(d + e) : i \in 1..Len(handled)
      BY <1>6, <1>9
    <3> QED
      BY <1>7, <2>3, <3>1, <3>2
  <2>8. StaleYesBounded'
    BY <1>4, <1>6, <2>3 DEF GateInv, YesInv, StaleYesBounded
  <2>9. LimitInv'
    BY <1>6, <1>9, <1>10, <2>2, <2>3, <2>4, <2>5, <2>6, <2>7 DEF LimitInv
  <2> QED
    BY <2>2, <2>3, <2>8, <2>9
<1>11. CASE ~(Len(w) < MaxCalls)
  <2>1. calls' = w /\ handled' = handled
    BY <1>5, <1>11
  <2>2. LimitInv'
    BY <1>1, <1>6, <1>7, <1>8, <1>9, <2>1 DEF GateInv, LimitInv
  <2> QED
    BY <1>1, <1>2, <2>1, <2>2 DEF GateInv, YesInv, StaleYesBounded
<1> QED
  BY <1>10, <1>11

LEMMA GateInvStep == GateInv /\ [BotGateNext]_gateVars => GateInv'
<1> SUFFICES ASSUME GateInv, [BotGateNext]_gateVars PROVE GateInv'
  OBVIOUS
<1> USE DEF GateInv
<1>0. /\ now \in Nat /\ lastActive \in Nat /\ checkedAt \in Nat /\ Times \subseteq Nat
      /\ Ttl \in Nat \ {0} /\ Patience \in Nat \ {0} /\ Window \in Nat \ {0} /\ MaxTime \in Nat
  BY BotGateAssumption DEF BotGateTypeOK, Times
<1>g. /\ gate[1] # "none" => gate[2] \in Nat
      /\ gate[1] = "answered" => gate[3] \in BOOLEAN /\ gate[2] \in Times
      /\ gate[1] = "asking" => gate[2] \in Times
  BY <1>0 DEF BotGateTypeOK, Gates
<1>1. CASE Pass
  <2>1. now' = now + 1 /\ now' \in Times /\ lastActive' \in Times
    BY <1>0, <1>1 DEF Pass, BotGateTypeOK, Times
  <2>2. /\ UNCHANGED <<active, authorized, checkedAt, calls, gate, updates, handled>>
        /\ lastActive' = IF active THEN now' ELSE lastActive
        /\ gate[1] # "none" => now - gate[2] < Patience
    BY <1>1 DEF Pass
  <2>3. BotGateTypeOK'
    BY <2>1, <2>2 DEF BotGateTypeOK
  <2>4. LimitInv'
    <3>1. \A i \in 1..Len(handled) : handled[i].at \in Nat
      <4>1. \A i \in 1..Len(handled) : handled[i] \in Handled
        BY DEF LimitInv
      <4> QED
        BY <1>0, <4>1 DEF Handled
    <3>2. \A i \in 1..(Len(handled) - Len(calls)) : i \in 1..Len(handled)
      BY DEF LimitInv, BotGateTypeOK
    <3> QED
      BY <1>0, <2>1, <2>2, <3>1, <3>2 DEF LimitInv
  <2>5. StaleYesBounded'
    BY <2>2 DEF YesInv, StaleYesBounded
  <2> QED
    BY <1>0, <1>g, <2>1, <2>2, <2>3, <2>4, <2>5 DEF YesInv
<1>2. CASE AccountChanges
  <2>1. /\ UNCHANGED <<now, authorized, checkedAt, calls, gate, updates, handled>>
        /\ lastActive' = now
    BY <1>2 DEF AccountChanges
  <2>2. active' \in BOOLEAN
    BY <1>2 DEF AccountChanges
  <2>3. LimitInv' /\ StaleYesBounded'
    BY <2>1 DEF LimitInv, YesInv, StaleYesBounded
  <2>4. BotGateTypeOK'
    BY <2>1, <2>2 DEF BotGateTypeOK
  <2> QED
    BY <1>0, <1>g, <2>1, <2>3, <2>4 DEF YesInv
<1>3. CASE UpdateKnown
  <2>1. /\ UNCHANGED <<now, active, authorized, checkedAt, gate, lastActive>>
        /\ updates < MaxUpdates /\ updates' = updates + 1 /\ RateLimit(TRUE)
        /\ authorized /\ now - checkedAt < Ttl
    BY <1>3 DEF UpdateKnown, Cached
  <2>2. now - lastActive < Ttl + Patience
    BY <1>0, <2>1 DEF YesInv
  <2>3. calls' \in Seq(Times) /\ LimitInv' /\ StaleYesBounded'
        /\ \A i \in DOMAIN handled' : handled'[i] \in Handled
    BY <2>1, <2>2, LimitStep
  <2>4. BotGateTypeOK'
    BY <2>1, <2>3, BotGateAssumption DEF BotGateTypeOK, LimitInv, Handled
  <2>5. YesInv'
    BY <2>1, <2>3 DEF YesInv
  <2> QED
    BY <2>3, <2>4, <2>5
<1>4. CASE UpdateAsks
  <2>1. /\ UNCHANGED <<now, active, authorized, checkedAt, calls, lastActive, handled>>
        /\ updates < MaxUpdates /\ updates' = updates + 1 /\ gate' = <<"asking", now>>
    BY <1>4 DEF UpdateAsks
  <2>2. gate'[1] = "asking" /\ gate'[2] = now /\ gate' \in Gates
    BY <2>1 DEF Gates, BotGateTypeOK
  <2>3. BotGateTypeOK'
    BY <2>1, <2>2, BotGateAssumption DEF BotGateTypeOK
  <2>4. LimitInv' /\ StaleYesBounded'
    BY <2>1 DEF LimitInv, YesInv, StaleYesBounded
  <2> QED
    BY <1>0, <2>1, <2>2, <2>3, <2>4 DEF YesInv
<1>5. CASE BackendReads
  <2>1. /\ UNCHANGED <<now, active, authorized, checkedAt, calls, updates, lastActive, handled>>
        /\ gate[1] = "asking" /\ gate' = <<"answered", gate[2], active>>
    BY <1>5 DEF BackendReads
  <2>2. gate'[1] = "answered" /\ gate'[2] = gate[2] /\ gate' \in Gates
    BY <1>g, <2>1 DEF Gates, BotGateTypeOK
  <2>3. gate'[3] = active
    BY <2>1, Zenon
  <2>4. BotGateTypeOK'
    BY <2>1, <2>2 DEF BotGateTypeOK
  <2>5. LimitInv' /\ StaleYesBounded'
    BY <2>1 DEF LimitInv, YesInv, StaleYesBounded
  <2> QED
    BY <1>0, <1>g, <2>1, <2>2, <2>3, <2>4, <2>5 DEF YesInv
<1>6. CASE AnswerArrives
  <2>1. /\ UNCHANGED <<now, active, updates, lastActive>>
        /\ gate[1] = "answered" /\ gate' = <<"none">> /\ checkedAt' = now
        /\ gate[3] => RateLimit(TRUE)
        /\ ~gate[3] => UNCHANGED <<calls, handled>>
    BY <1>6 DEF AnswerArrives
  <2>2. authorized' = gate[3]
    BY <1>6 DEF AnswerArrives
  <2>3. gate'[1] = "none" /\ gate' \in Gates
    BY <2>1 DEF Gates
  <2>4. gate[3] => now - lastActive <= Patience
    BY <1>0, <1>g, <2>1 DEF YesInv
  <2>5. calls' \in Seq(Times) /\ LimitInv' /\ StaleYesBounded'
        /\ \A i \in DOMAIN handled' : handled'[i] \in Handled
    <3>1. CASE gate[3]
      <4>1. now - lastActive < Ttl + Patience
        BY <1>0, <2>4, <3>1
      <4> QED
        BY <2>1, <3>1, <4>1, LimitStep
    <3>2. CASE ~gate[3]
      BY <2>1, <3>2 DEF LimitInv, YesInv, StaleYesBounded, BotGateTypeOK, Handled
    <3> QED
      BY <3>1, <3>2
  <2>6. authorized' \in BOOLEAN
    BY <1>g, <2>1, <2>2
  <2>7. BotGateTypeOK'
    BY <2>1, <2>3, <2>5, <2>6 DEF BotGateTypeOK, LimitInv, Handled
  <2>8. authorized' => checkedAt' <= now' /\ checkedAt' - lastActive' <= Patience
    BY <1>0, <2>1, <2>2, <2>4
  <2>9. YesInv'
    BY <1>0, <2>1, <2>3, <2>5, <2>8 DEF YesInv
  <2> QED
    BY <2>5, <2>7, <2>9
<1>7. CASE BackendSilent
  <2>1. /\ UNCHANGED <<now, active, authorized, checkedAt, updates, lastActive>>
        /\ gate' = <<"none">> /\ RateLimit(FALSE)
    BY <1>7 DEF BackendSilent
  <2>2. gate'[1] = "none" /\ gate' \in Gates
    BY <2>1 DEF Gates
  <2>3. calls' \in Seq(Times) /\ LimitInv' /\ StaleYesBounded'
        /\ \A i \in DOMAIN handled' : handled'[i] \in Handled
    BY <2>1, LimitStep
  <2>4. BotGateTypeOK'
    BY <2>1, <2>2, <2>3 DEF BotGateTypeOK, LimitInv, Handled
  <2>5. YesInv'
    BY <2>1, <2>2, <2>3 DEF YesInv
  <2> QED
    BY <2>3, <2>4, <2>5
<1>8. CASE BotRestarts
  <2>1. /\ UNCHANGED <<now, active, updates, lastActive>>
        /\ checkedAt' = 0 /\ calls' = <<>> /\ gate' = <<"none">> /\ handled' = <<>>
    BY <1>8 DEF BotRestarts
  <2>2. authorized' = FALSE
    BY <1>8 DEF BotRestarts
  <2>3. /\ Len(calls') = 0 /\ Len(handled') = 0 /\ DOMAIN handled' = {}
        /\ calls' \in Seq(Times) /\ handled' \in Seq(Handled)
    BY <2>1, EmptySeq
  <2>4. gate'[1] = "none" /\ gate' \in Gates
    BY <2>1 DEF Gates
  <2>5. LimitInv'
    BY <2>3, BotGateAssumption DEF LimitInv
  <2>6. BotGateTypeOK'
    <3>1. checkedAt' \in Times /\ Len(calls') <= MaxCalls
      BY <2>1, <2>3, BotGateAssumption DEF Times
    <3>2. authorized' \in BOOLEAN
      BY <2>2, Zenon
    <3> QED
      BY <2>1, <2>3, <2>4, <3>1, <3>2 DEF BotGateTypeOK
  <2>7. YesInv'
    BY <2>1, <2>2, <2>3, <2>4 DEF YesInv, StaleYesBounded
  <2> QED
    BY <2>5, <2>6, <2>7
<1>9. CASE UNCHANGED gateVars
  BY <1>9 DEF gateVars, BotGateTypeOK, LimitInv, YesInv, StaleYesBounded
<1> QED
  BY <1>1, <1>2, <1>3, <1>4, <1>5, <1>6, <1>7, <1>8, <1>9 DEF BotGateNext

(* The updates handled within the window are the last ones, as many as the   *)
(* limiter still counts.                                                     *)
LEMMA HandledLatelyIs == GateInv => LimitExact
<1> SUFFICES ASSUME GateInv PROVE LimitExact
  OBVIOUS
<1> USE DEF GateInv
<1> DEFINE e == Expired(calls)
           n == Len(handled)
           d == n - Len(calls)
           w == InWindow(calls)
<1>1. /\ calls \in Seq(Times) /\ now \in Times /\ handled \in Seq(Handled)
      /\ now \in Nat /\ calls \in Seq(Nat) /\ Window \in Nat /\ MaxCalls \in Nat
  BY BotGateAssumption DEF BotGateTypeOK, LimitInv, Times
<1>2. e \in 0..Len(calls) /\ Len(w) = Len(calls) - e
  BY <1>1, InWindowIs
<1>3. /\ \A i \in 1..e : calls[i] + Window <= now
      /\ e < Len(calls) => calls[e + 1] + Window > now
  BY <1>1, ExpiredFound
<1>4. n \in Nat /\ Len(calls) \in Nat /\ d \in Nat /\ e \in Nat /\ Len(calls) <= MaxCalls
      /\ DOMAIN handled = 1..n
  BY <1>1, <1>2 DEF LimitInv
<1>5. /\ \A i \in 1..Len(calls) : calls[i] = handled[d + i].at
      /\ \A i \in 1..d : handled[i].at + Window <= now
      /\ \A i, k \in 1..n : i <= k => handled[i].at <= handled[k].at
      /\ \A i \in 1..n : handled[i].at \in Nat
  <2>1. \A i \in 1..n : handled[i] \in Handled
    BY <1>1
  <2>2. \A i \in 1..n : handled[i].at \in Nat
    BY <2>1 DEF Handled, Times
  <2> QED
    BY <2>2 DEF LimitInv
<1> HIDE DEF e, n, w
<1>6. ASSUME NEW i \in 1..(d + e) PROVE i \in 1..n /\ ~(handled[i].at + Window > now)
  <2>0. i \in 1..n
    BY <1>2, <1>4
  <2>1. CASE i <= d
    BY <1>1, <1>4, <1>5, <2>0, <2>1
  <2>2. CASE i > d
    <3>1. i - d \in 1..e /\ i - d \in 1..Len(calls) /\ d + (i - d) = i
      BY <1>2, <1>4, <2>2
    <3>2. calls[i - d] + Window <= now /\ calls[i - d] = handled[i].at
      BY <1>3, <1>5, <3>1
    <3> QED
      BY <1>1, <1>5, <2>0, <3>2
  <2> QED
    BY <1>4, <2>1, <2>2
<1>7. ASSUME NEW i \in (d + e + 1)..n PROVE handled[i].at + Window > now
  <2>1. i \in 1..n /\ d + e + 1 \in 1..n /\ d + e + 1 <= i /\ e < Len(calls) /\ e + 1 \in 1..Len(calls)
        /\ d + (e + 1) = d + e + 1
    BY <1>2, <1>4
  <2>2. calls[e + 1] = handled[d + (e + 1)].at /\ calls[e + 1] + Window > now
    BY <1>3, <1>5, <2>1
  <2>3. handled[d + e + 1].at <= handled[i].at
    BY <1>5, <2>1
  <2>4. handled[d + e + 1].at \in Nat /\ handled[i].at \in Nat
    BY <1>5, <2>1
  <2>5. Window \in Nat /\ now \in Nat
    BY <1>1
  <2>6. handled[d + e + 1].at + Window > now
    BY <2>1, <2>2
  <2> QED
    BY <2>3, <2>4, <2>5, <2>6
<1>8. HandledLately = (d + e + 1)..n
  <2>1. \A i \in 1..n : i \in 1..(d + e) \/ i \in (d + e + 1)..n
    BY <1>4
  <2>2. \A i \in (d + e + 1)..n : i \in 1..n
    BY <1>4
  <2> QED
    BY <1>4, <1>6, <1>7, <2>1, <2>2 DEF HandledLately
<1>9. Cardinality(HandledLately) = Len(calls) - e
  <2>1. d + e + 1 \in Int /\ n \in Int
    BY <1>4
  <2>2. Cardinality((d + e + 1)..n) = IF d + e + 1 > n THEN 0 ELSE n - (d + e + 1) + 1
    BY <2>1, FS_Interval
  <2>3. (IF d + e + 1 > n THEN 0 ELSE n - (d + e + 1) + 1) = Len(calls) - e
    BY <1>2, <1>4
  <2> QED
    BY <1>8, <2>2, <2>3
<1>10. Len(InWindow(calls)) = Len(calls) - e
  BY <1>2 DEF w
<1>11. Cardinality(HandledLately) <= MaxCalls
  BY <1>1, <1>4, <1>9
<1> QED
  BY <1>9, <1>10, <1>11 DEF LimitExact

(* The gate keeps the inductive invariant.                                   *)
LEMMA GateInvariant == BotGateSpec => []GateInv
<1> QED
  BY GateInvInit, GateInvStep, PTL DEF BotGateSpec

(* Nobody is obeyed longer after the account was last active than the time a *)
(* yes is remembered and the client's patience together, however often the   *)
(* account is linked, unlinked, deactivated and the bot restarted            *)
(* (bot/middleware.py, access_gate).                                         *)
THEOREM YesGoesStale == BotGateSpec => []StaleYesBounded
<1>1. GateInv => StaleYesBounded
  BY DEF GateInv, YesInv
<1> QED
  BY <1>1, GateInvariant, PTL

(* The limiter counts exactly the updates that were handled within the       *)
(* window, which are never more than the limit (bot/middleware.py,           *)
(* is_limited).                                                              *)
THEOREM LimiterExact == BotGateSpec => []LimitExact
<1> QED
  BY GateInvariant, HandledLatelyIs, PTL

-----------------------------------------------------------------------------
(* The pages of a search.                                                    *)

Walks == [pc: Steps, offset: 0..Cardinality(Products), total: 0..Cardinality(Products),
          seen: SUBSET Products, again: SUBSET Products]

Before(p) == {q \in kept : rank[q] < rank[p]}

(* What one page shows depends, for a product equal to no other in the       *)
(* column that sorts, on how many come before it and nothing else: the pages *)
(* read so far have shown the products with fewer before them than were      *)
(* asked for.                                                                *)
Shown(n) == /\ \A p \in kept : ~Tied(p) => (p \in walk.seen <=> Cardinality(Before(p)) < n)
            /\ \A p \in walk.again : Tied(p)

WalkInv ==
    /\ BrowseTypeOK /\ walk \in Walks
    /\ walk.pc = "start" => walk.offset = 0 /\ walk.seen = {} /\ walk.again = {}
    /\ ~disturbed /\ walk.pc \in {"count", "page"} => Shown(walk.offset)
    /\ ~disturbed /\ walk.pc \in {"read", "end"} => Shown(walk.offset + PageLimit)
    /\ ~disturbed /\ walk.pc \in {"page", "read", "end"} => walk.total = Cardinality(kept)
    /\ ~disturbed /\ walk.pc = "end" => walk.total <= walk.offset + PageLimit

LEMMA KeptFinite ==
    ASSUME WalkInv
    PROVE  /\ IsFiniteSet(kept) /\ Cardinality(kept) \in 0..Cardinality(Products)
           /\ Cardinality(Products) \in Nat /\ PageLimit \in Nat \ {0}
           /\ \A p \in kept : rank[p] \in Nat
           /\ \A p \in kept : /\ IsFiniteSet(Before(p)) /\ Cardinality(Before(p)) \in Nat
                              /\ Cardinality(Before(p)) < Cardinality(kept)
<1>1. IsFiniteSet(Products) /\ PageLimit \in Nat \ {0} /\ Ranks \subseteq Nat
  BY BrowseAssumption
<1>2. kept \in SUBSET Products /\ rank \in [Products -> Ranks]
  BY DEF WalkInv, BrowseTypeOK
<1>3. /\ IsFiniteSet(kept) /\ Cardinality(kept) <= Cardinality(Products)
      /\ Cardinality(kept) \in Nat /\ Cardinality(Products) \in Nat
  BY <1>1, <1>2, FS_Subset, FS_CardinalityType
<1>4. \A p \in kept : rank[p] \in Nat
  BY <1>1, <1>2
<1>5. ASSUME NEW p \in kept
      PROVE  /\ IsFiniteSet(Before(p)) /\ Cardinality(Before(p)) \in Nat
             /\ Cardinality(Before(p)) < Cardinality(kept)
  <2>1. Before(p) \in SUBSET (kept \ {p})
    BY <1>4 DEF Before
  <2>2. IsFiniteSet(kept \ {p}) /\ Cardinality(kept \ {p}) = Cardinality(kept) - 1
    BY <1>3, FS_RemoveElement
  <2>3. IsFiniteSet(Before(p)) /\ Cardinality(Before(p)) <= Cardinality(kept \ {p})
    BY <2>1, <2>2, FS_Subset
  <2> QED
    BY <1>3, <2>2, <2>3, FS_CardinalityType
<1> QED
  BY <1>1, <1>3, <1>4, <1>5

(* A product equal to no other is among the first of an order exactly when   *)
(* fewer come before it than are taken.                                      *)
LEMMA AmongFirst ==
    ASSUME WalkInv, NEW T \in SUBSET kept,
           \A x \in T, q \in kept \ T : rank[x] <= rank[q],
           NEW p \in kept, ~Tied(p)
    PROVE  p \in T <=> Cardinality(Before(p)) < Cardinality(T)
<1>1. /\ IsFiniteSet(kept) /\ \A q \in kept : rank[q] \in Nat
      /\ IsFiniteSet(Before(p)) /\ Cardinality(Before(p)) \in Nat
  BY KeptFinite
<1>2. IsFiniteSet(T) /\ Cardinality(T) \in Nat
  BY <1>1, FS_Subset, FS_CardinalityType
<1>3. CASE p \in T
  <2>1. Before(p) \in SUBSET (T \ {p})
    BY <1>1, <1>3 DEF Before
  <2>2. IsFiniteSet(T \ {p}) /\ Cardinality(T \ {p}) = Cardinality(T) - 1
    BY <1>2, <1>3, FS_RemoveElement
  <2>3. Cardinality(Before(p)) <= Cardinality(T \ {p})
    BY <2>1, <2>2, FS_Subset
  <2> QED
    BY <1>1, <1>2, <1>3, <2>2, <2>3
<1>4. CASE p \notin T
  <2>1. T \in SUBSET Before(p)
    <3> SUFFICES ASSUME NEW x \in T PROVE rank[x] < rank[p]
      BY DEF Before
    <3>1. rank[x] <= rank[p] /\ x \in kept \ {p}
      BY <1>4
    <3>2. rank[x] # rank[p]
      BY <3>1 DEF Tied
    <3> QED
      BY <1>1, <3>1, <3>2
  <2>2. Cardinality(T) <= Cardinality(Before(p))
    BY <1>1, <2>1, FS_Subset
  <2> QED
    BY <1>1, <1>2, <1>4, <2>2
<1> QED
  BY <1>3, <1>4

LEMMA SliceShows ==
    ASSUME WalkInv, NEW offset \in Nat, NEW rows \in SlicesAt(offset),
           NEW p \in kept, ~Tied(p)
    PROVE  p \in rows <=> (offset <= Cardinality(Before(p))
                           /\ Cardinality(Before(p)) < offset + PageLimit)
<1> DEFINE N == Cardinality(kept)
           b == Cardinality(Before(p))
<1>1. rows \in SUBSET kept
  BY DEF SlicesAt
<1>2. PICK skipped \in SUBSET (kept \ rows) :
          /\ Cardinality(skipped) = IF offset < N THEN offset ELSE N
          /\ Cardinality(rows) = IF offset + PageLimit < N THEN PageLimit
                                 ELSE N - Cardinality(skipped)
          /\ \A x \in skipped, q \in kept \ skipped : rank[x] <= rank[q]
          /\ \A x \in rows, q \in kept \ (skipped \union rows) : rank[x] <= rank[q]
  BY DEF SlicesAt
<1>3. IsFiniteSet(kept) /\ N \in Nat /\ b \in Nat /\ b < N /\ PageLimit \in Nat \ {0}
  BY KeptFinite
<1> DEFINE U == skipped \union rows
<1>4. Cardinality(U) = Cardinality(skipped) + Cardinality(rows)
  <2>1. IsFiniteSet(skipped) /\ IsFiniteSet(rows)
    BY <1>1, <1>3, FS_Subset
  <2>2. skipped \cap rows = {}
    OBVIOUS
  <2>3. Cardinality(skipped \cap rows) = 0
    BY <2>2, FS_EmptySet
  <2>4. Cardinality(U) = Cardinality(skipped) + Cardinality(rows) - Cardinality(skipped \cap rows)
    BY <2>1, FS_Union
  <2>5. Cardinality(skipped) \in Nat /\ Cardinality(rows) \in Nat
    BY <2>1, FS_CardinalityType
  <2> QED
    BY <2>3, <2>4, <2>5
<1>5. p \in skipped <=> b < Cardinality(skipped)
  <2>1. skipped \in SUBSET kept
    OBVIOUS
  <2> QED
    BY <1>2, <2>1, AmongFirst
<1>6. p \in U <=> b < Cardinality(U)
  <2>1. U \in SUBSET kept
    BY <1>1
  <2>2. \A x \in U, q \in kept \ U : rank[x] <= rank[q]
    BY <1>2
  <2> HIDE DEF U
  <2> QED
    BY <2>1, <2>2, AmongFirst
<1>7. p \in rows <=> p \in U /\ p \notin skipped
  OBVIOUS
<1>8. Cardinality(skipped) = IF offset < N THEN offset ELSE N
  BY <1>2
<1>9. Cardinality(U) = IF offset + PageLimit < N THEN offset + PageLimit ELSE N
  BY <1>2, <1>3, <1>4
<1> HIDE DEF U, N, b
<1>10. p \in rows <=> offset <= b /\ b < offset + PageLimit
  BY <1>3, <1>5, <1>6, <1>7, <1>8, <1>9
<1> QED
  BY <1>10 DEF b

LEMMA WalkInvInit == BrowseInit => WalkInv
<1> SUFFICES ASSUME BrowseInit PROVE WalkInv
  OBVIOUS
<1>1. /\ walk.pc = "start" /\ walk.offset = 0 /\ walk.total = 0 /\ walk.seen = {} /\ walk.again = {}
  BY DEF BrowseInit
<1>2. Cardinality(Products) \in Nat
  BY BrowseAssumption, FS_CardinalityType
<1>3. walk \in Walks
  <2>1. 0 \in 0..Cardinality(Products)
    BY <1>2
  <2> QED
    BY <2>1 DEF BrowseInit, Walks, Steps
<1>4. BrowseTypeOK
  <2>1. rank \in [Products -> Ranks] /\ kept \subseteq Products
    BY DEF BrowseInit
  <2>2. disturbed \in BOOLEAN
    BY Zenon DEF BrowseInit
  <2>3. writes \in 0..MaxWrites
    BY BrowseAssumption DEF BrowseInit
  <2>4. walk.pc \in Steps /\ walk.offset \in 0..Cardinality(Products)
        /\ walk.total \in 0..Cardinality(Products)
    BY <1>1, <1>2 DEF Steps
  <2> QED
    BY <1>1, <2>1, <2>2, <2>3, <2>4 DEF BrowseTypeOK
<1> QED
  BY <1>1, <1>3, <1>4 DEF WalkInv

LEMMA WalkInvStep == WalkInv /\ [BrowseNext]_browseVars => WalkInv'
<1> SUFFICES ASSUME WalkInv, [BrowseNext]_browseVars PROVE WalkInv'
  OBVIOUS
<1>0. /\ walk \in Walks /\ walk.offset \in Nat /\ PageLimit \in Nat \ {0}
      /\ Cardinality(Products) \in Nat /\ walk.total \in Nat /\ MaxWrites \in Nat
      /\ Cardinality(kept) \in 0..Cardinality(Products)
  BY KeptFinite, BrowseAssumption DEF WalkInv, Walks
<1>1. CASE FirstPage
  <2>1. /\ UNCHANGED <<rank, kept, writes>> /\ walk.pc = "start" /\ walk' \in Walks
        /\ walk'.pc = "count" /\ walk'.offset = walk.offset /\ walk'.total = walk.total
        /\ walk'.seen = walk.seen /\ walk'.again = walk.again /\ disturbed' = FALSE
    BY <1>0, <1>1 DEF FirstPage, Walks, Steps
  <2>2. walk.offset = 0 /\ walk.seen = {} /\ walk.again = {}
    BY <2>1 DEF WalkInv
  <2>3. \A p \in kept : Cardinality(Before(p)) \in Nat
    BY KeptFinite
  <2>4. Shown(walk.offset)'
    BY <2>1, <2>2, <2>3 DEF Shown, Before
  <2>5. BrowseTypeOK'
    BY <2>1 DEF WalkInv, BrowseTypeOK, Steps
  <2> QED
    BY <2>1, <2>4, <2>5 DEF WalkInv
<1>2. CASE CountKept
  <2>1. /\ UNCHANGED <<rank, kept, writes, disturbed>> /\ walk.pc = "count" /\ walk' \in Walks
        /\ walk'.pc = "page" /\ walk'.offset = walk.offset /\ walk'.total = Cardinality(kept)
        /\ walk'.seen = walk.seen /\ walk'.again = walk.again
    BY <1>0, <1>2 DEF CountKept, Walks, Steps
  <2>2. ~disturbed => Shown(walk.offset)'
    BY <2>1 DEF WalkInv, Shown, Before, Tied
  <2>3. BrowseTypeOK'
    BY <1>0, <2>1 DEF WalkInv, BrowseTypeOK, Steps
  <2> QED
    BY <2>1, <2>2, <2>3 DEF WalkInv
<1>3. CASE ReadPage
  <2>1. PICK rows \in SlicesAt(walk.offset) :
            walk' = [walk EXCEPT !.pc = "read", !.seen = @ \union rows,
                                 !.again = @ \union (walk.seen \intersect rows)]
    BY <1>3 DEF ReadPage
  <2>2. rows \in SUBSET kept /\ kept \subseteq Products
    BY DEF SlicesAt, WalkInv, BrowseTypeOK
  <2>3. /\ UNCHANGED <<rank, kept, writes, disturbed>> /\ walk.pc = "page"
        /\ walk'.pc = "read" /\ walk'.offset = walk.offset /\ walk'.total = walk.total
        /\ walk'.seen = walk.seen \union rows
        /\ walk'.again = walk.again \union (walk.seen \intersect rows)
        /\ walk' \in Walks
    BY <1>0, <1>3, <2>1, <2>2 DEF ReadPage, Walks, Steps
  <2>4. ASSUME ~disturbed PROVE Shown(walk.offset + PageLimit)'
    <3>1. /\ \A p \in kept : ~Tied(p) => (p \in walk.seen <=> Cardinality(Before(p)) < walk.offset)
          /\ \A p \in walk.again : Tied(p)
      BY <2>3, <2>4 DEF WalkInv, Shown
    <3>2. \A p \in kept : ~Tied(p) =>
             (p \in rows <=> (walk.offset <= Cardinality(Before(p))
                              /\ Cardinality(Before(p)) < walk.offset + PageLimit))
      BY <1>0, SliceShows
    <3>3. \A p \in kept : Cardinality(Before(p)) \in Nat
      BY KeptFinite
    <3>4. \A p \in kept : ~Tied(p) =>
             (p \in walk.seen \union rows <=> Cardinality(Before(p)) < walk.offset + PageLimit)
      BY <1>0, <3>1, <3>2, <3>3
    <3>5. \A p \in walk.again \union (walk.seen \intersect rows) : Tied(p)
      BY <1>0, <2>2, <3>1, <3>2, <3>3
    <3>6. \A p : (Tied(p)' <=> Tied(p)) /\ Before(p)' = Before(p)
      BY <2>3 DEF Tied, Before
    <3> QED
      BY <2>3, <3>4, <3>5, <3>6 DEF Shown
  <2>5. BrowseTypeOK'
    BY <2>2, <2>3 DEF WalkInv, BrowseTypeOK, Steps
  <2>6. ~disturbed => walk.total = Cardinality(kept)
    BY <2>3 DEF WalkInv
  <2> QED
    BY <2>3, <2>4, <2>5, <2>6 DEF WalkInv
<1>4. CASE NextPage
  <2>1. /\ UNCHANGED <<rank, kept, writes, disturbed>> /\ walk.pc = "read"
        /\ walk'.pc = "count" /\ walk'.offset = walk.offset + PageLimit /\ walk'.total = walk.total
        /\ walk'.seen = walk.seen /\ walk'.again = walk.again
        /\ walk.offset + PageLimit \in 0..Cardinality(Products) /\ walk' \in Walks
    <3>1. /\ UNCHANGED <<rank, kept, writes, disturbed>> /\ walk.pc = "read"
          /\ walk.offset + PageLimit < walk.total
          /\ walk' = [walk EXCEPT !.pc = "count", !.offset = walk.offset + PageLimit]
      BY <1>4 DEF NextPage, NextOffset
    <3>2. walk.offset + PageLimit \in 0..Cardinality(Products)
      BY <1>0, <3>1 DEF Walks
    <3>3. PICK o \in 0..Cardinality(Products) : o = walk.offset + PageLimit
      BY <3>2
    <3>4. walk' = [walk EXCEPT !.pc = "count", !.offset = o]
      BY <3>1, <3>3, Zenon
    <3> QED
      BY <1>0, <3>1, <3>3, <3>4 DEF Walks, Steps
  <2>2. ~disturbed => Shown(walk.offset)'
    BY <2>1 DEF WalkInv, Shown, Before, Tied
  <2>3. BrowseTypeOK'
    BY <1>0, <2>1 DEF WalkInv, BrowseTypeOK, Steps
  <2> QED
    BY <2>1, <2>2, <2>3 DEF WalkInv
<1>5. CASE LastPage
  <2>1. /\ UNCHANGED <<rank, kept, writes, disturbed>> /\ walk.pc = "read"
        /\ walk'.pc = "end" /\ walk'.offset = walk.offset /\ walk'.total = walk.total
        /\ walk'.seen = walk.seen /\ walk'.again = walk.again
        /\ walk.offset + PageLimit >= walk.total /\ walk' \in Walks
    BY <1>0, <1>5 DEF LastPage, NextOffset, Walks, Steps
  <2>2. ~disturbed => Shown(walk.offset + PageLimit)'
    BY <2>1 DEF WalkInv, Shown, Before, Tied
  <2>3. BrowseTypeOK'
    BY <1>0, <2>1 DEF WalkInv, BrowseTypeOK, Steps
  <2> QED
    BY <1>0, <2>1, <2>2, <2>3 DEF WalkInv
<1>6. CASE WriteCatalogue
  <2>1. walk' = walk /\ writes' \in 0..MaxWrites
    BY <1>0, <1>6 DEF WriteCatalogue, WalkInv, BrowseTypeOK
  <2>2. disturbed' = TRUE
    BY <1>6 DEF WriteCatalogue
  <2>3. rank' \in [Products -> Ranks] /\ kept' \in SUBSET Products
    BY <1>6 DEF WriteCatalogue, WalkInv, BrowseTypeOK
  <2>4. BrowseTypeOK'
    BY <2>1, <2>2, <2>3 DEF WalkInv, BrowseTypeOK
  <2> QED
    BY <2>1, <2>2, <2>4 DEF WalkInv
<1>7. CASE UNCHANGED browseVars
  BY <1>7 DEF browseVars, WalkInv, BrowseTypeOK, Shown, Before, Tied
<1> QED
  BY <1>1, <1>2, <1>3, <1>4, <1>5, <1>6, <1>7 DEF BrowseNext

LEMMA WalkInvariant == BrowseSpec => []WalkInv
  BY WalkInvInit, WalkInvStep, PTL DEF BrowseSpec

(* Whoever turns all the pages of a search while nothing is written is shown *)
(* every product that is equal to no other in the column that sorts, and     *)
(* none of them twice, whatever the catalogue holds and however long a page  *)
(* is (backend/repositories/products.py, find_page).                         *)
THEOREM WalkIsExplained == BrowseSpec => []WalkExplained
<1>1. WalkInv => WalkExplained
  <2> SUFFICES ASSUME WalkInv, walk.pc = "end", ~disturbed,
                      NEW p \in (kept \ walk.seen) \union walk.again
               PROVE  Tied(p)
    BY DEF WalkExplained
  <2>1. /\ Shown(walk.offset + PageLimit) /\ walk.total = Cardinality(kept)
        /\ walk.total <= walk.offset + PageLimit
    BY DEF WalkInv
  <2>2. CASE p \in walk.again
    BY <2>1, <2>2 DEF Shown
  <2>3. CASE p \in kept \ walk.seen
    <3>1. Cardinality(Before(p)) \in Nat /\ Cardinality(Before(p)) < Cardinality(kept)
          /\ Cardinality(kept) \in Nat /\ PageLimit \in Nat /\ walk.offset \in Nat
      BY <2>3, KeptFinite DEF WalkInv, BrowseTypeOK
    <3> QED
      BY <2>1, <2>3, <3>1 DEF Shown
  <2> QED
    BY <2>2, <2>3
<1> QED
  BY <1>1, WalkInvariant, PTL

-----------------------------------------------------------------------------
(* The directory of stores.                                                  *)

LEMMA SetToSeqIs ==
    ASSUME NEW S, IsFiniteSet(S)
    PROVE  SetToSeq(S) \in Seq(S) /\ IsInjective(SetToSeq(S))
<1>1. Cardinality(S) \in Nat /\ Bijection(1..Cardinality(S), S) # {}
  BY FS_CardinalityType DEF ExistsBijection
<1>2. \E f \in [1..Cardinality(S) -> S] : IsInjective(f)
  BY <1>1 DEF Bijection, Injection
<1>3. SetToSeq(S) \in [1..Cardinality(S) -> S] /\ IsInjective(SetToSeq(S))
  BY <1>2, Zenon DEF SetToSeq
<1> QED
  BY <1>1, <1>3, SeqDef

LEMMA InsertAtIs ==
    ASSUME NEW S, NEW q \in Seq(S), NEW i \in 1..Len(q) + 1, NEW e \in S
    PROVE  /\ InsertAt(q, i, e) \in Seq(S)
           /\ Len(InsertAt(q, i, e)) = Len(q) + 1 /\ InsertAt(q, i, e)[i] = e
           /\ \A k \in 1..Len(q) : k < i => InsertAt(q, i, e)[k] = q[k]
           /\ \A k \in 1..Len(q) : k >= i => InsertAt(q, i, e)[k + 1] = q[k]
<1> DEFINE a == SubSeq(q, 1, i - 1)
           b == SubSeq(q, i, Len(q))
           m == <<e>>
<1>1. Len(q) \in Nat /\ i \in Nat /\ \A k \in 1..Len(q) : q[k] \in S
  BY ElementOfSeq
<1>2. a \in Seq(S) /\ Len(a) = i - 1 /\ \A k \in 1..(i - 1) : a[k] = q[k]
  <2>1. 1 \in Int /\ i - 1 \in Int /\ \A k \in 1..(i - 1) : q[k] \in S
    BY <1>1
  <2>2. /\ SubSeq(q, 1, i - 1) \in Seq(S)
        /\ Len(SubSeq(q, 1, i - 1)) = IF 1 <= i - 1 THEN i - 1 - 1 + 1 ELSE 0
        /\ \A k \in 1..(i - 1) - 1 + 1 : SubSeq(q, 1, i - 1)[k] = q[1 + k - 1]
    BY <2>1, SubSeqProperties
  <2> QED
    BY <1>1, <2>2
<1>3. b \in Seq(S) /\ Len(b) = Len(q) - i + 1 /\ \A k \in 1..(Len(q) - i + 1) : b[k] = q[i + k - 1]
  <2>1. i \in Int /\ Len(q) \in Int /\ \A k \in i..Len(q) : q[k] \in S
    BY <1>1
  <2>2. /\ SubSeq(q, i, Len(q)) \in Seq(S)
        /\ Len(SubSeq(q, i, Len(q))) = IF i <= Len(q) THEN Len(q) - i + 1 ELSE 0
        /\ \A k \in 1..Len(q) - i + 1 : SubSeq(q, i, Len(q))[k] = q[i + k - 1]
    BY <2>1, SubSeqProperties
  <2> QED
    BY <1>1, <2>2
<1>4. m \in Seq(S) /\ Len(m) = 1
  OBVIOUS
<1> HIDE DEF a, b, m
<1>5. /\ a \o m \in Seq(S) /\ Len(a \o m) = i
      /\ \A k \in 1..(i - 1) : (a \o m)[k] = a[k]
  <2>1. /\ a \o m \in Seq(S) /\ Len(a \o m) = Len(a) + Len(m)
        /\ \A k \in 1..Len(a) + Len(m) : (a \o m)[k] = IF k <= Len(a) THEN a[k] ELSE m[k - Len(a)]
    BY <1>2, <1>4, ConcatProperties
  <2>2. \A k \in 1..(i - 1) : k \in 1..Len(a) + Len(m) /\ k <= Len(a)
    BY <1>1, <1>2, <1>4
  <2> QED
    BY <1>1, <1>2, <1>4, <2>1, <2>2
<1> DEFINE c == a \o m
<1> HIDE DEF c
<1>6. /\ c \o b \in Seq(S) /\ Len(c \o b) = i + Len(b)
      /\ \A k \in 1..i + Len(b) : (c \o b)[k] = IF k <= i THEN c[k] ELSE b[k - i]
  <2>1. c \in Seq(S) /\ Len(c) = i
    BY <1>5 DEF c
  <2> QED
    BY <1>3, <2>1, ConcatProperties
<1>7. InsertAt(q, i, e) = c \o b
  BY DEF InsertAt, a, b, c, m
<1>8. \A k \in 1..Len(q) : k < i => (c \o b)[k] = q[k]
  <2> SUFFICES ASSUME NEW k \in 1..Len(q), k < i PROVE (c \o b)[k] = q[k]
    OBVIOUS
  <2>1. k \in 1..(i - 1) /\ k \in 1..i + Len(b) /\ k <= i
    BY <1>1, <1>3
  <2>2. (c \o b)[k] = c[k]
    BY <1>6, <2>1
  <2> QED
    BY <1>2, <1>5, <2>1, <2>2 DEF c
<1>9. \A k \in 1..Len(q) : k >= i => (c \o b)[k + 1] = q[k]
  <2> SUFFICES ASSUME NEW k \in 1..Len(q), k >= i PROVE (c \o b)[k + 1] = q[k]
    OBVIOUS
  <2>1. /\ k + 1 \in 1..i + Len(b) /\ ~(k + 1 <= i) /\ k + 1 - i \in 1..(Len(q) - i + 1)
        /\ i + (k + 1 - i) - 1 = k
    BY <1>1, <1>3
  <2>2. (c \o b)[k + 1] = b[k + 1 - i]
    BY <1>6, <2>1
  <2> QED
    BY <1>3, <2>1, <2>2
<1>10. (c \o b)[i] = e
  <2>1. \A k \in 1..Len(a) + Len(m) : (a \o m)[k] = IF k <= Len(a) THEN a[k] ELSE m[k - Len(a)]
    BY <1>2, <1>4, ConcatProperties
  <2>2. Len(a) = i - 1 /\ Len(m) = 1 /\ i \in Nat /\ i >= 1
    BY <1>1, <1>2, <1>4
  <2>3. i \in 1..Len(a) + Len(m) /\ ~(i <= Len(a)) /\ i - Len(a) = 1
    BY <2>2
  <2>4. (a \o m)[i] = m[1]
    BY <2>1, <2>3
  <2>5. m[1] = e
    BY DEF m
  <2>6. Len(b) \in Nat /\ i \in 1..i + Len(b)
    BY <1>1, <1>3, <2>2
  <2>7. (c \o b)[i] = c[i]
    BY <1>6, <2>2, <2>6
  <2> QED
    BY <2>4, <2>5, <2>7 DEF c
<1>11. i + Len(b) = Len(q) + 1
  BY <1>1, <1>3
<1> QED
  BY <1>6, <1>7, <1>8, <1>9, <1>10, <1>11

LEMMA RemoveAtIs ==
    ASSUME NEW S, NEW q \in Seq(S), NEW i \in 1..Len(q)
    PROVE  /\ RemoveAt(q, i) \in Seq(S) /\ Len(RemoveAt(q, i)) = Len(q) - 1
           /\ \A k \in 1..(Len(q) - 1) :
                 RemoveAt(q, i)[k] = IF k < i THEN q[k] ELSE q[k + 1]
<1> DEFINE a == SubSeq(q, 1, i - 1)
           b == SubSeq(q, i + 1, Len(q))
<1>1. Len(q) \in Nat /\ i \in Nat /\ \A k \in 1..Len(q) : q[k] \in S
  BY ElementOfSeq
<1>2. a \in Seq(S) /\ Len(a) = i - 1 /\ \A k \in 1..(i - 1) : a[k] = q[k]
  <2>1. 1 \in Int /\ i - 1 \in Int /\ \A k \in 1..(i - 1) : q[k] \in S
    BY <1>1
  <2>2. /\ SubSeq(q, 1, i - 1) \in Seq(S)
        /\ Len(SubSeq(q, 1, i - 1)) = IF 1 <= i - 1 THEN i - 1 - 1 + 1 ELSE 0
        /\ \A k \in 1..(i - 1) - 1 + 1 : SubSeq(q, 1, i - 1)[k] = q[1 + k - 1]
    BY <2>1, SubSeqProperties
  <2> QED
    BY <1>1, <2>2
<1>3. b \in Seq(S) /\ Len(b) = Len(q) - i /\ \A k \in 1..(Len(q) - i) : b[k] = q[i + k]
  <2>1. i + 1 \in Int /\ Len(q) \in Int /\ \A k \in (i + 1)..Len(q) : q[k] \in S
    BY <1>1
  <2>2. /\ SubSeq(q, i + 1, Len(q)) \in Seq(S)
        /\ Len(SubSeq(q, i + 1, Len(q))) = IF i + 1 <= Len(q) THEN Len(q) - (i + 1) + 1 ELSE 0
        /\ \A k \in 1..Len(q) - (i + 1) + 1 : SubSeq(q, i + 1, Len(q))[k] = q[(i + 1) + k - 1]
    BY <2>1, SubSeqProperties
  <2> QED
    BY <1>1, <2>2
<1>4. RemoveAt(q, i) = a \o b
  BY DEF RemoveAt
<1> HIDE DEF a, b
<1>5. /\ a \o b \in Seq(S) /\ Len(a \o b) = Len(a) + Len(b)
      /\ \A k \in 1..Len(a) + Len(b) : (a \o b)[k] = IF k <= Len(a) THEN a[k] ELSE b[k - Len(a)]
  BY <1>2, <1>3, ConcatProperties
<1>6. \A k \in 1..(Len(q) - 1) : (a \o b)[k] = IF k < i THEN q[k] ELSE q[k + 1]
  <2> SUFFICES ASSUME NEW k \in 1..(Len(q) - 1)
               PROVE  (a \o b)[k] = IF k < i THEN q[k] ELSE q[k + 1]
    OBVIOUS
  <2>0. /\ Len(a) = i - 1 /\ Len(b) = Len(q) - i /\ Len(q) \in Nat /\ i \in Nat
        /\ 1 <= i /\ i <= Len(q) /\ k \in Nat /\ 1 <= k /\ k <= Len(q) - 1
    BY <1>1, <1>2, <1>3
  <2>1. k \in 1..Len(a) + Len(b)
    BY <2>0
  <2>2. (a \o b)[k] = IF k <= Len(a) THEN a[k] ELSE b[k - Len(a)]
    BY <1>5, <2>1
  <2>3. CASE k < i
    <3>1. k <= Len(a) /\ k \in 1..(i - 1)
      BY <2>0, <2>3
    <3> QED
      BY <1>2, <2>2, <2>3, <3>1
  <2>4. CASE ~(k < i)
    <3>1. /\ k - Len(a) \in 1..(Len(q) - i) /\ i + (k - Len(a)) = k + 1
          /\ ~(k <= Len(a))
      BY <2>0, <2>4
    <3>2. b[k - Len(a)] = q[i + (k - Len(a))]
      BY <1>3, <3>1
    <3> QED
      BY <2>2, <2>4, <3>1, <3>2
  <2> QED
    BY <2>3, <2>4
<1> QED
  BY <1>1, <1>2, <1>3, <1>4, <1>5, <1>6

-----------------------------------------------------------------------------
(* What a run has read: every store that was listed throughout stands where  *)
(* the pages have not been yet, or is on one of them; what they say of a     *)
(* store is something the directory has said.                                *)
Sync == [pc: {"page", "upsert"}, offset: Nat, list: Seq(Entry)]

DirectoryInv ==
    /\ directory \in Seq(Stores) /\ facts \in [Stores -> Facts]
    /\ told \in [Stores -> SUBSET Facts] /\ throughout \subseteq Stores
    /\ sync = NoSync \/ sync \in Sync

Ahead(s) == \E k \in 1..Len(directory) :
                directory[k] = s /\ (k <= sync.offset => s \in Listed(sync.list))

ReadInv ==
    /\ sync \in Sync =>
          \A i \in DOMAIN sync.list : sync.list[i].facts \in told[sync.list[i].id]
    /\ sync.pc = "page" => \A s \in Stores : facts[s] \in told[s]
    /\ sync.pc = "page" /\ ~closed => \A s \in throughout : Ahead(s)
    /\ sync.pc = "upsert" /\ ~closed => throughout \subseteq Listed(sync.list)

LEMMA SyncKind ==
    ASSUME DirectoryInv
    PROVE  /\ sync = NoSync => sync.pc = "idle" /\ sync \notin Sync
           /\ sync # NoSync => sync \in Sync /\ sync.pc \in {"page", "upsert"}
<1>1. NoSync.pc = "idle"
  BY DEF NoSync
<1>2. \A r \in Sync : r.pc \in {"page", "upsert"}
  BY DEF Sync
<1> QED
  BY <1>1, <1>2 DEF DirectoryInv

LEMMA DirectoryInit == StoreDirectoryInit => DirectoryInv /\ ReadInv /\ SeededWhole
<1> SUFFICES ASSUME StoreDirectoryInit PROVE DirectoryInv /\ ReadInv /\ SeededWhole
  OBVIOUS
<1>1. directory \in Seq(Stores)
  <2>1. \A S \in SUBSET Stores : IsFiniteSet(S)
    BY StoreDirectoryAssumption, FS_Subset
  <2>2. \A S \in SUBSET Stores : SetToSeq(S) \in Seq(S)
    BY <2>1, SetToSeqIs
  <2>3. \A S \in SUBSET Stores : SetToSeq(S) \in Seq(Stores)
    BY <2>2, SeqMonotonic
  <2>4. PICK S \in SUBSET Stores : directory = SetToSeq(S)
    BY DEF StoreDirectoryInit
  <2> QED
    BY <2>3, <2>4
<1>2. DirectoryInv
  BY <1>1 DEF StoreDirectoryInit, DirectoryInv
<1>3. sync = NoSync /\ skus = {}
  BY DEF StoreDirectoryInit
<1> QED
  BY <1>2, <1>3, SyncKind DEF ReadInv, SeededWhole

(* A page holds the stores from its offset on, each with what is said of it. *)
LEMMA PageRead ==
    ASSUME DirectoryInv, ReadInv, SyncPage
    PROVE  /\ sync' \in Sync
           /\ \A i \in DOMAIN sync'.list : sync'.list[i].facts \in told[sync'.list[i].id]
           /\ sync'.pc = "page" /\ ~closed => \A s \in throughout : Ahead(s)'
           /\ sync'.pc = "upsert" /\ ~closed => throughout \subseteq Listed(sync'.list)
<1> DEFINE first == sync.offset
           last == first + PageLength
           n == Len(directory)
           upto == IF last < n THEN last ELSE n
           ids == SubSeq(directory, first + 1, upto)
           new == [i \in DOMAIN ids |-> [id |-> ids[i], facts |-> facts[ids[i]]]]
           list == sync.list \o new
<1>1. sync \in Sync /\ sync.pc = "page" /\ first \in Nat /\ sync.list \in Seq(Entry)
  BY SyncKind DEF SyncPage, Reading, Sync
<1>2. /\ directory \in Seq(Stores) /\ n \in Nat /\ PageLength \in Nat \ {0} /\ last \in Nat
      /\ \A k \in 1..n : directory[k] \in Stores
  BY <1>1, StoreDirectoryAssumption, ElementOfSeq DEF DirectoryInv
<1>3. /\ UNCHANGED <<directory, facts, throughout, told, closed>>
      /\ sync' = IF last >= n THEN [pc |-> "upsert", offset |-> sync.offset, list |-> list]
                 ELSE [pc |-> "page", offset |-> last, list |-> list]
  BY DEF SyncPage, FirstOfPage, saq, syncHistory
<1> HIDE DEF first
<1>4. upto \in Nat /\ upto <= n /\ upto <= last
  BY <1>2
<1>5. /\ ids \in Seq(Stores) /\ Len(ids) = IF first + 1 <= upto THEN upto - first ELSE 0
      /\ \A k \in 1..(upto - first) : ids[k] = directory[first + k]
  <2>1. first + 1 \in Int /\ upto \in Int /\ \A k \in (first + 1)..upto : directory[k] \in Stores
    BY <1>1, <1>2, <1>4
  <2> HIDE DEF upto
  <2>2. /\ SubSeq(directory, first + 1, upto) \in Seq(Stores)
        /\ Len(SubSeq(directory, first + 1, upto)) =
              IF first + 1 <= upto THEN upto - (first + 1) + 1 ELSE 0
        /\ \A k \in 1..upto - (first + 1) + 1 :
              SubSeq(directory, first + 1, upto)[k] = directory[(first + 1) + k - 1]
    BY <2>1, SubSeqProperties
  <2>3. upto - (first + 1) + 1 = upto - first /\ \A k \in Nat : (first + 1) + k - 1 = first + k
    BY <1>1, <1>4
  <2>4. \A k \in 1..(upto - first) : k \in Nat
    BY <1>1, <1>4
  <2> QED
    BY <2>2, <2>3, <2>4
<1> HIDE DEF upto, ids
<1>6. /\ new \in Seq(Entry) /\ Len(new) = Len(ids) /\ DOMAIN new = 1..Len(ids)
      /\ \A k \in 1..Len(ids) : new[k].id = ids[k] /\ new[k].facts = facts[ids[k]]
  <2>1. DOMAIN ids = 1..Len(ids) /\ Len(ids) \in Nat /\ \A k \in 1..Len(ids) : ids[k] \in Stores
    BY <1>5, LenProperties, ElementOfSeq
  <2>2. \A k \in 1..Len(ids) : [id |-> ids[k], facts |-> facts[ids[k]]] \in Entry
    BY <2>1 DEF DirectoryInv, Entry
  <2>3. new \in [1..Len(ids) -> Entry]
    BY <2>1, <2>2
  <2>4. new \in Seq(Entry)
    BY <2>1, <2>3, SeqDef
  <2> QED
    BY <2>1, <2>3, <2>4, LenProperties
<1> HIDE DEF new
<1>7. /\ list \in Seq(Entry) /\ Len(list) = Len(sync.list) + Len(new)
      /\ \A k \in 1..Len(sync.list) : list[k] = sync.list[k]
      /\ \A k \in 1..Len(new) : list[Len(sync.list) + k] = new[k]
      /\ DOMAIN list = 1..Len(list)
  <2>1. /\ list \in Seq(Entry) /\ Len(list) = Len(sync.list) + Len(new)
        /\ \A k \in 1..Len(sync.list) + Len(new) :
              list[k] = IF k <= Len(sync.list) THEN sync.list[k] ELSE new[k - Len(sync.list)]
    <3>1. \A a, b \in Seq(Entry) :
            /\ a \o b \in Seq(Entry) /\ Len(a \o b) = Len(a) + Len(b)
            /\ \A k \in 1..Len(a) + Len(b) :
                  (a \o b)[k] = IF k <= Len(a) THEN a[k] ELSE b[k - Len(a)]
      BY ConcatProperties
    <3>2. sync.list \in Seq(Entry) /\ new \in Seq(Entry)
      BY <1>1, <1>6
    <3> QED
      BY <3>1, <3>2, Zenon
  <2>2. Len(sync.list) \in Nat /\ Len(new) \in Nat
    BY <1>1, <1>6
  <2> QED
    BY <2>1, <2>2, LenProperties
<1>8. DOMAIN sync.list = 1..Len(sync.list) /\ Len(sync.list) \in Nat /\ Len(new) \in Nat
  BY <1>1, <1>6
<1> HIDE DEF list
<1>9. Listed(list) = Listed(sync.list) \union {ids[k] : k \in 1..Len(ids)}
  <2>1. ASSUME NEW x \in Listed(list) PROVE x \in Listed(sync.list) \union {ids[k] : k \in 1..Len(ids)}
    <3>1. PICK k \in 1..Len(list) : x = list[k].id
      BY <1>7 DEF Listed
    <3>2. CASE k <= Len(sync.list)
      <4>1. k \in 1..Len(sync.list)
        BY <1>8, <3>2
      <4> QED
        BY <1>7, <1>8, <3>1, <4>1 DEF Listed
    <3>3. CASE k > Len(sync.list)
      <4>1. PICK j \in 1..Len(new) : k = Len(sync.list) + j
        <5>1. k - Len(sync.list) \in 1..Len(new) /\ k = Len(sync.list) + (k - Len(sync.list))
          BY <1>7, <1>8, <3>3
        <5> QED
          BY <5>1
      <4>2. list[k].id = ids[j]
        BY <1>6, <1>7, <4>1
      <4> QED
        BY <1>6, <3>1, <4>2
    <3> QED
      BY <1>8, <3>2, <3>3
  <2>2. ASSUME NEW x \in Listed(sync.list) PROVE x \in Listed(list)
    <3>1. PICK k \in 1..Len(sync.list) : x = sync.list[k].id
      BY <1>8 DEF Listed
    <3>2. k \in 1..Len(list) /\ list[k] = sync.list[k]
      BY <1>7, <1>8
    <3> QED
      BY <1>7, <3>1, <3>2 DEF Listed
  <2>3. ASSUME NEW k \in 1..Len(ids) PROVE ids[k] \in Listed(list)
    <3>1. Len(sync.list) + k \in 1..Len(list) /\ list[Len(sync.list) + k] = new[k]
      BY <1>6, <1>7, <1>8
    <3>2. list[Len(sync.list) + k].id = ids[k]
      BY <1>6, <3>1
    <3> QED
      BY <1>7, <3>1, <3>2 DEF Listed
  <2> QED
    BY <2>1, <2>2, <2>3
<1>10. /\ sync' \in Sync /\ sync'.list = list
       /\ last >= n => sync'.pc = "upsert"
       /\ ~(last >= n) => sync'.pc = "page" /\ sync'.offset = last
  <2> HIDE DEF last, n
  <2> QED
    BY <1>1, <1>2, <1>3, <1>7 DEF Sync, first
<1>11. \A i \in DOMAIN list : list[i].facts \in told[list[i].id]
  <2> SUFFICES ASSUME NEW i \in 1..Len(list) PROVE list[i].facts \in told[list[i].id]
    BY <1>7
  <2>1. CASE i <= Len(sync.list)
    <3>1. i \in 1..Len(sync.list)
      BY <1>8, <2>1
    <3> QED
      BY <1>1, <1>7, <1>8, <3>1 DEF ReadInv
  <2>2. CASE i > Len(sync.list)
    <3>1. PICK j \in 1..Len(new) : i = Len(sync.list) + j
      <4>1. i - Len(sync.list) \in 1..Len(new) /\ i = Len(sync.list) + (i - Len(sync.list))
        BY <1>7, <1>8, <2>2
      <4> QED
        BY <4>1
    <3>2. list[i].id = ids[j] /\ list[i].facts = facts[ids[j]] /\ ids[j] \in Stores
      BY <1>5, <1>6, <1>7, <3>1, ElementOfSeq
    <3> QED
      BY <1>1, <3>2 DEF ReadInv
  <2> QED
    BY <1>8, <2>1, <2>2
<1>12. ASSUME NEW s \in throughout, ~closed
       PROVE  \E k \in 1..n : directory[k] = s /\ (k <= last => s \in Listed(list))
  <2>1. PICK k \in 1..n : directory[k] = s /\ (k <= first => s \in Listed(sync.list))
    BY <1>1, <1>12 DEF ReadInv, Ahead, first
  <2>2. CASE k <= first
    BY <1>9, <2>1, <2>2
  <2>3. CASE k > first /\ k <= last
    <3>1. k <= upto /\ k - first \in 1..(upto - first) /\ first + (k - first) = k
          /\ k - first \in 1..Len(ids)
      BY <1>1, <1>2, <1>4, <1>5, <2>3 DEF upto
    <3>2. ids[k - first] = s
      BY <1>5, <2>1, <3>1
    <3> QED
      BY <1>9, <2>1, <3>1, <3>2
  <2>4. CASE k > last
    BY <1>2, <2>1, <2>4
  <2> QED
    BY <1>1, <1>2, <2>2, <2>3, <2>4
<1>13. ASSUME sync'.pc = "page", ~closed, NEW s \in throughout PROVE Ahead(s)'
  <2>1. sync'.offset = last
    BY <1>10, <1>13
  <2> QED
    BY <1>3, <1>10, <1>12, <1>13, <2>1 DEF Ahead
<1>14. ASSUME sync'.pc = "upsert", ~closed, NEW s \in throughout PROVE s \in Listed(list)
  <2>1. last >= n
    BY <1>10, <1>14
  <2> QED
    BY <1>2, <1>12, <1>14, <2>1
<1> QED
  BY <1>10, <1>11, <1>13, <1>14

LEMMA DirectoryStep ==
    DirectoryInv /\ ReadInv /\ [StoreDirectoryNext]_storeVars => DirectoryInv' /\ ReadInv'
<1> SUFFICES ASSUME DirectoryInv, ReadInv, [StoreDirectoryNext]_storeVars
             PROVE  DirectoryInv' /\ ReadInv'
  OBVIOUS
<1>0. /\ directory \in Seq(Stores) /\ facts \in [Stores -> Facts] /\ Len(directory) \in Nat
      /\ told \in [Stores -> SUBSET Facts]
  BY DEF DirectoryInv
<1>1. ASSUME NEW s \in Stores, StoreOpens(s) PROVE DirectoryInv' /\ ReadInv'
  <2>1. /\ UNCHANGED <<facts, throughout, told, closed, sync>>
    BY <1>1 DEF StoreOpens, Move, syncHistory
  <2>2. PICK i \in 1..Len(directory) + 1 : directory' = InsertAt(directory, i, s)
    BY <1>1 DEF StoreOpens
  <2>3. /\ directory' \in Seq(Stores) /\ Len(directory') = Len(directory) + 1
        /\ \A k \in 1..Len(directory) : k < i => directory'[k] = directory[k]
        /\ \A k \in 1..Len(directory) : k >= i => directory'[k + 1] = directory[k]
    <3>1. /\ InsertAt(directory, i, s) \in Seq(Stores)
          /\ Len(InsertAt(directory, i, s)) = Len(directory) + 1
          /\ \A k \in 1..Len(directory) : k < i => InsertAt(directory, i, s)[k] = directory[k]
          /\ \A k \in 1..Len(directory) : k >= i => InsertAt(directory, i, s)[k + 1] = directory[k]
      BY <1>0, InsertAtIs
    <3> QED
      BY <2>2, <3>1, Zenon
  <2>4. DirectoryInv'
    BY <2>1, <2>3 DEF DirectoryInv
  <2>5. ASSUME sync.pc = "page", NEW t \in Stores, Ahead(t) PROVE Ahead(t)'
    <3>1. PICK k \in 1..Len(directory) :
              directory[k] = t /\ (k <= sync.offset => t \in Listed(sync.list))
      BY <2>5 DEF Ahead
    <3>2. CASE k < i
      <4>1. k \in 1..Len(directory') /\ directory'[k] = t
        BY <1>0, <2>3, <3>1, <3>2
      <4> QED
        BY <2>1, <3>1, <4>1 DEF Ahead
    <3>3. CASE k >= i
      <4>1. k + 1 \in 1..Len(directory') /\ directory'[k + 1] = t
        BY <1>0, <2>3, <3>1, <3>3
      <4>2. sync.offset \in Nat
        BY <2>5, SyncKind DEF Sync
      <4>3. k + 1 <= sync.offset => t \in Listed(sync.list)
        BY <3>1, <4>2
      <4> QED
        BY <2>1, <4>1, <4>3 DEF Ahead
    <3> QED
      BY <1>0, <3>2, <3>3
  <2>6. throughout \subseteq Stores
    BY DEF DirectoryInv
  <2>7. ReadInv'
    BY <2>1, <2>5, <2>6 DEF ReadInv
  <2> QED
    BY <2>4, <2>7
<1>2. ASSUME NEW s \in Stores, StoreCloses(s) PROVE DirectoryInv' /\ ReadInv'
  <2>1. /\ UNCHANGED <<facts, told, sync>> /\ throughout' = throughout \ {s}
        /\ Reading => closed'
        /\ closed => closed'
    BY <1>2 DEF StoreCloses, Move
  <2>2. directory' \in Seq(Stores)
    BY <1>0, <1>2, RemoveAtIs DEF StoreCloses
  <2>3. DirectoryInv'
    BY <2>1, <2>2 DEF DirectoryInv
  <2>4. ReadInv'
    BY <2>1 DEF ReadInv, Reading
  <2> QED
    BY <2>3, <2>4
<1>3. ASSUME NEW s \in Stores, StoreMoves(s) PROVE DirectoryInv' /\ ReadInv'
  <2>1. PICK f \in Facts : /\ facts' = [facts EXCEPT ![s] = f]
                           /\ told' = IF Reading THEN [told EXCEPT ![s] = @ \union {f}] ELSE told
    BY <1>3 DEF StoreMoves
  <2>2. UNCHANGED <<directory, throughout, closed, sync>>
    BY <1>3 DEF StoreMoves, Move
  <2>3. DirectoryInv'
    BY <1>0, <2>1, <2>2 DEF DirectoryInv
  <2>4. \A t \in Stores : told[t] \subseteq told'[t]
    BY <1>0, <2>1
  <2>5. sync.pc = "page" => \A t \in Stores : facts'[t] \in told'[t]
    BY <1>0, <2>1 DEF ReadInv, Reading
  <2>6. sync \in Sync => \A i \in DOMAIN sync.list : sync.list[i].id \in Stores
    <3> SUFFICES ASSUME sync \in Sync, NEW i \in DOMAIN sync.list PROVE sync.list[i].id \in Stores
      OBVIOUS
    <3>1. sync.list \in Seq(Entry)
      BY DEF Sync
    <3>2. sync.list[i] \in Entry
      BY <3>1, LenProperties, ElementOfSeq
    <3> QED
      BY <3>2 DEF Entry
  <2>7. \A t : Ahead(t)' <=> Ahead(t)
    BY <2>2 DEF Ahead
  <2>8. ReadInv'
    BY <2>2, <2>4, <2>5, <2>6, <2>7 DEF ReadInv
  <2> QED
    BY <2>3, <2>8
<1>4. CASE SyncBegins
  <2>1. /\ UNCHANGED <<directory, facts>>
        /\ sync' = [pc |-> "page", offset |-> 0, list |-> <<>>]
        /\ throughout' = ToSet(directory) /\ told' = [s \in Stores |-> {facts[s]}]
    BY <1>4 DEF SyncBegins, saq
  <2>2. sync' \in Sync /\ sync'.pc = "page" /\ sync'.offset = 0 /\ DOMAIN sync'.list = {}
    BY <2>1 DEF Sync
  <2>3. DOMAIN directory = 1..Len(directory) /\ \A k \in 1..Len(directory) : directory[k] \in Stores
    BY <1>0, ElementOfSeq, LenProperties
  <2>4. DirectoryInv'
    BY <1>0, <2>1, <2>2, <2>3 DEF DirectoryInv, ToSet
  <2>5. \A s \in throughout' : Ahead(s)'
    <3> SUFFICES ASSUME NEW s \in throughout' PROVE Ahead(s)'
      OBVIOUS
    <3>1. PICK k \in 1..Len(directory) : directory[k] = s
      BY <2>1, <2>3 DEF ToSet
    <3>2. ~(k <= sync'.offset)
      BY <1>0, <2>2
    <3> QED
      BY <2>1, <3>1, <3>2 DEF Ahead
  <2> QED
    BY <1>0, <2>1, <2>2, <2>4, <2>5 DEF ReadInv
<1>5. CASE SyncPage
  <2>1. UNCHANGED <<directory, facts, throughout, told, closed>> /\ Reading
    BY <1>5 DEF SyncPage, saq, syncHistory
  <2>2. DirectoryInv'
    BY <1>5, <2>1, PageRead DEF DirectoryInv
  <2> QED
    BY <1>5, <2>1, <2>2, PageRead DEF ReadInv, Reading
<1>6. CASE SyncCommit \/ SyncFails
  <2>1. /\ UNCHANGED <<directory, facts>> /\ sync' = NoSync /\ throughout' = {}
        /\ told' = [s \in Stores |-> {}]
    BY <1>6 DEF SyncCommit, SyncFails, EndSync, saq
  <2>2. DirectoryInv'
    BY <1>0, <2>1 DEF DirectoryInv, NoSync
  <2>3. sync'.pc = "idle" /\ sync' \notin Sync
    BY <2>1 DEF NoSync, Sync
  <2> QED
    BY <2>2, <2>3 DEF ReadInv
<1>7. CASE SeedCount \/ SeedInsert \/ SeedFails \/ (\E p \in RealProducts : ProductScraped(p))
  <2>1. UNCHANGED <<directory, facts, sync, throughout, told, closed>>
    BY <1>7 DEF SeedCount, SeedInsert, SeedFails, ProductScraped, saq, syncHistory
  <2> QED
    BY <2>1 DEF DirectoryInv, ReadInv, Ahead
<1>8. CASE UNCHANGED storeVars
  BY <1>8 DEF storeVars, saq, syncHistory, DirectoryInv, ReadInv, Ahead
<1> QED
  BY <1>1, <1>2, <1>3, <1>4, <1>5, <1>6, <1>7, <1>8 DEF StoreDirectoryNext

LEMMA DirectoryInvariant == StoreDirectorySpec => [](DirectoryInv /\ ReadInv)
<1>1. StoreDirectoryInit => DirectoryInv /\ ReadInv
  BY DirectoryInit
<1> QED
  BY <1>1, DirectoryStep, PTL DEF StoreDirectorySpec

(* A run of "stores" that commits has every store that was in the SAQ's      *)
(* directory throughout, with something the directory said of it meanwhile,  *)
(* unless a store closed while the pages were read, however long the         *)
(* directory and a page are (scraper/stores.py).                             *)
THEOREM DirectoryIsWhole == StoreDirectorySpec => DirectoryWhole
<1> DEFINE Whole == SyncCommit => \/ closed
                                  \/ \A s \in throughout : s \in DOMAIN stores' /\ stores'[s] \in told[s]
<1>1. ASSUME DirectoryInv, ReadInv, SyncCommit, ~closed, NEW s \in throughout
      PROVE  s \in DOMAIN stores' /\ stores'[s] \in told[s]
  <2> DEFINE list == sync.list
  <2>1. /\ sync.pc = "upsert" /\ OncePerStore(list)
        /\ stores' = [t \in DOMAIN stores \union Listed(list) |->
                         IF t \in Listed(list) THEN FactsOf(list, t) ELSE stores[t]]
    BY <1>1 DEF SyncCommit
  <2>2. s \in Listed(list) /\ sync \in Sync /\ list \in Seq(Entry)
    BY <1>1, <2>1, SyncKind DEF ReadInv, Sync
  <2>3. PICK i \in DOMAIN list : list[i].id = s
    BY <2>2 DEF Listed
  <2>4. {k \in DOMAIN list : list[k].id = s} = {i}
    BY <2>1, <2>3 DEF OncePerStore
  <2>5. i \in Nat
    BY <2>2, <2>3, LenProperties
  <2>6. Max({i}) = i
    BY <2>5 DEF Max
  <2>7. FactsOf(list, s) = list[i].facts
    BY <2>4, <2>6 DEF FactsOf
  <2>8. list[i].facts \in told[s]
    BY <1>1, <2>2, <2>3 DEF ReadInv
  <2> QED
    BY <2>1, <2>2, <2>7, <2>8
<1>2. DirectoryInv /\ ReadInv /\ [StoreDirectoryNext]_storeVars => [Whole]_storeVars
  BY <1>1
<1> QED
  BY <1>2, DirectoryInvariant, PTL DEF StoreDirectorySpec, DirectoryWhole

(* Seeded products never stand without all of them and the seeded stores,    *)
(* whatever a scrape, a store sync or a second seed does in between          *)
(* (scraper/seed.py).                                                        *)
THEOREM SeedIsWhole == StoreDirectorySpec => []SeededWhole
<1>1. StoreDirectoryInit => SeededWhole
  BY DirectoryInit
<1>2. SeededWhole /\ [StoreDirectoryNext]_storeVars => SeededWhole'
  <2> SUFFICES ASSUME SeededWhole, [StoreDirectoryNext]_storeVars PROVE SeededWhole'
    OBVIOUS
  <2>1. CASE SyncCommit
    <3>1. skus' = skus /\ DOMAIN stores \subseteq DOMAIN stores'
      BY <2>1 DEF SyncCommit
    <3> QED
      BY <3>1 DEF SeededWhole
  <2>2. CASE SeedInsert
    <3>1. skus' = skus \union SeedProducts /\ SeedStores \subseteq DOMAIN stores'
      BY <2>2 DEF SeedInsert, BothParts
    <3> QED
      BY <3>1 DEF SeededWhole
  <2>3. CASE \E p \in RealProducts : ProductScraped(p)
    <3>1. PICK p \in RealProducts : skus' = skus \union {p} /\ stores' = stores
      BY <2>3 DEF ProductScraped
    <3>2. p \notin SeedProducts
      BY StoreDirectoryAssumption
    <3> QED
      BY <3>1, <3>2 DEF SeededWhole
  <2>4. CASE UNCHANGED <<stores, skus>>
    BY <2>4 DEF SeededWhole
  <2>5. SyncBegins \/ SyncPage \/ SyncFails \/ SeedCount \/ SeedFails
            \/ (\E s \in Stores : StoreOpens(s) \/ StoreCloses(s) \/ StoreMoves(s))
            \/ UNCHANGED storeVars
        => UNCHANGED <<stores, skus>>
    BY DEF SyncBegins, SyncPage, SyncFails, SeedCount, SeedFails, StoreOpens, StoreCloses,
           StoreMoves, Move, storeVars
  <2> QED
    BY <2>1, <2>2, <2>3, <2>4, <2>5 DEF StoreDirectoryNext
<1> QED
  BY <1>1, <1>2, PTL DEF StoreDirectorySpec

-----------------------------------------------------------------------------
(* The conversations.                                                        *)

(* A request under way: while its transaction holds a message, its session   *)
(* stands; once it has read the history, no wine it may answer with is one   *)
(* of an answer that stood by then.                                          *)
Sound(q) ==
    /\ q.pc \in {"history", "intent", "answer"} =>
          /\ q.session \in Live
          /\ q.written.session = q.session /\ q.written.send = q.id
          /\ q.written.role = "user" /\ q.written.wines = {}
          /\ q.written.at < clock /\ q.written.since <= q.written.at
    /\ q.pc \in {"intent", "answer"} => q.since < clock
    /\ q.pc = "intent" =>
          \A m \in messages : m.session = q.session /\ m.at < q.since => m.wines \subseteq q.exclude
    /\ q.pc = "answer" =>
          \A m \in messages : m.session = q.session /\ m.at < q.since => m.wines \cap q.wines = {}

Overlapped(m, n) ==
    m.session = n.session /\ m.wines \cap n.wines # {} => m.since <= n.at /\ n.since <= m.at

ChatInv ==
    /\ \A r \in Slots : Sound(send[r])
    /\ \A m \in messages : m.since <= m.at /\ m.at < clock
    /\ \A m, n \in messages : Overlapped(m, n)
    /\ TurnsWhole

LEMMA SendKinds ==
    ASSUME NEW q \in Send
    PROVE  /\ q.pc \in {"idle", "message", "history", "intent", "answer", "recommend"}
           /\ q.pc = "message" => q.id \in 1..MaxSends /\ q.session \in Sessions
           /\ q.pc \in {"history", "intent", "answer"} =>
                 q.id \in 1..MaxSends /\ q.session \in Sessions /\ q.written \in Message
           /\ q.pc = "intent" => q.exclude \subseteq Cellarman /\ q.since \in Nat
           /\ q.pc = "answer" => q.wines \subseteq Cellarman /\ q.since \in Nat
           /\ q.pc = "recommend" => q.user \in People
<1>1. CASE q = Nobody
  BY <1>1 DEF Nobody
<1>2. CASE q # Nobody
  BY <1>2 DEF Send
<1> QED
  BY <1>1, <1>2

(* One request moves, the others stay; what was sound stays sound.           *)
LEMMA OneMoves ==
    ASSUME ConversationsTypeOK, NEW r \in Slots, NEW new \in Send, SetSend(r, new),
           \A q \in Slots : Sound(send[q]), Sound(new)',
           \A q \in Send : Sound(q) => Sound(q)'
    PROVE  send' \in [Slots -> Send] /\ \A q \in Slots : Sound(send[q])'
<1>1. send \in [Slots -> Send] /\ send' = [send EXCEPT ![r] = new]
  BY DEF ConversationsTypeOK, SetSend
<1>2. send' \in [Slots -> Send]
  BY <1>1
<1>3. ASSUME NEW q \in Slots PROVE Sound(send[q])'
  <2>1. PICK v \in Send : v = send'[q]
    BY <1>2
  <2>2. Sound(v)'
    <3>1. CASE q = r
      <4>1. v = new
        BY <1>1, <2>1, <3>1
      <4> QED
        BY <4>1
    <3>2. CASE q # r
      <4>1. v = send[q]
        BY <1>1, <2>1, <3>2
      <4>2. Sound(v)
        BY <4>1
      <4> QED
        BY <4>2
    <3> QED
      BY <3>1, <3>2
  <2> QED
    BY <2>1, <2>2 DEF Sound
<1> QED
  BY <1>2, <1>3

(* What keeps a request sound: its session stands, time does not go back, and *)
(* new messages come after it has read the history, or are without wines.     *)
LEMMA SoundKept ==
    ASSUME ConversationsTypeOK, Live \subseteq Live', clock' \in Nat, clock <= clock',
           \A m \in messages' : m \in messages \/ m.wines = {} \/ m.at = clock,
           NEW q \in Send, Sound(q)
    PROVE  Sound(q)'
<1>1. clock \in Nat /\ \A m \in messages : m.wines \subseteq Cellarman
  BY DEF ConversationsTypeOK, Message
<1>2. ASSUME q.pc \in {"history", "intent", "answer"}
      PROVE  q.written.at \in Nat /\ q.written.at < clock
  BY <1>2, SendKinds DEF Sound, Message
<1>3. ASSUME q.pc \in {"intent", "answer"} PROVE q.since \in Nat /\ q.since < clock
  BY <1>3, SendKinds DEF Sound
<1>4. ASSUME q.pc \in {"intent", "answer"}, NEW m \in messages', m.at < q.since
      PROVE  m \in messages \/ m.wines = {}
  BY <1>1, <1>3, <1>4
<1>5. ASSUME q.pc = "intent", NEW m \in messages', m.session = q.session, m.at < q.since
      PROVE  m.wines \subseteq q.exclude
  BY <1>4, <1>5 DEF Sound
<1>6. ASSUME q.pc = "answer", NEW m \in messages', m.session = q.session, m.at < q.since
      PROVE  m.wines \cap q.wines = {}
  BY <1>4, <1>6 DEF Sound
<1>7. ASSUME q.pc \in {"history", "intent", "answer"}
      PROVE  /\ q.session \in Live' /\ q.written.session = q.session /\ q.written.send = q.id
             /\ q.written.role = "user" /\ q.written.wines = {}
             /\ q.written.at < clock' /\ q.written.since <= q.written.at
  BY <1>1, <1>2, <1>7 DEF Sound
<1>8. q.pc \in {"intent", "answer"} => q.since < clock'
  BY <1>1, <1>3
<1> QED
  BY <1>5, <1>6, <1>7, <1>8 DEF Sound

(* Sessions go with their messages, and no request holds them.               *)
LEMMA ErasedSafely ==
    ASSUME ConversationsTypeOK, ChatInv, NEW S \in SUBSET Live, Erase(S), S \cap Holding = {},
           UNCHANGED <<send, clock>>
    PROVE  /\ ChatInv' /\ DOMAIN owner' = Live \ S /\ \A s \in Live \ S : owner'[s] = owner[s]
           /\ renamed' \subseteq DOMAIN owner' /\ messages' \subseteq Message
           /\ {m.session : m \in messages'} \subseteq DOMAIN owner'
<1>1. /\ DOMAIN owner' = Live \ S /\ \A s \in Live \ S : owner'[s] = owner[s]
      /\ renamed' = renamed \ S
      /\ \A m : m \in messages' <=> m \in messages /\ m.session \notin S
  BY DEF Erase, Without, Live
<1>2. /\ renamed' \subseteq DOMAIN owner' /\ messages' \subseteq Message
      /\ {m.session : m \in messages'} \subseteq DOMAIN owner'
  BY <1>1 DEF ConversationsTypeOK, Live
<1>3. ASSUME NEW r \in Slots PROVE Sound(send[r])'
  <2>1. PICK v \in Send : v = send[r]
    BY DEF ConversationsTypeOK
  <2>2. Sound(v) /\ v = send'[r]
    BY <2>1 DEF ChatInv
  <2>3. v.pc \in {"history", "intent", "answer"} => v.session \notin S
    BY <2>1 DEF Holding, Pc
  <2>4. Sound(v)'
    BY <1>1, <2>2, <2>3 DEF Sound, Live
  <2> QED
    BY <2>2, <2>4 DEF Sound
<1>4. \A m \in messages' : m.since <= m.at /\ m.at < clock'
  BY <1>1 DEF ChatInv
<1>5. \A m, n \in messages' : Overlapped(m, n)
  BY <1>1 DEF ChatInv
<1>6. TurnsWhole'
  BY <1>1 DEF ChatInv, TurnsWhole
<1> QED
  BY <1>1, <1>2, <1>3, <1>4, <1>5, <1>6 DEF ChatInv, Overlapped

LEMMA ChatInit == ConversationsInit => ConversationsTypeOK /\ ChatInv
<1> SUFFICES ASSUME ConversationsInit PROVE ConversationsTypeOK /\ ChatInv
  OBVIOUS
<1>1. /\ registered = People /\ DOMAIN owner = {} /\ renamed = {} /\ messages = {} /\ logs = {}
      /\ sends = 0 /\ clock = 0
  BY DEF ConversationsInit
<1>2. send \in [Slots -> Send] /\ \A r \in Slots : send[r] = Nobody
  BY DEF ConversationsInit, Send
<1>3. ConversationsTypeOK
  BY <1>1, <1>2, ConversationsAssumption DEF ConversationsTypeOK
<1>4. Nobody.pc = "idle"
  BY DEF Nobody
<1>5. \A r \in Slots : Sound(send[r])
  BY <1>2, <1>4 DEF Sound
<1> QED
  BY <1>1, <1>3, <1>5 DEF ChatInv, TurnsWhole

(* A step of one request that stores no message.                             *)
LEMMA RequestMoves ==
    ASSUME ConversationsTypeOK, ChatInv, NEW r \in Slots, NEW new \in Send, SetSend(r, new),
           UNCHANGED <<registered, owner, renamed, messages>>,
           logs' \subseteq Key, sends' \in 0..MaxSends, clock' \in Nat, clock <= clock', Sound(new)'
    PROVE  ConversationsTypeOK' /\ ChatInv'
<1>0. clock \in Nat /\ Live' = Live
  BY DEF ConversationsTypeOK, Live
<1>1. \A q \in Send : Sound(q) => Sound(q)'
  BY <1>0, SoundKept
<1>2. send' \in [Slots -> Send] /\ \A q \in Slots : Sound(send[q])'
  BY <1>1, OneMoves DEF ChatInv
<1>3. ConversationsTypeOK'
  BY <1>2 DEF ConversationsTypeOK
<1>4. \A m \in messages' : m.since <= m.at /\ m.at < clock'
  <2>1. \A m \in messages : m.at \in Nat /\ m.at < clock /\ m.since <= m.at
    BY DEF ConversationsTypeOK, Message, ChatInv
  <2> QED
    BY <1>0, <2>1
<1>5. \A m, n \in messages' : Overlapped(m, n)
  BY DEF ChatInv
<1>6. TurnsWhole'
  BY DEF ChatInv, TurnsWhole
<1> QED
  BY <1>2, <1>3, <1>4, <1>5, <1>6 DEF ChatInv, Overlapped

LEMMA TurnKept ==
    ASSUME ConversationsTypeOK, ChatInv, NEW r \in Slots, SendCommit(r)
    PROVE  ConversationsTypeOK' /\ ChatInv'
<1> DEFINE q == send[r]
           a == Answer(r)
           w == q.written
<1>1. /\ q \in Send /\ q.pc = "answer" /\ Sound(q) /\ clock \in Nat /\ clock' = clock + 1
      /\ UNCHANGED <<registered, owner, renamed, sends>> /\ SetSend(r, Nobody)
      /\ messages' = messages \union {w, a}
      /\ logs' = IF q.logged THEN logs \union {LogKey(q.session)} ELSE logs
  BY DEF SendCommit, Pc, Tick, ConversationsTypeOK, ChatInv
<1>2. /\ q.id \in 1..MaxSends /\ q.session \in Sessions /\ w \in Message
      /\ q.wines \subseteq Cellarman /\ q.since \in Nat
  BY <1>1, SendKinds
<1>3. /\ q.session \in Live /\ w.session = q.session /\ w.send = q.id /\ w.role = "user"
      /\ w.wines = {} /\ w.at < clock /\ w.since <= w.at /\ q.since < clock
      /\ \A m \in messages : m.session = q.session /\ m.at < q.since => m.wines \cap q.wines = {}
  BY <1>1 DEF Sound
<1>4. /\ a \in Message /\ a.session = q.session /\ a.role = "assistant" /\ a.send = q.id
      /\ a.at = clock /\ a.wines = q.wines /\ a.since = q.since
  BY <1>1, <1>2 DEF Answer, Message
<1>5. \A m \in messages : /\ m \in Message /\ m.at \in Nat /\ m.since \in Nat
                          /\ m.since <= m.at /\ m.at < clock
  BY DEF ConversationsTypeOK, Message, ChatInv
<1>6. w.at \in Nat /\ w.since \in Nat
  BY <1>2 DEF Message
<1> HIDE DEF w, a, q
<1>7. Nobody \in Send /\ Sound(Nobody)'
  BY DEF Send, Nobody, Sound
<1>8. \A p \in Send : Sound(p) => Sound(p)'
  <2>1. \A m \in messages' : m \in messages \/ m.wines = {} \/ m.at = clock
    BY <1>1, <1>3, <1>4
  <2>2. Live \subseteq Live' /\ clock' \in Nat /\ clock <= clock'
    BY <1>1 DEF Live
  <2> QED
    BY <2>1, <2>2, SoundKept
<1>9. send' \in [Slots -> Send] /\ \A p \in Slots : Sound(send[p])'
  BY <1>1, <1>7, <1>8, OneMoves DEF ChatInv
<1>10. ConversationsTypeOK'
  <2>1. LogKey(q.session) \in Key
    <3>1. owner[q.session] \in People
      BY <1>3 DEF ConversationsTypeOK, Live
    <3> QED
      BY <3>1 DEF LogKey, Key
  <2>2. logs' \subseteq Key
    BY <1>1, <2>1 DEF ConversationsTypeOK
  <2>3. {m.session : m \in messages'} \subseteq DOMAIN owner'
    BY <1>1, <1>3, <1>4 DEF ConversationsTypeOK, Live
  <2>4. messages' \subseteq Message
    BY <1>1, <1>2, <1>4 DEF ConversationsTypeOK
  <2>5. clock' \in Nat
    BY <1>1
  <2> QED
    BY <1>1, <1>9, <2>2, <2>3, <2>4, <2>5 DEF ConversationsTypeOK
<1>11. \A m \in messages' : m.since <= m.at /\ m.at < clock'
  BY <1>1, <1>2, <1>3, <1>4, <1>5, <1>6
<1>12. ASSUME NEW m \in messages PROVE Overlapped(m, a) /\ Overlapped(a, m)
  BY <1>2, <1>3, <1>4, <1>5, <1>1 DEF Overlapped
<1>13. ASSUME NEW m \in Message PROVE Overlapped(m, w) /\ Overlapped(w, m)
  <2>1. m.wines \cap w.wines = {} /\ w.wines \cap m.wines = {}
    BY <1>3
  <2> QED
    BY <2>1 DEF Overlapped
<1>14. Overlapped(a, a)
  BY <1>1, <1>2, <1>3, <1>4 DEF Overlapped
<1>15. ASSUME NEW m \in messages', NEW n \in messages' PROVE Overlapped(m, n)
  <2>1. CASE m = w \/ n = w
    BY <1>1, <1>2, <1>4, <1>5, <1>13, <2>1
  <2>2. CASE m # w /\ n # w
    <3>1. (m \in messages \/ m = a) /\ (n \in messages \/ n = a)
      BY <1>1, <2>2
    <3>2. m \in messages /\ n \in messages => Overlapped(m, n)
      BY DEF ChatInv
    <3> QED
      BY <1>12, <1>14, <3>1, <3>2
  <2> QED
    BY <2>1, <2>2
<1>16. TurnsWhole'
  <2> SUFFICES ASSUME NEW m \in messages'
               PROVE  \E n \in messages' : n.send = m.send /\ n.session = m.session /\ n.role # m.role
    BY DEF TurnsWhole
  <2>1. CASE m \in messages
    BY <1>1, <2>1 DEF ChatInv, TurnsWhole
  <2>2. CASE m = w
    BY <1>1, <1>3, <1>4, <2>2
  <2>3. CASE m = a
    BY <1>1, <1>3, <1>4, <2>3
  <2> QED
    BY <1>1, <2>1, <2>2, <2>3
<1> QED
  BY <1>9, <1>10, <1>11, <1>15, <1>16 DEF ChatInv, Overlapped

LEMMA ChatStep ==
    ConversationsTypeOK /\ ChatInv /\ [ConversationsNext]_conversationVars
        => ConversationsTypeOK' /\ ChatInv'
<1> SUFFICES ASSUME ConversationsTypeOK, ChatInv, [ConversationsNext]_conversationVars
             PROVE  ConversationsTypeOK' /\ ChatInv'
  OBVIOUS
<1>0. /\ clock \in Nat /\ sends \in 0..MaxSends /\ logs \subseteq Key /\ MaxSends \in Nat
      /\ \A r \in Slots : send[r] \in Send /\ Sound(send[r])
  BY ConversationsAssumption DEF ConversationsTypeOK, ChatInv
<1>n. Nobody \in Send /\ Sound(Nobody)'
  BY DEF Send, Nobody, Sound
<1>1. ASSUME NEW u \in People, DeleteAccount(u) PROVE ConversationsTypeOK' /\ ChatInv'
  <2> DEFINE S == {s \in Live : owner[s] = u}
  <2>1. /\ S \in SUBSET Live /\ Erase(S) /\ S \cap Holding = {} /\ UNCHANGED <<send, clock, sends>>
        /\ registered' = registered \ {u} /\ logs' \subseteq logs
    BY <1>1 DEF DeleteAccount
  <2>s. \A s \in Live \ S : owner[s] \in registered'
    BY <2>1 DEF ConversationsTypeOK, Live
  <2> HIDE DEF S
  <2>2. /\ ChatInv' /\ DOMAIN owner' = Live \ S /\ \A s \in Live \ S : owner'[s] = owner[s]
        /\ renamed' \subseteq DOMAIN owner' /\ messages' \subseteq Message
        /\ {m.session : m \in messages'} \subseteq DOMAIN owner'
    BY <2>1, ErasedSafely
  <2>3. ConversationsTypeOK'
    BY <2>1, <2>2, <2>s DEF ConversationsTypeOK, Live
  <2> QED
    BY <2>2, <2>3
<1>2. ASSUME NEW u \in People, NEW s \in Sessions, CreateSession(u, s)
      PROVE  ConversationsTypeOK' /\ ChatInv'
  <2>1. /\ UNCHANGED <<registered, renamed, messages, logs, send, sends, clock>>
        /\ owner' = [x \in Live \union {s} |-> IF x = s THEN u ELSE owner[x]]
        /\ u \in registered /\ s \notin Live
    BY <1>2 DEF CreateSession
  <2>2. Live' = Live \union {s} /\ DOMAIN owner' = DOMAIN owner \union {s}
    BY <2>1 DEF Live
  <2>3. ConversationsTypeOK'
    BY <2>1, <2>2 DEF ConversationsTypeOK, Live
  <2>4. \A q \in Send : Sound(q) => Sound(q)'
    BY <1>0, <2>1, <2>2, SoundKept
  <2>5. ASSUME NEW r \in Slots PROVE Sound(send[r])'
    <3>1. PICK v \in Send : v = send[r]
      BY <1>0
    <3>2. Sound(v)' /\ v = send'[r]
      BY <1>0, <2>1, <2>4, <3>1
    <3> QED
      BY <3>2 DEF Sound
  <2> QED
    BY <2>1, <2>3, <2>5 DEF ChatInv, Overlapped, TurnsWhole
<1>3. ASSUME NEW s \in Sessions, RenameSession(s) PROVE ConversationsTypeOK' /\ ChatInv'
  <2>1. /\ UNCHANGED <<registered, owner, messages, logs, send, sends, clock>>
        /\ renamed' = renamed \union {s} /\ s \in Live
    BY <1>3 DEF RenameSession
  <2>2. ConversationsTypeOK'
    BY <2>1 DEF ConversationsTypeOK, Live
  <2> QED
    BY <2>1, <2>2 DEF ChatInv, Sound, Live, Overlapped, TurnsWhole
<1>4. ASSUME NEW s \in Sessions, DeleteSession(s) PROVE ConversationsTypeOK' /\ ChatInv'
  <2>1. /\ {s} \in SUBSET Live /\ Erase({s}) /\ {s} \cap Holding = {}
        /\ UNCHANGED <<registered, logs, send, sends, clock>>
    BY <1>4 DEF DeleteSession
  <2>2. /\ ChatInv' /\ DOMAIN owner' = Live \ {s} /\ \A x \in Live \ {s} : owner'[x] = owner[x]
        /\ renamed' \subseteq DOMAIN owner' /\ messages' \subseteq Message
        /\ {m.session : m \in messages'} \subseteq DOMAIN owner'
    BY <2>1, ErasedSafely
  <2>3. ConversationsTypeOK'
    BY <2>1, <2>2 DEF ConversationsTypeOK, Live
  <2> QED
    BY <2>2, <2>3
<1>5. ASSUME NEW r \in Slots, NEW s \in Sessions, SendBegins(r, s)
      PROVE  ConversationsTypeOK' /\ ChatInv'
  <2> DEFINE new == [pc |-> "message", id |-> sends', session |-> s]
  <2>1. /\ UNCHANGED <<registered, owner, renamed, messages, logs, clock>> /\ SetSend(r, new)
        /\ sends' = sends + 1 /\ sends < MaxSends
    BY <1>5 DEF SendBegins
  <2>2. sends' \in 0..MaxSends /\ sends' \in 1..MaxSends
    BY <1>0, <2>1
  <2>3. new \in Send /\ new.pc = "message"
    BY <2>2 DEF Send
  <2> HIDE DEF new
  <2>4. PICK v \in Send : v = new /\ v.pc = "message"
    BY <2>3
  <2>5. Sound(v)' /\ SetSend(r, v)
    BY <2>1, <2>4 DEF Sound
  <2> QED
    BY <1>0, <2>1, <2>2, <2>5, RequestMoves
<1>6. ASSUME NEW r \in Slots, SendMessage(r) PROVE ConversationsTypeOK' /\ ChatInv'
  <2> DEFINE q == send[r]
             w == UserMessage(r)
             new == [pc |-> "history", id |-> q.id, session |-> q.session, written |-> w]
  <2>1. /\ UNCHANGED <<registered, owner, renamed, messages, logs, sends>> /\ SetSend(r, new)
        /\ clock' = clock + 1 /\ q.pc = "message" /\ q.session \in Live
    BY <1>6 DEF SendMessage, SeenAtFlush, Tick, Pc
  <2>2. q.id \in 1..MaxSends /\ q.session \in Sessions
    BY <1>0, <2>1, SendKinds
  <2>3. /\ w \in Message /\ w.session = q.session /\ w.send = q.id /\ w.role = "user"
        /\ w.wines = {} /\ w.at = clock /\ w.since = clock
    BY <1>0, <2>2 DEF UserMessage, Message
  <2> HIDE DEF w
  <2>4. /\ new \in Send /\ new.pc = "history" /\ new.session = q.session /\ new.id = q.id
        /\ new.written = w
    BY <2>2, <2>3 DEF Send
  <2> HIDE DEF new
  <2>5. PICK v \in Send : v = new
    BY <2>4
  <2>6. Sound(v)' /\ SetSend(r, v)
    BY <1>0, <2>1, <2>3, <2>4, <2>5 DEF Sound, Live
  <2> QED
    BY <1>0, <2>1, <2>6, RequestMoves
<1>7. ASSUME NEW r \in Slots, SendHistory(r) PROVE ConversationsTypeOK' /\ ChatInv'
  <2> DEFINE q == send[r]
             e == ExcludeSkus(History(r))
             new == [pc |-> "intent", id |-> q.id, session |-> q.session, written |-> q.written,
                     exclude |-> e, since |-> clock]
  <2>1. /\ UNCHANGED <<registered, owner, renamed, messages, logs, sends>> /\ SetSend(r, new)
        /\ clock' = clock + 1 /\ q.pc = "history"
    BY <1>7 DEF SendHistory, Tick, Pc
  <2>2. q.id \in 1..MaxSends /\ q.session \in Sessions /\ q.written \in Message
    BY <1>0, <2>1, SendKinds
  <2>3. e \subseteq Cellarman /\ \A m \in messages : m.session = q.session => m.wines \subseteq e
    BY <2>2 DEF ExcludeSkus, History, ConversationsTypeOK, Message
  <2>4. /\ q.session \in Live /\ q.written.session = q.session /\ q.written.send = q.id
        /\ q.written.role = "user" /\ q.written.wines = {}
        /\ q.written.at < clock /\ q.written.since <= q.written.at /\ q.written.at \in Nat
    BY <1>0, <2>1, <2>2 DEF Sound, Message
  <2> HIDE DEF e
  <2>5. /\ new \in Send /\ new.pc = "intent" /\ new.session = q.session /\ new.id = q.id
        /\ new.written = q.written /\ new.exclude = e /\ new.since = clock
    BY <1>0, <2>2, <2>3 DEF Send
  <2> HIDE DEF new
  <2>6. PICK v \in Send : v = new
    BY <2>5
  <2>7. Sound(v)' /\ SetSend(r, v)
    BY <1>0, <2>1, <2>3, <2>4, <2>5, <2>6 DEF Sound, Live
  <2> QED
    BY <1>0, <2>1, <2>7, RequestMoves
<1>8. ASSUME NEW r \in Slots, SendIntent(r) PROVE ConversationsTypeOK' /\ ChatInv'
  <2> DEFINE q == send[r]
  <2>1. /\ UNCHANGED <<registered, owner, renamed, messages, logs, sends, clock>>
        /\ q.pc = "intent"
    BY <1>8 DEF SendIntent, Pc
  <2>2. PICK intent \in Intents :
           \E wines \in IF intent = "recommendation" THEN FindSimilar(q.exclude) ELSE {{}} :
              SetSend(r, [pc |-> "answer", id |-> q.id, session |-> q.session,
                          written |-> q.written, wines |-> wines,
                          logged |-> intent = "recommendation", since |-> q.since])
    BY <1>8 DEF SendIntent
  <2>3. PICK wines \in IF intent = "recommendation" THEN FindSimilar(q.exclude) ELSE {{}} :
              SetSend(r, [pc |-> "answer", id |-> q.id, session |-> q.session,
                          written |-> q.written, wines |-> wines,
                          logged |-> intent = "recommendation", since |-> q.since])
    BY <2>2
  <2>4. PICK logged \in BOOLEAN : logged = (intent = "recommendation")
    OBVIOUS
  <2> DEFINE new == [pc |-> "answer", id |-> q.id, session |-> q.session, written |-> q.written,
                     wines |-> wines, logged |-> logged, since |-> q.since]
  <2>5. SetSend(r, new)
    BY <2>3, <2>4, Zenon
  <2>6. /\ q.id \in 1..MaxSends /\ q.session \in Sessions /\ q.written \in Message
        /\ q.exclude \subseteq Cellarman /\ q.since \in Nat
    BY <1>0, <2>1, SendKinds
  <2>7. wines \subseteq Cellarman /\ wines \cap q.exclude = {}
    BY <2>3, <2>6 DEF FindSimilar
  <2>8. /\ q.session \in Live /\ q.written.session = q.session /\ q.written.send = q.id
        /\ q.written.role = "user" /\ q.written.wines = {} /\ q.since < clock
        /\ q.written.at < clock /\ q.written.since <= q.written.at
        /\ \A m \in messages : m.session = q.session /\ m.at < q.since => m.wines \subseteq q.exclude
    BY <1>0, <2>1 DEF Sound
  <2>9. /\ new \in Send /\ new.pc = "answer" /\ new.session = q.session /\ new.id = q.id
        /\ new.written = q.written /\ new.wines = wines /\ new.since = q.since
    BY <2>6, <2>7 DEF Send
  <2> HIDE DEF new
  <2>10. PICK v \in Send : v = new
    BY <2>9
  <2>11. \A m \in messages : m.session = q.session /\ m.at < q.since => m.wines \cap wines = {}
    BY <2>7, <2>8
  <2>12. Sound(v)' /\ SetSend(r, v)
    BY <1>0, <2>1, <2>5, <2>8, <2>9, <2>10, <2>11 DEF Sound, Live
  <2> QED
    BY <1>0, <2>1, <2>12, RequestMoves
<1>9. ASSUME NEW r \in Slots, SendFails(r) PROVE ConversationsTypeOK' /\ ChatInv'
  BY <1>0, <1>9, <1>n, RequestMoves DEF SendFails
<1>10. ASSUME NEW r \in Slots, NEW u \in People, RecommendBegins(r, u)
       PROVE  ConversationsTypeOK' /\ ChatInv'
  <2> DEFINE new == [pc |-> "recommend", user |-> u]
  <2>1. new \in Send /\ new.pc = "recommend"
    BY DEF Send
  <2>2. SetSend(r, new) /\ UNCHANGED <<registered, owner, renamed, messages, logs, sends, clock>>
    BY <1>10 DEF RecommendBegins
  <2> HIDE DEF new
  <2>3. Sound(new)'
    <3>1. PICK v \in Send : v = new /\ v.pc = "recommend"
      BY <2>1
    <3>2. Sound(v)'
      BY <3>1 DEF Sound
    <3> QED
      BY <3>1, <3>2 DEF Sound, new
  <2> QED
    BY <1>0, <2>1, <2>2, <2>3, RequestMoves
<1>11. ASSUME NEW r \in Slots, RecommendCommit(r) PROVE ConversationsTypeOK' /\ ChatInv'
  <2>1. send[r].user \in People
    BY <1>0, <1>11, SendKinds DEF RecommendCommit, Pc
  <2>2. logs' \subseteq Key
    BY <1>0, <1>11, <2>1 DEF RecommendCommit, Key
  <2> QED
    BY <1>0, <1>11, <1>n, <2>2, RequestMoves DEF RecommendCommit
<1>12. CASE UNCHANGED conversationVars
  BY <1>12 DEF conversationVars, ConversationsTypeOK, ChatInv, Sound, Live, Overlapped, TurnsWhole
<1> QED
  BY <1>1, <1>2, <1>3, <1>4, <1>5, <1>6, <1>7, <1>8, <1>9, <1>10, <1>11, <1>12, TurnKept
     DEF ConversationsNext

LEMMA ChatInvariant == ConversationsSpec => [](ConversationsTypeOK /\ ChatInv)
<1> QED
  BY ChatInit, ChatStep, PTL DEF ConversationsSpec

(* A turn of the chat is kept whole or not at all, whatever fails between    *)
(* the message and its answer and whatever is deleted meanwhile              *)
(* (backend/services/chat.py, send_message).                                 *)
THEOREM TurnsKeptWhole == ConversationsSpec => []TurnsWhole
<1>1. ChatInv => TurnsWhole
  BY DEF ChatInv
<1> QED
  BY <1>1, ChatInvariant, PTL

(* A wine comes twice in a session only from two sends that overlapped, for  *)
(* any number of sends, sessions and people: that every wine of the session  *)
(* is excluded, however old, is enough (backend/services/chat.py,            *)
(* send_message).                                                            *)
THEOREM RepeatsOverlap == ConversationsSpec => []RepeatsExplained
<1>1. ChatInv => RepeatsExplained
  BY DEF ChatInv, RepeatsExplained, Overlapped
<1> QED
  BY <1>1, ChatInvariant, PTL

-----------------------------------------------------------------------------
(* The screens of the bot.                                                   *)

WasSo(S, w) == \A i \in Items : In(S, i) \in w[i]

MarkInv ==
    /\ tap \in Taps /\ saved \subseteq Items
    /\ was \in [Items -> SUBSET States] /\ pending \in [Items -> {"none"} \union States]
    /\ tap.pc \in {"location", "toggle"} => WasSo(saved, was)
    /\ tap.pc = "toggled" => WasSo(tap.prefs, was)
    /\ tap.pc = "mark" => True(tap.prefs)

LEMMA TapKinds ==
    ASSUME NEW t \in Taps
    PROVE  /\ t.pc \in {"toggle", "toggled", "remove", "mark"} => t.item \in Items
           /\ t.pc \in {"toggled", "mark"} => t.prefs \subseteq Items
<1>1. CASE t = NoTap
  BY <1>1 DEF NoTap
<1>2. CASE t # NoTap
  BY <1>2 DEF Taps
<1> QED
  BY <1>1, <1>2

(* A commit adds to what was, and never takes from it.                       *)
LEMMA SaveAdds ==
    ASSUME was \in [Items -> SUBSET States], saved \subseteq Items,
           NEW i \in Items, NEW s \in States, Save(i, s)
    PROVE  /\ saved' \subseteq Items /\ was' \in [Items -> SUBSET States]
           /\ s \in was'[i] /\ \A j \in Items : was[j] \subseteq was'[j]
           /\ \A R : WasSo(R, was) => WasSo(R, was')
           /\ WasSo(saved, was) => WasSo(saved', was')
<1>1. was' = [was EXCEPT ![i] = was[i] \union {s}]
  BY DEF Save
<1>2. was' \in [Items -> SUBSET States] /\ s \in was'[i] /\ \A j \in Items : was[j] \subseteq was'[j]
  BY <1>1
<1>3. saved' = IF s = "saved" THEN saved \union {i} ELSE saved \ {i}
  BY DEF Save
<1>4. In(saved', i) = s /\ \A j \in Items \ {i} : In(saved', j) = In(saved, j)
  BY <1>3 DEF In, States
<1>5. \A R : WasSo(R, was) => WasSo(R, was')
  BY <1>2 DEF WasSo
<1>6. WasSo(saved, was) => WasSo(saved', was')
  BY <1>2, <1>4 DEF WasSo
<1> QED
  BY <1>2, <1>3, <1>5, <1>6

(* While the tap stays as it is, a change answered is committed, or fails, or *)
(* is still pending: what the marks to be drawn rest on is not lost.          *)
LEMMA MarksStay ==
    ASSUME MarkInv, tap' = tap, saved' \subseteq Items,
           was' \in [Items -> SUBSET States], pending' \in [Items -> {"none"} \union States],
           \A j \in Items : was[j] \subseteq was'[j],
           WasSo(saved, was) => WasSo(saved', was'),
           failed \subseteq failed',
           \A j \in Items : \A s \in States :
              pending[j] = s => pending'[j] = s \/ s \in was'[j] \/ <<j, s>> \in failed'
    PROVE  MarkInv'
<1>1. tap \in Taps /\ (tap.pc \in {"location", "toggle"} => WasSo(saved', was'))
  BY DEF MarkInv
<1>2. tap.pc = "toggled" => WasSo(tap.prefs, was')
  BY DEF MarkInv, WasSo
<1>3. ASSUME tap.pc = "mark", NEW j \in Items
      PROVE  \/ In(tap.prefs, j) \in was'[j]
             \/ /\ tap.pc = "mark" /\ j = tap.item
                /\ pending'[j] = In(tap.prefs, j) \/ <<j, In(tap.prefs, j)>> \in failed'
  <2>1. \/ In(tap.prefs, j) \in was[j]
        \/ /\ j = tap.item
           /\ pending[j] = In(tap.prefs, j) \/ <<j, In(tap.prefs, j)>> \in failed
    BY <1>3 DEF MarkInv, True, Answered
  <2>2. In(tap.prefs, j) \in States
    BY DEF In, States
  <2> QED
    BY <1>3, <2>1, <2>2
<1>4. tap'.pc = "mark" => True(tap.prefs)'
  BY <1>3 DEF True, Answered
<1> QED
  BY <1>1, <1>2, <1>4 DEF MarkInv

LEMMA MarkInvInit == BotScreensInit => MarkInv
<1> SUFFICES ASSUME BotScreensInit PROVE MarkInv
  OBVIOUS
<1>1. tap = NoTap /\ saved \subseteq Items
  BY DEF BotScreensInit
<1>2. was \in [Items -> SUBSET States] /\ pending \in [Items -> {"none"} \union States]
  BY DEF BotScreensInit, Is, In, States
<1>3. tap.pc = "idle" /\ tap \in Taps
  BY <1>1 DEF NoTap, Taps
<1> QED
  BY <1>1, <1>2, <1>3 DEF MarkInv

LEMMA MarkInvStep == MarkInv /\ [BotScreensNext]_screenVars => MarkInv'
<1> SUFFICES ASSUME MarkInv, [BotScreensNext]_screenVars PROVE MarkInv'
  OBVIOUS
<1>0. /\ tap \in Taps /\ saved \subseteq Items
      /\ was \in [Items -> SUBSET States] /\ pending \in [Items -> {"none"} \union States]
      /\ tap.pc \in {"location", "toggle"} => WasSo(saved, was)
      /\ tap.pc = "toggled" => WasSo(tap.prefs, was)
  BY DEF MarkInv
<1>i. NoTap.pc = "idle" /\ NoTap \in Taps
  BY DEF NoTap, Taps
<1>e. ASSUME NEW i \in Items, NEW s \in States, Execute(i, s)
      PROVE  saved' \subseteq Items /\ pending' \in [Items -> {"none"} \union States] /\ pending'[i] = s
  BY <1>0, <1>e DEF Execute
<1>1. ASSUME NEW t \in Taps, t.pc \notin {"toggled", "mark"}, Begin(t) PROVE MarkInv'
  <2>1. /\ tap' = t /\ saved' = saved /\ pending' = pending
        /\ was' = [i \in Items |-> {In(saved, i)}]
    BY <1>1 DEF Begin, Is
  <2>2. was' \in [Items -> SUBSET States] /\ WasSo(saved, was')
    BY <2>1 DEF WasSo, In, States
  <2>3. WasSo(saved', was')
    BY <2>1, <2>2, Zenon
  <2> QED
    BY <1>0, <1>1, <2>1, <2>2, <2>3 DEF MarkInv
<1>2. CASE ShareLocation \/ AskList \/ TapDone \/ \E i \in Items : TapStore(i) \/ TapRemove(i)
  <2>1. /\ [pc |-> "location"] \in Taps /\ [pc |-> "alerts"] \in Taps /\ [pc |-> "done"] \in Taps
        /\ \A i \in Items : /\ [pc |-> "toggle", item |-> i] \in Taps
                            /\ [pc |-> "remove", item |-> i] \in Taps
    BY DEF Taps
  <2>2. \E t \in Taps : t.pc \notin {"toggled", "mark"} /\ Begin(t)
    BY <1>2, <2>1 DEF ShareLocation, AskList, TapDone, TapStore, TapRemove
  <2> QED
    BY <1>1, <2>2
<1>3. ASSUME saved' = saved, was' = was, pending' \in [Items -> {"none"} \union States],
             tap' \in Taps, tap'.pc \notin {"location", "toggle", "toggled", "mark"}
      PROVE  MarkInv'
  BY <1>0, <1>3 DEF MarkInv
<1>4. ASSUME Kept, tap' \in Taps, tap'.pc \notin {"location", "toggle", "toggled", "mark"}
      PROVE  MarkInv'
  BY <1>0, <1>3, <1>4 DEF Kept
<1>5. CASE WebEdits
  <2>1. PICK i \in Items, s \in States : Save(i, s)
    BY <1>5 DEF WebEdits
  <2>2. tap' = tap /\ pending' = pending /\ failed' = failed
    BY <1>5 DEF WebEdits
  <2>3. /\ saved' \subseteq Items /\ was' \in [Items -> SUBSET States]
        /\ \A j \in Items : was[j] \subseteq was'[j]
        /\ WasSo(saved, was) => WasSo(saved', was')
    BY <1>0, <2>1, SaveAdds
  <2> QED
    BY <1>0, <2>2, <2>3, MarksStay
<1>6. CASE \E i \in Items : RowCommits(i) \/ RowFails(i)
  <2>1. PICK i \in Items : RowCommits(i) \/ RowFails(i)
    BY <1>6
  <2>2. CASE RowCommits(i)
    <3>1. /\ pending[i] \in States /\ Save(i, pending[i])
          /\ pending' = [pending EXCEPT ![i] = "none"] /\ tap' = tap /\ failed' = failed
      BY <1>0, <2>2 DEF RowCommits, Unpended
    <3>2. /\ saved' \subseteq Items /\ was' \in [Items -> SUBSET States]
          /\ pending[i] \in was'[i] /\ \A j \in Items : was[j] \subseteq was'[j]
          /\ WasSo(saved, was) => WasSo(saved', was')
      BY <1>0, <3>1, SaveAdds
    <3>3. /\ pending' \in [Items -> {"none"} \union States]
          /\ \A j \in Items : \A s \in States : pending[j] = s => pending'[j] = s \/ s \in was'[j]
      BY <1>0, <3>1, <3>2
    <3> QED
      BY <3>1, <3>2, <3>3, MarksStay
  <2>3. CASE RowFails(i)
    <3>1. /\ pending' = [pending EXCEPT ![i] = "none"] /\ tap' = tap
          /\ failed' = failed \union {<<i, pending[i]>>} /\ saved' = saved /\ was' = was
      BY <2>3 DEF RowFails
    <3>2. /\ pending' \in [Items -> {"none"} \union States]
          /\ \A j \in Items : \A s \in States :
                pending[j] = s => pending'[j] = s \/ <<j, s>> \in failed'
      BY <1>0, <3>1
    <3>3. WasSo(saved, was) => WasSo(saved', was')
      BY <3>1, Zenon
    <3> QED
      BY <1>0, <3>1, <3>2, <3>3, MarksStay
  <2> QED
    BY <2>1, <2>2, <2>3
<1>7. CASE CallFails \/ Locate \/ List \/ Mark \/ ReadAgain \/ ReadAgainFails \/ Finish \/ Restart
  <2>1. Kept /\ tap' = NoTap
    BY <1>7 DEF CallFails, Locate, List, Mark, ReadAgain, ReadAgainFails, Finish, Restart, Apology
  <2> QED
    BY <1>4, <1>i, <2>1
<1>8. CASE ToggleReads
  <2>1. /\ tap.pc = "toggle" /\ tap' = [pc |-> "toggled", item |-> tap.item, prefs |-> saved]
        /\ saved' = saved /\ was' = was /\ pending' = pending
    BY <1>8 DEF ToggleReads, Kept
  <2>2. tap.item \in Items
    BY <1>0, <2>1, TapKinds
  <2>3. tap' \in Taps /\ tap'.prefs = saved /\ tap'.pc = "toggled"
    BY <1>0, <2>1, <2>2 DEF Taps
  <2> QED
    BY <1>0, <2>1, <2>3 DEF MarkInv
<1>9. ASSUME NEW i, i = tap.item, NEW s \in States, NEW D \in SUBSET Items, NEW committed \in SUBSET States,
             tap.pc = "toggled", Called(i, committed), Draw(D),
             saved' \subseteq Items, pending' \in [Items -> {"none"} \union States],
             In(D, i) = s, s \in committed \/ pending'[i] = s,
             \A j \in Items \ {i} : j \in D <=> j \in tap.prefs
      PROVE  MarkInv'
  <2>1. i \in Items
    BY <1>0, <1>9, TapKinds
  <2>2. tap' = [pc |-> "mark", item |-> i, prefs |-> D]
    BY <1>9 DEF Draw
  <2>3. tap' \in Taps
    BY <1>9, <2>1, <2>2 DEF Taps
  <2>4. was' = [was EXCEPT ![i] = committed]
    BY <1>9 DEF Called
  <2>5. was' \in [Items -> SUBSET States]
    BY <1>0, <1>9, <2>4
  <2>6. ASSUME NEW j \in Items
        PROVE  In(D, j) \in was'[j] \/ (j = i /\ pending'[j] = In(D, j))
    <3>1. CASE j = i
      BY <1>0, <1>9, <2>4, <3>1
    <3>2. CASE j # i
      <4>1. In(D, j) = In(tap.prefs, j)
        BY <1>9, <3>2 DEF In
      <4>2. In(tap.prefs, j) \in was[j]
        BY <1>0, <1>9 DEF WasSo
      <4> QED
        BY <1>0, <2>4, <3>2, <4>1, <4>2
    <3> QED
      BY <3>1, <3>2
  <2>7. tap'.pc = "mark" /\ tap'.item = i /\ tap'.prefs = D
    BY <2>2
  <2>8. \A j \in Items : \/ In(tap'.prefs, j) \in was'[j]
                         \/ j = tap'.item /\ pending'[j] = In(tap'.prefs, j)
    BY <2>6, <2>7
  <2>9. True(tap.prefs)'
    BY <2>7, <2>8 DEF True, Answered
  <2> QED
    BY <1>9, <2>3, <2>5, <2>7, <2>9 DEF MarkInv
<1>10. CASE ToggleOff
  <2> DEFINE i == tap.item
             D == tap.prefs \ {i}
  <2>1. i \in Items /\ tap.pc = "toggled" /\ tap.prefs \subseteq Items
    BY <1>0, <1>10, TapKinds DEF ToggleOff
  <2>2. CASE Execute(i, "absent") /\ Called(i, {}) /\ Draw(D)
    <3>1. D \in SUBSET Items /\ In(D, i) = "absent" /\ "absent" \in States
      BY <2>1 DEF In, States
    <3>2. \A j \in Items \ {i} : j \in D <=> j \in tap.prefs
      OBVIOUS
    <3>3. saved' \subseteq Items /\ pending' \in [Items -> {"none"} \union States] /\ pending'[i] = "absent"
      BY <1>e, <2>1, <2>2, <3>1
    <3> HIDE DEF D
    <3>4. {} \in SUBSET States
      OBVIOUS
    <3> QED
      BY <1>9, <2>1, <2>2, <3>1, <3>2, <3>3, <3>4
  <2>3. CASE Kept /\ Apology
    BY <1>4, <1>i, <2>3 DEF Apology
  <2> QED
    BY <1>10, <2>2, <2>3 DEF ToggleOff, AfterRemove
<1>11. CASE ToggleOn
  <2> DEFINE i == tap.item
             D == tap.prefs \union {i}
  <2>1. i \in Items /\ tap.pc = "toggled" /\ tap.prefs \subseteq Items
    BY <1>0, <1>11, TapKinds DEF ToggleOn
  <2>2. D \in SUBSET Items /\ In(D, i) = "saved" /\ "saved" \in States
    BY <2>1 DEF In, States
  <2>3. \A j \in Items \ {i} : j \in D <=> j \in tap.prefs
    OBVIOUS
  <2>4. Draw(D)
    BY <1>11 DEF ToggleOn, AfterAdd
  <2>5. \/ Execute(i, "saved") /\ Called(i, {})
        \/ Called(i, {"saved"}) /\ saved' = saved /\ pending' = pending
    BY <1>11 DEF ToggleOn
  <2> HIDE DEF D
  <2>6. CASE Execute(i, "saved") /\ Called(i, {})
    <3>1. saved' \subseteq Items /\ pending' \in [Items -> {"none"} \union States] /\ pending'[i] = "saved"
      BY <1>e, <2>1, <2>2, <2>6
    <3>2. {} \in SUBSET States
      OBVIOUS
    <3> QED
      BY <1>9, <2>1, <2>2, <2>3, <2>4, <2>6, <3>1, <3>2
  <2>7. CASE Called(i, {"saved"}) /\ saved' = saved /\ pending' = pending
    <3>1. saved' \subseteq Items /\ pending' \in [Items -> {"none"} \union States]
      BY <1>0, <2>7
    <3>2. {"saved"} \in SUBSET States /\ "saved" \in {"saved"}
      BY <2>2
    <3> QED
      BY <1>9, <2>1, <2>2, <2>3, <2>4, <2>7, <3>1, <3>2
  <2> QED
    BY <2>5, <2>6, <2>7
<1>12. CASE ToggleLost
  <2>1. tap.item \in Items /\ tap' = NoTap
    BY <1>0, <1>12, TapKinds DEF ToggleLost, Apology
  <2>2. \/ Kept
        \/ \E s \in States : Execute(tap.item, s) /\ was' = was
    BY <1>12 DEF ToggleLost, States
  <2>3. CASE Kept
    BY <1>4, <1>i, <2>1, <2>3
  <2>4. CASE \E s \in States : Execute(tap.item, s) /\ was' = was
    <3>1. pending' \in [Items -> {"none"} \union States] /\ saved' = saved /\ was' = was
      BY <1>e, <2>1, <2>4 DEF Execute
    <3> QED
      BY <1>3, <1>i, <2>1, <3>1
  <2> QED
    BY <2>2, <2>3, <2>4
<1>13. CASE RemoveTapped
  <2>1. tap' = [pc |-> "relist"] \/ tap' = NoTap
    BY <1>13 DEF RemoveTapped, Apology
  <2>2. [pc |-> "relist"] \in Taps
    BY DEF Taps
  <2>3. tap' \in Taps /\ tap'.pc \notin {"location", "toggle", "toggled", "mark"}
    BY <1>i, <2>1, <2>2
  <2>4. tap.item \in Items
    BY <1>0, <1>13, TapKinds DEF RemoveTapped
  <2>5. Kept \/ (Execute(tap.item, "absent") /\ was' = was)
    BY <1>13 DEF RemoveTapped
  <2>6. CASE Kept
    BY <1>4, <2>3, <2>6
  <2>7. CASE Execute(tap.item, "absent") /\ was' = was
    <3>1. "absent" \in States
      BY DEF States
    <3>2. pending' \in [Items -> {"none"} \union States] /\ saved' = saved /\ was' = was
      BY <1>e, <2>4, <2>7, <3>1 DEF Execute
    <3> QED
      BY <1>3, <2>3, <3>2
  <2> QED
    BY <2>5, <2>6, <2>7
<1>14. CASE UNCHANGED screenVars
  <2>1. tap' = tap /\ saved' = saved /\ was' = was /\ pending' = pending /\ failed' = failed
    BY <1>14 DEF screenVars
  <2>2. WasSo(saved, was) => WasSo(saved', was')
    BY <2>1, Zenon
  <2> QED
    BY <1>0, <2>1, <2>2, MarksStay
<1> QED
  BY <1>2, <1>5, <1>6, <1>7, <1>8, <1>10, <1>11, <1>12, <1>13, <1>14 DEF BotScreensNext

LEMMA MarkInvariant == BotScreensSpec => []MarkInv
  BY MarkInvInit, MarkInvStep, PTL DEF BotScreensSpec

(* A mark the bot draws beside a store was true at some moment while the tap *)
(* was handled; that of the store tapped became true since the call for it,  *)
(* or is what the backend answered and is still to commit, or could not      *)
(* commit, however many edits the web makes meanwhile                        *)
(* (bot/handlers/mystores.py, store_toggle_callback).                        *)
THEOREM MarksAreTrue == BotScreensSpec => MarksTrue
<1>1. ASSUME MarkInv, BotScreensNext, marks' # marks, marks' # Unsent PROVE True(marks'[1])
  <2>1. CASE Locate
    <3>1. marks'[1] = saved /\ WasSo(saved, was)
      BY <1>1, <2>1 DEF Locate, MarkInv
    <3> QED
      BY <3>1 DEF True, WasSo
  <2>2. CASE Mark
    <3>1. marks'[1] = tap.prefs /\ tap.pc = "mark"
      BY <1>1, <2>2 DEF Mark
    <3>2. True(tap.prefs)
      BY <1>1, <3>1 DEF MarkInv
    <3> QED
      BY <3>1, <3>2
  <2>3. CASE ~Locate /\ ~Mark
    <3>1. marks' = marks \/ marks' = Unsent
      BY <1>1, <2>3 DEF BotScreensNext, ShareLocation, AskList, TapDone, TapStore, TapRemove, Begin,
         WebEdits, RowCommits, RowFails, CallFails, Apology, List, ToggleReads, ToggleOff, ToggleOn,
         ToggleLost, Draw, RemoveTapped, ReadAgain, ReadAgainFails, Finish, Restart
    <3> QED
      BY <1>1, <3>1
  <2> QED
    BY <2>1, <2>2, <2>3
<1>2. MarkInv /\ [BotScreensNext]_screenVars
         => [(marks' # marks /\ marks' # Unsent) => True(marks'[1])]_screenVars
  BY <1>1 DEF screenVars
<1> QED
  BY <1>2, MarkInvariant, PTL DEF BotScreensSpec, MarksTrue

-----------------------------------------------------------------------------
(* The choice of the wines.                                                  *)

Fractions == [num : Nat, den : Nat \ {0}]

(* What products say of their factors.                                       *)
LEMMA Cancel ==
    ASSUME NEW a \in Int, NEW b \in Int, NEW c \in Nat \ {0}, a * c <= b * c
    PROVE  a <= b
<1> SUFFICES ASSUME b + 1 <= a PROVE FALSE
  OBVIOUS
<1>1. (b + 1) * c <= a * c
  OBVIOUS
<1>2. (b + 1) * c = b * c + c
  OBVIOUS
<1> QED
  BY <1>1, <1>2

LEMMA Scaled ==
    ASSUME NEW a \in Int, NEW b \in Int, NEW c \in Nat, a <= b
    PROVE  a * c <= b * c
  OBVIOUS

LEMMA ProductType ==
    ASSUME NEW a \in Nat, NEW b \in Nat
    PROVE  a * b \in Nat /\ (a > 0 /\ b > 0 => a * b > 0)
  OBVIOUS

LEMMA LeqTransitive ==
    ASSUME NEW p \in Fractions, NEW q \in Fractions, NEW r \in Fractions, Leq(p, q), Leq(q, r)
    PROVE  Leq(p, r)
<1> DEFINE a == p.num  b == p.den  c == q.num  d == q.den  e == r.num  f == r.den
<1>1. a \in Nat /\ b \in Nat \ {0} /\ c \in Nat /\ d \in Nat \ {0} /\ e \in Nat /\ f \in Nat \ {0}
  BY DEF Fractions
<1>2. a * d <= c * b /\ c * f <= e * d
  BY DEF Leq
<1> HIDE DEF a, b, c, d, e, f
<1>3. (a * d) * f <= (c * b) * f /\ (c * f) * b <= (e * d) * b
  BY <1>1, <1>2, Scaled, ProductType
<1>4. (a * d) * f = (a * f) * d /\ (c * b) * f = (c * f) * b /\ (e * d) * b = (e * b) * d
  BY <1>1
<1>5. (a * f) * d <= (e * b) * d
  BY <1>1, <1>3, <1>4, ProductType
<1>6. a * f <= e * b
  BY <1>1, <1>5, Cancel, ProductType
<1> QED
  BY <1>6 DEF Leq, a, b, e, f

LEMMA LeqTotal ==
    ASSUME NEW p \in Fractions, NEW q \in Fractions
    PROVE  Leq(p, q) \/ Leq(q, p)
<1>1. p.num * q.den \in Nat /\ q.num * p.den \in Nat
  BY ProductType DEF Fractions
<1> QED
  BY <1>1 DEF Leq

(* A finite set of fractions has a greatest: one with the fewest above it.   *)
LEMMA GreatestFraction ==
    ASSUME NEW O \in SUBSET Fractions, IsFiniteSet(O), O # {}
    PROVE  Worst(O) \in O /\ \A q \in O : Leq(q, Worst(O))
<1> DEFINE Above(p) == {q \in O : ~Leq(q, p)}
           Sizes == {Cardinality(Above(p)) : p \in O}
<1>1. \A p \in O : IsFiniteSet(Above(p)) /\ Cardinality(Above(p)) \in Nat
  BY FS_Subset, FS_CardinalityType
<1>2. Sizes \in SUBSET Nat /\ Sizes # {}
  BY <1>1
<1>3. PICK p \in O : \A q \in O : Cardinality(Above(p)) <= Cardinality(Above(q))
  <2> HIDE DEF Above
  <2>1. PICK n \in Sizes : \A m \in Sizes : n <= m
    BY <1>2, LeastNat
  <2> QED
    BY <2>1
<1>4. \A q \in O : Leq(q, p)
  <2> SUFFICES ASSUME NEW q \in O, ~Leq(q, p) PROVE FALSE
    OBVIOUS
  <2>1. Leq(p, q)
    BY LeqTotal
  <2>2. Above(q) \subseteq Above(p)
    BY <2>1, LeqTransitive
  <2>3. q \in Above(p) /\ q \notin Above(q)
    BY LeqTotal
  <2>4. Cardinality(Above(q)) < Cardinality(Above(p))
    <3>1. Above(q) \in SUBSET Above(p) /\ Above(q) # Above(p)
      BY <2>2, <2>3
    <3> HIDE DEF Above
    <3> QED
      BY <1>1, <3>1, FS_Subset
  <2> QED
    BY <1>1, <1>3, <2>4
<1> QED
  BY <1>4 DEF Worst

-----------------------------------------------------------------------------
(* Weights.                                                                  *)
LEMMA QuartersFinite ==
    ASSUME NEW A \in SUBSET Attributes
    PROVE  IsFiniteSet(Quarters(A))
<1> DEFINE T == {{a} \X (1..Weight[a]) : a \in A}
           f == [a \in A |-> {a} \X (1..Weight[a])]
<1>1. IsFiniteSet(A)
  BY FS_Subset, RerankAssumption
<1>2. f \in Surjection(A, T)
  BY DEF Surjection
<1>3. IsFiniteSet(T)
  BY <1>1, <1>2, FS_Surjection
<1>4. \A a \in A : IsFiniteSet({a} \X (1..Weight[a]))
  <2> SUFFICES ASSUME NEW a \in A PROVE IsFiniteSet({a} \X (1..Weight[a]))
    OBVIOUS
  <2>1. Weight[a] \in Int
    BY RerankAssumption
  <2>2. IsFiniteSet(1..Weight[a])
    BY <2>1, FS_Interval
  <2>3. IsFiniteSet({a})
    BY FS_Singleton
  <2> QED
    BY <2>2, <2>3, FS_Product
<1>5. \A X \in T : IsFiniteSet(X)
  BY <1>4
<1> HIDE DEF T
<1>6. IsFiniteSet(UNION T)
  BY <1>3, <1>5, FS_UNION
<1> QED
  BY <1>6 DEF Quarters, T

LEMMA TotalType ==
    ASSUME NEW A \in SUBSET Attributes
    PROVE  Total(A) \in Nat /\ (A # {} => Total(A) > 0)
<1>1. IsFiniteSet(Quarters(A)) /\ Total(A) \in Nat
  BY QuartersFinite, FS_CardinalityType DEF Total
<1>2. ASSUME A # {} PROVE Quarters(A) # {}
  <2>1. PICK a \in A : TRUE
    BY <1>2
  <2>2. 1 \in 1..Weight[a]
    BY RerankAssumption
  <2>3. <<a, 1>> \in {a} \X (1..Weight[a])
    BY <2>2
  <2> QED
    BY <2>3 DEF Quarters
<1>3. A # {} => Total(A) # 0
  BY <1>1, <1>2, FS_EmptySet DEF Total
<1> QED
  BY <1>1, <1>3

LEMMA OverlapType == \A i, k : Overlap(i, k) \in Fractions
<1> SUFFICES ASSUME NEW i, NEW k PROVE Overlap(i, k) \in Fractions
  OBVIOUS
<1>1. Comparable(i, k) \in SUBSET Attributes /\ Common(i, k) \in SUBSET Attributes
  BY DEF Comparable, Common
<1> QED
  BY <1>1, TotalType DEF Overlap, Fractions

LEMMA OverlapsFinite ==
    ASSUME NEW i, NEW S, IsFiniteSet(S), S # {}
    PROVE  LET O == {Overlap(i, k) : k \in S}
           IN  O \in SUBSET Fractions /\ IsFiniteSet(O) /\ O # {}
<1> DEFINE O == {Overlap(i, k) : k \in S}
           f == [k \in S |-> Overlap(i, k)]
<1>1. f \in Surjection(S, O)
  BY DEF Surjection
<1>2. IsFiniteSet(O)
  BY <1>1, FS_Surjection
<1> QED
  BY <1>2, OverlapType

LEMMA SimilarCount ==
    ASSUME NEW i, NEW S, IsFiniteSet(S)
    PROVE  LET D == {k \in S : Similar(i, k)} IN IsFiniteSet(D) /\ Cardinality(D) \in Nat
  BY FS_Subset, FS_CardinalityType

(* The penalty is a fraction, the same for two wines of which the same is     *)
(* known.                                                                    *)
LEMMA PenaltyType ==
    ASSUME NEW i, NEW S, IsFiniteSet(S)
    PROVE  RedundancyPenalty(i, S) \in Fractions
<1>1. CASE S = {}
  BY <1>1 DEF RedundancyPenalty, Fractions
<1>2. CASE S # {}
  <2> DEFINE O == {Overlap(i, k) : k \in S}
             n == Cardinality({k \in S : Similar(i, k)})
             w == Worst(O)
  <2>1. O \in SUBSET Fractions /\ IsFiniteSet(O) /\ O # {}
    BY <1>2, OverlapsFinite
  <2>2. w \in Fractions
    BY <2>1, GreatestFraction
  <2>3. n \in Nat
    BY SimilarCount
  <2>4. RedundancyPenalty(i, S) = Boosted(w, n)
    BY <1>2 DEF RedundancyPenalty
  <2> HIDE DEF w, n
  <2>5. w.num * (5 + n) \in Nat /\ w.den * 5 \in Nat \ {0}
    BY <2>2, <2>3, ProductType DEF Fractions
  <2> QED
    BY <2>4, <2>5 DEF Boosted, Fractions
<1> QED
  BY <1>1, <1>2

LEMMA TwinPenalty ==
    ASSUME NEW i, NEW k, NEW S, candidates[i] = candidates[k]
    PROVE  RedundancyPenalty(i, S) = RedundancyPenalty(k, S)
<1>1. \A x : Comparable(i, x) = Comparable(k, x)
  BY DEF Comparable
<1>2. \A x : Common(i, x) = Common(k, x)
  BY <1>1 DEF Common
<1>3. \A x : Overlap(i, x) = Overlap(k, x)
  BY <1>1, <1>2 DEF Overlap
<1>4. {Overlap(i, x) : x \in S} = {Overlap(k, x) : x \in S}
  BY <1>3
<1>5. {x \in S : Similar(i, x)} = {x \in S : Similar(k, x)}
  BY <1>3 DEF Similar
<1> QED
  BY <1>4, <1>5 DEF RedundancyPenalty

(* Of two wines with the same penalty the one placed before has the higher   *)
(* score.                                                                    *)
LEMMA NearerFirst ==
    ASSUME NEW i \in Nat, NEW k \in Nat, NEW S, IsFiniteSet(S), Found \in Nat \ {0},
           RedundancyPenalty(i, S) = RedundancyPenalty(k, S), Leq(Score(k, S), Score(i, S))
    PROVE  i <= k
<1> DEFINE p == RedundancyPenalty(i, S)  n == p.num  d == p.den  F == Found
<1>1. n \in Nat /\ d \in Nat \ {0} /\ F \in Nat \ {0}
  BY PenaltyType DEF Fractions
<1>2. /\ Score(i, S) = [num |-> 2 * d * (F - (i - 1)) - n * F, den |-> 2 * d * F]
      /\ Score(k, S) = [num |-> 2 * d * (F - (k - 1)) - n * F, den |-> 2 * d * F]
  BY DEF Score
<1>3. (2 * d * (F - (k - 1)) - n * F) * (2 * d * F) <= (2 * d * (F - (i - 1)) - n * F) * (2 * d * F)
  BY <1>2 DEF Leq
<1> HIDE DEF n, d, F
<1>4. 2 * d \in Nat \ {0} /\ 2 * d * F \in Nat \ {0}
  BY <1>1, ProductType
<1>5. F - (k - 1) \in Int /\ F - (i - 1) \in Int /\ n * F \in Nat
  BY <1>1, ProductType
<1>6. 2 * d * (F - (k - 1)) \in Int /\ 2 * d * (F - (i - 1)) \in Int
  BY <1>4, <1>5
<1>7. 2 * d * (F - (k - 1)) - n * F <= 2 * d * (F - (i - 1)) - n * F
  BY <1>3, <1>4, <1>5, <1>6, Cancel
<1>8. (F - (k - 1)) * (2 * d) <= (F - (i - 1)) * (2 * d)
  <2>1. 2 * d * (F - (k - 1)) <= 2 * d * (F - (i - 1))
    BY <1>5, <1>6, <1>7
  <2> QED
    BY <1>1, <1>4, <1>5, <2>1
<1>9. F - (k - 1) <= F - (i - 1)
  BY <1>4, <1>5, <1>8, Cancel
<1> QED
  BY <1>1, <1>9

-----------------------------------------------------------------------------
RerankInv == RerankTypeOK /\ NoWorseTwin

LEMMA ChosenAre ==
    ASSUME RerankTypeOK
    PROVE  Chosen \subseteq DOMAIN candidates /\ IsFiniteSet(Chosen)
           /\ (selected = <<>> <=> Chosen = {})
           /\ Found \in Nat /\ DOMAIN candidates = 1..Found
<1>1. /\ selected \in Seq(DOMAIN candidates) /\ candidates \in Seq(Wine)
  BY DEF RerankTypeOK
<1>2. Chosen = {selected[k] : k \in 1..Len(selected)}
  BY <1>1 DEF Chosen, ToSet
<1>3. selected \in Surjection(1..Len(selected), Chosen)
  BY <1>1, <1>2 DEF Surjection
<1>4. IsFiniteSet(1..Len(selected))
  BY <1>1, FS_Interval
<1>5. IsFiniteSet(Chosen)
  BY <1>3, <1>4, FS_Surjection
<1>6. Chosen \subseteq DOMAIN candidates
  BY <1>1, <1>2
<1>7. selected = <<>> <=> Chosen = {}
  <2>1. selected = <<>> <=> Len(selected) = 0
    BY <1>1
  <2>2. Len(selected) # 0 => selected[1] \in Chosen
    BY <1>1, <1>2
  <2>3. Len(selected) = 0 => Chosen = {}
    BY <1>2
  <2> QED
    BY <2>1, <2>2, <2>3
<1>8. Found \in Nat /\ DOMAIN candidates = 1..Found
  BY <1>1 DEF Found
<1> QED
  BY <1>5, <1>6, <1>7, <1>8

LEMMA SelectAdds ==
    ASSUME RerankTypeOK, Select
    PROVE  \E i \in Remaining : Best(i) /\ selected' = Append(selected, i)
                                /\ Chosen' = Chosen \union {i} /\ candidates' = candidates
<1>1. PICK i \in Remaining : Best(i) /\ selected' = Append(selected, i) /\ candidates' = candidates
  BY DEF Select
<1>2. selected \in Seq(DOMAIN candidates) /\ i \in DOMAIN candidates
  BY <1>1 DEF RerankTypeOK, Remaining
<1>3. ToSet(Append(selected, i)) = ToSet(selected) \union {i}
  BY <1>2, AppendProperties DEF ToSet
<1> QED
  BY <1>1, <1>3 DEF Chosen

LEMMA RerankInvInit == RerankInit => RerankInv
<1> SUFFICES ASSUME RerankInit PROVE RerankInv
  OBVIOUS
<1>1. PICK n \in 0..PoolSize : candidates \in [1..n -> Wine]
  BY DEF RerankInit
<1>2. candidates \in Seq(Wine) /\ DOMAIN candidates = 1..Found /\ Found \in Nat
  BY <1>1, RerankAssumption DEF Found
<1>3. CASE Found <= Limit
  <2>1. selected = [i \in 1..Found |-> i]
    BY <1>3 DEF RerankInit
  <2>2. selected \in Seq(DOMAIN candidates)
    BY <1>2, <2>1
  <2>3. Chosen = DOMAIN candidates
    BY <1>2, <2>1 DEF Chosen, ToSet
  <2> QED
    BY <1>2, <2>2, <2>3 DEF RerankInv, RerankTypeOK, NoWorseTwin, Remaining
<1>4. CASE ~(Found <= Limit)
  <2>1. selected = <<>>
    BY <1>4 DEF RerankInit
  <2>2. Chosen = {}
    BY <2>1 DEF Chosen, ToSet
  <2> QED
    BY <1>2, <2>1, <2>2 DEF RerankInv, RerankTypeOK, NoWorseTwin
<1> QED
  BY <1>3, <1>4

LEMMA RerankInvStep == RerankInv /\ [RerankNext]_rerankVars => RerankInv'
<1> SUFFICES ASSUME RerankInv, [RerankNext]_rerankVars PROVE RerankInv'
  OBVIOUS
<1>1. CASE Select
  <2>1. RerankTypeOK
    BY DEF RerankInv
  <2>2. PICK i \in Remaining : /\ Best(i) /\ selected' = Append(selected, i)
                               /\ Chosen' = Chosen \union {i} /\ candidates' = candidates
    BY <1>1, <2>1, SelectAdds
  <2>3. i \in DOMAIN candidates
    BY <2>2 DEF Remaining
  <2>4. RerankTypeOK'
    BY <2>1, <2>2, <2>3, AppendProperties DEF RerankTypeOK
  <2>5. ASSUME NEW k \in Remaining, k # i, candidates[i] = candidates[k] PROVE i < k
    <3>1. /\ k \in DOMAIN candidates /\ DOMAIN candidates = 1..Found /\ Found \in Nat
          /\ IsFiniteSet(Chosen)
      BY <2>1, <2>5, ChosenAre DEF Remaining
    <3>2. i \in Nat /\ k \in Nat /\ i >= 1 /\ k >= 1 /\ Found \in Nat \ {0}
      BY <2>3, <3>1
    <3>3. CASE selected = <<>>
      BY <2>2, <2>5, <3>2, <3>3 DEF Best
    <3>4. CASE selected # <<>>
      <4>1. Leq(Score(k, Chosen), Score(i, Chosen))
        BY <2>2, <2>5, <3>4 DEF Best
      <4>2. RedundancyPenalty(i, Chosen) = RedundancyPenalty(k, Chosen)
        BY <2>5, TwinPenalty
      <4>3. i <= k
        BY <3>1, <3>2, <4>1, <4>2, NearerFirst
      <4> QED
        BY <2>5, <3>2, <4>3
    <3> QED
      BY <3>3, <3>4
  <2>6. NoWorseTwin'
    <3> SUFFICES ASSUME NEW x \in Chosen', NEW k \in Remaining',
                        candidates'[x] = candidates'[k]
                 PROVE  x < k
      BY DEF NoWorseTwin
    <3>1. k \in Remaining /\ k # i /\ candidates[x] = candidates[k]
      BY <2>2 DEF Remaining
    <3>2. CASE x = i
      BY <2>5, <3>1, <3>2
    <3>3. CASE x \in Chosen
      BY <3>1, <3>3 DEF RerankInv, NoWorseTwin
    <3> QED
      BY <2>2, <3>2, <3>3
  <2> QED
    BY <2>4, <2>6 DEF RerankInv
<1>2. CASE UNCHANGED rerankVars
  BY <1>2 DEF rerankVars, RerankInv, RerankTypeOK, NoWorseTwin, Chosen, Remaining
<1> QED
  BY <1>1, <1>2 DEF RerankNext

LEMMA RerankInvariant == RerankSpec => []RerankInv
  BY RerankInvInit, RerankInvStep, PTL DEF RerankSpec

(* Of two wines of which the same is known, the one the search put first is  *)
(* taken first (recommendations.py, _rerank): for any weights, any number    *)
(* of candidates and any limit.                                              *)
THEOREM NearerTwinFirst == RerankSpec => []NoWorseTwin
<1>1. RerankInv => NoWorseTwin
  BY DEF RerankInv
<1> QED
  BY <1>1, RerankInvariant, PTL

(* With one more wine chosen, the greatest overlap is at least what it was,  *)
(* and that of the new wine.                                                 *)
LEMMA WorstGrows ==
    ASSUME NEW i, NEW S, IsFiniteSet(S), S # {}, NEW x
    PROVE  LET w == Worst({Overlap(i, k) : k \in S})
               v == Worst({Overlap(i, k) : k \in S \union {x}})
           IN  /\ w \in Fractions /\ v \in Fractions
               /\ Leq(w, v) /\ Leq(Overlap(i, x), v)
<1> DEFINE O == {Overlap(i, k) : k \in S}
           P == {Overlap(i, k) : k \in S \union {x}}
<1>1. O \in SUBSET Fractions /\ IsFiniteSet(O) /\ O # {}
  BY OverlapsFinite
<1>2. IsFiniteSet(S \union {x}) /\ S \union {x} # {}
  BY FS_AddElement
<1>3. P \in SUBSET Fractions /\ IsFiniteSet(P) /\ P # {}
  BY <1>2, OverlapsFinite
<1>4. O \subseteq P /\ Overlap(i, x) \in P
  OBVIOUS
<1> HIDE DEF O, P
<1>5. Worst(O) \in O /\ Worst(P) \in P /\ \A q \in P : Leq(q, Worst(P))
  BY <1>1, <1>3, GreatestFraction
<1>6. /\ Worst(O) \in Fractions /\ Worst(P) \in Fractions
      /\ Leq(Worst(O), Worst(P)) /\ Leq(Overlap(i, x), Worst(P))
  BY <1>1, <1>3, <1>4, <1>5
<1> QED
  BY <1>6 DEF O, P

LEMMA BoostedGrows ==
    ASSUME NEW w \in Fractions, NEW v \in Fractions, Leq(w, v),
           NEW n \in Nat, NEW m \in Nat, n <= m
    PROVE  /\ Leq(Boosted(w, n), Boosted(v, m))
           /\ v.num > 0 /\ n < m => ~Leq(Boosted(v, m), Boosted(w, n))
<1> DEFINE a == w.num  b == w.den  c == v.num  d == v.den  x == a * d  y == c * b
<1>1. a \in Nat /\ b \in Nat \ {0} /\ c \in Nat /\ d \in Nat \ {0}
  BY DEF Fractions
<1>2. x <= y
  BY DEF Leq
<1>3. /\ Leq(Boosted(w, n), Boosted(v, m)) <=> (a * (5 + n)) * (d * 5) <= (c * (5 + m)) * (b * 5)
      /\ Leq(Boosted(v, m), Boosted(w, n)) <=> (c * (5 + m)) * (b * 5) <= (a * (5 + n)) * (d * 5)
  BY DEF Leq, Boosted
<1> HIDE DEF a, b, c, d
<1>4. x \in Nat /\ y \in Nat /\ (c > 0 => y > 0)
  BY <1>1, ProductType
<1>5. /\ (a * (5 + n)) * (d * 5) = (x * (5 + n)) * 5
      /\ (c * (5 + m)) * (b * 5) = (y * (5 + m)) * 5
  BY <1>1
<1> HIDE DEF x, y
<1>6. x * (5 + n) <= y * (5 + n) /\ y * (5 + n) \in Nat /\ x * (5 + n) \in Nat /\ y * (5 + m) \in Nat
  BY <1>2, <1>4, Scaled, ProductType
<1>7. y * (5 + m) = y * (5 + n) + y * (m - n) /\ m - n \in Nat
  BY <1>4
<1>8. y * (m - n) \in Nat /\ (y > 0 /\ n < m => y * (m - n) > 0)
  BY <1>4, <1>7, ProductType
<1>9. /\ x * (5 + n) <= y * (5 + m)
      /\ y > 0 /\ n < m => x * (5 + n) < y * (5 + m)
  BY <1>6, <1>7, <1>8
<1>10. /\ (x * (5 + n)) * 5 <= (y * (5 + m)) * 5
       /\ y > 0 /\ n < m => (x * (5 + n)) * 5 < (y * (5 + m)) * 5
  BY <1>6, <1>9
<1>11. v.num = c
  BY DEF c
<1> QED
  BY <1>3, <1>4, <1>5, <1>6, <1>10, <1>11

LEMMA PenaltyGrows ==
    ASSUME NEW i, NEW S, IsFiniteSet(S), S # {}, NEW x, x \notin S
    PROVE  /\ Leq(RedundancyPenalty(i, S), RedundancyPenalty(i, S \union {x}))
           /\ Similar(i, x) => ~Leq(RedundancyPenalty(i, S \union {x}), RedundancyPenalty(i, S))
<1> DEFINE w == Worst({Overlap(i, k) : k \in S})
           v == Worst({Overlap(i, k) : k \in S \union {x}})
           D == {k \in S : Similar(i, k)}
           E == {k \in S \union {x} : Similar(i, k)}
<1>1. w \in Fractions /\ v \in Fractions /\ Leq(w, v) /\ Leq(Overlap(i, x), v)
  BY WorstGrows
<1>2. /\ RedundancyPenalty(i, S) = Boosted(w, Cardinality(D))
      /\ RedundancyPenalty(i, S \union {x}) = Boosted(v, Cardinality(E))
  <2>1. S \union {x} # {}
    OBVIOUS
  <2> QED
    BY <2>1 DEF RedundancyPenalty
<1>3. IsFiniteSet(D) /\ Cardinality(D) \in Nat
  BY SimilarCount
<1>4. E = IF Similar(i, x) THEN D \union {x} ELSE D
  OBVIOUS
<1>5. x \notin D
  OBVIOUS
<1> HIDE DEF w, v, D, E
<1>6. Cardinality(E) = IF Similar(i, x) THEN Cardinality(D) + 1 ELSE Cardinality(D)
  BY <1>3, <1>4, <1>5, FS_AddElement
<1>7. ASSUME Similar(i, x) PROVE v.num > 0
  <2> DEFINE o == Overlap(i, x)
  <2>1. o \in Fractions /\ 10 * o.num > 3 * o.den
    BY <1>7, OverlapType DEF Similar
  <2>2. o.num * v.den <= v.num * o.den
    BY <1>1 DEF Leq
  <2> HIDE DEF o
  <2>3. o.num \in Nat \ {0} /\ o.den \in Nat /\ v.num \in Nat /\ v.den \in Nat \ {0}
    BY <1>1, <2>1 DEF Fractions
  <2>4. o.num * v.den > 0
    BY <2>3, ProductType
  <2>5. ASSUME v.num = 0 PROVE FALSE
    BY <2>2, <2>3, <2>4, <2>5
  <2> QED
    BY <2>3, <2>5
<1> QED
  BY <1>1, <1>2, <1>3, <1>6, <1>7, BoostedGrows

(* "Each additional similar wine makes the next one less desirable"          *)
(* (recommendations.py, _redundancy_penalty).                                *)
THEOREM PenaltyGrowsAlways == RerankSpec => PenaltyAccumulates
<1> DEFINE Grows == selected # <<>> =>
         LET new == selected'[Len(selected')]
             before(i) == RedundancyPenalty(i, Chosen)
             after(i) == RedundancyPenalty(i, Chosen')
         IN  \A i \in DOMAIN candidates \ Chosen' :
                /\ Leq(before(i), after(i))
                /\ Similar(i, new) => ~Leq(after(i), before(i))
<1>1. ASSUME RerankInv, [RerankNext]_rerankVars PROVE [Grows]_rerankVars
  <2> SUFFICES ASSUME Select, selected # <<>> PROVE Grows
    BY <1>1 DEF RerankNext
  <2>1. RerankTypeOK
    BY <1>1 DEF RerankInv
  <2>2. PICK x \in Remaining : selected' = Append(selected, x) /\ Chosen' = Chosen \union {x}
    BY <2>1, SelectAdds
  <2>3. IsFiniteSet(Chosen) /\ Chosen # {} /\ x \notin Chosen
    BY <2>1, <2>2, ChosenAre DEF Remaining
  <2>4. selected'[Len(selected')] = x
    <3>1. selected \in Seq(DOMAIN candidates)
      BY <2>1 DEF RerankTypeOK
    <3> QED
      BY <2>2, <3>1, AppendProperties
  <2>5. \A i : /\ Leq(RedundancyPenalty(i, Chosen), RedundancyPenalty(i, Chosen'))
               /\ Similar(i, x) => ~Leq(RedundancyPenalty(i, Chosen'), RedundancyPenalty(i, Chosen))
    BY <2>2, <2>3, PenaltyGrows
  <2> QED
    BY <2>4, <2>5
<1> HIDE DEF Grows
<1>2. RerankSpec => [][Grows]_rerankVars
  BY <1>1, RerankInvariant, PTL DEF RerankSpec
<1> QED
  BY <1>2 DEF Grows, PenaltyAccumulates

-----------------------------------------------------------------------------
(* All the components together.                                              *)

(* A step of them is a step of one, and each of the others stays.            *)
LEMMA OnePart ==
    [Next]_allVars =>
        /\ [EnrichmentNext]_enrichVars /\ [StoreDirectoryNext]_storeVars
        /\ [ConversationsNext]_conversationVars /\ [RerankNext]_rerankVars
        /\ [CellarNext]_cellarVars /\ [BrowseNext]_browseVars
        /\ [TastingNext]_tastingVars /\ [BotGateNext]_gateVars
        /\ [BotScreensNext]_screenVars
<1>1. CASE Next
  BY <1>1 DEF Next, Others
<1>2. CASE UNCHANGED allVars
  BY <1>2 DEF allVars
<1> QED
  BY <1>1, <1>2

(* So whatever is proved of one of them holds of a run of all: the run of    *)
(* this module checks each component by itself.                              *)
THEOREM EachByItself ==
    Spec => /\ EnrichmentSpec /\ StoreDirectorySpec /\ ConversationsSpec /\ RerankSpec
            /\ CellarSpec /\ BrowseSpec /\ TastingSpec /\ BotGateSpec /\ BotScreensSpec
<1>1. Init => /\ EnrichmentInit /\ StoreDirectoryInit /\ ConversationsInit /\ RerankInit
              /\ CellarInit /\ BrowseInit /\ TastingInit /\ BotGateInit /\ BotScreensInit
  BY DEF Init
<1> QED
  BY <1>1, OnePart, PTL DEF Spec, EnrichmentSpec, StoreDirectorySpec, ConversationsSpec, RerankSpec,
     CellarSpec, BrowseSpec, TastingSpec, BotGateSpec, BotScreensSpec

(* Adobe announces no more pages than it turns, unless a search is over the  *)
(* cap.                                                                      *)
LEMMA PagesWithinCap ==
    ASSUME NEW f, ~OverCap(f)
    PROVE  PageCount(Cardinality(Matching(f))) \in 0..MaxPage
<1> DEFINE n == Cardinality(Matching(f))
           p == PageSize
           q == (n + p - 1) \div p
           r == (n + p - 1) % p
<1>1. p \in Nat /\ p > 0 /\ MaxPage \in Nat /\ n \in Nat
  <2>1. IsFiniteSet(Matching(f))
    BY FS_Subset, WineEnrichmentAssumption DEF Matching
  <2> QED
    BY <2>1, FS_CardinalityType, WineEnrichmentAssumption
<1>2. n <= p * MaxPage
  BY <1>1 DEF OverCap
<1> HIDE DEF n
<1>3. q \in Nat /\ r \in 0..(p - 1) /\ n + p - 1 = q * p + r
  BY <1>1
<1> HIDE DEF p, q, r
<1>4. q * p \in Nat /\ p * MaxPage \in Nat /\ p * MaxPage = MaxPage * p
  BY <1>1, <1>3, ProductType
<1>5. ASSUME MaxPage + 1 <= q PROVE FALSE
  <2>1. (MaxPage + 1) * p <= q * p
    BY <1>1, <1>3, <1>5, PagesOrdered
  <2>2. (MaxPage + 1) * p = MaxPage * p + p
    BY <1>1
  <2> QED
    BY <1>1, <1>2, <1>3, <1>4, <2>1, <2>2
<1>6. q \in 0..MaxPage
  BY <1>1, <1>3, <1>5
<1> QED
  BY <1>6 DEF PageCount, q, p, n

PageInv == next \in 1..MaxPage /\ pages \in 0..MaxPage

LEMMA PageInvStep == PageInv /\ [EnrichmentNext]_enrichVars => PageInv'
<1> SUFFICES ASSUME PageInv, [EnrichmentNext]_enrichVars PROVE PageInv'
  OBVIOUS
<1>0. MaxPage \in Nat \ {0} /\ next \in 1..MaxPage /\ pages \in 0..MaxPage
  BY WineEnrichmentAssumption DEF PageInv
<1>1. ASSUME UNCHANGED <<next, pages>> PROVE PageInv'
  BY <1>1 DEF PageInv
<1>2. ASSUME next' = 1, pages' = 0 PROVE PageInv'
  BY <1>0, <1>2 DEF PageInv
<1>3. CASE SearchPage
  <2> DEFINE announced == IF next = 1 THEN PageCount(Cardinality(Matching(Head(todo)))) ELSE pages
  <2>1. /\ next = 1 => ~OverCap(Head(todo))
        /\ \/ next < announced /\ next' = next + 1 /\ pages' = announced
           \/ next' = 1 /\ pages' = 0
    BY <1>3 DEF SearchPage
  <2>2. announced \in 0..MaxPage
    BY <1>0, <2>1, PagesWithinCap
  <2> HIDE DEF announced
  <2> QED
    BY <1>0, <1>2, <2>1, <2>2 DEF PageInv
<1> QED
  BY <1>1, <1>2, <1>3 DEF EnrichmentNext, Delist, Relist, Reprice, Retaste, Change, ScrapeInserts,
     EnrichBegins, SearchCapped, EnrichFails, EnrichWrite, Stop, enrichVars, progress

LEMMA EnrichmentTypes == EnrichmentSpec => []EnrichmentTypeOK
<1>1. EnrichmentInit => PageInv
  BY WineEnrichmentAssumption DEF EnrichmentInit, PageInv
<1>2. RunInv /\ CoverInv /\ PageInv => EnrichmentTypeOK
  <2> SUFFICES ASSUME RunInv, CoverInv, PageInv PROVE EnrichmentTypeOK
    OBVIOUS
  <2>1. PICK D \in SUBSET Skus : column \in [D -> Wines \union {NoAttributes}]
    BY DEF RunInv
  <2>2. PICK C \in SUBSET Skus : collected \in [C -> Wines]
    BY DEF RunInv, Collections
  <2>3. Running => known[1] = "running" /\ known[2] \subseteq Skus
    <3> SUFFICES ASSUME Running PROVE known[1] = "running" /\ known[2] \subseteq Skus
      OBVIOUS
    <3>1. known \in {"running"} \X SUBSET Skus
      BY DEF RunInv, Running
    <3> QED
      BY <3>1
  <2> QED
    BY <2>1, <2>2, <2>3 DEF EnrichmentTypeOK, RunInv, CoverInv, PageInv
<1> QED
  BY <1>1, <1>2, CoverInvariant, PageInvStep, PTL DEF EnrichmentSpec

-----------------------------------------------------------------------------
(* The table of stores, and an order that names each store once.             *)
TableInv ==
    /\ IsInjective(directory)
    /\ DOMAIN stores \subseteq Stores \union SeedStores
    /\ \A s \in DOMAIN stores : stores[s] \in Facts \union {Seeded}
    /\ skus \subseteq SeedProducts \union RealProducts
    /\ seed \in {"idle", "insert"}

LEMMA DirectoryMoves ==
    ASSUME DirectoryInv, TableInv, NEW s \in Stores, StoreOpens(s) \/ StoreCloses(s)
    PROVE  IsInjective(directory')
<1>1. /\ directory \in Seq(Stores) /\ Len(directory) \in Nat /\ DOMAIN directory = 1..Len(directory)
      /\ \A a, b \in 1..Len(directory) : directory[a] = directory[b] => a = b
  BY DEF DirectoryInv, TableInv, IsInjective
<1> DEFINE n == Len(directory)
<1>2. CASE StoreOpens(s)
  <2>1. PICK i \in 1..n + 1 : directory' = InsertAt(directory, i, s)
    BY <1>2 DEF StoreOpens
  <2>2. \A k \in 1..n : directory[k] # s
    BY <1>1, <1>2 DEF StoreOpens, ToSet
  <2>i. i \in 1..Len(directory) + 1 /\ directory \in Seq(Stores)
    BY <1>1
  <2> HIDE DEF n
  <2>0. /\ InsertAt(directory, i, s) \in Seq(Stores)
        /\ Len(InsertAt(directory, i, s)) = Len(directory) + 1 /\ InsertAt(directory, i, s)[i] = s
        /\ \A k \in 1..Len(directory) : k < i => InsertAt(directory, i, s)[k] = directory[k]
        /\ \A k \in 1..Len(directory) : k >= i => InsertAt(directory, i, s)[k + 1] = directory[k]
    BY <2>i, InsertAtIs
  <2> DEFINE d == InsertAt(directory, i, s)
  <2>3. /\ d \in Seq(Stores) /\ Len(d) = n + 1 /\ d[i] = s
        /\ \A k \in 1..n : k < i => d[k] = directory[k]
        /\ \A k \in 1..n : k >= i => d[k + 1] = directory[k]
    BY <2>0 DEF n
  <2> USE DEF n
  <2>4. DOMAIN d = 1..(n + 1)
    BY <2>3, LenProperties
  <2> HIDE DEF d
  <2> DEFINE Old(k) == IF k < i THEN k ELSE k - 1
  <2>5. ASSUME NEW k \in 1..(n + 1), k # i
        PROVE  Old(k) \in 1..n /\ d[k] = directory[Old(k)]
    <3>0. n \in Nat /\ i \in 1..n + 1
      BY <1>1
    <3>1. CASE k < i
      <4>1. k \in 1..n
        BY <3>0, <3>1
      <4> QED
        BY <2>3, <3>1, <4>1
    <3>2. CASE ~(k < i)
      <4>1. k - 1 \in 1..n /\ k - 1 >= i /\ (k - 1) + 1 = k
        BY <2>5, <3>0, <3>2
      <4>2. d[(k - 1) + 1] = directory[k - 1]
        BY <2>3, <4>1
      <4> QED
        BY <3>2, <4>1, <4>2
    <3> QED
      BY <3>1, <3>2
  <2>6. ASSUME NEW a \in 1..(n + 1), NEW b \in 1..(n + 1), d[a] = d[b] PROVE a = b
    <3>1. CASE a = i \/ b = i
      BY <2>2, <2>3, <2>5, <2>6, <3>1
    <3>2. CASE a # i /\ b # i
      <4>1. Old(a) = Old(b)
        BY <1>1, <2>5, <2>6, <3>2
      <4> QED
        BY <1>1, <3>2, <4>1
    <3> QED
      BY <3>1, <3>2
  <2>7. IsInjective(d)
    BY <2>4, <2>6 DEF IsInjective
  <2> QED
    BY <2>1, <2>7 DEF d
<1>3. CASE StoreCloses(s)
  <2>1. PICK i \in 1..n : directory' = RemoveAt(directory, i)
    BY <1>3 DEF StoreCloses
  <2> DEFINE d == RemoveAt(directory, i)
  <2>2. /\ d \in Seq(Stores) /\ Len(d) = n - 1
        /\ \A k \in 1..(n - 1) : d[k] = IF k < i THEN directory[k] ELSE directory[k + 1]
    BY <1>1, RemoveAtIs
  <2>3. DOMAIN d = 1..(n - 1)
    BY <2>2, LenProperties
  <2> HIDE DEF d
  <2> DEFINE Old(k) == IF k < i THEN k ELSE k + 1
  <2>4. \A k \in 1..(n - 1) : Old(k) \in 1..n /\ d[k] = directory[Old(k)]
    BY <1>1, <2>2
  <2>5. ASSUME NEW a \in 1..(n - 1), NEW b \in 1..(n - 1), d[a] = d[b] PROVE a = b
    <3>1. Old(a) = Old(b)
      BY <1>1, <2>4, <2>5
    <3> QED
      BY <1>1, <3>1
  <2>6. IsInjective(d)
    BY <2>3, <2>5 DEF IsInjective
  <2> QED
    BY <2>1, <2>6 DEF d
<1> QED
  BY <1>2, <1>3

LEMMA CommitTypes ==
    ASSUME DirectoryInv, TableInv, SyncCommit
    PROVE  /\ DOMAIN stores' \subseteq Stores \union SeedStores
           /\ \A s \in DOMAIN stores' : stores'[s] \in Facts \union {Seeded}
<1> DEFINE list == sync.list
<1>1. /\ sync.pc = "upsert" /\ OncePerStore(list)
      /\ stores' = [t \in DOMAIN stores \union Listed(list) |->
                       IF t \in Listed(list) THEN FactsOf(list, t) ELSE stores[t]]
  BY DEF SyncCommit
<1>2. sync \in Sync /\ list \in Seq(Entry)
  BY <1>1, SyncKind DEF Sync
<1>3. \A i \in DOMAIN list : list[i].id \in Stores /\ list[i].facts \in Facts /\ i \in Nat
  <2> SUFFICES ASSUME NEW i \in DOMAIN list
               PROVE  list[i].id \in Stores /\ list[i].facts \in Facts /\ i \in Nat
    OBVIOUS
  <2> HIDE DEF list
  <2>1. i \in 1..Len(list) /\ Len(list) \in Nat
    BY <1>2, LenProperties
  <2>2. list[i] \in Entry
    BY <1>2, <2>1, ElementOfSeq
  <2> QED
    BY <2>1, <2>2 DEF Entry
<1> HIDE DEF list
<1>4. ASSUME NEW s \in Listed(list) PROVE s \in Stores /\ FactsOf(list, s) \in Facts
  <2>1. PICK i \in DOMAIN list : list[i].id = s
    BY <1>4 DEF Listed
  <2>2. {k \in DOMAIN list : list[k].id = s} = {i}
    BY <1>1, <2>1 DEF OncePerStore
  <2>3. Max({i}) = i
    BY <1>3, <2>1 DEF Max
  <2> QED
    BY <1>3, <2>1, <2>2, <2>3 DEF FactsOf
<1> QED
  BY <1>1, <1>4 DEF TableInv

LEMMA TableInvStep == DirectoryInv /\ TableInv /\ [StoreDirectoryNext]_storeVars => TableInv'
<1> SUFFICES ASSUME DirectoryInv, TableInv, [StoreDirectoryNext]_storeVars PROVE TableInv'
  OBVIOUS
<1>1. CASE \E s \in Stores : StoreOpens(s) \/ StoreCloses(s)
  <2>1. IsInjective(directory')
    BY <1>1, DirectoryMoves
  <2>2. UNCHANGED <<stores, skus, seed>>
    BY <1>1 DEF StoreOpens, StoreCloses, Move
  <2> QED
    BY <2>1, <2>2 DEF TableInv
<1>2. CASE SyncCommit
  <2>1. UNCHANGED <<directory, skus, seed>>
    BY <1>2 DEF SyncCommit, saq
  <2> QED
    BY <1>2, <2>1, CommitTypes DEF TableInv
<1>3. CASE SeedInsert
  <2>1. directory' = directory /\ seed' = "idle" /\ skus' = skus \union SeedProducts
    BY <1>3 DEF SeedInsert, BothParts, saq
  <2>2. stores' = [s \in DOMAIN stores \union SeedStores |->
                      IF s \in DOMAIN stores THEN stores[s] ELSE Seeded]
    BY <1>3 DEF SeedInsert, BothParts
  <2> QED
    BY <2>1, <2>2 DEF TableInv
<1>4. CASE \E p \in RealProducts : ProductScraped(p)
  <2>1. PICK p \in RealProducts : skus' = skus \union {p} /\ UNCHANGED <<directory, stores, seed>>
    BY <1>4 DEF ProductScraped, saq
  <2> QED
    BY <2>1 DEF TableInv
<1>5. CASE SeedCount \/ SeedFails
  <2>1. UNCHANGED <<directory, stores, skus>> /\ seed' \in {"idle", "insert"}
    BY <1>5 DEF SeedCount, SeedFails, saq
  <2> QED
    BY <2>1 DEF TableInv
<1>6. CASE SyncBegins \/ SyncPage \/ SyncFails \/ (\E s \in Stores : StoreMoves(s)) \/ UNCHANGED storeVars
  <2>1. UNCHANGED <<directory, stores, skus, seed>>
    BY <1>6 DEF SyncBegins, SyncPage, SyncFails, StoreMoves, Move, storeVars, saq
  <2> QED
    BY <2>1 DEF TableInv
<1> QED
  BY <1>1, <1>2, <1>3, <1>4, <1>5, <1>6 DEF StoreDirectoryNext

LEMMA DirectoryTypes == StoreDirectorySpec => []StoreDirectoryTypeOK
<1>1. StoreDirectoryInit => TableInv
  <2> SUFFICES ASSUME StoreDirectoryInit PROVE TableInv
    OBVIOUS
  <2>1. \A s \in Stores : IsFiniteSet(Stores \ {s})
    BY FS_RemoveElement, StoreDirectoryAssumption
  <2>2. IsInjective(directory)
    BY <2>1, SetToSeqIs, StoreDirectoryAssumption DEF StoreDirectoryInit
  <2> QED
    BY <2>2 DEF StoreDirectoryInit, TableInv
<1>2. DirectoryInv /\ TableInv => StoreDirectoryTypeOK
  <2> SUFFICES ASSUME DirectoryInv, TableInv PROVE StoreDirectoryTypeOK
    OBVIOUS
  <2>1. ToSet(directory) \subseteq Stores
    BY LenProperties, ElementOfSeq DEF DirectoryInv, ToSet
  <2>2. sync.pc \in {"idle", "page", "upsert"}
    BY SyncKind DEF DirectoryInv
  <2>3. ASSUME sync # NoSync PROVE ToSet(sync.list) \subseteq Entry /\ sync.offset \in Nat
    <3>1. sync \in Sync
      BY <2>3, SyncKind
    <3>2. sync.list \in Seq(Entry) /\ sync.offset \in Nat
      BY <3>1 DEF Sync
    <3> QED
      BY <3>2, LenProperties, ElementOfSeq DEF ToSet
  <2> QED
    BY <2>1, <2>2, <2>3 DEF StoreDirectoryTypeOK, DirectoryInv, TableInv
<1> QED
  BY <1>1, <1>2, DirectoryInvariant, TableInvStep, PTL DEF StoreDirectorySpec

-----------------------------------------------------------------------------
(* What the messages of the bot show is a list of items, or nothing.         *)
ShownInv ==
    /\ nearby \in BOOLEAN /\ marks \in Messages /\ listing \in Messages
    /\ taps \in 0..MaxTaps /\ web \in 0..MaxWeb
    /\ failed \subseteq Items \X States

LEMMA ShownInvStep == MarkInv /\ ShownInv /\ [BotScreensNext]_screenVars => ShownInv'
<1> SUFFICES ASSUME MarkInv, ShownInv, [BotScreensNext]_screenVars PROVE ShownInv'
  OBVIOUS
<1>0. /\ saved \subseteq Items /\ tap \in Taps
      /\ nearby \in BOOLEAN /\ marks \in Messages /\ listing \in Messages
      /\ taps \in 0..MaxTaps /\ web \in 0..MaxWeb /\ MaxTaps \in Nat /\ MaxWeb \in Nat
      /\ failed \subseteq Items \X States /\ pending \in [Items -> {"none"} \union States]
  BY BotScreensAssumption DEF MarkInv, ShownInv
<1>1. \A S : S \subseteq Items => <<S>> \in Messages
  BY DEF Messages
<1>2. Unsent \in Messages
  BY DEF Messages
<1>3. failed' \subseteq Items \X States
  <2>1. ASSUME NEW i \in Items, RowFails(i) PROVE failed' \subseteq Items \X States
    <3>1. pending[i] \in States /\ failed' = failed \union {<<i, pending[i]>>}
      BY <1>0, <2>1 DEF RowFails, Unpended
    <3> QED
      BY <1>0, <3>1
  <2>2. \/ \E i \in Items : RowFails(i)
        \/ failed' \subseteq failed
    BY DEF BotScreensNext, ShareLocation, AskList, TapDone, TapStore, TapRemove, Begin, WebEdits,
       RowCommits, CallFails, Locate, List, ToggleReads, ToggleOff, ToggleOn, ToggleLost, Mark, Kept,
       Called, RemoveTapped, ReadAgain, ReadAgainFails, Finish, Restart, screenVars
  <2> QED
    BY <1>0, <2>1, <2>2
<1>4. taps' \in 0..MaxTaps /\ web' \in 0..MaxWeb
  <2>1. ASSUME NEW t, Begin(t) PROVE taps < MaxTaps /\ taps' = taps + 1 /\ web' = web
    BY <2>1 DEF Begin
  <2>2. WebEdits => web < MaxWeb /\ web' = web + 1 /\ taps' = taps
    BY DEF WebEdits
  <2>3. CallFails \/ List \/ ToggleReads \/ ToggleOff \/ ToggleOn \/ ToggleLost
            => taps' = taps /\ web' = web
    BY DEF CallFails, Apology, List, ToggleReads, ToggleOff, ToggleOn, ToggleLost, Draw
  <2>4. Mark \/ RemoveTapped \/ ReadAgain \/ ReadAgainFails \/ Locate \/ Finish \/ Restart
            \/ (\E i \in Items : RowCommits(i) \/ RowFails(i)) \/ UNCHANGED screenVars
            => taps' = taps /\ web' = web
    BY DEF RowCommits, RowFails, Mark, RemoveTapped, Apology, ReadAgain, ReadAgainFails, Locate, Finish, Restart, screenVars
  <2>5. \/ taps < MaxTaps /\ taps' = taps + 1 /\ web' = web
        \/ web < MaxWeb /\ web' = web + 1 /\ taps' = taps
        \/ taps' = taps /\ web' = web
    <3>1. CASE ShareLocation \/ AskList \/ TapDone \/ \E i \in Items : TapStore(i) \/ TapRemove(i)
      BY <2>1, <3>1 DEF ShareLocation, AskList, TapDone, TapStore, TapRemove
    <3> QED
      BY <2>2, <2>3, <2>4, <3>1 DEF BotScreensNext
  <2> QED
    BY <1>0, <2>5
<1>7. nearby' \in BOOLEAN
  <2>1. ASSUME nearby' = nearby PROVE nearby' \in BOOLEAN
    BY <1>0, <2>1, Zenon
  <2>2. Locate \/ Finish \/ Restart => nearby' \in BOOLEAN
    BY DEF Locate, Finish, Restart
  <2>3. CASE ~(Locate \/ Finish \/ Restart)
    <3>1. nearby' = nearby
      BY <2>3 DEF BotScreensNext, ShareLocation, AskList, TapDone, TapStore, TapRemove, Begin,
         WebEdits, RowCommits, RowFails, CallFails, Apology, List, ToggleReads, ToggleOff, ToggleOn, ToggleLost, Draw,
         Mark, RemoveTapped, ReadAgain, ReadAgainFails, screenVars
    <3> QED
      BY <2>1, <3>1, Zenon
  <2> QED
    BY <2>2, <2>3
<1>5. marks' \in Messages
  <2>1. CASE Locate
    BY <1>0, <1>1, <2>1 DEF Locate
  <2>2. CASE Mark
    <3>1. tap.prefs \subseteq Items
      BY <1>0, <2>2, TapKinds DEF Mark
    <3> QED
      BY <1>0, <1>1, <2>2, <3>1 DEF Mark
  <2>3. CASE ~Locate /\ ~Mark
    <3>1. marks' = marks \/ marks' = Unsent
      BY <2>3 DEF BotScreensNext, ShareLocation, AskList, TapDone, TapStore, TapRemove, Begin,
         WebEdits, RowCommits, RowFails, CallFails, Apology, List, ToggleReads, ToggleOff, ToggleOn, ToggleLost, Draw,
         RemoveTapped, ReadAgain, ReadAgainFails, Finish, Restart, screenVars
    <3> QED
      BY <1>0, <1>2, <3>1
  <2> QED
    BY <2>1, <2>2, <2>3
<1>6. listing' \in Messages
  <2>1. listing' \in {listing, Unsent, <<saved>>}
    BY DEF BotScreensNext, ShareLocation, AskList, TapDone, TapStore, TapRemove, Begin,
       WebEdits, RowCommits, RowFails, CallFails, Apology, Locate, List, ToggleReads, ToggleOff, ToggleOn, ToggleLost, Draw,
       Mark, RemoveTapped, ReadAgain, ReadAgainFails, Finish, Restart, screenVars
  <2> QED
    BY <1>0, <1>1, <1>2, <2>1
<1> QED
  BY <1>3, <1>4, <1>5, <1>6, <1>7, Zenon DEF ShownInv

LEMMA ScreensTypes == BotScreensSpec => []BotScreensTypeOK
<1>1. BotScreensInit => ShownInv
  <2> SUFFICES ASSUME BotScreensInit PROVE ShownInv
    OBVIOUS
  <2>1. marks \in Messages /\ listing \in Messages
    BY DEF BotScreensInit, Messages
  <2>2. nearby \in BOOLEAN
    BY Zenon DEF BotScreensInit
  <2>3. taps \in 0..MaxTaps /\ web \in 0..MaxWeb /\ failed \subseteq Items \X States
    BY BotScreensAssumption DEF BotScreensInit
  <2> QED
    BY <2>1, <2>2, <2>3, Zenon DEF ShownInv
<1>2. MarkInv /\ ShownInv => BotScreensTypeOK
  BY DEF MarkInv, ShownInv, BotScreensTypeOK
<1> QED
  BY <1>1, <1>2, MarkInvariant, ShownInvStep, PTL DEF BotScreensSpec

-----------------------------------------------------------------------------
(* Every variable of the nine components keeps its type, for any constants:  *)
(* a search asks for no page beyond those announced, a table is a function   *)
(* of known stores, a count is within its limit (scraper, backend and bot).  *)
THEOREM ComponentsTyped == Spec => []ComponentsTypeOK
<1>1. ConversationsSpec => []ConversationsTypeOK
  BY ChatInvariant, PTL
<1>2. RerankInv => RerankTypeOK
  BY DEF RerankInv
<1>3. WalkInv => BrowseTypeOK
  BY DEF WalkInv
<1>4. MergeInv => TastingTypeOK
  BY DEF MergeInv
<1>5. GateInv => BotGateTypeOK
  BY DEF GateInv
<1> QED
  BY <1>1, <1>2, <1>3, <1>4, <1>5, EachByItself, EnrichmentTypes, DirectoryTypes, RerankInvariant,
     CellarTypeCorrect, WalkInvariant, MergeInvariant, GateInvariant, ScreensTypes, PTL
     DEF ComponentsTypeOK
=============================================================================
