------------------------------- MODULE Browse -------------------------------
(***************************************************************************)
(* A person turns the pages of the search results. Each page is one        *)
(* request, of two statements that see the catalogue at two moments: the   *)
(* count of the products the filters keep, and a slice, by OFFSET and      *)
(* LIMIT, of these products in the order of one column. Products equal in  *)
(* that column come in any order, a new one for each statement. The        *)
(* scraper and the availability check write meanwhile.                     *)
(***************************************************************************)
EXTENDS Naturals, FiniteSets

CONSTANTS
    Products,
    Ranks,        \* of the values of the column that sorts
    PageLimit,    \* products a page
    MaxWrites     \* bound: writes to the catalogue

ASSUME BrowseAssumption ==
    /\ IsFiniteSet(Products) /\ Ranks \subseteq Nat
    /\ PageLimit \in Nat \ {0} /\ MaxWrites \in Nat

VARIABLES
    rank,         \* of each product
    kept,         \* products that are not delisted and that the filters keep
    writes,
    walk,         \* the reader: the request under way, the pages read
    disturbed     \* history: something was written since the first page was asked for

browseVars == <<rank, kept, writes, walk, disturbed>>

Steps == {"start", "count", "page", "read", "end"}

BrowseTypeOK ==
    /\ rank \in [Products -> Ranks] /\ kept \subseteq Products
    /\ writes \in 0..MaxWrites
    /\ walk.pc \in Steps /\ walk.offset \in 0..Cardinality(Products)
    /\ walk.total \in 0..Cardinality(Products)
    /\ walk.seen \subseteq Products /\ walk.again \subseteq walk.seen
    /\ disturbed \in BOOLEAN

BrowseInit ==
    /\ rank \in [Products -> Ranks] /\ kept \in SUBSET Products /\ writes = 0
    /\ walk = [pc |-> "start", offset |-> 0, total |-> 0, seen |-> {}, again |-> {}]
    /\ disturbed = FALSE

-----------------------------------------------------------------------------
FirstPage ==
    /\ walk.pc = "start"
    /\ walk' = [walk EXCEPT !.pc = "count"]
    /\ disturbed' = FALSE
    /\ UNCHANGED <<rank, kept, writes>>

CountKept ==
    /\ walk.pc = "count"
    /\ walk' = [walk EXCEPT !.pc = "page", !.total = Cardinality(kept)]
    /\ UNCHANGED <<rank, kept, writes, disturbed>>

(* The slices ORDER BY ... OFFSET offset LIMIT PageLimit may return. *)
SlicesAt(offset) ==
    {rows \in SUBSET kept :
        \E skipped \in SUBSET (kept \ rows) :
            /\ Cardinality(skipped) = IF offset < Cardinality(kept) THEN offset
                                      ELSE Cardinality(kept)
            /\ Cardinality(rows) = IF offset + PageLimit < Cardinality(kept) THEN PageLimit
                                   ELSE Cardinality(kept) - Cardinality(skipped)
            /\ \A p \in skipped, q \in kept \ skipped : rank[p] <= rank[q]
            /\ \A p \in rows, q \in kept \ (skipped \union rows) : rank[p] <= rank[q]}

ReadPage ==
    /\ walk.pc = "page"
    /\ \E rows \in SlicesAt(walk.offset) :
          walk' = [walk EXCEPT !.pc = "read", !.seen = @ \union rows,
                               !.again = @ \union (walk.seen \intersect rows)]
    /\ UNCHANGED <<rank, kept, writes, disturbed>>

(* (page - 1) * LIMIT, while the last total leaves a page to turn to. *)
(* Mutant: pages counted from the row after. *)
OffsetAfter(offset) == offset + PageLimit + 1
NextOffset(offset) == offset + PageLimit

NextPage ==
    /\ walk.pc = "read" /\ NextOffset(walk.offset) < walk.total
    /\ walk' = [walk EXCEPT !.pc = "count", !.offset = NextOffset(@)]
    /\ UNCHANGED <<rank, kept, writes, disturbed>>

LastPage ==
    /\ walk.pc = "read" /\ NextOffset(walk.offset) >= walk.total
    /\ walk' = [walk EXCEPT !.pc = "end"]
    /\ UNCHANGED <<rank, kept, writes, disturbed>>

(* A price or a name edited, updated_at moved by any job; a product delisted, *)
(* listed again, in stock or out of it.                                       *)
WriteCatalogue ==
    /\ writes < MaxWrites /\ writes' = writes + 1
    /\ \/ \E p \in Products, k \in Ranks : rank' = [rank EXCEPT ![p] = k] /\ UNCHANGED kept
       \/ \E p \in Products :
             /\ kept' \in {kept \union {p}, kept \ {p}}
             /\ UNCHANGED rank
    /\ disturbed' = TRUE
    /\ UNCHANGED walk

BrowseNext == FirstPage \/ CountKept \/ ReadPage \/ NextPage \/ LastPage \/ WriteCatalogue
BrowseSpec == BrowseInit /\ [][BrowseNext]_browseVars

-----------------------------------------------------------------------------
Tied(p) == \E q \in kept \ {p} : rank[q] = rank[p]

(* Who turns all the pages sees every product once, but for what was written  *)
(* meanwhile and for products equal in the column that sorts: none of the     *)
(* orders has a second column to tell them apart.                             *)
WalkExplained ==
    (walk.pc = "end" /\ ~disturbed) =>
        \A p \in (kept \ walk.seen) \union walk.again : Tied(p)
=============================================================================
