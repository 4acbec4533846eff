-------------------------- MODULE CatalogueProofs --------------------------
(***************************************************************************)
(* The rows of products keep their types, each vector keeps the hash of    *)
(* its text, and what a scrape may miss has one cause only, for any rows,  *)
(* jobs, pages, wines and bounds.                                          *)
(***************************************************************************)
EXTENDS Catalogue, TLAPS

(* What a command means to write to, it has found in the table; no row is ever *)
(* deleted.                                                                    *)
KnowsRows(x) ==
    /\ x.pc = "collect" => x.known \subseteq InTable
    /\ x.pc \in {"existing", "embed"} => DOMAIN x.dirty \subseteq InTable

RowsInv ==
    CatalogueTypeOK /\ VectorMatchesHash /\ \A j \in Jobs : KnowsRows(job[j])

-----------------------------------------------------------------------------
(* Partial functions.                                                          *)
LEMMA PartialMade ==
    ASSUME NEW S, NEW T, NEW D \in SUBSET S, NEW f \in [D -> T]
    PROVE  f \in Partial(S, T)
  BY DEF Partial

(* A partial function of the type has a domain in S and values in T.            *)
LEMMA PartialUsed ==
    ASSUME NEW S, NEW T, NEW f \in Partial(S, T)
    PROVE  DOMAIN f \in SUBSET S /\ f \in [DOMAIN f -> T]
  BY DEF Partial

(* The text of a row is a text.                                                *)
LEMMA TextTyped ==
    ASSUME NEW r \in Row PROVE Text(r) \in Texts
  BY DEF Row, Text, Texts

(* The table is a partial function from the skus to the rows.                  *)
LEMMA InTableTyped ==
    ASSUME CatalogueTypeOK
    PROVE  InTable \in SUBSET Skus /\ product \in [InTable -> Row]
  BY PartialUsed DEF CatalogueTypeOK, InTable

(* What a job may become.                                                      *)
LEMMA SmallJobs ==
    /\ Idle \in Job /\ [pc |-> "known"] \in Job /\ [pc |-> "new"] \in Job
  BY DEF Job

LEMMA PagesJob ==
    ASSUME NEW seen \in Partial(Skus, State), NEW todo \in SUBSET Skus, NEW errors \in BOOLEAN
    PROVE  [pc |-> "pages", seen |-> seen, todo |-> todo, errors |-> errors] \in Job
  BY DEF Job

LEMMA CollectJob ==
    ASSUME NEW known \in SUBSET Skus, NEW todo \in SUBSET Skus, NEW wines \in Partial(Skus, Wines)
    PROVE  [pc |-> "collect", known |-> known, todo |-> todo, wines |-> wines] \in Job
  BY DEF Job

LEMMA EmbedJob ==
    ASSUME NEW dirty \in Partial(Skus, Texts), NEW pc \in {"existing", "embed"}
    PROVE  [pc |-> pc, dirty |-> dirty] \in Job
  BY DEF Job

(* A step that changes a job, and of the rest what keeps its type.             *)
LEMMA JobMoves ==
    ASSUME RowsInv, NEW j \in Jobs, NEW new \in Job, Become(j, new),
           UNCHANGED <<today, site, edits>>, failures' \in 0..MaxFailures,
           product' \in Partial(Skus, Row), VectorMatchesHash',
           InTable \subseteq InTable', KnowsRows(new),
           since' \in [Jobs -> [Skus -> SUBSET (Contents \X Days)]], scraped' \in [Skus -> Days]
    PROVE  RowsInv'
  <1>1. job' \in [Jobs -> Job] BY DEF Become, RowsInv, CatalogueTypeOK
  <1>2. ASSUME NEW i \in Jobs PROVE KnowsRows(job[i])'
    <2>1. job'[i] = new \/ job'[i] = job[i] BY DEF Become, RowsInv, CatalogueTypeOK
    <2>2. KnowsRows(job[i]) /\ KnowsRows(new) BY DEF RowsInv
    <2> QED BY <2>1, <2>2 DEF KnowsRows
  <1> QED BY <1>1, <1>2 DEF RowsInv, CatalogueTypeOK, site

(* One that writes no row.                                                     *)
LEMMA JobReads ==
    ASSUME RowsInv, NEW j \in Jobs, NEW new \in Job, Become(j, new),
           UNCHANGED <<today, site, product, edits>>, failures' \in 0..MaxFailures,
           KnowsRows(new),
           since' \in [Jobs -> [Skus -> SUBSET (Contents \X Days)]], scraped' \in [Skus -> Days]
    PROVE  RowsInv'
  <1>1. product' \in Partial(Skus, Row) BY DEF RowsInv, CatalogueTypeOK
  <1>2. VectorMatchesHash' BY DEF RowsInv, VectorMatchesHash, InTable
  <1>3. InTable \subseteq InTable' BY DEF InTable
  <1> QED BY <1>1, <1>2, <1>3, JobMoves

(* Rows that are rewritten, all of them with a vector and its hash.            *)
LEMMA RowsWritten ==
    ASSUME RowsInv, NEW S \in SUBSET Skus, NEW new \in [S -> Row],
           \A s \in S : new[s].vector = new[s].hash,
           product' = [s \in InTable \union S |-> IF s \in S THEN new[s] ELSE product[s]]
    PROVE  product' \in Partial(Skus, Row) /\ VectorMatchesHash' /\ InTable \subseteq InTable'
  <1>1. InTable \in SUBSET Skus /\ product \in [InTable -> Row]
      BY InTableTyped DEF RowsInv
  <1>2. product' \in [InTable \union S -> Row] BY <1>1
  <1>3. product' \in Partial(Skus, Row) BY <1>1, <1>2, PartialMade
  <1>4. VectorMatchesHash' BY <1>1, <1>2 DEF RowsInv, VectorMatchesHash, InTable
  <1>5. InTable \subseteq InTable' BY <1>2 DEF InTable
  <1> QED BY <1>3, <1>4, <1>5

(* Moving updated_at leaves the other columns.                                 *)
LEMMA UpdatedTyped ==
    ASSUME CatalogueTypeOK, NEW r \in Row
    PROVE  /\ Updated(r) \in Row
           /\ Updated(r).vector = r.vector /\ Updated(r).hash = r.hash
  BY DEF CatalogueTypeOK, Updated, Row

-----------------------------------------------------------------------------
(* The empty table and the idle jobs satisfy the invariant.                    *)
LEMMA RowsInit == CatalogueInit => RowsInv
  <1> SUFFICES ASSUME CatalogueInit PROVE RowsInv OBVIOUS
  <1>1. product \in Partial(Skus, Row)
    <2>1. product \in [{} -> Row] BY DEF CatalogueInit
    <2> QED BY <2>1, PartialMade
  <1>2. job \in [Jobs -> Job] BY SmallJobs DEF CatalogueInit
  <1>3. 0 \in Days /\ 0 \in 0..MaxEdits /\ 0 \in 0..MaxFailures
      BY CatalogueAssumption DEF Days
  <1>4. CatalogueTypeOK
      BY <1>1, <1>2, <1>3 DEF CatalogueInit, CatalogueTypeOK, Sitemap
  <1>5. VectorMatchesHash BY DEF CatalogueInit, VectorMatchesHash, InTable
  <1>6. \A j \in Jobs : KnowsRows(job[j]) BY DEF CatalogueInit, KnowsRows, Idle
  <1> QED BY <1>4, <1>5, <1>6 DEF RowsInv

(* The world changes no job.                                                   *)
LEMMA WorldKeeps ==
    ASSUME RowsInv, World PROVE RowsInv'
  <1> USE CatalogueAssumption
  <1>1. ASSUME NEW s \in Skus, EditPage(s) PROVE RowsInv'
    <2>1. PICK c \in Contents : page' = [page EXCEPT ![s] = c] BY <1>1 DEF EditPage
    <2>2. page' \in Pages BY <2>1 DEF RowsInv, CatalogueTypeOK, Pages
    <2>3. lastmod' \in Sitemap BY <1>1 DEF EditPage, RowsInv, CatalogueTypeOK, Sitemap
    <2>4. since' \in [Jobs -> [Skus -> SUBSET (Contents \X Days)]]
      <3>1. <<page'[s], today>> \in Contents \X Days
          BY <2>2 DEF RowsInv, CatalogueTypeOK, Pages
      <3> DEFINE more(i) == [since[i] EXCEPT ![s] = @ \union {<<page'[s], today>>}]
      <3>2. \A i \in Jobs : more(i) \in [Skus -> SUBSET (Contents \X Days)]
          BY <3>1 DEF RowsInv, CatalogueTypeOK
      <3>3. since' = [i \in Jobs |-> IF Listed(i) THEN more(i) ELSE since[i]]
          BY <1>1 DEF EditPage
      <3> HIDE DEF more
      <3> QED BY <3>2, <3>3 DEF RowsInv, CatalogueTypeOK
    <2>5. edits' \in 0..MaxEdits BY <1>1 DEF EditPage, RowsInv, CatalogueTypeOK
    <2> QED BY <1>1, <2>2, <2>3, <2>4, <2>5
        DEF EditPage, RowsInv, CatalogueTypeOK, VectorMatchesHash, InTable, KnowsRows
  <1>2. ASSUME NEW s \in Skus, EditWine(s) PROVE RowsInv'
    <2>1. adobe' \in [Skus -> Wines \union {NoWine}]
        BY <1>2 DEF EditWine, RowsInv, CatalogueTypeOK
    <2>2. edits' \in 0..MaxEdits BY <1>2 DEF EditWine, RowsInv, CatalogueTypeOK
    <2> QED BY <1>2, <2>1, <2>2
        DEF EditWine, RowsInv, CatalogueTypeOK, VectorMatchesHash, InTable, KnowsRows, history
  <1>3. ASSUME NEW s \in Skus, CheckAvailability(s) PROVE RowsInv'
    <2> DEFINE new == [x \in {s} |-> Updated(product[x])]
    <2>1. s \in InTable /\ product[s] \in Row
        BY <1>3, InTableTyped DEF CheckAvailability, RowsInv
    <2>2. product' = [x \in InTable \union {s} |-> IF x \in {s} THEN new[x] ELSE product[x]]
        BY <1>3 DEF CheckAvailability, UpdateRows
    <2>3. new \in [{s} -> Row] /\ new[s].vector = new[s].hash
        BY <2>1, UpdatedTyped DEF RowsInv, VectorMatchesHash
    <2>4. product' \in Partial(Skus, Row) /\ VectorMatchesHash' /\ InTable \subseteq InTable'
        BY <2>2, <2>3, RowsWritten
    <2> QED BY <1>3, <2>4
        DEF CheckAvailability, RowsInv, CatalogueTypeOK, KnowsRows, site, counters, history
  <1>4. ASSUME NextDay PROVE RowsInv'
    <2>1. today' \in Days BY <1>4 DEF NextDay, RowsInv, CatalogueTypeOK, Days
    <2> QED BY <1>4, <2>1
        DEF NextDay, RowsInv, CatalogueTypeOK, VectorMatchesHash, InTable, KnowsRows, site, counters, history
  <1> QED BY <1>1, <1>2, <1>3, <1>4 DEF World

(* What a step of job j that is none of the world's leaves typed.              *)
LEMMA ScrapeKeeps ==
    ASSUME RowsInv, NEW j \in Jobs,
           Scrape(j) \/ ScrapeErrors(j) \/ ScrapeSitemap(j)
    PROVE  RowsInv'
  <1> USE CatalogueAssumption
  <1>j. job[j] \in Job BY DEF RowsInv, CatalogueTypeOK
  <1>u. /\ failures \in 0..MaxFailures /\ today \in Days
        /\ since \in [Jobs -> [Skus -> SUBSET (Contents \X Days)]] /\ scraped \in [Skus -> Days]
        /\ page \in Pages /\ lastmod \in Sitemap
      BY DEF RowsInv, CatalogueTypeOK
  <1>t. InTable \in SUBSET Skus /\ product \in [InTable -> Row]
      BY InTableTyped DEF RowsInv
  <1>p. At(j, "pages") => /\ job[j].seen \in Partial(Skus, State) /\ job[j].todo \in SUBSET Skus
                          /\ job[j].errors \in BOOLEAN
                          /\ job[j] = [pc |-> "pages", seen |-> job[j].seen,
                                       todo |-> job[j].todo, errors |-> job[j].errors]
      BY <1>j DEF At, Job, Idle
  <1>s. At(j, "save") => /\ job[j].seen \in Partial(Skus, State) /\ job[j].todo \in SUBSET Skus
                         /\ job[j].errors \in BOOLEAN
                         /\ job[j].sku \in Skus /\ job[j].content \in Contents
      BY <1>j DEF At, Job, Idle
  <1>1. CASE ScrapeSitemap(j)
    <2>1. [pc |-> "states", lastmod |-> lastmod] \in Job BY <1>u DEF Job
    <2>2. since' \in [Jobs -> [Skus -> SUBSET (Contents \X Days)]]
      <3>1. \A s \in Skus : <<page[s], lastmod[s]>> \in Contents \X Days
          BY <1>u DEF Pages, Sitemap
      <3>2. [s \in Skus |-> {<<page[s], lastmod[s]>>}] \in [Skus -> SUBSET (Contents \X Days)]
          BY <3>1
      <3> QED BY <1>1, <1>u, <3>2 DEF ScrapeSitemap
    <2> QED BY <1>1, <1>u, <2>1, <2>2, JobReads DEF KnowsRows, ScrapeSitemap, counters
  <1>2. CASE ScrapeStates(j)
    <2> DEFINE todo == {s \in Skus : NeedsScrape(s, job[j].lastmod[s], States)}
    <2>1. States \in Partial(Skus, State)
      <3>1. States \in [InTable -> State] BY <1>t DEF States, State, Row
      <3> QED BY <1>t, <3>1, PartialMade
    <2>2. todo \in SUBSET Skus OBVIOUS
    <2>3. [pc |-> "pages", seen |-> States, todo |-> todo, errors |-> FALSE] \in Job
        BY <2>1, <2>2, PagesJob
    <2>4. Become(j, [pc |-> "pages", seen |-> States, todo |-> todo, errors |-> FALSE])
        BY <1>2 DEF ScrapeStates, Become
    <2> QED BY <1>2, <1>u, <2>3, <2>4, JobReads DEF KnowsRows, ScrapeStates, counters, history
  <1>3. CASE \E s \in Skus : ScrapeFetch(j, s)
    <2>1. PICK s \in Skus : ScrapeFetch(j, s) BY <1>3
    <2> DEFINE less == [pc |-> "pages", seen |-> job[j].seen, todo |-> job[j].todo \ {s},
                        errors |-> job[j].errors]
               save == [pc |-> "save", seen |-> job[j].seen, errors |-> job[j].errors,
                        todo |-> job[j].todo \ {s}, sku |-> s, content |-> page[s]]
    <2>2. At(j, "pages") BY <2>1 DEF ScrapeFetch
    <2>3. less \in Job BY <2>2, <1>p, PagesJob
    <2>4. save \in Job
      <3>1. page[s] \in Contents BY <1>u DEF Pages
      <3> QED BY <2>2, <1>p, <3>1 DEF Job
    <2>5. [job[j] EXCEPT !.todo = @ \ {s}] = less BY <2>2, <1>p
    <2>6. Become(j, less) \/ Become(j, save) BY <2>1, <2>5 DEF ScrapeFetch
    <2>7. scraped' \in [Skus -> Days] BY <2>1, <1>u DEF ScrapeFetch
    <2> QED BY <2>1, <1>u, <2>3, <2>4, <2>6, <2>7, JobReads DEF KnowsRows, ScrapeFetch, counters
  <1>4. CASE \E s \in Skus : ScrapeFetchFails(j, s)
    <2>1. PICK s \in Skus : ScrapeFetchFails(j, s) BY <1>4
    <2> DEFINE new == [pc |-> "pages", seen |-> job[j].seen, todo |-> job[j].todo \ {s},
                       errors |-> TRUE]
    <2>2. At(j, "pages") BY <2>1 DEF ScrapeFetchFails
    <2>3. new \in Job BY <2>2, <1>p, PagesJob
    <2>4. [job[j] EXCEPT !.todo = @ \ {s}, !.errors = TRUE] = new
      <3> DEFINE old == [pc |-> "pages", seen |-> job[j].seen, todo |-> job[j].todo,
                         errors |-> job[j].errors]
             mid == [pc |-> "pages", seen |-> job[j].seen, todo |-> job[j].todo \ {s},
                     errors |-> job[j].errors]
      <3>1. [old EXCEPT !.todo = @ \ {s}] = mid OBVIOUS
      <3>2. [mid EXCEPT !.errors = TRUE] = new
        <4>1. ASSUME NEW b
              PROVE  [mid EXCEPT !.errors = b]
                       = [pc |-> "pages", seen |-> job[j].seen, todo |-> job[j].todo \ {s},
                          errors |-> b]
            OBVIOUS
        <4> HIDE DEF mid
        <4> QED BY <4>1, Zenon
      <3>3. job[j] = old BY <2>2, <1>p
      <3> HIDE DEF old, mid, new
      <3>4. [old EXCEPT !.todo = @ \ {s}, !.errors = TRUE]
              = [[old EXCEPT !.todo = @ \ {s}] EXCEPT !.errors = TRUE]
          BY Zenon
      <3> QED BY <3>1, <3>2, <3>3, <3>4
    <2>5. failures' \in 0..MaxFailures BY <2>1, <1>u DEF ScrapeFetchFails
    <2>6. Become(j, new) BY <2>1, <2>4 DEF ScrapeFetchFails
    <2> QED BY <2>1, <1>u, <2>3, <2>5, <2>6, JobReads DEF KnowsRows, ScrapeFetchFails, history
  <1>5. CASE ScrapeSave(j)
    <2> DEFINE s == job[j].sku
               first == [page |-> job[j].content, updated |-> today, wine |-> NoWine,
                         vector |-> NoHash, hash |-> NoHash]
               row == IF s \in InTable THEN [product[s] EXCEPT !.page = job[j].content]
                      ELSE first
               new == [x \in {s} |-> Updated(row)]
    <2>1. s \in Skus /\ job[j].content \in Contents BY <1>5, <1>s DEF ScrapeSave
    <2>2. row \in Row /\ row.vector = row.hash
      <3>1. CASE s \in InTable
        <4>1. product[s] \in Row /\ product[s].vector = product[s].hash
            BY <3>1, <1>t DEF RowsInv, VectorMatchesHash
        <4> QED BY <3>1, <4>1, <2>1 DEF Row
      <3>2. CASE s \notin InTable BY <3>2, <2>1, <1>u DEF Row
      <3> QED BY <3>1, <3>2
    <2>3. new \in [{s} -> Row] /\ new[s].vector = new[s].hash
        BY <2>2, UpdatedTyped DEF RowsInv
    <2>4. product' = [x \in InTable \union {s} |-> IF x \in {s} THEN new[x] ELSE product[x]]
        BY <1>5 DEF ScrapeSave, UpdateRows
    <2>5. product' \in Partial(Skus, Row) /\ VectorMatchesHash' /\ InTable \subseteq InTable'
        BY <2>1, <2>3, <2>4, RowsWritten
    <2>6. [pc |-> "pages", seen |-> job[j].seen, todo |-> job[j].todo,
           errors |-> job[j].errors] \in Job
        BY <1>5, <1>s, PagesJob DEF ScrapeSave
    <2> QED BY <1>5, <1>u, <2>5, <2>6, JobMoves DEF KnowsRows, ScrapeSave, counters, history
  <1>6. CASE ScrapeSaveFails(j)
    <2>1. [pc |-> "pages", seen |-> job[j].seen, todo |-> job[j].todo, errors |-> TRUE] \in Job
        BY <1>6, <1>s, PagesJob DEF ScrapeSaveFails
    <2>2. failures' \in 0..MaxFailures BY <1>6, <1>u DEF ScrapeSaveFails
    <2> QED BY <1>6, <1>u, <2>1, <2>2, JobReads DEF KnowsRows, ScrapeSaveFails, history
  <1>7. CASE ScrapeEnd(j)
    <2>1. PICK new \in Job : Become(j, new) /\ KnowsRows(new)
        BY <1>7, SmallJobs DEF ScrapeEnd, Then, KnowsRows, Idle
    <2>2. since' \in [Jobs -> [Skus -> SUBSET (Contents \X Days)]]
        BY <1>7, <1>u DEF ScrapeEnd, Forget
    <2> QED BY <1>7, <1>u, <2>1, <2>2, JobReads DEF KnowsRows, ScrapeEnd, counters
  <1> QED BY <1>1, <1>2, <1>3, <1>4, <1>5, <1>6, <1>7 DEF Scrape, ScrapeErrors

(* "enrich" writes only to the rows it read the skus of.                       *)
LEMMA EnrichKeeps ==
    ASSUME RowsInv, NEW j \in Jobs, Enrich(j) \/ EnrichStart(j)
    PROVE  RowsInv'
  <1> USE CatalogueAssumption
  <1>j. job[j] \in Job BY DEF RowsInv, CatalogueTypeOK
  <1>u. /\ failures \in 0..MaxFailures
        /\ since \in [Jobs -> [Skus -> SUBSET (Contents \X Days)]] /\ scraped \in [Skus -> Days]
        /\ adobe \in [Skus -> Wines \union {NoWine}]
      BY DEF RowsInv, CatalogueTypeOK
  <1>t. InTable \in SUBSET Skus /\ product \in [InTable -> Row]
      BY InTableTyped DEF RowsInv
  <1>c. At(j, "collect") => /\ job[j].known \in SUBSET Skus /\ job[j].todo \in SUBSET Skus
                            /\ job[j].wines \in Partial(Skus, Wines)
                            /\ job[j] = [pc |-> "collect", known |-> job[j].known,
                                         todo |-> job[j].todo, wines |-> job[j].wines]
      BY <1>j DEF At, Job, Idle
  <1>k. At(j, "collect") => job[j].known \subseteq InTable BY DEF At, RowsInv, KnowsRows
  <1>1. CASE EnrichStart(j)
      BY <1>1, <1>u, SmallJobs, JobReads DEF EnrichStart, KnowsRows, counters, history
  <1>2. CASE EnrichKnown(j)
    <2>1. <<>> \in Partial(Skus, Wines)
      <3>1. <<>> \in [{} -> Wines] OBVIOUS
      <3> QED BY <3>1, PartialMade
    <2>2. [pc |-> "collect", known |-> InTable, todo |-> Skus, wines |-> <<>>] \in Job
        BY <1>t, <2>1, CollectJob
    <2>3. PICK new \in Job : Become(j, new) /\ KnowsRows(new)
        BY <1>2, <2>2, SmallJobs DEF EnrichKnown, KnowsRows, Idle
    <2> QED BY <1>2, <1>u, <2>3, JobReads DEF EnrichKnown, counters, history
  <1>3. CASE \E s \in Skus : EnrichCollect(j, s)
    <2>1. PICK s \in Skus : EnrichCollect(j, s) BY <1>3
    <2> DEFINE more == IF HasAttributes(adobe[s]) THEN Extend(job[j].wines, s, adobe[s])
                       ELSE job[j].wines
               new == [pc |-> "collect", known |-> job[j].known, todo |-> job[j].todo \ {s},
                       wines |-> more]
    <2>2. At(j, "collect") BY <2>1 DEF EnrichCollect
    <2>3. more \in Partial(Skus, Wines)
      <3>1. CASE HasAttributes(adobe[s])
        <4> DEFINE D == DOMAIN job[j].wines
        <4>1. adobe[s] \in Wines BY <3>1, <1>u DEF HasAttributes
        <4>2. D \in SUBSET Skus /\ job[j].wines \in [D -> Wines] BY <2>2, <1>c, PartialUsed
        <4>3. Extend(job[j].wines, s, adobe[s]) \in [D \union {s} -> Wines]
            BY <4>1, <4>2 DEF Extend
        <4>4. D \union {s} \in SUBSET Skus BY <4>2
        <4> QED BY <3>1, <4>3, <4>4, PartialMade
      <3>2. CASE ~HasAttributes(adobe[s]) BY <3>2, <2>2, <1>c
      <3> QED BY <3>1, <3>2
    <2>4. new \in Job
      <3>1. job[j].todo \ {s} \in SUBSET Skus BY <2>2, <1>c
      <3> QED BY <2>2, <1>c, <2>3, <3>1, CollectJob
    <2>5. Become(j, new)
      <3>1. Become(j, [job[j] EXCEPT !.todo = @ \ {s}, !.wines = more])
          BY <2>1 DEF EnrichCollect
      <3> DEFINE old == [pc |-> "collect", known |-> job[j].known, todo |-> job[j].todo,
                         wines |-> job[j].wines]
             mid == [pc |-> "collect", known |-> job[j].known, todo |-> job[j].todo \ {s},
                     wines |-> job[j].wines]
      <3>2. [old EXCEPT !.todo = @ \ {s}] = mid OBVIOUS
      <3> HIDE DEF more
      <3>3. [mid EXCEPT !.wines = more] = new OBVIOUS
      <3>4. job[j] = old BY <2>2, <1>c
      <3> HIDE DEF old, mid, new
      <3>5. [old EXCEPT !.todo = @ \ {s}, !.wines = more]
              = [[old EXCEPT !.todo = @ \ {s}] EXCEPT !.wines = more]
          BY Zenon
      <3> QED BY <3>1, <3>2, <3>3, <3>4, <3>5
    <2>6. KnowsRows(new) BY <2>2, <1>k DEF KnowsRows
    <2> QED BY <2>1, <1>u, <2>4, <2>5, <2>6, JobReads DEF EnrichCollect, counters, history
  <1>4. CASE EnrichWrite(j)
    <2> DEFINE known == job[j].known \intersect DOMAIN job[j].wines
               row(s) == [product[s] EXCEPT !.wine = job[j].wines[s]]
               new == [s \in known |-> Updated(row(s))]
    <2>1. /\ At(j, "collect") /\ Then(j, "new")
          /\ product' = [s \in InTable \union known |-> IF s \in known THEN new[s]
                                                        ELSE product[s]]
          /\ UNCHANGED <<today, site, counters, history>>
        BY <1>4 DEF EnrichWrite, UpdateRows
    <2>2. known \in SUBSET Skus /\ known \subseteq InTable BY <2>1, <1>c, <1>k
    <2>3. ASSUME NEW s \in known PROVE new[s] \in Row /\ new[s].vector = new[s].hash
      <3>1. product[s] \in Row /\ product[s].vector = product[s].hash
          BY <2>2, <1>t DEF RowsInv, VectorMatchesHash
      <3>2. job[j].wines[s] \in Wines BY <2>1, <1>c, PartialUsed
      <3>3. row(s) \in Row /\ row(s).vector = row(s).hash BY <3>1, <3>2 DEF Row
      <3> QED BY <3>3, UpdatedTyped DEF RowsInv
    <2>4. new \in [known -> Row]
      <3> HIDE DEF row
      <3> QED BY <2>3
    <2>5. product' \in Partial(Skus, Row) /\ VectorMatchesHash' /\ InTable \subseteq InTable'
      <3> HIDE DEF new, known
      <3> QED BY <2>1, <2>2, <2>3, <2>4, RowsWritten
    <2>6. PICK to \in Job : Become(j, to) /\ KnowsRows(to)
        BY <2>1, SmallJobs DEF Then, KnowsRows, Idle
    <2> QED BY <2>1, <1>u, <2>5, <2>6, JobMoves DEF counters, history
  <1> QED BY <1>1, <1>2, <1>3, <1>4 DEF Enrich

(* "embed" stores each vector with the hash of the text it sent.               *)
LEMMA EmbedKeeps ==
    ASSUME RowsInv, NEW j \in Jobs, Embed(j) \/ EmbedStart(j)
    PROVE  RowsInv'
  <1> USE CatalogueAssumption
  <1>j. job[j] \in Job BY DEF RowsInv, CatalogueTypeOK
  <1>u. /\ failures \in 0..MaxFailures
        /\ since \in [Jobs -> [Skus -> SUBSET (Contents \X Days)]] /\ scraped \in [Skus -> Days]
      BY DEF RowsInv, CatalogueTypeOK
  <1>t. InTable \in SUBSET Skus /\ product \in [InTable -> Row]
      BY InTableTyped DEF RowsInv
  <1>d. At(j, "existing") \/ At(j, "embed") =>
          job[j].dirty \in Partial(Skus, Texts) /\ DOMAIN job[j].dirty \subseteq InTable
      BY <1>j DEF At, Job, Idle, RowsInv, KnowsRows
  <1>1. CASE EmbedStart(j)
      BY <1>1, <1>u, SmallJobs, JobReads DEF EmbedStart, KnowsRows, counters, history
  <1>2. CASE EmbedReadNew(j)
    <2> DEFINE fresh == {s \in InTable : product[s].hash = NoHash}
               dirty == [s \in fresh |-> Text(product[s])]
               new == [pc |-> "existing", dirty |-> dirty]
    <2>1. dirty \in [fresh -> Texts] BY <1>t, TextTyped
    <2>2. fresh \in SUBSET Skus BY <1>t
    <2>3. dirty \in Partial(Skus, Texts) BY <2>1, <2>2, PartialMade
    <2>4. new \in Job /\ KnowsRows(new) BY <2>3, EmbedJob DEF KnowsRows
    <2>5. Become(j, new) BY <1>2 DEF EmbedReadNew
    <2> QED BY <1>2, <1>u, <2>4, <2>5, JobReads DEF EmbedReadNew, counters, history
  <1>3. CASE EmbedReadExisting(j)
    <2> DEFINE old == {s \in InTable : Dirty(s)}
               both == old \union DOMAIN job[j].dirty
               dirty == [s \in both |-> IF s \in old THEN Text(product[s]) ELSE job[j].dirty[s]]
               new == [pc |-> "embed", dirty |-> dirty]
    <2>1. At(j, "existing") /\ Become(j, new) BY <1>3 DEF EmbedReadExisting
    <2>2. both \in SUBSET Skus /\ both \subseteq InTable BY <2>1, <1>t, <1>d
    <2>3. job[j].dirty \in [DOMAIN job[j].dirty -> Texts] BY <2>1, <1>d, PartialUsed
    <2>4. dirty \in [both -> Texts] BY <1>t, <2>3, TextTyped
    <2>5. dirty \in Partial(Skus, Texts) BY <2>2, <2>4, PartialMade
    <2>6. new \in Job /\ KnowsRows(new) BY <2>2, <2>5, EmbedJob DEF KnowsRows
    <2> QED BY <1>3, <1>u, <2>1, <2>6, JobReads DEF EmbedReadExisting, counters, history
  <1>4. CASE EmbedWrite(j)
    <2> DEFINE some == {s \in DOMAIN job[j].dirty : ~IsBlank(job[j].dirty[s])}
               row(s) == [product[s] EXCEPT !.vector = job[j].dirty[s], !.hash = HashRead(j, s)]
               new == [s \in some |-> Updated(row(s))]
    <2>1. /\ At(j, "embed") /\ Become(j, Idle)
          /\ product' = [s \in InTable \union some |-> IF s \in some THEN new[s]
                                                       ELSE product[s]]
          /\ UNCHANGED <<today, site, counters, history>>
        BY <1>4 DEF EmbedWrite, UpdateRows
    <2>2. some \in SUBSET Skus /\ some \subseteq InTable BY <2>1, <1>d, <1>t
    <2>3. ASSUME NEW s \in some PROVE new[s] \in Row /\ new[s].vector = new[s].hash
      <3>1. product[s] \in Row BY <2>2, <1>t
      <3>2. job[j].dirty[s] \in Texts
        <4>1. job[j].dirty \in [DOMAIN job[j].dirty -> Texts] BY <2>1, <1>d, PartialUsed
        <4>2. s \in DOMAIN job[j].dirty OBVIOUS
        <4> HIDE DEF some
        <4> QED BY <4>1, <4>2
      <3> DEFINE half == [product[s] EXCEPT !.vector = job[j].dirty[s]]
      <3>3. row(s) = [half EXCEPT !.hash = job[j].dirty[s]] BY Zenon DEF HashRead
      <3>4. half \in Row /\ half.vector = job[j].dirty[s] BY <3>1, <3>2 DEF Row
      <3> HIDE DEF half
      <3>5. row(s) \in Row /\ row(s).vector = row(s).hash BY <3>2, <3>3, <3>4 DEF Row
      <3> QED BY <3>5, UpdatedTyped DEF RowsInv
    <2>4. new \in [some -> Row]
      <3> HIDE DEF row
      <3> QED BY <2>3
    <2>5. product' \in Partial(Skus, Row) /\ VectorMatchesHash' /\ InTable \subseteq InTable'
      <3> HIDE DEF new, some
      <3> QED BY <2>1, <2>2, <2>3, <2>4, RowsWritten
    <2>6. Idle \in Job /\ KnowsRows(Idle) BY SmallJobs DEF KnowsRows, Idle
    <2> QED BY <2>1, <1>u, <2>5, <2>6, JobMoves DEF counters, history
  <1> QED BY <1>1, <1>2, <1>3, <1>4 DEF Embed

(* A job that dies leaves the rows as they are.                                *)
LEMMA FailKeeps ==
    ASSUME RowsInv, NEW j \in Jobs, JobFails(j)
    PROVE  RowsInv'
  <1> USE CatalogueAssumption
  <1>1. failures' \in 0..MaxFailures /\ since' \in [Jobs -> [Skus -> SUBSET (Contents \X Days)]]
      BY DEF JobFails, Forget, RowsInv, CatalogueTypeOK
  <1>2. Idle \in Job /\ KnowsRows(Idle) BY SmallJobs DEF KnowsRows, Idle
  <1> QED BY <1>1, <1>2, JobReads DEF JobFails, RowsInv, CatalogueTypeOK

-----------------------------------------------------------------------------
(* The invariant the two theorems below are read from.                         *)
THEOREM RowsInvariant == CatalogueSpec => []RowsInv
  <1>1. RowsInv /\ [CatalogueNext]_catalogueVars => RowsInv'
    <2> SUFFICES ASSUME RowsInv, [CatalogueNext]_catalogueVars PROVE RowsInv' OBVIOUS
    <2>1. CASE World BY <2>1, WorldKeeps
    <2>2. ASSUME NEW j \in Jobs,
                 \/ ScrapeSitemap(j) \/ EnrichStart(j) \/ EmbedStart(j)
                 \/ Run(j) \/ ScrapeErrors(j) \/ JobFails(j)
          PROVE  RowsInv'
        BY <2>2, ScrapeKeeps, EnrichKeeps, EmbedKeeps, FailKeeps DEF Run
    <2>3. CASE UNCHANGED catalogueVars
        BY <2>3 DEF catalogueVars, site, counters, history, RowsInv, CatalogueTypeOK,
                    VectorMatchesHash, InTable, KnowsRows
    <2> QED BY <2>1, <2>2, <2>3 DEF CatalogueNext
  <1> QED BY RowsInit, <1>1, PTL DEF CatalogueSpec

(* The rows, the jobs and the site keep their types: what a command writes it  *)
(* has collected, and only to rows it has seen in the table.                   *)
THEOREM CatalogueTypeCorrect == CatalogueSpec => []CatalogueTypeOK
  <1>1. RowsInv => CatalogueTypeOK BY DEF RowsInv
  <1> QED BY <1>1, RowsInvariant, PTL

(* The hash beside a vector is that of the text it was computed from, whatever *)
(* runs interleave and wherever they die: no row is outdated unseen.           *)
THEOREM VectorsMatch == CatalogueSpec => []VectorMatchesHash
  <1>1. RowsInv => VectorMatchesHash BY DEF RowsInv
  <1> QED BY <1>1, RowsInvariant, PTL
-----------------------------------------------------------------------------
(* What a scrape may miss.                                                     *)

(* The row was written on the day of a sitemap of the run's, or later.         *)
Late(j, s) == \E was \in since[j][s] : product[s].updated >= was[2]

(* The page said this during the run.                                          *)
Read(j, s, c) == \E was \in since[j][s] : was[1] = c

(* What the run has read is no older than its sitemap: a row of its snapshot   *)
(* has the page read then, or was written since, as its day shows; and a row   *)
(* passed over or done with has a page of the run's time, or was written late. *)
ScrapeInv(j) ==
    /\ Listed(j) => \A s \in Skus :
          /\ Read(j, s, page[s])
          /\ \A was \in since[j][s] : was[2] <= today
    /\ At(j, "states") => \A s \in Skus : \E was \in since[j][s] : was[2] = job[j].lastmod[s]
    /\ job[j].pc \in {"pages", "save"} => \A s \in DOMAIN job[j].seen :
          s \in InTable /\ (product[s].page = job[j].seen[s].page \/ Late(j, s))
    /\ job[j].pc \in {"pages", "save"} /\ ~job[j].errors => \A s \in Skus \ Undated :
          \/ s \in job[j].todo
          \/ At(j, "save") /\ s = job[j].sku
          \/ s \in InTable /\ (Read(j, s, product[s].page) \/ Late(j, s))
    /\ At(j, "save") => Read(j, job[j].sku, job[j].content)

MissedInv ==
    /\ RowsInv
    /\ \A s \in Skus : lastmod[s] <= today
    /\ \A j \in Jobs : ScrapeInv(j)

(* Whoever writes a row moves its day to today.                                *)
Grows == \A s \in InTable :
            s \in InTable' /\ (product'[s] = product[s] \/ product'[s].updated = today)

LEMMA DayMoved ==
    ASSUME NEW r \in Row, NEW w
    PROVE  /\ Updated(r).updated = today
           /\ Updated([r EXCEPT !.wine = w]).updated = today
           /\ Updated([r EXCEPT !.page = w]).updated = today
  BY DEF Row, Updated

LEMMA DayMovedByEmbed ==
    ASSUME NEW r \in Row, NEW v, NEW h
    PROVE  Updated([r EXCEPT !.vector = v, !.hash = h]).updated = today
  <1> DEFINE q == [r EXCEPT !.vector = v, !.hash = h]
  <1>1. "updated" \in DOMAIN q BY DEF Row
  <1> HIDE DEF q
  <1>2. Updated(q).updated = today BY <1>1 DEF Updated
  <1> QED BY <1>2 DEF q

LEMMA StepsGrow == RowsInv /\ [CatalogueNext]_catalogueVars => Grows
  <1> SUFFICES ASSUME RowsInv, [CatalogueNext]_catalogueVars PROVE Grows OBVIOUS
  <1>t. InTable \in SUBSET Skus /\ product \in [InTable -> Row]
      BY InTableTyped DEF RowsInv
  <1>0. CASE UNCHANGED product BY <1>0 DEF Grows, InTable
  <1>1. ASSUME NEW s \in Skus, CheckAvailability(s) PROVE Grows
    <2>1. product' = [x \in InTable \union {s} |-> IF x \in {s} THEN Updated(product[x])
                                                   ELSE product[x]]
        BY <1>1 DEF CheckAvailability, UpdateRows
    <2> QED BY <2>1, <1>t, DayMoved DEF Grows, InTable
  <1>2. ASSUME NEW j \in Jobs, ScrapeSave(j) PROVE Grows
    <2> DEFINE s == job[j].sku
    <2>1. PICK new : product' = [x \in InTable \union {s} |->
                        IF x \in {s} THEN Updated(IF s \in InTable
                                                  THEN [product[s] EXCEPT !.page = job[j].content]
                                                  ELSE new)
                        ELSE product[x]]
        BY <1>2 DEF ScrapeSave, UpdateRows
    <2> QED BY <2>1, <1>t, DayMoved DEF Grows, InTable
  <1>3. ASSUME NEW j \in Jobs, EnrichWrite(j) PROVE Grows
    <2> DEFINE known == job[j].known \intersect DOMAIN job[j].wines
    <2>1. product' = [x \in InTable \union known |->
                        IF x \in known THEN Updated([product[x] EXCEPT !.wine = job[j].wines[x]])
                        ELSE product[x]]
        BY <1>3 DEF EnrichWrite, UpdateRows
    <2> QED BY <2>1, <1>t, DayMoved DEF Grows, InTable
  <1>4. ASSUME NEW j \in Jobs, EmbedWrite(j) PROVE Grows
    <2> DEFINE some == {s \in DOMAIN job[j].dirty : ~IsBlank(job[j].dirty[s])}
               row(x) == Updated([product[x] EXCEPT !.vector = job[j].dirty[x],
                                                    !.hash = HashRead(j, x)])
    <2>1. product' = [x \in InTable \union some |-> IF x \in some THEN row(x) ELSE product[x]]
        BY <1>4 DEF EmbedWrite, UpdateRows
    <2>2. \A x \in InTable : row(x).updated = today BY <1>t, DayMovedByEmbed
    <2> HIDE DEF row, some
    <2> QED BY <2>1, <2>2 DEF Grows, InTable
  <1>5. CASE World
      BY <1>5, <1>0, <1>1 DEF World, EditPage, EditWine, NextDay
  <1>6. ASSUME NEW j \in Jobs,
               \/ ScrapeSitemap(j) \/ EnrichStart(j) \/ EmbedStart(j)
               \/ Run(j) \/ ScrapeErrors(j) \/ JobFails(j)
        PROVE  Grows
      BY <1>6, <1>0, <1>2, <1>3, <1>4
         DEF ScrapeSitemap, EnrichStart, EmbedStart, Run, Scrape, ScrapeErrors, JobFails, Enrich,
             Embed, ScrapeStates, ScrapeEnd, ScrapeFetch, ScrapeSaveFails, ScrapeFetchFails,
             EnrichKnown, EnrichCollect, EmbedReadNew, EmbedReadExisting
  <1> QED BY <1>0, <1>5, <1>6 DEF CatalogueNext, catalogueVars

(* What a run has heard stays, and covers what the site says now.              *)
Hears(j) == \A s \in Skus :
    /\ since[j][s] \subseteq since'[j][s]
    /\ Read(j, s, page[s])'
    /\ \A was \in since'[j][s] : was[2] <= today'

(* A row written late stays so, whoever writes it again.                       *)
LEMMA LateStays ==
    ASSUME RowsInv, RowsInv', Grows, NEW j \in Jobs, NEW s \in InTable,
           \A was \in since[j][s] : was[2] <= today, since[j][s] \subseteq since'[j][s],
           since[j][s] # {}
    PROVE  /\ s \in InTable'
           /\ Late(j, s) => Late(j, s)'
           /\ product'[s] = product[s] \/ Late(j, s)'
  <1>1. s \in InTable' /\ (product'[s] = product[s] \/ product'[s].updated = today)
      BY DEF Grows
  <1>2. \A was \in since[j][s] : product'[s].updated = today => product'[s].updated >= was[2]
      BY DEF RowsInv
  <1> QED BY <1>1, <1>2 DEF Late

(* A job that rests is as good as it was, whatever the others and the world do.*)
LEMMA RestKeeps ==
    ASSUME RowsInv, RowsInv', Grows, NEW j \in Jobs, ScrapeInv(j),
           job'[j] = job[j], Listed(j) => Hears(j)
    PROVE  ScrapeInv(j)'
  <1>1. CASE ~Listed(j) BY <1>1 DEF Listed, ScrapeInv, At
  <1>2. CASE Listed(j)
    <2>1. Hears(j) BY <1>2
    <2>2. \A s \in Skus : since[j][s] # {} /\ \A was \in since[j][s] : was[2] <= today
        BY <1>2 DEF ScrapeInv, Read
    <2>3. InTable \subseteq Skus BY InTableTyped DEF RowsInv
    <2>4. \A s \in InTable : /\ s \in InTable'
                             /\ Late(j, s) => Late(j, s)'
                             /\ product'[s] = product[s] \/ Late(j, s)'
        BY <2>1, <2>2, <2>3, LateStays DEF Hears
    <2>5. ASSUME NEW s \in Skus, NEW c PROVE Read(j, s, c) => Read(j, s, c)'
        BY <2>1 DEF Hears, Read
    <2>6. ASSUME At(j, "states"), NEW s \in Skus
          PROVE  \E was \in since'[j][s] : was[2] = job[j].lastmod[s]
        BY <2>1, <2>6 DEF ScrapeInv, Hears
    <2>7. ASSUME job[j].pc \in {"pages", "save"}, NEW s \in DOMAIN job[j].seen
          PROVE  s \in InTable' /\ (product'[s].page = job[j].seen[s].page \/ Late(j, s)')
        BY <2>4, <2>7 DEF ScrapeInv
    <2>8. ASSUME job[j].pc \in {"pages", "save"}, ~job[j].errors, NEW s \in Skus \ Undated
          PROVE  \/ s \in job[j].todo
                 \/ At(j, "save") /\ s = job[j].sku
                 \/ s \in InTable' /\ (Read(j, s, product[s].page)' \/ Late(j, s)')
      <3>1. CASE s \in InTable /\ Late(j, s) BY <3>1, <2>4
      <3>2. CASE s \in InTable /\ Read(j, s, product[s].page)
        <4>1. Read(j, s, product[s].page)' \/ Late(j, s)'
          <5>1. CASE product'[s] = product[s]
              BY <5>1, <3>2, <2>1 DEF Hears, Read
          <5> QED BY <5>1, <3>2, <2>4
        <4> QED BY <4>1, <3>2, <2>4
      <3> QED BY <2>8, <3>1, <3>2 DEF ScrapeInv
    <2>9. At(j, "save") => Read(j, job[j].sku, job[j].content)'
      <3>1. At(j, "save") => job[j].sku \in Skus BY DEF RowsInv, CatalogueTypeOK, Job, Idle, At
      <3> QED BY <3>1, <2>1 DEF ScrapeInv, Read, Hears
    <2> QED BY <2>1, <2>6, <2>7, <2>8, <2>9 DEF ScrapeInv, Hears, At
  <1> QED BY <1>1, <1>2
(* What no step of the run itself but the first changes.                       *)
LEMMA OwnHears ==
    ASSUME RowsInv, NEW j \in Jobs, ScrapeInv(j), Listed(j), UNCHANGED <<today, site, since>>
    PROVE  /\ Hears(j)
           /\ \A s \in Skus : since[j][s] # {}
           /\ \A s \in Skus : \A was \in since[j][s] : was[2] <= today
  BY DEF ScrapeInv, Hears, Read, site

(* A run that goes on, having passed over or done with no sku it did not have   *)
(* reason to.                                                                  *)
LEMMA RunGoesOn ==
    ASSUME RowsInv, RowsInv', Grows, NEW j \in Jobs, ScrapeInv(j),
           job[j].pc \in {"pages", "save"}, job'[j].pc \in {"pages", "save"},
           UNCHANGED <<today, site, since>>,
           job'[j].seen = job[j].seen,
           ~job'[j].errors => ~job[j].errors,
           ~job'[j].errors => \A s \in Skus \ Undated :
              \/ s \in job'[j].todo
              \/ At(j, "save")' /\ s = job'[j].sku
              \/ s \in InTable' /\ (Read(j, s, product[s].page)' \/ Late(j, s)')
              \/ s \notin job[j].todo /\ ~(At(j, "save") /\ s = job[j].sku),
           At(j, "save")' => job'[j].sku \in Skus /\ job'[j].content = page[job'[j].sku]
    PROVE  ScrapeInv(j)'
  <1>1. Listed(j) /\ Listed(j)' BY DEF Listed
  <1>2. /\ Hears(j)
        /\ \A s \in Skus : since[j][s] # {}
        /\ \A s \in Skus : \A was \in since[j][s] : was[2] <= today
      BY <1>1, OwnHears
  <1>3. InTable \subseteq Skus BY InTableTyped DEF RowsInv
  <1>4. \A s \in InTable : /\ s \in InTable'
                           /\ Late(j, s) => Late(j, s)'
                           /\ product'[s] = product[s] \/ Late(j, s)'
      BY <1>2, <1>3, LateStays DEF Hears
  <1>5. \A s \in DOMAIN job'[j].seen :
           s \in InTable' /\ (product'[s].page = job'[j].seen[s].page \/ Late(j, s)')
      BY <1>4 DEF ScrapeInv
  <1>6. ASSUME ~job'[j].errors, NEW s \in Skus \ Undated
        PROVE  \/ s \in job'[j].todo
               \/ At(j, "save")' /\ s = job'[j].sku
               \/ s \in InTable' /\ (Read(j, s, product[s].page)' \/ Late(j, s)')
    <2>1. CASE s \in InTable /\ Late(j, s) BY <2>1, <1>4
    <2>2. CASE s \in InTable /\ Read(j, s, product[s].page)
      <3>1. CASE product'[s] = product[s]
          BY <3>1, <2>2, <1>4 DEF Read
      <3> QED BY <3>1, <2>2, <1>4
    <2> QED BY <1>6, <2>1, <2>2 DEF ScrapeInv
  <1>7. At(j, "save")' => Read(j, job[j].sku, job[j].content)'
      BY <1>2 DEF Hears, Read, site
  <1>8. At(j, "states")' => FALSE BY DEF At
  <1> QED BY <1>1, <1>2, <1>5, <1>6, <1>7, <1>8 DEF ScrapeInv, Hears

LEMMA OwnSteps ==
    ASSUME MissedInv, RowsInv', Grows, NEW j \in Jobs,
           ScrapeSitemap(j) \/ Scrape(j) \/ ScrapeErrors(j)
    PROVE  ScrapeInv(j)'
  <1>t. /\ job[j] \in Job /\ job \in [Jobs -> Job] /\ today \in Days /\ page \in Pages
        /\ since \in [Jobs -> [Skus -> SUBSET (Contents \X Days)]] /\ lastmod \in Sitemap
      BY DEF MissedInv, RowsInv, CatalogueTypeOK
  <1>i. ScrapeInv(j) /\ RowsInv /\ \A s \in Skus : lastmod[s] <= today BY DEF MissedInv
  <1>r. InTable \in SUBSET Skus /\ product \in [InTable -> Row]
      BY <1>i, InTableTyped DEF RowsInv
  <1>p. At(j, "pages") => job[j] = [pc |-> "pages", seen |-> job[j].seen, todo |-> job[j].todo,
                                    errors |-> job[j].errors]
      BY <1>t DEF At, Job, Idle
  <1>s. At(j, "save") => job[j].sku \in Skus
      BY <1>t DEF At, Job, Idle
  <1>1. CASE ScrapeSitemap(j)
    <2>1. job'[j] = [pc |-> "states", lastmod |-> lastmod]
        BY <1>1, <1>t DEF ScrapeSitemap, Become
    <2>2. \A s \in Skus : since'[j][s] = {<<page[s], lastmod[s]>>}
        BY <1>1, <1>t DEF ScrapeSitemap
    <2>3. UNCHANGED <<today, site>> BY <1>1 DEF ScrapeSitemap
    <2>4. \A s \in Skus : /\ \E was \in since'[j][s] : was[1] = page[s]
                          /\ \E was \in since'[j][s] : was[2] = lastmod[s]
                          /\ \A was \in since'[j][s] : was[2] <= today
      <3> SUFFICES ASSUME NEW s \in Skus
                   PROVE  /\ \E was \in since'[j][s] : was[1] = page[s]
                          /\ \E was \in since'[j][s] : was[2] = lastmod[s]
                          /\ \A was \in since'[j][s] : was[2] <= today
          OBVIOUS
      <3>1. PICK now : now = <<page[s], lastmod[s]>> OBVIOUS
      <3>2. now[1] = page[s] /\ now[2] = lastmod[s] BY <3>1
      <3>3. since'[j][s] = {now} /\ lastmod[s] <= today BY <2>2, <3>1, <1>i
      <3> QED BY <3>2, <3>3
    <2>5. \A s \in Skus : Read(j, s, page[s])' BY <2>3, <2>4 DEF Read, site
    <2> QED BY <2>1, <2>3, <2>4, <2>5 DEF ScrapeInv, At, Listed
  <1>2. CASE ScrapeStates(j)
    <2> DEFINE todo == {s \in Skus : NeedsScrape(s, job[j].lastmod[s], States)}
    <2>1. /\ At(j, "states") /\ UNCHANGED <<today, site, product, since>>
          /\ job'[j] = [pc |-> "pages", seen |-> States, errors |-> FALSE, todo |-> todo]
        BY <1>2, <1>t DEF ScrapeStates, Become, history
    <2>2. \A s \in InTable :
             States[s].page = product[s].page /\ States[s].updated = product[s].updated
        BY DEF States
    <2>3. DOMAIN States = InTable BY DEF States
    <2>4. ASSUME NEW s \in Skus \ Undated, s \notin todo PROVE s \in InTable /\ Late(j, s)
      <3>1. s \in InTable /\ ~(job[j].lastmod[s] > product[s].updated)
          BY <2>4, <2>2, <2>3 DEF NeedsScrape
      <3>2. PICK was \in since[j][s] : was[2] = job[j].lastmod[s]
          BY <2>1, <1>i DEF ScrapeInv
      <3>3. product[s].updated \in Nat /\ was[2] \in Nat
          BY <1>t, <1>r, <3>1 DEF Row, Days
      <3> QED BY <3>1, <3>2, <3>3 DEF Late
    <2> HIDE DEF todo
    <2>5. Listed(j) BY <2>1 DEF Listed, At
    <2> QED BY <2>1, <2>2, <2>3, <2>4, <2>5, <1>i DEF ScrapeInv, At, Read, Late, InTable, site
  <1>3. ASSUME NEW s \in Skus, ScrapeFetch(j, s) PROVE ScrapeInv(j)'
    <2>1. /\ At(j, "pages") /\ UNCHANGED <<today, site, product, since>>
        BY <1>3 DEF ScrapeFetch
    <2>2. Listed(j) BY <2>1 DEF Listed, At
    <2>3. CASE Unchanged(j, s)
      <3> DEFINE new == [pc |-> "pages", seen |-> job[j].seen, todo |-> job[j].todo \ {s},
                         errors |-> job[j].errors]
      <3>1. job'[j] = new
        <4>1. job'[j] = [job[j] EXCEPT !.todo = @ \ {s}]
            BY <1>3, <2>3, <1>t DEF ScrapeFetch, Become
        <4> QED BY <4>1, <2>1, <1>p
      <3>2. s \in InTable' /\ (Read(j, s, product[s].page)' \/ Late(j, s)')
          BY <2>1, <2>2, <2>3, <1>i
             DEF ScrapeInv, Unchanged, At, Read, Late, InTable, site
      <3>3. /\ job'[j].pc = "pages" /\ job'[j].seen = job[j].seen
            /\ job'[j].errors = job[j].errors /\ job'[j].todo = job[j].todo \ {s}
          BY <3>1
      <3> QED BY <2>1, <3>2, <3>3, <1>i, RunGoesOn DEF At
    <2>4. CASE ~Unchanged(j, s)
      <3>1. job'[j] = [pc |-> "save", seen |-> job[j].seen, errors |-> job[j].errors,
                       todo |-> job[j].todo \ {s}, sku |-> s, content |-> page[s]]
          BY <1>3, <2>4, <1>t DEF ScrapeFetch, Become
      <3>2. /\ job'[j].pc = "save" /\ job'[j].seen = job[j].seen
            /\ job'[j].errors = job[j].errors /\ job'[j].todo = job[j].todo \ {s}
            /\ job'[j].sku = s /\ job'[j].content = page[s]
          BY <3>1
      <3> QED BY <2>1, <3>2, <1>i, RunGoesOn DEF At
    <2> QED BY <2>3, <2>4
  <1>4. ASSUME NEW s \in Skus, ScrapeFetchFails(j, s) PROVE ScrapeInv(j)'
    <2>1. /\ At(j, "pages") /\ UNCHANGED <<today, site, product, since>>
          /\ job'[j] = [job[j] EXCEPT !.todo = @ \ {s}, !.errors = TRUE]
        BY <1>4, <1>t DEF ScrapeFetchFails, Become, history
    <2>2. job'[j].pc = "pages" /\ job'[j].seen = job[j].seen /\ job'[j].errors
      <3>1. \A q : q = [pc |-> "pages", seen |-> job[j].seen, todo |-> job[j].todo,
                        errors |-> job[j].errors] =>
               LET r == [q EXCEPT !.todo = @ \ {s}, !.errors = TRUE]
               IN  r.pc = "pages" /\ r.seen = job[j].seen /\ r.errors
          OBVIOUS
      <3> QED BY <2>1, <1>p, <3>1
    <2> QED BY <2>1, <2>2, <1>i, RunGoesOn DEF At
  <1>5. CASE ScrapeSave(j)
    <2>0. PICK s : s = job[j].sku OBVIOUS
    <2>1. /\ At(j, "save") /\ UNCHANGED <<today, site, since>>
          /\ job'[j] = [pc |-> "pages", seen |-> job[j].seen, todo |-> job[j].todo,
                        errors |-> job[j].errors]
        BY <1>5, <1>t DEF ScrapeSave, Become, history
    <2>2. s \in Skus BY <2>0, <2>1, <1>s
    <2>3. s \in InTable' /\ product'[s].updated = today
      <3>1. PICK new : /\ new = [page |-> job[j].content, updated |-> today, wine |-> NoWine,
                                 vector |-> NoHash, hash |-> NoHash]
                       /\ product' = [x \in InTable \union {s} |->
                            IF x \in {s} THEN Updated(IF s \in InTable
                                                      THEN [product[s] EXCEPT !.page = job[j].content]
                                                      ELSE new)
                            ELSE product[x]]
          BY <1>5, <2>0 DEF ScrapeSave, UpdateRows
      <3>2. Updated(new).updated = today BY <3>1 DEF Updated
      <3>3. s \in InTable => Updated([product[s] EXCEPT !.page = job[j].content]).updated = today
          BY <1>r, DayMoved
      <3> QED BY <3>1, <3>2, <3>3 DEF InTable
    <2>4. Listed(j) BY <2>1 DEF Listed, At
    <2>5. Late(j, s)'
      <3>1. PICK was \in since[j][s] : was[2] <= today
          BY <2>2, <2>4, <1>i DEF ScrapeInv, Read
      <3>2. was[2] \in Nat /\ today \in Nat BY <1>t, <2>2 DEF Days
      <3> QED BY <2>1, <2>3, <3>1, <3>2 DEF Late
    <2>6. /\ job'[j].pc = "pages" /\ job'[j].seen = job[j].seen
          /\ job'[j].errors = job[j].errors /\ job'[j].todo = job[j].todo
        BY <2>1
    <2>7. \A x \in Skus \ Undated :
             \/ x \in InTable' /\ (Read(j, x, product[x].page)' \/ Late(j, x)')
             \/ x # s
        BY <2>3, <2>5
    <2> QED BY <2>0, <2>1, <2>6, <2>7, <1>i, RunGoesOn DEF At
  <1>6. CASE ScrapeSaveFails(j)
    <2>1. /\ At(j, "save") /\ UNCHANGED <<today, site, product, since>>
          /\ job'[j] = [pc |-> "pages", seen |-> job[j].seen, todo |-> job[j].todo,
                        errors |-> TRUE]
        BY <1>6, <1>t DEF ScrapeSaveFails, Become, history
    <2>2. job'[j].pc = "pages" /\ job'[j].seen = job[j].seen /\ job'[j].errors
        BY <2>1
    <2> QED BY <2>1, <2>2, <1>i, RunGoesOn DEF At
  <1>7. CASE ScrapeEnd(j)
    <2>1. job'[j].pc \in {"known", "idle"}
        BY <1>7, <1>t DEF ScrapeEnd, Then, Become, Idle
    <2> QED BY <2>1 DEF ScrapeInv, Listed, At
  <1> QED BY <1>1, <1>2, <1>3, <1>4, <1>5, <1>6, <1>7 DEF Scrape, ScrapeErrors

(* Steps of "enrich" and "embed", and a failure, leave the job out of "scrape". *)
LEMMA OtherSteps ==
    ASSUME MissedInv, NEW j \in Jobs,
           EnrichStart(j) \/ EmbedStart(j) \/ Enrich(j) \/ Embed(j) \/ JobFails(j)
    PROVE  ScrapeInv(j)' /\ UNCHANGED <<today, site>> /\ \A i \in Jobs \ {j} : since'[i] = since[i]
  <1>1. job \in [Jobs -> Job] /\ since \in [Jobs -> [Skus -> SUBSET (Contents \X Days)]]
      BY DEF MissedInv, RowsInv, CatalogueTypeOK
  <1>2. job'[j].pc \notin {"states", "pages", "save"}
    <2>1. ASSUME NEW s \in Skus, EnrichCollect(j, s) PROVE job'[j].pc = "collect"
      <3>1. job[j] \in Job /\ job[j].pc = "collect" BY <1>1, <2>1 DEF EnrichCollect, At
      <3>2. "pc" \in DOMAIN job[j] BY <3>1 DEF Job, Idle
      <3>3. PICK w : job'[j] = [job[j] EXCEPT !.todo = @ \ {s}, !.wines = w]
          BY <2>1, <1>1 DEF EnrichCollect, Become
      <3>4. [job[j] EXCEPT !.todo = @ \ {s}, !.wines = w].pc = job[j].pc
          BY <3>2
      <3> QED BY <3>1, <3>3, <3>4
    <2> QED BY <1>1, <2>1
        DEF EnrichStart, EmbedStart, Enrich, Embed, JobFails, EnrichKnown, EnrichWrite, Then,
            EmbedReadNew, EmbedReadExisting, EmbedWrite, Become, Idle
  <1>3. UNCHANGED <<today, site>> /\ \A i \in Jobs \ {j} : since'[i] = since[i]
      BY <1>1 DEF EnrichStart, EmbedStart, Enrich, Embed, JobFails, EnrichKnown, EnrichWrite,
            EnrichCollect, EmbedReadNew, EmbedReadExisting, EmbedWrite, Forget, history
  <1> QED BY <1>2, <1>3 DEF ScrapeInv, Listed, At

LEMMA MissedNext ==
    ASSUME MissedInv, RowsInv', CatalogueNext PROVE MissedInv'
  <1>g. Grows /\ RowsInv BY StepsGrow DEF MissedInv
  <1>t. /\ job \in [Jobs -> Job] /\ today \in Days /\ page \in Pages /\ lastmod \in Sitemap
        /\ since \in [Jobs -> [Skus -> SUBSET (Contents \X Days)]]
      BY <1>g DEF RowsInv, CatalogueTypeOK
  <1>h. ASSUME NEW i \in Jobs, job'[i] = job[i],
               Listed(i) => /\ \A s \in Skus : since[i][s] \subseteq since'[i][s]
                            /\ \A s \in Skus : Read(i, s, page[s])'
                            /\ \A s \in Skus : \A was \in since'[i][s] : was[2] <= today'
        PROVE  ScrapeInv(i)'
    <2>1. Listed(i) => Hears(i) BY <1>h DEF Hears
    <2> QED BY <1>h, <1>g, <2>1, RestKeeps DEF MissedInv
  <1>q. ASSUME NEW i \in Jobs, Listed(i)
        PROVE  \A s \in Skus : Read(i, s, page[s]) /\ \A was \in since[i][s] : was[2] <= today
      BY <1>q DEF MissedInv, ScrapeInv
  <1>1. ASSUME NEW j \in Jobs,
               \/ ScrapeSitemap(j) \/ EnrichStart(j) \/ EmbedStart(j)
               \/ Run(j) \/ ScrapeErrors(j) \/ JobFails(j)
        PROVE  MissedInv'
    <2>1. UNCHANGED <<today, site>> /\ \A i \in Jobs \ {j} : since'[i] = since[i]
      <3>1. CASE EnrichStart(j) \/ EmbedStart(j) \/ Enrich(j) \/ Embed(j) \/ JobFails(j)
          BY <3>1, OtherSteps
      <3>2. CASE ScrapeSitemap(j) \/ Scrape(j) \/ ScrapeErrors(j)
          BY <3>2, <1>t DEF ScrapeSitemap, Scrape, ScrapeErrors, ScrapeStates, ScrapeSave,
             ScrapeEnd, ScrapeFetch, ScrapeSaveFails, ScrapeFetchFails, Forget, history
      <3> QED BY <1>1, <3>1, <3>2 DEF Run
    <2>2. ScrapeInv(j)' BY <1>1, <1>g, OwnSteps, OtherSteps DEF Run
    <2>3. \A i \in Jobs \ {j} : job'[i] = job[i]
        BY <1>1, <1>t DEF ScrapeSitemap, EnrichStart, EmbedStart, Run, Scrape, ScrapeErrors,
           JobFails, Enrich, Embed, ScrapeStates, ScrapeSave, ScrapeEnd, ScrapeFetch,
           ScrapeSaveFails, ScrapeFetchFails, EnrichKnown, EnrichWrite, EnrichCollect,
           EmbedReadNew, EmbedReadExisting, EmbedWrite, Then, Become
    <2>4. ASSUME NEW i \in Jobs \ {j} PROVE ScrapeInv(i)'
        BY <2>1, <2>3, <1>h, <1>q DEF Read, site
    <2> QED BY <2>1, <2>2, <2>4 DEF MissedInv, site
  <1>2. ASSUME NEW s \in Skus, EditPage(s) PROVE MissedInv'
    <2> DEFINE what == <<page'[s], today>>
    <2>1. \A i \in Jobs, x \in Skus : Listed(i) =>
             since'[i][x] = IF x = s THEN since[i][x] \union {what} ELSE since[i][x]
      <3>1. since' = [i \in Jobs |->
                        IF Listed(i) THEN [since[i] EXCEPT ![s] = @ \union {what}] ELSE since[i]]
          BY <1>2 DEF EditPage
      <3> HIDE DEF what
      <3> QED BY <3>1, <1>t
    <2>2. \A x \in Skus \ {s} : page'[x] = page[x] BY <1>2, <1>t DEF EditPage, Pages
    <2>3. today' = today /\ job' = job BY <1>2 DEF EditPage
    <2>4. \A x \in Skus : lastmod'[x] <= today'
        BY <1>2, <1>t DEF EditPage, MissedInv, Sitemap, Days
    <2>5. today <= today BY <1>t DEF Days
    <2>6. ASSUME NEW i \in Jobs, Listed(i), NEW x \in Skus
          PROVE  /\ since[i][x] \subseteq since'[i][x] /\ Read(i, x, page[x])'
                 /\ \A was \in since'[i][x] : was[2] <= today'
      <3>1. CASE x = s
        <4>1. since'[i][x] = since[i][x] \union {<<page'[x], today>>} BY <2>1, <2>6, <3>1
        <4>2. /\ <<page'[x], today>>[1] = page'[x] /\ <<page'[x], today>>[2] = today
              /\ <<page'[x], today>> \in since'[i][x]
            BY <4>1
        <4>3. Read(i, x, page[x])' BY <4>2 DEF Read
        <4>4. ASSUME NEW was \in since'[i][x] PROVE was[2] <= today
            BY <4>1, <4>2, <2>5, <2>6, <1>q
        <4> QED BY <4>1, <4>3, <4>4, <2>3
      <3>2. CASE x # s
        <4>1. since'[i][x] = since[i][x] /\ page'[x] = page[x] BY <2>1, <2>2, <2>6, <3>2
        <4> QED BY <4>1, <2>3, <2>6, <1>q DEF Read
      <3> QED BY <3>1, <3>2
    <2>7. ASSUME NEW i \in Jobs PROVE ScrapeInv(i)'
        BY <2>3, <2>6, <1>h
    <2> QED BY <2>4, <2>7 DEF MissedInv
  <1>3. CASE NextDay
    <2>1. today' >= today /\ UNCHANGED <<site, job, since>> /\ today' \in Nat
        BY <1>3, <1>t DEF NextDay, history, Days
    <2>2. \A i \in Jobs, x \in Skus : \A was \in since[i][x] : was[2] \in Nat
        BY <1>t DEF Days
    <2>3. ASSUME NEW i \in Jobs PROVE ScrapeInv(i)'
      <3>1. ASSUME Listed(i), NEW x \in Skus, NEW was \in since[i][x] PROVE was[2] <= today'
          BY <3>1, <2>1, <2>2, <1>q, <1>t DEF Days
      <3>2. Listed(i) => \A x \in Skus : Read(i, x, page[x])'
          BY <2>1, <1>q DEF Read, site
      <3> QED BY <3>1, <3>2, <2>1, <1>h
    <2>4. \A x \in Skus : lastmod'[x] <= today'
        BY <2>1, <1>t DEF MissedInv, site, Sitemap, Days
    <2> QED BY <2>3, <2>4 DEF MissedInv
  <1>4. ASSUME NEW s \in Skus, EditWine(s) \/ CheckAvailability(s) PROVE MissedInv'
    <2>1. UNCHANGED <<today, page, lastmod, job, since>>
        BY <1>4 DEF EditWine, CheckAvailability, site, history
    <2>2. ASSUME NEW i \in Jobs PROVE ScrapeInv(i)'
        BY <2>1, <1>h, <1>q DEF Read
    <2> QED BY <2>1, <2>2 DEF MissedInv
  <1> QED BY <1>1, <1>2, <1>3, <1>4 DEF CatalogueNext, World

(* A run that ends without error has missed nothing but pages of rows that     *)
(* were written on the day of the change or later.                             *)
THEOREM MissesExplained == CatalogueSpec => MissedExplained
  <1> DEFINE Explained == \A j \in Jobs : (ScrapeEnd(j) /\ ExitOK(job[j].errors)) =>
         \A s \in Skus \ Undated :
            /\ s \in InTable
            /\ \E was \in since[j][s] : product[s].page = was[1] \/ product[s].updated >= was[2]
  <1>1. CatalogueInit => MissedInv
    <2>1. CatalogueInit => \A s \in Skus : lastmod[s] <= today BY DEF CatalogueInit
    <2> QED BY <2>1, RowsInit DEF MissedInv, CatalogueInit, ScrapeInv, Listed, At, Idle
  <1>2. MissedInv /\ RowsInv' /\ [CatalogueNext]_catalogueVars => MissedInv'
    <2>1. MissedInv /\ RowsInv' /\ UNCHANGED catalogueVars => MissedInv'
        BY DEF catalogueVars, site, history, MissedInv, ScrapeInv, Listed, At, Read, Late, InTable
    <2> QED BY <2>1, MissedNext
  <1>3. MissedInv => Explained
    <2> SUFFICES ASSUME MissedInv, NEW j \in Jobs, ScrapeEnd(j), ExitOK(job[j].errors),
                        NEW s \in Skus \ Undated
                 PROVE  /\ s \in InTable
                        /\ \E was \in since[j][s] :
                              product[s].page = was[1] \/ product[s].updated >= was[2]
        OBVIOUS
    <2> QED BY DEF MissedInv, ScrapeInv, ScrapeEnd, ExitOK, At, Read, Late
  <1>4. MissedInv /\ [CatalogueNext]_catalogueVars => [Explained]_catalogueVars
      BY <1>3
  <1> HIDE DEF Explained
  <1>5. CatalogueSpec => [][Explained]_catalogueVars
      BY <1>1, <1>2, <1>4, RowsInvariant, PTL DEF CatalogueSpec
  <1> QED BY <1>5 DEF Explained, MissedExplained
=============================================================================
