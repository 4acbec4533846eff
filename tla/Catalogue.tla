----------------------------- MODULE Catalogue -----------------------------
(***************************************************************************)
(* The product rows as the scraper's commands keep them: "scrape" copies   *)
(* the pages the sitemap says have changed, "enrich" adds what Adobe knows *)
(* of the wine, "embed" computes the vector the recommendations search,    *)
(* and "availability" touches the row every night. A systemd unit runs the *)
(* first three once a week, one after the other as long as each exits 0;   *)
(* an operator may run any of them by hand at the same time. They share    *)
(* nothing but the table, and one column, updated_at, that every one of    *)
(* them moves and the first one reads as "last scraped".                   *)
(***************************************************************************)
EXTENDS Naturals, FiniteSets

CONSTANTS
    Skus,
    Undated,      \* the skus whose sitemap entry has no lastmod
    Contents,     \* what a product page can say
    Blank,        \* the content without any field that is embedded
    Wines,        \* sets of attributes Adobe can hold for a wine
    Weekly,       \* the job of the systemd unit
    Manual,       \* jobs started by hand
    MaxDay,       \* bound: the days of the calendar
    MaxEdits,     \* bound: changes made by the SAQ
    MaxFailures   \* bound: errors of any kind

ASSUME CatalogueAssumption ==
    /\ Undated \subseteq Skus
    /\ Blank \in Contents
    /\ Weekly \notin Manual
    /\ MaxDay \in Nat /\ MaxEdits \in Nat /\ MaxFailures \in Nat

Jobs == Manual \union {Weekly}
Days == 0..MaxDay
Pages == [Skus -> Contents]      \* as parse_product reads them
Sitemap == [Skus -> Days]        \* the lastmod of each entry
NoWine == "no attributes"
NoHash == <<>>
Idle == [pc |-> "idle"]

VARIABLES
    today,
    page,         \* per sku, what its page says
    lastmod,      \* per sku, the day the sitemap gives
    adobe,        \* per sku, what Adobe knows of the wine
    product,      \* rows of products, by sku
    job,
    edits, failures,
    \* history, read by no action
    since,        \* per job, what each page said, and the sitemap of it, since it was read
    scraped       \* per sku, the day of its last download

site == <<page, lastmod, adobe>>
counters == <<edits, failures>>
history == <<since, scraped>>
catalogueVars == <<today, site, product, job, counters, history>>

(* The composite text: two sources, the page and Adobe; "" when neither has *)
(* a field of it. *)
Text(r) == <<r.page, r.wine>>
IsBlank(text) == text = <<Blank, NoWine>>

Texts == Contents \X (Wines \union {NoWine})
Row == [page: Contents, updated: Days, wine: Wines \union {NoWine},
        vector: Texts \union {NoHash}, hash: Texts \union {NoHash}]
State == [updated: Days, page: Contents]
Partial(S, T) == UNION {[D -> T] : D \in SUBSET S}

Job == {Idle}
    \union [pc: {"states"}, lastmod: Sitemap]
    \union [pc: {"pages"}, seen: Partial(Skus, State), todo: SUBSET Skus, errors: BOOLEAN]
    \union [pc: {"save"}, seen: Partial(Skus, State), todo: SUBSET Skus, errors: BOOLEAN,
            sku: Skus, content: Contents]
    \union [pc: {"known", "new"}]
    \union [pc: {"collect"}, known: SUBSET Skus, todo: SUBSET Skus,
            wines: Partial(Skus, Wines)]
    \union [pc: {"existing", "embed"}, dirty: Partial(Skus, Texts)]

CatalogueTypeOK ==
    /\ today \in Days
    /\ page \in Pages /\ lastmod \in Sitemap
    /\ adobe \in [Skus -> Wines \union {NoWine}]
    /\ product \in Partial(Skus, Row)
    /\ job \in [Jobs -> Job]
    /\ edits \in 0..MaxEdits /\ failures \in 0..MaxFailures
    /\ since \in [Jobs -> [Skus -> SUBSET (Contents \X Days)]]
    /\ scraped \in [Skus -> Days]

CatalogueInit ==
    /\ today = 0 /\ lastmod = [s \in Skus |-> 0]
    /\ page \in Pages /\ adobe \in [Skus -> Wines \union {NoWine}]
    /\ product = <<>>
    /\ job = [j \in Jobs |-> Idle]
    /\ edits = 0 /\ failures = 0
    /\ since = [j \in Jobs |-> [s \in Skus |-> {}]]
    /\ scraped = [s \in Skus |-> 0]

-----------------------------------------------------------------------------
At(j, pc) == job[j].pc = pc
Listed(j) == job[j].pc \in {"states", "pages", "save"}
Forget(j) == since' = [since EXCEPT ![j] = [s \in Skus |-> {}]]
Become(j, new) == job' = [job EXCEPT ![j] = new]
InTable == DOMAIN product

(* The unit's next command, when this one exits 0; a manual run ends. *)
Then(j, pc) == Become(j, IF j = Weekly THEN [pc |-> pc] ELSE Idle)

(* Every UPDATE moves updated_at, whichever columns it writes. *)
Updated(r) == [r EXCEPT !.updated = today]
UpdateRows(S, New(_)) ==
    product' = [s \in InTable \union S |-> IF s \in S THEN Updated(New(s)) ELSE product[s]]

Extend(f, s, v) == [x \in DOMAIN f \union {s} |-> IF x = s THEN v ELSE f[x]]

-----------------------------------------------------------------------------
(* The SAQ's site, Adobe's catalogue, the clock. *)

EditPage(s) ==
    /\ edits < MaxEdits /\ edits' = edits + 1
    /\ \E c \in Contents \ {page[s]} : page' = [page EXCEPT ![s] = c]
    /\ lastmod' = [lastmod EXCEPT ![s] = today]
    /\ since' = [j \in Jobs |->
                   IF Listed(j) THEN [since[j] EXCEPT ![s] = @ \union {<<page'[s], today>>}]
                   ELSE since[j]]
    /\ UNCHANGED <<today, adobe, product, job, failures, scraped>>

EditWine(s) ==
    /\ edits < MaxEdits /\ edits' = edits + 1
    /\ \E w \in (Wines \union {NoWine}) \ {adobe[s]} : adobe' = [adobe EXCEPT ![s] = w]
    /\ UNCHANGED <<today, page, lastmod, product, job, failures, history>>

NextDay ==
    /\ today < MaxDay /\ today' = today + 1
    /\ UNCHANGED <<site, product, job, counters, history>>

(* The nightly check writes its columns of the rows Adobe listed. *)
CheckAvailability(s) ==
    /\ s \in InTable
    /\ UpdateRows({s}, LAMBDA x : product[x])
    /\ UNCHANGED <<today, site, job, counters, history>>

-----------------------------------------------------------------------------
(* scrape *)

ScrapeSitemap(j) ==
    /\ At(j, "idle")
    /\ Become(j, [pc |-> "states", lastmod |-> lastmod])
    /\ since' = [since EXCEPT ![j] = [s \in Skus |-> {<<page[s], lastmod[s]>>}]]
    /\ UNCHANGED <<today, site, product, counters, scraped>>

(* Mutant: a day of grace. *)
NeedsScrapeLate(s, day, seen) ==
    \/ s \in Undated \/ s \notin DOMAIN seen
    \/ s \in DOMAIN seen /\ day > seen[s].updated + 1

NeedsScrape(s, day, seen) ==
    \/ s \in Undated
    \/ s \notin DOMAIN seen
    \/ s \in DOMAIN seen /\ day > seen[s].updated

States == [s \in InTable |-> [updated |-> product[s].updated, page |-> product[s].page]]

ScrapeStates(j) ==
    /\ At(j, "states")
    /\ Become(j, [pc |-> "pages", seen |-> States, errors |-> FALSE,
                  todo |-> {s \in Skus : NeedsScrape(s, job[j].lastmod[s], States)}])
    /\ UNCHANGED <<today, site, product, counters, history>>

(* The page is downloaded and parsed. If its hash is the one in the snapshot *)
(* of the start nothing is written, not even updated_at. *)
Unchanged(j, s) == s \in DOMAIN job[j].seen /\ job[j].seen[s].page = page[s]

ScrapeFetch(j, s) ==
    /\ At(j, "pages") /\ s \in job[j].todo
    /\ Become(j, IF Unchanged(j, s)
                 THEN [job[j] EXCEPT !.todo = @ \ {s}]
                 ELSE [pc |-> "save", seen |-> job[j].seen, errors |-> job[j].errors,
                       todo |-> job[j].todo \ {s}, sku |-> s, content |-> page[s]])
    /\ scraped' = [scraped EXCEPT ![s] = today]
    /\ UNCHANGED <<today, site, product, counters, since>>

(* A page that cannot be had is counted, and the run goes on. (A page that is  *)
(* no more, a 404, is not: the pages of this model stay where they are.)       *)
ScrapeFetchFails(j, s) ==
    /\ At(j, "pages") /\ s \in job[j].todo
    /\ failures < MaxFailures /\ failures' = failures + 1
    /\ Become(j, [job[j] EXCEPT !.todo = @ \ {s}, !.errors = TRUE])
    /\ UNCHANGED <<today, site, product, edits, history>>

(* INSERT ... ON CONFLICT: the columns of the page, none of the others. *)
ScrapeSave(j) ==
    /\ At(j, "save")
    /\ LET s == job[j].sku
           new == [page |-> job[j].content, updated |-> today, wine |-> NoWine,
                   vector |-> NoHash, hash |-> NoHash]
       IN  UpdateRows({s}, LAMBDA x : IF s \in InTable
                                      THEN [product[s] EXCEPT !.page = job[j].content]
                                      ELSE new)
    /\ Become(j, [pc |-> "pages", seen |-> job[j].seen, todo |-> job[j].todo,
                  errors |-> job[j].errors])
    /\ UNCHANGED <<today, site, counters, history>>

ScrapeSaveFails(j) ==
    /\ At(j, "save")
    /\ failures < MaxFailures /\ failures' = failures + 1
    /\ Become(j, [pc |-> "pages", seen |-> job[j].seen, todo |-> job[j].todo,
                  errors |-> TRUE])
    /\ UNCHANGED <<today, site, product, edits, history>>

(* EXIT_PARTIAL and EXIT_FATAL are both failures to the unit. *)
ExitOK(errors) == ~errors

ScrapeEnd(j) ==
    /\ At(j, "pages") /\ job[j].todo = {}
    /\ IF ExitOK(job[j].errors) THEN Then(j, "known") ELSE Become(j, Idle)
    /\ Forget(j)
    /\ UNCHANGED <<today, site, product, counters, scraped>>

-----------------------------------------------------------------------------
(* enrich: WineEnrichment has the paging of Adobe's answers. *)

EnrichStart(j) ==
    /\ At(j, "idle") /\ j # Weekly
    /\ Become(j, [pc |-> "known"])
    /\ UNCHANGED <<today, site, product, counters, history>>

EnrichKnown(j) ==
    /\ At(j, "known")
    /\ Become(j, IF InTable = {} THEN Idle      \* EXIT_FATAL
                 ELSE [pc |-> "collect", known |-> InTable, todo |-> Skus, wines |-> <<>>])
    /\ UNCHANGED <<today, site, product, counters, history>>

(* What Adobe lists without attributes is not kept. *)
(* Mutant: it is, as a row of nulls. *)
Anything(w) == TRUE
HasAttributes(w) == w # NoWine

EnrichCollect(j, s) ==
    /\ At(j, "collect") /\ s \in job[j].todo
    /\ Become(j, [job[j] EXCEPT !.todo = @ \ {s},
                                !.wines = IF HasAttributes(adobe[s])
                                          THEN Extend(@, s, adobe[s]) ELSE @])
    /\ UNCHANGED <<today, site, product, counters, history>>

EnrichWrite(j) ==
    /\ At(j, "collect") /\ job[j].todo = {}
    /\ LET known == job[j].known \intersect DOMAIN job[j].wines
       IN  UpdateRows(known, LAMBDA s : [product[s] EXCEPT !.wine = job[j].wines[s]])
    /\ Then(j, "new")
    /\ UNCHANGED <<today, site, counters, history>>

-----------------------------------------------------------------------------
(* embed *)

EmbedStart(j) ==
    /\ At(j, "idle") /\ j # Weekly
    /\ Become(j, [pc |-> "new"])
    /\ UNCHANGED <<today, site, product, counters, history>>

(* Two queries: the rows never embedded, then those whose hash has moved. *)
EmbedReadNew(j) ==
    /\ At(j, "new")
    /\ LET new == {s \in InTable : product[s].hash = NoHash}
       IN  Become(j, [pc |-> "existing", dirty |-> [s \in new |-> Text(product[s])]])
    /\ UNCHANGED <<today, site, product, counters, history>>

(* Mutant: the hash leaves out what Adobe gives. *)
DirtyByPage(s) ==
    product[s].hash # NoHash /\ product[s].hash[1] # product[s].page
Dirty(s) == product[s].hash # NoHash /\ product[s].hash # Text(product[s])

EmbedReadExisting(j) ==
    /\ At(j, "existing")
    /\ LET old == {s \in InTable : Dirty(s)}
           both == old \union DOMAIN job[j].dirty
       IN  Become(j, [pc |-> "embed",
                      dirty |-> [s \in both |-> IF s \in old THEN Text(product[s])
                                                ELSE job[j].dirty[s]]])
    /\ UNCHANGED <<today, site, product, counters, history>>

(* Mutant: the hash is computed when the vector is stored. *)
HashAtWrite(j, s) == Text(product[s])
HashRead(j, s) == job[j].dirty[s]

EmbedWrite(j) ==
    /\ At(j, "embed")
    /\ LET some == {s \in DOMAIN job[j].dirty : ~IsBlank(job[j].dirty[s])}
       IN  UpdateRows(some, LAMBDA s : [product[s] EXCEPT !.vector = job[j].dirty[s],
                                                          !.hash = HashRead(j, s)])
    /\ Become(j, Idle)
    /\ UNCHANGED <<today, site, counters, history>>

(* Any command may end early: the sitemap, Adobe, OpenAI or the database does *)
(* not answer, the container is stopped. The unit stops with it. *)
JobFails(j) ==
    /\ ~At(j, "idle")
    /\ failures < MaxFailures /\ failures' = failures + 1
    /\ Become(j, Idle) /\ Forget(j)
    /\ UNCHANGED <<today, site, product, edits, scraped>>

-----------------------------------------------------------------------------
World == \/ \E s \in Skus : EditPage(s) \/ EditWine(s) \/ CheckAvailability(s)
         \/ NextDay

Scrape(j) ==
    \/ ScrapeStates(j) \/ ScrapeSave(j) \/ ScrapeEnd(j)
    \/ \E s \in Skus : ScrapeFetch(j, s)
ScrapeErrors(j) == ScrapeSaveFails(j) \/ \E s \in Skus : ScrapeFetchFails(j, s)
Enrich(j) == EnrichKnown(j) \/ EnrichWrite(j) \/ \E s \in Skus : EnrichCollect(j, s)
Embed(j) == EmbedReadNew(j) \/ EmbedReadExisting(j) \/ EmbedWrite(j)

Run(j) == Scrape(j) \/ Enrich(j) \/ Embed(j)

CatalogueNext ==
    \/ World
    \/ \E j \in Jobs : \/ ScrapeSitemap(j) \/ EnrichStart(j) \/ EmbedStart(j)
                       \/ Run(j) \/ ScrapeErrors(j) \/ JobFails(j)

(* The timer starts the unit again and again, and a command that runs goes on. *)
CatalogueFairness ==
    /\ WF_catalogueVars(ScrapeSitemap(Weekly))
    /\ \A j \in Jobs : WF_catalogueVars(Run(j))

CatalogueSpec == CatalogueInit /\ [][CatalogueNext]_catalogueVars /\ CatalogueFairness

-----------------------------------------------------------------------------
(* What a run that ends well may have missed: a page whose row does not say   *)
(* what the page said at some time since the sitemap was read was written to, *)
(* by whatever command, on the day the sitemap then gave or later.            *)
(* (_needs_scrape compares days, with a column every command moves.)          *)
MissedExplained ==
    [][\A j \in Jobs : (ScrapeEnd(j) /\ ExitOK(job[j].errors)) =>
         \A s \in Skus \ Undated :
            /\ s \in InTable
            /\ \E was \in since[j][s] : product[s].page = was[1] \/ product[s].updated >= was[2]
       ]_catalogueVars

(* The hash beside a vector is the hash of the text the vector was computed   *)
(* from, however enrichments, scrapes and other embeds interleave with the    *)
(* call to OpenAI: an outdated vector is always recognised as such.           *)
VectorMatchesHash ==
    \A s \in InTable : product[s].vector = product[s].hash

(* Once the SAQ and the network are quiet, every wine is                       *)
(* in the table with the attributes Adobe has for it and with the vector of   *)
(* what the row says: no interleaving of runs leaves a row outdated for good. *)
Settled(s) ==
    /\ s \in InTable
    /\ adobe[s] # NoWine => product[s].wine = adobe[s]
    /\ ~IsBlank(Text(product[s])) => product[s].vector = Text(product[s])
CatalogueHeals == \A s \in Skus : <>[]Settled(s)

(* What the comment on the filter says: products skipped are those unchanged  *)
(* since the last scrape. A page modified on a later day than its last        *)
(* download is not skipped.                                                   *)
SkippedUnchanged ==
    [][\A j \in Jobs : ScrapeStates(j) =>
         \A s \in Skus : job[j].lastmod[s] > scraped[s] => s \in job'[j].todo]_catalogueVars
=============================================================================
