# Coupette: TLA+ models and proofs

Coupette watches the catalogue of the SAQ (Québec's wine monopoly): scrapers fill a PostgreSQL
database, a FastAPI backend serves a React front end and a Telegram bot, and the bot tells users
when a wine they watch comes back, sells out or leaves the catalogue. This directory holds TLA+
specifications of the parts of it that keep state, TLC configurations that check them on small
instances, and TLAPS proofs of the main results for every instance.

    tlc -config MCStockAlerts.cfg StockAlerts        # any run of PROJECT.json
    tlapm StockAlertsProofs.tla                      # any module of proofs

All paths below are relative to `src/`.

## 1. Inventory

Every process is its own service or timer (`docker-compose`, systemd units in `deploy/`); they share
nothing but the database. Sessions run at READ COMMITTED, a scraper command commits after each
database call, a backend request commits once, when its `get_db` dependency is torn down.

| Component | State | Operations | Talks to | Hard behaviour | What makes it correct |
|---|---|---|---|---|---|
| **Stock-alert outbox** (`backend/{api,services,repositories}/watches.py`, `stores.py`, `scraper/db/events.py`) | `watches`, `user_store_preferences`, `stock_events` (`processed_at`) | create/delete watch, add/remove store, insert event, pending query, ack, purge | scraper inserts, bot drains | two queries per fetch, row limit against event ack, ack deletes watches, commit after the answer | no alert acknowledged unsent, no needless repeat, every alert sent some day |
| **Bot poller** (`bot/handlers/notifications.py`) | the batch in memory | fetch, group, send, ack, loop until empty | notification endpoints, Telegram | restart mid-batch, timeouts, late acks | as above; the loop ends |
| **Scrape command** (`scraper/commands/scrape.py`, `products.py`, `sitemap.py`) | `products` rows, `content_hash`, `delisted_at` | sitemap, incremental filter, upsert, delist scan, relist, purge | outbox, availability command | killed between marking and announcing; runs beside users, bot and the other commands | flags match the sitemap; every loss announced |
| **Availability command** (`scraper/commands/availability.py`, `db/availability.py`) | `online_availability`, `store_availability` | bulk update, clear stale, diff, events, purge | Adobe Live Search, outbox | diff reads after the write; races the scrape; empty answers | columns equal the answer; no false alarm; transitions seen |
| **Adobe client, enrichment** (`adobe.py`, `commands/enrich.py`) | none / attribute columns | paginate to the 10 000 cap, partition when it is hit | Adobe | cap, retries, partial partitions | union of partitions covers the market |
| **Embedding sync** (`commands/embed.py`, `embed.py`) | `embedding`, `last_embedded_hash` | select stale, embed in batches, write | OpenAI, scrape | fields change between read and write | the next run heals |
| **Stores, seed** (`commands/stores.py`, `stores.py`, `seed.py`, `db/`) | `stores`, seed rows | read the directory by pages, upsert; seed an empty database | SAQ directory | the directory moves between two pages; a crash half-way | every store that stayed is written; seeded in full or not at all |
| **OAuth login** (`services/auth.py`, `api/auth.py`, `redis_client.py`) | `users`, `oauth_accounts`, Redis state and exchange codes with TTL | login, callback, exchange, dev login | GitHub, Google, Redis | concurrent callbacks, commit before the code is stored, single use | one user per email, a code gives one token, only approved people get in |
| **Users, accounts, admin** (`api/users.py`, `api/admin.py`, `repositories/users.py`) | `users.is_active`, `telegram_id`, `oauth_accounts` | link/unlink Telegram, disconnect provider, deactivate, delete | login, bot gate, outbox | check-then-act in concurrent requests; rows keyed by strings | never locked out; nothing of a deleted user remains |
| **Waitlist** (`api/waitlist.py`, `repositories/waitlist.py`, `services/email.py`) | `waitlist_requests` | request, approve, resend, reject | email, login | email before commit, failure swallowed | nobody approved silently for ever |
| **Cellar** (`services/cellar.py`) | `cellar_entries.quantity` | add (atomic, capped at 999), set, remove | | read-modify-write beside an atomic add; answers sent before the commit | takes effect in one step or not at all, as it was answered |
| **Tastings** (`services/tastings.py`) | `tasting_notes` | create, update, delete with ownership | | two screens edit one note | edits merge field by field |
| **Chat** (`services/chat.py`) | `chat_sessions`, `chat_messages` | create, rename, send, list, delete | recommendations | concurrent sends read the same history; deletion during the LLM's seconds | turns are whole; a wine comes back only from overlapping sends |
| **Recommendations** (`services/recommendations.py`, `intent.py`, `sommelier.py`, `curation.py`) | `recommendation_logs` | intent, vector search, rerank, log | LLM, pgvector | LLM failures; log failure swallowed | result is a diverse subset |
| **Catalogue API** (`api/products.py`) | none | count and page, facets, one product | the front end's pages | offset paging with ties, writes in between | turning all pages shows each product once |
| **Bot gates and commands** (`bot/middleware.py`, `handlers/*.py`) | access cache, call window | gate, limit, watch, unwatch, toggle store | backend | stale positive answers, double taps | at most N calls per window |
| **Front end** (`frontend/`), **schema** (`core/`), **deployment** (`deploy/`) | | paging; tables and keys; timers | | | |

The alert path (scraper, outbox, bot) is the program's own core: it is the only one on which three
processes act on the same rows at the same time, and where an error is silent, since nobody notices a
message that was not sent. It is modelled first and in full.

## 2. Modules

| Module | Models | State |
|---|---|---|
| `StockAlerts` | outbox, notification endpoints, bot poller | below |
| `AlertDelivery` | the abstract promise it implements | who is concerned, owed, held, alerted |
| `AlertPipeline` (EXTENDS `StockAlerts`) | the scrape command's delist scan, composed with the outbox and the bot | `catalog`, `scan` |
| `AvailabilityCheck` (EXTENDS `StockAlerts`) | the daily availability command, composed with the outbox and a concurrent scrape | `catalog`, `avail`, `check` |
| `Accounts` | sign-in, waitlist, linked accounts, deactivation, deletion | below |
| `Catalogue` | the weekly unit (scrape, enrich, embed), commands by hand, the availability job, on the product rows | `product`, `job`, the site |
| `WineEnrichment` | the enrichment's searches and partitions against a catalogue that moves | Adobe, `column`, the run |
| `EnrichmentRun` | the abstract run it implements | |
| `StoreDirectory` | the stores command and the seed | `directory`, `stores`, `skus` |
| `Conversations` | chat sessions, messages, recommendation log | below |
| `Rerank` | the greedy choice among the wines found | `candidates`, `selected` |
| `Cellar` | one entry under concurrent requests | `entry`, `lock`, `patch` |
| `AtomicCellar` | the atomic cellar it implements | `bottles`, `pledged` |
| `Browse` | the pages of the search results | `rank`, `kept`, `walk` |
| `TastingNotes` | one note under concurrent requests | `note`, `draft` |
| `BotGate` | access cache and rate limiter, with time | `now`, `authorized`, `calls` |
| `BotScreens` | the bot's lists of saved stores and watches | `saved`, `pending`, `marks`, `listing`, `tap` |
| `MCComponents` | the last nine specifications, one at a time in one run | `part` |
| `StockAlertsProofs`, `AlertPipelineProofs`, `AvailabilityCheckProofs`, `AccountsProofs`, `CatalogueProofs`, `CellarProofs`, `TastingNotesProofs` | theorems on the module of that name | |
| `ComponentsProofs` | theorems on the seven others of `MCComponents`, and on all nine together | |
| `MCAvailabilityCheck`, `MCAccounts`, `MCCatalogue` | symmetry sets and functions TLC uses | |

### StockAlerts

- *Tables.* `watches` and `prefs` are sets of pairs (the unique keys make them so). `stock_events` is
  a set of rows; `processed` holds the ids whose `processed_at` is set. Ids grow in the order of
  `detected_at`, by which the pending query sorts. `delisted` is `products.delisted_at IS NOT NULL`.
- *Users.* A user id is opaque; `TgUsers` are those of the form `tg:<chat id>`. Others (`user:<id>`) have
  no chat: the bot skips their rows and acknowledges them (`ToMessage`, `_parse_user_id`).
- *Endpoints.* The GET runs two queries, online events then store events, each on its own snapshot:
  `FetchOnline` reads the first into `online`, `Fetch` reads the second, merges them and keeps the
  `MaxBatch` oldest rows (`OldestFirst`; which of equally old rows survive is the database's choice).
  Limiting each query to `MaxBatch` first, as the code does, does not change what the merge keeps.
  The ack is a transaction, `AckCommit`: its three statements (delisted skus among the events, watches
  deleted, events marked) take effect together.
- *Bot.* `bot` is the program counter of `poll_notifications`. `SendMessage` sends one group of rows
  (`SameMessage`). A `TelegramError` is logged and otherwise ignored, so `attempted` means that
  `send_message` was called. The JobQueue never runs the job twice at a time (APScheduler's
  `max_instances=1`, external).
- *Failure.* An ack is a record of `acks`. `awaited` is reset when the bot stops waiting (timeout,
  restart, or an answer sent before the commit: FastAPI tears `yield` dependencies down after the
  response); the record stays and may be executed later (`AckCommit`) or never (`AckFails`). `BotCrash`
  loses the poll.
- *History variables* (`owed`, `attempted`, `cut`, `unsettled`) are read by no action.
- *Scraper.* Only its four database functions, with any argument at any time.
- *Promise.* `AlertDelivery` says the same without tables, queries, batches and requests, in pairs of an
  event and a user: whoever is `concerned` when an event is announced is `owed` an alert until it is
  alerted or no longer concerned; only those found concerned are `held` for an alert; one message
  goes to one user, and tells nothing twice but of `doubtful` events; events are taken in `hand` with
  all they owe, or `excused`; only those in hand or doubtful may be `closed`, and only when
  nobody is still owed. `ConcernedPairs` is stated from the tables, apart from the queries.

### AlertPipeline

`scan` is the command's local state: `pc`, the skus of the sitemap, the products known before the first
page, and what is left to emit or relist. One action per database call of `_detect_delists`.
`ScanFails` is a `SQLAlchemyError` (caught: the rest of the scan is skipped, the purge runs),
`ScanDies` any kill. Pages are inserted in any order or not at all. Only one run at a time, as the
systemd unit guarantees. Every step is a step of `StockAlerts` or leaves its variables alone, which
`PipelineImplementsOutbox` proves: the theorems about the outbox hold in the composition.

### AvailabilityCheck

`avail` holds the two columns, `check` the command's local state: Adobe's answer, the known skus, the
"previous" state and the transitions left to record. One action per database call. `EmitFails` is a
failed insert (counted, the next one is tried), `CheckDies` any other error or a kill. The scrape
command appears as three writers (`ScrapePage`, `Delist`, `Relist`) at any time. The bot is left out of
this composition: of the tables read here, it only removes watches, as users do. `before` and `touched`
are history.

### Accounts

It shares no table with the others but the string-keyed rows, which appear here as `rows`.

- *Requests.* `request[r]` is a request under way: its endpoint (`kind`), where it is (`pc`) and what it
  read. One action per query whose result is used after another request may have committed; the writes
  of a request appear together at its commit (`get_db`, and the explicit commit of
  `create_oauth_session`), where the unique and foreign keys are checked. `RequestFails` ends any
  request without a write: an error of a provider, the database or Redis, a broken key, a restart.
- *Signing in.* `states` and `codes` are Redis: taking one out is atomic (`DELETE`, `GETDEL`). A random
  token is a member of `Logins` used once; a sign-in's exchange code is named after its state.
  The steps of a callback follow `create_oauth_session`: the account by provider id (`FindAccount`),
  then its user (`FindUser`), or the user by address (`FindEmail`), or the waitlist (`CheckWaitlist`);
  the commit (`Refresh`, `LinkAccount`, `SignUp`); the code (`StoreCode`).
- *Waitlist.* `approve` flushes its update first, so the row stays locked while the email is sent
  (`Locked`); the session writes a status only if it differs from the one it loaded (`Decide`).
- *Deletion.* The deletes by string key see what is committed then (`DeletionRows`); the user and, by
  cascade, the accounts go at the commit (`DeletionCommit`).
- *History*: `minted`, `welcomed`, `unkept`, `overtaken`, `seen` are read by no action; `Witness` adds to
  every step the users active at the time, for `KillSwitch`.
- *Wider than the code*: a deletion may be started by anybody for any user, and the guards on the admin
  role are absent; a JWT never expires. *Narrower*: the address a provider reports for an identity is
  fixed (`EmailOf`).

### Catalogue

`page`, `lastmod` and `adobe` are the SAQ's site, its sitemap and Adobe; `product` the rows with the
columns that matter: the content of the page (what the content hash is of), `updated`, the wine's
attributes, the vector (represented by the text it was computed from) and the hash beside it. `job[j]`
is a command under way. The job `Weekly` goes through scrape, enrich and embed while each exits 0
(`Then`, the unit's `ExecStart` lines); a job of `Manual` is a command started by hand at any time.
One action per database call and one per page, search or batch of calls to OpenAI. Every write to a
row moves `updated` (`UpdateRows`, `onupdate` of the column), which `NeedsScrape` compares with
`lastmod`, by days. `CheckAvailability` is the nightly job as seen from here. An error (`JobFails`,
`ScrapeFetchFails`, `ScrapeSaveFails`) ends the command or counts towards its exit code. Pages gone
between sitemap and download (404, not an error) are left out. The history `since` keeps, for each sku
and job under way, the pairs of page and sitemap day the site has shown since the job began: the job
read its sitemap and its page at two such moments.

### WineEnrichment, StoreDirectory

Both read a list that moves, by pages. `todo` is the searches left: one per subcategory, then, where
`total_count` is over the cap, one per country of the facets, in whatever order Adobe lists them, then
one per price range (`Partitions`). A page is the wines whose place among those that match lies in an
interval (`Place`, `PageOf`); `RankOf` is the order in which Adobe numbers them, the same for every query.
The search that finds itself over the cap and the facet query after it are one step. `Keep` is
`extract_wine_attrs` returning something. `StoreDirectory`'s directory is a sequence read by position;
`throughout`, `told`, `closed` are history. The upsert refuses a batch that names a store twice
(`OncePerStore`: ON CONFLICT cannot touch a row twice). The seed reads the count of products, then
inserts stores and products in one transaction.

### Conversations, Rerank

A request of `send` goes through `send_message`: the session and its owner, the user's message flushed
(not yet visible, but locking the session's row against deletion, `Holding`), the history, the intent
and the answer, the commit. `ContextTurns` cuts what Claude sees of the history; what is excluded from a
recommendation is everything recommended in it. What the LLM and pgvector answer is any choice among
what the code may get. Ids of deleted sessions may be used again in the model, which is wider than
the code. `Rerank` is `_rerank` step by step: scores are fractions, compared exactly; the
weights are multiples of a quarter and added by counting quarters (`Quarters`).

### Cellar, TastingNotes

A request is a `patch` (a `draft`): load, write by id, commit. The write takes the row's lock and a
statement that finds it taken waits, then works on what was committed; an UPDATE that finds no row is
an error (SQLAlchemy's `StaleDataError`), a DELETE is not. In `Cellar` the answer is a step of its own:
a request that wrote is answered (`SendAnswer`, with success or, when the answer is lost, an error), and only
then does `get_db` commit it (`Commit`) or fail to (`CommitFails`). `Cellar` carries the history
`AtomicCellar` is stated in: what each screen asked, the counts since, the last answer. In
`AtomicCellar` a request that changes the count is `pledged` between its answer and its effect, and may
be forgotten (`Forget`); one that is not pledged takes no effect. The property of `TastingNotes` is of the
committed row alone, so answers are left out there.

### Browse, BotGate, BotScreens

`SlicesAt` is what ORDER BY on one column with OFFSET and LIMIT may return when there are ties.
`BotGate` counts seconds: time passes while the backend is asked, for less than the client's timeout; the
answer is read in one step and arrives in another. `BotScreens` handles one tap after the other, as
python-telegram-bot does without `concurrent_updates`; each call may fail before or after the backend
executed it. A call that adds or removes a row executes its statement, which locks the row, and is answered;
the row is committed later (`RowCommits`), or never (`RowFails`), and until then readers see it as it was,
the bot's own next read among them. A call the bot gave up and the backend comes to late is one of
`WebEdits`. `was` and `failed` are history.

### MCComponents

The nine specifications share no state, so each behaviour of this module is one of one of them, chosen
by `part`, while the others rest: their state spaces are added, not multiplied. A property of one of
them holds of it exactly if it holds here.

## 3. What the runs check

| Run | Instance | Properties |
|---|---|---|
| `alerts` | one Telegram user, one product, one store, a batch of one row, two events, one late ack, one restart, fairness | `TypeOK`, `FanOutComplete`, `ResendsExplained`, `EventuallyMessaged`, `PollEnds` |
| `delist_scan` | one user, one product, two events, one late ack, one restart | `PipelineTypeOK`, `DelistedMatchesSitemap`, `DelistAnnounced`, `DeliversAlerts` |
| `availability_one` | one user, product and store, two events | `AvailabilityTypeOK`, `AlarmsExplained` |
| `availability_two` | two products, no store | `TableMatchesAnswer`, `AlarmsExplained` |
| `accounts` | one person with two GitHub accounts and a Google account, one address, two sign-ins, two requests at a time, two users ever created | `TypeOK`, `AccountsOwned`, `OneTokenPerLogin`, `ApprovedOnly`, `InvitationsExplained`, `KillSwitch`, `LeftoversExplained`, `LastAccountExplained` |
| `catalogue` | one row, the weekly unit and one command by hand, two days, two edits, one error, fairness | `CatalogueTypeOK`, `VectorMatchesHash`, `MissedExplained`, `CatalogueHeals` |
| `components` | see below | `ComponentsTypeOK` and fourteen others |
| `batch_split` | two users, a batch of one row, one event | `EveryWatcherMessaged`: violated |
| `watch_removal` | two users, one event | `RemovalExplained`: violated |
| `transitions` | one user, product and store, one event | `TransitionsDetected`: violated |
| `skipped` | as `catalogue` | `SkippedUnchanged`: violated |
| `chat_logs` | one person, one session, two requests | `ChatLogsErased`: violated |

**What they show.** An acknowledged event has been passed to `send_message` for each Telegram user who
was routed to it when it was inserted and still is, unless the batch limit cut it (`FanOutComplete`).
A notification is repeated only if the bot let the event go uncommitted before (`ResendsExplained`).
In all that the outbox keeps the promise of `AlertDelivery` (`DeliversAlerts`).
Everything owed is sent some day and each drain ends. A delist scan without error leaves exactly the
products missing from the sitemap marked, whatever earlier runs left half done, and has recorded an
event for every watcher it saw. The availability columns end up saying what Adobe said, and the diff
raises no alarm but for products another command touched or after an empty answer. An empty answer leaves
the columns as the run found them (`TableMatchesAnswer`), while the diff then records a loss for each
product that was available: this is the exception `AlarmsExplained` names.
An identity belongs to one user, who exists and has its address; a sign-in gives one session at most,
and none to somebody whose address was never approved or who was inactive all along. What is left
after a deletion, an invitation without approval, or a user without a linked account has one of
the causes the properties name, and no other. The last needs a word: `backend/api/users.py:52` says the
last linked account cannot be disconnected, and the check it makes is of a count read without a lock,
before a delete by provider. `LastAccountExplained` states exactly when the check is not enough.

The product rows heal: once the outside is quiet, each row gets its attributes and the vector of its
text, whatever runs overlapped or died (`CatalogueHeals`), because a vector and the hash beside it always
belong together (`VectorMatchesHash`). Only the page itself may be missed for good, and only when the row
was written on the day the sitemap gave for that change, or later (`MissedExplained`).

Of the `components` run:

| Part | Property | What it shows |
|---|---|---|
| enrichment | `CoverageExplained` | a wine left out by a run has moved meanwhile, or is in no partition: without a country, or with a price in no range |
| | `KeepsPromise` | `WineEnrichment` implements `EnrichmentRun`: all or nothing, rows of the start, attributes Adobe gave during the run |
| stores, seed | `DirectoryWhole` | a run that commits missed only after a closure, never after an opening (the upsert fails then) |
| | `SeededWhole` | a database is seeded in full or not at all |
| chat | `TurnsWhole` | no question without its answer, whatever fails or is deleted |
| | `RepeatsExplained` | a wine comes twice only from two sends that overlapped |
| rerank | `NoWorseTwin`, `PenaltyAccumulates` | of two equal wines the nearer goes first; the penalty never falls |
| cellar | `CellarIsAtomic` | `Cellar` implements `AtomicCellar`: the count moves only by whole requests, each to what it answered before its commit, or not at all when that commit fails; a request that fails or misses moves nothing |
| pages | `WalkExplained` | a product missed or seen twice was tied with another, or something was written |
| notes | `EditsMerge` | an edit overwrites only the fields it carries |
| gates | `StaleYesBounded`, `LimitExact` | a deactivated person is obeyed less than an hour and a timeout; the limiter counts exactly what was handled within its window |
| screens | `MarksTrue` | a mark drawn was true at some moment while the tap was handled; that of the store tapped became true since the call, or is answered and about to be committed, or was answered before a commit that failed |

**Six disagreements between documents and code.** The first five are the runs that end in a violation.

- `batch_split`: the fetch limits (event, watcher) *rows*, the ack marks *events*. A watcher whose row
  is cut never hears of it, while `docs/specs/bot.md:108` says one event fans out to all its watchers.
  It takes more than 100 pending rows.
- `watch_removal`: the ack deletes every watch of a delisted product, read again at ack time; one
  created since the fetch, or fetched before the product was marked, goes without the message that
  `CHANGELOG.md:220` promises.
- `transitions`: the availability command writes the new columns before it reads the "previous" ones,
  so a changed product yields no event (`docs/specs/scraper.md:14`; line 36 lists the order as a known bug).
- `skipped`: `scraper/scraper/commands/scrape.py:217` says products unchanged since the last scrape are
  skipped. The filter compares the sitemap's day with `updated_at`, which every writer moves: a page that
  changed is skipped for ever once another job has written the row on that day or later.
- `chat_logs`: `backend/api/users.py:96` says all associated data is deleted with the account. The
  recommendations made in the chat are logged under `web:{id}` (`services/chat.py:139`), the deletion is
  of `user:{id}` (`repositories/users.py:77`).
- `docs/specs/chat.md:48` says a wine is never recommended twice in a session. Two sends that overlap read
  the same history and may both recommend it; `RepeatsExplained`, in the run `components`, shows
  that nothing else makes a wine come back. It is the exception the property names, and has no run of its own.

**Bounds.** `MaxEvents` bounds inserted events, `MaxLate` the abandoned acks that may still arrive,
`MaxCrashes` the restarts in the middle of a poll. Two events suffice for one to be acknowledged while
another is pending, aged or cut; the limit of one row makes the cut and the drain loop happen; one late
ack beside an awaited one gives every order of two acks. `alerts` has one user, because its three
invariants are proved for any number of users, products and stores, and the liveness of one user's
notification does not depend on another's but through the limit of one row, which the user's own
second event exercises; what two users add is shown by `batch_split` and `watch_removal`.
In `accounts`, two slots give every pair of racing requests; `MaxUsers` 2 allows a user to be deleted
and to sign up again; three identities at two providers make a provider with two accounts and a
second one; one address makes them all meet in one user.

`catalogue`: rows do not interact but through a job's lists, so one row beside two jobs shows every
interleaving of writers on it; two days tell "the same day" from "a later day"; two edits let a page or
a wine change before and during a run; one error makes a unit stop after any of its steps.
`components`: five wines, of which one has no country and one no attributes, a price on the bound of two
ranges and one in none, pages of one wine and a cap of two, so that all three levels of partition
happen; three stores in pages of two, with two changes; three sends in two requests with one turn of
context, so that the third is beyond it; four candidates of two attributes for three places;
two requests and two bottles at most, with two rows ever inserted, so that an entry is deleted and
inserted anew under a request, and the cap is met by an addition; four products in pages of two with ties; three edits of two fields by
two screens; a clock of five and three edits of the list, with a memory of three and a window of two; three taps and two edits on the web. Requests under
way and editors are symmetric: no definition chooses among them, and no property of the run is about liveness.

The deadlock check is on for the alert, availability and account runs. It is off for `catalogue`, `components`
and the runs of their modules: a choice of wines ends, a reader turns the last page, and the bounds on edits,
sends and time leave nothing to do.

**Fairness.** `Fairness` of `StockAlerts`: weak for the job's own steps, since the JobQueue starts it again
and again and `send_message` returns; strong for the fetch and for the commit of an ack: the backend
may be down, but not at each attempt for ever. Nothing is assumed of users, scrapers or time.
`CatalogueFairness`: weak for the start of the weekly unit (its timer, `Persistent=true`) and for the next
step of a command that runs. Errors are bounded (`MaxFailures`): a liveness result says what happens
once they stop. Nothing is assumed of commands by hand.

## 4. What is proved

`StockAlertsProofs`, from `StockAlertsAssumption` only (any users, products, stores and bounds):

- `TypeCorrect`: `Spec => []TypeOK`.
- `FanOutHolds`: `Spec => []FanOutComplete`. The invariant `FanOutInv` adds what makes it inductive: ids
  are fresh (`IdsFresh`), an owed route is still routed (`OwedRouted`), the rows the first query read
  and the batch cover every owed user of the events they name (`OnlineCovers`, `BatchCovers`), what left
  `unsent` was attempted (`SentAttempted`), and every ack in flight covers only users already
  attempted, gone or cut (`AckCovers`), an awaited one existing only while the bot waits (`AckPhase`).
- `ResendsHold`: `Spec => []ResendsExplained`, by `ResendInv`: an attempted pair of an event that is
  neither processed nor unsettled belongs to the batch in hand.
- `OutboxDelivers`: `Spec => DeliversAlerts`, one lemma per step of the outbox that is one of `AlertDelivery`.
  `DeliveryInv` joins the invariants above with two small ones: a late ack is of events let go
  (`LateLetGo`), and what is unsent is for users with a chat (`UnsentReachable`). Both queries give
  rows of `ConcernedPairs` (`RowConcerned`); `CommitCloses` is where the invariants on acks are needed. It
  holds in the two compositions too, which implement `Spec`.

`AlertPipelineProofs`, with `PipelineAssumption`:

- `PipelineTypeCorrect`, `PipelineImplementsOutbox` (`PipelineSpec => Spec`, step by step).
- `DelistedMatches`: by `ScanInv`, which says at each `pc` what the flags are: after the marking, every
  known product missing from the sitemap is marked, and until the clearing nothing else is lost.
- `DelistAnnouncedHolds`: by `AnnounceInv`: each watch seen and kept has its product still to emit or
  an owed event of this run.

`AvailabilityCheckProofs`, with `AvailabilityAssumption`:

- `AvailabilityTypeCorrect`, and `AvailabilityImplementsOutbox`: every step of the command and of the scrape
  beside it is one the outbox allows.
- `TableMatches` and `AlarmsHold`: by `CheckInv`. Rows are never deleted (`KnownAll`); what Adobe answered
  stays within the products it knows (`AnswerStands`); from the write on, the columns are the answer but
  where another command has been (`TableMatchesAnswer`), and after an empty answer
  they are what they were when the run began (`EmptyKeeps`); what the command takes for "previous" is the
  answer itself but there (`PrevAgrees`), which is also why it sees no transition (run `transitions`);
  and a transition left to record is one of these (`TodoLast`).

`AccountsProofs`, from `AccountsAssumption` (any identities, addresses, logins, users and slots):

- `TypeCorrect`: `Spec => []TypeOK`.
- `IdentitiesOwned`: `Spec => []AccountsOwned`, by `OwnInv`: ids and addresses are unique and ids not yet
  reached by the sequence (`UsersUnique`), and a callback about to link has the id of a user with its
  address, or of nobody any more (`LinkRight`). Ids are never used again: that is what makes it hold
  across a concurrent deletion and a new user with the same address.
- `OneToken`: `Spec => []OneTokenPerLogin`, by `TokenInv`: a login is in Redis as a state, in the hands of
  one callback, in Redis as a code, or minted, and in one of these at a time, since taking a key out is atomic.
- `SignUpsApproved` and `Invitations`: by `ApprovedInv`: whoever has a row, is about to sign up past the
  waitlist check or is about to be written to has an address in the history of approvals, which only grows.
- `KillSwitchHolds`: by `SeenInv`: the user a callback has in hand is among those `Witness` saw active
  since it began.
- `LeftoversHold`: by `RowsInv`: a request about to insert a string-keyed row has a user of the table, or
  one whose deletion overtook it, as the history `overtaken` records.
- `LastAccountHolds`: by `CountInv`: a disconnect that goes on has counted more than one account.

`CatalogueProofs`, from `CatalogueAssumption` (any rows, jobs, pages, wines and bounds):

- `CatalogueTypeCorrect` and `VectorsMatch`: `CatalogueSpec => []VectorMatchesHash`, by `RowsInv`, which adds
  `KnowsRows`: the skus a job has collected are in the table. No row of `products` is ever deleted, so
  the UPDATEs of "enrich" and "embed" find every row they name (`UpdateRows` inserts no other). The write is right because the hash is the one
  taken with the text, before OpenAI is called, and an upsert of the scrape leaves both columns alone.
- `MissesExplained`: `CatalogueSpec => MissedExplained`, by `MissedInv`, one conjunct per job: what the job
  read of the sitemap (`Read`) and the page it saves are in `since`, and a product it dropped as not
  newer has a row written on that day or later (`Late`), which stays so because `updated` only grows.

`CellarProofs`, from `CellarAssumption` (any screens, limit and number of rows):

- `CellarTypeCorrect`, and `CellarImplementsAtomic`: `CellarSpec => CellarIsAtomic`, step by step. The
  invariant says of each request under way what it was asked (`Expects`), that the present count is one
  it has lived through (`Lived`), that the row it loaded held such a count, and if that row is gone the
  cellar was empty meanwhile (`Remembers`: ids come from a sequence), and that the row it has written is
  what the atomic cellar would come to, both before it is answered and from the answer to the commit,
  where the reply is that count or an error (`Promises`: it holds the lock, so the committed row has not
  moved since). `CloseInv` and `RespondInv` are the end of a request, with and without an answer.

`TastingNotesProofs`, from `TastingNotesAssumption` (any screens, fields and edits):

- `MergeInvariant` and `EditsMergeHolds`: `TastingSpec => EditsMerge`. Whoever is to commit holds the row
  (`HoldsLock`), and its row differs from the committed one only in the fields it carries (`OnlyCarried`),
  because the UPDATE names only the columns changed and reads the others under the lock.

`ComponentsProofs`, from the assumptions of each module; they ask for finite sets of products, stores,
skus and attributes, which a table, a catalogue or a list of columns is, and that no two skus have the same place in Adobe's order:

- `EnrichmentKeepsPromise`: `EnrichmentSpec => KeepsPromise`, step by step, by `RunInv`: what is collected of
  a wine is something Adobe has said of it since the run began.
- `EnrichmentCovers`: `EnrichmentSpec => CoverageExplained`. `CoverInv` says of each wine that kept its place,
  its price and its attributes throughout (`Steady`) that it is collected, or a search still to do will
  show it (`ToCome`), or its search was partitioned and it is in none of the parts. The lemmas on
  places say that pages are disjoint intervals that reach every place (`PagesOrdered`, `PagesCount`,
  `PlaceTyped`), and that a change shifts none of those before it (`NothingMoved`).
- `DirectoryIsWhole`: by `ReadInv`: a store open throughout is among the ones read or lies ahead of the next
  page (`Ahead`), unless a closure pulled it back. `SeedIsWhole`: inductive by itself.
- `TurnsKeptWhole` and `RepeatsOverlap`: by `ChatInv`: what a send may answer with leaves out every wine of an
  answer that stood when it read the history, and the session whose row it has locked stands (`Sound`).
- `WalkIsExplained`: by `WalkInv`: as long as nothing was written, what the reader has been shown is the
  beginning of an order in which only ties are free (`Before`).
- `YesGoesStale` and `LimiterExact`: by `GateInv`: a cached yes is no older than the cache's life, and the
  answer on its way no older than the timeout; the times kept are those handled, but for expired ones.
- `MarksAreTrue`: by `MarkInv`: the list the bot read was the saved one at some moment since the tap, and
  the store tapped is as its call answered: committed since, pending, or failed. `MarksStay` says that no
  step of anybody else takes this away before the marks are drawn.
- `NearerTwinFirst`: `RerankSpec => []NoWorseTwin`. Two wines with the same attributes have the same overlap
  with each wine chosen, hence the same penalty, so the score orders them by nearness alone; what
  is chosen stays without repetition. The invariant is inductive with the types.
- `PenaltyGrowsAlways`: `RerankSpec => PenaltyAccumulates`. A finite set of fractions has a greatest one
  (`GreatestFraction`, by a lemma on finite sets), so that `Worst` is defined; with one more wine chosen
  neither the greatest overlap nor the number of similar wines falls.
- `EachByItself`: a behaviour of `MCComponents` is, for each of the nine parts, a behaviour of its own
  specification, which is why one run may check them all. `ComponentsTyped` is their types, part by
  part: inductive for most, and with `PageInv` (the page to ask for next), `TableInv` (the rows of the stores'
  table) and `ShownInv` (what the messages show) for those where it is not.

**Only model-checked**: `EventuallyMessaged`, `PollEnds` and `CatalogueHeals`: liveness under fairness, and
ENABLED, are out of the proof system's reach. Every invariant and action property a passing run checks is
proved. The runs that end in a violation are counterexamples and need no proof.

## 5. Not modelled

Rendering, wording, HTTP plumbing, metrics, rate limits of the backend (a library's), HTML and JSON parsing,
prompts, what the LLM and the vector search answer (any choice), the read-only endpoints (facets, random,
listings), the front end's views, migrations and deployment scripts. Of the accounts, the dev-only
login, profile fields, JWT expiry and the admin role's guards are left out; linking and unlinking Telegram appears
in `BotGate` as the change of answer it causes. A failed second read of a list, which the bot draws as an
empty list, is modelled (`ReadAgainFails`) without a property: nothing in the code promises otherwise.
Alerts to users without a chat end in an ack; that is in the model (`ToMessage`). Two weekly
scrape runs at a time are excluded by systemd; a scrape by hand beside the weekly one is in `Catalogue`.

## 6. Plan

Everything planned is modelled, and every safety property is proved. Parts that could still be taken
from `partly` to `modelled` are the admin role's guards, the read-only endpoints under concurrent
writes (facets, counts), and the front end's own state.

No module that is proved about declares a RECURSIVE operator; parameters are CONSTANTS with named
assumptions.
