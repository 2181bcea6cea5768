# Rustroid Sentinel: a verification project

TLA+ models of the concurrent and failure-prone parts of Rustroid Sentinel, the TLC configurations that check them
on small instances, and theorems about them that TLAPS checks for every value of the constants. Paths are relative
to the repository; `PROJECT.json` maps every definition to the lines it models and lists hazards, runs and theorems.

To repeat it: `tlc -workers 2 -config MCEtlLoad.cfg MCEtlLoad` for a run, `tlapm EtlLoadProofs.tla` for the proofs.

## 1. The system

One binary, several commands. A scheduled job runs `pipeline` once a day, nine stages one after the other; other jobs
run `sentry` and `orbits` on schedules of their own; `serve` is a separate, long-lived process. They meet in PostgreSQL
and in one HTTP call.

```
 NASA NeoWs ──> extract ──> data/raw ──> transform ──> data/transformed ──> load ──> PostgreSQL ──> serve
                                                                             │          │  ▲          │
                                                     POST /internal/events ──┼──────────┼──┼──────> SSE stream
 JPL Sentry ──> sentry ┐                                                     │          ▼  │
 JPL SBDB   ──> orbits ┴──────────── enrichment ─────────────────────────────┘  alert ─> prune ─> vectorize ─> report
                                                                                  └──────── Discord ────────────┘
```

| component | state it keeps | operations | how it interacts |
|---|---|---|---|
| `load` (`cli/load.rs`, `database/repository.rs`) | tables `asteroids`, `approaches`, ledger `etl_events`; per task: event id, batch, statistics | list files, task per file behind 10 permits, transaction per 1000 records, start/complete/fail a ledger row, publish, return new ids | POSTs hazards to `serve`; returns ids to `pipeline` |
| `alert` (`alert/service.rs`, `alert/discord.rs`) | table `alerts` | scan, send and record per approach, join | reads what `load` wrote; Discord webhook |
| hazard stream (`events/`, `api/handlers/hazard_events_sse.rs`, `internal_events.rs`, `server/shutdown.rs`) | subscriber count, broadcast channel (256), shutdown watch, LISTEN connection | admit, subscribe, deliver, lag, drop, shut down, ingest, LISTEN | fed by `load` over HTTP or by NOTIFY |
| `orbits` (`cli/orbits.rs`) | table `asteroid_orbits`; in flight set, buffer, failure count | sweep, id-scoped sweep, flush, early stop | JPL SBDB; after `load` in `pipeline` |
| `sentry` (`cli/sentry.rs`) | `torino_scale`, `palermo_scale`, `sentry_checked_at` | sweep in chunks of five | JPL Sentry; after `load` in `pipeline` |
| `extract`, `transform`, `pipeline` (`cli/`) | files of `data/raw`, `data/transformed` | download the windows of a range, skip what exists, convert and classify, run the stages in order | files are the interface of the first stages |
| retention (`database/retention.rs`, `cli/prune.rs`) | none of its own | delete old approaches (cascades to alerts), old ledger rows, with a floor | changes what `alert`, `load` and `serve` see |
| embeddings (`transform/embedding.rs`, `database/embeddings.rs`, `cli/vectorize.rs`) | table `asteroid_embeddings` | read all features, normalise, upsert in chunks; nearest neighbours | reads tables of `load`, `orbits` and `sentry` |
| report (`cli/report.rs`, `database/report.rs`) | none | aggregate a week, one webhook call | Discord; also a page of `serve` |
| catalog (`database/catalog.rs`, `api/handlers/catalog.rs`, `api/cursor.rs`) | none; cursors live in links | keyset page, NEXT and PREV links, detail, similar, filter values | reads through the cache |
| approaches, charts, runs (`database/dashboard.rs`, `api/handlers/dashboard.rs`, `approaches.rs`, `velocity.rs`, `etl_events.rs`, ...) | none | numbered pages with filter and sort, totals, latest approaches, periods and ranges, etl runs | reads through the cache |
| dashboard cache (`database/cache.rs`) | thirteen moka stores | shared query, expiry, eviction, kill switch | between handlers and repositories |
| metrics (`metrics/`) | registry | count, push | nothing reads them back |
| NASA/JPL clients (`nasa/`, `api/client.rs`) | none | HTTP with retry, decode | called by the commands |
| HTTP API (`server/`, `api/`) | none beside the above | routes, limits, timeouts, headers, templates | handlers around repositories |
| connection pool (`database/mod.rs`) | ten connections | acquire with a timeout | every database call |
| settings, errors, models | configuration, plain data | — | everywhere |

Where it is hard: tasks of one `load` and overlapping invocations of it write the same rows and the same ledger row;
a process can die between two statements that belong together (send and record, first and last byte of a file, last
batch and completion); handlers race for the last place of the stream; a slow reader is overtaken by a ring buffer; a
cached page is older than the page before it; an answer is made of statements that see different moments; an offset
points into rows that move; the handler running a shared query is dropped by the request timeout; an API fails for the
same asteroids every time, or answers with an error that looks like an answer. There is no compensation anywhere:
recovery is always "run it again".

What makes each component correct is stated with its module below.

## 2. Modules

| module | models | promises checked |
|---|---|---|
| `EtlLoad` | `load` and the repository calls it makes | ledger sound, nothing new twice, refinement, recovery |
| `IdempotentStore` | abstract: facts are only added, a file is acknowledged only when all its facts are in | implemented by `EtlLoad` |
| `AlertDispatch` | `alert`, with loading and pruning around it | bounded duplicates, recorded was sent and stays recorded, everybody is alerted |
| `HazardStream` | admission and delivery of the SSE stream, its two sources, shutdown | exact cap, no silent gap, refinement, drains, catches up |
| `EventFeed` | abstract: so many places, each listener hears every event from then on or how many it missed | implemented by `HazardStream` |
| `Sweeps`, `OrbitRuns`, `SentryRuns`, composed by `Enrichment` | sweeps of `orbits` and `sentry` | answers kept, stamps earned, APIs spared, healthy asteroids reached, removed objects cleared |
| `Pipeline` | the nine stages, their files and what they leave in the database | nothing incomplete called complete, no asteroid without a vector, recovery |
| `DashboardCache` | one store of the cache, generic in key and content | one query per key |
| `CatalogPaging` | the catalog listing over `DashboardCache` (INSTANCE) | complete, ordered walks; PREV; every request answered |
| `HazardRules` | `classify_hazard` and the rank of its classes | classes follow danger (a theorem) |
| `ApproachPaging` | numbered pages of approaches over `DashboardCache` and `HazardRules` | answers fit questions, labels agree, drift bounded, order |
| `DashboardPages` | the other queries and the handlers that ask several, over `DashboardCache` | numbers agree, found is shown, newer is kept |
| `MC*` | instances for TLC | |
| `*Proofs` | `EtlLoadProofs`, `AlertProofs`, `HazardProofs`, `EnrichmentProofs`, `PipelineProofs`, `CatalogProofs`, `ApproachProofs`, `PageProofs` | section 4 |

A module that leaves out a detail says where it is: `Pipeline` keeps of `load` what matters for files (skip, load,
record, fail), of `alert`, `sentry` and `orbits` that they ran and what they changed; `EtlLoad`, `AlertDispatch` and
`Enrichment` are the detail. Definitions named `Bug...` are plausible mistakes in the definition that follows them; no
specification uses them. Each shows, put in the place of the right definition, that a property notices it.

### EtlLoad
A file is a sequence of lines, a line a record or `Malformed`; a record is its natural key, the age of its metadata
and its approaches. `pc[r][f]` is the program counter of the Tokio task of invocation `r` for file `f`: *queued*
(wants a permit), *start*, *stream*, *complete* or *fail* (which ledger statement comes next), and the three ends.
One action per database statement, since each is its own round trip and others run between them:
`CheckIdempotency`, `RecordStart`, `UpsertFullBatch`, `UpsertFinalBatch`, `EndOfFile`, `RecordComplete`,
`RecordFailed`; the failures are actions too, with what the code does then: a failed check or start is ignored, a
failed batch fails the file, a lost commit answer leaves the rows *and* fails the file, a failed completion still
counts as loaded. An asteroid twice in one batch is rejected by PostgreSQL (`UpsertRejected`) without any fault.
`SettledRow` is `UPDATE ... WHERE id = $1`, which may match nothing. `Crash` ends an invocation and its tasks.

- `CompletedIsPersisted`, `SkippedIsPersisted`: what the ledger calls completed, and what a task skipped for it, is
  in the tables. `InsertedOnce`: no two tasks are told they inserted the same row. `CompletedNeverFails`: a completed
  row is reopened by a start, never failed by a straggler. `StoreSpec`: the loader implements `IdempotentStore`.
- `RunEnds`, `StagedEventuallyPersisted`: join loop ends; with more invocations left than faults, a file gets in.

### AlertDispatch
`rows`, `pha`, `alerts` are the tables as far as the scan reads them; `task[s][a]` is *send*, *record* or *done*. A
slot is a place where invocations follow one another: one if the schedule serializes them, two to let them overlap.
`Load`, `Prune` (with its cascade) and `Midnight` happen at any time. A send may fail with or without the message
delivered; `Record` is an INSERT under a foreign key and a UNIQUE constraint, so it may be rejected.

- `DuplicatesBounded` is what the UNIQUE constraint and the LEFT JOIN are really worth: surplus messages need a fault
  or an overlapping invocation each. `AlertedStaysAlerted`: reload and prune never make a coming approach come up
  again. `RecordedWasSent`: a row, which silences an approach, stands for a message, if there is a webhook; without one
  `send_alert` returns Ok and every row is a lie. `EventuallyAlerted`: approaches already alerted do not keep those behind the LIMIT out. An approach
  whose message fails every time is not modelled: `Limit` of these, first by date, would hold up all others until their day has passed.

### HazardStream
One action per access to shared state: `LoadCount`, `CompareExchange` (may fail, and loops), `Subscribe`, `Receive`,
`ReceiveLagged`, `Close` by shutdown or disconnection, `Shutdown`; `Ingest` (POST) and `ForwardPayload` (NOTIFY)
publish. The broadcast channel is the numbered events, its buffer the last `Capacity`; the channel is external,
modelled from how it is used. `last` is the SSE event a client was sent, a hazard or a number of missed ones; `told` is
what a client that adds these up arrives at. `listener` follows the LISTEN connection: lost, reconnected once, or over.

- `CapHolds`: the count is the number of attached clients, and never above the cap. `GapsAreTold`: a client that adds
  up what it got and what it was told it missed knows exactly where it is. `FeedSpec`: the stream implements
  `EventFeed`, where looking for a place and taking it is one step, a listener is a number, and there is neither buffer
  nor cursor; `Attached`, `Heard` and `last` are the refinement mapping. `ShutdownDrains`, `CatchesUp`.

### Sweeps, OrbitRuns, SentryRuns, Enrichment
`Sweeps` has what both commands share: the stamp of a row (*none*, *fresh*, *stale*), whether its columns are filled,
what JPL has now (`tracked`) and what the last load flagged (`flagged`), candidates, lookups in flight, the buffer, and
histories of what JPL answered (`answered`, `said`) and of failures that were taken for answers (`mistaken`). The two commands write different columns, so a behaviour follows one of them
(`command`). A lookup task has no shared state, so joining it is its only step. `Poison` always fails (a sweep meets
those again each time); others fail at most `MaxFaults` times.

`OrbitRuns` is `run_orbit_checks`: *prime*, *join*, *flush*, *refill*, *final*; one lookup dispatched for each joined;
a stop after `Abort` failures in a row. `JoinMessage` is a lookup that failed with an error status and a JSON message,
which the client reports as "no record": it is buffered as NULLs and ends the failures in a row, as an answer does.
`SentryRuns` is `run_sentry_checks`: chunks that begin when the last is done, flushes in between, scales cleared where
Sentry says *removed* or nothing. `Fail` is the `?` of the candidate stream or of a flush, a panicking lookup, or the
end of the process. `Enrichment` composes them with `GoStale`, `Retrack` (JPL changes its list) and `Reload` (a load
refreshes the flags). One command runs at a time: a sweep of `pipeline` over the ids it loaded and a scheduled sweep at the
same time are not modelled. They write rows of what JPL said, keyed by asteroid, and share no other state.

- `AnswersKept`: only a sweep that ends in an error loses an answer. `StampsEarned`: no row is stamped, and no values
  change, but to what JPL answered, or to the NULLs of a failure that was taken for an answer; any other failed lookup
  leaves its asteroid due with what it has. That exception is the code's, against its documents (section 5), and the
  property names it rather than count such a failure as an answer. `ApiSpared`: `Concurrency` (or a chunk) in flight; at SBDB at most
  `Abort + Concurrency - 1` lookups since the last answer or failure taken for one. `HealthyChecked`: fewer than `Abort` poisoned asteroids keep
  nobody from being checked. `RemovedIsCleared`: an object off the list loses its scales while NeoWs flags it.

### Pipeline
The range `StartDate..EndDate` is cut into windows of `BatchSize` days (`Batch`, `BatchEnd`). A file is *absent*,
*torn* or *whole*; torn is what `fs::write` leaves between its first and last byte. A torn raw file does not parse; a
torn transformed file is NDJSON with fewer lines, which `load` takes for a file. `keeps` says whether the directories
outlive the invocation (they do not in the CI job, they do on a machine). `TransformAborts` is the first failed task
that `execute` joins: it returns, `main` exits, and the others may or may not finish their writes.

After `load`: `Alert`, `Enrich` (whose errors are logged), `Prune` (any old row of `etl_events` may go, so a file may
be loaded again), `FetchFeatures` and `UpsertVectors` (a vector is computed from rows read before, so a sweep in
between outdates it), `Report`; `StageFails` ends the run in any of them. The three first commands, run by hand with
`--force`, are a run that ends after `load`. A window stands for its days while they are in the range: names of files
contain dates, so tomorrow's run has one window less of the past and one more of the future.

- `CompletedIsWhole`: in fresh directories, what is recorded as completed is all there. `ForcedRunRepairs`: forced
  commands replace torn files of all kinds. `VectorsComplete`: a run that comes to its report leaves no asteroid
  without a vector. `WindowServed`: every window gets into the database and into the search for similar ones.

### DashboardCache and CatalogPaging
`TryGetWith` is moka's `try_get_with`: a hit, a wait for somebody else's query, or a query of one's own. The query
lives in the handler that started it; `Leave` drops it and `Retry` lets a waiter start over. `Read` is the moment the
database answers, `Finish` the later moment the result is stored, so a result may already be old. `Expire` covers
time to live and eviction. `CatalogPaging` gives the store its keys (cursors) and contents (pages), and models
`ORDER BY` (`Precedes`) and the `WHERE` predicate (`After`) separately, as the code has them: one is a theorem about
the other. Cursors and histories are sequences, as `page_links` builds them; decoding of a well-formed token is
lossless here (see section 6). `QueryRejected` is the answer of PostgreSQL to a predicate that does not parse. A failed
query ends in two ways: `catalog_rows` answers 500 and the client stays where it was (`RespondError`), while
`render_catalog_page` answers 200 with a page without rows and without NEXT (`RespondBlank`, for the clients of
`opening`). `SubmitFilters` asks `catalog_rows` for the first rows, as the filter form does.

- `WalkComplete`: a walk to the last page has shown every row that did not change exactly once, whatever changed
  around it and however old its pages were. It speaks of last pages that a query answered: the blank page of a failed
  one is a last page too, and shows an empty catalog (section 5). `WalkAscends`, `PrevReturns`, `OneQuery`, `RequestEnds`.

### HazardRules and ApproachPaging
`Classify` is the chain of rules of `classify_hazard`, `Severity` the rank by which the dashboard sorts the classes it
stored. `ApproachPaging` is numbered paging: `CountRows` and `FetchRows` are two statements, between which rows come
or are refreshed (`Load`), go (`Prune`) or get scales (`Rescore`). `Load` is `upsert_batch`: on conflict the asteroid's
flag and diameters are overwritten (`Refreshed`), while the approach keeps its velocity, its distance and the class of
its first load, so a stored class may be older than the facts beside it, in `Init` already. A key of the store has the parameters
of the question (`ApproachQueryKey`). Pages are numbers of 32 bits, and `Offset` wraps around as a release build does.
`TotalPages`, `PageRange`, `ShowingStart` and their like are the arithmetic of labels and buttons.

- `AnswersQuestion`: what is shown is the answer to what was asked, whoever's query it came from. `LabelsAgree`: counts
  and row numbers agree unless the table changed between the two statements. `DriftBounded`: a walk along NEXT misses
  or repeats at most as many settled rows as there were changes between its pages. `gone` is a history of the rows
  deleted or replaced, which the property needs: rows that tie in the sort order come in any order, and the rows of the walk must
  tie with none that was there, a deleted one included, or the database may swap them although nothing moved. `NextLeadsOn`: NEXT leads to a page
  without rows only if they changed between that page and a count on the way to it. `MostHazardousFirst`: the
  landing page goes down the stored classes; and of two approaches neither of whose classes is stale, none stands before
  one that is as dangerous in every respect and passes nearer. With a stale class it may, and does (section 5).

### DashboardPages
A question has one to four statements (`Statement`, `Length`), each of which sees the database of its moment;
`results[c]` holds what a query has so far, with the version of the database each statement saw. `Visits` are the
handlers, as the sequences of questions they ask (`todo`); `Respond` goes on, or stops at an error or at a 404, except
that the landing page shows zeros and goes on. The rows behind: asteroids and approaches (`Load`, `Prune`), orbits and
vectors (`Measure`, `Vectorize`), runs of `load` (`StartLoad`, `PruneRun`). `Top` leaves the choice among ties open, as
`LIMIT` does.

- `CountsAgree`: the numbers of the report, the totals and a page of runs differ by no more than changed between their
  statements. `DetailAgrees`: the latest approach of an asteroid heads its history. `FoundHasPage`: an asteroid found
  by the first statement has its page, whatever is missing. `FreshestKept`: with the cache on, no stored answer is
  older than one that somebody has been given.

## 3. Runs

| run | instance | what it shows |
|---|---|---|
| `etl_load` | two files sharing asteroids, two invocations, batches of 2, 2 permits, 1 fault | the safety properties and the refinement; 1 fault is enough for every failure action, 2 invocations for every pair of races on a row |
| `etl_load_live` | a file always rejected and a loadable one, 1 permit, 2 invocations | permits come back on the failing path; rerunning recovers |
| `alerts` | 2 approaches (one Notable today, one by its asteroid tomorrow), 2 slots, limit 1, 3 days, 1 fault | limit 1 makes the second approach wait for the first; retention 0 prunes at once |
| `hazard_stream` | 3 clients, 2 places, buffer 2, 4 events from two sources, a LISTEN connection that breaks | contention for the last place, a receiver overtaken twice |
| `enrichment` | 5 asteroids, 2 of which always fail, 3 known to JPL, 2 in flight or in a chunk, flush at 2, stop at 3, 1 passing fault, 1 change of the list | poison plus one passing failure reach the stop; flushes happen in the middle and at the end; a stamp is made before and after the change |
| `pipeline` | 9 days in windows of 7, 1 permit, 3 faults, 1 sweep, any number of runs | the second window, a short one, waits for the permit; torn files of both kinds, in directories that stay or not; a vector outdated before or after it is written |
| `catalog` | 3 asteroids, pages of 1 row, ties and a NULL, 1 change, 1 fault, a second client | every page boundary falls between ties, or before the NULL tail; pages of one walk differ in age |
| `approaches` | 3 approaches, with one of a stale class or one yet to be loaded, pages of 2, words of 6 values, 1 change, 1 fault, one client at the table and one at the landing page and the API | a page boundary that a change moves; page numbers that wrap around; an asteroid refreshed under its approach's class |
| `pages` | 2 handlers, 2 asteroids, 3 approaches, 2 files, 2 changes, 1 fault | two changes fit before, between and after the statements of one answer; a stored answer, a waiting handler and a query under way |
| `etl_ledger`, `etl_hazards` | as `etl_load` | disagreements 1 and 2 of section 5 |
| `pipeline_rerun` | as `pipeline`, 2 faults | disagreement 3 |

Bounds are CONSTANTS that only count (`MaxFaults`, `MaxChanges`, `MaxEvents`, `MaxDay`, `MaxSweeps`) or instances of
the code's own limits made small (`BatchSize`, `Permits`, `Limit`, `Capacity`, `PageSize`, `Word`, ...). Three runs
start from interesting states instead of all (`MCInit`), and two of these look at the interesting part of the space
(`MCBound`):

- `catalog` begins with one catalog, descending for the column that may be NULL and ascending for the name; that both
  directions are handled alike for all values is the theorem `KeysetIsOrder`.
- `approaches` begins with three approaches, one of which has a class older than its asteroid's diameter and flag and
  stands behind one that is less dangerous (without the condition on stale classes `MostHazardousFirst` fails at once),
  or with two whose classes are current, the third yet to be loaded; each asteroid can be refreshed. It keeps one answer at a time and follows a walk over three pages.
- `pages` lets two handlers be active only with the cache on and asking for the same thing, for handlers that ask for
  different things meet in nothing; it keeps one stored answer, and of the two changes at most one is not of
  approaches. The theorems of `PageProofs` hold without any of this.

Deadlock is checked in every run but those of `EtlLoad`, where the invocations are used up in the end, and
`hazard_stream`, where the server is down in the end. `RunSymmetry` and `ClientSymmetry` are used for safety only. The type
invariants of the modules whose run does not list one are theorems.

**Fairness.** Nothing is assumed of faults, crashes, clients' requests, changes or midnights.

| module | assumed | why |
|---|---|---|
| `EtlLoad` | weak fairness of staging, starting, joining and of each task's own steps | the schedule starts the command; the runtime polls tasks; a semaphore of Tokio is fair |
| `AlertDispatch` | weak fairness of scan, task steps, joining | same |
| `HazardStream` | weak fairness of a handler's steps and of polling an open stream | the runtime polls; `CatchesUp` and `ShutdownDrains` therefore speak of clients that go on reading, since hyper polls a stream only when it can write |
| `Enrichment` | strong fairness of the plain sweep, weak of its steps, weak of a stamp growing old | the schedule starts it again and again, though sweeps of `pipeline` come in between; time passes |
| `Pipeline` | strong fairness of an unforced start, weak of the work | the schedule runs `pipeline`, which never forces |
| `CatalogPaging` | weak fairness of serving a request | a statement ends, one way or another |

## 4. Theorems

All proofs are checked by TLAPS down to the last leaf. Assumptions on constants are the named `ASSUME`s of the
modules, which TLC evaluates in the runs: finiteness where cardinalities are compared, limits in `Nat` (positive where
the code has a positive constant), no relation between limits and numbers of files, clients or faults.

- **EtlLoadProofs.** `LoadInvariant`: `LoadInv` is inductive. The difficulty is that the ledger statement comes
  several steps after the batches, and other invocations write the same row in between. The strengthening says: the
  records up to `pos` of a streaming task are stored (`PrefixStored`); a task about to complete, or through, has its
  whole file stored (`TaskDoneIsPersisted`); a row's event belongs to an invocation that has started, and a completed
  row's to a task that is over, so that no task still running can settle it (`EventIsOver`); what a task was told it
  inserted is stored and nobody else's. Everything rests on one monotonicity lemma: tables only grow. From it:
  `TypeCorrect`, `LedgerIsSound`, `SkippingIsSound`, `NewOnce`, `CompletedStaysGood`, and `LoaderRefinesStore` (every
  step maps to an ingest, an acknowledgement, a reopening or a stutter of `IdempotentStore`).
- **AlertProofs.** `AlertInvariant`: messages before the first row are matched by a fault or by a task about to record
  (`UnrecordedSends`), messages and pending sends together by faults and slots (`SendsBounded`), and a task about to
  record has its message out (`RecordingWasSent`). From it `RecordedStays`, `OnRecordIsSent`, `SurplusNeedsCause`,
  `AlertTypes`; and `AtMostOneMessage`, the promise of README.md:65 under the conditions on which it is kept: no fault
  and runs that take turns.
- **HazardProofs.** `StreamInvariant`: a handler between load and exchange has read a number below the cap, so the
  exchange, which requires the count to be that number, cannot pass it. From it `SubscribersCapped`, `StreamTypes`.
  `NoSilentGap` has an invariant of its own (`ToldInv`): what an attached client has been told is the cursor of its
  receiver, and the last event it was sent the number it arrives at. `StreamIsFeed` takes every step to a step of
  `EventFeed` or a stutter: a successful exchange is an admission, since the count is the number of attached clients
  and the number it was compared with below the cap; a receipt is hearing the next event and a lag missing some but
  never the newest, since what the client was told is where its cursor was and the buffer holds at least one event.
- **EnrichmentProofs.** `EnrichmentInvariant`: `Slots` relates dispatches since the last answer to lookups in flight
  and failures in a row, at each point of the loop; the asteroids answered are those of the buffer or stamped in this
  sweep, with the values JPL gave. From it `EnrichmentTypes`, `AnswersReachTheDatabase`, `SilentApiIsSpared`,
  `StampsAreEarned`.
- **PipelineProofs.** `PipeCorrect`: `PipeInv` says which files a task that is through may rely on, in fresh
  directories (`FreshFile`) and in forced runs without a failure (`ForcedFile`), and what vectors a stage has behind it.
  From it `PipeTypes`, `CompletedWhole`, `ForcedRepairs`, `VectorsAreComplete`. `WindowsPartitionDays`: every day of any
  range is in exactly one window, none of which is longer than asked, by a least counterexample.
- **CatalogProofs.** `KeysetIsOrder`: for rows of the catalog, the predicate of a cursor holds exactly of the rows
  that `ORDER BY` puts behind it, for all values and ids, with NULLs, in both directions. Irreflexivity, transitivity
  and totality of the order are lemmas. `QueriesAreShared`: with the cache on, at most one query per key is under way,
  whatever fails, expires or is dropped. `CatalogInvariant`: the order of a walk does not depend on when its pages were
  queried. Every page, cached or in flight, lies behind the cursor it answers (`PagesAnswer`); the cursor of a page, and
  of a request under way, is at or behind every row of the pages before it (`WalkLinks`, `RequestLinks`, by
  transitivity: NEXT takes the last row of the page, PREV a cursor that had the property already); and the history sent
  along is the list of those cursors (`HistoryLinks`). From it `PagesAscend`, `PrevIsTheWayBack`, `CatalogTypes`.
  `NothingIsSkipped` adds that a page, however old, holds every settled row between its cursor and its last row
  (`Sound`, `Held`; that the first rows of a sorted set are all up to the last of them is `FirstAreAll`), and that
  each page of a walk, and the request under way, begins where the page before it ends (`WalkFollows`,
  `RequestFollows`); the pages then tile the order, and a row that stays lies in exactly one of them. Nothing follows the page
  of a failed query, so an answered walk is answered all along (`WalkAnswered`).
- **ApproachProofs.** `ClassesFollowDanger`: a flag more, a nearer pass, a larger or faster body never lowers the class.
  `ButtonsLeadToPages`: the page buttons lead to pages there are, the current one among them, for any count and size.
  `ApproachTypes`, `AnswersMatch` (a key determines the question, and a stored answer is to the question of its key),
  `LabelsRight` (Euclidean division, and that no product wraps where the page exists), `MostHazardousComeFirst` (the
  order of the classes from `ORDER BY`, whatever `Load` refreshes; the order of danger from `ClassesFollowDanger` where a
  class is still that of its facts; a cached page keeps the rows it was made of).
  `NextLeadsToRows` needs all answers, stored, handed out or shown long ago, to agree on how many rows each view had
  after each change: `TotalsOK` says there is one such function, which a change of the rows extends. `WalksOK` says that
  the pages of a walk from the first are numbered and none but the last was without NEXT; if all counts on the way were
  made at the moment of the last page's rows, its number is at most that of the last page there was.
  `DriftIsBounded` counts crossings. Each page of a walk is cut from an order of the rows at its own version, and a row
  that stayed and ties with none keeps its place relative to the others in all of these orders (`OrderKept`; ties are
  judged against all rows there have been, `Past`, for a cached page may be older than rows deleted since). If it is not
  on exactly one page, then it is ahead of the boundary before some page in the order of the page before and behind it
  in the order of the page, or the reverse, or behind the end of the last page (`Landed`, `Leading`). At one boundary no
  more rows cross than rows were added or deleted between the two versions, because as many rows lead on both sides
  (`FewCross`); behind the end there are no more than the count of the last page did not see. Two versions differ by at
  most a row per change (`ApartBy`), and the union over the boundaries is at most as large as the changes (`Drift`; `FewLost`).
- **PageProofs.** The invariant says of every answer, stored, handed out or still incomplete, what its statements owe
  to the rows of their moments: later statements see a database that differs from the first one's by at most one row
  per change (`Changed`), so counts differ by no more; an unchanged version is an unchanged database. From it
  `PagesHaveTypes`, `NumbersAgree`, `PageIsConsistent`, `FoundAreShown`. `NewestIsKept` rests on one query per key: the
  answer stored next was begun after the one before it was stored or had expired.

**Only model-checked:** liveness, `HealthyChecked` and `RemovedIsCleared` among it, which is out of the prover's reach,
and the violations. Every safety property and both refinements that the runs check are theorems.

## 5. Where the code and its documents disagree

Each is a run that ends in a counterexample, with the quotation in `PROJECT.json`.

1. `etl_ledger`: a file recorded once under another event id (in the run's counterexample the process died; a failure or
   `--force` does the same) is loaded and its row stays *running* for ever, because the start keeps the old id and the completion looks for the new one
   (`database/repository.rs:257`, `:286`). Later runs load it again; nothing is lost.
2. `etl_hazards`: the statistics of a batch that carry new hazard events are never merged (`cli/load.rs:417`), so a
   successful publication publishes nothing.
3. `pipeline_rerun`: a torn file is taken for done; README.md:60 promises that rerunning is safe.

Observed while modelling, without a run of their own.

*Loading and stages.* The message of `alert` goes out before its row is inserted, so a process that dies in between
sends it twice, where README.md:65 promises at most once; `DuplicatesBounded` says how often. New ids of full batches
are dropped, so enrichment after `load` sees only the last batch's; a run whose alert stage fails loses all of them to
the plain sweeps. An empty webhook URL records approaches as alerted. An older file loaded later puts older metadata
back. A file that repeats an asteroid in a batch can never be loaded. `load` and `extract` return Ok with failed files
although `cli/pipeline.rs:52` says their failures abort the run. A batch size of 0 makes `extract` push windows for
ever, one above 7 is refused by NASA. Two extractors on one host share the temporary file of a window
(`nasa/asteroid_neows/api.rs:144`). Two overlapping runs of `vectorize` may end with the older vectors. A Sunday run
that fails before its last stage leaves the week without a report, and the report covers eight days, so a Sunday is in
two.

*Enrichment.* Five or more asteroids that always fail keep those behind them from ever being checked by `orbits`. A
failing candidate stream throws away up to 199 buffered answers. Any error status of SBDB with a JSON `message` counts
as "no record" (`nasa/jpl_sbdb/api.rs:62`): a limit of requests or a server error stamps the asteroid as checked, sets a
stored orbit to NULL and starts the count of failures anew, where `api.rs:40` promises `Err` and `cli/orbits.rs:82` that a
failed lookup is logged and skipped. An answer of Sentry with neither summary nor error clears the scales. When
NeoWs clears `is_sentry_object` (`database/repository.rs:419`) the row leaves every sentry sweep and keeps its scales,
which the dashboard takes for "currently on JPL's Sentry Risk List". `cli/sentry.rs:96` says that errors are
swallowed; they are returned. The release profile aborts on panic, so the isolation of a panicking lookup
(`cli/orbits.rs:63`) exists in debug builds only. A sweep of `orbits` holds one connection for its candidates and
needs another to flush.

*Server.* The keyset predicate of a column that is never NULL opens two parentheses and closes one
(`database/catalog.rs:177`), so page two of a catalog sorted by name or diameter answers 500 (`QueryRejected`). The
LISTEN task ends after one failed reconnection, although `events/pg_listen.rs:19` says it runs for the lifetime of the
process, and what is notified while the connection is lost is lost without a *lagged*; nothing in the repository sends
NOTIFY. `invalidate_all` is never called, and time to live counts from insertion; a 404 of an asteroid is kept for that
long after it is loaded. Waiting handlers are counted as misses. `api/types.rs:357` says an invalid cursor starts over,
the handler answers 400. Links of the next page drop a filter that is `false`. A page past the last one goes on
offering NEXT; page 0 and huge pages wrap around; size 0 makes 2³²−1 pages. A failed landing query shows zeros and an
empty table. A failed query of the catalog page is answered with 200 and an empty catalog without NEXT
(`api/handlers/catalog.rs:361`), which no reader can tell from a catalog without asteroids. The velocity chart of "7 days" leaves out the first day and includes everything still to come, and
its default is seven days where a comment says ninety (`velocity.rs:57`). Stored classes may be older than the flags
and diameters beside them, since a load refreshes the asteroid (`database/repository.rs:413`) and not the approach
(`:452`); the landing page, which sorts by the stored class, may then show a less dangerous approach first.

## 6. Not modelled, and why

- **Numbers and texts**: components of a vector, unit conversions, messages, templates, JSON layout. Of the fields of a
  record, those are modelled that a property tells apart.
- **`--dry-run`, counters, logging, metrics**: nothing that is modelled depends on them.
- **Cursor tokens**: decoding is the inverse of encoding except for floating-point values, where `serde_json` without
  `float_roundtrip` may be off by one unit; a matter of the library's arithmetic.
- **Row locks and the pool**: an aborted transaction, a deadlock victim and a task that got no connection are a failed
  statement of their module. Which waits PostgreSQL resolves, and in what order a statement takes its locks, is not in
  the source. Each statement is atomic, as PostgreSQL makes it.
- **Pruning in `EtlLoad`**: a pruned approach is meant to be gone, so `CompletedIsPersisted` speaks of approaches within
  the retention period. `AlertDispatch`, `ApproachPaging` and `DashboardPages` have pruned approaches, `Pipeline` and
  `DashboardPages` pruned rows of the ledger.
- **Filters beyond one of each kind**: they pick rows before paging and are part of the key, as the modelled ones are.
- **Metrics, settings, NASA clients, templates, token check, rate limits, headers**: no state of their own, stateless
  per request, or library code. The request timeout is `Leave` in every module with handlers.

## 7. State of the plan

Written, the most important state first (what is in the database and what the ledger says of it): `EtlLoad` with its
abstract store, `AlertDispatch`, `HazardStream`, `OrbitRuns`, `Pipeline`, `DashboardCache` with `CatalogPaging`; then
`SentryRuns` and `Enrichment`, trimming of the ledger and the last stages in `Pipeline`, `HazardRules` with
`ApproachPaging`, the LISTEN task, `DashboardPages`, `EventFeed`; proofs of every safety property of these.

Left: an abstract specification of the cache that all three modules over `DashboardCache` implement; that `alert`
implements an outbox with a bounded number of repeats. Lock order and the pool would need a model of PostgreSQL rather
than of this code.
