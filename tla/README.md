# A formal model of the job ingestion service

This directory holds TLA+ modules that model the concurrent core of the
repository: how jobs are fetched from We Work Remotely, parsed, identified,
stored and listed, how the health of the source is tracked, how several requests
share a rate limiter and lazily made globals, and how the dashboard page copes
with answers in any order. TLC checks the modules on small instances;
TLAPS proves the properties that matter most for every value of the constants.

`PROJECT.json` lists the runs, the code each definition stands for, one mutation
of the code for each property (a plausible bug that the property notices), the
hazards, the findings and the theorems. Paths below are relative to the
repository; those that begin with `api/`, `domain/`, `static/` or `storage/` are
under its `src/`.

    tlc -workers 2 -config MCIngestion_overlap.cfg MCIngestion.tla
    tlapm IngestionProofs.tla

## 1. Inventory

| Component | State | Operations | Interacts with |
|---|---|---|---|
| **Ingestion orchestrator** `src/services/orchestrator.py` | nothing between calls; a call's locals | `ingest` | adapter (one await), four repositories (five awaits), registry |
| **Adapter registry** `src/services/registry.py` | name -> adapter | `register`, `get_adapter` | orchestrator, providers |
| **Storage** `src/storage/*.py` | jobs by canonical id, runs, snapshot and health by source | upserts, inserts, `get_health`, list and count reads | PostgreSQL through a worker thread, or dictionaries |
| **Rate limiter** `src/infrastructure/reliability/limiter.py` | semaphore, interval lock, time of the last request | `async with limiter` | adapter |
| **Retry policy** `src/infrastructure/reliability/retry.py` | attempts made, per call | `decide`, `compute_backoff`, `apply_retry_after`, `sleep` | adapter |
| **HTTP transport** `src/infrastructure/http/*.py` | a client | `get` | the source |
| **WWR adapter** `src/adapters/wwr/adapter.py` | the limiter, the transport | `fetch_and_parse` | limiter, policy, transport, parser |
| **WWR feed parser** `src/adapters/wwr/parser.py` | none | `parse_feed` | identity, domain models |
| **Canonical identity** `src/domain/identity.py` | none | `canonicalize_url`, `generate_canonical_id` | parser |
| **Domain models** `src/domain/*.py` | none | validators | everywhere |
| **Providers** `src/api/deps.py` | two globals | `get_storage`, `get_source_adapter_registry` | every request, from the thread pool |
| **Ingestion route** `src/api/routes/ingest.py` | none | `trigger_ingestion` | orchestrator |
| **Read routes, application** `src/api/**` | none | list, count, get | storage |
| **Dashboard** `src/static/app.js` | page, cached jobs, staleness | asynchronous loads, `triggerIngestion` | the API |

How they interact: a `POST /ingest` resolves its dependencies in worker threads,
then runs `ingest` on the event loop. `ingest` awaits the adapter, which goes
through the shared limiter once per attempt; then it writes jobs, telemetry, the
snapshot, reads the health record and writes it back. Each storage await hands
the call to another thread. Nothing serialises two `ingest` calls.

What is hard, and what makes each part correct:

- **Orchestrator.** Every await is a point where another call overtakes this
  one, the storage fails before or after it committed (or commits later), the
  task is cancelled (its storage call may still land). Correct: what is announced as stored is
  stored; the last known good snapshot is never replaced by less than a
  successful run; the health record neither invents outages nor successes, and
  without overlap it is one atomic state machine.
- **Limiter.** Cancellation in three different waits, a clock read before and
  after a sleep, fairness of two queues. Correct: permits are conserved, the
  source sees at most `max_concurrent` requests, `min_interval` apart, and
  nobody starves.
- **Adapter and retry policy.** The backoff after an exception is slept with the
  slot held, the one after a status is slept without it; hostile `Retry-After`
  values; a loop bounded only by the attempts recorded. Correct: the budget
  holds, retries are paced like first attempts, each call ends, and an outage is
  recognisable as one.
- **Providers.** A test and an assignment by several threads without a lock.
  Correct: one instance from some moment on.
- **Parser and identity.** One item's failure must not touch its siblings; two
  spellings of a posting must get one id, two postings two ids, across runs.
  Correct: the table has one row per posting, the one edition that the last feed
  taken over gave first.
- **Job table and its readers.** Rows are replaced as wholes by overlapping runs;
  instants change zone on their way through the database; a client turns pages by
  offset while rows move. Correct: what is served is a record as it was parsed,
  and a reader who comes to the end has seen every job that kept its place.
- **Dashboard.** Answers arrive in another order than the requests left; the
  page's variables are shared by every activation in progress. Correct: what is
  shown is one answer as a whole, stale jobs are announced, the button starts
  one ingestion at a time and comes back.

## 2. Modules

| Module | Models | Level |
|---|---|---|
| `BatchOps` | what the adapter returns; source failure, de-duplication and limit, counts (`orchestrator.py:128-176`) | constant |
| `HealthTransition` | the health record computed from the previous one (`orchestrator.py:225-251`) | constant |
| `SourceHealth` | abstract: the record changes by one atomic transition per run | specification |
| `Ingestion` | `ingest`, the repositories, cancellation, late writes, the HTTP status of the result | specification |
| `PacedAccess` | abstract: what the limiter promises to a source | specification |
| `RateLimiter` | `__aenter__`, `__aexit__`, `_wait_for_interval` on asyncio's semaphore and lock | specification |
| `Transport` | `AsyncHttpTransport.get`: from what httpx delivers to an answer | constant |
| `RetryPolicy` | classification of answers, retry decision, delays | constant |
| `FetchLoop` | `fetch_and_parse`; composes `RateLimiter` (by `INSTANCE`), `RetryPolicy`, `BatchOps` | specification |
| `LazySingleton` | a global that its provider fills in on first use | specification |
| `Providers` | `api/deps.py`: two instances of `LazySingleton` in the order a request needs them | specification |
| `Identity` | `domain/identity.py`; the reference `SamePosting` | constant |
| `FeedParser` | `parser.py`: documents, items, the checks of `JobRecord` | constant |
| `JobRows` | `storage/mapping.py` for jobs, in both directions | constant |
| `JobBoard` | abstract: the store keeps one edition of each posting | specification |
| `Catalogue` | the jobs table between runs that fill it and a reader of the list; composes `Identity`, `FeedParser` and `JobRows`, implements `JobBoard` | specification |
| `Dashboard` | the jobs view of `static/app.js`: visit, triggers, paging, loads | specification |
| `MC*` | values of the constants for TLC | |
| `*Proofs` | theorems and their proofs, apart from the module they are about | |

### Ingestion

`pc[r]` is the await at which call `r` stands; an action is the code from one
await to the next, and takes the effect of the storage call that has just
answered. So `FetchReturns` evaluates the batch, sets `completed_at`,
de-duplicates and goes to the next await that the code's conditions choose, and
`ToTelemetry` stands for the construction of `IngestionStats`, whose validator
raises when the wall clock went back (`domain/ingestion.py`), after the jobs were
stored. `RejectSource` is the call for a source nobody registered, which builds
the same statistics and can die of the same clock. The variables `jobs`, `runs`,
`snapshot`, `health` are the four tables.

Failures follow `PostgresStorage`. A write that raises, by a timeout for
instance, never reached the database, was carried out, or still will be (`Fail`):
the third puts it among the writes that are under way behind the run's back
(`late`), from where `LandLate` carries it out at any later moment, between the
writes of the same or of another run. `save_jobs` reports the failure
(`JobsSaveFails`), the other writes swallow it (`TelemetrySaved`,
`SnapshotSaved`, `HealthSaved`), a failed `get_health` reads as "no record".
`Cancel` stops a call at its await; the write it waited for joins `late`, because
the worker thread goes on. `InMemoryStorage` never suspends, so its behaviours
are the ones without interruption.

`HttpStatus` is the answer of the route: by the first error of a failed run
(`FailureStatus`), 500 for a call that raised.

A job is its canonical id and, in the store, the run that wrote it last: that is
all the properties can tell apart. A batch is a sequence of ids and a sequence
of errors (type, scope). The statistics are functions of a run's final local
state, so `runs` is only the set of runs whose row exists.

### RateLimiter and FetchLoop

The monotonic clock is only ever subtracted from the last reading, so the model
keeps the difference (`since`), counted up to the longest interval, beyond which
nothing can tell it apart, and what is left of each sleep. A sleeper wakes at the
end of its sleep or any time later. `Enter`, `GetPermit`, `Pace`, `PacingDone`
and `Leave` are the stretches between suspensions; `CancelWait` is what `async
with` and the `except` clause of `__aenter__` do for a task cancelled in any of
the three waits. A task that finds the semaphore free does not suspend in the
code; that is the interleaving in which its three steps follow each other.

`FetchLoop` conjoins a step of the limiter with the step of the loop it belongs
to. `RetryException` sleeps at `holding`, with the slot; `RetryStatus` leaves
first and sleeps at `backoff`; a delay of 0 is not slept and goes straight back
into the queue (`Reenter`). What the source answers is what `Transport!get` makes
of a set of exchanges in `MCFetchLoop`: each class of status, each form of
`Retry-After`, bodies at the limit and beyond it with and without a declared
length, each exception of httpx.

### Identity, FeedParser, JobRows and Catalogue

A text is what it says, whether it is written in capitals and whether it has
stray white space: all that `lower()` and `normalize_string` change. A URL is what
`urlparse` and `parse_qsl` make of it, so that sorting the parameters leaves their
bag. The canonical id is the seed of the hash, which is taken to be injective.
An item is what `_text` finds in its elements; `ParseItem` has the refusals of
`_parse_item_inner` in `Complete` and those of `JobRecord` in `Valid`. An instant is
the reading of a clock in a zone: `ParsePubDate`, `FormatDatetime`, the database's
session (`Selected`) and `ParseDatetime` each convert it.

`Catalogue` reduces a run to `Parse` and `Save` (module `Ingestion` has the rest,
with jobs as bare ids); any number of runs may be between the two, and an upsert
may be lost. A request asks for a limit or for none (`Limits`; `KeptAt` is where
the records it leaves stand in the batch). `store` is the table. The reader opens the list, reads page after page while they are full
and stops at one that is not; ties in `published_at` are broken anew by every
query (`NewestFirst`), because nothing in the query breaks them. A query that
fails is answered with an empty page (`ReadFails`).

`ImplementsBoard` is the refinement of `JobBoard`: a posting is the set of names it
goes by under `SamePosting`, a definition that does not use the canonical id, and
`FeedsPublished` has the items that are usable when each is alone in a feed. So
the property relates the code to what a feed says item by item: one row per
posting, the first mention in the last feed that was taken over so far down
(`Taken`), whatever broken items stand beside it.

### Providers

`Test`, `Make` and `Return` are the three moments at which threads can
interleave in `if _g is None: _g = make(); return _g`. The storage may come out
as the in-memory one when `create_client` fails.

### Dashboard

An activation of an asynchronous function is a task: `Visit` is `initDashboard`,
each member of `Clicks` is what one click of the user starts. `step[t]` is where
the task stands and `pending[t]` the loads it awaits; an action is the code that
runs between two awaits, which JavaScript never interrupts. After a trigger that
got an answer, the loads are sent together and answered in any order
(`LoadAnswered`, `LastLoadAnswered`); after one that threw they are awaited one
by one (`NextRecoveryLoad`), and the jobs are then marked as stale.

A list of jobs is the page asked for and the number of jobs stored when the API
read it, which is any moment between the request and the answer, or none at all
when the query failed, because the repository swallows the failure (`Totals`);
what a page shows depends on nothing else. `loadJobCount` and
`loadLatestRun` write only figures of their own, so they are one load here, of
which the wait is kept. `view.table` and `view.rows` are the table on the screen,
`view.cached` is `cachedJobs`. The buttons are guards: a disabled button cannot
be clicked.

## 3. Runs

| Run | Instance | Question |
|---|---|---|
| `ingestion_sequential` | three runs, no overlap, six kinds of batch, job writes fail | Is the health record one atomic state machine that counts trailing outages? Is newer content ever replaced by older? |
| `ingestion_overlap` | two overlapping runs, four kinds of batch, limits 0 and 1, all five storage faults, failed writes of jobs and of health that land late, cancellation, clock slips | Is everything that is announced in the store, whatever happens? Is an outage or a success ever made up? |
| `rate_limiter` | three tasks, two permits, interval 3, jitter 1 | Are permits conserved, is access paced, is everybody served? |
| `fetch_loop` | two tasks, one permit, three attempts, twenty-four exchanges, cancellation | Do the retries of concurrent calls stay within budget and pacing? |
| `providers` | two triggers and a reader | Is the race confined to first use? |
| `dashboard` | a first or a later visit, two clicks, page size 1, up to two jobs | Does the page stay consistent when requests overlap? Can an ingestion be started twice? Does the button come back? |
| `catalogue` | three runs, nine documents, limits 0 and 1, pages of two, three session zones | Does the table show what the feeds said, one row per posting? Does an item hide another? Does a reader miss a job? |
| `lost_outage`, `forgotten_success`, `redated`, `provider_race`, `silent_failure` | one claim each | See section 6. |

Why the bounds are enough:

- Two overlapping runs give every order of the five storage operations of one
  run with those of another. A third adds only what counts to three, the
  UNREACHABLE threshold: sequential runs have three, `lost_outage` has three that
  overlap, and `OutagesAreReal` and `HealthAlwaysConsistent` are proved for any
  number.
- `Ids` has two elements and one feed lists one of them twice, so that
  de-duplication, the limit (1 cuts after the first) and partial overlap of two
  feeds all occur.
- The four batches of `ingestion_overlap` are one for each outcome and an empty
  feed; the two other ways in which a source fails are in `ingestion_sequential`.
- A failed write that lands late matters where the run goes on as if it were
  lost and something depends on it: the jobs and the health record
  (`LateWrites`). The writes of a cancelled run land late in all four tables, and
  the theorems of section 5 that do not assume `Sequential` are for every
  `LateWrites`.
- `MaxTime` bounds the readings of the clock. Without slips each fetch reads the
  next instant, so it equals the number of runs; with slips, 0..2 has readings
  before, at and after the start of a run.
- Three tasks on two permits: one inside, one pacing, one queued. Interval 3 and
  jitter 1 leave room for a sleep, a partial wait and a full wait.
- With one permit and two tasks, one fetch sleeps its backoff with the slot while
  another waits for it. Three attempts are the code's default; backoffs 1..3,
  ceiling 2 and 3 for `Retry-After`, against values -1, 0, 1, 9, NaN and absent,
  take each branch of the clamp.
- The documents of `catalogue` have four postings: one with a guid in three
  editions (a later date, an earlier one, a link with tracking), one known by its
  link only in two spellings, one whose link differs from it in one parameter,
  one without a link; the five kinds of refusal before a record is built, three
  of its validators; an empty feed and the three ways a document fails. Three
  runs can fill the table, change it under a reader, and change it again; four
  rows on pages of two make two full pages and an empty one.
- The visit and two clicks give three overlapping activations: two ingestions (or
  an ingestion and a turn of the page) whose loads interleave with those of the
  visit. With page size 1, two jobs make one page that is full, a second one that
  may be, and a third that is empty.
- Symmetry (`RunSymmetry`) is used only in runs without liveness, in
  specifications that treat all runs alike.

`CHECK_DEADLOCK FALSE` appears where each call happens once and the system then
stops; the limiter's and the loop's clocks never do.

## 4. Fairness

- `RateLimiter`: weak fairness of time, of the hand-over of semaphore and lock
  (asyncio wakes the first waiter), of the timer's wake-up and of `Leave`: a
  request ends because the transport has timeouts. (httpx counts them for each
  read, and the body is read before its size is looked at: a source that sends
  a few bytes for ever is beyond them, and beyond what is shown here.) None for
  `Enter` or cancellation. Weak fairness is enough because both queues are FIFO: the head of
  a queue stays enabled once it is.
- `FetchLoop`: the same for `Tick`, `Advance`, `Answered`, `Resume`.
- `Dashboard`: weak fairness of the answers: the API answers or the browser gives
  up, and a `fetch` that fails resumes its caller too. None for clicks.

`Ingestion`, `Providers` and `Catalogue` are checked for safety only and assume
no fairness: a call of `ingest` or of a provider is straight-line code, which ends
if its awaits do.

## 5. What is proved

All proofs are for arbitrary sets of runs, ids, tasks and callers, arbitrary
limits, intervals, attempt budgets and so on, under the `ASSUME`s of the modules
(finite sets of runs and tasks, at least one permit and one attempt, batches of
the adapter's shape, jitter at most half the interval). TLC evaluates those
assumptions in every run. One of them is a fact of arithmetic and not about the
code: `PowersOfTwoAssumption` in `RetryPolicy` says that `2^n` is a natural
number for the attempts that can occur; the provers know only that it is an
integer.

- **HealthTransitionProofs.** Lemmas about `NextHealth`: type, consistency of
  the status with counter and stamps, which fields come from where.
- **SourceHealthProofs.** Type, `HealthConsistent`, and `HealthAdvances` by way
  of `StampsInOrder` (no stamp is later than the record: without it, a new
  stamp could be earlier than the one it replaces).
- **IngestionProofs.** `TypeCorrect`. Then the inductive invariants:
  - `StoreInv` = `OrderInv` (jobs are written first, only for a source that was
    read and a batch that is not empty, and the snapshot only after a positive
    answer), `AnswerInv` (a positive answer means the jobs are in the store: no
    step ever removes one), `LateInv` and `SnapshotInv` (a snapshot is what such a
    run kept, also when its write lands late).
    From it: `SnapshotServable`, `SuccessServable`.
  - `HealthInv`: the stored record *and every copy in the hands of a run* count
    only runs that have reported. The copies are what makes it inductive: a
    stale copy may overwrite the record at any time. What a run writes counts
    one failure more than its copy, and that run itself is the additional one,
    because it had not reported yet. From it: `SuccessIsReal`, `OutagesAreReal`.
    `HealthAlwaysConsistent` needs only that each write is a value of
    `NextHealth`.
  - `SequentialInv` under the assumption `Sequential` (no overlap, cancellation,
    clock slip, late write or failed health read): at most one run is active,
    nothing is under way behind its back (`NothingLate`), it holds the record
    that is stored, and the record is older than the run's own stamp. It
    gives `HealthUpdateIsAtomic`: `Spec => SH!Spec`, the refinement of
    `SourceHealth`.
  - `PastInv`, under the same assumption: the clock has passed every fetch that
    ended, stored jobs come from such fetches, and a run that is over fetched
    before the one that is active. Whoever writes jobs therefore has the latest
    stamp of all, which gives `ContentStaysFresh`. With a health record that
    can be read and written, `CountInv` (the counter is the number of trailing
    failures in every state, not only between runs) is inductive: the run that
    ends is the latest, so it joins the trailing failures or empties them
    (`TrailingStep`). From it: `OutagesAreCounted`.
  - `StatsInv`: a run whose telemetry is stored has a batch of the adapter's
    shape and gave the store what it kept. With `KeptCount` (the first records
    of their ids are all different, so keeping them loses none) and
    `RejectionsAreTheFeeds` (a failed write is not counted as a rejected record)
    it gives `StatsAlwaysAddUp`, for any interleaving and any faults.
- **RateLimiterProofs.** `PermitsAreConserved` (by the cardinality of the set of
  holders), `LimiterType`, `PacingInvariant` (a sleeper's remaining sleep and
  the elapsed time together cover the interval, and there is one sleeper: the
  lock), and from them `LimiterPacesAccess`: `Spec => Access!Spec`, the
  refinement of `PacedAccess`. `QueuesMatch` is no promise of the limiter but
  bookkeeping that `FetchLoopProofs` needs: each queue holds exactly the tasks in
  its phase, each once; one lemma for each way a queue changes (`Join`, `Serve`,
  `GiveUpPlace`).
- **FetchLoopProofs.** `RetriesAreBounded` (by `BudgetInv`, which relates
  requests counted by the source to attempts recorded), `GivingUpIsJustified`
  and `FailuresReported` (by `ResultInv`, on the batch each return builds).
  Then the composition with the limiter: `LoopInv` is the limiter's own invariant
  and `PlacesAgree` (where a call is in the loop says where it is in the limiter).
  Every step of the loop is a step of the limiter, or leaves it and queues again
  at once (`LimiterMoves`), so that the lemmas of `RateLimiterProofs`, taken by
  INSTANCE, carry over. From it: `FetchLoopType`, `LimiterAlwaysComesBack` (a
  task outside holds nothing and waits nowhere, and the permits are conserved)
  and `LoopPacesAccess`, the refinement of `PacedAccess` by all calls together.
- **ProvidersProofs.** Both globals settle once. `ProvidersType`, whose part that
  matters is that no request is given None: whoever is about to read a global
  comes after somebody who made it (`ReadingInv`).
- **DashboardProofs.** `DashboardType`; `RowsAlwaysHaveDetails` and
  `StaleAlwaysAnnounced` from `ViewInv`, which every answer keeps
  (`AnsweredKeeps`): the code applies an answer as a whole. `IngestionsAreBounded`
  from `ButtonInv`: an enabled button is a permission to start one ingestion more,
  there is one permission, and the first visit's own trigger, which does not look
  at the button, is one more. It needs `PendingInv` (loads are awaited only where
  they were sent): otherwise the end of a load could give back a button that
  another task holds.

- **CatalogueProofs**, for any documents, runs, limits, page size and session zones.
  - *Selections.* The parser keeps the items that parse and the identity the
    parameters that do not track; both are `Pick`, whose lemmas give its length,
    its elements (`PickElements`) and how often each occurs (`PickCounts`) by way
    of the rank of a position. They count instead of going through the sequence
    element by element, so no induction over data is needed; where an argument
    wants a first element of some kind, `LeastElement` gives it.
  - *Parsing.* `ParsedFeed`: the records of a feed are its usable items, the
    errors stand for the others. With `BatchesParsed` (what a run holds is what
    it parsed, and stays so) this is `ItemsAreCounted`.
  - *The table.* `TableFromBatches`, the inductive invariant: every row is a record
    of some run's batch, under its own id. `UtcIsKept` and `RowOfRecord` say that
    the conversions into the table and out of it undo each other on records,
    because a record has its instants in UTC. From them: `ServedIsParsed` and,
    with the reader's `WalkType`, `CatalogueType`.
  - *The reader.* `WalkMissesNothing` is not inductive, it only speaks of a walk
    that is over. `WalkInv` adds what a walk under way relies on: of a job that was
    there at the start, kept a place of its own and has not been seen, at least
    as many are newer (`Ahead`) as the offset has passed. An upsert takes none of
    those away unless it gives one an earlier date, and in every order the query
    may choose a job with a place of its own stands right after the newer ones
    (`OwnPlace`), so it is on this page (`PageFacts`) or beyond it. From it:
    `ReaderMissesNothing`.
  - *The ids.* `CanonicalUrlIsPage`: two URLs have one canonical form if and only
    if they are of one page, because the bag of what is left of a query tells the
    numbers of occurrences. With the tiers of `generate_canonical_id` it gives
    `IdIsPosting` and `IdsTellPostingsApart`.
  - *The refinement.* `CatalogueIsBoard`: `Spec => JB!Spec`. Every row has the id
    of its name (`RowsNamed`), so what the board keeps of a posting is what the
    row of the posting's id holds (`BoardById`). A committed upsert takes over the
    feed its run parsed, up to the limit (`UpsertTakesOver`): two items have one
    posting if and only if their records have one id (`PostingIsId`), so the
    first mentions of the postings are the records that de-duplication leaves,
    and each row written is one of those (`RowsOfBatch`). All other steps leave the board as it is. `RowsNamed` also gives
    `PostingsHaveOneRow`.

  The assumptions are about data types only: the documents are feeds of items
  with the fields the parser reads (`AllFeeds`), and `Absent` is no text, date or
  URL.

Model-checked only:

- liveness (`EveryoneIsServed`, `EveryFetchEnds`, `ButtonComesBack`), which is
  out of the prover's reach under fairness.

Neither checked nor proved, but taken for granted: what `Identity` and
`FeedParser` abstract from (the grammar of URLs, dates and titles, and that the
hash of the canonical id is injective).

## 6. Where the code and its documentation disagree

Each has a run whose counterexample shows it.

1. `lost_outage`: the failure counter "accurately tracks repeated outages"
   (`tests/resilience/test_source_recovery.py:7`, `RESILIENCE_MATRIX.md:21`).
   It is read and written in two calls without mutual exclusion; overlapping
   failures write the same successor. `NoPhantomOutage` is the half that holds:
   outages can be lost, never made up.
2. `forgotten_success`: "Preserve prior last_success_at"
   (`orchestrator.py:233`). A failed read of the record looks like no record.
3. `redated`: an upsert works by "updating `ingested_at` while preserving original
   `published_at`" (`ARCHITECTURE.md:149`). The whole row is replaced
   (`storage/postgres.py:56`, `storage/memory.py:40`), so an item listed again with
   another date takes it. `WalkMissesNothing` is stated with that in mind: a job
   that is given an earlier date can move from a page still to come to one, or from
   one page to the next, under the reader.
4. `provider_race`: "a shared singleton registry" (`DECISIONS.md:33`). The first
   concurrent triggers can get one each. `RegistrySettles` is what holds.
5. `silent_failure`: the dashboard lets a 502 pass (`static/app.js:358`) in order
   to announce "Ingestion run status: FAILED. Reason: ..." (`static/app.js:365`),
   but the route raises for every failed run (`api/routes/ingest.py:90`) and the
   body it sends has no `status`. The run's failure is not shown; the present
   time is, as the last success.

Seen while modelling, without a run: `Retry-After` is said to be "clamped to
`max_backoff_seconds`" (`RESILIENCE_MATRIX.md:33`) and is clamped to
`max_retry_after_seconds`, which is larger by default (`retry.py:272`, `Delays`).
The snapshot store "maintains pointers to the latest successful snapshot of jobs"
(`ARCHITECTURE.md:162`), but `save_snapshot` overwrites the row of the source
without a look at its time stamp (`storage/postgres.py:254`): of two overlapping
runs, the one that read the source first may write last, and the last known good
goes back in time (what holds of it is `SnapshotIsStored`).
A load of jobs that fails in the database never reaches the branch "Retain
previously loaded data and mark as stale" (`static/app.js:282`): the repository
answers with an empty list and the route with 200, and the table is emptied. The
API reports a run's first error
(`api/routes/ingest.py:77`), and the persistence error is appended after the
record errors (`orchestrator.py:170`), so a failed job write of a feed with a
rejected record is reported as that record's error. After a last page that is
full, "Next" leads to an empty page that says no job was ingested yet
(`static/app.js:304`, `:239`).

## 7. Not modelled, and why

- The time a storage call or a request takes, except as order; lateness is
  nondeterminism.
- Of serialisation and validation: the rows of runs, snapshots and health
  records (`storage/mapping.py`), salary, requirements and metadata of a job, and
  the field checks that no property tells apart. What the rows of jobs go through
  is in `JobRows`, the checks that decide whether an item survives in `FeedParser`.
- The redirect hops httpx makes inside one `get`, and the parsing of headers other
  than `Retry-After`.
- Of the read routes: the counts, runs, snapshots, logs and health routes, each a
  copy of one repository call into a response. The list of jobs and the single job
  are in `Catalogue`.
- Of the dashboard: the logs view, the detail drawer, markup and styles, the
  advice on frequent clicks (`static/app.js:323-342`, a notice without effect),
  and the order of jobs within a page (`shuffleArray`).
- Static files, the configuration modules, the stubs under `src/` that hold only
  docstrings.
- More than one process: the limiter and the in-memory storage are per process,
  and the code makes no promise across processes.
- An exception out of `fetch_and_parse`: the adapter wraps what its transport and
  its parser raise into the batch it returns (`FailuresAreOutages`).
- Values of `retries` and `failed_requests`: the code writes 0.

## 8. Plan

Done first, because the repository's own promises are about it: ingestion and
its stores, the health record, the limiter, the retry loop; then the providers
they are shared through and the dashboard; then the parser, the identity of a
posting, the job table and its reader, and the transport. Next, in order:

1. A composition of `FetchLoop` and `Ingestion`, with feeds read by `FeedParser`,
   so that what a run does with a batch rests on what the loop and the parser can
   return, instead of the assumption that batches have the adapter's shape.
2. Counting and listing as two reads around a write, and the logs view of the
   dashboard.
3. Proofs about the compositions of 1 and 2. Every property that the runs check
   and that is not liveness has its theorem already.
