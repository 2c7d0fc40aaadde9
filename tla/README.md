# TLA+ specifications of Telemetry One's backend

These modules model the backend that turns telemetry into stored facts
(sessions, frame batches, completed laps, gap counts, lap samples, the detected
layout and engineer events), what is read back from them (summaries, statistics,
exports, advice), the pipeline that has an AI provider comment on them, and the
life of the server that runs all of it. They are read beside the Go code; every
definition that models code is listed with its lines in `PROJECT.json` ("map").

## 1. Inventory

| Component | State | Operations | Interaction | What is hard |
| --- | --- | --- | --- | --- |
| Sessions (`internal/sessions`, handlers in `internal/api`) | one record per session: status, chosen and detected track and layout | Create, End, SetTrackLayout, SetDetectedTrackLayout, FindByID | every handler validates against it; ingest writes the detected layout | a copy read at the start of a request is used calls later |
| Frame store, PostgreSQL (`telemetry/postgres_store.go`) | `frame_batches` rows under a unique `(session_id, batch_index)` | Append (a transaction), Frames | locks the session row that End updates; an advisory lock per session hash | index from a snapshot older than the lock; finish racing an append; rollback half way; lost COMMIT answers |
| Frame store, memory (`telemetry/store.go`) | a bounded list per session | Append with eviction, Frames | none with sessions | no second look at the session; eviction |
| Ingest handler (`api/routes.go`) | none of its own | validate, append, laps, gap counts, samples, detection, events, rejections | calls every store in turn without a common transaction | interleaving between any two calls; 500 in the middle; repetition of a batch that was partly applied |
| Laps (`internal/laps`) | rows of laps and of samples | ExtractCompleted, UpsertCompleted, CountTelemetryGaps, UpdateTelemetryGapCount, BuildLapSamples, UpsertSamples | derived from frames read back from the store | reads at different moments; resets to zero; first writer wins |
| Frame events (`events/producer.go`) | none | the best-lap, previous-lap and off-track rules | sees the stored frames, which already include the batch | stints and laps cut into batches |
| Event stores (`events/dedup.go`, `store.go`, `postgres_repository.go`) | the deduplicator in the process, a bounded list or table rows | Append, List | called once per generated event | decision and row are separate steps; failures, restarts; timestamps out of order |
| Rejection summaries (`telemetry/*rejection_summary*`) | counters per session | Append, Summary | last, best-effort call of ingest | never turns a 202 into an error |
| Normalisation (`telemetry/frame.go`) | none | Normalize, BuildRejectionSummary | first step of ingest | each frame is compared with the last accepted one only |
| Catalog (`tracks/catalog*.go`, `approved_geometry.go`) | immutable after the start | validation, listing, selection, geometry overlay, capabilities | detection, session handlers, advice, the seed | four filters over the same layouts; of several geometries for one layout the order of the checks decides which survives |
| Detection (`tracks/detection.go`) | none | observed lap, candidates, ambiguity | ingest and advice | repeated over a growing frame list; layouts of nearly equal length |
| Corners (`internal/corners`), rules (`events/rules.go`) | none | ResolveCurrent, AnalyzeCorner, Generate | catalog corners, lap samples | corners over the start line; thresholds replaced one at a time |
| Lap tracker (`geometry/lap_continuity.go`) | lap count, distance, metres forward | Update, Reset | projected distances | jitter, reversing, jumps, the line in both directions |
| Advice (`api/race_engineer_*.go`) | none | event selection, signals, context, request | event, lap and session stores, catalog, AI gateway | four sources for one track and layout |
| AI gateway (`internal/ai`) | token buckets, usage, audit log | PreCheck, ExecuteWithRetries, fallback, audit | advice and analyze handlers, an external provider | rate limit and retry races, deadlines, audit after cancellation |
| Server lifecycle (`api/server.go`, `persistence`, `cmd/api`) | schema, migration rows, seeded tracks, the pool, in-flight requests | start, migrate, seed, serve, graceful shutdown | replicas share a database; the pool is closed on shutdown | starts cut off half way, replicas starting together, requests still running when the pool closes |
| Summaries, statistics (`sessions/*summary*`, `internal/admin`) | reads | List, Summary, Stats | every store | each exists twice: Go over frames, SQL over batch rows |
| Export (`internal/sessionexport`) | reads | Export, its HTTP and command-line callers | frame store, track builder | refuses frames that a retry stored twice; reads that fail half way |
| Track builder, converters, simulator, configuration | files, environment | - | - | floating-point geometry |

Correctness, component by component: batches are numbered densely and a finished
session is frozen; a request's batches enter together or not at all; the first
report of a lap and the first detected layout stay; rows derived from frames are
those of the frames; an event is visible once and never suppressed in favour of
nothing; rules invent nothing and miss nothing because of how frames were batched;
the AI pipeline keeps to its rate, charges and audits a request once, and always
answers; what is accepted is in order and what is rejected adds up; a distance lies
in one corner at most; a layout is named only when no other one's score comes near or when it is the only exact match; both
implementations of a read agree; no replica serves without its schema, and a client
that finishes a session learns that it has ended.

## 2. Modules

| Module | Models | Depends on |
| --- | --- | --- |
| `FrameLog` | abstract specification: an append-only log per session, whole requests at a time, only while the session is active | |
| `PostgresFrameStore` | `PostgresStore.Append` at the granularity of SQL statements under READ COMMITTED, with Create and End of the sessions table | instantiates `FrameLog` |
| `PostgresFrameStoreProofs` | the TLAPS proofs | `PostgresFrameStore` |
| `FrameBatch` | `splitFramesByLap` | |
| `Laps` | package `laps` as functions of frames | |
| `FrameEvents` | the frame rules of `events/producer.go` | `Laps` |
| `FrameEventsProofs` | lemmas about the functions of `Laps` and `FrameEvents`: lists picked by position, stints and the tail of the stored frames | `FrameEvents` |
| `EventDedup` | `EventDeduplicator` | |
| `EventStore` | both event stores | `EventDedup` |
| `EventStoreProofs` | the TLAPS proofs | `EventStore` |
| `OffTrackStints` | how ingest feeds the off-track rule, batch by batch | `FrameEvents` |
| `OffTrackStintsProofs` | the TLAPS proofs | `OffTrackStints`, `FrameEventsProofs` |
| `Ingest` | `ingestFramesHandler` call by call, with the session handlers, in both runtimes | `FrameEvents`, `EventDedup` |
| `IngestProofs` | the TLAPS proofs | `Ingest`, `FrameEventsProofs` |
| `AiGateway` | the pipeline of `ComposePipelineWithAudit`: budget, rate limiter, retry loop, provider, usage, fallback, audit, with clients that go away | |
| `AiGatewayProofs` | the TLAPS proofs about the rate limiter and the rest of the pipeline | `AiGateway` |
| `Server` | replicas that start, migrate, seed, serve, drain, crash and restart, and the finish handler statement by statement | |
| `ServerProofs` | the TLAPS proofs | `Server` |
| `LapContinuity` | `LapContinuityTracker` as a state machine | |
| `Normalize` | the check of an ingest body, rejection summaries and their stores | |
| `Summaries` | session list, session summary and admin statistics, each in both runtimes | `FrameBatch`, `Normalize` |
| `Catalog` | validation, listing, selection, approved geometry, capabilities | |
| `TrackDetection` | `DetectTrack` and the seed catalog | `Catalog` |
| `Corners` | `ResolveCurrent`, `AnalyzeCorner` | `Catalog` |
| `EventRules` | `events.Generate` and `EngineerEvent.Validate` | `Corners` |
| `Advice` | the advice handler up to the call of the gateway | `TrackDetection` |
| `Export` | `Exporter.Export`, its callers, `validateBuildRequest` | `Laps` |
| `MC*` | instances for TLC; `MCFunctions` builds the inputs of the pure functions and states their properties | |
| `FunctionsProofs` | the TLAPS proofs about the lap tracker, the catalog and its corners | `MCFunctions`, `FrameEventsProofs` |

Definitions that begin with the comment "Faulty" are deliberately broken variants
of the definition that follows them. No specification uses them; `PROJECT.json`
("mutants") pairs each with the property that detects it.

### State and actions

`PostgresFrameStore`. `frameBatches` is the table as committed, `written` the
uncommitted rows of each request, `rowLock` and `advLock` the two locks.
`CheckSession` is the `SELECT ... FOR UPDATE`. One INSERT is two actions:
`StartInsert` takes the snapshot (`next`, `live`), `Insert` is what happens once
the advisory lock is granted, with its three outcomes (row, no row affected,
unique violation). `Commit` publishes the rows; its answer may be lost. `Fail`
is any other error, a cancelled request or the statement timeout, at any point.

`Ingest`. A request walks through the labels of `pc`; each action is one call
into a store. `snap` is the copy of the session that `validateSession` returned,
`todo` the rest of the loop in progress, `found` the detection result. `mode` is the
runtime the server was started with, chosen by Init from `Modes` and never
changed: with `"memory"` a call is a critical section, with `"postgres"` a
statement, so loops over laps or samples take one step per element. `Fail` answers 500 before
any call and undoes nothing. The append is one step here: that is what
`PostgresFrameStore` is shown to implement. A frame is a record of the fields
that rules look at; a sample is identified by the two frames it is interpolated
between, since its values are a function of them. `Upsert` states what the loop over
the reports leaves in the laps table (a report of a lap that has a row can only reset
its gap count), and `At` picks list elements by the rank of their positions; both are written
without recursion so that they can be reasoned about.

`EventStore`. `Pass` ends where the mutex is released, `Insert` and `FailInsert`
follow, `Restart` empties the deduplicator (and the store in memory).
`IDOf` maps the key to the event ID: the rules build the ID from parts of the key.

`AiGateway`. `bucket` is the limiter's map; tokens are counted in units of which
`TokenUnits` make a token and one comes back per tick of `clock`, so that no
fraction is needed. `calls` and `loop` are the locals of `ExecuteWithRetries`:
`Call` and the outcomes `Succeed` and `CallFails` are one `adapter.Analyze`, `Sleep`
and `Wake` the two halves of the wait before the next attempt. Seconds of a Retry-After
become a `time.Duration` by a product that wraps around (`Wrapped`), and a delay that is not
positive is not waited for; `failed` remembers when the last error was returned. `cancelled` is the
state of the request's context. A call that begins with it done sends nothing and
ends in `ErrProviderTimeout`; one that is under way may still end in any way.
`status` is what `FallbackService` makes of the result, `mode` the audit store:
the PostgreSQL one runs its INSERT under the request's context and loses the record
when that is done. The documents call the audit best effort, so this is no finding.
`grants` and `served` are history variables: when the limiter said yes, and whom
the provider answered. An answer without content counts as answered (it is
charged) and is then replaced by a fallback.

`Server`. `phase` is where a replica is between `OpenPostgres` and exit, `next` the
migration file it is at, `schema` and `recorded` the two halves of a migration that the
code does not put into one transaction. `ApplyMigration` can be repeated because the
files say so (`IF NOT EXISTS` and the like); `RecordMigration` cannot, the version is a primary
key. `Signal` begins `Shutdown`, `ClosePool` is the function given to
`RegisterOnShutdown`, which net/http runs in a goroutine of its own, so it comes
anywhere before `Exit`. `call` is the next statement of `finishSessionHandler` for each client, or
the last answer; `ended` is the set of clients whose UPDATE set `ended_at`, `early` that of
clients whose `endedAt` is before the start, chosen by Init and never changed. `classifyEndNoRows`
is the second look after an UPDATE without a row. A request
that has lost its pool gets 500, one whose process is gone gets no answer.

`LapContinuity`. The variables are the tracker's fields; `start`, `reversed` and
`lineBack` are history variables. `Update` has one disjunct per return of the code,
with the open and the closed track told apart in `Forward`, `Backward`, `IsJitter`, `IsForward`
and `IsReverse`.

The functional modules have no variables. `MCFunctions` builds one input at a time
(`input.kind` says for which functions; lists grow by one element per step), so that
every prefix is a state and every property an invariant over all inputs.

What the data is reduced to:

* `Normalize`: a frame keeps what frames are compared by; the other checks of a
  frame are the set `bad` of those that fail, still reported in the code's order.
* `RegressionThreshold`, the tolerance and the margin of `TrackDetection` and the pace
  threshold of `Advice` use exact arithmetic for the 3 %, 0.05 and 0.03 that the code
  computes in floating point; confidences are compared by cross-multiplication.
* Points of frames and centre lines lie on a line, so that `hypot` and `sqrt` are absolute values.
* `Summaries` takes the memory store before it is full and the database session in UTC
  (`ZoneOffsetMs`, 0 in the run); a list limit is at least 1, as `validatedQueryParam`
  in `routes.go` makes sure.
* `DetectTrack` stays a constant operator of `Ingest`: nothing there depends on how it scores.

## 3. Runs

| Run | Shows | Bounds |
| --- | --- | --- |
| `frame_store` | `DenseBatchIndex`, `NoLostRace`, `FinishedIsFrozen`, `ImplementsFrameLog`, `AppendReturns` | 2 sessions with one lock key, 3 requests of one or two batches: two requests on one session plus one that only collides on the key |
| `ingest` | `AcceptedIsStored`, `RecheckKeepsFinishedClosed` (PostgreSQL), `LapFirstReportWins`, `DetectionFirstWins`, `EffectiveLayoutInCatalog`, `TypeOK` | both runtimes; 2 concurrent requests that complete the same lap and detect different layouts, the first sent twice; 2 catalog pairs; in memory 3 frames and 1 event retained, so both stores evict |
| `ingest_serial` | `DerivedRowsExact` | PostgreSQL; a lap over three requests with a gap between them, a request without a valid frame and a malformed one; the first three may be sent twice |
| `event_store` | `NeighboursApart`, `SeenIsNewest`, `VisibleOnce`, `TypeOK` | both runtimes; 5 events, several keys of which two share an ID, limit 2, timestamps inside, at and beyond the window on both sides, one failing insert, one restart |
| `off_track` | `EventsAreOffTrack`, `OpenStintReported` | every pattern of up to 7 frames, every split into batches of up to 3 |
| `functions` | see below | frame lists of up to 4 frames (2 time steps, 4 distances), bodies of up to 3 frames out of 17, drives of up to 6 frames; lists of up to 3 corners, samples, manifest entries, events and laps; 2 sessions with 3 kinds of stored requests; catalogs of 2 tracks and 3 layouts; every lap of 190 to 214 m against every subset of 4 lengths, 5 laps of about 1 km against every subset of 4 lengths where metres and scores rank layouts differently, and the lengths of the seed; the tracker on a track of 7 m with tolerances 1, 3 and 2 |
| `server` | `ServingHasSchema`, `FinishedOnce`, `FinishLearned` | 2 replicas, 2 migrations of which 0 to 2 are in the database at first, 2 tracks, 2 clients with a valid `endedAt` or one before the start, 2 faults (a failed statement, a crash, a signal or an expired shutdown) |
| `ai_gateway` | `RateBound`, `CallsAreAdmitted`, `UsageCountsAnswers`, `AuditTellsOutcome`, `RetryWaits`, `RequestAnswered`, `TypeOK` | both audit stores; 2 requests of one session, a burst of one token of 2 units (so that a bucket can be empty, half full or full), 2 attempts, every provider error, no Retry-After, one longer than the backoff and one that overflows (a `Duration` holds 3 units, a second is 2); the clock runs to 2 and on while a request sleeps |
| `ingest_memory_finish` | violated: `FinishedTakesNoFrames` | 1 request |
| `ingest_cooldown` | violated: `CooldownOnDocumentedKey` | 2 requests in order |
| `event_store_failed_insert` | violated: `SuppressedHasOriginal` | 2 events, one failing insert |
| `off_track_closed` | violated: `StintAcrossBatchesReported` | as `off_track` |

The properties of `functions`, one question each:

* `DistanceAccounted`: does the tracker account for every metre?
* `DerivedRowsStable`: is what is derived from stored frames independent of retries
  and of arrival order?
* `ExportExact`: is an export whole or refused, for frames that a retry doubled, for
  requests stored out of order and for a read that fails?
* `BodyAccounted`: are all pairs of accepted frames in order although each frame is compared with
  one other only, and do rejection counts survive any split into requests?
* `RuntimesAgree`: do batches hold the frames they were split from, and do the Go and the SQL
  implementation of lists, summaries and statistics agree?
* `CatalogIsSound`: do listing, selection and detection use the same layouts, and does a
  distance lie in one corner at most, over the start line too?
* `SanitizedManifest`: which entries survive when bad geometry is skipped, and does
  it cost no layout anything else?
* `StartLineIsHarmless`: is a corner over the start line analysed like any other?
* `RuleEventsSound`: do the rules produce only valid events of the right severity,
  whatever thresholds are configured?
* `DetectionSound`, `DetectionIsStable`: is a layout named only when it is the only one within
  the score margin of the best or the only exact match, does an ambiguous answer name exactly
  those within the margin, is every layout of the seed that has its length to itself found, and is the measured lap final?
* `AdviceIsSound`: does the engineer hear of the right events with track and layout
  from one source, and what is the pace compared with? (The branch for "recent average"
  is never taken: that average contains the latest lap.)

The type invariants of `PostgresFrameStore`, `Server` and `LapContinuity` and all inductive
invariants are proved (section 4) and not repeated in these runs.

Deadlock is not checked: the models end when the bounded client has sent
everything. The four violated properties are disagreements between the code and
its documents or tests; `PROJECT.json` ("findings") quotes them:

1. in memory, frames of a request validated before the finish are stored after it;
2. the deduplication key holds the time range, so the best-lap rule stores one
   event per batch although the documents leave the timestamp out of the key;
3. a failed INSERT poisons the deduplicator, and the repetition is suppressed;
4. a stint that ends in a later batch than it began in is lost, because the
   accumulated frames already contain that batch.

`DetectionSound` states what the detector does, which is not quite what
`docs/track-catalog.md` (line 210) says: "within the configured tolerance for exactly one catalog
layout". A layout is detected by an exact match or a lead in score while others are within
tolerance too; `TestDetectTrackMatchesObservedLapLengthWithinTolerance` expects it of 5423 m,
with two layouts of 5434 m in the seed.

Fairness. `frame_store`, for `AppendReturns`: weak fairness of the statements of a request
that has begun. Go runs every runnable goroutine, and PostgreSQL grants a free
lock to a waiter; since each lock is held by one transaction that keeps making
steps, weak fairness is enough. Nothing forces a client to call, a session to be
created or a statement to fail. `ai_gateway`, for `RequestAnswered`: weak fairness of
the clock and of the steps of each request; timers fire, and a provider call ends
at the latest with the 30 s timeout of its HTTP client (`openrouter.go`). No client
has to call or to go away. `server`, for `FinishLearned`: weak fairness of the steps of a replica
(goroutines run; compose restarts a container that exits, `restart: unless-stopped`,
and one stopped for a deployment is started by it), of the handler of each client, and of a client that has no final answer, which
repeats the finish. Faults are bounded by `MaxFaults`, so that they do not go on for ever.

## 4. Proofs

`PostgresFrameStoreProofs` proves for every set of sessions, requests, batches,
lock keys and every hash function:

* `StoreInvariant`: `IndInv` is invariant; from it `TypeCorrect`,
  `BatchIndexIsDense`, `SnapshotNeverStale`;
* `FramesFinalAfterFinish`: the frames of a finished session never change;
* `StoreImplementsLog`: the store implements `FrameLog`.

Assumptions: a request has at least one batch (`InputsAssumption`; the handler
calls Append only with frames), the hash is a function to keys
(`HashAssumption`; collisions are allowed), and "nobody" is not a request.

The argument: dense numbering alone is not inductive, since an INSERT uses an
index read earlier. `IndInv` adds that a request past its check holds the row lock
of an active session (`Transaction`), that row locks belong to such requests
(`RowLockHeld`) and that the advisory lock is taken only under the row lock
(`AdvisoryUnderRowLock`). Hence nobody else changes the session's rows or status
before the request ends, its uncommitted rows are exactly the first `done` of its
batches right behind the committed ones, and `next` is the next free index. Both
error branches of `Insert` are therefore dead in this protocol: the advisory lock
and the `EXISTS` guard only repeat what the row lock guarantees. For the
refinement, a commit turns those rows into a concatenation; all other steps leave
the log alone or change the session's status as the log allows.

`AiGatewayProofs` proves `RateIsBounded` for every number of sessions, requests,
attempts, tokens and units: in any span of time a session gets at most a full burst
plus what is refilled in it. Assumptions: burst and units are positive
(`LimitAssumption`; `NewRateLimiter` replaces other values) and every request belongs
to a session (`OwnerAssumption`). The bound speaks of pairs of grants only and is
not inductive; `LimiterInv` relates it to the bucket: what is left in the bucket,
together with what was granted since any earlier grant, is no more than a burst plus
the refill up to `last`. `AvailableBound` carries this over to the present,
`AllowKeeps` takes a token out, and `OthersLeaveLimiter` shows that nothing else in the
pipeline touches the limiter.

It also proves every other safety property of `AiGateway`, for every number of
sessions, requests and attempts, every backoff and every Retry-After
(`BackoffAssumption`, `DurationAssumption`: times are natural numbers): `GatewayTyped`, `OnlyAdmittedCall`,
`UsageIsExact`, `AuditIsTrue` and the action property `RetriesWait`. The invariant
`PipelineInv` says what the runs' properties leave open between two steps:

* `AdmittedInv`: the requests that took a token (`TookToken`: underway, or with a call
  behind them) are finitely many and no more than the grants of their session. The set of
  requests itself may be infinite. A grant adds one member and nothing else does, so
  the property follows at the answer;
* `UsageInv`: usage counts the answered requests that are past `record`, since the charge is a
  step of its own after the answer; a request is answered by the provider at most once;
* `WaitInv`: a sleeping request has a timer not earlier than what is owed after the moment
  its error was returned, and one about to call again has waited for it; together with
  `AttemptsInv` this is `RetryWaits`. `DelayCoversOwed` is the arithmetic: a Retry-After that
  fits into a `Duration` is multiplied exactly. One that does not (9223372037 s and more) wraps
  around, possibly to a negative delay and no wait; no document speaks of such values, and
  `Owed` asks nothing of them;
* `AuditInv`: only answered requests are in the log, with the status that was answered.

`PowerIsNat` shows that the doubling backoff is a number (the library says nothing of `^`,
so it is the size of a power set).

`EventStoreProofs` proves `EventStoreTyped`, `CooldownBetweenNeighbours`,
`DeduplicatorAgrees` and `EventsVisibleOnce` for every set of calls, keys, IDs and
timestamps, every window and every limit (`LimitAssumption`: at least one event, as
`NewStore` makes sure; `EventsAssumption`: every event has a timestamp and an ID). That
neighbours are a window apart is not inductive: the deduplicator compares with what it
remembers, not with the list. `StoreIndInv` therefore includes `SeenIsNewest`. `EvictShifts`
shows that eviction only moves the list, so that neighbours stay neighbours, and
`InsertsInPostgres` that an event is stored outside the mutex only in PostgreSQL, where the
table's primary key takes over.

`IngestProofs` proves, for every set of sessions and requests, all batches, any number of
repetitions and any failure between two calls:

* `FinishedStaysClosed`, `FirstReportOfLapStays`, `FirstDetectionStays`: the action properties
  `RecheckKeepsFinishedClosed`, `LapFirstReportWins`, `DetectionFirstWins`;
* `AcceptedBatchIsStored`: what a 202 says in PostgreSQL (`AcceptedIsStored`);
* `EffectivePairInCatalog` and `IngestTyped`: `EffectiveLayoutInCatalog` and `TypeOK`.

Assumptions: accepted frames have a positive timestamp and no negative lap or lap time
(`BatchAssumption`; `Frame.Validate` rejects others), the catalog's IDs are not empty
(`CatalogAssumption`; the catalog's validation), capacities are positive
(`BoundsAssumption`; the stores' constructors replace other values, the sample step is a constant), and every request addresses a
session (`OwnerAssumption`). The last two theorems have a hypothesis of their own,
`DetectsFromCatalog`: what `DetectTrack` returns is a pair of the catalog or nothing. It
quantifies over all lists of frames, so TLC cannot evaluate it as an assumption;
the instance in `MCIngest` satisfies it by its form, and `DetectionSound` checks it of the
detector in `TrackDetection`.

The argument. `Writers` and `StepMoves` say once which call writes which variable and where
it leads; each invariant then needs its own writers only.

* `IngestInv` (no hypothesis): the rest of a loop is of the right kind and not
  empty (`LoopOK`), frames are those of the batches and within the capacity, the laps table
  is a function to rows. `ExtractLists` and `GapCountIsNat` are the lemmas about the
  functions of `Laps` that it rests on, and `UpsertRows` is the heart of `LapFirstReportWins`.
* `LayoutInv`: `EffectiveLayoutInCatalog` is not inductive, since detection writes on the
  strength of a copy that may be stale. The copy can be stale about everything but one
  thing: a track without a layout is given at creation only, before any
  request can have found the session (`FoundRowStays`). So when a detection reaches a
  row with a chosen track, that row has a chosen layout as well, which takes precedence.
* `StoredInv`: from its append on, a batch stands in the session's frames in one piece; every
  row of the laps table states a report of a stored frame; a lap that the batch
  completes has a row or is in the rest of the loop. In PostgreSQL frames only grow
  (`FramesGrow`), so the pieces stay (`PieceStays`, `ReportsStay`) whatever other requests append. Of the
  memory runtime this is not stated: its buffer evicts.

These inductive invariants were checked by TLC on the instance of the run `ingest` before
they were proved.

`ServerProofs` proves `ServerTypeCorrect`, `SchemaBeforeServing`, `SessionEndsOnce` and
`SessionEndIsFinal` for every number of replicas, migrations, tracks, clients and
faults, from `CountsAssumption` (the counts are natural numbers). That a serving replica has
its schema is not inductive: `StartupInv` says for each phase what the replica has
passed, that it is recorded, and that whatever is recorded has been applied; since
neither half is ever taken back, the work of other replicas and of earlier starts counts.
For the session, `EndInv` says that `ended` is empty or one client with a valid `endedAt`, that a
handler past its UPDATE belongs to that client, and that an UPDATE without a row has one of
two reasons, so that the error at the end of `classifyEndNoRows` is never returned.

`OffTrackStintsProofs` proves, for every set of non-empty batches, every frame period and
any number of frames (`BatchesAssumption`: the handler derives events only from a batch
with frames; `PeriodAssumption`: timestamps rise, as `Frame.Normalize` makes sure within a batch
and a client that sends in order across batches):

* `NoStintInvented`: every event spans stored frames with the car off the track throughout
  (`EventsAreOffTrack`);
* `OpenStintIsAlwaysReported`: a stint that the stored frames end with is reported from its
  true start, however it was cut into batches (`OpenStintReported`).

`EventsAreOffTrack` speaks of timestamps and is not inductive: nothing in it ties an event
to frames. `StintInv` adds that the i-th frame has the i-th timestamp (`FramesInv`) and that
an event was made of two stored frames with all frames between them off the track (`EventsInv`).
The substance is in `FrameEventsProofs`: `StintsFound` (the rule finds exactly the maximal
runs off the track that are long enough), `TailKinds` (what `appendOffTrackTail` puts before a
batch: nothing, the open stint, or, for the first batch of a session, a copy of the end of the batch
itself, since no stored frame is older), `TailIsSound` and `TailIsComplete` (in each of
these cases a run in the joined list is a run in the stored frames, and the run at
the end is found whole). For the first batch the copy is harmless: a run that leads over
the seam ends before it begins in time and is dropped as too short, unless the whole batch is off
the track and the run has its range. The violated property of
`off_track_closed` is what these theorems leave open: a stint that has ended.

`FunctionsProofs`, the lap tracker: `TrackerTypeCorrect` and `TrackerAccountsDistance` for every
length and every tolerance (`LengthAssumption`, `OptionsAssumption`: lengths and deltas
are positive, as `Update` and `normalizeLapContinuityOptions` make sure; the jitter may be
zero). The account is inductive together with the types; the arithmetic is in
`BothWays` (forward and backward distance add up to the length), `AdvanceAccounted` and
`ReverseAccounted`.

`FunctionsProofs`, the catalog:

* `EveryCatalogListsSelectable`, for every catalog (`IsCatalog`: its parts are lists, its
  lengths integers). Selection looks a layout up by its IDs and stops at the first match, listing walks
  over all of them. They agree because `rememberID` refuses an ID that occurs twice
  (`IDsAreUnique`, `UniqueIsFirst`): without it the first of two tracks with one ID would decide for
  the second. That what is listed can be detected rests on the positive length that
  `validateLayout` asks for.
* `EveryDistanceHasOneCorner`, for every length, every list that `validateCorners` accepts, every
  distance, open and closed tracks. The code compares a corner with the one before
  it, and the corner over the line with the first one. `CornersOrdered` (by the smallest
  counterexample) extends the first to all pairs, which needs that only the last corner
  leads over the line; `CornersApart` then excludes a common distance, over the line too.
* `CatalogSoundness`: both, as the invariant `CatalogIsSound` of the run, for every bound. `InputInv`
  says that the inputs built so far are catalogs and accepted lists of corners.
* `RangeChecksAgree`: the catalog and the corner analysis accept the same corner ranges.

Left to TLC:

* `AppendReturns`, `RequestAnswered` and `FinishLearned`: liveness under fairness;
* what folds, sorts and selections over sequences compute for every input, which is induction
  over data. `DerivedRowsExact` and `DerivedRowsStable` compare the results of sorting
  (`CountTelemetryGaps`, `BuildLapSamples`); `RuntimesAgree`, `BodyAccounted`, `SanitizedManifest`,
  `DetectionSound` and `DetectionIsStable` are about folds or orders of a list; `ExportExact`,
  `RuleEventsSound`, `AdviceIsSound` and the part of `StartLineIsHarmless` about the analysis of a
  pass are about selections.

No module declares a RECURSIVE operator.

## 5. Not modelled, and what is left

Not modelled, and why:

* the projection of a position on a centre line (`geometry/centerline.go`) and the
  pipeline of the track builder: floating-point geometry without shared state;
* `cmd/gt7convert`, `cmd/simfixture` and `telemetry/sim`: offline tools that parse or produce files;
* prompts, titles and recommendations: wording; JSON, logging and HTTP details;
* configuration: parsing of environment variables;
* the channel values of samples, which are functions of the two frames that a sample names.

Left to prove: `StartLineIsHarmless` for corners of any length and `DetectionSound` for
every catalog. The first needs facts about `SelectSeq` under a change of
distances, the second that cross-multiplied fractions order the candidates totally.
