# Verification of the ohsome API

TLA+ specifications of the ohsome API (`src/ohsome_api`), checked with TLC and
proved about with TLAPS. They cover what its tests can hardly reach: how
requests that run concurrently share two database pools, what interrupts them,
and what is left behind when something does.

## The system

The ohsome API is a FastAPI service in front of the ohsomeDB (PostgreSQL with
PostGIS and Citus). One asyncio event loop runs one task per request. There are
no background jobs and nothing is persisted: the state is the two connection
pools, the tasks, and the responses under way.

| Component | State | Operations | Interacts with |
|---|---|---|---|
| Connection pools, `db/db.py` | `pool`, `pool_extraction`, who holds a connection | `connect`, `disconnect`, `acquire_connection` | every call of the database access |
| Database access, `db/db.py` | the frames of the calls under way, their timers | `fetch_row`, `fetch_rows`, `fetch_batch` | pools, database, services |
| Statistics services, `service/stats`, `db/stats`, `db/time.py` | none beyond the request | latest timestamp, series, result | `fetch_row`, `fetch_rows` one after the other |
| Extraction services, `service/extraction`, `db/extraction` | a generator with an open cursor, a sink | first batch, stream, join or nested cursor per batch | `fetch_batch`, and inside its loop `fetch_rows` or another `fetch_batch` |
| Sinks, `parquet.py` | buffer, bounding box, writer | `write_batch`, `close`, `read_bytes` | extraction services |
| Query clauses, `db/clauses.py`, SQL in `db` | none; the ohsomeDB changes under them | time, area and member clauses of each query | services, database |
| Error handlers, `api.py`, `db/errors.py` | none | exception to status | everything |
| Lifespan, `api.py` | the pools | connect before the first request, disconnect at shutdown | pools |
| Request models, `request_models` | none | validation, bounding box, time range | routers |
| Routers, renderers, filter endpoint | none | wiring and formatting | services |

### What is hard

* **Concurrency.** A task gives up control at every await and every yield. An
  extraction holds a connection of one pool while it asks for one of the other
  pool, or for a second one of the same pool.
* **Interruption.** Three limits with different scopes (waiting for a
  connection, a statement, a whole cursor), database errors and clients that go
  away, each of which can strike at any await.
* **Generators.** `fetch_batch` is an asynchronous generator: suspended at a
  yield, it is not on the stack. An exception that leaves the task does not
  unwind it; it keeps its connection until it is closed.
* **Responses that have started.** After the first batch the status is out. A
  later error can only cut the body.
* **Data that changes.** The ohsomeDB is updated while requests are served. A
  request makes several queries, and a file is read batch by batch.
* **Start and end of the process.** Two pools are created one after the other
  and closed one after the other, around requests that use both.
* **Numbers at their limits.** Time series limits, bounding boxes beyond the
  antimeridian, inclusive and exclusive ends of time ranges, empty files.

### What makes each component correct

* Pools: every connection lent comes back, once; nobody waits for ever for one.
* Database access: a frame holds a connection exactly between its entry and its
  exit; a timeout is reported as what it is.
* Extraction: a file with a footer holds all batches, in order, once each; a
  file that does not is cut, never closed.
* Statistics: a request needs one connection at a time.
  What it counts is what its documentation says, up to and at its limits.
* Rows of an extraction: those that the documentation promises for the area, the
  time and the endpoint, as of one state of the database.
* Sinks: what the client gets is a file, or can be seen not to be one.
* Error handlers: a response has one status, it is final, and it says what the
  error was.
* Lifespan: both pools are there while anybody uses them, and a shutdown ends.

## The modules

### ConnectionPools

`conns[p]` is the set of frames that pool `p` has lent a connection. `Lend` and
`GiveBack` are the entry and the exit of `async with pool.acquire()` in
`acquire_connection`. A frame is a call of `fetch_row`, `fetch_rows` or
`fetch_batch`; a request has at most two at a time, `"cursor"` (the outer
`fetch_batch` of an extraction) and `"nested"` (the call in the loop over it, or
the only call of a statistics request).

### OhsomeApi

EXTENDS ConnectionPools with the tasks. Its state per request:

| Variable | In the code |
|---|---|
| `kind` | which endpoint was called |
| `phase` | before, `handling` (the endpoint is awaited), `streaming` (StreamingResponse has started), and how it ended |
| `call` | the database call of the nested frame: `latest`, `series`, `result`, `metadata`, `join`, `members` |
| `frame` | at which await or yield each frame stands |
| `extent` | how many batches the cursor, and with each of them the cursor over its members, has to give |
| `batch`, `sent` | which batch was fetched last; which were sent to the client |
| `status`, `error` | the status the response started with; the exception that ended the task |

The actions are the steps between two awaits:

| Actions | Code |
|---|---|
| `Submit` | a router calls its service, which makes its first database call |
| `Acquire`, `AcquireTimeout` | `acquire_connection` |
| `SetDone`, `CommandTimeout`, `NoRow`, `DatabaseFails` | the statements of `fetch_row` and `fetch_rows` |
| `NextCall`, `Answer`, `Refuse` | `service/stats`, `db/time.py` |
| `FetchBatch`, `FetchMembers`, `CloseCursor`, `CloseMembers` | `fetch_batch` as a cursor, outer and nested |
| `Join` | `join_changesets_to_extraction_rows`, `extract_features_collection_members_collections` |
| `SendBatch`, `SendFooter` | the `stream` generators of `service/extraction` |
| `DeadlineFires` | the `asyncio.timeout` of `fetch_batch` |
| `Disconnect` | Starlette cancels a streaming response whose client is gone |
| `Finalize` | the event loop closes a generator that was left suspended |

How much a cursor has to give is decided when it is opened, since it reads one
state of the database: `extent` is chosen by the first `FetchBatch` out of
`ExtentsOf`, and `YieldOf` says from it at which of its two yields `fetch_batch`
stands. No action of the stream reads it, which knows only whether its loop
goes on; `FilesAreWhole` compares what was sent with it.

`Raise` is what all errors have in common: the frame that awaits is unwound and
gives its connection back, a suspended one is not, and the response is answered
by a handler or, if it has started, cut.

Assumed of the libraries:

* asyncpg: a pool lends at most `max_size` connections; a connection whose
  holder failed is usable again or replaced. Its waiters are served in order of
  arrival; the specification serves any, which allows more.
* Starlette with Hypercorn: the disconnect of a client cancels the task that
  streams to it, and nothing listens for it before the response starts.
* asyncio: a timeout cancels the task that entered it, wherever it awaits; the
  hooks for asynchronous generators close those that are dropped.

An error while a batch is written to its sink has the same effect as
`Disconnect` at the same place under another name, and is not an action of its
own. A rollback while an exception leaves is part of `Raise`; its duration is in
Timeouts.

### Timeouts

One request with a clock. `timer` holds when each of its timers is due; `layer` is
the context manager that an exception leaves next. `Inside` and `Around` say how
the context managers of `db.py` are nested, `Leaving` what their except clauses do
to an exception. The pool, the database and the client may take any time at each
await (`Tick`).

`Plans` are the calls a request makes one after the other, `Following` the awaits of
each call, one for each statement. With every batch an extraction may make an
`inner` call: a join (`fetch_rows`, with the limit of the statistics) or a nested
cursor (`fetch_batch`). Its awaits are the `Nested` ones; its statements are
awaited one after the other as `nested_query`, and its context managers are one
layer, `nested`. The deadline of the outer cursor goes on meanwhile.

At its client and in an inner call the task is not inside its own cursor, whose
generator is suspended: an exception goes past it to the handler (`Handle`) and
the connection stays `acquired`. The fourth timer, `close`, is when the event loop
closes that generator: `Close` raises the `GeneratorExit` at its yield, and the
transaction is rolled back under the limit of any statement before the
connection is given back. So the time a connection is kept is followed to its
end, also if a slow client is what the deadline interrupted.

Giving a connection back takes no time. The connection of a nested cursor that
is left suspended is not followed here, the one of a suspended outer cursor is
(OhsomeApi has both).

### Versions

The table `contributions` of the ohsomeDB, as the queries depend on it: `versions`
holds the versions of each object with `valid_from`, `valid_to`, a tag and
whether it is deleted, `last` is `contributions_state.last_timestamp`. `Ingest` adds
an edit. Updates are not part of this repository; assumed of them is that they
come in the order of time, never at or before `last`, and each in one
transaction with the timestamp.

### Statistics

EXTENDS Versions with one statistics request and its up to three database calls.

| Actions and operators | Code |
|---|---|
| `Requests` | the times a request may have after `request_models/time.py` |
| `ResolveLatest` | `get_latest_timestamp`, in `service/stats` |
| `MakeSeries`, `GenerateSeries`, `WithEnd` | `generate_timestamp_series`: its SQL with the limit, the uneven end |
| `ValidAt`, `Snapshots` | `features.sql`, `get_features` |
| `Rows`, `TooManyResults`, `Grouped` | `features_group_by.sql` with its limit, `get_features_grouped_by_tag` |
| `Counted`, `Bucket`, `Bins` | `contributions.sql`, `currentness.sql`, `zerofill_records_to_time_bin_columns` |
| `Update` | an edit that comes between two calls |

What the request counts is compared with definitions that do not use its SQL:
`Existing` looks for the newest edit of each object, the bins with sets of times.

### Responses

The abstract specification of the service: what a client sees. An answer has one
status; it is given in one piece (`Reply`), or it starts with an extent, sends the
batches of that extent in order and then ends as a whole, or is cut at any
point. OhsomeApi implements
it under the refinement mapping `Answered`, which forgets connections, frames and
errors: a request that was `truncated` is cut, one that is `complete` or `failed`
is whole. The property is `ImplementsResponses`, that is `Responses!Spec` of the
mapped variable. Its hard part is `Finish`: a footer may only follow the
last batch there was to send (`All`), of the last cursor over members, and `Send`
only sends the batch that comes next (`After`), so that none can be left out.

### Lifespan

EXTENDS OhsomeApi with the process around it: `server` is how far the server is
and `pool` the state of `Database.pool` and `Database.pool_extraction`.
`CreatePool`, `CreationFails`, `DisconnectPools` and `PoolClosed` are `connect` and
`disconnect` of `db.py`, called by `lifespan` of `api.py`. `Serve` is a step of a
request, which can be submitted only while the server serves. `StopAccepting` and
`CancelTask` are Hypercorn's: it stops accepting, waits for what is in flight for
some time, cancels the rest, and then lets `lifespan` go on. A generator that a
cancelled task left suspended still has its connection, and asyncpg's `close`
waits for it.

### BoundingBox

`AoiRequestModel.bbox` as operators: which boxes are accepted (`Accepted`) and
the polygons they become (`Spans`). `Contains` is what a box means: the points it
reaches going round by whole turns. Coordinates are integers of any unit.

### Sinks

The classes of `parquet.py`: `buffer` is what the writer wrote since it was read
last, `body` what the response was given, `bounds` the box of the rows so far.
`WriteBatch`, `CloseSink` and `AbortSink` are `write_batch`, the end of the `with`
with the `read_bytes` after it, and a `with` that is left by an exception: the
footer is written then too, but nobody reads it. Where no rows were written, the
box is infinite and written as such: `Footer({})` (in the code `json.dumps` writes
`Infinity`, which is not JSON).

### Extractions

EXTENDS Versions, BoundingBox and Sinks: one extraction request of any kind and
the rows it returns, while the database is updated before and between its
batches and until the file is closed or cut.

| Actions and operators | Code |
|---|---|
| `Requests` | the request models in `routers/extraction` and `request_models/time.py` |
| `Refuse` | a box that the validation of `request_models/aoi.py` refuses |
| `FilterByTime`, `EditedInRange`, `ValidAtTime` | the time clauses of `db/clauses.py`, `contributions.py` and `features_collection.py` |
| `Selected` | the query of the cursor: `features_clip.sql`, `features_no_clip.sql`, `contributions.sql`, `features_collection.sql` |
| `JoinedMembers`, `WithMembers`, `Converted` | the query for the members of a batch, and what is made of its rows |
| `Open`, `FetchBatch`, `Deliver` | `fetch_batch`, whose cursor reads the state of the database at which it was opened |
| `Write`, `Close`, `Cut` | the `stream` generators with their sink |
| `Update` | an edit that comes between two of these |

What a request returns is compared with `Expected`, which looks for the newest
edit of each object up to a time and does not use `valid_to`, the status of a
version, or the polygons of the box.

### MCOhsomeApi, MCExtractions

OhsomeApi with the symmetry of requests, and Extractions on a small map, for TLC.

### The proofs

`OhsomeApi_proofs` (the requests), `Answers_proofs` (what their clients see),
`Lifespan_proofs` (startup and shutdown around them), `Timeouts_proofs`,
`BoundingBox_proofs`, `Statistics_proofs` and `Extractions_proofs` hold the theorems.
`Versions_proofs` holds lemmas only: what an edit does to the versions, which
Statistics and Extractions both need.

## What is checked

| Run | Instance | States | Shows |
|---|---|---|---|
| `mixed` | 3 requests of 5 kinds, 1 stats and 2 extraction connections, up to 2 batches | 1.0 million | `TypeOK`, `ConnectionsAccountedFor`, `StatsHoldersNeverWait`, `OnlyCutResponsesLeaveConnections`, `SelfBlockNeedsMembers`, `ResponsesAreFinal` |
| `lifespan` | 2 requests of 4 kinds, no symmetry, up to 2 batches, each with up to 2 of members, from the start of the process to its end | 0.4 million | `PoolsOutliveTheirUsers`, `FilesAreWhole`, `ImplementsResponses`, `ConnectionsReturn`, `RequestsSettle`, `ShutdownCompletes` |
| `selfblock` | 2 members requests, 2 extraction connections | | `FirstBatchSecuresConnection` is violated |
| `timeouts` | limits 1, 2 and 3, the loop closes after 1, clock to 12 | 5 thousand | `TypeOK`, `NoQueryTimeoutInExtraction`, `BareTimeouts`, `OnlyWaitingIsBusy`, `ExtractionConnectionIsBounded` |
| `extraction_limit` | the same | | `ExtractionLimitIsReported` is violated |
| `stats_limit` | the same | | `StatsRequestsTimeOut` is violated |
| `statistics` | 2 objects, 2 groups, 4 points in time, intervals -1 to 2, limits 3 | 0.5 million | `TypeOK`, `SeriesCoversRange`, `BinsShareOutTheRange`, `SnapshotsAreExact`, `LatestResultsHold`, `SmallGroupedResultsAreWhole` |
| `series_limit` | the same, series limit 2 | | `SnapshotsWithinLimit` is violated |
| `group_limit` | the same, group limit 1 | | `GroupedResultsAreWhole` is violated |
| `extractions` | 2 features and 1 relation, 4 points in time, 6 boxes, 2 member filters, batches of 1 | 5.1 million | `TypeOK`, `OnlyWholeFilesHaveFooters`, `ExtractionsAreExact`, `LatestCollectionsAreOfTwoMoments` |
| `latest_snapshot` | the same | | `LatestCollectionsAreSnapshots` is violated |
| `beyond_antimeridian` | the same with a box beyond the antimeridian | | `ExtractionsAreOfTheBox` is violated |

Why the bounds are enough:

* Three requests are one more than the larger pool has connections: a request
  waits while others hold, and one that holds waits while another does. With
  one stats connection, joins and statistics compete for the same one.
* `MaxBatches` and `MaxMemberBatches` count the full batches before the last
  one, which is the shorter one that ends a cursor. In `lifespan` both are 1: with
  two batches of collections and one or two of members for each, a stream goes
  on within a cursor, from the end of one to the beginning of the next, and
  from the last to the footer; the last batch is the first one or a later one.
  In `mixed` `MaxMemberBatches` is 0, since its questions are about connections,
  which a second batch of members holds as the first does.
* A request slot is used once. A later request of the same client is another
  element of `Requests`.
* The three limits differ, so that no two timers are due together by accident,
  except the deadline and the command timeout of a cursor, which are equal in the
  code too when `timeout_extraction` limits both. The longest stretch to
  the return of a connection is one acquire, a deadline, the rollback of a nested
  cursor, one delay of the loop and the rollback of the outer one: 1 + 3 + 3 + 1 +
  3 = 11, and the clock reaches 12. It is also beyond three statistics calls that
  each wait as long as they may and have one statement that does (9).
* Four points in time are enough for edits before, at, inside, at the end of and
  after a range, for a series that its interval divides and one that it does
  not, and for series below, at and above the limit. Ranges of three are longer
  than `CheckSpan` and those of one or two are not. One object has up to three
  versions, two can share a group or not.
* In `extractions` a half turn of the map is 4 units, one feature lies on either
  side of the antimeridian, and the boxes hold one of them or both, within the
  map, across either edge of it and around it; two are refused. A relation gets
  up to three versions, with either member or both. With batches of one row
  there is a first, a middle and a last one, and two features are two batches.
  What the bounds leave out: features do not move and are points, so that
  clipping one means leaving it out, and two relations at once. A member of a
  current relation is not deleted, which the OSM database itself prevents.

Deadlock is checked in all runs of OhsomeApi: a state without a successor would
be one in which a request is stuck (`Quiescent` is the only stuttering). In
Timeouts the request ends and the clock stops, in Statistics and Extractions it
ends, so it is not.

### Fairness

`Timers` assumes weak fairness of what the event loop itself does: that
`AcquireTimeout`, `CommandTimeout` and `DeadlineFires` happen if they stay
enabled (the timers run) and that a dropped generator is closed (`Finalize`).
It assumes nothing of the database, of the pool or of the clients: none of them
ever has to answer. `RequestsSettle` therefore leaves out one state: all batches
are sent, no connection is held, and the client does not read the footer.

`Stopping` assumes, only of a server that has been told to stop, that it goes on:
it cancels what is in flight in the end (Hypercorn's graceful timeout), and
`disconnect` takes its steps once the connections it waits for are back. Nobody
has to tell it to stop, and both pools need not ever be created.

### Findings

* **`collections_members` can block the extraction pool** (`selfblock`).
  `extract_features_collection_members_features` acquires a second connection of
  the extraction pool in the loop over the first cursor. As many members
  requests at once as the pool has connections all wait for each other, until
  `pool_acquire_timeout` cuts them; their responses have already started.
  `SelfBlockNeedsMembers` shows, and `SelfBlockTakesMembers` proves, that nothing
  else does this.
* **An extraction that exceeds its limit before it starts is a 500**
  (`extraction_limit`). The deadline of `fetch_batch` leaves as a bare
  `TimeoutError`; `QueryTimeoutError`, whose message states the limit for
  extractions, is never raised by a cursor (`NoQueryTimeoutInExtraction`). Only the
  query of a join raises it, when the response has started and can only be cut.
* **A statistics request can be answered after the 180 s in which the
  documentation says it times out** (`stats_limit`). `timeout_stats` limits each
  statement, and nothing limits the request. The run shows one call of
  `fetch_rows` whose statements, each within the limit, add up to more than it and
  all waits for connections together; the calls that other requests make before
  it add to that. The `metadata` endpoint, of which the documentation does not
  speak, is left out of the property.
* **Collections up to `latest` are no snapshot** (`latest_snapshot`). A timestamp, of
  which `latest` is the shorthand, is "a single point in time (snapshot) of OSM
  data" (`docs/source/reference/time.rst:16`). The relations are read in the
  transaction of the cursor and the members of each batch in a later one. In the
  run a relation loses a member after the cursor was opened, the member is edited
  after that, and the answer has the relation as it was with the member as it
  became: no moment had both. `LatestCollectionsAreOfTwoMoments` states, and
  `LatestCollections` proves, what is left: each collection is as of the opening,
  its members are all of one later moment. A time that is given as such is a
  snapshot (`ExtractionsAreExact`).
* **A time series can have one snapshot more than documented** (`series_limit`):
  the limit is checked before the uneven end is appended. Time bins keep their
  limit, having one point more than bins.
* **A grouped result can lack a row without being refused** (`group_limit`).
  The SQL is cut at one row more than the configured limit, and the result is
  refused only if groups times points are more than that: a result that is cut
  to exactly that many rows is answered, and a group, or features without the
  tag, are missing from it and from the totals. A single point in time with
  more groups than the limit is such a request.
* **A box beyond the antimeridian selects another stretch** (`beyond_antimeridian`).
  A box with `xmin > 180` or `xmax < -180` is accepted, but only its far edge is
  moved onto the map. For every box that reaches the map as it is the split is
  right, as `BoxSelectsWhatItMeans` proves.

Two more were met while modelling and need no model checker to be seen:

* **A topology error is not explained, any other internal error is taken for
  one.** The condition in `handle_topology_error` (`api.py:109`) is the wrong way
  round: it raises a `TopologyException` again, which becomes a 500, and answers
  every other `InternalServerError` with a 422 that blames the area of interest.
  `StatusOf` has it as it is.
* POST and GET of the collection endpoints differ in the default of `clip`
  (`routers/extraction/collections.py:74` and `:99`).

A negative interval, which validation lets pass, gives an empty series, of which
`generate_timestamp_series` reads the last element: the request ends in an
`IndexError` and so with a 500. No document says what it should give.

The documentation also gives 240 s for extractions
(`docs/source/reference/api.rst:7`), where `config.py:23` defaults to 180 s. Both are
configurable, so no run states it.

## What is proved

`OhsomeApi_proofs` and `Answers_proofs` prove for every set of requests, all pool sizes and all
numbers of batches:

| Theorem | Property |
|---|---|
| `TypeCorrect` | `TypeOK` |
| `AccountingCorrect` | `ConnectionsAccountedFor` |
| `StatsPoolProgress` | `StatsHoldersNeverWait` |
| `CleanEnds` | `OnlyCutResponsesLeaveConnections` |
| `SelfBlockTakesMembers` | `SelfBlockNeedsMembers` |
| `FinalResponses` | `ResponsesAreFinal` |
| `WholeFiles` | `FilesAreWhole` |
| `Implements` | `ImplementsResponses` |

`Lifespan_proofs` proves for the same constants, and `Timeouts_proofs` for every
length of the three limits and of the loop's delay:

| Theorem | Property |
|---|---|
| `PoolsOutlive` | `PoolsOutliveTheirUsers` |
| `ShutdownAccounts` | `ConnectionsAccountedFor`, with cancelled tasks |
| `TypeCorrect` (Timeouts) | `TypeOK` |
| `NoQueryTimeout` | `NoQueryTimeoutInExtraction` |
| `OnlyBareTimeouts` | `BareTimeouts` |
| `OnlyWaitingIsToldBusy` | `OnlyWaitingIsBusy` |
| `ConnectionIsBounded` | `ExtractionConnectionIsBounded` |

`Statistics_proofs` and `Extractions_proofs` prove for all finite sets of objects, all
numbers of tags and times, all limits, boxes, member filters and batch sizes:

| Theorem | Property |
|---|---|
| `TypeCorrect` (Statistics) | `TypeOK` |
| `SeriesCovers` | `SeriesCoversRange` |
| `SnapshotsExact` | `SnapshotsAreExact` |
| `LatestHolds` | `LatestResultsHold` |
| `BinsShare` | `BinsShareOutTheRange` |
| `SmallGroupsAreWhole` | `SmallGroupedResultsAreWhole` |
| `TypeCorrect` (Extractions) | `TypeOK` |
| `FootersAreOfWholeFiles` | `OnlyWholeFilesHaveFooters` |
| `ExtractionsExact` | `ExtractionsAreExact` |
| `LatestCollections` | `LatestCollectionsAreOfTwoMoments` |

and `BoxSelectsWhatItMeans` of `BoundingBox_proofs`, which `ExtractionsExact` rests on,
is about the operators alone. So every safety property of a passing run is
stated by a theorem.

The inductive invariant `IInv` of the requests is `TypeOK`, `ConnectionsAccountedFor`
and `TaskDiscipline`. `ConnectionsAccountedFor` is not inductive by itself: that a
request gives back the right connection depends on which frames it can have
open. `TaskDiscipline` says that a task awaits in one frame only (`OneAwait`),
which states of the frames each phase allows (`PhaseFits`), and which calls
each kind makes (`CallFits`). The other properties follow from `IInv` in one
state. `SelfBlockTakesMembers` also counts: if every connection is with a
members request, and no members request that waits has two, there are at least
as many requests as connections. `FinalResponses` is about steps: with `IInv` it
needs `StatusFits`, which says in which phases the status is still open.

`WholeFiles` needs an invariant of its own, `SentFits`, which relates what was sent,
the batch fetched last, the extent and the frames: the batch fetched last is either
the next to be sent (`Fresh`) or was the last that was (`Done`); and a generator
stands at its last yield, or has passed it, just when its cursor has no more
(`StreamFits`, and `MembersFit` for the cursors over members). A footer is sent only
when the outer cursor has ended, so what was sent last is then the end of the
extent. `Implements` follows from both invariants and a case for each action: it
maps to the step of Responses of that name, or, where only connections and frames
move, to a stutter.

`Lifespan_proofs` reuses the invariant of the requests. What is new is that the
server cancels a task wherever it is: `RaiseInductive` shows that `IInv` survives
an exception in every phase, not only where the code of OhsomeApi raises one.
`LifeFits` adds which states of the pools each state of the server allows, that
no task is live once the pools are being closed (`SettledStepsFinalize`: all that
moves then is the closing of generators), and that a closed pool has no
connection out.

In `Timeouts_proofs`, `WaitingFits` ties the timers of a call to the moment it got
its connection: the deadline of a cursor stands `TimeoutExtraction` after it, and
no limit of a statement of a cursor is due earlier, because each is armed later
with the same length; only a join has a shorter one. `LayersFit` and
`UnwindingFits` tie the exception to the context manager it has reached. `KeptFits`
bounds the time that is left, in the three ways a cursor can end: by an exception
of its own (`RaisedFits`), by one of its stream, with an inner call that rolls back
first (`LeftFits`), and by the event loop, which closes what was left (`ClosingFits`).
`EndFits` says which timers are armed meanwhile. The bounds follow because the clock
does not pass a timer that is due.

`BoundingBox_proofs` proves, with no invariant, that the polygons of an accepted
box that reaches the map as it is (`ReachesTheMap`) hold exactly the points the
box means, for every resolution of the coordinates. The box of the finding above
is the one that `ReachesTheMap` excludes.

`Versions_proofs` says what any sequence of edits leaves: `HistoryFits`, of which the
main part is `Chained`. The versions of an object do not overlap, and each that
ended is followed by one that begins there. So an object has at most one version
valid at a time, and it is the one of the newest edit (`NewestIsValid`): this is
why `ValidAt`, which reads one version, agrees with `Existing`, which searches the
edits. `KnownAt` is what the table said at an earlier time, with the ends that were
not known yet still open; an edit after that time does not change it.

In `Statistics_proofs` the invariant adds to that `SeriesFits` (the series begins at
the start, ends at the end and goes up, each step but the last being the
interval), `AnswerFits` (what was answered is the answer from the versions) and
`PastFits` (for a request up to `latest`, the versions at the moment the timestamp was
read are `KnownAt` of it). Without `PastFits` nothing would relate the transaction that
reads the timestamp to the one that reads the values. `LatestHolds` then comes down
to `Answer` of `KnownAt(versions, end)` being `Answer` of `versions`: no clause of the
queries reads a time behind the end. `BinsShare` and `SmallGroupsAreWhole` speak of
sums over bins and groups. That a sum of the sizes of disjoint parts is the size
of their union needs no induction theorem: of the sets of parts for which it
failed there would be a smallest (`SmallestSubset`, from the well-foundedness of
strict inclusion), and taking one part away gives a smaller.

In `Extractions_proofs` the invariant follows the rows. `Cursor` is what the cursor
has to deliver, `Undelivered` what is left of it, and `BatchFits` says that a batch
that is not full was the last. `PlainFits` says of the queries without members that
the client has what was delivered and nothing else. `NestedFits` says the same of
collections whose members are read later: a collection that is still to be
delivered has no rows yet, and one that was delivered is `Settled`, that is, all its
rows are those of one moment between the opening of the cursor and now. An edit
keeps that, because it does not change the rows as of an earlier time
(`EditKeepsRows`). `SinkFits` ties the parts of the file to the batches and the box to
the rows written; that a batch makes the box grow as it should is `HullGrows`.
`ExtractionsExact` needs besides that the polygons select what the box means, and so
holds, as the property says, for boxes that reach the map as they are.

TLC checked the invariants on the instances of the runs before they were
proved, and every strengthening was made where a step of the proof asked for it.

The assumptions are those the modules name; TLC evaluates each in the runs of its module:

* `RequestsAreFinite`, `PoolSizes`, `OfferedKinds`, `KnownErrors`, `BatchBounds`,
  `TimeoutsArePositive`, `ClockBound`, and `CloseDelayIsNatural`: the event loop closes
  a generator some time after its task is gone. In CPython it is dropped with the
  last reference to it and the loop's hook makes a task that closes it, so this is
  soon, but nothing in the code limits it: the bound on connections is relative
  to that delay;
* `ObjectsAreFinite`, `VersionBounds`, `SpecialTimes` and `LatestIsNoTime` (`latest` is not a
  point in time), `IntervalsAreBounded` (intervals may be negative), `Limits`;
* `Angles`, `BoxesAreBoxes`, `FeaturesHavePlaces`, `CollectionsAreObjects`,
  `FiltersLetPass` (one filter lets all pass), `BatchesAreNotEmpty`, and
  `TimeOfTheImport`: the database of an extraction was imported at time 1, so there
  is such a time.

Only model-checked: the liveness properties `ConnectionsReturn`, `RequestsSettle`
and `ShutdownCompletes`, since fairness is out of the prover's reach, and every
property a run shows to be violated, where the trace of TLC is the evidence.

## What is not modelled

Formatting, OpenAPI texts, validation by pydantic, the filter language (a
library; of an extraction only the member filter is modelled, as the set of
members it lets pass), measures other than counts, the geometry of a clipped
feature, the parsing of WKT and GeoJSON areas (shapely), the columns of the files
other than those that identify a row and give its extent, `debug_query` (off by
default), and the reuse of a socket by asyncpg. `api_key_header_scheme` checks
nothing. A file without rows, whose box is infinite, is modelled, but whether
readers accept it is not this code's to say.

## The plan

The modules were written in this order, the requests and their connections first,
since every other component meets in them:

1. ConnectionPools and OhsomeApi, with the invariant and its proof;
2. Timeouts, Versions and Statistics;
3. Responses, what OhsomeApi promises its clients, and the refinement with its
   proof;
4. BoundingBox, Sinks and Extractions, the rows of a request and the files made
   of them;
5. Lifespan, startup and shutdown around the requests, and its proof;
6. the proofs about Timeouts and BoundingBox;
7. the proofs about Statistics and Extractions, with the lemmas about Versions.

What would come next is an Extractions whose features have an extent and may lie
partly in the box, once the clipping of their geometry is worth a model.
