# event-collector: a verification project

TLA+ models of event-collector, checked with TLC on small instances, and
theorems about them checked with TLAPS for every size. Every definition is
translated from the Python source; `PROJECT.json` maps each one to its lines.
Paths below are relative to the repository; `E/` stands for
`src/event_collector/`.

## 1. Inventory

The collector accepts immutable fact events over HTTP (or from a file on the
command line), keeps each one as one JSON object in a directory tree (the
archive) and records it in a SQLite ledger. Nothing runs in the background:
all work is done inside the calls of `IngestService.ingest`. But the HTTP
handlers are plain functions on a thread pool, and the command line and further
server processes open the same database and directory, so calls interleave at
every SQL statement and system call.

| Component | State | Operations | Interacts with |
|---|---|---|---|
| Ingest service, `E/ingest/service.py` | none of its own; locals of a call | `ingest`, `get_event` | ledger (calls), storage (calls), routes and CLI (callers) |
| SQLite ledger, `E/ledger/` | `ingest_event` (one row per id), `ingest_attempt` (one row per attempt) | `insert_received`, `get_event`, `mark_stored`, `mark_failed`, `record_attempt`, `mark_hash_conflict` (never called), `initialize`, `is_ready` | shared by threads and processes |
| Filesystem storage, `E/storage/filesystem.py` | objects and temporary files below `raw/` | `write_raw_event`, `is_ready` | shared by threads and processes |
| Envelope and hashing, `E/api/schemas.py`, `E/hashing.py` | none | validation, canonical JSON, SHA-256 | everything |
| HTTP routes, `E/api/routes.py` | the results of a batch while it runs | single and batch ingest, lookup, readiness | ingest service, debug bus |
| Debug event bus and stream, `E/api/routes.py`, `E/cli.py` | `_history`, `_subscribers`, `_closed`, one lock, a queue per client | `subscribe`, `unsubscribe`, `publish`, `close`, `is_closed`, `history`, the stream coroutine, `handle_exit` | handler threads, event loop, signal handler |
| Debug page, the script in `E/api/routes.py` | the message buffer, filters | merge, clear, refresh, connect and reconnect | history and stream routes |
| Server lifecycle, `E/cli.py`, `E/main.py` | PID files, processes, the port, the tables of the ledger | `server start` in the foreground and in the background, `server stop`, `server status`, `create_app`, `initialize` | ledger (makes the tables), bus (closed by the signal handler) |
| Client commands, `E/cli.py` | none | `db init`, `ingest file`, `events get` | ledger, ingest service |
| Configuration, scripts, Makefile | none | | |

Behaviours that are hard here, and what makes each component correct:

* **Ingest.** Two first submissions of one id race on the UNIQUE constraint; a
  producer retries while its first call still runs; the process dies, or one of
  the operations fails, between any two of row, object, mark, attempt and
  answer. Correct means: what is acknowledged is archived and stays so, one id
  stands for one event, a conflict is only reported when there is one, a retry
  can always finish, a replay is a duplicate, and every answer is on record.
* **Ledger.** `mark_*` is SELECT, UPDATE, COMMIT, SELECT in autocommit reads:
  another call may commit in between, and the ORM writes back only the columns
  that differ from what it had loaded. Correct means: a row keeps its identity,
  its status agrees with the archive, a stored row is taken back only where the code
  means it to be, for a failure that is on record.
* **Storage.** The existence check and `os.replace` are separate, the temporary
  file must go whatever fails, and what survives power loss is what was synced.
  Correct means: no half-written and no changing object, a returned path holds
  the text it was called with, nothing left behind.
* **Debug bus.** Publishers copy the subscribers under the lock and serve them
  without it while clients come (with a replay of the history) and go; the
  signal handler takes the lock on a thread that may already hold it. Correct
  means: each line once and in a publisher's order, none lost between replay and
  fan-out except to a full queue, no leaked queues, ingestion never blocked,
  one interrupt ends every stream, at once or, if its client does not read, when the
  shutdown times out.
* **Routes.** A batch is a sequence of `ingest` calls; an exception the service
  does not define aborts it half way, and an interrupt may close the debug bus in
  between. Correct means: the results fit the answers, a repeated batch completes, and
  a status code tells rightly whether to send an event again.
* **Debug page.** Stream and history overlap and are merged by event id in a
  bounded buffer; a refresh is answered late. Correct means: no event twice, none
  lost but for a full queue or buffer, a refresh makes up for what was lost before it,
  a full buffer gives up what came first, and what the default window covers is shown.
* **Lifecycle.** Every process makes the tables when it starts, each statement
  committing by itself; a PID file may be stale, empty, overwritten by a second
  start or taken away by a stop, and PIDs are used again. Correct means: nobody
  serves without tables, processes that start together never all fail of each
  other, a server started in the background can be stopped, and a stop ends its
  server and nothing else.

`PROJECT.json` lists every hazard with its line and the properties that cover it.
Some have none: the code runs into them (the ways a PID file goes wrong) or
the model leaves out what they are about (section 7); their notes say which.

## 2. Modules

| Module | Models | Built on |
|---|---|---|
| `FilesystemStorage` | `write_raw_event`, one action per system call | |
| `SQLiteLedger` | rows, attempts and the effect of each statement (operators) | |
| `IngestService` | `ingest` of any number of calls, one action per ledger operation or system call | EXTENDS `SQLiteLedger`, INSTANCE `FilesystemStorage` |
| `EventArchive` | the abstract specification: an id is bound, its text kept, then acknowledged | |
| `IngestServiceRefinement` | the refinement mapping, `ImplementsEventArchive` | EXTENDS `IngestService`, INSTANCE `EventArchive` |
| `HttpApi` | single and batch posts and the lookup, one action per step of a handler | EXTENDS `IngestService` |
| `DebugEventBus` | bus, stream coroutines, publishers, signal handler | |
| `DebugPage` | the page's buffer with its two sources, window and filters | |
| `ServerLifecycle` | processes, their PIDs and the port; making the tables; start, stop and the PID files | |
| `MCFilesystemStorage`, `MCIngestService`, `MCHttpApi`, `MCDebugEventBus`, `MCDebugPage`, `MCServerLifecycle` | small instances | |
| `IngestServiceProofs` | in any configuration, under any failure and interleaving: types, row identity, the audit trail, one event hash per id, where errors come from, replays | EXTENDS `IngestService` |
| `IngestArchiveProofs` | with event hashes required: rows, objects and acknowledgements | EXTENDS `IngestServiceProofs` |
| `IngestPromiseProofs` | conflicts, replays and the refinement of `EventArchive` | EXTENDS `IngestArchiveProofs`, `IngestServiceRefinement` |
| `HttpApiProofs` | what the service promises reaches the producer | EXTENDS `HttpApi`, `IngestPromiseProofs` |
| `FilesystemStorageProofs`, `DebugEventBusProofs`, `DebugPageProofs`, `ServerLifecycleProofs` | the safety properties of each module | EXTENDS the module |

Names are the source's: actions are called after the function or branch they
model, constants after the configuration switches. The definitions under
"Variants as a plausible bug would write them" are not part of any
specification; each is a wrong version of one definition and is there to show
that a property notices the mistake.

### FilesystemStorage

A *writer* is one call of `write_raw_event`; `wpc` is the system call it is
about to make. `files[p]` is what a reader of a path sees: a whole text,
`Absent`, or `Torn` for an incomplete file. Temporary names come from `mkstemp`
and are private to a call, so `temps` is indexed by the call. `Replace` does not
change `durable`: the directory is never synced, and `PowerLoss` may show any
name as it last certainly was. `FailEarly`, `FailLate` and `FailUnlink` are an
`OSError` before, inside and in the `finally` part of the `try`;
`FailAfterReplace` is one that comes when the rename is done, from looking for the
temporary file or resolving the path: the call raises and the object is there.

Standing alone, the module lets two calls overlap on one path only if they have
the same content (`Start`). That is the use the class is made for, since the
ledger settles which content an id has; later calls may bring any content.
`IngestService` does not use `Start`: there, what overlaps is the service's
doing.

### SQLiteLedger and IngestService

A *request* is one call of `ingest`; `pc` is its next operation. `rows[id]` is
the `ingest_event` row (the columns the service reads), `attempts[id]` counts
`ingest_attempt` rows by status. `snap[r]` is the row object the call has loaded,
which may be stale by the time it is used: `Flush` writes back the columns whose
assigned value differs from the loaded one and leaves the others as the database
has them by then. `insert_received` is two actions, `Insert` (INSERT and COMMIT,
or rollback after the `IntegrityError`) and `Reread`; `mark_stored` is three,
`LoadForStored`, `CommitStored`, `Refresh`; `mark_failed` is three as well: what its last SELECT
reads is not used, but it may fail, and then the row is failed and the answer a server
error. `WriteRawEvent` runs the storage module's steps for
this call and goes on with `mark_stored` or the `except` branch when it ends.

Data: an envelope is its id, its *place* (the three fields the directory is made
of), its payload and the two hashes it declares. `sha256_json` is an injective
constructor: SHA-256 is assumed to have no collisions. `_safe_segment` is a map
from places to directories that may send two places to one, as it does for
names that differ in characters it replaces. Timestamps are left out; the
returned `IngestResult` is reduced to status and `storage_uri`.

`LedgerFault` is a `sqlite3` error at any operation (typically a lock that is not
released in time): the code does not catch it, so the call ends with a server
error and nothing is committed. `Crash` ends a call between any two operations.
Two history variables tell what a resubmission may expect: `replayed[r]`, whether an
identical envelope had been acknowledged when `r` was submitted, or had been stored by
a call whose answer was lost; and `overlapped`, the ids of which two calls have been in
progress at once.

### EventArchive

What a producer is promised, without ledger, files or hashes. `Bind`, `Keep`,
`Acknowledge`, `Deny`, `Refuse`: an id is bound to one text for ever, the text is
kept, only then is a request for it acknowledged, and a request is denied only if
the id is bound to another text. In the mapping an id is bound when its row is
committed and kept when an object with the row's text can be read.

### HttpApi

A *post* is one HTTP request with its handler thread; `Events[p]` are the calls
of `ingest` it makes. `Announce(p)` is `_publish_debug_event` before each of them: it
records the event in the history of the bus if there is one (`DebugMode`) and nobody has
closed it, which `CloseBus`, the interrupt, may do at any moment; the requests in
progress go on. `HandlePost(p)` is a step of the current call together
with what the handler does when that call has returned or raised: append a result
and go on (`IngestEventBatch`, with `Report` for the two `except` clauses), answer
(`IngestEvent`, with `StatusCode`), or, for an exception neither route names,
answer 500 and drop the results so far. A handler whose process died never
answers. The module needs no more of the bus than which events it has recorded
(`streamed`); how lines get from there to the clients is `DebugEventBus`. `promised[g]` is a history variable:
what had been acknowledged for an id when `g` looked it up. The path of a lookup
holds a text, `wants[g]`: an id as ingestion spells it, or another spelling that
means the same id (`IdOf`) but, as the route does not normalise, finds no row
(`Selected`).

### DebugEventBus

Three kinds of actors share one lock: publishers (pool threads), stream
coroutines (all on the main thread, one at a time, giving way only where they wait)
and `handle_exit`, a Python signal handler that runs on the main thread
on top of whatever it was doing; while it is in progress no coroutine runs. A coroutine
waits in two ways. `asleep` is the idle sleep, which ends by itself (`Wake`). `sending`
is the `yield` of a line: the server's `send` returns when the client has room for it
(`SendReturns`), which may be never. Either wait can be cancelled, because the client
has gone (`Cancel`) or because the graceful shutdown has timed out (`Expire`).
`publish` is `PublishLock`, `PublishBody`, one `PutNowait` per copied subscriber
and `PublishReturn`. `log`, `since` and `missed` are history variables: every
line ever remembered, where a client's replay began, and what a full queue
dropped for it. `SignalPoints` says whether the interrupt may arrive while the
main thread is inside a critical section.

### DebugPage

A message is a place in `log`, the list of everything published, so that two
submissions of one event are two messages with one `event_id`. `queue` is what is
on its way to the page, `snapshot` a history response on its way. JavaScript runs
one task at a time: each action is a task between two `await`s, with the merge,
the new window (`FollowNow`) and the rendering that end it; as rendering starts
anew from the buffer and the fields every time, what is shown is the operator
`Shown` and no variable. The two loops over the messages are functions of the number
of turns made (`Merging`, `Filtering`). Reading is modelled line by line, which allows more
interleavings than chunks of several lines do. The server side is reduced to
`Publish`, `connect` and `Restart`. `complete`, `covered` and `asOf` are history
variables: the page has lost nothing since it connected or was made good; it has lost
nothing since the server read the response that is on its way, so that
merging it makes the page complete again; and when the page last looked at the clock.

### ServerLifecycle

A *process* is known by its PID and begins (`Begins`) with any PID that is free;
all PIDs are of one length, so that what is written over an empty file is never
half of another PID. `pc[p]` runs through `initialize`, in the order of
`create_all`: a look for each of the two tables, then CREATE TABLE and CREATE
INDEX for each that was not found, where a table that another process has made
meanwhile is an error nobody catches. Then a server installs its handlers, binds,
serves, closes and drains, and the other commands work. A process of any
kind may die anywhere (`Dies`, which also stands for a ledger that is locked during
startup), and other programs get PIDs too (`Stranger`). A *command* is a run of
`server start --background` (`Spawn`, `OpenPidFile`, `WritePid`) or `server stop`
(`FindPidFile`, `ReadPid`, `Kill`, `Unlink`), one action per system call, and
may be ended between two of them (`CommandDies`). All of them use one
configuration, hence one ledger and one port, and any of the PID files. A file
that is unlinked while a start holds it open keeps no name: `linked`.

Three history variables name the exceptions the properties allow. `exposed` are
the servers the operator has lost sight of: by a second start with their PID
file, by a start or stop at the file while they were being started, or by a start
that was cut off. `stale` are the PID files that may name somebody else: left by
a server that ended by itself or was stopped through another file, or a place where
commands met or were cut off. `cut` says that a process was ended from outside
while it made the tables.

## 3. Runs

| Run | Instance | Shows |
|---|---|---|
| `storage` | 3 calls, 2 paths, 2 contents; I/O errors, crashes | whole and immutable objects, no leftovers, real conflicts |
| `ingest_concurrent` | 3 concurrent calls, envelopes A, B, C of one id and A with a wrong hash; I/O errors, ledger errors, crashes; both hashes required, conflicts answered | every promise, under every interleaving, and the refinement of `EventArchive` |
| `ingest_unverified` | 3 calls, 2 at a time, `require_event_hash` and `reject_hash_conflicts` off, an envelope under another's event hash; write, unlink and ledger errors, power loss | what holds where event hashes are not verified: a replay is a duplicate unless calls of its id overlapped, a stored row is taken back only for an overlapping failure on record, errors are on record, one declared event hash per id |
| `ingest_replay` | 3 calls, I/O errors | **violation**, finding 1 |
| `ingest_unverified_race` | 2 calls, `require_event_hash` off | **violation**, finding 2 |
| `ingest_power_ack` | 2 calls, power loss | **violation**, finding 3 |
| `http` | a batch of 2 events, a single post, a lookup in either of two spellings; envelopes A, B and A with a wrong hash; I/O errors, ledger errors, an interrupt | reports fit what happened, status codes tell rightly whether to send again, lookups find what was acknowledged, what is ledgered while the bus is open was streamed |
| `bus` | 2 publishers of 2 lines, 1 client that may stop reading, history 2, queue 1, an interrupt outside critical sections | no gap, no repetition, no leaked queue; publishers finish; the interrupt ends the stream, the timeout the one that is not read |
| `bus_interrupt` | 1 publisher, 1 client, interrupt anywhere | **violation**, finding 4 |
| `page` | 3 events published 3 times in all, history, queue and buffer of 2, one message shown, a second of 2 ticks, 4 instants | no event twice, nothing lost or hidden without a reason, the first to come are the first to go |
| `page_window` | the same, 2 instants | **violation**, finding 5 |
| `lifecycle` | 2 PIDs, each used any number of times; 2 PID files, 2 background starts, 2 stops | nobody serves without tables, no mutual failure, a server can be stopped through its PID file, a stop hits its server |

**Why these bounds.** Three requests allow what the ingest properties are about: a
winner and a loser of the insert, plus a third that meets what they left. Of the
envelopes, A and B share a path but not their content (two places, one directory), A and
C share the payload but neither path nor event hash, and the wrong hash tests the gate.
Two would hide the replay that comes after both a success and a failure (`ingest_replay`
needs the third). `ingest_unverified` keeps two calls in progress and lets the third
come when one is over; it needs the overlap, as its properties say what only an overlap
can do, and three calls, so that one id can see a failure, a success and a replay in
turn. `ingest_concurrent` has conflicts answered, since the answer then carries a
`storage_uri` that can be wrong. Storage needs three calls for two that meet and one
that arrives later. The bus needs more lines than the history and than the queue hold,
so that lines are forgotten and dropped, and two publishers that meet, one of which
still has a line to publish; a second client adds another copy of the same argument,
since clients share nothing but the subscriber set, and is left to the theorems, which
hold for every number of them. The routes need a batch whose events may repeat or
contradict each other, and a single post that may do so to either while the batch runs;
one id is enough, since ids share nothing. Crashes are left to the ingest runs and the
theorems: a handler that dies answers nothing, so all that can be wrong is what it
leaves behind, which is the service's. The lifecycle needs two processes for the races
at the tables, the port and a PID, and two commands of each kind for those at a file; a
process begins as often as there is a free PID, so that this model never ends and is
checked for deadlock. The page needs one event more than its buffer holds, a clock that
reaches the second after an event that is not on a full second, and a buffer as long as
the history, as it is in the code. `MaxPublished`, `MaxTime` and `InputTime` (what may
be typed into a time field) bound it. `PoolSize` and `MaxCalls` bound the calls in
progress; no run makes calls sequential. Runs without deadlock checking are those of
terminating models: requests, lines and calls run out. Symmetry is used over requests,
writers, paths, contents, event ids of the page, processes, commands and PID files,
which the modules never tell apart, and never with liveness.

**Fairness** is assumed in `bus` and `bus_interrupt` only: `SF` of each publisher and
of the steps each stream takes of its own accord, as the operating system schedules
every thread, `threading.Lock` is held for a few statements only, so that a thread that
finds it free again and again gets it, and the event loop resumes every coroutine whose
sleep is over; `SF` of `CloseLock` and `WF` of `CloseBody` for the same reason. There is
no fairness for what a client decides: to open a stream, to read from it
(`SendReturns`) or to leave it; nor for the signal. So `InterruptEndsStreams` allows a
stream to stay if it stays in `send` for ever. `README.md:131-132` says that long-lived
streams are cancelled during shutdown: `ShutdownEndsStreams` says that no stream stays
if the timeout strikes. That it does (`SF` of `Expire`) is a hypothesis of this property
alone: `_graceful_shutdown_timeout` sets it to one second in debug mode, and `uvicorn`
carries it out.

## 4. Findings

1. `ingest_replay`. `_store_and_mark` calls `mark_failed` after a failed write
   without looking whether another call has stored the event meanwhile. The
   stored, acknowledged row becomes `failed` (it keeps its `storage_uri`), and
   the next resubmission is stored again, or answered with a storage error,
   where `README.md:87` says duplicate success. `OnlyFailureSpoilsReplay`
   and `OnlyOverlapSpoilsReplay` show that nothing but such an overlapping failure can
   cause this, and `AckedIsArchived` that the archive is not affected.
2. `ingest_unverified_race`. After a lost insert `ingest` compares
   `event_sha256` only. With `require_event_hash` off, two concurrent events with
   one event hash and different payload hashes are both acknowledged, and the
   second object replaces the first if their paths agree; `README.md:88-89` says
   409. With event hashes required this cannot happen (theorem `OneEventPerId`); without
   them what is left is that the two declare one event hash (`OneEventHashPerId`).
3. `ingest_power_ack`. The rename is not made durable before the ledger commits
   and the producer is answered; `docs/CONSTITUTION.md:13` says durability first.
   The ledger row survives, so the loss can be detected, and
   `ingest_unverified` shows what else survives: a row that stays stored, a replay that
   is a duplicate, one event hash per id. Nor is half an object ever visible
   (`ObjectsAreWholeAlways`).
4. `bus_interrupt`. `handle_exit` takes the bus lock on the main thread. If the
   signal arrives while a stream coroutine holds it there, the thread waits for
   itself: neither streams nor server end, and every ingest call that publishes
   hangs too. `docs/CONSTITUTION.md:94` says that shutdown needs no repeated
   interrupts.

5. `page_window`. The end of the default window is `localInputValue(new Date())`,
   cut off to whole seconds, and `filteredMessages` hides what was streamed after
   it. An event that has just arrived is therefore in the buffer but not on the
   page (nor in what Copy JSON copies) until a line or a refresh in a later second
   moves the window on. `SPEC.md:31` of `docs/specs/0001-debug-correlation-tools`
   says that the window tracks the last 15 minutes. `SettledIsShown` covers the
   rest: what is at least a second old when the page looks is shown.

## 5. Theorems

TLAPS proves, for every set of requests, ids, envelopes, paths, posts, writers,
publishers, clients, processes and commands, every interleaving and every pool,
queue, history or buffer size:

| Module | Theorems | Hypotheses |
|---|---|---|
| `IngestServiceProofs` | `TypeCorrect`, `RowIdentity`, `AnswersAreAuditedAlways`, `AuditTrailIsTrueAlways`, `OneEventHashPerIdAlways`, `Invariants`, `OnlyOverlapSpoilsReplayEver`, `StoredTakenBackOnlyForFailure`, `ErrorsAreOnRecordAlways` | none: every configuration, every failure, every number of concurrent calls |
| `IngestArchiveProofs` | `GateInvariant`, `EveryObjectLedgered`, `RetriesAreNotBlocked`, `OneEventPerId` | H |
| | `ArchiveInvariant`, `AcknowledgedIsArchived`, `LedgerMatchesArchive`, `ObjectsAreImmutable` | H, P |
| `IngestPromiseProofs` | `PromiseInvariant`, `ConflictsHaveRivals` | none |
| | `OnlyFailureSpoilsReplayEver` | H |
| | `ConflictsAreGenuine`, `ServiceKeepsItsPromise` (the refinement of `EventArchive`) | H, P |
| `HttpApiProofs` | `RoutesUseTheService` (all of the above holds behind the routes), `BatchesAreReported`, `LedgeredWasStreamedAlways`, `HttpTypes` | none |
| | `RepeatsAreReportedDuplicate`, `StatusTellsWhetherToRetryAlways` | H |
| | `ReportsAreArchived`, `LookupsFindAcknowledged` | H, P |
| `FilesystemStorageProofs` | `StorageTypes`, `ObjectsAreWholeAlways` | none |
| | `ReturnedObjectHeldAlways`, `ObjectNeverChangesEver` | P |
| | `NoTempLeftAlways` | `unlink` does not fail |
| `DebugEventBusProofs` | `BusTypes`, `SectionsExclude`, `NoLeakedSubscriberEver`, `NoLineFallsBetweenEver`, `EachLineOnceInOrderAlways` | none |
| `DebugPageProofs` | `PageTypeCorrect`, `PageHoldsNoEventTwice`, `PageCatchesUp`, `PageKeepsEvents`, `PageShowsTheWindow` | none |
| `ServerLifecycleProofs` | `ServerTypes`, `ServingHasTablesAlways`, `HalfMadeLedgerIsFinishedAlways`, `PidFileNamesServerAlways`, `StopHitsItsServerAlways` | none |

H: event hashes are required (`require_event_hash`, the default). P: the power stays
on (`"power" \notin Faults`). What needs one of them is false without it: finding 2 is
the counterexample to `OneContentPerId` without H, finding 3 to `AckedIsArchived`
without P. What P is not needed for holds across power loss: the ledger and what
its rows have let through survive, only objects may be missing. No theorem assumes how
many calls are in progress; what holds only of calls that come one after the other says
so in the property, id by id (`overlapped`).

The assumptions on the constants are those the modules name (`...Assumption`);
TLC evaluates them in every run of the module. One is worth a remark:
`IngestServiceAssumption` says that the text of an event is not the value NULL
has in the model, as `raw_envelope_json` is a NOT NULL column.

The type invariants are theorems, and only that of `IngestService` is also an
invariant of a run.

**Ingest.** None of the properties is inductive by itself. `GateInv`
adds what connects a request with the row and the object it works on:

* `RowGenuine`: a row was inserted for one validated envelope and names that
  envelope's path or none; with an injective hash, a request whose event hash
  equals the row's has the row's text (`EventHashDeterminesEnvelope`, `GateOpens`);
* `ObjectLedgered`: what a path holds, or may hold after power loss, is the text of
  an envelope that has its row;
* `Gated`: a request past the lookup or the reread has the text of its row, so
  all requests that write one path write one text (`PastTheGate`). This is what
  makes the unguarded `os.replace` harmless;
* `Writing`: the temporary file to be renamed is complete and the object is
  there while the row is being marked;
* `SnapFits`: a `storage_uri` in a loaded row is still the row's. This is what
  makes the partial-column UPDATE of a stale row harmless;
* `AckRow`: an acknowledged request has the text and the URI of its row.

`OthersKeepInvariant` shows once that a request taking no step keeps its part
as long as rows keep their identity, URIs are not taken back and objects stay;
each action then has to show only its own part and these three facts. Power loss
ends every call, so that what a call relies on while it writes goes with it.
`ArchiveInv` adds `RowBacked`, that the object a row names is there with the row's
text: together with `AckRow` this is the promise itself, and what needs the power.
Both invariants were checked with TLC on small instances before they were proved.

**Errors and overlap.** `OriginInv`: a row carries the event hash of every request that
the gate has let pass, verified or not (`OneEventHashPerId`). `ErrorInv`: a call that is
failing has its attempt on record, and so has a row that shows a failure; as `Flush`
writes back only what differs, each action has to show which of the two columns it can
touch. `SerialInv` says of the ids in whose history no two calls have met that nobody
else touches the row while a call is on its way, so what the call found out about it,
and what it read of it, is so still (`Serial`); a row that is stored is settled
(`RowSettled`), and what was acknowledged has a row that accepts it ever after
(`AnswerKnown`), so that a replay takes the short cut (`ReplayKnown`). No hash needs to
be verified for that: rows are compared by what producers declare. Calls of other ids may
run at the same time, and an id leaves the invariant for good when two of its calls meet
(`OtherIdsKnow`, `GhostsStay`).

**Conflicts.** `PromiseInv` adds who is behind a row: some request with these hashes
passed validation (`RowSent`), and a request about to be denied, or denied, differs
from its row (`Conflicting`). Rows keep their identity in every configuration, so a
conflict always has a rival. That the object the answer names is the rival's
(`Pointing`) needs H and P.

**The refinement.** `BindStep`, `KeepStep` and `VerdictStep` say how a step moves the
three variables of `EventArchive` under the mapping: a row gives a text to an unbound
id, a rename gives the bound text to its path, an answer is given once. `VerdictGround`
says what an answer rests on (the guard of `Acknowledge`, `Deny` or `Refuse`), and
`PromiseSimulation` puts them together: each step of the service is a step of the
archive or stutters.

**The audit trail.** `AuditInv` is a count: for each id and status, the requests
that have that answer (or, for a failure, are sure to get it, as `mark_failed`
comes between the attempt and the answer) are finite and no more than the attempts on
record. `CountStep` gives the arithmetic, `AttemptMoves` that a step which adds a
request also raises the counter. `TrailInv`: before a success is recorded the call has
seen the row name an object, and rows go on doing so (`UrisStay`), whatever the
stale row objects of other calls write back.

**Replays.** `ReplayInv`: while no attempt for an id has failed, a row that was
seen stored is stored still (`StoredSeen`), since nothing but `mark_failed` takes
`stored` away and `load_failed` is reached with a failed attempt only; so a
resubmission goes from the lookup straight to `RecordDuplicate` (`ShortCut`).

**Routes.** `HttpInv` says that what has been reported is what `ingest`
answered at that place (`ReportedFits`) and that a handler without a response has
an event left, while the response of a single post is the status code of its answer
(`ResponseFits`); `OneCallMoves` and `EndedIsAnswered` are what it needs of
`ingest`: a step moves one call, and a call that has ended has its answer and keeps
it. `RefusalInv` says what a request that met an error leaves behind: valid hashes, and,
if a write failed, a row of its own event; with `GateInv` and `PromiseInv` for 409 and
422 this gives `StatusTellsWhetherToRetry`. `StreamedInv`: while the bus is open it has
the event of every call that has begun and of one that is announced. `FoundFits` does the
rest for the lookup.

**Storage.** `WholeInv`: what is renamed, and what a name may show after power loss,
is a whole text. `StorageInv`: of two calls under way on one path, both bring one
content (`Agree`), which is what `Start` allows; a call past its existence check
therefore finds nothing but its own content there. `TempInv`: a temporary file
exists only between `mkstemp` and `unlink`.

**Bus.** `LockInv` (who is in a critical section holds the lock) gives
`SectionsExclude`. `StreamInv` says which streams may be subscribed. `GapInv`: each
line since a client's replay has been sent to it or dropped for it, or its publisher
is about to (`Covered`). `OrderInv`: in the log and in what each client was sent a
publisher's numbers ascend (`Ascending`), and the line a publisher has yet to put
is later than all of its lines there (`Past`).

**Lifecycle.** `LedgerInv`: what a process has looked for is made or on its list,
the tables are made in one order, and as long as only the first exists
somebody has only the second left to make (`MakesAttempt`), whom nobody can
disturb. `FileInv`: a server that is not exposed is named by its file and every stop
under way will signal it (`Named`), or its start is alone at the file
(`Starting`). `StaleInv`: at a file that is not stale there is one command at
most, and a PID in it, or one that a stop has read, is the server's.

**Page.** `PageInv`: no event is twice in the buffer; as long as the page has lost
nothing and its buffer has room, what the server remembers is on its way or there
(`Accounted`), and as long as a response covers what was lost before it, what the
server remembers is there, on its way, or in that response; and a window field that was not edited is where the last look at the
clock put it (`WindowFollows`). What the two loops of the script compute is proved by counting
their turns: `Counting` is induction over the natural numbers for a set of numbers,
`MergingDefined` and `FilteringDefined` that the recursive functions exist,
`MergingFacts` and `FilterFacts` what they return. `MergeGivesUp` says that a merge
takes from the front of the buffer only, and only what there is no room for; `MergeOne`
that a line that is merged alone is in the buffer after it.

**Checked with TLC only**: liveness (`PublishersFinish`, `InterruptEndsStreams`,
`ShutdownEndsStreams`), as fairness and `ENABLED` are out of the prover's reach.
Every safety property and action property of the passing runs is a theorem.

## 6. Plan

Done: storage, ledger and service with the abstract archive that they refine; the
HTTP routes over them; the debug bus and the debug page; the lifecycle of the
processes; and proofs of every safety property of these. What could be added:

1. The safety half of the liveness properties as theorems: that some step of a
   publisher or an interrupted server is always left to take.
2. An abstract specification of the bus for one client (a suffix of the history,
   then what follows, minus what a full queue drops) that the bus implements.
3. `ProducerRetry`, over `HttpApi`: a producer that sends again what got no answer or
   a 500. Property: if faults stop, it is eventually acknowledged or rejected.
4. Lifecycle over `IngestService`: requests in progress while a server drains,
   with `make clean` removing the files under it.

## 7. Not modelled

* Field validation of envelopes (what fails it never reaches the service), JSON and
  timestamp formatting, the reading of YAML. Two hazards follow from
  it that no property covers: names have no length in the model, so an
  `event_name` of 245 to 256 characters, whose directory name is too long for the
  file system, is only a write that always fails; and hashes are taken over model
  values, so a producer that hashes its own spelling of an envelope (nulls, `+00:00`,
  an upper-case id) and is answered 422 is not seen.
* `history()`, `server status`, `healthz` and `readyz`, and `is_ready` of the
  storage: they change nothing that another operation depends on.
  `is_ready` of the ledger is what `ServingHasTables` speaks of.
* `mark_hash_conflict`, which nothing calls.
* The output of `ingest file`, `events get` and `db init`: their calls of `ingest`
  are requests of `IngestService`, their start is a process of `ServerLifecycle`.
* The markup, panels and clipboard of the page; the inspection and generation
  scripts; the Makefile, whose `clean` also removes files while a stopped server may
  still be draining.
* Several configurations, ports or machines on one ledger.

`uvicorn`, `asyncio`, SQLAlchemy, SQLite, the processes of the operating system and
the file system are modelled only as far as this code relies on them; those
definitions are marked external.
