# Verification of imagegen-bridge

TLA+ models of imagegen-bridge from its configuration to the images in a
caller's hands: of what decides whether a paid image generation runs once, is
never repeated when its outcome is unknown and is never lost, and of what
becomes of a request on its way through fronts, limits, negotiation, providers,
materialization and files; TLC configurations that check them on small
instances; and TLAPS proofs for every value of the constants. All paths below
are relative to the repository root, those without a directory are under
`crates/`; line numbers refer to the commit modelled.

    tlc -config JobManager_safety.cfg MCJobManager     # one run
    tlapm ServiceProofs.tla                            # the proofs of one module

Contents: 1 the system, 2 what can go wrong, 3 the modules and the code,
4 the runs, 5 disagreements between code and docs, 6 fairness, 7 proofs,
8 limits and what is not modelled, 9 plan.

## 1. The system

imagegen-bridge is one Rust process (a server, or a CLI that embeds the same
runtime) in front of image providers that charge for each call. A request
arrives at an HTTP route, synchronously or as a durable job. Jobs are rows in a
SQLite table; a worker task per job drives it. Both ways end in the request
orchestrator, which applies idempotency, admission bounds, routes with
fallback, circuit breakers, deadlines and cancellation around a provider. A
result is materialized into artifacts and returned.

| Part (source under `crates/`) | State | Operations | Talks to |
|---|---|---|---|
| Durable job manager (`server/src/jobs.rs`) | active map with cancellation tokens, preview cache, worker semaphore, `retention_healthy`, shutdown token, `Notify` | open, submit, cancel, run/execute_claimed, retention loop, shutdown | job store, orchestrator, routes |
| Durable job store (`runtime/src/sqlite_jobs.rs`) | `image_jobs` table | create, claim, finish, request_cancel, recover_interrupted, prune, update_history, list | SQLite, one database thread |
| Idempotency coordinator (`runtime/src/idempotency.rs`) | entries, `completed_bytes`, access clock, a watch channel per pending key | begin, wait, complete, fail, cleanup, evictions | orchestrator |
| Orchestrator (`runtime/src/orchestrator.rs`) | activity counter and `Notify`, shutdown token and result | execute, cancel, shutdown | gates, breakers, providers, materializer |
| Admission gates (`runtime/src/admission.rs`) | semaphore and queue counter, global and per provider | acquire, close | orchestrator |
| Circuit breakers (`runtime/src/circuit_breaker.rs`) | phase, failure and probe counts, epoch | acquire, complete, abandon | orchestrator |
| Fan-out (`runtime/src/fanout/mod.rs`) | chunks in flight, permits | execute_fanout, aggregate | one inner provider |
| App-server connection and supervisor (`codex-app-server/src/rpc.rs`, `process.rs`) | pending replies, closed flag, child process, generation | request, notify, read loop, rpc() with restart, shutdown | Codex child process |
| App-server provider (`codex-app-server/src/provider.rs`) | locks per session | threads, turns, interrupts, cleanup | connection, session bindings |
| Responses provider (`codex-responses/src`) | cached token | parallel outputs, transient retry, stream | HTTP upstream |
| Session bindings, presets (`runtime/src/sqlite_sessions.rs`, `sqlite_presets.rs`) | keyed tables | get, put, delete; create, replace, list | SQLite |
| Artifact store (`artifacts/src/store.rs`) | files, ownership records, sidecars | publish, attach_metadata, cleanup, repair_orphans | file system |
| Materialization (`runtime/src/materialize.rs`) | none | materialize, project | artifact store |
| Validation and negotiation (`core/src`) | none | pure functions of a request | everywhere |
| Routes, streams, serving (`server/src`, `imagegen-bridge/src/application.rs`) | SSE channels | handlers; drain, jobs.shutdown(), runtime shutdown, exit | everything |
| Gateway (`cli/src/gateway.rs`) | coordination file (read) | readiness, hold, forward | two server slots |
| Updater (`cli/src/update/install.rs`) | env, slot and coordination files | standalone replace, active/passive handoff, rollback | docker, gateway |
| Configuration (`config/src`) | layers, effective settings, origins | resolve, check, the constructors of `application.rs` | everything, once |
| Image work (`artifacts/src/chroma.rs`, `metadata.rs`, `inspect.rs`) | none | pure functions of an image | materialization |
| Command line (`cli/src/commands.rs`) | none | image, preset, artifact, config and serve commands | the application, the files |

The other parts (OpenAPI, metrics, dashboard, SDKs, tools, image codecs) hold no
state another part decides on; `PROJECT.json` names each with the reason it is
left out.

What makes each part correct:

- **Job manager and store.** A job is paid at most once over any number of
  restarts; a cancellation once written is seen; an accepted job starts and
  settles; a verdict is written on the row it was computed for and does not
  change; bounds on rows and bytes hold; retention deletes only settled,
  non-favorite, sufficiently old rows; a page walk neither skips nor repeats.
- **Idempotency.** One leader per key; nobody waits for nobody; a replay is the
  response to the same request, fresh; unknown outcomes are kept; the byte
  counter covers what is stored.
- **Orchestrator, gates, breakers.** An error whose outcome may be unknown says
  so and nothing is tried after it; permits are neither leaked nor returned
  twice; a breaker moves on evidence from its own epoch; shutdown waits for what
  is active and returns; every call ends.
- **Fan-out and providers.** An unknown outcome is not lost on its way up; no
  caller waits for ever on a connection that is gone; a call gets the images of
  its own turn; nothing is asked for again unless the upstream has refused it.
- **Streams.** The client reads the previews in order, then one terminal event;
  a client that does not read cannot keep the permits of its request.
- **Artifact store.** No file without a record and no record without a file
  survives repair; cleanup deletes only what it verified.
- **Gateway and updater.** A handoff ends on one healthy slot or back on the
  old one; a crash in the middle can be recovered.
- **Configuration.** What `check()` accepts can be built; the origin shown for a
  field is where its value came from.
- **Request path.** What was accepted is served; what is asked of the model is
  what the caller said but for what the answer lists; what the caller is told of
  an image is so; images that were paid for reach the caller.

## 2. What can go wrong

`PROJECT.json` lists the hazards one by one with the line where each bites and
the properties that would catch it. They fall into eight groups.

1. *Await points.* Every handler future can be dropped at an await when its
   client disconnects, with a committed row, a held permit, a led key or a turn
   under way behind it. `tokio::select!` is unbiased, so when a result, a
   cancellation and a deadline are all ready any of them may win.
2. *Crash and restart.* The job table, the artifact directory and the handoff's
   files outlive the process. What runs at a crash must be neither repeated nor
   left running, and what lies there half done must be found.
3. *Ambiguity.* A provider call cut short may have been paid. Everything that
   retries, reroutes, replays or forgets has to know.
4. *Wake-ups and waiting.* Two `Notify` loops, a watch channel per idempotency
   key, semaphores, a table of pending replies, bounded channels to a client
   that may not read.
5. *Bounds.* Byte budgets with a reserve for results not written yet, a running
   byte counter, bounded queues, probe counts, `u8` counts and `usize`
   parallelism at three constructors.
6. *Multi-step updates.* Read-then-update in `update_history` and in the
   replacement of a preset, cursor pages over a table that changes, files with
   their records, the updater's files.
7. *Shared connections.* One child process serves all calls of the app-server
   provider: events of turns that were given up, a child replaced while others
   wait, a shutdown in between.
8. *Judged again.* A request is validated, planned, negotiated and limited
   several times, each time by other limits or in another shape, and the last
   refusals come when the images are there and paid for.

A hazard without a property is one where the code does not provide what its docs
say (section 5) or where the model makes an assumption (section 8).

## 3. The modules and the code

| Module | Models | Kind |
|---|---|---|
| `JobTable` | the `image_jobs` statements, reduced to status, cancel flag and key | shared table |
| `JobManager` (EXTENDS `JobTable`) | `jobs.rs` over the table, with crash and restart | component |
| `JobLifecycle` | what a client is promised about one job | abstract specification |
| `JobStore` | `sqlite_jobs.rs` with scopes, bytes, time, favorites, hiding | component, implements `JobTable` |
| `JobHistory` (EXTENDS `JobStore`) | a client's page walk over `list()` | composition |
| `Idempotency` | `idempotency.rs` and its callers in `orchestrator.rs` | component |
| `Errors` | error codes, `should_fallback`, what counts as a failure, what is ambiguous | operators |
| `CircuitBreaker` | the functions of one breaker | operators |
| `Orchestrator` (EXTENDS both) | execution pipeline with gates, breakers, shutdown | composition |
| `Fanout` (EXTENDS `Errors`) | `fanout/mod.rs`: chunks, permits, failure policies, aggregation | component |
| `AppServerCall` (EXTENDS `Errors`) | the future of one call of the app-server `provider.rs` | part |
| `AppServerRpc` (EXTENDS it) | `rpc.rs`: pending table, closed flag, read loop, broadcast | part |
| `AppServer` (EXTENDS it) | `process.rs`, threads, turns, interruptions, the session table | composition |
| `Inputs` | `input.rs`, `remote.rs`: the images of a request, hop by hop | part |
| `Responses` (EXTENDS `Inputs`, `Errors`) | `codex-responses/src`: inputs, dispatch, stream, retry, failure policy | component |
| `EventStream` (EXTENDS it) | `streaming.rs` between a request and its client, the write timeout | composition |
| `Artifacts` | `store.rs`, with the publications of `materialize.rs` and the maintenance commands | component |
| `Handoff` | `install.rs`, `gateway.rs`, two slots and the activation lock | composition |
| `Request` | a request, `validation.rs` of core | operators |
| `Negotiation` (EXTENDS it) | capabilities, `negotiate_request()`, `prepare_transparency()` | operators |
| `Chroma` | `chroma.rs`: the removal of a keyed background, pixel by pixel | operators |
| `Materialization` (EXTENDS both) | `materialize.rs`, `inspect.rs`, `metadata.rs` | operators |
| `Settings` (EXTENDS `Request`) | the sections, their defaults, `check()` | operators |
| `ConfigLoader` (EXTENDS it) | `loader.rs`: layers and origins | operators |
| `Assembly` (EXTENDS `Settings`) | the constructors behind `serve` | operators |
| `Front` (EXTENDS `Request`) | the ways to say a request, and to whom they are open | operators |
| `Presets` (EXTENDS `Front`) | `sqlite_presets.rs` under several clients | component |
| `Pipeline` (EXTENDS `Materialization`, `ConfigLoader`, `Assembly`, `Presets`, `Errors`) | from the layers of a configuration to delivered images | composition |
| `ServiceProofs`, `IdempotencyProofs`, `OrchestratorProofs`, `AppServerProofs`, `ArtifactsProofs`, `ProviderProofs`, `HandoffProofs`, `JobStoreProofs` | theorems about `JobManager` and `Pipeline`, `Idempotency`, `Orchestrator`, `AppServer`, `Artifacts` and `Chroma`, `Fanout` and `EventStream`, `Handoff`, `JobStore` and `JobHistory` | proofs |
| `MC*` | small instances | TLC |

So there are two layers of job table: `JobManager` is checked, and proved, over
the small one, and `JobStore` shows (`ImplementsTable`) that the full one
behaves like it. `JobLifecycle` is on top.

**JobManager.** One action is what the code does between two awaits. `worker[id]`
is where the task of a job is in `run()`: `waiting` in the select, `permitted`
with the permit, `claimed` after `claim()`, `registered` once its token is in
`active`, `loaded` after `execute_claimed()` read the row back, `executing` in
the orchestrator, `returned`, `removed` from `active`, `finishing` with the
permit gone and the verdict chosen, `retaining`. `life` is where the process is,
from `open()` (`down`, `recovered`, `swept`) over `up` to `draining`, `stopped`
or `forced`; a crash or exit drops everything volatile and leaves `rows`.
`inserted` and `signalling` are handlers between two of their awaits. Faults
(crash, dropped handler, database error, drain timeout) are chosen from
`Faults`, at most `MaxFaults` of them. `lost` remembers whose handler or worker
a fault cut short. `calls` counts paid calls. In `shutdown()`'s loop `drain` is
`enlisted` once the `Notified` future exists, `looked` after the map was read,
`sleeping` when parked. Time is not modelled here: retention deletes any set of
settled rows, of which `JobStore` picks the right one. Progress columns and
diagnostics are left out.

**JobStore.** A row has its scope, submission key, request kind, size, times and
marks. Every statement or transaction is one action (there is one database
thread); `update_history()` is two, a read and an update. `Reserve` is what
`logical_database_bytes` adds for a live row. The query of list is in
`JobHistory`, where a walk keeps the cursor and the set of rows that were due
from its start on.

**Idempotency.** The state is the mutex-protected `State`: entries, bytes, access
clock. A `channel` per leader stands for the watch channel. Callers begin, lead
or wait, and complete, fail, time out or are dropped. `now` ticks; lifetimes are
in ticks. `outlived` remembers that a record expired under a leader still at
work.

**Orchestrator.** A call's `phase` is where its future is: `new`, `checked` and
`entered` around the two looks at the shutdown token, `admission` and
`global_wait` at the global gate, then for each route `route` (breaker), `gate`
and `provider_wait`, `capabilities`, `running`, `grace` after a cut,
`materializing`, `unwinding`. Semaphores are read off the phases, since an owned
permit is released with the scope that owns it. `late` and `cancelled` are the
deadline and the caller's token; `fate` remembers what each provider really did.
The breakers are functions of a record, applied under the breaker's mutex. The
phases of `stop` follow `shutdown()` and `wait_until_idle()`.
Providers are arbitrary: they answer, fail with any error of `ProviderFaults`,
or never answer.

**Fanout.** A batch is one call of `execute()`; its request is fixed at the
start, among those negotiation admits. A chunk is known by the offset of its
first output and goes from `pending` (in the deque) over `waiting` (for a
permit), `running` (at the provider) and `answered` (the answer is there, the
task has not polled it, the permit is still held) to `collected`; it is `denied`
when it is cut before it has a permit and `lost` when its future is dropped
while the provider runs. A batch is `open`, then `draining` for at most the
grace if a failure stops it under `fail_fast`, then `done`; or `dropped` with
its caller. `Collect` includes `push_next()` and, after the last chunk,
`aggregate()`, since nothing is awaited in between. A request one provider call
can serve takes the same permits and returns the answer unchanged
(`ReturnDirect`). The response is kept as its image and failure indices, its
model and its error.

**AppServer.** `call[c].pc` is where the future of a call awaits: for the lock of
its session, for the supervisor's mutex, for a reply, for the events of its
turn, for the grace after an interruption, for the archival of its thread.
`link` has, for each child, the table of pending replies, the closed flag and
what the broadcast still holds for each subscriber (a receiver that falls behind
loses the oldest, `Ring` of them are kept). `supervisor` is `CodexProcess`: who
holds its mutex, which child runs, whether it is shut down. `atChild` and `turn`
are the child's own: it reads requests, answers, refuses, keeps silent, ends a
turn as it likes. Deadlines and tokens may fire at every await that looks at
them, and at no other.

**Inputs, Responses, EventStream.** The images of a request are loaded one by one
before anything is called; `loading` is where `input_content()` is. A remote one
goes through hops, each of which checks its URL and what the host resolves to,
connects to one of the addresses found, and is redirected or reads a body chunk
by chunk; a file may change between its opening and its end. What is refused
and what fails both are `LoadFails`, which may happen at any await. The
app-server provider loads with the same functions (`provider.rs:530`) and stages
the results; there it is part of a call's failing start. Then a call per output goes through dispatch, headers,
stream, pause and again, at most `MaxAttempts` times; `worked` remembers what
the upstream really did. Around it are the runtime's deadline and grace. In the
stream, the request advances only while the task is in its select: while `held`
is waiting for room in the second channel nobody polls the request. The client
reads when it likes, or not at all, and is then cut off by `WriteStall`.

**Artifacts.** Every step is one change of the file system. A request publishes a
file, then its record, then perhaps a sidecar and the record again; cleanup
scans, verifies and removes sidecar, file and record one by one; repair goes
over what lies about. Each may die between any two steps, each operation may
fail, and the user may change files. An image stands for its bytes and its id.

**Handoff.** The three files, the two containers with the process in each, the
lock, the run of the updater and each request in `proxy()` are variables of
their own, and no step touches two of them unless one system call does. A death
of the updater leaves the files as they are, and a later run starts from them.

**Pipeline.** `stage` says how far the process, and the request in it, has come:
`read`, `loaded`, `checked`, `serving`, then `queued` (a job), `admitted`,
`fan_out`, `provider`, `sent`, `returned`, `materialized`, `delivered` or
`refused`. Between two stages the code computes without sharing anything, so a
stage is one operator applied to settings and request. Texts are lengths,
identifiers, paths and images are `fine` or `bad`, sizes and counts are numbers.
What the caller said is the function from said fields to values, so that the
same request arrives as native JSON, compatible JSON, a form, a job or flags
over a preset. `notes` are the normalizations; `asked`, `routed` and `request`
are the caller's request, the runtime's and the one under way. A picture is a
small raster whose cells stand for blocks of like pixels; the matte is computed
on it as the code does it, channel by channel with its roundings.

## 4. The runs

Twelve runs, each a question. Most of what is checked is a conjunction of named
parts; each part has its own comment.

| Run | Question | Instance |
|---|---|---|
| `jobmanager_safety` | Can any interleaving of handlers, workers, retention, shutdown and restart pay twice, lose a wake-up or a cancellation, or break the lifecycle? | 2 jobs, 1 client slot, 1 key, 1 worker permit, any 2 faults; about 1M states |
| `jobmanager_liveness` | Do queued jobs start, running jobs settle, shutdown return, admission recover? | 2 jobs, no key, 1 crash or database error |
| `jobstore` | Does the full store keep its bounds, converge on replays, retain what it must, implement `JobTable`, and show a page walk every row that was there all along? | 2 jobs of 2 sizes, 1 scope, 1 key, budget 4 units of which 1 is the reserve, results at the reserve and over it, 1 clock tick, 1 edit in progress, page size 1 |
| `idempotency` | One leader, no orphaned waiter, right and fresh replays, exact bytes? | 4 callers, 3 keys, 2 fingerprints, room for 2 records, 2 ticks |
| `orchestrator` | Are unknown outcomes final and reported, breakers exact, is shutdown sound? | 2 calls: one with two routes to one provider, one with two providers; 1 provider slot, queue 0 or 1, 2 epochs; about 3M states |
| `orchestrator_liveness` | Does every call end with no help from a provider? | the same calls behind one global slot |
| `fanout` | Is what a batch reports what was tried and made? Do conversations keep their order? Do batches end when siblings hang, and when they share permits? | a batch of 3 outputs over calls of at most 2 (`fail_fast` in parallel, `fail_fast` and `best_effort` in one conversation), a single call beside it, 2 permits, 4 responses and 2 errors |
| `appserver` | Is a cut call's report true, does a call get its own images, is there one child, does a session keep its thread, does every call end? | 2 calls of one session, or an isolated one or one with a thread beside a readiness check; 2 children, 1 fault |
| `eventstream` | Does every connection keep to the policy, is nothing asked for twice, what is reported true, the stream exact, and are permits returned? | up to 2 input images from 2 hosts, 2 ports and 3 kinds of addresses (public, reserved in IPv4 only, reserved in both), one redirect, 4 policies; 2 outputs in parallel or in turn, 2 attempts, 2 previews, channels of one place; about 1M states |
| `artifacts` | Is every file accounted for, does what must survive survive, does repair heal? | 2 requests for one name, or one of two outputs with metadata; 3 images, scans of 2 records, 2 faults |
| `handoff` | Is one slot active, do the files agree with it, does every held request end? | 1 request, 2 updates, good and bad versions, 3 faults |
| `pipeline` | Does what was checked start, what was accepted get served, and what was changed get told? | 6 typical requests with every pair of 66 differences in native JSON and single ones in every other front; 723 configurations at, over and under each bound; 7 templates; provider answers with one flaw; about 720 000 states |

Why the bounds are enough. *Two jobs and one permit* give every relation
between jobs the code has: one holds the permit while the other waits, is
submitted, cancelled, resumed or deleted; more jobs only lengthen the queue, and
the safety part is proved for any number. *Two faults* cover a fault during the
recovery from a fault. *One or two clock ticks* separate created, completed and
expired; the lifetimes are one or two ticks, so equality and excess both occur.
*Four callers over three keys and two records* are the smallest case in which a
leader, its waiter, an evicting newcomer and a late leader's successor coexist.
*Two calls* share a breaker and a gate and can each be the probe, the queued
one and the refused one; `FailureThreshold` and `SuccessThreshold` 1 with two
probes lets a success and a failure of the same half-open phase meet. `MaxEpoch`
2 admits closed, open, half-open and one more transition, so that a permit of
an earlier epoch reports late. *Two chunks*, the second half full, are each the
first to fail, the one under way, the one done and the one not started; a full
answer to the half-full chunk is an invalid one. With two permits and a single
call beside the batch, a chunk waits for a permit while its sibling runs.
*Two children* are the one that fails and the one that replaces it; a broadcast
of one event already loses one. *Two outputs and two attempts* let one retry
while the other is done, dropped or not started. *Three images and scans of two
records* leave one record unseen by a cleanup. *Two updates and three faults*
are a handoff, its failed rollback or death, and the handoff that resumes.
*Pairs of differences* reach every rule of validation, negotiation and
transparency with each other one; the rules read one or two fields each.

`CHECK_DEADLOCK FALSE` is set where callers, batches, streams or updates end
and a bounded clock stops: `idempotency`, `fanout`, `appserver`, `artifacts`,
`handoff`, `eventstream`, and `pipeline`, where a refused configuration ends the
process. `Orchestrator` has an explicit `Finished` stutter. Symmetry is used
where no liveness property is checked.

| Property | Parts, and what they say |
|---|---|
| `AtMostOnce`, `WorkerOwnsRow`, `CancelReaches` | no second paid call; a verdict meets the row it was made for; a written cancellation is seen |
| `Sound` (JobManager) | `NothingStranded`: no queued or running row without an actor, faults aside; `PreviewsOnlyWhileActive`; `ActiveBounded` |
| `EverythingMoves` | queued starts, running settles, shutdown returns, admission recovers |
| `Admissions`, `History`, `RetentionKeepsNewest`, `ImplementsTable` | byte and queue bounds and one row per key; only settled rows are hidden and `WalkIsStable`; what retention may delete; refinement of `JobTable` |
| `OneLeader`, `ReplaysMatch`, `RecordsKeep`, `Coherent` (Idempotency) | with `UnknownIsKept`, `RepliesAreFresh`, `BytesCovered`, `NoOrphanWaiter` |
| `Truthful`, `Coherent` (Orchestrator), `BreakerMovesOnEvidence` | `UnknownIsFinal`, `TruthfulErrors`; `ProbesExact`, `IdleIsNoticed`, `QuietRelease` |
| `TruthfulStop`, `OutputsInPlace`, `BatchesSettle` | a stopped batch reported as known tried one chunk at most; every index once, conversations in order; `FailureEnds`, `BatchesEnd` |
| `CutsAreTruthful`, `Owned`, `BindingsAreStable`, `EveryCallEnds` | of a cut call not called unknown nothing more comes: no turn and none to be started, or one that failed or was interrupted; one child, own images; one thread per session |
| `CallsTruthful`, `StreamIsExact`, `PermitsReturn` | `RetriesAreSafe`, `FailFastTruthful`, `InputsWithinPolicy`; started, previews in order, one end; permits come back after the deadline |
| `Accounted`, `FilesSurvive`, `RepairHeals` | `NothingLeaks`; `FilesAreSafe`, `NewestSurvive`; after a full repair every record is sound or names what somebody changed |
| `OneActive`, `RecordsSound`, `EveryRequestEnds` | one process past the lock; the files agree and name a verified slot; every held request is answered |
| `ConfigurationSound` | what `check()` accepts the constructors of `serve` accept |
| `ReportSound` | `OriginsAreTrue`, `SaidIsAsked`, `ReportIsTrue`, `StrictIsExact`, `DeliveredAsTold`, `BackgroundIsGone` |
| `AdmittedIsServed` | `RequestsAreServed`, `JobsAreRun`, `ShelfIsUsable`, `ReplacementsAnswer`, `WorkIsDelivered`, `WorkIsNotRepeated` |
| `NegotiationSettles` | the fan-out and the provider, which negotiate again, change and refuse nothing |

Where a property names an exception, the exception is a case in which the code
does otherwise; it is written out in the property and listed in section 5.
Each property is violated by a small change of a definition (a dropped guard, a
reset left out, an order swapped), which stands beside it as an operator
commented "Mutant" and is named in `PROJECT.json`.

## 5. Disagreements between code and docs

These were met while modelling. Each of the first group is a definition that
states what the repository says, and that the code does not provide; no run
checks it, but put in the place of the properties in the configuration of its
module it makes TLC print a counterexample.

- `JobManager!QueuedIsWaiting` — `core/src/job.rs:12` calls a queued job "Accepted
  and waiting for bounded worker capacity". `submit()` commits the row inside
  `create()` and spawns the task after it. If the handler is dropped in between,
  or `create()`'s trailing read fails, the row waits for nothing until the next
  restart, and a replay with its key does not schedule it either.
- `JobManager!ShutdownSettles` — `shutdown()` "waits a bounded interval for
  active state to settle" (`server/src/jobs.rs:248`). A worker leaves `active`
  before it writes its verdict, so shutdown can return, in time, with the verdict
  of a paid success unwritten. The exit that follows turns the job into an
  interrupted one.
- `Orchestrator!CancelledStaysPut` — `docs/api.md:227` lists cancellation among
  what is never rerouted. A cancelled call whose provider fails within the grace
  passes that error on, and the next route's provider call can start.
- `Fanout!UnknownNeverRerouted` — `docs/resilience.md:33`: "the current request is
  never retried or sent to a fallback". When all chunks of a best-effort batch
  fail, `aggregate()` returns the first chunk's error with that chunk's details.
  If that one is known and a later chunk ended unknown, `should_fallback()`
  reroutes the whole batch.
- `EventStream!UnknownIsNotHidden` — the same in the Responses provider
  (`codex-responses/src/provider.rs:289`, `docs/api.md:228`).
- `AppServer!DisconnectNeverRerouted` — `docs/limits.md:43`: nothing is retried
  after "a timeout or disconnect after upstream dispatch". A connection that
  fails under a turn (`rpc.rs:393`) gives its caller a protocol error that is not
  marked unknown, which `on_error` reroutes.
- `Handoff!ZeroErrorHandoff` — `docs/deployment.md:92`, "Active/passive zero-error
  handoff". A request that probed the old slot and is forwarded after it was
  stopped is answered 503; so is one whose slot died at work, with
  `retryable: true` (`gateway.rs:167`, `:225`) although the work may be done.
- `Pipeline!AdvertisedCountsAreServed` — `docs/errors.md:66` has up to 255 outputs
  per request, and a provider configured for so many advertises them; its own
  validation uses `RequestLimits::default()`, 16 (`codex-responses/src/provider.rs:195`,
  `codex-app-server/src/provider.rs:219`, `fanout/mod.rs:191`).

The second group are exceptions written into properties that hold otherwise.

- `ConfigurationSound`: `check()` accepts limits for providers that do not exist,
  which `ImagegenRuntime::new()` refuses (`orchestrator.rs:192`); the `openai`
  provider, which is not available; and bounds above `Semaphore::MAX_PERMITS`.
- `OriginsAreTrue`: `--set` or a variable that names a whole table replaces it,
  so that sibling fields fall back to their defaults while `config origins`
  still names the file (`loader.rs:311`, `docs/configuration.md:14`);
  `serve --bind` leaves the origin of the address as it was.
- `RequestsAreServed`: limits configured above the library's; a prompt that the
  key instructions (428 bytes) or a merged negative prompt (47 bytes more) push
  over a limit; a file name whose extension no longer fits the normalized format;
  `max_outputs = 1` for Responses, whose capabilities are then inconsistent.
- `JobsAreRun`: a job with two routes that resolve to the same one is answered
  202 and fails when its turn comes (`orchestrator.rs:466`).
- `ShelfIsUsable`, `ReplacementsAnswer`: a preset is judged with a placeholder
  prompt and default limits (`preset.rs:214`); a replacement is an update and a
  read, so its answer may be another client's template, or 404.
- `SaidIsAsked`: one session flag replaces the whole session of a preset, and
  `--output-path` drops its directory (`docs/cli.md:160` says matching fields).
- `StrictIsExact`: `negotiate_action()` gives an action up also under strict
  compatibility (`negotiation.rs:110`, `docs/cli.md:244`).
- `ReportIsTrue`: a JPEG that becomes a PNG for transparency loses its compression
  without a note (`transparency.rs:84`).
- `WorkIsDelivered`, `WorkIsNotRepeated`: a rendering by URL without
  `public_base_url` is refused once the images are made (`materialize.rs:468`),
  with a code that even `on_unavailable` takes to the next provider, and so is an
  answer by URL that may not be fetched; native transparency in JPEG always fails
  after generation; JSON escapes can push a prompt within the 12 KiB over the
  40 KiB of its record (`docs/api.md:211` says it is rejected before any work);
  images within the image limits can exceed `max_response_bytes`, or
  `max_encoded_bytes` once a record is in them.
- `NothingLeaks`: cleanup removes by the record it read in its scan, so metadata
  attached meanwhile leaves a sidecar nothing owns, or a record comes back for an
  image that is gone; the death of the process between a file and its record
  leaves an image that nothing ever removes.

Facts without a property: `docs/configuration.md:94` says that remote inputs
require an explicit host allowlist, and an empty one allows every public host
(`remote.rs:134`). A turn that is cut may have drawn images before its
interruption is confirmed: they are thrown away, and the report is `outcome:
cancelled`, for a timeout also retryable (`provider.rs:627` of the app-server
crate). `CutsAreTruthful` says that nothing more comes of such a turn, not that
nothing came. The loading of inputs looks at neither token nor deadline
(`remote.rs:63`), so a request that is cut while it waits for a slow image is
answered with an unknown outcome though nothing was sent. A queued job can still
be claimed after `shutdown()` says it stopped claiming, since the select in
`run()` is unbiased. `docs/faq.md` lists authentication among the failures never
rerouted, and `should_fallback()` reroutes it. After a failed spawn no
`restart_backoff` is kept (`process.rs:122` against `:34`). A declared failure
after previews is retried though `docs/api.md:354` speaks of pre-output retries.
The multipart text limit (64 KiB) is below the prompt limit (128 KiB), and the
`Idempotency-Key` header takes 512 bytes where an identifier takes 256. The key
color asked for is only told to the model: what is removed is the color sampled
at the border, and without a majority there the medians per channel may be the
color of no pixel. `extract_embedded_metadata()` errs on foreign XMP where its
comment says `Ok(None)` (`metadata.rs:57`). `BytesCovered` is one-sided once a
leader outlived `in_flight_ttl`: `completed_bytes` can drift above what is
stored, never below.

## 6. Fairness

`JobManager!Fairness`: a task that can step is eventually polled (weak fairness
per task and per handler step); tokio's semaphore is first-in first-out, so a
waiting task offered a permit again and again gets one (strong fairness of
`WorkerAcquire`); the retention interval keeps ticking and eventually succeeds;
a stopped process is started again. `WorkerReturn` is among the fair steps: the
orchestrator returns because every call has a deadline, which is
`EveryCallEnds`. Nothing obliges a client to submit or cancel, an operator to
stop the server, or a fault to happen; `MaxFaults` makes faults finite.

`Orchestrator!Fairness`: weak fairness of a call's own steps and of its deadline
timer, and of nothing else. Providers may stay silent for ever, and slots may
never be freed by others: a call ends by its deadline and the grace alone.

`Fanout!FairSpec`: the task of a batch is polled when one of its chunks is ready
(weak fairness), the grace timer fires (weak), and permits are granted in the
order they were asked for (strong fairness of `Acquire`). Providers need not
answer: `FailureEnds` holds without that, and `BatchesEnd` names it as its
premise.

`AppServer!Fairness`: a call's task is polled and its timers fire (weak); the
supervisor's mutex is handed on in the order it was asked for (strong fairness
of taking it). The child owes nothing: it may stay silent for ever.

`EventStream!StreamSpec`: the streaming task, the runtime's timers and the write
timeout run. The upstream, the provider's calls and the client promise nothing.

`Handoff!FairSpec`: docker starts what it should run, slots boot and drain, health
checks run, the updater goes on unless it dies (weak), and the gateway polls;
each round of its poll looks at the hold timeout, so that is strongly fair where
it is enabled again and again. The timeout can only pass when the handoff is
`Stuck`, since the docs require it to exceed drain, readiness and a margin.

The other modules state no liveness. `NoOrphanWaiter` is the safety form of
"every waiter is answered".

## 7. The proofs

`ServiceProofs` proves about `JobManager`, for every set of jobs, keys and clients, every
capacity and every number and kind of fault, from `TableAssumption` and
`ManagerAssumption` (distinct model values, positive capacities):

| Theorem | Statement |
|---|---|
| `Invariance` | `Spec => []IInv` |
| `TypeCorrect` | `Spec => []TypeOK` |
| `PaidAtMostOnce` | `Spec => []AtMostOnce` |
| `RowBelongsToWorker` | `Spec => []WorkerOwnsRow` |
| `CancelIsNotLost` | `Spec => []CancelReaches` |
| `PreviewsAreBounded` | `Spec => []PreviewsOnlyWhileActive` |
| `LifecycleRefinement` | `Spec => ImplementsLifecycle` |
| `NothingIsStranded` | `Spec => []Sound`, which has `NothingStranded`, `PreviewsOnlyWhileActive`, `ActiveBounded` |

`AtMostOnce` and `WorkerOwnsRow` are not inductive. That a call is made once
needs that a row which was ever dispatched never again has a worker before its
dispatch; that needs that a row has one task, spawned once (`Ownership`: a row
just inserted has no worker, a row with a worker is not absent, `active` is
exactly the registered workers), and which stages come before the call
(`Payment`). `CancelReaches` and the clause "cancelled only when asked" need the
book-keeping of flag, token and signal (`Cancellation`): a token is only set
for a recorded request unless the process shuts down, and a worker past its
re-read of a flagged row has a cancelled token or a handler on its way. `OffLine`
says that a process which is not running has no tasks. `IInv` is the conjunction
with `TypeOK`.

Each group of actions preserves `IInv` (`OpeningStep`, `HandlerStep`,
`WorkerStep`, `PermitStep`, `LifeStep`), on top of what the table's statements do
to rows (`RequestCancelRow`, `ClaimRow`, `PruneRows`, `EnforceRetentionRows`).
The refinement goes over `JobMoves`: every step moves each job along one of
eight edges (`JobSteps`), and every edge is a step of the lifecycle
(`MovesAreSteps`).

`Sound` needs more (`Kept`). `open()` resumes at most `max_pending` rows, so that
none is left without a task holds only because `create()` keeps the queue within
the same limit (`QueueKept`, `AllResumed`), and no row is running when tasks are
spawned (`RecoveredKept`). `active` stays within `max_running` because its jobs hold
permits (`PermitsKept`). With these, each step hands a job on or is the fault that
cut it short (`ServedKept`).

`JobStoreProofs` proves, from `StoreAssumption` (ids are numbers, positive costs and
reserve) and `PageAssumption` (a positive page; no job is numbered 0, which stands
for "no cursor"), for any ids, scopes, keys, request kinds, sizes, limits, updates and
any length of the clock:

| Theorem | Statement |
|---|---|
| `AdmissionsHold` | `Spec => []Admissions`, which has `TypeOK`, `AdmissionBounds`, `SubmissionsConverge` |
| `RetentionHolds` | `Spec => RetentionKeepsNewest` |
| `StoreImplementsTable` | `Spec => ImplementsTable`, the refinement of `JobTable` |
| `HistoryIsStable` | `HistorySpec => []History`, which has `HiddenOnlyTerminal`, `WalkIsStable` |

`LogicalBytes` is a sum over a set, which the community modules define by a recursive
choice. Its recursive function exists (`SumExists`), gives the same whichever member
is taken first (`SumTakesAny`), is monotone in the set and in what its members weigh
(`SumsCompare`) and grows by the weight of a new member (`WeightOfOneMore`); each is
shown on the smallest subset where it would fail (`SmallestExists`), so that no
induction theorem is needed. The invariant `IInv` says of a row, beside its types and
times, that its result or error fits the reserve (`RowIsSound`), of an `update_history()`
under way that the row it may hide is settled or gone (`EditsAreSound`), and that the
table is finite. Every step inserts a row (`CreateInserts`) or is `Calm`: each row
stays, is deleted once settled, or changes without changing its owner, key, kind or
creation and without becoming larger (`StepIsCalm`, `RowsShrink`), which is why what was
admitted stays within its bounds. `RetentionHolds` compares counts and sums: what is
newer than a row is newer than every older one (`OlderExceedsToo`). For the walk,
`WalkInv` says that all it has shown lies before its cursor and all it owes behind
it; the last row of a page exists because the naturals are well-founded
(`LastIsOldest`), and what a page leaves out is older than that row (`PageIsNewest`).
Together with `ServiceProofs` this carries the theorems over the small table to
the table the code keeps.

`IdempotencyProofs` proves, from `CoordinatorAssumption` (positive bounds and
lifetimes), for any callers, keys, fingerprints and response sizes:

| Theorem | Statement |
|---|---|
| `Invariance` | `Spec => []IInv` |
| `OneLeads` | `Spec => []OneLeader` |
| `RepliesBelong` | `Spec => []ReplaysMatch` |
| `NobodyWaitsInVain` | `Spec => []NoOrphanWaiter` |
| `RecordsAreKept` | `Spec => RecordsKeep` |
| `RecordsAddUp` | `Spec => []Coherent` |

A caller that leads is the sender of its channel for good, while records come
and go, so the invariant ties three things together: a record is settled exactly
when its channel is (`Settled`), no channel belongs to two records or to a caller
that never led (`Distinct`, `Led`), and what a channel says was said by a leader
with the record's key and fingerprint that is done (`Spoken`, `RecordsMatch`).
From these, `WaitersMatch` says that who waits on an unanswered channel has its
record still in the table, and `LeadersHold` that a leader's record is its own
unless one expired under its leader. `begin()` sweeps, makes room and inserts
under one lock; the invariant takes the records, channels and callers as
parameters, and each of the three parts has its lemma (`SweepKeeps`, `DropKeeps` for what is
evicted, `LeadKeeps` for the insertion). That there is an oldest record to evict
is the well-foundedness of the naturals.

`RecordsAddUp` adds what the records weigh (`CountInv`: the counter covers the
held records and equals their sum unless a leader outlived its record, both bounds
hold). `BytesOf` is a fold over a set; `SumsExist` and `BytesAreSums` show, by a
smallest counterexample, that it is a sum in which any member may come last, and
`BytesOfParts` that it splits. From there `RemoveCounts` and `WrittenCounts` follow
the counter through the two ways the code changes a record. `VictimsFit` is the
step a test would hardly reach: evicting only the least recently used responses
makes as much room as `reserve_completed_bytes()` asked for. That the counter is
exact needs `IInv` again: the record a leader settles is still its own, pending and
without a response, unless one expired under its leader.

`OrchestratorProofs` proves, from `RouteAssumption` (finitely many calls, each
with a route), `GateAssumption` and `BreakerAssumption` (positive limits and
thresholds, a fault of discovery or output has a known outcome), for every set of
calls, providers, routes, fallback policies, faults and limits:

| Theorem | Statement |
|---|---|
| `CountersAgree` | `Spec => []Coherent`, which has `TypeOK`, `ProbesExact`, `IdleIsNoticed`, `QuietRelease` |
| `CallsTellTheTruth` | `Spec => []Truthful`, which has `UnknownIsFinal` and `TruthfulErrors` |
| `CircuitsMoveOnEvidence` | `Spec => BreakerMovesOnEvidence` |

The invariant has four parts. `FateOK` ties the phase of a call to what its
providers did: the routes behind it have ended with a known outcome, the ones
ahead are untried, and the phase says what the provider of the current route is
doing; `Truthful` alone does not survive the step to the next route. `Guarded`
says who holds a permit (the calls behind the breaker and nobody else), that a
permit of the breaker's own epoch is one of its phase, and that a half-open
circuit counts its probes (`Exact`); without the epochs a late result would be
taken for a probe's. `Counted` is about the tracker and about `shutdown()`,
already in the phase `loaded`, before it sleeps. `Types` adds why an await was
cut.

Every action of a call is first shown to be one of a few kinds of step (`Steps`:
what it does to its fates, its circuit and the count), in one lemma per group of
actions. A circuit is walked past, left or entered (`WalkKeeps`, `ReleaseKeeps`,
`AdmitKeeps`), where `Follows` says what the release of a permit makes of any
breaker, and the count of the calls inside goes over finite cardinalities
(`InsideIs`). That a circuit closes on the last probe is the same count again: it
is one, so the set of probes is the call itself.

`AppServerProofs` proves, from `AppServerAssumption` (positive bounds, `None` is
no call, session or child, a request names a session exactly when it is of mode
`persistent`) and `BoundsAssumption`, for any calls, sessions, requests, children,
faults and any capacity of the broadcast:

| Theorem | Statement |
|---|---|
| `CutsTellTheTruth` | `Spec => []CutsAreTruthful` |
| `EverythingIsOwned` | `Spec => []Owned`, which has `TypeOK`, `ChildrenAreOwned`, `OutputIsOwn` |
| `BindingsStay` | `Spec => BindingsAreStable` |

The properties speak of calls that have ended; the invariant says of every place
a future can be (`Placed`) what it knows of its turn (`Honest`): before the
request for the turn is written there is no turn and the child has nothing of
it (`Early`); with a cut reported as known there is none either, nor a request that
could start one, or the turn failed or was interrupted; a notification in the mail about the call's own turn is what the
turn has come to; an image noted was drawn; a result kept through the archival
of a thread is already true. It is stated for one future, one turn and whether
the child has still to start it (`Good`), so that every future `provider.rs` goes
on with has one lemma (`EndIs`, `AskIs`, `ConcludeIs`, `InterruptIs`, `AnsweredIs`,
`HeardIs`, ...), whoever makes it go on: its own task, the read loop, or the
failure of the connection. What the child does to a turn leaves it true
(`TurnIs`, `StartedIs`), since a turn that runs is not yet told of. `Supervised`
says that the holder of the mutex is the one call between two children, and
that a child that is up is the supervisor's or that call's. `Locked` says that
two calls of a session are never both past `resolve_thread()`, and that one which
is about to bind a thread found no binding: `delete_session()`, which takes no
lock, can only remove one.

`ArtifactsProofs` proves, from `ArtifactAssumption` (an exact filename is for one
output, positive bounds) and `DistinctValues`, for any requests, filenames, number
of images, policies and faults:

| Theorem | Statement |
|---|---|
| `Invariant` | `Spec => []IInv` |
| `EveryFileIsAccountedFor` | `Spec => []Accounted`, which has `TypeOK`, `NothingLeaks` |
| `WhatMustSurviveDoes` | `Spec => FilesSurvive`, by `FilesStaySafe` and `NewestStay` |
| `RepairsHeal` | `Spec => RepairHeals` |

An image belongs to one request and lies in one file (`IdsAreFresh`,
`IdsAreUnique`); a request in the middle of a publication or an attachment, and a
cleanup in the middle of a removal, know the only file their image can be in
(`TasksAreSound`, `RemovalIsSound`), and a record read by a cleanup keeps its path
(`FoundIsRecorded`). With these every image file has an owner
(`EveryFileHasAnOwner`): a record, the request that is between `publish()`'s two
steps, or one that died there. `DoomedIsOld` says what the removal phase is about
to remove: expired images, and images with `max_artifacts` newer ones behind them,
which after sorting and truncating is a count of the found images among the
scanned ids. `RepairSoFar` is the same for a repair, over the records it has seen.
The second half of `NothingLeaks` holds only while nothing has failed
(`CleanSoFar`): it says of each image what record, file and sidecar are at every
step of its request or its removal (`ImageIsClean`, `TaskIsClean`), unless a
cleanup has crossed the attachment of its metadata (`CrossedIsNoted`).

Each action is first described by what it does to each variable (the `...Does`
lemmas); the parts of the invariant then go over these descriptions, and a step
that touches neither files nor ids is `Calm` for most of them.

The search for this proof corrected two properties. With three requests that want
one filename, the user may delete the file of the first while it is published, and
the second place and own its image under that name. If a cleanup then verifies
it, the first request fails and its undo removes the name (`store.rs:277`,
`store.rs:296`, without a look at what is there), and the third places its image,
`remove_file()` takes that one. The run has two requests and cannot get there. `FilesAreSafe` and `NewestSurvive` now say which image goes then, and the
theorems hold for any number of requests.

`HandoffProofs` proves, from `HandoffAssumption`, for any number of requests,
updates and faults:

| Theorem | Statement |
|---|---|
| `Invariance` | `Spec => []IInv` |
| `OneSlotActive` | `Spec => []OneActive` |
| `RecordsTellTheTruth` | `Spec => []RecordsSound` |

`OneActive` follows from `HoldsLock` (a process past the lock is the one that
holds it). `RecordsAgree` and `NamedIsVerified` rest on the order of the
updater's writes: from the stop of a slot to the last write the coordination file
says hold (`CutoverIsHeld`), and what it will name then has been started, waited
for and written to the slot file (`StartedIsWanted`, `NamedWasHealthy`,
`SlotIsRecorded`), with a health check that only a good version answers
(`HealthyIsGood`). A death between two writes leaves the hold.

`ProviderProofs` proves about `Fanout`, from `FanoutAssumption` (positive limits, typed requests
and answers), for every set of batches, requests, limits and provider answers:

| Theorem | Statement |
|---|---|
| `TypeCorrect` | `Spec => []TypeOK`, with the bound on permits in use |
| `StopIsTruthful` | `Spec => []TruthfulStop` |
| `OutputsEndInPlace` | `Spec => []OutputsInPlace`, which has `OutputsExact` and `ConversationsInOrder` |

`TypeOK` needs the finiteness of the set of permits in use, carried along with
it: a grant adds one element when one is left (`PermitGranted`), every other
step leaves a subset (`PermitsReturned`). `TruthfulStop` needs two facts
(`Honest`, `NoneLost`): a batch stopped with a known error has no active chunk,
so that nothing can be granted or answered during its grace, and an open batch
has lost no chunk, so that a chunk neither active nor ended was never tried.
`OutputsInPlace` needs that in a conversation a chunk under way has only ended ones
before it (`InOrder`: `push_next()` takes the least pending one, which exists because
the naturals are well-founded), that an error came without images and a denied chunk
with an error (`Accounted`), and that nothing is under way once the response is made
(`LastCollected`), so that it stays true. That shifting the indices puts every output
in one place is division with remainder (`IndexOf`, `ChunkOf`, `MergedIsExact`).

`ProviderProofs` also proves about the Responses provider and the stream around it,
from `InputsAssumption` (sizes and counts are numbers, policies are policies),
`ResponsesAssumption` (finitely many numbered outputs, at least one; positive bounds; `None` is no
result) and `EventStreamAssumption` (a positive capacity; `None` is no event), for any
outputs, attempts, previews, images, policies and capacities of the two channels:

| Theorem | Statement |
|---|---|
| `CallsAreTruthful` | `StreamSpec => []CallsTruthful`, which has `StreamTypeOK` and the next three |
| `AskedAgainOnlyWhenSafe` | `StreamSpec => []RetriesAreSafe` |
| `BatchTellsOfSiblings` | `StreamSpec => []FailFastTruthful` |
| `LoadsStayWithinPolicy` | `StreamSpec => []InputsWithinPolicy` |
| `ClientReadsTheStream` | `StreamSpec => StreamIsExact` |

The invariant has three parts. `WithinPolicy` says at every step of a load what its
hop was checked for: a host and a port of the policy, then every address the name
resolved to, then the one connected to; `InputsWithinPolicy` says it only of the
connection, when the checks are past, and also that the address is of none of the
`ReservedRanges` that the test of `is_public_ip()` names, which `PublicIsNotReserved`
derives from what `is_public_ip()` refuses. `CallsInv` is about the calls. A call that
pauses or is asked again was told by the upstream that nothing came of the attempt
(`SoundCall`: the verdict is only there to say so); a call has a result exactly when
it is over, and before its dispatch nobody worked on its output (`SoundOutput`);
before the images are loaded that is so of every call (`LoadingFirst`). `FailFastTruthful` then rests on the
bound on calls in flight: while a batch that fails fast goes on none of its calls
has failed (`NoFailureYet`), so the failure that ends it leaves the other outputs
made, in flight or untouched; and if `MayHaveSibling` is false, because one call
runs at a time and no image is there, the call that failed was the only one in
flight (`AtMostOne`, `StopsTruthfully`). Every step of a call is one of two: within
its attempts (`GoesOn`) or its end (`Ends`), and `EachCallActs` says so of each of
the eight actions.

`StreamIsExact` is about one event at a time; what makes it true is `Faithful`, about
all that is on its way at once: what is on the wire, the one event the task holds,
and what is still in the provider's channel, in this order (`OnTheWay`). Of each
output it carries exactly the previews sent and not yet read, once and in order
(`InTurn`, `NoneMissing`), `started` is at its head until it is read (`StartsOnce`),
and a terminal event is the last one, after which the task sends no more
(`EndsOnce`). The steps of the task move an event along without changing the whole
(`TakePreviewKeepsWay`, `ResumeKeepsWay`); the provider appends a preview
(`ProviderFeeds`, `SendsPreview`), the drained task appends the terminal event
(`TerminateSendsTerminal`, `SendsTerminal`), and the client takes the first
(`ReadTakesFirst`, `ReadsNext`). It holds while there is a client: one that has gone
reads no more, and what the task held for it is dropped. TLC had found this invariant true in
every state of `eventstream` before it was proved.

`ArtifactsProofs` also proves about the removal of a background, for every color, key,
alpha, threshold, scale of the soft edge (`AlphaAssumption`: it is positive) and
picture:

| Theorem | Statement |
|---|---|
| `EdgesDoNotShine` | after `cleanup_spill()` no pixel of an alpha below 252 dominates in the key's channels |
| `KeyVanishes` | a pixel of the key's color becomes invisible |
| `SubjectStays` | a visible pixel that is not like the key is not changed |
| `NothingSolidifies` | no pixel becomes more opaque than it was |
| `MajorityIsDetected` | a color that more than half of the border has is the key detected |

The first four go through the roundings: `AsByte` bounds what
`u8::try_from(..).unwrap_or(MAX)` gives, and `(m * a + 127) \div 255 <= a` for
bytes `m`, `a`. The last goes over cardinalities: the samples below a majority's
value, and those above it, are fewer than half, so the middle of the sorted
samples is that value (`MajorityIsMiddle`), in each channel. `BackgroundIsGone`
checks the same on the small rasters of `pipeline`, there for the whole path.

`ServiceProofs` also proves about `Pipeline`, from `PipelineAssumption` (a call that
names a preset names one that there is) and `NoneAssumption` (`None` is no field that
a refusal names), for any layers of configuration, calls, presets, clients and
answers of a provider:

| Theorem | Statement |
|---|---|
| `PipelineInvHolds` | `PipelineSpec => []PipelineInv` |
| `NegotiationSettled` | `PipelineSpec => NegotiationSettles` |
| `JobsRun` | `PipelineSpec => []JobsAreRun`, a part of `AdmittedIsServed` |
| `ConfigurationsStart` | `PipelineSpec => []ConfigurationSound` |
| `StrictRequestsAreExact` | `PipelineSpec => []StrictIsExact`, a part of `ReportSound` |
| `ReplacementsTold` | `PipelineSpec => []ReplacementsAnswer`, a part of `AdmittedIsServed` |

`NegotiationSettles` is a property of steps in the fan-out and in the provider, and
holds because of what the runtime did before. `PipelineInv` carries it there:
whatever serves was checked (`Configured`), whatever a front understood is a whole
request (`Understood`, over the five fronts and the presets: `TakenKeeps`, `Shelved`),
and a request behind the runtime's negotiation is `Answerable` by the capabilities
it is negotiated against next (`Negotiated`). `NegotiatedWell` follows
`negotiate_request()` through its steps: each touches the fields it is about
(`ChangeTouches` and the `...Touches` lemmas), so what one has settled the later
ones leave settled. `Settled` is the converse: an answerable request is what its
own negotiation gives, without a note. Between them the plan for transparency
may change the request again (`PrepareTalks`), and the fan-out negotiates against other
capabilities than the provider, which have the same fields but for the counts
(`EffectiveIsGenerous`, `ChunkIsAnswerable`).

For `ConfigurationsStart` each constructor is a list of steps that may fail, and a
step is `Harmless` if, for a configuration without issues, it fails only for a
reason the property names (the host, a provider this build has not, a limit for an
unknown name, a bound above `MAX_PERMITS`). `RulesHold` takes a rule of `check()` out
of its set, each constructor has a lemma (`ProviderStepsHarmless`,
`RuntimeStepsHarmless`, `ServerStepsHarmless`), and the obstacle met first is the
least failing step, by the well-foundedness of the naturals. `JobsRun` rests on
`Queued`: a job is in the queue only as a request that is valid under the
runtime's limits, the same that judge it again when its turn comes.
`StrictRequestsAreExact` takes the same steps again for a strict request: each leaves
all but the action and the prompts as they were, or refuses (`StepsAreExact`), and the
plan for transparency changes the background alone, which the matte restores
(`PreparedExactly`). `ReplacementsTold` says of a client between its update and its read
that the row is what it wrote, unless it was overtaken (`Standing`). In the search for
these proofs `CASE`s whose arms overlapped were rewritten as the code has them, first
match first.

Model-checked only: `ReportSound` but for `StrictIsExact`, `AdmittedIsServed` but for
`JobsAreRun` and `ReplacementsAnswer`; and every liveness property. Liveness under fairness, `ENABLED` and `RECURSIVE` operators
are out of the prover's reach; the modules use none of the last. The induction
theorems of its library take an operator as a parameter, which no prover here
instantiates; sums over a finite set are proved without them, by a smallest
counterexample, but what `FoldLeft` computes over a response or over the layers, and
what `SelectSeq` leaves of a list of notes, is not, which is why `Materialization` and
the contents of `ConfigLoader`'s result stay with TLC. The other modules `Pipeline`
is composed of have their part in its theorems.

## 8. Limits of the models

Abstractions and assumptions that a reader should know of:

- Progress columns, diagnostics, metrics and log events are left out of the
  modelled components, as is the text of errors.
- In `Orchestrator`: a second concurrent `shutdown()` waits on a mutex for the
  stored result; a disabled breaker; queue order (any waiter may get a freed
  slot, which allows more than the code).
- Keyed synchronous requests are in `Idempotency`, unkeyed ones in
  `Orchestrator`. Clocks are monotonic.
- In `AppServer`: the child reads its input. `write()` holds the writer's mutex
  outside the select (`rpc.rs:218`), so a child that stops reading would stall
  calls past their deadlines; `EveryCallEnds` assumes it does not. There is no
  clock, hence nothing about the restart backoff.
- In `Artifacts`: the user does not edit a file between its verification and its
  removal, nor during a repair (`docs/cli.md:301` asks to stop the bridge);
  creation times are the order of ids.
- In `Handoff`: one updater at a time; a `docker compose` command succeeds, fails
  or is followed by the death of the updater.
- In `Inputs`: an address is its class and the version whose rules judge it (a
  mapped one is of version 4); sizes are units up to one past a limit.
- In `Pipeline`: a command-line call assembles its own application from the same
  configuration, so the model lets it arrive in the serving process; calls
  without a preset are tried with an empty shelf, calls with one while nobody
  replaces it (a preset is read at once); a full job store is `JobStore`'s
  subject. `MaxPermits` is 2^30 instead of `usize::MAX >> 3`, since TLC's integers
  have 32 bits, and `AlphaScale` is 255 in the run instead of 65535 for the same
  reason, which moves soft edges by at most 2 of 255; the proofs hold for both.
- Pictures are 3 by 2 rasters; a cell stands for alike pixels, so the band of up
  to 6 lines along the border lies in the border cells. Re-encoding does not
  change the number of bytes; only the default thresholds are tried; `Contract`
  (3 KiB) bounds the JSON of a record besides its texts.

### Not modelled

- *Metrics, OpenAPI, dashboard, diagnostics*: counters and texts nobody decides on.
- *Image codecs*: functions over bytes; what they refuse is a choice of the
  environment.
- *The in-place Compose update and the replacement of a standalone binary*: two
  writes each, after downloads and checksums.
- *Schema migrations*, the search and status filters of the history, the listing
  of presets: reading and one-time work.
- *Sockets*: the listener's limits and header parsing, besides the write timeout
  that `EventStream` needs.
- *Client SDKs and tools*: the far side of the API, and development.
- *`setup`, `doctor` and the command line's printing*.

## 9. Plan

What would come next, in this order:

1. *Execution*: `Fanout` and `Responses` as providers of `Orchestrator`, so that a
   batch's report meets the routes and graces that act on it.
2. *PaidOnce*: an abstract specification of one keyed request, implemented by the
   composition of `Idempotency` and `Orchestrator`.
3. Proofs, in order: the refinement of *PaidOnce*; `RequestsAreServed`, as far as the
   request and its negotiation go.
4. *Updates*: the replacement of a standalone binary with its rollback, and the
   in-place Compose update, beside the handoff.
