# Verification of wild_agentos

TLA+ models of wild_agentos, the TLC configurations that check them on small
instances, and TLAPS proofs of what holds for every instance. Paths below are
relative to the repository; `invocations*.rs` are in `src/api/http/`.

- [The system](#the-system)
- [Modules](#modules)
- [Correspondence with the code](#correspondence-with-the-code)
- [Runs](#runs)
- [Fairness](#fairness)
- [Proofs](#proofs)
- [Where code and documents disagree](#where-code-and-documents-disagree)
- [Not modelled](#not-modelled)
- [Plan](#plan)

## The system

wild_agentos is one server process (axum for HTTP, tonic for gRPC, tokio as the
runtime) that runs language-model agents for several tenants. The part with a
protocol of its own is the **invocations API** (`docs/29-invocations-api.md`):
a client posts an invocation, the server stores it, runs it when a slot is free
and keeps its outcome. Two more parts keep state of their own and must survive a
crash with it: the **online corpus jobs** with the watchers that enqueue them
(`docs/21-ontology-knowledge-engineering-pipeline.md`), and the **vector engine**
with its write-ahead log (`crates/hyperspace-engine`). Most other subsystems
transform RDF graphs or follow the answers of a model.

| Component | State it keeps | Operations | What makes it correct |
|---|---|---|---|
| Invocation store (`invocations_store.rs`) | a vector of records behind a `RwLock`, one JSON file, the set of keys in flight | create or replay, lifecycle transition, sweep, open and recover, reserve a key | memory never runs ahead of the file; one revision names one version; outcomes stand; one invocation per live `Idempotency-Key`; caps; retention |
| Create and cancel handlers (`invocations.rs`) | what one request has read so far | create: look up, reserve, validate, store, dispatch; cancel: read, write, one retry | reservations are given back on every path; a cancel is refused only for a finished invocation; `If-Match` is obeyed, on the retry too |
| Running-slot ledger (`invocations_enforcement.rs`) | admitted ids, one global, per-tenant and per-scope counters, a notifier | admit, release | counters equal admissions; the caps hold |
| Execution bridge (`invocations_execution.rs`) | a task, a token, possibly a deadline watcher per invocation | dispatch, wait for a slot in FIFO order, prepare, run, record, release; cancel; deadline; shutdown | no slot leaks; executors within the limits; FIFO per scope; outcomes are what the executor did; every invocation ends |
| SSE events (`invocations.rs`) | a cursor: last revision and state seen | snapshot, progress, poll, close | every client learns the outcome |
| Online corpus jobs (`corpus_jobs.rs`) | a vector of jobs behind a `RwLock`, one JSON file; what runs put into the knowledge graph | create, cancel, run (read, start, stage, hold a review, resolve, link, end), load after a restart | one job per idempotency key; attempts bounded and counted; a job that awaits review has a review that passed; a running job has a runner |
| Corpus watchers (`corpus_watchers.rs`) | a set of cursors, one JSON file | tick: copy the cursors, look, count the queue, enqueue, save | no cursor without its job; a version that is polled gets its job |
| Worker queue (`src/worker/task_queue.rs`) | two file queues, results set aside | send, receive, commit, time out | no task lost or run twice; a result reaches who waits for it |
| Event bus (`src/core/event_bus.rs`) | one bounded buffer per subscriber | publish, subscribe, receive, lag | lag is reported |
| Memory, knowledge graph, ontologies, skills, tools, perception, causal and root-cause analysis, snapshots | RDF graphs and vectors | queries and updates | functional correctness of transformations |
| hyperspace-engine (`crates/hyperspace-engine`) | identifiers of IRIs, vectors and an index in memory; a write-ahead log of several files, a snapshot | insert, upsert, delete, rotate a full log, checkpoint (rotate, build, save, clean up), open and recover; search | what is acknowledged survives a crash, unless log files were deleted or swapped under it; a refused write is not seen; one identifier per IRI |
| Model gateway, spend gate | provider clients, counters | call, count | caps |
| Batch agents, agent runner, SA loop, workflow | the state of one agent run | steered by model answers | out of a finite model's reach |
| Identity, isolation, API clients | per-request claims | authenticate, authorise | per-request functions, no protocol |
| Applications (`apps/`) | Go pipelines, web front ends | clients of the API | not part of the server |

How the components of the invocations API interact:

```
 client --POST--> create handler --create--> store --(record, revision 1)
                       |  dispatch                    ^   ^        ^
                       v                              |   |        |
                  task of the bridge --transition-----+   |        |
                       |   ^  try_admit / release         |        |
                       v   | notify                       |        |
                  running-slot ledger                     |        |
 client --cancel--> cancel handler --transition-----------+        |
                       |  token.cancel()                           |
                       v                                           |
                  cancellation token <--cancel-- deadline watcher--+
```

The hard behaviour is between them. The store's lock is taken anew for every
access, the ledger has a lock of its own, the notifier stores no wake-ups, and
a token is cancelled by four parties (cancel handler, deadline watcher,
shutdown, the end of the task). No two of these are changed in one step.
`PROJECT.json` lists the hazards this leads to, each at its line, with the
properties that watch it.

The corpus jobs are shared by HTTP callers, any number of run calls and the one
scheduler task of the watchers:

```
 POST job --------enqueue---------> jobs (vector + file) <--count, enqueue-- tick
 POST cancel -----transition------->   ^    ^                                |  ^
 POST run --read, start, link, end-----+    |                          save  v  | copy
          \--stage, review, resolve--> knowledge graph               cursors (file)
```

A run call holds no lock between its changes and decides on the copy of the job
it read first; a second run call, a cancel or a restart may come in between. The
tick drops the lock under which it counted before it enqueues, and job, cursor in
memory and cursor on file are three writes.

In the vector engine a write holds every lock it needs from the identifier to
the index, but a checkpoint holds none between its phases, the rotation of the log
holds none between its steps, and the files change one at a time: what a crash, or
an append that finds the log full, leaves there is the hard part.

## Modules

| Module | Models | Composed of |
|---|---|---|
| `InvocationLifecycle` | the lifecycle graph; constant operators | |
| `InvocationContract` | what callers are promised: no file, lock or clock | `InvocationLifecycle` |
| `InvocationStore` | the store; refines `InvocationContract` | `InvocationLifecycle` |
| `InvocationApi` | concurrent create and cancel calls | extends `InvocationStore` |
| `RunningSlots` | the ledger | |
| `ExecutionContract` | what is promised of the execution: order, limits, one start; no store, ledger, token or notifier | |
| `InvocationBridge` | tasks, watchers, tokens, notifier; refines `ExecutionContract` | extends `InvocationStore`, instances of `RunningSlots` and `ExecutionContract` |
| `CorpusJobs` | the job list, create, cancel, run calls | |
| `CorpusWatchers` | the tick, its cursors, restarts | extends `CorpusJobs` |
| `VectorContract` | what callers of the vector engine are promised: no log, no snapshot | |
| `HyperspaceEngine` | writes, log files, checkpoint, recovery; refines `VectorContract` | instance of `VectorContract` |
| `RunningSlotsProofs`, `InvocationStoreProofs`, `InvocationStoreHistoryProofs`, `InvocationContractProofs` | theorems | the last three build on each other |
| `InvocationApiProofs`, `InvocationBridgeProofs` | theorems | extend `InvocationContractProofs`; the second takes `RunningSlotsProofs` as an instance |
| `HyperspaceEngineProofs`, `CorpusProofs` | theorems | |
| `MC*` | instances for TLC | |

Definitions named `Bug_...` stand directly before the definition they vary.
They are the plausible mistakes the properties are tested against: put in its
place, each makes TLC find the property it is paired with (`mutants` in
`PROJECT.json`) violated. No specification uses them.

## Correspondence with the code

**Store.** `mem` is `InvocationStore.records`, `disk` the JSON file, both as a
function from ids to records (an id that is not stored has the record
`Absent`). `persist` writes a temporary file and renames it, then
`*records = next` publishes. All of it happens under the write lock, so an
operation is one action with three endings: `Commit` (file and memory),
`CrashAfterReplace` (the file only; the process is gone) and a failed write,
which changes nothing and is a stuttering step. The store answers a caller only
after the publish, so `published`, the last version memory has held of each
record, is what anyone can have seen. `Open` fails every unfinished record as
`interrupted`, sweeps, drops lapsed bindings and writes. Time is counted in
ticks; `Retention >= TTL`, because the server refuses to start otherwise.
Audit events, results, usage and timestamps other than the two that decide
something (`created_at`, from which `expires_at` follows, and `completed_at`)
are left out.

**API.** A call is a record with a program counter; every `.await` on the store
and every lock is a step. `Disconnect` is hyper dropping the handler's future,
which drops the reservation. `Drive` is what the bridge may write in between.

**Ledger.** One action for `try_admit` (with `try_acquire` inside it), one for
`release`; the subtraction saturates as in the code. A counter that the code
removes from its map at zero is zero here.

**Bridge.** `task[i]` is the program counter of the task that `dispatch` spawns. Its
loop is `Listen`, `Recheck`, `Snapshot`, `Choose`, `TryAdmit`, `Wake`: one step per
lock or signal, in the order of the code. `ear[i]` is the `Notified` future:
`enable()` makes it listen, `notify_waiters` wakes those that listen and leaves
nothing for the others. `seen[i]` is the snapshot of the admitted ids, stale by the
time the store is asked for the oldest other one. `Join` and `Unwind` are the two
branches of the biased `select!`; an executor (`HttpTaskExecutor` in
`src/api/grpc/server.rs`) may return at any time with any outcome, except that one
whose own run timeout has passed cancels its token (`ExecutorTimesOut`, it is then
in `expired`) and returns a failure, never a cancel. `Attempt` is a write whose
error the caller ignores (`let _ =`): it happens, is refused by the lifecycle graph,
or is lost. `watcher[i]` is the deadline watcher, with the gap between its cancel of
the token and its write. `cancel` is one cancel call at a time, since
`InvocationApi` covers their overlap.

**Corpus jobs.** `jobs` is the list of one tenant and project, in order of creation;
every query of the code filters by both, so one scope is modelled. `Move` is
`transition_job_for_claims` (the table `Permits` is `can_transition_to`), with the
save and the publish it makes under the write lock. `calls[c]` is a run call:
`RunReads` takes the copy that decides the first phase and `mayRetry`; `RunStarts`,
`Stage`, `HoldReview`, `Resolve`, `RecordLinks` and `RunEnds` are the handler's
accesses in their order, `WorkFails` and `ResolveFails` its error paths,
`RunConflicts` a transition that is illegal by then. `RunDropped` stands for the two
ways a call ends in the middle, a save that fails and a client that hangs up while
the handler waits for the lock. `kg[j]` is what runs of job `j` have left in the
knowledge graph, which is a store of its own and outlives the process. `abandoned`
is a history variable: the running jobs of which a run was cut off by a drop or a
restart. `JobsUnreadable` is the start with a jobs file that cannot be read or
parsed, which `load_online_corpus_jobs` takes for an empty list. The process never
leaves such a file (it writes a temporary one and renames it), so the damage comes
from outside; that a later start reads the old list after all, because nothing was
saved meanwhile, is left out. Nothing in the code moves `awaiting_review` to
`succeeded`; `Permits` has the edge because the table has it.

**Corpus watchers.** A tick is `TickStarts`, then per registration `Skip`, `Count`,
one of `WatcherEnqueues`, `WatcherReuses` and `EnqueueRejected`, and `SaveCursors`.
`at` and `step` are its program counter, `seen` its copy of the cursors, empty if
their file cannot be read or parsed. `lost` is a history variable: the keys of jobs
whose file could not be loaded. `KeyOf`
leaves out the scope and the id of the source, which go into the digest with the
version and do not vary here. HTTP callers do not look at the queue's capacity.
Registrations are configuration, so they change with a `Restart` only.

**Vector engine.** The log files are one set of records, `log`; `file` says which
file a record is in, `name[f]` what that file is called: active, frozen under a
timestamp, or deleted. `open` is the file that appends go to, whatever it is called,
and `size` the counter that decides when the log is full, which is not always the
size of that file. `Logged`, `WriteFails`, `SyncFails` and `Refused` are the endings
of `EngineWal::append`, after which memory follows or does not; a failed `write_all`
may leave a torn record, behind which `replay` does not read on (`Readable`).

`rotate` is five steps, since it holds the log's lock over none of them: the
timestamp (`BeginRotation`), the rename, the new file, the switch of `inner.file` and
the reset of the size. Two can be in it, the append that found the log full and the
checkpoint (`at[p]` and `ticket[p]` for `p` in `Rotators`), and their steps
interleave freely; a rename that finds no active file fails. An append's rotation
holds the engine's locks, so a checkpoint cannot build its snapshot meanwhile; it
can save and clean up. The phases of `checkpoint` are actions of their own, and so
is the deletion of each frozen file, since `cleanup_frozen` takes them in the order
of the directory; it deletes what is called frozen when it looks. `Restart` is the
death of the process at any point, `open` and `recover`: the snapshot, then every
readable record over it in the order of the file names, whatever the snapshot's
clock.

Four history variables say what can be expected of a restart. `doubt`: what it may
bring back besides what readers see, because a refused write reached the file or an
acknowledged one lies behind unreadable bytes. `gone`: the newest write whose file
was deleted. `muddled`: how far a log goes that an earlier restart replayed in the
wrong order. `crossed`: a rotation began while the other rotator was at work. From
the first three follows `Exposed`, the exception of `CrashSafe`: an older record is
left behind a deleted one (`Gap`), a deleted one is newer than the snapshot (`Lost`),
or the order of the names is not that of the writes, now or at the last restart
(`Disordered`, `Muddled`). `OnlyCrossingExposes` says what each of these takes. The
abstract contents are `Values`: insert and upsert differ in the opcode only.

Abstractions to know of:

- Ids in the bridge are numbers in creation order: they stand for `created_at`,
  which the store takes under its write lock.
- The clock of the bridge stands still. A run is short compared to the
  retention, and sweeping never touches unfinished records. A deadline passes at
  any time (`DeadlinePasses`).
- `task_failed` stands for all codes of a run that failed, `task_init_failed`
  for all failures before it (`input_ref`, task init, projection context).
- A record that is read and found finished, and a write that the store refuses
  because it is finished, are one step: the read decides nothing else.
- `try_admit` and `release_now` notify after they unlocked the ledger. The two
  are one step, because nobody reads the notifier in between except to start
  listening, which is the same as having started a moment earlier or later.
- A crash is the death of the process. The file system keeps what it was given;
  a power failure, against which the code of the invocations store has no
  `fsync`, is not modelled, nor is the window of the engine's batched sync.
- A log file of the engine holds 512 MB, here `MaxSize` records. Two checkpoints
  at once are left out, as are damaged snapshots and vectors of a wrong dimension.
- Frozen files are named by the time in microseconds. Two rotations in one
  microsecond and a clock that is set back are left out: timestamps are numbers that
  grow in the order in which they are taken.
- After `MaxIoErrors` failed writes the engine refuses everything with the advice
  to checkpoint. The counter is in fact reset by a restart only, and so it is in
  the model.

## Runs

All constants are in the `.cfg` files; the bounds:

| Run | Instance | Distinct states | Shows |
|---|---|---|---|
| `store` | 3 invocations, 1 scope, 1 key, at most 1 unfinished and 2 stored, 3 points in time, retention = TTL = 1 | 754 k | the promises of the store and the refinement of `InvocationContract` |
| `api` | 2 concurrent calls, 2 invocations, 1 key, 2 fingerprints | 2.8 M | no key leaks, no second invocation, conditional cancels are exact, a cancel is refused only for a finished invocation |
| `api_stale_cancel` | as `api` | | a stale cancel that ends a running invocation at once (violation) |
| `slots` | 6 invocations, 3 scopes, 2 tenants, caps 4 / 3 / 2 | 1 354 | counters and caps |
| `bridge` | 2 invocations, 1 slot, a deadline for the first, cancels, crashes, failed writes, shutdown | 1.4 M | ownership of slots, outcomes, cancels that reach their run, the refinement of `ExecutionContract` |
| `bridge_peers` | 3 invocations, 2 scopes of one tenant, caps 2 / 2 / 1, a deadline | 2.2 M | limits, FIFO, no missed wake-up, nobody forgotten, nobody stuck |
| `bridge_live` | 2 invocations, 1 slot, cancels; fairness | 35 k | everyone ends |
| `bridge_wakeup` | as `bridge_live` | | a missed wake-up (violation) |
| `bridge_cancel_outcome` | 2 invocations, cancels | | a cancel recorded as a failure (violation) |
| `corpus` | 2 run calls, 1 HTTP job and 2 versions, 2 attempts, 1 poll, capacity 1, two configurations, 1 disturbance; fairness | 246 k | keys, attempts, reviews, runners, cursors; runs end, polled versions are queued |
| `engine` | 2 IRIs, 2 contents, 3 writes, 3 log files of 2 records, 2 errors, 2 rotations, 1 restart | 1.8 M | crash safety, what endangers it, identifiers, the refinement of `VectorContract` |
| `engine_cleanup` | as `engine`, files of 3 records | | a frozen file that was not safe in the snapshot (violation) |

Why these bounds are enough for the hazards they are aimed at:

- `store`: three invocations let a swept one make room for a new one under the
  same key; one unfinished and two stored at most make both caps bind, and the
  sweep matter; retention
  equal to TTL is the tightest configuration the server accepts, where an
  off-by-one in either makes a live key point at a swept record; two ticks pass
  through the last live one and the first lapsed one.
- `api`: a race on a key needs two calls, and a conflict two fingerprints; the
  retry of a cancel needs one driver that moves the record twice. `If-Match` is
  absent, the shown revision, or the one after it.
- `slots`: each of the three caps is the one that refuses in some state.
- `bridge`: the record, token, ledger, executor and watcher of one invocation
  interleave freely, with a second one after its slot. With one slot for two,
  the order of admission and all three limits bind; every disturbance occurs, so
  the contract is checked with withdrawals before and after the admission and
  with a create whose record reaches the file in the crash.
- `bridge_peers`: two peers in one scope, whose limit is one, and one in another
  scope, with both under the tenant's limit: stale snapshots, and slots that are
  passed on within and across scopes. Nobody cancels here, so the exception of
  `HeadIsWoken` is down to the deadline watcher, and the wake-ups that count are
  those of an admission, a start and a release. Deadlock is checked, so some task
  can always act until all are done.

- `corpus`: two run calls on one job are the least that overlap, and two attempts
  the least limit that permits a retry, so the bound of `AttemptsBounded`,
  `MAX_RETRY_ATTEMPTS + 1`, is reached. Two registrations of one version, one of
  them with another address, race for one key across a change of configuration;
  a poll of one leaves a registration behind it; a queue of one is full with the
  HTTP caller's job. The one disturbance is a restart with a readable jobs file
  or without one, an unreadable cursors file, a failed save or the overlap of runs.
- `engine`: three writes let a content be overwritten, the first of them be in an
  older file than the second, and a third fail. Files of two records are full after
  two of them, so an append rotates while a checkpoint may be in any of its phases;
  two rotations are the least that cross, and three files hold two frozen ones and
  the active one. `engine_cleanup` takes files that never fill, so that its
  violation needs no crossing. A write, a checkpoint and a rotation end in the one
  restart, or begin after it. The bounds end the run, so deadlock is not checked
  there.

What each property says, and which code it is about, stands in the comment
before it. `InvocationContract` is checked as a property of the store
(`KeepsContract`), with the refinement mapping `Phase` and `Holders`: a record
counts as retired from the tick on which a sweep may remove it, and a key is
held while its binding is live *on file*. `ExecutionContract` is checked as a
property of the bridge (`KeepsExecutionContract`), with the mapping `Stage` and
`Home`: an invocation is in the queue while its task is in the admission loop,
`withdrawn` or `spent` once its record is past `queued` without a run, and
`running` exactly while its executor is. The write to `running` and the spawn are
two steps in the code and one `Start` in the contract: between them the task keeps
its claim to run, whatever the record says.

The type invariants of the store and of the ledger are conjuncts of `ApiTypeOK`
and `BridgeTypeOK` and have no run of their own. That one live key stands for one
invocation is checked in `api`, where creates race; in `store` it is part of what
`KeepsContract` demands of an `Accept`.

## Fairness

`bridge_live`, `bridge_wakeup` and `corpus` assume fairness, weak fairness
throughout. In the bridge:

- `TaskStep(i)`: tokio polls every woken task, and locks are granted in turn.
  A task waiting for a notification is not enabled until it is woken.
- `ExecutorStep(i)`: the executor has a run timeout of its own,
  `agents.timeout_seconds`, 300 by default (`src/config/settings.rs`). The setting 0
  turns it off (`src/api/grpc/server.rs:956`), and then nothing bounds an executor:
  the liveness properties assume that it is positive.
- `WatcherStep(i)`: sleeps end.
- `CancelStep`: a cancel that has been started is carried through.

Nobody has to submit or to cancel anything. Failed writes, crashes and shutdown
are left out of the liveness runs: after a failed outcome write the record does
stay unfinished until the next restart.

For the corpus (`WatchersFairness`):

- `SchedulerStep`: the scheduler's task loops over an interval until the process
  ends; tokio polls it.
- `RunStep(c)`: a handler that has been started is polled, and its calls to the
  knowledge graph and the sidecar return or fail.

Nobody has to create, run or cancel a job, and `RunDropped` is not fair: `RunsEnd`
promises an end to a running job only if no run of it was cut off, and
`PolledVersionsAreQueued` a job to a version only if ticks do not find the queue
full again and again. Failed saves, unreadable files and restarts are part of that
run; there are finitely many of them (`MaxDisturbances`).

The deadline is left out of `bridge_live` for its size; that a deadline ends an
invocation is covered, as safety, by `NobodyForgotten`.

## Proofs

Checked by TLAPS with Z3, Zenon and LS4, for all values of the constants that
satisfy the named assumptions of the modules (`StoreConfig`, `NoneIsNoValue`,
`ApiConfig`, `BridgeConfig`, `CorpusAssumption`, `WatcherAssumption`,
`EngineAssumption`). `SlotLimits` is the hypothesis of the theorems about the
ledger instead of an assumption, because the bridge uses them of its own ledger
and shows there that it holds (`LimitsHold`); `MCRunningSlots` asserts it of the
instance TLC checks.

**`RunningSlotsProofs`.** `SlotsInv` is `SlotsTypeOK /\ CountersMatch /\
CapsHold`. The caps alone are not inductive: what the code compares with a limit
is a counter, and that a counter below the limit means room for one more is
`CountersMatch`. That in turn needs the ids to be finite and a release to be
keyed by the scope that was recorded at admission. `GroupSizes` counts a group
before and after; `AdmitKeepsInv` and `ReleaseKeepsInv` are one lemma per
operation. Theorems: `SlotsInvariant`, `SlotsTypeCorrect`, `SlotsAreCounted`,
`SlotsWithinCaps`.

**`InvocationStoreProofs`.** `WritesAndOthers` reduces every step to a `Write`
of one of four kinds of new records, a crash or a tick. `BasicInv` is the type
invariant, `MemoryIsDurable` and the emptiness of memory while the process is
down, which the restart needs. `CapInv` is the cap on file: a create counts
unfinished records in memory, so that the cap holds after a crash needs
`BasicInv`. `CreatedAt` and `RecoveredAt` say what the two composed rewrites
(drop bindings after sweep, after interrupt) do to one record. Theorems:
`StoreInvariant`, `StoreTypeCorrect`, `StoreDurable`, `StoreCapHolds`.

**`InvocationStoreHistoryProofs`.** All four writes are instances of `Evolves`:
a stored record is succeeded by a version that continues it or, if it is
finished and its retention is over, goes; at most one record is fresh, and
nothing on file holds its key. The rest is shown from `Evolves` alone.
`HistoryInv` relates the version last shown to the one on file, which a crash
between replace and publish may leave one ahead: with it, versions and outcomes
(`StoreEtags`, `StoreOutcomes`). `KeysInv` adds the order of the times in a
record, that a live key is bound on file, that what was shown is missing only
after its retention, and that any two versions under one key are a TTL apart.
None of these is inductive alone: that the lookup of a create finds a live key
(`LiveIsBound`) needs that its record has not been swept, which needs
`TTL <= Retention` and that a record is not finished before it was created.
`ShownInv` numbers the versions: revision 1 is the queued one. Theorems:
`StoreHistory`, `StoreKeys`, `StoreNumbers`, `StoreKeepsKeysApart`,
`StoreResolvesKeys`, `StoreRetains`.

**`InvocationContractProofs`.** The refinement of `InvocationContract`, one
lemma per kind of step: a create is `Accept`, a transition `Advance`, a restart
`Interrupt`, a tick `Elapse`; sweeps, crashes and failed writes stutter.
`OneHolder` (from `KeysInv`) is what makes a lapsing key give its slot back
empty. Theorem: `StoreKeepsContract`; since handlers and bridge are clients of the
store, they keep the contract too (`ApiKeepsContract`, `BridgeKeepsContract`).

**`InvocationApiProofs`.** Any number of calls. `ApiIsStoreClient`: every step
of a handler, of a disconnect or of the driver is a step of the store or leaves it
alone, so its theorems hold here too (`ApiKeepsKeysApart`). `CallsInv` says what a
call carries at each step: without it a create could arrive at its reservation
without a key, or a cancel at a read with no attempt left. `ApiReservations` is
inductive beside it. A property of one answer needs the call's past, and that is
`RefusalInv`: a cancel that reads for the second time has seen, or its failed write
has shown, that the invocation left `queued`, and nothing goes back to `queued`. With
a target of `cancel_requested`, or with `cancelled` on the second attempt, the only
state left that refuses the edge is a finished one. This rests on the loop having a
second attempt (`ApiConfig`). Theorems: `ApiIsStoreClient`, `ApiTypeCorrect`,
`ApiReservations`, `ApiKeepsKeysApart`, `ApiConditionalCancels`,
`ApiRefusesOnlyFinished`, `ApiKeepsContract`.

**`InvocationBridgeProofs`.** Any number of invocations, scopes and tenants, any
limits and any part of the environment. The argument goes up in layers, each an
inductive invariant that uses the ones below it:

1. `BridgeIsStoreClient`: the store's theorems hold beneath the bridge; the
   ledger's are taken through `Ledger`, an instance of its proof module.
2. `OwnersInv` ties slots, tasks, scopes and executors together. The ledger's caps
   count admitted ids and say nothing of executors; that an executor runs only
   under a task that holds a slot, in the scope of its record, is what turns
   `CapsHold` into `ExecutorsWithinLimits`.
3. `RunsInv`: a task passes its spawn once, and not before its record ran.
4. `DownInv`: a dead process has no tasks, watchers, tokens or calls, so that no
   later layer needs to look at one.
5. `OutcomesInv`: while a task is in a run, nobody but the deadline finishes its
   record, and a cancel that still aims at `cancelled` never meets a requested
   cancel. The second half is where one cancel call at a time is used: with two it
   is false (`api_stale_cancel`).
6. `StagesInv` and `AttendedInv`: a token that was cancelled is followed back to
   the cancel that wrote the record first or the watcher that is about to write,
   one of which lets the task leave without leaving the record unfinished.
7. `OrderInv`: from the choice of a task to its `try_admit`, no older queued
   invocation of its scope is waiting. The snapshot may be stale, but only in ids
   that have a slot or are past waiting, and ids are issued in order.
8. `ReachInv`: until its token is cancelled, the token of a task that was
   dispatched is registered, and an unfinished record has a task. So whoever
   writes `cancel_requested` still finds the token (`CancelReachesRun`): the record
   could become so only after `running`, which its task wrote after `dispatch` had
   registered it, and whoever takes the registration back - the task at its end, the
   cancel of a queued invocation - has cancelled the token before.
9. `WakeInv` says of a task at each step of the admission loop what it may rely on:
   it has listened since before its checks, so nothing that was freed since is
   lost; the snapshot it chooses by is the ledger as it is, as long as it is not
   woken; and once it decides to wait, `MustWait` holds: its limits are full, or
   somebody older of its scope blocks it. `Blocks` lists who: a queued one, one
   whose deadline watcher has yet to notify, or one that was cancelled while queued,
   the exception of `HeadIsWoken`. `MustWaitStays` is the heart of it: as long as
   the task is not woken, the ledger has not moved, and one that leaves the queue
   for another reason becomes one of the two other kinds.

The last section is the refinement of `ExecutionContract`. `OneActs`: a step
shows something new of at most one invocation. For that one, `Edge` lists the moves
the contract allows, and one lemma per kind of actor shows its step to be one of
them: `PlainShows` and `WritingShows` (a task that goes on, or writes),
`SlotShows` (at the ledger, and the executor), `OthersShow` (watcher and cancel
call); `SubmitAccepts`, `CrashEndsAll` and `DownShowsNothing` are the rest. It uses
the layers above: `RunsInv` for the single start, `StagesInv` for a write to
`running` that finds the record cancelled, `OutcomesInv` for the writes of a run,
`OrderInv` for `IsNext` (`ChosenIsNext`), and the exactness of the ledger for
`Room` (`FreeIsRoom`).

`HeadIsWoken` and `CancelReachesRun` are the safety cores of two liveness
properties that are out of the prover's reach, `FinishesUnlessQueuedPeerCancelled`
and `CancelTakesEffect`: what remains of these is that tasks, executors and
watchers that can act do.

Theorems: `BridgeIsStoreClient`, `BridgeTypeCorrect`, `BridgeSlotsHaveOwners`,
`BridgeExecutorsWithinLimits`, `BridgeRunsAreOnRecord`, `BridgeOutcomesAreEarned`,
`BridgeForgetsNobody`, `BridgeFifo`, `BridgeCancelsReach`, `BridgeWakesHeads`,
`BridgeKeepsExecution`, `BridgeKeepsContract`, `BridgeDrivesLedger` (the ledger
inside the bridge makes no step but its own, or is emptied by a crash).

**`HyperspaceEngineProofs`.** What a restart reads back is not a function of memory,
so the invariant `IInv` describes the files. `LogKept` and `FilesAreFresh`: clocks
tell the records apart, and a rotation that has not switched yet has a file of its
own that nobody has written to. `IdsAgree`: an identifier means the same IRI in
memory, in the log, in the snapshot and in the one being built; `IdsNameOneIri`
needs that, since a restart mixes all of them, and `StoresAreNamed` beside it, that
only a named identifier holds anything. `LogHoldsStore`: the last readable record of
an identifier holds what memory holds or what is in doubt (`Expected`), unless the
files are exposed. `SnapshotHoldsRest`: the snapshot does so for an identifier no
record touches. Neither survives a checkpoint alone: that the *next* snapshot will
do so for what the files it leaves do not touch (`StandsFor`) is
`NextSnapshotHoldsRest`, which holds from the moment the state is copied, while
writes go on. No part of this needs that rotations do not cross: crossed ones only
make `Exposed` true.

What they may do is the last part, `Orderly`, which holds until `crossed`: one
rotator is at work (`OneRotates`), the names of the files sort like their records
(`NamesInOrder`), and what is called frozen while a checkpoint cleans up was so
when it built its snapshot, which therefore covers it (`CheckpointCovers`,
`HasFrozen`). `OnlyCrossingExposes` follows. The refinement of `VectorContract` goes
step by step, with the torn record as the case where the log stops being sound, a
deletion as the only step that makes it fragile before a crossing, and a restart
that meets it fragile as the one that may bring back anything.
Theorems: `EngineTypeCorrect`, `EngineIdsNameOneIri`, `EngineCrashSafe`,
`EngineOnlyCrossingExposes`, `EngineKeepsWrites`.

**`CorpusProofs`.** One effect lemma per kind of step (`MoveEffect`,
`EnqueueEffect`, `LinksEffect`, `WorkEffect`, ...) says what it does to jobs,
evidence and calls, for any number of them; the theorems are argued from these.
`CorpusTypeOK` is inductive, and so are `OneJobPerKey`, `AttemptsAreCounted` and
`RunningHasARunner` beside it: the last because everything a run may do at its end
to a running job is permitted, so a conflict can only meet a job that is no longer
running. `CursorsHaveJobs` needs that the tick is at its save only where the job
exists or was lost with its file (`HereHasJob`). A start that loses the file
(`FileLost`) leaves no job and no call behind, so the other invariants begin anew.
`AwaitsRealReview` needs `ReviewsAreReal`: links, and the calls that are about to
write them, name a review that has passed, and evidence is only ever added to
(`Grows`). `AttemptsBounded` needs a ranking: attempts made, plus one if the job is
queued, plus one for every run call that has decided that it may retry, never exceed
`MAX_RETRY_ATTEMPTS + N - 1`. Only the read that begins a run raises it, and a read
that permits a retry has seen two attempts fewer than the limit. Theorems:
`CorpusTypeCorrect`, `CorpusOneJobPerKey`, `CorpusAttemptsAreCounted`,
`CorpusAttemptsBounded`, `CorpusAwaitsRealReview`, `CorpusRunningHasARunner`,
`CorpusCursorsHaveJobs`.

Every invariant, every action property and all three refinements that passing runs
check are proved, and one invariant that no run checks: `AttemptsAreCounted`, that
every attempt but the last has ended in one counted retry. Only model-checked,
because the prover supports no reasoning about fairness:
`FinishesUnlessQueuedPeerCancelled`, `CancelTakesEffect` and `SlotsComeBack` of the
bridge, `RunsEnd` and `PolledVersionsAreQueued` of the corpus. The statements of the
runs that expect a violation do not hold.

## Where code and documents disagree

- **A stale cancel that ends a running invocation** (`api_stale_cancel`). A
  cancel reads `queued` and aims at `cancelled`; before it writes, the run starts
  and another cancel is accepted, so the record is `cancel_requested`, from which
  `cancelled` is a legal edge. The stale write goes through while the executor
  still runs, and its real outcome is refused later. With one cancel at a time
  (`InvocationBridge`) the stale edge is illegal and the second attempt of the
  loop covers it.
- **A queue that nobody wakes** (`bridge_wakeup`). Cancelling a *queued* head
  notifies no waiter: the handler only writes the record and cancels the token,
  and the cancelled task returns without having held a slot. The next invocation
  of the scope is then the oldest queued one beside a free slot, and sleeps until
  some other invocation is admitted, starts or ends. `FinishesUnlessQueuedPeerCancelled`
  is what does hold.
- **A requested cancel that is recorded as a failure** (`bridge_cancel_outcome`).
  An executor that obeys its token and returns before the bridge is polled again
  is seen by the first branch of the biased `select!`, where `Cancelled` means
  "without a cancel request" and becomes `failed`. `OutcomesAreEarned` and
  `CancelTakesEffect` are what does hold.
- **A frozen log file that is not safe in the snapshot** (`engine_cleanup`).
  `cleanup_frozen` deletes in the order the directory lists the files and stops at
  the first error. When the newer of two frozen files goes first and the process
  dies, the older one is replayed over the snapshot, whose clock nobody compares:
  a content that was overwritten comes back. This is the `Gap` that `CrashSafe` excepts.

Four more statements are weaker in the code than in the documents or comments, and
are stated as the code has them:

- `wal.rs:434-437` says that frozen segments are returned "so callers replay
  operations in write order", and `engine.rs:1120` that frozen files are "already
  safe in snapshot". Neither holds when an append that finds the log full rotates it
  while a checkpoint is at work, which nothing prevents (`wal.rs:195-204`); it takes
  a log that reaches 512 MB in that time. A file frozen after the snapshot was built
  is deleted with the others, acknowledged writes included, and so is one that
  appends still go to because the other rotation has renamed it (`Lost`). Of two
  rotations at once, the one with the earlier timestamp may rename second, and a
  restart then replays the newer file first (`Disordered`). `CrashSafe` excepts
  both, `OnlyCrossingExposes` says that nothing else leads to them, and TLC shows
  the steps to either when `~Lost` or `~Disordered` is asked of the instance `engine`.
- `docs/21-ontology-knowledge-engineering-pipeline.md:103` says that transient
  failures "retry at most three attempts". The limit is compared with a copy read
  before the run: two run calls that have both seen the first attempt make the
  second and the third and put the job back into the queue for a fourth.
  `AttemptsBounded` is the exact bound.
- `README.md:97` says of watchers that they "place one job in the queue for each
  new version". A registration behind the first `max_concurrent_polls` enabled
  ones is never looked at; `PolledVersionsAreQueued` says what is.
- A version whose jobs file was lost while its cursor was not is not enqueued again
  either, which the same sentence does not say.

Further observations from the model of the jobs: overlapping runs may hold several
reviews of one job, of which one is linked; a run that fails late moves a job from
`awaiting_review` to `failed`; links are written on jobs that have ended meanwhile;
suggestions are made before the quality gate counts.

## Not modelled

`components` in `PROJECT.json` gives the reason for each part. In short: pure
reads and listings; the contents of results, usage and budgets; authentication
and authorisation of one request; the agents themselves, which follow the answers
of a language model; numeric code (vector index, graph features); the
applications. The modelled components are a small part of the roughly 190
thousand lines of the repository: most of the rest builds prompts, transforms
graphs or serves requests one by one, and keeps no state that several parties
change.

Two parts with a protocol are left out although they are small:

- *Invocation events.* The event stream reads the store and the bus and changes
  neither. Its hazards are listed.
- *Worker queue.* What it promises is decided by the persistent queue of the
  `yaque` library, outside the repository; the code around it keeps only the
  results it has set aside. Its hazards are listed.

## Plan

Done: the store with its contract, the API, the ledger, the bridge with its
contract, the corpus
jobs with their watchers, the vector engine with its contract; theorems about all
of them.

Left, in this order:

1. `InvocationEvents`: a client learns the outcome unless the bus starves the
   poll; event ids are unique; which transitions are skipped.
2. `WorkerQueue`: at-most-once and at-least-once, messages that do not parse,
   results set aside.
3. Candidates: the checkpoints of the semantic core, the trigger windows of batch
   agents.
