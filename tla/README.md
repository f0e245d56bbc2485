# TLA+ verification of the engine core, its scheduler and its processes

The repository is a fork of vLLM (an LLM serving engine) with TailBlend, a set of
scheduling policies for Best-of-N requests. This directory holds TLA+ models of the parts
in which requests, memory, batches and processes meet (the v1 engine core, its scheduler and
caches, KV transfers, the worker processes and the ring buffer they share, data-parallel
engines), the TLC instances that check them, and TLAPS proofs.

## 1. Inventory

| part | state | operations | what is hard about it |
|---|---|---|---|
| free block queue (`v1/core/kv_cache_utils.py`) | doubly linked list through the blocks, fake head and tail, a count | `popleft`, `popleft_n`, `remove`, `append`, `append_n` | stale links show up only later |
| block pool (`v1/core/block_pool.py`) | reference counts, block hashes, map from hash to blocks | `get_new_blocks`, `touch`, `free_blocks`, `cache_full_blocks`, eviction, reset | blocks that are free and cached at once; several blocks under a hash |
| KV cache manager (`v1/core/kv_cache_manager.py`, `single_type_kv_cache_manager.py`) | block table of each request, how much of it is cached | `get_computed_blocks`, `allocate_slots`, `cache_blocks`, `free` | blocks are cached before they are computed |
| scheduler (`v1/core/sched/scheduler.py`) | requests, `running`, `waiting`, `skipped_waiting`, finished ids, ids of the previous batch, pause state | `schedule`, `update_from_output`, `add_request`, `finish_requests`, `reset_prefix_cache` | preemption inside the loop that schedules; outputs that arrive after a preemption, an abort or a reset |
| async scheduler (`async_scheduler.py`) | output placeholders, the discard flag | two overridden methods | tokens that are counted before they exist |
| request queues (`request_queue.py`) | deque or heap | add, prepend, pop, remove | order after several preemptions |
| TailBlend (`tail_blend_controller.py`) | scores, estimates and finished lengths per Best-of-N group | victim choice, deferral of waiting requests, pilots | victims in the middle of the running list; requests that wait for each other |
| engine core (`v1/engine/core.py`) | batch queue, idle callbacks | `step`, `step_with_batch_queue`, client calls, pause | batches in flight while clients call |
| KV transfers (`scheduler.py`, `kv_transfer/kv_connector/v1/base.py`) | loads and sends in progress, ids of finished and failed loads | admission with external tokens, promotion, invalid blocks, delayed frees | blocks that somebody else writes; failures that are reported after the fact |
| encoder cache (`encoder_cache_manager.py`, `gpu_model_runner.py`) | cached entries, references, freeable entries, slots; the worker's copy | `can_allocate`, `allocate`, `free`, scheduling of encoder inputs | the worker follows the books one step, or several, later |
| shared-memory broadcast (`shm_broadcast.py`) | flags and chunks of a ring, sockets | `enqueue`, `dequeue`, sleep and notification, shutdown | no lock; zero-copy reads |
| multiprocess executor (`multiproc_executor.py`) | message queues, futures, worker processes | `collective_rpc`, `FutureWrapper.result`, worker loops, monitor, shutdown | answers carry no name; workers die |
| data parallelism (`core.py`, `coordinator.py`, `core_client.py`) | waves of three kinds of processes, messages | requests, notices, wake-ups, the all-reduce, pause and resume | all step or none; messages cross |

Parts that are not modelled, with the reasons, are in section 8 and in `PROJECT.json`
("components"). `PROJECT.json` ("hazards") lists, line by line, what can go wrong in this
code that a test would hardly reach, and which property is about it.

How the parts interact: clients send calls to the engine core. Between two steps the engine
handles them; then it calls `schedule()`, which takes blocks from the KV cache manager and
room from the encoder cache, asks the KV connector what it can load, and preempts requests
when there are no blocks. The batch goes to the workers through the executor, whose calls
travel in the shared-memory ring. With a batch queue the engine may schedule further batches
before the output of the oldest one comes back. `update_from_output()` appends the sampled
tokens, stops requests and frees what they held. Data-parallel engines do all this in
lockstep: while one has requests, all of them step.

## 2. Modules

| module | models | uses |
|---|---|---|
| `FreeList` | abstract: the free queue as a sequence | |
| `FreeBlockQueue` | `FreeKVCacheBlockQueue`: links, fake nodes, loops | `FreeList` |
| `KVBlocks` | abstract: what the KV cache manager promises the scheduler | |
| `BlockPool` | `BlockPool`, `KVCacheManager`, `FullAttentionManager`, as operators on a record | |
| `Scheduler` | `Scheduler`, `AsyncScheduler`, request queues, TailBlend's hooks | `BlockPool` |
| `EngineCore` | the engine loop, client calls, batches in flight; `Next`, `Spec` | `Scheduler` |
| `EngineProperties` | all properties of the engine, and the mapping to `KVBlocks` | `EngineCore`, `KVBlocks` |
| `RemoteKV` | the scheduler with a KV connector: loads, sends and their failures | `BlockPool` |
| `EncoderCache` | `EncoderCacheManager`, the scheduling of encoder inputs, the worker's cache | |
| `BroadcastQueue` | abstract: what a `MessageQueue` promises | |
| `ShmBroadcast` | `MessageQueue`, `ShmRingBuffer`, `SpinCondition` | `BroadcastQueue` |
| `MultiprocExecutor` | `MultiprocExecutor`, `FutureWrapper`, `WorkerProc` | `BroadcastQueue` |
| `DPWaves` | `DPEngineCoreProc`, `DPCoordinatorProc`, `DPAsyncMPClient` | |
| `FreeBlockQueueProofs`, `KVBlocksProofs`, `ShmBroadcastProofs`, `MultiprocExecutorProofs`, `DPWavesTypeProofs`, `DPWavesProofs` | TLAPS proofs | the module they are named after |
| `AscendingQueues` | lemmas about queues of ascending numbers | |
| `MC...` | instances for TLC | |

Operators named like another one with a suffix (`touch_KeepFree`) are *mutants*: the
operator with a plausible bug. No specification uses them; replacing the original by its
mutant must make the property fail that `PROJECT.json` ("mutants") names.

### FreeBlockQueue

`prev_free_block` and `next_free_block` are functions over the blocks and the two fake
nodes, with `None` where the code has `None`. `popleft_n` and `append_n` loop over blocks:
one action per iteration (`PopIteration`, `AppendIteration`), and one for the lines after the
loop. Where the code asserts or raises, the condition is a guard of the action and a conjunct
of `ChecksPass`, which says that it holds whenever the code gets there, for a caller who
keeps the contract (pops at most what is there, appends only blocks that are not in the
queue, removes only blocks that are).

### BlockPool

All state of the KV cache is one record, so that a scheduler action can apply several
calls in a row (`allocate_slots` = computed blocks, then new blocks, then caching). The
free queue is the sequence that `FreeBlockQueue` is shown to implement. A hash is a pair:
of the group (same prompt) and index for blocks in the prompt, of the request and index
after it, that is, outputs of two requests never coincide. `computed` is a history
variable: how many slots of a block hold KV because a batch that computes them has gone
to the workers. It exists for properties only.

### Scheduler

`schedule()` and `update_from_output()` are split at their loops, one action per iteration:
`SkipRunning`, `TryRunning`, `ScheduleRunning`, `Preempt`, `EndRunning`, `Defer`,
`ScheduleWaiting`, `EndWaiting`, then `_update_after_schedule`; and `SkipOutput`,
`AppendToken`, `StopRequest`, `EndUpdate`. The local variables of the two methods are in
the record `loc`; nothing else happens between the iterations, except that the invariants
can see them. Abstractions:

* tokens are counted, not named; a sampled token is the position it was sampled for;
* a stop token may end a request at any token, the length limits do at theirs
  (`StopRequest` is always possible, `AppendToken` below the limits);
* TailBlend's victim is any running request, or the one of the policy: its score
  is floating point over predicted lengths, and the properties must not depend on it;
* TailBlend defers only under admission pressure. Its virtual reservation must defer a waiting
  request when there is no free block (`MustReserve`), and may when another request is queued
  (`MayReserve`: the comparison of estimated growth is left open);
* TailBlend's pilot mode: once `TailBlendPilotK` branches of a Best-of-N group have started,
  the others must wait until one of them has finished; then the controller picks one group to
  expand by estimates and clocks, so any expandable group may be deferred for another one;
* `Rank` stands for (priority, arrival time, id) and is injective;
* a request that is `NEW` has not been submitted; requests are not submitted twice.

### EngineCore

`batch_queue` holds the batches whose output is outstanding. `BatchQueueSize` 1 is `step()`,
more is `step_with_batch_queue()`: 2 with async scheduling, the number of stages with pipeline
parallelism. Whether the oldest batch is done when a step asks is left open
(`DispatchAndReturn` or `DispatchAndWait`). Client calls happen between steps, aborts also
while a step waits for output. The constant `Calls` says which calls an instance's clients
make.

### RemoteKV

The base scheduler with FCFS queues and a connector. `promote` and `skip_remote` are
`_try_promote_blocked_waiting_request`, `admit` an iteration of the waiting loop up to the
hand-over of the blocks, `scheduler_output` the end of `schedule()` with
`_update_after_schedule` and the dispatch, `collect` the arrival of an output with
`_handle_invalid_blocks`, `end_update` the end of `update_from_output` with
`_update_from_kv_xfer_finished`. `WAITING_FOR_REMOTE_KVS` is `"REMOTE"`.

The connector and the workers are external and keep the contract of `KVConnectorBase_V1`: a
load within a step (*sync*) is written before the batch reads; a load over several steps
(*async*) ends in some later output, and the blocks it failed for are reported no later than
its end; the blocks of a request that has stopped, was aborted or failed may be kept for a
send, and are freed when its end is reported. `_free_request` asks the connector for every
request that finishes, so `MaySend` does not look at how it did. Connectors differ in what they
answer. NIXL and Mooncake keep only requests that ran to an end. Mooncake's store keeps every
request with saved tokens, aborted ones too; if it loads within a step, no request finishes while
it loads. These are `KeepsLoading = FALSE`. If the store loads over several steps, it counts the
tokens of the load as saved (`mooncake/store/scheduler.py:348-352`, `data.py:228-229`), and HF3FS
keeps every request; these are `KeepsLoading = TRUE`. `computed` counts the slots that hold the right KV: a
failed load leaves a block as it was, and tokens computed from wrong KV are wrong. Every entry of
a batch carries whether all it reads is right (`ok`).
`Configurations` are the settings an instance starts with: the failure policy, which requests
load in which way, and the batches in flight.

### EncoderCache

The manager's dictionaries, ordered dictionary and slot counters, `_try_schedule_encoder_inputs`
item by item, the loops of `schedule()` around it, and `encoder_cache` of the model runner. The
scheduler's books are ahead of the worker: a step carries what is freed and what is to be
encoded, and takes effect when the worker executes it. KV blocks are not modelled here:
whether `allocate_slots` succeeds is a free choice, with at most `MaxFailures` refusals.

### ShmBroadcast, BroadcastQueue

One action per access to shared memory or to a socket. `memory_fence` makes the accesses
sequentially consistent. Objects are numbers; a chunk that is being filled is `Torn`. Readers
spin or sleep on the notification socket by free choice; deadlines may pass at any time for
the processes in `Deadline`. The writer may crash; a reader's monitor thread may shut it down.

### MultiprocExecutor

The engine's thread, the workers with their output threads, and the monitor thread. Message
queues are those of `BroadcastQueue`, so that this module composes with `ShmBroadcast`
through the promise that the latter is proved to keep. `execute_model` and `aggregated` calls
return futures and have a deadline, `take_draft_token_ids` waits without one, `utility` calls
wait for all workers. An exception ends the engine, except that of a utility call.

### DPWaves

Engines, the coordinator and front-ends with a FIFO per sender and receiver. The collectives
(forward pass, all-reduce, the barrier of a resumption) are steps of all engines together. A
request is the number of forward passes it needs. `SyncInterval` is 32 in the code; with 2
the engines get out of step as soon as their counters could. `Prompt` says that a front-end
passes on a `FIRST_REQ` notice within the wave it was written for: the notice sits in a local
socket for the time a wave needs to end, 32 forward passes. Section 6 says what happens
otherwise. The operator who pauses waits for the answer of all engines before resuming, and
for the resumption before the next pause: `pause` is `"pausing"` until the resume is sent and
`"resuming"` until the engines have met in its barrier.

## 3. Abstract specifications

* `FreeBlockQueue` implements `FreeList` (`ImplementsFreeList`): every call on the linked
  list acts as on a sequence. `BlockPool` uses that sequence.
* The engine implements `KVBlocks` (`ImplementsKVBlocks`): every step of the scheduler is,
  to the blocks, an acquisition, a caching, a release or a reset, or leaves them alone. What
  `KVBlocks` promises is proved for all sizes.
* `ShmBroadcast` implements `BroadcastQueue` (`ImplementsQueue`), checked and proved.
  `MultiprocExecutor` uses `BroadcastQueue`.

## 4. Properties

Of the KV cache: `BlocksAccounted` (counts, tables and free queue agree), `CacheConsistent`
(hashes, map and tables agree), `WriteOnce` (a batch writes to slots of its own, once),
`ReadsComputed` (attention reads only KV that has been computed), `OnlyRunningHold` (a reset
that preempts everything finds an empty pool).

Of the scheduler: `InOneQueue` (every request is in the queue of its status, no finished
request in any), `StepAccounted` (the asserts of a step, also between the iterations),
`EachTriedOnce` (the running loop neither skips nor repeats a request), `NoOvertaking` (an
action property: FCFS order survives preemptions and resets), `TokensInOrder` (no token of a
stream is repeated or skipped). `EngineSafe` is the conjunction of those that hold under any
policy, with `PlaceholdersInFlight` (the async scheduler's count is right) and the types.

Of KV transfers: `TransfersHeld` (the blocks of a transfer stay its request's until it ends,
and the scheduler still knows the request then, however the request has finished), `NoWrongKV` (no token is kept, and no block
left in the prefix cache, that comes from a failed or unfinished load).

Of the encoder cache: `EncoderReady` (no "Encoder cache miss" in the worker),
`SlotsAccounted`, `WorkerBounded` (the worker never holds more than the cache size).

Of the ring: `ViewsIntact` (an object that was read without copying stays whole until the
writer has gone round), `InOrder`, `Delivered` (nobody sleeps through an object),
`ShutdownStops`, which leaves out a reader that is inside the receipt of an oversized object:
`recv` cannot be cancelled, and if the writer died before it sent the object, only a deadline
ends it. `InOrder` leaves out a reader whose deadline passed between the chunk of an
oversized object and the object: it is out of step from then on.

Of the executor: `OwnAnswers` (a call gets its own answers), `CallsEnd` (no call hangs),
`EngineInformed` (a worker's death reaches the engine).

Of the waves: `SameCollective`, `WavesFollow` (wave numbers never run ahead), `ResumeAccepted`,
`CallsServed` (no request or pause starves), `EnginesStop`. The last two except behaviours in
which a wake-up is dropped by design (`lost_wakeup`, section 6).

### Fairness

* Engine, `EncoderCache`, `RemoteKV`: the busy loop steps as long as there is work, its only
  wait is for the output of a batch, and workers finish batches. This is weak fairness of the
  engine's steps. It is spelled out as "infinitely often the engine has nothing to do, or
  infinitely often it does what only its own steps do", which TLC evaluates faster than
  `WF_vars` over a large action. In `RemoteKV` every transfer ends and is reported if the
  engine keeps taking steps, which the contract of the connectors demands.
* `ShmBroadcast`, `MultiprocExecutor`: weak fairness of every thread and of the delivery by a
  local socket. No deadline is assumed to pass; clients need not call; worker methods return,
  unless the worker dies.
* `DPWaves`: weak fairness of every process; strong fairness of the receipt from each sender,
  because an engine's input queue is one FIFO that its socket threads fill: a message in it is
  reached, although the model keeps a queue per sender and an engine may be between receipts.
* Nothing is assumed of clients: `NEW` requests need not be submitted, paused engines need not
  be resumed, except that the front-end of `DPWaves` which paused resumes.

## 5. Runs

Each run is `tlc -config <cfg> <module>`.

| run | module, instance | shows | distinct states |
|---|---|---|---|
| `free_block_queue` | `MCFreeBlockQueue`: 4 blocks | the list is a list at every point, its checks pass, it implements `FreeList` | 2 077 |
| `reset` | `MCEngineCore`: 2 requests, 4 usable blocks, base scheduler, every client call | cache and queues survive resets and pauses at any time; FCFS order; implements `KVBlocks`; a pause completes | 488 939 |
| `async` | `MCEngineCore`: 3 requests, 4 usable blocks, async scheduling, 2 batches in flight, aborts, resets | safety, reads and writes of batches, order of tokens; everybody finishes | 1 024 828 |
| `tail_blend` | `MCEngineCore`: 4 requests in two groups, priority, any victim, reservation, 1 pilot, chunked prompts, async | preemption in the middle of the loop; nobody is deferred for ever | 338 387 |
| `broadcast` | `MCShmBroadcast`: 2 readers, 2 chunks, 3 objects, the second oversized; deadlines of the writer and of reader 2, shutdown of reader 1, a crash | flag protocol, order, wake-ups, shutdown; implements `BroadcastQueue` | 332 178 |
| `executor` | `MCMultiprocExecutor`: 2 workers, 2 futures, 3 calls of 3 kinds; worker 0 may raise, worker 1 die | own answers, no call hangs, the engine is told | 625 311 |
| `waves` | `MCDPWaves`: 2 engines, 1 front-end, 2 calls, one of which may be a pause, an abort | same collectives, wave numbers, no starvation, engines stop | 106 994 |
| `encoder` | `MCEncoderCache`: 3 requests with shared, adjacent and repeated items, cache of 3, 2 steps in flight, aborts, prefix hits, a reset | worker has what it needs within its bound; everybody finishes | 523 060 |
| `remote` | `MCRemoteKV`: 3 requests, 4 usable blocks, both failure policies, 1 failing block, an abort, a put-off lookup; blocks of requests 1 and 3 may be kept when they stop, fail or are aborted | transfers keep their blocks, nothing wrong is kept, everybody finishes | 364 506 |
| `uncomputed`, `discard` | `MCEngineCore` | violations, see section 6 | |
| `kept_load` | `MCRemoteKV`: 2 requests, a connector that keeps blocks it still loads | violation, see section 6 | |

Bounds, and why they are enough. In the engine runs blocks have two slots, so that prompts
have full and partial blocks. Prompts of four tokens give requests 1 and 2, which are branches
of one prompt, a block to share (the second block holds the token that is always computed
again) and one to duplicate under one hash. Outputs of two or three tokens make a request grow
after its admission; four usable blocks hold one request and part of another, so all runs
preempt, evict and resume. A budget of four tokens (with a threshold of two in `tail_blend`)
splits prompts into chunks. A ring of two chunks makes the writer go round with three objects.
Three calls let a future be overtaken by a call that waits, with one before it. Two engines and
a request on each side of the end of a wave are what the wave protocol is about. In `remote`
request 1 grows while the others load, requests 2 and 3 share their prompt, and one failing
block can be the first or the last of a load. Requests are numbered because ranks and groups
refer to them; there is no symmetry to exploit. Every counter is bounded by the lengths or by a
constant named as a bound; no state constraint is needed.

Deadlock. `WaitForInput` and `wait_for_input` keep a finished system from counting as a
deadlock, so deadlock is checked in the engine runs and in `remote`: no reachable state is
without a step, which includes that the scheduler never raises `Invalid request status` where
the runs pass. `broadcast`, `executor`, `waves` and `encoder` really stop (the objects are
written, the engine has died, the calls are made, all requests are finished); there the
liveness properties exclude that they stop too early.

## 6. Disagreements between code and documentation

Three runs end in a violation, with default settings for the rest
(`scheduler_reserve_full_isl` is on).

* `uncomputed` (`ReadsComputed`): `allocate_slots` puts blocks in the prefix cache when
  they are about to be computed. Under the PRIORITY policy (or TailBlend's victim choice) a
  request that was already scheduled in a step can be the victim later in the same step. Its
  tokens leave the batch, its hashes stay. When the request is admitted again, it takes these
  blocks for computed. Under FCFS without TailBlend the victim is the last running request,
  which is never scheduled yet, and `async` shows the property.
* `discard` (`TokensInOrder`): with async scheduling, a pause with `clear_cache` resets the
  cache when the engine has drained. `reset_prefix_cache` marks every running request to
  drop its latest token, although none is in flight; the first token after the resumption is
  lost, and a placeholder stays behind. With `PauseCompletes` as the property and async
  scheduling, TLC shows the consequence: the request may never be scheduled again, and a
  later pause in mode `wait` never completes. `reset` therefore uses the base scheduler.
* `kept_load` (`TransfersHeld`): a request is aborted while it loads, and the connector keeps
  its blocks. There are now two reasons not to free them, the load and the send, but
  `_free_request` joins them into one Boolean (`scheduler.py:2501`), and the first report that
  arrives frees the blocks and deletes the request. If the load ends first, the blocks are
  given away although they "should not be freed until the request_id is returned from
  get_finished()" (`kv_connector/v1/base.py:536-538`), and the report of the send fails `assert
  req_id in self.requests` (`scheduler.py:2796`). If the send ends first, the blocks are freed
  under the load, and its end fails the same assertion (2787). `HF3FSConnector` loads
  asynchronously and answers `True` for every request (`hf3fs_connector.py:693`); it reports a
  request without saves as sent at once. In `remote` the connector keeps blocks only when it
  does not load them.

The others were found with instances that are not kept as runs. They limit what the passing
runs may be read to say.

With `MCEngineCore`:

* `InOneQueue`, `BatchQueueSize` 3 and TailBlend's reservation: a preempted request can be
  deferred into `skipped_waiting` while its output is in flight. If that output stops it,
  `update_from_output` ("Remove the stopped requests from the running and waiting queues.",
  `scheduler.py:2168`) removes it from `waiting` only, and the next step raises `Invalid
  request status`.
* `TokensInOrder`, `BatchQueueSize` 2, base scheduler, `Calls = {"reset_running"}` (2
  requests, prompts and outputs of 2): only `AsyncScheduler` looks at the discard flag, so a
  token in flight during the reset is sampled again and appended twice
  (`scheduler.py:2555-2558`).
* `TokensInOrder`, `BatchQueueSize` 3 without any calls: a preempted request is admitted
  again while its token is in flight.
* `RequestsFinish`, `NumGpuBlocks` 3, `MaxModelLen` 6, prompts of 4, outputs of 2: the
  start-up check (`kv_cache_utils.py:689-723`) accepts three blocks for six tokens, the null
  block takes one of them (`block_pool.py:176`), and the request preempts itself for ever.
* `RequestsFinish`, `MCTailBlend.cfg` with requests 1 and 2, `MaxNumRunningReqs` 1, no
  reservation and `Calls = {"reset_running"}`: three quarters of one are zero
  (`tail_blend_controller.py:780-782`), so there is admission pressure even when nothing runs,
  and a pilot that the reset has preempted counts itself as a started sibling. It defers
  itself and its siblings in every later step, without another reset.

With `MCRemoteKV` (2 requests and `KeepsLoading = FALSE`):

* `RequestsFinish`, `NumGpuBlocks` 4, `External` 2 and 4, both async, no failure: request 1,
  loaded, needs one more block, which the loaded request 2 behind it holds. `allocate_slots`
  fails, the loop breaks (`scheduler.py:1357-1364`), so request 2 is not promoted, and waiting
  requests that hold blocks are never preempted. The docs have it scheduled "during the next
  step" (`scheduler.py:2778`). In `remote` no async load needs more blocks than it loaded.
* `NoWrongKV`, policy "fail", sync loads of one prompt, `MayAbort = {1}`: the report of failed
  blocks looks at `running` only. A request that is aborted before the report is not there any
  more, its invalid blocks stay in the prefix cache, and the next request takes them. The same
  happens with two batches in flight when the request is preempted.
* `NoWrongKV`, policy "fail", sync loads of one prompt, no abort: a request whose invalid
  block an earlier request has marked does not have its own later blocks evicted
  (`scheduler.py:2882-2884`), which were computed from the invalid one ("including invalid
  blocks and downstream dependent blocks", `scheduler.py:2828`).
* `NoWrongKV`, policy "recompute", sync loads: nothing is evicted, because the blocks "will be
  recomputed" (`scheduler.py:2945`), but a request that is preempted or aborted before that
  leaves them cached. With `LongPrefillTokenThreshold` 1 and a shared prompt, a request also
  reads a block that the one before it has not recomputed yet.
* `TransfersHeld`, 3 batches in flight, async loads, `MayAbort = {1}`, outputs of 2 and 1: the
  late token of a preempted request stops it while it loads again, and its blocks are freed
  under the load.
* An engine without requests takes no step and looks at no transfer, so blocks kept for a
  send stay kept until the next request.

With `MCEncoderCache`:

* `EncoderReady`, `use_eagle = TRUE`, 1 request, cache of 4, 3 tokens per step: an item that
  begins where the scheduled tokens end is passed over by the scheduler
  (`scheduler.py:1891-1905`), while the worker, which looks one token further, asserts that it
  is cached (`gpu_model_runner.py:3042`). A test says "when scheduled tokens overlap MM range
  (accounting for EAGLE's shift), encoder MUST be scheduled."
  (`tests/v1/core/test_scheduler.py:4282-4283`).
* `EncoderReady`, `MCEncoder.cfg` with `Policy = "priority"` and
  `long_prefill_token_threshold = 1`: a request that is preempted in the step that scheduled
  its encoder inputs leaves them marked as cached, though the step no longer computes them.

With `MCMultiprocExecutor` and `MCShmBroadcast`:

* After a utility call that timed out, its answers are read by the next call; `OwnAnswers`
  leaves those calls out.
* `EngineInformed`, `max_chunks = 1`: an engine that waits for room in the ring of a dead
  worker is not told, because `acquire_write` has no cancel.

With `MCDPWaves` (the first two are what `lost_wakeup` leaves out):

* A `START_DP_WAVE` that one engine drops during a pause and another one obeys after the
  resumption leaves the latter alone in its forward pass, although "stale START_DP_WAVE
  messages cannot re-wake any engine" (`_pause_complete`).
* A request and its abort that an idle engine handles together leave it idle, while the
  others were started for it.
* `EnginesStop`, `Prompt = FALSE`, `MaxPauses = 0`, `MayAbort = {}`: a `FIRST_REQ` notice that
  is handled after its wave has ended carries the wave number of that moment, so that it is
  not taken for stale. It starts every engine but the one that the request went to ("engine
  which has already received a request with this wave number", `_send_start_wave`), which has
  served it and is idle.

## 7. Proofs

`FreeBlockQueueProofs`, for every number of blocks (assumption: at least one):

* `ListInvariant`: `Spec => [](TypeOK /\ SomeList)`. The inductive invariant `IInv` adds to
  `TypeOK` a list `q`: the nodes from the fake head to the fake tail, distinct, whose
  neighbours are linked both ways, with exceptions at the one place a loop has left open, and
  the facts that listed, moving and held blocks partition the blocks. `SomeList` hides `q`.
  Without the list no operation could be shown to keep the next one safe: `remove` relinks
  neighbours that only distinctness tells apart from the removed block. The lemmas
  `Without...` and `With...` say what a list without, or with one more, element contains;
  `UnlinkChained` and `LinkChained` say what relinking does to the chain; then there is one
  lemma per action.
* `ChecksNeverFail`: `Spec => []ChecksPass`, from `ListInvariant`.
* `QueueImplementsList`: `Spec => ImplementsFreeList`. The mapping reads the abstract queue
  off the links with the walk of `get_all_free_blocks`, a recursive function. `WalkVisits` and
  `WalkReturns` show that it visits exactly the elements of the list of the invariant
  (`Detached`, a conjunct of `Represents`, is there for this: a block outside the list must not
  lead back into it). `WithoutSeq` and `WithSeq` then turn what an operation does to the list into
  what it does to a sequence: the last step of `popleft_n` and the first of `append_n` are
  `PopN` and `AppendN`, and the rest of their loops stutter.

`KVBlocksProofs`, for every set of blocks and every finite set of requests (a hypothesis of the
theorem, since `KVBlocks` has no instance of its own: TLC meets it as what the engine implements):

* `KVBlocksSafe`: reference counts are the numbers of holders, available blocks are the
  unheld ones, shared blocks are cached. The conjunction is inductive as it stands: sharing
  is why `Acquire` must take a block from `cached` or `available`, and counts are related to
  cardinalities of the sets of holders, which grow or shrink by one request.

`ShmBroadcastProofs`, for every number of readers, chunks and objects (assumption: at least
one reader and one chunk), with crashes, deadlines and shutdowns:

* `RingSafe`: `Spec => [](TypeOK /\ ReadsNext /\ ViewsIntact)`. A reader only ever reads the
  next object, whole, and what it holds is not overwritten before the writer has gone round.
  The inductive invariant says where the writer and the readers are (`Positions`: indices are
  counts modulo the number of chunks, and no reader is a lap behind), what the chunks and
  flags hold for the objects that are still *live* (`Contents`: the read flag of a reader is
  set exactly when it has had the object), how far the writer has come with the flags of the
  chunk it owns (`WriterAt`), and what a reader may conclude from a flag it has read
  (`ReaderAt`). The last one is the point: a flag is read in one step and acted on in another,
  and the invariant says which facts cannot change in between. The arithmetic lemmas `SlotsDiffer`, `SlotLap`
  and `SlotSucc` say when two objects share a chunk.
* `RingImplementsQueue`: `Spec => ImplementsQueue`, from the same invariant: `mark_written` is
  `Publish`, `mark_read` is `Take`, all other steps stutter.
* `ObjectsInOrder`: `Spec => []InOrder`, for any set of objects that are too large for a chunk.
  Such an object leaves only a mark in the ring and travels on the socket, so the order of what
  a reader gets depends on two channels. `OrderInv` ties them together: the mark in a live
  chunk is right (`ChunkSizes`), and the socket of a reader that never gave up holds, in
  ascending order, exactly the large objects it has not had (`SocketAt`); hence the head of
  the socket is the object whose mark was just read.

`MultiprocExecutorProofs`, for every number of workers and calls, with and without asynchronous
scheduling, with workers that raise or die, deadlines and shutdown:

* `AnswersAreOwn`: `Spec => []OwnAnswers`. Nothing in an answer says which call it belongs to;
  that it is the right one follows from order alone. The invariant says that the answers under
  way from a worker (its output thread, then its response queue) are in the order of the
  calls (`Streams`) and, as long as no call was given up, are exactly those for the calls that
  the worker has taken and the engine has not read (`Accounted`), and that unfinished calls
  wait in `futures_queue` in order (`Queued`). `Stopped` is needed because the engine may be
  closed while workers still run.
* `DrainNeverEmpty`: `FutureWrapper.result` finds a future to drain as long as its own is not done.
* `OutcomesStay`, an action property: the outcome of a future never changes once it is set.

`DPWavesTypeProofs` (the invariant and its typing part) and `DPWavesProofs`, for every number
of engines, front-ends, requests, pauses and every interval between all-reduces:

* `EnginesMeet`: `Spec => []SameCollective`. `Lockstep` (all counters are equal, an engine is
  in the all-reduce only when all are) is inductive only with `Phases`, which says where the
  engines can be in a pause: all asked or pending; all agreed, and then idle, with nothing
  that wakes them; all agreed or resumed. The step from pending to agreed is taken by the
  all-reduce for all of them at once.
* `ResumesAccepted`: `Spec => []ResumeAccepted`, from `Phases`. It rests on the operator who
  waits: with a pause sent right after a resume the invariant fails, which TLC shows.
* `WavesInOrder`: `Spec => []WavesFollow`, with `WavesKnown`: every wave number in a message is
  one that its sender had reached.
* `WavesOnlyGrow`, an action property: no engine, and not the coordinator, goes back to an earlier
  wave.

`AscendingQueues` has what two of the proofs need about taking from and adding to a queue of
ascending numbers. Each inductive invariant was checked with TLC on the instances of section 5
before it was proved.

What is not proved, and stays with TLC:

* Liveness and everything with `ENABLED`: out of the prover's reach.
* `ImplementsKVBlocks` and the invariants of the engine, of KV transfers and of the encoder
  cache. Their operators fold over sequences of requests and blocks, and the induction
  theorems of the library take an operator as a parameter, which the provers cannot
  instantiate. Where only one function has to be characterised there is a way round, which
  `FreeBlockQueueProofs` takes: `Least` (a set of numbers that is not empty has a least one,
  from the well-foundedness of `<`) and then a least counterexample.

## 8. Not modelled

The map of `PROJECT.json` covers about 5 000 lines, which is less than one percent of the
repository. The repository is mostly model definitions, kernels, quantization, compilation,
API servers and tests (more than 600 000 lines): numerical code and input/output without a
protocol that a model checker could say anything about. Covering a large share of it
would mean to map lines that no definition translates. Of the v1 engine, where the
state machines are, these parts are left out:

* Other attention types and hybrid models: each has a rule of its own for hits and for blocks
  that are skipped; `BlockPool` would need a table per group.
* Streaming sessions: a session replaces its prompt when it continues, and prompt lengths and
  block hashes are constants of a request here.
* Structured output, speculative decoding, LoRA, pooling: they change how many tokens a step
  brings, or which requests may be together in a batch.
* The connectors themselves and KV offloading: protocols with other nodes and storage; only
  their contract with the scheduler is in `RemoteKV`. `RemoteKV` is not combined with async
  scheduling, the encoder cache or TailBlend.
* TailBlend's admission by deadlines and the older TAPER controllers: wall clocks and floats;
  what they can do to the queues is within the free choices of `Defer` and of the victim.
* Sleep, wake-up and orderly shutdown of the engine, elastic scaling, remote readers of a
  `MessageQueue`, Ray and single-process executors.
* `EncoderDecoderCacheManager` and connectors for encoder outputs. (Its
  `free_encoder_input` adds slots without looking whether the entry was allocated.)
* The client side beyond the waves (output processor, parallel sampling), and the model
  runner beyond the order of batches and its encoder cache.
* Requests with equal priority and arrival time.

## 9. Possible extensions

1. Streaming sessions in `Scheduler` (`_handle_stopped_request`, `_update_request_as_session`).
2. `RemoteKV` with async scheduling, and with two engines that send and load each other's KV.
3. Sliding-window and hybrid KV cache groups in `BlockPool`.
4. Proofs: `BlockPool`'s operators keep `BlocksAccounted` and `CacheConsistent`;
   `EncoderCache`'s slots for all cache sizes.
