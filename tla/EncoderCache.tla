---------------------------- MODULE EncoderCache ----------------------------
(***************************************************************************)
(* Outputs of the multimodal encoder: EncoderCacheManager                  *)
(* (vllm/v1/core/encoder_cache_manager.py), the parts of Scheduler that    *)
(* call it, and the cache it speaks for, GPUModelRunner.encoder_cache      *)
(* (vllm/v1/worker/gpu_model_runner.py).  The manager keeps the books when *)
(* a step is scheduled, the worker stores and drops the outputs when the   *)
(* step is executed, up to BatchQueueSize steps later.                     *)
(*                                                                         *)
(* A request is its prompt; it is finished by the token sampled behind it. *)
(* Whether KV blocks can be had is a free choice, MaxFailures times no.    *)
(* Encoder-decoder models and a connector for encoder outputs are left     *)
(* out; every placeholder token of an item has an embedding.               *)
(***************************************************************************)
EXTENDS Integers, Sequences, FiniteSets, SequencesExt, FiniteSetsExt

CONSTANTS
  Requests,              \* numbers, in the order of priority
  num_tokens,            \* prompt length of each request
  mm_features,           \* its items: [identifier, offset, length] by offset
  PrefixHits,            \* lengths of a prefix that may be in the KV cache
  cache_size, max_num_encoder_input_tokens,
  max_num_scheduled_tokens, max_num_running_reqs,
  long_prefill_token_threshold,
  disable_chunked_mm_input,
  use_eagle,             \* does the drafter look one token ahead?
  Policy,                \* "fcfs" or "priority"
  BatchQueueSize,        \* steps in flight
  MayAbort,              \* requests that may be aborted
  MaxFailures,           \* bound: calls of allocate_slots without blocks to spare
  MaxResets              \* bound: calls of reset_encoder_cache

Items(r) == ToSet(mm_features[r])
Identifier == {f.identifier : f \in UNION {Items(r) : r \in Requests}}
num_embeds == [h \in Identifier |->
  (CHOOSE f \in UNION {Items(r) : r \in Requests} : f.identifier = h).length]
Size(S) == MapThenSumSet(LAMBDA h : num_embeds[h], S)

ASSUME EncoderAssumption ==
  /\ Requests \subseteq Nat /\ IsFiniteSet(Requests)
  /\ \A r \in Requests : \A f \in Items(r) :
       /\ f.offset + f.length <= num_tokens[r]
       /\ num_embeds[f.identifier] = f.length
       \* compute_mm_encoder_budget
       /\ f.length <= cache_size /\ f.length <= max_num_encoder_input_tokens
       /\ disable_chunked_mm_input => f.length <= max_num_scheduled_tokens
  /\ {disable_chunked_mm_input, use_eagle} \subseteq BOOLEAN
  /\ Policy \in {"fcfs", "priority"} /\ PrefixHits \subseteq Nat
  /\ {max_num_scheduled_tokens, max_num_running_reqs, BatchQueueSize} \subseteq Nat \ {0}
  /\ MayAbort \subseteq Requests
  /\ {long_prefill_token_threshold, MaxFailures, MaxResets} \subseteq Nat

VARIABLES
  ecm,                        \* the EncoderCacheManager
  waiting, running, num_computed_tokens, finished,
  loc,                        \* local variables of schedule()
  batch_queue, executed,      \* steps in flight, and how many the worker has done
  encoder_cache,              \* identifiers in the worker's cache
  failures, resets

vars == <<ecm, waiting, running, num_computed_tokens, finished, loc, batch_queue, executed,
          encoder_cache, failures, resets>>
queues == <<waiting, running, num_computed_tokens, finished>>
worker == <<batch_queue, executed, encoder_cache>>
-----------------------------------------------------------------------------
(***************************************************************************)
(* EncoderCacheManager.  cached are the identifiers that have an entry and *)
(* refs the requests that refer to it; freeable lists the entries without  *)
(* any, the oldest first.                                                  *)
(***************************************************************************)
EmptyManager ==
  [cached |-> {}, refs |-> [h \in Identifier |-> {}], freeable |-> <<>>, freed |-> {},
   num_free_slots |-> cache_size, num_freeable_slots |-> cache_size]

\* Mutant: a hit stays among the freeable entries.
touch_KeepFreeable(m, r, h) ==
  LET held == [m EXCEPT !.refs[h] = @ \cup {r}] IN
  IF m.refs[h] # {} THEN held
  ELSE [held EXCEPT !.num_freeable_slots = @ - num_embeds[h]]

\* the update in check_and_update_cache, for an identifier that is cached
touch(m, r, h) ==
  LET held == [m EXCEPT !.refs[h] = @ \cup {r}] IN
  IF m.refs[h] # {} THEN held
  ELSE [held EXCEPT !.freeable = SelectSeq(@, LAMBDA g : g # h),
                    !.num_freeable_slots = @ - num_embeds[h]]

can_allocate(m, h, budget, to_schedule) ==
  /\ num_embeds[h] <= budget
  /\ \/ num_embeds[h] + to_schedule <= m.num_free_slots
     \/ num_embeds[h] + to_schedule <= m.num_freeable_slots

\* the loop in can_allocate: the oldest entries go, until there is room
evict(m, need) ==
  LET room(k) == m.num_free_slots + Size(ToSet(SubSeq(m.freeable, 1, k)))
      n == Min({k \in 0 .. Len(m.freeable) : need <= room(k)})
      gone == ToSet(SubSeq(m.freeable, 1, n)) IN
  [m EXCEPT !.cached = @ \ gone, !.freed = @ \cup gone,
            !.freeable = SubSeq(@, n + 1, Len(@)), !.num_free_slots = room(n)]

allocate(m, r, h) ==
  [m EXCEPT !.cached = @ \cup {h}, !.refs[h] = @ \cup {r},
            !.num_free_slots = @ - num_embeds[h],
            !.num_freeable_slots = @ - num_embeds[h]]

free_encoder_input(m, r, h) ==
  IF m.refs[h] = {} THEN m
  ELSE LET dropped == [m EXCEPT !.refs[h] = @ \ {r}] IN
       IF dropped.refs[h] # {} THEN dropped
       ELSE [dropped EXCEPT !.freeable = Append(@, h),
                            !.num_freeable_slots = @ + num_embeds[h]]

\* the items are freed in the order of a Python set of small integers
FreeItems(m, r, items) ==
  FoldLeft(LAMBDA k, f : free_encoder_input(k, r, f.identifier), m, items)

free(m, r) == FreeItems(m, r, mm_features[r])

\* Scheduler._free_encoder_inputs: items whose tokens are all computed
_free_encoder_inputs(m, r) ==
  FreeItems(m, r, SelectSeq(mm_features[r],
                            LAMBDA f : f.offset + f.length <= num_computed_tokens[r]))
-----------------------------------------------------------------------------
(***************************************************************************)
(* Scheduler._try_schedule_encoder_inputs: the items that overlap tokens   *)
(* c .. c + n - 1 are looked up or scheduled; n shrinks before one that    *)
(* finds no room.                                                          *)
(***************************************************************************)
Shift == IF use_eagle THEN 1 ELSE 0

\* Mutant: an item of which tokens are computed is passed.
Passed_Begun(f, c) == f.offset < c

Passed(f, c) == f.offset + f.length <= c

TryItem(r, c, s, f) ==
  LET h == f.identifier
      Stop(n) == [s EXCEPT !.n = n, !.stopped = TRUE]
      partial == disable_chunked_mm_input /\ c < f.offset /\ c + s.n < f.offset + f.length
      evicted == [s EXCEPT !.ecm = evict(@, num_embeds[h] + s.embeds)] IN
  IF s.stopped \/ Passed(f, c) \/ h \in ToSet(s.inputs) THEN s
  ELSE IF f.offset >= c + s.n + Shift THEN Stop(s.n)
  ELSE IF h \in s.ecm.cached THEN [s EXCEPT !.ecm = touch(@, r, h)]
  ELSE IF partial \/ ~can_allocate(s.ecm, h, s.budget, s.embeds)
    THEN Stop(Max({0, f.offset - (c + Shift)}))
  ELSE IF f.offset >= c + s.n THEN evicted   \* no embedding of it is in the range
  ELSE [evicted EXCEPT !.inputs = Append(@, h), !.embeds = @ + num_embeds[h],
                       !.budget = @ - num_embeds[h]]

_try_schedule_encoder_inputs(r, c, n) ==
  LET start == [ecm |-> ecm, n |-> n, budget |-> loc.compute_budget, embeds |-> 0,
                inputs |-> <<>>, stopped |-> FALSE] IN
  IF n = 0 THEN start
  ELSE FoldLeft(LAMBDA s, f : TryItem(r, c, s, f), start, mm_features[r])
-----------------------------------------------------------------------------
(***************************************************************************)
(* schedule(): one action per iteration of its loops.  A request that is   *)
(* not in the step has no tokens in num_scheduled_tokens.                  *)
(***************************************************************************)
Idle ==
  [pc |-> "idle", req_index |-> 0, token_budget |-> 0, compute_budget |-> 0, try |-> {},
   num_scheduled_tokens |-> [r \in Requests |-> 0],
   scheduled_encoder_inputs |-> [r \in Requests |-> {}], preempted |-> FALSE]

Init ==
  /\ ecm = EmptyManager
  /\ waiting = <<>> /\ running = <<>> /\ finished = {}
  /\ num_computed_tokens = [r \in Requests |-> 0]
  /\ loc = Idle
  /\ batch_queue = <<>> /\ executed = 0 /\ encoder_cache = {}
  /\ failures = 0 /\ resets = 0

Submitted == ToSet(waiting) \cup ToSet(running) \cup finished

\* FCFSRequestQueue, or PriorityRequestQueue
Queue(q) == IF Policy = "priority" THEN SortSeq(q, <) ELSE q

add_request(r) ==
  /\ loc.pc = "idle" /\ r \notin Submitted
  /\ waiting' = Queue(Append(waiting, r))
  /\ UNCHANGED <<ecm, running, num_computed_tokens, finished, loc, worker, failures, resets>>

CanSchedule == Len(batch_queue) < BatchQueueSize /\ waiting \o running # <<>>

schedule ==
  /\ loc.pc = "idle" /\ CanSchedule
  /\ loc' = [Idle EXCEPT !.pc = "running", !.req_index = 1,
                         !.token_budget = max_num_scheduled_tokens,
                         !.compute_budget = max_num_encoder_input_tokens]
  /\ UNCHANGED <<ecm, queues, worker, failures, resets>>

NumNewTokens(r, c) ==
  LET threshold == long_prefill_token_threshold IN
  Min({num_tokens[r] - c, loc.token_budget} \cup (IF threshold > 0 THEN {threshold} ELSE {}))

\* the running requests come first
schedule_running ==
  /\ loc.pc = "running" /\ loc.req_index <= Len(running) /\ loc.token_budget > 0
  /\ LET r == running[loc.req_index]
         c == num_computed_tokens[r]
         t == _try_schedule_encoder_inputs(r, c, NumNewTokens(r, c)) IN
     /\ ecm' = t.ecm
     /\ loc' = IF t.n = 0 THEN [loc EXCEPT !.req_index = @ + 1]
               ELSE [loc EXCEPT !.pc = "slots", !.try = {[n |-> t.n, inputs |-> t.inputs,
                                                          budget |-> t.budget]}]
  /\ UNCHANGED <<queues, worker, failures, resets>>

\* A request that has its blocks enters the step.  The budget of its try was
\* taken before the preemptions, and replaces the current one only if the try
\* has inputs.
Scheduled(l, r, t) ==
  [l EXCEPT !.num_scheduled_tokens[r] = t.n,
            !.scheduled_encoder_inputs[r] = ToSet(t.inputs),
            !.token_budget = @ - t.n, !.try = {},
            !.compute_budget = IF t.inputs = <<>> THEN @ ELSE t.budget]

Allocated(m, r, inputs) == FoldLeft(LAMBDA k, h : allocate(k, r, h), m, inputs)

slots_allocated ==
  /\ loc.pc = "slots"
  /\ LET r == running[loc.req_index] IN
     \E t \in loc.try :
       /\ loc' = [Scheduled(loc, r, t) EXCEPT !.pc = "running", !.req_index = @ + 1]
       /\ ecm' = Allocated(ecm, r, t.inputs)
  /\ UNCHANGED <<queues, worker, failures, resets>>

\* No blocks: the last running request is preempted, or the one of the lowest
\* priority, and leaves the step if it was in it already.
Victim == IF Policy = "priority" THEN Max(ToSet(running)) ELSE Last(running)

slots_exhausted ==
  /\ loc.pc = "slots" /\ failures < MaxFailures
  /\ failures' = failures + 1
  /\ LET r == running[loc.req_index]
         v == Victim
         before == \E i \in 1 .. loc.req_index - 1 : running[i] = v IN
     /\ running' = SelectSeq(running, LAMBDA q : q # v)
     /\ waiting' = Queue(<<v>> \o waiting)
     /\ num_computed_tokens' = [num_computed_tokens EXCEPT ![v] = 0]
     /\ ecm' = free(ecm, v)
     /\ loc' = [loc EXCEPT !.preempted = TRUE,
                           !.req_index = IF before THEN @ - 1 ELSE @,
                           !.token_budget = @ + loc.num_scheduled_tokens[v],
                           !.compute_budget = @ + Size(loc.scheduled_encoder_inputs[v]),
                           !.num_scheduled_tokens[v] = 0,
                           !.scheduled_encoder_inputs[v] = {},
                           !.try = IF v = r THEN {} ELSE @,
                           !.pc = IF v = r THEN "output" ELSE @]
  /\ UNCHANGED <<finished, worker, resets>>

\* then the waiting ones, unless one was preempted
Admitting ==
  /\ ~loc.preempted /\ waiting # <<>> /\ loc.token_budget > 0
  /\ Len(running) < max_num_running_reqs

schedule_waiting ==
  /\ loc.pc = "waiting" /\ Admitting
  /\ LET r == Head(waiting) IN
     \E c \in {k \in {0} \cup PrefixHits : k < num_tokens[r]} :
       LET t == _try_schedule_encoder_inputs(r, c, NumNewTokens(r, c)) IN
       \* no room for its first item
       \/ /\ t.n = 0
          /\ ecm' = t.ecm
          /\ loc' = [loc EXCEPT !.pc = "output"]
          /\ UNCHANGED <<queues, failures>>
       \* no blocks
       \/ /\ t.n > 0 /\ failures < MaxFailures
          /\ failures' = failures + 1
          /\ ecm' = free(t.ecm, r)
          /\ loc' = [loc EXCEPT !.pc = "output"]
          /\ UNCHANGED queues
       \/ /\ t.n > 0
          /\ ecm' = Allocated(t.ecm, r, t.inputs)
          /\ loc' = Scheduled(loc, r, t)
          /\ waiting' = Tail(waiting) /\ running' = Append(running, r)
          /\ num_computed_tokens' = [num_computed_tokens EXCEPT ![r] = c]
          /\ UNCHANGED <<finished, failures>>
  /\ UNCHANGED <<worker, resets>>

loop_ends ==
  /\ \/ /\ loc.pc = "running" /\ (loc.req_index > Len(running) \/ loc.token_budget = 0)
        /\ loc' = [loc EXCEPT !.pc = "waiting"]
     \/ /\ loc.pc = "waiting" /\ ~Admitting
        /\ loc' = [loc EXCEPT !.pc = "output"]
  /\ UNCHANGED <<ecm, queues, worker, failures, resets>>

\* Mutant: the worker is not told what was evicted.
scheduler_output_KeepFreed ==
  /\ loc.pc = "output"
  /\ LET n == loc.num_scheduled_tokens IN
     /\ batch_queue' = Append(batch_queue,
          [range |-> [r \in {q \in Requests : n[q] > 0} |->
                        [start |-> num_computed_tokens[r], n |-> n[r]]],
           inputs |-> UNION {loc.scheduled_encoder_inputs[r] : r \in Requests},
           free_encoder_mm_hashes |-> {}])
     /\ num_computed_tokens' = [r \in Requests |-> num_computed_tokens[r] + n[r]]
  /\ ecm' = [ecm EXCEPT !.freed = {}]
  /\ loc' = Idle
  /\ UNCHANGED <<waiting, running, finished, executed, encoder_cache, failures, resets>>

\* the SchedulerOutput is made and sent, and _update_after_schedule
scheduler_output ==
  /\ loc.pc = "output"
  /\ LET n == loc.num_scheduled_tokens IN
     /\ batch_queue' = Append(batch_queue,
          [range |-> [r \in {q \in Requests : n[q] > 0} |->
                        [start |-> num_computed_tokens[r], n |-> n[r]]],
           inputs |-> UNION {loc.scheduled_encoder_inputs[r] : r \in Requests},
           free_encoder_mm_hashes |-> ecm.freed])
     /\ num_computed_tokens' = [r \in Requests |-> num_computed_tokens[r] + n[r]]
  /\ ecm' = [ecm EXCEPT !.freed = {}]
  /\ loc' = Idle
  /\ UNCHANGED <<waiting, running, finished, executed, encoder_cache, failures, resets>>
-----------------------------------------------------------------------------
\* The worker (execute_model): _update_states drops outputs, and
\* _execute_mm_encoder stores new ones
Stored(s) == (encoder_cache \ s.free_encoder_mm_hashes) \cup s.inputs

execute_model ==
  /\ executed < Len(batch_queue)
  /\ executed' = executed + 1
  /\ encoder_cache' = Stored(batch_queue[executed + 1])
  /\ UNCHANGED <<ecm, queues, loc, batch_queue, failures, resets>>

\* _gather_mm_embeddings, for the model and, one token ahead, for the drafter
Needed(s) ==
  {f.identifier : f \in UNION {
     {g \in Items(r) : \E shift \in 0 .. Shift :
        /\ g.offset < s.range[r].start + shift + s.range[r].n
        /\ g.offset + g.length > s.range[r].start + shift} : r \in DOMAIN s.range}}

RemoveAllOf(q, S) == SelectSeq(q, LAMBDA r : r \notin S)

\* update_from_output: a request whose prompt is complete is finished by its token
update_from_output ==
  /\ loc.pc = "idle" /\ executed > 0
  /\ LET s == Head(batch_queue)
         live == DOMAIN s.range \ finished
         done == {r \in live : s.range[r].start + s.range[r].n = num_tokens[r]}
         freed(m, r) == IF r \in done THEN free(_free_encoder_inputs(m, r), r)
                        ELSE _free_encoder_inputs(m, r) IN
     /\ ecm' = FoldLeft(freed, ecm, SetToSortSeq(live, <))
     /\ finished' = finished \cup done
     /\ running' = RemoveAllOf(running, done) /\ waiting' = RemoveAllOf(waiting, done)
  /\ batch_queue' = Tail(batch_queue) /\ executed' = executed - 1
  /\ UNCHANGED <<num_computed_tokens, loc, encoder_cache, failures, resets>>

\* Mutant: the references of the request stay.
abort_request_KeepRefs(r) ==
  /\ loc.pc = "idle" /\ r \in MayAbort \cap (Submitted \ finished)
  /\ finished' = finished \cup {r}
  /\ running' = RemoveAllOf(running, {r}) /\ waiting' = RemoveAllOf(waiting, {r})
  /\ UNCHANGED ecm
  /\ UNCHANGED <<num_computed_tokens, loc, worker, failures, resets>>

\* finish_requests, between two steps
abort_request(r) ==
  /\ loc.pc = "idle" /\ r \in MayAbort \cap (Submitted \ finished)
  /\ finished' = finished \cup {r}
  /\ running' = RemoveAllOf(running, {r}) /\ waiting' = RemoveAllOf(waiting, {r})
  /\ ecm' = free(ecm, r)
  /\ UNCHANGED <<num_computed_tokens, loc, worker, failures, resets>>

\* Both caches are emptied, whatever is in progress.  The call to the worker
\* comes behind the steps it has been sent, and the engine waits for it.
reset_encoder_cache ==
  /\ loc.pc = "idle" /\ executed = Len(batch_queue) /\ resets < MaxResets
  /\ resets' = resets + 1
  /\ ecm' = EmptyManager /\ encoder_cache' = {}
  /\ UNCHANGED <<queues, loc, batch_queue, executed, failures>>
-----------------------------------------------------------------------------
Next ==
  \/ \E r \in Requests : add_request(r) \/ abort_request(r)
  \/ schedule \/ schedule_running \/ slots_allocated \/ slots_exhausted
  \/ schedule_waiting \/ loop_ends \/ scheduler_output
  \/ execute_model \/ update_from_output \/ reset_encoder_cache

\* The busy loop of the engine goes on as long as it has requests, and the worker
\* executes what it is sent: weak fairness of schedule() with its loops, of
\* execute_model and of update_from_output, spelled out with the variables that
\* only these change.
Fairness ==
  /\ []<>(loc.pc = "idle" /\ ~CanSchedule) \/ []<><<loc' # loc>>_vars
  /\ []<>(executed = Len(batch_queue)) \/ []<><<executed' = executed + 1>>_vars
  /\ []<>(loc.pc # "idle" \/ executed = 0) \/ []<><<executed' = executed - 1>>_vars

Spec == Init /\ [][Next]_vars /\ Fairness
-----------------------------------------------------------------------------
\* Types, and the bounds of the counters.
TypeOK ==
  /\ ecm.cached \subseteq Identifier /\ ecm.refs \in [Identifier -> SUBSET Requests]
  /\ ToSet(ecm.freeable) \subseteq Identifier /\ ecm.freed \subseteq Identifier
  /\ {ecm.num_free_slots, ecm.num_freeable_slots} \subseteq 0 .. cache_size
  /\ \A r \in Requests : num_computed_tokens[r] \in 0 .. num_tokens[r]
  /\ executed \in 0 .. Len(batch_queue) /\ Len(batch_queue) <= BatchQueueSize
  /\ encoder_cache \subseteq Identifier

\* Every encoder output that a step needs is in the worker's cache when the step
\* is executed (the assertion "Encoder cache miss" of _gather_mm_embeddings),
\* although the books are kept for a later step by then.
EncoderReady ==
  executed < Len(batch_queue) =>
    LET s == batch_queue[executed + 1] IN Needed(s) \subseteq Stored(s)

\* The slots are accounted for: the free ones and those of the entries add up to
\* the size of the cache, the freeable ones are those of the entries without a
\* reference, and only unfinished requests hold references.
SlotsAccounted ==
  LET unused == {h \in ecm.cached : ecm.refs[h] = {}} IN
  /\ TypeOK
  /\ ecm.num_free_slots = cache_size - Size(ecm.cached)
  /\ ecm.num_freeable_slots = ecm.num_free_slots + Size(unused)
  /\ ToSet(ecm.freeable) = unused /\ Len(ecm.freeable) = Cardinality(unused)
  /\ \A h \in Identifier :
       /\ ecm.refs[h] \subseteq Submitted \ finished
       /\ ecm.refs[h] # {} => h \in ecm.cached

\* The worker never holds more than the cache was sized for, although it drops an
\* output only when a later step tells it to.
WorkerBounded == Size(encoder_cache) <= cache_size

\* Every request finishes: an item that finds no room waits for others, never for
\* one that waits for it.
RequestsFinish == (waiting \o running # <<>>) ~> (waiting \o running = <<>>)
=============================================================================
