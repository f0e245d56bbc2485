------------------------------ MODULE Scheduler ------------------------------
(***************************************************************************)
(* Scheduler and AsyncScheduler (vllm/v1/core/sched/): continuous batching *)
(* with chunked prefill, prefix caching and preemption by recomputation,   *)
(* under the FCFS or the PRIORITY policy, with the two hooks of TailBlend: *)
(* the choice of a Best-of-N victim when the KV cache is exhausted, and    *)
(* the deferral of waiting branches.                                       *)
(*                                                                         *)
(* schedule() and update_from_output() run to completion in the engine's   *)
(* thread.  They are split at their loops: one action per iteration, with  *)
(* the local variables in the record loc and the place in loc.pc.  What    *)
(* starts them, and what may happen between them, is in EngineCore.        *)
(***************************************************************************)
EXTENDS BlockPool

CONSTANTS
  Policy,                      \* "fcfs" or "priority"
  Rank,                        \* (priority, arrival time, id) of each request
  AsyncScheduling,             \* AsyncScheduler, or the base class
  MaxNumScheduledTokens,       \* max_num_scheduled_tokens, per step
  MaxNumRunningReqs,           \* max_num_running_reqs
  LongPrefillTokenThreshold,   \* long_prefill_token_threshold, 0 for none
  MaxModelLen,                 \* max_model_len
  ReserveFullISL,              \* scheduler_reserve_full_isl
  TailBlendPreemption,         \* VLLM_TAIL_BLEND_PREEMPTION
  TailBlendReservation,        \* VLLM_TAIL_BLEND_RESERVATION_Q > 0
  TailBlendPilotK              \* VLLM_TAIL_BLEND_PILOT_K, 0 for no pilots

ASSUME SchedulerAssumption ==
  /\ Policy \in {"fcfs", "priority"}
  /\ Rank \in [Requests -> Nat]
  /\ \A r, s \in Requests : Rank[r] = Rank[s] => r = s
  /\ {AsyncScheduling, ReserveFullISL, TailBlendPreemption,
        TailBlendReservation} \subseteq BOOLEAN
  /\ MaxNumScheduledTokens \in Nat \ {0}
  /\ MaxNumRunningReqs \in Nat \ {0}
  /\ {LongPrefillTokenThreshold, TailBlendPilotK} \subseteq Nat
  /\ MaxModelLen \in Nat
  /\ \A r \in Requests : PromptLen[r] < MaxModelLen
  \* _check_enough_kv_cache_memory, when the engine starts
  /\ cdiv(MaxModelLen, BlockSize) <= NumGpuBlocks

VARIABLES
  kv,                           \* the KV cache manager: see BlockPool
  requests,                     \* the Request objects
  running, waiting, skipped_waiting,
  finished_req_ids,
  prev_step_scheduled_req_ids,
  pause_state,
  loc                           \* where the engine's thread is

schedVars == <<kv, requests, running, waiting, skipped_waiting, finished_req_ids,
               prev_step_scheduled_req_ids, pause_state, loc>>
queues == <<running, waiting, skipped_waiting>>

(* A request that is not submitted yet is NEW.  num_tokens counts the      *)
(* prompt and the output tokens.  FINISHED stands for the statuses of a    *)
(* request that reached its end, ABORTED for FINISHED_ABORTED.             *)
NewRequest(r) ==
  [status |-> "NEW",
   num_tokens |-> PromptLen[r],
   num_computed_tokens |-> 0,
   num_output_placeholders |-> 0,
   discard_latest_async_tokens |-> FALSE]

IdleLoc ==
  [pc |-> "idle",
   req_index |-> 0, token_budget |-> 0, num_new_tokens |-> 0,
   scheduled |-> <<>>, resumed |-> {}, preempted_reqs |-> {},
   step_skipped_waiting |-> <<>>,
   stopped_running |-> {}, stopped_preempted |-> {}, output |-> <<>>]

SchedInit ==
  /\ kv = EmptyPool
  /\ requests = [r \in Requests |-> NewRequest(r)]
  /\ running = <<>> /\ waiting = <<>> /\ skipped_waiting = <<>>
  /\ finished_req_ids = {}
  /\ prev_step_scheduled_req_ids = {}
  /\ pause_state = "UNPAUSED"
  /\ loc = IdleLoc

-----------------------------------------------------------------------------
(* request_queue.py: a deque, or a heap that yields requests by rank.      *)

Insert(q, r) == SelectSeq(q, LAMBDA s : Rank[s] < Rank[r]) \o <<r>>
                  \o SelectSeq(q, LAMBDA s : Rank[s] > Rank[r])

add_request(q, r) == IF Policy = "fcfs" THEN Append(q, r) ELSE Insert(q, r)

prepend_request(q, r) == IF Policy = "fcfs" THEN <<r>> \o q ELSE Insert(q, r)

(* The deque is extended on the left, one request after the other, which   *)
(* reverses their order.                                                   *)
prepend_requests(q, rs) == FoldLeft(prepend_request, q, rs)

remove_requests(q, rs) == SelectSeq(q, LAMBDA r : r \notin rs)

Queue(name) == IF name = "waiting" THEN waiting ELSE skipped_waiting

_select_waiting_queue_for_scheduling ==
  IF Policy = "fcfs"
  THEN IF skipped_waiting # <<>> THEN "skipped_waiting" ELSE "waiting"
  ELSE IF \/ skipped_waiting = <<>>
          \/ waiting # <<>> /\ Rank[Head(waiting)] < Rank[Head(skipped_waiting)]
       THEN "waiting" ELSE "skipped_waiting"

PopRequest(name) ==
  /\ waiting' = IF name = "waiting" THEN Tail(waiting) ELSE waiting
  /\ skipped_waiting' = IF name = "waiting" THEN skipped_waiting
                                            ELSE Tail(skipped_waiting)

-----------------------------------------------------------------------------
(* Requests come and go.                                                   *)

add_new_request(r) ==
  /\ requests[r].status = "NEW"
  /\ requests' = [requests EXCEPT ![r].status = "WAITING"]
  /\ waiting' = add_request(waiting, r)
  /\ UNCHANGED <<kv, running, skipped_waiting, finished_req_ids,
                 prev_step_scheduled_req_ids, pause_state, loc>>

Unfinished(r) == requests[r].status \in {"WAITING", "RUNNING", "PREEMPTED"}

(* finish_requests.  A list of requests is as good as one call for each.   *)
finish_requests(r) ==
  /\ Unfinished(r)
  /\ IF requests[r].status = "RUNNING"
     THEN /\ running' = remove_requests(running, {r})
          /\ UNCHANGED <<waiting, skipped_waiting>>
     ELSE /\ waiting' = remove_requests(waiting, {r})
          /\ skipped_waiting' = remove_requests(skipped_waiting, {r})
          /\ UNCHANGED running
  /\ requests' = [requests EXCEPT ![r].status = "ABORTED"]
  /\ kv' = free(kv, r)
  /\ finished_req_ids' = finished_req_ids \union {r}
  /\ UNCHANGED <<prev_step_scheduled_req_ids, pause_state, loc>>

(* Mutant: waiting requests count, too, while new ones are paused.         *)
get_num_unfinished_requests_Paused(pause) ==
  IF pause = "PAUSED_ALL" THEN 0
  ELSE Len(running) + Len(waiting) + Len(skipped_waiting)

get_num_unfinished_requests(pause) ==
  CASE pause = "PAUSED_ALL" -> 0
    [] pause = "PAUSED_NEW" -> Len(running)
    [] OTHER -> Len(waiting) + Len(skipped_waiting) + Len(running)

has_requests(pause) ==
  get_num_unfinished_requests(pause) > 0 \/ finished_req_ids # {}

(* Mutant: the placeholders are dropped.                                   *)
Preempted_NoPlaceholders(q) == [q EXCEPT !.status = "PREEMPTED", !.num_computed_tokens = 0,
                                    !.num_output_placeholders = 0]

Preempted(q) == [q EXCEPT !.status = "PREEMPTED", !.num_computed_tokens = 0]

(* Mutant: the previous batch is not forgotten.                            *)
reset_running_requests_KeepPrevious ==
  LET rs == Range(running)
      reset(q) == [Preempted(q) EXCEPT !.num_output_placeholders = 0,
                                       !.discard_latest_async_tokens = TRUE]
      freed(m, r) == free(m, r)
      preempted == FoldLeft(freed, kv, Reverse(running))
  IN /\ requests' = [r \in Requests |-> IF r \in rs THEN reset(requests[r])
                                                    ELSE requests[r]]
     /\ waiting' = FoldLeft(prepend_request, waiting, Reverse(running))
     /\ running' = <<>>
     /\ UNCHANGED prev_step_scheduled_req_ids
     /\ kv' = reset_prefix_cache(preempted)
     /\ UNCHANGED <<skipped_waiting, finished_req_ids, loc>>

(* Mutant: the first running request is preempted first.                   *)
reset_running_requests_FirstFirst ==
  LET rs == Range(running)
      reset(q) == [Preempted(q) EXCEPT !.num_output_placeholders = 0,
                                       !.discard_latest_async_tokens = TRUE]
      freed(m, r) == free(m, r)
      preempted == FoldLeft(freed, kv, Reverse(running))
  IN /\ requests' = [r \in Requests |-> IF r \in rs THEN reset(requests[r])
                                                    ELSE requests[r]]
     /\ waiting' = FoldLeft(prepend_request, waiting, running)
     /\ running' = <<>>
     /\ prev_step_scheduled_req_ids' = {}
     /\ kv' = reset_prefix_cache(preempted)
     /\ UNCHANGED <<skipped_waiting, finished_req_ids, loc>>

(* reset_prefix_cache(reset_running_requests): all running requests are    *)
(* preempted, the last one first, so that no block is in use.              *)
reset_running_requests ==
  LET rs == Range(running)
      reset(q) == [Preempted(q) EXCEPT !.num_output_placeholders = 0,
                                       !.discard_latest_async_tokens = TRUE]
      freed(m, r) == free(m, r)
      preempted == FoldLeft(freed, kv, Reverse(running))
  IN /\ requests' = [r \in Requests |-> IF r \in rs THEN reset(requests[r])
                                                    ELSE requests[r]]
     /\ waiting' = FoldLeft(prepend_request, waiting, Reverse(running))
     /\ running' = <<>>
     /\ prev_step_scheduled_req_ids' = {}
     /\ kv' = reset_prefix_cache(preempted)
     /\ UNCHANGED <<skipped_waiting, finished_req_ids, loc>>

(* reset_prefix_cache without preemption, when it succeeds.                *)
reset_unused ==
  /\ can_reset(kv) /\ kv # reset_prefix_cache(kv)
  /\ kv' = reset_prefix_cache(kv)
  /\ UNCHANGED <<requests, queues, finished_req_ids,
                 prev_step_scheduled_req_ids, pause_state, loc>>

set_pause_state(s) ==
  /\ pause_state' = s

-----------------------------------------------------------------------------
(* schedule(): the running requests.                                       *)

StartSchedule ==
  /\ loc' = [loc EXCEPT !.pc = "running",
                        !.req_index = 1,
                        !.token_budget = IF pause_state = "PAUSED_ALL" THEN 0
                                         ELSE MaxNumScheduledTokens]
  /\ UNCHANGED <<kv, requests, queues, finished_req_ids,
                 prev_step_scheduled_req_ids, pause_state>>

Threshold(n) ==
  IF 0 < LongPrefillTokenThreshold /\ LongPrefillTokenThreshold < n
  THEN LongPrefillTokenThreshold ELSE n

(* The tokens of a running request to schedule; 0 to skip it.  With async  *)
(* scheduling the placeholders stand for tokens that are being sampled.    *)
RunningTokens(r) ==
  LET q == requests[r]
      enough == /\ q.num_output_placeholders > 0
                /\ q.num_computed_tokens + 2 - q.num_output_placeholders
                     >= PromptLen[r] + MaxTokens[r]
  IN IF enough THEN 0
     ELSE Min({Threshold(q.num_tokens + q.num_output_placeholders
                           - q.num_computed_tokens),
               loc.token_budget,
               MaxModelLen - 1 - q.num_computed_tokens})

InRunningLoop == loc.pc = "running" /\ loc.req_index <= Len(running)
                                   /\ loc.token_budget > 0

SkipRunning ==
  /\ InRunningLoop
  /\ RunningTokens(running[loc.req_index]) = 0
  /\ loc' = [loc EXCEPT !.req_index = @ + 1]
  /\ UNCHANGED <<kv, requests, queues, finished_req_ids,
                 prev_step_scheduled_req_ids, pause_state>>

(* The head of an iteration fixes num_new_tokens, which later preemptions  *)
(* in the same iteration do not change.                                    *)
TryRunning ==
  /\ InRunningLoop
  /\ RunningTokens(running[loc.req_index]) > 0
  /\ loc' = [loc EXCEPT !.pc = "allocate",
                        !.num_new_tokens = RunningTokens(running[loc.req_index])]
  /\ UNCHANGED <<kv, requests, queues, finished_req_ids,
                 prev_step_scheduled_req_ids, pause_state>>

Slots(r) == requests[r].num_computed_tokens + loc.num_new_tokens

ScheduleRunning ==
  LET r == running[loc.req_index]
  IN /\ loc.pc = "allocate"
     /\ has_slots(kv, r, <<>>, Slots(r), 0)
     /\ kv' = allocate_slots(kv, r, <<>>, Slots(r), requests[r].num_tokens)
     /\ loc' = [loc EXCEPT !.pc = "running",
                           !.req_index = @ + 1,
                           !.token_budget = @ - loc.num_new_tokens,
                           !.num_new_tokens = 0,
                           !.scheduled = Append(@, [req |-> r,
                                                    n |-> loc.num_new_tokens])]
     /\ UNCHANGED <<requests, queues, finished_req_ids,
                    prev_step_scheduled_req_ids, pause_state>>

(* TailBlend scores the running requests of API clients, which are all of  *)
(* them, and picks one, or leaves the choice to the policy.                *)
select_preemption_victim == IF TailBlendPreemption THEN Range(running) ELSE {}

PolicyVictim ==
  IF Policy = "priority"
  THEN CHOOSE r \in Range(running) : \A s \in Range(running) : Rank[s] <= Rank[r]
  ELSE Last(running)

ScheduledTokens(r) ==
  FoldLeft(LAMBDA n, e : IF e.req = r THEN n + e.n ELSE n, 0, loc.scheduled)

(* Mutant: the victim keeps its blocks.                                    *)
_preempt_request_KeepBlocks(r) ==
  /\ UNCHANGED kv
  /\ requests' = [requests EXCEPT ![r] = Preempted(@)]
  /\ waiting' = prepend_request(waiting, r)

_preempt_request(r) ==
  /\ kv' = free(kv, r)
  /\ requests' = [requests EXCEPT ![r] = Preempted(@)]
  /\ waiting' = prepend_request(waiting, r)

(* Mutant: req_index is not adjusted.                                      *)
Preempt_SameIndex(v) ==
  LET r == running[loc.req_index]
      index == CHOOSE i \in DOMAIN running : running[i] = v
  IN /\ loc.pc = "allocate"
     /\ ~has_slots(kv, r, <<>>, Slots(r), 0)
     /\ v \in select_preemption_victim \union {PolicyVictim}
     /\ running' = RemoveAt(running, index)
     /\ _preempt_request(v)
     /\ loc' = [loc EXCEPT
                  !.pc = IF v = r THEN "waiting" ELSE @,
                  !.num_new_tokens = IF v = r THEN 0 ELSE @,
                  !.token_budget = @ + ScheduledTokens(v),
                  !.scheduled = SelectSeq(@, LAMBDA e : e.req # v),
                  !.preempted_reqs = @ \union {v}]
     /\ UNCHANGED <<skipped_waiting, finished_req_ids,
                    prev_step_scheduled_req_ids, pause_state>>

(* No slots for the request at req_index: victim v makes room.  What the   *)
(* step had scheduled of it is taken back.                                 *)
Preempt(v) ==
  LET r == running[loc.req_index]
      index == CHOOSE i \in DOMAIN running : running[i] = v
  IN /\ loc.pc = "allocate"
     /\ ~has_slots(kv, r, <<>>, Slots(r), 0)
     /\ v \in select_preemption_victim \union {PolicyVictim}
     /\ running' = RemoveAt(running, index)
     /\ _preempt_request(v)
     /\ loc' = [loc EXCEPT
                  !.pc = IF v = r THEN "waiting" ELSE @,
                  !.num_new_tokens = IF v = r THEN 0 ELSE @,
                  !.req_index = IF index < @ THEN @ - 1 ELSE @,
                  !.token_budget = @ + ScheduledTokens(v),
                  !.scheduled = SelectSeq(@, LAMBDA e : e.req # v),
                  !.preempted_reqs = @ \union {v}]
     /\ UNCHANGED <<skipped_waiting, finished_req_ids,
                    prev_step_scheduled_req_ids, pause_state>>

EndRunning ==
  /\ loc.pc = "running" /\ ~InRunningLoop
  /\ loc' = [loc EXCEPT !.pc = "waiting"]
  /\ UNCHANGED <<kv, requests, queues, finished_req_ids,
                 prev_step_scheduled_req_ids, pause_state>>

-----------------------------------------------------------------------------
(* schedule(): the waiting requests, unless a request was preempted.       *)

InWaitingLoop ==
  /\ loc.pc = "waiting"
  /\ loc.preempted_reqs = {} /\ pause_state = "UNPAUSED"
  /\ waiting # <<>> \/ skipped_waiting # <<>>
  /\ loc.token_budget > 0
  /\ Len(running) # MaxNumRunningReqs

NextWaiting == Head(Queue(_select_waiting_queue_for_scheduling))

\* Mutant: a quarter of the running requests is pressure enough.
_under_admission_pressure_Quarter ==
  \/ Len(kv.free) < 4 * Max({1, NumGpuBlocks \div 20})
  \/ Len(waiting) + Len(skipped_waiting) > MaxNumRunningReqs
  \/ Len(running) >= MaxNumRunningReqs \div 4

(* TailBlend defers only under pressure.  5 percent of the blocks, or one, *)
(* are the default of the memory threshold.                                *)
_under_admission_pressure ==
  \/ Len(kv.free) < 4 * Max({1, NumGpuBlocks \div 20})
  \/ Len(waiting) + Len(skipped_waiting) > MaxNumRunningReqs
  \/ Len(running) >= (MaxNumRunningReqs * 3) \div 4

(* _should_defer_for_virtual_reservation: without a free block a request is *)
(* put aside for this step; when the estimated growth of the running        *)
(* requests and of this one does not fit, it is if another queued request   *)
(* is estimated to be smaller.                                              *)
MustReserve == TailBlendReservation /\ kv.free = <<>>
MayReserve == TailBlendReservation /\ Len(waiting) + Len(skipped_waiting) > 1

Branches(r) == {s \in Requests : Group[s] = Group[r]}
Queued == Range(waiting) \union Range(skipped_waiting)

(* Branches of a request's group that run, have run before they were       *)
(* preempted, or are finished; a request that never ran is WAITING.  A     *)
(* branch that this step has put aside is in neither queue.                *)
_started_sibling_count(r) ==
  Cardinality({s \in Branches(r) :
    \/ s \in Range(running)
    \/ s \in Queued /\ requests[s].status # "WAITING"
    \/ requests[s].status = "FINISHED"})

HasFinishedLength(r) == \E s \in Branches(r) : requests[s].status = "FINISHED"

(* With TailBlendPilotK pilots started, a branch waits for the length of   *)
(* one of them.                                                            *)
WaitsForPilot(r) ==
  /\ TailBlendPilotK > 0
  /\ _started_sibling_count(r) >= TailBlendPilotK

(* _best_expandable_group_id picks one by estimates and clocks.            *)
Expandable(r) == WaitsForPilot(r) /\ HasFinishedLength(r)

must_defer(r) ==
  /\ _under_admission_pressure
  /\ MustReserve \/ (WaitsForPilot(r) /\ ~HasFinishedLength(r))

should_defer_waiting_request(r) ==
  /\ _under_admission_pressure
  /\ \/ MayReserve \/ must_defer(r)
     \/ Expandable(r) /\ \E s \in Queued \ Branches(r) : Expandable(s)

Defer ==
  /\ InWaitingLoop
  /\ should_defer_waiting_request(NextWaiting)
  /\ PopRequest(_select_waiting_queue_for_scheduling)
  /\ loc' = [loc EXCEPT !.step_skipped_waiting = prepend_request(@, NextWaiting)]
  /\ UNCHANGED <<kv, requests, running, finished_req_ids,
                 prev_step_scheduled_req_ids, pause_state>>

(* A request without computed tokens looks for its prefix in the cache.    *)
Hits(r) == find_longest_cache_hit(kv, r, requests[r].num_tokens)
(* Mutant: off by one.                                                     *)
CachedTokens_OneMore(r) == Len(Hits(r)) * BlockSize + 1

(* Mutant: the last hit is computed again.                                 *)
CachedTokens_LastBlock(r) == Max({0, Len(Hits(r)) - 1}) * BlockSize

CachedTokens(r) == Len(Hits(r)) * BlockSize

WaitingTokens(r) ==
  Min({Threshold(requests[r].num_tokens - CachedTokens(r)), loc.token_budget})

Admissible(r) ==
  has_slots(kv, r, Hits(r), CachedTokens(r) + WaitingTokens(r),
            IF ReserveFullISL THEN requests[r].num_tokens ELSE 0)

ScheduleWaiting ==
  LET r == NextWaiting
      n == WaitingTokens(r)
  IN /\ InWaitingLoop
     /\ ~must_defer(r) /\ Admissible(r)
     /\ requests[r].status \in {"WAITING", "PREEMPTED"}
     /\ kv' = allocate_slots(kv, r, Hits(r), CachedTokens(r) + n,
                             requests[r].num_tokens)
     /\ PopRequest(_select_waiting_queue_for_scheduling)
     /\ running' = Append(running, r)
     /\ requests' = [requests EXCEPT ![r].status = "RUNNING",
                                     ![r].num_computed_tokens = CachedTokens(r)]
     /\ loc' = [loc EXCEPT
                  !.token_budget = @ - n,
                  !.scheduled = Append(@, [req |-> r, n |-> n]),
                  !.resumed = IF requests[r].status = "PREEMPTED"
                              THEN @ \union {r} ELSE @]
     /\ UNCHANGED <<finished_req_ids, prev_step_scheduled_req_ids, pause_state>>

(* The loop ends, also at a request that does not fit; what it put aside   *)
(* goes to the front of skipped_waiting.                                   *)
EndWaiting ==
  /\ loc.pc = "waiting"
  /\ InWaitingLoop => ~must_defer(NextWaiting) /\ ~Admissible(NextWaiting)
  /\ skipped_waiting' = prepend_requests(skipped_waiting, loc.step_skipped_waiting)
  /\ loc' = [loc EXCEPT !.pc = "output", !.step_skipped_waiting = <<>>]
  /\ UNCHANGED <<kv, requests, running, waiting, finished_req_ids,
                 prev_step_scheduled_req_ids, pause_state>>

-----------------------------------------------------------------------------
(* The scheduler output, and _update_after_schedule.                       *)

ScheduledReqs == {loc.scheduled[i].req : i \in DOMAIN loc.scheduled}

Advance(r) ==
  [requests[r] EXCEPT !.num_computed_tokens = @ + ScheduledTokens(r)]

(* Mutant: only the prompt counts.                                         *)
is_prefill_chunk_Prompt(r) ==
  Advance(r).num_computed_tokens
    < PromptLen[r]

is_prefill_chunk(r) ==
  Advance(r).num_computed_tokens
    < requests[r].num_tokens + requests[r].num_output_placeholders

(* A request's entry in the batch that goes to the workers: they sample    *)
(* the token that follows the computed ones, at this position, unless more *)
(* of the known tokens are still to be computed (position 0).              *)
BatchEntry(r) ==
  [req |-> r, pos |-> IF is_prefill_chunk(r) THEN 0 ELSE Advance(r).num_computed_tokens]

SchedulerOutput == [i \in DOMAIN loc.scheduled |-> BatchEntry(loc.scheduled[i].req)]

_update_after_schedule(pc) ==
  /\ loc.pc = "output"
  /\ requests' =
       [r \in Requests |->
          IF r \notin ScheduledReqs THEN requests[r]
          ELSE IF AsyncScheduling /\ ~is_prefill_chunk(r)
               THEN [Advance(r) EXCEPT !.num_output_placeholders = @ + 1]
               ELSE Advance(r)]
  /\ kv' = FoldLeft(LAMBDA m, e : dispatch(m, e.req, Advance(e.req).num_computed_tokens),
                    kv, loc.scheduled)
  /\ prev_step_scheduled_req_ids' = ScheduledReqs
  /\ finished_req_ids' = {}
  /\ loc' = [IdleLoc EXCEPT !.pc = pc]
  /\ UNCHANGED <<queues, pause_state>>

-----------------------------------------------------------------------------
(* update_from_output(): loc.output is what is left of the batch.          *)

NextOutput == Head(loc.output)

(* A request that is finished since, a prefill chunk without a token, and  *)
(* the token that AsyncScheduler drops after reset_prefix_cache.           *)
SkipOutput ==
  LET r == NextOutput.req
      drop == /\ AsyncScheduling /\ Unfinished(r) /\ NextOutput.pos # 0
              /\ requests[r].discard_latest_async_tokens
  IN /\ loc.pc = "update" /\ loc.output # <<>>
     /\ ~Unfinished(r) \/ NextOutput.pos = 0 \/ drop
     /\ requests' = IF drop
                    THEN [requests EXCEPT ![r].discard_latest_async_tokens = FALSE]
                    ELSE requests
     /\ loc' = [loc EXCEPT !.output = Tail(@)]
     /\ UNCHANGED <<kv, queues, finished_req_ids, prev_step_scheduled_req_ids,
                    pause_state>>

(* check_stop: the limits always stop a request, a stop token may.         *)
LengthCapped(r, num_tokens) ==
  num_tokens >= MaxModelLen \/ num_tokens - PromptLen[r] >= MaxTokens[r]

(* Mutant: the placeholder stays.                                          *)
WithToken_KeepPlaceholder(q) ==
  [q EXCEPT !.num_tokens = @ + 1]

(* The request with the sampled token, and the cache, before it is freed   *)
(* if it stops.                                                            *)
WithToken(q) ==
  [q EXCEPT !.num_tokens = @ + 1,
            !.num_output_placeholders = IF AsyncScheduling THEN @ - 1 ELSE @]

CacheNewTokens(r) ==
  IF AsyncScheduling /\ requests[r].status = "RUNNING"
  THEN cache_blocks(kv, r, requests[r].num_computed_tokens
                             - WithToken(requests[r]).num_output_placeholders)
  ELSE kv

AppendsToken(r) ==
  /\ loc.pc = "update" /\ loc.output # <<>> /\ NextOutput.req = r
  /\ Unfinished(r) /\ NextOutput.pos # 0
  /\ ~(AsyncScheduling /\ requests[r].discard_latest_async_tokens)

AppendToken ==
  LET r == NextOutput.req
  IN /\ AppendsToken(r)
     /\ ~LengthCapped(r, requests[r].num_tokens + 1)
     /\ requests' = [requests EXCEPT ![r] = WithToken(@)]
     /\ kv' = CacheNewTokens(r)
     /\ loc' = [loc EXCEPT !.output = Tail(@)]
     /\ UNCHANGED <<queues, finished_req_ids, prev_step_scheduled_req_ids,
                    pause_state>>

StopRequest ==
  LET r == NextOutput.req
  IN /\ AppendsToken(r)
     /\ requests' = [requests EXCEPT ![r] = [WithToken(@) EXCEPT !.status = "FINISHED"]]
     /\ kv' = free(CacheNewTokens(r), r)
     /\ finished_req_ids' = finished_req_ids \union {r}
     /\ loc' = IF requests[r].status = "RUNNING"
               THEN [loc EXCEPT !.output = Tail(@), !.stopped_running = @ \union {r}]
               ELSE [loc EXCEPT !.output = Tail(@), !.stopped_preempted = @ \union {r}]
     /\ UNCHANGED <<queues, prev_step_scheduled_req_ids, pause_state>>

(* Mutant: a running request that stops stays in its queue.                *)
EndUpdate_Running ==
  /\ loc.pc = "update" /\ loc.output = <<>>
  /\ running' = running
  /\ waiting' = remove_requests(waiting, loc.stopped_preempted)
  /\ loc' = IdleLoc
  /\ UNCHANGED <<kv, requests, skipped_waiting, finished_req_ids,
                 prev_step_scheduled_req_ids, pause_state>>

EndUpdate ==
  /\ loc.pc = "update" /\ loc.output = <<>>
  /\ running' = remove_requests(running, loc.stopped_running)
  /\ waiting' = remove_requests(waiting, loc.stopped_preempted)
  /\ loc' = IdleLoc
  /\ UNCHANGED <<kv, requests, skipped_waiting, finished_req_ids,
                 prev_step_scheduled_req_ids, pause_state>>
=============================================================================
