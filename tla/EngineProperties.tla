--------------------------- MODULE EngineProperties ---------------------------
(***************************************************************************)
(* What is required of the engine core, its scheduler and the KV cache.    *)
(***************************************************************************)
EXTENDS EngineCore

SumTokens(s) == FoldLeft(LAMBDA n, e : n + e.n, 0, s)

Entry == [req : Requests, pos : 0..MaxModelLen]

(* Types.                                                                  *)
TypeOK ==
  /\ kv.free \in Seq(Block)
  /\ kv.ref_cnt \in [Block -> 0..Cardinality(Requests)]
  /\ kv.block_hash \in [Block -> Hash \union {NoHash}]
  /\ \A h \in Hash : kv.cached[h] \in Seq(Block)
  /\ \A r \in Requests : kv.req_to_blocks[r] \in Seq(Block)
  /\ kv.num_cached_block \in [Requests -> -1..NumBlocks]
  /\ kv.computed \in [Block -> 0..BlockSize]
  /\ \A r \in Requests :
       /\ requests[r].status \in {"NEW", "WAITING", "RUNNING", "PREEMPTED", "FINISHED", "ABORTED"}
       /\ requests[r].num_tokens \in PromptLen[r]..(PromptLen[r] + MaxTokens[r])
       /\ requests[r].num_computed_tokens \in 0..MaxModelLen
       /\ requests[r].num_output_placeholders \in 0..BatchQueueSize
       /\ requests[r].discard_latest_async_tokens \in BOOLEAN
  /\ \A q \in {running, waiting, skipped_waiting, loc.step_skipped_waiting} :
       q \in Seq(Requests)
  /\ {finished_req_ids, prev_step_scheduled_req_ids, loc.resumed, loc.preempted_reqs,
      loc.stopped_running, loc.stopped_preempted} \subseteq SUBSET Requests
  /\ pause_state \in {"UNPAUSED", "PAUSED_NEW", "PAUSED_ALL"}
  /\ loc.pc \in {"idle", "running", "allocate", "waiting", "output", "collect", "update"}
  /\ loc.token_budget \in 0..MaxNumScheduledTokens
  /\ loc.output \in Seq(Entry)
  /\ batch_queue \in Seq(Seq(Entry))
  /\ idle_state_callbacks \in BOOLEAN

-----------------------------------------------------------------------------
(* The KV cache                                                            *)

(* Over all allocations, hits, preemptions, aborts and resets, a block's   *)
(* reference count is the number of block tables it is in, and the free    *)
(* queue holds exactly the blocks without references, each once: no block  *)
(* leaks, and none is given away while a request uses it (get_new_blocks,  *)
(* touch, free_blocks).                                                    *)
BlocksAccounted ==
  /\ \A b \in Block : kv.ref_cnt[b] = Cardinality({r \in Requests : Holds(kv, r, b)})
  /\ Range(kv.free) = {b \in Block : kv.ref_cnt[b] = 0}
  /\ IsInjective(kv.free)
  /\ \A r \in Requests : IsInjective(kv.req_to_blocks[r])

(* The map from hashes to blocks and the hashes of the blocks agree, each  *)
(* block of a table that counts as cached has the hash of its place, and   *)
(* the others have none: the assertion of cache_full_blocks holds whenever *)
(* it is reached.                                                          *)
CacheConsistent ==
  /\ \A h \in Hash : /\ Range(kv.cached[h]) = {b \in Block : kv.block_hash[b] = h}
                     /\ IsInjective(kv.cached[h])
  /\ \A r \in Requests : \A i \in DOMAIN kv.req_to_blocks[r] :
       kv.block_hash[kv.req_to_blocks[r][i]] =
         IF i <= kv.num_cached_block[r] THEN block_hashes(r, i) ELSE NoHash

(* The slot of the p-th token (from 0) of a request.                       *)
SlotBlock(r, p) == kv.req_to_blocks[r][p \div BlockSize + 1]

Written(e) == requests[e.req].num_computed_tokens
                ..(requests[e.req].num_computed_tokens + e.n - 1)

WritesSlot(e, b, o) ==
  \E p \in Written(e) : SlotBlock(e.req, p) = b /\ p % BlockSize = o

(* A batch that leaves the scheduler writes the KV of its tokens to slots  *)
(* that exist, that nothing has been written to since their block was      *)
(* allocated, and that no other request of the batch writes to.            *)
WriteOnce ==
  loc.pc = "output" =>
    \A i \in DOMAIN loc.scheduled : LET e == loc.scheduled[i] IN
      \A p \in Written(e) :
        /\ p \div BlockSize + 1 \in DOMAIN kv.req_to_blocks[e.req]
        /\ kv.computed[SlotBlock(e.req, p)] <= p % BlockSize
        /\ \A j \in DOMAIN loc.scheduled \ {i} :
             ~WritesSlot(loc.scheduled[j], SlotBlock(e.req, p), p % BlockSize)

(* Attention reads the KV of every earlier token of a request.  All of it  *)
(* has been computed by earlier batches, or is computed in the same one:   *)
(* no request is given a cached block whose content was never computed     *)
(* (get_computed_blocks, allocate_slots).                                  *)
ReadsComputed ==
  loc.pc = "output" =>
    \A i \in DOMAIN loc.scheduled : LET e == loc.scheduled[i] IN
      \A p \in 0..(requests[e.req].num_computed_tokens - 1) :
        \/ kv.computed[SlotBlock(e.req, p)] > p % BlockSize
        \/ \E j \in DOMAIN loc.scheduled :
             WritesSlot(loc.scheduled[j], SlotBlock(e.req, p), p % BlockSize)

(* The KV cache as the scheduler uses it keeps the promises of KVBlocks:   *)
(* every step of the engine is one of its steps or changes none of it.     *)
Promise == INSTANCE KVBlocks WITH
             held <- [r \in Requests |-> Range(kv.req_to_blocks[r])],
             ref_cnt <- kv.ref_cnt,
             available <- Range(kv.free),
             cached <- {b \in Block : kv.block_hash[b] # NoHash}
ImplementsKVBlocks == Promise!Spec

-----------------------------------------------------------------------------
(* The scheduler                                                           *)

Occurs(r, q) == Cardinality({i \in DOMAIN q : q[i] = r})
InWaitingQueues(r) ==
  Occurs(r, waiting) + Occurs(r, skipped_waiting) + Occurs(r, loc.step_skipped_waiting)

(* Every unfinished request is in exactly one queue, the one of its        *)
(* status, and no finished request stays in one: neither is a request lost *)
(* by a preemption, a deferral, an abort or a late output, nor is it       *)
(* scheduled after its end.                                                *)
InOneQueue ==
  \A r \in Requests \ (loc.stopped_running \union loc.stopped_preempted) :
    LET status == requests[r].status
    IN /\ Occurs(r, running) = IF status = "RUNNING" THEN 1 ELSE 0
       /\ InWaitingQueues(r) = IF status \in {"WAITING", "PREEMPTED"} THEN 1 ELSE 0

(* The asserts of a step.  step_with_batch_queue finds room for the batch  *)
(* it schedules.  At the end of schedule(), whatever was preempted in      *)
(* between, the budget and what is scheduled add up, only running requests *)
(* are scheduled, each once and with at least one token, and a resumed     *)
(* request was not part of the previous batch (_make_cached_request_data). *)
StepAccounted ==
  /\ loc.pc = "idle" => Len(batch_queue) < BatchQueueSize
  /\ loc.pc \in {"running", "allocate", "waiting", "output"} =>
       /\ loc.token_budget + SumTokens(loc.scheduled) =
            IF pause_state = "PAUSED_ALL" THEN 0 ELSE MaxNumScheduledTokens
       /\ Len(running) <= MaxNumRunningReqs
       /\ \A i \in DOMAIN loc.scheduled :
            /\ loc.scheduled[i].n > 0
            /\ loc.scheduled[i].req \in Range(running)
            /\ \A j \in DOMAIN loc.scheduled :
                 loc.scheduled[i].req = loc.scheduled[j].req => i = j
       /\ loc.resumed \intersect prev_step_scheduled_req_ids = {}

(* Between two steps only running requests hold blocks: preempting them    *)
(* frees the whole pool, so reset_prefix_cache(reset_running_requests)     *)
(* never raises "Failed to reset KV cache".                                *)
OnlyRunningHold ==
  Idle => \A r \in Requests : kv.req_to_blocks[r] # <<>> => r \in Range(running)

(* The running loop of schedule() takes every request once: the ones       *)
(* before req_index are scheduled or have nothing to compute, the ones     *)
(* after it are not scheduled yet.  A victim in front of req_index shifts  *)
(* the rest (req_index -= 1).                                              *)
EachTriedOnce ==
  loc.pc \in {"running", "allocate"} =>
    \A i \in DOMAIN running :
      IF i < loc.req_index
      THEN running[i] \in ScheduledReqs \/ RunningTokens(running[i]) = 0
      ELSE running[i] \notin ScheduledReqs

(* The entries of a request among the batches in flight that will bring a  *)
(* token.                                                                  *)
TokensInFlight(r) ==
  LET count(batch) == Cardinality({i \in DOMAIN batch : batch[i].req = r /\ batch[i].pos # 0})
  IN FoldLeft(LAMBDA n, batch : n + count(batch), count(loc.output), batch_queue)

(* With async scheduling an unfinished request has as many placeholders as *)
(* tokens in flight; so AsyncScheduler's assertion that the number does    *)
(* not become negative holds.                                              *)
PlaceholdersInFlight ==
  AsyncScheduling =>
    \A r \in Requests :
      Unfinished(r) => requests[r].num_output_placeholders = TokensInFlight(r)

(* A token that is appended to a request's output was sampled for that     *)
(* position: preemption, resets and overlapping batches neither repeat nor *)
(* skip a token of the stream.                                             *)
TokensInOrder ==
  loc.pc = "update" /\ loc.output # <<>> =>
    LET e == Head(loc.output)
    IN AppendsToken(e.req) => e.pos = requests[e.req].num_tokens

(* Under FCFS without TailBlend, no request overtakes another: in the      *)
(* running requests followed by the waiting ones, two requests never       *)
(* change their order, through all admissions, preemptions and resets.     *)
Before(r, s, q) == \E i, j \in DOMAIN q : i < j /\ q[i] = r /\ q[j] = s
ServiceOrder == running \o waiting
NoOvertaking ==
  [][\A r, s \in Range(ServiceOrder) \intersect Range(ServiceOrder') :
       Before(r, s, ServiceOrder) => Before(r, s, ServiceOrder')]_vars

(* What every mix of policies, hooks and calls has to keep.                *)
EngineSafe ==
  /\ TypeOK
  /\ BlocksAccounted /\ CacheConsistent
  /\ InOneQueue /\ StepAccounted /\ PlaceholdersInFlight

(* Every request that is submitted finishes, and with it the last one.     *)
RequestsFinish ==
  (\E r \in Requests : Unfinished(r)) ~> (\A r \in Requests : ~Unfinished(r))

(* A pause completes: its callback clears the caches, whether the engine   *)
(* drains, the clients resume it or pause it again, unless they reset the  *)
(* running requests again and again.                                       *)
PauseCompletes ==
  (idle_state_callbacks ~> ~idle_state_callbacks) \/ []<><<ResetRunning>>_vars
=============================================================================
