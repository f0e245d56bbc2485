------------------------------- MODULE RemoteKV -------------------------------
(***************************************************************************)
(* KV transfers of the scheduler (vllm/v1/core/sched/scheduler.py): a KV   *)
(* connector loads the KV of a part of a prompt from elsewhere, either     *)
(* within the step that uses it or over several steps, while the request   *)
(* is in WAITING_FOR_REMOTE_KVS; it may keep the blocks of a request that  *)
(* has stopped, or was aborted or failed, in order to send them; and it    *)
(* reports the blocks whose load has failed, for which the affected        *)
(* requests are failed or computed again.                                  *)
(*                                                                         *)
(* The blocks are those of BlockPool.  Its history field computed says how *)
(* many of a block's slots, counted from the first, hold the right KV: a   *)
(* failed load, or tokens computed from wrong KV, leave wrong slots.  A    *)
(* batch carries for each request whether what it reads is right (ok).     *)
(*                                                                         *)
(* The scheduler is the base one with the FCFS policy; the connector and   *)
(* the workers follow the contract of KVConnectorBase_V1.                  *)
(***************************************************************************)
EXTENDS BlockPool

CONSTANTS
  External,               \* tokens of each request's prompt that the connector has
  MaySend,                \* requests whose blocks the connector may keep when they
                          \* finish, in whatever way
  KeepsLoading,           \* may it do so while it still loads them?
  MayAbort,               \* requests that their clients may abort
  Configurations,         \* the failure policy, the requests that load within a step
                          \* (sync) or over several (async), and the batches in flight
  MaxNumScheduledTokens, LongPrefillTokenThreshold, MaxNumRunningReqs,
  ReserveFullISL,         \* scheduler_reserve_full_isl
  MaxFailures,            \* bound: loads that fail
  MayPutOff               \* bound: requests for which the connector puts off one lookup

ASSUME RemoteAssumption ==
  /\ External \in [Requests -> Nat]
  /\ \A r \in Requests : External[r] <= PromptLen[r]
  /\ Configurations \subseteq [recompute : BOOLEAN, sync : SUBSET Requests,
                                async : SUBSET Requests, batch_queue_size : Nat \ {0}]
  /\ {MaxNumScheduledTokens, MaxNumRunningReqs} \subseteq Nat \ {0}
  /\ KeepsLoading \in BOOLEAN

VARIABLES
  config,                     \* the configuration, fixed when the engine starts
  kv,                         \* the KV cache manager (BlockPool)
  status, num_tokens, num_computed_tokens, num_preemptions,
  requests,                   \* the keys of self.requests
  running, waiting, skipped_waiting,
  finished_recving, failed_recving,   \* ..._kv_req_ids
  finished_req_ids,
  loc,                        \* where the engine is in its step
  batch_queue,
  load,                       \* the async load of each request, or NoLoad
  sending,                    \* the blocks that are kept for a send, by request
  started, announced,         \* loads and sends that the workers know of
  bad,                        \* blocks that a load in progress has failed for
  failures, put_off

transfers == <<load, sending, started, announced, bad>>
queues == <<running, waiting, skipped_waiting>>
counts == <<num_tokens, num_computed_tokens, num_preemptions>>
recving == <<finished_recving, failed_recving>>
vars == <<config, kv, status, counts, requests, queues, recving, finished_req_ids, loc,
          batch_queue, transfers, failures, put_off>>

NoLoad == [blocks |-> <<>>, from |-> 0, to |-> 0]

Finished == {"FINISHED", "ABORTED", "ERROR"}

Idle == [pc |-> "idle", req_index |-> 1, token_budget |-> 0, preempted |-> FALSE,
         step_skipped |-> <<>>, scheduled |-> <<>>, sync |-> {}, loads |-> {},
         output |-> <<>>, failed |-> {}, stopped |-> {}, recved |-> {}, sent |-> {}]

Init ==
  /\ config \in Configurations
  /\ kv = EmptyPool
  /\ status = [r \in Requests |-> "NEW"]
  /\ num_tokens = [r \in Requests |-> 0]
  /\ num_computed_tokens = [r \in Requests |-> 0]
  /\ num_preemptions = [r \in Requests |-> FALSE]   \* whether it is not 0
  /\ requests = {} /\ finished_req_ids = {}
  /\ running = <<>> /\ waiting = <<>> /\ skipped_waiting = <<>>
  /\ finished_recving = {} /\ failed_recving = {}
  /\ loc = Idle /\ batch_queue = <<>>
  /\ load = [r \in Requests |-> NoLoad] /\ sending = <<>>
  /\ started = {} /\ announced = {} /\ bad = {}
  /\ failures = 0 /\ put_off = {}

Without(q, S) == SelectSeq(q, LAMBDA r : r \notin S)

add_request(r) ==
  /\ loc.pc = "idle" /\ status[r] = "NEW"
  /\ status' = [status EXCEPT ![r] = "WAITING"]
  /\ num_tokens' = [num_tokens EXCEPT ![r] = PromptLen[r]]
  /\ requests' = requests \cup {r}
  /\ waiting' = Append(waiting, r)
  /\ UNCHANGED <<config, kv, num_computed_tokens, num_preemptions, running,
                 skipped_waiting, recving, finished_req_ids, loc, batch_queue, transfers,
                 failures, put_off>>
-----------------------------------------------------------------------------
(***************************************************************************)
(* _free_request for the requests of S, which have stopped or which        *)
(* finish_requests aborts or fails.  The blocks of one whose load goes on  *)
(* are freed when the load has ended, and those that the connector keeps   *)
(* when they have been sent.                                               *)
(***************************************************************************)
\* Mutant: the load of an aborted request does not matter.
StillLoading_Nobody(S) == {}

StillLoading(S) == {r \in S : status[r] = "REMOTE" /\ r \notin finished_recving}

\* Mutant: the blocks are not given back.
FreeAll_Kept(m, S) == m

\* _free_blocks
FreeAll(m, S) == FoldLeft(LAMBDA k, r : free(k, r), m, SetToSeq(S))

\* the answers of the connector's request_finished: the requests of S whose
\* blocks it keeps
_connector_finished(S) ==
  SUBSET {r \in S \cap MaySend : KeepsLoading \/ r \notin StillLoading(S)}

\* S finishes, its part delayed still loads, and the transfers of ended are over
_free_request(S, delayed, ended) ==
  \E kept \in _connector_finished(S) :
    LET freed == (S \ (delayed \cup kept)) \cup ended IN
    /\ kv' = FreeAll(kv, freed)
    /\ requests' = requests \ freed
    /\ finished_req_ids' = finished_req_ids \cup S
    /\ sending' = sending @@ [r \in kept |-> kv.req_to_blocks[r]]

\* between the steps, or before the output that a step waits for is used
abort_request(r) ==
  /\ loc.pc \in {"idle", "collect"}
  /\ r \in MayAbort /\ r \in requests /\ status[r] \notin Finished
  /\ _free_request({r}, StillLoading({r}), {})
  /\ status' = [status EXCEPT ![r] = "ABORTED"]
  /\ running' = Without(running, {r})
  /\ waiting' = Without(waiting, {r})
  /\ skipped_waiting' = Without(skipped_waiting, {r})
  /\ finished_recving' = finished_recving \ {r}
  /\ failed_recving' = failed_recving \ {r}
  /\ UNCHANGED <<config, counts, loc, batch_queue, load, started, announced, bad,
                 failures, put_off>>
-----------------------------------------------------------------------------
(* schedule()                                                              *)

HasRequests == running \o waiting \o skipped_waiting # <<>> \/ finished_req_ids # {}

schedule ==
  /\ loc.pc = "idle" /\ HasRequests
  /\ loc' = [Idle EXCEPT !.pc = "schedule", !.token_budget = MaxNumScheduledTokens]
  /\ UNCHANGED <<config, kv, status, counts, requests, queues, recving, finished_req_ids,
                 batch_queue, transfers, failures, put_off>>

NumNewTokens(r, c) ==
  Min({num_tokens[r] - c, loc.token_budget}
        \cup (IF LongPrefillTokenThreshold > 0 THEN {LongPrefillTokenThreshold} ELSE {}))

Scheduled(l, r, c, n) ==
  [l EXCEPT !.scheduled = Append(@, [req |-> r, start |-> c, n |-> n]),
            !.token_budget = @ - n]

RunningOver == loc.req_index > Len(running) \/ loc.token_budget = 0

schedule_running ==
  /\ loc.pc = "schedule" /\ ~RunningOver
  /\ LET r == running[loc.req_index]
         c == num_computed_tokens[r]
         n == NumNewTokens(r, c)
         v == Last(running) IN
     \/ /\ n = 0
        /\ loc' = [loc EXCEPT !.req_index = @ + 1]
        /\ UNCHANGED <<kv, status, num_computed_tokens, num_preemptions, running, waiting>>
     \/ /\ n > 0 /\ has_slots(kv, r, <<>>, c + n, 0)
        /\ kv' = allocate_slots(kv, r, <<>>, c + n, num_tokens[r])
        /\ loc' = [Scheduled(loc, r, c, n) EXCEPT !.req_index = @ + 1]
        /\ UNCHANGED <<status, num_computed_tokens, num_preemptions, running, waiting>>
     \* no blocks: the last running request is preempted
     \/ /\ n > 0 /\ ~has_slots(kv, r, <<>>, c + n, 0)
        /\ kv' = free(kv, v)
        /\ status' = [status EXCEPT ![v] = "PREEMPTED"]
        /\ num_computed_tokens' = [num_computed_tokens EXCEPT ![v] = 0]
        /\ num_preemptions' = [num_preemptions EXCEPT ![v] = TRUE]
        /\ running' = Front(running) /\ waiting' = <<v>> \o waiting
        /\ loc' = [loc EXCEPT !.preempted = TRUE]
  /\ UNCHANGED <<config, num_tokens, requests, skipped_waiting, recving, finished_req_ids,
                 batch_queue, transfers, failures, put_off>>

\* then the waiting requests, unless one was preempted
Admitting ==
  /\ loc.pc = "schedule" /\ RunningOver /\ ~loc.preempted
  /\ waiting \o skipped_waiting # <<>> /\ loc.token_budget > 0
  /\ Len(running) < MaxNumRunningReqs

\* _select_waiting_queue_for_scheduling: the skipped requests come first
Candidate == Head(skipped_waiting \o waiting)
PopCandidate ==
  IF skipped_waiting # <<>>
  THEN skipped_waiting' = Tail(skipped_waiting) /\ UNCHANGED waiting
  ELSE waiting' = Tail(waiting) /\ UNCHANGED skipped_waiting

Skipped(l, r) == [l EXCEPT !.step_skipped = <<r>> \o @]

\* _try_promote_blocked_waiting_request: its load goes on
skip_remote ==
  /\ Admitting
  /\ status[Candidate] = "REMOTE" /\ Candidate \notin finished_recving
  /\ loc' = Skipped(loc, Candidate)
  /\ PopCandidate
  /\ UNCHANGED <<config, kv, status, counts, requests, running, recving, finished_req_ids,
                 batch_queue, transfers, failures, put_off>>

\* ... or has ended, and it is looked at again as a waiting request
promote ==
  /\ Admitting
  /\ LET r == Candidate
         c == num_computed_tokens[r] IN
     /\ status[r] = "REMOTE" /\ r \in finished_recving
     /\ kv' = IF r \in failed_recving /\ c = 0 THEN free(kv, r) ELSE cache_blocks(kv, r, c)
     /\ num_computed_tokens' =
          [num_computed_tokens EXCEPT
             ![r] = IF r \notin failed_recving /\ @ = num_tokens[r] THEN @ - 1 ELSE @]
     /\ status' = [status EXCEPT ![r] = IF num_preemptions[r] THEN "PREEMPTED" ELSE "WAITING"]
     /\ finished_recving' = finished_recving \ {r}
     /\ failed_recving' = failed_recving \ {r}
  /\ UNCHANGED <<config, num_tokens, num_preemptions, requests, queues, finished_req_ids, loc,
                 batch_queue, transfers, failures, put_off>>

\* The connector cannot tell yet how many tokens it has.
skip_undecided ==
  /\ Admitting /\ Candidate \in MayPutOff \ put_off
  /\ status[Candidate] # "REMOTE" /\ num_computed_tokens[Candidate] = 0
  /\ put_off' = put_off \cup {Candidate}
  /\ loc' = Skipped(loc, Candidate)
  /\ PopCandidate
  /\ UNCHANGED <<config, kv, status, counts, requests, running, recving, finished_req_ids,
                 batch_queue, transfers, failures>>

(* get_num_new_matched_tokens: the tokens that the connector offers beyond *)
(* the local hits, and whether it loads them asynchronously.  It may have  *)
(* none; a load within the step leaves a token to compute.                 *)
NoOffer == [ext |-> 0, async |-> FALSE]

Offers(r) ==
  LET async == r \in config.async
      local == Len(find_longest_cache_hit(kv, r, num_tokens[r])) * BlockSize
      ext == Min({External[r], IF async THEN PromptLen[r] ELSE num_tokens[r] - 1}) - local
      offers == r \in config.async \cup config.sync /\ num_computed_tokens[r] = 0 /\ ext > 0
  IN {NoOffer} \cup IF offers THEN {[ext |-> ext, async |-> async]} ELSE {}

\* what admission makes of a request and an offer
Plan(r, o) ==
  LET fresh == num_computed_tokens[r] = 0
      hits == IF fresh THEN find_longest_cache_hit(kv, r, num_tokens[r]) ELSE <<>>
      c == IF fresh THEN Len(hits) * BlockSize + o.ext ELSE num_computed_tokens[r]
      n == IF o.async THEN 0 ELSE NumNewTokens(r, c)
  IN [hits |-> hits, c |-> c, n |-> n, local |-> Len(hits) * BlockSize,
      fits |-> has_slots(kv, r, hits, c + n, IF ReserveFullISL THEN num_tokens[r] ELSE 0)]

admit ==
  /\ Admitting /\ status[Candidate] # "REMOTE"
  /\ LET r == Candidate IN
     \E o \in Offers(r) :
       LET p == Plan(r, o)
           \* delay_cache_blocks: what is being loaded is not cached
           m == allocate_slots(kv, r, p.hits, p.c + p.n, IF o.async THEN 0 ELSE num_tokens[r])
           blocks == m.req_to_blocks[r] IN
       /\ p.fits
       /\ kv' = m
       /\ num_computed_tokens' = [num_computed_tokens EXCEPT ![r] = p.c]
       /\ PopCandidate
       /\ \/ /\ o.async
             /\ status' = [status EXCEPT ![r] = "REMOTE"]
             /\ load' = [load EXCEPT ![r] = [blocks |-> blocks, from |-> p.local, to |-> p.c]]
             /\ loc' = [Skipped(loc, r) EXCEPT !.loads = @ \cup {r}]
             /\ UNCHANGED running
          \/ /\ ~o.async
             /\ status' = [status EXCEPT ![r] = "RUNNING"]
             /\ running' = Append(running, r)
             /\ loc' = [Scheduled(loc, r, p.c, p.n) EXCEPT !.req_index = @ + 1,
                          !.sync = IF o.ext = 0 THEN @
                                   ELSE @ \cup {[blocks |-> blocks, from |-> p.local,
                                                 to |-> p.c]}]
             /\ UNCHANGED load
  /\ UNCHANGED <<config, num_tokens, num_preemptions, requests, recving, finished_req_ids,
                 batch_queue, sending, started, announced, bad, failures, put_off>>

\* The loop ends, or breaks at a request that finds no blocks.
WaitingOver ==
  Admitting => /\ status[Candidate] # "REMOTE"
               /\ \E o \in Offers(Candidate) : ~Plan(Candidate, o).fits
-----------------------------------------------------------------------------
(* The batch goes to the workers, which run the batches in order.          *)

\* the slots of a request's i-th block that its first n tokens take
Slots(i, n) == Min({BlockSize, Max({0, n - (i - 1) * BlockSize})})

\* a load has ended, and failed for some blocks
Loaded(m, l, failed) ==
  LET filled(b) == {Slots(i, l.to) : i \in {j \in DOMAIN l.blocks :
                                              l.blocks[j] = b /\ l.from < j * BlockSize}}
  IN [m EXCEPT !.computed =
        [b \in Block |-> IF b \in failed THEN @[b] ELSE Max({@[b]} \cup filled(b))]]

\* the workers compute tokens e.start + 1 .. e.start + e.n of e.req
Reads(m, e) ==
  \A i \in DOMAIN m.req_to_blocks[e.req] :
    m.computed[m.req_to_blocks[e.req][i]] >= Slots(i, e.start)

Computed(m, e) ==
  LET bs == m.req_to_blocks[e.req]
      written == {i \in DOMAIN bs : Slots(i, e.start) < Slots(i, e.start + e.n)}
      Slot(k, i) == IF Reads(m, e) THEN Max({k, Slots(i, e.start + e.n)})
                    ELSE Min({k, Slots(i, e.start)})
  IN [m EXCEPT !.computed =
        [b \in Block |-> IF \E i \in written : bs[i] = b
                         THEN Slot(@[b], CHOOSE i \in written : bs[i] = b) ELSE @[b]]]

LoadBlocks(l) == {l.blocks[i] : i \in {j \in DOMAIN l.blocks : l.from < j * BlockSize}}

\* sets of blocks that a load may fail for
Failing(bs) == {F \in SUBSET bs : Cardinality(F) <= MaxFailures - failures}

Batch(F) ==
  LET loaded == FoldLeft(LAMBDA m, l : Loaded(m, l, F), kv, SetToSeq(loc.sync))
      Run(s, e) == [kv |-> Computed(s.kv, e),
                    out |-> Append(s.out, [req |-> e.req, n |-> e.n, ok |-> Reads(s.kv, e),
                                           samples |-> e.start + e.n = num_tokens[e.req]])]
  IN FoldLeft(Run, [kv |-> loaded, out |-> <<>>], loc.scheduled)

NumScheduled(out, r) == SumSet({e.n : e \in {x \in ToSet(out) : x.req = r}})

\* The end of schedule(): the skipped requests go before those that were skipped
\* in earlier steps.  Then _update_after_schedule, and the return of
\* step_with_batch_queue or its wait for the oldest output.
scheduler_output ==
  /\ loc.pc = "schedule" /\ RunningOver /\ WaitingOver
  /\ skipped_waiting' = Reverse(loc.step_skipped) \o skipped_waiting
  /\ \E F \in Failing(UNION {LoadBlocks(l) : l \in loc.sync}) :
       LET s == Batch(F) IN
       /\ batch_queue' = Append(batch_queue, [out |-> s.out, loads |-> loc.loads,
                                              finished |-> finished_req_ids, invalid |-> F])
       /\ kv' = s.kv
       /\ failures' = failures + Cardinality(F)
       /\ num_computed_tokens' =
            [r \in Requests |-> num_computed_tokens[r] + NumScheduled(s.out, r)]
  /\ finished_req_ids' = {}
  /\ loc' \in {[Idle EXCEPT !.pc = "collect"]}
              \cup (IF loc.scheduled # <<>> /\ Len(batch_queue) + 1 < config.batch_queue_size
                    THEN {Idle} ELSE {})
  /\ UNCHANGED <<config, status, num_tokens, num_preemptions, requests, running, waiting,
                 recving, transfers, put_off>>

wait_for_output ==
  /\ loc.pc = "idle" /\ ~HasRequests /\ batch_queue # <<>>
  /\ loc' = [loc EXCEPT !.pc = "collect"]
  /\ UNCHANGED <<config, kv, status, counts, requests, queues, recving, finished_req_ids,
                 batch_queue, transfers, failures, put_off>>
-----------------------------------------------------------------------------
(* update_from_output()                                                    *)

(* _update_requests_with_invalid_blocks: the requests of q are truncated   *)
(* at their first invalid block that no request before them will compute   *)
(* again.  n[r] are the tokens of r in the batch.                          *)
Truncate(q, invalid, n) ==
  LET Scan(s, r) ==
        LET bs == kv.req_to_blocks[r]
            c == num_computed_tokens[r] - n[r]
            hit == {i \in DOMAIN bs : i <= cdiv(c, BlockSize) /\ bs[i] \in invalid}
            first == {i \in hit : bs[i] \notin s.marked}
            k == Min(first) IN
        IF hit = {} THEN s
        ELSE [marked |-> s.marked \cup {bs[i] : i \in hit},
              computed |-> [s.computed EXCEPT ![r] = IF first = {} THEN c
                                                     ELSE (k - 1) * BlockSize],
              affected |-> s.affected \cup {r},
              evict |-> IF first = {} THEN s.evict
                        ELSE s.evict \cup ToSet(SubSeq(bs, k, Len(bs)))]
  IN FoldLeft(Scan, [marked |-> {}, computed |-> num_computed_tokens, affected |-> {},
                     evict |-> {}], q)

\* _handle_invalid_blocks, and what it does to the counts and the blocks
_handle_invalid_blocks(m, invalid, n) ==
  LET remote == Truncate(SelectSeq(skipped_waiting, LAMBDA r : status[r] = "REMOTE"),
                         invalid, n)
      sync == Truncate(running, invalid, n)
  IN [computed |-> [r \in Requests |-> IF r \in remote.affected THEN remote.computed[r]
                                       ELSE sync.computed[r]],
      kv |-> IF config.recompute THEN m ELSE evict(m, sync.evict),
      retry |-> IF config.recompute THEN remote.affected ELSE {},
      failed |-> IF config.recompute THEN sync.affected ELSE remote.affected \cup sync.affected]

\* The output of the oldest batch arrives, with what the connector reports:
\* loads and sends that have ended, and blocks whose load has failed, which it
\* reports no later than the end of the load.
collect ==
  /\ loc.pc = "collect"
  /\ LET b == Head(batch_queue)
         loading == started \cup b.loads
         told == announced \cup (b.finished \cap DOMAIN sending)
         n == [r \in Requests |-> NumScheduled(b.out, r)] IN
     \E recved \in SUBSET loading, sent \in SUBSET told,
        F \in Failing((UNION {LoadBlocks(load[r]) : r \in loading}) \ bad) :
       LET ended == FoldLeft(LAMBDA m, r : Loaded(m, load[r], bad \cup F), kv, SetToSeq(recved))
           h == _handle_invalid_blocks(ended, b.invalid \cup F, n) IN
       /\ kv' = h.kv
       /\ num_computed_tokens' = h.computed
       /\ failed_recving' = failed_recving \cup h.retry
       /\ loc' = [Idle EXCEPT !.pc = "update", !.output = b.out, !.failed = h.failed,
                              !.recved = recved, !.sent = sent]
       /\ load' = [r \in Requests |-> IF r \in recved THEN NoLoad ELSE load[r]]
       /\ sending' = Restrict(sending, DOMAIN sending \ sent)
       /\ started' = loading \ recved
       /\ announced' = told \ sent
       /\ bad' = (bad \cup F) \ UNION {LoadBlocks(load[r]) : r \in recved}
       /\ failures' = failures + Cardinality(F)
  /\ batch_queue' = Tail(batch_queue)
  /\ UNCHANGED <<config, status, num_tokens, num_preemptions, requests, queues,
                 finished_recving, finished_req_ids, put_off>>

NextOutput == Head(loc.output)

\* Mutant: the tokens of a request whose load failed are kept.
Ignored_KeepFailed(e) == e.req \notin requests \/ status[e.req] \in Finished

Ignored(e) == e.req \in loc.failed \/ e.req \notin requests \/ status[e.req] \in Finished

Stops(r) == num_tokens[r] + 1 - PromptLen[r] = MaxTokens[r]

skip_output ==
  /\ loc.pc = "update" /\ loc.output # <<>>
  /\ Ignored(NextOutput) \/ ~NextOutput.samples
  /\ loc' = [loc EXCEPT !.output = Tail(@)]
  /\ UNCHANGED <<config, kv, status, counts, requests, queues, recving, finished_req_ids,
                 batch_queue, transfers, failures, put_off>>

append_token ==
  /\ loc.pc = "update" /\ loc.output # <<>>
  /\ LET r == NextOutput.req IN
     /\ ~Ignored(NextOutput) /\ NextOutput.samples
     /\ num_tokens' = [num_tokens EXCEPT ![r] = @ + 1]
     /\ \/ /\ ~Stops(r)
           /\ loc' = [loc EXCEPT !.output = Tail(@)]
           /\ UNCHANGED <<kv, status, requests, finished_req_ids, sending>>
        \/ /\ Stops(r)
           /\ status' = [status EXCEPT ![r] = "FINISHED"]
           /\ loc' = [loc EXCEPT !.output = Tail(@), !.stopped = @ \cup {r}]
           /\ _free_request({r}, {}, {})
  /\ UNCHANGED <<config, num_computed_tokens, num_preemptions, queues, recving, batch_queue,
                 load, started, announced, bad, failures, put_off>>

\* The requests of the loads and sends that have ended, if those of over have
\* finished.
_update_from_kv_xfer_finished(over) ==
  [finished_recving |-> loc.recved \ over, freed |-> (loc.recved \cap over) \cup loc.sent]

\* The stopped requests leave the queues; the failed ones are finished; and
\* _update_from_kv_xfer_finished.
end_update ==
  /\ loc.pc = "update" /\ loc.output = <<>>
  /\ LET failed == IF config.recompute THEN {} ELSE loc.failed
         over == failed \cup {r \in Requests : status[r] \in Finished}
         xfer == _update_from_kv_xfer_finished(over) IN
     /\ status' = [r \in Requests |-> IF r \in failed THEN "ERROR" ELSE status[r]]
     /\ _free_request(failed, StillLoading(failed), xfer.freed)
     /\ running' = Without(running, loc.stopped \cup failed)
     /\ waiting' = Without(waiting, loc.stopped \cup failed)
     /\ skipped_waiting' = Without(skipped_waiting, failed)
     /\ finished_recving' = (finished_recving \ failed) \cup xfer.finished_recving
     /\ failed_recving' = failed_recving \ failed
  /\ loc' = Idle
  /\ UNCHANGED <<config, counts, batch_queue, load, started, announced, bad, failures,
                 put_off>>
-----------------------------------------------------------------------------
\* The engine has served the requests and blocks on its input queue; a transfer
\* that has not ended is looked at in the next step.
wait_for_input ==
  /\ loc.pc = "idle" /\ ~HasRequests /\ batch_queue = <<>>
  /\ \A r \in Requests : status[r] \in Finished
  /\ UNCHANGED vars

Next ==
  \/ \E r \in Requests : add_request(r) \/ abort_request(r)
  \/ schedule \/ schedule_running
  \/ skip_remote \/ promote \/ skip_undecided \/ admit
  \/ scheduler_output \/ wait_for_output
  \/ collect \/ skip_output \/ append_token \/ end_update
  \/ wait_for_input

(* The busy loop keeps stepping while there is something to do, and every  *)
(* transfer ends and is reported, if the engine keeps taking steps.        *)
EngineRests == loc.pc = "idle" /\ ~HasRequests /\ batch_queue = <<>>
EngineMoves == loc' # loc \/ finished_recving' # finished_recving
Transferring(r) == load[r] # NoLoad \/ r \in DOMAIN sending

Spec == Init /\ [][Next]_vars

FairSpec ==
  /\ Spec
  /\ []<>EngineRests \/ []<><<EngineMoves>>_vars
  /\ \A r \in Requests : []<>~Transferring(r) \/ <>[](loc.pc # "collect")
-----------------------------------------------------------------------------
(* The blocks of a transfer belong to its request until the transfer has   *)
(* ended, whatever happens to the request, be it stopped, aborted or       *)
(* failed: a block that is being loaded is held by it alone and not        *)
(* cached, and the blocks that are kept for a send stay its blocks.  When  *)
(* the transfer ends, the scheduler still has the request, which waits for *)
(* the load or has finished, and no other transfer of it has ended: the    *)
(* assertions of _update_from_kv_xfer_finished hold.                       *)
TransfersHeld ==
  /\ \A r \in Requests :
       load[r] # NoLoad =>
         /\ IsPrefix(load[r].blocks, kv.req_to_blocks[r])
         /\ \A b \in LoadBlocks(load[r]) : kv.ref_cnt[b] = 1 /\ kv.block_hash[b] = NoHash
  /\ \A r \in DOMAIN sending : kv.req_to_blocks[r] = sending[r]
  /\ loc.pc = "update" /\ loc.output = <<>> =>
       /\ loc.recved \cup loc.sent \subseteq requests
       /\ loc.recved \cap loc.sent = {}
       /\ \A r \in loc.recved : status[r] \in Finished \cup {"REMOTE"}
       /\ \A r \in loc.sent : status[r] \in Finished

\* The next token to be kept was sampled from the right KV.
TokenValid ==
  loc.pc = "update" /\ loc.output # <<>> /\ ~Ignored(NextOutput) /\ NextOutput.samples
    => NextOutput.ok

\* Blocks that nobody holds and that are in the prefix cache have the right KV.
CacheValid ==
  loc.pc = "idle" /\ batch_queue = <<>> =>
    \A b \in ToSet(kv.free) : kv.block_hash[b] # NoHash => kv.computed[b] = BlockSize

(* No token is kept that was sampled from the KV of a failed load, of a    *)
(* load that has not ended, or of tokens computed from such KV, and no     *)
(* such KV is left in the prefix cache, where a later request would take   *)
(* it as computed (_handle_invalid_blocks, _update_waiting_for_remote_kv). *)
NoWrongKV == TokenValid /\ CacheValid

(* Every request finishes, whatever loads fail, are put off or outlive     *)
(* their requests, and whatever blocks are kept for sends.                 *)
RequestsFinish == \A r \in Requests : (status[r] = "WAITING") ~> (status[r] \in Finished)
=============================================================================
