------------------------------ MODULE EngineCore ------------------------------
(***************************************************************************)
(* EngineCore (vllm/v1/engine/core.py): the loop that takes in the calls   *)
(* of the clients, schedules batches, hands them to the workers and feeds  *)
(* the sampled tokens back to the scheduler.                               *)
(*                                                                         *)
(* batch_queue holds the batches whose output has not been processed, the  *)
(* oldest first.  BatchQueueSize is max_concurrent_batches of the executor:*)
(* 1 for step(), otherwise step_with_batch_queue(), where a batch can be   *)
(* scheduled while others are being computed: 2 with async scheduling, the *)
(* number of stages with pipeline parallelism.  The workers compute the    *)
(* batches in order.                                                       *)
(*                                                                         *)
(* Client calls are handled between two steps (loc.pc = "idle"); aborts    *)
(* also while a step waits for its output (loc.pc = "collect").            *)
(***************************************************************************)
EXTENDS Scheduler

CONSTANTS
  BatchQueueSize,
  Calls           \* the calls, besides new requests, that clients make

ASSUME EngineAssumption ==
  /\ BatchQueueSize \in Nat \ {0}
  /\ AsyncScheduling => BatchQueueSize = 2
  /\ Calls \subseteq {"abort", "reset_running", "reset", "pause"}

VARIABLES
  batch_queue,
  idle_state_callbacks   \* a pause will clear the caches once the engine is idle

vars == <<schedVars, batch_queue, idle_state_callbacks>>

Init ==
  /\ SchedInit
  /\ batch_queue = <<>>
  /\ idle_state_callbacks = FALSE

Idle == loc.pc = "idle"
has_work(pause) == has_requests(pause) \/ batch_queue # <<>>

(* _process_input_queue: the callbacks of an idle engine come before the   *)
(* next call.                                                              *)
ClientTurn == Idle /\ (idle_state_callbacks => has_work(pause_state))

-----------------------------------------------------------------------------
(* Calls of the clients                                                    *)

AddRequest(r) ==
  /\ ClientTurn
  /\ add_new_request(r)
  /\ UNCHANGED <<batch_queue, idle_state_callbacks>>

AbortRequest(r) ==
  /\ "abort" \in Calls
  /\ ClientTurn \/ loc.pc = "collect"
  /\ finish_requests(r)
  /\ UNCHANGED <<batch_queue, idle_state_callbacks>>

(* The call reset_prefix_cache(reset_running_requests=True).               *)
ResetRunning ==
  /\ ClientTurn /\ "reset_running" \in Calls
  /\ running # <<>>
  /\ reset_running_requests
  /\ UNCHANGED <<pause_state, batch_queue, idle_state_callbacks>>

ResetUnused ==
  /\ ClientTurn /\ "reset" \in Calls
  /\ reset_unused
  /\ UNCHANGED <<batch_queue, idle_state_callbacks>>

(* Modes "keep" (PAUSED_ALL) and "wait" (PAUSED_NEW) of pause_scheduler,   *)
(* with clear_cache.  Mode "abort" is "wait" after aborts.  The caches are *)
(* cleared at once if the engine is idle, otherwise by a callback.         *)
pause_scheduler(s) ==
  /\ ClientTurn /\ "pause" \in Calls
  /\ set_pause_state(s)
  /\ IF has_work(s)
     THEN /\ idle_state_callbacks' = TRUE
          /\ UNCHANGED <<kv, requests, queues, finished_req_ids,
                         prev_step_scheduled_req_ids, loc>>
     ELSE /\ reset_running_requests
          /\ UNCHANGED idle_state_callbacks
  /\ UNCHANGED batch_queue

resume_scheduler ==
  /\ ClientTurn /\ pause_state # "UNPAUSED"
  /\ set_pause_state("UNPAUSED")
  /\ UNCHANGED <<kv, requests, queues, finished_req_ids, prev_step_scheduled_req_ids,
                 loc, batch_queue, idle_state_callbacks>>

_notify_idle_state_callbacks ==
  /\ Idle /\ idle_state_callbacks /\ ~has_work(pause_state)
  /\ reset_running_requests
  /\ idle_state_callbacks' = FALSE
  /\ UNCHANGED <<pause_state, batch_queue>>

-----------------------------------------------------------------------------
(* step and step_with_batch_queue                                          *)

BeginStep ==
  /\ Idle /\ has_requests(pause_state)
  /\ StartSchedule
  /\ UNCHANGED <<batch_queue, idle_state_callbacks>>

ScheduleLoops ==
  /\ \/ SkipRunning \/ TryRunning \/ ScheduleRunning \/ EndRunning
     \/ \E v \in Requests : Preempt(v)
     \/ Defer \/ ScheduleWaiting \/ EndWaiting
  /\ UNCHANGED <<batch_queue, idle_state_callbacks>>

(* The step returns at once if it has scheduled something, the queue is    *)
(* not full and the oldest batch is not done.                              *)
DispatchAndReturn ==
  /\ loc.scheduled # <<>> /\ Len(batch_queue) + 1 < BatchQueueSize
  /\ batch_queue' = Append(batch_queue, SchedulerOutput)
  /\ _update_after_schedule("idle")
  /\ UNCHANGED idle_state_callbacks

DispatchAndWait ==
  /\ batch_queue' = Append(batch_queue, SchedulerOutput)
  /\ _update_after_schedule("collect")
  /\ UNCHANGED idle_state_callbacks

(* Nothing to schedule, and output to wait for.                            *)
WaitForOutput ==
  /\ Idle /\ ~has_requests(pause_state) /\ batch_queue # <<>>
  /\ loc' = [loc EXCEPT !.pc = "collect"]
  /\ UNCHANGED <<kv, requests, queues, finished_req_ids,
                 prev_step_scheduled_req_ids, pause_state, batch_queue,
                 idle_state_callbacks>>

(* The output of the oldest batch arrives.                                 *)
Collect ==
  /\ loc.pc = "collect"
  /\ loc' = [loc EXCEPT !.pc = "update", !.output = Head(batch_queue)]
  /\ batch_queue' = Tail(batch_queue)
  /\ UNCHANGED <<kv, requests, queues, finished_req_ids,
                 prev_step_scheduled_req_ids, pause_state, idle_state_callbacks>>

update_from_output ==
  /\ SkipOutput \/ AppendToken \/ StopRequest \/ EndUpdate
  /\ UNCHANGED <<batch_queue, idle_state_callbacks>>

EngineStep ==
  \/ BeginStep \/ ScheduleLoops \/ DispatchAndReturn \/ DispatchAndWait
  \/ WaitForOutput \/ Collect \/ update_from_output

(* All requests are served, and the engine blocks on its input queue.      *)
WaitForInput ==
  /\ Idle /\ ~has_work(pause_state)
  /\ \A r \in Requests : requests[r].status \in {"FINISHED", "ABORTED"}
  /\ UNCHANGED vars

ClientCall ==
  \/ \E r \in Requests : AddRequest(r) \/ AbortRequest(r)
  \/ ResetRunning \/ ResetUnused
  \/ \E s \in {"PAUSED_NEW", "PAUSED_ALL"} : pause_scheduler(s)
  \/ resume_scheduler

Next == ClientCall \/ _notify_idle_state_callbacks \/ EngineStep \/ WaitForInput

(* The busy loop keeps stepping while there is work, calls the callbacks   *)
(* when there is none, and the workers finish every batch: weak fairness   *)
(* of EngineStep and the callbacks, spelled out with what only they change.*)
(* Nothing is assumed of the clients.                                      *)
EngineIdles == Idle /\ ~has_work(pause_state) /\ ~idle_state_callbacks
EngineMoves == loc' # loc \/ (idle_state_callbacks /\ ~idle_state_callbacks')

Spec == Init /\ [][Next]_vars /\ ([]<>EngineIdles \/ []<><<EngineMoves>>_vars)
=============================================================================
