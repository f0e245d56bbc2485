------------------------- MODULE MultiprocExecutor -------------------------
(***************************************************************************)
(* MultiprocExecutor, FutureWrapper and WorkerProc of                      *)
(* vllm/v1/executor/multiproc_executor.py.  The engine's thread calls      *)
(* methods of the worker processes with collective_rpc: the call goes into *)
(* one message queue that every worker reads, the answers come back        *)
(* through one message queue per worker.  Nothing in an answer says which  *)
(* call it belongs to; futures_queue keeps the order.  A monitor thread    *)
(* shuts the executor down when a worker dies.                             *)
(*                                                                         *)
(* The message queues are the bounded broadcast queues of BroadcastQueue,  *)
(* which ShmBroadcast implements.  The k-th call is the number k, and an   *)
(* answer is the number of the call it answers, with its status.           *)
(***************************************************************************)
EXTENDS Integers, Sequences, FiniteSets

CONSTANTS
  world_size,             \* number of workers
  output_rank,            \* the worker whose output execute_model returns
  use_async_scheduling,   \* do workers answer from a thread of their own?
  max_concurrent_batches, \* futures the engine keeps before it waits
  max_chunks,             \* messages a queue holds
  Kinds,                  \* the kinds of calls that are made
  MaxCalls,               \* bound: number of calls
  MayRaise,               \* the workers whose methods may raise
  MayDie                  \* the workers whose process may die

Rank == 0 .. world_size - 1
All == -1   \* unique_reply_rank is None, or there is a kv_output_aggregator

ASSUME ExecutorAssumption ==
  /\ world_size \in Nat \ {0} /\ output_rank \in Rank
  /\ max_chunks \in Nat \ {0} /\ max_concurrent_batches \in Nat \ {0}
  /\ Kinds \subseteq {"execute_model", "aggregated", "take_draft_token_ids", "utility"}

VARIABLES
  call,           \* kinds of the calls enqueued so far: rpc_broadcast_mq
  taken,          \* calls each worker has dequeued
  output,         \* async_output_queue of each worker
  response,       \* worker_response_mq of each worker
  alive,          \* the worker processes that run
  futures_queue,  \* calls whose answers nobody has waited for, oldest first
  batch_queue,    \* the engine's futures, oldest first
  future,         \* outcome of each call: none, error, or the answers
  enqueuing,      \* kind of the call that waits for room, or "none"
  target,         \* the call whose result() the engine is in, or 0
  cur, got,       \* the call whose answers are being read, and those read
  gave_up,        \* calls that ended before all their answers were read
  is_failed, shutdown, \* how far shutdown has got
  closed,         \* the executor's ends of the queues are shut down
  callback,       \* EXECUTOR_FAILED is in the engine's input queue
  engine          \* "running", or the engine core has died

rpc == <<call, taken>>
workers == <<output, response, alive>>
caller == <<futures_queue, batch_queue, future, enqueuing, target, cur,
            got, gave_up, engine>>
monitor == <<is_failed, shutdown, closed, callback>>
vars == <<rpc, workers, caller, monitor>>

Rpc == INSTANCE BroadcastQueue
         WITH Reader <- Rank, Capacity <- max_chunks, published <- Len(call)

\* Who answers a call, whether it waits, whether it has a deadline, and whether
\* an exception from it ends the engine (a utility call only reports it).
output_rank_of(k) ==
  IF call[k] \in {"aggregated", "utility"} THEN All ELSE output_rank
HasDeadline(kind) == kind \in {"execute_model", "aggregated", "utility"}
Fatal(kind) == kind # "utility"
non_block(kind) == kind \in {"execute_model", "aggregated"}

none == [ok |-> FALSE, done |-> FALSE, answers |-> <<>>]
error == [ok |-> FALSE, done |-> TRUE, answers |-> <<>>]
success(answers) == [ok |-> TRUE, done |-> TRUE, answers |-> answers]

Init ==
  /\ call = <<>> /\ taken = [w \in Rank |-> 0]
  /\ alive = Rank
  /\ output = [w \in Rank |-> <<>>] /\ response = [w \in Rank |-> <<>>]
  /\ futures_queue = <<>> /\ batch_queue = <<>> /\ future = <<>>
  /\ enqueuing = "none" /\ target = 0 /\ cur = 0 /\ got = <<>> /\ gave_up = {}
  /\ is_failed = FALSE /\ shutdown = "no" /\ closed = FALSE /\ callback = FALSE
  /\ engine = "running"
-----------------------------------------------------------------------------
(***************************************************************************)
(* The engine's thread.                                                    *)
(***************************************************************************)
EngineIdle == engine = "running" /\ enqueuing = "none" /\ target = 0

\* An exception that reaches the engine's busy loop ends it.
Raise(kind) == engine' = IF Fatal(kind) THEN "dead" ELSE engine

\* collective_rpc, up to the enqueue
collective_rpc(kind) ==
  /\ EngineIdle
  /\ Len(call) < MaxCalls
  /\ non_block(kind) => Len(batch_queue) < max_concurrent_batches
  /\ \/ ~is_failed /\ ~closed /\ enqueuing' = kind /\ UNCHANGED engine
     \/ (is_failed \/ closed) /\ Raise(kind) /\ UNCHANGED enqueuing
  /\ UNCHANGED <<rpc, workers, futures_queue, batch_queue, future, target, cur, got,
                 gave_up, monitor>>

\* The writer waits for room in the ring: no deadline, and no cancel either.
\* Then the response queues are looked up and the future is made.  Meanwhile the
\* monitor may have set response_mqs to []: for one rank that is an IndexError,
\* and for all of them a call with no answers to wait for.
enqueue ==
  /\ enqueuing # "none"
  /\ call' = Append(call, enqueuing)
  /\ Rpc!Publish
  /\ enqueuing' = "none"
  /\ LET k == Len(call) + 1 IN
     \/ /\ ~closed
        /\ future' = Append(future, none)
        /\ futures_queue' = Append(futures_queue, k)
        /\ batch_queue' = IF non_block(enqueuing) THEN Append(batch_queue, k) ELSE batch_queue
        /\ target' = IF non_block(enqueuing) THEN 0 ELSE k
        /\ UNCHANGED engine
     \/ /\ closed
        /\ future' = Append(future, IF enqueuing = "utility" THEN success(<<>>) ELSE error)
        /\ Raise(enqueuing)
        /\ UNCHANGED <<futures_queue, batch_queue, target>>
  /\ UNCHANGED <<workers, cur, got, gave_up, monitor>>

\* the engine waits for its oldest batch
collect ==
  /\ EngineIdle
  /\ batch_queue # <<>>
  /\ target' = Head(batch_queue)
  /\ batch_queue' = Tail(batch_queue)
  /\ UNCHANGED <<rpc, workers, futures_queue, future, enqueuing, cur, got, gave_up, engine, monitor>>

\* Mutant: the futures ahead are not drained.
drain_NotFirst ==
  /\ target # 0 /\ cur = 0
  /\ ~future[target].done
  /\ cur' = target
  /\ got' = <<>>
  /\ futures_queue' = SelectSeq(futures_queue, LAMBDA k : k # target)
  /\ UNCHANGED <<rpc, workers, batch_queue, future, enqueuing, target, gave_up, engine, monitor>>

\* FutureWrapper.result drains the futures ahead of it
drain ==
  /\ target # 0 /\ cur = 0
  /\ ~future[target].done
  /\ cur' = Head(futures_queue)
  /\ got' = <<>>
  /\ futures_queue' = Tail(futures_queue)
  /\ UNCHANGED <<rpc, workers, batch_queue, future, enqueuing, target, gave_up, engine, monitor>>

\* the response queue that get_response is waiting on
response_mq == IF output_rank_of(cur) = All THEN Len(got) ELSE output_rank
Answers(k) == IF output_rank_of(k) = All THEN world_size ELSE 1

EndWait(outcome) ==
  /\ future' = [future EXCEPT ![cur] = outcome]
  /\ cur' = 0
  /\ got' = <<>>

get_response ==
  /\ cur # 0
  /\ response[response_mq] # <<>>
  /\ LET a == Head(response[response_mq])
         answers == Append(got, a.call) IN
     /\ response' = [response EXCEPT ![response_mq] = Tail(@)]
     /\ \/ /\ a.ok /\ Len(answers) < Answers(cur)
           /\ got' = answers
           /\ UNCHANGED <<future, cur, gave_up>>
        \/ /\ a.ok /\ Len(answers) = Answers(cur)
           /\ EndWait(success(answers))
           /\ UNCHANGED gave_up
        \/ /\ ~a.ok    \* FAILURE: the answers of the ranks after it stay unread
           /\ EndWait(error)
           /\ gave_up' = IF Len(answers) < Answers(cur) THEN gave_up \cup {cur} ELSE gave_up
  /\ UNCHANGED <<rpc, output, alive, futures_queue, batch_queue, enqueuing, target,
                 engine, monitor>>

\* TimeoutError, or "cancelled" by a shutdown
get_response_fails ==
  /\ cur # 0
  /\ response[response_mq] = <<>>
  /\ HasDeadline(call[cur]) \/ closed
  /\ EndWait(error)
  /\ gave_up' = gave_up \cup {cur}
  /\ UNCHANGED <<rpc, workers, futures_queue, batch_queue, enqueuing, target, engine, monitor>>

result ==
  /\ target # 0 /\ future[target].done
  /\ target' = 0
  /\ \/ future[target].ok /\ UNCHANGED engine
     \/ ~future[target].ok /\ Raise(call[target])
  /\ UNCHANGED <<rpc, workers, futures_queue, batch_queue, future, enqueuing, cur, got, gave_up,
                 monitor>>

\* _handle_client_request raises on EXECUTOR_FAILED
handle_executor_failed ==
  /\ EngineIdle /\ callback
  /\ engine' = "dead"
  /\ UNCHANGED <<rpc, workers, futures_queue, batch_queue, future, enqueuing, target, cur, got,
                 gave_up, monitor>>
-----------------------------------------------------------------------------
(***************************************************************************)
(* A worker process.                                                       *)
(***************************************************************************)
\* handle_output: through a thread of its own if scheduling is asynchronous
handle_output(w, answer) ==
  IF use_async_scheduling
  THEN output' = [output EXCEPT ![w] = Append(@, answer)] /\ UNCHANGED response
  ELSE /\ Len(response[w]) < max_chunks
       /\ response' = [response EXCEPT ![w] = Append(@, answer)]
       /\ UNCHANGED output

\* One round: take the next call, execute it, and answer if that was asked for.
\* The method returns or raises.
worker_busy_loop(w) ==
  /\ w \in alive
  /\ UNCHANGED call
  /\ Rpc!Take(w)
  /\ LET k == taken[w] + 1 IN
     \/ output_rank_of(k) \notin {All, w} /\ UNCHANGED <<output, response>>
     \/ /\ output_rank_of(k) \in {All, w}
        /\ \E ok \in {TRUE} \cup (IF w \in MayRaise THEN {FALSE} ELSE {}) :
             handle_output(w, [call |-> k, ok |-> ok])
  /\ UNCHANGED <<alive, caller, monitor>>

async_output(w) ==
  /\ w \in alive
  /\ output[w] # <<>> /\ Len(response[w]) < max_chunks
  /\ response' = [response EXCEPT ![w] = Append(@, Head(output[w]))]
  /\ output' = [output EXCEPT ![w] = Tail(@)]
  /\ UNCHANGED <<rpc, alive, caller, monitor>>

die(w) ==
  /\ w \in MayDie \cap alive
  /\ alive' = alive \ {w}
  /\ UNCHANGED <<rpc, output, response, caller, monitor>>

\* The death pipe is closed: a worker waiting for a call is cancelled and exits.
exit(w) ==
  /\ shutdown = "terminate"
  /\ w \in alive
  /\ taken[w] = Len(call)
  /\ alive' = alive \ {w}
  /\ UNCHANGED <<rpc, output, response, caller, monitor>>
-----------------------------------------------------------------------------
(***************************************************************************)
(* Shutdown, by the monitor thread or by the engine on its way out: the    *)
(* first of them terminates the workers and closes the queues.             *)
(***************************************************************************)
monitor_workers ==
  /\ alive # Rank
  /\ shutdown = "no"
  /\ is_failed' = TRUE
  /\ shutdown' = "terminate"
  /\ UNCHANGED <<rpc, workers, caller, closed, callback>>

\* EngineCore.shutdown, after the engine's loop has ended
engine_shutdown ==
  /\ engine = "dead"
  /\ \/ shutdown = "no" /\ shutdown' = "terminate" /\ UNCHANGED closed
     \/ shutdown # "no" /\ ~closed /\ closed' = TRUE /\ UNCHANGED shutdown
  /\ UNCHANGED <<rpc, workers, caller, is_failed, callback>>

\* _ensure_worker_termination: what is left after the grace period is killed
terminate ==
  /\ shutdown = "terminate"
  /\ alive' = {}
  /\ shutdown' = "close"
  /\ UNCHANGED <<rpc, output, response, caller, is_failed, closed, callback>>

\* Mutant: the queues are not shut down.
close_Open ==
  /\ shutdown = "close"
  /\ shutdown' = "done"
  /\ UNCHANGED closed
  /\ UNCHANGED <<rpc, workers, caller, is_failed, callback>>

\* the queues are shut down, and the monitor tells the engine
close ==
  /\ shutdown = "close"
  /\ shutdown' = "done"
  /\ closed' = TRUE
  /\ UNCHANGED <<rpc, workers, caller, is_failed, callback>>

\* Mutant: the callback is not invoked.
failure_callback_Silent ==
  /\ shutdown = "done" /\ is_failed /\ ~callback
  /\ UNCHANGED callback
  /\ UNCHANGED <<rpc, workers, caller, is_failed, shutdown, closed>>

failure_callback ==
  /\ shutdown = "done" /\ is_failed /\ ~callback
  /\ callback' = TRUE
  /\ UNCHANGED <<rpc, workers, caller, is_failed, shutdown, closed>>
-----------------------------------------------------------------------------
EngineStep ==
  \/ enqueue \/ collect \/ drain \/ get_response \/ result \/ handle_executor_failed
  \/ engine_shutdown

MonitorStep == monitor_workers \/ terminate \/ close \/ failure_callback

Next ==
  \/ EngineStep \/ get_response_fails \/ MonitorStep
  \/ \E kind \in Kinds : collective_rpc(kind)
  \/ \E w \in Rank : worker_busy_loop(w) \/ async_output(w) \/ die(w) \/ exit(w)

\* Threads and processes run.  A dequeue that was cancelled returns; whether and
\* when a deadline passes is open.  Worker methods return.
Fairness ==
  /\ WF_vars(EngineStep)
  /\ WF_vars(closed /\ get_response_fails)
  /\ WF_vars(MonitorStep)
  /\ \A w \in Rank : WF_vars(worker_busy_loop(w)) /\ WF_vars(async_output(w))

Spec == Init /\ [][Next]_vars /\ Fairness
-----------------------------------------------------------------------------
Call == 1 .. Len(call)

\* A call returns the answers to that very call, although answers carry no
\* number: waiting for a later future first reads the answers of the earlier
\* ones, and workers that are not asked do not answer (FutureWrapper.result,
\* worker_busy_loop).  It holds as long as no earlier call ended with answers
\* still to come.
OwnAnswers ==
  \A k \in Call : future[k].ok /\ (\A g \in gave_up : g > k) =>
    \A i \in DOMAIN future[k].answers : future[k].answers[i] = k

\* The engine never stays in a call, with or without a deadline, although workers
\* die while it waits for their answers (monitor_workers, shutdown).
CallsEnd == ~EngineIdle ~> EngineIdle \/ engine = "dead"

\* When a worker dies the engine is told and ends: it does not go on waiting in
\* a call (start_worker_monitor: "invokes the failure callback to inform the
\* engine").
EngineInformed == alive # Rank ~> engine = "dead"
=============================================================================
