------------------------------ MODULE DPWaves ------------------------------
(***************************************************************************)
(* Request waves of a data-parallel deployment of a mixture-of-experts     *)
(* model: DPEngineCoreProc (vllm/v1/engine/core.py), DPCoordinatorProc     *)
(* (vllm/v1/engine/coordinator.py) and DPAsyncMPClient                     *)
(* (vllm/v1/engine/core_client.py).  A forward pass of the model is a      *)
(* collective of all engines.  So either all of them step, with a dummy    *)
(* batch where there is no request, or all of them are idle.  The engines  *)
(* agree to stop with an all-reduce every 32 steps; a wave number counts   *)
(* how often they have.  The coordinator wakes them for a new request.     *)
(*                                                                         *)
(* A message waits in a FIFO from its sender to its receiver; the order of *)
(* messages from different senders is open.  An engine's collectives are   *)
(* steps that all engines take together.  The work of a request is the     *)
(* number of forward passes it needs, and the choice of an engine by load  *)
(* is a free choice.  Scaling the number of engines is left out.           *)
(***************************************************************************)
EXTENDS Integers, Sequences, FiniteSets

CONSTANTS
  dp_size,       \* number of engines
  Client,        \* front-end processes
  MaxCalls,      \* bound: the requests, sent in the order 1, 2, ..., and pauses in all
  MayAbort,      \* the requests whose client may abort them
  SyncInterval,  \* steps between two all-reduces (32 in the code)
  Prompt,        \* do clients handle a FIRST_REQ notice within one wave?
  MaxPasses,     \* bound: forward passes a request may need
  MaxPauses      \* bound: the pause_scheduler calls among them

Engine == 0 .. dp_size - 1
Request == 1 .. MaxCalls
Coordinator == "coordinator"
NoEngine == -1   \* exclude_engine_index is None
NotSent == [client |-> Coordinator, engine |-> NoEngine]

ASSUME WaveAssumption ==
  /\ dp_size \in Nat \ {0} /\ SyncInterval \in Nat \ {0}
  /\ MaxCalls \in Nat /\ MaxPasses \in Nat \ {0} /\ MaxPauses \in Nat
  /\ Prompt \in BOOLEAN /\ Coordinator \notin Client /\ MayAbort \subseteq Request

VARIABLES
  \* engines
  pc,                    \* "input", or the collective an engine is in
  engines_running, current_wave, step_counter, reqs, left,
  pending_pause, ignore_start_dp_wave, paused, idle_callback,
  inbox,                 \* messages to each engine, by sender
  \* coordinator
  wave, running,
  from_engine,           \* messages to the coordinator
  from_client,
  \* clients
  cl_wave, cl_running,
  first_req,             \* FIRST_REQ notices to the client's own stats task
  stats,                 \* messages from the coordinator
  sent,                  \* the client and the engine of each request sent
  finished,              \* requests finished or aborted
  lost_wakeup,           \* a message that was to start an engine did not
  pauses, pause, acks    \* the pause: how many, its phase, who answered

engines == <<pc, engines_running, current_wave, step_counter, reqs, left, pending_pause,
             ignore_start_dp_wave, paused, idle_callback>>
coordinator == <<wave, running>>
clients == <<cl_wave, cl_running, first_req, sent, lost_wakeup>>
pausing == <<pauses, pause, acks>>
vars == <<engines, inbox, coordinator, from_engine, from_client, clients, stats, finished, pausing>>

Init ==
  /\ pc = [e \in Engine |-> "input"]
  /\ engines_running = [e \in Engine |-> FALSE]
  /\ current_wave = [e \in Engine |-> 0]
  /\ step_counter = [e \in Engine |-> 0]
  /\ reqs = [e \in Engine |-> {}]
  /\ left = [r \in Request |-> 0]
  /\ pending_pause = [e \in Engine |-> FALSE]
  /\ ignore_start_dp_wave = [e \in Engine |-> FALSE]
  /\ paused = [e \in Engine |-> FALSE]
  /\ idle_callback = [e \in Engine |-> FALSE]
  /\ inbox = [e \in Engine |-> [s \in Client \cup {Coordinator} |-> <<>>]]
  /\ wave = 0 /\ running = FALSE
  /\ from_engine = [e \in Engine |-> <<>>]
  /\ from_client = [c \in Client |-> <<>>]
  /\ cl_wave = [c \in Client |-> 0]
  /\ cl_running = [c \in Client |-> FALSE]
  /\ first_req = [c \in Client |-> <<>>]
  /\ stats = [c \in Client |-> <<>>]
  /\ lost_wakeup = FALSE
  /\ sent = [r \in Request |-> NotSent]
  /\ finished = {}
  /\ pauses = 0 /\ pause = "none" /\ acks = {}

ToEngine(e, from, m) == [inbox EXCEPT ![e][from] = Append(@, m)]
ToEngines(from, m) ==
  [e \in Engine |-> [inbox[e] EXCEPT ![from] = Append(@, m)]]
-----------------------------------------------------------------------------
(***************************************************************************)
(* The clients.                                                            *)
(***************************************************************************)
add_request_async(c, r, e) ==
  /\ sent[r] = NotSent /\ \A q \in 1 .. r - 1 : sent[q] # NotSent
  /\ r + pauses <= MaxCalls
  /\ sent' = [sent EXCEPT ![r] = [client |-> c, engine |-> e]]
  /\ \E n \in 1 .. MaxPasses : left' = [left EXCEPT ![r] = n]
  /\ inbox' = ToEngine(e, c, [type |-> "ADD", req |-> r, wave |-> cl_wave[c]])
  /\ first_req' = IF cl_running[c] THEN first_req
                  ELSE [first_req EXCEPT ![c] = Append(@, e)]
  /\ UNCHANGED <<pc, engines_running, current_wave, step_counter, reqs, pending_pause,
                 ignore_start_dp_wave, paused, idle_callback, coordinator, from_engine,
                 from_client, cl_wave, cl_running, lost_wakeup, stats, finished, pausing>>

\* the client that sent r gives up on it
abort_request(r) ==
  /\ r \in MayAbort \ finished
  /\ sent[r] # NotSent
  /\ inbox' = ToEngine(sent[r].engine, sent[r].client, [type |-> "ABORT", req |-> r, wave |-> 0])
  /\ finished' = finished \cup {r}
  /\ UNCHANGED <<engines, coordinator, from_engine, from_client, clients, stats, pausing>>

\* run_engine_stats_update_task: all pending updates are drained and only the
\* latest counts.  A notice that is there as well comes first, unless the engines
\* are thought to be running.
update_stats(c) ==
  /\ cl_running[c] \/ first_req[c] = <<>>
  /\ \E n \in DOMAIN stats[c] :
       /\ cl_wave' = [cl_wave EXCEPT ![c] = stats[c][n].wave]
       /\ cl_running' = [cl_running EXCEPT ![c] = stats[c][n].running]
       /\ stats' = [stats EXCEPT ![c] = SubSeq(@, n + 1, Len(@))]
  /\ UNCHANGED <<engines, inbox, coordinator, from_engine, from_client, first_req, sent,
                 lost_wakeup, finished, pausing>>

\* a request was sent while the engines were paused: tell the coordinator
first_request(c) ==
  /\ first_req[c] # <<>>
  /\ first_req' = [first_req EXCEPT ![c] = Tail(@)]
  /\ cl_running' = [cl_running EXCEPT ![c] = TRUE]
  /\ from_client' = [from_client EXCEPT ![c] =
                       Append(@, [target |-> Head(first_req[c]), wave |-> cl_wave[c]])]
  /\ UNCHANGED <<engines, inbox, coordinator, from_engine, cl_wave, sent, lost_wakeup,
                 stats, finished, pausing>>

\* call_utility_async: the call goes to every engine, and all must answer
pause_scheduler_async(c) ==
  /\ pause = "none" /\ pauses < MaxPauses
  /\ \E r \in Request : sent[r] = NotSent /\ r + pauses <= MaxCalls
  /\ pauses' = pauses + 1
  /\ pause' = "pausing" /\ acks' = {}
  /\ inbox' = ToEngines(c, [type |-> "PAUSE", req |-> NoEngine, wave |-> 0])
  /\ UNCHANGED <<engines, coordinator, from_engine, from_client, clients, stats, finished>>

resume_scheduler_async(c) ==
  /\ pause = "pausing" /\ acks = Engine
  /\ pause' = "resuming"
  /\ inbox' = ToEngines(c, [type |-> "RESUME", req |-> NoEngine, wave |-> 0])
  /\ UNCHANGED <<engines, coordinator, from_engine, from_client, clients, stats, finished,
                 pauses, acks>>
-----------------------------------------------------------------------------
(***************************************************************************)
(* The coordinator: process_input_socket.                                  *)
(***************************************************************************)
SendStartWave(w, exclude) ==
  ToEngines(Coordinator, [type |-> "START_DP_WAVE", req |-> exclude, wave |-> w])

\* after a change of the wave state it is published to the front-ends
Publish == stats' = [c \in Client |-> Append(stats[c], [wave |-> wave', running |-> running'])]

\* poller timeout: the state is published anyway
publish_stats(c) ==
  /\ stats[c] = <<>>
  /\ stats' = [stats EXCEPT ![c] = <<[wave |-> wave, running |-> running]>>]
  /\ UNCHANGED <<engines, inbox, coordinator, from_engine, from_client, clients, finished, pausing>>

new_request(c) ==
  /\ from_client[c] # <<>>
  /\ from_client' = [from_client EXCEPT ![c] = Tail(@)]
  /\ LET m == Head(from_client[c])
         exclude == IF m.wave < wave THEN NoEngine ELSE m.target IN
     \/ running /\ UNCHANGED <<coordinator, stats, inbox>>
     \/ /\ ~running
        /\ running' = TRUE
        /\ UNCHANGED wave
        /\ inbox' = SendStartWave(wave, exclude)
        /\ Publish
  /\ UNCHANGED <<engines, from_engine, clients, finished, pausing>>

wave_complete(e) ==
  /\ from_engine[e] # <<>> /\ Head(from_engine[e]).type = "wave_complete"
  /\ from_engine' = [from_engine EXCEPT ![e] = Tail(@)]
  /\ LET w == Head(from_engine[e]).wave IN
     \/ wave > w /\ UNCHANGED <<coordinator, stats>>
     \/ wave <= w /\ wave' = w + 1 /\ running' = FALSE /\ Publish
  /\ UNCHANGED <<engines, inbox, from_client, clients, finished, pausing>>

start_wave(e) ==
  /\ from_engine[e] # <<>> /\ Head(from_engine[e]).type = "start_wave"
  /\ from_engine' = [from_engine EXCEPT ![e] = Tail(@)]
  /\ LET w == Head(from_engine[e]).wave
         starts == w > wave \/ (w = wave /\ ~running) IN
     \/ ~starts /\ UNCHANGED <<coordinator, stats, inbox>>
     \/ /\ starts
        /\ wave' = w /\ running' = TRUE
        /\ inbox' = SendStartWave(w, e)
        /\ Publish
  /\ UNCHANGED <<engines, from_client, clients, finished, pausing>>
-----------------------------------------------------------------------------
(***************************************************************************)
(* The engines.  First the messages (_handle_client_request), which are    *)
(* handled between two steps.                                              *)
(***************************************************************************)
\* scheduler.has_unfinished_requests: nothing counts while paused
Unfinished(e) == ~paused[e] /\ reqs[e] # {}
has_work(e) == engines_running[e] \/ Unfinished(e)

Receive(e, s, type) ==
  /\ pc[e] = "input"
  /\ inbox[e][s] # <<>> /\ Head(inbox[e][s]).type = type
  /\ inbox' = [inbox EXCEPT ![e][s] = Tail(@)]

\* Mutant: the others are not told.
add_request_Silent(e, c) ==
  /\ Receive(e, c, "ADD")
  /\ LET m == Head(inbox[e][c])
         stale == m.wave < current_wave[e] /\ ~engines_running[e] /\ ~paused[e] IN
     /\ reqs' = [reqs EXCEPT ![e] = @ \cup {m.req}]
     /\ current_wave' = IF m.wave > current_wave[e] THEN [current_wave EXCEPT ![e] = m.wave]
                        ELSE current_wave
     /\ \/ ~stale /\ UNCHANGED <<engines_running, from_engine>>
        \* a request for a completed wave: the others must be told
        \/ /\ stale
           /\ engines_running' = [engines_running EXCEPT ![e] = TRUE]
           /\ UNCHANGED from_engine
  /\ UNCHANGED <<pc, step_counter, left, pending_pause, ignore_start_dp_wave, paused,
                 idle_callback, coordinator, from_client, clients, stats, finished, pausing>>

add_request(e, c) ==
  /\ Receive(e, c, "ADD")
  /\ LET m == Head(inbox[e][c])
         stale == m.wave < current_wave[e] /\ ~engines_running[e] /\ ~paused[e] IN
     /\ reqs' = [reqs EXCEPT ![e] = @ \cup {m.req}]
     /\ current_wave' = IF m.wave > current_wave[e] THEN [current_wave EXCEPT ![e] = m.wave]
                        ELSE current_wave
     /\ \/ ~stale /\ UNCHANGED <<engines_running, from_engine>>
        \* a request for a completed wave: the others must be told
        \/ /\ stale
           /\ engines_running' = [engines_running EXCEPT ![e] = TRUE]
           /\ from_engine' = [from_engine EXCEPT ![e] =
                                Append(@, [type |-> "start_wave", wave |-> current_wave[e]])]
  /\ UNCHANGED <<pc, step_counter, left, pending_pause, ignore_start_dp_wave, paused,
                 idle_callback, coordinator, from_client, clients, stats, finished, pausing>>

abort_requests(e, c) ==
  /\ Receive(e, c, "ABORT")
  /\ reqs' = [reqs EXCEPT ![e] = @ \ {Head(inbox[e][c]).req}]
  \* an idle engine, left out of START_DP_WAVE for this request, stays idle
  /\ lost_wakeup' = (lost_wakeup \/ (reqs[e] # {} /\ reqs'[e] = {} /\ ~engines_running[e]))
  /\ UNCHANGED <<pc, engines_running, current_wave, step_counter, left, pending_pause,
                 ignore_start_dp_wave, paused, idle_callback, coordinator, from_engine,
                 from_client, cl_wave, cl_running, first_req, sent, stats, finished,
                 pausing>>

\* Mutant: a wave may start in a pause.
start_dp_wave_Always(e) ==
  /\ Receive(e, Coordinator, "START_DP_WAVE")
  /\ LET m == Head(inbox[e][Coordinator])
         obey == m.req # e /\ m.wave >= current_wave[e] IN
     /\ lost_wakeup' = (lost_wakeup \/ ignore_start_dp_wave[e])
     /\ \/ ~obey /\ UNCHANGED <<current_wave, engines_running>>
        \/ /\ obey
           /\ current_wave' = [current_wave EXCEPT ![e] = m.wave]
           /\ engines_running' = [engines_running EXCEPT ![e] = TRUE]
  /\ UNCHANGED <<pc, step_counter, reqs, left, pending_pause, ignore_start_dp_wave, paused,
                 idle_callback, coordinator, from_engine, from_client, cl_wave, cl_running,
                 first_req, sent, stats, finished, pausing>>

start_dp_wave(e) ==
  /\ Receive(e, Coordinator, "START_DP_WAVE")
  /\ LET m == Head(inbox[e][Coordinator])
         obey == ~ignore_start_dp_wave[e] /\ m.req # e /\ m.wave >= current_wave[e] IN
     /\ lost_wakeup' = (lost_wakeup \/ ignore_start_dp_wave[e])
     /\ \/ ~obey /\ UNCHANGED <<current_wave, engines_running>>
        \/ /\ obey
           /\ current_wave' = [current_wave EXCEPT ![e] = m.wave]
           /\ engines_running' = [engines_running EXCEPT ![e] = TRUE]
  /\ UNCHANGED <<pc, step_counter, reqs, left, pending_pause, ignore_start_dp_wave, paused,
                 idle_callback, coordinator, from_engine, from_client, cl_wave, cl_running,
                 first_req, sent, stats, finished, pausing>>

\* pause_scheduler (mode "keep") and _pause_complete: the engines are started so
\* that all of them reach the all-reduce; the call is answered when they idle
pause_scheduler(e, c) ==
  /\ Receive(e, c, "PAUSE")
  /\ paused' = [paused EXCEPT ![e] = TRUE]
  /\ pending_pause' = [pending_pause EXCEPT ![e] = TRUE]
  /\ engines_running' = [engines_running EXCEPT ![e] = TRUE]
  /\ idle_callback' = [idle_callback EXCEPT ![e] = TRUE]
  /\ UNCHANGED <<pc, current_wave, step_counter, reqs, left, ignore_start_dp_wave, coordinator,
                 from_engine, from_client, clients, stats, finished, pausing>>

\* Mutant: the engine may still run.
notify_idle_state_callbacks_Early(e) ==
  /\ pc[e] = "input" /\ idle_callback[e]
  /\ idle_callback' = [idle_callback EXCEPT ![e] = FALSE]
  /\ acks' = acks \cup {e}
  /\ UNCHANGED <<pc, engines_running, current_wave, step_counter, reqs, left, pending_pause,
                 ignore_start_dp_wave, paused, inbox, coordinator, from_engine, from_client,
                 clients, stats, finished, pauses, pause>>

notify_idle_state_callbacks(e) ==
  /\ pc[e] = "input" /\ ~has_work(e) /\ idle_callback[e]
  /\ idle_callback' = [idle_callback EXCEPT ![e] = FALSE]
  /\ acks' = acks \cup {e}
  /\ UNCHANGED <<pc, engines_running, current_wave, step_counter, reqs, left, pending_pause,
                 ignore_start_dp_wave, paused, inbox, coordinator, from_engine, from_client,
                 clients, stats, finished, pauses, pause>>

\* resume_scheduler, up to its barrier.  Its two early returns are for a pause
\* in flight and for engines that are not paused; ResumeAccepted says that a
\* client that waits for the pause never meets them.
ResumeRefused(e) == pending_pause[e] \/ engines_running[e]

resume_scheduler(e, c) ==
  /\ Receive(e, c, "RESUME")
  /\ ~ResumeRefused(e)
  /\ paused' = [paused EXCEPT ![e] = FALSE]
  /\ ignore_start_dp_wave' = [ignore_start_dp_wave EXCEPT ![e] = FALSE]
  /\ pc' = [pc EXCEPT ![e] = "resume"]
  /\ UNCHANGED <<engines_running, current_wave, step_counter, reqs, left, pending_pause,
                 idle_callback, coordinator, from_engine, from_client, clients, stats, finished,
                 pausing>>
-----------------------------------------------------------------------------
(***************************************************************************)
(* The step (run_busy_loop): an engine with work goes into the forward     *)
(* pass and waits there for the others.                                    *)
(***************************************************************************)
process_engine_step(e) ==
  /\ pc[e] = "input" /\ has_work(e)
  /\ pc' = [pc EXCEPT ![e] = "forward"]
  /\ UNCHANGED <<engines_running, current_wave, step_counter, reqs, left, pending_pause,
                 ignore_start_dp_wave, paused, idle_callback, inbox, coordinator, from_engine,
                 from_client, clients, stats, finished, pausing>>

NextStep(n) == (n + 1) % SyncInterval

\* All engines are in the forward pass: requests advance where there are any,
\* the others run execute_dummy_batch.  Every SyncInterval steps they go on to
\* the all-reduce, otherwise engines_running is TRUE.
forward ==
  /\ \A e \in Engine : pc[e] = "forward"
  /\ LET advanced == (UNION {reqs[e] : e \in {d \in Engine : ~paused[d]}}) \ finished
         done == {r \in advanced : left[r] = 1}
         syncs(e) == NextStep(step_counter[e]) = 0 IN
     /\ left' = [r \in Request |-> IF r \in advanced THEN left[r] - 1 ELSE left[r]]
     /\ finished' = finished \cup done
     /\ reqs' = [e \in Engine |-> reqs[e] \ done]
     /\ step_counter' = [e \in Engine |-> NextStep(step_counter[e])]
     /\ pc' = [e \in Engine |-> IF syncs(e) THEN "sync" ELSE "input"]
     /\ engines_running' = [e \in Engine |-> ~syncs(e) \/ engines_running[e]]
  /\ UNCHANGED <<current_wave, pending_pause, ignore_start_dp_wave, paused, idle_callback,
                 inbox, coordinator, from_engine, from_client, clients, stats, pausing>>

PausePending == {e \in Engine : pending_pause[e]}

\* Mutant: an engine that runs dummy batches has work, too.
GlobalUnfinished_Work ==
  (\E e \in Engine : has_work(e)) \/ Cardinality(PausePending) % dp_size # 0

\* a sum over all engines of unfinished work and pending pauses
GlobalUnfinished ==
  (\E e \in Engine : Unfinished(e)) \/ Cardinality(PausePending) % dp_size # 0

\* Mutant: the wave is announced after its increment.
CompletedWave_Next == current_wave[0] + 1

CompletedWave == current_wave[0]

\* _has_global_unfinished_reqs and the end of the wave.  A wave takes at least
\* SyncInterval forward passes.  A client whose event loop is not stalled for
\* that long (Prompt) has passed its notices on by then.
sync_dp_state ==
  /\ \A e \in Engine : pc[e] = "sync"
  /\ Prompt => \A c \in Client : first_req[c] = <<>>
  /\ LET unfinished == GlobalUnfinished
         consensus == PausePending = Engine IN
     /\ engines_running' = [e \in Engine |-> unfinished]
     /\ ignore_start_dp_wave' = [e \in Engine |-> consensus \/ ignore_start_dp_wave[e]]
     /\ pending_pause' = [e \in Engine |-> pending_pause[e] /\ ~consensus]
     /\ \/ unfinished /\ UNCHANGED <<current_wave, step_counter, from_engine>>
        \/ /\ ~unfinished
           /\ current_wave' = [e \in Engine |-> current_wave[e] + 1]
           /\ step_counter' = [e \in Engine |-> 0]
           /\ from_engine' = [from_engine EXCEPT ![0] =
                                Append(@, [type |-> "wave_complete", wave |-> CompletedWave])]
  /\ pc' = [e \in Engine |-> "input"]
  /\ UNCHANGED <<reqs, left, paused, idle_callback, inbox, coordinator, from_client, clients,
                 stats, finished, pausing>>

\* has_unfinished_dp: the barrier at the end of resume_scheduler.  Then every
\* engine answers, and the call returns.
resume_barrier ==
  /\ \A e \in Engine : pc[e] = "resume"
  /\ engines_running' =
       [e \in Engine |-> engines_running[e] \/ (\E d \in Engine : Unfinished(d))]
  /\ pc' = [e \in Engine |-> "input"]
  /\ pause' = "none"
  /\ UNCHANGED <<current_wave, step_counter, reqs, left, pending_pause, ignore_start_dp_wave,
                 paused, idle_callback, inbox, coordinator, from_engine, from_client, clients,
                 stats, finished, pauses, acks>>
-----------------------------------------------------------------------------
CoordinatorStep ==
  \/ \E c \in Client : new_request(c)
  \/ \E e \in Engine : wave_complete(e) \/ start_wave(e)

EngineStep(e) == process_engine_step(e) \/ notify_idle_state_callbacks(e)

HandleClient(e, c) ==
  \/ add_request(e, c) \/ abort_requests(e, c) \/ pause_scheduler(e, c) \/ resume_scheduler(e, c)

Collective == forward \/ sync_dp_state \/ resume_barrier

Next ==
  \/ \E c \in Client :
       \/ \E r \in Request, e \in Engine : add_request_async(c, r, e)
       \/ first_request(c) \/ update_stats(c) \/ publish_stats(c)
       \/ pause_scheduler_async(c) \/ resume_scheduler_async(c)
  \/ \E r \in Request : abort_request(r)
  \/ CoordinatorStep \/ Collective
  \/ \E e \in Engine :
       \/ EngineStep(e) \/ start_dp_wave(e) \/ \E c \in Client : HandleClient(e, c)

\* Processes run and sockets deliver.  The input queue is drained before every
\* step, so a message that has come is handled although the engine is only
\* between two steps now and then: hence strong fairness.  So it is for a
\* client's notices: updates come 100 ms apart.  Who pauses resumes.
Fairness ==
  /\ WF_vars(CoordinatorStep) /\ WF_vars(Collective)
  /\ \A c \in Client :
       /\ WF_vars(update_stats(c)) /\ SF_vars(first_request(c))
       /\ WF_vars(resume_scheduler_async(c))
  /\ \A e \in Engine :
       /\ WF_vars(EngineStep(e))
       /\ SF_vars(start_dp_wave(e))
       /\ \A c \in Client : SF_vars(HandleClient(e, c))

Spec == Init /\ [][Next]_vars /\ Fairness
-----------------------------------------------------------------------------
\* Types, and the bounds of the counters.
TypeOK ==
  /\ pc \in [Engine -> {"input", "forward", "sync", "resume"}]
  /\ engines_running \in [Engine -> BOOLEAN] /\ current_wave \in [Engine -> Nat]
  /\ step_counter \in [Engine -> 0 .. SyncInterval - 1]
  /\ reqs \in [Engine -> SUBSET Request] /\ left \in [Request -> 0 .. MaxPasses]
  /\ wave \in Nat /\ running \in BOOLEAN
  /\ cl_wave \in [Client -> Nat] /\ cl_running \in [Client -> BOOLEAN]
  /\ finished \subseteq Request /\ pauses \in 0 .. MaxPauses /\ acks \subseteq Engine

\* The engines never wait for each other in different collectives: whenever all
\* of them are in one, it is the same one, and they are at the same step of the
\* same wave (step_counter, run_busy_loop, resume_scheduler).
SameCollective ==
  /\ TypeOK
  /\ (\A e \in Engine : pc[e] # "input") =>
       \A d, e \in Engine : pc[d] = pc[e] /\ step_counter[d] = step_counter[e]

\* Wave numbers only move down the line: no front-end is ahead of the
\* coordinator, and the coordinator is never ahead of every engine.
WavesFollow ==
  /\ \A c \in Client : cl_wave[c] <= wave
  /\ \E e \in Engine : wave <= current_wave[e]

\* A client that resumes once every engine has answered its pause is never
\* refused by one of them, whatever wakes the engines in between (the
\* RuntimeError and the early return of resume_scheduler).
ResumeAccepted ==
  \A e \in Engine, c \in Client :
    inbox[e][c] # <<>> /\ Head(inbox[e][c]).type = "RESUME" => ~ResumeRefused(e)

Unserved ==
  pause # "none" \/ \E r \in Request : sent[r] # NotSent /\ r \notin finished

\* Every request sent is served and every pause and resume is answered by all engines: no
\* engine sits in the forward pass waiting for one that nobody woke, whatever the
\* order in which requests, notices, wave numbers and START_DP_WAVE messages
\* arrive.  Two cases are excepted: an abort that reaches an idle engine right
\* behind its only request, and a START_DP_WAVE that reaches an engine during a
\* pause.
CallsServed == Unserved ~> ~Unserved \/ lost_wakeup

\* When there is nothing left to do the engines stop running dummy batches, all
\* of them (_has_global_unfinished_reqs).
EnginesStop ==
  ~Unserved ~> Unserved \/ lost_wakeup \/ \A e \in Engine : ~has_work(e) /\ pc[e] = "input"
=============================================================================
