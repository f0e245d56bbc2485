----------------------- MODULE MultiprocExecutorProofs -----------------------
(***************************************************************************)
(* For every number of workers, calls and queue slots, with and without    *)
(* asynchronous scheduling, and whatever workers raise or die: a call that *)
(* returns has the answers to that very call, as long as no earlier call   *)
(* was given up.                                                           *)
(***************************************************************************)
EXTENDS MultiprocExecutor, AscendingQueues

(***************************************************************************)
(* The types.                                                              *)
(***************************************************************************)
Answer == [call : Nat, ok : BOOLEAN]
Outcome == [ok : BOOLEAN, done : BOOLEAN, answers : Seq(Nat)]

CallTyped ==
  /\ call \in Seq(Kinds)
  /\ taken \in [Rank -> Nat]
  /\ \A w \in Rank : taken[w] <= Len(call)

\* A worker that has no output thread never queues for it.
AnswersTyped ==
  /\ response \in [Rank -> Seq(Answer)]
  /\ output \in [Rank -> Seq(Answer)]
  /\ use_async_scheduling \/ \A w \in Rank : output[w] = <<>>

CallerTyped ==
  /\ future \in Seq(Outcome) /\ Len(future) = Len(call)
  /\ futures_queue \in Seq(Nat) /\ batch_queue \in Seq(Nat)
  /\ enqueuing \in Kinds \cup {"none"}
  /\ target \in Nat /\ cur \in Nat /\ got \in Seq(Nat)
-----------------------------------------------------------------------------
(***************************************************************************)
(* The invariant.                                                          *)
(***************************************************************************)
\* The futures of the engine: every call that is not done waits in
\* futures_queue, in the order of the calls, or is the one being read.
Waiting == Members(futures_queue) \cup ({cur} \ {0})
Queued ==
  /\ Ascending(futures_queue)
  /\ \A k \in Waiting : k \in Call /\ ~future[k].done
  /\ \A k \in Call : future[k].done \/ k \in Waiting
  /\ \A k \in Members(futures_queue) : cur < k
  /\ target \in Call \cup {0}
  /\ Members(batch_queue) \subseteq Call

\* The answers on the way from a worker: first those in its response queue, then
\* those its output thread has not sent yet.
Numbers(s) == [i \in DOMAIN s |-> s[i].call]
Calls(s) == Members(Numbers(s))
Ordered(s) == Ascending(Numbers(s))
Streams ==
  \A w \in Rank :
    /\ Ordered(response[w]) /\ Ordered(output[w])
    /\ \A a \in Calls(response[w]), b \in Calls(output[w]) : a < b
    /\ \A a \in Calls(response[w]) \cup Calls(output[w]) : a \in 1 .. taken[w]

\* Which calls a worker answers, which of its answers the engine has read, and
\* which it has yet to read.
Asked(k, w) == output_rank_of(k) \in {All, w}
HasRead(k, w) ==
  future[k].done \/ (k = cur /\ output_rank_of(k) = All /\ w < Len(got))
Unread(w) == {k \in 1 .. taken[w] : Asked(k, w) /\ ~HasRead(k, w)}

\* As long as no call was given up, the answers on the way are those to be read.
Accounted ==
  gave_up = {} =>
    \A w \in Rank : Calls(response[w]) \cup Calls(output[w]) = Unread(w)

\* An answer that was read was given: a worker that runs has taken the call.
ReadTaken ==
  gave_up = {} =>
    \A w \in alive, k \in Call : Asked(k, w) /\ HasRead(k, w) => k <= taken[w]

\* The answers read so far for the call that is being read.
Reading ==
  /\ cur = 0 => got = <<>>
  /\ cur # 0 => /\ Len(got) < Answers(cur)
                /\ gave_up = {} => \A i \in DOMAIN got : got[i] = cur

\* Whatever the engine still waits for was called after one that was given up.
GivenUp ==
  /\ gave_up \subseteq Call
  /\ gave_up # {} => \E g \in gave_up : \A k \in Waiting : g < k

\* No call is made with the queues closed as long as a worker can take it.
Stopped ==
  /\ alive \subseteq Rank
  /\ enqueuing # "none" => engine # "dead" /\ target = 0
  /\ shutdown \in {"close", "done"} => alive = {}
  /\ closed /\ engine # "dead" => alive = {}

IInv ==
  /\ CallTyped /\ AnswersTyped /\ CallerTyped
  /\ Queued /\ Streams /\ Accounted /\ ReadTaken /\ Reading /\ GivenUp /\ Stopped
  /\ OwnAnswers
-----------------------------------------------------------------------------
(***************************************************************************)
(* Queues of answers.                                                      *)
(***************************************************************************)
\* What is left of a queue of answers when the oldest one is taken.
LEMMA TakeAnswer ==
  ASSUME NEW s \in Seq(Answer), s # <<>>, Ordered(s)
  PROVE  /\ Head(s) \in Answer /\ Tail(s) \in Seq(Answer)
         /\ Ordered(Tail(s))
         /\ Head(s).call \in Calls(s)
         /\ \A c \in Calls(s) : Head(s).call <= c
         /\ Calls(Tail(s)) = Calls(s) \ {Head(s).call}
<1> DEFINE p == Numbers(s)
           q == Numbers(Tail(s))
<1>1. /\ Len(s) \in Nat \ {0} /\ DOMAIN s = 1 .. Len(s) /\ \A i \in 1 .. Len(s) : s[i] \in Answer
      /\ Head(s) = s[1] /\ Tail(s) \in Seq(Answer)
      /\ DOMAIN Tail(s) = 1 .. Len(s) - 1
      /\ \A i \in 1 .. Len(s) - 1 : Tail(s)[i] = s[i + 1]
  OBVIOUS
<1>2. Head(s) \in Answer
  BY <1>1
<1>3. /\ DOMAIN p = 1 .. Len(s) /\ DOMAIN q = 1 .. Len(s) - 1
      /\ \A i \in 1 .. Len(s) : p[i] \in Nat
      /\ \A i \in 1 .. Len(s) - 1 : q[i] = p[i + 1]
      /\ p[1] = Head(s).call
  BY <1>1 DEF Numbers, Answer
<1>4. /\ Ascending(q) /\ p[1] \in Members(p) /\ p[1] \notin Members(q)
      /\ Members(p) = Members(q) \cup {p[1]} /\ \A k \in Members(q) : p[1] < k
  <2>1. Ascending(p)
    BY DEF Ordered
  <2> HIDE DEF p, q
  <2>2. IsRest(Len(s), p, q)
    BY <1>1, <1>3 DEF IsRest
  <2>3. QED
    BY <2>1, <2>2, WithoutFirst
<1>5. Calls(s) = Members(p) /\ Calls(Tail(s)) = Members(q) /\ (Ordered(Tail(s)) <=> Ascending(q))
  BY DEF Calls, Ordered
<1> HIDE DEF p, q
<1>6. p[1] \in Nat /\ \A k \in Members(q) : k \in Nat
  BY <1>1, <1>3 DEF Members
<1>7. \A k \in Members(p) : p[1] <= k
  BY <1>4, <1>6
<1>8. QED
  BY <1>1, <1>2, <1>3, <1>4, <1>5, <1>7

\* A newer answer at the end of a queue of answers.
LEMMA AddAnswer ==
  ASSUME NEW s \in Seq(Answer), NEW a \in Answer, Ordered(s),
         \A c \in Calls(s) : c < a.call
  PROVE  /\ Append(s, a) \in Seq(Answer)
         /\ Ordered(Append(s, a))
         /\ Calls(Append(s, a)) = Calls(s) \cup {a.call}
<1> DEFINE p == Numbers(s)
           q == Numbers(Append(s, a))
<1>1. /\ Append(s, a) \in Seq(Answer) /\ DOMAIN s = 1 .. Len(s)
      /\ DOMAIN Append(s, a) = 1 .. Len(s) + 1 /\ Len(s) \in Nat
      /\ \A i \in 1 .. Len(s) : Append(s, a)[i] = s[i]
      /\ Append(s, a)[Len(s) + 1] = a
  OBVIOUS
<1>2. /\ DOMAIN p = 1 .. Len(s) /\ DOMAIN q = 1 .. Len(s) + 1
      /\ \A i \in 1 .. Len(s) : q[i] = p[i]
      /\ q[Len(s) + 1] = a.call
  BY <1>1 DEF Numbers
<1>3. a.call \in Nat /\ Ascending(p) /\ \A c \in Members(p) : c < a.call
  BY DEF Answer, Ordered, Calls
<1>4. Ascending(q) /\ Members(q) = Members(p) \cup {a.call}
  <2> HIDE DEF p, q
  <2>1. IsLonger(Len(s), p, q, a.call)
    BY <1>1, <1>2, <1>3 DEF IsLonger
  <2>2. QED
    BY <1>3, <2>1, WithLast
<1>5. QED
  BY <1>1, <1>4 DEF Calls, Ordered
-----------------------------------------------------------------------------
(***************************************************************************)
(* The steps.  Most of them leave the calls and their answers alone.       *)
(***************************************************************************)
Quiet == UNCHANGED <<call, taken, output, response, futures_queue, future, cur, got, gave_up>>

\* The steps that move a call or an answer, and all the others: waiting for room,
\* choosing a future to wait for, dying, shutting down.
LEMMA StepKinds ==
  ASSUME [Next]_vars
  PROVE  \/ enqueue \/ drain \/ get_response \/ get_response_fails
         \/ \E w \in Rank : worker_busy_loop(w)
         \/ \E w \in Rank : async_output(w)
         \/ Quiet
<1>1. CASE collect \/ result \/ handle_executor_failed
  BY <1>1 DEF collect, result, handle_executor_failed, Quiet, rpc, workers
<1>2. CASE engine_shutdown \/ MonitorStep
  BY <1>2 DEF engine_shutdown, MonitorStep, monitor_workers, terminate, close,
              failure_callback, Quiet, rpc, workers, caller
<1>3. CASE \E kind \in Kinds : collective_rpc(kind)
  BY <1>3 DEF collective_rpc, Quiet, rpc, workers
<1>4. CASE \E w \in Rank : die(w) \/ exit(w)
  BY <1>4 DEF die, exit, Quiet, rpc, caller
<1>5. CASE UNCHANGED vars
  BY <1>5 DEF vars, Quiet, rpc, workers, caller
<1>6. QED
  BY <1>1, <1>2, <1>3, <1>4, <1>5 DEF Next, EngineStep

\* The calls and how many of them each worker has taken.
LEMMA CallTypedNext ==
  ASSUME CallTyped, CallerTyped, [Next]_vars
  PROVE  CallTyped'
<1>1. CASE UNCHANGED <<call, taken>>
  BY <1>1 DEF CallTyped
<1>2. CASE enqueue
  <2>1. enqueuing \in Kinds
    BY <1>2 DEF enqueue, CallerTyped
  <2>2. call' = Append(call, enqueuing) /\ taken' = taken
    BY <1>2 DEF enqueue, Rpc!Publish
  <2>3. call' \in Seq(Kinds) /\ Len(call') = Len(call) + 1 /\ Len(call) \in Nat
    BY <2>1, <2>2 DEF CallTyped
  <2>4. QED
    BY <2>2, <2>3 DEF CallTyped
<1>3. ASSUME NEW w \in Rank, worker_busy_loop(w) PROVE CallTyped'
  <2>1. taken[w] < Len(call) /\ taken' = [taken EXCEPT ![w] = @ + 1] /\ call' = call
    BY <1>3 DEF worker_busy_loop, Rpc!Take
  <2>2. Len(call) \in Nat
    BY DEF CallTyped
  <2>3. QED
    BY <2>1, <2>2 DEF CallTyped
<1>4. QED
  BY <1>1, <1>2, <1>3, StepKinds
     DEF drain, get_response, get_response_fails, async_output, Quiet, rpc

\* The answer that a worker gives to the call it takes.
LEMMA Answering ==
  ASSUME CallTyped, AnswersTyped, Streams, NEW w \in Rank, worker_busy_loop(w)
  PROVE  LET k == taken[w] + 1 IN
         /\ k \in Call
         /\ taken' = [taken EXCEPT ![w] = k]
         /\ UNCHANGED <<call, alive, caller, monitor>>
         /\ \/ ~Asked(k, w) /\ UNCHANGED <<output, response>>
            \/ /\ Asked(k, w)
               /\ \E a \in Answer :
                    /\ a.call = k
                    /\ \/ /\ use_async_scheduling
                          /\ output' = [output EXCEPT ![w] = Append(@, a)]
                          /\ UNCHANGED response
                       \/ /\ ~use_async_scheduling
                          /\ response' = [response EXCEPT ![w] = Append(@, a)]
                          /\ UNCHANGED output
<1> DEFINE k == taken[w] + 1
<1>1. taken[w] < Len(call) /\ taken' = [taken EXCEPT ![w] = k]
  BY DEF worker_busy_loop, Rpc!Take
<1>2. taken[w] \in Nat /\ Len(call) \in Nat
  BY DEF CallTyped
<1>3. k \in Nat /\ k \in Call
  BY <1>1, <1>2 DEF Call
<1>4. CASE ~Asked(k, w)
  BY <1>1, <1>3, <1>4, Zenon DEF worker_busy_loop, Asked
<1>5. CASE Asked(k, w)
  <2>1. PICK ok \in BOOLEAN : handle_output(w, [call |-> k, ok |-> ok])
    BY <1>5, Zenon DEF worker_busy_loop, Asked
  <2>2. [call |-> k, ok |-> ok] \in Answer
    BY <1>3 DEF Answer
  <2>3. QED
    BY <1>1, <1>3, <1>5, <2>1, <2>2 DEF worker_busy_loop, handle_output
<1>6. QED
  BY <1>4, <1>5

\* The queues between the workers and the engine.
LEMMA AnswersTypedNext ==
  ASSUME CallTyped, AnswersTyped, Streams, [Next]_vars
  PROVE  AnswersTyped'
<1>1. CASE UNCHANGED <<response, output>>
  BY <1>1 DEF AnswersTyped
<1>2. ASSUME NEW w \in Rank, NEW a \in Answer,
             \/ /\ use_async_scheduling
                /\ output' = [output EXCEPT ![w] = Append(@, a)]
                /\ UNCHANGED response
             \/ /\ ~use_async_scheduling
                /\ response' = [response EXCEPT ![w] = Append(@, a)]
                /\ UNCHANGED output
      PROVE  AnswersTyped'
  <2>1. Append(output[w], a) \in Seq(Answer) /\ Append(response[w], a) \in Seq(Answer)
    BY DEF AnswersTyped
  <2>2. QED
    BY <1>2, <2>1, Zenon DEF AnswersTyped
<1>3. ASSUME NEW w \in Rank, worker_busy_loop(w) PROVE AnswersTyped'
  BY <1>1, <1>2, <1>3, Answering
<1>4. ASSUME NEW w \in Rank, async_output(w) PROVE AnswersTyped'
  <2>1. /\ output[w] # <<>>
        /\ response' = [response EXCEPT ![w] = Append(@, Head(output[w]))]
        /\ output' = [output EXCEPT ![w] = Tail(@)]
    BY <1>4 DEF async_output
  <2>2. response[w] \in Seq(Answer) /\ output[w] \in Seq(Answer)
    BY DEF AnswersTyped
  <2>3. Tail(output[w]) \in Seq(Answer) /\ Append(response[w], Head(output[w])) \in Seq(Answer)
    BY <2>1, <2>2
  <2>4. use_async_scheduling
    BY <2>1 DEF AnswersTyped
  <2>5. QED
    BY <2>1, <2>3, <2>4 DEF AnswersTyped
<1>5. CASE get_response
  <2>1. /\ response[response_mq] # <<>> /\ output' = output
        /\ response' = [response EXCEPT ![response_mq] = Tail(@)]
    BY <1>5 DEF get_response
  <2>2. ASSUME response_mq \in Rank PROVE Tail(response[response_mq]) \in Seq(Answer)
    BY <2>1, <2>2 DEF AnswersTyped
  <2>3. QED
    BY <2>1, <2>2, Zenon DEF AnswersTyped
<1>6. QED
  BY <1>1, <1>3, <1>4, <1>5, StepKinds
     DEF enqueue, drain, get_response_fails, Quiet, workers

\* Where the engine is reading: a worker that is asked and has not been read.
LEMMA NextResponse ==
  ASSUME CallTyped, CallerTyped, Queued, Reading, cur # 0
  PROVE  /\ cur \in Call
         /\ response_mq \in Rank
         /\ Asked(cur, response_mq) /\ ~HasRead(cur, response_mq)
         /\ output_rank_of(cur) = All => response_mq = Len(got)
         /\ output_rank_of(cur) # All =>
              response_mq = output_rank /\ output_rank_of(cur) = output_rank
<1>1. cur \in Call /\ ~future[cur].done
  BY DEF Queued, Waiting
<1>2. Len(got) \in Nat /\ Len(got) < Answers(cur)
  BY DEF Reading, CallerTyped
<1>3. CASE output_rank_of(cur) = All
  <2>1. response_mq = Len(got) /\ Len(got) < world_size
    BY <1>2, <1>3 DEF response_mq, Answers
  <2>2. response_mq \in Rank
    BY <2>1, <1>2, ExecutorAssumption DEF Rank
  <2>3. QED
    BY <1>1, <1>2, <1>3, <2>1, <2>2 DEF Asked, HasRead
<1>4. CASE output_rank_of(cur) # All
  <2>1. response_mq = output_rank /\ output_rank_of(cur) = output_rank
    BY <1>4 DEF response_mq, output_rank_of
  <2>2. QED
    BY <1>1, <1>4, <2>1, ExecutorAssumption DEF Asked, HasRead
<1>5. QED
  BY <1>3, <1>4

\* An outcome that ends the wait is an outcome.
LEMMA Outcomes ==
  /\ none \in Outcome /\ error \in Outcome
  /\ \A s \in Seq(Nat) : success(s) \in Outcome
BY DEF none, error, success, Outcome
-----------------------------------------------------------------------------
(***************************************************************************)
(* The engine: what it waits for.                                          *)
(***************************************************************************)
\* The ways in which get_response can end when it has read answer a.
GotOne(a) ==
  /\ a.ok /\ Len(got) + 1 < Answers(cur)
  /\ got' = Append(got, a.call)
  /\ UNCHANGED <<future, cur, gave_up>>
GotAll(a) ==
  /\ a.ok /\ Len(got) + 1 = Answers(cur)
  /\ EndWait(success(Append(got, a.call)))
  /\ UNCHANGED gave_up
GotFailure(a) ==
  /\ ~a.ok
  /\ EndWait(error)
  /\ gave_up' = IF Len(got) + 1 < Answers(cur) THEN gave_up \cup {cur} ELSE gave_up

\* get_response, as one of these three.
LEMMA Got ==
  ASSUME CallTyped, AnswersTyped, CallerTyped, Queued, Reading, get_response
  PROVE  LET a == Head(response[response_mq]) IN
         /\ cur # 0 /\ response[response_mq] # <<>>
         /\ a \in Answer
         /\ response' = [response EXCEPT ![response_mq] = Tail(@)]
         /\ GotOne(a) \/ GotAll(a) \/ GotFailure(a)
         /\ UNCHANGED <<call, taken, output, alive, futures_queue, batch_queue, enqueuing,
                        target, engine, monitor>>
<1> DEFINE a == Head(response[response_mq])
           answers == Append(got, a.call)
<1>1. cur # 0 /\ response[response_mq] # <<>>
  BY DEF get_response
<1>2. response[response_mq] \in Seq(Answer)
  BY <1>1, NextResponse DEF AnswersTyped
<1>7. a \in Answer
  BY <1>1, <1>2
<1>3. a \in Answer /\ a.call \in Nat
  BY <1>7 DEF Answer
<1>4. Len(answers) = Len(got) + 1
  BY <1>3 DEF CallerTyped
<1>5. GotOne(a) \/ GotAll(a) \/ GotFailure(a)
  BY <1>4 DEF get_response, GotOne, GotAll, GotFailure
<1>6. QED
  BY <1>1, <1>3, <1>5 DEF get_response, rpc

\* FutureWrapper.result never takes a future from an empty queue: as long as the
\* one it is asked for is not done, that one is still in the queue.
LEMMA DrainFinds ==
  ASSUME CallerTyped, Queued, target # 0, cur = 0, ~future[target].done
  PROVE  futures_queue # <<>>
<1>1. target \in Members(futures_queue)
  BY DEF Queued, Waiting
<1>2. QED
  BY <1>1 DEF Members

\* The outcome of the call being read.
LEMMA EndTyped ==
  ASSUME CallerTyped, CallTyped, Queued, cur # 0, NEW o \in Outcome, EndWait(o)
  PROVE  /\ future' \in Seq(Outcome) /\ Len(future') = Len(future)
         /\ cur' = 0 /\ got' = <<>>
         /\ cur \in Call
         /\ future'[cur] = o
         /\ \A k \in Call \ {cur} : future'[k] = future[k]
<1>1. cur \in Call /\ Call = DOMAIN future
  BY DEF Queued, Waiting, CallerTyped, Call
<1>2. QED
  BY <1>1 DEF EndWait, CallerTyped

\* The state of the engine's thread.
LEMMA CallerTypedNext ==
  ASSUME CallTyped, AnswersTyped, CallerTyped, Queued, Reading, [Next]_vars
  PROVE  CallerTyped'
<1>1. CASE UNCHANGED <<future, call, futures_queue, batch_queue, enqueuing, target, cur, got>>
  BY <1>1 DEF CallerTyped
<1>2. ASSUME NEW kind \in Kinds, collective_rpc(kind) PROVE CallerTyped'
  BY <1>2 DEF collective_rpc, CallerTyped, rpc
<1>3. CASE enqueue
  <2> DEFINE k == Len(call) + 1
  <2>1. call' = Append(call, enqueuing) /\ enqueuing' = "none" /\ UNCHANGED <<cur, got>>
    BY <1>3 DEF enqueue
  <2>2. Len(call) \in Nat /\ Len(call') = Len(call) + 1
    BY <2>1 DEF CallTyped
  <2>3. future' \in Seq(Outcome) /\ Len(future') = Len(future) + 1
    <3>1. PICK o \in Outcome : future' = Append(future, o)
      <4>1. <<>> \in Seq(Nat)
        OBVIOUS
      <4>2. CASE closed
        BY <1>3, <4>1, <4>2, Outcomes, Zenon DEF enqueue
      <4>3. CASE ~closed
        BY <1>3, <4>3, Outcomes DEF enqueue
      <4>4. QED
        BY <4>2, <4>3
    <3>2. QED
      BY <3>1 DEF CallerTyped
  <2>4. futures_queue' \in Seq(Nat)
    <3>1. futures_queue' = futures_queue \/ futures_queue' = Append(futures_queue, k)
      BY <1>3 DEF enqueue
    <3>2. futures_queue \in Seq(Nat) /\ k \in Nat
      BY <2>2 DEF CallerTyped
    <3>3. QED
      BY <3>1, <3>2
  <2>5. batch_queue' \in Seq(Nat)
    <3>1. batch_queue' = batch_queue \/ batch_queue' = Append(batch_queue, k)
      BY <1>3 DEF enqueue
    <3>2. batch_queue \in Seq(Nat) /\ k \in Nat
      BY <2>2 DEF CallerTyped
    <3>3. QED
      BY <3>1, <3>2
  <2>6. target' \in Nat
    BY <1>3, <2>2 DEF enqueue, CallerTyped
  <2>7. QED
    BY <2>1, <2>2, <2>3, <2>4, <2>5, <2>6 DEF CallerTyped
<1>4. CASE collect
  <2>1. batch_queue # <<>> /\ batch_queue \in Seq(Nat)
    BY <1>4 DEF collect, CallerTyped
  <2>2. Head(batch_queue) \in Nat /\ Tail(batch_queue) \in Seq(Nat)
    BY <2>1
  <2>3. QED
    BY <1>4, <2>2 DEF collect, CallerTyped, rpc
<1>5. CASE drain
  <2>1. futures_queue # <<>> /\ futures_queue \in Seq(Nat)
    BY <1>5, DrainFinds DEF drain, CallerTyped
  <2>2. Head(futures_queue) \in Nat /\ Tail(futures_queue) \in Seq(Nat)
    BY <2>1
  <2>3. <<>> \in Seq(Nat)
    OBVIOUS
  <2>4. QED
    BY <1>5, <2>2, <2>3 DEF drain, CallerTyped, rpc
<1>6. ASSUME NEW o \in Outcome, EndWait(o), cur # 0,
             UNCHANGED <<call, futures_queue, batch_queue, enqueuing, target>>
      PROVE  CallerTyped'
  <2>1. /\ future' \in Seq(Outcome) /\ Len(future') = Len(future)
        /\ cur' = 0 /\ got' = <<>>
    BY <1>6, EndTyped
  <2>2. <<>> \in Seq(Nat)
    OBVIOUS
  <2>3. QED
    BY <1>6, <2>1, <2>2 DEF CallerTyped
<1>7. CASE get_response
  <2> DEFINE a == Head(response[response_mq])
  <2>1. a.call \in Nat /\ Append(got, a.call) \in Seq(Nat)
    BY <1>7, Got DEF Answer, CallerTyped
  <2>2. CASE GotOne(a)
    BY <1>7, <2>1, <2>2, Got DEF GotOne, CallerTyped
  <2>3. CASE GotAll(a)
    BY <1>6, <1>7, <2>1, <2>3, Got, Outcomes, Zenon DEF GotAll
  <2>4. CASE GotFailure(a)
    BY <1>6, <1>7, <2>4, Got, Outcomes DEF GotFailure
  <2>5. QED
    BY <1>7, <2>2, <2>3, <2>4, Got
<1>8. CASE get_response_fails
  BY <1>6, <1>8, Outcomes DEF get_response_fails, rpc
<1>9. CASE result
  BY <1>9 DEF result, CallerTyped, rpc
<1>10. CASE handle_executor_failed \/ engine_shutdown \/ MonitorStep
            \/ \E w \in Rank : worker_busy_loop(w) \/ async_output(w) \/ die(w) \/ exit(w)
  BY <1>1, <1>10, Zenon DEF handle_executor_failed, engine_shutdown, MonitorStep, monitor_workers,
       terminate, close, failure_callback, worker_busy_loop, async_output, die, exit, rpc, caller
<1>11. CASE UNCHANGED vars
  BY <1>1, <1>11 DEF vars, rpc, caller
<1>12. QED
  BY <1>2, <1>3, <1>4, <1>5, <1>7, <1>8, <1>9, <1>10, <1>11 DEF Next, EngineStep

\* A new call: with the queues open its future waits in futures_queue, with the
\* queues closed it has an outcome without answers.
LEMMA Enqueued ==
  ASSUME CallTyped, CallerTyped, enqueue
  PROVE  LET k == Len(call) + 1 IN
         /\ Call' = Call \cup {k} /\ k \in Nat /\ \A c \in Call : c < k
         /\ \A c \in Call : call'[c] = call[c] /\ future'[c] = future[c]
         /\ taken' = taken /\ UNCHANGED <<output, response, alive, cur, got, gave_up>>
         /\ enqueuing # "none"
         /\ \/ /\ ~closed
               /\ ~future'[k].done /\ ~future'[k].ok
               /\ futures_queue' = Append(futures_queue, k)
               /\ batch_queue' \in {batch_queue, Append(batch_queue, k)}
               /\ target' \in {0, k}
            \/ /\ closed
               /\ future'[k].done /\ future'[k].answers = <<>>
               /\ UNCHANGED <<futures_queue, batch_queue, target>>
<1> DEFINE k == Len(call) + 1
<1>1. /\ call' = Append(call, enqueuing) /\ enqueuing \in Kinds
      /\ taken' = taken /\ UNCHANGED <<output, response, alive, cur, got, gave_up>>
      /\ enqueuing # "none"
  BY DEF enqueue, Rpc!Publish, workers, CallerTyped
<1>2. Len(call) \in Nat /\ Len(call') = k /\ \A c \in 1 .. Len(call) : call'[c] = call[c]
  BY <1>1 DEF CallTyped
<1>3. k \in Nat /\ Call' = Call \cup {k} /\ \A c \in Call : c < k
  BY <1>2 DEF Call
<1>4. \A o \in Outcome : /\ \A c \in Call : Append(future, o)[c] = future[c]
                         /\ Append(future, o)[k] = o
  BY <1>2 DEF CallerTyped, Call
<1>5. CASE closed
  <2>1. PICK o \in {success(<<>>), error} : future' = Append(future, o)
    BY <1>5 DEF enqueue
  <2>2. <<>> \in Seq(Nat)
    OBVIOUS
  <2>6. o.done /\ o.answers = <<>>
    BY <2>1 DEF success, error
  <2>3. o \in Outcome /\ o.done /\ o.answers = <<>>
    BY <2>1, <2>2, <2>6, Outcomes, Zenon
  <2>4. UNCHANGED <<futures_queue, batch_queue, target>>
    BY <1>5 DEF enqueue
  <2>5. QED
    BY <1>1, <1>2, <1>3, <1>4, <1>5, <2>1, <2>3, <2>4, Zenon DEF Call
<1>6. CASE ~closed
  <2>1. /\ future' = Append(future, none) /\ futures_queue' = Append(futures_queue, k)
        /\ batch_queue' \in {batch_queue, Append(batch_queue, k)}
        /\ target' \in {0, k}
    BY <1>6 DEF enqueue
  <2>2. none \in Outcome /\ ~none.done /\ ~none.ok
    BY Outcomes DEF none
  <2>3. QED
    BY <1>1, <1>2, <1>3, <1>4, <1>6, <2>1, <2>2, Zenon DEF Call
<1>7. QED
  BY <1>5, <1>6, Zenon

\* Every unfinished call waits, in order (FutureWrapper, collective_rpc).
LEMMA QueuedNext ==
  ASSUME CallTyped, AnswersTyped, CallerTyped, Queued, Reading, [Next]_vars
  PROVE  Queued'
<1>1. CASE UNCHANGED <<call, future, futures_queue, cur, target, batch_queue>>
  BY <1>1 DEF Queued, Waiting, Call
<1>2. CASE enqueue
  <2> DEFINE k == Len(call) + 1
  <2>1. futures_queue \in Seq(Nat) /\ batch_queue \in Seq(Nat) /\ cur \in Nat
    BY DEF CallerTyped
  <2>2. /\ Call' = Call \cup {k} /\ k \in Nat /\ \A c \in Call : c < k
        /\ \A c \in Call : future'[c] = future[c]
        /\ cur' = cur
    BY <1>2, Enqueued
  <2>3. cur < k /\ \A c \in Members(futures_queue) : c < k
    BY <2>1, <2>2 DEF Queued, Waiting
  <2>4. CASE closed
    <3>1. future'[k].done /\ UNCHANGED <<futures_queue, batch_queue, target>>
      BY <1>2, <2>4, Enqueued
    <3>2. Waiting' = Waiting
      BY <2>2, <3>1 DEF Waiting
    <3>3. QED
      BY <2>2, <3>1, <3>2 DEF Queued
  <2>5. CASE ~closed
    <3>1. /\ ~future'[k].done /\ futures_queue' = Append(futures_queue, k)
          /\ batch_queue' \in {batch_queue, Append(batch_queue, k)} /\ target' \in {0, k}
      BY <1>2, <2>5, Enqueued
    <3>2. Members(futures_queue') = Members(futures_queue) \cup {k} /\ Ascending(futures_queue')
      BY <2>1, <2>2, <2>3, <3>1, AddLast DEF Queued
    <3>3. Members(batch_queue') \subseteq Members(batch_queue) \cup {k}
      BY <2>1, <2>2, <3>1, AddLast, Zenon
    <3>4. Waiting' = Waiting \cup {k}
      BY <2>2, <3>2 DEF Waiting
    <3>5. QED
      BY <2>2, <2>3, <3>1, <3>2, <3>3, <3>4 DEF Queued
  <2>6. QED
    BY <2>4, <2>5
<1>3. CASE collect
  <2>1. batch_queue \in Seq(Nat) /\ batch_queue # <<>>
    BY <1>3 DEF collect, CallerTyped
  <2>2. Head(batch_queue) \in Members(batch_queue)
        /\ Members(Tail(batch_queue)) \subseteq Members(batch_queue)
    BY <2>1 DEF Members
  <2>3. /\ target' = Head(batch_queue) /\ batch_queue' = Tail(batch_queue)
        /\ UNCHANGED <<call, future, futures_queue, cur>>
    BY <1>3 DEF collect, rpc
  <2>4. QED
    BY <2>2, <2>3 DEF Queued, Waiting, Call
<1>4. CASE result
  BY <1>4 DEF result, rpc, Queued, Waiting, Call
<1>5. CASE drain
  <2>1. futures_queue # <<>> /\ futures_queue \in Seq(Nat) /\ Ascending(futures_queue)
    BY <1>5, DrainFinds DEF drain, CallerTyped, Queued
  <2>2. /\ cur = 0 /\ cur' = Head(futures_queue) /\ futures_queue' = Tail(futures_queue)
        /\ UNCHANGED <<call, future, target, batch_queue>>
    BY <1>5 DEF drain, rpc
  <2>3. /\ Ascending(futures_queue')
        /\ Members(futures_queue) = Members(futures_queue') \cup {cur'}
        /\ \A k \in Members(futures_queue') : cur' < k
    BY <2>1, <2>2, TakeFirst
  <2>4. cur' # 0
    BY <2>2, <2>3 DEF Queued, Waiting, Call
  <2>5. Waiting' = Waiting
    BY <2>2, <2>3, <2>4 DEF Waiting
  <2>6. QED
    BY <2>2, <2>3, <2>5 DEF Queued, Call
<1>6. ASSUME NEW o \in Outcome, o.done, EndWait(o), cur # 0,
             UNCHANGED <<call, futures_queue, batch_queue, target>>
      PROVE  Queued'
  <2>1. /\ cur' = 0 /\ cur \in Call /\ future'[cur].done
        /\ \A k \in Call \ {cur} : future'[k] = future[k]
    BY <1>6, EndTyped
  <2>2. cur \in Nat /\ futures_queue \in Seq(Nat)
    BY DEF CallerTyped
  <2>3. \A k \in Members(futures_queue) : k \in Call \ {cur} /\ 0 < k
    BY <2>2 DEF Queued, Waiting, Call
  <2>4. Waiting' = Members(futures_queue) /\ Waiting = Members(futures_queue) \cup {cur}
        /\ Call' = Call
    BY <1>6, <2>1 DEF Waiting, Call
  <2>5. QED
    BY <1>6, <2>1, <2>3, <2>4 DEF Queued
<1>7. error.done /\ \A s \in Seq(Nat) : success(s).done
  BY DEF error, success
<1>8. CASE get_response
  <2> DEFINE a == Head(response[response_mq])
  <2>1. a.call \in Nat /\ Append(got, a.call) \in Seq(Nat)
    BY <1>8, Got DEF Answer, CallerTyped
  <2>2. CASE GotOne(a)
    BY <1>1, <1>8, <2>2, Got DEF GotOne
  <2>3. CASE GotAll(a)
    BY <1>6, <1>7, <1>8, <2>1, <2>3, Got, Outcomes, Zenon DEF GotAll
  <2>4. CASE GotFailure(a)
    BY <1>6, <1>7, <1>8, <2>4, Got, Outcomes DEF GotFailure
  <2>5. QED
    BY <1>8, <2>2, <2>3, <2>4, Got
<1>9. CASE get_response_fails
  BY <1>6, <1>7, <1>9, Outcomes DEF get_response_fails, rpc
<1>10. CASE \E kind \in Kinds : collective_rpc(kind)
  BY <1>1, <1>10 DEF collective_rpc, rpc
<1>11. CASE handle_executor_failed \/ engine_shutdown \/ MonitorStep
            \/ \E w \in Rank : worker_busy_loop(w) \/ async_output(w) \/ die(w) \/ exit(w)
  BY <1>1, <1>11, Zenon DEF handle_executor_failed, engine_shutdown, MonitorStep, monitor_workers,
       terminate, close, failure_callback, worker_busy_loop, async_output, die, exit, rpc, caller
<1>12. CASE UNCHANGED vars
  BY <1>1, <1>12 DEF vars, rpc, caller
<1>13. QED
  BY <1>2, <1>3, <1>4, <1>5, <1>8, <1>9, <1>10, <1>11, <1>12 DEF Next, EngineStep
-----------------------------------------------------------------------------
(***************************************************************************)
(* The answers on their way.                                               *)
(***************************************************************************)
\* The calls whose answers are on the way from w, and what Streams says of w.
Pending(w) == Calls(response[w]) \cup Calls(output[w])
Stream(r, o, n) ==
  /\ Ordered(r) /\ Ordered(o)
  /\ \A a \in Calls(r), b \in Calls(o) : a < b
  /\ \A a \in Calls(r) \cup Calls(o) : a \in 1 .. n

\* Streams, one worker at a time.
LEMMA StreamsAre == Streams <=> \A w \in Rank : Stream(response[w], output[w], taken[w])
BY DEF Streams, Stream

\* The calls that answers belong to are numbers.
LEMMA CallsTyped ==
  ASSUME NEW s \in Seq(Answer)
  PROVE  Calls(s) \subseteq Nat
<1>1. \A i \in DOMAIN s : s[i] \in Answer
  OBVIOUS
<1>2. \A i \in DOMAIN s : s[i].call \in Nat
  BY <1>1 DEF Answer
<1>3. QED
  BY <1>2 DEF Calls, Numbers, Members

\* An empty queue.
LEMMA NoCalls == Ordered(<<>>) /\ Calls(<<>>) = {}
BY DEF Ordered, Calls, Numbers, Members, Ascending

\* What a worker's answer does to the answers on the way.
LEMMA AnswerSent ==
  ASSUME CallTyped, AnswersTyped, Streams, NEW w \in Rank, worker_busy_loop(w)
  PROVE  LET k == taken[w] + 1 IN
         /\ Stream(response'[w], output'[w], k)
         /\ Pending(w)' = Pending(w) \cup (IF Asked(k, w) THEN {k} ELSE {})
         /\ \A v \in Rank \ {w} : response'[v] = response[v] /\ output'[v] = output[v]
<1> DEFINE k == taken[w] + 1
<1>1. /\ Stream(response[w], output[w], taken[w]) /\ taken[w] \in Nat
      /\ response[w] \in Seq(Answer) /\ output[w] \in Seq(Answer)
  BY StreamsAre DEF CallTyped, AnswersTyped
<1>2. \A a \in Calls(response[w]) \cup Calls(output[w]) : a \in 1 .. k /\ a < k
  BY <1>1 DEF Stream
<1>3. CASE ~Asked(k, w)
  <2>1. UNCHANGED <<output, response>>
    BY <1>3, Answering
  <2>2. QED
    BY <1>1, <1>2, <1>3, <2>1 DEF Stream, Pending
<1>4. CASE Asked(k, w)
  <2>1. PICK a \in Answer :
          /\ a.call = k
          /\ \/ /\ use_async_scheduling
                /\ output' = [output EXCEPT ![w] = Append(@, a)]
                /\ UNCHANGED response
             \/ /\ ~use_async_scheduling
                /\ response' = [response EXCEPT ![w] = Append(@, a)]
                /\ UNCHANGED output
    BY <1>4, Answering
  <2>2. CASE use_async_scheduling
    <3>1. /\ output'[w] = Append(output[w], a) /\ response' = response
          /\ \A v \in Rank \ {w} : output'[v] = output[v]
      BY <2>1, <2>2 DEF AnswersTyped
    <3>2. Ordered(output'[w]) /\ Calls(output'[w]) = Calls(output[w]) \cup {k}
      BY <1>1, <1>2, <2>1, <3>1, AddAnswer DEF Stream
    <3>3. Stream(response'[w], output'[w], k)
      BY <1>1, <1>2, <3>1, <3>2 DEF Stream
    <3>4. QED
      BY <1>4, <3>1, <3>2, <3>3 DEF Pending
  <2>3. CASE ~use_async_scheduling
    <3>1. /\ response'[w] = Append(response[w], a) /\ output' = output /\ output[w] = <<>>
          /\ \A v \in Rank \ {w} : response'[v] = response[v]
      BY <2>1, <2>3 DEF AnswersTyped
    <3>2. Ordered(response'[w]) /\ Calls(response'[w]) = Calls(response[w]) \cup {k}
      BY <1>1, <1>2, <2>1, <3>1, AddAnswer DEF Stream
    <3>3. Stream(response'[w], output'[w], k)
      BY <1>1, <1>2, <3>1, <3>2, NoCalls DEF Stream
    <3>4. QED
      BY <1>4, <3>1, <3>2, <3>3 DEF Pending
  <2>4. QED
    BY <2>2, <2>3
<1>5. QED
  BY <1>3, <1>4, Zenon

\* The output thread moves an answer on; the answers on the way are the same.
LEMMA AnswerMoved ==
  ASSUME CallTyped, AnswersTyped, Streams, NEW w \in Rank, async_output(w)
  PROVE  /\ Stream(response'[w], output'[w], taken[w])
         /\ Pending(w)' = Pending(w)
         /\ \A v \in Rank \ {w} : response'[v] = response[v] /\ output'[v] = output[v]
<1> DEFINE a == Head(output[w])
<1>1. /\ Stream(response[w], output[w], taken[w])
      /\ response[w] \in Seq(Answer) /\ output[w] \in Seq(Answer)
  BY StreamsAre DEF AnswersTyped
<1>2. /\ output[w] # <<>>
      /\ response'[w] = Append(response[w], a) /\ output'[w] = Tail(output[w])
      /\ \A v \in Rank \ {w} : response'[v] = response[v] /\ output'[v] = output[v]
  BY DEF async_output, AnswersTyped
<1>3. /\ a \in Answer /\ Ordered(output'[w]) /\ a.call \in Calls(output[w])
      /\ \A c \in Calls(output[w]) : a.call <= c
      /\ Calls(output'[w]) = Calls(output[w]) \ {a.call}
  BY <1>1, <1>2, TakeAnswer DEF Stream
<1> HIDE DEF a
<1>4. Ordered(response'[w]) /\ Calls(response'[w]) = Calls(response[w]) \cup {a.call}
  BY <1>1, <1>2, <1>3, AddAnswer DEF Stream
<1>5. Calls(response[w]) \subseteq Nat /\ Calls(output[w]) \subseteq Nat
  BY <1>1, CallsTyped
<1>6. \A c \in Calls(response'[w]), d \in Calls(output'[w]) : c < d
  BY <1>1, <1>3, <1>4, <1>5 DEF Stream
<1>7. Stream(response'[w], output'[w], taken[w])
  BY <1>1, <1>3, <1>4, <1>6 DEF Stream
<1>8. Pending(w)' = Pending(w)
  BY <1>3, <1>4 DEF Pending
<1>9. QED
  BY <1>2, <1>7, <1>8

\* The engine takes the oldest answer of the worker it reads from.
LEMMA AnswerRead ==
  ASSUME CallTyped, AnswersTyped, CallerTyped, Queued, Reading, Streams, get_response,
         NEW w, w = response_mq, NEW c, c = Head(response[w]).call
  PROVE  /\ Stream(response'[w], output'[w], taken[w])
         /\ c \in Pending(w) /\ c \in 1 .. taken[w]
         /\ \A d \in Pending(w) : c <= d
         /\ Pending(w)' = Pending(w) \ {c}
         /\ \A v \in Rank \ {w} : response'[v] = response[v] /\ output'[v] = output[v]
<1>1. w \in Rank /\ response[w] # <<>> /\ response' = [response EXCEPT ![w] = Tail(@)]
      /\ output' = output
  BY Got, NextResponse
<1>2. /\ Stream(response[w], output[w], taken[w])
      /\ response[w] \in Seq(Answer) /\ output[w] \in Seq(Answer)
  BY <1>1, StreamsAre DEF AnswersTyped
<1>3. /\ response'[w] = Tail(response[w])
      /\ \A v \in Rank \ {w} : response'[v] = response[v] /\ output'[v] = output[v]
  BY <1>1 DEF AnswersTyped
<1>4. /\ Ordered(response'[w]) /\ c \in Calls(response[w])
      /\ \A d \in Calls(response[w]) : c <= d
      /\ Calls(response'[w]) = Calls(response[w]) \ {c}
  BY <1>1, <1>2, <1>3, TakeAnswer DEF Stream
<1>5. Calls(response[w]) \subseteq Nat /\ Calls(output[w]) \subseteq Nat
  BY <1>2, CallsTyped
<1>6. \A d \in Calls(output[w]) : c < d
  BY <1>2, <1>4 DEF Stream
<1>7. /\ c \in Pending(w) /\ c \in 1 .. taken[w] /\ \A d \in Pending(w) : c <= d
  BY <1>2, <1>4, <1>5, <1>6 DEF Pending, Stream
<1>8. Pending(w)' = Pending(w) \ {c}
  BY <1>1, <1>4, <1>5, <1>6 DEF Pending
<1>9. Stream(response'[w], output'[w], taken[w])
  BY <1>1, <1>2, <1>4 DEF Stream
<1>10. QED
  BY <1>3, <1>7, <1>8, <1>9

\* Answers stay in the order of the calls.
LEMMA StreamsNext ==
  ASSUME CallTyped, AnswersTyped, CallerTyped, Queued, Reading, Streams, [Next]_vars
  PROVE  Streams'
<1> DEFINE P(w) == Stream(response[w], output[w], taken[w])
<1>1. \A w \in Rank : P(w)
  BY StreamsAre
<1>2. ASSUME \A w \in Rank : Stream(response'[w], output'[w], taken'[w]) PROVE Streams'
  BY <1>2 DEF Streams, Stream
<1>3. CASE UNCHANGED <<response, output, taken>>
  BY <1>1, <1>2, <1>3
<1>4. ASSUME NEW w \in Rank, worker_busy_loop(w) PROVE Streams'
  <2>1. /\ Stream(response'[w], output'[w], taken[w] + 1)
        /\ \A v \in Rank \ {w} : response'[v] = response[v] /\ output'[v] = output[v]
    BY <1>4, AnswerSent
  <2>2. taken'[w] = taken[w] + 1 /\ \A v \in Rank \ {w} : taken'[v] = taken[v]
    BY <1>4, Answering DEF CallTyped
  <2>3. QED
    BY <1>1, <1>2, <2>1, <2>2
<1>5. ASSUME NEW w \in Rank, async_output(w) PROVE Streams'
  <2>1. taken' = taken
    BY <1>5 DEF async_output, rpc
  <2>2. QED
    BY <1>1, <1>2, <1>5, <2>1, AnswerMoved
<1>6. CASE get_response
  <2>1. response_mq \in Rank /\ taken' = taken
    BY <1>6, Got, NextResponse
  <2>2. PICK w \in Rank : w = response_mq
    BY <2>1
  <2>3. /\ Stream(response'[w], output'[w], taken[w])
        /\ \A v \in Rank \ {w} : response'[v] = response[v] /\ output'[v] = output[v]
    BY <1>6, <2>2, AnswerRead
  <2>4. QED
    BY <1>1, <1>2, <2>1, <2>3
<1>7. CASE enqueue \/ drain \/ get_response_fails
  BY <1>3, <1>7 DEF enqueue, Rpc!Publish, drain, get_response_fails, rpc, workers
<1>8. QED
  BY <1>3, <1>4, <1>5, <1>6, <1>7, StepKinds DEF Quiet

\* As long as no call was given up, the answer that is read is one to the call
\* that is being read: the earlier calls are all done, so theirs are read.
LEMMA RightAnswer ==
  ASSUME IInv, get_response, gave_up = {}, NEW w, w = response_mq
  PROVE  Head(response[w]).call = cur
<1> DEFINE c == Head(response[w]).call
<1>1. CallTyped /\ AnswersTyped /\ CallerTyped /\ Queued /\ Reading /\ Streams /\ Accounted
  BY DEF IInv
<1>2. cur # 0
  BY DEF get_response
<1>3. /\ cur \in Call /\ w \in Rank /\ Asked(cur, w) /\ ~HasRead(cur, w)
  BY <1>1, <1>2, NextResponse
<1>4. /\ c \in Pending(w) /\ c \in 1 .. taken[w] /\ \A d \in Pending(w) : c <= d
  BY <1>1, AnswerRead
<1>5. Pending(w) = Unread(w)
  BY <1>1, <1>3 DEF Accounted, Pending
<1>6. taken[w] \in Nat /\ taken[w] <= Len(call) /\ Len(call) \in Nat /\ cur \in Nat
  BY <1>1, <1>3 DEF CallTyped, CallerTyped
<1> HIDE DEF c
<1>7. ~future[c].done
  BY <1>4, <1>5 DEF Unread, HasRead
<1>8. c \in Call
  BY <1>4, <1>6 DEF Call
<1>9. c \in Members(futures_queue) \/ c = cur
  BY <1>1, <1>7, <1>8 DEF Queued, Waiting
<1>10. ASSUME cur < c PROVE FALSE
  <2>1. cur \in 1 .. taken[w]
    BY <1>3, <1>4, <1>6, <1>10 DEF Call
  <2>2. cur \in Pending(w)
    BY <1>3, <1>5, <2>1 DEF Unread
  <2>3. QED
    BY <1>4, <1>6, <1>10, <2>2
<1>11. QED
  BY <1>1, <1>9, <1>10 DEF Queued, c

\* What a read of the engine changes, as long as no call is given up: one more
\* answer to the call has been read, the one of the worker that was next.
LEMMA OneMoreRead ==
  ASSUME IInv, get_response, gave_up' = {}, NEW w, w = response_mq, NEW c, c = cur,
         NEW v \in Rank, NEW k \in Call, Asked(k, v)
  PROVE  HasRead(k, v)' <=> HasRead(k, v) \/ (k = c /\ v = w)
<1> DEFINE a == Head(response[w])
<1>1. CallTyped /\ AnswersTyped /\ CallerTyped /\ Queued /\ Reading
  BY DEF IInv
<1>2. /\ c # 0 /\ call' = call /\ a \in Answer
      /\ GotOne(a) \/ GotAll(a) \/ GotFailure(a)
  BY <1>1, Got
<1>3. /\ c \in Call /\ w \in Rank
      /\ output_rank_of(c) = All => w = Len(got)
      /\ output_rank_of(c) # All => w = output_rank /\ output_rank_of(c) = output_rank
  BY <1>1, <1>2, NextResponse
<1>4. output_rank_of(k)' = output_rank_of(k)
  BY <1>2 DEF output_rank_of
<1>5. Len(got) \in Nat /\ v \in 0 .. world_size - 1 /\ world_size \in Nat
  BY <1>1, ExecutorAssumption DEF CallerTyped, Rank
<1>6. CASE GotOne(a)
  <2>1. UNCHANGED <<future, cur>> /\ got' = Append(got, a.call) /\ Len(got) + 1 < Answers(c)
    BY <1>6 DEF GotOne
  <2>2. Len(got') = Len(got) + 1
    BY <2>1, <1>1, <1>2 DEF CallerTyped, Answer
  <2>3. output_rank_of(c) = All
    BY <2>1, <1>5 DEF Answers
  <2>4. QED
    BY <1>3, <1>4, <1>5, <2>1, <2>2, <2>3 DEF HasRead
<1>7. ASSUME NEW o \in Outcome, EndWait(o), o.done, Len(got) + 1 = Answers(c)
      PROVE  HasRead(k, v)' <=> HasRead(k, v) \/ (k = c /\ v = w)
  <2>1. /\ future'[c] = o /\ cur' = 0
        /\ \A j \in Call \ {c} : future'[j] = future[j]
    BY <1>1, <1>2, <1>7, EndTyped
  <2>2. 0 \notin Call
    BY DEF Call
  <2>3. CASE k # c
    BY <2>1, <2>2, <2>3 DEF HasRead
  <2>4. CASE k = c
    <3>1. HasRead(k, v)'
      BY <1>7, <2>1, <2>4 DEF HasRead
    <3>2. CASE output_rank_of(c) = All
      <4>1. Len(got) = world_size - 1 /\ w = Len(got)
        BY <1>3, <1>5, <1>7, <3>2 DEF Answers
      <4>2. v < Len(got) \/ v = w
        BY <1>5, <4>1
      <4>3. QED
        BY <2>4, <3>1, <3>2, <4>2 DEF HasRead
    <3>3. CASE output_rank_of(c) # All
      BY <1>3, <2>4, <3>1, <3>3 DEF Asked
    <3>4. QED
      BY <3>2, <3>3
  <2>5. QED
    BY <2>3, <2>4
<1>8. CASE GotAll(a)
  <2>1. Append(got, a.call) \in Seq(Nat)
    BY <1>1, <1>2 DEF CallerTyped, Answer
  <2>2. success(Append(got, a.call)) \in Outcome /\ success(Append(got, a.call)).done
    BY <2>1, Outcomes, Zenon DEF success
  <2>3. QED
    BY <1>7, <1>8, <2>2 DEF GotAll
<1>9. CASE GotFailure(a)
  <2>1. ~(Len(got) + 1 < Answers(c)) /\ EndWait(error)
    BY <1>9 DEF GotFailure
  <2>2. Len(got) < Answers(c) /\ Answers(c) \in Nat
    BY <1>1, <1>2, <1>5 DEF Reading, Answers
  <2>3. Len(got) + 1 = Answers(c)
    BY <1>5, <2>1, <2>2
  <2>4. error \in Outcome /\ error.done
    BY Outcomes DEF error
  <2>5. QED
    BY <1>7, <2>1, <2>3, <2>4
<1>10. QED
  BY <1>2, <1>6, <1>8, <1>9

\* Worker processes only ever stop.
LEMMA AliveShrinks ==
  ASSUME [Next]_vars
  PROVE  alive' \subseteq alive
<1>1. CASE EngineStep \/ get_response_fails \/ \E kind \in Kinds : collective_rpc(kind)
  BY <1>1 DEF EngineStep, enqueue, collect, drain, get_response, result, handle_executor_failed,
              engine_shutdown, get_response_fails, collective_rpc, workers
<1>2. CASE MonitorStep
  BY <1>2 DEF MonitorStep, monitor_workers, terminate, close, failure_callback, workers
<1>3. CASE \E w \in Rank : worker_busy_loop(w) \/ async_output(w) \/ die(w) \/ exit(w)
  BY <1>3, Zenon DEF worker_busy_loop, async_output, die, exit
<1>4. CASE UNCHANGED vars
  BY <1>4 DEF vars, workers
<1>5. QED
  BY <1>1, <1>2, <1>3, <1>4 DEF Next

\* Reading starts with no answers read.
LEMMA NoneRead ==
  ASSUME CallTyped, CallerTyped, Queued, Reading, drain, NEW v \in Rank, NEW k \in Call
  PROVE  HasRead(k, v)' <=> HasRead(k, v)
<1>1. cur = 0 /\ got' = <<>> /\ UNCHANGED <<call, future>>
  BY DEF drain, rpc
<1>2. Len(got') = 0 /\ ~(v < 0)
  BY <1>1, ExecutorAssumption DEF Rank
<1>3. k # 0
  BY DEF Call
<1>4. QED
  BY <1>1, <1>2, <1>3 DEF HasRead, output_rank_of

\* The answers on the way are those to be read.
LEMMA AccountedNext ==
  ASSUME IInv, [Next]_vars
  PROVE  Accounted'
<1> SUFFICES ASSUME gave_up' = {}, NEW v \in Rank
             PROVE  (Pending(v) = Unread(v))'
  BY DEF Accounted, Pending
<1>1. /\ CallTyped /\ AnswersTyped /\ CallerTyped /\ Queued /\ Streams /\ Accounted
      /\ ReadTaken /\ Reading /\ Stopped
  BY DEF IInv
<1>2. ASSUME gave_up = {} PROVE Pending(v) = Unread(v)
  BY <1>1, <1>2 DEF Accounted, Pending
<1>3. 1 .. taken[v] \subseteq Call
  BY <1>1 DEF CallTyped, Call
<1>4. CASE Quiet
  BY <1>2, <1>4 DEF Quiet, Pending, Unread, Asked, HasRead, output_rank_of
<1>5. CASE enqueue
  <2>1. /\ \A k \in Call : call'[k] = call[k] /\ future'[k] = future[k]
        /\ UNCHANGED <<taken, output, response, cur, got, gave_up>>
    BY <1>1, <1>5, Enqueued
  <2>2. \A k \in Call : Asked(k, v)' = Asked(k, v) /\ HasRead(k, v)' = HasRead(k, v)
    BY <2>1 DEF Asked, HasRead, output_rank_of
  <2>3. Unread(v)' = Unread(v)
    BY <1>3, <2>1, <2>2 DEF Unread
  <2>4. QED
    BY <1>2, <2>1, <2>3 DEF Pending
<1>6. CASE drain
  <2>1. UNCHANGED <<call, taken, output, response, gave_up>>
    BY <1>6 DEF drain, rpc, workers
  <2>2. \A k \in Call : Asked(k, v)' = Asked(k, v) /\ (HasRead(k, v)' <=> HasRead(k, v))
    BY <1>1, <1>6, <2>1, NoneRead DEF Asked, output_rank_of
  <2>3. Unread(v)' = Unread(v)
    BY <1>3, <2>1, <2>2 DEF Unread
  <2>4. QED
    BY <1>2, <2>1, <2>3 DEF Pending
<1>7. CASE get_response
  <2>1. PICK w \in Rank : w = response_mq
    BY <1>1, <1>7, Got, NextResponse
  <2>2. PICK c \in Nat : c = cur
    BY <1>1 DEF CallerTyped
  <2>3. call' = call /\ taken' = taken /\ gave_up = {}
    BY <1>1, <1>7, Got DEF GotOne, GotAll, GotFailure
  <2>4. Head(response[w]).call = c
    BY <1>7, <2>1, <2>2, <2>3, RightAnswer
  <2>5. /\ Pending(w)' = Pending(w) \ {c} /\ c \in Pending(w)
        /\ \A u \in Rank \ {w} : Pending(u)' = Pending(u)
    <3>1. /\ c \in Pending(w) /\ Pending(w)' = Pending(w) \ {c}
          /\ \A u \in Rank \ {w} : response'[u] = response[u] /\ output'[u] = output[u]
      BY <1>1, <1>7, <2>1, <2>4, AnswerRead
    <3>2. QED
      BY <3>1 DEF Pending
  <2>6. \A k \in Call : /\ Asked(k, v)' = Asked(k, v)
                        /\ Asked(k, v) => (HasRead(k, v)' <=> HasRead(k, v) \/ (k = c /\ v = w))
    BY <1>7, <2>1, <2>2, <2>3, OneMoreRead DEF Asked, output_rank_of
  <2>7. Unread(v)' = IF v = w THEN Unread(v) \ {c} ELSE Unread(v)
    BY <1>3, <2>3, <2>6 DEF Unread
  <2>8. QED
    BY <1>2, <2>3, <2>5, <2>7
<1>8. CASE get_response_fails
  BY <1>8 DEF get_response_fails
<1>9. ASSUME NEW w \in Rank, worker_busy_loop(w) PROVE (Pending(v) = Unread(v))'
  <2> DEFINE k == taken[w] + 1
  <2>1. /\ k \in Call /\ taken' = [taken EXCEPT ![w] = k]
        /\ UNCHANGED <<call, future, cur, got, gave_up>>
    BY <1>1, <1>9, Answering DEF caller
  <2>2. /\ taken'[w] = k /\ \A u \in Rank \ {w} : taken'[u] = taken[u]
        /\ taken[w] \in Nat
    BY <1>1, <2>1 DEF CallTyped
  <2>3. /\ Pending(w)' = Pending(w) \cup (IF Asked(k, w) THEN {k} ELSE {})
        /\ \A u \in Rank \ {w} : response'[u] = response[u] /\ output'[u] = output[u]
    BY <1>1, <1>9, AnswerSent, Zenon
  <2>4. Asked(k, w) => ~HasRead(k, w)
    <3>1. w \in alive
      BY <1>9 DEF worker_busy_loop
    <3>2. ~(k <= taken[w])
      BY <2>2
    <3>3. QED
      BY <1>1, <2>1, <3>1, <3>2 DEF ReadTaken
  <2>5. \A j \in Call, u \in Rank : Asked(j, u)' = Asked(j, u) /\ HasRead(j, u)' = HasRead(j, u)
    BY <2>1 DEF Asked, HasRead, output_rank_of
  <2>6. CASE v = w
    <3>1. 1 .. taken'[w] = 1 .. taken[w] \cup {k}
      BY <2>2
    <3>2. Unread(v)' = Unread(v) \cup (IF Asked(k, w) THEN {k} ELSE {})
      BY <1>3, <2>1, <2>4, <2>5, <2>6, <3>1 DEF Unread
    <3>3. QED
      BY <1>2, <2>1, <2>3, <2>6, <3>2
  <2>7. CASE v # w
    <3>1. Unread(v)' = Unread(v)
      BY <1>3, <2>2, <2>5, <2>7 DEF Unread
    <3>2. QED
      BY <1>2, <2>1, <2>3, <2>7, <3>1 DEF Pending
  <2>8. QED
    BY <2>6, <2>7
<1>10. ASSUME NEW w \in Rank, async_output(w) PROVE (Pending(v) = Unread(v))'
  <2>1. UNCHANGED <<call, taken, future, cur, got, gave_up>>
    BY <1>10 DEF async_output, rpc, caller
  <2>2. Unread(v)' = Unread(v)
    BY <2>1 DEF Unread, Asked, HasRead, output_rank_of
  <2>3. Pending(v)' = Pending(v)
    BY <1>1, <1>10, AnswerMoved DEF Pending
  <2>4. QED
    BY <1>2, <2>1, <2>2, <2>3
<1>11. QED
  BY <1>4, <1>5, <1>6, <1>7, <1>8, <1>9, <1>10, StepKinds

\* What was read was given.
LEMMA ReadTakenNext ==
  ASSUME IInv, [Next]_vars
  PROVE  ReadTaken'
<1> SUFFICES ASSUME gave_up' = {}, NEW v \in alive', NEW k \in Call',
                    Asked(k, v)', HasRead(k, v)'
             PROVE  k <= taken'[v]
  BY DEF ReadTaken
<1>1. /\ CallTyped /\ AnswersTyped /\ CallerTyped /\ Queued /\ Streams
      /\ ReadTaken /\ Reading /\ Stopped
  BY DEF IInv
<1>2. v \in alive /\ v \in Rank
  BY <1>1, AliveShrinks DEF Stopped
<1>3. ASSUME gave_up = {}, k \in Call, Asked(k, v), HasRead(k, v) PROVE k <= taken[v]
  BY <1>1, <1>2, <1>3 DEF ReadTaken
<1>4. CASE Quiet
  BY <1>3, <1>4 DEF Quiet, Call, Asked, HasRead, output_rank_of
<1>5. CASE enqueue
  <2> DEFINE n == Len(call) + 1
  <2>1. /\ Call' = Call \cup {n} /\ \A c \in Call : c < n
        /\ \A c \in Call : call'[c] = call[c] /\ future'[c] = future[c]
        /\ UNCHANGED <<taken, cur, got, gave_up>>
        /\ enqueuing # "none"
        /\ closed \/ ~future'[n].done
    BY <1>1, <1>5, Enqueued
  <2>2. CASE k \in Call
    BY <1>3, <2>1, <2>2 DEF Asked, HasRead, output_rank_of
  <2>3. CASE k = n
    <3>1. ~closed
      BY <1>1, <1>2, <2>1 DEF Stopped
    <3>2. k # cur
      BY <1>1, <2>1, <2>3 DEF Queued, Waiting, CallTyped
    <3>3. QED
      BY <2>1, <2>3, <3>1, <3>2 DEF HasRead
  <2>4. QED
    BY <2>1, <2>2, <2>3
<1>6. CASE drain
  <2>1. UNCHANGED <<call, taken, gave_up>>
    BY <1>6 DEF drain, rpc, workers
  <2>2. k \in Call /\ Asked(k, v)
    BY <2>1 DEF Call, Asked, output_rank_of
  <2>3. QED
    BY <1>1, <1>2, <1>3, <1>6, <2>1, <2>2, NoneRead
<1>7. CASE get_response
  <2>1. PICK w \in Rank : w = response_mq
    BY <1>1, <1>7, Got, NextResponse
  <2>2. PICK c \in Nat : c = cur
    BY <1>1 DEF CallerTyped
  <2>3. call' = call /\ taken' = taken /\ gave_up = {}
    BY <1>1, <1>7, Got DEF GotOne, GotAll, GotFailure
  <2>4. Head(response[w]).call = c
    BY <1>7, <2>1, <2>2, <2>3, RightAnswer
  <2>5. c \in 1 .. taken[w]
    BY <1>1, <1>7, <2>1, <2>4, AnswerRead
  <2>6. k \in Call /\ Asked(k, v)
    BY <2>3 DEF Call, Asked, output_rank_of
  <2>7. HasRead(k, v) \/ (k = c /\ v = w)
    BY <1>2, <1>7, <2>1, <2>2, <2>6, OneMoreRead
  <2>8. QED
    BY <1>3, <2>3, <2>5, <2>6, <2>7
<1>8. CASE get_response_fails
  BY <1>8 DEF get_response_fails
<1>9. ASSUME NEW w \in Rank, worker_busy_loop(w) PROVE k <= taken'[v]
  <2>1. /\ taken' = [taken EXCEPT ![w] = taken[w] + 1]
        /\ UNCHANGED <<call, future, cur, got, gave_up>>
    BY <1>1, <1>9, Answering DEF caller
  <2>2. k \in Call /\ Asked(k, v) /\ HasRead(k, v)
    BY <2>1 DEF Call, Asked, HasRead, output_rank_of
  <2>3. k <= taken[v]
    BY <1>3, <2>1, <2>2
  <2>4. taken[v] \in Nat /\ taken'[v] \in {taken[v], taken[v] + 1} /\ k \in Nat
    BY <1>1, <1>2, <2>1, <2>2 DEF CallTyped, Call
  <2>5. QED
    BY <2>3, <2>4
<1>10. ASSUME NEW w \in Rank, async_output(w) PROVE k <= taken'[v]
  <2>1. UNCHANGED <<call, taken, future, cur, got, gave_up>>
    BY <1>10 DEF async_output, rpc, caller
  <2>2. QED
    BY <1>3, <2>1 DEF Call, Asked, HasRead, output_rank_of
<1>11. QED
  BY <1>4, <1>5, <1>6, <1>7, <1>8, <1>9, <1>10, StepKinds

\* The answers read so far are answers to the call being read.
LEMMA ReadingNext ==
  ASSUME IInv, [Next]_vars
  PROVE  Reading'
<1>1. CallTyped /\ AnswersTyped /\ CallerTyped /\ Queued /\ Reading
  BY DEF IInv
<1>2. CASE UNCHANGED <<call, cur, got, gave_up>>
  BY <1>1, <1>2 DEF Reading, Answers, output_rank_of
<1>3. CASE enqueue
  <2>1. /\ \A c \in Call : call'[c] = call[c]
        /\ UNCHANGED <<cur, got, gave_up>>
    BY <1>1, <1>3, Enqueued
  <2>2. cur # 0 => Answers(cur)' = Answers(cur)
    BY <1>1, <2>1 DEF Answers, output_rank_of, Queued, Waiting
  <2>3. QED
    BY <1>1, <2>1, <2>2 DEF Reading
<1>4. CASE drain
  <2>1. got' = <<>>
    BY <1>4 DEF drain
  <2>2. 0 < Answers(cur)'
    BY ExecutorAssumption DEF Answers
  <2>3. QED
    BY <2>1, <2>2 DEF Reading
<1>5. ASSUME NEW o, EndWait(o) PROVE Reading'
  BY <1>5 DEF EndWait, Reading
<1>6. CASE get_response
  <2> DEFINE a == Head(response[response_mq])
  <2>1. /\ cur # 0 /\ a.call \in Nat /\ call' = call
        /\ GotOne(a) \/ GotAll(a) \/ GotFailure(a)
    BY <1>1, <1>6, Got DEF Answer
  <2>2. CASE GotOne(a)
    <3>1. /\ got' = Append(got, a.call) /\ Len(got) + 1 < Answers(cur)
          /\ UNCHANGED <<cur, gave_up>>
      BY <2>2 DEF GotOne
    <3>2. /\ Len(got') = Len(got) + 1 /\ DOMAIN got' = DOMAIN got \cup {Len(got) + 1}
          /\ \A i \in DOMAIN got : got'[i] = got[i]
          /\ got'[Len(got) + 1] = a.call
      BY <1>1, <2>1, <3>1 DEF CallerTyped
    <3>3. gave_up = {} => a.call = cur
      BY <1>6, RightAnswer
    <3>4. Answers(cur)' = Answers(cur)
      BY <2>1, <3>1 DEF Answers, output_rank_of
    <3>5. QED
      BY <1>1, <2>1, <3>1, <3>2, <3>3, <3>4 DEF Reading
  <2>3. CASE GotAll(a) \/ GotFailure(a)
    BY <1>5, <2>3 DEF GotAll, GotFailure
  <2>4. QED
    BY <2>1, <2>2, <2>3
<1>7. CASE get_response_fails
  BY <1>5, <1>7 DEF get_response_fails
<1>8. CASE \E w \in Rank : worker_busy_loop(w) \/ async_output(w)
  BY <1>2, <1>8, Zenon DEF worker_busy_loop, async_output, rpc, caller
<1>9. QED
  BY <1>2, <1>3, <1>4, <1>6, <1>7, <1>8, StepKinds DEF Quiet

\* What the engine still waits for comes after a call that was given up.
LEMMA GivenUpNext ==
  ASSUME IInv, [Next]_vars
  PROVE  GivenUp'
<1>1. /\ CallTyped /\ AnswersTyped /\ CallerTyped /\ Queued /\ Reading /\ GivenUp
      /\ Queued' /\ CallTyped'
  BY QueuedNext, CallTypedNext DEF IInv
<1>2. CASE UNCHANGED <<call, gave_up>> /\ Waiting' \subseteq Waiting
  BY <1>1, <1>2 DEF GivenUp, Call
<1>3. CASE enqueue
  <2> DEFINE n == Len(call) + 1
  <2>1. /\ Call' = Call \cup {n} /\ \A c \in Call : c < n
        /\ UNCHANGED <<cur, gave_up>>
        /\ futures_queue' \in {futures_queue, Append(futures_queue, n)} /\ n \in Nat
    BY <1>1, <1>3, Enqueued
  <2>2. Members(futures_queue') \subseteq Members(futures_queue) \cup {n}
    <3>1. Members(Append(futures_queue, n)) = Members(futures_queue) \cup {n}
      BY <1>1, <2>1, AddLast DEF CallerTyped
    <3>2. QED
      BY <2>1, <3>1, Zenon
  <2>3. Waiting' \subseteq Waiting \cup {n}
    BY <2>1, <2>2 DEF Waiting
  <2>4. QED
    BY <1>1, <2>1, <2>3 DEF GivenUp
<1>4. CASE drain
  <2>1. /\ futures_queue # <<>> /\ cur' = Head(futures_queue)
        /\ futures_queue' = Tail(futures_queue) /\ UNCHANGED <<call, gave_up>>
    BY <1>1, <1>4, DrainFinds DEF drain, rpc
  <2>2. Members(futures_queue) = Members(futures_queue') \cup {cur'}
    BY <1>1, <2>1, TakeFirst DEF CallerTyped, Queued
  <2>3. Waiting' \subseteq Waiting
    BY <2>2 DEF Waiting
  <2>4. QED
    BY <1>2, <2>1, <2>3
<1>5. ASSUME NEW o, EndWait(o), cur # 0, UNCHANGED <<call, futures_queue>>,
             gave_up' = gave_up \/ gave_up' = gave_up \cup {cur}
      PROVE  GivenUp'
  <2>1. /\ Waiting' = Members(futures_queue) /\ Waiting' \subseteq Waiting
        /\ cur \in Call
    BY <1>1, <1>5 DEF Waiting, EndWait, Queued
  <2>2. CASE gave_up' = gave_up
    BY <1>2, <1>5, <2>1, <2>2
  <2>3. CASE gave_up' = gave_up \cup {cur}
    <3>1. \A k \in Waiting' : cur < k
      BY <1>1, <2>1 DEF Queued
    <3>2. cur \in gave_up' /\ gave_up' \subseteq Call'
      BY <1>1, <1>5, <2>1, <2>3 DEF GivenUp, Call
    <3>3. QED
      BY <3>1, <3>2 DEF GivenUp
  <2>4. QED
    BY <1>5, <2>2, <2>3
<1>6. CASE get_response
  <2> DEFINE a == Head(response[response_mq])
  <2>1. /\ cur # 0 /\ UNCHANGED <<call, futures_queue>>
        /\ GotOne(a) \/ GotAll(a) \/ GotFailure(a)
    BY <1>1, <1>6, Got
  <2>2. CASE GotOne(a)
    BY <1>2, <2>1, <2>2 DEF GotOne, Waiting
  <2>3. CASE GotAll(a)
    BY <1>5, <2>1, <2>3 DEF GotAll
  <2>4. CASE GotFailure(a)
    BY <1>5, <2>1, <2>4 DEF GotFailure
  <2>5. QED
    BY <2>1, <2>2, <2>3, <2>4
<1>7. CASE get_response_fails
  BY <1>5, <1>7 DEF get_response_fails, rpc
<1>8. CASE (\E w \in Rank : worker_busy_loop(w) \/ async_output(w)) \/ Quiet
  BY <1>2, <1>8, Zenon DEF worker_busy_loop, async_output, Quiet, Waiting, rpc, caller
<1>9. QED
  BY <1>3, <1>4, <1>6, <1>7, <1>8, StepKinds

\* The queues are closed after the workers have stopped, or by an engine that
\* has ended and makes no more calls (MultiprocExecutor.shutdown).
LEMMA StoppedNext ==
  ASSUME Stopped, [Next]_vars
  PROVE  Stopped'
<1>1. alive' \subseteq alive /\ alive \subseteq Rank
  BY AliveShrinks DEF Stopped
<1>2. CASE UNCHANGED <<engine, enqueuing, target, shutdown, closed>>
  BY <1>1, <1>2 DEF Stopped
<1>3. ASSUME NEW kind \in Kinds, collective_rpc(kind) PROVE Stopped'
  BY <1>3 DEF collective_rpc, EngineIdle, Raise, Stopped, monitor, workers
<1>4. CASE enqueue
  <2>1. enqueuing' = "none" /\ enqueuing # "none" /\ UNCHANGED <<alive, shutdown, closed>>
    BY <1>4 DEF enqueue, monitor, workers
  <2>2. engine # "dead"
    BY <2>1 DEF Stopped
  <2>3. QED
    BY <2>1, <2>2 DEF Stopped
<1>5. CASE result
  <2>1. /\ UNCHANGED <<alive, shutdown, closed, enqueuing>>
        /\ target # 0 /\ target' = 0
        /\ engine' = engine \/ engine' = "dead"
    BY <1>5 DEF result, Raise, monitor, workers
  <2>2. QED
    BY <2>1 DEF Stopped
<1>6. CASE handle_executor_failed
  BY <1>6 DEF handle_executor_failed, EngineIdle, Stopped, monitor, workers
<1>7. CASE engine_shutdown
  BY <1>7 DEF engine_shutdown, Stopped, workers, caller
<1>8. CASE monitor_workers \/ failure_callback
  BY <1>1, <1>8 DEF monitor_workers, failure_callback, Stopped, workers, caller
<1>9. CASE terminate \/ close
  BY <1>9 DEF terminate, close, Stopped, workers, caller
<1>13. CASE collect
  BY <1>13 DEF collect, EngineIdle, Stopped, monitor, workers
<1>10. CASE drain \/ get_response \/ get_response_fails
            \/ \E w \in Rank : worker_busy_loop(w) \/ async_output(w) \/ die(w) \/ exit(w)
  BY <1>2, <1>10, Zenon DEF drain, get_response, get_response_fails, worker_busy_loop,
       async_output, die, exit, monitor, caller
<1>11. CASE UNCHANGED vars
  BY <1>2, <1>11 DEF vars, monitor, caller
<1>12. QED
  BY <1>3, <1>4, <1>5, <1>6, <1>7, <1>8, <1>9, <1>10, <1>11, <1>13 DEF Next, EngineStep,
        MonitorStep

\* Outcomes stay, and a new one has the answers to its own call or none.
LEMMA OwnAnswersNext ==
  ASSUME IInv, [Next]_vars
  PROVE  OwnAnswers'
<1>1. /\ CallTyped /\ AnswersTyped /\ CallerTyped /\ Queued /\ Reading /\ GivenUp
      /\ OwnAnswers
  BY DEF IInv
<1>2. CASE UNCHANGED <<call, future, gave_up>>
  BY <1>1, <1>2 DEF OwnAnswers, Call
<1>3. CASE enqueue
  <2> DEFINE n == Len(call) + 1
  <2>1. /\ Call' = Call \cup {n} /\ \A c \in Call : future'[c] = future[c]
        /\ UNCHANGED gave_up
        /\ ~future'[n].ok \/ future'[n].answers = <<>>
    BY <1>1, <1>3, Enqueued
  <2>2. QED
    BY <1>1, <2>1 DEF OwnAnswers
<1>4. ASSUME NEW o \in Outcome, EndWait(o), cur # 0, UNCHANGED call, gave_up \subseteq gave_up',
             o.ok /\ gave_up = {} => \A i \in DOMAIN o.answers : o.answers[i] = cur
      PROVE  OwnAnswers'
  <2> SUFFICES ASSUME NEW k \in Call, future'[k].ok, \A g \in gave_up' : g > k
               PROVE  \A i \in DOMAIN future'[k].answers : future'[k].answers[i] = k
    BY <1>4 DEF OwnAnswers, Call
  <2>1. /\ future'[cur] = o /\ cur \in Call
        /\ \A j \in Call \ {cur} : future'[j] = future[j]
    BY <1>1, <1>4, EndTyped
  <2>2. \A g \in gave_up : g > k
    BY <1>4
  <2>3. CASE k # cur
    BY <1>1, <2>1, <2>2, <2>3 DEF OwnAnswers
  <2>4. CASE k = cur
    <3>1. gave_up = {}
      <4>1. ASSUME NEW g \in gave_up, \A j \in Waiting : g < j PROVE FALSE
        <5>1. cur \in Waiting
          BY <1>4 DEF Waiting
        <5>2. g < k /\ g > k
          BY <2>2, <2>4, <4>1, <5>1
        <5>3. g \in Nat /\ k \in Nat
          BY <1>1 DEF GivenUp, Call
        <5>4. QED
          BY <5>2, <5>3
      <4>2. QED
        BY <1>1, <4>1 DEF GivenUp
    <3>2. QED
      BY <1>4, <2>1, <2>4, <3>1
  <2>5. QED
    BY <2>3, <2>4
<1>5. error \in Outcome /\ ~error.ok
  BY Outcomes DEF error
<1>6. CASE get_response
  <2> DEFINE a == Head(response[response_mq])
             answers == Append(got, a.call)
  <2>1. /\ cur # 0 /\ UNCHANGED call /\ a.call \in Nat
        /\ GotOne(a) \/ GotAll(a) \/ GotFailure(a)
    BY <1>1, <1>6, Got DEF Answer
  <2>2. CASE GotOne(a)
    BY <1>2, <2>1, <2>2 DEF GotOne
  <2>3. CASE GotAll(a)
    <3>1. EndWait(success(answers)) /\ gave_up' = gave_up
      BY <2>3 DEF GotAll
    <3>2. gave_up = {} => a.call = cur
      BY <1>6, RightAnswer
    <3>3. /\ answers \in Seq(Nat) /\ DOMAIN answers = DOMAIN got \cup {Len(got) + 1}
          /\ \A i \in DOMAIN got : answers[i] = got[i]
          /\ answers[Len(got) + 1] = a.call
      BY <1>1, <2>1 DEF CallerTyped
    <3> HIDE DEF answers, a
    <3>4. gave_up = {} => \A i \in DOMAIN answers : answers[i] = cur
      BY <1>1, <2>1, <3>2, <3>3 DEF Reading
    <3>5. success(answers) \in Outcome /\ success(answers).answers = answers
      BY <3>3, Outcomes DEF success
    <3>6. QED
      BY <1>4, <2>1, <3>1, <3>4, <3>5
  <2>4. CASE GotFailure(a)
    <3>1. EndWait(error) /\ gave_up \subseteq gave_up'
      BY <2>4 DEF GotFailure
    <3>2. QED
      BY <1>4, <1>5, <2>1, <3>1
  <2>5. QED
    BY <2>1, <2>2, <2>3, <2>4
<1>7. CASE get_response_fails
  BY <1>4, <1>5, <1>7, Zenon DEF get_response_fails, rpc
<1>8. CASE drain \/ Quiet \/ \E w \in Rank : worker_busy_loop(w) \/ async_output(w)
  BY <1>2, <1>8, Zenon DEF drain, worker_busy_loop, async_output, Quiet, rpc, caller
<1>9. QED
  BY <1>3, <1>6, <1>7, <1>8, StepKinds
-----------------------------------------------------------------------------
(***************************************************************************)
(* The theorems.                                                           *)
(***************************************************************************)
\* The invariant holds when the executor has started.
LEMMA IInvInit == Init => IInv
<1> SUFFICES ASSUME Init PROVE IInv
  OBVIOUS
<1> USE DEF Init
<1>1. CallTyped
  BY ExecutorAssumption DEF CallTyped
<1>2. AnswersTyped
  BY DEF AnswersTyped
<1>3. CallerTyped
  BY DEF CallerTyped
<1>4. Call = {} /\ Waiting = {} /\ Members(futures_queue) = {} /\ Members(batch_queue) = {}
  BY DEF Call, Waiting, Members
<1>5. Queued
  BY <1>4 DEF Queued, Ascending
<1>6. \A w \in Rank : Pending(w) = {} /\ Stream(response[w], output[w], taken[w])
  BY NoCalls DEF Pending, Stream
<1>7. Streams
  BY <1>6, StreamsAre
<1>8. \A w \in Rank : Unread(w) = {}
  BY DEF Unread
<1>9. Accounted
  BY <1>6, <1>8 DEF Accounted, Pending
<1>10. ReadTaken /\ Reading /\ GivenUp /\ Stopped /\ OwnAnswers
  BY <1>4 DEF ReadTaken, Reading, GivenUp, Stopped, OwnAnswers
<1>11. QED
  BY <1>1, <1>2, <1>3, <1>5, <1>7, <1>9, <1>10 DEF IInv

\* Every step of the engine, a worker or the monitor keeps it.
LEMMA IInvNext == IInv /\ [Next]_vars => IInv'
<1> SUFFICES ASSUME IInv, [Next]_vars PROVE IInv'
  OBVIOUS
<1>1. CallTyped /\ AnswersTyped /\ CallerTyped /\ Queued /\ Reading /\ Streams /\ Stopped
  BY DEF IInv
<1>2. CallTyped' /\ AnswersTyped' /\ CallerTyped'
  BY <1>1, CallTypedNext, AnswersTypedNext, CallerTypedNext
<1>3. Queued' /\ Streams' /\ Stopped'
  BY <1>1, QueuedNext, StreamsNext, StoppedNext
<1>4. Accounted' /\ ReadTaken' /\ Reading' /\ GivenUp' /\ OwnAnswers'
  BY AccountedNext, ReadTakenNext, ReadingNext, GivenUpNext, OwnAnswersNext
<1>5. QED
  BY <1>2, <1>3, <1>4 DEF IInv

\* So it always holds.
LEMMA IInvAlways == Spec => []IInv
BY IInvInit, IInvNext, PTL DEF Spec

\* A call that returns has the answers to that very call from every worker that
\* was asked, as long as no earlier call was given up (FutureWrapper.result).
THEOREM AnswersAreOwn == Spec => []OwnAnswers
<1>1. IInv => OwnAnswers
  BY DEF IInv
<1>2. QED
  BY <1>1, IInvAlways, PTL

\* FutureWrapper.result never pops from an empty futures_queue: the future it is
\* asked for is in the queue until it is drained.
THEOREM DrainNeverEmpty ==
  Spec => [](target # 0 /\ cur = 0 /\ ~future[target].done => futures_queue # <<>>)
<1>1. IInv => (target # 0 /\ cur = 0 /\ ~future[target].done => futures_queue # <<>>)
  BY DrainFinds DEF IInv
<1>2. QED
  BY <1>1, IInvAlways, PTL

\* A future keeps its outcome: once result() or a later future's draining has set
\* it, no answer that arrives later changes it (FutureWrapper.wait_for_response).
THEOREM OutcomesStay ==
  Spec => [][\A k \in Call : future[k].done => future'[k] = future[k]]_vars
<1>1. ASSUME IInv, [Next]_vars
      PROVE  \A k \in Call : future[k].done => future'[k] = future[k]
  <2>1. CallTyped /\ AnswersTyped /\ CallerTyped /\ Queued /\ Reading
    BY <1>1 DEF IInv
  <2>2. CASE UNCHANGED future
    BY <2>2
  <2>3. CASE enqueue
    BY <2>1, <2>3, Enqueued
  <2>4. ASSUME NEW o, EndWait(o), cur # 0
        PROVE  \A k \in Call : future[k].done => future'[k] = future[k]
    <3>1. ~future[cur].done
      BY <2>1, <2>4 DEF Queued, Waiting
    <3>2. \A k \in Call : k # cur => future'[k] = future[k]
      BY <2>1, <2>4 DEF EndWait, CallerTyped
    <3>3. QED
      BY <3>1, <3>2
  <2>5. CASE get_response
    BY <2>1, <2>2, <2>4, <2>5, Got DEF GotOne, GotAll, GotFailure
  <2>6. CASE get_response_fails
    BY <2>4, <2>6 DEF get_response_fails
  <2>7. CASE drain \/ Quiet \/ \E w \in Rank : worker_busy_loop(w) \/ async_output(w)
    BY <2>2, <2>7, Zenon DEF drain, worker_busy_loop, async_output, Quiet, caller
  <2>8. QED
    BY <1>1, <2>3, <2>5, <2>6, <2>7, StepKinds
<1>2. QED
  BY <1>1, IInvAlways, PTL DEF Spec
=============================================================================
