------------------------- MODULE DPWavesTypeProofs -------------------------
(***************************************************************************)
(* The inductive invariant of the data-parallel waves, the lemmas about    *)
(* their messages, and the part of the invariant that is types.            *)
(***************************************************************************)
EXTENDS DPWaves, TLAPS

Sender == Client \cup {Coordinator}

Message ==
  [type : {"ADD", "ABORT", "PAUSE", "RESUME", "START_DP_WAVE"}, req : Int, wave : Nat]
EngineNotice == [type : {"wave_complete", "start_wave"}, wave : Nat]
ClientNotice == [target : Engine, wave : Nat]
Update == [wave : Nat, running : BOOLEAN]
-----------------------------------------------------------------------------
(***************************************************************************)
(* The inductive invariant.                                                *)
(***************************************************************************)
\* the types of the pause's flags and of the messages
PauseTyped ==
  /\ pending_pause \in [Engine -> BOOLEAN] /\ ignore_start_dp_wave \in [Engine -> BOOLEAN]
  /\ paused \in [Engine -> BOOLEAN] /\ idle_callback \in [Engine -> BOOLEAN]
  /\ pause \in {"none", "pausing", "resuming"}

InboxTyped == inbox \in [Engine -> [Sender -> Seq(Message)]]

ChannelsTyped ==
  /\ from_engine \in [Engine -> Seq(EngineNotice)]
  /\ from_client \in [Client -> Seq(ClientNotice)]
  /\ first_req \in [Client -> Seq(Engine)]
  /\ stats \in [Client -> Seq(Update)]

SentTyped == sent \in [Request -> [client : Client, engine : Engine] \cup {NotSent}]

Typed == TypeOK /\ PauseTyped /\ InboxTyped /\ ChannelsTyped /\ SentTyped

\* a request that an engine has or will get was sent, and until it has finished
\* it needs another forward pass
ReqsSent == \A e \in Engine : \A r \in reqs[e] : sent[r] # NotSent
AddOK(m, sn) == m.type = "ADD" => m.req \in Request /\ sn[m.req] # NotSent
InboxSent ==
  \A e \in Engine, s \in Sender : \A i \in DOMAIN inbox[e][s] : AddOK(inbox[e][s][i], sent)
PassesLeft == \A r \in Request : sent[r] # NotSent /\ r \notin finished => left[r] >= 1

WorkLeft == ReqsSent /\ InboxSent /\ PassesLeft

\* a wave number on its way is one that its sender has reached
Reached(m, w) == IF m.type = "wave_complete" THEN m.wave < w ELSE m.wave <= w
NoticesKnown ==
  \A e \in Engine : \A i \in DOMAIN from_engine[e] : Reached(from_engine[e][i], current_wave[e])
UpdatesKnown ==
  \A c \in Client : cl_wave[c] <= wave /\ \A i \in DOMAIN stats[c] : stats[c][i].wave <= wave
WaveReached == \E e \in Engine : wave <= current_wave[e]

WavesKnown == NoticesKnown /\ UpdatesKnown /\ WaveReached

\* the engines count the same steps, and go to the all-reduce together
Lockstep ==
  /\ \A d, e \in Engine : step_counter[d] = step_counter[e]
  /\ \A d, e \in Engine : pc[d] = "sync" => pc[e] = "sync"

IsCall(q, s, i, t) == i \in DOMAIN q[s] /\ q[s][i].type = t
Called(q, t) == \E s \in Sender : \E i \in DOMAIN q[s] : IsCall(q, s, i, t)
CalledOnce(q, t) ==
  \A r, s \in Sender : \A i \in DOMAIN q[r], j \in DOMAIN q[s] :
    IsCall(q, r, i, t) /\ IsCall(q, s, j, t) => r = s /\ i = j

\* where an engine is in a pause
Unpaused(e) == ~paused[e] /\ ~pending_pause[e] /\ ~ignore_start_dp_wave[e] /\ ~idle_callback[e]
Asked(e) == Unpaused(e) /\ Called(inbox[e], "PAUSE")
Pending(e) ==
  /\ paused[e] /\ pending_pause[e] /\ ~ignore_start_dp_wave[e] /\ idle_callback[e]
  /\ engines_running[e] /\ ~Called(inbox[e], "PAUSE")
Agreed(e) ==
  /\ paused[e] /\ ~pending_pause[e] /\ ignore_start_dp_wave[e]
  /\ ~engines_running[e] /\ ~Called(inbox[e], "PAUSE") /\ pc[e] = "input"
Resumed(e) == Unpaused(e) /\ ~engines_running[e] /\ pc[e] = "resume" /\ ~Called(inbox[e],
      "RESUME")

\* The four phases of a pause.  An engine that has agreed to pause is idle, and
\* nothing wakes it before the resume: a START_DP_WAVE is ignored, and requests
\* that come are not counted.
Phases ==
  /\ \A e \in Engine : CalledOnce(inbox[e], "PAUSE") /\ CalledOnce(inbox[e], "RESUME")
  /\ \/ /\ pause = "none"
        /\ \A e \in Engine :
             Unpaused(e) /\ ~Called(inbox[e], "PAUSE") /\ ~Called(inbox[e], "RESUME") /\
                   pc[e] # "resume"
     \/ /\ pause = "pausing" /\ acks = {}
        /\ \A e \in Engine : (Asked(e) \/ Pending(e)) /\ ~Called(inbox[e], "RESUME") /\
              pc[e] # "resume"
     \/ /\ pause = "pausing"
        /\ \A e \in Engine :
             Agreed(e) /\ ~Called(inbox[e], "RESUME") /\ (e \in acks <=> ~idle_callback[e])
     \/ /\ pause = "resuming"
        /\ \A e \in Engine :
             \/ Agreed(e) /\ Called(inbox[e], "RESUME") /\ ~idle_callback[e]
             \/ Resumed(e) /\ ~Called(inbox[e], "PAUSE")

IInv == Typed /\ WorkLeft /\ WavesKnown /\ Lockstep /\ Phases
-----------------------------------------------------------------------------
(***************************************************************************)
(* The messages to an engine.                                              *)
(***************************************************************************)
\* The next message is one of its kind, and so are the ones after it.
LEMMA NextMessage ==
  ASSUME NEW S, NEW q \in Seq(S), q # <<>>
  PROVE  /\ Head(q) \in S /\ Tail(q) \in Seq(S)
         /\ 1 \in DOMAIN q /\ Head(q) = q[1]
         /\ \A i \in DOMAIN Tail(q) : i + 1 \in DOMAIN q /\ Tail(q)[i] = q[i + 1]
OBVIOUS

\* A new message comes last.
LEMMA NewMessage ==
  ASSUME NEW S, NEW q \in Seq(S), NEW m \in S
  PROVE  /\ Append(q, m) \in Seq(S)
         /\ \A i \in DOMAIN Append(q, m) :
              \/ i \in DOMAIN q /\ Append(q, m)[i] = q[i]
              \/ Append(q, m)[i] = m
OBVIOUS

Queues == [Sender -> Seq(Message)]
Put(q, s, m) == [q EXCEPT ![s] = Append(@, m)]
Take(q, s) == [q EXCEPT ![s] = Tail(@)]

\* A message that is sent is the only new one.
LEMMA SendCall ==
  ASSUME NEW q \in Queues, NEW s \in Sender, NEW m \in Message,
         NEW p, p = Put(q, s, m)
  PROVE  /\ p \in Queues
         /\ \A t : t # m.type => (Called(p, t) <=> Called(q, t))
         /\ \A t : t # m.type /\ CalledOnce(q, t) => CalledOnce(p, t)
         /\ Called(p, m.type)
         /\ ~Called(q, m.type) => CalledOnce(p, m.type)
<1>1. p \in Queues
  BY DEF Queues, Put
<1>2. ASSUME NEW r \in Sender
      PROVE  /\ DOMAIN q[r] = 1 .. Len(q[r]) /\ Len(q[r]) \in Nat
             /\ DOMAIN p[r] = IF r = s THEN 1 .. Len(q[r]) + 1 ELSE DOMAIN q[r]
             /\ \A i \in DOMAIN q[r] : p[r][i] = q[r][i]
             /\ r = s => p[r][Len(q[r]) + 1] = m
  BY DEF Queues, Put
<1>3. ASSUME NEW t, NEW r \in Sender, NEW i \in DOMAIN q[r]
      PROVE  i \in DOMAIN p[r] /\ (IsCall(p, r, i, t) <=> IsCall(q, r, i, t))
  BY <1>2 DEF IsCall
<1>4. ASSUME NEW t, NEW r \in Sender, NEW i \in DOMAIN p[r], IsCall(p, r, i, t)
      PROVE  \/ i \in DOMAIN q[r] /\ IsCall(q, r, i, t)
             \/ r = s /\ i = Len(q[s]) + 1 /\ t = m.type
  BY <1>2, <1>4 DEF IsCall
<1>5. IsCall(p, s, Len(q[s]) + 1, m.type) /\ Len(q[s]) + 1 \in DOMAIN p[s]
  BY <1>2 DEF IsCall
<1>6. Called(p, m.type)
  BY <1>5 DEF Called
<1>7. ASSUME NEW t, t # m.type
      PROVE  (Called(p, t) <=> Called(q, t)) /\ (CalledOnce(q, t) => CalledOnce(p, t))
  <2>1. Called(p, t) <=> Called(q, t)
    BY <1>3, <1>4, <1>7 DEF Called
  <2>2. CalledOnce(q, t) => CalledOnce(p, t)
    BY <1>3, <1>4, <1>7 DEF CalledOnce
  <2>3. QED
    BY <2>1, <2>2
<1>8. ~Called(q, m.type) => CalledOnce(p, m.type)
  BY <1>3, <1>4 DEF Called, CalledOnce
<1>9. QED
  BY <1>1, <1>6, <1>7, <1>8

\* A message that is handled is gone, and the others stay.
LEMMA HandleCall ==
  ASSUME NEW q \in Queues, NEW s \in Sender, q[s] # <<>>
  PROVE  LET p == Take(q, s)
             u == Head(q[s]).type IN
         /\ p \in Queues
         /\ Head(q[s]) \in Message
         /\ Called(q, u)
         /\ \A t : CalledOnce(q, t) => CalledOnce(p, t)
         /\ \A t : t # u => (Called(p, t) <=> Called(q, t))
         /\ CalledOnce(q, u) => ~Called(p, u)
<1> DEFINE p == Take(q, s)
           u == Head(q[s]).type
<1>1. p \in Queues /\ Head(q[s]) \in Message
  BY DEF Queues, Take
<1>2. ASSUME NEW r \in Sender
      PROVE  /\ DOMAIN q[r] = 1 .. Len(q[r]) /\ Len(q[r]) \in Nat
             /\ r # s => p[r] = q[r]
             /\ r = s => /\ DOMAIN p[r] = 1 .. Len(q[r]) - 1 /\ Len(q[r]) >= 1
                         /\ \A i \in DOMAIN p[r] : p[r][i] = q[r][i + 1]
                         /\ Head(q[r]) = q[r][1]
  BY DEF Queues, Take
<1> DEFINE At(r, i) == IF r = s THEN i + 1 ELSE i
<1>3. ASSUME NEW t, NEW r \in Sender, NEW i \in DOMAIN p[r]
      PROVE  /\ i \in Nat /\ At(r, i) \in DOMAIN q[r] /\ (r = s => At(r, i) # 1)
             /\ IsCall(p, r, i, t) <=> IsCall(q, r, At(r, i), t)
  BY <1>2 DEF IsCall
<1>4. ASSUME NEW t, NEW r \in Sender, NEW i \in DOMAIN q[r], IsCall(q, r, i, t), t # u \/ r # s
      PROVE  \E j \in DOMAIN p[r] : IsCall(p, r, j, t)
  <2>1. CASE r # s
    BY <1>2, <1>4, <2>1 DEF IsCall
  <2>2. CASE r = s
    <3>1. i # 1
      BY <1>2, <1>4, <2>2 DEF IsCall
    <3>2. i - 1 \in DOMAIN p[r] /\ p[r][i - 1] = q[r][i]
      BY <1>2, <2>2, <3>1
    <3>3. QED
      BY <1>4, <3>2 DEF IsCall
  <2>3. QED
    BY <2>1, <2>2
<1>5. 1 \in DOMAIN q[s] /\ IsCall(q, s, 1, u)
  BY <1>2 DEF IsCall
<1> HIDE DEF p, u
<1>6. Called(q, u)
  BY <1>5 DEF Called
<1>7. ASSUME NEW t, CalledOnce(q, t) PROVE CalledOnce(p, t)
  BY <1>3, <1>7 DEF CalledOnce
<1>8. ASSUME NEW t, t # u PROVE Called(p, t) <=> Called(q, t)
  BY <1>3, <1>4, <1>8 DEF Called
<1>9. CalledOnce(q, u) => ~Called(p, u)
  BY <1>3, <1>5 DEF CalledOnce, Called
<1>10. QED
  BY <1>1, <1>6, <1>7, <1>8, <1>9 DEF p, u

\* What a message to one engine changes.
LEMMA SendOne ==
  ASSUME InboxTyped, NEW e \in Engine, NEW s \in Sender, NEW m \in Message,
         inbox' = ToEngine(e, s, m)
  PROVE  /\ InboxTyped'
         /\ \A d \in Engine : d # e => inbox'[d] = inbox[d]
         /\ inbox'[e] = Put(inbox[e], s, m)
         /\ \A d \in Engine : \A t : t # m.type =>
              /\ Called(inbox'[d], t) <=> Called(inbox[d], t)
              /\ CalledOnce(inbox[d], t) => CalledOnce(inbox'[d], t)
<1>1. inbox \in [Engine -> Queues] /\ inbox[e] \in Queues
  BY DEF InboxTyped, Queues
<1>2. inbox' = [inbox EXCEPT ![e] = Put(inbox[e], s, m)]
  BY <1>1 DEF ToEngine, Put
<1>3. Put(inbox[e], s, m) \in Queues
  BY <1>1, SendCall
<1>4. inbox' \in [Engine -> Queues]
  BY <1>1, <1>2, <1>3
<1>5. /\ \A d \in Engine : d # e => inbox'[d] = inbox[d]
      /\ inbox'[e] = Put(inbox[e], s, m)
  BY <1>1, <1>2
<1>6. \A t : t # m.type =>
        /\ Called(inbox'[e], t) <=> Called(inbox[e], t)
        /\ CalledOnce(inbox[e], t) => CalledOnce(inbox'[e], t)
  BY <1>1, <1>5, SendCall
<1>7. QED
  BY <1>4, <1>5, <1>6, Zenon DEF InboxTyped, Queues

\* What a message to all engines changes.
LEMMA SendAll ==
  ASSUME InboxTyped, NEW s \in Sender, NEW m \in Message, inbox' = ToEngines(s, m)
  PROVE  /\ InboxTyped'
         /\ \A d \in Engine :
              /\ inbox'[d] = Put(inbox[d], s, m)
              /\ \A t : t # m.type =>
                   /\ Called(inbox'[d], t) <=> Called(inbox[d], t)
                   /\ CalledOnce(inbox[d], t) => CalledOnce(inbox'[d], t)
              /\ Called(inbox'[d], m.type)
              /\ ~Called(inbox[d], m.type) => CalledOnce(inbox'[d], m.type)
<1>1. ASSUME NEW d \in Engine PROVE inbox[d] \in Queues
  BY DEF InboxTyped, Queues
<1>2. inbox' = [d \in Engine |-> Put(inbox[d], s, m)]
  BY DEF ToEngines, Put
<1>3. ASSUME NEW d \in Engine PROVE Put(inbox[d], s, m) \in Queues
  BY <1>1, SendCall
<1>4. inbox' \in [Engine -> Queues]
  BY <1>2, <1>3
<1>5. ASSUME NEW d \in Engine
      PROVE  /\ inbox'[d] = Put(inbox[d], s, m)
             /\ \A t : t # m.type =>
                  /\ Called(inbox'[d], t) <=> Called(inbox[d], t)
                  /\ CalledOnce(inbox[d], t) => CalledOnce(inbox'[d], t)
             /\ Called(inbox'[d], m.type)
             /\ ~Called(inbox[d], m.type) => CalledOnce(inbox'[d], m.type)
  <2>1. inbox'[d] = Put(inbox[d], s, m)
    BY <1>2
  <2>2. QED
    BY <2>1, <1>1, SendCall
<1>6. QED
  BY <1>4, <1>5 DEF InboxTyped, Queues

\* What the handling of a message changes.
LEMMA Received ==
  ASSUME InboxTyped, NEW e \in Engine, NEW s \in Sender, NEW u, Receive(e, s, u)
  PROVE  /\ InboxTyped'
         /\ Head(inbox[e][s]) \in Message /\ Head(inbox[e][s]).type = u
         /\ inbox[e][s] # <<>>
         /\ \A d \in Engine : d # e => inbox'[d] = inbox[d]
         /\ inbox'[e] = Take(inbox[e], s)
         /\ Called(inbox[e], u)
         /\ \A d \in Engine : \A t :
              /\ CalledOnce(inbox[d], t) => CalledOnce(inbox'[d], t)
              /\ t # u => (Called(inbox'[d], t) <=> Called(inbox[d], t))
         /\ CalledOnce(inbox[e], u) => ~Called(inbox'[e], u)
<1>1. inbox \in [Engine -> Queues] /\ inbox[e] \in Queues
  BY DEF InboxTyped, Queues
<1>2. /\ inbox' = [inbox EXCEPT ![e] = Take(inbox[e], s)]
      /\ inbox[e][s] # <<>> /\ Head(inbox[e][s]).type = u
  BY <1>1 DEF Receive, Take
<1>3. Take(inbox[e], s) \in Queues /\ Head(inbox[e][s]) \in Message
  BY <1>1, <1>2, HandleCall
<1>4. inbox' \in [Engine -> Queues]
  BY <1>1, <1>2, <1>3
<1>5. /\ \A d \in Engine : d # e => inbox'[d] = inbox[d]
      /\ inbox'[e] = Take(inbox[e], s)
  BY <1>1, <1>2
<1>6. /\ Called(inbox[e], u)
      /\ \A t : /\ CalledOnce(inbox[e], t) => CalledOnce(inbox'[e], t)
                /\ t # u => (Called(inbox'[e], t) <=> Called(inbox[e], t))
      /\ CalledOnce(inbox[e], u) => ~Called(inbox'[e], u)
  BY <1>1, <1>2, <1>5, HandleCall
<1>7. QED
  BY <1>2, <1>3, <1>4, <1>5, <1>6 DEF InboxTyped, Queues


\* m may be sent by s to some engines, and nothing else is
OnlySends(s, m) == \A d \in Engine : inbox'[d] \in {inbox[d], Put(inbox[d], s, m)}
\* the requests of all messages so far stay sent
StaySent ==
  \A d \in Engine, s \in Sender : \A i \in DOMAIN inbox[d][s] : AddOK(inbox[d][s][i], sent')

\* Every message to an engine is an earlier one or the one just sent.
LEMMA NewSent ==
  ASSUME InboxTyped, NEW s \in Sender, NEW m \in Message,
         AddOK(m, sent'), StaySent, OnlySends(s, m)
  PROVE  InboxSent'
<1> SUFFICES ASSUME NEW d \in Engine, NEW r \in Sender, NEW i \in DOMAIN inbox'[d][r]
             PROVE  AddOK(inbox'[d][r][i], sent')
  BY DEF InboxSent
<1>1. inbox[d] \in [Sender -> Seq(Message)]
  BY DEF InboxTyped
<1>2. CASE inbox'[d] = inbox[d]
  BY <1>2 DEF StaySent
<1>3. CASE inbox'[d] = Put(inbox[d], s, m)
  <2>1. inbox'[d][r][i] = m \/ (i \in DOMAIN inbox[d][r] /\ inbox'[d][r][i] = inbox[d][r][i])
    BY <1>1, <1>3, NewMessage DEF Put
  <2>2. QED
    BY <2>1 DEF StaySent
<1>4. QED
  BY <1>2, <1>3 DEF OnlySends

\* Every message is an earlier one after one was handled.
LEMMA NoneNew ==
  ASSUME InboxTyped, NEW e \in Engine, NEW s \in Sender, NEW u, Receive(e, s, u),
         NEW d \in Engine, NEW r \in Sender, NEW i \in DOMAIN inbox'[d][r]
  PROVE  \E j \in DOMAIN inbox[d][r] : inbox'[d][r][i] = inbox[d][r][j]
<1>1. inbox[e] \in [Sender -> Seq(Message)]
  BY DEF InboxTyped
<1>2. /\ \A x \in Engine : x # e => inbox'[x] = inbox[x]
      /\ inbox'[e] = Take(inbox[e], s) /\ inbox[e][s] # <<>>
  BY Received
<1>3. CASE d = e /\ r = s
  <2>1. inbox'[d][r] = Tail(inbox[d][r]) /\ inbox[d][r] \in Seq(Message) /\ inbox[d][r] # <<>>
    BY <1>1, <1>2, <1>3, Zenon DEF Take
  <2>2. i + 1 \in DOMAIN inbox[d][r] /\ inbox'[d][r][i] = inbox[d][r][i + 1]
    BY <2>1, NextMessage
  <2>3. QED
    BY <2>2
<1>4. CASE d # e \/ r # s
  <2>1. inbox'[d][r] = inbox[d][r]
    BY <1>1, <1>2, <1>4 DEF Take
  <2>2. QED
    BY <2>1
<1>5. QED
  BY <1>3, <1>4

\* So the messages left are of requests that were sent.
LEMMA OneLess ==
  ASSUME InboxTyped, StaySent, NEW e \in Engine, NEW s \in Sender, NEW u, Receive(e, s, u)
  PROVE  InboxSent'
<1> SUFFICES ASSUME NEW d \in Engine, NEW r \in Sender, NEW i \in DOMAIN inbox'[d][r]
             PROVE  AddOK(inbox'[d][r][i], sent')
  BY DEF InboxSent
<1>1. PICK j \in DOMAIN inbox[d][r] : inbox'[d][r][i] = inbox[d][r][j]
  BY NoneNew
<1>2. QED
  BY <1>1, Zenon DEF StaySent
-----------------------------------------------------------------------------
(***************************************************************************)
(* Types.                                                                  *)
(***************************************************************************)
\* Every message to an engine has its type.
LEMMA InboxTypedNext ==
  ASSUME Typed, [Next]_vars
  PROVE  InboxTyped'
<1>u. ASSUME UNCHANGED inbox PROVE InboxTyped'
  BY <1>u DEF Typed, InboxTyped
<1> USE DEF engines, coordinator, clients, pausing
<1>1. ASSUME NEW c \in Client, NEW r \in Request, NEW e \in Engine, add_request_async(c, r, e)
  PROVE InboxTyped'
  <2>1. [type |-> "ADD", req |-> r, wave |-> cl_wave[c]] \in Message /\ c \in Sender
    BY <1>1 DEF add_request_async, Request, Typed, TypeOK, Message, Sender
  <2>2. QED
    BY <1>1, <2>1, SendOne DEF add_request_async, Typed
<1>2. ASSUME NEW c \in Client, pause_scheduler_async(c) PROVE InboxTyped'
  <2>1. [type |-> "PAUSE", req |-> NoEngine, wave |-> 0] \in Message /\ c \in Sender
    BY <1>2 DEF pause_scheduler_async, NoEngine, Typed, TypeOK, Message, Sender
  <2>2. QED
    BY <1>2, <2>1, SendAll DEF pause_scheduler_async, Typed
<1>3. ASSUME NEW c \in Client, resume_scheduler_async(c) PROVE InboxTyped'
  <2>1. [type |-> "RESUME", req |-> NoEngine, wave |-> 0] \in Message /\ c \in Sender
    BY <1>3 DEF resume_scheduler_async, NoEngine, Typed, TypeOK, Message, Sender
  <2>2. QED
    BY <1>3, <2>1, SendAll DEF resume_scheduler_async, Typed
<1>4. ASSUME NEW r \in Request, abort_request(r) PROVE InboxTyped'
  <2>1. /\ [type |-> "ABORT", req |-> r, wave |-> 0] \in Message
        /\ sent[r].client \in Sender /\ sent[r].engine \in Engine
    BY <1>4 DEF abort_request, Typed, SentTyped, Message, Sender, Request
  <2>2. QED
    BY <1>4, <2>1, SendOne DEF abort_request, Typed
<1>5. ASSUME NEW c \in Client, new_request(c) PROVE InboxTyped'
  <2>1. CASE running
    BY <1>5, <2>1 DEF new_request, Typed, InboxTyped
  <2>2. CASE ~running
    <3> DEFINE m == Head(from_client[c])
               exclude == IF m.wave < wave THEN NoEngine ELSE m.target
    <3>1. m \in ClientNotice
      BY <1>5, NextMessage DEF new_request, Typed, ChannelsTyped
    <3>2. exclude \in Int
      BY <3>1, WaveAssumption DEF NoEngine, Engine, ClientNotice
    <3>3. inbox' = SendStartWave(wave, exclude)
      BY <1>5, <2>2 DEF new_request
    <3>4. [type |-> "START_DP_WAVE", req |-> exclude, wave |-> wave] \in Message
      BY <3>2 DEF Typed, TypeOK, Message
    <3>5. QED
      BY <3>3, <3>4, SendAll DEF SendStartWave, Sender, Typed
  <2>3. QED
    BY <2>1, <2>2
<1>6. ASSUME NEW e \in Engine, start_wave(e) PROVE InboxTyped'
  <2> DEFINE w == Head(from_engine[e]).wave
  <2>1. CASE UNCHANGED inbox
    BY <2>1 DEF Typed, InboxTyped
  <2>2. CASE inbox' = SendStartWave(w, e)
    <3>1. Head(from_engine[e]) \in EngineNotice
      BY <1>6, NextMessage DEF start_wave, Typed, ChannelsTyped
    <3>2. w \in Nat /\ e \in Int
      BY <3>1, WaveAssumption DEF EngineNotice, Engine
    <3>3. [type |-> "START_DP_WAVE", req |-> e, wave |-> w] \in Message
      BY <3>2 DEF Message
    <3>4. QED
      BY <2>2, <3>3, SendAll DEF SendStartWave, Sender, Typed
  <2>3. QED
    BY <1>6, <2>1, <2>2 DEF start_wave
<1>7. ASSUME NEW e \in Engine, start_dp_wave(e) PROVE InboxTyped'
  BY <1>7, Received, Zenon DEF start_dp_wave, Typed, Sender
<1>8. ASSUME NEW e \in Engine, NEW c \in Client, add_request(e, c) PROVE InboxTyped'
  BY <1>8, Received DEF add_request, Typed, Sender
<1>9. ASSUME NEW e \in Engine, NEW c \in Client, abort_requests(e, c) PROVE InboxTyped'
  BY <1>9, Received DEF abort_requests, Typed, Sender
<1>10. ASSUME NEW e \in Engine, NEW c \in Client, pause_scheduler(e, c) PROVE InboxTyped'
  BY <1>10, Received, Zenon DEF pause_scheduler, Typed, Sender
<1>11. ASSUME NEW e \in Engine, NEW c \in Client, resume_scheduler(e, c) PROVE InboxTyped'
  BY <1>11, Received DEF resume_scheduler, Typed, Sender
<1>12. ASSUME NEW c \in Client, first_request(c) \/ update_stats(c) \/ publish_stats(c) PROVE
  InboxTyped'
  BY <1>u, <1>12 DEF first_request, update_stats, publish_stats
<1>13. ASSUME NEW e \in Engine, wave_complete(e) \/ process_engine_step(e) \/
  notify_idle_state_callbacks(e) PROVE InboxTyped'
  BY <1>u, <1>13 DEF wave_complete, process_engine_step, notify_idle_state_callbacks
<1>14. ASSUME forward \/ sync_dp_state \/ resume_barrier PROVE InboxTyped'
  BY <1>u, <1>14, Zenon DEF forward, sync_dp_state, resume_barrier
<1>15. CASE UNCHANGED vars
  BY <1>u, <1>15 DEF vars
<1>16. QED
  BY <1>1, <1>2, <1>3, <1>4, <1>5, <1>6, <1>7, <1>8, <1>9, <1>10, <1>11, <1>12, <1>13, <1>14,
    <1>15 DEF CoordinatorStep, EngineStep, HandleClient, Collective, Next

\* Every request that is sent has a client and an engine.
LEMMA SentTypedNext ==
  ASSUME Typed, [Next]_vars
  PROVE  SentTyped'
<1>u. ASSUME UNCHANGED sent PROVE SentTyped'
  BY <1>u DEF Typed, SentTyped
<1> USE DEF engines, coordinator, clients, pausing
<1>1. ASSUME NEW c \in Client, NEW r \in Request, NEW e \in Engine, add_request_async(c, r, e)
  PROVE SentTyped'
  BY <1>1 DEF add_request_async, ToEngine, Typed, SentTyped
<1>2. ASSUME NEW c \in Client, first_request(c) \/ update_stats(c) \/ publish_stats(c) \/
  pause_scheduler_async(c) \/ resume_scheduler_async(c) \/ new_request(c) PROVE SentTyped'
  BY <1>u, <1>2, Zenon DEF first_request, update_stats, publish_stats, pause_scheduler_async,
    resume_scheduler_async, new_request
<1>3. ASSUME NEW r \in Request, abort_request(r) PROVE SentTyped'
  BY <1>u, <1>3, Zenon DEF abort_request
<1>4. ASSUME NEW e \in Engine, wave_complete(e) \/ start_wave(e) \/ process_engine_step(e) \/
  notify_idle_state_callbacks(e) \/ start_dp_wave(e) PROVE SentTyped'
  BY <1>u, <1>4, Zenon DEF wave_complete, start_wave, process_engine_step,
    notify_idle_state_callbacks, start_dp_wave
<1>5. ASSUME forward \/ sync_dp_state \/ resume_barrier PROVE SentTyped'
  BY <1>u, <1>5 DEF forward, sync_dp_state, resume_barrier
<1>6. ASSUME NEW e \in Engine, NEW c \in Client, add_request(e, c) \/ abort_requests(e, c) \/
  pause_scheduler(e, c) \/ resume_scheduler(e, c) PROVE SentTyped'
  BY <1>u, <1>6, Zenon DEF add_request, abort_requests, pause_scheduler, resume_scheduler
<1>7. CASE UNCHANGED vars
  BY <1>u, <1>7 DEF vars
<1>8. QED
  BY <1>1, <1>2, <1>3, <1>4, <1>5, <1>6, <1>7 DEF CoordinatorStep, EngineStep, HandleClient,
    Collective, Next

\* The flags of a pause are flags.
LEMMA PauseTypedNext ==
  ASSUME Typed, [Next]_vars
  PROVE  PauseTyped'
<1>u. ASSUME UNCHANGED <<pending_pause, ignore_start_dp_wave, paused, idle_callback, pause>>
      PROVE  PauseTyped'
  BY <1>u DEF Typed, PauseTyped
<1> USE DEF engines, coordinator, clients, pausing
<1>1. ASSUME NEW c \in Client, pause_scheduler_async(c) PROVE PauseTyped'
  BY <1>1, Zenon DEF pause_scheduler_async, ToEngines, Typed, PauseTyped
<1>2. ASSUME NEW c \in Client, resume_scheduler_async(c) PROVE PauseTyped'
  BY <1>2 DEF resume_scheduler_async, ToEngines, Typed, PauseTyped
<1>3. ASSUME sync_dp_state PROVE PauseTyped'
  BY <1>3 DEF sync_dp_state, Typed, PauseTyped
<1>4. ASSUME resume_barrier PROVE PauseTyped'
  BY <1>4 DEF resume_barrier, Typed, PauseTyped
<1>5. ASSUME NEW e \in Engine, notify_idle_state_callbacks(e) PROVE PauseTyped'
  BY <1>5 DEF notify_idle_state_callbacks, Typed, PauseTyped
<1>6. ASSUME NEW e \in Engine, NEW c \in Client, pause_scheduler(e, c) PROVE PauseTyped'
  BY <1>6 DEF pause_scheduler, Receive, Typed, PauseTyped
<1>7. ASSUME NEW e \in Engine, NEW c \in Client, resume_scheduler(e, c) PROVE PauseTyped'
  BY <1>7 DEF resume_scheduler, Receive, Typed, PauseTyped
<1>8. ASSUME NEW c \in Client, NEW r \in Request, NEW e \in Engine, add_request_async(c, r, e)
  PROVE PauseTyped'
  BY <1>u, <1>8 DEF add_request_async
<1>9. ASSUME NEW c \in Client, first_request(c) \/ update_stats(c) \/ publish_stats(c) \/
  new_request(c) PROVE PauseTyped'
  BY <1>u, <1>9 DEF first_request, update_stats, publish_stats, new_request
<1>10. ASSUME NEW r \in Request, abort_request(r) PROVE PauseTyped'
  BY <1>u, <1>10, Zenon DEF abort_request
<1>11. ASSUME NEW e \in Engine, wave_complete(e) \/ start_wave(e) \/ process_engine_step(e) \/
  start_dp_wave(e) PROVE PauseTyped'
  BY <1>u, <1>11, Zenon DEF wave_complete, start_wave, process_engine_step, start_dp_wave
<1>12. ASSUME forward PROVE PauseTyped'
  BY <1>u, <1>12, Zenon DEF forward
<1>13. ASSUME NEW e \in Engine, NEW c \in Client, add_request(e, c) \/ abort_requests(e, c)
  PROVE PauseTyped'
  BY <1>u, <1>13, Zenon DEF add_request, abort_requests
<1>14. CASE UNCHANGED vars
  BY <1>u, <1>14 DEF vars
<1>15. QED
  BY <1>1, <1>2, <1>3, <1>4, <1>5, <1>6, <1>7, <1>8, <1>9, <1>10, <1>11, <1>12, <1>13, <1>14
    DEF CoordinatorStep, EngineStep, HandleClient, Collective, Next

\* Every other message has its type.
LEMMA ChannelsTypedNext ==
  ASSUME Typed, [Next]_vars
  PROVE  ChannelsTyped'
<1>u. ASSUME UNCHANGED <<from_engine, from_client, first_req, stats>> PROVE ChannelsTyped'
  BY <1>u DEF Typed, ChannelsTyped
<1> USE DEF engines, coordinator, clients, pausing
<1>1. ASSUME NEW c \in Client, NEW r \in Request, NEW e \in Engine, add_request_async(c, r, e)
  PROVE ChannelsTyped'
  BY <1>1 DEF add_request_async, ToEngine, Typed, ChannelsTyped
<1>2. ASSUME NEW c \in Client, first_request(c) PROVE ChannelsTyped'
  <2>1. Head(first_req[c]) \in Engine /\ Tail(first_req[c]) \in Seq(Engine)
    BY <1>2, NextMessage DEF first_request, Typed, ChannelsTyped
  <2>2. [target |-> Head(first_req[c]), wave |-> cl_wave[c]] \in ClientNotice
    BY <2>1 DEF Typed, TypeOK, ClientNotice
  <2>3. QED
    BY <1>2, <2>1, <2>2 DEF first_request, Typed, ChannelsTyped
<1>3. ASSUME NEW c \in Client, update_stats(c) PROVE ChannelsTyped'
  BY <1>3 DEF update_stats, Typed, ChannelsTyped
<1>4. ASSUME NEW c \in Client, publish_stats(c) PROVE ChannelsTyped'
  <2>1. [wave |-> wave, running |-> running] \in Update
    BY DEF Typed, TypeOK, Update
  <2>2. QED
    BY <1>4, <2>1 DEF publish_stats, Typed, ChannelsTyped
<1>5. ASSUME NEW c \in Client, new_request(c) PROVE ChannelsTyped'
  <2>1. from_client' \in [Client -> Seq(ClientNotice)]
    BY <1>5, NextMessage DEF new_request, Typed, ChannelsTyped
  <2>2. [wave |-> wave', running |-> running'] \in Update
    BY <1>5, Zenon DEF new_request, Typed, TypeOK, Update
  <2>3. CASE UNCHANGED stats
    BY <1>5, <2>1, <2>3 DEF new_request, Typed, ChannelsTyped
  <2>4. CASE Publish
    <3>1. stats' \in [Client -> Seq(Update)]
      BY <2>2, <2>4, NewMessage DEF Publish, Typed, ChannelsTyped
    <3>2. QED
      BY <1>5, <2>1, <3>1 DEF new_request, Typed, ChannelsTyped
  <2>5. QED
    BY <1>5, <2>3, <2>4 DEF new_request
<1>6. ASSUME NEW e \in Engine, wave_complete(e) PROVE ChannelsTyped'
  <2>1. Head(from_engine[e]) \in EngineNotice
    BY <1>6, NextMessage DEF wave_complete, Typed, ChannelsTyped
  <2>2. from_engine' \in [Engine -> Seq(EngineNotice)]
    BY <1>6, NextMessage DEF wave_complete, Typed, ChannelsTyped
  <2>3. CASE UNCHANGED stats
    BY <1>6, <2>2, <2>3 DEF wave_complete, Typed, ChannelsTyped
  <2>4. CASE Publish
    <3>1. Head(from_engine[e]).wave \in Nat
      BY <2>1 DEF EngineNotice
    <3>2. wave' \in Nat
      BY <1>6, <3>1 DEF wave_complete, Typed, TypeOK
    <3>3. running' \in BOOLEAN
      BY <1>6, Zenon DEF wave_complete, Typed, TypeOK
    <3>4. [wave |-> wave', running |-> running'] \in Update
      BY <3>2, <3>3 DEF Update
    <3>5. stats' \in [Client -> Seq(Update)]
      BY <2>4, <3>4, NewMessage DEF Publish, Typed, ChannelsTyped
    <3>6. QED
      BY <1>6, <2>2, <3>5 DEF wave_complete, Typed, ChannelsTyped
  <2>5. QED
    BY <1>6, <2>3, <2>4 DEF wave_complete
<1>7. ASSUME NEW e \in Engine, start_wave(e) PROVE ChannelsTyped'
  <2>1. Head(from_engine[e]) \in EngineNotice
    BY <1>7, NextMessage DEF start_wave, Typed, ChannelsTyped
  <2>2. from_engine' \in [Engine -> Seq(EngineNotice)]
    BY <1>7, NextMessage DEF start_wave, Typed, ChannelsTyped
  <2>3. CASE UNCHANGED stats
    BY <1>7, <2>2, <2>3 DEF start_wave, Typed, ChannelsTyped
  <2>4. CASE Publish
    <3>1. Head(from_engine[e]).wave \in Nat
      BY <2>1 DEF EngineNotice
    <3>2. wave' \in Nat
      BY <1>7, <3>1 DEF start_wave, Typed, TypeOK
    <3>3. running' \in BOOLEAN
      BY <1>7, Zenon DEF start_wave, Typed, TypeOK
    <3>4. [wave |-> wave', running |-> running'] \in Update
      BY <3>2, <3>3 DEF Update
    <3>5. stats' \in [Client -> Seq(Update)]
      BY <2>4, <3>4, NewMessage DEF Publish, Typed, ChannelsTyped
    <3>6. QED
      BY <1>7, <2>2, <3>5 DEF start_wave, Typed, ChannelsTyped
  <2>5. QED
    BY <1>7, <2>3, <2>4 DEF start_wave
<1>8. ASSUME sync_dp_state PROVE ChannelsTyped'
  <2>1. 0 \in Engine
    BY WaveAssumption DEF Engine
  <2>2. [type |-> "wave_complete", wave |-> CompletedWave] \in EngineNotice
    BY <2>1 DEF CompletedWave, EngineNotice, Typed, TypeOK
  <2>3. CASE UNCHANGED from_engine
    BY <1>8, <2>3 DEF sync_dp_state, Typed, ChannelsTyped
  <2>4. CASE from_engine' = [from_engine EXCEPT
                             ![0] = Append(@, [type |-> "wave_complete", wave |-> CompletedWave])]
    <3>1. from_engine' \in [Engine -> Seq(EngineNotice)]
      BY <2>2, <2>4, NewMessage, Zenon DEF Typed, ChannelsTyped
    <3>2. QED
      BY <1>8, <3>1 DEF sync_dp_state, Typed, ChannelsTyped
  <2>5. QED
    BY <1>8, <2>3, <2>4 DEF sync_dp_state
<1>9. ASSUME NEW e \in Engine, NEW c \in Client, add_request(e, c) PROVE ChannelsTyped'
  <2>1. [type |-> "start_wave", wave |-> current_wave[e]] \in EngineNotice
    BY DEF EngineNotice, Typed, TypeOK
  <2>2. CASE UNCHANGED from_engine
    BY <1>9, <2>2 DEF add_request, Typed, ChannelsTyped
  <2>3. CASE from_engine' = [from_engine EXCEPT
                             ![e] = Append(@, [type |-> "start_wave", wave |-> current_wave[e]])]
    <3>1. from_engine' \in [Engine -> Seq(EngineNotice)]
      BY <2>1, <2>3, NewMessage DEF Typed, ChannelsTyped
    <3>2. QED
      BY <1>9, <3>1 DEF add_request, Typed, ChannelsTyped
  <2>4. QED
    BY <1>9, <2>2, <2>3 DEF add_request
<1>10. ASSUME NEW c \in Client, pause_scheduler_async(c) \/ resume_scheduler_async(c) PROVE
  ChannelsTyped'
  BY <1>u, <1>10 DEF pause_scheduler_async, resume_scheduler_async
<1>11. ASSUME NEW r \in Request, abort_request(r) PROVE ChannelsTyped'
  BY <1>u, <1>11 DEF abort_request
<1>12. ASSUME forward \/ resume_barrier PROVE ChannelsTyped'
  BY <1>u, <1>12 DEF forward, resume_barrier
<1>13. ASSUME NEW e \in Engine, process_engine_step(e) \/ notify_idle_state_callbacks(e) \/
  start_dp_wave(e) PROVE ChannelsTyped'
  BY <1>u, <1>13, Zenon DEF process_engine_step, notify_idle_state_callbacks, start_dp_wave
<1>14. ASSUME NEW e \in Engine, NEW c \in Client, abort_requests(e, c) \/ pause_scheduler(e,
  c) \/ resume_scheduler(e, c) PROVE ChannelsTyped'
  BY <1>u, <1>14 DEF abort_requests, pause_scheduler, resume_scheduler
<1>15. CASE UNCHANGED vars
  BY <1>u, <1>15 DEF vars
<1>16. QED
  BY <1>1, <1>2, <1>3, <1>4, <1>5, <1>6, <1>7, <1>8, <1>9, <1>10, <1>11, <1>12, <1>13, <1>14,
    <1>15 DEF CoordinatorStep, EngineStep, HandleClient, Collective, Next

\* Types, and the bounds of the counters.
LEMMA TypeOKNext ==
  ASSUME Typed, WorkLeft, [Next]_vars
  PROVE  TypeOK'
<1>u. ASSUME UNCHANGED <<pc, engines_running, current_wave, step_counter, reqs, left, wave,
        running, cl_wave, cl_running, finished, pauses, acks>>
      PROVE  TypeOK'
  BY <1>u DEF Typed, TypeOK
<1> USE DEF engines, coordinator, clients, pausing
<1>1. ASSUME NEW c \in Client, NEW r \in Request, NEW e \in Engine, add_request_async(c, r, e)
  PROVE TypeOK'
  BY <1>1 DEF add_request_async, ToEngine, Typed, TypeOK
<1>2. ASSUME NEW c \in Client, first_request(c) PROVE TypeOK'
  <2>1. cl_running' \in [Client -> BOOLEAN]
    BY <1>2 DEF first_request, Typed, TypeOK
  <2>2. QED
    BY <1>2, <2>1 DEF first_request, Typed, TypeOK
<1>3. ASSUME NEW c \in Client, update_stats(c) PROVE TypeOK'
  <2>1. PICK n \in DOMAIN stats[c] :
          /\ cl_wave' = [cl_wave EXCEPT ![c] = stats[c][n].wave]
          /\ cl_running' = [cl_running EXCEPT ![c] = stats[c][n].running]
    BY <1>3, Zenon DEF update_stats
  <2>2. stats[c][n] \in Update
    BY DEF Typed, ChannelsTyped
  <2>3. stats[c][n].wave \in Nat /\ stats[c][n].running \in BOOLEAN
    BY <2>2 DEF Update
  <2>4. cl_wave' \in [Client -> Nat] /\ cl_running' \in [Client -> BOOLEAN]
    BY <2>1, <2>3 DEF Typed, TypeOK
  <2>5. QED
    BY <1>3, <2>4 DEF update_stats, Typed, TypeOK
<1>4. ASSUME NEW c \in Client, pause_scheduler_async(c) PROVE TypeOK'
  <2>1. pauses' \in 0 .. MaxPauses
    BY <1>4, WaveAssumption DEF pause_scheduler_async, Typed, TypeOK
  <2>2. QED
    BY <1>4, <2>1 DEF pause_scheduler_async, Typed, TypeOK
<1>5. ASSUME NEW r \in Request, abort_request(r) PROVE TypeOK'
  BY <1>5, Zenon DEF abort_request, ToEngine, Typed, TypeOK
<1>6. ASSUME NEW c \in Client, new_request(c) PROVE TypeOK'
  <2>1. wave' \in Nat
    BY <1>6 DEF new_request, Typed, TypeOK
  <2>2. running' \in BOOLEAN
    BY <1>6, Zenon DEF new_request, Typed, TypeOK
  <2>3. QED
    BY <1>6, <2>1, <2>2 DEF new_request, Typed, TypeOK
<1>7. ASSUME NEW e \in Engine, wave_complete(e) PROVE TypeOK'
  <2>1. Head(from_engine[e]) \in EngineNotice
    BY <1>7, NextMessage DEF wave_complete, Typed, ChannelsTyped
  <2>2. Head(from_engine[e]).wave \in Nat
    BY <2>1 DEF EngineNotice
  <2>3. wave' \in Nat
    BY <1>7, <2>2 DEF wave_complete, Typed, TypeOK
  <2>4. running' \in BOOLEAN
    BY <1>7, Zenon DEF wave_complete, Typed, TypeOK
  <2>5. QED
    BY <1>7, <2>3, <2>4 DEF wave_complete, Typed, TypeOK
<1>8. ASSUME NEW e \in Engine, start_wave(e) PROVE TypeOK'
  <2>1. Head(from_engine[e]) \in EngineNotice
    BY <1>8, NextMessage DEF start_wave, Typed, ChannelsTyped
  <2>2. Head(from_engine[e]).wave \in Nat
    BY <2>1 DEF EngineNotice
  <2>3. wave' \in Nat
    BY <1>8, <2>2 DEF start_wave, Typed, TypeOK
  <2>4. running' \in BOOLEAN
    BY <1>8, Zenon DEF start_wave, Typed, TypeOK
  <2>5. QED
    BY <1>8, <2>3, <2>4 DEF start_wave, Typed, TypeOK
<1>9. ASSUME forward PROVE TypeOK'
  <2> DEFINE advanced == (UNION {reqs[e] : e \in {d \in Engine : ~paused[d]}}) \ finished
  <2>1. ASSUME NEW r \in advanced PROVE r \in Request /\ left[r] \in 1 .. MaxPasses
    <3>1. PICK e \in Engine : r \in reqs[e]
      OBVIOUS
    <3>2. r \notin finished
      OBVIOUS
    <3> HIDE DEF advanced
    <3>3. r \in Request
      BY <3>1 DEF Typed, TypeOK
    <3>4. sent[r] # NotSent
      BY <3>1 DEF WorkLeft, ReqsSent
    <3>5. QED
      BY <3>2, <3>3, <3>4, WaveAssumption DEF Typed, TypeOK, WorkLeft, PassesLeft
  <2>2. left' = [r \in Request |-> IF r \in advanced THEN left[r] - 1 ELSE left[r]]
    BY <1>9, Zenon DEF forward
  <2>3. left' \in [Request -> 0 .. MaxPasses]
    <3> HIDE DEF advanced
    <3>1. MaxPasses \in Nat
      BY WaveAssumption
    <3>2. QED
      BY <2>1, <2>2, <3>1 DEF Typed, TypeOK
  <2>4. finished' \subseteq Request /\ reqs' \in [Engine -> SUBSET Request]
    BY <1>9 DEF forward, Typed, TypeOK
  <2>5. step_counter' \in [Engine -> 0 .. SyncInterval - 1]
    BY <1>9, WaveAssumption DEF forward, NextStep, Typed, TypeOK
  <2>6. pc' \in [Engine -> {"input", "forward", "sync", "resume"}]
    BY <1>9, Zenon DEF forward
  <2>7. engines_running' \in [Engine -> BOOLEAN]
    BY <1>9 DEF forward
  <2>8. QED
    BY <1>9, <2>3, <2>4, <2>5, <2>6, <2>7 DEF forward, Typed, TypeOK
<1>10. ASSUME sync_dp_state PROVE TypeOK'
  <2>1. current_wave' \in [Engine -> Nat] /\ step_counter' \in [Engine -> 0 .. SyncInterval - 1]
    <3>1. CASE UNCHANGED <<current_wave, step_counter>>
      BY <3>1 DEF Typed, TypeOK
    <3>2. CASE /\ current_wave' = [e \in Engine |-> current_wave[e] + 1]
               /\ step_counter' = [e \in Engine |-> 0]
      <4>1. \A e \in Engine : current_wave[e] + 1 \in Nat
        BY DEF Typed, TypeOK
      <4>2. 0 \in 0 .. SyncInterval - 1
        BY WaveAssumption
      <4>3. QED
        BY <3>2, <4>1, <4>2, Zenon
    <3>3. QED
      BY <1>10, <3>1, <3>2, Zenon DEF sync_dp_state
  <2>2. engines_running' \in [Engine -> BOOLEAN]
    BY <1>10, Zenon DEF sync_dp_state, GlobalUnfinished
  <2>3. QED
    BY <1>10, <2>1, <2>2, Zenon DEF sync_dp_state, Typed, TypeOK
<1>11. ASSUME resume_barrier PROVE TypeOK'
  BY <1>11 DEF resume_barrier, Typed, TypeOK
<1>12. ASSUME NEW e \in Engine, process_engine_step(e) PROVE TypeOK'
  BY <1>12 DEF process_engine_step, Typed, TypeOK
<1>13. ASSUME NEW e \in Engine, notify_idle_state_callbacks(e) PROVE TypeOK'
  BY <1>13 DEF notify_idle_state_callbacks, Typed, TypeOK
<1>14. ASSUME NEW e \in Engine, start_dp_wave(e) PROVE TypeOK'
  <2>1. Head(inbox[e][Coordinator]) \in Message
    BY <1>14, Received, Zenon DEF start_dp_wave, Typed, Sender
  <2>2. Head(inbox[e][Coordinator]).wave \in Nat
    BY <2>1 DEF Message
  <2>3. current_wave' \in [Engine -> Nat]
    BY <1>14, <2>2, Zenon DEF start_dp_wave, Typed, TypeOK
  <2>4. engines_running' \in [Engine -> BOOLEAN]
    BY <1>14, Zenon DEF start_dp_wave, Typed, TypeOK
  <2>5. QED
    BY <1>14, <2>3, <2>4, Zenon DEF start_dp_wave, Typed, TypeOK
<1>15. ASSUME NEW e \in Engine, NEW c \in Client, add_request(e, c) PROVE TypeOK'
  <2> DEFINE m == Head(inbox[e][c])
  <2>1. m \in Message /\ m.type = "ADD" /\ inbox[e][c] # <<>>
    BY <1>15, Received, Zenon DEF add_request, Typed, Sender
  <2>2. m.wave \in Nat
    BY <2>1 DEF Message
  <2>3. m.req \in Request
    <3>1. inbox[e][c] \in Seq(Message)
      BY DEF Typed, InboxTyped, Sender
    <3>2. 1 \in DOMAIN inbox[e][c] /\ inbox[e][c][1] = m
      BY <2>1, <3>1, NextMessage
    <3>3. QED
      BY <2>1, <3>2 DEF WorkLeft, InboxSent, AddOK, Sender
  <2>4. reqs' \in [Engine -> SUBSET Request]
    BY <1>15, <2>3, Zenon DEF add_request, Typed, TypeOK
  <2>5. current_wave' \in [Engine -> Nat]
    BY <1>15, <2>2 DEF add_request, Typed, TypeOK
  <2>6. engines_running' \in [Engine -> BOOLEAN]
    BY <1>15, Zenon DEF add_request, Typed, TypeOK
  <2>7. QED
    BY <1>15, <2>4, <2>5, <2>6, Zenon DEF add_request, Typed, TypeOK
<1>16. ASSUME NEW e \in Engine, NEW c \in Client, abort_requests(e, c) PROVE TypeOK'
  <2>1. reqs' \in [Engine -> SUBSET Request]
    BY <1>16 DEF abort_requests, Typed, TypeOK
  <2>2. QED
    BY <1>16, <2>1, Zenon DEF abort_requests, Typed, TypeOK
<1>17. ASSUME NEW e \in Engine, NEW c \in Client, pause_scheduler(e, c) PROVE TypeOK'
  BY <1>17 DEF pause_scheduler, Receive, Typed, TypeOK
<1>18. ASSUME NEW e \in Engine, NEW c \in Client, resume_scheduler(e, c) PROVE TypeOK'
  BY <1>18 DEF resume_scheduler, Receive, Typed, TypeOK
<1>19. ASSUME NEW c \in Client, publish_stats(c) \/ resume_scheduler_async(c) PROVE TypeOK'
  BY <1>u, <1>19 DEF publish_stats, resume_scheduler_async
<1>20. CASE UNCHANGED vars
  BY <1>u, <1>20 DEF vars
<1>21. QED
  BY <1>1, <1>2, <1>3, <1>4, <1>5, <1>6, <1>7, <1>8, <1>9, <1>10, <1>11, <1>12, <1>13, <1>14,
    <1>15, <1>16, <1>17, <1>18, <1>19, <1>20 DEF CoordinatorStep, EngineStep, HandleClient,
    Collective, Next
=============================================================================
