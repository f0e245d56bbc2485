--------------------------- MODULE DPWavesProofs ---------------------------
(***************************************************************************)
(* The data-parallel engines never meet in different collectives, wave     *)
(* numbers only follow each other, and a resume is never refused: for      *)
(* every number of engines, front-ends, requests and pauses.               *)
(***************************************************************************)
EXTENDS DPWavesTypeProofs, FiniteSetTheorems
-----------------------------------------------------------------------------
(***************************************************************************)
(* Waves.                                                                  *)
(***************************************************************************)
\* An engine never goes back to an earlier wave.
LEMMA EngineWavesGrow ==
  ASSUME Typed, [Next]_vars
  PROVE  \A d \in Engine : current_wave[d] <= current_wave'[d]
<1>u. ASSUME UNCHANGED current_wave
      PROVE  \A d \in Engine : current_wave[d] <= current_wave'[d]
  BY <1>u DEF Typed, TypeOK
<1>t. current_wave \in [Engine -> Nat]
  BY DEF Typed, TypeOK
<1> USE DEF engines, coordinator, clients, pausing
<1>1. ASSUME sync_dp_state PROVE \A d \in Engine : current_wave[d] <= current_wave'[d]
  <2>1. CASE UNCHANGED current_wave
    BY <1>u, <2>1
  <2>2. CASE current_wave' = [d \in Engine |-> current_wave[d] + 1]
    BY <1>t, <2>2
  <2>3. QED
    BY <1>1, <2>1, <2>2, Zenon DEF sync_dp_state
<1>2. ASSUME NEW e \in Engine, start_dp_wave(e) PROVE \A d \in Engine : current_wave[d] <=
  current_wave'[d]
  <2>1. Head(inbox[e][Coordinator]) \in Message
    BY <1>2, Received, Zenon DEF start_dp_wave, Typed, Sender
  <2> DEFINE w == Head(inbox[e][Coordinator]).wave
  <2>2. w \in Nat
    BY <2>1 DEF Message
  <2>3. \/ UNCHANGED current_wave
        \/ w >= current_wave[e] /\ current_wave' = [current_wave EXCEPT ![e] = w]
    BY <1>2, Zenon DEF start_dp_wave
  <2> HIDE DEF w
  <2>4. CASE w >= current_wave[e] /\ current_wave' = [current_wave EXCEPT ![e] = w]
    BY <1>t, <2>2, <2>4
  <2>5. QED
    BY <1>u, <2>3, <2>4
<1>3. ASSUME NEW e \in Engine, NEW c \in Client, add_request(e, c) PROVE \A d \in Engine :
  current_wave[d] <= current_wave'[d]
  <2>1. Head(inbox[e][c]) \in Message
    BY <1>3, Received, Zenon DEF add_request, Typed, Sender
  <2> DEFINE w == Head(inbox[e][c]).wave
  <2>2. w \in Nat
    BY <2>1 DEF Message
  <2>3. current_wave' = IF w > current_wave[e] THEN [current_wave EXCEPT ![e] = w]
                        ELSE current_wave
    BY <1>3, Zenon DEF add_request
  <2> HIDE DEF w
  <2>4. QED
    BY <1>t, <2>2, <2>3
<1>4. ASSUME NEW c \in Client, NEW r \in Request, NEW e \in Engine, add_request_async(c, r, e)
  PROVE \A d \in Engine : current_wave[d] <= current_wave'[d]
  BY <1>u, <1>4, Zenon DEF add_request_async
<1>5. ASSUME NEW c \in Client, first_request(c) \/ update_stats(c) \/ publish_stats(c) \/
  pause_scheduler_async(c) \/ resume_scheduler_async(c) \/ new_request(c) PROVE \A d \in
  Engine : current_wave[d] <= current_wave'[d]
  BY <1>u, <1>5, Zenon DEF first_request, update_stats, publish_stats, pause_scheduler_async,
    resume_scheduler_async, new_request
<1>6. ASSUME NEW r \in Request, abort_request(r) PROVE \A d \in Engine : current_wave[d] <=
  current_wave'[d]
  BY <1>u, <1>6, Zenon DEF abort_request
<1>7. ASSUME NEW e \in Engine, wave_complete(e) \/ start_wave(e) \/ process_engine_step(e) \/
  notify_idle_state_callbacks(e) PROVE \A d \in Engine : current_wave[d] <= current_wave'[d]
  BY <1>u, <1>7 DEF wave_complete, start_wave, process_engine_step,
    notify_idle_state_callbacks
<1>8. ASSUME forward \/ resume_barrier PROVE \A d \in Engine : current_wave[d] <=
  current_wave'[d]
  BY <1>u, <1>8, Zenon DEF forward, resume_barrier
<1>9. ASSUME NEW e \in Engine, NEW c \in Client, abort_requests(e, c) \/ pause_scheduler(e, c)
  \/ resume_scheduler(e, c) PROVE \A d \in Engine : current_wave[d] <= current_wave'[d]
  BY <1>u, <1>9 DEF abort_requests, pause_scheduler, resume_scheduler
<1>10. CASE UNCHANGED vars
  BY <1>u, <1>10 DEF vars
<1>11. QED
  BY <1>1, <1>2, <1>3, <1>4, <1>5, <1>6, <1>7, <1>8, <1>9, <1>10, Zenon DEF CoordinatorStep,
    EngineStep, HandleClient, Collective, Next


\* Nor does the coordinator.
LEMMA CoordinatorWaveGrows ==
  ASSUME Typed, [Next]_vars
  PROVE  wave <= wave'
<1>u. ASSUME UNCHANGED wave PROVE wave <= wave'
  BY <1>u DEF Typed, TypeOK
<1> USE DEF engines, coordinator, clients, pausing
<1>1. ASSUME NEW c \in Client, new_request(c) PROVE wave <= wave'
  BY <1>u, <1>1 DEF new_request
<1>2. ASSUME NEW e \in Engine, wave_complete(e) PROVE wave <= wave'
  <2>1. Head(from_engine[e]) \in EngineNotice
    BY <1>2, NextMessage DEF wave_complete, Typed, ChannelsTyped
  <2>2. Head(from_engine[e]).wave \in Nat
    BY <2>1 DEF EngineNotice
  <2>3. QED
    BY <1>2, <2>2 DEF wave_complete, Typed, TypeOK
<1>3. ASSUME NEW e \in Engine, start_wave(e) PROVE wave <= wave'
  <2>1. Head(from_engine[e]) \in EngineNotice
    BY <1>3, NextMessage DEF start_wave, Typed, ChannelsTyped
  <2>2. Head(from_engine[e]).wave \in Nat
    BY <2>1 DEF EngineNotice
  <2>3. QED
    BY <1>3, <2>2 DEF start_wave, Typed, TypeOK
<1>4. ASSUME NEW e \in Engine, start_dp_wave(e) PROVE wave <= wave'
  BY <1>u, <1>4 DEF start_dp_wave
<1>5. ASSUME NEW c \in Client, NEW r \in Request, NEW e \in Engine, add_request_async(c, r, e)
  PROVE wave <= wave'
  BY <1>u, <1>5, Zenon DEF add_request_async
<1>6. ASSUME NEW c \in Client, first_request(c) \/ update_stats(c) \/ publish_stats(c) \/
  pause_scheduler_async(c) \/ resume_scheduler_async(c) PROVE wave <= wave'
  BY <1>u, <1>6, Zenon DEF first_request, update_stats, publish_stats, pause_scheduler_async,
    resume_scheduler_async
<1>7. ASSUME NEW r \in Request, abort_request(r) PROVE wave <= wave'
  BY <1>u, <1>7 DEF abort_request
<1>8. ASSUME forward \/ sync_dp_state \/ resume_barrier PROVE wave <= wave'
  BY <1>u, <1>8, Zenon DEF forward, sync_dp_state, resume_barrier
<1>9. ASSUME NEW e \in Engine, process_engine_step(e) \/ notify_idle_state_callbacks(e) PROVE
  wave <= wave'
  BY <1>u, <1>9 DEF process_engine_step, notify_idle_state_callbacks
<1>10. ASSUME NEW e \in Engine, NEW c \in Client, add_request(e, c) \/ abort_requests(e, c) \/
  pause_scheduler(e, c) \/ resume_scheduler(e, c) PROVE wave <= wave'
  BY <1>u, <1>10, Zenon DEF add_request, abort_requests, pause_scheduler, resume_scheduler
<1>11. CASE UNCHANGED vars
  BY <1>u, <1>11 DEF vars
<1>12. QED
  BY <1>1, <1>2, <1>3, <1>4, <1>5, <1>6, <1>7, <1>8, <1>9, <1>10, <1>11 DEF CoordinatorStep,
    EngineStep, HandleClient, Collective, Next


\* Every notice of an engine is an earlier one or the one it just sent.
LEMMA NewNotice ==
  ASSUME ChannelsTyped, NEW e, NEW m \in EngineNotice,
         from_engine' = [from_engine EXCEPT ![e] = Append(@, m)],
         NEW d \in Engine, NEW i \in DOMAIN from_engine'[d]
  PROVE  \/ i \in DOMAIN from_engine[d] /\ from_engine'[d][i] = from_engine[d][i]
         \/ d = e /\ from_engine'[d][i] = m
<1>1. from_engine \in [Engine -> Seq(EngineNotice)]
  BY DEF ChannelsTyped
<1>2. CASE d = e
  <2>1. from_engine'[d] = Append(from_engine[d], m) /\ from_engine[d] \in Seq(EngineNotice)
    BY <1>1, <1>2
  <2>2. QED
    BY <1>2, <2>1, NewMessage
<1>3. CASE d # e
  BY <1>1, <1>3
<1>4. QED
  BY <1>2, <1>3

\* An engine reports a wave only when it has reached it.
LEMMA NoticesNext ==
  ASSUME Typed, WorkLeft, NoticesKnown, [Next]_vars
  PROVE  NoticesKnown'
<1>u. ASSUME UNCHANGED <<from_engine, current_wave>> PROVE NoticesKnown'
  BY <1>u DEF NoticesKnown
<1> USE DEF engines, coordinator, clients, pausing
<1>n. \A d \in Engine : current_wave[d] \in Nat /\ current_wave'[d] \in Nat /\
      current_wave[d] <= current_wave'[d]
  BY EngineWavesGrow, TypeOKNext DEF Typed, TypeOK
<1>m. ASSUME NEW d \in Engine, NEW i \in DOMAIN from_engine[d]
      PROVE  Reached(from_engine[d][i], current_wave'[d])
  <2>1. from_engine[d][i] \in EngineNotice
    BY DEF Typed, ChannelsTyped
  <2>2. from_engine[d][i].wave \in Nat
    BY <2>1 DEF EngineNotice
  <2>3. /\ current_wave[d] \in Nat /\ current_wave'[d] \in Nat
        /\ current_wave[d] <= current_wave'[d]
    BY <1>n
  <2>4. Reached(from_engine[d][i], current_wave[d])
    BY DEF NoticesKnown
  <2>5. QED
    BY <2>2, <2>3, <2>4 DEF Reached
<1>1. ASSUME NEW e \in Engine, wave_complete(e) PROVE NoticesKnown'
  <2>1. ASSUME NEW d \in Engine, NEW i \in DOMAIN from_engine'[d]
        PROVE  \E j \in DOMAIN from_engine[d] : from_engine'[d][i] = from_engine[d][j]
    BY <1>1, <2>1, NextMessage DEF wave_complete, Typed, ChannelsTyped
  <2>2. QED
    BY <1>1, <2>1 DEF wave_complete, NoticesKnown
<1>2. ASSUME NEW e \in Engine, start_wave(e) PROVE NoticesKnown'
  <2>1. ASSUME NEW d \in Engine, NEW i \in DOMAIN from_engine'[d]
        PROVE  \E j \in DOMAIN from_engine[d] : from_engine'[d][i] = from_engine[d][j]
    BY <1>2, <2>1, NextMessage DEF start_wave, Typed, ChannelsTyped
  <2>2. QED
    BY <1>2, <2>1 DEF start_wave, NoticesKnown
<1>3. ASSUME sync_dp_state PROVE NoticesKnown'
  <2>1. CASE GlobalUnfinished
    BY <1>3, <2>1, <1>m, Zenon DEF sync_dp_state, NoticesKnown
  <2>2. CASE ~GlobalUnfinished
    <3> DEFINE m == [type |-> "wave_complete", wave |-> CompletedWave]
    <3>1. 0 \in Engine
      BY WaveAssumption DEF Engine
    <3>2. current_wave'[0] = current_wave[0] + 1 /\
          from_engine' = [from_engine EXCEPT ![0] = Append(@, m)]
      BY <1>3, <2>2, <3>1, Zenon DEF sync_dp_state
    <3>3. m \in EngineNotice /\ Reached(m, current_wave'[0])
      BY <3>1, <3>2, <1>n DEF EngineNotice, Reached, CompletedWave
    <3> HIDE DEF m
    <3>4. ASSUME NEW d \in Engine, NEW i \in DOMAIN from_engine'[d]
          PROVE  \/ i \in DOMAIN from_engine[d] /\ from_engine'[d][i] = from_engine[d][i]
                 \/ d = 0 /\ from_engine'[d][i] = m
      BY <3>2, <3>3, <3>4, NewNotice DEF Typed
    <3>5. QED
      BY <3>3, <3>4, <1>m, Zenon DEF NoticesKnown
  <2>3. QED
    BY <2>1, <2>2
<1>4. ASSUME NEW e \in Engine, start_dp_wave(e) PROVE NoticesKnown'
  BY <1>4, <1>m, Zenon DEF start_dp_wave, NoticesKnown
<1>5. ASSUME NEW e \in Engine, NEW c \in Client, add_request(e, c) PROVE NoticesKnown'
  <2>1. CASE UNCHANGED from_engine
    BY <2>1, <1>m DEF NoticesKnown
  <2>2. CASE from_engine' = [from_engine EXCEPT ![e] = Append(@, [type |-> "start_wave",
        wave |-> current_wave[e]])]
    <3> DEFINE m == [type |-> "start_wave", wave |-> current_wave[e]]
    <3>1. e \in Engine
      BY WaveAssumption DEF Engine
    <3>2. m \in EngineNotice /\ Reached(m, current_wave'[e])
      BY <1>5, <3>1, <1>n, Zenon DEF add_request, EngineNotice, Reached, Typed, TypeOK
    <3> HIDE DEF m
    <3>3. ASSUME NEW d \in Engine, NEW i \in DOMAIN from_engine'[d]
          PROVE  \/ i \in DOMAIN from_engine[d] /\ from_engine'[d][i] = from_engine[d][i]
                 \/ d = e /\ from_engine'[d][i] = m
      <4>1. from_engine' = [from_engine EXCEPT ![e] = Append(@, m)]
        BY <2>2 DEF m
      <4>2. QED
        BY <3>2, <3>3, <4>1, NewNotice DEF Typed
    <3>4. QED
      BY <3>2, <3>3, <1>m DEF NoticesKnown
  <2>3. QED
    BY <1>5, <2>1, <2>2 DEF add_request
<1>6. ASSUME NEW c \in Client, NEW r \in Request, NEW e \in Engine, add_request_async(c, r, e)
  PROVE NoticesKnown'
  BY <1>u, <1>6, Zenon DEF add_request_async
<1>7. ASSUME NEW c \in Client, first_request(c) \/ update_stats(c) \/ publish_stats(c) \/
  pause_scheduler_async(c) \/ resume_scheduler_async(c) \/ new_request(c) PROVE NoticesKnown'
  BY <1>u, <1>7, Zenon DEF first_request, update_stats, publish_stats, pause_scheduler_async,
    resume_scheduler_async, new_request
<1>8. ASSUME NEW r \in Request, abort_request(r) PROVE NoticesKnown'
  BY <1>u, <1>8, Zenon DEF abort_request
<1>9. ASSUME forward \/ resume_barrier PROVE NoticesKnown'
  BY <1>u, <1>9, Zenon DEF forward, resume_barrier
<1>10. ASSUME NEW e \in Engine, process_engine_step(e) \/ notify_idle_state_callbacks(e) PROVE
  NoticesKnown'
  BY <1>u, <1>10 DEF process_engine_step, notify_idle_state_callbacks
<1>11. ASSUME NEW e \in Engine, NEW c \in Client, abort_requests(e, c) \/ pause_scheduler(e,
  c) \/ resume_scheduler(e, c) PROVE NoticesKnown'
  BY <1>u, <1>11 DEF abort_requests, pause_scheduler, resume_scheduler
<1>12. CASE UNCHANGED vars
  BY <1>u, <1>12 DEF vars
<1>13. QED
  BY <1>1, <1>2, <1>3, <1>4, <1>5, <1>6, <1>7, <1>8, <1>9, <1>10, <1>11, <1>12 DEF
    CoordinatorStep, EngineStep, HandleClient, Collective, Next


\* The front-ends are told of a wave only when the coordinator has reached it.
LEMMA UpdatesNext ==
  ASSUME Typed, WorkLeft, UpdatesKnown, [Next]_vars
  PROVE  UpdatesKnown'
<1>u. ASSUME UNCHANGED <<cl_wave, stats, wave>> PROVE UpdatesKnown'
  BY <1>u DEF UpdatesKnown
<1> USE DEF engines, coordinator, clients, pausing
<1>n. wave \in Nat /\ wave' \in Nat /\ wave <= wave'
  BY CoordinatorWaveGrows, TypeOKNext DEF Typed, TypeOK
<1>m. \A c \in Client : cl_wave[c] <= wave' /\
      \A i \in DOMAIN stats[c] : stats[c][i].wave <= wave'
  <2>1. ASSUME NEW c \in Client PROVE cl_wave[c] <= wave'
    BY <1>n DEF UpdatesKnown, Typed, TypeOK
  <2>2. ASSUME NEW c \in Client, NEW i \in DOMAIN stats[c] PROVE stats[c][i].wave <= wave'
    <3>1. stats[c][i] \in Update
      BY DEF Typed, ChannelsTyped
    <3>2. QED
      BY <1>n, <3>1 DEF UpdatesKnown, Update
  <2>3. QED
    BY <2>1, <2>2
<1>1. ASSUME NEW c \in Client, update_stats(c) PROVE UpdatesKnown'
  <2>1. PICK n \in DOMAIN stats[c] :
          /\ cl_wave' = [cl_wave EXCEPT ![c] = stats[c][n].wave]
          /\ stats' = [stats EXCEPT ![c] = SubSeq(@, n + 1, Len(@))]
    BY <1>1, Zenon DEF update_stats
  <2>2. ASSUME NEW d \in Client, NEW i \in DOMAIN stats'[d]
        PROVE  \E j \in DOMAIN stats[d] : stats'[d][i] = stats[d][j]
    <3>1. CASE d # c
      BY <2>1, <3>1 DEF Typed, ChannelsTyped
    <3>2. CASE d = c
      <4>1. stats[c] \in Seq(Update) /\ stats'[c] = SubSeq(stats[c], n + 1, Len(stats[c]))
        BY <2>1, Zenon DEF Typed, ChannelsTyped
      <4>2. n + i \in DOMAIN stats[c] /\ stats'[c][i] = stats[c][n + i]
        BY <2>2, <3>2, <4>1
      <4>3. QED
        BY <3>2, <4>2
    <3>3. QED
      BY <3>1, <3>2
  <2>3. \A d \in Client : cl_wave'[d] <= wave
    BY <2>1 DEF Typed, TypeOK, UpdatesKnown
  <2>4. QED
    <3>1. wave' = wave
      BY <1>1, Zenon DEF update_stats
    <3>2. ASSUME NEW d \in Client, NEW i \in DOMAIN stats'[d] PROVE stats'[d][i].wave <= wave'
      BY <2>2, <3>1, <1>m, Zenon
    <3>3. QED
      BY <2>3, <3>1, <3>2, Zenon DEF UpdatesKnown
<1>2. ASSUME NEW c \in Client, publish_stats(c) PROVE UpdatesKnown'
  BY <1>2, <1>n DEF publish_stats, UpdatesKnown
<1>3. ASSUME NEW c \in Client, new_request(c) PROVE UpdatesKnown'
  <2>1. CASE UNCHANGED stats
    BY <1>3, <2>1, <1>m DEF new_request, UpdatesKnown
  <2>2. CASE Publish
    <3> DEFINE m == [wave |-> wave', running |-> running']
    <3>1. ASSUME NEW d \in Client, NEW i \in DOMAIN stats'[d]
          PROVE  stats'[d][i] = m \/ (i \in DOMAIN stats[d] /\ stats'[d][i] = stats[d][i])
      BY <2>2, <3>1 DEF Publish, Typed, ChannelsTyped
    <3>2. m.wave = wave' /\ wave' <= wave'
      BY <1>n
    <3> HIDE DEF m
    <3>3. QED
      BY <1>3, <3>1, <3>2, <1>m DEF new_request, UpdatesKnown
  <2>3. QED
    BY <1>3, <2>1, <2>2 DEF new_request
<1>4. ASSUME NEW e \in Engine, wave_complete(e) PROVE UpdatesKnown'
  <2>1. CASE UNCHANGED stats
    BY <1>4, <2>1, <1>m DEF wave_complete, UpdatesKnown
  <2>2. CASE Publish
    <3> DEFINE m == [wave |-> wave', running |-> running']
    <3>1. ASSUME NEW d \in Client, NEW i \in DOMAIN stats'[d]
          PROVE  stats'[d][i] = m \/ (i \in DOMAIN stats[d] /\ stats'[d][i] = stats[d][i])
      BY <2>2, <3>1 DEF Publish, Typed, ChannelsTyped
    <3>2. m.wave = wave' /\ wave' <= wave'
      BY <1>n
    <3> HIDE DEF m
    <3>3. QED
      BY <1>4, <3>1, <3>2, <1>m DEF wave_complete, UpdatesKnown
  <2>3. QED
    BY <1>4, <2>1, <2>2 DEF wave_complete
<1>5. ASSUME NEW e \in Engine, start_wave(e) PROVE UpdatesKnown'
  <2>1. CASE UNCHANGED stats
    BY <1>5, <2>1, <1>m DEF start_wave, UpdatesKnown
  <2>2. CASE Publish
    <3> DEFINE m == [wave |-> wave', running |-> running']
    <3>1. ASSUME NEW d \in Client, NEW i \in DOMAIN stats'[d]
          PROVE  stats'[d][i] = m \/ (i \in DOMAIN stats[d] /\ stats'[d][i] = stats[d][i])
      BY <2>2, <3>1 DEF Publish, Typed, ChannelsTyped
    <3>2. m.wave = wave' /\ wave' <= wave'
      BY <1>n
    <3> HIDE DEF m
    <3>3. QED
      BY <1>5, <3>1, <3>2, <1>m DEF start_wave, UpdatesKnown
  <2>3. QED
    BY <1>5, <2>1, <2>2 DEF start_wave
<1>6. ASSUME NEW c \in Client, NEW r \in Request, NEW e \in Engine, add_request_async(c, r, e)
  PROVE UpdatesKnown'
  BY <1>u, <1>6, Zenon DEF add_request_async
<1>7. ASSUME NEW c \in Client, first_request(c) \/ pause_scheduler_async(c) \/
  resume_scheduler_async(c) PROVE UpdatesKnown'
  BY <1>u, <1>7 DEF first_request, pause_scheduler_async, resume_scheduler_async
<1>8. ASSUME NEW r \in Request, abort_request(r) PROVE UpdatesKnown'
  BY <1>u, <1>8, Zenon DEF abort_request
<1>9. ASSUME forward \/ sync_dp_state \/ resume_barrier PROVE UpdatesKnown'
  BY <1>u, <1>9, Zenon DEF forward, sync_dp_state, resume_barrier
<1>10. ASSUME NEW e \in Engine, process_engine_step(e) \/ notify_idle_state_callbacks(e) \/
  start_dp_wave(e) PROVE UpdatesKnown'
  BY <1>u, <1>10, Zenon DEF process_engine_step, notify_idle_state_callbacks, start_dp_wave
<1>11. ASSUME NEW e \in Engine, NEW c \in Client, add_request(e, c) \/ abort_requests(e, c) \/
  pause_scheduler(e, c) \/ resume_scheduler(e, c) PROVE UpdatesKnown'
  BY <1>u, <1>11, Zenon DEF add_request, abort_requests, pause_scheduler, resume_scheduler
<1>12. CASE UNCHANGED vars
  BY <1>u, <1>12 DEF vars
<1>13. QED
  BY <1>1, <1>2, <1>3, <1>4, <1>5, <1>6, <1>7, <1>8, <1>9, <1>10, <1>11, <1>12 DEF
    CoordinatorStep, EngineStep, HandleClient, Collective, Next


\* The coordinator moves only to a wave that an engine has reached.
LEMMA WaveReachedNext ==
  ASSUME Typed, WorkLeft, NoticesKnown, WaveReached, [Next]_vars
  PROVE  WaveReached'
<1>u. ASSUME UNCHANGED <<wave, current_wave>> PROVE WaveReached'
  BY <1>u DEF WaveReached
<1> USE DEF engines, coordinator, clients, pausing
<1>n. wave \in Nat
  BY DEF Typed, TypeOK
<1>m. \A d \in Engine : current_wave[d] \in Nat /\ current_wave'[d] \in Nat /\
      current_wave[d] <= current_wave'[d]
  BY EngineWavesGrow, TypeOKNext DEF Typed, TypeOK
<1>1. ASSUME NEW e \in Engine, wave_complete(e) PROVE WaveReached'
  <2> DEFINE m == Head(from_engine[e])
  <2>1. m \in EngineNotice /\ 1 \in DOMAIN from_engine[e] /\ m = from_engine[e][1]
    BY <1>1, NextMessage DEF wave_complete, Typed, ChannelsTyped
  <2>2. m.wave \in Nat
    BY <2>1, Zenon DEF EngineNotice
  <2>3. m.type = "wave_complete"
    BY <1>1 DEF wave_complete
  <2>4. m.wave < current_wave[e]
    BY <2>1, <2>3 DEF NoticesKnown, Reached
  <2>5. CASE UNCHANGED wave
    BY <1>1, <2>5 DEF wave_complete, WaveReached
  <2>6. CASE wave' = m.wave + 1
    <3>1. wave' <= current_wave'[e]
      BY <1>1, <2>2, <2>4, <2>6 DEF wave_complete, Typed, TypeOK
    <3>2. QED
      BY <3>1 DEF WaveReached
  <2>7. QED
    BY <1>1, <2>5, <2>6 DEF wave_complete
<1>2. ASSUME NEW e \in Engine, start_wave(e) PROVE WaveReached'
  <2> DEFINE m == Head(from_engine[e])
  <2>1. m \in EngineNotice /\ 1 \in DOMAIN from_engine[e] /\ m = from_engine[e][1]
    BY <1>2, NextMessage DEF start_wave, Typed, ChannelsTyped
  <2>2. m.wave \in Nat
    BY <2>1 DEF EngineNotice
  <2>3. m.type = "start_wave"
    BY <1>2 DEF start_wave
  <2>4. m.wave <= current_wave[e]
    BY <2>1, <2>3 DEF NoticesKnown, Reached
  <2>5. CASE UNCHANGED wave
    BY <1>2, <2>5 DEF start_wave, WaveReached
  <2>6. CASE wave' = m.wave
    <3>1. wave' <= current_wave'[e]
      BY <1>2, <2>2, <2>4, <2>6 DEF start_wave, Typed, TypeOK
    <3>2. QED
      BY <3>1 DEF WaveReached
  <2>7. QED
    BY <1>2, <2>5, <2>6 DEF start_wave
<1>3. ASSUME sync_dp_state PROVE WaveReached'
  <2>1. PICK d \in Engine : wave <= current_wave[d]
    BY DEF WaveReached
  <2>2. wave <= current_wave'[d]
    BY <2>1, <1>m, <1>n
  <2>3. QED
    BY <1>3, <2>2 DEF sync_dp_state, WaveReached
<1>4. ASSUME NEW e \in Engine, start_dp_wave(e) PROVE WaveReached'
  <2>1. PICK d \in Engine : wave <= current_wave[d]
    BY DEF WaveReached
  <2>2. wave <= current_wave'[d]
    BY <2>1, <1>m, <1>n
  <2>3. QED
    BY <1>4, <2>2, Zenon DEF start_dp_wave, WaveReached
<1>5. ASSUME NEW e \in Engine, NEW c \in Client, add_request(e, c) PROVE WaveReached'
  <2>1. PICK d \in Engine : wave <= current_wave[d]
    BY DEF WaveReached
  <2>2. wave <= current_wave'[d]
    BY <2>1, <1>m, <1>n
  <2>3. QED
    BY <1>5, <2>2, Zenon DEF add_request, WaveReached
<1>6. ASSUME NEW c \in Client, NEW r \in Request, NEW e \in Engine, add_request_async(c, r, e)
  PROVE WaveReached'
  BY <1>u, <1>6, Zenon DEF add_request_async
<1>7. ASSUME NEW c \in Client, first_request(c) \/ update_stats(c) \/ publish_stats(c) \/
  pause_scheduler_async(c) \/ resume_scheduler_async(c) \/ new_request(c) PROVE WaveReached'
  BY <1>u, <1>7, Zenon DEF first_request, update_stats, publish_stats, pause_scheduler_async,
    resume_scheduler_async, new_request
<1>8. ASSUME NEW r \in Request, abort_request(r) PROVE WaveReached'
  BY <1>u, <1>8, Zenon DEF abort_request
<1>9. ASSUME forward \/ resume_barrier PROVE WaveReached'
  BY <1>u, <1>9, Zenon DEF forward, resume_barrier
<1>10. ASSUME NEW e \in Engine, process_engine_step(e) \/ notify_idle_state_callbacks(e) PROVE
  WaveReached'
  BY <1>u, <1>10 DEF process_engine_step, notify_idle_state_callbacks
<1>11. ASSUME NEW e \in Engine, NEW c \in Client, abort_requests(e, c) \/ pause_scheduler(e,
  c) \/ resume_scheduler(e, c) PROVE WaveReached'
  BY <1>u, <1>11 DEF abort_requests, pause_scheduler, resume_scheduler
<1>12. CASE UNCHANGED vars
  BY <1>u, <1>12 DEF vars
<1>13. QED
  BY <1>1, <1>2, <1>3, <1>4, <1>5, <1>6, <1>7, <1>8, <1>9, <1>10, <1>11, <1>12 DEF
    CoordinatorStep, EngineStep, HandleClient, Collective, Next


-----------------------------------------------------------------------------
(***************************************************************************)
(* Steps.                                                                  *)
(***************************************************************************)
\* Steps are counted, and the all-reduce is entered and left, by all together.
LEMMA LockstepNext ==
  ASSUME Typed, Lockstep, [Next]_vars
  PROVE  Lockstep'
<1>u. ASSUME UNCHANGED <<step_counter, pc>> PROVE Lockstep'
  BY <1>u DEF Lockstep
<1> USE DEF engines, coordinator, clients, pausing
<1>1. ASSUME forward PROVE Lockstep'
  BY <1>1, WaveAssumption, Zenon DEF forward, NextStep, Lockstep
<1>2. ASSUME sync_dp_state PROVE Lockstep'
  BY <1>2, WaveAssumption DEF sync_dp_state, Lockstep
<1>3. ASSUME resume_barrier PROVE Lockstep'
  BY <1>3, WaveAssumption, Zenon DEF resume_barrier, Lockstep
<1>4. ASSUME NEW e \in Engine, process_engine_step(e) PROVE Lockstep'
  BY <1>4, WaveAssumption DEF process_engine_step, Lockstep
<1>5. ASSUME NEW e \in Engine, NEW c \in Client, resume_scheduler(e, c) PROVE Lockstep'
  BY <1>5, WaveAssumption DEF resume_scheduler, Receive, Lockstep
<1>6. ASSUME NEW c \in Client, NEW r \in Request, NEW e \in Engine, add_request_async(c, r, e)
  PROVE Lockstep'
  BY <1>u, <1>6, Zenon DEF add_request_async
<1>7. ASSUME NEW c \in Client, first_request(c) \/ update_stats(c) \/ publish_stats(c) \/
  pause_scheduler_async(c) \/ resume_scheduler_async(c) \/ new_request(c) PROVE Lockstep'
  BY <1>u, <1>7, Zenon DEF first_request, update_stats, publish_stats, pause_scheduler_async,
    resume_scheduler_async, new_request
<1>8. ASSUME NEW r \in Request, abort_request(r) PROVE Lockstep'
  BY <1>u, <1>8, Zenon DEF abort_request
<1>9. ASSUME NEW e \in Engine, wave_complete(e) \/ start_wave(e) \/
  notify_idle_state_callbacks(e) \/ start_dp_wave(e) PROVE Lockstep'
  BY <1>u, <1>9, Zenon DEF wave_complete, start_wave, notify_idle_state_callbacks, start_dp_wave
<1>10. ASSUME NEW e \in Engine, NEW c \in Client, add_request(e, c) \/ abort_requests(e, c) \/
  pause_scheduler(e, c) PROVE Lockstep'
  BY <1>u, <1>10, Zenon DEF add_request, abort_requests, pause_scheduler
<1>11. CASE UNCHANGED vars
  BY <1>u, <1>11 DEF vars
<1>12. QED
  BY <1>1, <1>2, <1>3, <1>4, <1>5, <1>6, <1>7, <1>8, <1>9, <1>10, <1>11 DEF CoordinatorStep,
    EngineStep, HandleClient, Collective, Next

-----------------------------------------------------------------------------
(***************************************************************************)
(* Work.                                                                   *)
(***************************************************************************)
\* A request that was sent stays sent.
LEMMA SentStays ==
  ASSUME Typed, [Next]_vars
  PROVE  \A q \in Request : sent[q] # NotSent => sent'[q] # NotSent
<1>u. ASSUME UNCHANGED sent
      PROVE  \A q \in Request : sent[q] # NotSent => sent'[q] # NotSent
  BY <1>u
<1> USE DEF engines, coordinator, clients, pausing
<1>1. ASSUME NEW c \in Client, NEW r \in Request, NEW e \in Engine, add_request_async(c, r, e)
  PROVE \A q \in Request : sent[q] # NotSent => sent'[q] # NotSent
  <2>1. [client |-> c, engine |-> e] # NotSent
    BY WaveAssumption, Zenon DEF NotSent
  <2>2. QED
    BY <1>1, <2>1, Zenon DEF add_request_async, Typed, SentTyped
<1>2. ASSUME NEW c \in Client, first_request(c) \/ update_stats(c) \/ publish_stats(c) \/
  pause_scheduler_async(c) \/ resume_scheduler_async(c) \/ new_request(c) PROVE \A q \in
  Request : sent[q] # NotSent => sent'[q] # NotSent
  BY <1>u, <1>2, Zenon DEF first_request, update_stats, publish_stats, pause_scheduler_async,
    resume_scheduler_async, new_request
<1>3. ASSUME NEW r \in Request, abort_request(r) PROVE \A q \in Request : sent[q] # NotSent =>
  sent'[q] # NotSent
  BY <1>u, <1>3 DEF abort_request
<1>4. ASSUME NEW e \in Engine, wave_complete(e) \/ start_wave(e) \/ process_engine_step(e) \/
  notify_idle_state_callbacks(e) \/ start_dp_wave(e) PROVE \A q \in Request : sent[q] #
  NotSent => sent'[q] # NotSent
  BY <1>u, <1>4, Zenon DEF wave_complete, start_wave, process_engine_step,
    notify_idle_state_callbacks, start_dp_wave
<1>5. ASSUME forward \/ sync_dp_state \/ resume_barrier PROVE \A q \in Request : sent[q] #
  NotSent => sent'[q] # NotSent
  BY <1>u, <1>5, Zenon DEF forward, sync_dp_state, resume_barrier
<1>6. ASSUME NEW e \in Engine, NEW c \in Client, add_request(e, c) \/ abort_requests(e, c) \/
  pause_scheduler(e, c) \/ resume_scheduler(e, c) PROVE \A q \in Request : sent[q] # NotSent
  => sent'[q] # NotSent
  BY <1>u, <1>6, Zenon DEF add_request, abort_requests, pause_scheduler, resume_scheduler
<1>7. CASE UNCHANGED vars
  BY <1>u, <1>7 DEF vars
<1>8. QED
  BY <1>1, <1>2, <1>3, <1>4, <1>5, <1>6, <1>7, Zenon DEF CoordinatorStep, EngineStep,
        HandleClient,
    Collective, Next


\* An engine only has requests that were sent.
LEMMA ReqsSentNext ==
  ASSUME Typed, ReqsSent, InboxSent, [Next]_vars
  PROVE  ReqsSent'
<1>u. ASSUME UNCHANGED <<reqs, sent>> PROVE ReqsSent'
  BY <1>u DEF ReqsSent
<1> USE DEF engines, coordinator, clients, pausing
<1>m. \A q \in Request : sent[q] # NotSent => sent'[q] # NotSent
  BY SentStays
<1>1. ASSUME NEW c \in Client, NEW r \in Request, NEW e \in Engine, add_request_async(c, r, e)
  PROVE ReqsSent'
  <2>1. \A d \in Engine : reqs'[d] \subseteq Request
    BY <1>1, Zenon DEF add_request_async, Typed, TypeOK
  <2>2. QED
    BY <1>1, <2>1, <1>m, Zenon DEF add_request_async, ReqsSent
<1>2. ASSUME forward PROVE ReqsSent'
  <2>1. \A e \in Engine : reqs'[e] \subseteq reqs[e]
    BY <1>2, Zenon DEF forward
  <2>2. QED
    BY <1>2, <2>1, Zenon DEF forward, ReqsSent
<1>3. ASSUME NEW e \in Engine, NEW c \in Client, add_request(e, c) PROVE ReqsSent'
  <2> DEFINE m == Head(inbox[e][c])
  <2>1. c \in Sender /\ inbox[e][c] \in Seq(Message)
    BY DEF Typed, InboxTyped, Sender
  <2>2. m.type = "ADD" /\ inbox[e][c] # <<>>
    BY <1>3 DEF add_request, Receive
  <2>3. 1 \in DOMAIN inbox[e][c] /\ inbox[e][c][1] = m
    BY <2>1, <2>2, NextMessage
  <2>4. sent[m.req] # NotSent
    BY <2>1, <2>2, <2>3 DEF InboxSent, AddOK
  <2>5. \A d \in Engine : \A r \in reqs'[d] : r \in reqs[d] \/ r = m.req
    BY <1>3, Zenon DEF add_request, Typed, TypeOK
  <2>6. QED
    BY <1>3, <2>4, <2>5, Zenon DEF add_request, ReqsSent
<1>4. ASSUME NEW e \in Engine, NEW c \in Client, abort_requests(e, c) PROVE ReqsSent'
  <2>1. \A d \in Engine : reqs'[d] \subseteq reqs[d]
    BY <1>4 DEF abort_requests, Typed, TypeOK
  <2>2. QED
    BY <1>4, <2>1, Zenon DEF abort_requests, ReqsSent
<1>5. ASSUME NEW c \in Client, first_request(c) \/ update_stats(c) \/ publish_stats(c) \/
  pause_scheduler_async(c) \/ resume_scheduler_async(c) \/ new_request(c) PROVE ReqsSent'
  BY <1>u, <1>5, Zenon DEF first_request, update_stats, publish_stats, pause_scheduler_async,
    resume_scheduler_async, new_request
<1>6. ASSUME NEW r \in Request, abort_request(r) PROVE ReqsSent'
  BY <1>u, <1>6, Zenon DEF abort_request
<1>7. ASSUME NEW e \in Engine, wave_complete(e) \/ start_wave(e) \/ process_engine_step(e) \/
  notify_idle_state_callbacks(e) \/ start_dp_wave(e) PROVE ReqsSent'
  BY <1>u, <1>7, Zenon DEF wave_complete, start_wave, process_engine_step,
    notify_idle_state_callbacks, start_dp_wave
<1>8. ASSUME sync_dp_state \/ resume_barrier PROVE ReqsSent'
  BY <1>u, <1>8, Zenon DEF sync_dp_state, resume_barrier
<1>9. ASSUME NEW e \in Engine, NEW c \in Client, pause_scheduler(e, c) \/ resume_scheduler(e,
  c) PROVE ReqsSent'
  BY <1>u, <1>9 DEF pause_scheduler, resume_scheduler
<1>10. CASE UNCHANGED vars
  BY <1>u, <1>10 DEF vars
<1>11. QED
  BY <1>1, <1>2, <1>3, <1>4, <1>5, <1>6, <1>7, <1>8, <1>9, <1>10 DEF CoordinatorStep,
    EngineStep, HandleClient, Collective, Next


\* An engine only gets requests that were sent.
LEMMA InboxSentNext ==
  ASSUME Typed, InboxSent, [Next]_vars
  PROVE  InboxSent'
<1>u. ASSUME UNCHANGED <<inbox, sent>> PROVE InboxSent'
  BY <1>u DEF InboxSent
<1> USE DEF engines, coordinator, clients, pausing
<1>m. \A q \in Request : sent[q] # NotSent => sent'[q] # NotSent
  BY SentStays
<1>s. StaySent
  BY <1>m DEF StaySent, InboxSent, AddOK
<1>1. ASSUME NEW c \in Client, NEW r \in Request, NEW e \in Engine, add_request_async(c, r, e)
  PROVE InboxSent'
  <2> DEFINE m == [type |-> "ADD", req |-> r, wave |-> cl_wave[c]]
  <2>1. m \in Message /\ AddOK(m, sent') /\ c \in Sender
    <3>1. r \in Int /\ cl_wave[c] \in Nat
      BY WaveAssumption DEF Request, Typed, TypeOK
    <3>2. m \in Message /\ c \in Sender /\ m.req = r
      BY <3>1 DEF Message, Sender
    <3>3. sent'[r] = [client |-> c, engine |-> e] /\ c # Coordinator
      BY <1>1, WaveAssumption, Zenon DEF add_request_async, Typed, SentTyped
    <3>4. sent'[r] # NotSent
      BY <3>3 DEF NotSent
    <3>5. QED
      BY <3>2, <3>4 DEF AddOK
  <2> HIDE DEF m
  <2>2. OnlySends(c, m)
    <3>1. inbox' = ToEngine(e, c, m)
      BY <1>1, Zenon DEF add_request_async, m
    <3>2. /\ \A d \in Engine : d # e => inbox'[d] = inbox[d]
          /\ inbox'[e] = Put(inbox[e], c, m)
      BY <2>1, <3>1, SendOne, Zenon DEF Typed
    <3>3. QED
      BY <3>2, Zenon DEF OnlySends
  <2>3. QED
    BY <2>1, <2>2, <1>s, NewSent DEF Typed
<1>2. ASSUME NEW c \in Client, pause_scheduler_async(c) PROVE InboxSent'
  <2> DEFINE m == [type |-> "PAUSE", req |-> NoEngine, wave |-> 0]
  <2>1. m \in Message /\ AddOK(m, sent') /\ c \in Sender
    BY <1>2, WaveAssumption DEF pause_scheduler_async, NoEngine, AddOK, Message, Sender
  <2> HIDE DEF m
  <2>2. OnlySends(c, m)
    BY <1>2, <2>1, SendAll, Zenon DEF pause_scheduler_async, Typed, OnlySends, m
  <2>3. QED
    BY <2>1, <2>2, <1>s, NewSent DEF Typed
<1>3. ASSUME NEW c \in Client, resume_scheduler_async(c) PROVE InboxSent'
  <2> DEFINE m == [type |-> "RESUME", req |-> NoEngine, wave |-> 0]
  <2>1. m \in Message /\ AddOK(m, sent') /\ c \in Sender
    BY <1>3, WaveAssumption DEF resume_scheduler_async, NoEngine, AddOK, Message, Sender
  <2> HIDE DEF m
  <2>2. OnlySends(c, m)
    BY <1>3, <2>1, SendAll, Zenon DEF resume_scheduler_async, Typed, OnlySends, m
  <2>3. QED
    BY <2>1, <2>2, <1>s, NewSent DEF Typed
<1>4. ASSUME NEW r \in Request, abort_request(r) PROVE InboxSent'
  <2> DEFINE m == [type |-> "ABORT", req |-> r, wave |-> 0]
  <2>1. m \in Message /\ AddOK(m, sent')
    BY WaveAssumption DEF Request, AddOK, Message
  <2>2. PICK e \in Engine, s \in Sender : e = sent[r].engine /\ s = sent[r].client
    BY <1>4 DEF abort_request, Typed, SentTyped, Sender
  <2>3. inbox' = ToEngine(e, s, m)
    BY <1>4, <2>2, Zenon DEF abort_request
  <2> HIDE DEF m
  <2>4. OnlySends(s, m)
    <3>1. /\ \A d \in Engine : d # e => inbox'[d] = inbox[d]
          /\ inbox'[e] = Put(inbox[e], s, m)
      BY <2>1, <2>3, SendOne, Zenon DEF Typed
    <3>2. QED
      BY <3>1, Zenon DEF OnlySends
  <2>5. QED
    BY <2>1, <2>4, <1>s, NewSent DEF Typed
<1>5. ASSUME NEW c \in Client, new_request(c) PROVE InboxSent'
  <2>1. CASE UNCHANGED inbox
    BY <1>5, <2>1, <1>s DEF new_request, InboxSent, StaySent
  <2>2. CASE inbox' = SendStartWave(wave,
        (IF Head(from_client[c]).wave < wave THEN NoEngine ELSE Head(from_client[c]).target))
    <3> DEFINE m == [type |-> "START_DP_WAVE",
          req |-> (IF Head(from_client[c]).wave < wave THEN NoEngine ELSE
                Head(from_client[c]).target), wave |-> wave]
    <3>1. wave \in Nat /\ (IF Head(from_client[c]).wave < wave THEN NoEngine ELSE
          Head(from_client[c]).target) \in Int
      <4>1. Head(from_client[c]) \in ClientNotice
        BY <1>5, NextMessage DEF new_request, Typed, ChannelsTyped
      <4>2. QED
        BY <4>1, WaveAssumption DEF NoEngine, Engine, ClientNotice, Typed, TypeOK
    <3>2. m \in Message /\ AddOK(m, sent') /\ Coordinator \in Sender
      BY <3>1 DEF AddOK, Message, Sender
    <3> HIDE DEF m
    <3>3. OnlySends(Coordinator, m)
      BY <2>2, <3>2, SendAll, Zenon DEF SendStartWave, Typed, OnlySends, m
    <3>4. QED
      BY <3>2, <3>3, <1>s, NewSent DEF Typed
  <2>3. QED
    BY <1>5, <2>1, <2>2 DEF new_request
<1>6. ASSUME NEW e \in Engine, start_wave(e) PROVE InboxSent'
  <2>1. CASE UNCHANGED inbox
    BY <1>6, <2>1, <1>s DEF start_wave, InboxSent, StaySent
  <2>2. CASE inbox' = SendStartWave(Head(from_engine[e]).wave, e)
    <3> DEFINE m == [type |-> "START_DP_WAVE", req |-> e, wave |-> Head(from_engine[e]).wave]
    <3>1. Head(from_engine[e]).wave \in Nat /\ e \in Int
      <4>1. Head(from_engine[e]) \in EngineNotice
        BY <1>6, NextMessage DEF start_wave, Typed, ChannelsTyped
      <4>2. QED
        BY <4>1, WaveAssumption DEF Engine, EngineNotice
    <3>2. m \in Message /\ AddOK(m, sent') /\ Coordinator \in Sender
      BY <3>1 DEF AddOK, Message, Sender
    <3> HIDE DEF m
    <3>3. OnlySends(Coordinator, m)
      BY <2>2, <3>2, SendAll, Zenon DEF SendStartWave, Typed, OnlySends, m
    <3>4. QED
      BY <3>2, <3>3, <1>s, NewSent DEF Typed
  <2>3. QED
    BY <1>6, <2>1, <2>2 DEF start_wave
<1>7. ASSUME NEW e \in Engine, start_dp_wave(e) PROVE InboxSent'
  <2>1. Receive(e, Coordinator, "START_DP_WAVE") /\ Coordinator \in Sender
    BY <1>7, Zenon DEF start_dp_wave, Sender
  <2>2. QED
    BY <2>1, <1>s, OneLess, Zenon DEF Typed
<1>8. ASSUME NEW e \in Engine, NEW c \in Client, add_request(e, c) PROVE InboxSent'
  <2>1. Receive(e, c, "ADD") /\ c \in Sender
    BY <1>8, Zenon DEF add_request, Sender
  <2>2. QED
    BY <2>1, <1>s, OneLess, Zenon DEF Typed
<1>9. ASSUME NEW e \in Engine, NEW c \in Client, abort_requests(e, c) PROVE InboxSent'
  <2>1. Receive(e, c, "ABORT") /\ c \in Sender
    BY <1>9, Zenon DEF abort_requests, Sender
  <2>2. QED
    BY <2>1, <1>s, OneLess, Zenon DEF Typed
<1>10. ASSUME NEW e \in Engine, NEW c \in Client, pause_scheduler(e, c) PROVE InboxSent'
  <2>1. Receive(e, c, "PAUSE") /\ c \in Sender
    BY <1>10, Zenon DEF pause_scheduler, Sender
  <2>2. QED
    BY <2>1, <1>s, OneLess, Zenon DEF Typed
<1>11. ASSUME NEW e \in Engine, NEW c \in Client, resume_scheduler(e, c) PROVE InboxSent'
  <2>1. Receive(e, c, "RESUME") /\ c \in Sender
    BY <1>11, Zenon DEF resume_scheduler, Sender
  <2>2. QED
    BY <2>1, <1>s, OneLess, Zenon DEF Typed
<1>12. ASSUME NEW c \in Client, first_request(c) \/ update_stats(c) \/ publish_stats(c) PROVE
  InboxSent'
  BY <1>12, <1>s, Zenon DEF first_request, update_stats, publish_stats, InboxSent, StaySent
<1>13. ASSUME NEW e \in Engine, wave_complete(e) \/ process_engine_step(e) \/
  notify_idle_state_callbacks(e) PROVE InboxSent'
  BY <1>13, <1>s, Zenon DEF wave_complete, process_engine_step, notify_idle_state_callbacks,
    InboxSent, StaySent
<1>14. ASSUME forward \/ sync_dp_state \/ resume_barrier PROVE InboxSent'
  BY <1>14, <1>s, Zenon DEF forward, sync_dp_state, resume_barrier, InboxSent, StaySent
<1>15. CASE UNCHANGED vars
  BY <1>15, <1>s DEF vars, InboxSent, StaySent
<1>16. QED
  BY <1>1, <1>2, <1>3, <1>4, <1>5, <1>6, <1>7, <1>8, <1>9, <1>10, <1>11, <1>12, <1>13, <1>14,
    <1>15 DEF CoordinatorStep, EngineStep, HandleClient, Collective, Next


\* A request is finished in its last forward pass.
LEMMA PassesLeftNext ==
  ASSUME Typed, PassesLeft, [Next]_vars
  PROVE  PassesLeft'
<1>u. ASSUME UNCHANGED <<sent, finished, left>> PROVE PassesLeft'
  BY <1>u DEF PassesLeft
<1> USE DEF engines, coordinator, clients, pausing
<1>1. ASSUME NEW c \in Client, NEW r \in Request, NEW e \in Engine, add_request_async(c, r, e)
  PROVE PassesLeft'
  <2>1. PICK n \in 1 .. MaxPasses : left' = [left EXCEPT ![r] = n]
    BY <1>1, Zenon DEF add_request_async
  <2>2. /\ sent' = [sent EXCEPT ![r] = [client |-> c, engine |-> e]]
        /\ finished' = finished
    BY <1>1, Zenon DEF add_request_async
  <2>3. n >= 1 /\ left'[r] = n
    BY <2>1, WaveAssumption DEF Typed, TypeOK
  <2>4. ASSUME NEW q \in Request, q # r PROVE left'[q] = left[q] /\ sent'[q] = sent[q]
    BY <2>1, <2>2, <2>4, Zenon DEF Typed, TypeOK, SentTyped
  <2>5. QED
    BY <2>2, <2>3, <2>4 DEF PassesLeft
<1>2. ASSUME NEW r \in Request, abort_request(r) PROVE PassesLeft'
  BY <1>2, Zenon DEF abort_request, ToEngine, PassesLeft
<1>3. ASSUME forward PROVE PassesLeft'
  <2> DEFINE advanced == (UNION {reqs[e] : e \in {d \in Engine : ~paused[d]}}) \ finished
  <2>1. /\ left' = [r \in Request |-> IF r \in advanced THEN left[r] - 1 ELSE left[r]]
        /\ finished' = finished \cup {r \in advanced : left[r] = 1}
        /\ sent' = sent
    BY <1>3, Zenon DEF forward
  <2> HIDE DEF advanced
  <2>2. QED
    BY <2>1 DEF PassesLeft, Typed, TypeOK
<1>4. ASSUME NEW c \in Client, first_request(c) \/ update_stats(c) \/ publish_stats(c) \/
  pause_scheduler_async(c) \/ resume_scheduler_async(c) \/ new_request(c) PROVE PassesLeft'
  BY <1>u, <1>4, Zenon DEF first_request, update_stats, publish_stats, pause_scheduler_async,
    resume_scheduler_async, new_request
<1>5. ASSUME NEW e \in Engine, wave_complete(e) \/ start_wave(e) \/ process_engine_step(e) \/
  notify_idle_state_callbacks(e) \/ start_dp_wave(e) PROVE PassesLeft'
  BY <1>u, <1>5, Zenon DEF wave_complete, start_wave, process_engine_step,
    notify_idle_state_callbacks, start_dp_wave
<1>6. ASSUME sync_dp_state \/ resume_barrier PROVE PassesLeft'
  BY <1>u, <1>6, Zenon DEF sync_dp_state, resume_barrier
<1>7. ASSUME NEW e \in Engine, NEW c \in Client, add_request(e, c) \/ abort_requests(e, c) \/
  pause_scheduler(e, c) \/ resume_scheduler(e, c) PROVE PassesLeft'
  BY <1>u, <1>7, Zenon DEF add_request, abort_requests, pause_scheduler, resume_scheduler
<1>8. CASE UNCHANGED vars
  BY <1>u, <1>8 DEF vars
<1>9. QED
  BY <1>1, <1>2, <1>3, <1>4, <1>5, <1>6, <1>7, <1>8 DEF CoordinatorStep, EngineStep,
    HandleClient, Collective, Next

-----------------------------------------------------------------------------
(***************************************************************************)
(* Pauses.                                                                 *)
(***************************************************************************)
\* no PAUSE and no RESUME comes or goes
SameCalls ==
  \A d \in Engine : \A t \in {"PAUSE", "RESUME"} :
    /\ Called(inbox'[d], t) <=> Called(inbox[d], t)
    /\ CalledOnce(inbox[d], t) => CalledOnce(inbox'[d], t)

flags == <<pc, engines_running, paused, pending_pause, ignore_start_dp_wave, idle_callback,
           pause, acks>>

\* A step of no concern to the pause.
LEMMA PhasesKept ==
  ASSUME Phases, SameCalls, UNCHANGED flags
  PROVE  Phases'
BY Zenon DEF Phases, SameCalls, flags, Unpaused, Asked, Pending, Agreed, Resumed

\* Other messages are no calls.
LEMMA OtherSent ==
  ASSUME InboxTyped, NEW s \in Sender, NEW m \in Message, m.type \notin {"PAUSE", "RESUME"},
         \/ \E e \in Engine : inbox' = ToEngine(e, s, m)
         \/ inbox' = ToEngines(s, m)
  PROVE  SameCalls
<1>1. CASE \E e \in Engine : inbox' = ToEngine(e, s, m)
  <2>1. PICK e \in Engine : inbox' = ToEngine(e, s, m)
    BY <1>1
  <2>2. \A d \in Engine : \A t : t # m.type =>
          /\ Called(inbox'[d], t) <=> Called(inbox[d], t)
          /\ CalledOnce(inbox[d], t) => CalledOnce(inbox'[d], t)
    BY <2>1, SendOne
  <2>3. QED
    BY <2>2, Zenon DEF SameCalls
<1>2. CASE inbox' = ToEngines(s, m)
  BY <1>2, SendAll, Zenon DEF SameCalls
<1>3. QED
  BY <1>1, <1>2

\* Nor do they change the calls when they are handled.
LEMMA OtherReceived ==
  ASSUME InboxTyped, NEW e \in Engine, NEW s \in Sender, NEW u, u \notin {"PAUSE", "RESUME"},
         Receive(e, s, u)
  PROVE  SameCalls
BY Received, Zenon DEF SameCalls

\* The all-reduce counts the engines: it sees a pause of some, not of all.
LEMMA PauseCounted ==
  /\ PausePending = Engine => Cardinality(PausePending) % dp_size = 0
  /\ PausePending # Engine /\ PausePending # {} => Cardinality(PausePending) % dp_size # 0
<1>1. IsFiniteSet(Engine) /\ Cardinality(Engine) = dp_size
  <2>1. dp_size \in Nat \ {0} /\ 0 \in Int /\ dp_size - 1 \in Int
    BY WaveAssumption
  <2>2. QED
    BY <2>1, FS_Interval DEF Engine
<1>2. PausePending \subseteq Engine
  BY DEF PausePending
<1>3. IsFiniteSet(PausePending) /\ Cardinality(PausePending) \in Nat
  BY <1>1, <1>2, FS_Subset, FS_CardinalityType
<1>4. dp_size \in Nat \ {0}
  BY WaveAssumption
<1>5. dp_size % dp_size = 0
  BY <1>4
<1>6. ASSUME PausePending # Engine, PausePending # {}
      PROVE  Cardinality(PausePending) % dp_size # 0
  <2>1. Cardinality(PausePending) < dp_size
    <3>1. Cardinality(PausePending) <= dp_size /\ Cardinality(PausePending) # dp_size
      BY <1>1, <1>2, <1>6, FS_Subset
    <3>2. QED
      BY <1>3, <1>4, <3>1
  <2>2. Cardinality(PausePending) # 0
    BY <1>3, <1>6, FS_EmptySet
  <2>3. QED
    BY <1>3, <1>4, <2>1, <2>2
<1>7. QED
  BY <1>1, <1>5, <1>6

\* nothing about engine d changes that the phases speak of
Same(d) ==
  /\ inbox'[d] = inbox[d] /\ pc'[d] = pc[d] /\ engines_running'[d] = engines_running[d]
  /\ paused'[d] = paused[d] /\ pending_pause'[d] = pending_pause[d]
  /\ ignore_start_dp_wave'[d] = ignore_start_dp_wave[d] /\ idle_callback'[d] = idle_callback[d]

OnlyAt(f, g, e) == g = f \/ \E v : g = [f EXCEPT ![e] = v]

\* A step of one engine says nothing of another.
LEMMA EngineSame ==
  ASSUME TypeOK, PauseTyped, NEW e \in Engine, NEW d \in Engine, d # e, inbox'[d] = inbox[d],
         OnlyAt(pc, pc', e), OnlyAt(engines_running, engines_running', e),
         OnlyAt(paused, paused', e), OnlyAt(pending_pause, pending_pause', e),
         OnlyAt(ignore_start_dp_wave, ignore_start_dp_wave', e),
         OnlyAt(idle_callback, idle_callback', e)
  PROVE  Same(d)
<1>1. ASSUME NEW S, NEW f \in [Engine -> S], NEW g, OnlyAt(f, g, e) PROVE g[d] = f[d]
  BY <1>1 DEF OnlyAt
<1>2. pc'[d] = pc[d] /\ engines_running'[d] = engines_running[d]
  BY <1>1, Zenon DEF TypeOK
<1>3. /\ paused'[d] = paused[d] /\ pending_pause'[d] = pending_pause[d]
      /\ ignore_start_dp_wave'[d] = ignore_start_dp_wave[d]
      /\ idle_callback'[d] = idle_callback[d]
  BY <1>1 DEF PauseTyped
<1>4. QED
  BY <1>2, <1>3 DEF Same

\* A pause goes through its phases, on all engines together.
LEMMA PhasesNext ==
  ASSUME Typed, Phases, [Next]_vars
  PROVE  Phases'
<1> USE DEF engines, coordinator, clients, pausing
<1>1. ASSUME NEW c \in Client, NEW r \in Request, NEW e \in Engine, add_request_async(c, r, e)
  PROVE Phases'
  <2> DEFINE m == [type |-> "ADD", req |-> r, wave |-> cl_wave[c]]
  <2>1. m \in Message /\ m.type \notin {"PAUSE", "RESUME"} /\ c \in Sender
    <3>1. r \in Int /\ cl_wave[c] \in Nat
      BY WaveAssumption DEF Request, Typed, TypeOK
    <3>2. QED
      BY <3>1 DEF Message, Sender
  <2> HIDE DEF m
  <2>2. SameCalls
    BY <1>1, <2>1, OtherSent, Zenon DEF add_request_async, Typed, m
  <2>3. QED
    BY <1>1, <2>2, PhasesKept, Zenon DEF add_request_async, flags
<1>2. ASSUME NEW c \in Client, pause_scheduler_async(c) PROVE Phases'
  <2> DEFINE m == [type |-> "PAUSE", req |-> NoEngine, wave |-> 0]
  <2>1. m \in Message /\ m.type = "PAUSE" /\ c \in Sender
    BY DEF Message, NoEngine, Sender
  <2>2. inbox' = ToEngines(c, m)
    BY <1>2 DEF pause_scheduler_async
  <2> HIDE DEF m
  <2>3. \A d \in Engine :
          /\ Called(inbox'[d], "RESUME") <=> Called(inbox[d], "RESUME")
          /\ CalledOnce(inbox[d], "RESUME") => CalledOnce(inbox'[d], "RESUME")
          /\ Called(inbox'[d], "PAUSE")
          /\ ~Called(inbox[d], "PAUSE") => CalledOnce(inbox'[d], "PAUSE")
    BY <2>1, <2>2, SendAll, Zenon DEF Typed
  <2>4. \A d \in Engine : Unpaused(d) /\ ~Called(inbox[d], "PAUSE") /\ ~Called(inbox[d],
        "RESUME") /\ pc[d] # "resume"
    BY <1>2, Zenon DEF pause_scheduler_async, Phases
  <2>5. QED
    BY <1>2, <2>3, <2>4, Zenon DEF pause_scheduler_async, Phases, Asked, Unpaused
<1>3. ASSUME NEW c \in Client, resume_scheduler_async(c) PROVE Phases'
  <2> DEFINE m == [type |-> "RESUME", req |-> NoEngine, wave |-> 0]
  <2>1. m \in Message /\ m.type = "RESUME" /\ c \in Sender
    BY DEF Message, NoEngine, Sender
  <2>2. inbox' = ToEngines(c, m)
    BY <1>3 DEF resume_scheduler_async
  <2> HIDE DEF m
  <2>3. \A d \in Engine :
          /\ Called(inbox'[d], "PAUSE") <=> Called(inbox[d], "PAUSE")
          /\ CalledOnce(inbox[d], "PAUSE") => CalledOnce(inbox'[d], "PAUSE")
          /\ Called(inbox'[d], "RESUME")
          /\ ~Called(inbox[d], "RESUME") => CalledOnce(inbox'[d], "RESUME")
    BY <2>1, <2>2, SendAll, Zenon DEF Typed
  <2>4. acks # {}
    BY <1>3, WaveAssumption DEF resume_scheduler_async, Engine
  <2>5. \A d \in Engine : Agreed(d) /\ ~Called(inbox[d], "RESUME") /\ ~idle_callback[d]
    BY <1>3, <2>4, Zenon DEF resume_scheduler_async, Phases
  <2>6. QED
    BY <1>3, <2>3, <2>5, Zenon DEF resume_scheduler_async, Phases, Agreed
<1>4. ASSUME NEW r \in Request, abort_request(r) PROVE Phases'
  <2> DEFINE m == [type |-> "ABORT", req |-> r, wave |-> 0]
  <2>1. m \in Message /\ m.type \notin {"PAUSE", "RESUME"} /\ sent[r].client \in Sender /\
        sent[r].engine \in Engine
    BY <1>4 DEF abort_request, Typed, SentTyped, Request, Message, Sender
  <2> HIDE DEF m
  <2>2. SameCalls
    BY <1>4, <2>1, OtherSent, Zenon DEF abort_request, Typed, m
  <2>3. QED
    BY <1>4, <2>2, PhasesKept, Zenon DEF abort_request, flags
<1>5. ASSUME NEW c \in Client, new_request(c) PROVE Phases'
  <2>1. CASE UNCHANGED inbox
    BY <1>5, <2>1, PhasesKept DEF new_request, flags, SameCalls
  <2>2. CASE inbox' = SendStartWave(wave,
        (IF Head(from_client[c]).wave < wave THEN NoEngine ELSE Head(from_client[c]).target))
    <3> DEFINE m == [type |-> "START_DP_WAVE",
          req |-> (IF Head(from_client[c]).wave < wave THEN NoEngine ELSE
                Head(from_client[c]).target), wave |-> wave]
    <3>1. wave \in Nat /\ (IF Head(from_client[c]).wave < wave THEN NoEngine ELSE
          Head(from_client[c]).target) \in Int
      <4>1. Head(from_client[c]) \in ClientNotice
        BY <1>5, NextMessage DEF new_request, Typed, ChannelsTyped
      <4>2. QED
        BY <4>1, WaveAssumption DEF NoEngine, Engine, ClientNotice, Typed, TypeOK
    <3>2. m \in Message /\ m.type \notin {"PAUSE", "RESUME"} /\ Coordinator \in Sender
      BY <3>1 DEF Message, Sender
    <3> HIDE DEF m
    <3>3. SameCalls
      BY <2>2, <3>2, OtherSent, Zenon DEF SendStartWave, Typed, m
    <3>4. QED
      BY <1>5, <3>3, PhasesKept DEF new_request, flags
  <2>3. QED
    BY <1>5, <2>1, <2>2, Zenon DEF new_request
<1>6. ASSUME NEW e \in Engine, start_wave(e) PROVE Phases'
  <2>1. CASE UNCHANGED inbox
    BY <1>6, <2>1, PhasesKept, Zenon DEF start_wave, flags, SameCalls
  <2>2. CASE inbox' = SendStartWave(Head(from_engine[e]).wave, e)
    <3> DEFINE m == [type |-> "START_DP_WAVE", req |-> e, wave |-> Head(from_engine[e]).wave]
    <3>1. Head(from_engine[e]).wave \in Nat /\ e \in Int
      <4>1. Head(from_engine[e]) \in EngineNotice
        BY <1>6, NextMessage DEF start_wave, Typed, ChannelsTyped
      <4>2. QED
        BY <4>1, WaveAssumption DEF Engine, EngineNotice
    <3>2. m \in Message /\ m.type \notin {"PAUSE", "RESUME"} /\ Coordinator \in Sender
      BY <3>1 DEF Message, Sender
    <3> HIDE DEF m
    <3>3. SameCalls
      BY <2>2, <3>2, OtherSent, Zenon DEF SendStartWave, Typed, m
    <3>4. QED
      BY <1>6, <3>3, PhasesKept DEF start_wave, flags
  <2>3. QED
    BY <1>6, <2>1, <2>2, Zenon DEF start_wave
<1>7. ASSUME forward PROVE Phases'
  <2>1. 0 \in Engine
    BY WaveAssumption DEF Engine
  <2>2. ~Agreed(0) /\ ~Resumed(0)
    BY <1>7, <2>1, Zenon DEF forward, Agreed, Resumed
  <2>3. ASSUME NEW e \in Engine PROVE pc'[e] # "resume" /\ (engines_running[e] =>
        engines_running'[e])
    BY <1>7, Zenon DEF forward
  <2>4. QED
    BY <1>7, <2>1, <2>2, <2>3, Zenon DEF forward, Phases, Unpaused, Asked, Pending, Agreed,
          Resumed
<1>8. ASSUME sync_dp_state PROVE Phases'
  <2>1. 0 \in Engine
    BY WaveAssumption DEF Engine
  <2>2. ~Agreed(0) /\ ~Resumed(0)
    BY <1>8, <2>1, Zenon DEF sync_dp_state, Agreed, Resumed
  <2>3. /\ \A e \in Engine :
             /\ engines_running'[e] <=> GlobalUnfinished
             /\ ignore_start_dp_wave'[e] <=> PausePending = Engine \/ ignore_start_dp_wave[e]
             /\ pending_pause'[e] <=> pending_pause[e] /\ PausePending # Engine
             /\ pc'[e] = "input"
        /\ UNCHANGED <<paused, idle_callback, inbox, pause, acks>>
    BY <1>8, Zenon DEF sync_dp_state
  <2>4. CASE PausePending = {}
    <3>1. \A e \in Engine : ~Pending(e)
      BY <2>4 DEF PausePending, Pending
    <3>2. PausePending # Engine
      BY <2>1, <2>4
    <3>3. QED
      BY <2>1, <2>2, <2>3, <3>1, <3>2, Zenon DEF Phases, Unpaused, Asked, Pending, Agreed, Resumed
  <2>5. CASE PausePending # {} /\ PausePending # Engine
    <3>1. GlobalUnfinished
      BY <2>5, PauseCounted DEF GlobalUnfinished
    <3>2. QED
      BY <2>1, <2>2, <2>3, <2>5, <3>1, Zenon DEF Phases, Unpaused, Asked, Pending, Agreed, Resumed
  <2>6. CASE PausePending = Engine
    <3>1. \A e \in Engine : pending_pause[e]
      BY <2>6 DEF PausePending
    <3>2. pause = "pausing" /\ acks = {} /\ \A e \in Engine : Pending(e) /\ ~Called(inbox[e],
          "RESUME")
      BY <2>1, <2>2, <3>1, Zenon DEF Phases, Unpaused, Asked, Pending, Agreed, Resumed
    <3>3. ~GlobalUnfinished
      BY <2>6, <3>2, PauseCounted DEF GlobalUnfinished, Unfinished, Pending
    <3>4. QED
      BY <2>3, <2>6, <3>2, <3>3, Zenon DEF Phases, Pending, Agreed
  <2>7. QED
    BY <2>4, <2>5, <2>6
<1>9. ASSUME resume_barrier PROVE Phases'
  <2>1. 0 \in Engine
    BY WaveAssumption DEF Engine
  <2>2. \A e \in Engine : ~Agreed(e)
    BY <1>9, Zenon DEF resume_barrier, Agreed
  <2>3. \A e \in Engine : Resumed(e) /\ ~Called(inbox[e], "PAUSE")
    BY <1>9, <2>1, <2>2 DEF resume_barrier, Phases
  <2>4. QED
    BY <1>9, <2>3, Zenon DEF resume_barrier, Phases, Resumed, Unpaused
<1>10. ASSUME NEW e \in Engine, process_engine_step(e) PROVE Phases'
  <2>1. ~Agreed(e) /\ ~Resumed(e)
    BY <1>10, Zenon DEF process_engine_step, has_work, Unfinished, Agreed, Resumed
  <2>2. QED
    BY <1>10, <2>1, Zenon DEF process_engine_step, Phases, Typed, TypeOK, Unpaused, Asked,
          Pending,
          Agreed, Resumed
<1>11. ASSUME NEW e \in Engine, notify_idle_state_callbacks(e) PROVE Phases'
  <2>1. ~Asked(e) /\ ~Pending(e) /\ ~Unpaused(e)
    BY <1>11, Zenon DEF notify_idle_state_callbacks, has_work, Asked, Pending, Unpaused
  <2>2. pause = "pausing" /\
        \A d \in Engine : Agreed(d) /\ ~Called(inbox[d], "RESUME") /\
              (d \in acks <=> ~idle_callback[d])
    BY <1>11, <2>1, Zenon DEF notify_idle_state_callbacks, Phases, Resumed
  <2>3. \A d \in Engine : d \in acks' <=> ~idle_callback'[d]
    BY <1>11, <2>2, Zenon DEF notify_idle_state_callbacks, Typed, PauseTyped
  <2>4. QED
    BY <1>11, <2>2, <2>3, Zenon DEF notify_idle_state_callbacks, Phases, Agreed
<1>12. ASSUME NEW e \in Engine, start_dp_wave(e) PROVE Phases'
  <2>1. SameCalls
    BY <1>12, OtherReceived, Zenon DEF start_dp_wave, Typed, Sender
  <2>2. CASE UNCHANGED engines_running
    BY <1>12, <2>1, <2>2, PhasesKept, Zenon DEF start_dp_wave, flags
  <2>3. CASE ~ignore_start_dp_wave[e] /\ engines_running' = [engines_running EXCEPT ![e] = TRUE]
    <3>1. ~Agreed(e) /\ ~Resumed(e)
      BY <1>12, <2>3 DEF start_dp_wave, Receive, Agreed, Resumed
    <3>2. ASSUME NEW d \in Engine
          PROVE  /\ d # e => engines_running'[d] = engines_running[d]
                 /\ engines_running[d] => engines_running'[d]
      BY <2>3, Zenon DEF Typed, TypeOK
    <3>3. QED
      BY <1>12, <2>1, <3>1, <3>2, Zenon DEF start_dp_wave, Phases, SameCalls, Unpaused, Asked,
            Pending,
            Agreed, Resumed
  <2>4. QED
    BY <1>12, <2>2, <2>3, Zenon DEF start_dp_wave
<1>13. ASSUME NEW e \in Engine, NEW c \in Client, add_request(e, c) PROVE Phases'
  <2>1. SameCalls
    BY <1>13, OtherReceived DEF add_request, Typed, Sender
  <2>2. CASE UNCHANGED engines_running
    BY <1>13, <2>1, <2>2, PhasesKept DEF add_request, flags
  <2>3. CASE ~paused[e] /\ engines_running' = [engines_running EXCEPT ![e] = TRUE]
    <3>1. ~Agreed(e) /\ ~Resumed(e)
      BY <1>13, <2>3 DEF add_request, Receive, Agreed, Resumed
    <3>2. ASSUME NEW d \in Engine
          PROVE  /\ d # e => engines_running'[d] = engines_running[d]
                 /\ engines_running[d] => engines_running'[d]
      BY <2>3, Zenon DEF Typed, TypeOK
    <3>3. QED
      BY <1>13, <2>1, <3>1, <3>2, Zenon DEF add_request, Phases, SameCalls, Unpaused, Asked,
            Pending,
            Agreed, Resumed
  <2>4. QED
    BY <1>13, <2>2, <2>3 DEF add_request
<1>14. ASSUME NEW e \in Engine, NEW c \in Client, abort_requests(e, c) PROVE Phases'
  <2>1. SameCalls
    BY <1>14, OtherReceived DEF abort_requests, Typed, Sender
  <2>2. QED
    BY <1>14, <2>1, PhasesKept DEF abort_requests, flags
<1>15. ASSUME NEW e \in Engine, NEW c \in Client, pause_scheduler(e, c) PROVE Phases'
  <2>1. /\ Called(inbox[e], "PAUSE")
        /\ CalledOnce(inbox[e], "PAUSE") => ~Called(inbox'[e], "PAUSE")
        /\ \A d \in Engine : \A t : CalledOnce(inbox[d], t) => CalledOnce(inbox'[d], t)
        /\ \A d \in Engine : Called(inbox'[d], "RESUME") <=> Called(inbox[d], "RESUME")
        /\ \A d \in Engine : d # e => inbox'[d] = inbox[d]
    BY <1>15, Received, Zenon DEF pause_scheduler, Typed, Sender
  <2>2. pause = "pausing" /\ acks = {} /\ Asked(e) /\
        \A d \in Engine : (Asked(d) \/ Pending(d)) /\ ~Called(inbox[d], "RESUME") /\
              pc[d] # "resume"
    BY <2>1, Zenon DEF Phases, Unpaused, Asked, Pending, Agreed, Resumed
  <2>3. Pending(e)'
    BY <1>15, <2>1, <2>2, Zenon DEF pause_scheduler, Pending, Asked, Unpaused, Phases, Typed,
          TypeOK,
          PauseTyped
  <2>4. ASSUME NEW d \in Engine, d # e PROVE (Asked(d) \/ Pending(d))'
    <3>1. Same(d)
      BY <1>15, <2>1, <2>4, EngineSame, Zenon DEF pause_scheduler, OnlyAt, Typed
    <3>2. QED
      BY <2>2, <3>1, Zenon DEF Same, Pending, Asked, Unpaused
  <2>5. QED
    BY <1>15, <2>1, <2>2, <2>3, <2>4, Zenon DEF pause_scheduler, Phases
<1>16. ASSUME NEW e \in Engine, NEW c \in Client, resume_scheduler(e, c) PROVE Phases'
  <2>1. /\ Called(inbox[e], "RESUME")
        /\ CalledOnce(inbox[e], "RESUME") => ~Called(inbox'[e], "RESUME")
        /\ \A d \in Engine : \A t : CalledOnce(inbox[d], t) => CalledOnce(inbox'[d], t)
        /\ \A d \in Engine : Called(inbox'[d], "PAUSE") <=> Called(inbox[d], "PAUSE")
        /\ \A d \in Engine : d # e => inbox'[d] = inbox[d]
    BY <1>16, Received, Zenon DEF resume_scheduler, Typed, Sender
  <2> DEFINE Resuming(d) == \/ Agreed(d) /\ Called(inbox[d], "RESUME") /\ ~idle_callback[d]
                            \/ Resumed(d) /\ ~Called(inbox[d], "PAUSE")
  <2>2. pause = "resuming" /\ \A d \in Engine : Resuming(d)
    BY <2>1, Zenon DEF Phases
  <2>3. Agreed(e) /\ ~idle_callback[e]
    BY <2>1, <2>2, Zenon DEF Resumed
  <2>4. Resumed(e)' /\ ~Called(inbox'[e], "PAUSE")
    BY <1>16, <2>1, <2>3, Zenon DEF resume_scheduler, Agreed, Resumed, Unpaused, Phases, Typed,
          TypeOK,
          PauseTyped
  <2>5. ASSUME NEW d \in Engine, d # e PROVE Resuming(d)'
    <3>1. Same(d)
      BY <1>16, <2>1, <2>5, EngineSame, Zenon DEF resume_scheduler, OnlyAt, Typed
    <3>2. QED
      BY <2>2, <3>1, Zenon DEF Same, Agreed, Resumed, Unpaused
  <2>6. QED
    BY <1>16, <2>1, <2>2, <2>4, <2>5, Zenon DEF resume_scheduler, Phases
<1>17. ASSUME NEW c \in Client, first_request(c) \/ update_stats(c) \/ publish_stats(c) PROVE
  Phases'
  BY <1>17, PhasesKept, Zenon DEF first_request, update_stats, publish_stats, flags, SameCalls
<1>18. ASSUME NEW e \in Engine, wave_complete(e) PROVE Phases'
  BY <1>18, PhasesKept, Zenon DEF wave_complete, flags, SameCalls
<1>19. CASE UNCHANGED vars
  BY <1>19, PhasesKept DEF vars, flags, SameCalls
<1>20. QED
  BY <1>1, <1>2, <1>3, <1>4, <1>5, <1>6, <1>7, <1>8, <1>9, <1>10, <1>11, <1>12, <1>13, <1>14,
    <1>15, <1>16, <1>17, <1>18, <1>19 DEF CoordinatorStep, EngineStep, HandleClient,
    Collective, Next

-----------------------------------------------------------------------------
(***************************************************************************)
(* The theorems.                                                           *)
(***************************************************************************)
\* The invariant holds at the start.
LEMMA IInvInit == Init => IInv
<1> SUFFICES ASSUME Init PROVE IInv
  OBVIOUS
<1>1. Typed
  <2>1. TypeOK
    <3>1. 0 \in 0 .. SyncInterval - 1 /\ 0 \in 0 .. MaxPasses /\ 0 \in 0 .. MaxPauses
      BY WaveAssumption
    <3>2. QED
      BY <3>1, Zenon DEF Init, TypeOK
  <2>2. PauseTyped
    BY DEF Init, PauseTyped
  <2>3. InboxTyped /\ ChannelsTyped
    BY DEF Init, InboxTyped, ChannelsTyped, Sender
  <2>4. SentTyped
    BY DEF Init, SentTyped
  <2>5. QED
    BY <2>1, <2>2, <2>3, <2>4 DEF Typed
<1>2. \A e \in Engine, s \in Sender : DOMAIN inbox[e][s] = {}
  BY DEF Init, Sender
<1>3. WorkLeft
  <2>1. ReqsSent /\ PassesLeft
    BY DEF Init, ReqsSent, PassesLeft
  <2>2. InboxSent
    BY <1>2 DEF InboxSent
  <2>3. QED
    BY <2>1, <2>2 DEF WorkLeft
<1>4. WavesKnown
  <2>1. NoticesKnown
    BY DEF Init, NoticesKnown
  <2>2. UpdatesKnown
    BY DEF Init, UpdatesKnown
  <2>3. WaveReached
    <3>1. 0 \in Engine
      BY WaveAssumption DEF Engine
    <3>2. wave <= current_wave[0]
      BY <3>1 DEF Init
    <3>3. QED
      BY <3>1, <3>2 DEF WaveReached
  <2>4. QED
    BY <2>1, <2>2, <2>3 DEF WavesKnown
<1>5. Lockstep
  BY DEF Init, Lockstep
<1>6. Phases
  <2>1. \A e \in Engine : \A t : ~Called(inbox[e], t) /\ CalledOnce(inbox[e], t)
    BY <1>2 DEF Called, CalledOnce
  <2>2. QED
    BY <2>1, Zenon DEF Init, Phases, Unpaused
<1>7. QED
  BY <1>1, <1>3, <1>4, <1>5, <1>6 DEF IInv

\* Every step keeps it.
LEMMA IInvNext == IInv /\ [Next]_vars => IInv'
<1> SUFFICES ASSUME IInv, [Next]_vars PROVE IInv'
  OBVIOUS
<1> USE DEF IInv
<1>1. Typed'
  BY TypeOKNext, PauseTypedNext, InboxTypedNext, ChannelsTypedNext, SentTypedNext DEF Typed
<1>2. WorkLeft'
  BY ReqsSentNext, InboxSentNext, PassesLeftNext DEF WorkLeft
<1>3. WavesKnown'
  BY NoticesNext, UpdatesNext, WaveReachedNext DEF WavesKnown
<1>4. Lockstep'
  BY LockstepNext
<1>5. Phases'
  BY PhasesNext
<1>6. QED
  BY <1>1, <1>2, <1>3, <1>4, <1>5

\* It holds throughout.
LEMMA IInvAlways == Spec => []IInv
<1>1. QED
  BY IInvInit, IInvNext, PTL DEF Spec

\* The engines never wait for each other in different collectives: whenever all
\* of them are in one, it is the same one, at the same step (run_busy_loop,
\* _has_global_unfinished_reqs, resume_scheduler), for any number of engines.
THEOREM EnginesMeet == Spec => []SameCollective
<1>1. IInv => SameCollective
  <2> SUFFICES ASSUME IInv, \A e \in Engine : pc[e] # "input",
                      NEW d \in Engine, NEW e \in Engine
               PROVE  pc[d] = pc[e]
    BY DEF IInv, Typed, Lockstep, SameCollective
  <2>1. pc[d] \in {"forward", "sync", "resume"} /\ pc[e] \in {"forward", "sync", "resume"}
    BY DEF IInv, Typed, TypeOK
  <2>2. pc[d] = "sync" <=> pc[e] = "sync"
    BY DEF IInv, Lockstep
  <2>3. pc[d] = "resume" <=> pc[e] = "resume"
    BY Zenon DEF IInv, Phases, Agreed, Resumed
  <2>4. QED
    BY <2>1, <2>2, <2>3
<1>2. QED
  BY <1>1, IInvAlways, PTL

\* No front-end is ahead of the coordinator, and the coordinator is never ahead
\* of every engine (add_request, start_wave and wave_complete notices), in
\* whatever order the messages arrive.
THEOREM WavesInOrder == Spec => []WavesFollow
<1>1. IInv => WavesFollow
  BY Zenon DEF IInv, WavesKnown, UpdatesKnown, WaveReached, WavesFollow
<1>2. QED
  BY <1>1, IInvAlways, PTL

\* An engine never refuses the resume of a caller that waits for the pause
\* (the RuntimeError and the early return of resume_scheduler), whichever
\* front-ends send the calls and whatever else wakes the engines.
THEOREM ResumesAccepted == Spec => []ResumeAccepted
<1>1. IInv => ResumeAccepted
  <2> SUFFICES ASSUME IInv, NEW e \in Engine, NEW c \in Client,
                      inbox[e][c] # <<>>, Head(inbox[e][c]).type = "RESUME"
               PROVE  ~ResumeRefused(e)
    BY Zenon DEF ResumeAccepted
  <2>1. inbox[e] \in Queues /\ c \in Sender
    BY Zenon DEF IInv, Typed, InboxTyped, Queues, Sender
  <2>2. Called(inbox[e], "RESUME")
    <3>1. inbox[e][c] \in Seq(Message)
      BY <2>1, Zenon DEF Queues
    <3>2. 1 \in DOMAIN inbox[e][c] /\ Head(inbox[e][c]) = inbox[e][c][1]
      BY <3>1, NextMessage
    <3>3. QED
      BY <2>1, <3>2, Zenon DEF Called, IsCall
  <2>3. Agreed(e)
    BY <2>2, Zenon DEF IInv, Phases, Resumed
  <2>4. QED
    BY <2>3 DEF Agreed, ResumeRefused
<1>2. QED
  BY <1>1, IInvAlways, PTL

\* No step takes an engine or the coordinator back to an earlier wave
\* (START_DP_WAVE is obeyed only for a wave that is not over; a wave_complete
\* or start_wave notice that is late is dropped).
THEOREM WavesOnlyGrow ==
  Spec => [][wave <= wave' /\ \A e \in Engine : current_wave[e] <= current_wave'[e]]_vars
<1>1. IInv /\ [Next]_vars => wave <= wave' /\
      \A e \in Engine : current_wave[e] <= current_wave'[e]
  BY CoordinatorWaveGrows, EngineWavesGrow, Zenon DEF IInv
<1>2. QED
  BY <1>1, IInvAlways, PTL DEF Spec
=============================================================================
