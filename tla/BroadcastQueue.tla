--------------------------- MODULE BroadcastQueue ---------------------------
(***************************************************************************)
(* What a MessageQueue (vllm/distributed/device_communicators/             *)
(* shm_broadcast.py) promises its users: one writer, several readers, a    *)
(* bounded number of messages between the writer and its slowest reader,   *)
(* and every reader takes every message, in the order of the enqueues.     *)
(* Messages are numbered 1, 2, ... by the writer; `published` counts the   *)
(* ones it has made visible and taken[r] the ones reader r is done with.   *)
(***************************************************************************)
EXTENDS Naturals

CONSTANTS Reader,   \* the readers
          Capacity  \* max_chunks: messages the queue holds

VARIABLES published, taken

Init ==
  /\ published = 0
  /\ taken = [r \in Reader |-> 0]

\* There is room only when every reader is less than Capacity messages behind.
Publish ==
  /\ \A r \in Reader : published < taken[r] + Capacity
  /\ published' = published + 1
  /\ UNCHANGED taken

Take(r) ==
  /\ taken[r] < published
  /\ taken' = [taken EXCEPT ![r] = @ + 1]
  /\ UNCHANGED published

Next == Publish \/ \E r \in Reader : Take(r)

Spec == Init /\ [][Next]_<<published, taken>>
=============================================================================
