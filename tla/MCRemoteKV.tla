------------------------------ MODULE MCRemoteKV ------------------------------
(***************************************************************************)
(* An instance of RemoteKV for TLC.  Request 1 generates two tokens and    *)
(* grows while the others wait; requests 2 and 3 have the same prompt.     *)
(* With the policy "fail" request 1 loads within its step and the others   *)
(* over several; with the policy "recompute" only requests 2 and 3 load,   *)
(* over several steps, and two batches are in flight.  With AllAsync all   *)
(* requests load over several steps.                                       *)
(***************************************************************************)
EXTENDS RemoteKV

Policies ==
  {[recompute |-> FALSE, sync |-> {1}, async |-> {2, 3}, batch_queue_size |-> 1],
   [recompute |-> TRUE, sync |-> {}, async |-> {2, 3}, batch_queue_size |-> 2]}

AllAsync ==
  {[recompute |-> TRUE, sync |-> {}, async |-> Requests, batch_queue_size |-> 1]}

Prompts == [r \in Requests |-> 4]
WholePrompt == Prompts
Outputs == [r \in Requests |-> IF r = 1 THEN 2 ELSE 1]
LastTwo == [r \in Requests |-> IF r = 1 THEN 1 ELSE 2]
=============================================================================
