----------------------------- MODULE MCEngineCore -----------------------------
(* Instances of EngineCore for TLC.  Requests are numbered; the number is  *)
(* the rank under the PRIORITY policy.                                     *)
EXTENDS EngineProperties

Prompt2 == [r \in Requests |-> 2]
Prompt4 == [r \in Requests |-> 4]
PromptShortLong == [r \in Requests |-> IF r = 1 THEN 2 ELSE 12]
Output2 == [r \in Requests |-> 2]
Output3 == [r \in Requests |-> 3]

(* Requests 1 and 2, and 3 and 4, are branches of one Best-of-N request.   *)
Pairs == [r \in Requests |-> (r + 1) \div 2]
Single == [r \in Requests |-> r]
RankById == [r \in Requests |-> r]
=============================================================================
