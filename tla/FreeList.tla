------------------------------ MODULE FreeList ------------------------------
(***************************************************************************)
(* What FreeKVCacheBlockQueue (vllm/v1/core/kv_cache_utils.py) promises    *)
(* its only client, the BlockPool: a queue of distinct blocks, in eviction *)
(* order, from which blocks are taken at the front or out of the middle    *)
(* and to which released blocks are added at the back.                     *)
(***************************************************************************)
EXTENDS Naturals, Sequences, Functions

CONSTANT NumBlocks    \* how many blocks there are, numbered from 0

VARIABLES
  queue,    \* the free blocks, the next one to be evicted first
  result    \* the blocks the last completed call returned

Block == 0..(NumBlocks - 1)

Taken == Block \ Range(queue)

(* Initially every block is free, ordered by block id.                     *)
Init ==
  /\ queue = [i \in 1..NumBlocks |-> i - 1]
  /\ result = <<>>

(* popleft and popleft_n: the n oldest free blocks, in queue order.        *)
PopN(n) ==
  /\ n <= Len(queue)
  /\ result' = SubSeq(queue, 1, n)
  /\ queue' = SubSeq(queue, n + 1, Len(queue))

(* remove: one block leaves the queue, wherever it stands.                 *)
Remove1(b) ==
  /\ \E i \in DOMAIN queue :
       /\ queue[i] = b
       /\ queue' = SubSeq(queue, 1, i - 1) \o SubSeq(queue, i + 1, Len(queue))
  /\ result' = <<>>

(* append and append_n: taken blocks come back, at the end, in order.      *)
AppendN(bs) ==
  /\ Range(bs) \subseteq Taken
  /\ IsInjective(bs)
  /\ queue' = queue \o bs
  /\ result' = <<>>

Next ==
  \/ \E n \in 0..Len(queue) : PopN(n)
  \/ \E b \in Block : Remove1(b)
  \/ \E n \in 1..NumBlocks : \E bs \in [1..n -> Block] : AppendN(bs)

Spec == Init /\ [][Next]_<<queue, result>>
=============================================================================
