------------------------------- MODULE KVBlocks -------------------------------
(***************************************************************************)
(* What the KV cache manager promises to the scheduler, whatever the order *)
(* of the free queue, the hashes and the lengths of the requests are:      *)
(*                                                                         *)
(*   held       the blocks of each request                                 *)
(*   ref_cnt    the references to each block                               *)
(*   available  the blocks that can be given to a request                  *)
(*   cached     the blocks that have a hash and may be found by another    *)
(*              request with the same prefix                               *)
(*                                                                         *)
(* EngineProperties states that the engine core implements it, and         *)
(* KVBlocksProofs proves what it promises, for finitely many requests.     *)
(***************************************************************************)
EXTENDS Integers, FiniteSets

CONSTANTS Requests, Block

VARIABLES held, ref_cnt, available, cached
vars == <<held, ref_cnt, available, cached>>

Holders(b) == {r \in Requests : b \in held[r]}

Init ==
  /\ held = [r \in Requests |-> {}]
  /\ ref_cnt = [b \in Block |-> 0]
  /\ available = Block
  /\ cached = {}

(* The hashes that blocks of r get once they are full.                     *)
CacheSome(r, before) == \E full \in SUBSET held'[r] : cached' = before \union full

(* allocate_slots: r gets blocks, each one cached, as part of its prefix,  *)
(* or available.  A new block loses its hash.                              *)
Acquire(r, blocks) ==
  /\ blocks \subseteq (cached \union available) \ held[r]
  /\ held' = [held EXCEPT ![r] = @ \union blocks]
  /\ ref_cnt' = [b \in Block |-> IF b \in blocks THEN ref_cnt[b] + 1 ELSE ref_cnt[b]]
  /\ available' = available \ blocks
  /\ CacheSome(r, cached \ (blocks \intersect available))

(* cache_blocks, when a token is appended.                                 *)
Cache(r) ==
  /\ UNCHANGED <<held, ref_cnt, available>>
  /\ CacheSome(r, cached)

(* KVCacheManager.free, for a request that is preempted, aborted or        *)
(* stopped; before that, its last token may have completed a block.        *)
Release(r) ==
  /\ held' = [held EXCEPT ![r] = {}]
  /\ ref_cnt' = [b \in Block |-> IF b \in held[r] THEN ref_cnt[b] - 1 ELSE ref_cnt[b]]
  /\ available' = available \union {b \in held[r] : ref_cnt[b] = 1}
  /\ \E full \in SUBSET held[r] : cached' = cached \union full

(* reset_prefix_cache: no request keeps a block, and nothing is cached.    *)
Reset ==
  /\ held' = [r \in Requests |-> {}]
  /\ ref_cnt' = [b \in Block |-> 0]
  /\ available' = Block
  /\ cached' = {}

Next ==
  \/ \E r \in Requests :
       \/ \E blocks \in SUBSET Block : Acquire(r, blocks)
       \/ Cache(r)
       \/ Release(r)
  \/ Reset

Spec == Init /\ [][Next]_vars

-----------------------------------------------------------------------------
(* Types.                                                                  *)
TypeOK ==
  /\ held \in [Requests -> SUBSET Block]
  /\ ref_cnt \in [Block -> Nat]
  /\ available \subseteq Block
  /\ cached \subseteq Block

(* A reference count is the number of requests that hold the block: every  *)
(* allocation, hit, preemption and abort counts each of them once.         *)
RefCounts == \A b \in Block : ref_cnt[b] = Cardinality(Holders(b))

(* A block can be given away exactly when no request holds it: no leak and *)
(* no block taken from a request.                                          *)
FreeIffUnused == available = {b \in Block : Holders(b) = {}}

(* Two requests only share cached blocks: a block that is still being      *)
(* filled belongs to one request.                                          *)
SharedAreCached ==
  \A r, s \in Requests : r # s => held[r] \intersect held[s] \subseteq cached

Inv == TypeOK /\ RefCounts /\ FreeIffUnused /\ SharedAreCached
=============================================================================
