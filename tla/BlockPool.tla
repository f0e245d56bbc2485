------------------------------ MODULE BlockPool ------------------------------
(***************************************************************************)
(* BlockPool (vllm/v1/core/block_pool.py) and the per-request block tables *)
(* of FullAttentionManager (single_type_kv_cache_manager.py) as operators  *)
(* on a record m:                                                          *)
(*                                                                         *)
(*   free              the free queue, front first (see FreeList)          *)
(*   ref_cnt           references to each block                            *)
(*   block_hash        the hash a block is cached under, or NoHash         *)
(*   cached            for every hash the blocks cached under it, in       *)
(*                     insertion order (cached_block_hash_to_block)        *)
(*   req_to_blocks     the block table of each request                     *)
(*   num_cached_block  how many of them are cached, -1 for no entry        *)
(*   computed          history: how many of a block's slots hold the KV of *)
(*                     its tokens because a batch that computes them has   *)
(*                     been handed to the workers                          *)
(*                                                                         *)
(* Prefix caching is enabled, there is one KV cache group of full          *)
(* attention, which never uses the null block: the pool takes it out of    *)
(* the free queue when it is made.                                         *)
(***************************************************************************)
EXTENDS Integers, Sequences, FiniteSets, SequencesExt, FiniteSetsExt

CONSTANTS
  Requests,      \* the requests that clients may submit
  NumGpuBlocks,  \* the blocks of the pool; block 0 is the null block
  BlockSize,     \* tokens per block
  PromptLen,     \* the prompt length of each request
  MaxTokens,     \* the output limit of each request
  Group          \* requests of one group have the same prompt (Best-of-N)

ASSUME PoolAssumption ==
  /\ NumGpuBlocks \in Nat \ {0}
  /\ BlockSize \in Nat \ {0}
  /\ PromptLen \in [Requests -> Nat \ {0}]
  /\ MaxTokens \in [Requests -> Nat \ {0}]
  /\ DOMAIN Group = Requests
  /\ \A r, s \in Requests : Group[r] = Group[s] => PromptLen[r] = PromptLen[s]

NumBlocks == NumGpuBlocks - 1
Block == 1..NumBlocks

cdiv(n, d) == (n + d - 1) \div d

(* The hash of the i-th block of a request stands for all of its tokens up *)
(* to the block's end.  Requests with the same prompt share the hashes of  *)
(* the blocks that lie in it; what they generate differs.                  *)
block_hashes(r, i) ==
  IF i * BlockSize <= PromptLen[r] THEN <<Group[r], i>> ELSE <<r, i>>

MaxBlocks(r) == cdiv(PromptLen[r] + MaxTokens[r], BlockSize)
Hash == UNION {{block_hashes(r, i) : i \in 1..MaxBlocks(r)} : r \in Requests}
NoHash == <<>>

Holds(m, r, b) == \E i \in DOMAIN m.req_to_blocks[r] : m.req_to_blocks[r][i] = b

Occurrences(b, bs) == Cardinality({i \in DOMAIN bs : bs[i] = b})

EmptyPool ==
  [free |-> [i \in 1..NumBlocks |-> i],
   ref_cnt |-> [b \in Block |-> 0],
   block_hash |-> [b \in Block |-> NoHash],
   cached |-> [h \in Hash |-> <<>>],
   req_to_blocks |-> [r \in Requests |-> <<>>],
   num_cached_block |-> [r \in Requests |-> -1],
   computed |-> [b \in Block |-> 0]]

-----------------------------------------------------------------------------
(* BlockPool                                                               *)

(* _maybe_evict_cached_block for every block of a set.                     *)
evict(m, bs) ==
  [m EXCEPT
     !.block_hash = [b \in Block |-> IF b \in bs THEN NoHash ELSE @[b]],
     !.cached = [h \in Hash |-> SelectSeq(@[h], LAMBDA b : b \notin bs)]]

(* Mutant: the blocks stay cached.                                         *)
get_new_blocks_KeepHash(m, r, n) ==
  LET new == SubSeq(m.free, 1, n)
  IN [m EXCEPT
        !.free = SubSeq(@, n + 1, Len(@)),
        !.ref_cnt = [b \in Block |-> @[b] + Occurrences(b, new)],
        !.req_to_blocks[r] = @ \o new,
        !.computed = [b \in Block |-> IF b \in Range(new) THEN 0 ELSE @[b]]]

(* The first n blocks of the free queue, which are no longer cached.       *)
get_new_blocks(m, r, n) ==
  LET new == SubSeq(m.free, 1, n)
  IN [evict(m, Range(new)) EXCEPT
        !.free = SubSeq(@, n + 1, Len(@)),
        !.ref_cnt = [b \in Block |-> @[b] + Occurrences(b, new)],
        !.req_to_blocks[r] = @ \o new,
        !.computed = [b \in Block |-> IF b \in Range(new) THEN 0 ELSE @[b]]]

(* Mutant: the blocks stay in the free queue.                              *)
touch_KeepFree(m, bs) ==
  [m EXCEPT
     !.ref_cnt = [b \in Block |-> @[b] + Occurrences(b, bs)]]

touch(m, bs) ==
  [m EXCEPT
     !.free = SelectSeq(@, LAMBDA b : b \notin Range(bs)),
     !.ref_cnt = [b \in Block |-> @[b] + Occurrences(b, bs)]]

free_blocks(m, bs) ==
  LET ref_cnt == [b \in Block |-> m.ref_cnt[b] - Occurrences(b, bs)]
  IN [m EXCEPT !.ref_cnt = ref_cnt,
               !.free = @ \o SelectSeq(bs, LAMBDA b : ref_cnt[b] = 0)]

(* The blocks of r after the first n, up to block k, get their hashes and  *)
(* are inserted in the map.                                                *)
cache_full_blocks(m, r, n, k) ==
  LET bs == m.req_to_blocks[r]
  IN [m EXCEPT
        !.block_hash =
           [b \in Block |-> IF \E i \in (n + 1)..k : bs[i] = b
                            THEN block_hashes(r, CHOOSE i \in (n + 1)..k : bs[i] = b)
                            ELSE @[b]],
        !.cached =
           [h \in Hash |-> IF \E i \in (n + 1)..k : block_hashes(r, i) = h
                           THEN Append(@[h], bs[CHOOSE i \in (n + 1)..k :
                                                  block_hashes(r, i) = h])
                           ELSE @[h]]]

-----------------------------------------------------------------------------
(* SingleTypeKVCacheManager and KVCacheManager                             *)

(* The longest cached prefix of r.  The last token is always recomputed.   *)
find_longest_cache_hit(m, r, num_tokens) ==
  LET hit(k) == \A i \in 1..k : m.cached[block_hashes(r, i)] # <<>>
      n == Max({k \in 0..((num_tokens - 1) \div BlockSize) : hit(k)})
  IN [i \in 1..n |-> Head(m.cached[block_hashes(r, i)])]

(* Blocks to take from the free queue so that r has num_tokens slots: the  *)
(* missing ones, and the hits that are in the queue.                       *)
get_num_blocks_to_allocate(m, r, num_tokens, hits) ==
  Max({0, cdiv(num_tokens, BlockSize) - Len(hits) - Len(m.req_to_blocks[r])})
    + Cardinality({i \in DOMAIN hits : m.ref_cnt[hits[i]] = 0})

(* The first part of allocate_slots: whether num_tokens slots can be given *)
(* to r; must_fit is the number of tokens for which there must be space on *)
(* admission (full_sequence_must_fit), or 0.                               *)
has_slots(m, r, hits, num_tokens, must_fit) ==
  \A n \in {num_tokens, must_fit} :
    get_num_blocks_to_allocate(m, r, n, hits) <= Len(m.free)

allocate_new_computed_blocks(m, r, hits) ==
  IF hits = <<>> THEN m
  ELSE [touch(m, hits) EXCEPT !.req_to_blocks[r] = hits,
                              !.num_cached_block[r] = Len(hits)]

allocate_new_blocks(m, r, num_tokens) ==
  get_new_blocks(m, r, Max({0, cdiv(num_tokens, BlockSize)
                                 - Len(m.req_to_blocks[r])}))

cache_blocks(m, r, num_tokens) ==
  LET n == Max({0, m.num_cached_block[r]})
      k == num_tokens \div BlockSize
  IN IF n >= k THEN m
     ELSE [cache_full_blocks(m, r, n, k) EXCEPT !.num_cached_block[r] = k]

(* The second part of allocate_slots.  Only the first to_cache tokens are  *)
(* final (request.num_tokens), and only their full blocks are cached.      *)
allocate_slots(m, r, hits, num_tokens, to_cache) ==
  cache_blocks(allocate_new_blocks(allocate_new_computed_blocks(m, r, hits),
                                   r, num_tokens),
               r, Min({num_tokens, to_cache}))

(* KVCacheManager.free: the last block goes to the front of the others.    *)
free(m, r) ==
  [free_blocks(m, Reverse(m.req_to_blocks[r])) EXCEPT
     !.req_to_blocks[r] = <<>>,
     !.num_cached_block[r] = -1]

(* BlockPool.reset_prefix_cache does nothing while a block is in use.      *)
can_reset(m) == Len(m.free) = NumBlocks

(* Mutant: the blocks keep their hashes.                                   *)
reset_prefix_cache_KeepHashes(m) ==
  IF can_reset(m) THEN [m EXCEPT !.cached = [h \in Hash |-> <<>>]] ELSE m

reset_prefix_cache(m) ==
  IF can_reset(m) THEN evict(m, Block) ELSE m

(* History: a batch that computes r's tokens up to num_tokens goes to the  *)
(* workers, which run batches in order.                                    *)
dispatch(m, r, num_tokens) ==
  LET bs == m.req_to_blocks[r]
      slots(i) == Min({BlockSize, Max({0, num_tokens - (i - 1) * BlockSize})})
  IN [m EXCEPT !.computed =
        [b \in Block |-> IF Holds(m, r, b)
                         THEN Max({@[b], slots(CHOOSE i \in DOMAIN bs : bs[i] = b)})
                         ELSE @[b]]]
=============================================================================
