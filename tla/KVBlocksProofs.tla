---------------------------- MODULE KVBlocksProofs ----------------------------
(* Proofs that the promises of KVBlocks hold for any blocks and any finite *)
(* set of requests.                                                        *)
EXTENDS KVBlocks, FiniteSetTheorems, TLAPS

FiniteRequests == IsFiniteSet(Requests)

(* The holders of a block are finite.                                      *)
LEMMA HoldersFinite ==
  ASSUME FiniteRequests, NEW b
  PROVE  IsFiniteSet(Holders(b)) /\ Cardinality(Holders(b)) \in Nat
<1>1. Holders(b) \subseteq Requests
  BY DEF Holders
<1>2. IsFiniteSet(Holders(b))
  BY <1>1, FS_Subset DEF FiniteRequests
<1> QED
  BY <1>2, FS_CardinalityType

(* Initially no block is held.                                             *)
LEMMA InitInv == Init => Inv
<1> SUFFICES ASSUME Init PROVE Inv
  OBVIOUS
<1>1. \A b : Holders(b) = {}
  BY DEF Init, Holders
<1>2. Cardinality({}) = 0
  BY FS_EmptySet
<1> QED
  BY <1>1, <1>2 DEF Init, Inv, TypeOK, RefCounts, FreeIffUnused, SharedAreCached

(* allocate_slots.                                                         *)
LEMMA AcquireInv ==
  ASSUME FiniteRequests, Inv, NEW r \in Requests, NEW got, Acquire(r, got)
  PROVE  Inv'
<1>0. TypeOK /\ RefCounts /\ FreeIffUnused /\ SharedAreCached
  BY DEF Inv
<1>1. TypeOK'
  BY <1>0 DEF TypeOK, Acquire, CacheSome
<1>2. \A b \in Block : Holders(b)' = IF b \in got THEN Holders(b) \union {r} ELSE Holders(b)
  BY <1>0 DEF TypeOK, Acquire, Holders
<1>3. \A b \in got : r \notin Holders(b) /\ b \in Block
  BY <1>0 DEF TypeOK, Acquire, FreeIffUnused, Holders
<1>4. RefCounts'
  <2> SUFFICES ASSUME NEW b \in Block
               PROVE  ref_cnt'[b] = Cardinality(Holders(b)')
    BY DEF RefCounts
  <2>1. CASE b \in got
    <3>1. Cardinality(Holders(b) \union {r}) = Cardinality(Holders(b)) + 1
      BY <1>3, <2>1, HoldersFinite, FS_AddElement
    <3> QED
      BY <1>0, <1>2, <2>1, <3>1 DEF RefCounts, Acquire
  <2>2. CASE b \notin got
    BY <1>0, <1>2, <2>2 DEF RefCounts, Acquire
  <2> QED
    BY <2>1, <2>2
<1>5. FreeIffUnused'
  BY <1>0, <1>2, <1>3 DEF FreeIffUnused, Acquire
<1>6. SharedAreCached'
  <2> SUFFICES ASSUME NEW s \in Requests, NEW t \in Requests, s # t,
                      NEW b \in held'[s] \intersect held'[t]
               PROVE  b \in cached'
    BY DEF SharedAreCached
  <2>1. b \in Block /\ s \in Holders(b)' /\ t \in Holders(b)'
    BY <1>1 DEF TypeOK, Holders
  <2>2. CASE b \in got
    <3>1. b \notin available
      BY <1>0, <1>2, <2>1 DEF FreeIffUnused
    <3> QED
      BY <2>2, <3>1 DEF Acquire, CacheSome
  <2>3. CASE b \notin got
    <3>1. s \in Holders(b) /\ t \in Holders(b)
      BY <1>2, <2>1, <2>3
    <3> QED
      BY <1>0, <2>3, <3>1 DEF Acquire, CacheSome, SharedAreCached, Holders
  <2> QED
    BY <2>2, <2>3
<1> QED
  BY <1>1, <1>4, <1>5, <1>6 DEF Inv

(* cache_blocks.                                                           *)
LEMMA CacheInv ==
  ASSUME Inv, NEW r \in Requests, Cache(r)
  PROVE  Inv'
<1>1. \A b : Holders(b)' = Holders(b)
  BY DEF Cache, Holders
<1> QED
  BY <1>1 DEF Inv, Cache, CacheSome, TypeOK, RefCounts, FreeIffUnused, SharedAreCached

(* free.                                                                   *)
LEMMA ReleaseInv ==
  ASSUME FiniteRequests, Inv, NEW r \in Requests, Release(r)
  PROVE  Inv'
<1>0. TypeOK /\ RefCounts /\ FreeIffUnused /\ SharedAreCached
  BY DEF Inv
<1>1. \A b \in Block : Holders(b)' = Holders(b) \ {r}
  BY <1>0 DEF TypeOK, Release, Holders
<1>2. \A b \in held[r] : /\ r \in Holders(b)
                         /\ Cardinality(Holders(b)') = Cardinality(Holders(b)) - 1
                         /\ b \in Block
  <2> SUFFICES ASSUME NEW b \in held[r]
               PROVE  /\ r \in Holders(b)
                      /\ Cardinality(Holders(b)') = Cardinality(Holders(b)) - 1
                      /\ b \in Block
    OBVIOUS
  <2>1. r \in Holders(b) /\ b \in Block
    BY <1>0 DEF TypeOK, Holders
  <2>2. Cardinality(Holders(b) \ {r}) = Cardinality(Holders(b)) - 1
    BY <2>1, HoldersFinite, FS_RemoveElement
  <2> QED
    BY <1>1, <2>1, <2>2
<1>3. \A b \in Block \ held[r] : Holders(b)' = Holders(b)
  BY <1>1 DEF Holders
<1>4. TypeOK'
  <2>1. \A b \in held[r] : Cardinality(Holders(b)') \in Nat
    <3> SUFFICES ASSUME NEW b \in held[r] PROVE Cardinality(Holders(b)') \in Nat
      OBVIOUS
    <3>1. IsFiniteSet(Holders(b) \ {r})
      BY HoldersFinite, FS_RemoveElement
    <3> QED
      BY <1>1, <1>2, <3>1, FS_CardinalityType
  <2> QED
    BY <1>0, <1>2, <2>1 DEF TypeOK, RefCounts, Release
<1>5. RefCounts'
  BY <1>0, <1>2, <1>3 DEF RefCounts, Release
<1>6. FreeIffUnused'
  <2>1. \A b \in held[r] : Holders(b)' = {} <=> ref_cnt[b] = 1
    <3> SUFFICES ASSUME NEW b \in held[r] PROVE Holders(b)' = {} <=> ref_cnt[b] = 1
      OBVIOUS
    <3>1. IsFiniteSet(Holders(b)')
      BY <1>1, <1>2, HoldersFinite, FS_RemoveElement
    <3>2. Holders(b)' = {} <=> Cardinality(Holders(b)') = 0
      BY <3>1, FS_EmptySet
    <3> QED
      BY <1>0, <1>2, <3>2, HoldersFinite DEF RefCounts
  <2> QED
    BY <1>0, <1>2, <1>3, <2>1 DEF FreeIffUnused, Release
<1>7. SharedAreCached'
  BY <1>0 DEF SharedAreCached, Release, TypeOK
<1> QED
  BY <1>4, <1>5, <1>6, <1>7 DEF Inv

(* The promises hold in every state, for any blocks and any finite set of  *)
(* requests: reference counts count the holders, the available blocks are  *)
(* the unused ones, and two requests share only cached blocks.             *)
THEOREM KVBlocksSafe ==
  ASSUME FiniteRequests
  PROVE  Spec => [](TypeOK /\ RefCounts /\ FreeIffUnused /\ SharedAreCached)
<1>1. Inv /\ [Next]_vars => Inv'
  <2> SUFFICES ASSUME Inv, [Next]_vars PROVE Inv'
    OBVIOUS
  <2>1. ASSUME NEW r \in Requests, NEW blocks, Acquire(r, blocks)
        PROVE  Inv'
    BY <2>1, AcquireInv
  <2>2. ASSUME NEW r \in Requests, Cache(r)
        PROVE  Inv'
    BY <2>2, CacheInv
  <2>3. ASSUME NEW r \in Requests, Release(r)
        PROVE  Inv'
    BY <2>3, ReleaseInv
  <2>4. CASE Reset
    <3>1. Init'
      BY <2>4 DEF Reset, Init
    <3> QED
      BY <3>1, InitInv, PTL
  <2>5. CASE UNCHANGED vars
    BY <2>5 DEF vars, Inv, TypeOK, RefCounts, FreeIffUnused, SharedAreCached, Holders
  <2> QED
    BY <2>1, <2>2, <2>3, <2>4, <2>5 DEF Next
<1> QED
  BY InitInv, <1>1, PTL DEF Spec, Inv
=============================================================================
