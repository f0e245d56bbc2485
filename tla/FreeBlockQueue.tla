--------------------------- MODULE FreeBlockQueue ---------------------------
(***************************************************************************)
(* FreeKVCacheBlockQueue (vllm/v1/core/kv_cache_utils.py): the free KV     *)
(* cache blocks as a doubly linked list threaded through the blocks, with  *)
(* a fake head and a fake tail and a separate count of the elements.       *)
(*                                                                         *)
(* popleft, remove and append are one action each.  The loops of popleft_n *)
(* and append_n are a start action, one action per iteration and an end    *)
(* action; the class is used by one thread, so nothing comes in between.   *)
(***************************************************************************)
EXTENDS Integers, Sequences, FiniteSets

CONSTANT NumBlocks
ASSUME NumBlocksAssumption == NumBlocks \in Nat \ {0}

Block == 0..(NumBlocks - 1)

(* The two fake blocks share block_id -1 in the code and are told apart by *)
(* identity; the model gives each a number.  None is Python's None.        *)
FakeHead == -1
FakeTail == -2
None == -3

Node == Block \cup {FakeHead, FakeTail}

VARIABLES
  prev_free_block,
  next_free_block,
  num_free_blocks,
  held,       \* the blocks the client has, the only ones it may append
  pc,         \* "idle", or the loop in progress: "popleft_n", "append_n"
  curr,       \* curr_block of popleft_n, last_block of append_n
  blocks,     \* the list popleft_n is building; the argument of append_n
  left,       \* the iterations the loop has left
  result      \* the value returned by the last call

links == <<prev_free_block, next_free_block>>
loop == <<curr, blocks, left>>
vars == <<links, num_free_blocks, held, pc, loop, result>>

Init ==
  /\ next_free_block =
       [n \in Node |-> IF n = FakeHead THEN 0
                       ELSE IF n = FakeTail THEN None
                       ELSE IF n = NumBlocks - 1 THEN FakeTail ELSE n + 1]
  /\ prev_free_block =
       [n \in Node |-> IF n = FakeHead THEN None
                       ELSE IF n = FakeTail THEN NumBlocks - 1
                       ELSE IF n = 0 THEN FakeHead ELSE n - 1]
  /\ num_free_blocks = NumBlocks
  /\ held = {}
  /\ pc = "idle"
  /\ curr = None
  /\ blocks = <<>>
  /\ left = 0
  /\ result = <<>>

-----------------------------------------------------------------------------
(* The operations.  Where the code checks the list and raises, the check   *)
(* is a guard here and a conjunct of ChecksPass below.                     *)

(* A loop's locals go out of scope when the call returns.                  *)
EndLoop ==
  /\ pc' = "idle"
  /\ curr' = None
  /\ blocks' = <<>>
  /\ left' = 0

popleft ==
  /\ pc = "idle"
  /\ next_free_block[FakeHead] \notin {FakeTail, None}
  /\ LET first == next_free_block[FakeHead]
         second == next_free_block[first]
     IN /\ second # None
        /\ next_free_block' =
             [next_free_block EXCEPT ![FakeHead] = second, ![first] = None]
        /\ prev_free_block' =
             [prev_free_block EXCEPT ![second] = FakeHead, ![first] = None]
        /\ num_free_blocks' = num_free_blocks - 1
        /\ held' = held \cup {first}
        /\ result' = <<first>>
        /\ UNCHANGED <<pc, loop>>

(* BlockPool.get_new_blocks asks only for as many blocks as the count says *)
(* there are, so the assertion on the count cannot fail.                   *)
popleft_n(n) ==
  /\ pc = "idle"
  /\ n \in 1..num_free_blocks
  /\ num_free_blocks' = num_free_blocks - n
  /\ curr' = next_free_block[FakeHead]
  /\ blocks' = <<>>
  /\ left' = n
  /\ pc' = "popleft_n"
  /\ UNCHANGED <<links, held, result>>

PopIteration ==
  /\ pc = "popleft_n"
  /\ left > 0
  /\ curr # None
  /\ blocks' = Append(blocks, curr)
  /\ curr' = next_free_block[curr]
  /\ next_free_block' = [next_free_block EXCEPT ![curr] = None]
  /\ prev_free_block' = [prev_free_block EXCEPT ![curr] = None]
  /\ left' = left - 1
  /\ UNCHANGED <<num_free_blocks, held, pc, result>>

(* Mutant: the fake head is not connected to the new first node.           *)
PopReturn_HeadKept ==
  /\ pc = "popleft_n"
  /\ left = 0
  /\ UNCHANGED links
  /\ held' = held \cup {blocks[i] : i \in DOMAIN blocks}
  /\ result' = blocks
  /\ EndLoop
  /\ UNCHANGED num_free_blocks

(* After the loop the fake head is connected to the new first node, unless *)
(* the loop ran past the fake tail.                                        *)
PopReturn ==
  /\ pc = "popleft_n"
  /\ left = 0
  /\ next_free_block' = IF curr = None THEN next_free_block
                        ELSE [next_free_block EXCEPT ![FakeHead] = curr]
  /\ prev_free_block' = IF curr = None THEN prev_free_block
                        ELSE [prev_free_block EXCEPT ![curr] = FakeHead]
  /\ held' = held \cup {blocks[i] : i \in DOMAIN blocks}
  /\ result' = blocks
  /\ EndLoop
  /\ UNCHANGED num_free_blocks

(* Mutant: the next node keeps its link back to the removed block.         *)
remove_OneWay(b) ==
  /\ pc = "idle"
  /\ b \notin held
  /\ prev_free_block[b] # None
  /\ next_free_block[b] # None
  /\ next_free_block' =
       [next_free_block EXCEPT ![prev_free_block[b]] = next_free_block[b],
                               ![b] = None]
  /\ prev_free_block' = [prev_free_block EXCEPT ![b] = None]
  /\ num_free_blocks' = num_free_blocks - 1
  /\ held' = held \cup {b}
  /\ result' = <<>>
  /\ UNCHANGED <<pc, loop>>

(* BlockPool.touch removes a cached block that a new request hits.  The    *)
(* client does so for blocks that it does not hold (ref_cnt = 0).          *)
remove(b) ==
  /\ pc = "idle"
  /\ b \notin held
  /\ LET before == prev_free_block[b]
         after == next_free_block[b]
     IN /\ before # None
        /\ after # None
        /\ next_free_block' =
             [next_free_block EXCEPT ![before] = after, ![b] = None]
        /\ prev_free_block' =
             [prev_free_block EXCEPT ![after] = before, ![b] = None]
        /\ num_free_blocks' = num_free_blocks - 1
        /\ held' = held \cup {b}
        /\ result' = <<>>
        /\ UNCHANGED <<pc, loop>>

append(b) ==
  /\ pc = "idle"
  /\ b \in held
  /\ LET last == prev_free_block[FakeTail]
     IN /\ last # None
        /\ next_free_block' =
             [next_free_block EXCEPT ![last] = b, ![b] = FakeTail]
        /\ prev_free_block' =
             [prev_free_block EXCEPT ![b] = last, ![FakeTail] = b]
        /\ num_free_blocks' = num_free_blocks + 1
        /\ held' = held \ {b}
        /\ result' = <<>>
        /\ UNCHANGED <<pc, loop>>

(* BlockPool.free_blocks hands over distinct blocks that it held.          *)
append_n(bs) ==
  /\ pc = "idle"
  /\ bs # <<>>
  /\ \A i \in DOMAIN bs : bs[i] \in held
  /\ \A i, j \in DOMAIN bs : i # j => bs[i] # bs[j]
  /\ prev_free_block[FakeTail] # None
  /\ curr' = prev_free_block[FakeTail]
  /\ blocks' = bs
  /\ left' = Len(bs)
  /\ held' = held \ {bs[i] : i \in DOMAIN bs}
  /\ pc' = "append_n"
  /\ result' = <<>>
  /\ UNCHANGED <<links, num_free_blocks>>

AppendIteration ==
  /\ pc = "append_n"
  /\ left > 0
  /\ LET block == blocks[Len(blocks) - left + 1]
     IN /\ prev_free_block' = [prev_free_block EXCEPT ![block] = curr]
        /\ next_free_block' = [next_free_block EXCEPT ![curr] = block]
        /\ curr' = block
  /\ left' = left - 1
  /\ UNCHANGED <<num_free_blocks, held, pc, blocks, result>>

(* Mutant: the fake tail is not connected to the new last node.            *)
AppendReturn_TailKept ==
  /\ pc = "append_n"
  /\ left = 0
  /\ next_free_block' = [next_free_block EXCEPT ![curr] = FakeTail]
  /\ num_free_blocks' = num_free_blocks + Len(blocks)
  /\ EndLoop
  /\ UNCHANGED <<prev_free_block, held, result>>

AppendReturn ==
  /\ pc = "append_n"
  /\ left = 0
  /\ next_free_block' = [next_free_block EXCEPT ![curr] = FakeTail]
  /\ prev_free_block' = [prev_free_block EXCEPT ![FakeTail] = curr]
  /\ num_free_blocks' = num_free_blocks + Len(blocks)
  /\ EndLoop
  /\ UNCHANGED <<held, result>>

Next ==
  \/ popleft
  \/ \E n \in 1..NumBlocks : popleft_n(n)
  \/ PopIteration
  \/ PopReturn
  \/ \E b \in Block : remove(b)
  \/ \E b \in Block : append(b)
  \/ \E n \in 1..NumBlocks : \E bs \in [1..n -> Block] : append_n(bs)
  \/ AppendIteration
  \/ AppendReturn

Spec == Init /\ [][Next]_vars

-----------------------------------------------------------------------------
(* get_all_free_blocks: the blocks met from node n on, in list order.  The *)
(* walk is cut after NumBlocks steps, which only a cyclic list would need. *)
Walk(n) ==
  LET at[i \in 1..NumBlocks] ==
        IF i = 1 THEN n
        ELSE IF at[i - 1] \in Block THEN next_free_block[at[i - 1]]
        ELSE at[i - 1]
  IN at

get_all_free_blocks(n) ==
  LET at == Walk(n)
  IN [i \in 1..Cardinality({i \in 1..NumBlocks : at[i] \in Block}) |-> at[i]]

(* The queue that the links stand for.  During popleft_n the blocks        *)
(* already unlinked still count, during append_n those not yet linked do:  *)
(* the calls take effect when the first returns and the second starts.     *)
Queue ==
  CASE pc = "idle" -> get_all_free_blocks(next_free_block[FakeHead])
    [] pc = "popleft_n" -> blocks \o get_all_free_blocks(curr)
    [] pc = "append_n" ->
         get_all_free_blocks(next_free_block[FakeHead])
           \o SubSeq(blocks, Len(blocks) - left + 1, Len(blocks))

List == INSTANCE FreeList WITH queue <- Queue

(* The linked list implements the abstract queue: every call returns and   *)
(* leaves what the same call on a sequence of distinct blocks would.       *)
ImplementsFreeList == List!Spec

(* Types; the links lead to blocks or fake nodes, and popleft_n stays on   *)
(* the list.                                                               *)
TypeOK ==
  /\ prev_free_block \in [Node -> Node \cup {None}]
  /\ next_free_block \in [Node -> Node \cup {None}]
  /\ num_free_blocks \in Nat
  /\ held \subseteq Block
  /\ pc \in {"idle", "popleft_n", "append_n"}
  /\ curr \in Node \cup {None}
  /\ blocks \in Seq(Block)
  /\ left \in Nat
  /\ result \in Seq(Block)

(* The checks of the class, which its comments say never fail: popleft     *)
(* finds the list empty only when the count is 0 (kv_cache_utils.py:224)   *)
(* and a linked first block; remove finds both links of a block that is    *)
(* free; append finds a last node; popleft_n never runs off the list.      *)
ChecksPass ==
  /\ pc = "idle" =>
       LET first == next_free_block[FakeHead]
       IN /\ first \in {FakeTail, None} <=> num_free_blocks = 0
          /\ first \notin {FakeTail, None} => next_free_block[first] # None
          /\ \A b \in Block \ held :
               prev_free_block[b] # None /\ next_free_block[b] # None
          /\ prev_free_block[FakeTail] # None
  /\ pc = "popleft_n" /\ left > 0 => curr # None

-----------------------------------------------------------------------------
(* Why the checks pass: the nodes form a list q, from the fake head q[0]   *)
(* to the fake tail q[ListLen + 1], whose neighbours are linked both ways. *)

(* popleft_n has counted blocks out that are still linked, append_n has    *)
(* linked blocks that are not counted yet.                                 *)
ListLen ==
  num_free_blocks + (CASE pc = "idle" -> 0
                       [] pc = "popleft_n" -> left
                       [] pc = "append_n" -> Len(blocks) - left)

(* popleft_n leaves the link at the head for the end, append_n the one at  *)
(* the tail; every other pair of neighbours is linked at all times.        *)
Linked(q) ==
  \A i \in (IF pc = "popleft_n" THEN 1 ELSE 0)
             ..(IF pc = "append_n" THEN ListLen - 1 ELSE ListLen) :
    next_free_block[q[i]] = q[i + 1] /\ prev_free_block[q[i + 1]] = q[i]

(* The blocks of an append_n call in progress that are not linked yet.     *)
Pending == {i \in DOMAIN blocks : i > Len(blocks) - left}

(* The list, the blocks in transit and the held ones are disjoint and      *)
(* together are all the blocks.                                            *)
Apart(q) ==
  \A b \in Block :
    LET listed == \E i \in 1..ListLen : q[i] = b
        moving == CASE pc = "idle" -> FALSE
                    [] pc = "popleft_n" -> \E i \in DOMAIN blocks : blocks[i] = b
                    [] pc = "append_n" -> \E i \in Pending : blocks[i] = b
    IN /\ b \in held <=> ~listed /\ ~moving
       /\ ~(listed /\ moving)

(* A block that is not in the list leads nowhere, and so does the last one *)
(* while append_n has not linked it to the fake tail.                      *)
Detached(q) ==
  /\ \A b \in Block : (\A i \in 1..ListLen : q[i] # b) => next_free_block[b] = None
  /\ pc = "append_n" => next_free_block[q[ListLen]] \in {FakeTail, None}

Represents(q) ==
  /\ q[0] = FakeHead
  /\ q[ListLen + 1] = FakeTail
  /\ \A i, j \in 0..(ListLen + 1) : q[i] = q[j] => i = j
  /\ Linked(q)
  /\ Apart(q)
  /\ Detached(q)
  /\ pc = "popleft_n" => curr = q[1]
  /\ pc = "append_n" =>
       /\ left <= Len(blocks)
       /\ curr = q[ListLen]
       /\ \A i, j \in Pending : blocks[i] = blocks[j] => i = j

(* At every point of every call some list is the one the links represent.  *)
SomeList == \E q \in [0..(ListLen + 1) -> Node] : Represents(q)
====
