------------------------ MODULE FreeBlockQueueProofs ------------------------
(***************************************************************************)
(* For every number of blocks: the links of FreeBlockQueue represent a     *)
(* list at every point of every call, hence none of the class's checks can *)
(* fail, and every call does what it would do to a sequence of blocks.     *)
(* The inductive invariant is TypeOK together with SomeList; an operation's *)
(* proof names the list that its links represent afterwards.  For the      *)
(* refinement, the walk of get_all_free_blocks is shown to visit exactly   *)
(* the elements of that list.                                              *)
(***************************************************************************)
EXTENDS FreeBlockQueue, FiniteSetTheorems, SequenceTheorems, TLAPS

IInv == TypeOK /\ SomeList

(* The list without its k-th element, and with b before the fake tail.     *)
Without(q, n, k) == [i \in 0..n |-> IF i < k THEN q[i] ELSE q[i + 1]]
With(q, n, b) ==
  [i \in 0..(n + 2) |-> IF i <= n THEN q[i]
                        ELSE IF i = n + 1 THEN b ELSE FakeTail]

(* A list is a function from 0..n+1 whose ends are the fake nodes.         *)
IsList(q, n) ==
  /\ q \in [0..(n + 1) -> Node]
  /\ q[0] = FakeHead
  /\ q[n + 1] = FakeTail
  /\ \A i, j \in 0..(n + 1) : q[i] = q[j] => i = j

(* The set of blocks in the list.                                          *)
Elements(q, n) == {q[i] : i \in 1..n}

(* The nodes lo to hi + 1 of the list are linked both ways.                *)
Chained(next, prev, q, lo, hi) ==
  \A i \in lo..hi : next[q[i]] = q[i + 1] /\ prev[q[i + 1]] = q[i]

(* What popleft and remove do to the links around the k-th element, and    *)
(* append and append_n to those at the end.                                *)
UnlinkNext(next, q, k) == [next EXCEPT ![q[k - 1]] = q[k + 1], ![q[k]] = None]
UnlinkPrev(prev, q, k) == [prev EXCEPT ![q[k + 1]] = q[k - 1], ![q[k]] = None]

LinkNext(next, last, b) == [next EXCEPT ![last] = b, ![b] = FakeTail]
LinkPrev(prev, last, b) == [prev EXCEPT ![b] = last, ![FakeTail] = b]

(* The blocks, the two fake nodes and None are distinct.                   *)
LEMMA Nodes ==
  /\ \A b \in Block : b # FakeHead /\ b # FakeTail /\ b # None /\ b \in Node
  /\ FakeHead # FakeTail /\ FakeHead # None /\ FakeTail # None
  /\ FakeHead \in Node /\ FakeTail \in Node /\ None \notin Node
  /\ \A n \in Node : n # FakeHead /\ n # FakeTail => n \in Block
  BY NumBlocksAssumption DEF Node, Block, FakeHead, FakeTail, None

(* The elements between the fake nodes are blocks.                         *)
LEMMA ListElements ==
  ASSUME NEW n \in Nat, NEW q, IsList(q, n)
  PROVE  \A i \in 1..n : q[i] \in Block
<1> SUFFICES ASSUME NEW i \in 1..n PROVE q[i] \in Block
  OBVIOUS
<1>1. q[i] \in Node /\ q[i] # q[0] /\ q[i] # q[n + 1]
  BY DEF IsList
<1> QED
  BY <1>1, Nodes DEF IsList

(* A list without one of its elements is a list.                           *)
LEMMA WithoutIsList ==
  ASSUME NEW n \in Nat, NEW q, IsList(q, n), NEW k \in 1..n
  PROVE  IsList(Without(q, n, k), n - 1)
<1> DEFINE r == Without(q, n, k)
<1>1. r \in [0..n -> Node]
  BY DEF IsList, Without
<1>2. r[0] = FakeHead /\ r[n] = FakeTail
  BY DEF IsList, Without
<1>3. ASSUME NEW i \in 0..n, NEW j \in 0..n, r[i] = r[j]
      PROVE  i = j
  BY <1>3 DEF IsList, Without
<1> QED
  BY <1>1, <1>2, <1>3 DEF IsList

(* It loses that element only.                                             *)
LEMMA WithoutElements ==
  ASSUME NEW n \in Nat, NEW q, IsList(q, n), NEW k \in 1..n
  PROVE  Elements(Without(q, n, k), n - 1) = Elements(q, n) \ {q[k]}
<1> DEFINE r == Without(q, n, k)
<1>1. ASSUME NEW i \in 1..(n - 1)
      PROVE  r[i] \in Elements(q, n) \ {q[k]}
  BY DEF Without, Elements, IsList
<1>2. ASSUME NEW j \in 1..n, q[j] # q[k]
      PROVE  q[j] \in Elements(r, n - 1)
  <2>1. CASE j < k
    <3>1. j \in 1..(n - 1) /\ r[j] = q[j]
      BY <2>1 DEF Without
    <3> QED
      BY <3>1 DEF Elements
  <2>2. CASE j > k
    <3>1. j - 1 \in 1..(n - 1) /\ r[j - 1] = q[j]
      BY <2>2 DEF Without
    <3> QED
      BY <3>1 DEF Elements
  <2> QED
    BY <2>1, <2>2, <1>2
<1> HIDE DEF r
<1> QED
  BY <1>1, <1>2 DEF Elements, r

(* A block that is not in the list can be put at its end.                  *)
LEMMA WithIsList ==
  ASSUME NEW n \in Nat, NEW q, IsList(q, n),
         NEW b \in Block, b \notin Elements(q, n)
  PROVE  IsList(With(q, n, b), n + 1)
<1> DEFINE r == With(q, n, b)
<1>1. r \in [0..(n + 2) -> Node]
  BY Nodes DEF IsList, With
<1>2. r[0] = FakeHead /\ r[n + 2] = FakeTail /\ r[n + 1] = b
  BY DEF IsList, With
<1>3. \A i \in 0..n : r[i] = q[i] /\ q[i] # b /\ q[i] # FakeTail
  BY Nodes DEF IsList, With, Elements
<1>4. ASSUME NEW i \in 0..(n + 2), NEW j \in 0..(n + 2), r[i] = r[j]
      PROVE  i = j
  <2>1. i \in 0..n \/ i = n + 1 \/ i = n + 2
    OBVIOUS
  <2>2. j \in 0..n \/ j = n + 1 \/ j = n + 2
    OBVIOUS
  <2> QED
    BY <1>2, <1>3, <1>4, <2>1, <2>2, Nodes DEF IsList
<1> QED
  BY <1>1, <1>2, <1>4 DEF IsList

(* It gains that block only.                                               *)
LEMMA WithElements ==
  ASSUME NEW n \in Nat, NEW q, NEW b
  PROVE  Elements(With(q, n, b), n + 1) = Elements(q, n) \cup {b}
<1> DEFINE r == With(q, n, b)
<1>1. r[n + 1] = b /\ \A i \in 1..n : r[i] = q[i]
  BY DEF With
<1>2. \A i \in 1..(n + 1) : i \in 1..n \/ i = n + 1
  OBVIOUS
<1>3. 1..n \subseteq 1..(n + 1) /\ n + 1 \in 1..(n + 1)
  OBVIOUS
<1> HIDE DEF r
<1> QED
  BY <1>1, <1>2, <1>3 DEF Elements, r

(* Taking the k-th node out of a list the way popleft and remove do leaves *)
(* the neighbours of the shorter list linked both ways.                    *)
LEMMA UnlinkChained ==
  ASSUME NEW n \in Nat, NEW q, IsList(q, n), NEW k \in 1..n,
         NEW next \in [Node -> Node \cup {None}],
         NEW prev \in [Node -> Node \cup {None}],
         Chained(next, prev, q, 0, n)
  PROVE  Chained(UnlinkNext(next, q, k), UnlinkPrev(prev, q, k),
                 Without(q, n, k), 0, n - 1)
<1> DEFINE r == Without(q, n, k)
           next2 == UnlinkNext(next, q, k)
           prev2 == UnlinkPrev(prev, q, k)
<1> SUFFICES ASSUME NEW i \in 0..(n - 1)
             PROVE  next2[r[i]] = r[i + 1] /\ prev2[r[i + 1]] = r[i]
  BY DEF Chained
<1>1. \A j \in 0..(n + 1) : q[j] \in Node
  BY DEF IsList
<1>2. \A j, l \in 0..(n + 1) : j # l => q[j] # q[l]
  BY DEF IsList
<1>3. CASE i < k - 1
  <2>1. r[i] = q[i] /\ r[i + 1] = q[i + 1]
    BY <1>3 DEF Without
  <2>2. q[i] # q[k - 1] /\ q[i] # q[k] /\ q[i + 1] # q[k + 1] /\ q[i + 1] # q[k]
    BY <1>2, <1>3
  <2>3. q[i] \in Node /\ q[i + 1] \in Node
    BY <1>1
  <2> QED
    BY <2>1, <2>2, <2>3 DEF UnlinkNext, UnlinkPrev, Chained
<1>4. CASE i = k - 1
  <2>1. r[i] = q[k - 1] /\ r[i + 1] = q[k + 1]
    BY <1>4 DEF Without
  <2>2. q[k - 1] # q[k] /\ q[k + 1] # q[k]
    BY <1>2
  <2>3. q[k - 1] \in Node /\ q[k + 1] \in Node
    BY <1>1
  <2> QED
    BY <2>1, <2>2, <2>3 DEF UnlinkNext, UnlinkPrev
<1>5. CASE i > k - 1
  <2>1. r[i] = q[i + 1] /\ r[i + 1] = q[i + 2]
    BY <1>5 DEF Without
  <2>2. /\ q[i + 1] # q[k - 1] /\ q[i + 1] # q[k]
        /\ q[i + 2] # q[k + 1] /\ q[i + 2] # q[k]
    BY <1>2, <1>5
  <2>3. q[i + 1] \in Node /\ q[i + 2] \in Node
    BY <1>1
  <2>4. next[q[i + 1]] = q[i + 2] /\ prev[q[i + 2]] = q[i + 1]
    BY <1>5 DEF Chained
  <2> QED
    BY <2>1, <2>2, <2>3, <2>4 DEF UnlinkNext, UnlinkPrev
<1> QED
  BY <1>3, <1>4, <1>5

(* Linking a block behind the last node the way append does leaves the     *)
(* neighbours of the longer list linked both ways.                         *)
LEMMA LinkChained ==
  ASSUME NEW n \in Nat, NEW q, IsList(q, n),
         NEW b \in Block, b \notin Elements(q, n),
         NEW next \in [Node -> Node \cup {None}],
         NEW prev \in [Node -> Node \cup {None}],
         Chained(next, prev, q, 0, n)
  PROVE  Chained(LinkNext(next, q[n], b), LinkPrev(prev, q[n], b),
                 With(q, n, b), 0, n + 1)
<1> DEFINE r == With(q, n, b)
           next2 == LinkNext(next, q[n], b)
           prev2 == LinkPrev(prev, q[n], b)
<1> SUFFICES ASSUME NEW i \in 0..(n + 1)
             PROVE  next2[r[i]] = r[i + 1] /\ prev2[r[i + 1]] = r[i]
  BY DEF Chained
<1>1. \A j \in 0..n : /\ q[j] \in Node /\ q[j] # b /\ q[j] # FakeTail
                      /\ j # n => q[j] # q[n]
  BY Nodes DEF IsList, Elements
<1>2. CASE i < n
  <2>1. r[i] = q[i] /\ r[i + 1] = q[i + 1] /\ i \in 0..n /\ i + 1 \in 0..n
    BY <1>2 DEF With
  <2>2. next[q[i]] = q[i + 1] /\ prev[q[i + 1]] = q[i]
    BY <2>1 DEF Chained
  <2> QED
    BY <1>1, <1>2, <2>1, <2>2 DEF LinkNext, LinkPrev
<1>3. CASE i = n
  <2>1. r[i] = q[n] /\ r[i + 1] = b
    BY <1>3 DEF With
  <2> QED
    BY <1>1, <2>1, Nodes DEF LinkNext, LinkPrev
<1>4. CASE i = n + 1
  <2>1. r[i] = b /\ r[i + 1] = FakeTail
    BY <1>4 DEF With
  <2> QED
    BY <2>1, Nodes DEF LinkNext, LinkPrev
<1> QED
  BY <1>2, <1>3, <1>4

(* The list as the operations find it, in the terms of the lemmas above.   *)
Lists(q, n) == n \in Nat /\ n = ListLen /\ IsList(q, n) /\ Represents(q)

(* Initially the blocks are in the order of their ids.                     *)
LEMMA InitList ==
  ASSUME Init
  PROVE  TypeOK /\ \E q : Lists(q, NumBlocks) /\ \A i \in 1..NumBlocks : q[i] = i - 1
<1> DEFINE q == [i \in 0..(NumBlocks + 1) |->
                   IF i = 0 THEN FakeHead
                   ELSE IF i = NumBlocks + 1 THEN FakeTail ELSE i - 1]
<1>1. TypeOK
  BY NumBlocksAssumption DEF Init, TypeOK, Node, Block, FakeHead, FakeTail, None
<1>2. ListLen = NumBlocks
  BY NumBlocksAssumption DEF Init, ListLen
<1>3. q \in [0..(NumBlocks + 1) -> Node]
  BY NumBlocksAssumption DEF Node, Block
<1>4. \A i, j \in 0..(NumBlocks + 1) : q[i] = q[j] => i = j
  BY NumBlocksAssumption DEF FakeHead, FakeTail
<1>5. Linked(q)
  BY <1>2, NumBlocksAssumption
  DEF Linked, Init, Node, Block, FakeHead, FakeTail, None
<1>6. Apart(q)
  <2> SUFFICES ASSUME NEW b \in Block
               PROVE  \E i \in 1..NumBlocks : q[i] = b
    BY <1>2 DEF Apart, Init
  <2>1. b + 1 \in 1..NumBlocks /\ q[b + 1] = b
    BY NumBlocksAssumption DEF Block
  <2> QED
    BY <2>1, Zenon
<1>d. Detached(q)
  BY <1>2, <1>6, Zenon DEF Detached, Apart, Init
<1>7. Represents(q)
  BY <1>d, <1>2, <1>3, <1>4, <1>5, <1>6, NumBlocksAssumption DEF Represents, Init
<1>8. IsList(q, NumBlocks) /\ NumBlocks \in Nat
  BY <1>3, <1>4, NumBlocksAssumption DEF IsList
<1>9. \A i \in 1..NumBlocks : q[i] = i - 1
  BY NumBlocksAssumption
<1> HIDE DEF q
<1>10. Lists(q, NumBlocks)
  BY <1>2, <1>7, <1>8 DEF Lists
<1> QED
  BY <1>1, <1>9, <1>10

(* The inductive invariant holds initially.                                *)
LEMMA InitIInv == Init => IInv
<1> SUFFICES ASSUME Init PROVE IInv
  OBVIOUS
<1> PICK q : Lists(q, NumBlocks)
  BY InitList
<1> QED
  BY InitList DEF IInv, SomeList, Lists, IsList

(* The invariant gives the list that the links represent.                  *)
LEMMA TheList ==
  ASSUME IInv
  PROVE  \E n, q : Lists(q, n)
<1> PICK q \in [0..(ListLen + 1) -> Node] : Represents(q)
  BY DEF IInv, SomeList
<1>1. ListLen \in Nat
  BY DEF IInv, TypeOK, ListLen, Represents
<1>2. IsList(q, ListLen)
  BY <1>1 DEF Represents, IsList
<1> QED
  BY <1>1, <1>2 DEF Lists

(* What is not in the list leads nowhere.                                  *)
LEMMA DetachedNext ==
  ASSUME NEW q, NEW n, ListLen' = n, pc' # "append_n",
         \A b \in Block \ Elements(q, n) : next_free_block'[b] = None
  PROVE  Detached(q)'
BY DEF Detached, Elements

(* popleft takes the first element.                                        *)
LEMMA popleftList ==
  ASSUME IInv, NEW n, NEW q, Lists(q, n), popleft
  PROVE  /\ TypeOK' /\ Lists(Without(q, n, 1), n - 1)'
         /\ n > 0 /\ next_free_block[FakeHead] = q[1]
<1> n \in Nat /\ n = ListLen /\ IsList(q, n) /\ Represents(q)
  BY DEF Lists
<1> DEFINE r == Without(q, n, 1)
<1>1. n = num_free_blocks /\ TypeOK
  BY DEF ListLen, popleft, IInv, TypeOK
<1>2. Chained(next_free_block, prev_free_block, q, 0, n)
  BY DEF Represents, Linked, popleft, Chained
<1>3. n > 0 /\ next_free_block[FakeHead] = q[1] /\ next_free_block[q[1]] = q[2]
  BY <1>2 DEF IsList, popleft, Chained
<1>4. 1 \in 1..n /\ q[1] \in Block
  BY <1>3, ListElements
<1>5. q[0] = FakeHead /\ q[2] \in Node
  BY <1>3 DEF IsList
<1>6. IsList(r, n - 1) /\ Elements(r, n - 1) = Elements(q, n) \ {q[1]}
  BY <1>4, WithoutIsList, WithoutElements
<1>7. Chained(next_free_block', prev_free_block', r, 0, n - 1)
  <2>1. /\ next_free_block' = UnlinkNext(next_free_block, q, 1)
        /\ prev_free_block' = UnlinkPrev(prev_free_block, q, 1)
    <3>1. q[1 - 1] = FakeHead /\ q[1 + 1] = q[2]
      BY <1>5
    <3> QED
      BY <3>1, <1>3, Zenon DEF popleft, UnlinkNext, UnlinkPrev
  <2>2. Chained(UnlinkNext(next_free_block, q, 1),
                UnlinkPrev(prev_free_block, q, 1), r, 0, n - 1)
    BY <1>1, <1>2, <1>4, UnlinkChained DEF TypeOK
  <2> QED
    BY <2>1, <2>2
<1>8. held' = Block \ Elements(r, n - 1)
  <2>1. held = Block \ Elements(q, n)
    BY <1>1 DEF Represents, Apart, popleft, Elements, TypeOK
  <2>2. held' = held \cup {q[1]}
    BY <1>3 DEF popleft
  <2> QED
    BY <2>1, <2>2, <1>4, <1>6
<1> HIDE DEF r
<1>9. ListLen' = n - 1 /\ n - 1 \in Nat
  BY <1>1, <1>3 DEF popleft, ListLen, TypeOK
<1>10. TypeOK'
  BY <1>1, <1>3, <1>4, <1>5, <1>9, Nodes DEF TypeOK, popleft, loop
<1>11. Linked(r)'
  BY <1>7, <1>9, Zenon DEF Linked, Chained, popleft
<1>13. Apart(r)'
  BY <1>8, <1>9 DEF Apart, Elements, popleft
<1>d. Detached(r)'
  <2>1. \A c \in Block \ Elements(q, n) : next_free_block[c] = None
    BY DEF Represents, Detached, Elements
  <2>2. next_free_block' = [next_free_block EXCEPT ![FakeHead] = q[2], ![q[1]] = None]
    BY <1>3, Zenon DEF popleft
  <2>3. \A c \in Block \ Elements(r, n - 1) : next_free_block'[c] = None
    BY <1>1, <1>4, <1>6, <2>1, <2>2, Nodes DEF TypeOK
  <2> QED
    BY <1>9, <2>3, DetachedNext, Zenon DEF popleft
<1>12. Represents(r)'
  BY <1>d, <1>6, <1>9, <1>11, <1>13 DEF Represents, IsList, popleft
<1> QED
  BY <1>3, <1>6, <1>9, <1>10, <1>12 DEF Lists, r

(* remove takes the element that is b.                                     *)
LEMMA removeList ==
  ASSUME IInv, NEW n, NEW q, Lists(q, n), NEW b \in Block, remove(b)
  PROVE  TypeOK' /\ \E k \in 1..n : q[k] = b /\ Lists(Without(q, n, k), n - 1)'
<1> n \in Nat /\ n = ListLen /\ IsList(q, n) /\ Represents(q)
  BY DEF Lists
<1>1. n = num_free_blocks /\ TypeOK
  BY DEF ListLen, remove, IInv, TypeOK
<1>2. Chained(next_free_block, prev_free_block, q, 0, n)
  BY DEF Represents, Linked, remove, Chained
<1>3. held = Block \ Elements(q, n)
  BY <1>1 DEF Represents, Apart, remove, Elements, TypeOK
<1> PICK k \in 1..n : q[k] = b
  BY <1>3 DEF Elements, remove
<1> DEFINE r == Without(q, n, k)
<1>4. prev_free_block[b] = q[k - 1] /\ next_free_block[b] = q[k + 1]
  <2>1. k \in 0..n /\ k - 1 \in 0..n /\ (k - 1) + 1 = k
    OBVIOUS
  <2> QED
    BY <1>2, <2>1 DEF Chained
<1>5. q[k - 1] \in Node /\ q[k + 1] \in Node
  BY DEF IsList
<1>6. IsList(r, n - 1) /\ Elements(r, n - 1) = Elements(q, n) \ {b}
  BY WithoutIsList, WithoutElements, ZenonT(30)
<1>7. Chained(next_free_block', prev_free_block', r, 0, n - 1)
  <2>1. /\ next_free_block' = UnlinkNext(next_free_block, q, k)
        /\ prev_free_block' = UnlinkPrev(prev_free_block, q, k)
    BY <1>4, Zenon DEF remove, UnlinkNext, UnlinkPrev
  <2>2. Chained(UnlinkNext(next_free_block, q, k),
                UnlinkPrev(prev_free_block, q, k), r, 0, n - 1)
    BY <1>1, <1>2, UnlinkChained, Zenon DEF TypeOK
  <2> QED
    BY <2>1, <2>2
<1>8. held' = Block \ Elements(r, n - 1)
  BY <1>3, <1>6 DEF remove
<1> HIDE DEF r
<1>9. ListLen' = n - 1 /\ n - 1 \in Nat
  BY <1>1 DEF remove, ListLen, TypeOK
<1>10. TypeOK'
  BY <1>1, <1>4, <1>5, <1>9, Nodes DEF TypeOK, remove, loop
<1>11. Linked(r)'
  BY <1>7, <1>9, Zenon DEF Linked, Chained, remove
<1>12. Apart(r)'
  BY <1>8, <1>9 DEF Apart, Elements, remove
<1>d. Detached(r)'
  <2>1. \A c \in Block \ Elements(q, n) : next_free_block[c] = None
    BY DEF Represents, Detached, Elements
  <2>2. next_free_block' = [next_free_block EXCEPT ![q[k - 1]] = q[k + 1], ![b] = None]
    BY <1>4, Zenon DEF remove
  <2>3. q[k - 1] = FakeHead \/ q[k - 1] \in Elements(q, n)
    BY DEF IsList, Elements
  <2>4. \A c \in Block \ Elements(r, n - 1) : next_free_block'[c] = None
    BY <1>1, <1>6, <2>1, <2>2, <2>3, Nodes DEF TypeOK
  <2> QED
    BY <1>9, <2>4, DetachedNext, Zenon DEF remove
<1>13. Represents(r)'
  BY <1>d, <1>6, <1>9, <1>11, <1>12 DEF Represents, IsList, remove
<1> QED
  BY <1>6, <1>9, <1>10, <1>13 DEF Lists, r

(* append adds b, which is not in the list, at its end.                    *)
LEMMA appendList ==
  ASSUME IInv, NEW n, NEW q, Lists(q, n), NEW b \in Block, append(b)
  PROVE  TypeOK' /\ Lists(With(q, n, b), n + 1)' /\ b \notin Elements(q, n)
<1> n \in Nat /\ n = ListLen /\ IsList(q, n) /\ Represents(q)
  BY DEF Lists
<1> DEFINE r == With(q, n, b)
<1>1. n = num_free_blocks /\ TypeOK
  BY DEF ListLen, append, IInv, TypeOK
<1>2. Chained(next_free_block, prev_free_block, q, 0, n)
  BY DEF Represents, Linked, append, Chained
<1>3. held = Block \ Elements(q, n)
  BY <1>1 DEF Represents, Apart, append, Elements, TypeOK
<1>4. prev_free_block[FakeTail] = q[n] /\ q[n] \in Node
  BY <1>2 DEF Chained, IsList
<1>5. b \notin Elements(q, n)
  BY <1>3 DEF append
<1>6. IsList(r, n + 1) /\ Elements(r, n + 1) = Elements(q, n) \cup {b}
  BY <1>5, WithIsList, WithElements
<1>7. Chained(next_free_block', prev_free_block', r, 0, n + 1)
  <2>1. /\ next_free_block' = LinkNext(next_free_block, q[n], b)
        /\ prev_free_block' = LinkPrev(prev_free_block, q[n], b)
    BY <1>4, Zenon DEF append, LinkNext, LinkPrev
  <2>2. Chained(LinkNext(next_free_block, q[n], b),
                LinkPrev(prev_free_block, q[n], b), r, 0, n + 1)
    BY <1>1, <1>2, <1>5, LinkChained DEF TypeOK
  <2> QED
    BY <2>1, <2>2
<1>8. held' = Block \ Elements(r, n + 1)
  BY <1>3, <1>6 DEF append
<1> HIDE DEF r
<1>9. ListLen' = n + 1 /\ n + 1 \in Nat
  BY <1>1 DEF append, ListLen, TypeOK
<1>10. TypeOK'
  BY <1>1, <1>4, <1>9, Nodes, SMTT(20) DEF TypeOK, append, loop
<1>11. Linked(r)'
  BY <1>7, <1>9, Zenon DEF Linked, Chained, append
<1>12. Apart(r)'
  BY <1>8, <1>9 DEF Apart, Elements, append
<1>d. Detached(r)'
  <2>1. \A c \in Block \ Elements(q, n) : next_free_block[c] = None
    BY DEF Represents, Detached, Elements
  <2>2. next_free_block' = [next_free_block EXCEPT ![q[n]] = b, ![b] = FakeTail]
    BY <1>4, Zenon DEF append
  <2>3. q[n] = FakeHead \/ q[n] \in Elements(q, n)
    BY DEF IsList, Elements
  <2>4. \A c \in Block \ Elements(r, n + 1) : next_free_block'[c] = None
    BY <1>1, <1>6, <2>1, <2>2, <2>3, Nodes DEF TypeOK
  <2> QED
    BY <1>9, <2>4, DetachedNext, Zenon DEF append
<1>13. Represents(r)'
  BY <1>d, <1>6, <1>9, <1>11, <1>12 DEF Represents, IsList, append
<1> QED
  BY <1>5, <1>6, <1>9, <1>10, <1>13 DEF Lists, r

(* popleft_n leaves the list alone until its loop runs.                    *)
LEMMA popleft_nList ==
  ASSUME IInv, NEW n, NEW q, Lists(q, n), NEW m \in Nat, popleft_n(m)
  PROVE  TypeOK' /\ Lists(q, n)'
<1> n \in Nat /\ n = ListLen /\ IsList(q, n) /\ Represents(q)
  BY DEF Lists
<1>1. n = num_free_blocks /\ TypeOK /\ m \in 1..n
  BY DEF ListLen, popleft_n, IInv, TypeOK
<1>2. Chained(next_free_block, prev_free_block, q, 0, n)
  BY DEF Represents, Linked, popleft_n, Chained
<1>3. curr' = q[1] /\ q[1] \in Node
  BY <1>2 DEF Chained, IsList, popleft_n
<1>4. ListLen' = n
  BY <1>1 DEF popleft_n, ListLen
<1>5. TypeOK'
  BY <1>1, <1>3 DEF TypeOK, popleft_n, links
<1>6. Linked(q)'
  BY <1>2, <1>4 DEF Linked, Chained, popleft_n, links
<1>7. Apart(q)'
  BY <1>4 DEF Represents, Apart, popleft_n
<1>d. Detached(q)'
  <2>1. \A c \in Block \ Elements(q, n) : next_free_block[c] = None
    BY DEF Represents, Detached, Elements
  <2> QED
    BY <1>4, <2>1, DetachedNext DEF popleft_n, links
<1>8. Represents(q)'
  BY <1>d, <1>3, <1>4, <1>6, <1>7 DEF Represents, IsList, popleft_n
<1> QED
  BY <1>4, <1>5, <1>8 DEF Lists

(* An iteration of popleft_n takes the first element.                      *)
LEMMA PopIterationList ==
  ASSUME IInv, NEW n, NEW q, Lists(q, n), PopIteration
  PROVE  TypeOK' /\ Lists(Without(q, n, 1), n - 1)' /\ n > 0 /\ curr = q[1]
<1> n \in Nat /\ n = ListLen /\ IsList(q, n) /\ Represents(q)
  BY DEF Lists
<1> DEFINE r == Without(q, n, 1)
<1>1. n = num_free_blocks + left /\ n > 0 /\ TypeOK
  BY DEF ListLen, PopIteration, IInv, TypeOK
<1>2. Chained(next_free_block, prev_free_block, q, 1, n) /\ curr = q[1]
  BY DEF Represents, Linked, PopIteration, Chained
<1>3. 1 \in 1..n /\ q[1] \in Block /\ next_free_block[q[1]] = q[2]
  BY <1>1, <1>2, ListElements DEF Chained
<1>4. q[2] \in Node
  BY <1>1 DEF IsList
<1>5. IsList(r, n - 1) /\ Elements(r, n - 1) = Elements(q, n) \ {q[1]}
  BY <1>3, WithoutIsList, WithoutElements
<1>6. Chained(next_free_block', prev_free_block', r, 1, n - 1)
  <2> SUFFICES ASSUME NEW i \in 1..(n - 1)
               PROVE  /\ next_free_block'[r[i]] = r[i + 1]
                      /\ prev_free_block'[r[i + 1]] = r[i]
    BY DEF Chained
  <2>1. r[i] = q[i + 1] /\ r[i + 1] = q[i + 2]
    BY DEF Without
  <2>2. q[i + 1] # q[1] /\ q[i + 2] # q[1] /\ q[i + 1] \in Node /\ q[i + 2] \in Node
    BY DEF IsList
  <2>3. next_free_block[q[i + 1]] = q[i + 2] /\ prev_free_block[q[i + 2]] = q[i + 1]
    BY <1>2 DEF Chained
  <2> HIDE DEF r
  <2> QED
    BY <1>1, <1>2, <2>1, <2>2, <2>3 DEF PopIteration, TypeOK
<1>7. r[1] = q[2]
  BY <1>1 DEF Without
<1> HIDE DEF r
<1>8. ListLen' = n - 1 /\ n - 1 \in Nat
  BY <1>1 DEF PopIteration, ListLen, TypeOK
<1>9. TypeOK'
  BY <1>1, <1>2, <1>3, <1>4, Nodes DEF TypeOK, PopIteration
<1>10. Linked(r)'
  BY <1>6, <1>8 DEF Linked, Chained, PopIteration
<1>11. Apart(r)'
  <2>1. \A b : (\E i \in DOMAIN blocks' : blocks'[i] = b)
                  <=> (\E i \in DOMAIN blocks : blocks[i] = b) \/ b = q[1]
    <3>1. /\ \A i \in DOMAIN blocks' : i \in DOMAIN blocks \/ i = Len(blocks) + 1
          /\ DOMAIN blocks \subseteq DOMAIN blocks'
          /\ Len(blocks) + 1 \in DOMAIN blocks'
          /\ blocks'[Len(blocks) + 1] = q[1]
          /\ \A i \in DOMAIN blocks : blocks'[i] = blocks[i]
      BY <1>1, <1>2 DEF PopIteration, TypeOK
    <3> QED
      BY <3>1
  <2>2. \A b \in Block :
          LET listed == b \in Elements(q, n)
              moving == \E i \in DOMAIN blocks : blocks[i] = b
          IN /\ b \in held <=> ~listed /\ ~moving
             /\ ~(listed /\ moving)
    BY DEF Represents, Apart, PopIteration, Elements
  <2>3. \A b \in Block :
          LET listed == b \in Elements(r, n - 1)
              moving == \E i \in DOMAIN blocks' : blocks'[i] = b
          IN /\ b \in held' <=> ~listed /\ ~moving
             /\ ~(listed /\ moving)
    <3>1. held' = held /\ q[1] \in Elements(q, n)
      BY <1>3 DEF PopIteration, Elements
    <3> QED
      BY <2>1, <2>2, <3>1, <1>5
  <2> QED
    BY <2>3, <1>8 DEF Apart, Elements, PopIteration
<1>d. Detached(r)'
  <2>1. \A c \in Block \ Elements(q, n) : next_free_block[c] = None
    BY DEF Represents, Detached, Elements
  <2>2. next_free_block' = [next_free_block EXCEPT ![q[1]] = None]
    BY <1>2, Zenon DEF PopIteration
  <2>3. \A c \in Block \ Elements(r, n - 1) : next_free_block'[c] = None
    BY <1>1, <1>3, <1>5, <2>1, <2>2, Nodes DEF TypeOK
  <2> QED
    BY <1>8, <2>3, DetachedNext DEF PopIteration
<1>12. Represents(r)'
  BY <1>d, <1>3, <1>2, <1>5, <1>7, <1>8, <1>10, <1>11 DEF Represents, IsList, PopIteration
<1> QED
  BY <1>1, <1>2, <1>5, <1>8, <1>9, <1>12 DEF Lists, r

(* The return of popleft_n links the fake head to the list.                *)
LEMMA PopReturnList ==
  ASSUME IInv, NEW n, NEW q, Lists(q, n), PopReturn
  PROVE  TypeOK' /\ Lists(q, n)'
<1> n \in Nat /\ n = ListLen /\ IsList(q, n) /\ Represents(q)
  BY DEF Lists
<1>1. n = num_free_blocks /\ TypeOK
  BY DEF ListLen, PopReturn, IInv, TypeOK
<1>2. Chained(next_free_block, prev_free_block, q, 1, n) /\ curr = q[1]
  BY DEF Represents, Linked, PopReturn, Chained
<1>3. q[0] = FakeHead /\ \A i \in 0..(n + 1) : q[i] \in Node
  BY DEF IsList
<1>4. curr # None
  BY <1>2, <1>3, Nodes
<1>5. Chained(next_free_block', prev_free_block', q, 0, n)
  <2> SUFFICES ASSUME NEW i \in 0..n
               PROVE  /\ next_free_block'[q[i]] = q[i + 1]
                      /\ prev_free_block'[q[i + 1]] = q[i]
    BY DEF Chained
  <2>1. CASE i = 0
    BY <2>1, <1>1, <1>2, <1>3, <1>4, Nodes DEF PopReturn, TypeOK
  <2>2. CASE i > 0
    <3>1. q[i] # q[0] /\ q[i + 1] # q[1]
      BY <2>2 DEF IsList
    <3>2. next_free_block[q[i]] = q[i + 1] /\ prev_free_block[q[i + 1]] = q[i]
      BY <1>2, <2>2 DEF Chained
    <3> QED
      BY <1>1, <1>2, <1>3, <1>4, <3>1, <3>2 DEF PopReturn, TypeOK
  <2> QED
    BY <2>1, <2>2
<1>6. ListLen' = n
  BY <1>1 DEF PopReturn, EndLoop, ListLen
<1>7. TypeOK'
  <2>1. \A i \in DOMAIN blocks : blocks[i] \in Block
    BY <1>1 DEF TypeOK
  <2> QED
    BY <1>1, <1>2, <1>3, <2>1, Nodes DEF TypeOK, PopReturn, EndLoop
<1>8. Linked(q)'
  BY <1>5, <1>6 DEF Linked, Chained, PopReturn, EndLoop
<1>9. Apart(q)'
  <2>1. \A b \in Block :
          LET listed == \E i \in 1..n : q[i] = b
              moving == \E i \in DOMAIN blocks : blocks[i] = b
          IN /\ b \in held <=> ~listed /\ ~moving
             /\ ~(listed /\ moving)
    BY DEF Represents, Apart, PopReturn
  <2>2. \A b \in Block : b \in held' <=> ~(\E i \in 1..n : q[i] = b)
    BY <2>1 DEF PopReturn
  <2> QED
    BY <2>2, <1>6 DEF Apart, PopReturn, EndLoop
<1>d. Detached(q)'
  <2>1. \A c \in Block \ Elements(q, n) : next_free_block[c] = None
    BY DEF Represents, Detached, Elements
  <2>2. next_free_block' = [next_free_block EXCEPT ![FakeHead] = curr]
    BY <1>4, Zenon DEF PopReturn
  <2>3. \A c \in Block \ Elements(q, n) : next_free_block'[c] = None
    BY <1>1, <2>1, <2>2, Nodes DEF TypeOK
  <2> QED
    BY <1>6, <2>3, DetachedNext DEF PopReturn, EndLoop
<1>10. Represents(q)'
  BY <1>d, <1>6, <1>8, <1>9 DEF Represents, IsList, PopReturn, EndLoop
<1> QED
  BY <1>6, <1>7, <1>10 DEF Lists

(* append_n leaves the list alone until its loop runs.                     *)
LEMMA append_nList ==
  ASSUME IInv, NEW n, NEW q, Lists(q, n),
         NEW m \in Nat, NEW bs \in [1..m -> Block], append_n(bs)
  PROVE  TypeOK' /\ Lists(q, n)'
<1> n \in Nat /\ n = ListLen /\ IsList(q, n) /\ Represents(q)
  BY DEF Lists
<1>1. n = num_free_blocks /\ TypeOK
  BY DEF ListLen, append_n, IInv, TypeOK
<1>2. bs \in Seq(Block) /\ Len(bs) = m /\ DOMAIN bs = 1..m
  OBVIOUS
<1>3. Chained(next_free_block, prev_free_block, q, 0, n)
  BY DEF Represents, Linked, append_n, Chained
<1>4. curr' = q[n] /\ q[n] \in Node
  BY <1>3 DEF Chained, IsList, append_n
<1>5. ListLen' = n
  BY <1>1, <1>2 DEF append_n, ListLen
<1>6. TypeOK'
  BY <1>1, <1>2, <1>4 DEF TypeOK, append_n, links
<1>7. Linked(q)'
  BY <1>3, <1>5 DEF Linked, Chained, append_n, links
<1>8. Pending' = DOMAIN bs
  BY <1>2 DEF Pending, append_n
<1>9. Apart(q)'
  <2>1. \A b \in Block : b \in held <=> ~\E i \in 1..n : q[i] = b
    BY DEF Represents, Apart, append_n
  <2> QED
    BY <2>1, <1>5, <1>8 DEF Apart, append_n
<1>d. Detached(q)'
  <2>1. \A c \in Block \ Elements(q, n) : next_free_block[c] = None
    BY DEF Represents, Detached, Elements
  <2>2. next_free_block[q[n]] = FakeTail
    BY <1>3 DEF Chained, IsList
  <2> QED
    BY <1>5, <2>1, <2>2 DEF Detached, Elements, append_n, links
<1>10. Represents(q)'
  BY <1>d, <1>2, <1>4, <1>5, <1>7, <1>8, <1>9 DEF Represents, IsList, append_n
<1> QED
  BY <1>5, <1>6, <1>10 DEF Lists

(* An iteration of append_n adds the next of its blocks at the end.        *)
LEMMA AppendIterationList ==
  ASSUME IInv, NEW n, NEW q, Lists(q, n), AppendIteration
  PROVE  /\ TypeOK' /\ left > 0 /\ left <= Len(blocks)
         /\ \E b \in Block : /\ b = blocks[Len(blocks) - left + 1]
                              /\ Lists(With(q, n, b), n + 1)'
<1> n \in Nat /\ n = ListLen /\ IsList(q, n) /\ Represents(q)
  BY DEF Lists
<1>1. /\ TypeOK
      /\ left \in Nat /\ left > 0 /\ left <= Len(blocks) /\ Len(blocks) \in Nat
      /\ n = num_free_blocks + (Len(blocks) - left)
  BY DEF ListLen, AppendIteration, IInv, TypeOK, Represents
<1> PICK p \in 1..Len(blocks) : p = Len(blocks) - left + 1
  BY <1>1
<1> PICK b \in Block : b = blocks[p]
  BY <1>1 DEF TypeOK
<1> DEFINE r == With(q, n, b)
<1>2. Chained(next_free_block, prev_free_block, q, 0, n - 1) /\ curr = q[n]
  BY DEF Represents, Linked, AppendIteration, Chained
<1>3. /\ next_free_block' = [next_free_block EXCEPT ![q[n]] = b]
      /\ prev_free_block' = [prev_free_block EXCEPT ![b] = q[n]]
      /\ curr' = b
  BY <1>2, Zenon DEF AppendIteration
<1>4. p \in Pending /\ Pending' = Pending \ {p}
  <2>1. DOMAIN blocks = 1..Len(blocks)
    BY <1>1 DEF TypeOK
  <2>2. blocks' = blocks /\ left' = left - 1
    BY DEF AppendIteration
  <2>3. \A i \in 1..Len(blocks) :
          i > Len(blocks) - (left - 1) <=> i > Len(blocks) - left /\ i # p
    BY <1>1
  <2>4. p > Len(blocks) - left
    BY <1>1
  <2> QED
    BY <2>1, <2>2, <2>3, <2>4 DEF Pending
<1>5. \A c \in Block :
        LET listed == c \in Elements(q, n)
            moving == \E i \in Pending : blocks[i] = c
        IN /\ c \in held <=> ~listed /\ ~moving
           /\ ~(listed /\ moving)
  BY DEF Represents, Apart, AppendIteration, Elements
<1>6. \A i, j \in Pending : blocks[i] = blocks[j] => i = j
  BY DEF Represents, AppendIteration
<1>7. b \notin Elements(q, n)
  BY <1>4, <1>5, SMTT(20)
<1>8. IsList(r, n + 1) /\ Elements(r, n + 1) = Elements(q, n) \cup {b}
  BY <1>7, WithIsList, WithElements
<1>9. \A j \in 0..n : /\ r[j] = q[j] /\ q[j] \in Node /\ q[j] # b
                      /\ j # n => q[j] # q[n]
  BY <1>7, Nodes DEF IsList, Elements, With
<1>10. r[n + 1] = b
  BY DEF With
<1> HIDE DEF r
<1>11. Chained(next_free_block', prev_free_block', r, 0, n)
  <2> SUFFICES ASSUME NEW i \in 0..n
               PROVE  /\ next_free_block'[r[i]] = r[i + 1]
                      /\ prev_free_block'[r[i + 1]] = r[i]
    BY DEF Chained
  <2>1. CASE i < n
    <3>1. i \in 0..(n - 1) /\ i + 1 \in 0..n
      BY <2>1
    <3>2. next_free_block[q[i]] = q[i + 1] /\ prev_free_block[q[i + 1]] = q[i]
      BY <1>2, <3>1 DEF Chained
    <3> QED
      BY <2>1, <3>1, <3>2, <1>1, <1>3, <1>9 DEF TypeOK
  <2>2. CASE i = n
    BY <2>2, <1>1, <1>3, <1>9, <1>10, Nodes DEF TypeOK
  <2> QED
    BY <2>1, <2>2
<1>12. ListLen' = n + 1 /\ n + 1 \in Nat
  BY <1>1 DEF AppendIteration, ListLen, TypeOK
<1>13. TypeOK'
  BY <1>1, <1>3, <1>9, Nodes DEF TypeOK, AppendIteration
<1>14. Linked(r)'
  BY <1>11, <1>12 DEF Linked, Chained, AppendIteration
<1>15. Apart(r)'
  <2>1. \A c : (\E i \in Pending' : blocks[i] = c)
                  <=> (\E i \in Pending : blocks[i] = c) /\ c # b
    BY <1>4, <1>6
  <2>2. \A c \in Block :
          LET listed == c \in Elements(r, n + 1)
              moving == \E i \in Pending' : blocks[i] = c
          IN /\ c \in held <=> ~listed /\ ~moving
             /\ ~(listed /\ moving)
    <3>1. \E i \in Pending : blocks[i] = b
      BY <1>4
    <3> QED
      BY <3>1, <1>5, <1>8, <2>1, Zenon
  <2> QED
    BY <2>2, <1>12 DEF Apart, Elements, AppendIteration
<1>16. left' <= Len(blocks') /\ curr' = r[n + 1]
  BY <1>1, <1>3, <1>10 DEF AppendIteration
<1>17. \A i, j \in Pending' : blocks'[i] = blocks'[j] => i = j
  BY <1>4, <1>6 DEF AppendIteration
<1>d. Detached(r)'
  <2>1. \A c \in Block \ Elements(q, n) : next_free_block[c] = None
    BY DEF Represents, Detached, Elements
  <2>2. \A c \in Block \ Elements(r, n + 1) : next_free_block'[c] = None
    <3>1. q[n] = FakeHead \/ q[n] \in Elements(q, n)
      BY DEF IsList, Elements
    <3> QED
      BY <1>1, <1>3, <1>8, <2>1, <3>1, Nodes DEF TypeOK
  <2>3. next_free_block'[r[n + 1]] = None
    BY <1>1, <1>3, <1>7, <1>9, <1>10, <2>1, Nodes, SMTT(20) DEF TypeOK
  <2> QED
    BY <1>12, <2>2, <2>3 DEF Detached, Elements
<1>18. Represents(r)'
  BY <1>d, <1>8, <1>12, <1>14, <1>15, <1>16, <1>17
  DEF Represents, IsList, AppendIteration
<1>19. b = blocks[Len(blocks) - left + 1] /\ Lists(r, n + 1)'
  BY <1>8, <1>12, <1>18 DEF Lists
<1> QED
  BY <1>1, <1>13, <1>19 DEF r

(* The return of append_n links the list to the fake tail.                 *)
LEMMA AppendReturnList ==
  ASSUME IInv, NEW n, NEW q, Lists(q, n), AppendReturn
  PROVE  TypeOK' /\ Lists(q, n)'
<1> n \in Nat /\ n = ListLen /\ IsList(q, n) /\ Represents(q)
  BY DEF Lists
<1>1. TypeOK /\ Len(blocks) \in Nat /\ n = num_free_blocks + Len(blocks)
  BY DEF ListLen, AppendReturn, IInv, TypeOK
<1>2. Chained(next_free_block, prev_free_block, q, 0, n - 1) /\ curr = q[n]
  BY DEF Represents, Linked, AppendReturn, Chained
<1>3. /\ q[n + 1] = FakeTail
      /\ \A j \in 0..n : /\ q[j] \in Node /\ q[j] # FakeTail
                         /\ j # n => q[j] # q[n]
  BY DEF IsList
<1>4. Chained(next_free_block', prev_free_block', q, 0, n)
  <2> SUFFICES ASSUME NEW i \in 0..n
               PROVE  /\ next_free_block'[q[i]] = q[i + 1]
                      /\ prev_free_block'[q[i + 1]] = q[i]
    BY DEF Chained
  <2>1. CASE i < n
    <3>1. i \in 0..(n - 1) /\ i + 1 \in 0..n
      BY <2>1
    <3>2. next_free_block[q[i]] = q[i + 1] /\ prev_free_block[q[i + 1]] = q[i]
      BY <1>2, <3>1 DEF Chained
    <3> QED
      BY <2>1, <3>1, <3>2, <1>1, <1>2, <1>3 DEF TypeOK, AppendReturn
  <2>2. CASE i = n
    BY <2>2, <1>1, <1>2, <1>3, Nodes DEF TypeOK, AppendReturn
  <2> QED
    BY <2>1, <2>2
<1>5. ListLen' = n
  BY <1>1 DEF AppendReturn, EndLoop, ListLen
<1>6. TypeOK'
  BY <1>1, <1>2, <1>3, Nodes DEF TypeOK, AppendReturn, EndLoop
<1>7. Linked(q)'
  BY <1>4, <1>5 DEF Linked, Chained, AppendReturn, EndLoop
<1>8. Pending = {}
  BY <1>1 DEF Pending, AppendReturn, TypeOK
<1>9. Apart(q)'
  BY <1>5, <1>8 DEF Represents, Apart, AppendReturn, EndLoop
<1>d. Detached(q)'
  <2>1. \A c \in Block \ Elements(q, n) : next_free_block[c] = None
    BY DEF Represents, Detached, Elements
  <2>2. q[n] = FakeHead \/ q[n] \in Elements(q, n)
    BY SMTT(20) DEF IsList, Elements
  <2>3. \A c \in Block \ Elements(q, n) : next_free_block'[c] = None
    BY <1>1, <1>2, <2>1, <2>2, Nodes DEF TypeOK, AppendReturn
  <2> QED
    BY <1>5, <2>3, DetachedNext DEF AppendReturn, EndLoop
<1>10. Represents(q)'
  BY <1>d, <1>5, <1>7, <1>9 DEF Represents, IsList, AppendReturn, EndLoop
<1> QED
  BY <1>5, <1>6, <1>10 DEF Lists

(* A step that changes nothing leaves the list as it is.                   *)
LEMMA StutterList ==
  ASSUME IInv, NEW n, NEW q, Lists(q, n), UNCHANGED vars
  PROVE  TypeOK' /\ Lists(q, n)'
<1>1. TypeOK'
  BY DEF vars, links, loop, IInv, TypeOK
<1>2. ListLen' = ListLen /\ Pending' = Pending
  BY DEF vars, loop, ListLen, Pending
<1>3. Linked(q)'
  BY <1>2 DEF vars, links, Lists, Represents, Linked
<1>4. Apart(q)'
  BY <1>2, Zenon DEF vars, loop, Lists, Represents, Apart
<1>5. Detached(q)'
  BY <1>2 DEF vars, links, Lists, Represents, Detached
<1>6. Represents(q)'
  BY <1>2, <1>3, <1>4, <1>5 DEF vars, loop, Lists, Represents
<1> QED
  BY <1>1, <1>2, <1>6 DEF Lists

(* Every step leaves a list.                                               *)
LEMMA StepIInv ==
  ASSUME IInv, [Next]_vars
  PROVE  IInv'
<1> PICK n, q : Lists(q, n)
  BY TheList
<1> SUFFICES TypeOK' /\ \E m, r : Lists(r, m)'
  BY Zenon DEF IInv, SomeList, Lists, IsList
<1>1. 1..NumBlocks \subseteq Nat
  BY NumBlocksAssumption
<1>2. CASE popleft \/ PopIteration \/ PopReturn
  BY <1>2, popleftList, PopIterationList, PopReturnList, Zenon
<1>3. CASE AppendIteration \/ AppendReturn \/ UNCHANGED vars
  BY <1>3, AppendIterationList, AppendReturnList, StutterList, Zenon
<1>4. ASSUME NEW m \in 1..NumBlocks, popleft_n(m)
      PROVE  TypeOK' /\ \E l, r : Lists(r, l)'
  BY <1>1, <1>4, popleft_nList
<1>5. ASSUME NEW b \in Block, remove(b) \/ append(b)
      PROVE  TypeOK' /\ \E m, r : Lists(r, m)'
  BY <1>5, removeList, appendList, Zenon
<1>6. ASSUME NEW m \in 1..NumBlocks, NEW bs \in [1..m -> Block], append_n(bs)
      PROVE  TypeOK' /\ \E l, r : Lists(r, l)'
  BY <1>1, <1>6, append_nList
<1> QED
  BY <1>2, <1>3, <1>4, <1>5, <1>6, Zenon DEF Next

-----------------------------------------------------------------------------
(* The inductive invariant holds in every reachable state: whatever calls  *)
(* BlockPool makes, the links of the free blocks form one proper list.     *)
THEOREM ListInvariant == Spec => [](TypeOK /\ SomeList)
<1>1. Init => IInv
  BY InitIInv
<1>2. IInv /\ [Next]_vars => IInv'
  BY StepIInv
<1> QED
  BY <1>1, <1>2, PTL DEF Spec, IInv

(* The checks that FreeKVCacheBlockQueue makes before it touches the links *)
(* (popleft, remove, append, popleft_n) never fail.                        *)
THEOREM ChecksNeverFail == Spec => []ChecksPass
<1>1. IInv => ChecksPass
  <2> SUFFICES ASSUME IInv PROVE ChecksPass
    OBVIOUS
  <2> PICK n, q : Lists(q, n)
    BY TheList
  <2> n \in Nat /\ n = ListLen /\ IsList(q, n) /\ Represents(q)
    BY DEF Lists
  <2>1. \A i \in 0..(n + 1) : q[i] \in Node /\ q[i] # None
    BY Nodes DEF IsList
  <2>2. CASE pc = "idle"
    <3>1. n = num_free_blocks
      BY <2>2 DEF ListLen, IInv, TypeOK
    <3>2. Chained(next_free_block, prev_free_block, q, 0, n)
      BY <2>2 DEF Represents, Linked, Chained
    <3>3. next_free_block[FakeHead] = q[1] /\ prev_free_block[FakeTail] = q[n]
      BY <3>2 DEF Chained, IsList
    <3>4. q[1] = FakeTail <=> n = 0
      BY SMTT(20) DEF IsList
    <3>5. q[1] # FakeTail => next_free_block[q[1]] = q[2] /\ q[2] # None
      BY <2>1, <3>2, <3>4 DEF Chained
    <3>6. ASSUME NEW b \in Block \ held
          PROVE  prev_free_block[b] # None /\ next_free_block[b] # None
      <4> PICK k \in 1..n : q[k] = b
        BY <2>2, <3>6 DEF Represents, Apart
      <4>1. k \in 0..n /\ k - 1 \in 0..n /\ (k - 1) + 1 = k /\ k + 1 \in 0..(n + 1)
        BY SMTT(20)
      <4>2. prev_free_block[b] = q[k - 1] /\ next_free_block[b] = q[k + 1]
        BY <3>2, <4>1, SMTT(20) DEF Chained
      <4> QED
        BY <2>1, <4>1, <4>2
    <3> QED
      BY <2>1, <2>2, <3>1, <3>3, <3>4, <3>5, <3>6, SMTT(20) DEF ChecksPass
  <2>3. CASE pc # "idle"
    BY <2>1, <2>3 DEF ChecksPass, Represents
  <2> QED
    BY <2>2, <2>3
<1> QED
  BY <1>1, ListInvariant, PTL DEF IInv

-----------------------------------------------------------------------------
(* The refinement: the walk of get_all_free_blocks meets the elements of   *)
(* the list, so that the steps on the links are steps on a sequence.       *)

(* Every set of numbers has a least one: the induction below.              *)
LEMMA Least ==
  ASSUME NEW T \in SUBSET Nat, T # {}
  PROVE  \E x \in T : \A y \in T : x <= y
<1>1. \E R : IsWellFoundedOn(R, Nat) /\ \A x, y \in Nat : x < y => <<x, y>> \in R
  <2>1. \A x, y \in Nat : x < y => <<x, y>> \in OpToRel(<, Nat)
    BY DEF OpToRel
  <2> QED
    BY <2>1, NatLessThanWellFounded, Zenon
<1>2. PICK R : IsWellFoundedOn(R, Nat) /\ \A x, y \in Nat : x < y => <<x, y>> \in R
  BY <1>1, Zenon
<1>3. T \subseteq Nat
  OBVIOUS
<1>4. IsWellFoundedOn(R, Nat)
  BY <1>2, Zenon
<1>5. PICK x \in T : \A y \in T : ~ (<<y, x>> \in R)
  BY <1>3, <1>4, WFMin, Zenon
<1>6. \A y \in T : ~ (y < x)
  BY <1>2, <1>3, <1>5, Zenon
<1> QED
  BY <1>3, <1>6

(* The nodes that the walk visits are determined by the links.             *)
Visited(g, first) ==
  [i \in 1..NumBlocks |-> IF i = 1 THEN first
                          ELSE IF g[i - 1] \in Block THEN next_free_block[g[i - 1]]
                          ELSE g[i - 1]]

(* A function that visits the nodes that the links give is the walk of     *)
(* get_all_free_blocks: two of them cannot differ at a least index.        *)
LEMMA WalkVisits ==
  ASSUME NEW first, NEW w, w = Visited(w, first)
  PROVE  Walk(first) = w
<1> DEFINE v == Walk(first)
<1>1. v = CHOOSE g : g = Visited(g, first)
  BY DEF Walk, Visited
<1>2. v = Visited(v, first)
  BY <1>1, Zenon
<1> HIDE DEF v
<1> DEFINE T == {i \in 1..NumBlocks : v[i] # w[i]}
<1>3. ASSUME T # {} PROVE FALSE
  <2>1. T \in SUBSET Nat
    BY NumBlocksAssumption
  <2>2. PICK i \in T : \A j \in T : i <= j
    BY <1>3, <2>1, Least, Zenon
  <2>3. i # 1
    BY <1>2, NumBlocksAssumption DEF Visited
  <2>4. i - 1 \in 1..NumBlocks /\ ~(i <= i - 1) /\ i \in 1..NumBlocks
    BY <2>3, NumBlocksAssumption
  <2>5. v[i - 1] = w[i - 1]
    BY <2>2, <2>4
  <2>6. v[i] = w[i]
    BY <1>2, <2>3, <2>4, <2>5 DEF Visited
  <2> QED
    BY <2>6
<1>4. \A i \in 1..NumBlocks : v[i] = w[i]
  BY <1>3
<1>5. v = [i \in 1..NumBlocks |-> v[i]] /\ w = [i \in 1..NumBlocks |-> w[i]]
  BY <1>2 DEF Visited
<1>6. v = w
  BY <1>4, <1>5
<1> QED
  BY <1>6 DEF v

(* A list has at most NumBlocks elements.                                  *)
LEMMA ListFits ==
  ASSUME NEW n \in Nat, NEW q, IsList(q, n)
  PROVE  n <= NumBlocks
<1> DEFINE f == [i \in 1..n |-> q[i]]
<1>1. f \in [1..n -> Block]
  BY ListElements
<1>2. IsInjective(f)
  BY DEF IsInjective, IsList
<1>3. IsFiniteSet(Block) /\ Cardinality(Block) = NumBlocks
  <2>1. 0 \in Int /\ NumBlocks - 1 \in Int /\ ~(0 > NumBlocks - 1)
    BY NumBlocksAssumption
  <2>2. IsFiniteSet(0..(NumBlocks - 1)) /\
        Cardinality(0..(NumBlocks - 1)) = (NumBlocks - 1) - 0 + 1
    BY <2>1, FS_Interval
  <2> QED
    BY <2>2, NumBlocksAssumption DEF Block
<1>4. Cardinality(1..n) = n
  BY FS_Interval
<1> HIDE DEF f
<1>5. f \in Injection(1..n, Block)
  BY <1>1, <1>2 DEF Injection
<1>6. Cardinality(1..n) <= Cardinality(Block)
  BY <1>3, <1>5, FS_Injection
<1> QED
  BY <1>3, <1>4, <1>6

(* The elements of the list, in order.                                     *)
ListSeq(q, n) == [i \in 1..n |-> q[i]]

(* get_all_free_blocks returns the elements of the list, whatever node     *)
(* that is no block the last of them leads to.                             *)
LEMMA WalkReturns ==
  ASSUME NEW n \in Nat, NEW q, IsList(q, n), NEW e, e \notin Block,
         NEW first, first = IF n = 0 THEN e ELSE q[1],
         \A i \in 1..n : next_free_block[q[i]] = IF i = n THEN e ELSE q[i + 1]
  PROVE  get_all_free_blocks(first) = ListSeq(q, n)
<1> DEFINE w == [i \in 1..NumBlocks |-> IF i <= n THEN q[i] ELSE e]
<1>1. n <= NumBlocks /\ \A i \in 1..n : q[i] \in Block
  BY ListFits, ListElements
<1>2. w = Visited(w, first)
  <2>1. ASSUME NEW i \in 1..NumBlocks
        PROVE  w[i] = IF i = 1 THEN first
                      ELSE IF w[i - 1] \in Block THEN next_free_block[w[i - 1]] ELSE w[i - 1]
    <3>1. i \in Nat /\ w[i] = IF i <= n THEN q[i] ELSE e
      BY NumBlocksAssumption
    <3>2. CASE i = 1
      BY <3>1, <3>2, SMTT(20)
    <3>3. CASE i # 1
      <4>1. i - 1 \in 1..NumBlocks /\ w[i - 1] = IF i - 1 <= n THEN q[i - 1] ELSE e
        BY <3>1, <3>3, NumBlocksAssumption
      <4>2. CASE i - 1 <= n
        BY <1>1, <3>1, <3>3, <4>1, <4>2
      <4>3. CASE i - 1 > n
        BY <3>1, <3>3, <4>1, <4>3
      <4> QED
        BY <3>1, <4>2, <4>3
    <3> QED
      BY <3>2, <3>3, Zenon
  <2>2. w = [i \in 1..NumBlocks |-> w[i]]
    OBVIOUS
  <2> HIDE DEF w
  <2> QED
    BY <2>1, <2>2 DEF Visited
<1>3. Walk(first) = w
  BY <1>2, WalkVisits
<1>4. {i \in 1..NumBlocks : w[i] \in Block} = 1..n
  BY <1>1, NumBlocksAssumption
<1>5. Cardinality(1..n) = n
  BY FS_Interval
<1>6. \A i \in 1..n : w[i] = q[i]
  BY <1>1, NumBlocksAssumption
<1> HIDE DEF w
<1>7. get_all_free_blocks(first) = [i \in 1..n |-> w[i]]
  BY <1>3, <1>4, <1>5, Zenon DEF get_all_free_blocks
<1> QED
  BY <1>6, <1>7 DEF ListSeq

(* The blocks of a loop in progress, on either side of the list.           *)
Rest == SubSeq(blocks, Len(blocks) - left + 1, Len(blocks))

QueueIs(q, n) ==
  /\ ListSeq(q, n) \in Seq(Block) /\ Len(ListSeq(q, n)) = n
  /\ pc = "idle" => Queue = ListSeq(q, n)
  /\ pc = "popleft_n" => Queue = blocks \o ListSeq(q, n)
  /\ pc = "append_n" => Queue = ListSeq(q, n) \o Rest

(* The queue of the refinement mapping is the list's elements, with the    *)
(* blocks that a loop has taken or has yet to append.                      *)
LEMMA QueueLists ==
  ASSUME IInv, NEW n, NEW q, Lists(q, n)
  PROVE  QueueIs(q, n)
<1> n \in Nat /\ n = ListLen /\ IsList(q, n) /\ Represents(q)
  BY DEF Lists
<1>1. \A i \in 1..n : q[i] \in Block
  BY ListElements
<1>2. ListSeq(q, n) \in Seq(Block) /\ Len(ListSeq(q, n)) = n
  BY <1>1 DEF ListSeq
<1>3. FakeTail \notin Block /\ None \notin Block
  BY Nodes
<1>4. pc \in {"idle", "popleft_n", "append_n"}
  BY SMTT(20) DEF IInv, TypeOK
<1>5. CASE pc \in {"idle", "popleft_n"}
  <2>1. \A i \in 1..n : next_free_block[q[i]] = IF i = n THEN FakeTail ELSE q[i + 1]
    BY <1>5 DEF Represents, Linked, IsList
  <2>2. q[1] = IF n = 0 THEN FakeTail ELSE q[1]
    BY DEF IsList
  <2>3. get_all_free_blocks(q[1]) = ListSeq(q, n)
    BY <1>3, <2>1, <2>2, WalkReturns, ZenonT(30)
  <2>4. pc = "idle" => next_free_block[FakeHead] = q[1]
    BY DEF Represents, Linked, IsList
  <2>5. pc = "popleft_n" => curr = q[1]
    BY DEF Represents
  <2> QED
    BY <1>2, <1>5, <2>3, <2>4, <2>5 DEF Queue, QueueIs
<1>6. CASE pc = "append_n"
  <2>1. PICK e : e = next_free_block[q[n]]
    BY SMTT(20)
  <2>2. e \notin Block
    BY <1>3, <1>6, <2>1 DEF Represents, Detached
  <2>3. \A i \in 0..(n - 1) : next_free_block[q[i]] = q[i + 1]
    BY <1>6 DEF Represents, Linked
  <2>4. \A i \in 1..n : next_free_block[q[i]] = IF i = n THEN e ELSE q[i + 1]
    BY <2>1, <2>3
  <2>5. next_free_block[FakeHead] = IF n = 0 THEN e ELSE q[1]
    BY <2>1, <2>3 DEF IsList
  <2>6. get_all_free_blocks(next_free_block[FakeHead]) = ListSeq(q, n)
    BY <2>2, <2>4, <2>5, WalkReturns
  <2> QED
    BY <1>2, <1>6, <2>6, Zenon DEF Queue, Rest, QueueIs
<1> QED
  BY <1>4, <1>5, <1>6

(* The same for every list that the links may represent.                   *)
LEMMA QueueEverywhere == \A n, q : IInv /\ Lists(q, n) => QueueIs(q, n)
BY QueueLists

(* The same, in the state after a step.                                    *)
LEMMA QueueAfter == (\A n, q : IInv /\ Lists(q, n) => QueueIs(q, n))'
BY QueueEverywhere, PTL

(* Two sequences, one after the other.                                     *)
LEMMA JoinedSeq ==
  ASSUME NEW S, NEW s \in Seq(S), NEW t \in Seq(S)
  PROVE  s \o t = [i \in 1..(Len(s) + Len(t)) |-> IF i <= Len(s) THEN s[i] ELSE t[i - Len(s)]]
<1> DEFINE c == s \o t
<1>1. /\ c \in Seq(S) /\ Len(c) = Len(s) + Len(t)
      /\ \A i \in 1..(Len(s) + Len(t)) : c[i] = IF i <= Len(s) THEN s[i] ELSE t[i - Len(s)]
  BY ConcatProperties
<1> HIDE DEF c
<1>2. c = [i \in 1..(Len(s) + Len(t)) |-> c[i]]
  BY <1>1
<1> QED
  BY <1>1, <1>2 DEF c

(* Taking an element out of the list, on the sequence.                     *)
LEMMA WithoutSeq ==
  ASSUME NEW n \in Nat, NEW q, ListSeq(q, n) \in Seq(Block), NEW k \in 1..n
  PROVE  ListSeq(Without(q, n, k), n - 1) =
           SubSeq(ListSeq(q, n), 1, k - 1) \o SubSeq(ListSeq(q, n), k + 1, n)
<1> DEFINE s == ListSeq(q, n)
           a == SubSeq(s, 1, k - 1)
           b == SubSeq(s, k + 1, n)
<1>1. s \in Seq(Block) /\ Len(s) = n /\ \A i \in 1..n : s[i] = q[i]
  BY DEF ListSeq
<1> HIDE DEF s
<1>2. a \in Seq(Block) /\ Len(a) = k - 1 /\ \A i \in 1..(k - 1) : a[i] = q[i]
  BY <1>1
<1>3. b \in Seq(Block) /\ Len(b) = n - k /\ \A i \in 1..(n - k) : b[i] = q[k + i]
  BY <1>1
<1> HIDE DEF a, b
<1>4. a \o b = [i \in 1..(n - 1) |-> IF i < k THEN q[i] ELSE q[i + 1]]
  <2>1. a \o b = [i \in 1..(n - 1) |-> IF i <= k - 1 THEN a[i] ELSE b[i - (k - 1)]]
    <3>1. k - 1 = Len(a) /\ n - 1 = Len(a) + Len(b)
      BY <1>2, <1>3
    <3>2. a \o b = [i \in 1..(Len(a) + Len(b)) |-> IF i <= Len(a) THEN a[i] ELSE b[i - Len(a)]]
      <4>1. a \in Seq(Block) /\ b \in Seq(Block)
        BY <1>2, <1>3
      <4> QED
        BY <4>1, JoinedSeq, Zenon
    <3> QED
      BY <3>1, <3>2, Zenon
  <2>2. \A i \in 1..(n - 1) : (IF i <= k - 1 THEN a[i] ELSE b[i - (k - 1)]) =
                               (IF i < k THEN q[i] ELSE q[i + 1])
    <3> SUFFICES ASSUME NEW i \in 1..(n - 1), i >= k PROVE b[i - (k - 1)] = q[i + 1]
      BY <1>2
    <3>1. i - (k - 1) \in 1..(n - k) /\ k + (i - (k - 1)) = i + 1
      OBVIOUS
    <3> QED
      BY <1>3, <3>1
  <2> QED
    BY <2>1, <2>2
<1>5. ListSeq(Without(q, n, k), n - 1) =
        [i \in 1..(n - 1) |-> IF i < k THEN q[i] ELSE q[i + 1]]
  BY DEF ListSeq, Without
<1> QED
  BY <1>4, <1>5, Zenon DEF a, b, s

(* Adding a block at the end of the list, on the sequence.                 *)
LEMMA WithSeq ==
  ASSUME NEW n \in Nat, NEW q, ListSeq(q, n) \in Seq(Block), NEW b \in Block
  PROVE  ListSeq(With(q, n, b), n + 1) = ListSeq(q, n) \o <<b>>
<1> DEFINE s == ListSeq(q, n)
<1>1. s \in Seq(Block) /\ Len(s) = n /\ \A i \in 1..n : s[i] = q[i]
  BY DEF ListSeq
<1> HIDE DEF s
<1>2. s \o <<b>> = [i \in 1..(n + 1) |-> IF i <= n THEN q[i] ELSE b]
  BY <1>1
<1>3. ListSeq(With(q, n, b), n + 1) = [i \in 1..(n + 1) |-> IF i <= n THEN q[i] ELSE b]
  BY DEF ListSeq, With
<1> QED
  BY <1>2, <1>3 DEF s

(* The blocks of the queue, and the others.                                *)
LEMMA QueueTaken ==
  ASSUME IInv, pc = "idle", NEW n, NEW q, Lists(q, n)
  PROVE  List!Taken = Block \ Elements(q, n)
<1>1. Queue = [i \in 1..n |-> q[i]]
  BY QueueLists, Zenon DEF QueueIs, ListSeq
<1> QED
  BY <1>1 DEF List!Taken, List!Range, List!Block, Block, Elements

(* popleft and popleft_n take the first blocks of the queue.               *)
LEMMA PopsFirst ==
  ASSUME IInv, [Next]_vars, popleft \/ PopReturn
  PROVE  List!Next
<1> PICK n, q : Lists(q, n)
  BY TheList
<1>1. IInv' /\ n \in Nat
  BY StepIInv DEF Lists
<1>2. QueueIs(q, n) /\ ListSeq(q, n) \in Seq(Block) /\ Len(ListSeq(q, n)) = n
  BY QueueLists DEF QueueIs
<1>3. CASE popleft
  <2>1. /\ n > 0 /\ 1 \in 1..n /\ next_free_block[FakeHead] = q[1]
        /\ Lists(Without(q, n, 1), n - 1)'
    BY <1>1, <1>3, popleftList
  <2>2. Queue = ListSeq(q, n)
    BY <1>2, <1>3 DEF QueueIs, popleft
  <2>3. Queue' = ListSeq(Without(q, n, 1), n - 1)
    <3>1. QueueIs(Without(q, n, 1), n - 1)' /\ pc' = "idle"
      BY <1>1, <1>3, <2>1, QueueAfter, Zenon DEF popleft
    <3> QED
      BY <3>1 DEF QueueIs
  <2>4. ListSeq(Without(q, n, 1), n - 1) =
          SubSeq(ListSeq(q, n), 1, 1 - 1) \o SubSeq(ListSeq(q, n), 1 + 1, n)
    BY <1>1, <1>2, <2>1, WithoutSeq, Zenon
  <2>5. Queue' = SubSeq(Queue, 1 + 1, Len(Queue))
    BY <1>1, <1>2, <2>2, <2>3, <2>4
  <2>6. result' = SubSeq(Queue, 1, 1)
    <3>1. result' = <<q[1]>>
      BY <1>3, <2>1, SMTT(20) DEF popleft
    <3>2. ListSeq(q, n)[1] = q[1]
      BY <2>1 DEF ListSeq
    <3> QED
      BY <1>1, <1>2, <2>1, <2>2, <3>1, <3>2
  <2>7. 1 \in 0..Len(Queue)
    BY <1>1, <1>2, <2>1, <2>2
  <2>8. List!PopN(1)
    BY <2>5, <2>6, <2>7 DEF List!PopN
  <2> QED
    BY <2>7, <2>8, ZenonT(30) DEF List!Next
<1>4. CASE PopReturn
  <2>1. Lists(q, n)'
    BY <1>4, PopReturnList
  <2>2. Queue = blocks \o ListSeq(q, n) /\ blocks \in Seq(Block)
    BY <1>2, <1>4 DEF QueueIs, PopReturn, IInv, TypeOK
  <2>3. Queue' = ListSeq(q, n)
    <3>1. QueueIs(q, n)' /\ pc' = "idle"
      BY <1>1, <1>4, <2>1, QueueAfter, ZenonT(30) DEF PopReturn, EndLoop
    <3> QED
      BY <3>1 DEF QueueIs
  <2>4. result' = blocks
    BY <1>4 DEF PopReturn
  <2>5. Len(blocks) \in 0..Len(Queue)
    BY <1>2, <2>2
  <2>6. blocks = SubSeq(Queue, 1, Len(blocks))
    BY <1>2, <2>2
  <2>7. ListSeq(q, n) = SubSeq(Queue, Len(blocks) + 1, Len(Queue))
    BY <1>2, <2>2
  <2>8. List!PopN(Len(blocks))
    <3>1. Len(blocks) <= Len(Queue)
      BY <1>2, <2>2
    <3> QED
      BY <2>3, <2>4, <2>6, <2>7, <3>1, Zenon DEF List!PopN
  <2> QED
    BY <2>5, <2>8, ZenonT(30) DEF List!Next
<1> QED
  BY <1>3, <1>4

(* remove takes one block out of the queue.                                *)
LEMMA RemovesOne ==
  ASSUME IInv, [Next]_vars, NEW b \in Block, remove(b)
  PROVE  List!Next
<1> PICK n, q : Lists(q, n)
  BY TheList
<1>1. IInv' /\ n \in Nat
  BY StepIInv DEF Lists
<1>2. /\ ListSeq(q, n) \in Seq(Block) /\ Len(ListSeq(q, n)) = n
      /\ Queue = ListSeq(q, n)
  BY QueueLists DEF QueueIs, remove
<1>3. PICK k \in 1..n : q[k] = b /\ Lists(Without(q, n, k), n - 1)'
  BY removeList
<1>4. Queue' = ListSeq(Without(q, n, k), n - 1)
  <2>1. QueueIs(Without(q, n, k), n - 1)' /\ pc' = "idle"
    BY <1>1, <1>3, QueueAfter, Zenon DEF remove
  <2> QED
    BY <2>1 DEF QueueIs
<1>5. Queue' = SubSeq(Queue, 1, k - 1) \o SubSeq(Queue, k + 1, Len(Queue))
  BY <1>1, <1>2, <1>4, WithoutSeq, Zenon
<1>6. k \in DOMAIN Queue /\ Queue[k] = b
  BY <1>2, <1>3 DEF ListSeq
<1>7. result' = <<>>
  BY DEF remove
<1> QED
  BY <1>5, <1>6, <1>7, Zenon DEF List!Next, List!Remove1, List!Block, Block

(* append and append_n add taken blocks at the end of the queue.           *)
LEMMA AppendsLast ==
  ASSUME IInv, [Next]_vars, NEW m \in 1..NumBlocks, NEW bs \in [1..m -> Block],
         append_n(bs) \/ (m = 1 /\ append(bs[1]))
  PROVE  List!Next
<1> PICK n, q : Lists(q, n)
  BY TheList
<1>1. IInv' /\ n \in Nat /\ m \in Nat /\ 1..NumBlocks \subseteq Nat
  BY StepIInv, NumBlocksAssumption DEF Lists
<1>2. /\ ListSeq(q, n) \in Seq(Block) /\ Len(ListSeq(q, n)) = n
      /\ Queue = ListSeq(q, n) /\ pc = "idle"
  BY QueueLists DEF QueueIs, append_n, append
<1>3. bs \in Seq(Block) /\ Len(bs) = m /\ DOMAIN bs = 1..m
  BY <1>1
<1>4. result' = <<>>
  BY DEF append_n, append
<1>5. Queue' = Queue \o bs /\ IsInjective(bs) /\ \A i \in 1..m : bs[i] \notin Elements(q, n)
  <2>1. CASE append_n(bs)
    <3>1. Lists(q, n)'
      BY <1>1, <2>1, append_nList
    <3>2. Queue' = ListSeq(q, n) \o Rest'
      <4>1. QueueIs(q, n)' /\ pc' = "append_n"
        BY <1>1, <2>1, <3>1, QueueAfter, Zenon DEF append_n
      <4> QED
        BY <4>1 DEF QueueIs
    <3>3. Rest' = SubSeq(bs, 1, Len(bs))
      BY <1>3, <2>1 DEF Rest, append_n
    <3>4. Rest' = bs
      BY <1>3, <3>3
    <3>5. IsInjective(bs)
      BY <2>1 DEF IsInjective, append_n
    <3>6. \A i \in 1..m : bs[i] \notin Elements(q, n)
      <4>1. \A b \in Block : b \in held => b \notin Elements(q, n)
        BY <1>2 DEF Lists, Represents, Apart, Elements
      <4> QED
        BY <1>3, <2>1, <4>1 DEF append_n
    <3> QED
      BY <1>2, <3>2, <3>4, <3>5, <3>6
  <2>2. CASE m = 1 /\ append(bs[1])
    <3>1. bs[1] \in Block /\ bs = <<bs[1]>>
      BY <1>3, <2>2
    <3>2. Lists(With(q, n, bs[1]), n + 1)' /\ bs[1] \notin Elements(q, n)
      BY <2>2, <3>1, appendList
    <3>3. Queue' = ListSeq(With(q, n, bs[1]), n + 1)
      <4>1. QueueIs(With(q, n, bs[1]), n + 1)' /\ pc' = "idle"
        BY <1>1, <2>2, <3>2, QueueAfter, Zenon DEF append
      <4> QED
        BY <4>1 DEF QueueIs
    <3>4. Queue' = ListSeq(q, n) \o <<bs[1]>>
      BY <1>1, <1>2, <3>1, <3>3, WithSeq
    <3>5. IsInjective(bs)
      BY <1>3, <2>2 DEF IsInjective
    <3>6. Queue' = Queue \o bs
      BY <1>2, <3>1, <3>4, ZenonT(30)
    <3>7. \A i \in 1..m : bs[i] \notin Elements(q, n)
      BY <2>2, <3>2
    <3> QED
      BY <3>5, <3>6, <3>7
  <2> QED
    BY <2>1, <2>2
<1>6. List!Range(bs) \subseteq List!Taken /\ List!IsInjective(bs)
  BY <1>2, <1>3, <1>5, QueueTaken DEF List!Range, List!IsInjective, IsInjective
<1>7. List!AppendN(bs)
  BY <1>4, <1>5, <1>6 DEF List!AppendN
<1> QED
  BY <1>7 DEF List!Next, List!Block, Block

(* Joining three sequences of blocks does not depend on the order the two  *)
(* joins are made in.                                                      *)
LEMMA JoinedInTurn ==
  \A s, t, u \in Seq(Block) : (s \o t) \o u = s \o (t \o u)
<1> TAKE s, t, u \in Seq(Block)
<1> QED
  OBVIOUS

(* The start and the iterations of popleft_n, the iterations and the end   *)
(* of append_n, leave the queue as it is.                                  *)
LEMMA LoopsHide ==
  ASSUME IInv, [Next]_vars,
         \/ \E m \in 1..NumBlocks : popleft_n(m)
         \/ PopIteration \/ AppendIteration \/ AppendReturn \/ UNCHANGED vars
  PROVE  UNCHANGED <<Queue, result>>
<1> PICK n, q : Lists(q, n)
  BY TheList
<1>1. IInv' /\ n \in Nat /\ blocks \in Seq(Block) /\ Len(blocks) \in Nat /\ left \in Nat
  BY StepIInv DEF Lists, IInv, TypeOK
<1>2. QueueIs(q, n) /\ ListSeq(q, n) \in Seq(Block) /\ Len(ListSeq(q, n)) = n
  BY QueueLists DEF QueueIs
<1>3. ASSUME NEW m \in 1..NumBlocks, popleft_n(m) PROVE UNCHANGED <<Queue, result>>
  <2>1. Lists(q, n)'
    BY <1>3, popleft_nList, NumBlocksAssumption
  <2>2. QueueIs(q, n)'
    BY <1>1, <2>1, QueueAfter, Zenon
  <2>3. pc = "idle" /\ pc' = "popleft_n" /\ blocks' = <<>> /\ result' = result
    BY <1>3 DEF popleft_n
  <2>4. Queue = ListSeq(q, n) /\ Queue' = <<>> \o ListSeq(q, n)
    BY <1>2, <2>2, <2>3 DEF QueueIs
  <2>5. <<>> \o ListSeq(q, n) = ListSeq(q, n)
    BY <1>2, ConcatEmptySeq
  <2> QED
    BY <2>3, <2>4, <2>5
<1>4. CASE PopIteration
  <2>1. n > 0 /\ curr = q[1] /\ Lists(Without(q, n, 1), n - 1)'
    BY <1>4, PopIterationList
  <2>2. QueueIs(Without(q, n, 1), n - 1)'
    BY <1>1, <2>1, QueueAfter, Zenon
  <2>3. /\ pc = "popleft_n" /\ pc' = "popleft_n" /\ result' = result
        /\ blocks' = Append(blocks, q[1])
    BY <1>4, <2>1, Zenon DEF PopIteration
  <2>4. Queue = blocks \o ListSeq(q, n)
    BY <1>2, <2>3 DEF QueueIs
  <2>5. Queue' = Append(blocks, q[1]) \o ListSeq(Without(q, n, 1), n - 1)
    BY <2>2, <2>3, SMTT(20) DEF QueueIs
  <2>6. Append(blocks, q[1]) \o ListSeq(Without(q, n, 1), n - 1) = blocks \o ListSeq(q, n)
    <3>1. /\ q[1] \in Block /\ 1 \in 1..n
          /\ ListSeq(Without(q, n, 1), n - 1) \in Seq(Block)
          /\ Len(ListSeq(Without(q, n, 1), n - 1)) = n - 1
      BY <1>1, <2>1, <2>2, ListElements, SMTT(20) DEF Lists, QueueIs
    <3> DEFINE s == ListSeq(q, n)
               t == ListSeq(Without(q, n, 1), n - 1)
    <3>2. s[1] = q[1] /\ \A i \in 1..(n - 1) : t[i] = s[i + 1]
      BY <1>1, <2>1 DEF ListSeq, Without
    <3>3. s \in Seq(Block) /\ t \in Seq(Block) /\ Len(s) = n /\ Len(t) = n - 1
      BY <1>2, <3>1, SMTT(20)
    <3> HIDE DEF s, t
    <3>4. s = <<q[1]>> \o t
      BY <1>1, <3>1, <3>2, <3>3
    <3>5. Append(blocks, q[1]) = blocks \o <<q[1]>>
      BY <1>1, <3>1
    <3>6. (blocks \o <<q[1]>>) \o t = blocks \o (<<q[1]>> \o t)
      <4>1. <<q[1]>> \in Seq(Block)
        BY <3>1
      <4> QED
        BY <1>1, <3>3, <4>1, JoinedInTurn, Zenon
    <3> QED
      BY <3>4, <3>5, <3>6 DEF s, t
  <2> QED
    BY <2>3, <2>4, <2>5, <2>6
<1>5. CASE AppendIteration
  <2>1. left > 0 /\ left <= Len(blocks)
    BY <1>5, AppendIterationList
  <2> PICK b \in Block : /\ b = blocks[Len(blocks) - left + 1]
                         /\ Lists(With(q, n, b), n + 1)'
    BY <1>5, AppendIterationList
  <2>2. QueueIs(With(q, n, b), n + 1)'
    BY <1>1, QueueAfter, Zenon
  <2>3. /\ pc = "append_n" /\ pc' = "append_n" /\ result' = result
        /\ blocks' = blocks /\ left' = left - 1
    BY <1>5, Zenon DEF AppendIteration
  <2>4. PICK p \in 1..Len(blocks) : p = Len(blocks) - left + 1
    BY <1>1, <2>1
  <2>5. Len(blocks) - (left - 1) + 1 = p + 1 /\ b = blocks[p]
    BY <1>1, <2>4
  <2>6. Queue = ListSeq(q, n) \o SubSeq(blocks, p, Len(blocks))
    BY <1>2, <2>3, <2>4, Zenon DEF QueueIs, Rest
  <2>7. Rest' = SubSeq(blocks, p + 1, Len(blocks))
    BY <2>3, <2>5, Zenon DEF Rest
  <2>8. Queue' = ListSeq(With(q, n, b), n + 1) \o Rest'
    BY <2>2, <2>3, Zenon DEF QueueIs
  <2>9. ListSeq(With(q, n, b), n + 1) = ListSeq(q, n) \o <<b>>
    BY <1>1, <1>2, WithSeq, Zenon
  <2>10. SubSeq(blocks, p, Len(blocks)) = <<b>> \o SubSeq(blocks, p + 1, Len(blocks))
    BY <1>1, <2>5
  <2>11. (ListSeq(q, n) \o <<b>>) \o SubSeq(blocks, p + 1, Len(blocks)) =
           ListSeq(q, n) \o (<<b>> \o SubSeq(blocks, p + 1, Len(blocks)))
    <3>1. SubSeq(blocks, p + 1, Len(blocks)) \in Seq(Block) /\ <<b>> \in Seq(Block)
      BY <1>1
    <3>2. ListSeq(q, n) \in Seq(Block)
      BY <1>2, Zenon
    <3> QED
      BY <3>1, <3>2, JoinedInTurn, Zenon
  <2> QED
    BY <2>3, <2>6, <2>7, <2>8, <2>9, <2>10, <2>11, Zenon
<1>6. CASE AppendReturn
  <2>1. Lists(q, n)'
    BY <1>6, AppendReturnList
  <2>2. QueueIs(q, n)'
    BY <1>1, <2>1, QueueAfter, Zenon
  <2>3. pc = "append_n" /\ pc' = "idle" /\ left = 0 /\ result' = result
    BY <1>6, Zenon DEF AppendReturn, EndLoop
  <2>4. Queue = ListSeq(q, n) \o Rest /\ Queue' = ListSeq(q, n)
    BY <1>2, <2>2, <2>3 DEF QueueIs
  <2>5. Rest = <<>>
    BY <1>1, <2>3 DEF Rest
  <2>6. ListSeq(q, n) \o <<>> = ListSeq(q, n)
    BY <1>2, ConcatEmptySeq
  <2> QED
    BY <2>3, <2>4, <2>5, <2>6
<1>7. CASE UNCHANGED vars
  BY <1>7 DEF vars, links, loop, Queue, get_all_free_blocks, Walk
<1> QED
  BY <1>3, <1>4, <1>5, <1>6, <1>7

(* Initially all the blocks are free, in the order of their ids.           *)
LEMMA InitQueue == Init => List!Init
<1> SUFFICES ASSUME Init PROVE List!Init
  OBVIOUS
<1> PICK q : Lists(q, NumBlocks) /\ \A i \in 1..NumBlocks : q[i] = i - 1
  BY InitList
<1>1. Queue = ListSeq(q, NumBlocks)
  BY InitIInv, QueueLists DEF QueueIs, Init
<1>2. Queue = [i \in 1..NumBlocks |-> i - 1]
  BY <1>1 DEF ListSeq
<1> QED
  BY <1>2 DEF List!Init, Init

(* The linked list implements the abstract queue of the BlockPool: every   *)
(* call of popleft, popleft_n, remove, append and append_n returns and     *)
(* leaves what the same call on a sequence of distinct blocks would, for   *)
(* every number of blocks.                                                 *)
THEOREM QueueImplementsList == Spec => ImplementsFreeList
<1>1. Init => List!Init
  BY InitQueue
<1>2. IInv /\ [Next]_vars => [List!Next]_<<Queue, result>>
  <2> SUFFICES ASSUME IInv, [Next]_vars PROVE List!Next \/ UNCHANGED <<Queue, result>>
    BY Zenon
  <2>1. CASE popleft \/ PopReturn
    BY <2>1, PopsFirst
  <2>2. ASSUME NEW b \in Block, remove(b) PROVE List!Next
    BY <2>2, RemovesOne
  <2>3. ASSUME NEW b \in Block, append(b) PROVE List!Next
    <3> DEFINE bs == [i \in 1..1 |-> b]
    <3>1. 1 \in 1..NumBlocks /\ bs \in [1..1 -> Block] /\ bs[1] = b
      BY NumBlocksAssumption
    <3> HIDE DEF bs
    <3> QED
      BY <2>3, <3>1, AppendsLast, Zenon
  <2>4. ASSUME NEW m \in 1..NumBlocks, NEW bs \in [1..m -> Block], append_n(bs) PROVE List!Next
    <3>1. append_n(bs) \/ (m = 1 /\ append(bs[1]))
      BY <2>4
    <3> QED
      BY <3>1, AppendsLast
  <2>5. CASE \/ \E m \in 1..NumBlocks : popleft_n(m)
             \/ PopIteration \/ AppendIteration \/ AppendReturn \/ UNCHANGED vars
    BY <2>5, LoopsHide, Zenon
  <2> QED
    BY <2>1, <2>2, <2>3, <2>4, <2>5, Zenon DEF Next
<1>3. Spec => []IInv
  BY ListInvariant, PTL DEF IInv
<1> QED
  BY <1>1, <1>2, <1>3, PTL DEF Spec, ImplementsFreeList, List!Spec
=============================================================================
