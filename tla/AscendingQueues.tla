-------------------------- MODULE AscendingQueues --------------------------
(***************************************************************************)
(* Queues of numbers that come in ascending order: the futures and the     *)
(* answers of the executor, and the objects on the socket of a message     *)
(* queue, in the order of the calls and of the enqueues.                   *)
(***************************************************************************)
EXTENDS Integers, Sequences, TLAPS

Members(s) == {s[i] : i \in DOMAIN s}
Ascending(s) == \A i, j \in DOMAIN s : i < j => s[i] < s[j]

\* t is s without its first number; t is s with k at its end.
IsRest(n, s, t) ==
  /\ n \in Nat \ {0} /\ DOMAIN s = 1 .. n /\ DOMAIN t = 1 .. n - 1
  /\ \A i \in 1 .. n : s[i] \in Nat
  /\ \A i \in 1 .. n - 1 : t[i] = s[i + 1]

IsLonger(n, s, t, k) ==
  /\ n \in Nat /\ k \in Nat /\ DOMAIN s = 1 .. n /\ DOMAIN t = 1 .. n + 1
  /\ \A i \in 1 .. n : t[i] = s[i]
  /\ t[n + 1] = k

\* Without its first number an ascending queue is an ascending queue of the rest.
LEMMA WithoutFirst ==
  ASSUME NEW n, NEW s, NEW t, IsRest(n, s, t), Ascending(s)
  PROVE  /\ Ascending(t)
         /\ s[1] \in Members(s) /\ s[1] \notin Members(t)
         /\ Members(s) = Members(t) \cup {s[1]}
         /\ \A k \in Members(t) : s[1] < k
<1> USE DEF IsRest
<1>1. ASSUME NEW i \in 1 .. n - 1
      PROVE  t[i] = s[i + 1] /\ s[i + 1] \in Nat /\ s[1] < t[i]
  <2>1. 1 < i + 1 /\ 1 \in 1 .. n /\ i + 1 \in 1 .. n
    OBVIOUS
  <2>2. s[1] < s[i + 1] /\ s[i + 1] \in Nat
    BY <2>1, Zenon DEF Ascending
  <2>3. QED
    BY <2>2
<1>2. ASSUME NEW i \in 1 .. n - 1, NEW j \in 1 .. n - 1, i < j PROVE t[i] < t[j]
  <2>1. i + 1 < j + 1 /\ i + 1 \in DOMAIN s /\ j + 1 \in DOMAIN s
    BY <1>2
  <2>2. s[i + 1] < s[j + 1]
    BY <2>1, Zenon DEF Ascending
  <2>3. QED
    BY <1>1, <2>2
<1>3. Ascending(t)
  BY <1>2 DEF Ascending
<1>4. ASSUME NEW i \in 1 .. n, i # 1 PROVE s[i] \in Members(t)
  <2>1. i - 1 \in DOMAIN t /\ t[i - 1] = s[i]
    BY <1>4
  <2>2. QED
    BY <2>1, Zenon DEF Members
<1>5. 1 \in 1 .. n
  OBVIOUS
<1>6. Members(s) = Members(t) \cup {s[1]}
  <2>1. ASSUME NEW i \in 1 .. n - 1 PROVE t[i] \in Members(s)
    BY <1>1, i + 1 \in 1 .. n, Zenon DEF Members
  <2>2. s[1] \in Members(s)
    BY <1>5, Zenon DEF Members
  <2>3. Members(t) \subseteq Members(s)
    BY <2>1, Zenon DEF Members
  <2>4. Members(s) \subseteq Members(t) \cup {s[1]}
    BY <1>4 DEF Members
  <2>5. QED
    BY <2>2, <2>3, <2>4
<1>7. \A k \in Members(t) : s[1] < k
  BY <1>1 DEF Members
<1>8. s[1] \in Nat /\ ~(s[1] < s[1])
  BY <1>5
<1>9. QED
  BY <1>3, <1>6, <1>7, <1>8

\* With a larger number at its end an ascending queue is ascending.
LEMMA WithLast ==
  ASSUME NEW n, NEW s, NEW t, NEW k, IsLonger(n, s, t, k)
  PROVE  /\ Members(t) = Members(s) \cup {k}
         /\ Ascending(s) /\ (\A c \in Members(s) : c < k) => Ascending(t)
<1> USE DEF IsLonger
<1>1. ASSUME NEW i \in 1 .. n PROVE i \in 1 .. n + 1 /\ i \in DOMAIN t
  OBVIOUS
<1>2. ASSUME NEW i \in 1 .. n + 1 PROVE i \in 1 .. n \/ i = n + 1
  OBVIOUS
<1>3. n + 1 \in DOMAIN t
  OBVIOUS
<1>4. Members(t) = Members(s) \cup {k}
  BY <1>1, <1>2, <1>3 DEF Members
<1>5. ASSUME Ascending(s), \A c \in Members(s) : c < k PROVE Ascending(t)
  <2> SUFFICES ASSUME NEW i \in 1 .. n + 1, NEW j \in 1 .. n + 1, i < j
               PROVE  t[i] < t[j]
    BY DEF Ascending
  <2>1. i \in 1 .. n
    OBVIOUS
  <2>2. t[i] = s[i] /\ s[i] \in Members(s)
    BY <2>1 DEF Members
  <2>3. CASE j = n + 1
    BY <1>5, <2>2, <2>3
  <2>4. CASE j \in 1 .. n
    BY <1>5, <2>1, <2>2, <2>4 DEF Ascending
  <2>5. QED
    BY <1>2, <2>3, <2>4
<1>6. QED
  BY <1>4, <1>5

\* The first number of a queue is the smallest; the others stay.
LEMMA TakeFirst ==
  ASSUME NEW s \in Seq(Nat), s # <<>>, Ascending(s)
  PROVE  /\ Head(s) \in Members(s) /\ Tail(s) \in Seq(Nat)
         /\ Ascending(Tail(s))
         /\ Members(s) = Members(Tail(s)) \cup {Head(s)}
         /\ \A k \in Members(Tail(s)) : Head(s) < k
<1>1. /\ Len(s) \in Nat \ {0} /\ DOMAIN s = 1 .. Len(s) /\ \A i \in 1 .. Len(s) : s[i] \in Nat
      /\ Head(s) = s[1] /\ Tail(s) \in Seq(Nat)
      /\ DOMAIN Tail(s) = 1 .. Len(s) - 1
      /\ \A i \in 1 .. Len(s) - 1 : Tail(s)[i] = s[i + 1]
  OBVIOUS
<1>2. IsRest(Len(s), s, Tail(s))
  BY <1>1 DEF IsRest
<1>3. s[1] \in Members(s) /\ Ascending(Tail(s)) /\ Members(s) = Members(Tail(s)) \cup {s[1]}
      /\ \A k \in Members(Tail(s)) : s[1] < k
  BY <1>2, WithoutFirst
<1>4. QED
  BY <1>1, <1>3

\* A number at the end of a queue is one more.
LEMMA AddLast ==
  ASSUME NEW s \in Seq(Nat), NEW k \in Nat
  PROVE  /\ Append(s, k) \in Seq(Nat)
         /\ Members(Append(s, k)) = Members(s) \cup {k}
         /\ Ascending(s) /\ (\A c \in Members(s) : c < k) => Ascending(Append(s, k))
<1>1. /\ Append(s, k) \in Seq(Nat) /\ DOMAIN s = 1 .. Len(s)
      /\ DOMAIN Append(s, k) = 1 .. Len(s) + 1 /\ Len(s) \in Nat
      /\ \A i \in 1 .. Len(s) : Append(s, k)[i] = s[i]
      /\ Append(s, k)[Len(s) + 1] = k
  OBVIOUS
<1>2. IsLonger(Len(s), s, Append(s, k), k)
  BY <1>1 DEF IsLonger
<1>3. QED
  BY <1>1, <1>2, WithLast
=============================================================================
