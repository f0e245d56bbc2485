------------------------- MODULE ShmBroadcastProofs -------------------------
(***************************************************************************)
(* The flag protocol of the shared-memory ring is correct for every number *)
(* of readers, chunks and messages: a reader only ever reads the next      *)
(* object, whole, the ring implements a bounded broadcast queue, and every *)
(* reader gets every object in order, whichever way it travels.            *)
(***************************************************************************)
EXTENDS ShmBroadcast, AscendingQueues

N == max_chunks
Slot(m) == m % N
-----------------------------------------------------------------------------
(***************************************************************************)
(* Arithmetic of the ring: message m (counted from 0) lives in chunk m % N *)
(***************************************************************************)
\* What the quotient and the remainder by the number of chunks are.
LEMMA DivMod ==
  ASSUME NEW m \in Nat
  PROVE  /\ m \div N \in Nat
         /\ Slot(m) \in 0 .. N - 1
         /\ m = N * (m \div N) + Slot(m)
BY RingAssumption, SMT DEF N, Slot

\* A positive multiple of the number of chunks is at least that number.
LEMMA MultipleAtLeast ==
  ASSUME NEW q \in Int, q >= 1
  PROVE  N * q >= N
BY RingAssumption, SMT DEF N

\* Two messages less than one lap apart never share a chunk.
LEMMA SlotsDiffer ==
  ASSUME NEW a \in Nat, NEW b \in Nat, a < b, b < a + N
  PROVE  Slot(a) # Slot(b)
<1> SUFFICES ASSUME Slot(a) = Slot(b) PROVE FALSE
  OBVIOUS
<1> DEFINE p == a \div N
           q == b \div N
<1>1. p \in Nat /\ q \in Nat /\ a = N * p + Slot(a) /\ b = N * q + Slot(b)
  BY DivMod
<1>2. N \in Nat /\ Slot(a) \in Nat
  BY DivMod, RingAssumption DEF N
<1> HIDE DEF p, q, N, Slot
<1>3. b - a = N * (q - p)
  BY <1>1, <1>2, SMT
<1>4. q - p >= 1
  <2>1. ASSUME q <= p PROVE FALSE
    <3>1. N * (q - p) <= 0
      BY <2>1, <1>1, <1>2, SMT
    <3>2. QED
      BY <3>1, <1>3
  <2>2. QED
    BY <2>1, <1>1
<1>5. N * (q - p) >= N
  BY <1>4, <1>1, MultipleAtLeast
<1>6. QED
  BY <1>3, <1>5, <1>2

\* The remainder is the only number below N that differs from m by a multiple.
LEMMA SlotUnique ==
  ASSUME NEW m \in Nat, NEW q \in Nat, NEW s \in 0 .. N - 1, m = N * q + s
  PROVE  Slot(m) = s
<1> DEFINE p == m \div N
           t == Slot(m)
<1>1. p \in Nat /\ t \in 0 .. N - 1 /\ m = N * p + t
  BY DivMod
<1>2. N \in Nat
  BY RingAssumption DEF N
<1> HIDE DEF p, t, N
<1>3. s - t = N * (p - q) /\ t - s = N * (q - p)
  BY <1>1, <1>2, SMT
<1>4. ~(p - q >= 1) /\ ~(q - p >= 1)
  BY <1>1, <1>2, <1>3, MultipleAtLeast
<1>5. p = q
  BY <1>1, <1>4
<1>6. t = s
  BY <1>1, <1>2, <1>5, SMT
<1>7. QED
  BY <1>6 DEF t

\* A lap later the same chunk is used again.
LEMMA SlotLap ==
  ASSUME NEW a \in Nat
  PROVE  Slot(a + N) = Slot(a)
<1> DEFINE p == a \div N
           s == Slot(a)
<1>1. p \in Nat /\ s \in 0 .. N - 1 /\ a = N * p + s
  BY DivMod
<1>2. N \in Nat
  BY RingAssumption DEF N
<1>3. a + N = N * (p + 1) + s
  <2> HIDE DEF p, s, N
  <2> QED BY <1>1, <1>2, SMT
<1>4. a + N \in Nat /\ p + 1 \in Nat
  BY <1>1, <1>2
<1>5. QED
  <2> HIDE DEF p, s, N, Slot
  <2>1. Slot(a + N) = s
    BY <1>1, <1>3, <1>4, SlotUnique
  <2>2. QED
    BY <2>1 DEF s

\* Advancing current_idx modulo the ring is advancing the message number.
LEMMA SlotSucc ==
  ASSUME NEW a \in Nat
  PROVE  (Slot(a) + 1) % N = Slot(a + 1)
<1> DEFINE p == a \div N
           s == Slot(a)
<1>1. p \in Nat /\ s \in 0 .. N - 1 /\ a = N * p + s
  BY DivMod
<1>2. N \in Nat \ {0}
  BY RingAssumption DEF N
<1> HIDE DEF p, s, N
<1>3. CASE s + 1 < N
  <2>1. a + 1 = N * p + (s + 1) /\ s + 1 = N * 0 + (s + 1)
    BY <1>1, <1>2, SMT
  <2>2. Slot(a + 1) = s + 1
    BY <1>1, <1>2, <1>3, <2>1, SlotUnique
  <2>3. Slot(s + 1) = s + 1
    BY <1>1, <1>2, <1>3, <2>1, SlotUnique
  <2>4. QED
    BY <2>2, <2>3 DEF Slot, s
<1>4. CASE s + 1 = N
  <2>1. a + 1 = N * (p + 1) + 0 /\ s + 1 = N * 1 + 0
    BY <1>1, <1>2, <1>4, SMT
  <2>2. 0 \in 0 .. N - 1 /\ p + 1 \in Nat /\ a + 1 \in Nat /\ s + 1 \in Nat
    BY <1>1, <1>2
  <2>3. Slot(a + 1) = 0 /\ Slot(s + 1) = 0
    <3> HIDE DEF Slot
    <3> QED BY <2>1, <2>2, SlotUnique, Zenon
  <2>4. QED
    BY <2>3 DEF Slot, s
<1>5. QED
  BY <1>1, <1>2, <1>3, <1>4
-----------------------------------------------------------------------------
(***************************************************************************)
(* The inductive invariant.  Messages are counted from 0 here.             *)
(***************************************************************************)
\* the writer owns chunk w_idx: it has cleared its written flag
Owns == w_pc \in {"fill", "filling", "reset", "publish"}
Claimed == IF Owns THEN sent + 1 ELSE sent

\* the messages that are still in the ring
Live == {m \in 0 .. sent - 1 : Claimed <= m + N}

Positions ==
  /\ w_idx = Slot(sent)
  /\ \A r \in Reader : /\ r_idx[r] = Slot(taken[r])
                        /\ taken[r] <= sent
                        /\ Claimed <= taken[r] + N

Contents ==
  /\ \A m \in Live : /\ buf[Slot(m)] = m + 1
                     /\ metadata[Slot(m)][0] = 1
                     /\ \A r \in Reader : metadata[Slot(m)][r] = 1 <=> m < taken[r]
  /\ \A m \in sent .. N - 1 : metadata[Slot(m)][0] = 0
  /\ Owns => metadata[w_idx][0] = 0

WriterAt ==
  /\ w_pc = "reset" => /\ w_i \in Reader
                       /\ \A i \in Reader : i < w_i => metadata[w_idx][i] = 0
  /\ w_pc = "publish" => \A i \in Reader : metadata[w_idx][i] = 0
  /\ w_pc \in {"reset", "publish"} => buf[w_idx] = sent + 1

\* A reader that found its flag 0 on the chunk of a message not yet published
\* is looking at a chunk whose written flag is 0.
ReaderAt ==
  \A r \in Reader :
    /\ r_pc[r] = "written" /\ r_flag[r] = 0 /\ taken[r] = sent => metadata[w_idx][0] = 0
    /\ r_pc[r] \in {"read", "mark"} => taken[r] < sent

IInv == TypeOK /\ Positions /\ Contents /\ WriterAt /\ ReaderAt

\* The chunk of a message is a chunk of the ring.
LEMMA SlotInRing ==
  ASSUME NEW m \in Nat
  PROVE  Slot(m) \in Chunk
BY DivMod DEF Chunk, N

\* Initially every flag is 0 and nothing has been sent.
LEMMA InitIInv == Init => IInv
<1> SUFFICES ASSUME Init PROVE IInv
  OBVIOUS
<1> USE RingAssumption DEF Init
<1>1. Slot(0) = 0
  BY SlotUnique, 0 = N * 0 + 0, 0 \in 0 .. N - 1 DEF N
<1>2. TypeOK
  <2>1. 0 \in Chunk
    BY DEF Chunk
  <2>2. QED
    BY <2>1 DEF TypeOK, Torn
<1>3. Positions
  BY <1>1 DEF Positions, Claimed, Owns, N, Reader
<1>4. Contents
  BY SlotInRing DEF Contents, Live, Owns, N, Chunk
<1>5. WriterAt /\ ReaderAt
  BY DEF WriterAt, ReaderAt, Reader
<1>6. QED
  BY <1>2, <1>3, <1>4, <1>5 DEF IInv

\* What is said of the lent chunk and of the views follows: both messages are
\* still in the ring.
LEMMA IInvImplies == IInv => TypeOK /\ ReadsNext /\ ViewsIntact
<1> SUFFICES ASSUME IInv PROVE ReadsNext /\ ViewsIntact
  BY DEF IInv
<1> USE RingAssumption
<1>1. ASSUME NEW r \in Reader, r_pc[r] \in {"read", "mark"}
      PROVE  buf[r_idx[r]] = taken[r] + 1
  <2>1. taken[r] \in Live
    BY <1>1 DEF IInv, ReaderAt, Positions, Live, TypeOK
  <2>2. QED
    BY <2>1 DEF IInv, Contents, Positions
<1>2. ASSUME NEW r \in Reader, NEW k \in 1 .. taken[r], sent < k + max_chunks - 1
      PROVE  buf[(k - 1) % max_chunks] = k
  <2>1. k - 1 \in Live
    BY <1>2 DEF IInv, Positions, Live, TypeOK, Claimed, N
  <2>2. buf[Slot(k - 1)] = k - 1 + 1
    BY <2>1 DEF IInv, Contents
  <2>3. QED
    BY <2>2, <1>2 DEF Slot, N, IInv, TypeOK
<1>3. QED
  BY <1>1, <1>2 DEF ReadsNext, ViewsIntact
-----------------------------------------------------------------------------
(***************************************************************************)
(* Every step preserves the invariant.                                     *)
(***************************************************************************)
\* The steps that touch neither the ring nor the positions, and leave the
\* writer's claim as it is, keep what is said of them.
LEMMA Frame ==
  ASSUME IInv, UNCHANGED <<metadata, buf, sent, taken, w_idx, r_idx>>, Owns' = Owns
  PROVE  Positions' /\ Contents'
BY DEF IInv, Positions, Contents, Live, Claimed

\* Start-up and the writer's steps outside the ring.
LEMMA QuietWriter ==
  ASSUME IInv,
         \/ WriterReady \/ enqueue \/ write_timeout \/ send_overflow \/ notify \/ WriterCrash
  PROVE  IInv'
<1> USE DEF WriterReady, enqueue, write_timeout, send_overflow, notify, WriterCrash, W,
            ring, writer, readers, notice
<1>1. Positions' /\ Contents'
  BY Frame DEF Owns
<1>2. TypeOK'
  BY DEF IInv, TypeOK
<1>3. WriterAt' /\ ReaderAt'
  BY DEF IInv, WriterAt, ReaderAt
<1>4. QED
  BY <1>1, <1>2, <1>3 DEF IInv

\* A reader's steps that neither look at a flag nor set one.
LEMMA QuietReader ==
  ASSUME IInv, NEW r \in Reader,
         \/ Subscribe(r) \/ ReaderReady(r) \/ poll(r) \/ woken(r) \/ read_begin(r)
         \/ recv(r) \/ recv_timeout(r) \/ read_timeout(r) \/ shutdown(r) \/ Deliver(r)
  PROVE  IInv'
<1> USE DEF Subscribe, ReaderReady, poll, woken, read_begin, recv, recv_timeout,
            read_timeout, shutdown, Deliver, R, ring, writer, readers, notice
<1>1. Positions' /\ Contents'
  BY Frame DEF Owns
<1>2. TypeOK'
  BY DEF IInv, TypeOK
<1>3. WriterAt' /\ ReaderAt'
  BY DEF IInv, WriterAt, ReaderAt, TypeOK
<1>4. QED
  BY <1>1, <1>2, <1>3 DEF IInv

\* A message a lap behind the writer's, once written, is still in the ring.
LEMMA LapBehind ==
  ASSUME IInv, ~Owns, sent >= N
  PROVE  sent - N \in Live /\ Slot(sent - N) = w_idx
<1>1. sent - N \in Nat /\ sent - N + N = sent /\ N \in Nat \ {0}
  BY RingAssumption DEF IInv, TypeOK, N
<1>2. Slot(sent - N) = Slot(sent)
  BY <1>1, SlotLap
<1>3. QED
  BY <1>1, <1>2 DEF Live, Claimed, IInv, Positions, TypeOK

\* acquire_read looks at its read flag, then at the written flag.
LEMMA FlagReads ==
  ASSUME IInv, NEW r \in Reader, load_read_flag(r) \/ load_written_flag(r)
  PROVE  IInv'
<1> USE DEF load_read_flag, load_written_flag, NothingToRead, R, ring, writer, readers, notice
<1>1. Positions' /\ Contents'
  BY Frame DEF Owns
<1>2. TypeOK'
  <2>1. r \in 0 .. n_reader
    BY RingAssumption DEF Reader
  <2>2. metadata[r_idx[r]][r] \in {0, 1}
    <3>1. r_idx[r] \in Chunk /\ metadata \in [Chunk -> [0 .. n_reader -> {0, 1}]]
      BY DEF IInv, TypeOK
    <3>2. metadata[r_idx[r]] \in [0 .. n_reader -> {0, 1}]
      BY <3>1
    <3>3. QED
      BY <2>1, <3>2
  <2>3. QED
    BY <2>2 DEF IInv, TypeOK
<1>3. WriterAt'
  BY DEF IInv, WriterAt
<1>4. ReaderAt'
  <2>1. CASE load_read_flag(r)
    <3>1. ASSUME r_flag'[r] = 0, taken[r] = sent PROVE metadata[w_idx][0] = 0
      <4>1. CASE Owns
        BY <4>1 DEF IInv, Contents
      <4>2. CASE ~Owns /\ sent >= N
        <5>1. metadata[w_idx][r] = 1
          BY <4>2, <3>1, LapBehind, RingAssumption DEF IInv, Contents, TypeOK, N
        <5>2. QED
          BY <5>1, <3>1, <2>1 DEF IInv, Positions, TypeOK
      <4>3. CASE ~(sent >= N)
        BY <4>3, RingAssumption DEF IInv, Contents, Positions, TypeOK, N
      <4>4. QED
        BY <4>1, <4>2, <4>3
    <3>2. QED
      BY <2>1, <3>1 DEF IInv, ReaderAt, TypeOK
  <2>2. CASE load_written_flag(r)
    <3>1. ASSUME ~NothingToRead(r), r_pc[r] = "written" PROVE taken[r] < sent
      <4>1. metadata[Slot(taken[r])][0] # 0 /\ r_flag[r] = 0
        BY <3>1 DEF IInv, TypeOK, Positions
      <4>2. taken[r] # sent
        BY <4>1, <3>1 DEF IInv, ReaderAt, Positions
      <4>3. QED
        BY <4>2 DEF IInv, Positions, TypeOK
    <3>2. QED
      BY <2>2, <3>1 DEF IInv, ReaderAt, TypeOK
  <2>3. QED
    BY <2>1, <2>2
<1>5. QED
  BY <1>1, <1>2, <1>3, <1>4 DEF IInv

\* The messages in the ring are not in the chunk the writer owns.
LEMMA LiveElsewhere ==
  ASSUME IInv, Owns, NEW m \in Live
  PROVE  m \in Nat /\ Slot(m) \in Chunk /\ Slot(m) # w_idx
<1>1. m \in Nat /\ m < sent /\ sent < m + N /\ sent \in Nat
  BY RingAssumption DEF IInv, Live, Claimed, TypeOK, N
<1>2. QED
  BY <1>1, SlotsDiffer, SlotInRing DEF IInv, Positions

\* acquire_write takes a chunk that every reader has read.
LEMMA Acquires ==
  ASSUME IInv, acquire_write
  PROVE  IInv'
<1> USE DEF acquire_write, W, readers, notice
<1>0. TypeOK /\ ~Owns /\ Owns' /\ N \in Nat \ {0} /\ 0 \in 0 .. n_reader /\ sent \in Nat
  BY RingAssumption DEF IInv, Owns, N, TypeOK
<1>1. TypeOK'
  BY <1>0 DEF TypeOK
<1>2. ASSUME NEW r \in Reader PROVE sent + 1 <= taken[r] + N
  <2>1. CASE sent >= N
    <3>1. metadata[w_idx][0] = 1
      BY <2>1, <1>0, LapBehind DEF IInv, Contents
    <3>2. metadata[w_idx][r] = 1
      <4>1. r \in 0 .. n_reader
        BY RingAssumption DEF Reader
      <4>2. metadata[w_idx][r] \in {0, 1}
        BY <4>1, <1>0 DEF TypeOK
      <4>3. QED
        BY <4>2, <3>1 DEF ChunkBusy
    <3>3. sent - N < taken[r]
      BY <3>2, <2>1, <1>0, LapBehind DEF IInv, Contents
    <3>4. QED
      BY <3>3, <1>0 DEF TypeOK
  <2>2. CASE ~(sent >= N)
    BY <2>2, <1>0 DEF TypeOK
  <2>3. QED
    BY <2>1, <2>2
<1>3. Positions'
  BY <1>2, <1>0 DEF IInv, Positions, Claimed
<1>4. ASSUME NEW m \in Live' PROVE m \in Live /\ Slot(m) # w_idx /\ Slot(m) \in Chunk
  <2>1. m \in Nat /\ m < sent /\ sent < m + N
    BY <1>4, <1>0 DEF Live, Claimed
  <2>2. QED
    BY <2>1, <1>0, SlotsDiffer, SlotInRing DEF Live, Claimed, IInv, Positions
<1>5. Contents'
  <2>1. ASSUME NEW m \in sent .. N - 1 PROVE metadata'[Slot(m)][0] = 0
    <3>1. m \in Nat
      BY <2>1, <1>0
    <3>2. QED
      BY <3>1, <1>0, SlotInRing DEF IInv, Contents, TypeOK
  <2>2. metadata'[w_idx][0] = 0
    BY <1>0 DEF TypeOK
  <2>3. ASSUME NEW m \in Live' PROVE metadata'[Slot(m)] = metadata[Slot(m)]
    BY <2>3, <1>4, <1>0 DEF TypeOK
  <2>4. QED
    BY <2>1, <2>2, <2>3, <1>4 DEF IInv, Contents
<1>6. WriterAt' /\ ReaderAt'
  BY <1>0 DEF IInv, WriterAt, ReaderAt, TypeOK
<1>7. QED
  BY <1>1, <1>3, <1>5, <1>6 DEF IInv

\* The writer fills the chunk it owns and sets its read flags to 0.
LEMMA Fills ==
  ASSUME IInv, fill_begin \/ fill_end \/ reset_read_flag
  PROVE  IInv'
<1> USE DEF fill_begin, fill_end, reset_read_flag, W, readers, notice
<1>0. TypeOK /\ Owns /\ Owns' /\ n_reader \in Nat \ {0} /\ WriterAt
  BY RingAssumption DEF IInv, Owns
<1>1. TypeOK'
  <2>1. CASE fill_begin \/ fill_end
    <3>1. sent + 1 \in Nat /\ Torn \in Nat
      BY <1>0 DEF TypeOK, Torn
    <3>2. buf' \in [Chunk -> Nat] /\ overflow' \in [Chunk -> {0, 1}] /\ w_i' \in Nat
      <4>1. CASE fill_begin
        BY <4>1, <3>1, <1>0 DEF TypeOK
      <4>2. CASE fill_end
        BY <4>2, <3>1, <1>0 DEF TypeOK
      <4>3. QED
        BY <4>1, <4>2, <2>1
    <3>3. QED
      BY <3>2, <2>1, <1>0 DEF TypeOK
  <2>2. CASE reset_read_flag
    <3>1. w_i \in 0 .. n_reader /\ w_i + 1 \in Nat
      BY <2>2, <1>0 DEF WriterAt, Reader
    <3>2. QED
      BY <3>1, <2>2, <1>0 DEF TypeOK
  <2>3. QED
    BY <2>1, <2>2
<1>2. Positions' /\ Live' = Live
  BY <1>0 DEF IInv, Positions, Claimed, Live
<1>3. \A i \in 0 .. n_reader : \A c \in Chunk :
        metadata'[c][i] # metadata[c][i] => c = w_idx /\ i \in Reader /\ i = w_i
  BY <1>0 DEF TypeOK, WriterAt
<1>4. \A c \in Chunk \ {w_idx} : buf'[c] = buf[c] /\ metadata'[c] = metadata[c]
  BY <1>0 DEF TypeOK
<1>5. metadata'[w_idx][0] = metadata[w_idx][0] /\ w_idx \in Chunk
  BY <1>0, <1>3 DEF TypeOK, Reader
<1>6. Contents'
  <2>1. \A m \in Live : /\ buf'[Slot(m)] = buf[Slot(m)]
                       /\ metadata'[Slot(m)] = metadata[Slot(m)]
    BY <1>0, <1>4, LiveElsewhere
  <2>2. \A m \in sent .. N - 1 : metadata'[Slot(m)][0] = metadata[Slot(m)][0]
    <3> TAKE m \in sent .. N - 1
    <3>1. m \in Nat
      BY <1>0, RingAssumption DEF TypeOK, N
    <3>2. QED
      BY <3>1, <1>4, <1>5, SlotInRing
  <2>3. QED
    BY <2>1, <2>2, <1>0, <1>2, <1>5 DEF IInv, Contents
<1>7. ReaderAt'
  BY <1>0, <1>5 DEF IInv, ReaderAt
<1>8. WriterAt'
  <2>1. CASE fill_begin \/ fill_end
    BY <2>1, <1>0 DEF WriterAt, TypeOK, Reader
  <2>2. CASE reset_read_flag
    <3>1. w_i \in Reader /\ w_i \in 0 .. n_reader
      BY <2>2, <1>0 DEF WriterAt, Reader
    <3>2. \A i \in Reader : i <= w_i => metadata'[w_idx][i] = 0
      <4> TAKE i \in Reader
      <4>1. i \in 0 .. n_reader
        BY <1>0 DEF Reader
      <4>2. CASE i = w_i
        BY <4>1, <4>2, <3>1, <2>2, <1>0 DEF TypeOK
      <4>3. CASE i # w_i
        BY <4>1, <4>3, <3>1, <2>2, <1>0 DEF TypeOK, WriterAt, Reader
      <4>4. QED
        BY <4>2, <4>3
    <3>3. QED
      BY <3>1, <3>2, <2>2, <1>0 DEF WriterAt, TypeOK, Reader
  <2>3. QED
    BY <2>1, <2>2
<1>9. QED
  BY <1>1, <1>2, <1>6, <1>7, <1>8 DEF IInv

\* The written flag is set: one more message is in the ring.
LEMMA Publishes ==
  ASSUME IInv, mark_written
  PROVE  IInv'
<1> USE DEF mark_written, W, readers, notice
<1>0. /\ TypeOK /\ Owns /\ ~Owns' /\ Claimed = sent + 1 /\ Claimed' = sent + 1
      /\ N \in Nat \ {0} /\ n_reader \in Nat /\ sent \in Nat /\ w_idx \in Chunk
  BY RingAssumption DEF IInv, Owns, Claimed, N, TypeOK
<1>1. w_idx' = Slot(sent + 1) /\ w_idx' \in Chunk
  BY <1>0, SlotSucc, SlotInRing DEF IInv, Positions, N
<1>2. TypeOK'
  BY <1>0, <1>1 DEF TypeOK
<1>3. Positions'
  BY <1>0, <1>1 DEF IInv, Positions, TypeOK
<1>4. \A c \in Chunk \ {w_idx} : metadata'[c] = metadata[c]
  BY <1>0 DEF TypeOK
<1>5. /\ metadata'[w_idx][0] = 1
      /\ \A r \in Reader : metadata'[w_idx][r] = 0
      /\ buf'[w_idx] = sent + 1
  BY <1>0 DEF IInv, TypeOK, WriterAt, Reader
<1>6. Contents'
  <2>1. ASSUME NEW m \in Live'
        PROVE  /\ buf'[Slot(m)] = m + 1
               /\ metadata'[Slot(m)][0] = 1
               /\ \A r \in Reader : metadata'[Slot(m)][r] = 1 <=> m < taken'[r]
    <3>1. CASE m = sent
      BY <3>1, <1>0, <1>5 DEF IInv, Positions, TypeOK
    <3>2. CASE m # sent
      <4>1. m \in Live
        BY <3>2, <2>1, <1>0 DEF Live
      <4>2. metadata'[Slot(m)] = metadata[Slot(m)]
        BY <4>1, <1>0, <1>4, LiveElsewhere
      <4>3. QED
        BY <4>1, <4>2 DEF IInv, Contents
    <3>3. QED
      BY <3>1, <3>2
  <2>2. ASSUME NEW m \in sent' .. N - 1 PROVE metadata'[Slot(m)][0] = 0
    <3>1. m \in Nat /\ sent < m /\ m < sent + N /\ m \in sent .. N - 1
      BY <2>2, <1>0
    <3>2. Slot(m) \in Chunk \ {w_idx}
      BY <3>1, <1>0, SlotsDiffer, SlotInRing DEF IInv, Positions
    <3>3. QED
      BY <3>1, <3>2, <1>4 DEF IInv, Contents
  <2>3. QED
    BY <2>1, <2>2, <1>0 DEF Contents
<1>7. WriterAt'
  BY DEF WriterAt
<1>8. ReaderAt'
  BY <1>0 DEF IInv, ReaderAt, Positions, TypeOK
<1>9. QED
  BY <1>2, <1>3, <1>6, <1>7, <1>8 DEF IInv

\* A reader gives the chunk of its next message back.
LEMMA Marks ==
  ASSUME IInv, NEW r \in Reader, mark_read(r)
  PROVE  IInv'
<1> USE DEF mark_read, R, writer, notice
<1> DEFINE t == taken[r]
<1>0. /\ TypeOK /\ t \in Nat /\ N \in Nat \ {0} /\ n_reader \in Nat \ {0}
      /\ r \in 0 .. n_reader /\ t < sent /\ sent \in Nat
      /\ Owns' = Owns /\ Live' = Live /\ Claimed' = Claimed
  BY RingAssumption DEF IInv, ReaderAt, TypeOK, N, Reader, Owns, Live, Claimed
<1>1. r_idx[r] = Slot(t) /\ Slot(t) \in Chunk /\ t \in Live
  BY <1>0, SlotInRing DEF IInv, Positions, Live
<1>2. (r_idx[r] + 1) % max_chunks = Slot(t + 1) /\ Slot(t + 1) \in Chunk
  <2>1. (Slot(t) + 1) % N = Slot(t + 1) /\ t + 1 \in Nat
    BY <1>0, SlotSucc
  <2>2. QED
    BY <2>1, <1>1, SlotInRing DEF N
<1>3. TypeOK'
  <2>1. metadata' \in [Chunk -> [0 .. n_reader -> {0, 1}]]
    BY <1>0, <1>1 DEF TypeOK
  <2>2. taken' \in [Reader -> Nat] /\ r_idx' \in [Reader -> Chunk]
    BY <1>0, <1>2 DEF TypeOK
  <2>3. QED
    BY <2>1, <2>2, <1>0 DEF TypeOK
<1>4. Positions'
  <2>1. w_idx' = Slot(sent)' /\ sent' = sent
    BY DEF IInv, Positions, Slot, N
  <2>2. ASSUME NEW i \in Reader
        PROVE  r_idx'[i] = Slot(taken'[i]) /\ taken'[i] <= sent /\ Claimed <= taken'[i] + N
    <3>1. r_idx[i] = Slot(taken[i]) /\ taken[i] <= sent /\ Claimed <= taken[i] + N
      BY DEF IInv, Positions
    <3>2. CASE i = r
      <4>1. r_idx'[i] = Slot(t + 1) /\ taken'[i] = t + 1
        BY <1>0, <1>2, <3>2 DEF TypeOK
      <4>2. Claimed \in Nat
        BY <1>0 DEF Claimed
      <4>3. QED
        BY <4>1, <4>2, <3>1, <3>2, <1>0
    <3>3. CASE i # r
      <4>1. r_idx'[i] = r_idx[i] /\ taken'[i] = taken[i]
        BY <1>0, <3>3 DEF TypeOK
      <4>2. QED
        BY <4>1, <3>1
    <3>4. QED
      BY <3>2, <3>3
  <2>3. QED
    BY <2>1, <2>2, <1>0 DEF Positions, Slot, N
<1>5. \A m \in Live : m \in Nat /\ Slot(m) \in Chunk /\ (m # t => Slot(m) # Slot(t))
  <2> TAKE m \in Live
  <2>1. m \in Nat /\ m < t + N /\ t < m + N
    BY <1>0, <1>1 DEF Live, Claimed
  <2>2. QED
    BY <2>1, <1>0, SlotsDiffer, SlotInRing
<1>6. \A c \in Chunk : \A i \in 0 .. n_reader :
        metadata'[c][i] = IF c = Slot(t) /\ i = r THEN 1 ELSE metadata[c][i]
  BY <1>0, <1>1 DEF TypeOK
<1>7. \A c \in Chunk : metadata'[c][0] = metadata[c][0]
  BY <1>0, <1>6 DEF Reader
<1>8. Contents'
  <2>1. ASSUME NEW m \in Live, NEW i \in Reader
        PROVE  metadata'[Slot(m)][i] = 1 <=> m < taken'[i]
    <3>1. i \in 0 .. n_reader /\ taken[i] \in Nat
      BY <1>0 DEF Reader, TypeOK
    <3>2. metadata[Slot(m)][i] = 1 <=> m < taken[i]
      BY DEF IInv, Contents
    <3>3. taken'[i] = IF i = r THEN t + 1 ELSE taken[i]
      BY <1>0 DEF TypeOK
    <3>4. CASE m = t /\ i = r
      BY <3>1, <3>3, <3>4, <1>0, <1>5, <1>6
    <3>5. CASE m # t \/ i # r
      <4>1. metadata'[Slot(m)][i] = metadata[Slot(m)][i]
        BY <3>1, <3>5, <1>5, <1>6
      <4>2. m < taken'[i] <=> m < taken[i]
        BY <3>1, <3>3, <3>5, <1>0, <1>5
      <4>3. QED
        BY <4>1, <4>2, <3>2
    <3>6. QED
      BY <3>4, <3>5
  <2>2. ASSUME NEW m \in sent .. N - 1 PROVE Slot(m) \in Chunk
    <3>1. m \in Nat
      BY <1>0
    <3>2. QED
      BY <3>1, SlotInRing
  <2>3. w_idx \in Chunk
    BY <1>0 DEF TypeOK
  <2>4. QED
    BY <2>1, <2>2, <2>3, <1>0, <1>5, <1>7 DEF IInv, Contents
<1>9. WriterAt'
  <2>1. Owns => w_idx # Slot(t)
    BY <1>1, LiveElsewhere
  <2>2. Owns => metadata'[w_idx] = metadata[w_idx]
    BY <2>1, <1>0, <1>1 DEF TypeOK
  <2>3. QED
    BY <2>2 DEF IInv, WriterAt, Owns
<1>10. ReaderAt'
  <2>1. metadata'[w_idx][0] = metadata[w_idx][0]
    BY <1>0, <1>7 DEF TypeOK
  <2>2. QED
    BY <2>1, <1>0 DEF IInv, ReaderAt, TypeOK
<1>11. QED
  BY <1>3, <1>4, <1>8, <1>9, <1>10 DEF IInv
-----------------------------------------------------------------------------
\* The invariant is inductive.
LEMMA StepIInv == IInv /\ [Next]_vars => IInv'
<1> SUFFICES ASSUME IInv, [Next]_vars PROVE IInv'
  OBVIOUS
<1>1. CASE WriterStep \/ enqueue \/ write_timeout \/ WriterCrash
  BY <1>1, QuietWriter, Acquires, Fills, Publishes DEF WriterStep
<1>2. ASSUME NEW r \in Reader,
             ReaderStep(r) \/ Deliver(r) \/ read_timeout(r) \/ recv_timeout(r) \/ shutdown(r)
      PROVE  IInv'
  BY <1>2, QuietReader, FlagReads, Marks DEF ReaderStep
<1>3. CASE UNCHANGED vars
  <2>1. Positions' /\ Contents'
    BY <1>3, Frame DEF Owns, vars, ring, writer, readers
  <2>2. QED
    BY <2>1, <1>3 DEF vars, ring, writer, readers, IInv, TypeOK, WriterAt, ReaderAt
<1>4. QED
  BY <1>1, <1>2, <1>3 DEF Next

\* While acquire_read lends a chunk to its caller, the chunk holds the reader's
\* next object, whole (ReadsNext); a zero-copy view stays intact until the
\* writer comes round to its chunk (ViewsIntact).
THEOREM RingSafe == Spec => [](TypeOK /\ ReadsNext /\ ViewsIntact)
<1>1. Spec => []IInv
  BY InitIInv, StepIInv, PTL DEF Spec
<1>2. QED
  BY <1>1, IInvImplies, PTL

\* The ring implements the bounded broadcast queue: mark_written publishes,
\* mark_read takes, every other step leaves the queue as it is.
THEOREM RingImplementsQueue == Spec => ImplementsQueue
<1>1. Init => Queue!Init
  BY Zenon DEF Init, Queue!Init
<1>2. IInv /\ [Next]_vars => [Queue!Next]_<<sent, taken>>
  <2> SUFFICES ASSUME IInv, [Next]_vars, ~UNCHANGED <<sent, taken>> PROVE Queue!Next
    OBVIOUS
  <2>1. CASE mark_written
    <3>1. \A r \in Reader : sent < taken[r] + max_chunks
      BY <2>1, RingAssumption DEF mark_written, W, IInv, Positions, Claimed, Owns, TypeOK, N
    <3>2. QED
      BY <2>1, <3>1 DEF mark_written, readers, Queue!Next, Queue!Publish
  <2>2. ASSUME NEW r \in Reader, mark_read(r) PROVE Queue!Next
    BY <2>2 DEF mark_read, R, writer, IInv, ReaderAt, Queue!Next, Queue!Take
  <2>3. QED
    BY <2>1, <2>2 DEF Next, WriterStep, ReaderStep, vars, ring, writer, readers, notice,
       Subscribe, WriterReady, ReaderReady, enqueue, write_timeout, acquire_write,
       fill_begin, fill_end, reset_read_flag, send_overflow, notify, Deliver,
       load_read_flag, load_written_flag, read_timeout, poll, woken, read_begin, recv,
       recv_timeout, shutdown, WriterCrash
<1>3. Spec => []IInv
  BY InitIInv, StepIInv, PTL DEF Spec
<1>4. QED
  BY <1>1, <1>2, <1>3, PTL DEF Spec, ImplementsQueue, Queue!Spec
-----------------------------------------------------------------------------
(***************************************************************************)
(* The order of the objects.  Some travel in a chunk, the large ones on    *)
(* the socket, so the invariant relates the two.                           *)
(***************************************************************************)
Large(k) == k \in Oversized

\* the first byte of a chunk says how its object travels
ChunkSizes ==
  /\ \A m \in Live : overflow[Slot(m)] = 1 <=> Large(m + 1)
  /\ w_pc = "acquire" \/ Owns => (w_over = 1 <=> Large(sent + 1))
  /\ w_pc \in {"filling", "reset", "publish"} => overflow[w_idx] = w_over
  /\ w_pc = "send" => Large(sent)
ReaderSizes ==
  \A r \in Reader : r_pc[r] = "mark" => (r_over[r] = 1 <=> Large(taken[r] + 1))

\* nobody reads or writes before READY
StartUp ==
  /\ w_pc = "start" =>
       sent = 0 /\ \A r \in Reader : r_pc[r] \in {"start", "ready"} /\ socket[r] = <<>>
  /\ \A r \in Reader : r_pc[r] = "start" => w_pc = "start"
  /\ \A r \in Reader : r_pc[r] \in {"start", "ready"} => taken[r] = 0

\* what is still to come on the socket of a reader that never gave up: the
\* large objects that were sent and that it has not had
Flushed == IF w_pc = "send" THEN sent - 1 ELSE sent
Awaits(r, k) == taken[r] < k \/ (taken[r] = k /\ r_pc[r] = "recv")
Due(r) ==
  {k \in 1 .. Flushed : Large(k) /\ Awaits(r, k)} \cup
  {k \in {READY} : r_pc[r] = "ready" /\ w_pc # "start"}

SocketTyped == socket \in [Reader -> Seq(Nat)] /\ got \in [Reader -> Seq(Nat)]
SocketAt == \A r \in Reader \ late : Ascending(socket[r]) /\ Members(socket[r]) = Due(r)

\* a reader that never gave up has had every object up to the one it is at
Had(r) == IF r_pc[r] = "recv" THEN taken[r] - 1 ELSE taken[r]
GotAt ==
  \A r \in Reader \ late : Len(got[r]) = Had(r) /\ \A k \in DOMAIN got[r] : got[r][k] = k
RecvAt ==
  \A r \in Reader \ late :
    /\ r_pc[r] = "recv" => taken[r] >= 1 /\ Large(taken[r])
    /\ w_pc = "send" /\ taken[r] = sent => r_pc[r] = "recv"

OrderInv == ChunkSizes /\ ReaderSizes /\ StartUp /\ SocketTyped /\ SocketAt /\ GotAt /\ RecvAt

\* The steps of the writer and of a reader that the order of the objects is
\* not about.
Between == {"idle", "written", "poll", "woken", "read", "stopped"}
order == <<overflow, w_idx, w_over, sent, r_over, taken, got, late, socket>>
WriterMoves ==
  /\ UNCHANGED <<order, r_pc>>
  /\ \/ w_pc \in {"acquire", "notify"} /\ w_pc' = "idle"
     \/ w_pc = "acquire" /\ w_pc' = "fill"
     \/ w_pc \in {"filling", "reset"} /\ w_pc' \in {"reset", "publish"}
ReaderMoves(r) ==
  /\ UNCHANGED <<order, w_pc>>
  /\ r_pc[r] \in Between
  /\ \E p \in Between : r_pc' = [r_pc EXCEPT ![r] = p]
Quiet == UNCHANGED <<order, w_pc, r_pc>>

\* Every step is one of these or one that the order is about.
LEMMA OrderSteps ==
  ASSUME [Next]_vars
  PROVE  \/ Quiet \/ WriterMoves
         \/ WriterReady \/ enqueue \/ fill_begin \/ mark_written \/ send_overflow
         \/ \E r \in Reader :
              \/ ReaderMoves(r) \/ Subscribe(r) \/ ReaderReady(r) \/ read_begin(r)
              \/ mark_read(r) \/ recv(r) \/ recv_timeout(r)
<1> USE DEF ring, writer, readers, notice, order
<1>1. CASE write_timeout \/ notify
  BY <1>1, Zenon DEF write_timeout, notify, W, WriterMoves
<1>2. CASE acquire_write
  BY <1>2, Zenon DEF acquire_write, W, WriterMoves
<1>3. CASE fill_end
  BY <1>3, Zenon DEF fill_end, W, WriterMoves
<1>4. CASE reset_read_flag
  BY <1>4, Zenon DEF reset_read_flag, W, WriterMoves
<1>5. CASE WriterCrash \/ UNCHANGED vars
  BY <1>5, Zenon DEF WriterCrash, vars, Quiet
<1>6. ASSUME NEW r \in Reader, Deliver(r) \/ shutdown(r) PROVE Quiet
  BY <1>6, Zenon DEF Deliver, shutdown, Quiet
<1>7. ASSUME NEW r \in Reader, load_read_flag(r) \/ load_written_flag(r) PROVE ReaderMoves(r)
  BY <1>7, Zenon DEF load_read_flag, load_written_flag, R, ReaderMoves, Between
<1>8. ASSUME NEW r \in Reader, poll(r) \/ woken(r) \/ read_timeout(r) PROVE ReaderMoves(r)
  BY <1>8, Zenon DEF poll, woken, read_timeout, R, ReaderMoves, Between
<1>9. QED
  BY <1>1, <1>2, <1>3, <1>4, <1>5, <1>6, <1>7, <1>8, Zenon DEF Next, WriterStep, ReaderStep

\* enqueue writes the size into the chunk before it publishes the chunk.
LEMMA ChunkSizesNext ==
  ASSUME IInv, ChunkSizes, [Next]_vars
  PROVE  ChunkSizes'
<1>u. ASSUME UNCHANGED <<overflow, w_pc, w_over, w_idx, sent>> PROVE ChunkSizes'
  BY <1>u DEF ChunkSizes, Live, Claimed, Owns
<1>t. sent \in Nat /\ w_over \in {0, 1} /\ N \in Nat \ {0}
  BY RingAssumption DEF IInv, TypeOK, N
<1> USE DEF ring, readers, notice, order
<1>1. CASE Quiet
  BY <1>u, <1>1 DEF Quiet
<1>2. ASSUME NEW r \in Reader,
             \/ ReaderMoves(r) \/ Subscribe(r) \/ ReaderReady(r) \/ read_begin(r)
             \/ mark_read(r) \/ recv(r) \/ recv_timeout(r)
      PROVE  ChunkSizes'
  BY <1>u, <1>2, Zenon DEF ReaderMoves, Subscribe, ReaderReady, read_begin, mark_read, recv,
     recv_timeout, writer
<1>3. CASE WriterMoves
  <2>1. Live' \subseteq Live
    BY <1>3, <1>t DEF WriterMoves, Live, Claimed, Owns
  <2>2. QED
    BY <1>3, <2>1 DEF WriterMoves, ChunkSizes, Owns
<1>4. CASE WriterReady \/ send_overflow
  <2>1. Live' = Live
    BY <1>4 DEF WriterReady, send_overflow, W, Live, Claimed, Owns
  <2>2. QED
    BY <1>4, <2>1 DEF WriterReady, send_overflow, W, ChunkSizes, Owns
<1>5. CASE enqueue
  <2>1. Live' = Live
    BY <1>5 DEF enqueue, W, Live, Claimed, Owns
  <2>2. QED
    BY <1>5, <2>1 DEF enqueue, W, ChunkSizes, Owns, Large
<1>6. CASE fill_begin
  <2>1. Live' = Live /\ Owns
    BY <1>6 DEF fill_begin, W, Live, Claimed, Owns
  <2>2. overflow' = [overflow EXCEPT ![w_idx] = w_over] /\ overflow \in [Chunk -> {0, 1}]
    BY <1>6 DEF fill_begin, IInv, TypeOK
  <2>3. ASSUME NEW m \in Live PROVE overflow'[Slot(m)] = overflow[Slot(m)]
    BY <2>1, <2>2, LiveElsewhere
  <2>4. w_idx \in Chunk /\ overflow'[w_idx] = w_over
    BY <2>2 DEF IInv, TypeOK
  <2>5. QED
    BY <1>6, <2>1, <2>3, <2>4 DEF fill_begin, W, ChunkSizes, Owns
<1>7. CASE mark_written
  <2>1. /\ Owns /\ w_pc = "publish" /\ w_pc' = IF w_over = 1 THEN "send" ELSE "notify"
        /\ overflow' = overflow /\ sent' = sent + 1 /\ w_over' = w_over
    BY <1>7, Zenon DEF mark_written, W, Owns
  <2>2. overflow[Slot(sent)] = 1 <=> Large(sent + 1)
    BY <2>1 DEF IInv, Positions, ChunkSizes
  <2>3. \A m \in Live' : m \in Live \/ m = sent
    BY <2>1, <1>t DEF Live, Claimed, Owns
  <2>4. \A m \in Live' : overflow'[Slot(m)] = 1 <=> Large(m + 1)
    BY <2>1, <2>2, <2>3 DEF ChunkSizes
  <2>5. w_pc' = "send" => Large(sent')
    BY <2>1 DEF ChunkSizes
  <2>6. QED
    BY <2>1, <2>4, <2>5 DEF ChunkSizes, Owns
<1>8. QED
  BY <1>1, <1>2, <1>3, <1>4, <1>5, <1>6, <1>7, OrderSteps

\* Where a step of reader r leaves every reader.
LEMMA ReaderAlone ==
  ASSUME TypeOK, NEW r \in Reader, NEW p, r_pc' = [r_pc EXCEPT ![r] = p]
  PROVE  \A q \in Reader : r_pc'[q] = IF q = r THEN p ELSE r_pc[q]
BY DEF TypeOK

\* A reader knows from the first byte how its next object travels.
LEMMA ReaderSizesNext ==
  ASSUME IInv, ChunkSizes, ReaderSizes, [Next]_vars
  PROVE  ReaderSizes'
<1>u. ASSUME UNCHANGED <<r_pc, r_over, taken>> PROVE ReaderSizes'
  BY <1>u DEF ReaderSizes
<1>t. TypeOK
  BY DEF IInv
<1>r. ASSUME NEW r \in Reader, NEW p, p # "mark", r_pc' = [r_pc EXCEPT ![r] = p],
             UNCHANGED <<r_over, taken>>
      PROVE  ReaderSizes'
  BY <1>r, <1>t, ReaderAlone DEF ReaderSizes
<1> USE DEF ring, readers, notice, order
<1>1. CASE \/ Quiet \/ WriterMoves \/ WriterReady \/ enqueue \/ fill_begin \/ mark_written
           \/ send_overflow
  BY <1>u, <1>1, Zenon DEF Quiet, WriterMoves, WriterReady, enqueue, fill_begin, mark_written,
     send_overflow
<1>2. ASSUME NEW r \in Reader, ReaderMoves(r) PROVE ReaderSizes'
  <2>1. PICK p \in Between : r_pc' = [r_pc EXCEPT ![r] = p]
    BY <1>2, Zenon DEF ReaderMoves
  <2>2. QED
    BY <1>2, <2>1, <1>r, Zenon DEF ReaderMoves, Between
<1>3. ASSUME NEW r \in Reader, Subscribe(r) \/ ReaderReady(r) \/ recv(r) \/ recv_timeout(r)
      PROVE  ReaderSizes'
  BY <1>3, <1>r, Zenon DEF Subscribe, ReaderReady, recv, recv_timeout, R
<1>4. ASSUME NEW r \in Reader, read_begin(r) PROVE ReaderSizes'
  <2>1. /\ r_pc[r] = "read" /\ r_pc' = [r_pc EXCEPT ![r] = "mark"] /\ taken' = taken
        /\ r_over' = [r_over EXCEPT ![r] = overflow[r_idx[r]]]
    BY <1>4, Zenon DEF read_begin, R
  <2>2. taken[r] \in Live
    BY <2>1 DEF IInv, ReaderAt, Positions, Live, TypeOK
  <2>3. overflow[r_idx[r]] = 1 <=> Large(taken[r] + 1)
    BY <2>2 DEF IInv, Positions, ChunkSizes
  <2>4. \A q \in Reader : r_over'[q] = IF q = r THEN overflow[r_idx[r]] ELSE r_over[q]
    BY <2>1, <1>t DEF TypeOK
  <2>5. \A q \in Reader : r_pc'[q] = IF q = r THEN "mark" ELSE r_pc[q]
    BY <2>1, <1>t, ReaderAlone, Zenon
  <2>6. QED
    BY <2>1, <2>3, <2>4, <2>5 DEF ReaderSizes
<1>5. ASSUME NEW r \in Reader, mark_read(r) PROVE ReaderSizes'
  <2>1. /\ r_pc' = [r_pc EXCEPT ![r] = IF r_over[r] = 1 THEN "recv" ELSE "idle"]
        /\ taken' = [taken EXCEPT ![r] = taken[r] + 1] /\ r_over' = r_over
    BY <1>5, Zenon DEF mark_read, R
  <2>2. PICK p \in {"recv", "idle"} : r_pc' = [r_pc EXCEPT ![r] = p]
    BY <2>1, Zenon
  <2>3. \A q \in Reader \ {r} : taken'[q] = taken[q]
    BY <2>1, <1>t DEF TypeOK
  <2>4. \A q \in Reader : r_pc'[q] = IF q = r THEN p ELSE r_pc[q]
    BY <2>2, <1>t, ReaderAlone, Zenon
  <2>5. QED
    BY <2>1, <2>3, <2>4 DEF ReaderSizes
<1>6. QED
  BY <1>1, <1>2, <1>3, <1>4, <1>5, OrderSteps

\* The handshake of create_from_handle: no reader goes on before READY.
LEMMA StartUpNext ==
  ASSUME IInv, StartUp, [Next]_vars
  PROVE  StartUp'
<1>u. ASSUME UNCHANGED <<w_pc, sent, r_pc, taken, socket>> PROVE StartUp'
  BY <1>u DEF StartUp
<1>t. TypeOK
  BY DEF IInv
<1>w. ASSUME w_pc # "start", w_pc' # "start", UNCHANGED <<r_pc, taken>> PROVE StartUp'
  BY <1>w DEF StartUp
<1>r. ASSUME NEW r \in Reader, NEW p, p \notin {"start", "ready"},
             r_pc' = [r_pc EXCEPT ![r] = p], w_pc # "start", UNCHANGED w_pc,
             \A q \in Reader \ {r} : taken'[q] = taken[q]
      PROVE  StartUp'
  <2>1. \A q \in Reader : r_pc'[q] = IF q = r THEN p ELSE r_pc[q]
    BY <1>r, <1>t DEF TypeOK
  <2>2. QED
    BY <1>r, <2>1 DEF StartUp
<1> USE DEF ring, writer, readers, notice, order
<1>1. CASE Quiet
  BY <1>u, <1>1 DEF Quiet
<1>2. CASE WriterMoves
  BY <1>w, <1>2 DEF WriterMoves
<1>3. CASE enqueue \/ fill_begin \/ send_overflow
  BY <1>w, <1>3, Zenon DEF enqueue, fill_begin, send_overflow, W
<1>4. CASE mark_written
  BY <1>w, <1>4 DEF mark_written, W
<1>5. CASE WriterReady
  BY <1>5, Zenon DEF WriterReady, W, StartUp
<1>6. ASSUME NEW r \in Reader, ReaderMoves(r) PROVE StartUp'
  <2>1. PICK p \in Between : r_pc' = [r_pc EXCEPT ![r] = p]
    BY <1>6, Zenon DEF ReaderMoves
  <2>2. w_pc # "start" /\ UNCHANGED <<w_pc, taken>> /\ p \notin {"start", "ready"}
    BY <1>6 DEF ReaderMoves, StartUp, Between
  <2>3. QED
    BY <2>1, <2>2, <1>r, Zenon
<1>7. ASSUME NEW r \in Reader, Subscribe(r) PROVE StartUp'
  <2>1. /\ r_pc[r] = "start" /\ r_pc' = [r_pc EXCEPT ![r] = "ready"]
        /\ UNCHANGED <<w_pc, sent, taken, socket>>
    BY <1>7, Zenon DEF Subscribe, R
  <2>2. \A q \in Reader : r_pc'[q] = IF q = r THEN "ready" ELSE r_pc[q]
    BY <2>1, <1>t, ReaderAlone, Zenon
  <2>3. QED
    BY <2>1, <2>2 DEF StartUp
<1>8. ASSUME NEW r \in Reader, ReaderReady(r) PROVE StartUp'
  <2>1. w_pc # "start"
    BY <1>8 DEF ReaderReady, StartUp
  <2>2. QED
    BY <1>8, <2>1, <1>r, Zenon DEF ReaderReady, R
<1>9. ASSUME NEW r \in Reader, read_begin(r) \/ recv(r) \/ recv_timeout(r) PROVE StartUp'
  <2>1. w_pc # "start"
    BY <1>9 DEF StartUp, read_begin, recv, recv_timeout, R
  <2>2. QED
    BY <1>9, <2>1, <1>r, Zenon DEF read_begin, recv, recv_timeout, R
<1>10. ASSUME NEW r \in Reader, mark_read(r) PROVE StartUp'
  <2>1. /\ r_pc[r] = "mark" /\ UNCHANGED w_pc
        /\ r_pc' = [r_pc EXCEPT ![r] = IF r_over[r] = 1 THEN "recv" ELSE "idle"]
        /\ taken' = [taken EXCEPT ![r] = taken[r] + 1]
    BY <1>10, Zenon DEF mark_read, R
  <2>2. w_pc # "start"
    BY <2>1 DEF StartUp
  <2>3. \A q \in Reader \ {r} : taken'[q] = taken[q]
    BY <2>1, <1>t DEF TypeOK
  <2>4. QED
    BY <2>1, <2>2, <2>3, <1>r, Zenon
<1>11. QED
  BY <1>1, <1>2, <1>3, <1>4, <1>5, <1>6, <1>7, <1>8, <1>9, <1>10, OrderSteps

\* Only numbers of objects, and READY, are on the sockets.
LEMMA SocketTypedNext ==
  ASSUME IInv, SocketTyped, [Next]_vars
  PROVE  SocketTyped'
<1>u. ASSUME UNCHANGED <<socket, got>> PROVE SocketTyped'
  BY <1>u DEF SocketTyped
<1>t. TypeOK
  BY DEF IInv
<1> USE DEF ring, writer, readers, notice, order
<1>1. CASE Quiet \/ WriterMoves \/ enqueue \/ fill_begin \/ mark_written
  BY <1>u, <1>1, Zenon DEF Quiet, WriterMoves, enqueue, fill_begin, mark_written
<1>2. ASSUME NEW r \in Reader, ReaderMoves(r) \/ Subscribe(r) \/ read_begin(r) \/ recv_timeout(r)
      PROVE  SocketTyped'
  BY <1>u, <1>2, Zenon DEF ReaderMoves, Subscribe, read_begin, recv_timeout
<1>3. CASE WriterReady
  BY <1>3 DEF WriterReady, SocketTyped, READY
<1>4. CASE send_overflow
  <2>1. sent \in Nat /\ socket' = [r \in Reader |-> Append(socket[r], sent)] /\ got' = got
    BY <1>4, <1>t DEF send_overflow, TypeOK
  <2>2. QED
    BY <2>1 DEF SocketTyped
<1>5. ASSUME NEW r \in Reader, ReaderReady(r) PROVE SocketTyped'
  <2>1. socket[r] # <<>> /\ socket' = [socket EXCEPT ![r] = Tail(socket[r])] /\ got' = got
    BY <1>5, Zenon DEF ReaderReady
  <2>2. QED
    BY <2>1 DEF SocketTyped
<1>6. ASSUME NEW r \in Reader, recv(r) PROVE SocketTyped'
  <2>1. /\ socket[r] # <<>> /\ socket' = [socket EXCEPT ![r] = Tail(socket[r])]
        /\ got' = [got EXCEPT ![r] = Append(got[r], Head(socket[r]))]
    BY <1>6, Zenon DEF recv
  <2>2. QED
    BY <2>1 DEF SocketTyped
<1>7. ASSUME NEW r \in Reader, mark_read(r) PROVE SocketTyped'
  <2>1. /\ socket' = socket
        /\ got' = got \/ got' = [got EXCEPT ![r] = Append(got[r], buf[r_idx[r]])]
    BY <1>7, Zenon DEF mark_read
  <2>2. buf[r_idx[r]] \in Nat
    BY <1>t DEF TypeOK
  <2>3. CASE got' = got
    BY <1>u, <2>1, <2>3, Zenon
  <2>4. CASE got' = [got EXCEPT ![r] = Append(got[r], buf[r_idx[r]])]
    <3>1. got \in [Reader -> Seq(Nat)] /\ Append(got[r], buf[r_idx[r]]) \in Seq(Nat)
      BY <2>2 DEF SocketTyped
    <3>2. QED
      BY <2>1, <2>4, <3>1, Zenon DEF SocketTyped
  <2>5. QED
    BY <2>1, <2>3, <2>4, Zenon
<1>8. QED
  BY <1>1, <1>2, <1>3, <1>4, <1>5, <1>6, <1>7, OrderSteps, Zenon

\* What recv takes from the socket is the large object the reader is at.
LEMMA RecvTakes ==
  ASSUME TypeOK, Positions, StartUp, SocketTyped, SocketAt, RecvAt, NEW r \in Reader \ late,
         r_pc[r] = "recv", socket[r] # <<>>
  PROVE  Head(socket[r]) = taken[r] /\ taken[r] \in 1 .. Flushed
<1>1. /\ socket[r] \in Seq(Nat) /\ Ascending(socket[r]) /\ Members(socket[r]) = Due(r)
  BY DEF SocketTyped, SocketAt
<1>2. /\ Head(socket[r]) \in Due(r)
      /\ Members(socket[r]) = Members(Tail(socket[r])) \cup {Head(socket[r])}
      /\ \A k \in Members(Tail(socket[r])) : Head(socket[r]) < k
  BY <1>1, TakeFirst
<1>3. taken[r] \in Nat /\ taken[r] >= 1 /\ Large(taken[r]) /\ sent \in Nat /\ taken[r] <= sent
  BY DEF RecvAt, TypeOK, Positions
<1>4. Head(socket[r]) \in 1 .. Flushed /\ taken[r] <= Head(socket[r]) /\ Flushed \in Int
  BY <1>2, <1>3 DEF Due, Awaits, Flushed
<1>5. taken[r] \in 1 .. Flushed
  BY <1>3, <1>4
<1>6. taken[r] \in Due(r)
  BY <1>3, <1>5 DEF Due, Awaits
<1>7. taken[r] \in Members(Tail(socket[r])) \/ taken[r] = Head(socket[r])
  BY <1>1, <1>2, <1>6
<1>8. ~(taken[r] \in Members(Tail(socket[r])))
  BY <1>2, <1>3, <1>4
<1>9. QED
  BY <1>5, <1>7, <1>8

\* A reader is at a large object only when its chunk said so; an object that
\* the writer has announced and not yet sent is still waited for.
LEMMA RecvAtNext ==
  ASSUME IInv, OrderInv, [Next]_vars
  PROVE  RecvAt'
<1>u. ASSUME UNCHANGED <<w_pc, sent, r_pc, taken, late>> PROVE RecvAt'
  BY <1>u DEF OrderInv, RecvAt
<1>t. TypeOK /\ RecvAt
  BY DEF IInv, OrderInv
<1>w. ASSUME w_pc' # "send", UNCHANGED <<r_pc, taken, late>> PROVE RecvAt'
  BY <1>w, <1>t DEF RecvAt
<1>r. ASSUME NEW r \in Reader, NEW p, p # "recv", r_pc[r] # "recv",
             r_pc' = [r_pc EXCEPT ![r] = p], UNCHANGED <<w_pc, sent, taken, late>>
      PROVE  RecvAt'
  <2>1. \A q \in Reader : r_pc'[q] = IF q = r THEN p ELSE r_pc[q]
    BY <1>r, <1>t DEF TypeOK
  <2>2. QED
    BY <1>r, <1>t, <2>1 DEF RecvAt
<1> USE DEF ring, writer, readers, notice, order
<1>1. CASE Quiet
  BY <1>u, <1>1 DEF Quiet
<1>2. CASE WriterMoves \/ WriterReady \/ enqueue \/ fill_begin \/ send_overflow
  BY <1>w, <1>2 DEF WriterMoves, WriterReady, enqueue, fill_begin, send_overflow, W
<1>3. CASE mark_written
  <2>1. sent' = sent + 1 /\ UNCHANGED <<r_pc, taken, late>>
    BY <1>3, Zenon DEF mark_written
  <2>2. \A r \in Reader : taken[r] # sent + 1
    BY DEF IInv, Positions, TypeOK
  <2>3. QED
    BY <2>1, <2>2, <1>t DEF RecvAt
<1>4. ASSUME NEW r \in Reader, ReaderMoves(r) PROVE RecvAt'
  <2>1. PICK p \in Between : r_pc' = [r_pc EXCEPT ![r] = p]
    BY <1>4, Zenon DEF ReaderMoves
  <2>2. p # "recv" /\ r_pc[r] # "recv" /\ UNCHANGED <<w_pc, sent, taken, late>>
    BY <1>4 DEF ReaderMoves, Between
  <2>3. QED
    BY <2>1, <2>2, <1>r, Zenon
<1>5. ASSUME NEW r \in Reader, Subscribe(r) \/ ReaderReady(r) \/ read_begin(r) PROVE RecvAt'
  BY <1>5, <1>r, Zenon DEF Subscribe, ReaderReady, read_begin, R
<1>6. ASSUME NEW r \in Reader, recv_timeout(r) PROVE RecvAt'
  <2>1. r_pc' = [r_pc EXCEPT ![r] = "idle"] /\ late' = late \cup {r} /\ UNCHANGED <<w_pc, sent, taken>>
    BY <1>6, Zenon DEF recv_timeout, R
  <2>2. \A q \in Reader : r_pc'[q] = IF q = r THEN "idle" ELSE r_pc[q]
    BY <2>1, <1>t, ReaderAlone, Zenon
  <2>3. QED
    BY <2>1, <2>2, <1>t DEF RecvAt
<1>7. ASSUME NEW r \in Reader, recv(r) PROVE RecvAt'
  <2>1. /\ r_pc[r] = "recv" /\ r_pc' = [r_pc EXCEPT ![r] = "idle"] /\ socket[r] # <<>>
        /\ UNCHANGED <<w_pc, sent, taken, late>>
    BY <1>7, Zenon DEF recv, R
  <2>2. \A q \in Reader : r_pc'[q] = IF q = r THEN "idle" ELSE r_pc[q]
    BY <2>1, <1>t, ReaderAlone, Zenon
  <2>3. r \notin late => taken[r] \in 1 .. Flushed
    BY <2>1, RecvTakes DEF IInv, OrderInv
  <2>4. w_pc = "send" /\ r \notin late => taken[r] # sent
    BY <2>3 DEF Flushed, IInv, TypeOK
  <2>5. QED
    BY <2>1, <2>2, <2>4, <1>t DEF RecvAt
<1>8. ASSUME NEW r \in Reader, mark_read(r) PROVE RecvAt'
  <2>1. /\ r_pc[r] = "mark" /\ UNCHANGED <<w_pc, sent, late>>
        /\ r_pc' = [r_pc EXCEPT ![r] = IF r_over[r] = 1 THEN "recv" ELSE "idle"]
        /\ taken' = [taken EXCEPT ![r] = taken[r] + 1]
    BY <1>8, Zenon DEF mark_read, R
  <2>2. \A q \in Reader : q # r => r_pc'[q] = r_pc[q] /\ taken'[q] = taken[q]
    BY <2>1, <1>t DEF TypeOK
  <2>3. /\ r_pc'[r] = IF r_over[r] = 1 THEN "recv" ELSE "idle"
        /\ taken'[r] = taken[r] + 1 /\ taken[r] \in Nat
    BY <2>1, <1>t DEF TypeOK
  <2>4. r_over[r] = 1 <=> Large(taken'[r])
    BY <2>1, <2>3 DEF OrderInv, ReaderSizes
  <2>5. w_pc = "send" => Large(sent)
    BY DEF OrderInv, ChunkSizes
  <2>6. QED
    BY <2>1, <2>2, <2>3, <2>4, <2>5, <1>t DEF RecvAt
<1>9. QED
  BY <1>1, <1>2, <1>3, <1>4, <1>5, <1>6, <1>7, <1>8, OrderSteps, Zenon

\* Without late readers: a step that leaves a reader's place, and what it got,
\* alone leaves GotAt alone.  mark_read and recv hand over the next object.
LEMMA GotAtNext ==
  ASSUME IInv, OrderInv, [Next]_vars
  PROVE  GotAt'
<1>t. TypeOK /\ GotAt /\ SocketTyped /\ RecvAt
  BY DEF IInv, OrderInv
<1>u. ASSUME UNCHANGED <<r_pc, taken, got, late>> PROVE GotAt'
  BY <1>u, <1>t DEF GotAt, Had
<1>r. ASSUME NEW r \in Reader, NEW p, p # "recv", r_pc[r] # "recv",
             r_pc' = [r_pc EXCEPT ![r] = p], UNCHANGED <<taken, got, late>>
      PROVE  GotAt'
  <2>1. \A q \in Reader : r_pc'[q] = IF q = r THEN p ELSE r_pc[q]
    BY <1>r, <1>t DEF TypeOK
  <2>2. \A q \in Reader : Had(q)' = Had(q)
    BY <1>r, <2>1 DEF Had
  <2>3. QED
    BY <1>r, <1>t, <2>2 DEF GotAt
\* r gets k, the object after the ones it has had
<1>g. ASSUME NEW r \in Reader, NEW k \in Nat, k = Had(r) + 1, Had(r)' = k,
             got' = [got EXCEPT ![r] = Append(got[r], k)], late' = late,
             \A q \in Reader : q # r => Had(q)' = Had(q)
      PROVE  GotAt'
  <2>1. \A q \in Reader : got'[q] = IF q = r THEN Append(got[r], k) ELSE got[q]
    BY <1>g, <1>t DEF SocketTyped
  <2>2. SUFFICES ASSUME NEW q \in Reader \ late
                 PROVE  Len(got'[q]) = Had(q)' /\ \A j \in DOMAIN got'[q] : got'[q][j] = j
    BY <1>g DEF GotAt
  <2>3. CASE q # r
    BY <1>g, <1>t, <2>1, <2>3 DEF GotAt
  <2>4. CASE q = r
    <3>1. /\ got[r] \in Seq(Nat) /\ Len(got[r]) = k - 1 /\ got'[r] = Append(got[r], k)
          /\ \A j \in 1 .. k - 1 : got[r][j] = j
      BY <1>g, <1>t, <2>1, <2>4 DEF GotAt, SocketTyped, Had, TypeOK
    <3>2. Len(got'[r]) = k /\ DOMAIN got'[r] = 1 .. k /\ got'[r][k] = k
      BY <3>1
    <3>3. \A j \in 1 .. k - 1 : got'[r][j] = j
      BY <3>1
    <3>4. QED
      BY <1>g, <2>4, <3>2, <3>3
  <2>5. QED
    BY <2>3, <2>4, Zenon
<1> USE DEF ring, writer, readers, notice, order
<1>1. CASE \/ Quiet \/ WriterMoves \/ WriterReady \/ enqueue \/ fill_begin \/ mark_written
           \/ send_overflow
  BY <1>u, <1>1, Zenon DEF Quiet, WriterMoves, WriterReady, enqueue, fill_begin, mark_written,
     send_overflow
<1>2. ASSUME NEW r \in Reader, ReaderMoves(r) PROVE GotAt'
  <2>1. PICK p \in Between : r_pc' = [r_pc EXCEPT ![r] = p]
    BY <1>2, Zenon DEF ReaderMoves
  <2>2. p # "recv" /\ r_pc[r] # "recv" /\ UNCHANGED <<taken, got, late>>
    BY <1>2 DEF ReaderMoves, Between
  <2>3. QED
    BY <2>1, <2>2, <1>r, Zenon
<1>3. ASSUME NEW r \in Reader, Subscribe(r) \/ ReaderReady(r) \/ read_begin(r) PROVE GotAt'
  BY <1>3, <1>r, ZenonT(30) DEF Subscribe, ReaderReady, read_begin, R
<1>4. ASSUME NEW r \in Reader, recv_timeout(r) PROVE GotAt'
  <2>1. r_pc' = [r_pc EXCEPT ![r] = "idle"] /\ late' = late \cup {r} /\ UNCHANGED <<taken, got>>
    BY <1>4, Zenon DEF recv_timeout, R
  <2>2. \A q \in Reader : r_pc'[q] = IF q = r THEN "idle" ELSE r_pc[q]
    BY <2>1, <1>t, ReaderAlone, Zenon
  <2>3. \A q \in Reader : q # r => Had(q)' = Had(q)
    BY <2>1, <2>2 DEF Had
  <2>4. QED
    BY <2>1, <2>3, <1>t DEF GotAt
<1>5. ASSUME NEW r \in Reader, recv(r) PROVE GotAt'
  <2>1. /\ r_pc[r] = "recv" /\ r_pc' = [r_pc EXCEPT ![r] = "idle"] /\ socket[r] # <<>>
        /\ got' = [got EXCEPT ![r] = Append(got[r], Head(socket[r]))]
        /\ UNCHANGED <<taken, late>>
    BY <1>5, Zenon DEF recv, R
  <2>2. \A q \in Reader : r_pc'[q] = IF q = r THEN "idle" ELSE r_pc[q]
    BY <2>1, <1>t, ReaderAlone, Zenon
  <2>3. \A q \in Reader : q # r => Had(q)' = Had(q)
    BY <2>1, <2>2 DEF Had
  <2>4. taken[r] \in Nat /\ taken[r] = Had(r) + 1 /\ Had(r)' = taken[r]
    BY <2>1, <2>2, <1>t DEF Had, TypeOK
  <2>5. CASE r \in late
    <3>1. \A q \in Reader : q # r => got'[q] = got[q]
      BY <2>1, <1>t DEF SocketTyped
    <3>2. QED
      BY <2>1, <2>3, <2>5, <3>1, <1>t DEF GotAt
  <2>6. CASE r \notin late
    <3>1. Head(socket[r]) = taken[r]
      BY <2>1, <2>6, RecvTakes DEF IInv, OrderInv
    <3>2. QED
      BY <2>1, <2>3, <2>4, <3>1, <1>g, Zenon
  <2>7. QED
    BY <2>5, <2>6, Zenon
<1>6. ASSUME NEW r \in Reader, mark_read(r) PROVE GotAt'
  <2>1. /\ r_pc[r] = "mark" /\ late' = late
        /\ r_pc' = [r_pc EXCEPT ![r] = IF r_over[r] = 1 THEN "recv" ELSE "idle"]
        /\ got' = IF r_over[r] = 1 THEN got ELSE [got EXCEPT ![r] = Append(got[r], buf[r_idx[r]])]
        /\ taken' = [taken EXCEPT ![r] = taken[r] + 1]
    BY <1>6, Zenon DEF mark_read, R
  <2>2. \A q \in Reader : q # r => r_pc'[q] = r_pc[q] /\ taken'[q] = taken[q]
    BY <2>1, <1>t DEF TypeOK
  <2>3. /\ r_pc'[r] = IF r_over[r] = 1 THEN "recv" ELSE "idle"
        /\ taken'[r] = taken[r] + 1 /\ taken[r] \in Nat
    BY <2>1, <1>t DEF TypeOK
  <2>4. \A q \in Reader : q # r => Had(q)' = Had(q)
    BY <2>2 DEF Had
  <2>5. Had(r) = taken[r]
    BY <2>1 DEF Had
  <2>6. CASE r_over[r] = 1
    <3>1. Had(r)' = Had(r)
      BY <2>3, <2>5, <2>6 DEF Had
    <3>2. QED
      BY <2>1, <2>4, <2>6, <3>1, <1>t DEF GotAt
  <2>7. CASE r_over[r] # 1
    <3>1. Had(r)' = taken[r] + 1 /\ taken[r] + 1 \in Nat
      BY <2>3, <2>7 DEF Had
    <3>2. buf[r_idx[r]] = taken[r] + 1
      BY <2>1, IInvImplies DEF ReadsNext
    <3>3. got' = [got EXCEPT ![r] = Append(got[r], taken[r] + 1)]
      BY <2>1, <2>7, <3>2
    <3>4. QED
      BY <2>1, <2>4, <2>5, <3>1, <3>3, <1>g, Zenon
  <2>8. QED
    BY <2>6, <2>7, Zenon
<1>7. QED
  BY <1>1, <1>2, <1>3, <1>4, <1>5, <1>6, OrderSteps, Zenon

\* What is still to come changes only with the objects sent, with the reader's
\* place, and at READY.
LEMMA DueSame ==
  ASSUME NEW q \in Reader, Flushed' = Flushed, taken'[q] = taken[q],
         r_pc'[q] = "recv" <=> r_pc[q] = "recv",
         r_pc'[q] = "ready" /\ w_pc' # "start" <=> r_pc[q] = "ready" /\ w_pc # "start"
  PROVE  Due(q)' = Due(q)
BY DEF Due, Awaits

\* What the writer sends is added to what is to come on every socket, and what
\* a reader takes is taken from it: the sockets hold the large objects in order.
LEMMA SocketAtNext ==
  ASSUME IInv, OrderInv, [Next]_vars
  PROVE  SocketAt'
<1>t. TypeOK /\ Positions /\ SocketAt /\ SocketTyped /\ RecvAt /\ StartUp
  BY DEF IInv, OrderInv
<1>n. sent \in Nat /\ \A q \in Reader : taken[q] \in Nat /\ taken[q] <= sent
  BY <1>t DEF TypeOK, Positions
<1>d. ASSUME socket' = socket, late \subseteq late', \A q \in Reader \ late' : Due(q)' = Due(q)
      PROVE  SocketAt'
  BY <1>d, <1>t DEF SocketAt
\* r moves on without anything to receive before or after
<1>r. ASSUME NEW r \in Reader, NEW p, p # "recv", r_pc[r] # "recv",
             p = "ready" /\ w_pc # "start" <=> r_pc[r] = "ready" /\ w_pc # "start",
             r_pc' = [r_pc EXCEPT ![r] = p], UNCHANGED <<w_pc, sent, taken, late, socket>>
      PROVE  SocketAt'
  <2>1. \A q \in Reader : r_pc'[q] = IF q = r THEN p ELSE r_pc[q]
    BY <1>r, <1>t DEF TypeOK
  <2>2. Flushed' = Flushed
    BY <1>r DEF Flushed
  <2>3. \A q \in Reader : Due(q)' = Due(q)
    BY <1>r, <2>1, <2>2, DueSame
  <2>4. QED
    BY <1>r, <1>d, <2>3
\* r takes the first of its socket, which is not to come any more
<1>h. ASSUME NEW r \in Reader, socket[r] # <<>>,
             socket' = [socket EXCEPT ![r] = Tail(socket[r])], late' = late,
             \A q \in Reader : q # r => Due(q)' = Due(q),
             r \notin late => Due(r)' = Due(r) \ {Head(socket[r])}
      PROVE  SocketAt'
  <2>1. \A q \in Reader : socket'[q] = IF q = r THEN Tail(socket[r]) ELSE socket[q]
    BY <1>h, <1>t DEF SocketTyped
  <2>2. SUFFICES ASSUME NEW q \in Reader \ late
                 PROVE  Ascending(socket'[q]) /\ Members(socket'[q]) = Due(q)'
    BY <1>h DEF SocketAt
  <2>3. CASE q # r
    BY <1>h, <1>t, <2>1, <2>3 DEF SocketAt
  <2>4. CASE q = r
    <3>1. /\ socket[r] \in Seq(Nat) /\ Ascending(socket[r]) /\ Members(socket[r]) = Due(r)
          /\ socket'[r] = Tail(socket[r])
      BY <1>t, <2>1, <2>4, Zenon DEF SocketTyped, SocketAt
    <3>2. /\ Ascending(Tail(socket[r])) /\ Head(socket[r]) \in Nat
          /\ Members(socket[r]) = Members(Tail(socket[r])) \cup {Head(socket[r])}
          /\ \A k \in Members(Tail(socket[r])) : Head(socket[r]) < k
      BY <1>h, <3>1, TakeFirst
    <3>3. Head(socket[r]) \notin Members(Tail(socket[r]))
      BY <3>2
    <3>4. Members(Tail(socket[r])) = Due(r)'
      BY <1>h, <2>4, <3>1, <3>2, <3>3, Zenon
    <3>5. QED
      BY <2>4, <3>1, <3>2, <3>4
  <2>5. QED
    BY <2>3, <2>4, Zenon
<1> USE DEF ring, writer, readers, notice, order
<1>1. CASE Quiet
  BY <1>1, <1>d DEF Quiet, Due, Awaits, Flushed
<1>2. CASE WriterMoves \/ enqueue \/ fill_begin
  <2>1. /\ w_pc \notin {"start", "send"} /\ w_pc' \notin {"start", "send"}
        /\ UNCHANGED <<sent, r_pc, taken, late, socket>>
    BY <1>2 DEF WriterMoves, enqueue, fill_begin, W
  <2>2. Flushed' = Flushed
    BY <2>1 DEF Flushed
  <2>3. \A q \in Reader : Due(q)' = Due(q)
    BY <2>1, <2>2, DueSame
  <2>4. QED
    BY <2>1, <2>3, <1>d
<1>3. CASE mark_written
  <2>1. /\ w_pc = "publish" /\ w_pc' = (IF w_over = 1 THEN "send" ELSE "notify")
        /\ sent' = sent + 1 /\ UNCHANGED <<r_pc, taken, late, socket>>
    BY <1>3 DEF mark_written, W
  <2>2. w_over = 1 <=> Large(sent + 1)
    BY <2>1 DEF OrderInv, ChunkSizes, Owns
  <2>3. CASE w_over = 1
    <3>1. Flushed' = Flushed
      BY <2>1, <2>3, <1>n DEF Flushed
    <3>2. \A q \in Reader : Due(q)' = Due(q)
      BY <2>1, <2>3, <3>1, DueSame
    <3>3. QED
      BY <2>1, <3>2, <1>d
  <2>4. CASE w_over # 1
    <3>1. Flushed = sent /\ Flushed' = sent + 1 /\ ~Large(sent + 1)
      BY <2>1, <2>2, <2>4 DEF Flushed
    <3>2. \A k : k \in 1 .. Flushed' /\ Large(k) <=> k \in 1 .. Flushed /\ Large(k)
      BY <3>1, <1>n
    <3>3. \A q \in Reader : Due(q)' = Due(q)
      BY <2>1, <2>4, <3>2 DEF Due, Awaits, Large
    <3>4. QED
      BY <2>1, <3>3, <1>d
  <2>5. QED
    BY <2>3, <2>4, Zenon
<1>4. CASE WriterReady
  <2>1. /\ w_pc = "start" /\ w_pc' = "idle" /\ \A q \in Reader : r_pc[q] # "start"
        /\ socket' = [q \in Reader |-> <<READY>>] /\ UNCHANGED <<sent, r_pc, taken, late>>
    BY <1>4, Zenon DEF WriterReady, W
  <2>2. sent = 0 /\ \A q \in Reader : r_pc[q] = "ready"
    BY <2>1, <1>t DEF StartUp
  <2>3. \A q \in Reader : Due(q)' = {READY}
    BY <2>1, <2>2 DEF Due, Flushed
  <2>4. Members(<<READY>>) = {READY} /\ Ascending(<<READY>>)
    BY DEF Members, Ascending, READY
  <2>5. QED
    BY <2>1, <2>3, <2>4 DEF SocketAt
<1>5. CASE send_overflow
  <2>1. /\ w_pc = "send" /\ w_pc' = "notify" /\ UNCHANGED <<sent, r_pc, taken, late>>
        /\ socket' = [q \in Reader |-> Append(socket[q], sent)]
    BY <1>5, Zenon DEF send_overflow, W
  <2>2. Large(sent) /\ Flushed = sent - 1 /\ Flushed' = sent
    BY <2>1 DEF OrderInv, ChunkSizes, Flushed
  <2>3. SUFFICES ASSUME NEW q \in Reader \ late
                 PROVE  Ascending(socket'[q]) /\ Members(socket'[q]) = Due(q)'
    BY <2>1 DEF SocketAt
  <2>4. /\ socket[q] \in Seq(Nat) /\ Ascending(socket[q]) /\ Members(socket[q]) = Due(q)
        /\ socket'[q] = Append(socket[q], sent)
    BY <2>1, <1>t DEF SocketTyped, SocketAt
  <2>5. Awaits(q, sent) /\ sent >= 1 /\ r_pc[q] # "start"
    BY <2>1, <1>n, <1>t DEF RecvAt, Awaits, StartUp
  <2>6. \A k \in Due(q) : k < sent
    BY <2>2, <2>5, <1>n DEF Due, READY
  <2>7. Due(q)' = Due(q) \cup {sent}
    <3>1. 1 .. Flushed' = (1 .. Flushed) \cup {sent}
      BY <2>2, <2>5, <1>n
    <3>2. \A k : Awaits(q, k)' <=> Awaits(q, k)
      BY <2>1 DEF Awaits
    <3>3. QED
      BY <2>1, <2>2, <2>5, <3>1, <3>2 DEF Due, Large
  <2>8. QED
    BY <2>4, <2>6, <2>7, <1>n, AddLast
<1>6. ASSUME NEW r \in Reader, ReaderMoves(r) PROVE SocketAt'
  <2>1. PICK p \in Between : r_pc' = [r_pc EXCEPT ![r] = p]
    BY <1>6, Zenon DEF ReaderMoves
  <2>2. /\ p \notin {"recv", "ready"} /\ r_pc[r] \notin {"recv", "ready"}
        /\ UNCHANGED <<w_pc, sent, taken, late, socket>>
    BY <1>6 DEF ReaderMoves, Between
  <2>3. QED
    BY <2>1, <2>2, <1>r, Zenon
<1>7. ASSUME NEW r \in Reader, read_begin(r) PROVE SocketAt'
  BY <1>7, <1>r, Zenon DEF read_begin, R
<1>8. ASSUME NEW r \in Reader, Subscribe(r) PROVE SocketAt'
  <2>1. w_pc = "start"
    BY <1>8, <1>t DEF Subscribe, R, StartUp
  <2>2. QED
    BY <1>8, <1>r, <2>1, ZenonT(30) DEF Subscribe, R
<1>9. ASSUME NEW r \in Reader, ReaderReady(r) PROVE SocketAt'
  <2>1. /\ r_pc[r] = "ready" /\ r_pc' = [r_pc EXCEPT ![r] = "idle"] /\ socket[r] # <<>>
        /\ socket' = [socket EXCEPT ![r] = Tail(socket[r])]
        /\ UNCHANGED <<w_pc, sent, taken, late>>
    BY <1>9, Zenon DEF ReaderReady, R
  <2>2. \A q \in Reader : r_pc'[q] = IF q = r THEN "idle" ELSE r_pc[q]
    BY <2>1, <1>t, ReaderAlone, Zenon
  <2>3. Flushed' = Flushed
    BY <2>1 DEF Flushed
  <2>4. \A q \in Reader : q # r => Due(q)' = Due(q)
    BY <2>1, <2>2, <2>3, DueSame
  <2>5. ASSUME r \notin late PROVE Due(r)' = Due(r) \ {Head(socket[r])}
    <3>1. socket[r] \in Seq(Nat) /\ Ascending(socket[r]) /\ Members(socket[r]) = Due(r)
      BY <2>5, <1>t DEF SocketTyped, SocketAt
    <3>2. /\ Head(socket[r]) \in Nat
          /\ Due(r) = Members(Tail(socket[r])) \cup {Head(socket[r])}
          /\ \A k \in Members(Tail(socket[r])) : Head(socket[r]) < k
      BY <2>1, <3>1, TakeFirst
    <3>3. w_pc # "start"
      BY <2>1, <1>t DEF StartUp
    <3>4. READY \in Due(r)
      BY <2>1, <3>3 DEF Due
    <3>5. Head(socket[r]) = READY
      BY <3>2, <3>4 DEF READY
    <3>6. \A k \in 1 .. Flushed : k # READY
      BY DEF READY
    <3>7. Due(r)' = {k \in 1 .. Flushed : Large(k) /\ Awaits(r, k)}
      BY <2>1, <2>2, <2>3 DEF Due, Awaits, Large
    <3>8. QED
      BY <2>1, <3>3, <3>5, <3>6, <3>7 DEF Due
  <2>6. QED
    BY <2>1, <2>4, <2>5, <1>h, Zenon
<1>10. ASSUME NEW r \in Reader, recv(r) PROVE SocketAt'
  <2>1. /\ r_pc[r] = "recv" /\ r_pc' = [r_pc EXCEPT ![r] = "idle"] /\ socket[r] # <<>>
        /\ socket' = [socket EXCEPT ![r] = Tail(socket[r])]
        /\ UNCHANGED <<w_pc, sent, taken, late>>
    BY <1>10, Zenon DEF recv, R
  <2>2. \A q \in Reader : r_pc'[q] = IF q = r THEN "idle" ELSE r_pc[q]
    BY <2>1, <1>t, ReaderAlone, Zenon
  <2>3. Flushed' = Flushed
    BY <2>1 DEF Flushed
  <2>4. \A q \in Reader : q # r => Due(q)' = Due(q)
    BY <2>1, <2>2, <2>3, DueSame
  <2>5. ASSUME r \notin late PROVE Due(r)' = Due(r) \ {Head(socket[r])}
    <3>1. Head(socket[r]) = taken[r]
      BY <2>1, <2>5, RecvTakes DEF IInv, OrderInv
    <3>2. \A k \in 1 .. Flushed : Awaits(r, k)' <=> Awaits(r, k) /\ k # taken[r]
      BY <2>1, <2>2, <1>n DEF Awaits
    <3>3. Due(r)' = {k \in 1 .. Flushed : Large(k) /\ Awaits(r, k)'}
      BY <2>1, <2>2, <2>3 DEF Due, Large
    <3>4. Due(r) = {k \in 1 .. Flushed : Large(k) /\ Awaits(r, k)}
      BY <2>1 DEF Due
    <3>5. QED
      BY <3>1, <3>2, <3>3, <3>4
  <2>6. QED
    BY <2>1, <2>4, <2>5, <1>h, Zenon
<1>11. ASSUME NEW r \in Reader, recv_timeout(r) PROVE SocketAt'
  <2>1. /\ r_pc' = [r_pc EXCEPT ![r] = "idle"] /\ late' = late \cup {r}
        /\ UNCHANGED <<w_pc, sent, taken, socket>>
    BY <1>11, Zenon DEF recv_timeout, R
  <2>2. \A q \in Reader : r_pc'[q] = IF q = r THEN "idle" ELSE r_pc[q]
    BY <2>1, <1>t, ReaderAlone, Zenon
  <2>3. Flushed' = Flushed
    BY <2>1 DEF Flushed
  <2>4. \A q \in Reader : q # r => Due(q)' = Due(q)
    BY <2>1, <2>2, <2>3, DueSame
  <2>5. QED
    BY <2>1, <2>4, <1>d
<1>12. ASSUME NEW r \in Reader, mark_read(r) PROVE SocketAt'
  <2>1. /\ r_pc[r] = "mark" /\ UNCHANGED <<w_pc, sent, late, socket>>
        /\ r_pc' = [r_pc EXCEPT ![r] = IF r_over[r] = 1 THEN "recv" ELSE "idle"]
        /\ taken' = [taken EXCEPT ![r] = taken[r] + 1]
    BY <1>12, Zenon DEF mark_read, R
  <2>2. \A q \in Reader : q # r => r_pc'[q] = r_pc[q] /\ taken'[q] = taken[q]
    BY <2>1, <1>t DEF TypeOK
  <2>3. /\ r_pc'[r] = IF r_over[r] = 1 THEN "recv" ELSE "idle"
        /\ taken'[r] = taken[r] + 1
    BY <2>1, <1>t DEF TypeOK
  <2>4. r_over[r] = 1 <=> Large(taken[r] + 1)
    BY <2>1 DEF OrderInv, ReaderSizes
  <2>5. Flushed' = Flushed
    BY <2>1 DEF Flushed
  <2>6. \A q \in Reader : q # r => Due(q)' = Due(q)
    BY <2>1, <2>2, <2>5, DueSame
  <2>7. \A k \in 1 .. Flushed : Large(k) => (Awaits(r, k)' <=> Awaits(r, k))
    BY <2>1, <2>3, <2>4, <1>n DEF Awaits
  <2>8. Due(r)' = Due(r)
    BY <2>1, <2>3, <2>5, <2>7 DEF Due, Large
  <2>9. QED
    BY <2>1, <2>6, <2>8, <1>d
<1>13. QED
  BY <1>1, <1>2, <1>3, <1>4, <1>5, <1>6, <1>7, <1>8, <1>9, <1>10, <1>11, <1>12, OrderSteps, Zenon

\* Nothing is sent, and no socket holds anything, at the start.
LEMMA OrderInit == Init => OrderInv
<1> SUFFICES ASSUME Init PROVE OrderInv
  OBVIOUS
<1>1. /\ w_pc = "start" /\ sent = 0
      /\ \A r \in Reader : /\ r_pc[r] = "start" /\ taken[r] = 0
                           /\ got[r] = <<>> /\ socket[r] = <<>>
  BY DEF Init
<1>2. ChunkSizes
  BY <1>1 DEF ChunkSizes, Live, Claimed, Owns
<1>3. ReaderSizes /\ StartUp /\ RecvAt
  BY <1>1 DEF ReaderSizes, StartUp, RecvAt
<1>4. SocketTyped
  BY DEF Init, SocketTyped
<1>5. \A r \in Reader : Due(r) = {}
  BY <1>1 DEF Due, Flushed
<1>6. SocketAt
  BY <1>1, <1>5 DEF SocketAt, Ascending, Members
<1>7. GotAt
  BY <1>1 DEF GotAt, Had
<1>8. QED
  BY <1>2, <1>3, <1>4, <1>6, <1>7 DEF OrderInv

\* Every reader that never gave up on an object gets every object in the order
\* of the enqueues, whether enqueue put it in a chunk or sent it on the socket,
\* for any number of readers and chunks and any choice of large objects.
THEOREM ObjectsInOrder == Spec => []InOrder
<1>1. IInv /\ OrderInv /\ [Next]_vars => OrderInv'
  BY ChunkSizesNext, ReaderSizesNext, StartUpNext, SocketTypedNext, SocketAtNext, GotAtNext,
     RecvAtNext DEF OrderInv
<1>2. OrderInv => InOrder
  BY DEF OrderInv, GotAt, InOrder
<1>3. Spec => []IInv
  BY InitIInv, StepIInv, PTL DEF Spec
<1>4. QED
  BY <1>1, <1>2, <1>3, OrderInit, PTL DEF Spec
=============================================================================
