---------------------------- MODULE ShmBroadcast ----------------------------
(***************************************************************************)
(* MessageQueue, ShmRingBuffer and SpinCondition of                        *)
(* vllm/distributed/device_communicators/shm_broadcast.py: one writer      *)
(* process broadcasts objects to reader processes through a lock-free ring *)
(* of chunks in shared memory.  A chunk's metadata is a written flag       *)
(* (index 0) and one read flag per local reader.  Objects too large for a  *)
(* chunk travel on a publish/subscribe socket, and the chunk only says so. *)
(* A reader that has been idle for a while sleeps on a notification        *)
(* socket.  (Readers on other nodes get everything from a socket of their  *)
(* own; they touch none of this and are left out.)                         *)
(*                                                                         *)
(* One action per access to shared memory or to a socket.  memory_fence    *)
(* makes those accesses sequentially consistent.  The k-th object enqueued *)
(* is the number k; READY is the first message on the socket.  Clocks are  *)
(* abstracted to choices: whether a waiting reader still spins, and        *)
(* whether a deadline has passed.                                          *)
(***************************************************************************)
EXTENDS Naturals, Sequences

CONSTANTS
  n_reader,      \* number of local readers; their flags are 1..n_reader
  max_chunks,    \* chunks in the ring
  MaxMessages,   \* bound: objects the writer enqueues
  Oversized,     \* the objects among them that do not fit into a chunk
  Deadline,      \* the processes (0 is the writer) that pass a timeout
  Stoppable,     \* the local readers whose monitor thread may call shutdown
  MayCrash       \* may the writer's process die?

Reader == 1 .. n_reader
Chunk == 0 .. max_chunks - 1
Torn == 0   \* contents of a chunk that is being filled
READY == 0

ASSUME RingAssumption ==
  /\ n_reader \in Nat \ {0}
  /\ max_chunks \in Nat \ {0}
  /\ MaxMessages \in Nat

VARIABLES
  metadata,      \* [Chunk -> [0..n_reader -> 0..1]]
  overflow, buf, \* per chunk: its first byte, and which object it holds
  w_pc, w_idx, w_i, w_over,      \* the writer: current_idx, loop counter, size
  sent,                          \* objects published so far
  crashed,                       \* the writer's process has died
  r_pc, r_idx, r_flag, r_over,   \* the readers: current_idx, locals
  taken,                         \* chunks a reader has marked as read
  got,                           \* objects returned by dequeue
  late,                          \* readers that gave up waiting for an object
  socket,        \* local_socket: a FIFO per reader
  pipe, inbox,   \* notification on its way / at the reader (CONFLATE)
  shutting_down

ring == <<metadata, overflow, buf>>
writer == <<w_pc, w_idx, w_i, w_over, sent, crashed>>
readers == <<r_pc, r_idx, r_flag, r_over, taken, got, late>>
notice == <<pipe, inbox, shutting_down>>
vars == <<ring, writer, readers, socket, notice>>

\* create_from_handle: current_idx is 0 on both sides, all flags are 0.
Init ==
  /\ metadata = [c \in Chunk |-> [i \in 0 .. n_reader |-> 0]]
  /\ overflow = [c \in Chunk |-> 0]
  /\ buf = [c \in Chunk |-> Torn]
  /\ w_pc = "start" /\ w_idx = 0 /\ w_i = 1 /\ w_over = 0 /\ sent = 0
  /\ crashed = FALSE
  /\ r_pc = [r \in Reader |-> "start"]
  /\ r_idx = [r \in Reader |-> 0]
  /\ r_flag = [r \in Reader |-> 0]
  /\ r_over = [r \in Reader |-> 0]
  /\ taken = [r \in Reader |-> 0]
  /\ got = [r \in Reader |-> <<>>]
  /\ late = {}
  /\ socket = [r \in Reader |-> <<>>]
  /\ pipe = [r \in Reader |-> FALSE]
  /\ inbox = [r \in Reader |-> FALSE]
  /\ shutting_down = [r \in Reader |-> FALSE]

W(from, to) == ~crashed /\ w_pc = from /\ w_pc' = to
R(r, from, to) == r_pc[r] = from /\ r_pc' = [r_pc EXCEPT ![r] = to]
-----------------------------------------------------------------------------
(***************************************************************************)
(* Start-up: every reader subscribes, the writer waits for all of them and *)
(* publishes READY, every reader waits for it.                             *)
(***************************************************************************)
Subscribe(r) ==
  /\ R(r, "start", "ready")
  /\ UNCHANGED <<ring, writer, r_idx, r_flag, r_over, taken, got, late, socket, notice>>

WriterReady ==
  /\ W("start", "idle")
  /\ \A r \in Reader : r_pc[r] # "start"
  /\ socket' = [r \in Reader |-> <<READY>>]
  /\ UNCHANGED <<ring, w_idx, w_i, w_over, sent, crashed, readers, notice>>

ReaderReady(r) ==
  /\ R(r, "ready", "idle")
  /\ socket[r] # <<>>
  /\ socket' = [socket EXCEPT ![r] = Tail(@)]
  /\ UNCHANGED <<ring, writer, r_idx, r_flag, r_over, taken, got, late, notice>>
-----------------------------------------------------------------------------
(***************************************************************************)
(* The writer: enqueue and acquire_write.                                  *)
(***************************************************************************)
\* for the writer current_idx is the next chunk to write
enqueue ==
  /\ W("idle", "acquire")
  /\ sent < MaxMessages
  /\ w_over' = IF sent + 1 \in Oversized THEN 1 ELSE 0
  /\ UNCHANGED <<ring, w_idx, w_i, sent, crashed, readers, socket, notice>>

\* Mutant: the fastest reader is enough.
ChunkBusy_OneReader == metadata[w_idx][0] = 1 /\ \A i \in Reader : metadata[w_idx][i] = 0

\* written and not read by all readers: for the writer the chunk is taken
ChunkBusy == metadata[w_idx][0] = 1 /\ \E i \in Reader : metadata[w_idx][i] = 0

write_timeout ==
  /\ W("acquire", "idle")
  /\ 0 \in Deadline /\ ChunkBusy
  /\ UNCHANGED <<ring, w_idx, w_i, w_over, sent, crashed, readers, socket, notice>>

\* Mutant: the chunk still counts as written while it is filled.
acquire_write_StillWritten ==
  /\ W("acquire", "fill")
  /\ ~ChunkBusy
  /\ UNCHANGED <<ring, w_idx, w_i, w_over, sent, crashed, readers, socket, notice>>

\* Spinning on a busy chunk is a stuttering step.  A chunk that is not busy
\* stays so: the readers have nothing to do on it until it is written.
acquire_write ==
  /\ W("acquire", "fill")
  /\ ~ChunkBusy
  /\ metadata' = [metadata EXCEPT ![w_idx][0] = 0]
  /\ UNCHANGED <<overflow, buf, w_idx, w_i, w_over, sent, crashed, readers, socket, notice>>

\* The caller copies the object into the chunk, byte by byte ...  (For an object
\* that does not fit only the first byte is written; buf still names it.)
fill_begin ==
  /\ W("fill", "filling")
  /\ overflow' = [overflow EXCEPT ![w_idx] = w_over]
  /\ buf' = [buf EXCEPT ![w_idx] = Torn]
  /\ UNCHANGED <<metadata, w_idx, w_i, w_over, sent, crashed, readers, socket, notice>>

\* ... and is done with it
fill_end ==
  /\ W("filling", "reset")
  /\ buf' = [buf EXCEPT ![w_idx] = sent + 1]
  /\ w_i' = 1
  /\ UNCHANGED <<metadata, overflow, w_idx, w_over, sent, crashed, readers, socket, notice>>

\* one iteration of the loop that sets the read flags to 0
reset_read_flag ==
  /\ W("reset", IF w_i = n_reader THEN "publish" ELSE "reset")
  /\ metadata' = [metadata EXCEPT ![w_idx][w_i] = 0]
  /\ w_i' = w_i + 1
  /\ UNCHANGED <<overflow, buf, w_idx, w_over, sent, crashed, readers, socket, notice>>

\* Mutant: the last chunk is never used.
mark_written_ShortRing ==
  /\ W("publish", IF w_over = 1 THEN "send" ELSE "notify")
  /\ metadata' = [metadata EXCEPT ![w_idx][0] = 1]
  /\ w_idx' = (w_idx + 1) % (max_chunks - 1)
  /\ sent' = sent + 1
  /\ UNCHANGED <<overflow, buf, w_i, w_over, crashed, readers, socket, notice>>

mark_written ==
  /\ W("publish", IF w_over = 1 THEN "send" ELSE "notify")
  /\ metadata' = [metadata EXCEPT ![w_idx][0] = 1]
  /\ w_idx' = (w_idx + 1) % max_chunks
  /\ sent' = sent + 1
  /\ UNCHANGED <<overflow, buf, w_i, w_over, crashed, readers, socket, notice>>

send_overflow ==
  /\ W("send", "notify")
  /\ socket' = [r \in Reader |-> Append(socket[r], sent)]
  /\ UNCHANGED <<ring, w_idx, w_i, w_over, sent, crashed, readers, notice>>

\* Mutant: the notification is forgotten.
notify_Nobody ==
  /\ W("notify", "idle")
  /\ UNCHANGED <<ring, w_idx, w_i, w_over, sent, crashed, readers, socket, notice>>

\* a PUB socket with SNDHWM 1 drops what does not fit
notify ==
  /\ W("notify", "idle")
  /\ pipe' = [r \in Reader |-> TRUE]
  /\ UNCHANGED <<ring, w_idx, w_i, w_over, sent, crashed, readers, socket, inbox, shutting_down>>

\* the notification reaches the reader, where only the last one is kept
Deliver(r) ==
  /\ pipe[r]
  /\ pipe' = [pipe EXCEPT ![r] = FALSE]
  /\ inbox' = [inbox EXCEPT ![r] = TRUE]
  /\ UNCHANGED <<ring, writer, readers, socket, shutting_down>>
-----------------------------------------------------------------------------
(***************************************************************************)
(* A reader: dequeue, acquire_read and SpinCondition.wait.                 *)
(***************************************************************************)
\* dequeue, and every round of the loop in acquire_read, starts here
load_read_flag(r) ==
  /\ R(r, "idle", "written")
  /\ r_flag' = [r_flag EXCEPT ![r] = metadata[r_idx[r]][r]]
  /\ UNCHANGED <<ring, writer, r_idx, r_over, taken, got, late, socket, notice>>

NothingToRead(r) == metadata[r_idx[r]][0] = 0 \/ r_flag[r] = 1

load_written_flag(r) ==
  /\ \/ ~NothingToRead(r) /\ R(r, "written", "read")
     \* wait: yield while reads are frequent, sleep in poll after that
     \/ NothingToRead(r) /\ R(r, "written", "woken")
     \/ NothingToRead(r) /\ R(r, "written", "poll")
  /\ UNCHANGED <<ring, writer, r_idx, r_flag, r_over, taken, got, late, socket, notice>>

\* ReadTimeoutWithWarnings.timeout_ms raises once the deadline has passed
read_timeout(r) ==
  /\ r \in Deadline
  /\ NothingToRead(r)
  /\ R(r, "written", "idle")
  /\ UNCHANGED <<ring, writer, r_idx, r_flag, r_over, taken, got, late, socket, notice>>

\* Mutant: the cancel socket is not polled.
poll_NoCancel(r) ==
  /\ R(r, "poll", "woken")
  /\ \/ inbox[r] /\ inbox' = [inbox EXCEPT ![r] = FALSE]
     \/ ~inbox[r] /\ r \in Deadline /\ UNCHANGED inbox
  /\ UNCHANGED <<ring, writer, r_idx, r_flag, r_over, taken, got, late, socket, pipe, shutting_down>>

\* the cancel message is never received, so every later poll sees it again
poll(r) ==
  /\ R(r, "poll", "woken")
  /\ \/ shutting_down[r] /\ UNCHANGED inbox
     \/ ~shutting_down[r] /\ inbox[r] /\ inbox' = [inbox EXCEPT ![r] = FALSE]
     \/ ~shutting_down[r] /\ ~inbox[r] /\ r \in Deadline /\ UNCHANGED inbox
  /\ UNCHANGED <<ring, writer, r_idx, r_flag, r_over, taken, got, late, socket, pipe, shutting_down>>

\* RuntimeError("cancelled") ends the reader
woken(r) ==
  /\ R(r, "woken", IF shutting_down[r] THEN "stopped" ELSE "idle")
  /\ UNCHANGED <<ring, writer, r_idx, r_flag, r_over, taken, got, late, socket, notice>>

\* the caller starts to read the chunk ...
read_begin(r) ==
  /\ R(r, "read", "mark")
  /\ r_over' = [r_over EXCEPT ![r] = overflow[r_idx[r]]]
  /\ UNCHANGED <<ring, writer, r_idx, r_flag, taken, got, late, socket, notice>>

\* ... has the object, and the chunk is given back to the writer
mark_read(r) ==
  /\ R(r, "mark", IF r_over[r] = 1 THEN "recv" ELSE "idle")
  /\ got' = IF r_over[r] = 1 THEN got ELSE [got EXCEPT ![r] = Append(@, buf[r_idx[r]])]
  /\ metadata' = [metadata EXCEPT ![r_idx[r]][r] = 1]
  /\ r_idx' = [r_idx EXCEPT ![r] = (@ + 1) % max_chunks]
  /\ taken' = [taken EXCEPT ![r] = @ + 1]
  /\ UNCHANGED <<overflow, buf, writer, r_flag, r_over, late, socket, notice>>

recv(r) ==
  /\ R(r, "recv", "idle")
  /\ socket[r] # <<>>
  /\ got' = [got EXCEPT ![r] = Append(@, Head(socket[r]))]
  /\ socket' = [socket EXCEPT ![r] = Tail(@)]
  /\ UNCHANGED <<ring, writer, r_idx, r_flag, r_over, taken, late, notice>>

\* the chunk is gone, and its object will arrive for some later dequeue
recv_timeout(r) ==
  /\ r \in Deadline
  /\ R(r, "recv", "idle")
  /\ socket[r] = <<>>
  /\ late' = late \cup {r}
  /\ UNCHANGED <<ring, writer, r_idx, r_flag, r_over, taken, got, socket, notice>>

\* MessageQueue.shutdown, called from the reader's monitor thread
shutdown(r) ==
  /\ r \in Stoppable
  /\ ~shutting_down[r]
  /\ shutting_down' = [shutting_down EXCEPT ![r] = TRUE]
  /\ UNCHANGED <<ring, writer, readers, socket, pipe, inbox>>

\* the writer's process dies between two of its steps
WriterCrash ==
  /\ MayCrash
  /\ ~crashed
  /\ w_pc # "start"
  /\ crashed' = TRUE
  /\ UNCHANGED <<ring, w_pc, w_idx, w_i, w_over, sent, readers, socket, notice>>
-----------------------------------------------------------------------------
WriterStep ==
  \/ WriterReady \/ acquire_write \/ fill_begin \/ fill_end
  \/ reset_read_flag \/ mark_written \/ send_overflow \/ notify

ReaderStep(r) ==
  \/ Subscribe(r) \/ ReaderReady(r) \/ load_read_flag(r) \/ load_written_flag(r)
  \/ poll(r) \/ woken(r) \/ read_begin(r) \/ mark_read(r) \/ recv(r)

Next ==
  \/ WriterStep \/ enqueue \/ write_timeout \/ WriterCrash
  \/ \E r \in Reader :
       ReaderStep(r) \/ Deliver(r) \/ read_timeout(r) \/ recv_timeout(r) \/ shutdown(r)

\* The processes run: the writer finishes the enqueue it is in, every reader
\* loops over dequeue (worker_busy_loop), and the sockets deliver.
Fairness ==
  /\ WF_vars(WriterStep)
  /\ \A r \in Reader : WF_vars(ReaderStep(r)) /\ WF_vars(Deliver(r))

Spec == Init /\ [][Next]_vars /\ Fairness
-----------------------------------------------------------------------------
TypeOK ==
  /\ metadata \in [Chunk -> [0 .. n_reader -> {0, 1}]]
  /\ overflow \in [Chunk -> {0, 1}]
  /\ buf \in [Chunk -> Nat]
  /\ w_pc \in {"start", "idle", "acquire", "fill", "filling", "reset", "publish",
               "send", "notify"}
  /\ w_idx \in Chunk /\ w_i \in Nat /\ w_over \in {0, 1} /\ sent \in Nat
  /\ crashed \in BOOLEAN
  /\ r_pc \in [Reader -> {"start", "ready", "idle", "written", "poll", "woken",
                          "read", "mark", "recv", "stopped"}]
  /\ r_idx \in [Reader -> Chunk]
  /\ r_flag \in [Reader -> {0, 1}] /\ r_over \in [Reader -> {0, 1}]
  /\ taken \in [Reader -> Nat]

\* While acquire_read lends a chunk to its caller, the chunk holds exactly the
\* next object that this reader has not had, whole: the writer neither fills it
\* (no torn read) nor has it gone round the ring (no skipped lap), and the
\* reader has not had it before (the flag protocol of acquire_write).
ReadsNext ==
  \A r \in Reader : r_pc[r] \in {"read", "mark"} => buf[r_idx[r]] = taken[r] + 1

\* dequeue unpickles large buffers without copying them, so the caller goes on
\* using the chunk after its read flag is set.  The object stays as it was
\* until max_chunks further ones are being written: while fewer than
\* max_chunks - 1 have been published after it, its chunk is untouched.
ViewsIntact ==
  \A r \in Reader : \A k \in 1 .. taken[r] :
    sent < k + max_chunks - 1 => buf[(k - 1) % max_chunks] = k

\* Every reader gets every object, in the order of the enqueues, whichever way
\* it travels, chunk or socket.  A reader that gave up on an object announced by
\* an overflow chunk is out of step from then on.
InOrder ==
  \A r \in Reader \ late : \A k \in DOMAIN got[r] : got[r][k] = k

Queue == INSTANCE BroadcastQueue WITH Capacity <- max_chunks, published <- sent

\* The flag protocol implements a bounded broadcast queue: the writer never
\* laps a reader, and a reader takes only what is published.
ImplementsQueue == Queue!Spec

\* Nobody sleeps through a message: an object published is taken by every
\* reader that is not shut down, although notifications are sent after the
\* flag is set, are conflated, and are dropped when one is still on its way.
Delivered ==
  \A r \in Reader : taken[r] < sent ~> (taken[r] = sent \/ shutting_down[r] \/ crashed)

\* shutdown ends a worker's reader wherever it is, asleep in poll included,
\* and also when the writer died before its notification.  Only the wait for an
\* object on the socket is out of cancel's reach.
ShutdownStops ==
  \A r \in Reader \ Deadline : shutting_down[r] ~> r_pc[r] \in {"stopped", "recv"}
=============================================================================
