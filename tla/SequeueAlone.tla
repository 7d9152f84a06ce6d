---------------------------- MODULE SequeueAlone ----------------------------
(***************************************************************************)
(* Sequeue for one thread that both enqueues and dequeues, as a lock       *)
(* around the queue would have it: what queue.c gives such a caller.       *)
(***************************************************************************)
EXTENDS Sequeue

CONSTANT User   \* the thread

ASSUME OneUser == Producers = {User} /\ Consumers = {User}

\* Types of the state.
TypeOK ==
  /\ front \in Slots /\ rear \in Slots
  /\ data \in [Slots -> 1..Len(buffers) \cup {Garbage}]
  /\ buffers \in Seq(Nat \cup {Garbage})
  /\ freed \subseteq 1..Len(buffers)
  /\ lost \subseteq 1..Len(buffers)
  /\ pc \in [Threads -> {"idle", "malloc", "memcpy", "take", "free"}]
  /\ alive \in BOOLEAN
  /\ received \in Seq(Nat \cup {Garbage})
  /\ answer \in {"none", "ok", "full", "empty", "cleared"}

\* The slots in use, those an operation is at work on included, and the slot
\* of the i-th.
Used  == IF front =< rear THEN rear - front ELSE rear + N - front
At(i) == (front + i) % N

\* The elements from the oldest to the newest: one that is being read is still
\* in the queue, one that is being written is not yet.
Reading == pc[User] = "take"
Writing == pc[User] \in {"malloc", "memcpy"}
First   == IF Reading THEN 0 ELSE 1
Count   == Used + (IF Reading THEN 1 ELSE 0) - (IF Writing THEN 1 ELSE 0)

Items == [i \in 1..Count |-> buffers[data[At(First + i - 1)]]]

\* For a thread that has the queue to itself it is a FIFO of N - 1 elements,
\* round the end of the ring too.
Fifo == INSTANCE BoundedFifo WITH Elements <- 1..MaxPuts, Capacity <- N - 1, items <- Items
IsFifo == Fifo!Spec

\* Every buffer is in the queue, freed once, or lost where the caller asked
\* for it: no operation frees what is queued or forgets a buffer.
BuffersAccounted ==
  alive /\ pc[User] = "idle"
    => /\ 1..Len(buffers) = Queued \cup freed \cup lost
       /\ Queued \cap freed = {} /\ Queued \cap lost = {} /\ freed \cap lost = {}

=============================================================================
