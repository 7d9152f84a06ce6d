------------------------------ MODULE Sequeue ------------------------------
(***************************************************************************)
(* The song queue of queue.c: a ring of N slots without a lock, each slot  *)
(* a pointer to a buffer of its own.  Its header has a web thread enqueue  *)
(* and an SPI thread dequeue, so an operation is split where the other     *)
(* thread may see it half done.                                            *)
(***************************************************************************)
EXTENDS Naturals, Sequences, FiniteSets

CONSTANTS
  Producers,   \* the threads that enqueue
  Consumers,   \* the threads that dequeue; a thread may do both
  N,           \* MAX_QUEUE_ELEMENT_NUM, 32 in the code
  Garbage,     \* what memory holds that nothing was written to
  MaxPuts      \* bound: elements enqueued

Threads == Producers \cup Consumers
Slots   == 0..N - 1

ASSUME SequeueAssumption ==
  /\ N \in Nat /\ N >= 2
  /\ MaxPuts \in Nat
  /\ Garbage \notin Nat

VARIABLES
  front, rear,
  data,      \* [Slots -> buffer]: data[i].element
  buffers,   \* what each buffer ever allocated holds; its index is its address
  freed,     \* the buffers given back
  lost,      \* the buffers nothing points to any more
  pc,        \* where each thread is in enqueue or dequeue
  alive,     \* the queue is there and the process runs
  \* History variables.
  received,  \* what dequeue handed out
  answer     \* what the last operation returned, or did

vars == <<front, rear, data, buffers, freed, lost, pc, alive, received, answer>>

\* create_empty_sequeue: the ring itself is not initialised.
Init ==
  /\ front = 0 /\ rear = 0
  /\ data = [i \in Slots |-> Garbage]
  /\ buffers = <<>>
  /\ freed = {} /\ lost = {}
  /\ pc = [t \in Threads |-> "idle"]
  /\ alive = TRUE
  /\ received = <<>>
  /\ answer = "none"

Next1(i) == (i + 1) % N

\* A bug to tell from the code: enqueue leaves the test to its caller.
FullUnchecked == FALSE

Full  == Next1(rear) = front
Empty == front = rear

\* The buffers that the queue holds, those an operation is at work on included.
InRing(i) == IF front =< rear THEN front < i /\ i =< rear ELSE i > front \/ i =< rear
Queued == {data[i] : i \in {j \in Slots : InRing(j)}}

Go(t, from, to) == alive /\ pc[t] = from /\ pc' = [pc EXCEPT ![t] = to]

-----------------------------------------------------------------------------
(* enqueue *)

\* The log of a full queue has a %s and nothing to print for it: it prints
\* what it finds, or the process dies.
EnqueueFull(t) ==
  /\ Full
  /\ Go(t, "idle", "idle")
  /\ answer' = "full"
  /\ alive' \in BOOLEAN
  /\ UNCHANGED <<front, rear, data, buffers, freed, lost, received>>

\* The slot is taken before there is anything in it.
EnqueueAdvance(t) ==
  /\ ~ Full
  /\ Len(buffers) < MaxPuts
  /\ Go(t, "idle", "malloc")
  /\ rear' = Next1(rear)
  /\ UNCHANGED <<front, data, buffers, freed, lost, alive, received, answer>>

EnqueueMalloc(t) ==
  /\ Go(t, "malloc", "memcpy")
  /\ buffers' = Append(buffers, Garbage)
  /\ data' = [data EXCEPT ![rear] = Len(buffers) + 1]
  /\ UNCHANGED <<front, rear, freed, lost, alive, received, answer>>

\* The n-th element is the number n.
EnqueueCopy(t) ==
  /\ Go(t, "memcpy", "idle")
  /\ buffers' = [buffers EXCEPT ![data[rear]] = data[rear]]
  /\ answer' = "ok"
  /\ UNCHANGED <<front, rear, data, freed, lost, alive, received>>

-----------------------------------------------------------------------------
(* dequeue *)

DequeueEmpty(t) ==
  /\ Empty
  /\ Go(t, "idle", "idle")
  /\ answer' = "empty"
  /\ UNCHANGED <<front, rear, data, buffers, freed, lost, alive, received>>

DequeueAdvance(t) ==
  /\ ~ Empty
  /\ Go(t, "idle", "take")
  /\ front' = Next1(front)
  /\ UNCHANGED <<rear, data, buffers, freed, lost, alive, received, answer>>

\* Copying through a pointer that was never set ends the process; through one
\* that was freed it finds what was there.
DequeueCopy(t) ==
  /\ Go(t, "take", "free")
  /\ IF data[front] = Garbage
     THEN alive' = FALSE /\ UNCHANGED <<received, answer>>
     ELSE /\ received' = Append(received, buffers[data[front]])
          /\ answer' = "ok"
          /\ UNCHANGED alive
  /\ UNCHANGED <<front, rear, data, buffers, freed, lost>>

\* A bug to tell from the code: the buffer is copied and not given back.
DequeueForget(t) ==
  /\ Go(t, "free", "idle")
  /\ UNCHANGED <<front, rear, data, buffers, freed, lost, alive, received, answer>>

\* Freeing a buffer twice ends the process.
DequeueFree(t) ==
  /\ Go(t, "free", "idle")
  /\ freed' = freed \cup {data[front]}
  /\ alive' = (data[front] \notin freed)
  /\ UNCHANGED <<front, rear, data, buffers, lost, received, answer>>

\* dequeue(queue, NULL): the element is skipped and its buffer forgotten.
DequeueNull(t) ==
  /\ Go(t, "take", "idle")
  /\ lost' = lost \cup {data[front]}
  /\ answer' = "ok"
  /\ UNCHANGED <<front, rear, data, buffers, freed, alive, received>>

-----------------------------------------------------------------------------
\* clear_sequeue
Clear(t) ==
  /\ Go(t, "idle", "idle")
  /\ front' = 0 /\ rear' = 0
  /\ lost' = lost \cup Queued
  /\ answer' = "cleared"
  /\ UNCHANGED <<data, buffers, freed, alive, received>>

\* destroy_sequeue frees the ring, not what is in it.
Destroy(t) ==
  /\ Go(t, "idle", "idle")
  /\ alive' = FALSE
  /\ lost' = lost \cup Queued
  /\ UNCHANGED <<front, rear, data, buffers, freed, received, answer>>

Enqueue(t) ==
  EnqueueFull(t) \/ EnqueueAdvance(t) \/ EnqueueMalloc(t) \/ EnqueueCopy(t)

Dequeue(t) ==
  \/ DequeueEmpty(t) \/ DequeueAdvance(t) \/ DequeueCopy(t) \/ DequeueFree(t)
  \/ DequeueNull(t)

\* Only a thread that is alone with the queue may clear or destroy it.
Next ==
  \/ \E t \in Producers : Enqueue(t)
  \/ \E t \in Consumers : Dequeue(t)
  \/ \E t \in Threads : Threads = {t} /\ (Clear(t) \/ Destroy(t))

Spec == Init /\ [][Next]_vars

-----------------------------------------------------------------------------
(* Properties *)

\* "Enqueue data from web, dequeue data to SPI": what a web thread enqueues is
\* what an SPI thread dequeues.
WebToSpi ==
  \A j \in 1..Len(received) :
    /\ received[j] # Garbage
    /\ \A i \in 1..j - 1 : received[i] < received[j]

=============================================================================
