---------------------------- MODULE SequeueProofs ----------------------------
(***************************************************************************)
(* For a ring of any size N: the queue, used by one thread, is a FIFO of   *)
(* N - 1 elements.                                                         *)
(***************************************************************************)
EXTENDS SequeueAlone, Integers, SequenceTheorems, TLAPS

At_pc(st) == pc[User] = st

\* Slots in use point to buffers, but for the one that enqueue has just taken;
\* the one that it has just allocated is in no other slot; the one that
\* dequeue works on is outside the ring.
RingInv ==
  /\ Len(buffers) =< MaxPuts
  /\ At_pc("malloc") => Used >= 1 /\ Len(buffers) < MaxPuts
  /\ At_pc("memcpy") => Used >= 1 /\ data[rear] = Len(buffers) /\ Len(buffers) >= 1
  /\ At_pc("take") \/ At_pc("free") => Used =< N - 2 /\ data[front] \in 1..Len(buffers)
  /\ \A i \in 1..Used : (At_pc("malloc") => i < Used) => data[At(i)] \in 1..Len(buffers)
  /\ \A i \in 1..Used : At_pc("memcpy") /\ i < Used => data[At(i)] < Len(buffers)

QueueInv == TypeOK /\ RingInv

\* The remainder of a number less than 2 * N.
LEMMA ModOnce ==
  ASSUME NEW x \in Nat, x =< 2 * N - 1
  PROVE  x % N = IF x < N THEN x ELSE x - N
<1> DEFINE q == x \div N
<1>1. N \in Nat /\ N >= 2
  BY SequeueAssumption
<1>2. q \in Int /\ x % N \in 0..N - 1 /\ x = N * q + (x % N)
  BY <1>1
<1>3. CASE q =< -1
  <2>1. N * q =< -N
    BY <1>1, <1>2, <1>3
  <2> QED
    BY <1>1, <1>2, <2>1
<1>4. CASE q = 0
  BY <1>1, <1>2, <1>4
<1>5. CASE q = 1
  BY <1>1, <1>2, <1>5
<1>6. CASE q >= 2
  <2>1. N * q >= 2 * N
    BY <1>1, <1>2, <1>6
  <2> QED
    BY <1>1, <1>2, <2>1
<1> QED
  BY <1>2, <1>3, <1>4, <1>5, <1>6

\* A slot at most once round the ring.
LEMMA RoundOnce ==
  ASSUME NEW a \in Slots, NEW k \in 0..N
  PROVE  (a + k) % N = IF a + k < N THEN a + k ELSE a + k - N
<1> DEFINE x == a + k
<1>1. N \in Nat /\ N >= 2
  BY SequeueAssumption
<1>2. x \in Nat /\ x =< 2 * N - 1
  BY <1>1 DEF Slots
<1>3. x % N = IF x < N THEN x ELSE x - N
  <2> HIDE DEF x
  <2> QED
    BY <1>2, ModOnce
<1> QED
  BY <1>1, <1>2, <1>3 DEF Slots

\* Slots in use are slots, each used once, and the last of them is rear.
LEMMA AtFacts ==
  ASSUME front \in Slots, rear \in Slots
  PROVE  /\ Used \in 0..N - 1
         /\ \A i \in 0..N : At(i) = IF front + i < N THEN front + i ELSE front + i - N
         /\ \A i \in 0..N : At(i) \in Slots
         /\ At(Used) = rear
         /\ \A i \in 1..Used : i < Used => At(i) # rear
<1>1. N \in Nat /\ N >= 2
  BY SequeueAssumption
<1>2. \A i \in 0..N : At(i) = IF front + i < N THEN front + i ELSE front + i - N
  BY RoundOnce DEF At
<1>3. Used \in 0..N - 1
  BY <1>1 DEF Used, Slots
<1> QED
  BY <1>1, <1>2, <1>3 DEF Used, Slots

\* The next slot, and the tests of enqueue and dequeue.
LEMMA NextFacts ==
  ASSUME front \in Slots, rear \in Slots
  PROVE  /\ \A i \in Slots : Next1(i) = IF i + 1 < N THEN i + 1 ELSE 0
         /\ \A i \in Slots : Next1(i) \in Slots
         /\ Full <=> Used = N - 1
         /\ Empty <=> Used = 0
<1>1. N \in Nat /\ N >= 2
  BY SequeueAssumption
<1>2. \A i \in Slots : Next1(i) = IF i + 1 < N THEN i + 1 ELSE 0
  <2> SUFFICES ASSUME NEW i \in Slots
               PROVE  Next1(i) = IF i + 1 < N THEN i + 1 ELSE 0
    OBVIOUS
  <2>1. (i + 1) % N = IF i + 1 < N THEN i + 1 ELSE i + 1 - N
    BY <1>1, RoundOnce
  <2> QED
    BY <1>1, <2>1 DEF Next1, Slots
<1> QED
  BY <1>1, <1>2 DEF Full, Empty, Used, Slots

LEMMA QueueInvInit == Init => QueueInv
<1> SUFFICES ASSUME Init PROVE QueueInv
  OBVIOUS
<1>1. N \in Nat /\ N >= 2 /\ MaxPuts \in Nat
  BY SequeueAssumption
<1>2. Threads = {User} /\ pc[User] = "idle"
  BY OneUser DEF Init, Threads
<1>3. Used = 0
  BY DEF Init, Used
<1> QED
  BY <1>1, <1>2, <1>3 DEF Init, QueueInv, TypeOK, RingInv, Slots, At_pc

\* A step of the only thread.
LEMMA StepOfUser ==
  ASSUME Next
  PROVE  \/ EnqueueFull(User) \/ EnqueueAdvance(User)
         \/ EnqueueMalloc(User) \/ EnqueueCopy(User)
         \/ DequeueEmpty(User) \/ DequeueAdvance(User) \/ DequeueCopy(User)
         \/ DequeueFree(User) \/ DequeueNull(User)
         \/ Clear(User) \/ Destroy(User)
BY OneUser DEF Next, Enqueue, Dequeue, Threads

\* The buffers of the ring are of the heap.
LEMMA QueuedFacts ==
  ASSUME QueueInv, At_pc("idle")
  PROVE  Queued \subseteq 1..Len(buffers)
<1> SUFFICES ASSUME NEW j \in Slots, InRing(j) PROVE data[j] \in 1..Len(buffers)
  BY DEF Queued
<1>1. front \in Slots /\ rear \in Slots /\ N \in Nat /\ N >= 2
  BY SequeueAssumption DEF QueueInv, TypeOK
<1> DEFINE i == IF front < j THEN j - front ELSE j + N - front
<1>2. i \in 1..Used /\ At(i) = j
  <2>1. i \in 0..N
    BY <1>1 DEF Slots
  <2>2. i \in 1..Used
    BY <1>1 DEF Slots, InRing, Used
  <2> QED
    BY <1>1, <2>1, <2>2, AtFacts DEF Slots
<1>3. ~ At_pc("malloc")
  BY DEF At_pc
<1> QED
  BY <1>2, <1>3 DEF QueueInv, RingInv

LEMMA QueueInvNext == QueueInv /\ [Next]_vars => QueueInv'
<1> SUFFICES ASSUME QueueInv, [Next]_vars PROVE QueueInv'
  OBVIOUS
<1>1. /\ N \in Nat /\ N >= 2 /\ MaxPuts \in Nat /\ Garbage \notin Nat
      /\ front \in Slots /\ rear \in Slots
      /\ Threads = {User} /\ User \in Threads
      /\ Len(buffers) \in Nat /\ TypeOK /\ RingInv
  BY SequeueAssumption, OneUser DEF QueueInv, TypeOK, Threads
<1>2. /\ Used \in 0..N - 1 /\ At(Used) = rear
      /\ \A i \in 0..N : At(i) = IF front + i < N THEN front + i ELSE front + i - N
      /\ \A i \in 0..N : At(i) \in Slots
      /\ \A i \in 1..Used : i < Used => At(i) # rear
  BY <1>1, AtFacts
<1>3. /\ \A i \in Slots : Next1(i) = IF i + 1 < N THEN i + 1 ELSE 0
      /\ \A i \in Slots : Next1(i) \in Slots
      /\ Full <=> Used = N - 1
      /\ Empty <=> Used = 0
  BY <1>1, NextFacts
<1>4. CASE EnqueueFull(User) \/ DequeueEmpty(User)
  <2>1. /\ UNCHANGED <<front, rear, data, buffers, freed, lost, received>>
        /\ pc' = pc /\ alive' \in BOOLEAN /\ answer' \in {"full", "empty"}
    BY <1>1, <1>4 DEF EnqueueFull, DequeueEmpty, Go, TypeOK
  <2> QED
    BY <2>1, <1>1 DEF QueueInv, TypeOK, RingInv, Used, At, At_pc
<1>5. CASE EnqueueAdvance(User)
  <2>1. /\ UNCHANGED <<front, data, buffers, freed, lost, alive, received, answer>>
        /\ pc[User] = "idle" /\ pc' = [pc EXCEPT ![User] = "malloc"]
        /\ rear' = Next1(rear) /\ Len(buffers) < MaxPuts /\ ~ Full
    BY <1>5 DEF EnqueueAdvance, Go
  <2>2. pc'[User] = "malloc" /\ rear' \in Slots /\ Used' = Used + 1
    <3>1. rear' = IF rear + 1 < N THEN rear + 1 ELSE 0
      BY <2>1, <1>1, <1>3
    <3>2. Used # N - 1
      BY <2>1, <1>3
    <3>3. Used' = Used + 1
      BY <3>1, <3>2, <2>1, <1>1 DEF Used, Slots
    <3> QED
      BY <3>1, <3>3, <2>1, <1>1 DEF TypeOK, Slots
  <2>3. \A i \in 1..Used : data[At(i)] \in 1..Len(buffers)
    BY <2>1, <1>1 DEF RingInv, At_pc
  <2>4. \A i : At(i)' = At(i)
    BY <2>1 DEF At
  <2>5. RingInv'
    BY <2>1, <2>2, <2>3, <2>4, <1>1, <1>2 DEF RingInv, At_pc
  <2> QED
    BY <2>1, <2>2, <2>5, <1>1 DEF QueueInv, TypeOK
<1>6. CASE EnqueueMalloc(User)
  <2>1. /\ UNCHANGED <<front, rear, freed, lost, alive, received, answer>>
        /\ pc[User] = "malloc" /\ pc' = [pc EXCEPT ![User] = "memcpy"]
        /\ buffers' = Append(buffers, Garbage)
        /\ data' = [data EXCEPT ![rear] = Len(buffers) + 1]
    BY <1>6 DEF EnqueueMalloc, Go
  <2>2. /\ pc'[User] = "memcpy" /\ Len(buffers') = Len(buffers) + 1
        /\ buffers' \in Seq(Nat \cup {Garbage})
        /\ data'[rear] = Len(buffers) + 1
        /\ \A i \in Slots : i # rear => data'[i] = data[i]
        /\ data' \in [Slots -> 1..Len(buffers') \cup {Garbage}]
    BY <2>1, <1>1 DEF TypeOK
  <2>3. (\A i : At(i)' = At(i)) /\ Used' = Used
    BY <2>1 DEF At, Used
  <2>4. Used >= 1 /\ Len(buffers) < MaxPuts
    BY <2>1, <1>1 DEF RingInv, At_pc
  <2>5. \A i \in 1..Used : i < Used => data'[At(i)] \in 1..Len(buffers)
    <3>1. \A i \in 1..Used : i < Used => data[At(i)] \in 1..Len(buffers)
      BY <1>1 DEF RingInv
    <3> QED
      BY <3>1, <2>2, <1>1, <1>2
  <2>6. \A i \in 1..Used : i < Used \/ i = Used
    BY <1>1, <1>2
  <2>7. RingInv'
    BY <2>1, <2>2, <2>3, <2>4, <2>5, <2>6, <1>1, <1>2 DEF RingInv, At_pc
  <2>8. TypeOK'
    BY <2>1, <2>2, <1>1 DEF TypeOK
  <2> QED
    BY <2>7, <2>8 DEF QueueInv
<1>7. CASE EnqueueCopy(User)
  <2>1. /\ UNCHANGED <<front, rear, data, freed, lost, alive, received>>
        /\ pc[User] = "memcpy" /\ pc' = [pc EXCEPT ![User] = "idle"]
        /\ buffers' = [buffers EXCEPT ![data[rear]] = data[rear]]
        /\ answer' = "ok"
    BY <1>7 DEF EnqueueCopy, Go
  <2>2. data[rear] = Len(buffers) /\ Len(buffers) >= 1
    BY <2>1, <1>1 DEF RingInv, At_pc
  <2>3. /\ pc'[User] = "idle" /\ buffers' \in Seq(Nat \cup {Garbage})
        /\ Len(buffers') = Len(buffers)
    BY <2>1, <2>2, <1>1 DEF TypeOK
  <2>4. (\A i : At(i)' = At(i)) /\ Used' = Used
    BY <2>1 DEF At, Used
  <2>5. \A i \in 1..Used : data[At(i)] \in 1..Len(buffers)
    BY <2>1, <1>1 DEF RingInv, At_pc
  <2>6. RingInv'
    BY <2>1, <2>3, <2>4, <2>5, <1>1 DEF RingInv, At_pc
  <2> QED
    BY <2>1, <2>3, <2>6, <1>1 DEF QueueInv, TypeOK
<1>8. CASE DequeueAdvance(User)
  <2>1. /\ UNCHANGED <<rear, data, buffers, freed, lost, alive, received, answer>>
        /\ pc[User] = "idle" /\ pc' = [pc EXCEPT ![User] = "take"]
        /\ front' = Next1(front) /\ ~ Empty
    BY <1>8 DEF DequeueAdvance, Go
  <2>2. /\ pc'[User] = "take" /\ front' \in Slots /\ Used' = Used - 1
        /\ Used >= 1 /\ front' = At(1)
    <3>1. front' = IF front + 1 < N THEN front + 1 ELSE 0
      BY <2>1, <1>1, <1>3
    <3>2. Used >= 1
      BY <2>1, <1>2, <1>3
    <3>3. Used' = Used - 1
      BY <3>1, <3>2, <2>1, <1>1 DEF Used, Slots
    <3>4. front' = At(1)
      BY <3>1, <1>1, <1>2 DEF Slots
    <3> QED
      BY <3>1, <3>2, <3>3, <3>4, <2>1, <1>1 DEF TypeOK, Slots
  <2>3. \A i \in 1..Used : data[At(i)] \in 1..Len(buffers)
    BY <2>1, <1>1 DEF RingInv, At_pc
  <2>4. \A i \in 0..N - 1 : At(i)' = At(i + 1)
    <3>1. \A i \in 0..N : At(i)' = IF front' + i < N THEN front' + i ELSE front' + i - N
      <4> SUFFICES ASSUME NEW i \in 0..N
                   PROVE  At(i)' = IF front' + i < N THEN front' + i ELSE front' + i - N
        OBVIOUS
      <4>1. (front' + i) % N = IF front' + i < N THEN front' + i ELSE front' + i - N
        BY <2>2, RoundOnce
      <4> QED
        BY <4>1 DEF At
    <3>2. front' = IF front + 1 < N THEN front + 1 ELSE 0
      BY <2>1, <1>1, <1>3
    <3> QED
      BY <3>1, <3>2, <1>1, <1>2 DEF Slots
  <2>5. \A i \in 1..Used' : i \in 0..N - 1 /\ i + 1 \in 1..Used
    BY <2>2, <1>1, <1>2
  <2>6. RingInv'
    BY <2>1, <2>2, <2>3, <2>4, <2>5, <1>1, <1>2 DEF RingInv, At_pc
  <2> QED
    BY <2>1, <2>2, <2>6, <1>1 DEF QueueInv, TypeOK
<1>9. CASE DequeueCopy(User) \/ DequeueFree(User) \/ DequeueNull(User)
  <2>1. /\ UNCHANGED <<front, rear, data, buffers>>
        /\ pc[User] \in {"take", "free"}
        /\ \/ pc' = [pc EXCEPT ![User] = "free"]
           \/ pc' = [pc EXCEPT ![User] = "idle"]
    BY <1>9 DEF DequeueCopy, DequeueFree, DequeueNull, Go
  <2>2. data[front] \in 1..Len(buffers) /\ data[front] # Garbage
    BY <2>1, <1>1 DEF RingInv, At_pc
  <2>3. pc'[User] \in {"free", "idle"} /\ pc' \in [Threads -> {"idle", "malloc", "memcpy", "take", "free"}]
    BY <2>1, <1>1 DEF TypeOK
  <2>4. (\A i : At(i)' = At(i)) /\ Used' = Used
    BY <2>1 DEF At, Used
  <2>5. RingInv'
    BY <2>1, <2>2, <2>3, <2>4, <1>1, <1>2 DEF RingInv, At_pc
  <2>6. /\ freed' \subseteq 1..Len(buffers') /\ lost' \subseteq 1..Len(buffers')
        /\ alive' \in BOOLEAN /\ answer' \in {"none", "ok", "full", "empty", "cleared"}
    BY <2>1, <2>2, <1>1, <1>9 DEF DequeueCopy, DequeueFree, DequeueNull, TypeOK
  <2>7. received' \in Seq(Nat \cup {Garbage})
    <3>1. buffers[data[front]] \in Nat \cup {Garbage}
      BY <2>2, <1>1 DEF TypeOK
    <3> QED
      BY <3>1, <1>1, <1>9 DEF DequeueCopy, DequeueFree, DequeueNull, TypeOK
  <2> QED
    BY <2>1, <2>3, <2>5, <2>6, <2>7, <1>1 DEF QueueInv, TypeOK
<1>10. CASE Clear(User) \/ Destroy(User)
  <2>1. /\ UNCHANGED <<data, buffers, freed, received>>
        /\ answer' \in {"none", "ok", "full", "empty", "cleared"}
        /\ pc[User] = "idle" /\ pc' = pc /\ alive' \in BOOLEAN
        /\ lost' = lost \cup Queued
        /\ (front' = 0 /\ rear' = 0) \/ (front' = front /\ rear' = rear)
    BY <1>10, <1>1 DEF Clear, Destroy, Go, TypeOK
  <2>2. Queued \subseteq 1..Len(buffers)
    BY <2>1, <1>1, QueuedFacts DEF QueueInv, At_pc
  <2>3. TypeOK'
    BY <2>1, <2>2, <1>1 DEF TypeOK, Slots
  <2>4. CASE front' = 0 /\ rear' = 0
    <3>1. Used' = 0
      BY <2>4 DEF Used
    <3> QED
      BY <3>1, <2>1, <2>3, <1>1 DEF QueueInv, RingInv, At_pc
  <2>5. CASE front' = front /\ rear' = rear
    BY <2>5, <2>1, <2>3, <1>1 DEF QueueInv, RingInv, At_pc, Used, At
  <2> QED
    BY <2>1, <2>4, <2>5
<1>11. CASE UNCHANGED vars
  BY <1>11 DEF vars, QueueInv, TypeOK, RingInv, Used, At, At_pc
<1> QED
  BY <1>4, <1>5, <1>6, <1>7, <1>8, <1>9, <1>10, <1>11, StepOfUser

\* The types of the queue's state, for a ring of any size.
THEOREM QueueTypeCorrect == Spec => []TypeOK
<1>1. QueueInv => TypeOK
  BY DEF QueueInv
<1> QED
  BY <1>1, QueueInvInit, QueueInvNext, PTL DEF Spec

-----------------------------------------------------------------------------
(* The refinement of BoundedFifo *)

Contents == Nat \cup {Garbage}

\* What the mapped items are.
ItemsOK ==
  /\ Count \in 0..N - 1
  /\ Items \in Seq(Contents)
  /\ Len(Items) = Count
  /\ \A i \in 1..Count : Items[i] = buffers[data[At(First + i - 1)]]

\* The items are the contents of buffers that the ring points to.
LEMMA ItemsFacts == QueueInv => ItemsOK
<1> SUFFICES ASSUME QueueInv PROVE ItemsOK
  OBVIOUS
<1>1. /\ N \in Nat /\ N >= 2
      /\ front \in Slots /\ rear \in Slots
      /\ Len(buffers) \in Nat /\ TypeOK /\ RingInv
  BY SequeueAssumption DEF QueueInv, TypeOK
<1>2. /\ Used \in 0..N - 1
      /\ \A i \in 0..N : At(i) = IF front + i < N THEN front + i ELSE front + i - N
  BY <1>1, AtFacts
<1>3. /\ Count \in 0..N - 1
      /\ First \in {0, 1}
      /\ Reading => Count = Used + 1 /\ First = 0
      /\ Writing => Count = Used - 1 /\ First = 1
      /\ ~ Reading /\ ~ Writing => Count = Used /\ First = 1
  BY <1>1, <1>2 DEF Count, First, Reading, Writing, RingInv, At_pc
<1>4. \A i \in 1..Count : data[At(First + i - 1)] \in 1..Len(buffers)
  <2> SUFFICES ASSUME NEW i \in 1..Count
               PROVE  data[At(First + i - 1)] \in 1..Len(buffers)
    OBVIOUS
  <2> DEFINE k == First + i - 1
  <2>1. k \in Nat /\ (k = 0 => Reading) /\ (k # 0 => k \in 1..Used)
        /\ (Writing => k < Used)
    BY <1>2, <1>3 DEF Reading, Writing
  <2>2. CASE k = 0
    <3>1. At(0) = front
      BY <1>1, <1>2 DEF Slots
    <3> QED
      BY <3>1, <2>1, <2>2, <1>1 DEF RingInv, At_pc, Reading
  <2>3. CASE k # 0
    <3>1. At_pc("malloc") => k < Used
      BY <2>1 DEF At_pc, Writing
    <3> QED
      BY <3>1, <2>1, <2>3, <1>1 DEF RingInv
  <2> QED
    BY <2>2, <2>3
<1>5. \A i \in 1..Count : buffers[data[At(First + i - 1)]] \in Contents
  <2>1. buffers \in [1..Len(buffers) -> Contents]
    BY <1>1, LenProperties DEF TypeOK, Contents
  <2> QED
    BY <2>1, <1>4
<1>6. Items \in [1..Count -> Contents]
  BY <1>5 DEF Items
<1>7. Items \in Seq(Contents) /\ Len(Items) = Count
  BY <1>3, <1>6
<1> QED
  BY <1>3, <1>7 DEF ItemsOK, Items

\* A step that leaves the contents of the ring alone leaves the items alone.
LEMMA SameItems ==
  ASSUME ItemsOK, ItemsOK', Count' = Count,
         \A i \in 1..Count :
           (buffers[data[At(First + i - 1)]])' = buffers[data[At(First + i - 1)]]
  PROVE  Items' = Items
<1>1. Items \in Seq(Contents) /\ Items' \in Seq(Contents) /\ Len(Items') = Len(Items)
  BY DEF ItemsOK, Contents
<1>2. \A i \in 1..Len(Items) : Items'[i] = Items[i]
  BY DEF ItemsOK
<1> QED
  BY <1>1, <1>2, SeqEqual

\* Every step of the ring is a step of the FIFO or none.
LEMMA FifoStep ==
  ASSUME QueueInv, QueueInv', ItemsOK, ItemsOK', [Next]_vars
  PROVE  [Fifo!Next]_(Fifo!vars)
<1>1. /\ N \in Nat /\ N >= 2 /\ Threads = {User} /\ User \in Threads
      /\ front \in Slots /\ rear \in Slots /\ front' \in Slots /\ rear' \in Slots
      /\ Len(buffers) \in Nat /\ TypeOK /\ RingInv /\ RingInv'
      /\ pc \in [Threads -> {"idle", "malloc", "memcpy", "take", "free"}]
  BY SequeueAssumption, OneUser DEF QueueInv, TypeOK, Threads
<1>2. /\ Used \in 0..N - 1 /\ At(Used) = rear
      /\ \A i \in 0..N : At(i) = IF front + i < N THEN front + i ELSE front + i - N
      /\ \A i \in 0..N : At(i) \in Slots
      /\ \A i \in 1..Used : i < Used => At(i) # rear
  BY <1>1, AtFacts
<1>3. /\ \A i \in Slots : Next1(i) = IF i + 1 < N THEN i + 1 ELSE 0
      /\ Full <=> Used = N - 1
      /\ Empty <=> Used = 0
  BY <1>1, NextFacts
<1>4. /\ Items \in Seq(Contents) /\ Len(Items) = Count /\ Count \in 0..N - 1
      /\ Items' \in Seq(Contents) /\ Len(Items') = Count' /\ Count' \in 0..N - 1
      /\ \A i \in 1..Count : Items[i] = buffers[data[At(First + i - 1)]]
      /\ \A i \in 1..Count' : Items'[i] = (buffers[data[At(First + i - 1)]])'
  BY DEF ItemsOK, Contents
<1>5. CASE EnqueueFull(User) \/ DequeueEmpty(User)
  <2>1. /\ UNCHANGED <<front, rear, data, buffers, received, pc>>
        /\ pc[User] = "idle"
    BY <1>1, <1>5 DEF EnqueueFull, DequeueEmpty, Go
  <2>2. Count' = Count /\ (\A i : At(i)' = At(i)) /\ First' = First /\ Count = Used
    BY <2>1, <1>1, <1>2 DEF Count, Used, At, First, Reading, Writing
  <2>3. Items' = Items
    BY <2>1, <2>2, SameItems
  <2>4. CASE EnqueueFull(User)
    BY <2>1, <2>2, <2>3, <2>4, <1>3, <1>4 DEF EnqueueFull, Fifo!Next, Fifo!Full
  <2>5. CASE DequeueEmpty(User)
    <3>1. Items = <<>>
      BY <2>2, <2>5, <1>3, <1>4 DEF DequeueEmpty
    <3> QED
      BY <3>1, <2>1, <2>3, <2>5 DEF DequeueEmpty, Fifo!Next, Fifo!Empty
  <2> QED
    BY <1>5, <2>4, <2>5
<1>6. CASE EnqueueAdvance(User)
  <2>1. /\ UNCHANGED <<front, data, buffers, received, answer>>
        /\ pc[User] = "idle" /\ pc'[User] = "malloc"
        /\ rear' = Next1(rear) /\ ~ Full
    BY <1>6, <1>1 DEF EnqueueAdvance, Go
  <2>2. Used' = Used + 1
    <3>1. rear' = IF rear + 1 < N THEN rear + 1 ELSE 0
      BY <2>1, <1>1, <1>3
    <3>2. Used # N - 1
      BY <2>1, <1>3
    <3> QED
      BY <3>1, <3>2, <2>1, <1>1 DEF Used, Slots
  <2>3. Count' = Count /\ (\A i : At(i)' = At(i)) /\ First' = First
    BY <2>1, <2>2, <1>2 DEF Count, At, First, Reading, Writing
  <2>4. Items' = Items
    BY <2>1, <2>3, SameItems
  <2> QED
    BY <2>1, <2>4 DEF Fifo!vars
<1>7. CASE EnqueueMalloc(User)
  <2>1. /\ UNCHANGED <<front, rear, received, answer>>
        /\ pc[User] = "malloc" /\ pc'[User] = "memcpy"
        /\ buffers' = Append(buffers, Garbage)
        /\ data' = [data EXCEPT ![rear] = Len(buffers) + 1]
    BY <1>7, <1>1 DEF EnqueueMalloc, Go
  <2>2. /\ Count' = Count /\ (\A i : At(i)' = At(i)) /\ First' = First
        /\ First = 1 /\ Count = Used - 1
    BY <2>1, <1>2 DEF Count, Used, At, First, Reading, Writing
  <2>3. \A i \in 1..Count :
          (buffers[data[At(First + i - 1)]])' = buffers[data[At(First + i - 1)]]
    <3> SUFFICES ASSUME NEW i \in 1..Count
                 PROVE  buffers'[data'[At(i)]] = buffers[data[At(i)]]
      BY <2>2
    <3>1. i \in 1..Used /\ i < Used /\ At(i) \in Slots /\ At(i) # rear
      BY <2>2, <1>1, <1>2
    <3>2. data[At(i)] \in 1..Len(buffers)
      BY <3>1, <1>1 DEF RingInv
    <3>3. data'[At(i)] = data[At(i)]
      BY <3>1, <2>1, <1>1 DEF TypeOK
    <3>4. buffers'[data[At(i)]] = buffers[data[At(i)]]
      BY <3>2, <2>1, <1>1 DEF TypeOK
    <3> QED
      BY <3>3, <3>4
  <2>4. Items' = Items
    BY <2>2, <2>3, SameItems
  <2> QED
    BY <2>1, <2>4 DEF Fifo!vars
<1>8. CASE EnqueueCopy(User)
  <2> DEFINE x == Len(buffers)
  <2>1. /\ UNCHANGED <<front, rear, data, received>>
        /\ pc[User] = "memcpy" /\ pc'[User] = "idle"
        /\ buffers' = [buffers EXCEPT ![data[rear]] = data[rear]]
        /\ answer' = "ok"
    BY <1>8, <1>1 DEF EnqueueCopy, Go
  <2>2. data[rear] = x /\ x >= 1 /\ x \in 1..MaxPuts /\ x \in Contents
    BY <2>1, <1>1, SequeueAssumption DEF RingInv, At_pc, Contents
  <2>3. /\ Count' = Count + 1 /\ (\A i : At(i)' = At(i)) /\ First' = 1
        /\ First = 1 /\ Count = Used - 1
    BY <2>1, <1>2 DEF Count, Used, At, First, Reading, Writing
  <2>4. buffers'[x] = x
        /\ \A i \in 1..x : i # x => buffers'[i] = buffers[i]
    BY <2>1, <2>2, <1>1 DEF TypeOK
  <2>5. Items' = Append(Items, x)
    <3> DEFINE put == Append(Items, x)
    <3>1. put \in Seq(Contents) /\ Len(put) = Count + 1
          /\ put[Count + 1] = x /\ \A i \in 1..Count : put[i] = Items[i]
      BY <2>2, <1>4
    <3>2. \A i \in 1..Count : Items'[i] = Items[i]
      <4> SUFFICES ASSUME NEW i \in 1..Count
                   PROVE  buffers'[data[At(i)]] = buffers[data[At(i)]]
        BY <2>1, <2>3, <1>4
      <4>1. i \in 1..Used /\ i < Used
        BY <2>3, <1>2
      <4>2. data[At(i)] \in 1..x /\ data[At(i)] < x
        BY <4>1, <2>1, <1>1 DEF RingInv, At_pc
      <4> QED
        BY <4>2, <2>4
    <3>3. Items'[Count + 1] = x
      <4>1. First' + (Count + 1) - 1 = Used
        BY <2>3, <1>2
      <4>2. Count + 1 \in 1..Count'
        BY <2>3, <1>4
      <4>3. Items'[Count + 1] = buffers'[data'[At(Used)]]
        BY <4>1, <4>2, <2>3, <1>2, <1>4
      <4> QED
        BY <4>3, <2>1, <2>2, <2>4, <1>2
    <3>4. \A i \in 1..Len(Items') : Items'[i] = put[i]
      BY <3>1, <3>2, <3>3, <2>3, <1>4
    <3> HIDE DEF put
    <3>5. Items' = put
      BY <3>1, <3>4, <2>3, <1>4, SeqEqual
    <3> QED
      BY <3>5 DEF put
  <2>6. Len(Items) < N - 1
    BY <2>3, <1>1, <1>2, <1>4
  <2>7. Fifo!Put(x)
    BY <2>1, <2>5, <2>6 DEF Fifo!Put
  <2> QED
    BY <2>2, <2>7 DEF Fifo!Next
<1>9. CASE DequeueAdvance(User)
  <2>1. /\ UNCHANGED <<rear, data, buffers, received, answer>>
        /\ pc[User] = "idle" /\ pc'[User] = "take"
        /\ front' = Next1(front) /\ ~ Empty
    BY <1>9, <1>1 DEF DequeueAdvance, Go
  <2>2. front' = IF front + 1 < N THEN front + 1 ELSE 0
    BY <2>1, <1>1, <1>3
  <2>3. Used' = Used - 1 /\ Used >= 1
    <3>1. Used >= 1
      BY <2>1, <1>2, <1>3
    <3> QED
      BY <3>1, <2>1, <2>2, <1>1 DEF Used, Slots
  <2>4. Count' = Count /\ Count = Used /\ First' = 0 /\ First = 1
    BY <2>1, <2>3, <1>2 DEF Count, First, Reading, Writing
  <2>5. \A i \in 0..N - 1 : At(i)' = At(i + 1)
    <3> SUFFICES ASSUME NEW i \in 0..N - 1 PROVE At(i)' = At(i + 1)
      OBVIOUS
    <3>1. (front' + i) % N = IF front' + i < N THEN front' + i ELSE front' + i - N
      BY <1>1, RoundOnce
    <3>2. At(i + 1) = IF front + (i + 1) < N THEN front + (i + 1) ELSE front + (i + 1) - N
      BY <1>1, <1>2
    <3> QED
      BY <3>1, <3>2, <2>2, <1>1 DEF At, Slots
  <2>6. \A i \in 1..Count :
          (buffers[data[At(First + i - 1)]])' = buffers[data[At(First + i - 1)]]
    <3> SUFFICES ASSUME NEW i \in 1..Count
                 PROVE  (At(First + i - 1))' = At(First + i - 1)
      BY <2>1
    <3>1. First' + i - 1 = i - 1 /\ First + i - 1 = i /\ i - 1 \in 0..N - 1 /\ (i - 1) + 1 = i
      BY <2>4, <1>1, <1>2
    <3>2. (At(First + i - 1))' = At(i - 1)'
      BY <3>1 DEF At
    <3> QED
      BY <3>1, <3>2, <2>5
  <2>7. Items' = Items
    BY <2>4, <2>6, SameItems
  <2> QED
    BY <2>1, <2>7 DEF Fifo!vars
<1>10. CASE DequeueCopy(User) \/ DequeueNull(User)
  <2>1. /\ UNCHANGED <<front, rear, data, buffers>>
        /\ pc[User] = "take" /\ pc'[User] \in {"free", "idle"}
    BY <1>10, <1>1 DEF DequeueCopy, DequeueNull, Go
  <2>2. data[front] \in 1..Len(buffers) /\ data[front] # Garbage
    BY <2>1, <1>1, SequeueAssumption DEF RingInv, At_pc
  <2>3. /\ Count' = Count - 1 /\ (\A i : At(i)' = At(i)) /\ First' = 1
        /\ First = 0 /\ Count = Used + 1
    BY <2>1, <1>2 DEF Count, Used, At, First, Reading, Writing
  <2>4. Items # <<>>
    BY <2>3, <1>2, <1>4
  <2>5. /\ Tail(Items) \in Seq(Contents) /\ Len(Tail(Items)) = Count - 1
        /\ \A i \in 1..Count - 1 : Tail(Items)[i] = Items[i + 1]
    BY <2>4, <1>4, HeadTailProperties
  <2>6. Items' = Tail(Items)
    <3>1. \A i \in 1..Count - 1 : Items'[i] = Items[i + 1]
      <4> SUFFICES ASSUME NEW i \in 1..Count - 1 PROVE Items'[i] = Items[i + 1]
        OBVIOUS
      <4>1. i \in 1..Count' /\ i + 1 \in 1..Count
        BY <2>3, <1>4
      <4>2. First' + i - 1 = i /\ First + (i + 1) - 1 = i
        BY <2>3, <1>4
      <4>3. Items'[i] = buffers'[data'[At(i)]]
        BY <4>1, <4>2, <2>3, <1>4
      <4>4. Items[i + 1] = buffers[data[At(i)]]
        BY <4>1, <4>2, <1>4
      <4> QED
        BY <4>3, <4>4, <2>1
    <3>2. \A i \in 1..Len(Items') : Items'[i] = Tail(Items)[i]
      BY <3>1, <2>3, <2>5, <1>4
    <3> QED
      BY <3>2, <2>3, <2>5, <1>4, SeqEqual
  <2>7. Head(Items) = buffers[data[front]]
    <3>1. At(0) = front
      BY <1>1, <1>2 DEF Slots
    <3>2. 1 \in 1..Count /\ First + 1 - 1 = 0
      BY <2>3, <1>2
    <3> QED
      BY <3>1, <3>2, <2>4, <1>4
  <2>8. CASE DequeueCopy(User)
    BY <2>2, <2>4, <2>6, <2>7, <2>8 DEF DequeueCopy, Fifo!Next, Fifo!Get
  <2>9. CASE DequeueNull(User)
    BY <2>4, <2>6, <2>9 DEF DequeueNull, Fifo!Next, Fifo!Drop
  <2> QED
    BY <1>10, <2>8, <2>9
<1>11. CASE DequeueFree(User) \/ Destroy(User) \/ UNCHANGED vars
  <2>1. /\ UNCHANGED <<front, rear, data, buffers, received, answer>>
        /\ Reading' = Reading /\ Writing' = Writing
    BY <1>11, <1>1 DEF DequeueFree, Destroy, Go, vars, Reading, Writing
  <2>2. Count' = Count /\ (\A i : At(i)' = At(i)) /\ First' = First
    BY <2>1 DEF Count, Used, At, First
  <2>3. Items' = Items
    BY <2>1, <2>2, SameItems
  <2> QED
    BY <2>1, <2>3 DEF Fifo!vars
<1>12. CASE Clear(User)
  <2>1. received' = received /\ answer' = "cleared"
        /\ front' = 0 /\ rear' = 0 /\ pc'[User] = "idle"
    BY <1>12, <1>1 DEF Clear, Go
  <2>2. Count' = 0
    <3>1. Used' = 0
      BY <2>1 DEF Used
    <3>2. ~ Reading' /\ ~ Writing'
      BY <2>1 DEF Reading, Writing
    <3> QED
      BY <3>1, <3>2 DEF Count
  <2>3. Items' = <<>>
    BY <2>2, <1>4
  <2> QED
    BY <2>1, <2>3 DEF Fifo!Next, Fifo!Clear
<1> QED
  BY <1>5, <1>6, <1>7, <1>8, <1>9, <1>10, <1>11, <1>12, StepOfUser

\* Used by one thread, the queue of queue.c is a FIFO of N - 1 elements for any
\* size N of its ring: the elements come out in the order they went in, each
\* once and whole; "full" is answered when N - 1 are in it, "empty" when none
\* is.
THEOREM QueueIsFifo == Spec => IsFifo
<1>1. Init /\ QueueInv => Fifo!Init
  <2> SUFFICES ASSUME Init, QueueInv PROVE Fifo!Init
    OBVIOUS
  <2>1. Threads = {User} /\ pc[User] = "idle"
    BY OneUser DEF Init, Threads
  <2>2. Count = 0
    BY <2>1 DEF Init, Count, Used, Reading, Writing
  <2>3. Items = <<>>
    BY <2>2, ItemsFacts DEF ItemsOK
  <2> QED
    BY <2>3 DEF Init, Fifo!Init
<1>2. QueueInv /\ QueueInv' /\ ItemsOK /\ ItemsOK' /\ [Next]_vars
        => [Fifo!Next]_(Fifo!vars)
  BY FifoStep
<1> QED
  BY <1>1, <1>2, QueueInvInit, QueueInvNext, ItemsFacts, PTL DEF Spec, IsFifo, Fifo!Spec

-----------------------------------------------------------------------------
(* The buffers *)

\* The slots that hold a buffer of the queue: those of the ring but for the one
\* that enqueue has just taken, and the one that dequeue is at work on.
Holding ==
  {i \in Slots : \/ InRing(i) /\ ~ (At_pc("malloc") /\ i = rear)
                 \/ (At_pc("take") \/ At_pc("free")) /\ i = front}

Held == {data[i] : i \in Holding}

\* Each buffer is held by one slot, freed, or lost.
Accounts ==
  /\ 1..Len(buffers) = Held \cup freed \cup lost
  /\ Held \cap freed = {} /\ Held \cap lost = {} /\ freed \cap lost = {}
  /\ \A i, j \in Holding : data[i] = data[j] => i = j

AccountInv == alive => Accounts

LEMMA FrontIsOut == ASSUME front \in Slots, rear \in Slots PROVE ~ InRing(front)
BY SequeueAssumption DEF InRing, Slots

\* Between two operations what is held is what is queued.
LEMMA HeldIsQueued == ASSUME At_pc("idle") PROVE Held = Queued
BY DEF Held, Holding, Queued, At_pc

LEMMA SameAccounts ==
  ASSUME Accounts, Holding' = Holding, data' = data, Len(buffers') = Len(buffers), freed' = freed, lost' = lost
  PROVE  Accounts'
<1>1. Held' = Held
  BY DEF Held
<1> QED
  BY <1>1 DEF Accounts

\* One buffer more, in a slot that held none.
LEMMA OneMore ==
  ASSUME Accounts, NEW n \in Nat, Len(buffers) = n, Len(buffers') = n + 1, NEW s \in Slots, s \notin Holding,
         data \in [Slots -> 1..n \cup {Garbage}], data' = [data EXCEPT ![s] = n + 1],
         Holding' = Holding \cup {s}, freed' = freed, lost' = lost
  PROVE  Accounts'
<1>0. Holding \subseteq Slots
  BY DEF Holding
<1>1. Held' = Held \cup {n + 1}
  BY <1>0 DEF Held
<1>2. Held \subseteq 1..n /\ freed \subseteq 1..n /\ lost \subseteq 1..n /\ 1..n = Held \cup freed \cup lost
  BY DEF Accounts
<1>3. n + 1 \notin 1..n /\ 1..n + 1 = 1..n \cup {n + 1}
  OBVIOUS
<1>4. \A i \in Holding : data'[i] = data[i] /\ data[i] \in 1..n
  BY <1>0, <1>2 DEF Held
<1>5. data'[s] = n + 1
  OBVIOUS
<1>6. \A i, j \in Holding' : data'[i] = data'[j] => i = j
  BY <1>3, <1>4, <1>5 DEF Accounts
<1>7. 1..Len(buffers') = Held' \cup freed' \cup lost'
  BY <1>1, <1>2, <1>3
<1> QED
  BY <1>1, <1>2, <1>3, <1>6, <1>7 DEF Accounts

\* One buffer fewer, freed or lost.
LEMMA OneLess ==
  ASSUME Accounts, NEW s \in Holding, Holding' = Holding \ {s}, data' = data, buffers' = buffers,
         \/ freed' = freed \cup {data[s]} /\ lost' = lost
         \/ freed' = freed /\ lost' = lost \cup {data[s]}
  PROVE  Accounts'
<1>1. Held' = Held \ {data[s]}
  BY DEF Held, Accounts
<1>2. data[s] \in Held
  BY DEF Held
<1>3. data[s] \notin freed /\ data[s] \notin lost
  BY <1>2 DEF Accounts
<1>4. 1..Len(buffers') = Held' \cup freed' \cup lost'
  BY <1>1, <1>2 DEF Accounts
<1>5. Held' \cap freed' = {} /\ Held' \cap lost' = {} /\ freed' \cap lost' = {}
  BY <1>1, <1>3 DEF Accounts
<1>6. \A i, j \in Holding' : data'[i] = data'[j] => i = j
  BY DEF Accounts
<1> QED
  BY <1>4, <1>5, <1>6 DEF Accounts

LEMMA AccountInvNext == QueueInv /\ AccountInv /\ [Next]_vars => AccountInv'
<1> SUFFICES ASSUME QueueInv, AccountInv, [Next]_vars, alive'
             PROVE  Accounts'
  BY DEF AccountInv
<1>1. /\ N \in Nat /\ N >= 2
      /\ front \in Slots /\ rear \in Slots
      /\ Threads = {User} /\ User \in Threads
      /\ Len(buffers) \in Nat /\ TypeOK /\ RingInv
  BY SequeueAssumption, OneUser DEF QueueInv, TypeOK, Threads
<1>2. /\ \A i \in Slots : Next1(i) = IF i + 1 < N THEN i + 1 ELSE 0
      /\ \A i \in Slots : Next1(i) \in Slots
      /\ Full <=> Next1(rear) = front
      /\ Empty <=> front = rear
  BY <1>1, NextFacts DEF Full, Empty
<1>3. ~ InRing(front)
  BY <1>1, FrontIsOut
<1>4. CASE EnqueueFull(User) \/ DequeueEmpty(User)
  <2>1. alive /\ UNCHANGED <<front, rear, data, buffers, freed, lost>> /\ pc' = pc
    BY <1>4, <1>1 DEF EnqueueFull, DequeueEmpty, Go, TypeOK
  <2>2. Holding' = Holding
    BY <2>1 DEF Holding, InRing, At_pc
  <2> QED
    BY <2>1, <2>2, SameAccounts DEF AccountInv
<1>5. CASE EnqueueAdvance(User)
  <2>1. /\ alive /\ UNCHANGED <<front, data, buffers, freed, lost>>
        /\ pc[User] = "idle" /\ pc'[User] = "malloc"
        /\ rear' = Next1(rear) /\ ~ Full
    BY <1>5, <1>1 DEF EnqueueAdvance, Go, TypeOK
  <2>2. rear' = (IF rear + 1 < N THEN rear + 1 ELSE 0) /\ rear' # front
    BY <2>1, <1>1, <1>2
  <2>3. \A i \in Slots : InRing(i)' /\ i # rear' <=> InRing(i)
    BY <2>1, <2>2, <1>1 DEF InRing, Slots
  <2>4. Holding' = Holding
    BY <2>1, <2>3 DEF Holding, At_pc
  <2> QED
    BY <2>1, <2>4, SameAccounts DEF AccountInv
<1>6. CASE EnqueueMalloc(User)
  <2>1. /\ alive /\ UNCHANGED <<front, rear, freed, lost>>
        /\ pc[User] = "malloc" /\ pc'[User] = "memcpy"
        /\ buffers' = Append(buffers, Garbage)
        /\ data' = [data EXCEPT ![rear] = Len(buffers) + 1]
    BY <1>6, <1>1 DEF EnqueueMalloc, Go, TypeOK
  <2>2. Len(buffers') = Len(buffers) + 1
    BY <2>1, <1>1 DEF TypeOK
  <2>3. InRing(rear)
    <3>1. front # rear
      BY <2>1, <1>1 DEF RingInv, At_pc, Used, Slots
    <3> QED
      BY <3>1, <1>1 DEF InRing, Slots
  <2>4. rear \notin Holding /\ Holding' = Holding \cup {rear}
    BY <2>1, <2>3, <1>1 DEF Holding, InRing, At_pc
  <2>5. data \in [Slots -> 1..Len(buffers) \cup {Garbage}]
    BY <1>1 DEF TypeOK
  <2> QED
    BY <2>1, <2>2, <2>4, <2>5, <1>1, OneMore DEF AccountInv
<1>7. CASE EnqueueCopy(User) \/ DequeueCopy(User)
  <2>1. /\ alive /\ UNCHANGED <<front, rear, data, freed, lost>>
        /\ \/ pc[User] = "memcpy" /\ pc'[User] = "idle"
           \/ pc[User] = "take" /\ pc'[User] = "free"
    BY <1>7, <1>1 DEF EnqueueCopy, DequeueCopy, Go, TypeOK
  <2>2. Len(buffers') = Len(buffers)
    <3>1. CASE EnqueueCopy(User)
      <4>1. data[rear] = Len(buffers) /\ Len(buffers) >= 1 /\ buffers' = [buffers EXCEPT ![data[rear]] = data[rear]]
        BY <3>1, <1>1 DEF EnqueueCopy, Go, RingInv, At_pc
      <4> QED
        BY <4>1, <1>1 DEF TypeOK
    <3>2. CASE DequeueCopy(User)
      BY <3>2 DEF DequeueCopy
    <3> QED
      BY <1>7, <3>1, <3>2
  <2>3. Holding' = Holding
    BY <2>1 DEF Holding, InRing, At_pc
  <2> QED
    BY <2>1, <2>2, <2>3, SameAccounts DEF AccountInv
<1>8. CASE DequeueAdvance(User)
  <2>1. /\ alive /\ UNCHANGED <<rear, data, buffers, freed, lost>>
        /\ pc[User] = "idle" /\ pc'[User] = "take"
        /\ front' = Next1(front) /\ ~ Empty
    BY <1>8, <1>1 DEF DequeueAdvance, Go, TypeOK
  <2>2. front' = (IF front + 1 < N THEN front + 1 ELSE 0) /\ front # rear
    BY <2>1, <1>1, <1>2
  <2>3. \A i \in Slots : InRing(i)' \/ i = front' <=> InRing(i)
    BY <2>1, <2>2, <1>1 DEF InRing, Slots
  <2>4. Holding' = Holding
    BY <2>1, <2>3 DEF Holding, At_pc
  <2> QED
    BY <2>1, <2>4, SameAccounts DEF AccountInv
<1>9. CASE DequeueFree(User) \/ DequeueNull(User)
  <2>1. /\ alive /\ UNCHANGED <<front, rear, data, buffers>>
        /\ pc[User] \in {"take", "free"} /\ pc'[User] = "idle"
        /\ \/ freed' = freed \cup {data[front]} /\ lost' = lost
           \/ freed' = freed /\ lost' = lost \cup {data[front]}
    BY <1>9, <1>1 DEF DequeueFree, DequeueNull, Go, TypeOK
  <2>2. front \in Holding
    BY <2>1, <1>1 DEF Holding, At_pc
  <2>3. Holding' = Holding \ {front}
    BY <2>1, <1>3 DEF Holding, InRing, At_pc
  <2> QED
    BY <2>1, <2>2, <2>3, OneLess DEF AccountInv
<1>10. CASE Clear(User)
  <2>1. /\ alive /\ UNCHANGED <<data, buffers, freed>>
        /\ pc[User] = "idle" /\ pc'[User] = "idle"
        /\ front' = 0 /\ rear' = 0 /\ lost' = lost \cup Queued
    BY <1>10, <1>1 DEF Clear, Go, TypeOK
  <2>2. \A i \in Slots : ~ InRing(i)'
    BY <2>1, <1>1 DEF InRing, Slots
  <2>3. Holding' = {}
    BY <2>1, <2>2 DEF Holding, At_pc
  <2>4. Held' = {} /\ lost' = lost \cup Held
    BY <2>1, <2>3, HeldIsQueued DEF Held, At_pc
  <2> QED
    BY <2>1, <2>3, <2>4 DEF AccountInv, Accounts
<1>11. CASE UNCHANGED vars
  <2>1. UNCHANGED <<front, rear, data, buffers, freed, lost, pc, alive>>
    BY <1>11 DEF vars
  <2>2. Holding' = Holding
    BY <2>1 DEF Holding, InRing, At_pc
  <2> QED
    BY <2>1, <2>2, SameAccounts DEF AccountInv
<1>12. ~ Destroy(User)
  BY DEF Destroy
<1> QED
  BY <1>4, <1>5, <1>6, <1>7, <1>8, <1>9, <1>10, <1>11, <1>12, StepOfUser

\* Used by one thread, queue.c forgets no buffer and frees none that is queued,
\* but for what clearing, destroying or dequeue(queue, NULL) forget.
THEOREM BuffersAccountedCorrect == Spec => []BuffersAccounted
<1>1. Init => AccountInv
  <2> SUFFICES ASSUME Init PROVE Accounts
    BY DEF AccountInv
  <2>1. \A i \in Slots : ~ InRing(i)
    BY SequeueAssumption DEF Init, InRing, Slots
  <2>2. Holding = {}
    BY <2>1, OneUser DEF Init, Holding, At_pc, Threads
  <2> QED
    BY <2>2 DEF Init, Accounts, Held
<1>2. AccountInv => BuffersAccounted
  BY HeldIsQueued DEF AccountInv, Accounts, BuffersAccounted, At_pc
<1> QED
  BY <1>1, <1>2, QueueInvInit, QueueInvNext, AccountInvNext, PTL DEF Spec

=============================================================================
