---------------------------- MODULE PlayerProofs ----------------------------
(***************************************************************************)
(* Theorems about the link, for any threads, calls, slave and bounds; and  *)
(* about the player that uses it, for every file, block size being the     *)
(* code's 512: the requests main makes are the song, and the composition   *)
(* is a link, so what is proved of SsapLink holds of it.                   *)
(***************************************************************************)
EXTENDS Player, SequenceTheorems, FiniteSetTheorems, TLAPS

-----------------------------------------------------------------------------
(* The link *)

\* The assumptions every proof below rests on.
USE SendersAssumption, RequestsAssumption, AnswersAssumption, BoundsAssumption

USE DEF sharedVars, historyVars

LEMMA NoCallType == NoCall \in Locals
  BY DEF NoCall, NewCall, Locals, Byte, SSAP_CMD_UNKOWN

LEMMA NextRetriesType ==
  ASSUME NEW r, retries \in 0..RetryLimit + 1
  PROVE  NextRetries(r) \in 0..RetryLimit + 1
  BY DEF NextRetries, GivesUp

\* Handling a response, read or timed out, keeps the types of what it changes.
LEMMA HandleResponseType ==
  ASSUME TypeOK, NEW s \in Senders, NEW r \in Response, HandleResponse(s, r)
  PROVE  /\ owner' \in Senders \cup {NoSender}
         /\ pc' \in [Senders -> {"idle", "lock", "slice", "send", "wait"}]
         /\ call' \in [Senders -> Locals]
         /\ retries' \in 0..RetryLimit + 1
         /\ connected' \in BOOLEAN
         /\ songStatus' \in Responses
         /\ confirmed' \subseteq Nat
         /\ abandoned' \subseteq Nat
<1>1. retries' \in 0..RetryLimit + 1
  BY NextRetriesType DEF HandleResponse, UpdateShared, TypeOK
<1>2. connected' \in BOOLEAN /\ songStatus' \in Responses
  BY DEF HandleResponse, UpdateShared, TypeOK, Response
<1>3. pc' \in [Senders -> {"idle", "lock", "slice", "send", "wait"}]
  BY DEF HandleResponse, TypeOK, NextPc
<1>4. /\ owner' \in Senders \cup {NoSender}
      /\ call' \in [Senders -> Locals]
  BY NoCallType DEF HandleResponse, NextOwner, TypeOK
<1>5. call[s].no \in Nat
  BY DEF TypeOK, Locals
<1>6. confirmed' \subseteq Nat /\ abandoned' \subseteq Nat
  BY <1>5 DEF HandleResponse, TypeOK
<1>7. QED
  BY <1>1, <1>2, <1>3, <1>4, <1>6

LEMMA NoResponseType == NoResponse \in Response
  BY DEF NoResponse, Response, Byte, Responses, SSAP_CMD_UNKOWN, SSAP_CMD_RESP_TIME_OUT

LEMMA TypeInit == Init => TypeOK
<1> SUFFICES ASSUME Init PROVE TypeOK
  OBVIOUS
<1>1. /\ owner \in Senders \cup {NoSender}
      /\ pc \in [Senders -> {"idle", "lock", "slice", "send", "wait"}]
      /\ call \in [Senders -> Locals]
  BY NoCallType DEF Init
<1>2. retries \in 0..RetryLimit + 1 /\ calls \in Nat /\ prepared \in Nat
  BY DEF Init
<1>3a. connected \in BOOLEAN
  BY DEF Init
<1>3b. songStatus \in Responses
  BY DEF Init, Responses, SSAP_CMD_RESP_UNKOWN
<1>4. inbox \in Seq(Frame) /\ outbox \in Seq(Response) /\ taken \in Seq(Nat)
  BY DEF Init
<1>5. confirmed \subseteq Nat /\ abandoned \subseteq Nat
  BY DEF Init
<1>6. QED
  BY <1>1, <1>2, <1>3a, <1>3b, <1>4, <1>5 DEF TypeOK

LEMMA TypeNext == TypeOK /\ [Next]_vars => TypeOK'
<1> SUFFICES ASSUME TypeOK, [Next]_vars PROVE TypeOK'
  OBVIOUS
<1>1. ASSUME NEW s \in Senders, NEW r \in Requests[s], Call(s, r)
      PROVE  TypeOK'
  <2>1. r \in Request
    OBVIOUS
  <2>2. NewCall(r) \in Locals
    BY <2>1 DEF NewCall, Locals, Request
  <2>3. QED
    BY <1>1, <2>2 DEF Call, TypeOK
<1>2. ASSUME NEW s \in Senders, Reject(s)
      PROVE  TypeOK'
  BY <1>2, NoCallType DEF Reject, TypeOK
<1>3. ASSUME NEW s \in Senders, Enter(s)
      PROVE  TypeOK'
  BY <1>3 DEF Enter, TypeOK
<1>4. ASSUME NEW s \in Senders, PrepareSlice(s)
      PROVE  TypeOK'
  <2> DEFINE c == call[s]
  <2>1. c \in Locals /\ prepared \in Nat
    BY DEF TypeOK
  <2>2. NextSlice(c) \in Locals
    <3>1. (c.loc + c.slice) % 2^16 \in Nat /\ prepared + 1 \in Nat
      BY <2>1 DEF Locals
    <3>2. CASE c.len > c.slice
      <4>1. c.len - c.slice \in Nat
        BY <2>1, <3>2 DEF Locals
      <4>2. QED
        BY <2>1, <3>1, <3>2, <4>1 DEF NextSlice, Locals
    <3>3. CASE ~ c.len > c.slice
      BY <2>1, <3>1, <3>3 DEF NextSlice, Locals
    <3>4. QED
      BY <3>2, <3>3
  <2>3. call' = [call EXCEPT ![s] = NextSlice(c)]
    BY <1>4 DEF PrepareSlice, TypeOK
  <2>4. call' \in [Senders -> Locals]
    BY <2>2, <2>3 DEF TypeOK
  <2>5. QED
    BY <1>4, <2>1, <2>4 DEF PrepareSlice, TypeOK
<1>5. ASSUME NEW s \in Senders, SendFrame(s)
      PROVE  TypeOK'
  <2> DEFINE f == [cmd |-> call[s].cmd, slice |-> call[s].no]
  <2>1. f \in Frame
    BY DEF TypeOK, Locals, Frame
  <2>2. inbox' \in Seq(Frame)
    <3>1. inbox \in Seq(Frame)
      BY DEF TypeOK
    <3>2. inbox' = Append(inbox, f) \/ inbox' = inbox
      BY <1>5 DEF SendFrame
    <3> HIDE DEF f
    <3>3. QED
      BY <2>1, <3>1, <3>2
  <2>3. QED
    BY <1>5, <2>2 DEF SendFrame, TypeOK
<1>6. ASSUME NEW s \in Senders, ReadResponse(s)
      PROVE  TypeOK'
  <2>1. Head(outbox) \in Response /\ Tail(outbox) \in Seq(Response)
    BY <1>6 DEF ReadResponse, TypeOK
  <2>2. QED
    BY <1>6, <2>1, HandleResponseType DEF ReadResponse, HandleResponse, TypeOK
<1>7. ASSUME NEW s \in Senders, PollTimeout(s)
      PROVE  TypeOK'
  BY <1>7, NoResponseType, HandleResponseType DEF PollTimeout, HandleResponse, TypeOK
<1>8. CASE Slave
  <2>1. PICK a \in Answers[Head(inbox).cmd] : SlaveAnswers(Head(inbox), a)
    BY <1>8 DEF Slave
  <2>2. /\ Head(inbox) \in Frame
        /\ Tail(inbox) \in Seq(Frame)
    BY <2>1 DEF SlaveAnswers, TypeOK
  <2>3. [command |-> Head(inbox).cmd, response |-> a] \in Response
    BY <2>1, <2>2 DEF Frame, Response
  <2>4. Head(inbox).slice \in Nat
    BY <2>2 DEF Frame
  <2>5. QED
    BY <2>1, <2>2, <2>3, <2>4 DEF SlaveAnswers, TypeOK
<1>9. CASE LoseReply
  BY <1>9 DEF LoseReply, TypeOK
<1>10. ASSUME NEW r \in Damaged, DamageReply(r)
       PROVE  TypeOK'
  <2>1. r \in Response
    OBVIOUS
  <2>2. outbox' \in Seq(Response)
    BY <1>10, <2>1 DEF DamageReply, TypeOK
  <2>3. QED
    BY <1>10, <2>2 DEF DamageReply, TypeOK
<1>11. CASE UNCHANGED vars
  BY <1>11 DEF vars, TypeOK
<1>12. QED
  BY <1>1, <1>2, <1>3, <1>4, <1>5, <1>6, <1>7, <1>8, <1>9, <1>10, <1>11
     DEF Next, SenderStep

\* The types hold in every reachable state.
THEOREM TypeCorrect == Spec => []TypeOK
<1>1. QED
  BY TypeInit, TypeNext, PTL DEF Spec

-----------------------------------------------------------------------------
(* InOrder.  It is not inductive: a slice yet to be taken may be any of the
   frames on their way, so the strengthening speaks of those as well. *)

Busy == {"slice", "send", "wait"}

\* Who is past the lock holds it.
LockHeld == \A s \in Senders : pc[s] \in Busy => owner = s

\* The slice that is sent, or sent again, is the newest.
SendsNewest ==
  \A s \in Senders : pc[s] \in {"send", "wait"} => call[s].no = prepared

\* The slices the slave took, then the frames on their way, and then the
\* slices to come, are in the order of their numbers.
NoneAhead ==
  /\ \A i \in 1..Len(taken) : taken[i] =< prepared
  /\ \A j \in 1..Len(inbox) : inbox[j].slice =< prepared

FramesInOrder ==
  \A i, j \in 1..Len(inbox) : i < j => inbox[i].slice =< inbox[j].slice

TakenBeforeFrames ==
  \A i \in 1..Len(taken) : \A j \in 1..Len(inbox) : taken[i] =< inbox[j].slice

OrderInv ==
  /\ TypeOK
  /\ LockHeld
  /\ SendsNewest
  /\ NoneAhead
  /\ FramesInOrder
  /\ TakenBeforeFrames
  /\ InOrder

LEMMA OrderInit == Init => OrderInv
  BY TypeInit DEF Init, OrderInv, LockHeld, SendsNewest, NoneAhead,
     FramesInOrder, TakenBeforeFrames, InOrder, Busy

\* The lock keeps a second thread from passing it.
LEMMA LockHeldNext == TypeOK /\ LockHeld /\ [Next]_vars => LockHeld'
<1> SUFFICES ASSUME TypeOK, LockHeld, [Next]_vars,
                    NEW t \in Senders, pc'[t] \in Busy
             PROVE  owner' = t
  BY DEF LockHeld
<1> USE DEF TypeOK, LockHeld, Busy
<1>1. ASSUME NEW s \in Senders, NEW r \in Requests[s], Call(s, r)
      PROVE  owner' = t
  BY <1>1 DEF Call
<1>2. ASSUME NEW s \in Senders, Reject(s)
      PROVE  owner' = t
  BY <1>2 DEF Reject
<1>3. ASSUME NEW s \in Senders, Enter(s)
      PROVE  owner' = t
  BY <1>3 DEF Enter
<1>4. ASSUME NEW s \in Senders, PrepareSlice(s)
      PROVE  owner' = t
  BY <1>4 DEF PrepareSlice
<1>5. ASSUME NEW s \in Senders, SendFrame(s)
      PROVE  owner' = t
  BY <1>5 DEF SendFrame
<1>6. ASSUME NEW s \in Senders, NEW r, pc[s] = "wait", HandleResponse(s, r)
      PROVE  owner' = t
  <2>1. CASE t = s
    <3>1. owner = s /\ pc'[s] = NextPc(s, r)
      BY <1>6 DEF HandleResponse
    <3>2. owner' = NextOwner(s, r)
      BY <1>6 DEF HandleResponse
    <3>3. QED
      BY <2>1, <3>1, <3>2 DEF NextOwner
  <2>2. CASE t # s
    <3>1. pc'[t] = pc[t]
      BY <1>6, <2>2 DEF HandleResponse
    <3>2. owner = t /\ owner = s
      BY <1>6, <3>1
    <3>3. QED
      BY <2>2, <3>2
  <2>3. QED
    BY <2>1, <2>2
<1>7. CASE Slave
  BY <1>7 DEF Slave, SlaveAnswers
<1>8. CASE LoseReply \/ \E r \in Damaged : DamageReply(r)
  BY <1>8 DEF LoseReply, DamageReply
<1>9. CASE UNCHANGED vars
  BY <1>9 DEF vars
<1>10. QED
  BY <1>1, <1>2, <1>3, <1>4, <1>5, <1>6, <1>7, <1>8, <1>9
     DEF Next, SenderStep, ReadResponse, PollTimeout

\* Only the thread that holds the lock prepares a slice.
LEMMA SendsNewestNext ==
  TypeOK /\ LockHeld /\ SendsNewest /\ [Next]_vars => SendsNewest'
<1> SUFFICES ASSUME TypeOK, LockHeld, SendsNewest, [Next]_vars,
                    NEW t \in Senders, pc'[t] \in {"send", "wait"}
             PROVE  call'[t].no = prepared'
  BY DEF SendsNewest
<1> USE DEF TypeOK, SendsNewest
<1>1. ASSUME NEW s \in Senders, NEW r \in Requests[s], Call(s, r)
      PROVE  call'[t].no = prepared'
  BY <1>1 DEF Call
<1>2. ASSUME NEW s \in Senders, Reject(s)
      PROVE  call'[t].no = prepared'
  BY <1>2 DEF Reject
<1>3. ASSUME NEW s \in Senders, Enter(s)
      PROVE  call'[t].no = prepared'
  BY <1>3 DEF Enter
<1>4. ASSUME NEW s \in Senders, PrepareSlice(s)
      PROVE  call'[t].no = prepared'
  <2>1. pc'[s] = "send" /\ \A u \in Senders : u # s => pc'[u] = pc[u]
    BY <1>4 DEF PrepareSlice
  <2>2. t = s
    BY <1>4, <2>1 DEF PrepareSlice, LockHeld, Busy
  <2>3. call'[s].no = prepared + 1 /\ prepared' = prepared + 1
    BY <1>4 DEF PrepareSlice, NextSlice, Locals
  <2>4. QED
    BY <2>2, <2>3
<1>5. ASSUME NEW s \in Senders, SendFrame(s)
      PROVE  call'[t].no = prepared'
  BY <1>5 DEF SendFrame
<1>6. ASSUME NEW s \in Senders, NEW r, pc[s] = "wait", HandleResponse(s, r)
      PROVE  call'[t].no = prepared'
  <2>1. pc'[t] # "idle" /\ pc'[s] = NextPc(s, r)
    BY <1>6 DEF HandleResponse
  <2>2. pc[t] \in {"send", "wait"}
    BY <1>6 DEF HandleResponse
  <2>3. call'[t] = call[t]
    BY <1>6, <2>1 DEF HandleResponse
  <2>4. QED
    BY <1>6, <2>2, <2>3 DEF HandleResponse
<1>7. CASE Slave
  BY <1>7 DEF Slave, SlaveAnswers
<1>8. CASE LoseReply \/ \E r \in Damaged : DamageReply(r)
  BY <1>8 DEF LoseReply, DamageReply
<1>9. CASE UNCHANGED vars
  BY <1>9 DEF vars
<1>10. QED
  BY <1>1, <1>2, <1>3, <1>4, <1>5, <1>6, <1>7, <1>8, <1>9
     DEF Next, SenderStep, ReadResponse, PollTimeout

\* What the order is made of: the slices taken, on their way and prepared.
Lines == NoneAhead /\ FramesInOrder /\ TakenBeforeFrames /\ InOrder

\* A frame is sent for the newest slice, so it goes behind all the others.
LEMMA SendKeepsLines ==
  ASSUME TypeOK, SendsNewest, Lines, NEW s \in Senders, SendFrame(s)
  PROVE  Lines'
<1> DEFINE f == [cmd |-> call[s].cmd, slice |-> call[s].no]
<1>1. f \in Frame /\ f.slice = prepared
  BY DEF TypeOK, Locals, Frame, SendFrame, SendsNewest
<1>2. inbox \in Seq(Frame) /\ prepared \in Nat
  BY DEF TypeOK
<1>3. inbox' = Append(inbox, f) \/ inbox' = inbox
  BY DEF SendFrame
<1>4. taken' = taken /\ prepared' = prepared
  BY DEF SendFrame
<1> HIDE DEF f
<1>5. CASE inbox' = inbox
  BY <1>4, <1>5 DEF Lines, NoneAhead, FramesInOrder, TakenBeforeFrames, InOrder
<1>6. CASE inbox' = Append(inbox, f)
  <2>1. /\ Len(inbox') = Len(inbox) + 1 /\ Len(inbox) \in Nat
        /\ \A j \in 1..Len(inbox) : inbox'[j] = inbox[j]
        /\ inbox'[Len(inbox) + 1] = f
    BY <1>1, <1>2, <1>6, AppendProperties
  <2>2. \A j \in 1..Len(inbox') :
          \/ j \in 1..Len(inbox) /\ inbox'[j].slice = inbox[j].slice
          \/ j = Len(inbox) + 1 /\ inbox'[j].slice = prepared
    BY <1>1, <2>1
  <2>3. NoneAhead'
    BY <1>2, <1>4, <2>2 DEF Lines, NoneAhead
  <2>4. FramesInOrder'
    <3> SUFFICES ASSUME NEW i \in 1..Len(inbox'), NEW j \in 1..Len(inbox'), i < j
                 PROVE  inbox'[i].slice =< inbox'[j].slice
      BY DEF FramesInOrder
    <3>1. i \in 1..Len(inbox) /\ inbox'[i].slice = inbox[i].slice
      BY <2>1, <2>2
    <3>2. QED
      BY <2>2, <3>1 DEF Lines, NoneAhead, FramesInOrder
  <2>5. TakenBeforeFrames'
    BY <1>4, <2>2 DEF Lines, NoneAhead, TakenBeforeFrames
  <2>6. QED
    BY <1>4, <2>3, <2>4, <2>5 DEF Lines, InOrder
<1>7. QED
  BY <1>3, <1>5, <1>6

\* The slave takes the oldest frame, or drops it.
LEMMA SlaveKeepsLines ==
  ASSUME TypeOK, Lines, Slave
  PROVE  Lines'
<1>1. PICK a : SlaveAnswers(Head(inbox), a)
  BY DEF Slave
<1> DEFINE n == Head(inbox).slice
<1>2. inbox \in Seq(Frame) /\ inbox # <<>> /\ taken \in Seq(Nat)
  BY <1>1 DEF TypeOK, SlaveAnswers
<1>3. /\ Len(inbox) \in Nat /\ Len(inbox') = Len(inbox) - 1
      /\ \A j \in 1..Len(inbox') : inbox'[j] = inbox[j + 1]
  BY <1>1, <1>2, HeadTailProperties DEF SlaveAnswers
<1>4. n \in Nat /\ 1 \in 1..Len(inbox) /\ n = inbox[1].slice
  <2>1. Head(inbox) \in Frame /\ Head(inbox) = inbox[1]
    BY <1>2, HeadTailProperties
  <2>2. Len(inbox) # 0
    BY <1>2, EmptySeq
  <2>3. QED
    BY <1>3, <2>1, <2>2 DEF Frame
<1>5. taken' = taken \/ taken' = Append(taken, n)
  BY <1>1 DEF SlaveAnswers
<1>6. prepared' = prepared
  BY <1>1 DEF SlaveAnswers
<1> HIDE DEF n
<1>7. \A j \in 1..Len(inbox') :
        j + 1 \in 1..Len(inbox) /\ inbox'[j].slice = inbox[j + 1].slice
  BY <1>3
<1>8. FramesInOrder'
  <2> SUFFICES ASSUME NEW i \in 1..Len(inbox'), NEW j \in 1..Len(inbox'), i < j
               PROVE  inbox'[i].slice =< inbox'[j].slice
    BY DEF FramesInOrder
  <2>1. i + 1 < j + 1
    BY <1>3
  <2>2. QED
    BY <1>7, <2>1 DEF Lines, FramesInOrder
<1>9. \A j \in 1..Len(inbox') : n =< inbox'[j].slice /\ inbox'[j].slice =< prepared
  <2> SUFFICES ASSUME NEW j \in 1..Len(inbox')
               PROVE  n =< inbox'[j].slice /\ inbox'[j].slice =< prepared
    OBVIOUS
  <2>1. 1 < j + 1
    BY <1>3
  <2>2. QED
    BY <1>4, <1>7, <2>1 DEF Lines, FramesInOrder, NoneAhead
<1>10. \A i \in 1..Len(taken) :
         /\ taken[i] =< n
         /\ taken[i] =< prepared
         /\ \A j \in 1..Len(inbox') : taken[i] =< inbox'[j].slice
  BY <1>4, <1>7 DEF Lines, TakenBeforeFrames, NoneAhead
<1>11. n =< prepared
  BY <1>4 DEF Lines, NoneAhead
<1>12. CASE taken' = taken
  BY <1>6, <1>8, <1>9, <1>10, <1>12
     DEF Lines, NoneAhead, TakenBeforeFrames, InOrder
<1>13. CASE taken' = Append(taken, n)
  <2>1. /\ Len(taken') = Len(taken) + 1 /\ Len(taken) \in Nat
        /\ \A i \in 1..Len(taken) : taken'[i] = taken[i]
        /\ taken'[Len(taken) + 1] = n
    BY <1>2, <1>4, <1>13, AppendProperties
  <2>2. \A i \in 1..Len(taken') :
          \/ i \in 1..Len(taken) /\ taken'[i] = taken[i]
          \/ i = Len(taken) + 1 /\ taken'[i] = n
    BY <2>1
  <2>3. NoneAhead' /\ TakenBeforeFrames'
    BY <1>6, <1>9, <1>10, <1>11, <2>2 DEF NoneAhead, TakenBeforeFrames
  <2>4. InOrder'
    <3> SUFFICES ASSUME NEW i \in 1..Len(taken'), NEW j \in 1..Len(taken'), i < j
                 PROVE  taken'[i] =< taken'[j]
      BY DEF InOrder
    <3>1. i \in 1..Len(taken) /\ taken'[i] = taken[i]
      BY <2>1, <2>2
    <3>2. QED
      BY <1>10, <2>2, <3>1 DEF Lines, InOrder
  <2>5. QED
    BY <1>8, <2>3, <2>4 DEF Lines
<1>14. QED
  BY <1>5, <1>12, <1>13

\* Every other step leaves the lines alone, or counts one more slice.
LEMMA LinesKept ==
  ASSUME TypeOK, Lines, UNCHANGED <<inbox, taken>>,
         prepared' = prepared \/ prepared' = prepared + 1
  PROVE  Lines'
<1>1. /\ prepared \in Nat
      /\ \A i \in 1..Len(taken) : taken[i] \in Nat
      /\ \A j \in 1..Len(inbox) : inbox[j].slice \in Nat
  <2>1. prepared \in Nat /\ taken \in Seq(Nat) /\ inbox \in Seq(Frame)
    BY DEF TypeOK
  <2>2. \A j \in 1..Len(inbox) : inbox[j] \in Frame
    BY <2>1
  <2>3. QED
    BY <2>1, <2>2 DEF Frame
<1>2. NoneAhead'
  BY <1>1 DEF Lines, NoneAhead
<1>3. QED
  BY <1>2 DEF Lines, FramesInOrder, TakenBeforeFrames, InOrder

LEMMA OrderNext == OrderInv /\ [Next]_vars => OrderInv'
<1> SUFFICES ASSUME OrderInv, [Next]_vars PROVE OrderInv'
  OBVIOUS
<1>1. TypeOK /\ LockHeld /\ SendsNewest /\ Lines
  BY DEF OrderInv, Lines
<1>2. TypeOK' /\ LockHeld' /\ SendsNewest'
  BY <1>1, TypeNext, LockHeldNext, SendsNewestNext
<1>3. Lines'
  <2>1. CASE \E s \in Senders : SendFrame(s)
    BY <1>1, <2>1, SendKeepsLines
  <2>2. CASE Slave
    BY <1>1, <2>2, SlaveKeepsLines
  <2>3. CASE \E s \in Senders : PrepareSlice(s)
    BY <1>1, <2>3, LinesKept DEF PrepareSlice
  <2>4. CASE \E s \in Senders :
               \/ \E r \in Requests[s] : Call(s, r)
               \/ Reject(s) \/ Enter(s) \/ ReadResponse(s) \/ PollTimeout(s)
    BY <1>1, <2>4, LinesKept
       DEF Call, Reject, Enter, ReadResponse, PollTimeout, HandleResponse
  <2>5. CASE LoseReply \/ \E r \in Damaged : DamageReply(r)
    BY <1>1, <2>5, LinesKept DEF LoseReply, DamageReply
  <2>6. CASE UNCHANGED vars
    BY <1>1, <2>6, LinesKept DEF vars
  <2>7. QED
    BY <2>1, <2>2, <2>3, <2>4, <2>5, <2>6 DEF Next, SenderStep
<1>4. QED
  BY <1>2, <1>3 DEF OrderInv, Lines

\* Whatever the slave answers and whatever the link loses, delays or damages,
\* the slave never takes a slice after a later one.
THEOREM OrderCorrect == Spec => []InOrder
<1>1. OrderInv => InOrder
  BY DEF OrderInv
<1>2. QED
  BY <1>1, OrderInit, OrderNext, PTL DEF Spec

-----------------------------------------------------------------------------
(* What the retries achieve on a link whose responses are not late and not
   damaged: the master never holds a slice for delivered that the slave has
   not taken, and, when responses are not lost either, SsapLink implements
   SliceDelivery. *)

\* Responses may be lost, but the one that is read answers the frame before it.
TimelyReplies == Faults \subseteq {"lostFrame", "lostReply"}

\* Every frame the slave handles is answered, and the answer is read.
ReliableReplies == Faults \subseteq {"lostFrame"}

Quiet == inbox = <<>> /\ outbox = <<>>

\* One frame at a time, or one response, is on its way, and only to or from
\* a thread that waits.
Asked(s) == inbox = <<[cmd |-> call[s].cmd, slice |-> prepared]>> /\ outbox = <<>>

Answered(s) ==
  /\ inbox = <<>>
  /\ \E a \in Responses :
       /\ outbox = <<[command |-> call[s].cmd, response |-> a]>>
       /\ Takes(call[s].cmd, a) => IsTaken(prepared)

OneAtATime ==
  /\ \A s \in Senders : pc[s] = "wait" => Quiet \/ Asked(s) \/ Answered(s)
  /\ (\A s \in Senders : pc[s] # "wait") => Quiet

TimelyInv ==
  /\ OrderInv
  /\ OneAtATime
  /\ ConfirmedIsTaken

\* The master's test of a response is the slave's meaning of it.
LEMMA DeliversIsTakes ==
  ASSUME NEW c, NEW a
  PROVE  Delivers([command |-> c, response |-> a]) <=> Takes(c, a)
  BY DEF Delivers, Takes, SliceTaken, ControlTaken, TokenTaken

LEMMA NoResponseDeliversNothing == ~ Delivers(NoResponse)
  BY DEF Delivers, NoResponse, SliceTaken, ControlTaken, TokenTaken,
     StreamCommands, ControlCommands, SSAP_CMD_UNKOWN, SSAP_CMD_START,
     SSAP_CMD_DATA, SSAP_CMD_STOP, SSAP_CMD_TOKEN, SSPP_CMD_SOFA_COMMAND,
     SSPP_CMD_SONG_PATH_MODE

\* A slice once taken stays taken.
LEMMA TakenStays ==
  ASSUME TypeOK, NEW n, IsTaken(n), NEW m \in Nat,
         taken' = taken \/ taken' = Append(taken, m)
  PROVE  IsTaken(n)'
<1>1. taken \in Seq(Nat)
  BY DEF TypeOK
<1>2. CASE taken' = taken
  BY <1>2 DEF IsTaken
<1>3. CASE taken' = Append(taken, m)
  <2>1. /\ Len(taken') = Len(taken) + 1 /\ Len(taken) \in Nat
        /\ \A i \in 1..Len(taken) : taken'[i] = taken[i]
    BY <1>1, <1>3, AppendProperties
  <2>2. QED
    BY <2>1 DEF IsTaken
<1>4. QED
  BY <1>2, <1>3

LEMMA AppendedIsTaken ==
  ASSUME TypeOK, NEW n \in Nat, taken' = Append(taken, n)
  PROVE  \E i \in 1..Len(taken') : taken'[i] = n
<1>1. taken \in Seq(Nat)
  BY DEF TypeOK
<1>2. taken'[Len(taken) + 1] = n /\ Len(taken') = Len(taken) + 1 /\ Len(taken) \in Nat
  BY <1>1, AppendProperties
<1>3. QED
  BY <1>2

\* What the slave does to the slices taken.
LEMMA SlaveTakes ==
  ASSUME TypeOK, Slave
  PROVE  \E m \in Nat : taken' = taken \/ taken' = Append(taken, m)
<1>1. inbox \in Seq(Frame) /\ inbox # <<>>
  BY DEF TypeOK, Slave
<1>2. Head(inbox).slice \in Nat
  <2>1. Head(inbox) \in Frame
    BY <1>1, HeadTailProperties
  <2>2. QED
    BY <2>1 DEF Frame
<1>3. QED
  BY <1>2 DEF Slave, SlaveAnswers

\* At most one thread waits.
LEMMA OneWaits ==
  ASSUME LockHeld, NEW s \in Senders, NEW t \in Senders,
         pc[s] \in Busy, pc[t] \in Busy
  PROVE  s = t
  BY DEF LockHeld

LEMMA TimelyInit == Init => TimelyInv
  BY OrderInit DEF Init, TimelyInv, OneAtATime, Quiet, ConfirmedIsTaken

\* A thread that sends finds the link quiet.
LEMMA QuietBeforeSend ==
  ASSUME TimelyInv, NEW s \in Senders, pc[s] \in {"slice", "send"}
  PROVE  Quiet
<1>1. \A t \in Senders : pc[t] # "wait"
  BY OneWaits DEF TimelyInv, OrderInv, Busy
<1>2. QED
  BY <1>1 DEF TimelyInv, OneAtATime

\* What HandleResponse leaves of the link: nobody waits.
LEMMA NobodyWaits ==
  ASSUME TimelyInv, NEW s \in Senders, pc[s] = "wait",
         NEW r, HandleResponse(s, r)
  PROVE  \A t \in Senders : pc'[t] # "wait"
<1> SUFFICES ASSUME NEW t \in Senders PROVE pc'[t] # "wait"
  OBVIOUS
<1>1. pc \in [Senders -> {"idle", "lock", "slice", "send", "wait"}]
  BY DEF TimelyInv, OrderInv, TypeOK
<1>2. pc' = [pc EXCEPT ![s] = NextPc(s, r)]
  BY DEF HandleResponse
<1>3. NextPc(s, r) # "wait"
  BY DEF NextPc
<1>4. CASE t = s
  BY <1>1, <1>2, <1>3, <1>4
<1>5. CASE t # s
  <2>1. pc'[t] = pc[t]
    BY <1>1, <1>2, <1>5
  <2>2. QED
    BY <1>5, <2>1, OneWaits DEF TimelyInv, OrderInv, Busy
<1>6. QED
  BY <1>4, <1>5

\* The response read is the slave's to the slice on offer.
LEMMA AnswerRead ==
  ASSUME TimelyInv, NEW s \in Senders, pc[s] = "wait", outbox # <<>>
  PROVE  /\ inbox = <<>> /\ Tail(outbox) = <<>>
         /\ Head(outbox).command = call[s].cmd
         /\ Delivers(Head(outbox)) => IsTaken(call[s].no)
<1>1. Answered(s)
  BY DEF TimelyInv, OneAtATime, Quiet, Asked
<1>2. PICK a \in Responses :
        /\ outbox = <<[command |-> call[s].cmd, response |-> a]>>
        /\ Takes(call[s].cmd, a) => IsTaken(prepared)
  BY <1>1 DEF Answered
<1>3. Head(outbox) = [command |-> call[s].cmd, response |-> a] /\ Tail(outbox) = <<>>
  BY <1>2
<1>4. call[s].no = prepared
  BY DEF TimelyInv, OrderInv, SendsNewest
<1>5. QED
  BY <1>1, <1>2, <1>3, <1>4, DeliversIsTakes DEF Answered

\* Steps that touch neither the link nor a thread that waits.
LEMMA TrafficKept ==
  ASSUME TimelyInv, OrderInv',
         UNCHANGED <<inbox, outbox, taken, prepared, confirmed>>,
         \A t \in Senders : pc'[t] = "wait" <=> pc[t] = "wait",
         \A t \in Senders : pc[t] = "wait" => call'[t] = call[t]
  PROVE  TimelyInv'
<1>1. \A n : IsTaken(n)' <=> IsTaken(n)
  BY DEF IsTaken
<1>2. \A t \in Senders : pc[t] = "wait" => (Asked(t)' <=> Asked(t))
  BY DEF Asked
<1>3. \A t \in Senders : pc[t] = "wait" => (Answered(t)' <=> Answered(t))
  BY <1>1 DEF Answered
<1>4. Quiet' <=> Quiet
  BY DEF Quiet
<1>5. OneAtATime'
  BY <1>2, <1>3, <1>4 DEF TimelyInv, OneAtATime
<1>6. ConfirmedIsTaken'
  BY <1>1 DEF TimelyInv, ConfirmedIsTaken
<1>7. QED
  BY <1>5, <1>6 DEF TimelyInv

LEMMA TimelyNext ==
  ASSUME TimelyReplies, TimelyInv, [Next]_vars
  PROVE  TimelyInv'
<1>1. OrderInv'
  BY OrderNext DEF TimelyInv
<1>2. TypeOK /\ TypeOK' /\ LockHeld /\ LockHeld' /\ SendsNewest /\ SendsNewest'
  BY <1>1 DEF TimelyInv, OrderInv
<1>3. OneAtATime /\ ConfirmedIsTaken
  BY DEF TimelyInv
<1>4. ASSUME NEW s \in Senders, NEW r \in Requests[s], Call(s, r)
      PROVE  TimelyInv'
  <2>1. \A t \in Senders : pc'[t] = "wait" => pc[t] = "wait" /\ call'[t] = call[t]
    BY <1>2, <1>4 DEF Call, TypeOK
  <2>2. \A t \in Senders : pc[t] = "wait" => pc'[t] = "wait"
    BY <1>2, <1>4 DEF Call, TypeOK
  <2>3. UNCHANGED <<inbox, outbox, taken, prepared, confirmed>>
    BY <1>4 DEF Call
  <2>4. QED
    BY <1>1, <2>1, <2>2, <2>3, TrafficKept
<1>5. ASSUME NEW s \in Senders, Reject(s) \/ Enter(s)
      PROVE  TimelyInv'
  <2>1. \A t \in Senders : pc'[t] = "wait" => pc[t] = "wait" /\ call'[t] = call[t]
    BY <1>2, <1>5 DEF Reject, Enter, TypeOK
  <2>2. \A t \in Senders : pc[t] = "wait" => pc'[t] = "wait"
    BY <1>2, <1>5 DEF Reject, Enter, TypeOK
  <2>3. UNCHANGED <<inbox, outbox, taken, prepared, confirmed>>
    BY <1>5 DEF Reject, Enter
  <2>4. QED
    BY <1>1, <2>1, <2>2, <2>3, TrafficKept
<1>6. ASSUME NEW s \in Senders, PrepareSlice(s)
      PROVE  TimelyInv'
  <2>1. Quiet
    BY <1>6, QuietBeforeSend DEF PrepareSlice
  <2>2. \A t \in Senders : pc[t] # "wait"
    BY <1>2, <1>6, OneWaits DEF PrepareSlice, Busy
  <2>3. \A t \in Senders : pc'[t] # "wait"
    BY <1>2, <1>6, <2>2 DEF PrepareSlice, TypeOK
  <2>4. QED
    BY <1>1, <1>3, <1>6, <2>1, <2>3
       DEF TimelyInv, OneAtATime, Quiet, PrepareSlice, IsTaken, ConfirmedIsTaken
<1>7. ASSUME NEW s \in Senders, SendFrame(s)
      PROVE  TimelyInv'
  <2>1. Quiet
    BY <1>7, QuietBeforeSend DEF SendFrame
  <2>2. pc'[s] = "wait" /\ call[s].no = prepared
    BY <1>2, <1>7 DEF SendFrame, SendsNewest, TypeOK
  <2>3. \A t \in Senders : pc'[t] = "wait" => t = s
    BY <1>2, <2>2 DEF LockHeld, Busy
  <2>4. Quiet' \/ Asked(s)'
    BY <1>7, <2>1, <2>2 DEF SendFrame, Quiet, Asked
  <2>5. OneAtATime'
    BY <2>2, <2>3, <2>4 DEF OneAtATime
  <2>6. QED
    BY <1>1, <1>3, <1>7, <2>5 DEF TimelyInv, SendFrame, IsTaken, ConfirmedIsTaken
<1>8. ASSUME NEW s \in Senders, ReadResponse(s)
      PROVE  TimelyInv'
  <2>1. /\ inbox' = <<>> /\ outbox' = <<>>
        /\ Delivers(Head(outbox)) => IsTaken(call[s].no)
    BY <1>8, AnswerRead DEF ReadResponse, HandleResponse
  <2>2. \A t \in Senders : pc'[t] # "wait"
    BY <1>8, NobodyWaits DEF ReadResponse
  <2>3. ConfirmedIsTaken'
    BY <1>3, <1>8, <2>1
       DEF ReadResponse, HandleResponse, ConfirmedIsTaken, IsTaken
  <2>4. QED
    BY <1>1, <2>1, <2>2, <2>3 DEF TimelyInv, OneAtATime, Quiet
<1>9. ASSUME NEW s \in Senders, PollTimeout(s)
      PROVE  TimelyInv'
  <2>1. inbox' = <<>> /\ outbox' = <<>>
    BY <1>9 DEF PollTimeout, HandleResponse, TimelyReplies
  <2>2. \A t \in Senders : pc'[t] # "wait"
    BY <1>9, NobodyWaits DEF PollTimeout
  <2>3. ConfirmedIsTaken'
    BY <1>3, <1>9, NoResponseDeliversNothing
       DEF PollTimeout, HandleResponse, ConfirmedIsTaken, IsTaken
  <2>4. QED
    BY <1>1, <2>1, <2>2, <2>3 DEF TimelyInv, OneAtATime, Quiet
<1>10. CASE Slave
  <2>1. PICK a \in Answers[Head(inbox).cmd] : SlaveAnswers(Head(inbox), a)
    BY <1>10 DEF Slave
  <2>2. PICK s \in Senders : pc[s] = "wait"
    BY <1>3, <2>1 DEF SlaveAnswers, OneAtATime, Quiet
  <2>3. Asked(s)
    BY <1>3, <2>1, <2>2 DEF SlaveAnswers, OneAtATime, Quiet, Answered
  <2>4. /\ Head(inbox) = [cmd |-> call[s].cmd, slice |-> prepared]
        /\ Tail(inbox) = <<>> /\ outbox = <<>>
    BY <2>3 DEF Asked
  <2>5. Head(inbox).cmd = call[s].cmd /\ Head(inbox).slice = prepared
    BY <2>4
  <2>6. a \in Responses /\ prepared \in Nat
    <3>1. call[s].cmd \in Byte /\ prepared \in Nat
      BY <1>2 DEF TypeOK, Locals
    <3>2. QED
      BY <2>1, <2>5, <3>1
  <2>7. /\ inbox' = <<>>
        /\ outbox' = <<[command |-> call[s].cmd, response |-> a]>>
        /\ Takes(call[s].cmd, a) => taken' = Append(taken, prepared)
    <3>1. inbox' = <<>>
      BY <2>1, <2>4 DEF SlaveAnswers
    <3>2. outbox' = Append(outbox, [command |-> call[s].cmd, response |-> a])
      BY <2>1, <2>5 DEF SlaveAnswers
    <3>3. Append(<<>>, [command |-> call[s].cmd, response |-> a])
             = <<[command |-> call[s].cmd, response |-> a]>>
      OBVIOUS
    <3>4. Takes(call[s].cmd, a) => taken' = Append(taken, prepared)
      BY <2>1, <2>5 DEF SlaveAnswers
    <3>5. QED
      BY <2>4, <3>1, <3>2, <3>3, <3>4
  <2>8. UNCHANGED <<pc, call, prepared, confirmed>>
    BY <2>1 DEF SlaveAnswers
  <2>9. Answered(s)'
    <3>1. Takes(call[s].cmd, a) => \E i \in 1..Len(taken') : taken'[i] = prepared
      BY <1>2, <2>6, <2>7, AppendedIsTaken
    <3>2. (Takes(call[s].cmd, a) => IsTaken(prepared))'
      BY <2>8, <3>1 DEF IsTaken, Takes
    <3>3. QED
      BY <2>6, <2>7, <2>8, <3>2 DEF Answered
  <2>10. OneAtATime'
    <3>1. \A t \in Senders : pc'[t] = "wait" => t = s
      BY <1>2, <2>2, <2>8, OneWaits DEF Busy
    <3>2. QED
      BY <2>2, <2>8, <2>9, <3>1 DEF OneAtATime
  <2>11. ConfirmedIsTaken'
    BY <1>2, <1>3, <1>10, <2>8, SlaveTakes, TakenStays DEF ConfirmedIsTaken
  <2>12. QED
    BY <1>1, <2>10, <2>11 DEF TimelyInv
<1>11. CASE LoseReply
  <2>1. outbox # <<>> /\ outbox' = Tail(outbox)
    BY <1>11 DEF LoseReply
  <2>2. UNCHANGED <<pc, call, inbox, taken, prepared, confirmed>>
    BY <1>11 DEF LoseReply
  <2>3. PICK s \in Senders : pc[s] = "wait"
    BY <1>3, <2>1 DEF OneAtATime, Quiet
  <2>4. inbox = <<>> /\ Tail(outbox) = <<>>
    BY <2>1, <2>3, AnswerRead
  <2>5. QED
    BY <1>1, <1>3, <2>1, <2>2, <2>4
       DEF TimelyInv, OneAtATime, Quiet, IsTaken, ConfirmedIsTaken
<1>12. CASE \E r \in Damaged : DamageReply(r)
  BY <1>12 DEF DamageReply, TimelyReplies
<1>13. CASE UNCHANGED vars
  BY <1>1, <1>13, TrafficKept DEF vars
<1>14. QED
  BY <1>4, <1>5, <1>6, <1>7, <1>8, <1>9, <1>10, <1>11, <1>12, <1>13
     DEF Next, SenderStep

\* When responses are neither late nor damaged, the master holds no slice for
\* delivered that the slave has not taken, however many frames and responses
\* are lost.
THEOREM ConfirmedCorrect ==
  ASSUME TimelyReplies
  PROVE  Spec => []ConfirmedIsTaken
<1>1. TimelyInv /\ [Next]_vars => TimelyInv'
  BY TimelyNext
<1>2. TimelyInv => ConfirmedIsTaken
  BY DEF TimelyInv
<1>3. QED
  BY <1>1, <1>2, TimelyInit, PTL DEF Spec

-----------------------------------------------------------------------------
(* SsapLink implements SliceDelivery.  The mapping is the identity; the
   strengthening says which slice is on offer, and that the slave's answer to
   it, if there is one, tells whether the slave took it. *)

OnOffer == \E s \in Senders : pc[s] \in {"send", "wait"}

OfferedOrSettled ==
  /\ \A n \in confirmed \cup abandoned : n =< prepared
  /\ OnOffer => prepared # 0 /\ prepared \notin confirmed \cup abandoned
  /\ ~ OnOffer => prepared = 0 \/ prepared \in confirmed \cup abandoned

TakenIsAnswered ==
  /\ \A s \in Senders : pc[s] = "send" => ~ IsTaken(prepared)
  /\ \A s \in Senders :
       pc[s] = "wait" /\ IsTaken(prepared)
         => outbox # <<>> /\ Delivers(Head(outbox))

ReliableInv ==
  /\ TimelyInv
  /\ OfferedOrSettled
  /\ TakenIsAnswered

LEMMA ReliableInit == Init => ReliableInv
  BY TimelyInit DEF Init, ReliableInv, OfferedOrSettled, OnOffer, TakenIsAnswered

\* Steps that neither prepare nor settle nor take a slice.
LEMMA OfferKept ==
  ASSUME ReliableInv, TimelyInv', UNCHANGED <<outbox, prepared, taken, confirmed, abandoned>>,
         \A t \in Senders : pc'[t] \in {"send", "wait"} <=> pc[t] \in {"send", "wait"},
         \A t \in Senders : pc'[t] = "wait" => pc[t] \in {"send", "wait"},
         \A t \in Senders : pc'[t] = "send" => pc[t] = "send"
  PROVE  ReliableInv'
<1>1. IsTaken(prepared)' <=> IsTaken(prepared)
  BY DEF IsTaken
<1>2. OnOffer' <=> OnOffer
  BY DEF OnOffer
<1>3. OfferedOrSettled'
  BY <1>2 DEF ReliableInv, OfferedOrSettled
<1>4. TakenIsAnswered'
  BY <1>1 DEF ReliableInv, TakenIsAnswered
<1>5. QED
  BY <1>3, <1>4 DEF ReliableInv

\* No slice is taken before it is prepared.
LEMMA NextIsUntaken ==
  ASSUME OrderInv
  PROVE  ~ IsTaken(prepared + 1)
<1>1. prepared \in Nat /\ taken \in Seq(Nat)
  BY DEF OrderInv, TypeOK
<1>2. \A i \in 1..Len(taken) : taken[i] \in Nat /\ taken[i] =< prepared
  BY <1>1 DEF OrderInv, NoneAhead
<1>3. QED
  BY <1>1, <1>2 DEF IsTaken

\* HandleResponse settles the slice on offer if and only if it ends it.
LEMMA Settles ==
  ASSUME ReliableInv, NEW s \in Senders, pc[s] = "wait", NEW r, HandleResponse(s, r)
  PROVE  /\ ~ OnOffer' <=> EndsSlice(r)
         /\ confirmed' = confirmed \cup (IF Delivers(r) THEN {prepared} ELSE {})
         /\ abandoned' = abandoned \cup (IF GivesUp(r) THEN {prepared} ELSE {})
         /\ prepared' = prepared /\ taken' = taken
         /\ \A t \in Senders : pc'[t] # "wait"
<1>1. pc \in [Senders -> {"idle", "lock", "slice", "send", "wait"}]
  BY DEF ReliableInv, TimelyInv, OrderInv, TypeOK
<1>2. call[s].no = prepared
  BY DEF ReliableInv, TimelyInv, OrderInv, SendsNewest
<1>3. \A t \in Senders : pc'[t] # "wait"
  BY NobodyWaits DEF ReliableInv
<1>4. pc'[s] = NextPc(s, r) /\ \A t \in Senders : t # s => pc'[t] = pc[t]
  BY <1>1 DEF HandleResponse
<1>5. \A t \in Senders : t # s => pc'[t] \notin {"send", "wait"}
  BY <1>4, OneWaits DEF ReliableInv, TimelyInv, OrderInv, Busy
<1>6. OnOffer' <=> NextPc(s, r) = "send"
  BY <1>3, <1>4, <1>5 DEF OnOffer
<1>7. NextPc(s, r) = "send" <=> ~ EndsSlice(r)
  BY DEF NextPc
<1>8. QED
  BY <1>2, <1>3, <1>6, <1>7 DEF HandleResponse

\* A response that gives up does not deliver.
LEMMA GivesUpOrDelivers == \A r : ~ (GivesUp(r) /\ Delivers(r))
  BY DEF GivesUp, Delivers, RetryCounted, SliceTaken, ControlTaken, TokenTaken,
     StreamCommands, ControlCommands, SSAP_CMD_START, SSAP_CMD_DATA, SSAP_CMD_STOP,
     SSAP_CMD_TOKEN, SSPP_CMD_SOFA_COMMAND, SSPP_CMD_SONG_PATH_MODE,
     SSAP_CMD_RESP_OKSEND, SSAP_CMD_RESP_RESEND

\* The response, read or timed out, settles the slice as it was taken.
LEMMA HandledAsTaken ==
  ASSUME ReliableInv, TimelyInv', NEW s \in Senders, pc[s] = "wait",
         NEW r, HandleResponse(s, r), Delivers(r) <=> IsTaken(prepared)
  PROVE  ReliableInv' /\ [Delivery!Next]_(Delivery!vars)
<1>1. /\ ~ OnOffer' <=> EndsSlice(r)
      /\ confirmed' = confirmed \cup (IF Delivers(r) THEN {prepared} ELSE {})
      /\ abandoned' = abandoned \cup (IF GivesUp(r) THEN {prepared} ELSE {})
      /\ prepared' = prepared /\ taken' = taken
      /\ \A t \in Senders : pc'[t] # "wait"
  BY Settles
<1>2. prepared # 0 /\ prepared \notin confirmed \cup abandoned
  BY DEF ReliableInv, OfferedOrSettled, OnOffer
<1>3. prepared \in Nat
  BY DEF ReliableInv, TimelyInv, OrderInv, TypeOK
<1>4. EndsSlice(r) <=> Delivers(r) \/ GivesUp(r)
  BY DEF EndsSlice
<1>5. IsTaken(prepared)' <=> IsTaken(prepared)
  BY <1>1 DEF IsTaken
<1>6. OfferedOrSettled'
  BY <1>1, <1>2, <1>3, <1>4 DEF ReliableInv, OfferedOrSettled
<1>7. TakenIsAnswered'
  <2>1. ASSUME NEW t \in Senders, pc'[t] = "send"
        PROVE  ~ IsTaken(prepared)'
    BY <1>1, <1>4, <1>5, <2>1 DEF OnOffer
  <2>2. QED
    BY <1>1, <2>1 DEF TakenIsAnswered
<1>8. Delivery!IsTaken <=> IsTaken(prepared)
  BY DEF Delivery!IsTaken, IsTaken
<1>9. ~ Delivery!Settled
  BY <1>2 DEF Delivery!Settled
<1>10. CASE Delivers(r)
  <2>1. Delivery!Confirm
    BY <1>1, <1>8, <1>9, <1>10, GivesUpOrDelivers DEF Delivery!Confirm
  <2>2. QED
    BY <1>6, <1>7, <2>1 DEF ReliableInv, Delivery!Next
<1>11. CASE GivesUp(r)
  <2>1. Delivery!Abandon
    BY <1>1, <1>8, <1>9, <1>11, GivesUpOrDelivers DEF Delivery!Abandon
  <2>2. QED
    BY <1>6, <1>7, <2>1 DEF ReliableInv, Delivery!Next
<1>12. CASE ~ Delivers(r) /\ ~ GivesUp(r)
  <2>1. UNCHANGED Delivery!vars
    BY <1>1, <1>12 DEF Delivery!vars
  <2>2. QED
    BY <1>6, <1>7, <2>1 DEF ReliableInv
<1>13. QED
  BY <1>10, <1>11, <1>12

\* Every step keeps the invariant, and is a step of SliceDelivery or none.
LEMMA ReliableNext ==
  ASSUME ReliableReplies, ReliableInv, [Next]_vars
  PROVE  ReliableInv' /\ [Delivery!Next]_(Delivery!vars)
<1>1. TimelyInv /\ TimelyInv'
  BY TimelyNext DEF ReliableReplies, TimelyReplies, ReliableInv
<1>2. TypeOK /\ LockHeld /\ OneAtATime /\ OrderInv
  BY <1>1 DEF TimelyInv, OrderInv
<1>3. pc \in [Senders -> {"idle", "lock", "slice", "send", "wait"}]
  BY <1>2 DEF TypeOK
<1>4. ASSUME NEW s \in Senders,
             (\E r \in Requests[s] : Call(s, r)) \/ Reject(s) \/ Enter(s)
      PROVE  ReliableInv' /\ [Delivery!Next]_(Delivery!vars)
  <2>1. /\ UNCHANGED <<outbox, prepared, taken, confirmed, abandoned>>
        /\ pc[s] \in {"idle", "lock"} /\ pc'[s] \in {"idle", "lock", "slice"}
        /\ \A t \in Senders : t # s => pc'[t] = pc[t]
    BY <1>3, <1>4 DEF Call, Reject, Enter
  <2>2. /\ \A t \in Senders : pc'[t] \in {"send", "wait"} <=> pc[t] \in {"send", "wait"}
        /\ \A t \in Senders : pc'[t] = "wait" => pc[t] \in {"send", "wait"}
        /\ \A t \in Senders : pc'[t] = "send" => pc[t] = "send"
    BY <2>1
  <2>3. QED
    BY <1>1, <2>1, <2>2, OfferKept DEF Delivery!vars
<1>5. ASSUME NEW s \in Senders, PrepareSlice(s)
      PROVE  ReliableInv' /\ [Delivery!Next]_(Delivery!vars)
  <2>1. ~ OnOffer
    BY <1>2, <1>5, OneWaits DEF PrepareSlice, OnOffer, Busy
  <2>2. /\ prepared' = prepared + 1 /\ prepared \in Nat
        /\ UNCHANGED <<taken, confirmed, abandoned>>
        /\ pc'[s] = "send" /\ \A t \in Senders : t # s => pc'[t] = pc[t]
    BY <1>2, <1>3, <1>5 DEF PrepareSlice, TypeOK
  <2>3. OnOffer' /\ \A t \in Senders : pc'[t] # "wait"
    BY <2>1, <2>2 DEF OnOffer
  <2>4. \A n \in confirmed \cup abandoned : n \in Nat /\ n =< prepared
    BY <1>2 DEF ReliableInv, OfferedOrSettled, TypeOK
  <2>5. OfferedOrSettled'
    BY <2>2, <2>3, <2>4 DEF OfferedOrSettled
  <2>6. TakenIsAnswered'
    BY <1>2, <2>2, <2>3, NextIsUntaken DEF TakenIsAnswered, IsTaken
  <2>7. Delivery!Offer
    BY <2>1, <2>2 DEF ReliableInv, OfferedOrSettled, Delivery!Offer, Delivery!Settled
  <2>8. QED
    BY <1>1, <2>5, <2>6, <2>7 DEF ReliableInv, Delivery!Next
<1>6. ASSUME NEW s \in Senders, SendFrame(s)
      PROVE  ReliableInv' /\ [Delivery!Next]_(Delivery!vars)
  <2>1. /\ UNCHANGED <<outbox, prepared, taken, confirmed, abandoned>>
        /\ pc[s] = "send" /\ pc'[s] = "wait"
        /\ \A t \in Senders : t # s => pc'[t] = pc[t]
    BY <1>3, <1>6 DEF SendFrame
  <2>2. /\ \A t \in Senders : pc'[t] \in {"send", "wait"} <=> pc[t] \in {"send", "wait"}
        /\ \A t \in Senders : pc'[t] = "send" => pc[t] = "send"
        /\ \A t \in Senders : pc'[t] = "wait" => pc[t] \in {"send", "wait"}
    BY <2>1
  <2>3. \A t \in Senders : pc'[t] = "wait" => t = s
    BY <1>2, <2>1, <2>2, OneWaits DEF Busy
  <2>4. ~ IsTaken(prepared)
    BY <2>1 DEF ReliableInv, TakenIsAnswered
  <2>5. TakenIsAnswered'
    BY <2>1, <2>2, <2>4 DEF ReliableInv, TakenIsAnswered, IsTaken
  <2>6. OfferedOrSettled'
    BY <2>1, <2>2 DEF ReliableInv, OfferedOrSettled, OnOffer
  <2>7. QED
    BY <1>1, <2>1, <2>5, <2>6 DEF ReliableInv, Delivery!vars
<1>7. ASSUME NEW s \in Senders, ReadResponse(s)
      PROVE  ReliableInv' /\ [Delivery!Next]_(Delivery!vars)
  <2>1. pc[s] = "wait" /\ outbox # <<>> /\ HandleResponse(s, Head(outbox))
    BY <1>7 DEF ReadResponse
  <2>2. Delivers(Head(outbox)) => IsTaken(prepared)
    BY <1>1, <2>1, AnswerRead DEF TimelyInv, OrderInv, SendsNewest
  <2>3. IsTaken(prepared) => Delivers(Head(outbox))
    BY <2>1 DEF ReliableInv, TakenIsAnswered
  <2>4. QED
    BY <1>1, <2>1, <2>2, <2>3, HandledAsTaken DEF Delivers, IsTaken
<1>8. ASSUME NEW s \in Senders, PollTimeout(s)
      PROVE  ReliableInv' /\ [Delivery!Next]_(Delivery!vars)
  <2>1. pc[s] = "wait" /\ outbox = <<>> /\ HandleResponse(s, NoResponse)
    BY <1>8 DEF PollTimeout
  <2>2. ~ IsTaken(prepared)
    BY <2>1 DEF ReliableInv, TakenIsAnswered
  <2>3. QED
    BY <1>1, <2>1, <2>2, NoResponseDeliversNothing, HandledAsTaken
<1>9. CASE Slave
  <2>1. PICK a \in Answers[Head(inbox).cmd] : SlaveAnswers(Head(inbox), a)
    BY <1>9 DEF Slave
  <2>2. PICK s \in Senders : pc[s] = "wait"
    BY <1>2, <2>1 DEF SlaveAnswers, OneAtATime, Quiet
  <2>3. Asked(s)
    BY <1>2, <2>1, <2>2 DEF SlaveAnswers, OneAtATime, Quiet, Answered
  <2>4. Head(inbox) = [cmd |-> call[s].cmd, slice |-> prepared] /\ outbox = <<>>
    BY <2>3 DEF Asked
  <2>5. /\ UNCHANGED <<pc, prepared, confirmed, abandoned>>
        /\ outbox' = Append(outbox, [command |-> Head(inbox).cmd, response |-> a])
        /\ taken' = IF Takes(Head(inbox).cmd, a)
                     THEN Append(taken, Head(inbox).slice) ELSE taken
    BY <2>1 DEF SlaveAnswers
  <2>6. Head(inbox).cmd = call[s].cmd /\ Head(inbox).slice = prepared
    BY <2>4
  <2>7. /\ UNCHANGED <<pc, prepared, confirmed, abandoned>>
        /\ outbox' # <<>> /\ Head(outbox') = [command |-> call[s].cmd, response |-> a]
        /\ taken' = IF Takes(call[s].cmd, a) THEN Append(taken, prepared) ELSE taken
    <3> DEFINE r == [command |-> call[s].cmd, response |-> a]
    <3>1. outbox' = Append(<<>>, r)
      BY <2>4, <2>5, <2>6
    <3> HIDE DEF r
    <3>2. outbox' # <<>> /\ Head(outbox') = r
      BY <3>1
    <3>3. QED
      BY <2>5, <2>6, <3>2 DEF r
  <2>8. ~ IsTaken(prepared)
    BY <2>2, <2>4 DEF ReliableInv, TakenIsAnswered
  <2>9. OfferedOrSettled'
    BY <2>7 DEF ReliableInv, OfferedOrSettled, OnOffer
  <2>10. TakenIsAnswered'
    <3>1. \A t \in Senders : pc'[t] # "send"
      BY <1>2, <2>2, <2>7, OneWaits DEF Busy
    <3>2. CASE Takes(call[s].cmd, a)
      <4>1. (outbox # <<>> /\ Delivers(Head(outbox)))'
        BY <2>7, <3>2, DeliversIsTakes DEF Delivers, SliceTaken, ControlTaken, TokenTaken
      <4>2. QED
        BY <3>1, <4>1 DEF TakenIsAnswered
    <3>3. CASE ~ Takes(call[s].cmd, a)
      BY <2>7, <2>8, <3>1, <3>3 DEF TakenIsAnswered, IsTaken
    <3>4. QED
      BY <3>2, <3>3
  <2>11. [Delivery!Next]_(Delivery!vars)
    <3>1. ~ Delivery!Settled /\ ~ Delivery!IsTaken
      BY <2>2, <2>8
         DEF ReliableInv, OfferedOrSettled, OnOffer, Delivery!Settled, Delivery!IsTaken, IsTaken
    <3>2. CASE Takes(call[s].cmd, a)
      BY <2>7, <3>1, <3>2 DEF Delivery!Take, Delivery!Next
    <3>3. CASE ~ Takes(call[s].cmd, a)
      BY <2>7, <3>3 DEF Delivery!vars
    <3>4. QED
      BY <3>2, <3>3
  <2>12. QED
    BY <1>1, <2>9, <2>10, <2>11 DEF ReliableInv
<1>10. CASE LoseReply \/ \E r \in Damaged : DamageReply(r)
  BY <1>10 DEF LoseReply, DamageReply, ReliableReplies
<1>11. CASE UNCHANGED vars
  BY <1>1, <1>11, OfferKept DEF vars, Delivery!vars
<1>12. QED
  BY <1>4, <1>5, <1>6, <1>7, <1>8, <1>9, <1>10, <1>11 DEF Next, SenderStep

\* When every frame the slave handles is answered in time and the answer is
\* read as it was sent, the retries deliver every slice once and in order, and
\* what the master holds for delivered or given up is so.
THEOREM DeliveryImplemented ==
  ASSUME ReliableReplies
  PROVE  Spec => ExactlyOnce
<1>1. Init => Delivery!Init
  BY DEF Init, Delivery!Init
<1>2. ReliableInv /\ [Next]_vars => ReliableInv' /\ [Delivery!Next]_(Delivery!vars)
  BY ReliableNext
<1>3. QED
  BY <1>1, <1>2, ReliableInit, PTL DEF Spec, ExactlyOnce, Delivery!Spec

-----------------------------------------------------------------------------
(* NoSilentLoss.  A sofa, mode or token command is over with its first slice,
   so it has to fit into one. *)

Fits(c) == c.cmd \in StreamCommands \/ c.len =< c.slice

ControlFits == \A s \in Senders : \A r \in Requests[s] : Fits(r)

ControlIsLast ==
  \A s \in Senders :
    /\ Fits(call[s])
    /\ pc[s] \in {"send", "wait"}
         => call[s].cmd \in StreamCommands \/ call[s].last

LEMMA ControlInit == Init => ControlIsLast
  BY DEF Init, ControlIsLast, Fits, NoCall, NewCall

LEMMA ControlNext ==
  ASSUME ControlFits, TypeOK, ControlIsLast, [Next]_vars
  PROVE  ControlIsLast'
<1> SUFFICES ASSUME NEW t \in Senders
             PROVE  /\ Fits(call'[t])
                    /\ pc'[t] \in {"send", "wait"}
                         => call'[t].cmd \in StreamCommands \/ call'[t].last
  BY DEF ControlIsLast, Fits
<1>1. /\ pc \in [Senders -> {"idle", "lock", "slice", "send", "wait"}]
      /\ call \in [Senders -> Locals]
  BY DEF TypeOK
<1>2. /\ Fits(call[t])
      /\ pc[t] \in {"send", "wait"}
           => call[t].cmd \in StreamCommands \/ call[t].last
  BY DEF ControlIsLast
<1>3. ASSUME NEW s \in Senders, NEW r \in Requests[s], Call(s, r)
      PROVE  /\ Fits(call'[t])
             /\ pc'[t] \in {"send", "wait"}
                  => call'[t].cmd \in StreamCommands \/ call'[t].last
  <2>1. CASE t = s
    <3>1. call'[t] = NewCall(r) /\ pc'[t] = "lock"
      BY <1>1, <1>3, <2>1 DEF Call
    <3>2. Fits(NewCall(r))
      BY DEF ControlFits, Fits, NewCall
    <3>3. QED
      BY <3>1, <3>2
  <2>2. CASE t # s
    BY <1>1, <1>2, <1>3, <2>2 DEF Call
  <2>3. QED
    BY <2>1, <2>2
<1>4. ASSUME NEW s \in Senders, PrepareSlice(s)
      PROVE  /\ Fits(call'[t])
             /\ pc'[t] \in {"send", "wait"}
                  => call'[t].cmd \in StreamCommands \/ call'[t].last
  <2>1. CASE t = s
    <3>1. /\ call[t].len \in Nat /\ call[t].slice \in Nat
      BY <1>1 DEF Locals
    <3>2. /\ call'[t].cmd = call[t].cmd /\ call'[t].slice = call[t].slice
          /\ call'[t].len = IF call[t].len > call[t].slice
                            THEN call[t].len - call[t].slice ELSE call[t].len
          /\ call'[t].last = (call[t].last \/ ~ call[t].len > call[t].slice)
      BY <1>1, <1>4, <2>1 DEF PrepareSlice, NextSlice, Locals
    <3>3. CASE call[t].cmd \in StreamCommands
      BY <3>2, <3>3 DEF Fits
    <3>4. CASE call[t].len =< call[t].slice
      <4>1. ~ call[t].len > call[t].slice
        BY <3>1, <3>4
      <4>2. call'[t].len =< call'[t].slice /\ call'[t].last
        BY <3>2, <3>4, <4>1
      <4>3. QED
        BY <4>2 DEF Fits
    <3>5. QED
      BY <1>2, <3>3, <3>4 DEF Fits
  <2>2. CASE t # s
    BY <1>1, <1>2, <1>4, <2>2 DEF PrepareSlice
  <2>3. QED
    BY <2>1, <2>2
<1>5. ASSUME NEW s \in Senders, Reject(s) \/ Enter(s) \/ SendFrame(s)
      PROVE  /\ Fits(call'[t])
             /\ pc'[t] \in {"send", "wait"}
                  => call'[t].cmd \in StreamCommands \/ call'[t].last
  BY <1>1, <1>2, <1>5 DEF Reject, Enter, SendFrame, Fits, NoCall, NewCall
<1>6. ASSUME NEW s \in Senders, NEW r, pc[s] = "wait", HandleResponse(s, r)
      PROVE  /\ Fits(call'[t])
             /\ pc'[t] \in {"send", "wait"}
                  => call'[t].cmd \in StreamCommands \/ call'[t].last
  <2>1. call'[t] \in {call[t], NoCall} /\ (pc'[t] = "idle" \/ call'[t] = call[t])
    BY <1>1, <1>6 DEF HandleResponse
  <2>2. pc'[t] \in {"send", "wait"} => pc[t] \in {"send", "wait"}
    BY <1>1, <1>6 DEF HandleResponse
  <2>3. Fits(NoCall)
    BY DEF Fits, NoCall, NewCall
  <2>4. QED
    BY <1>2, <2>1, <2>2, <2>3
<1>7. CASE Slave \/ LoseReply \/ \E r \in Damaged : DamageReply(r)
  BY <1>2, <1>7 DEF Slave, SlaveAnswers, LoseReply, DamageReply
<1>8. CASE UNCHANGED vars
  BY <1>2, <1>8 DEF vars
<1>9. QED
  BY <1>3, <1>4, <1>5, <1>6, <1>7, <1>8
     DEF Next, SenderStep, ReadResponse, PollTimeout

\* A call ends only in its own thread's HandleResponse.
LEMMA EndsInHandleResponse ==
  ASSUME TimelyInv, [Next]_vars, NEW s \in Senders, pc[s] = "wait", pc'[s] = "idle"
  PROVE  ReadResponse(s) \/ PollTimeout(s)
<1>1. pc \in [Senders -> {"idle", "lock", "slice", "send", "wait"}]
  BY DEF TimelyInv, OrderInv, TypeOK
<1>2. \A t \in Senders : t # s => pc[t] \notin Busy
  BY OneWaits DEF TimelyInv, OrderInv, Busy
<1>3. CASE \E t \in Senders :
              \/ \E r \in Requests[t] : Call(t, r)
              \/ Reject(t) \/ Enter(t) \/ PrepareSlice(t) \/ SendFrame(t)
  BY <1>1, <1>3 DEF Call, Reject, Enter, PrepareSlice, SendFrame
<1>4. CASE \E t \in Senders : ReadResponse(t) \/ PollTimeout(t)
  BY <1>2, <1>4 DEF ReadResponse, PollTimeout, Busy
<1>5. CASE \/ Slave \/ LoseReply \/ \E r \in Damaged : DamageReply(r)
           \/ UNCHANGED vars
  BY <1>5 DEF Slave, SlaveAnswers, LoseReply, DamageReply, vars
<1>6. QED
  BY <1>3, <1>4, <1>5 DEF Next, SenderStep

\* When responses are neither late nor damaged, and the calls other than the
\* audio's fit into a slice, a call that returns has its last slice with the
\* slave or the connection flagged as down.
THEOREM NoSilentLossCorrect ==
  ASSUME TimelyReplies, ControlFits
  PROVE  Spec => NoSilentLoss
<1> DEFINE Inv == TimelyInv /\ ControlIsLast
           Told == \A s \in Senders :
                     pc[s] = "wait" /\ pc'[s] = "idle"
                       => (call[s].last /\ IsTaken(call[s].no)) \/ ~ connected'
<1>1. Init => Inv
  BY TimelyInit, ControlInit
<1>2. Inv /\ [Next]_vars => Inv'
  BY TimelyNext, ControlNext DEF TimelyInv, OrderInv
<1>3. Inv /\ [Next]_vars => Told
  <2> SUFFICES ASSUME Inv, [Next]_vars, NEW s \in Senders,
                      pc[s] = "wait", pc'[s] = "idle"
               PROVE  (call[s].last /\ IsTaken(call[s].no)) \/ ~ connected'
    OBVIOUS
  <2>1. PICK r : /\ HandleResponse(s, r)
                 /\ Delivers(r) => IsTaken(call[s].no) /\ r.command = call[s].cmd
    <3>1. CASE ReadResponse(s)
      <4>1. outbox # <<>> /\ HandleResponse(s, Head(outbox))
        BY <3>1 DEF ReadResponse
      <4>2. /\ Delivers(Head(outbox)) => IsTaken(call[s].no)
            /\ Head(outbox).command = call[s].cmd
        BY <4>1, AnswerRead
      <4>3. QED
        BY <4>1, <4>2
    <3>2. CASE PollTimeout(s)
      BY <3>2, NoResponseDeliversNothing DEF PollTimeout
    <3>3. QED
      BY <3>1, <3>2, EndsInHandleResponse
  <2>2. pc'[s] = NextPc(s, r) /\ connected' = (TokenTaken(r) \/ (connected /\ ~ GivesUp(r)))
    BY <2>1 DEF HandleResponse, UpdateShared, TimelyInv, OrderInv, TypeOK
  <2>3. EndsFrame(r, call[s].last)
    BY <2>2 DEF NextPc
  <2>4. CASE GivesUp(r)
    BY <2>2, <2>4, GivesUpOrDelivers DEF Delivers
  <2>5. CASE SliceTaken(r) /\ call[s].last
    BY <2>1, <2>5 DEF Delivers
  <2>6. CASE ControlTaken(r) \/ TokenTaken(r)
    <3>1. IsTaken(call[s].no) /\ r.command = call[s].cmd
      BY <2>1, <2>6 DEF Delivers
    <3>2. r.command \notin StreamCommands
      BY <2>6 DEF ControlTaken, TokenTaken, StreamCommands, ControlCommands,
         SSAP_CMD_START, SSAP_CMD_DATA, SSAP_CMD_STOP, SSAP_CMD_TOKEN,
         SSPP_CMD_SOFA_COMMAND, SSPP_CMD_SONG_PATH_MODE
    <3>3. QED
      BY <3>1, <3>2 DEF ControlIsLast
  <2>7. QED
    BY <2>3, <2>4, <2>5, <2>6 DEF EndsFrame
<1>4. QED
  BY <1>1, <1>2, <1>3, PTL DEF Spec, NoSilentLoss

-----------------------------------------------------------------------------
(* The player *)

\* Where main is in the song: n requests made, left bytes to come.
Position ==
  LET n == Len(offered)
      h == HeaderCount(file)
  IN  /\ stage \in {"boot", "start"} => n = 0 /\ left = file.size
      /\ stage = "header" => n = 1 /\ file.wav /\ left = file.size
      /\ stage = "open" => n = 1 + h /\ left = file.size
      /\ stage = "read" =>
           /\ n >= 1 + h
           /\ \/ left > 0 /\ left = file.size - BlockSize * (n - 1 - h)
              \/ left = 0 /\ n = 1 + h + BlockCount(file)
      /\ stage \in {"close", "exit"} /\ Plays(file) /\ ~ ReadFaults
           => n = SongLength(file)

\* All that was offered before the last request is of the song; the last one
\* may be the STOP of a read that failed.
SongSoFar ==
  \A k \in 1..Len(offered) :
    \/ offered[k] = SongItem(file, k)
    \/ /\ ReadFaults /\ stage \in {"close", "exit"}
       /\ k = Len(offered) /\ offered[k] = StreamRequest(SSAP_CMD_STOP, 0)

PlayerInv ==
  /\ file \in File
  /\ stage \in {"boot", "start", "header", "open", "read", "close", "exit", "crash"}
  /\ left \in Nat
  /\ offered \in Seq(Request)
  /\ Position
  /\ SongSoFar

\* The arguments of main's calls.
LEMMA StreamRequestType ==
  \A c \in StreamCommands, n \in 0..BlockSize : StreamRequest(c, n) \in Request
BY DEF StreamRequest, StreamCommands, BlockSize, Request, Byte, SSAP_CMD_START,
       SSAP_CMD_DATA, SSAP_CMD_STOP

\* A file is read in BlockCount reads.
LEMMA LastBlock ==
  ASSUME NEW f \in File, NEW j \in Nat,
         BlockSize * j < f.size, f.size =< BlockSize * (j + 1)
  PROVE  BlockCount(f) = j + 1
<1>1. f.size \in Nat
  BY DEF File
<1> QED
  BY <1>1 DEF BlockCount, BlockSize

LEMMA MoreBlocks ==
  ASSUME NEW f \in File, NEW j \in Nat, BlockSize * j < f.size
  PROVE  j < BlockCount(f)
<1>1. f.size \in Nat
  BY DEF File
<1> QED
  BY <1>1 DEF BlockCount, BlockSize

LEMMA PlayerInvInit == PlayerInit => PlayerInv
<1> SUFFICES ASSUME PlayerInit PROVE PlayerInv
  OBVIOUS
<1>1. file \in File /\ file.size \in Nat
  BY PlayerAssumption DEF PlayerInit, File
<1>2. stage = "boot" /\ left = file.size /\ offered = <<>>
  BY DEF PlayerInit
<1> QED
  BY <1>1, <1>2 DEF PlayerInv, Position, SongSoFar

\* A request that is the next of the song keeps what was offered a song.
LEMMA OfferNext ==
  ASSUME PlayerInv, file' = file, stage \notin {"close", "exit"},
         NEW c \in StreamCommands, NEW n \in 0..BlockSize, Offer(c, n),
         \/ StreamRequest(c, n) = SongItem(file, Len(offered) + 1)
         \/ ReadFaults /\ stage' = "close" /\ StreamRequest(c, n) = StreamRequest(SSAP_CMD_STOP, 0)
  PROVE  /\ offered' \in Seq(Request)
         /\ Len(offered') = Len(offered) + 1
         /\ SongSoFar'
<1>1. StreamRequest(c, n) \in Request
  BY StreamRequestType
<1>2. /\ offered' = Append(offered, StreamRequest(c, n))
      /\ offered' \in Seq(Request)
      /\ Len(offered') = Len(offered) + 1
  BY <1>1 DEF Offer, PlayerInv
<1>3. \A k \in 1..Len(offered) :
        offered'[k] = offered[k] /\ offered[k] = SongItem(file, k)
  BY <1>1, <1>2 DEF PlayerInv, SongSoFar
<1>4. offered'[Len(offered) + 1] = StreamRequest(c, n)
  BY <1>1, <1>2 DEF PlayerInv
<1>5. \A k : SongItem(file, k)' = SongItem(file, k)
  BY DEF SongItem, SongBlock, SongLength, HeaderCount, BlockCount
<1>6. Len(offered) \in Nat
  BY DEF PlayerInv
<1> QED
  BY <1>2, <1>3, <1>4, <1>5, <1>6 DEF SongSoFar

\* Steps of the link leave the song where it is.
LEMMA PlayerInvLink ==
  ASSUME PlayerInv, UNCHANGED <<file, stage, left, offered>>
  PROVE  PlayerInv'
BY DEF PlayerInv, Position, SongSoFar, SongItem, SongBlock, SongLength, HeaderCount,
       BlockCount, Plays

LEMMA PlayerInvNext == PlayerInv /\ [PlayerNext]_allVars => PlayerInv'
<1> SUFFICES ASSUME PlayerInv, [PlayerNext]_allVars PROVE PlayerInv'
  OBVIOUS
<1> DEFINE h == HeaderCount(file)
<1>0. /\ file \in File /\ file.size \in Nat /\ file.wav \in BOOLEAN
      /\ h \in {0, 1} /\ Len(offered) \in Nat /\ left \in Nat
      /\ BlockCount(file) \in Nat
      /\ SSAP_CMD_START \in StreamCommands /\ SSAP_CMD_DATA \in StreamCommands
      /\ SSAP_CMD_STOP \in StreamCommands
  BY DEF PlayerInv, File, HeaderCount, BlockCount, BlockSize, StreamCommands
<1>1. CASE Boot
  <2>1. UNCHANGED <<file, left, offered>> /\ stage = "boot"
    BY <1>1 DEF Boot, Ready
  <2>2. /\ stage' \in {"crash", "start", "exit"}
        /\ stage' = "exit" => ~ Plays(file)
    BY <1>1 DEF Boot
  <2> QED
    BY <2>1, <2>2, <1>0 DEF PlayerInv, Position, SongSoFar, SongItem, SongBlock, SongLength,
       HeaderCount, BlockCount, Plays
<1>2. CASE SendStart
  <2>1. /\ stage = "start" /\ file' = file /\ left' = left
        /\ Offer(SSAP_CMD_START, StartSize)
        /\ stage' = IF file.wav THEN "header" ELSE "open"
    BY <1>2 DEF SendStart, Ready, Offer
  <2>2. Len(offered) = 0 /\ left = file.size
    BY <2>1 DEF PlayerInv, Position
  <2>3. StreamRequest(SSAP_CMD_START, StartSize) = SongItem(file, Len(offered) + 1)
    BY <2>2 DEF SongItem
  <2>4. StartSize \in 0..BlockSize
    BY DEF StartSize, BlockSize
  <2>5. offered' \in Seq(Request) /\ Len(offered') = 1 /\ SongSoFar'
    BY <2>1, <2>2, <2>3, <2>4, <1>0, OfferNext
  <2> QED
    BY <2>1, <2>2, <2>5, <1>0 DEF PlayerInv, Position, HeaderCount, Plays
<1>3. CASE SendHeader
  <2>1. /\ stage = "header" /\ file' = file /\ left' = left
        /\ Offer(SSAP_CMD_DATA, WavHeaderSize) /\ stage' = "open"
    BY <1>3 DEF SendHeader, Ready, Offer
  <2>2. Len(offered) = 1 /\ left = file.size /\ file.wav
    BY <2>1 DEF PlayerInv, Position
  <2>3. StreamRequest(SSAP_CMD_DATA, WavHeaderSize) = SongItem(file, Len(offered) + 1)
    BY <2>2, <1>0 DEF SongItem, HeaderCount, SongLength, BlockCount
  <2>4. WavHeaderSize \in 0..BlockSize
    BY DEF WavHeaderSize, BlockSize
  <2>5. offered' \in Seq(Request) /\ Len(offered') = 2 /\ SongSoFar'
    BY <2>1, <2>2, <2>3, <2>4, <1>0, OfferNext
  <2> QED
    BY <2>1, <2>2, <2>5, <1>0 DEF PlayerInv, Position, HeaderCount, Plays
<1>4. CASE Open
  <2>1. /\ UNCHANGED <<file, left, offered>> /\ stage = "open"
        /\ stage' \in {"read", "crash"}
    BY <1>4 DEF Open, Ready
  <2>2. Len(offered) = 1 + h /\ left = file.size
    BY <2>1 DEF PlayerInv, Position
  <2>3. left = 0 => BlockCount(file) = 0
    BY <2>2, <1>0 DEF BlockCount, BlockSize
  <2>4. ASSUME stage' = "crash" PROVE Position'
    BY <2>4 DEF Position
  <2>5. ASSUME stage' = "read" PROVE Position'
    <3>1. Len(offered)' = 1 + h /\ HeaderCount(file)' = h /\ left' = file'.size
          /\ BlockCount(file)' = BlockCount(file)
      BY <2>1, <2>2 DEF HeaderCount, BlockCount
    <3>2. left' > 0 => left' = file'.size - BlockSize * (Len(offered)' - 1 - h)
      BY <3>1, <1>0, <2>1 DEF BlockSize
    <3>3. ~ (left' > 0) => left' = 0 /\ Len(offered)' = 1 + h + BlockCount(file)'
      BY <3>1, <2>1, <2>2, <2>3, <1>0
    <3> QED
      BY <3>1, <3>2, <3>3, <2>5, <1>0 DEF Position
  <2>6. Position'
    BY <2>1, <2>4, <2>5
  <2> QED
    BY <2>1, <2>6 DEF PlayerInv, SongSoFar, SongItem, SongBlock, SongLength,
       HeaderCount, BlockCount
<1>5. CASE SendBlock
  <2> DEFINE j == Len(offered) - 1 - h
  <2>1. /\ stage = "read" /\ file' = file /\ stage' = "read" /\ left > 0
        /\ Offer(SSAP_CMD_DATA, NextBlock) /\ left' = left - NextBlock
    BY <1>5 DEF SendBlock, Ready, Offer
  <2>2. j \in Nat /\ left = file.size - BlockSize * j
    BY <2>1, <1>0 DEF PlayerInv, Position
  <2>3. NextBlock \in 0..BlockSize /\ left' \in Nat
    <3>1. left \in Nat /\ left' = left - NextBlock
      BY <2>1, <1>0
    <3> QED
      BY <3>1 DEF NextBlock, BlockSize
  <2>4. j < BlockCount(file)
    <3>1. BlockSize * j < file.size
      BY <2>1, <2>2, <1>0 DEF BlockSize
    <3> QED
      BY <3>1, <2>2, <1>0, MoreBlocks
  <2>5. StreamRequest(SSAP_CMD_DATA, NextBlock) = SongItem(file, Len(offered) + 1)
    <3>1. SongItem(file, Len(offered) + 1) = SongBlock(file, j + 1)
      BY <2>2, <2>4, <1>0 DEF SongItem, SongLength
    <3>2. SongBlock(file, j + 1) = StreamRequest(SSAP_CMD_DATA, NextBlock)
      BY <2>2, <1>0 DEF SongBlock, NextBlock, BlockSize
    <3> QED
      BY <3>1, <3>2
  <2>6. /\ offered' \in Seq(Request) /\ Len(offered') = Len(offered) + 1
        /\ SongSoFar'
    BY <2>1, <2>3, <2>5, <1>0, OfferNext
  <2>7. CASE left > BlockSize
    <3>1. left' > 0 /\ left' = file.size - BlockSize * (j + 1)
      BY <2>1, <2>2, <2>7, <1>0 DEF NextBlock, BlockSize
    <3>2. Position'
      BY <3>1, <2>1, <2>2, <2>6, <1>0 DEF Position, HeaderCount
    <3> QED
      BY <3>2, <2>1, <2>3, <2>6 DEF PlayerInv
  <2>8. CASE left =< BlockSize
    <3>1. left' = 0
      BY <2>1, <2>8, <1>0 DEF NextBlock, BlockSize
    <3>2. BlockSize * j < file.size /\ file.size =< BlockSize * (j + 1)
      BY <2>1, <2>2, <2>8, <1>0 DEF BlockSize
    <3>3. BlockCount(file) = j + 1
      BY <3>2, <2>2, <1>0, LastBlock
    <3>4. Position'
      BY <3>1, <3>3, <2>1, <2>2, <2>6, <1>0 DEF Position, HeaderCount, BlockCount
    <3> QED
      BY <3>4, <2>1, <2>3, <2>6 DEF PlayerInv
  <2> QED
    BY <2>7, <2>8, <1>0 DEF BlockSize
<1>6. CASE SendStop
  <2>1. /\ stage = "read" /\ file' = file /\ left' = left /\ stage' = "close"
        /\ Offer(SSAP_CMD_STOP, 0) /\ (left = 0 \/ ReadFaults)
    BY <1>6 DEF SendStop, Ready, Offer
  <2>2. left = 0 => Len(offered) + 1 = SongLength(file)
    BY <2>1, <1>0 DEF PlayerInv, Position, SongLength
  <2>3. Len(offered) >= 1
    BY <2>1, <1>0 DEF PlayerInv, Position
  <2>4. left = 0 => StreamRequest(SSAP_CMD_STOP, 0) = SongItem(file, Len(offered) + 1)
    BY <2>2, <2>3, <1>0 DEF SongItem
  <2>5. 0 \in 0..BlockSize
    BY DEF BlockSize
  <2>6. /\ offered' \in Seq(Request) /\ Len(offered') = Len(offered) + 1
        /\ SongSoFar'
    BY <2>1, <2>4, <2>5, <1>0, OfferNext
  <2>7. ~ ReadFaults => Len(offered') = SongLength(file)'
    BY <2>1, <2>2, <2>6, <1>0 DEF SongLength, HeaderCount, BlockCount
  <2> QED
    BY <2>1, <2>6, <2>7, <1>0 DEF PlayerInv, Position, Plays
<1>7. CASE Close
  <2>1. UNCHANGED <<file, left, offered>> /\ stage = "close" /\ stage' = "exit"
    BY <1>7 DEF Close, Ready
  <2> QED
    BY <2>1 DEF PlayerInv, Position, SongSoFar, SongItem, SongBlock, SongLength,
       HeaderCount, BlockCount, Plays
<1>8. CASE MainStep \/ OtherStep \/ SlaveStep \/ UNCHANGED allVars
  BY <1>8, PlayerInvLink DEF MainStep, OtherStep, SlaveStep, allVars, playerVars
<1> QED
  BY <1>1, <1>2, <1>3, <1>4, <1>5, <1>6, <1>7, <1>8 DEF PlayerNext, PlayerStep

\* The requests of main are the song, whatever the link does with them.
THEOREM OfferedCorrect == PlayerSpec => []OfferedIsSong
<1>1. PlayerInv => OfferedIsSong
  BY DEF PlayerInv, Position, SongSoFar, OfferedIsSong
<1> QED
  BY <1>1, PlayerInvInit, PlayerInvNext, PTL DEF PlayerSpec

-----------------------------------------------------------------------------
(* The composition is a link *)

LEMMA OfferIsCall ==
  ASSUME NEW c \in StreamCommands, NEW n \in 0..BlockSize, Offer(c, n)
  PROVE  Next
<1>1. Main \in Senders /\ StreamRequest(c, n) \in Requests[Main]
  BY PlayerAssumption
<1> QED
  BY <1>1 DEF Offer, Next

LEMMA PlayerStepIsLinkStep == PlayerInv /\ [PlayerNext]_allVars => [Next]_vars
<1> SUFFICES ASSUME PlayerInv, [PlayerNext]_allVars PROVE [Next]_vars
  OBVIOUS
<1>1. CASE Boot \/ Open \/ Close \/ UNCHANGED allVars
  BY <1>1 DEF Boot, Open, Close, allVars
<1>2. CASE SendStart \/ SendHeader \/ SendBlock \/ SendStop
  <2>1. /\ StartSize \in 0..BlockSize /\ WavHeaderSize \in 0..BlockSize
        /\ NextBlock \in 0..BlockSize /\ 0 \in 0..BlockSize
    BY DEF StartSize, WavHeaderSize, NextBlock, BlockSize, PlayerInv
  <2>2. /\ SSAP_CMD_START \in StreamCommands /\ SSAP_CMD_DATA \in StreamCommands
        /\ SSAP_CMD_STOP \in StreamCommands
    BY DEF StreamCommands
  <2> QED
    BY <1>2, <2>1, <2>2, OfferIsCall DEF SendStart, SendHeader, SendBlock, SendStop
<1>3. CASE MainStep
  BY <1>3, PlayerAssumption DEF MainStep, Next
<1>4. CASE OtherStep
  BY <1>4 DEF OtherStep, Next
<1>5. CASE SlaveStep
  BY <1>5 DEF SlaveStep, Next
<1> QED
  BY <1>1, <1>2, <1>3, <1>4, <1>5 DEF PlayerNext, PlayerStep

\* The player with its link is a link: what holds of every behaviour of
\* SsapLink holds of the player's.
THEOREM LinkImplemented == PlayerSpec => Spec
<1>1. PlayerInit => Init
  BY DEF PlayerInit
<1> QED
  BY <1>1, PlayerInvInit, PlayerInvNext, PlayerStepIsLinkStep, PTL DEF PlayerSpec, Spec

\* The slave hears the song, and what other threads say, in the order in which
\* it was offered.
COROLLARY PlayerInOrder == PlayerSpec => []InOrder
BY LinkImplemented, OrderCorrect

-----------------------------------------------------------------------------
(* What main may rely on when its call returns *)

\* The slices of the first n requests are settled.
SettledUpTo(n) == \A k \in 1..n : slices[k] \in confirmed \cup abandoned

\* The last request has its slice from PrepareSlice on, and it is the only one
\* that may be unsettled while main's call is in the link.
SettledInv ==
  /\ slices \in Seq(Nat)
  /\ pc[Main] # "idle" =>
       call[Main].cmd \in StreamCommands /\ call[Main].len \in 0..BlockSize /\ call[Main].slice = BlockSize
  /\ pc[Main] = "idle" => Len(slices) = Len(offered) /\ SettledUpTo(Len(slices))
  /\ pc[Main] \in {"lock", "slice"} => Len(slices) + 1 = Len(offered) /\ SettledUpTo(Len(slices))
  /\ pc[Main] \in {"send", "wait"} =>
       /\ call[Main].last
       /\ Len(slices) = Len(offered) /\ Len(slices) >= 1
       /\ slices[Len(slices)] = call[Main].no
       /\ SettledUpTo(Len(slices) - 1)

\* A step that leaves main's call and its requests alone, and settles no less,
\* keeps what is settled.
LEMMA SettledKeeps ==
  ASSUME SettledInv, UNCHANGED <<offered, slices>>, pc'[Main] = pc[Main], call'[Main] = call[Main],
         confirmed \subseteq confirmed', abandoned \subseteq abandoned'
  PROVE  SettledInv'
BY DEF SettledInv, SettledUpTo

\* A slice of the last or only part of the buffer that is settled ends the call.
LEMMA LastEndsFrame ==
  ASSUME NEW r, EndsSlice(r)
  PROVE  EndsFrame(r, TRUE)
BY DEF EndsSlice, EndsFrame, Delivers

\* A response to main settles its slice and ends the call, or the slice is sent
\* again.
LEMMA SettledResponse ==
  ASSUME TypeOK, SettledInv, pc[Main] = "wait", NEW r, HandleResponse(Main, r),
         UNCHANGED <<offered, slices>>
  PROVE  SettledInv'
<1>0. Main \in Senders /\ call[Main] \in Locals
  BY PlayerAssumption DEF TypeOK
<1>1. /\ pc'[Main] = NextPc(Main, r)
      /\ call'[Main] = IF NextPc(Main, r) = "idle" THEN NoCall ELSE call[Main]
  BY <1>0 DEF HandleResponse, TypeOK
<1>2. confirmed \subseteq confirmed' /\ abandoned \subseteq abandoned'
  BY DEF HandleResponse
<1>3. call[Main].last
  BY DEF SettledInv
<1>4. CASE EndsSlice(r)
  <2>1. pc'[Main] = "idle"
    <3>1. call[Main].last = TRUE
      BY <1>0, <1>3 DEF Locals
    <3>2. EndsFrame(r, call[Main].last)
      BY <1>4, <3>1, LastEndsFrame
    <3>3. QED
      BY <1>1, <1>4, <3>2 DEF NextPc
  <2>2. call[Main].no \in confirmed' \cup abandoned'
    BY <1>4 DEF HandleResponse, EndsSlice
  <2>3. /\ Len(slices) = Len(offered) /\ Len(slices) \in Nat /\ Len(slices) >= 1
        /\ slices[Len(slices)] = call[Main].no /\ SettledUpTo(Len(slices) - 1)
    BY DEF SettledInv
  <2>4. SettledUpTo(Len(slices))'
    <3> SUFFICES ASSUME NEW k \in 1..Len(slices) PROVE slices[k] \in confirmed' \cup abandoned'
      BY DEF SettledUpTo
    <3>1. CASE k = Len(slices)
      BY <2>2, <2>3, <3>1
    <3>2. CASE k # Len(slices)
      <4>1. k \in 1..(Len(slices) - 1)
        BY <2>3, <3>2
      <4>2. QED
        BY <1>2, <2>3, <4>1 DEF SettledUpTo
    <3>3. QED
      BY <3>1, <3>2
  <2>5. slices' \in Seq(Nat) /\ Len(slices)' = Len(offered)'
    BY <2>3 DEF SettledInv
  <2>6. QED
    BY <2>1, <2>4, <2>5 DEF SettledInv
<1>5. CASE ~ EndsSlice(r)
  <2>1. pc'[Main] = "send" /\ call'[Main] = call[Main]
    BY <1>1, <1>5 DEF NextPc
  <2>2. QED
    BY <1>2, <2>1 DEF SettledInv, SettledUpTo
<1>6. QED
  BY <1>4, <1>5

\* A step of main's call in the link: the slice it prepares is its last.
LEMMA SettledMain ==
  ASSUME PlayerInv, TypeOK, SettledInv, MainStep
  PROVE  SettledInv'
<1>0. Main \in Senders /\ call[Main] \in Locals /\ prepared \in Nat /\ offered' = offered
  BY PlayerAssumption DEF TypeOK, MainStep
<1>1. CASE Reject(Main)
  <2>1. call[Main].cmd \in StreamCommands /\ call[Main].slice = BlockSize /\ Unsupported(call[Main])
    BY <1>1 DEF Reject, SettledInv
  <2>2. QED
    BY <2>1, PlayerAssumption DEF Unsupported, StreamCommands, BlockSize, SSPP_CMD_MAX, SSAP_CMD_START,
       SSAP_CMD_DATA, SSAP_CMD_STOP
<1>2. CASE Enter(Main)
  <2>1. pc[Main] = "lock" /\ pc'[Main] = "slice" /\ UNCHANGED <<call, confirmed, abandoned, prepared>>
    BY <1>0, <1>2 DEF Enter, TypeOK, historyVars
  <2>2. slices' = slices
    BY <1>0, <2>1 DEF MainStep
  <2>3. QED
    BY <1>0, <2>1, <2>2 DEF SettledInv, SettledUpTo
<1>3. CASE PrepareSlice(Main)
  <2>1. /\ pc[Main] = "slice" /\ pc'[Main] = "send" /\ UNCHANGED <<confirmed, abandoned>>
        /\ call'[Main] = NextSlice(call[Main]) /\ prepared' = prepared + 1
    BY <1>0, <1>3 DEF PrepareSlice, TypeOK
  <2>2. slices' = Append(slices, prepared')
    BY <1>0, <2>1 DEF MainStep
  <2>3. /\ call[Main].cmd \in StreamCommands /\ call[Main].len \in 0..BlockSize
        /\ call[Main].slice = BlockSize /\ slices \in Seq(Nat)
        /\ Len(slices) + 1 = Len(offered) /\ SettledUpTo(Len(slices))
    BY <2>1 DEF SettledInv
  <2>4. call'[Main] = [call[Main] EXCEPT !.last = TRUE, !.no = prepared']
    <3>0. ASSUME NEW n, n \in 0..BlockSize PROVE ~ (n > BlockSize)
      BY <3>0 DEF BlockSize
    <3>1. ~ (call[Main].len > call[Main].slice)
      BY <2>3, <3>0, Zenon
    <3>2. QED
      BY <2>1, <3>1 DEF NextSlice
  <2>5. /\ call'[Main].last /\ call'[Main].no = prepared' /\ call'[Main].cmd = call[Main].cmd
        /\ call'[Main].len = call[Main].len /\ call'[Main].slice = call[Main].slice
    BY <1>0, <2>4 DEF Locals
  <2>6. /\ slices' \in Seq(Nat) /\ Len(slices') = Len(slices) + 1 /\ slices'[Len(slices')] = prepared'
        /\ \A k \in 1..Len(slices) : slices'[k] = slices[k]
    BY <1>0, <2>1, <2>2, <2>3
  <2>7. SettledUpTo(Len(slices) - 1)'
    <3>1. Len(slices') - 1 = Len(slices) /\ Len(slices) \in Nat
      BY <2>3, <2>6
    <3>2. \A k \in 1..Len(slices) : slices'[k] \in confirmed' \cup abandoned'
      BY <2>1, <2>3, <2>6 DEF SettledUpTo
    <3>3. QED
      BY <3>1, <3>2 DEF SettledUpTo
  <2>8. Len(slices') = Len(offered') /\ Len(slices') >= 1
    BY <1>0, <2>3, <2>6
  <2>9. QED
    BY <2>1, <2>3, <2>5, <2>6, <2>7, <2>8 DEF SettledInv
<1>4. CASE SendFrame(Main)
  <2>1. pc[Main] = "send" /\ pc'[Main] = "wait" /\ UNCHANGED <<call, confirmed, abandoned, prepared>>
    BY <1>0, <1>4 DEF SendFrame, TypeOK, historyVars
  <2>2. slices' = slices
    BY <1>0, <2>1 DEF MainStep
  <2>3. QED
    BY <1>0, <2>1, <2>2 DEF SettledInv, SettledUpTo
<1>5. CASE ReadResponse(Main) \/ PollTimeout(Main)
  <2>1. PICK r : HandleResponse(Main, r)
    BY <1>5 DEF ReadResponse, PollTimeout
  <2>2. pc[Main] = "wait"
    BY <1>5 DEF ReadResponse, PollTimeout
  <2>3. slices' = slices
    BY <1>0, <2>1 DEF MainStep, HandleResponse
  <2>4. QED
    BY <1>0, <2>1, <2>2, <2>3, SettledResponse
<1>6. QED
  BY <1>1, <1>2, <1>3, <1>4, <1>5 DEF MainStep, SenderStep

\* Other threads and the slave leave main's call alone.
LEMMA SettledOther ==
  ASSUME TypeOK, SettledInv, OtherStep \/ SlaveStep \/ UNCHANGED allVars
  PROVE  SettledInv'
<1>0. Main \in Senders /\ UNCHANGED <<offered, slices>>
  BY PlayerAssumption DEF OtherStep, SlaveStep, playerVars, allVars
<1>1. CASE OtherStep
  <2>1. PICK s \in Senders \ {Main} : SenderStep(s) \/ \E r \in Requests[s] : Call(s, r)
    BY <1>1 DEF OtherStep
  <2>2. pc'[Main] = pc[Main] /\ call'[Main] = call[Main]
    BY <1>0, <2>1 DEF SenderStep, Call, Reject, Enter, PrepareSlice, SendFrame, ReadResponse, PollTimeout,
       HandleResponse, TypeOK
  <2>3. confirmed \subseteq confirmed' /\ abandoned \subseteq abandoned'
    BY <2>1 DEF SenderStep, Call, Reject, Enter, PrepareSlice, SendFrame, ReadResponse, PollTimeout,
       HandleResponse, historyVars
  <2>4. QED
    BY <1>0, <2>2, <2>3, SettledKeeps
<1>2. CASE SlaveStep \/ UNCHANGED allVars
  <2>1. UNCHANGED <<pc, call, confirmed, abandoned>>
    BY <1>2 DEF SlaveStep, Slave, SlaveAnswers, LoseReply, DamageReply, allVars, vars, historyVars
  <2>2. QED
    BY <1>0, <2>1, SettledKeeps
<1>3. QED
  BY <1>1, <1>2

\* main makes a request only from where all are settled.
LEMMA SettledOffer ==
  ASSUME PlayerInv, TypeOK, SettledInv, PlayerStep
  PROVE  SettledInv'
<1>0. Main \in Senders /\ offered \in Seq(Request)
  BY PlayerAssumption DEF PlayerInv
<1>1. CASE Boot \/ Open \/ Close
  <2>1. UNCHANGED <<offered, slices, pc, call, confirmed, abandoned>>
    BY <1>1 DEF Boot, Open, Close, vars, historyVars
  <2>2. QED
    BY <2>1, SettledKeeps
<1>2. CASE SendStart \/ SendHeader \/ SendBlock \/ SendStop
  <2>1. PICK c \in StreamCommands, n \in 0..BlockSize : Offer(c, n)
    <3>1. /\ StartSize \in 0..BlockSize /\ WavHeaderSize \in 0..BlockSize
          /\ NextBlock \in 0..BlockSize /\ 0 \in 0..BlockSize
      BY DEF StartSize, WavHeaderSize, NextBlock, BlockSize, PlayerInv
    <3>2. /\ SSAP_CMD_START \in StreamCommands /\ SSAP_CMD_DATA \in StreamCommands
          /\ SSAP_CMD_STOP \in StreamCommands
      BY DEF StreamCommands
    <3>3. QED
      BY <1>2, <3>1, <3>2 DEF SendStart, SendHeader, SendBlock, SendStop
  <2>2. /\ pc[Main] = "idle" /\ pc'[Main] = "lock" /\ call'[Main] = NewCall(StreamRequest(c, n))
        /\ offered' = Append(offered, StreamRequest(c, n))
        /\ UNCHANGED <<slices, confirmed, abandoned>>
    BY <1>0, <2>1 DEF Offer, Call, TypeOK, historyVars
  <2>3. Len(offered') = Len(offered) + 1
    BY <1>0, <2>2, StreamRequestType
  <2>4. call'[Main].cmd = c /\ call'[Main].len = n /\ call'[Main].slice = BlockSize
    BY <2>2 DEF NewCall, StreamRequest
  <2>5. /\ slices' \in Seq(Nat) /\ Len(slices') + 1 = Len(offered')
        /\ SettledUpTo(Len(slices))'
    BY <2>2, <2>3 DEF SettledInv, SettledUpTo
  <2>6. QED
    BY <2>2, <2>4, <2>5 DEF SettledInv
<1>3. QED
  BY <1>1, <1>2 DEF PlayerStep

\* When main makes its next request, every one before is delivered or given up,
\* and was one slice: for a file of any size, any other threads and every fault.
THEOREM SettledCorrect == PlayerSpec => []EverySettled
<1>1. PlayerInit => SettledInv
  BY PlayerAssumption DEF PlayerInit, Init, SettledInv, SettledUpTo
<1>2. PlayerInv /\ TypeOK /\ SettledInv /\ [PlayerNext]_allVars => SettledInv'
  BY SettledOffer, SettledMain, SettledOther DEF PlayerNext
<1>3. SettledInv => EverySettled
  BY DEF SettledInv, SettledUpTo, EverySettled
<1>4. PlayerSpec => []TypeOK
  BY LinkImplemented, TypeCorrect, PTL
<1>5. QED
  BY <1>1, <1>2, <1>3, <1>4, PlayerInvInit, PlayerInvNext, PTL DEF PlayerSpec

-----------------------------------------------------------------------------
(* What the slave hears of the song, on a link whose responses are neither
   lost nor late.  It rests on no more than SliceDelivery promises. *)

\* Slices are taken once, as they are offered, and not if they are given up.
PromiseInv ==
  /\ \A i \in 1..Len(taken) : taken[i] =< prepared
  /\ \A i, j \in 1..Len(taken) : i < j => taken[i] < taken[j]
  /\ \A n \in confirmed : IsTaken(n)
  /\ \A n \in abandoned : ~ IsTaken(n)

\* The steps of SliceDelivery keep its promise.
LEMMA PromiseKept ==
  ASSUME TypeOK, PromiseInv, [Delivery!Next]_(Delivery!vars)
  PROVE  PromiseInv'
<1>0. taken \in Seq(Nat) /\ prepared \in Nat /\ Len(taken) \in Nat /\ \A i \in 1..Len(taken) : taken[i] \in Nat
  BY DEF TypeOK
<1>1. CASE Delivery!Offer \/ UNCHANGED Delivery!vars
  <2>1. taken' = taken /\ prepared' \in {prepared, prepared + 1} /\ UNCHANGED <<confirmed, abandoned>>
    BY <1>1 DEF Delivery!Offer, Delivery!vars
  <2>2. \A i \in 1..Len(taken) : taken[i] =< prepared'
    BY <1>0, <2>1 DEF PromiseInv
  <2> QED
    BY <2>1, <2>2 DEF PromiseInv, IsTaken
<1>2. CASE Delivery!Take
  <2>1. /\ taken' = Append(taken, prepared) /\ UNCHANGED <<prepared, confirmed, abandoned>>
        /\ prepared \notin abandoned
        /\ \A i \in 1..Len(taken) : taken[i] # prepared
    BY <1>2 DEF Delivery!Take, Delivery!Settled, Delivery!IsTaken
  <2>2. /\ Len(taken') = Len(taken) + 1
        /\ \A i \in 1..Len(taken) : taken'[i] = taken[i]
        /\ taken'[Len(taken) + 1] = prepared
    BY <1>0, <2>1, AppendProperties
  <2>3. \A i \in 1..Len(taken') : i \in 1..Len(taken) \/ i = Len(taken) + 1
    BY <1>0, <2>2
  <2>4. \A i \in 1..Len(taken') : taken'[i] =< prepared'
    BY <1>0, <2>1, <2>2, <2>3 DEF PromiseInv
  <2>5. \A i, j \in 1..Len(taken') : i < j => taken'[i] < taken'[j]
    <3> SUFFICES ASSUME NEW i \in 1..Len(taken'), NEW j \in 1..Len(taken'), i < j
                 PROVE  taken'[i] < taken'[j]
      OBVIOUS
    <3>1. i \in 1..Len(taken) /\ taken'[i] = taken[i] /\ taken[i] \in Nat
      BY <1>0, <2>2
    <3>2. CASE j \in 1..Len(taken)
      BY <3>1, <3>2, <2>2 DEF PromiseInv
    <3>3. CASE j = Len(taken) + 1
      <4>1. taken[i] =< prepared /\ taken[i] # prepared
        BY <3>1, <2>1 DEF PromiseInv
      <4> QED
        BY <1>0, <3>1, <3>3, <4>1, <2>2
    <3> QED
      BY <2>3, <3>2, <3>3
  <2>6. \A n \in confirmed : IsTaken(n)'
    BY <1>0, <2>2 DEF PromiseInv, IsTaken
  <2>7. \A n \in abandoned : ~ IsTaken(n)'
    BY <2>1, <2>2, <2>3 DEF PromiseInv, IsTaken
  <2> QED
    BY <2>1, <2>4, <2>5, <2>6, <2>7 DEF PromiseInv
<1>3. CASE Delivery!Confirm
  <2>1. taken' = taken /\ prepared' = prepared /\ abandoned' = abandoned
        /\ confirmed' = confirmed \cup {prepared} /\ IsTaken(prepared)
    BY <1>3 DEF Delivery!Confirm, Delivery!IsTaken, IsTaken
  <2> QED
    BY <2>1 DEF PromiseInv, IsTaken
<1>4. CASE Delivery!Abandon
  <2>1. taken' = taken /\ prepared' = prepared /\ confirmed' = confirmed
        /\ abandoned' = abandoned \cup {prepared} /\ ~ IsTaken(prepared)
    BY <1>4 DEF Delivery!Abandon, Delivery!IsTaken, IsTaken
  <2> QED
    BY <2>1 DEF PromiseInv, IsTaken
<1> QED
  BY <1>1, <1>2, <1>3, <1>4 DEF Delivery!Next

\* The slices of the song are numbered in the order of its requests.
SlicesInOrder ==
  /\ slices \in Seq(Nat)
  /\ \A k \in 1..Len(slices) : slices[k] =< prepared
  /\ \A k, l \in 1..Len(slices) : k < l => slices[k] < slices[l]

LEMMA SlicesInOrderNext ==
  ASSUME TypeOK, PlayerInv, SlicesInOrder, [PlayerNext]_allVars
  PROVE  SlicesInOrder'
<1>0. /\ slices \in Seq(Nat) /\ prepared \in Nat /\ Len(slices) \in Nat
      /\ \A k \in 1..Len(slices) : slices[k] \in Nat
  BY DEF SlicesInOrder, TypeOK
<1>1. prepared' \in {prepared, prepared + 1}
  BY PlayerStepIsLinkStep DEF Next, SenderStep, Call, Reject, Enter, PrepareSlice, SendFrame, ReadResponse,
     PollTimeout, HandleResponse, Slave, SlaveAnswers, LoseReply, DamageReply, vars, historyVars
<1>2. \/ slices' = slices
      \/ slices' = Append(slices, prepared') /\ prepared' > prepared
  <2>1. CASE MainStep
    BY <2>1 DEF MainStep
  <2>2. CASE PlayerStep
    BY <2>2 DEF PlayerStep, Boot, SendStart, SendHeader, Open, SendBlock, SendStop, Close, Offer
  <2>3. CASE OtherStep \/ SlaveStep \/ UNCHANGED allVars
    BY <2>3 DEF OtherStep, SlaveStep, allVars, playerVars
  <2> QED
    BY <2>1, <2>2, <2>3 DEF PlayerNext
<1>3. CASE slices' = slices
  <2>1. \A k \in 1..Len(slices) : slices[k] =< prepared'
    BY <1>0, <1>1 DEF SlicesInOrder
  <2> QED
    BY <1>3, <2>1 DEF SlicesInOrder
<1>4. CASE slices' = Append(slices, prepared') /\ prepared' = prepared + 1
  <2>1. /\ slices' \in Seq(Nat) /\ Len(slices') = Len(slices) + 1
        /\ \A k \in 1..Len(slices) : slices'[k] = slices[k]
        /\ slices'[Len(slices) + 1] = prepared'
    BY <1>0, <1>4, AppendProperties
  <2>2. \A k \in 1..Len(slices') : k \in 1..Len(slices) \/ k = Len(slices) + 1
    BY <1>0, <2>1
  <2>3. \A k \in 1..Len(slices) : slices'[k] < prepared'
    BY <1>0, <1>4, <2>1 DEF SlicesInOrder
  <2>4. \A k \in 1..Len(slices') : slices'[k] =< prepared'
    BY <1>0, <1>4, <2>1, <2>2, <2>3
  <2>5. \A k, l \in 1..Len(slices') : k < l => slices'[k] < slices'[l]
    <3> SUFFICES ASSUME NEW k \in 1..Len(slices'), NEW l \in 1..Len(slices'), k < l
                 PROVE  slices'[k] < slices'[l]
      OBVIOUS
    <3>1. k \in 1..Len(slices) /\ slices'[k] = slices[k]
      BY <1>0, <2>1
    <3>2. CASE l \in 1..Len(slices)
      BY <3>1, <3>2, <2>1 DEF SlicesInOrder
    <3>3. CASE l = Len(slices) + 1
      BY <3>1, <3>3, <2>1, <2>3
    <3> QED
      BY <2>2, <3>2, <3>3
  <2> QED
    BY <2>1, <2>4, <2>5 DEF SlicesInOrder
<1> QED
  BY <1>0, <1>1, <1>2, <1>3, <1>4

\* What is taken in the order of the numbers, once each, is heard as a song.
LEMMA HeardAsSong ==
  ASSUME TypeOK, PromiseInv, SlicesInOrder, SettledInv, pc[Main] = "idle"
  PROVE  SongHeard
<1>0. /\ taken \in Seq(Nat) /\ Len(taken) \in Nat /\ \A i \in 1..Len(taken) : taken[i] \in Nat
      /\ \A k \in 1..Len(slices) : slices[k] \in Nat
  BY DEF TypeOK, SlicesInOrder
<1>1. ASSUME NEW k \in 1..Len(slices)
      PROVE  Cardinality(TakenAt(slices[k])) = IF slices[k] \in abandoned THEN 0 ELSE 1
  <2>1. CASE slices[k] \in abandoned
    <3>1. TakenAt(slices[k]) = {}
      BY <2>1 DEF TakenAt, PromiseInv, IsTaken
    <3> QED
      BY <2>1, <3>1, FS_EmptySet
  <2>2. CASE slices[k] \notin abandoned
    <3>1. slices[k] \in confirmed
      BY <2>2 DEF SettledInv, SettledUpTo
    <3>2. PICK i \in 1..Len(taken) : taken[i] = slices[k]
      BY <3>1 DEF PromiseInv, IsTaken
    <3>3. \A j \in 1..Len(taken) : taken[j] = slices[k] => j = i
      <4> SUFFICES ASSUME NEW j \in 1..Len(taken), taken[j] = slices[k], j # i PROVE FALSE
        OBVIOUS
      <4>1. i < j \/ j < i
        BY <1>0
      <4> QED
        BY <1>0, <3>2, <4>1 DEF PromiseInv
    <3>4. TakenAt(slices[k]) = {i}
      BY <3>2, <3>3 DEF TakenAt
    <3> QED
      BY <2>2, <3>4, FS_Singleton
  <2> QED
    BY <2>1, <2>2
<1>2. ASSUME NEW k \in 1..Len(slices), NEW l \in 1..Len(slices), k < l,
             NEW i \in TakenAt(slices[k]), NEW j \in TakenAt(slices[l])
      PROVE  i < j
  <2>1. /\ i \in 1..Len(taken) /\ taken[i] = slices[k]
        /\ j \in 1..Len(taken) /\ taken[j] = slices[l]
    BY DEF TakenAt
  <2>2. taken[i] < taken[j] /\ taken[i] \in Nat /\ taken[j] \in Nat
    BY <1>0, <1>2, <2>1 DEF SlicesInOrder
  <2>3. ~ (j < i) /\ i # j
    BY <2>1, <2>2 DEF PromiseInv
  <2> QED
    BY <1>0, <2>1, <2>3
<1> QED
  BY <1>1, <1>2 DEF SongHeard

\* As long as responses are neither lost nor late nor damaged, the slave hears
\* each request of main once, in the order of the song, or the link gave it up:
\* for a file of any size, any other threads and frames lost at will.
THEOREM SongHeardCorrect ==
  ASSUME ReliableReplies
  PROVE  PlayerSpec => []SongHeard
<1>1. PlayerInit => SettledInv /\ PromiseInv /\ SlicesInOrder
  BY PlayerAssumption DEF PlayerInit, Init, SettledInv, SettledUpTo, PromiseInv, SlicesInOrder
<1>2. PlayerInv /\ TypeOK /\ SettledInv /\ [PlayerNext]_allVars => SettledInv'
  BY SettledOffer, SettledMain, SettledOther DEF PlayerNext
<1>3. TypeOK /\ PlayerInv /\ SlicesInOrder /\ [PlayerNext]_allVars => SlicesInOrder'
  BY SlicesInOrderNext
<1>4. TypeOK /\ PromiseInv /\ [Delivery!Next]_(Delivery!vars) => PromiseInv'
  BY PromiseKept
<1>5. PlayerSpec => []TypeOK
  BY LinkImplemented, TypeCorrect, PTL
<1>6. PlayerSpec => [][Delivery!Next]_(Delivery!vars)
  BY LinkImplemented, DeliveryImplemented, PTL DEF ExactlyOnce, Delivery!Spec
<1>7. TypeOK /\ PromiseInv /\ SlicesInOrder /\ SettledInv => SongHeard
  <2>1. CASE pc[Main] = "idle"
    BY <2>1, HeardAsSong
  <2>2. CASE pc[Main] # "idle"
    BY <2>2 DEF SongHeard
  <2> QED
    BY <2>1, <2>2
<1> QED
  BY <1>1, <1>2, <1>3, <1>4, <1>5, <1>6, <1>7, PlayerInvInit, PlayerInvNext, PTL DEF PlayerSpec

=============================================================================
