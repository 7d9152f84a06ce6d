------------------------------ MODULE SsapLink ------------------------------
(***************************************************************************)
(* The master's side of the SPI link: any number of threads that call      *)
(* spim_send_command_data, the mutex that serialises them, the slices and  *)
(* the retries of a call, and the shared state the responses update; with  *)
(* an SPI slave that takes, refuses, loses and delays.                     *)
(***************************************************************************)
EXTENDS SsapProtocol, Sequences, FiniteSets

CONSTANTS
  Senders,       \* the threads that call spim_send_command_data
  NoSender,      \* the mutex is free
  Requests,      \* [Senders -> SUBSET Request]: the calls each thread makes
  Answers,       \* [Byte -> SUBSET Responses]: what the slave says to a command
  Faults,        \* which of FaultKinds the link shows
  Damaged,       \* SUBSET Response: what a damaged response is read as
  MaxSlice,      \* SSAP_SEND_DATA_LENGTH, 512 in the code
  RetryLimit,    \* 200 in the code
  MaxCalls,      \* bound: calls entered (send_command_data_count)
  MaxInFlight    \* bound: frames the slave has yet to answer

\* lostFrame: the slave never sees a frame (write fails, or the sync is missed).
\* lostReply: a response is gone before the master reads it.
\* lateReply: the master stops polling before a response the slave does send.
\* damagedReply: a response is read with other bytes than the slave sent; its
\* CRC would tell, but the master does not check it.
FaultKinds == {"lostFrame", "lostReply", "lateReply", "damagedReply"}

\* The arguments of a call: buffer_len, data_command and slice_len.
Request == [cmd: Byte, len: Nat, slice: Nat]

ASSUME SendersAssumption ==
  NoSender \notin Senders

ASSUME RequestsAssumption ==
  Requests \in [Senders -> SUBSET Request]

ASSUME AnswersAssumption ==
  /\ \A c \in Byte : Answers[c] \subseteq Responses
  /\ Damaged \subseteq Response

ASSUME BoundsAssumption ==
  /\ MaxSlice \in Nat /\ RetryLimit \in Nat
  /\ MaxCalls \in Nat /\ MaxInFlight \in Nat
  /\ Faults \subseteq FaultKinds

VARIABLES
  owner,       \* spi_send_data_mutex
  pc,          \* where each thread is in spim_send_command_data
  call,        \* its arguments and locals
  retries,     \* handle_response_count, static: shared and never reset on success
  connected,   \* spim_connected_spis_flag
  songStatus,  \* song_play_status
  calls,       \* send_command_data_count
  inbox,       \* frames on their way to the slave
  outbox,      \* responses on their way to the master
  \* History variables.  Every slice the master prepares gets the next number.
  prepared,    \* how many slices have been prepared
  taken,       \* the slices the slave took, in the order it took them
  confirmed,   \* the slices the master holds for delivered
  abandoned    \* the slices the master gave up

sharedVars  == <<retries, connected, songStatus>>
historyVars == <<prepared, taken, confirmed, abandoned>>
vars == <<owner, pc, call, sharedVars, calls, inbox, outbox, historyVars>>

\* A frame carries its command and the number of its slice.
Frame == [cmd: Byte, slice: Nat]

\* loc is data_buffer_point_loca, last is data_buffer_end_flag, and slice the
\* number of the slice in SPIM_SEND_BUFFER.
Locals == [cmd: Byte, len: Nat, slice: Nat, loc: Nat, last: BOOLEAN, no: Nat]

NewCall(r) == [cmd |-> r.cmd, len |-> r.len, slice |-> r.slice,
               loc |-> 0, last |-> FALSE, no |-> 0]

NoCall == NewCall([cmd |-> SSAP_CMD_UNKOWN, len |-> 0, slice |-> 0])

Init ==
  /\ owner = NoSender
  /\ pc = [s \in Senders |-> "idle"]
  /\ call = [s \in Senders |-> NoCall]
  /\ retries = 0
  /\ connected = FALSE
  /\ songStatus = SSAP_CMD_RESP_UNKOWN
  /\ calls = 0
  /\ inbox = <<>>
  /\ outbox = <<>>
  /\ prepared = 0
  /\ taken = <<>>
  /\ confirmed = {}
  /\ abandoned = {}

-----------------------------------------------------------------------------
(* The caller's side *)

\* A thread calls spim_send_command_data and blocks on the mutex.
Call(s, r) ==
  /\ pc[s] = "idle"
  /\ calls < MaxCalls
  /\ pc' = [pc EXCEPT ![s] = "lock"]
  /\ call' = [call EXCEPT ![s] = NewCall(r)]
  /\ UNCHANGED <<owner, sharedVars, calls, inbox, outbox, historyVars>>

\* A bug to tell from the code: a full slice is refused.
UnsupportedFull(c) == c.slice >= MaxSlice \/ c.cmd > SSPP_CMD_MAX

\* The two checks that end a call before anything is sent.
Unsupported(c) == c.slice > MaxSlice \/ c.cmd > SSPP_CMD_MAX

\* The mutex is taken, the arguments are refused, the mutex is released.
Reject(s) ==
  /\ pc[s] = "lock"
  /\ owner = NoSender
  /\ Unsupported(call[s])
  /\ pc' = [pc EXCEPT ![s] = "idle"]
  /\ call' = [call EXCEPT ![s] = NoCall]
  /\ UNCHANGED <<owner, sharedVars, calls, inbox, outbox, historyVars>>

\* A bug to tell from the code: the transfer begins without the mutex.
EnterUnlocked(s) ==
  /\ pc[s] = "lock"
  /\ ~ Unsupported(call[s])
  /\ owner' = s
  /\ pc' = [pc EXCEPT ![s] = "slice"]
  /\ calls' = calls + 1
  /\ UNCHANGED <<call, sharedVars, inbox, outbox, historyVars>>

\* The mutex is taken and the transfer begins.
Enter(s) ==
  /\ pc[s] = "lock"
  /\ owner = NoSender
  /\ ~ Unsupported(call[s])
  /\ owner' = s
  /\ pc' = [pc EXCEPT ![s] = "slice"]
  /\ calls' = calls + 1
  /\ UNCHANGED <<call, sharedVars, inbox, outbox, historyVars>>

\* A bug to tell from the code: the rest of the buffer is cut down before it is
\* compared, and underflows.
NextSliceUnderflow(c) ==
  [c EXCEPT !.loc = (@ + c.slice) % 2^16, !.len = @ - c.slice,
            !.last = c.len =< c.slice, !.no = prepared + 1]

\* The next slice of the buffer: all but the last have slice_len bytes, and
\* data_buffer_point_loca is a uint16_t.
NextSlice(c) ==
  IF c.len > c.slice
  THEN [c EXCEPT !.loc = (@ + c.slice) % 2^16, !.len = @ - c.slice, !.no = prepared + 1]
  ELSE [c EXCEPT !.last = TRUE, !.no = prepared + 1]

\* One slice is copied into SPIM_SEND_BUFFER.
PrepareSlice(s) ==
  /\ pc[s] = "slice"
  /\ pc' = [pc EXCEPT ![s] = "send"]
  /\ call' = [call EXCEPT ![s] = NextSlice(@)]
  /\ prepared' = prepared + 1
  /\ UNCHANGED <<owner, sharedVars, calls, inbox, outbox, taken, confirmed, abandoned>>

\* The frame is written to the bus, in blocks of 32 bytes whose errors are
\* ignored.
SendFrame(s) ==
  /\ pc[s] = "send"
  /\ pc' = [pc EXCEPT ![s] = "wait"]
  /\ \/ inbox' = Append(inbox, [cmd |-> call[s].cmd, slice |-> call[s].no])
     \/ "lostFrame" \in Faults /\ inbox' = inbox
  /\ UNCHANGED <<owner, call, sharedVars, calls, outbox, historyVars>>

-----------------------------------------------------------------------------
(* handle_spis_response *)

\* The counted failure that is one too many.
GivesUp(r) == RetryCounted(r) /\ retries + 1 > RetryLimit

\* The responses that end the slice because its data is through.
Delivers(r) == SliceTaken(r) \/ ControlTaken(r) \/ TokenTaken(r)

\* *slice_end_flag and *frame_end_flag after the response r.  A stream answer
\* ends the frame with its last slice; the other branches end it at once.
EndsSlice(r) == Delivers(r) \/ GivesUp(r)

\* A bug to tell from the code: data_buffer_flag is not asked for.
EndsFrameEarly(r, last) ==
  SliceTaken(r) \/ ControlTaken(r) \/ TokenTaken(r) \/ GivesUp(r)

EndsFrame(r, last) ==
  \/ SliceTaken(r) /\ last
  \/ ControlTaken(r) \/ TokenTaken(r) \/ GivesUp(r)

\* Past RetryLimit the counter takes part in no other decision than
\* GivesUp, so it is kept at RetryLimit + 1 from there on.
NextRetries(r) ==
  IF GivesUp(r) THEN 0
  ELSE IF (RetryCounted(r) \/ TokenRefused(r)) /\ retries =< RetryLimit
       THEN retries + 1
       ELSE retries

\* A bug to tell from the code: giving up leaves the connection flagged as up.
UpdateSharedUp(r) ==
  /\ retries' = NextRetries(r)
  /\ connected' = (TokenTaken(r) \/ connected)
  /\ songStatus' = IF TokenTaken(r) /\ r.response \in SongResponses
                   THEN r.response ELSE songStatus

UpdateShared(r) ==
  /\ retries' = NextRetries(r)
  /\ connected' = (TokenTaken(r) \/ (connected /\ ~ GivesUp(r)))
  /\ songStatus' = IF TokenTaken(r) /\ r.response \in SongResponses
                   THEN r.response ELSE songStatus

\* What the caller does with the response: send the slice again, prepare the
\* next one, or release the mutex and return.
NextPc(s, r) ==
  IF ~ EndsSlice(r) THEN "send"
  ELSE IF EndsFrame(r, call[s].last) THEN "idle" ELSE "slice"

\* A bug to tell from the code: giving up returns with the mutex held.
NextOwnerHeld(s, r) ==
  IF NextPc(s, r) = "idle" /\ ~ GivesUp(r) THEN NoSender ELSE owner

NextOwner(s, r) == IF NextPc(s, r) = "idle" THEN NoSender ELSE owner

HandleResponse(s, r) ==
  /\ UpdateShared(r)
  /\ pc' = [pc EXCEPT ![s] = NextPc(s, r)]
  /\ owner' = NextOwner(s, r)
  /\ call' = [call EXCEPT ![s] = IF NextPc(s, r) = "idle" THEN NoCall ELSE @]
  /\ confirmed' = confirmed \cup (IF Delivers(r) THEN {call[s].no} ELSE {})
  /\ abandoned' = abandoned \cup (IF GivesUp(r) THEN {call[s].no} ELSE {})
  /\ UNCHANGED <<calls, inbox, prepared, taken>>

\* spis_respones_command finds a sync byte: the oldest response there is.
ReadResponse(s) ==
  /\ pc[s] = "wait"
  /\ outbox # <<>>
  /\ outbox' = Tail(outbox)
  /\ HandleResponse(s, Head(outbox))

\* spis_respones_command gives up after 10000 bytes without a sync byte.  The
\* slave may be about to answer only if the link shows lateReply.
PollTimeout(s) ==
  /\ pc[s] = "wait"
  /\ outbox = <<>>
  /\ \/ inbox = <<>>
     \/ "lateReply" \in Faults /\ Len(inbox) < MaxInFlight
  /\ HandleResponse(s, NoResponse)
  /\ UNCHANGED outbox

-----------------------------------------------------------------------------
(* The slave, which is no part of the repository *)

\* The answers that say the slave took the frame.
Takes(cmd, a) ==
  \/ cmd \in StreamCommands /\ a = SSAP_CMD_RESP_OKSEND
  \/ cmd \in ControlCommands /\ a = SSAP_CMD_RESP_OKCMD
  \/ cmd = SSAP_CMD_TOKEN /\ a \in ModeResponses \cup SongResponses

\* The slave handles its oldest frame and answers it, echoing its command.
SlaveAnswers(f, a) ==
  /\ inbox # <<>>
  /\ f = Head(inbox)
  /\ inbox' = Tail(inbox)
  /\ outbox' = Append(outbox, [command |-> f.cmd, response |-> a])
  /\ taken' = IF Takes(f.cmd, a) THEN Append(taken, f.slice) ELSE taken
  /\ UNCHANGED <<owner, pc, call, sharedVars, calls, prepared, confirmed, abandoned>>

Slave == inbox # <<>> /\ \E a \in Answers[Head(inbox).cmd] : SlaveAnswers(Head(inbox), a)

\* A response is lost, its sync byte damaged or clocked out during a write.
LoseReply ==
  /\ "lostReply" \in Faults
  /\ outbox # <<>>
  /\ outbox' = Tail(outbox)
  /\ UNCHANGED <<owner, pc, call, sharedVars, calls, inbox, historyVars>>

\* A response is damaged on its way, its sync byte is not.
DamageReply(r) ==
  /\ "damagedReply" \in Faults
  /\ outbox # <<>>
  /\ outbox' = [outbox EXCEPT ![1] = r]
  /\ UNCHANGED <<owner, pc, call, sharedVars, calls, inbox, historyVars>>

-----------------------------------------------------------------------------
SenderStep(s) ==
  \/ Reject(s) \/ Enter(s) \/ PrepareSlice(s)
  \/ SendFrame(s) \/ ReadResponse(s) \/ PollTimeout(s)

Next ==
  \/ \E s \in Senders : \E r \in Requests[s] : Call(s, r)
  \/ \E s \in Senders : SenderStep(s)
  \/ Slave
  \/ LoseReply
  \/ \E r \in Damaged : DamageReply(r)

Spec == Init /\ [][Next]_vars

\* A thread is scheduled again and again, and a lock that is free is granted;
\* the slave goes on handling the frames it has.
FairSpec ==
  /\ Spec
  /\ \A s \in Senders : WF_vars(SenderStep(s))
  /\ WF_vars(Slave)

\* The slave's buffer drains: it does not refuse a frame for ever.
DrainingSpec == FairSpec /\ SF_vars(Slave /\ taken' # taken)

-----------------------------------------------------------------------------
(* Properties *)

IsTaken(n) == \E i \in 1..Len(taken) : taken[i] = n

\* Types of the state; retries keeps to its cap.
TypeOK ==
  /\ owner \in Senders \cup {NoSender}
  /\ pc \in [Senders -> {"idle", "lock", "slice", "send", "wait"}]
  /\ call \in [Senders -> Locals]
  /\ retries \in 0..RetryLimit + 1
  /\ connected \in BOOLEAN
  /\ songStatus \in Responses
  /\ calls \in Nat
  /\ inbox \in Seq(Frame)
  /\ outbox \in Seq(Response)
  /\ prepared \in Nat
  /\ taken \in Seq(Nat)
  /\ confirmed \subseteq Nat
  /\ abandoned \subseteq Nat

\* Whatever the link loses or delays, and however the threads' calls meet at
\* the mutex, retries never make the slave take a slice after a later one.
InOrder ==
  \A i, j \in 1..Len(taken) : i < j => taken[i] =< taken[j]

\* The slices the master holds for delivered are with the slave.
ConfirmedIsTaken == \A n \in confirmed : IsTaken(n)

\* spim_send_command_data returns either with all of the buffer taken by the
\* slave or with the connection flagged as down.
NoSilentLoss ==
  [][\A s \in Senders :
       pc[s] = "wait" /\ pc'[s] = "idle"
         => (call[s].last /\ IsTaken(call[s].no)) \/ ~ connected']_vars

\* With responses neither lost nor late, every slice is delivered once, and
\* what the master believes of it is true.
Delivery == INSTANCE SliceDelivery WITH offered <- prepared
ExactlyOnce == Delivery!Spec

\* A thread that has the link gives it back: no call retries for ever with
\* the mutex held.
LinkReleased == \A s \in Senders : owner = s ~> owner # s

\* "token error, spi cannot connect!!!": a token the slave does not accept is
\* given up, as the data is, and the mutex released.
TokenGivesUp ==
  \A s \in Senders :
    (owner = s /\ call[s].cmd = SSAP_CMD_TOKEN) ~> owner # s

\* ssap_protocol.h lists which responses belong to which command: the one the
\* master acts on answers the command it sent.
AnswerMatchesCommand ==
  [][\A s \in Senders :
       pc[s] = "wait" /\ outbox' # outbox /\ pc'[s] # "wait"
         => Head(outbox).command = call[s].cmd]_vars

=============================================================================
