-------------------------- MODULE SpeechRecognizer --------------------------
(***************************************************************************)
(* One listening: sr_start_listening and sr_stop_listening of              *)
(* speech_recognizer.c as the recognition thread steps through them, the   *)
(* record thread of linuxrec.c with the callback iat_cb that it runs, and  *)
(* the sessions of the recognition service, a binary library.  The two     *)
(* threads share struct speech_rec and the recorder without a lock.        *)
(***************************************************************************)
EXTENDS Naturals, FiniteSets

CONSTANTS
  MaxSessions,     \* bound: sessions begun
  PromptThreads    \* TRUE: a call of the service outlasts the code between two calls

ASSUME SpeechRecognizerAssumption ==
  /\ MaxSessions \in Nat
  /\ PromptThreads \in BOOLEAN

\* The struct that sr_init fills and the record thread's callback keeps, and
\* the copy of it that handle_isr_result gets by value.
Structs   == {"orig", "copy"}
NoSession == 0
Sessions  == 1..MaxSessions

\* The endpointer, in the code's order; "BEYOND" is a timeout, an error or too
\* long a speech, all after AFTER_SPEECH.
EpStates  == {"LOOKING_FOR_SPEECH", "AFTER_SPEECH", "BEYOND"}
RecStates == {"SUCCESS", "INCOMPLETE", "COMPLETE"}

VARIABLES
  sr,          \* [Structs -> struct speech_rec]
  recorder,    \* rec->state, shared by the two structs
  startSem,    \* sem_start_record
  buffer,      \* g_result is allocated
  result,      \* the sessions whose text g_result holds
  isr,         \* where the recognition thread is
  target,      \* the struct it passes to sr_start_listening and sr_stop_listening
  record,      \* where the record thread is
  rslt,        \* the session whose text it holds
  running,     \* the process is alive
  open,        \* the service's open sessions
  begun,       \* how many it has begun
  \* History variables.
  heard,       \* the session of the present listening, NoSession if it has none
  over         \* an error or the end of speech was met since it began

srVars == <<sr, recorder, startSem, buffer, result, isr, target, record,
            rslt, running, open, begun, heard, over>>

SpeechRec ==
  [session: Sessions \cup {NoSession}, ep: EpStates, rec: RecStates, state: {"INIT", "STARTED"}]

SrTypeOK ==
  /\ sr \in [Structs -> SpeechRec]
  /\ recorder \in {"CREATED", "READY", "STOPPING", "RECORDING"}
  /\ startSem \in Nat
  /\ buffer \in BOOLEAN /\ running \in BOOLEAN /\ over \in BOOLEAN
  /\ result \subseteq Sessions
  /\ target \in Structs
  /\ record \in {"wait", "loop", "read", "write", "get", "append", "vad", "poll",
                 "pollAppend", "vadEnd", "fail", "forget", "again", "forgetAgain", "gone"}
  /\ rslt \in Sessions \cup {NoSession}
  /\ open \subseteq Sessions
  /\ begun \in 0..MaxSessions
  /\ heard \in Sessions \cup {NoSession}

NewSpeechRec == [session |-> NoSession, ep |-> "LOOKING_FOR_SPEECH", rec |-> "SUCCESS", state |-> "INIT"]

\* sr_init_ex.  open_recorder would return 0 even if the device does not open,
\* but first logs the state of the device through a handle that is then NULL.
SrInit ==
  /\ sr = [x \in Structs |-> NewSpeechRec]
  /\ recorder \in {"CREATED", "READY"}
  /\ startSem = 0
  /\ buffer = FALSE /\ result = {}
  /\ isr = "idle" /\ target = "orig"
  /\ record = "wait" /\ rslt = NoSession
  /\ running = (recorder = "READY")
  /\ open = {} /\ begun = 0
  /\ heard = NoSession /\ over = FALSE

-----------------------------------------------------------------------------
(* The service: what a call may answer *)

\* QISRAudioWrite and QISRGetResult fail on a session that is not open, and may
\* fail on one that is.
Usable(s) == s \in open

\* QISRSessionEnd: the session is gone; ending it again does nothing.
Ended(s) == open \ {s}

-----------------------------------------------------------------------------
(* The recorder *)

StopRecord == recorder' = IF recorder = "RECORDING" THEN "STOPPING" ELSE recorder

\* on_rec_result appends to g_result; without a buffer strlen(NULL) is the end.
OnRecResult(s) ==
  /\ result' = IF buffer THEN result \cup {s} ELSE result
  /\ running' = buffer

-----------------------------------------------------------------------------
(* sr_start_listening, by the recognition thread *)

In(place) == running /\ isr = place

\* A thread is in straight-line code: nothing it does waits for anyone.
RecordIsBusy == record \in {"append", "vad", "pollAppend", "vadEnd", "fail",
                            "forget", "again", "forgetAgain"}
StartIsBusy  == isr = "begin result"

\* The state is not checked by the caller: a refused start goes on as a
\* listening that hears nothing.
StartRefused ==
  /\ In("begin")
  /\ isr' = "listening"
  /\ heard' = NoSession
  /\ UNCHANGED <<sr, recorder, startSem, buffer, result, target, record, rslt, running, open, begun, over>>

SessionBegin ==
  /\ In("begin")
  /\ sr[target].state # "STARTED"
  /\ PromptThreads => ~RecordIsBusy
  /\ begun < MaxSessions
  /\ begun' = begun + 1
  /\ open' = open \cup {begun'}
  /\ sr' = [sr EXCEPT ![target].session = begun']
  /\ heard' = begun'
  /\ over' = FALSE
  /\ isr' = "arm"
  /\ UNCHANGED <<recorder, startSem, buffer, result, target, record, rslt, running>>

\* A bug to tell from the code: the end of the last speech is still noted.
RearmedLate(x) == [x EXCEPT !.rec = "SUCCESS"]

Rearmed(x) == [x EXCEPT !.ep = "LOOKING_FOR_SPEECH", !.rec = "SUCCESS"]

\* start_record refuses a recorder that is not open, and the session is ended.
StartRecord ==
  /\ In("arm")
  /\ IF recorder = "CREATED"
     THEN /\ open' = Ended(sr[target].session)
          /\ sr' = [sr EXCEPT ![target] = [Rearmed(@) EXCEPT !.session = NoSession]]
          /\ heard' = NoSession
          /\ isr' = "listening"
          /\ UNCHANGED recorder
     ELSE /\ recorder' = "RECORDING"
          /\ sr' = [sr EXCEPT ![target] = Rearmed(@)]
          /\ isr' = "post"
          /\ UNCHANGED <<open, heard>>
  /\ UNCHANGED <<startSem, buffer, result, target, record, rslt, running, begun, over>>

PostStartRecord ==
  /\ In("post")
  /\ sr' = [sr EXCEPT ![target].state = "STARTED"]
  /\ startSem' = startSem + 1
  /\ isr' = "begin result"
  /\ UNCHANGED <<recorder, buffer, result, target, record, rslt, running, open, begun, heard, over>>

\* A bug to tell from the code: g_result is only allocated, never cleared.
OnRecBeginKeeps ==
  /\ In("begin result")
  /\ buffer' = TRUE
  /\ isr' = "listening"
  /\ UNCHANGED <<sr, recorder, startSem, result, target, record, rslt, running, open, begun, heard, over>>

\* on_rec_begin: after the record thread has been let go.
OnRecBegin ==
  /\ In("begin result")
  /\ buffer' = TRUE
  /\ result' = {}
  /\ isr' = "listening"
  /\ UNCHANGED <<sr, recorder, startSem, target, record, rslt, running, open, begun, heard, over>>

StartListening == StartRefused \/ SessionBegin \/ StartRecord \/ PostStartRecord \/ OnRecBegin

-----------------------------------------------------------------------------
(* sr_stop_listening, by the recognition thread *)

StopListening ==
  /\ In("stop")
  /\ StopRecord
  /\ sr' = [sr EXCEPT ![target].state = "INIT"]
  /\ isr' = "last"
  /\ UNCHANGED <<startSem, buffer, result, target, record, rslt, running, open, begun, heard, over>>

\* The LAST sample is written.
LastWritten(ep, rec) ==
  /\ In("last")
  /\ Usable(sr[target].session)
  /\ sr' = [sr EXCEPT ![target].ep = ep, ![target].rec = rec]
  /\ isr' = "drain"
  /\ UNCHANGED <<recorder, startSem, buffer, result, target, record, rslt, running, open, begun, heard, over>>

\* A bug to tell from the code: the failed write returns at once.
LastRefusedLeaks ==
  /\ In("last")
  /\ isr' = "stopped"
  /\ UNCHANGED <<sr, recorder, startSem, buffer, result, target, record, rslt, running, open, begun, heard, over>>

\* It is not: the session is ended and the results are not asked for.
LastRefused ==
  /\ In("last")
  /\ open' = Ended(sr[target].session)
  /\ isr' = "stopped"
  /\ UNCHANGED <<sr, recorder, startSem, buffer, result, target, record, rslt, running, begun, heard, over>>

\* A result, and perhaps a piece of text with it.
DrainResult(rec) ==
  /\ In("drain")
  /\ sr[target].rec # "COMPLETE"
  /\ Usable(sr[target].session)
  /\ sr' = [sr EXCEPT ![target].rec = rec]
  /\ \/ OnRecResult(sr[target].session)
     \/ UNCHANGED <<result, running>>
  /\ UNCHANGED <<recorder, startSem, buffer, isr, target, record, rslt, open, begun, heard, over>>

\* A bug to tell from the code: a failed QISRGetResult is tried again.
DrainRetries ==
  /\ In("drain")
  /\ sr[target].rec # "COMPLETE"
  /\ UNCHANGED srVars

\* end_sr_on_error
DrainFails ==
  /\ In("drain")
  /\ sr[target].rec # "COMPLETE"
  /\ StopRecord
  /\ open' = Ended(sr[target].session)
  /\ sr' = [sr EXCEPT ![target].session = NoSession, ![target].state = "INIT"]
  /\ over' = TRUE
  /\ isr' = "stopped"
  /\ UNCHANGED <<startSem, buffer, result, target, record, rslt, running, begun, heard>>

\* The session is ended; sr->session_id keeps its name.
DrainDone ==
  /\ In("drain")
  /\ sr[target].rec = "COMPLETE"
  /\ open' = Ended(sr[target].session)
  /\ isr' = "stopped"
  /\ UNCHANGED <<sr, recorder, startSem, buffer, result, target, record, rslt, running, begun, heard, over>>

StopSteps ==
  \/ StopListening
  \/ \E ep \in EpStates, rec \in RecStates : LastWritten(ep, rec)
  \/ LastRefused
  \/ \E rec \in RecStates : DrainResult(rec)
  \/ DrainFails
  \/ DrainDone

-----------------------------------------------------------------------------
(* The record thread *)

At(from, to) == running /\ record = from /\ record' = to

\* What the record thread does not touch.
KeepIsr == UNCHANGED <<buffer, isr, target, begun, heard>>
KeepAll == KeepIsr /\ UNCHANGED <<sr, recorder, startSem, result, rslt, running, open, over>>

TakeStart ==
  /\ startSem > 0
  /\ At("wait", "loop")
  /\ startSem' = startSem - 1
  /\ KeepIsr /\ UNCHANGED <<sr, recorder, result, rslt, running, open, over>>

RecordLoop ==
  /\ At("loop", IF recorder = "RECORDING" THEN "read" ELSE "wait")
  /\ KeepAll

\* iat_cb: the samples go to the session of the struct it was created with, or
\* they are ignored.
Ignores(x) == x.ep # "LOOKING_FOR_SPEECH" \/ x.state # "STARTED"

PcmRead ==
  /\ At("read", IF Ignores(sr["orig"]) THEN "loop" ELSE "write")
  /\ KeepAll

\* The device fails: the thread returns.
PcmReadFails ==
  /\ At("read", "gone")
  /\ KeepAll

AfterResult(x) == IF x.ep = "AFTER_SPEECH" THEN "vad" ELSE "loop"

AudioWrite(ep, rec) ==
  /\ Usable(sr["orig"].session)
  /\ sr' = [sr EXCEPT !["orig"].ep = ep, !["orig"].rec = rec]
  /\ At("write", IF rec = "SUCCESS" THEN "get" ELSE AfterResult(sr'["orig"]))
  /\ over' = (over \/ ep = "BEYOND")
  /\ KeepIsr /\ UNCHANGED <<recorder, startSem, result, rslt, running, open>>

CallFails ==
  /\ At("write", "fail") \/ At("get", "fail")
  /\ KeepAll

GetResult(rec, text) ==
  /\ PromptThreads => ~StartIsBusy
  /\ Usable(sr["orig"].session)
  /\ sr' = [sr EXCEPT !["orig"].rec = rec]
  /\ At("get", IF text THEN "append" ELSE AfterResult(sr["orig"]))
  /\ rslt' = IF text THEN sr["orig"].session ELSE NoSession
  /\ KeepIsr /\ UNCHANGED <<recorder, startSem, result, running, open, over>>

Append ==
  /\ At("append", AfterResult(sr["orig"]))
  /\ OnRecResult(rslt)
  /\ rslt' = NoSession
  /\ KeepIsr /\ UNCHANGED <<sr, recorder, startSem, open, over>>

\* end_sr_on_vad: until the recognition is complete; a failed call is called
\* again, and an ended session never completes.
VadStops ==
  /\ At("vad", "poll")
  /\ StopRecord
  /\ over' = TRUE
  /\ KeepIsr /\ UNCHANGED <<sr, startSem, result, rslt, running, open>>

VadPoll(rec, text) ==
  /\ PromptThreads => ~StartIsBusy
  /\ sr["orig"].rec # "COMPLETE"
  /\ Usable(sr["orig"].session)
  /\ sr' = [sr EXCEPT !["orig"].rec = rec]
  /\ At("poll", IF text THEN "pollAppend" ELSE "poll")
  /\ rslt' = IF text THEN sr["orig"].session ELSE NoSession
  /\ KeepIsr /\ UNCHANGED <<recorder, startSem, result, running, open, over>>

VadAppend ==
  /\ At("pollAppend", "poll")
  /\ OnRecResult(rslt)
  /\ rslt' = NoSession
  /\ KeepIsr /\ UNCHANGED <<sr, recorder, startSem, open, over>>

VadComplete ==
  /\ sr["orig"].rec = "COMPLETE"
  /\ At("poll", "vadEnd")
  /\ KeepAll

VadEnds ==
  /\ At("vadEnd", "loop")
  /\ sr' = [sr EXCEPT !["orig"].state = "INIT"]
  /\ over' = TRUE
  /\ KeepIsr /\ UNCHANGED <<recorder, startSem, result, rslt, running, open>>

\* end_sr_on_error, by sr_write_audio_data and once more by iat_cb.
EndOnError(from, to) ==
  /\ At(from, to)
  /\ sr["orig"].session # NoSession
  /\ StopRecord
  /\ open' = Ended(sr["orig"].session)
  /\ over' = TRUE
  /\ KeepIsr /\ UNCHANGED <<sr, startSem, result, rslt, running>>

NothingToEnd(from, to) ==
  /\ At(from, to)
  /\ sr["orig"].session = NoSession
  /\ StopRecord
  /\ sr' = [sr EXCEPT !["orig"].state = "INIT"]
  /\ over' = TRUE
  /\ KeepIsr /\ UNCHANGED <<startSem, result, rslt, running, open>>

ForgetSession(from, to) ==
  /\ At(from, to)
  /\ sr' = [sr EXCEPT !["orig"].session = NoSession, !["orig"].state = "INIT"]
  /\ KeepIsr /\ UNCHANGED <<recorder, startSem, result, rslt, running, open, over>>

\* The two calls: where each starts, where it forgets the session, what follows.
ErrorCalls == {<<"fail", "forget", "again">>, <<"again", "forgetAgain", "loop">>}

RecordThread ==
  \/ TakeStart \/ RecordLoop \/ PcmRead \/ PcmReadFails
  \/ \E ep \in EpStates, rec \in RecStates : AudioWrite(ep, rec)
  \/ CallFails
  \/ \E rec \in RecStates, text \in BOOLEAN : GetResult(rec, text)
  \/ Append
  \/ VadStops
  \/ \E rec \in RecStates, text \in BOOLEAN : VadPoll(rec, text)
  \/ VadAppend \/ VadComplete \/ VadEnds
  \/ \E c \in ErrorCalls :
       \/ EndOnError(c[1], c[2])
       \/ NothingToEnd(c[1], c[3])
       \/ ForgetSession(c[2], c[3])

=============================================================================
