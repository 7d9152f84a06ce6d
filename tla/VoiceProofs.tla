----------------------------- MODULE VoiceProofs -----------------------------
(***************************************************************************)
(* Theorems about VoiceAssistant, for any number of wake-ups and sessions. *)
(***************************************************************************)
EXTENDS VoiceAssistant, TLAPS

-----------------------------------------------------------------------------
(* What the steps of a thread leave alone *)

\* The record thread moves nothing of the recognition thread and of its loop.
LEMMA RecorderKeeps ==
  ASSUME Recorder
  PROVE  UNCHANGED <<buffer, isr, target, begun, heard>> /\ UNCHANGED voiceVars
<1>1. RecordThread /\ UNCHANGED voiceVars
  BY DEF Recorder
<1>2. KeepIsr
  BY <1>1 DEF RecordThread, TakeStart, RecordLoop, PcmRead, PcmReadFails, AudioWrite, CallFails, GetResult,
     Append, VadStops, VadPoll, VadAppend, VadComplete, VadEnds, EndOnError, NothingToEnd, ForgetSession, KeepAll
<1>3. QED
  BY <1>1, <1>2 DEF KeepIsr

\* Inside sr_start_listening and sr_stop_listening the thread is not at the
\* places of its loop that matter to the semaphores.
Inside == {"begin", "arm", "post", "begin result", "listening", "stop", "last", "drain", "stopped"}

LEMMA ListeningStaysInside ==
  ASSUME Listening
  PROVE  isr \in Inside /\ isr' \in Inside
<1>1. CASE StartListening
  BY <1>1 DEF StartListening, StartRefused, SessionBegin, StartRecord, PostStartRecord, OnRecBegin, In, Inside
<1>2. CASE StopSteps
  BY <1>2 DEF StopSteps, StopListening, LastWritten, LastRefused, DrainResult, DrainFails, DrainDone, In, Inside
<1>3. QED
  BY <1>1, <1>2 DEF Listening

-----------------------------------------------------------------------------
(* Wake-ups *)

\* The flag is up, and the wake-up thread not on its way to clear it, only while
\* the recognition thread waits with nothing pending: then a post makes one.
WakeInv ==
  /\ wakeSem \in {0, 1}
  /\ isr # "idle" => wakeSem = 0
  /\ poll = "first" \/ (poll = "poll" /\ micEnabled) => isr = "idle" /\ wakeSem = 0

\* No wake-up is left pending behind the one that is being answered.
THEOREM WakeNotQueuedCorrect == Spec => []WakeNotQueued
<1>1. Init => WakeInv
  BY DEF Init, SrInit, WakeInv
<1>2. WakeInv /\ [Next]_vars => WakeInv'
  <2> SUFFICES ASSUME WakeInv, [Next]_vars
               PROVE  WakeInv'
    OBVIOUS
  <2>1. CASE TakeWakeup
    BY <2>1 DEF WakeInv, TakeWakeup, Go, In, micVars
  <2>2. CASE EnableMic
    BY <2>2 DEF WakeInv, EnableMic, Go, In
  <2>3. CASE ListenOn \/ ListenedEnough \/ HandleSecondResult
    BY <2>3 DEF WakeInv, ListenOn, ListenedEnough, HandleSecondResult, Go, In, micVars
  <2>4. CASE HandleResult
    BY <2>4 DEF WakeInv, HandleResult, Parsed, Answers, In, micVars
  <2>5. CASE TakeTurn \/ PutText \/ SetPlayUrl
    <3>1. isr # "idle" /\ isr' # "idle"
      BY <2>5 DEF TakeTurn, PutText, SetPlayUrl, Go, In
    <3>2. UNCHANGED <<wakeSem, micVars>>
      BY <2>5 DEF TakeTurn, PutText, SetPlayUrl
    <3>3. QED
      BY <3>1, <3>2 DEF WakeInv, micVars
  <2>6. CASE Listening /\ UNCHANGED voiceVars
    BY <2>6, ListeningStaysInside DEF WakeInv, Inside, voiceVars, micVars
  <2>7. CASE Recorder
    BY <2>7, RecorderKeeps DEF WakeInv, voiceVars, micVars
  <2>8. CASE FirstInterrupt
    BY <2>8 DEF WakeInv, FirstInterrupt, srVars
  <2>9. CASE PostWakeup
    BY <2>9 DEF WakeInv, PostWakeup, srVars
  <2>10. CASE ClearMicFlag
    BY <2>10 DEF WakeInv, ClearMicFlag, srVars
  <2>11. CASE Spoken
    BY <2>11 DEF WakeInv, Spoken, srVars, micVars
  <2>12. CASE UNCHANGED vars
    BY <2>12 DEF WakeInv, vars, srVars, voiceVars, micVars
  <2>13. QED
    BY <2>1, <2>2, <2>3, <2>4, <2>5, <2>6, <2>7, <2>8, <2>9, <2>10, <2>11, <2>12
       DEF Next, IsrThread, VoiceLoop, WakeupThread
<1>3. WakeInv => WakeNotQueued
  BY DEF WakeInv, WakeNotQueued
<1>4. QED
  BY <1>1, <1>2, <1>3, PTL DEF Spec

-----------------------------------------------------------------------------
(* Turns of the text-to-speech thread *)

\* There is one turn: in the semaphore, with the thread that puts a text, or
\* with the thread that speaks it.
TurnInv ==
  /\ putSem \in {0, 1}
  /\ isr = "put" => putSem = 0 /\ ~speaking
  /\ speaking => putSem = 0

\* A text is put only when the one before has been spoken, whether a text that
\* is not taken costs the turn (PutFaults) or not.
THEOREM OneTextCorrect == Spec => []OneTextAtATime
<1>1. Init => TurnInv
  BY DEF Init, SrInit, TurnInv
<1>2. TurnInv /\ [Next]_vars => TurnInv'
  <2> SUFFICES ASSUME TurnInv, [Next]_vars
               PROVE  TurnInv'
    OBVIOUS
  <2>1. CASE TakeTurn
    BY <2>1 DEF TurnInv, TakeTurn, Go, In
  <2>2. CASE PutText
    BY <2>2 DEF TurnInv, PutText, In
  <2>3. CASE SetPlayUrl \/ EnableMic
    BY <2>3 DEF TurnInv, SetPlayUrl, EnableMic, Go, In
  <2>4. CASE TakeWakeup \/ ListenOn \/ ListenedEnough \/ HandleSecondResult
    BY <2>4 DEF TurnInv, TakeWakeup, ListenOn, ListenedEnough, HandleSecondResult, Go, In, ttsVars
  <2>5. CASE HandleResult
    BY <2>5 DEF TurnInv, HandleResult, Parsed, Answers, In
  <2>6. CASE Listening /\ UNCHANGED voiceVars
    BY <2>6, ListeningStaysInside DEF TurnInv, Inside, voiceVars, ttsVars
  <2>7. CASE Recorder
    BY <2>7, RecorderKeeps DEF TurnInv, voiceVars, ttsVars
  <2>8. CASE WakeupThread
    BY <2>8 DEF TurnInv, WakeupThread, FirstInterrupt, PostWakeup, ClearMicFlag, srVars, ttsVars
  <2>9. CASE Spoken
    BY <2>9 DEF TurnInv, Spoken, srVars
  <2>10. CASE UNCHANGED vars
    BY <2>10 DEF TurnInv, vars, srVars, voiceVars, ttsVars
  <2>11. QED
    BY <2>1, <2>2, <2>3, <2>4, <2>5, <2>6, <2>7, <2>8, <2>9, <2>10 DEF Next, IsrThread, VoiceLoop
<1>3. TurnInv => OneTextAtATime
  BY DEF TurnInv, OneTextAtATime
<1>4. QED
  BY <1>1, <1>2, <1>3, PTL DEF Spec

-----------------------------------------------------------------------------
(* Sessions *)

SpeechRecs == [session: Nat, ep: EpStates, rec: RecStates, state: {"INIT", "STARTED"}]

\* Both structs are well-formed and name only sessions that have been begun.
StructInv ==
  /\ begun \in Nat
  /\ target \in Structs
  /\ sr \in [Structs -> SpeechRecs]
  /\ \A x \in Structs : sr[x].session =< begun

\* Where the recognition thread may hold a session.
Holding == {"arm", "post", "begin result", "listening", "stop", "last", "drain"}

Forgetting == record \in {"forget", "forgetAgain"}

\* The one session that may be open is the one the target names.  While it is
\* the copy's, the original names another; and a struct whose name is about to be
\* dropped names one that is ended.
SessionInv ==
  /\ NoSession \notin open
  /\ open # {} => isr \in Holding /\ open = {sr[target].session}
  /\ target = "copy" \/ Forgetting => sr["orig"].session \notin open

LEMMA NewSpeechRecType == NewSpeechRec \in SpeechRecs
  BY DEF NewSpeechRec, SpeechRecs, EpStates, RecStates, NoSession

\* Assigning fields of a struct gives a struct.
LEMMA FieldTypes ==
  ASSUME StructInv, NEW x \in Structs
  PROVE  /\ \A n \in Nat : [sr EXCEPT ![x].session = n] \in [Structs -> SpeechRecs]
         /\ \A state \in {"INIT", "STARTED"} : [sr EXCEPT ![x].state = state] \in [Structs -> SpeechRecs]
         /\ \A rec \in RecStates : [sr EXCEPT ![x].rec = rec] \in [Structs -> SpeechRecs]
         /\ \A ep \in EpStates, rec \in RecStates :
              [sr EXCEPT ![x].ep = ep, ![x].rec = rec] \in [Structs -> SpeechRecs]
         /\ [sr EXCEPT ![x].session = NoSession, ![x].state = "INIT"] \in [Structs -> SpeechRecs]
         /\ [sr EXCEPT ![x] = Rearmed(@)] \in [Structs -> SpeechRecs]
         /\ [sr EXCEPT ![x] = [Rearmed(@) EXCEPT !.session = NoSession]] \in [Structs -> SpeechRecs]
<1>1. sr[x] \in SpeechRecs
  BY DEF StructInv
<1>2. /\ \A n \in Nat : [sr[x] EXCEPT !.session = n] \in SpeechRecs
      /\ \A state \in {"INIT", "STARTED"} : [sr[x] EXCEPT !.state = state] \in SpeechRecs
      /\ \A ep \in EpStates, rec \in RecStates : [sr[x] EXCEPT !.ep = ep, !.rec = rec] \in SpeechRecs
      /\ \A rec \in RecStates : [sr[x] EXCEPT !.rec = rec] \in SpeechRecs
      /\ [sr[x] EXCEPT !.session = NoSession, !.state = "INIT"] \in SpeechRecs
      /\ Rearmed(sr[x]) \in SpeechRecs
      /\ [Rearmed(sr[x]) EXCEPT !.session = NoSession] \in SpeechRecs
  BY <1>1 DEF SpeechRecs, Rearmed, EpStates, RecStates, NoSession
<1>3. QED
  BY <1>1, <1>2 DEF StructInv

\* A new session is begun only while none is open, and the record thread is not
\* dropping a name: that a call of the service takes longer is needed here.
LEMMA SessionsStart ==
  ASSUME PromptThreads, StructInv, SessionInv, StartListening
  PROVE  StructInv' /\ SessionInv'
<1>1. CASE StartRefused
  BY <1>1 DEF StartRefused, StructInv, SessionInv, Holding, Forgetting, In
<1>2. CASE SessionBegin
  <2>1. /\ open = {} /\ begun' = begun + 1 /\ open' = {begun'} /\ target' = target /\ isr' = "arm"
        /\ sr' = [sr EXCEPT ![target].session = begun'] /\ record' = record /\ ~Forgetting
    BY <1>2 DEF SessionBegin, SessionInv, Holding, In, RecordIsBusy, Forgetting
  <2>2. begun \in Nat /\ begun' \in Nat /\ begun < begun' /\ target \in Structs
    BY <2>1 DEF StructInv
  <2>3. sr' \in [Structs -> SpeechRecs]
    BY <2>1, <2>2, FieldTypes
  <2>4. \A x \in Structs : sr'[x].session = IF x = target THEN begun' ELSE sr[x].session
    BY <2>1, <2>2 DEF StructInv, SpeechRecs
  <2>5. \A x \in Structs : sr[x].session \in Nat /\ sr[x].session =< begun
    BY DEF StructInv, SpeechRecs
  <2>6. StructInv'
    BY <2>1, <2>2, <2>3, <2>4, <2>5 DEF StructInv
  <2>7. open' = {sr'[target'].session}
    BY <2>1, <2>2, <2>4
  <2>8. target' = "copy" => sr'["orig"].session \notin open'
    <3>0. sr["orig"].session \in Nat /\ sr["orig"].session =< begun
      BY <2>5 DEF Structs
    <3>1. begun' # sr["orig"].session
      BY <2>2, <3>0
    <3>2. QED
      BY <2>1, <2>4, <3>1 DEF Structs
  <2>9. QED
    BY <2>1, <2>2, <2>6, <2>7, <2>8 DEF SessionInv, Holding, Forgetting, NoSession
<1>3. CASE StartRecord
  <2>1. target \in Structs /\ target' = target /\ begun' = begun /\ record' = record
    BY <1>3 DEF StartRecord, StructInv
  <2>2. CASE recorder = "CREATED"
    <3>1. /\ open' = open \ {sr[target].session}
          /\ sr' = [sr EXCEPT ![target] = [Rearmed(@) EXCEPT !.session = NoSession]]
      BY <1>3, <2>2 DEF StartRecord, Ended
    <3>2. open' = {}
      BY <3>1 DEF SessionInv
    <3>3. \A x \in Structs : sr'[x].session \in {sr[x].session, 0}
      BY <2>1, <3>1 DEF StructInv, SpeechRecs, Rearmed, NoSession
    <3>4. sr' \in [Structs -> SpeechRecs]
      BY <2>1, <3>1, FieldTypes
    <3>5. QED
      BY <2>1, <3>2, <3>3, <3>4 DEF StructInv, SessionInv
  <2>3. CASE recorder # "CREATED"
    <3>1. open' = open /\ isr' = "post" /\ sr' = [sr EXCEPT ![target] = Rearmed(@)]
      BY <1>3, <2>3 DEF StartRecord
    <3>2. sr' \in [Structs -> SpeechRecs]
      BY <2>1, <3>1, FieldTypes
    <3>3. \A x \in Structs : sr'[x].session = sr[x].session
      BY <2>1, <3>1 DEF StructInv, SpeechRecs, Rearmed
    <3>4. QED
      BY <2>1, <3>1, <3>2, <3>3 DEF StructInv, SessionInv, Holding, Forgetting, Structs
  <2>4. QED
    BY <2>2, <2>3
<1>4. CASE PostStartRecord
  <2>1. /\ target \in Structs /\ target' = target /\ begun' = begun /\ record' = record /\ open' = open
        /\ isr' = "begin result" /\ sr' = [sr EXCEPT ![target].state = "STARTED"]
    BY <1>4 DEF PostStartRecord, StructInv
  <2>2. sr' \in [Structs -> SpeechRecs]
    BY <2>1, FieldTypes
  <2>3. \A x \in Structs : sr'[x].session = sr[x].session
    BY <2>1 DEF StructInv, SpeechRecs
  <2>4. QED
    BY <2>1, <2>2, <2>3 DEF StructInv, SessionInv, Holding, Forgetting, Structs
<1>5. CASE OnRecBegin
  BY <1>5 DEF OnRecBegin, StructInv, SessionInv, Holding, Forgetting
<1>6. QED
  BY <1>1, <1>2, <1>3, <1>4, <1>5 DEF StartListening

\* However the listening is stopped, nothing is open in the end.
LEMMA SessionsStop ==
  ASSUME StructInv, SessionInv, StopSteps
  PROVE  StructInv' /\ SessionInv'
<1>1. target \in Structs /\ target' = target /\ begun' = begun /\ record' = record
  BY DEF StopSteps, StopListening, LastWritten, LastRefused, DrainResult, DrainFails, DrainDone, StructInv
<1>2. CASE LastRefused \/ DrainDone
  <2>1. open' = open \ {sr[target].session} /\ sr' = sr
    BY <1>2 DEF LastRefused, DrainDone, Ended
  <2>2. open' = {}
    BY <2>1 DEF SessionInv
  <2>3. QED
    BY <1>1, <2>1, <2>2 DEF StructInv, SessionInv
<1>3. CASE DrainFails
  <2>1. /\ open' = open \ {sr[target].session}
        /\ sr' = [sr EXCEPT ![target].session = NoSession, ![target].state = "INIT"]
    BY <1>3 DEF DrainFails, Ended
  <2>2. open' = {}
    BY <2>1 DEF SessionInv
  <2>3. \A x \in Structs : sr'[x].session \in {sr[x].session, 0}
    BY <1>1, <2>1 DEF StructInv, SpeechRecs, NoSession
  <2>4. sr' \in [Structs -> SpeechRecs]
    BY <1>1, <2>1, FieldTypes
  <2>5. QED
    BY <1>1, <2>2, <2>3, <2>4 DEF StructInv, SessionInv
<1>4. ASSUME open' = open, isr' \in Holding, NEW ep \in EpStates, NEW rec \in RecStates,
             \/ sr' = [sr EXCEPT ![target].state = "INIT"]
             \/ sr' = [sr EXCEPT ![target].rec = rec]
             \/ sr' = [sr EXCEPT ![target].ep = ep, ![target].rec = rec]
      PROVE  StructInv' /\ SessionInv'
  <2>1. sr' \in [Structs -> SpeechRecs]
    <3>1. CASE sr' = [sr EXCEPT ![target].state = "INIT"]
      BY <1>1, <3>1, FieldTypes
    <3>2. CASE sr' = [sr EXCEPT ![target].rec = rec]
      BY <1>1, <1>4, <3>2, FieldTypes
    <3>3. CASE sr' = [sr EXCEPT ![target].ep = ep, ![target].rec = rec]
      BY <1>1, <1>4, <3>3, FieldTypes
    <3>4. QED
      BY <1>4, <3>1, <3>2, <3>3
  <2>2. \A x \in Structs : sr'[x].session = sr[x].session
    BY <1>1, <1>4 DEF StructInv, SpeechRecs
  <2>3. QED
    BY <1>1, <1>4, <2>1, <2>2 DEF StructInv, SessionInv, Forgetting, Structs
<1>5. CASE StopListening
  BY <1>4, <1>5 DEF StopListening, Holding, EpStates, RecStates
<1>6. ASSUME NEW ep \in EpStates, NEW rec \in RecStates, LastWritten(ep, rec)
      PROVE  StructInv' /\ SessionInv'
  BY <1>4, <1>6 DEF LastWritten, Holding
<1>7. ASSUME NEW rec \in RecStates, DrainResult(rec)
      PROVE  StructInv' /\ SessionInv'
  BY <1>4, <1>7 DEF DrainResult, Holding, In, EpStates
<1>8. QED
  BY <1>2, <1>3, <1>5, <1>6, <1>7 DEF StopSteps

\* The record thread ends a session before it drops the name, and drops no
\* other: the name may have come to stand for nothing, never for a new session.
LEMMA SessionsRecord ==
  ASSUME StructInv, SessionInv, RecordThread
  PROVE  StructInv' /\ SessionInv'
<1>1. UNCHANGED <<isr, target, begun>>
  BY DEF RecordThread, TakeStart, RecordLoop, PcmRead, PcmReadFails, AudioWrite, CallFails, GetResult, Append,
     VadStops, VadPoll, VadAppend, VadComplete, VadEnds, EndOnError, NothingToEnd, ForgetSession, KeepAll, KeepIsr
<1>2. "orig" \in Structs
  BY DEF Structs
<1>3. CASE TakeStart \/ RecordLoop \/ PcmRead \/ PcmReadFails \/ CallFails
           \/ Append \/ VadStops \/ VadAppend \/ VadComplete
  <2>1. sr' = sr /\ open' = open
    BY <1>3 DEF TakeStart, RecordLoop, PcmRead, PcmReadFails, CallFails, Append, VadStops, VadAppend, VadComplete, KeepAll
  <2>2. ~Forgetting'
    BY <1>3 DEF TakeStart, RecordLoop, PcmRead, PcmReadFails, CallFails, Append, VadStops, VadAppend, VadComplete,
       At, AfterResult, Forgetting
  <2>3. QED
    BY <1>1, <2>1, <2>2 DEF StructInv, SessionInv
<1>4. ASSUME sr' \in [Structs -> SpeechRecs], \A x \in Structs : sr'[x].session = sr[x].session,
             open' = open, ~Forgetting'
      PROVE  StructInv' /\ SessionInv'
  BY <1>1, <1>4 DEF StructInv, SessionInv, Structs
<1>5. ASSUME NEW ep \in EpStates, NEW rec \in RecStates, AudioWrite(ep, rec)
      PROVE  StructInv' /\ SessionInv'
  <2>1. sr' = [sr EXCEPT !["orig"].ep = ep, !["orig"].rec = rec] /\ open' = open
    BY <1>5 DEF AudioWrite
  <2>2. ~Forgetting'
    BY <1>5 DEF AudioWrite, At, AfterResult, Forgetting
  <2>3. sr' \in [Structs -> SpeechRecs]
    BY <1>2, <2>1, FieldTypes
  <2>4. \A x \in Structs : sr'[x].session = sr[x].session
    BY <1>2, <2>1 DEF StructInv, SpeechRecs
  <2>5. QED
    BY <1>4, <2>1, <2>2, <2>3, <2>4
<1>6. ASSUME NEW rec \in RecStates, NEW text \in BOOLEAN, GetResult(rec, text) \/ VadPoll(rec, text)
      PROVE  StructInv' /\ SessionInv'
  <2>1. sr' = [sr EXCEPT !["orig"].rec = rec] /\ open' = open
    BY <1>6 DEF GetResult, VadPoll
  <2>2. ~Forgetting'
    BY <1>6 DEF GetResult, VadPoll, At, AfterResult, Forgetting
  <2>3. sr' \in [Structs -> SpeechRecs]
    BY <1>2, <2>1, FieldTypes
  <2>4. \A x \in Structs : sr'[x].session = sr[x].session
    BY <1>2, <2>1 DEF StructInv, SpeechRecs
  <2>5. QED
    BY <1>4, <2>1, <2>2, <2>3, <2>4
<1>7. ASSUME sr' = [sr EXCEPT !["orig"].state = "INIT"], open' = open, ~Forgetting'
      PROVE  StructInv' /\ SessionInv'
  <2>1. sr' \in [Structs -> SpeechRecs]
    BY <1>2, <1>7, FieldTypes
  <2>2. \A x \in Structs : sr'[x].session = sr[x].session
    BY <1>2, <1>7 DEF StructInv, SpeechRecs
  <2>3. QED
    BY <1>4, <1>7, <2>1, <2>2
<1>8. CASE VadEnds
  BY <1>7, <1>8 DEF VadEnds, At, Forgetting
<1>9. ASSUME NEW c \in ErrorCalls, NothingToEnd(c[1], c[3])
      PROVE  StructInv' /\ SessionInv'
  BY <1>7, <1>9 DEF NothingToEnd, At, Forgetting, ErrorCalls
<1>10. ASSUME NEW c \in ErrorCalls, EndOnError(c[1], c[2])
       PROVE  StructInv' /\ SessionInv'
  <2>1. sr' = sr /\ open' = open \ {sr["orig"].session}
    BY <1>10 DEF EndOnError, Ended
  <2>2. QED
    BY <1>1, <2>1 DEF StructInv, SessionInv
<1>11. ASSUME NEW c \in ErrorCalls, ForgetSession(c[2], c[3])
       PROVE  StructInv' /\ SessionInv'
  <2>1. sr' = [sr EXCEPT !["orig"].session = NoSession, !["orig"].state = "INIT"] /\ open' = open
    BY <1>11 DEF ForgetSession
  <2>2. Forgetting /\ ~Forgetting'
    BY <1>11 DEF ForgetSession, At, Forgetting, ErrorCalls
  <2>3. sr' \in [Structs -> SpeechRecs]
    BY <1>2, <2>1, FieldTypes
  <2>4. /\ sr'["orig"].session = NoSession
        /\ sr'["copy"].session = sr["copy"].session
    BY <1>2, <2>1 DEF StructInv, SpeechRecs, Structs
  <2>5. StructInv'
    BY <1>1, <2>3, <2>4 DEF StructInv, Structs, NoSession
  <2>6. open # {} => target = "copy"
    BY <2>2 DEF SessionInv, StructInv, Structs
  <2>7. QED
    BY <1>1, <2>1, <2>2, <2>4, <2>5, <2>6 DEF SessionInv
<1>12. QED
  BY <1>3, <1>5, <1>6, <1>8, <1>9, <1>10, <1>11 DEF RecordThread

\* The loop gives away no session: it has none where it moves.
LEMMA SessionsLoop ==
  ASSUME StructInv, SessionInv, VoiceLoop
  PROVE  StructInv' /\ SessionInv'
<1>1. open' = open /\ begun' = begun /\ record' = record
  BY DEF VoiceLoop, TakeWakeup, ListenOn, ListenedEnough, HandleResult, HandleSecondResult, TakeTurn, PutText,
     SetPlayUrl, EnableMic, KeepSr
<1>2. CASE ListenOn \/ ListenedEnough
  <2>1. isr' \in Holding /\ UNCHANGED <<sr, target>>
    BY <1>2 DEF ListenOn, ListenedEnough, Go, Holding
  <2>2. QED
    BY <1>1, <2>1 DEF StructInv, SessionInv, Forgetting
<1>3. ASSUME isr \notin Holding, target' \in Structs, sr' \in [Structs -> SpeechRecs],
             \A x \in Structs : sr'[x].session =< begun
      PROVE  StructInv' /\ SessionInv'
  BY <1>1, <1>3 DEF StructInv, SessionInv
<1>4. CASE TakeWakeup
  BY <1>3, <1>4 DEF TakeWakeup, Go, In, Holding, StructInv, Structs
<1>5. CASE HandleResult
  <2>1. isr \notin Holding
    BY <1>5 DEF HandleResult, In, Holding
  <2>2. /\ target' \in {target, "orig", "copy"}
        /\ sr' \in {sr, [sr EXCEPT !["copy"] = sr["orig"]]}
    BY <1>5 DEF HandleResult, Parsed
  <2>3. QED
    BY <1>3, <2>1, <2>2 DEF StructInv, Structs
<1>6. CASE HandleSecondResult
  <2>1. isr \notin Holding /\ target' = "orig" /\ sr' = [sr EXCEPT !["copy"] = NewSpeechRec]
    BY <1>6 DEF HandleSecondResult, Go, In, Holding
  <2>2. NewSpeechRec.session = 0
    BY DEF NewSpeechRec, NoSession
  <2>3. QED
    BY <1>3, <2>1, <2>2, NewSpeechRecType DEF StructInv, Structs
<1>7. CASE TakeTurn \/ PutText \/ SetPlayUrl \/ EnableMic
  <2>1. isr \notin Holding /\ UNCHANGED <<sr, target>>
    BY <1>7 DEF TakeTurn, PutText, SetPlayUrl, EnableMic, Go, In, Holding
  <2>2. QED
    BY <1>3, <2>1 DEF StructInv
<1>8. QED
  BY <1>2, <1>4, <1>5, <1>6, <1>7 DEF VoiceLoop

\* Both are invariants where a call of the service outlasts the code between two.
LEMMA SessionsInductive ==
  ASSUME PromptThreads
  PROVE  Spec => [](StructInv /\ SessionInv)
<1>1. Init => StructInv /\ SessionInv
  BY NewSpeechRecType DEF Init, SrInit, StructInv, SessionInv, Structs, Forgetting, NewSpeechRec, NoSession
<1>2. StructInv /\ SessionInv /\ [Next]_vars => StructInv' /\ SessionInv'
  <2> SUFFICES ASSUME StructInv, SessionInv, [Next]_vars
               PROVE  StructInv' /\ SessionInv'
    OBVIOUS
  <2>1. CASE VoiceLoop
    BY <2>1, SessionsLoop
  <2>2. CASE Listening
    BY <2>2, PromptThreads, SessionsStart, SessionsStop DEF Listening
  <2>3. CASE Recorder
    BY <2>3, SessionsRecord DEF Recorder
  <2>4. CASE WakeupThread \/ Spoken \/ UNCHANGED vars
    <3>1. UNCHANGED srVars
      BY <2>4 DEF WakeupThread, FirstInterrupt, PostWakeup, ClearMicFlag, Spoken, vars
    <3>2. QED
      BY <3>1 DEF srVars, StructInv, SessionInv, Forgetting
  <2>5. QED
    BY <2>1, <2>2, <2>3, <2>4 DEF Next, IsrThread
<1>3. QED
  BY <1>1, <1>2, PTL DEF Spec

\* Whatever fails, and whichever thread meets the failure first, no session is
\* left open when the listening is over.
THEOREM SessionsEndCorrect ==
  ASSUME PromptThreads
  PROVE  Spec => []SessionsEnd
<1>1. SessionInv => SessionsEnd
  BY DEF SessionInv, SessionsEnd, Holding
<1>2. QED
  BY <1>1, SessionsInductive, PromptThreads, PTL

-----------------------------------------------------------------------------
(* Answers *)

\* From on_rec_begin to the handling of the result.
Answering == {"listening", "stop", "last", "drain", "stopped"}
Appending == {"append", "pollAppend"}

\* Only the session that is listened to is open, so only its text is handed out,
\* and what the record thread holds is its text: nothing else is appended.
AnswerInv ==
  /\ open \subseteq {heard}
  /\ isr \in Answering /\ heard # NoSession => result \subseteq {heard}
  /\ record \in Appending /\ heard # NoSession => rslt = heard

LEMMA AnswerStart ==
  ASSUME PromptThreads, SessionInv, AnswerInv, StartListening
  PROVE  AnswerInv'
<1>1. CASE StartRefused
  <2>1. open = {}
    BY <1>1 DEF StartRefused, SessionInv, Holding, In
  <2>2. QED
    BY <1>1, <2>1 DEF StartRefused, AnswerInv
<1>2. CASE SessionBegin
  <2>1. open = {} /\ record \notin Appending
    BY <1>2 DEF SessionBegin, SessionInv, Holding, In, RecordIsBusy, Appending
  <2>2. QED
    BY <1>2, <2>1 DEF SessionBegin, AnswerInv, Answering
<1>3. CASE StartRecord
  <2>1. CASE recorder = "CREATED"
    <3>1. open' = {}
      BY <1>3, <2>1 DEF StartRecord, SessionInv, Ended
    <3>2. QED
      BY <1>3, <2>1, <3>1 DEF StartRecord, AnswerInv
  <2>2. CASE recorder # "CREATED"
    BY <1>3, <2>2 DEF StartRecord, AnswerInv, Answering
  <2>3. QED
    BY <2>1, <2>2
<1>4. CASE PostStartRecord
  BY <1>4 DEF PostStartRecord, AnswerInv, Answering
<1>5. CASE OnRecBegin
  BY <1>5 DEF OnRecBegin, AnswerInv
<1>6. QED
  BY <1>1, <1>2, <1>3, <1>4, <1>5 DEF StartListening

LEMMA AnswerStop ==
  ASSUME AnswerInv, StopSteps
  PROVE  AnswerInv'
<1>1. UNCHANGED <<record, rslt, heard>> /\ isr \in Answering
  BY DEF StopSteps, StopListening, LastWritten, LastRefused, DrainResult, DrainFails, DrainDone, In, Answering
<1>2. open' \subseteq open
  BY DEF StopSteps, StopListening, LastWritten, LastRefused, DrainResult, DrainFails, DrainDone, Ended
<1>3. result' = result \/ \E s \in open : result' = result \cup {s}
  BY DEF StopSteps, StopListening, LastWritten, LastRefused, DrainResult, DrainFails, DrainDone, OnRecResult, Usable
<1>4. QED
  BY <1>1, <1>2, <1>3 DEF AnswerInv

LEMMA AnswerRecord ==
  ASSUME AnswerInv, RecordThread
  PROVE  AnswerInv'
<1>1. UNCHANGED <<isr, heard>>
  BY DEF RecordThread, TakeStart, RecordLoop, PcmRead, PcmReadFails, AudioWrite, CallFails, GetResult, Append,
     VadStops, VadPoll, VadAppend, VadComplete, VadEnds, EndOnError, NothingToEnd, ForgetSession, KeepAll, KeepIsr
<1>2. CASE Append \/ VadAppend
  <2>1. record \in Appending /\ record' \notin Appending
    BY <1>2 DEF Append, VadAppend, At, Appending, AfterResult
  <2>2. open' = open /\ result' \subseteq result \cup {rslt}
    BY <1>2 DEF Append, VadAppend, OnRecResult
  <2>3. QED
    BY <1>1, <2>1, <2>2 DEF AnswerInv
<1>3. ASSUME NEW rec \in RecStates, NEW text \in BOOLEAN, GetResult(rec, text) \/ VadPoll(rec, text)
      PROVE  AnswerInv'
  <2>1. open' = open /\ result' = result /\ sr["orig"].session \in open
    BY <1>3 DEF GetResult, VadPoll, Usable
  <2>2. record' \in Appending => rslt' = sr["orig"].session
    BY <1>3 DEF GetResult, VadPoll, At, Appending, AfterResult
  <2>3. QED
    BY <1>1, <2>1, <2>2 DEF AnswerInv
<1>4. ASSUME open' \subseteq open, result' = result, record' \notin Appending
      PROVE  AnswerInv'
  BY <1>1, <1>4 DEF AnswerInv
<1>5. CASE TakeStart \/ RecordLoop \/ PcmRead \/ PcmReadFails \/ CallFails \/ VadStops \/ VadComplete \/ VadEnds
  <2>1. open' = open /\ result' = result
    BY <1>5 DEF TakeStart, RecordLoop, PcmRead, PcmReadFails, CallFails, VadStops, VadComplete, VadEnds, KeepAll
  <2>2. record' \notin Appending
    BY <1>5 DEF TakeStart, RecordLoop, PcmRead, PcmReadFails, CallFails, VadStops, VadComplete, VadEnds, At, Appending
  <2>3. QED
    BY <1>4, <2>1, <2>2
<1>6. ASSUME NEW ep \in EpStates, NEW rec \in RecStates, AudioWrite(ep, rec)
      PROVE  AnswerInv'
  BY <1>4, <1>6 DEF AudioWrite, At, AfterResult, Appending
<1>7. ASSUME NEW c \in ErrorCalls,
             EndOnError(c[1], c[2]) \/ NothingToEnd(c[1], c[3]) \/ ForgetSession(c[2], c[3])
      PROVE  AnswerInv'
  <2>1. open' \subseteq open /\ result' = result
    BY <1>7 DEF EndOnError, NothingToEnd, ForgetSession, Ended
  <2>2. record' \notin Appending
    BY <1>7 DEF EndOnError, NothingToEnd, ForgetSession, At, ErrorCalls, Appending
  <2>3. QED
    BY <1>4, <2>1, <2>2
<1>8. QED
  BY <1>2, <1>3, <1>5, <1>6, <1>7 DEF RecordThread

LEMMA AnswerLoop ==
  ASSUME AnswerInv, VoiceLoop
  PROVE  AnswerInv'
<1>1. UNCHANGED <<open, heard, record, rslt, result>>
  BY DEF VoiceLoop, TakeWakeup, ListenOn, ListenedEnough, HandleResult, HandleSecondResult, TakeTurn, PutText,
     SetPlayUrl, EnableMic, KeepSr
<1>2. isr' \in Answering => isr \in Answering
  BY DEF VoiceLoop, TakeWakeup, ListenOn, ListenedEnough, HandleResult, HandleSecondResult, TakeTurn, PutText,
     SetPlayUrl, EnableMic, Parsed, Go, In, Answering
<1>3. QED
  BY <1>1, <1>2 DEF AnswerInv

\* The thread acts on the words of the listening just ended, never on those of an
\* earlier one, if the listening had a session.
THEOREM AnswerIsFreshCorrect ==
  ASSUME PromptThreads
  PROVE  Spec => []AnswerIsFresh
<1>1. Init => AnswerInv
  BY DEF Init, SrInit, AnswerInv, Answering, Appending
<1>2. SessionInv /\ AnswerInv /\ [Next]_vars => AnswerInv'
  <2> SUFFICES ASSUME SessionInv, AnswerInv, [Next]_vars
               PROVE  AnswerInv'
    OBVIOUS
  <2>1. CASE VoiceLoop
    BY <2>1, AnswerLoop
  <2>2. CASE Listening
    BY <2>2, PromptThreads, AnswerStart, AnswerStop DEF Listening
  <2>3. CASE Recorder
    BY <2>3, AnswerRecord DEF Recorder
  <2>4. CASE WakeupThread \/ Spoken \/ UNCHANGED vars
    <3>1. UNCHANGED srVars
      BY <2>4 DEF WakeupThread, FirstInterrupt, PostWakeup, ClearMicFlag, Spoken, vars
    <3>2. QED
      BY <3>1 DEF srVars, AnswerInv
  <2>5. QED
    BY <2>1, <2>2, <2>3, <2>4 DEF Next, IsrThread
<1>3. AnswerInv => AnswerIsFresh
  BY DEF AnswerInv, AnswerIsFresh, Answering
<1>4. QED
  BY <1>1, <1>2, <1>3, SessionsInductive, PromptThreads, PTL DEF Spec

-----------------------------------------------------------------------------
(* Types *)

\* Where the recognition thread can be.
IsrPlaces == {"idle", "begin", "arm", "post", "begin result", "listening", "stop", "last",
              "drain", "stopped", "turn", "put", "tone", "enable"}

\* Assigning fields of a struct keeps its type.
LEMMA FieldsTyped ==
  ASSUME sr \in [Structs -> SpeechRec], NEW x \in Structs
  PROVE  /\ \A n \in Sessions \cup {NoSession} : [sr EXCEPT ![x].session = n] \in [Structs -> SpeechRec]
         /\ \A state \in {"INIT", "STARTED"} : [sr EXCEPT ![x].state = state] \in [Structs -> SpeechRec]
         /\ \A rec \in RecStates : [sr EXCEPT ![x].rec = rec] \in [Structs -> SpeechRec]
         /\ \A ep \in EpStates, rec \in RecStates :
              [sr EXCEPT ![x].ep = ep, ![x].rec = rec] \in [Structs -> SpeechRec]
         /\ [sr EXCEPT ![x].session = NoSession, ![x].state = "INIT"] \in [Structs -> SpeechRec]
         /\ [sr EXCEPT ![x] = Rearmed(@)] \in [Structs -> SpeechRec]
         /\ [sr EXCEPT ![x] = [Rearmed(@) EXCEPT !.session = NoSession]] \in [Structs -> SpeechRec]
<1>1. sr[x] \in SpeechRec
  OBVIOUS
<1>2. /\ \A n \in Sessions \cup {NoSession} : [sr[x] EXCEPT !.session = n] \in SpeechRec
      /\ \A state \in {"INIT", "STARTED"} : [sr[x] EXCEPT !.state = state] \in SpeechRec
      /\ \A ep \in EpStates, rec \in RecStates : [sr[x] EXCEPT !.ep = ep, !.rec = rec] \in SpeechRec
      /\ \A rec \in RecStates : [sr[x] EXCEPT !.rec = rec] \in SpeechRec
      /\ [sr[x] EXCEPT !.session = NoSession, !.state = "INIT"] \in SpeechRec
      /\ Rearmed(sr[x]) \in SpeechRec
      /\ [Rearmed(sr[x]) EXCEPT !.session = NoSession] \in SpeechRec
  BY <1>1 DEF SpeechRec, Rearmed, EpStates, RecStates
<1>3. QED
  BY <1>1, <1>2

\* Every step of sr_start_listening keeps the types.
LEMMA TypesStart ==
  ASSUME TypeOK, StartListening
  PROVE  SrTypeOK' /\ isr' \in IsrPlaces
<1> USE SpeechRecognizerAssumption
<1>1. CASE StartRefused
  BY <1>1 DEF StartRefused, TypeOK, SrTypeOK, IsrPlaces
<1>2. CASE SessionBegin
  <2>1. begun' \in 0..MaxSessions /\ begun' \in Sessions
    <3>1. begun \in 0..MaxSessions
      BY DEF TypeOK, SrTypeOK
    <3>2. begun < MaxSessions /\ begun' = begun + 1
      BY <1>2 DEF SessionBegin
    <3>3. QED
      BY <3>1, <3>2 DEF Sessions
  <2>2. sr' \in [Structs -> SpeechRec]
    BY <1>2, <2>1, FieldsTyped DEF SessionBegin, TypeOK, SrTypeOK
  <2>3. QED
    BY <1>2, <2>1, <2>2 DEF SessionBegin, TypeOK, SrTypeOK, IsrPlaces
<1>3. CASE StartRecord
  <2>1. sr' \in [Structs -> SpeechRec]
    <3>1. target \in Structs /\ sr \in [Structs -> SpeechRec]
      BY DEF TypeOK, SrTypeOK
    <3>2. \/ sr' = [sr EXCEPT ![target] = [Rearmed(@) EXCEPT !.session = NoSession]]
          \/ sr' = [sr EXCEPT ![target] = Rearmed(@)]
      BY <1>3 DEF StartRecord
    <3>3. /\ [sr EXCEPT ![target] = [Rearmed(@) EXCEPT !.session = NoSession]] \in [Structs -> SpeechRec]
          /\ [sr EXCEPT ![target] = Rearmed(@)] \in [Structs -> SpeechRec]
      BY <3>1, FieldsTyped, Zenon
    <3>4. QED
      BY <3>2, <3>3, Zenon
  <2>2. QED
    BY <1>3, <2>1 DEF StartRecord, Ended, TypeOK, SrTypeOK, IsrPlaces
<1>4. CASE PostStartRecord
  <2>1. sr' \in [Structs -> SpeechRec]
    BY <1>4, FieldsTyped DEF PostStartRecord, TypeOK, SrTypeOK
  <2>2. startSem' \in Nat /\ isr' = "begin result"
    <3>1. startSem \in Nat
      BY DEF TypeOK, SrTypeOK
    <3>2. startSem' = startSem + 1 /\ isr' = "begin result"
      BY <1>4 DEF PostStartRecord
    <3>3. startSem + 1 \in Nat
      BY <3>1
    <3>4. QED
      BY <3>2, <3>3, Zenon
  <2>3. UNCHANGED <<recorder, buffer, result, target, record, rslt, running, open, begun, heard, over>>
    BY <1>4 DEF PostStartRecord
  <2>4. QED
    BY <2>1, <2>2, <2>3 DEF TypeOK, SrTypeOK, IsrPlaces
<1>5. CASE OnRecBegin
  BY <1>5 DEF OnRecBegin, TypeOK, SrTypeOK, IsrPlaces
<1>6. QED
  BY <1>1, <1>2, <1>3, <1>4, <1>5 DEF StartListening

\* g_result names sessions, if the piece that is appended is of one.
LEMMA TypesResult ==
  ASSUME SrTypeOK, NEW s \in Sessions, OnRecResult(s)
  PROVE  result' \subseteq Sessions /\ running' \in BOOLEAN
BY DEF SrTypeOK, OnRecResult

\* stop_record leaves the recorder in one of its states.
LEMMA TypesStopRecord ==
  ASSUME SrTypeOK, StopRecord
  PROVE  recorder' \in {"CREATED", "READY", "STOPPING", "RECORDING"}
BY DEF SrTypeOK, StopRecord

\* Every step of sr_stop_listening keeps the types.
LEMMA TypesStop ==
  ASSUME TypeOK, StopSteps
  PROVE  SrTypeOK' /\ isr' \in IsrPlaces
<1>0. SrTypeOK /\ isr \in IsrPlaces /\ sr \in [Structs -> SpeechRec] /\ target \in Structs
  BY DEF TypeOK, SrTypeOK, IsrPlaces
<1>1. CASE StopListening
  <2>1. sr' \in [Structs -> SpeechRec]
    BY <1>0, <1>1, FieldsTyped DEF StopListening
  <2>2. QED
    BY <1>0, <1>1, <2>1, TypesStopRecord DEF StopListening, SrTypeOK, IsrPlaces
<1>2. ASSUME NEW ep \in EpStates, NEW rec \in RecStates, LastWritten(ep, rec)
      PROVE  SrTypeOK' /\ isr' \in IsrPlaces
  <2>1. sr' \in [Structs -> SpeechRec]
    BY <1>0, <1>2, FieldsTyped DEF LastWritten
  <2>2. QED
    BY <1>0, <1>2, <2>1 DEF LastWritten, SrTypeOK, IsrPlaces
<1>3. CASE LastRefused
  BY <1>0, <1>3 DEF LastRefused, Ended, SrTypeOK, IsrPlaces
<1>4. ASSUME NEW rec \in RecStates, DrainResult(rec)
      PROVE  SrTypeOK' /\ isr' \in IsrPlaces
  <2>1. sr' \in [Structs -> SpeechRec]
    BY <1>0, <1>4, FieldsTyped DEF DrainResult
  <2>2. sr[target].session \in Sessions
    BY <1>0, <1>4 DEF DrainResult, Usable, SrTypeOK
  <2>3. result' \subseteq Sessions /\ running' \in BOOLEAN
    BY <1>0, <1>4, <2>2, TypesResult DEF DrainResult, SrTypeOK
  <2>4. QED
    BY <1>0, <1>4, <2>1, <2>3 DEF DrainResult, SrTypeOK
<1>5. CASE DrainFails
  <2>1. sr' \in [Structs -> SpeechRec]
    BY <1>0, <1>5, FieldsTyped DEF DrainFails
  <2>2. QED
    BY <1>0, <1>5, <2>1, TypesStopRecord DEF DrainFails, Ended, SrTypeOK, IsrPlaces
<1>6. CASE DrainDone
  BY <1>0, <1>6 DEF DrainDone, Ended, SrTypeOK, IsrPlaces
<1>7. QED
  BY <1>1, <1>2, <1>3, <1>4, <1>5, <1>6 DEF StopSteps

\* Where the record thread can be.
RecordPlaces == {"wait", "loop", "read", "write", "get", "append", "vad", "poll",
                 "pollAppend", "vadEnd", "fail", "forget", "again", "forgetAgain", "gone"}

\* Appending a text the record thread holds keeps the types.
LEMMA AppendTyped ==
  ASSUME SrTypeOK, rslt \in Sessions, OnRecResult(rslt), KeepIsr, record' \in RecordPlaces,
         rslt' = NoSession, UNCHANGED <<sr, recorder, startSem, open, over>>
  PROVE  SrTypeOK'
<1>1. result' \subseteq Sessions /\ running' \in BOOLEAN
  BY TypesResult
<1>2. QED
  BY <1>1 DEF SrTypeOK, KeepIsr, RecordPlaces

\* While the record thread holds a text it is of a session.
HoldsText == record \in {"append", "pollAppend"} => rslt \in Sessions

\* Every step of the record thread keeps the types, and what it holds is of a session.
LEMMA TypesRecord ==
  ASSUME SrTypeOK, HoldsText, RecordThread
  PROVE  SrTypeOK' /\ HoldsText'
<1>0. sr \in [Structs -> SpeechRec] /\ "orig" \in Structs /\ sr["orig"].session \in Sessions \cup {NoSession}
  BY DEF SrTypeOK, Structs, SpeechRec
<1>1. CASE TakeStart
  BY <1>1 DEF TakeStart, At, KeepIsr, SrTypeOK, HoldsText
<1>2. CASE RecordLoop \/ PcmRead \/ PcmReadFails \/ CallFails \/ VadComplete
  BY <1>2 DEF RecordLoop, PcmRead, PcmReadFails, CallFails, VadComplete, At, KeepAll, KeepIsr, SrTypeOK, HoldsText
<1>3. ASSUME NEW ep \in EpStates, NEW rec \in RecStates, AudioWrite(ep, rec)
      PROVE  SrTypeOK' /\ HoldsText'
  <2>1. sr' \in [Structs -> SpeechRec]
    BY <1>0, <1>3, FieldsTyped DEF AudioWrite
  <2>2. record' \in {"get", "vad", "loop"}
    BY <1>3 DEF AudioWrite, At, AfterResult
  <2>3. over' \in BOOLEAN
    BY <1>3 DEF AudioWrite, SrTypeOK
  <2>4. QED
    BY <1>3, <2>1, <2>2, <2>3 DEF AudioWrite, At, KeepIsr, SrTypeOK, HoldsText
<1>4. ASSUME NEW rec \in RecStates, NEW text \in BOOLEAN, GetResult(rec, text)
      PROVE  SrTypeOK' /\ HoldsText'
  <2>1. sr' \in [Structs -> SpeechRec]
    BY <1>0, <1>4, FieldsTyped DEF GetResult
  <2>2. sr["orig"].session \in Sessions
    BY <1>4 DEF GetResult, Usable, SrTypeOK
  <2>3. record' \in {"append", "vad", "loop"} /\ (text \/ record' # "append")
    BY <1>4 DEF GetResult, At, AfterResult
  <2>4. rslt' \in Sessions \cup {NoSession} /\ (text => rslt' \in Sessions)
    BY <1>4, <2>2 DEF GetResult
  <2>5. QED
    BY <1>4, <2>1, <2>3, <2>4 DEF GetResult, At, KeepIsr, SrTypeOK, HoldsText
<1>5. CASE Append
  <2>1. rslt \in Sessions /\ record' \in {"vad", "loop"}
    BY <1>5 DEF Append, At, AfterResult, HoldsText
  <2>2. QED
    BY <1>5, <2>1, AppendTyped DEF Append, HoldsText, RecordPlaces
<1>6. CASE VadStops
  BY <1>6, TypesStopRecord DEF VadStops, At, KeepIsr, SrTypeOK, HoldsText
<1>7. ASSUME NEW rec \in RecStates, NEW text \in BOOLEAN, VadPoll(rec, text)
      PROVE  SrTypeOK' /\ HoldsText'
  <2>1. sr' \in [Structs -> SpeechRec]
    BY <1>0, <1>7, FieldsTyped DEF VadPoll
  <2>2. sr["orig"].session \in Sessions
    BY <1>7 DEF VadPoll, Usable, SrTypeOK
  <2>3. rslt' \in Sessions \cup {NoSession} /\ (record' = "pollAppend" => rslt' \in Sessions)
    BY <1>7, <2>2 DEF VadPoll, At
  <2>4. QED
    BY <1>7, <2>1, <2>3 DEF VadPoll, At, KeepIsr, SrTypeOK, HoldsText
<1>8. CASE VadAppend
  <2>1. rslt \in Sessions /\ record' = "poll"
    BY <1>8 DEF VadAppend, At, HoldsText
  <2>2. QED
    BY <1>8, <2>1, AppendTyped DEF VadAppend, HoldsText, RecordPlaces
<1>9. CASE VadEnds
  <2>1. sr' \in [Structs -> SpeechRec]
    BY <1>0, <1>9, FieldsTyped DEF VadEnds
  <2>2. QED
    BY <1>9, <2>1 DEF VadEnds, At, KeepIsr, SrTypeOK, HoldsText
<1>10. ASSUME NEW c \in ErrorCalls,
              EndOnError(c[1], c[2]) \/ NothingToEnd(c[1], c[3]) \/ ForgetSession(c[2], c[3])
       PROVE  SrTypeOK' /\ HoldsText'
  <2>1. record' \in {"forget", "forgetAgain", "again", "loop"}
    BY <1>10 DEF ErrorCalls, EndOnError, NothingToEnd, ForgetSession, At
  <2>2. CASE EndOnError(c[1], c[2])
    BY <2>1, <2>2, TypesStopRecord DEF EndOnError, Ended, At, KeepIsr, SrTypeOK, HoldsText
  <2>3. CASE NothingToEnd(c[1], c[3])
    <3>1. sr' \in [Structs -> SpeechRec]
      BY <1>0, <2>3, FieldsTyped DEF NothingToEnd
    <3>2. QED
      BY <2>1, <2>3, <3>1, TypesStopRecord DEF NothingToEnd, At, KeepIsr, SrTypeOK, HoldsText
  <2>4. CASE ForgetSession(c[2], c[3])
    <3>1. sr' \in [Structs -> SpeechRec]
      BY <1>0, <2>4, FieldsTyped DEF ForgetSession
    <3>2. QED
      BY <2>1, <2>4, <3>1 DEF ForgetSession, At, KeepIsr, SrTypeOK, HoldsText
  <2>5. QED
    BY <1>10, <2>2, <2>3, <2>4
<1>11. QED
  BY <1>1, <1>2, <1>3, <1>4, <1>5, <1>6, <1>7, <1>8, <1>9, <1>10 DEF RecordThread

\* sr_init_ex fills the struct within its type.
LEMMA NewRecTyped == NewSpeechRec \in SpeechRec
  BY DEF NewSpeechRec, SpeechRec, EpStates, RecStates

\* What the voice loop adds to the types of a listening.
OwnTypes ==
  /\ wakeSem \in Nat /\ putSem \in Nat /\ urlSem \in Nat
  /\ micEnabled \in BOOLEAN /\ poll \in {"first", "poll", "clear"}
  /\ wakeups \in 0..MaxWakeups /\ seconds \in 0..RecordTime
  /\ url \in BOOLEAN /\ audioPlay \in BOOLEAN /\ speaking \in BOOLEAN

\* A step of the loop keeps the types of a listening, if it keeps those of the three fields it may write.
LEMMA LoopKeepsSr ==
  ASSUME SrTypeOK, KeepSr, sr' \in [Structs -> SpeechRec], target' \in Structs, running' \in BOOLEAN
  PROVE  SrTypeOK'
BY DEF SrTypeOK, KeepSr

\* So does a step that leaves the listening alone.
LEMMA SrUnchanged ==
  ASSUME SrTypeOK, UNCHANGED srVars
  PROVE  SrTypeOK'
BY DEF SrTypeOK, srVars

\* The type invariant in its three parts.
LEMMA TypeParts ==
  /\ TypeOK <=> SrTypeOK /\ isr \in IsrPlaces /\ OwnTypes
  /\ TypeOK' <=> SrTypeOK' /\ isr' \in IsrPlaces /\ OwnTypes'
BY DEF TypeOK, IsrPlaces, OwnTypes

\* Every step of the loop of the recognition thread keeps the types.
LEMMA TypesLoop ==
  ASSUME TypeOK, VoiceLoop
  PROVE  TypeOK' /\ UNCHANGED <<record, rslt>>
<1>0. SrTypeOK /\ isr \in IsrPlaces /\ OwnTypes
  BY TypeParts
<1>1. sr \in [Structs -> SpeechRec] /\ target \in Structs /\ "orig" \in Structs /\ "copy" \in Structs
      /\ running \in BOOLEAN
  BY <1>0 DEF SrTypeOK, Structs
<1>2. KeepSr
  BY DEF VoiceLoop, TakeWakeup, ListenOn, ListenedEnough, HandleResult, HandleSecondResult,
         TakeTurn, PutText, SetPlayUrl, EnableMic
<1>3. sr' \in [Structs -> SpeechRec] /\ target' \in Structs /\ running' \in BOOLEAN /\ isr' \in IsrPlaces
  <2>1. CASE HandleResult
    <3>1. running' = buffer /\ buffer \in BOOLEAN
      BY <1>0, <2>1 DEF HandleResult, Parsed, SrTypeOK
    <3>2. CASE ~ buffer
      <4>1. UNCHANGED <<isr, sr, target>>
        BY <2>1, <3>2 DEF HandleResult, Parsed
      <4>2. QED
        BY <1>0, <1>1, <3>1, <4>1
    <3>3. CASE buffer
      <4>1. PICK answer \in Answers(result) :
              /\ sr' = IF answer = "command" THEN [sr EXCEPT !["copy"] = sr["orig"]] ELSE sr
              /\ isr' = CASE answer = "text"    -> "turn"
                          [] answer = "command" -> "begin"
                          [] answer = "light"   -> "enable"
              /\ target' = IF answer = "command" THEN "copy" ELSE "orig"
        BY <2>1, <3>3 DEF HandleResult
      <4>2. answer \in {"text", "command", "light"}
        BY DEF Answers
      <4>3. sr' \in [Structs -> SpeechRec] /\ target' \in Structs
        BY <1>1, <4>1
      <4>4. isr' \in {"turn", "begin", "enable"}
        BY <4>1, <4>2
      <4>5. QED
        BY <3>1, <4>3, <4>4 DEF IsrPlaces
    <3>4. QED
      BY <3>2, <3>3
  <2>2. CASE HandleSecondResult
    <3>1. sr' = [sr EXCEPT !["copy"] = NewSpeechRec] /\ target' = "orig" /\ isr' = "turn" /\ running' = running
      BY <2>2 DEF HandleSecondResult, Go
    <3>2. QED
      BY <1>1, <3>1, NewRecTyped DEF IsrPlaces
  <2>3. CASE TakeWakeup
    <3>1. sr' = sr /\ target' = "orig" /\ isr' = "begin" /\ running' = running
      BY <2>3 DEF TakeWakeup, Go
    <3>2. QED
      BY <1>1, <3>1 DEF IsrPlaces
  <2>4. CASE ListenOn \/ ListenedEnough \/ TakeTurn \/ PutText \/ SetPlayUrl \/ EnableMic
    <3>1. UNCHANGED <<sr, target, running>>
      BY <2>4 DEF ListenOn, ListenedEnough, TakeTurn, PutText, SetPlayUrl, EnableMic
    <3>2. isr' \in {"listening", "stop", "put", "tone", "enable", "idle"}
      BY <2>4 DEF ListenOn, ListenedEnough, TakeTurn, PutText, SetPlayUrl, EnableMic, Go
    <3>3. QED
      BY <1>1, <3>1, <3>2 DEF IsrPlaces
  <2>5. QED
    BY <2>1, <2>2, <2>3, <2>4 DEF VoiceLoop
<1>4. OwnTypes'
  <2>1. wakeSem' \in Nat /\ putSem' \in Nat /\ urlSem' \in Nat /\ seconds' \in 0..RecordTime
    <3>1. wakeSem \in Nat /\ putSem \in Nat /\ urlSem \in Nat /\ seconds \in 0..RecordTime /\ RecordTime \in Nat
      BY <1>0, VoiceAssistantAssumption DEF OwnTypes
    <3>2. \/ wakeSem' = wakeSem
          \/ wakeSem > 0 /\ wakeSem' = wakeSem - 1
      BY DEF VoiceLoop, TakeWakeup, ListenOn, ListenedEnough, HandleResult, HandleSecondResult,
             TakeTurn, PutText, SetPlayUrl, EnableMic
    <3>3. \/ putSem' = putSem
          \/ putSem > 0 /\ putSem' = putSem - 1
      BY DEF VoiceLoop, TakeWakeup, ListenOn, ListenedEnough, HandleResult, HandleSecondResult,
             TakeTurn, PutText, SetPlayUrl, EnableMic, ttsVars
    <3>4. \/ urlSem' = urlSem
          \/ urlSem > 0 /\ urlSem' = urlSem - 1
      BY DEF VoiceLoop, TakeWakeup, ListenOn, ListenedEnough, HandleResult, HandleSecondResult,
             TakeTurn, PutText, SetPlayUrl, EnableMic, ttsVars
    <3>5. \/ seconds' = seconds
          \/ seconds' = 0
          \/ seconds < RecordTime /\ seconds' = seconds + 1
      BY DEF VoiceLoop, TakeWakeup, ListenOn, ListenedEnough, HandleResult, HandleSecondResult,
             TakeTurn, PutText, SetPlayUrl, EnableMic
    <3>6. QED
      BY <3>1, <3>2, <3>3, <3>4, <3>5
  <2>2. poll' = poll /\ wakeups' = wakeups
    BY DEF VoiceLoop, TakeWakeup, ListenOn, ListenedEnough, HandleResult, HandleSecondResult,
           TakeTurn, PutText, SetPlayUrl, EnableMic, micVars
  <2>3. micEnabled' \in BOOLEAN /\ url' \in BOOLEAN /\ audioPlay' \in BOOLEAN /\ speaking' \in BOOLEAN
    <3>0. micEnabled \in BOOLEAN /\ url \in BOOLEAN /\ audioPlay \in BOOLEAN /\ speaking \in BOOLEAN
      BY <1>0 DEF OwnTypes
    <3>1. CASE HandleResult
      <4>1. UNCHANGED <<micEnabled, speaking>>
        BY <3>1 DEF HandleResult, micVars
      <4>2. CASE buffer
        <5>1. PICK answer \in Answers(result), hasUrl \in IF result = {} THEN {FALSE} ELSE BOOLEAN :
                url' = hasUrl /\ audioPlay' = (audioPlay \/ hasUrl)
          BY <3>1, <4>2, Zenon DEF HandleResult
        <5>2. hasUrl \in BOOLEAN
          OBVIOUS
        <5>3. QED
          BY <3>0, <4>1, <5>1, <5>2
      <4>3. CASE ~ buffer
        <5>1. UNCHANGED <<url, audioPlay>>
          BY <3>1, <4>3 DEF HandleResult, Parsed
        <5>2. QED
          BY <3>0, <4>1, <5>1
      <4>4. QED
        BY <4>2, <4>3
    <3>2. CASE PutText
      BY <3>0, <3>2 DEF PutText, micVars
    <3>3. CASE SetPlayUrl
      <4>1. audioPlay' = FALSE /\ UNCHANGED <<micEnabled, url, speaking>>
        BY <3>3 DEF SetPlayUrl, micVars
      <4>2. QED
        BY <3>0, <4>1
    <3>4. CASE EnableMic
      <4>1. micEnabled' = TRUE /\ url' = FALSE /\ UNCHANGED <<audioPlay, speaking>>
        BY <3>4 DEF EnableMic
      <4>2. QED
        BY <3>0, <4>1
    <3>5. CASE TakeWakeup \/ ListenOn \/ ListenedEnough \/ HandleSecondResult \/ TakeTurn
      <4>1. UNCHANGED <<micEnabled, url, audioPlay, speaking>>
        BY <3>5 DEF TakeWakeup, ListenOn, ListenedEnough, HandleSecondResult, TakeTurn, micVars, ttsVars
      <4>2. QED
        BY <3>0, <4>1
    <3>6. QED
      BY <3>1, <3>2, <3>3, <3>4, <3>5 DEF VoiceLoop
  <2>4. QED
    BY <1>0, <2>1, <2>2, <2>3 DEF OwnTypes
<1>5. SrTypeOK'
  BY <1>0, <1>2, <1>3, LoopKeepsSr
<1>6. UNCHANGED <<record, rslt>>
  BY <1>2 DEF KeepSr
<1>7. QED
  BY <1>3, <1>4, <1>5, <1>6, TypeParts

\* So do the wake-up thread, the text-to-speech thread and a stutter.
LEMMA TypesOutside ==
  ASSUME TypeOK, WakeupThread \/ Spoken \/ UNCHANGED vars
  PROVE  TypeOK' /\ UNCHANGED <<record, rslt>>
<1>0. SrTypeOK /\ isr \in IsrPlaces /\ OwnTypes
  BY TypeParts
<1>1. UNCHANGED srVars
  BY DEF WakeupThread, FirstInterrupt, PostWakeup, ClearMicFlag, Spoken, vars
<1>2. UNCHANGED <<record, rslt, isr>>
  BY <1>1 DEF srVars
<1>3. OwnTypes'
  <2>1. wakeSem' \in Nat /\ putSem' \in Nat /\ urlSem' \in Nat /\ wakeups' \in 0..MaxWakeups
    <3>1. wakeSem \in Nat /\ putSem \in Nat /\ urlSem \in Nat /\ wakeups \in 0..MaxWakeups /\ MaxWakeups \in Nat
      BY <1>0, VoiceAssistantAssumption DEF OwnTypes
    <3>2. wakeSem' \in {wakeSem, wakeSem + 1}
      BY DEF WakeupThread, FirstInterrupt, PostWakeup, ClearMicFlag, Spoken, vars, voiceVars
    <3>3. putSem' \in {putSem, putSem + 1} /\ urlSem' \in {urlSem, urlSem + 1}
      BY DEF WakeupThread, FirstInterrupt, PostWakeup, ClearMicFlag, Spoken, vars, voiceVars, ttsVars
    <3>4. wakeups' = wakeups \/ (wakeups < MaxWakeups /\ wakeups' = wakeups + 1)
      BY DEF WakeupThread, FirstInterrupt, PostWakeup, ClearMicFlag, Spoken, vars, voiceVars, micVars
    <3>5. QED
      BY <3>1, <3>2, <3>3, <3>4
  <2>2. seconds' = seconds /\ url' = url /\ audioPlay' = audioPlay
    BY DEF WakeupThread, FirstInterrupt, PostWakeup, ClearMicFlag, Spoken, vars, voiceVars, ttsVars
  <2>3. poll' \in {poll, "poll", "clear"}
    BY DEF WakeupThread, FirstInterrupt, PostWakeup, ClearMicFlag, Spoken, vars, voiceVars, micVars
  <2>4. micEnabled' = micEnabled \/ micEnabled' = FALSE
    BY DEF WakeupThread, FirstInterrupt, PostWakeup, ClearMicFlag, Spoken, vars, voiceVars, micVars
  <2>5. speaking' = speaking \/ speaking' = FALSE
    BY DEF WakeupThread, FirstInterrupt, PostWakeup, ClearMicFlag, Spoken, vars, voiceVars, ttsVars
  <2>6. micEnabled' \in BOOLEAN /\ speaking' \in BOOLEAN
    BY <1>0, <2>4, <2>5 DEF OwnTypes
  <2>7. QED
    BY <1>0, <2>1, <2>2, <2>3, <2>6 DEF OwnTypes
<1>4. QED
  BY <1>0, <1>1, <1>2, <1>3, SrUnchanged, TypeParts

\* The types of the voice loop, for any number of sessions and wake-ups: what
\* g_result is made of has been a session.
THEOREM VoiceTypeCorrect == Spec => []TypeOK
<1> DEFINE I == TypeOK /\ HoldsText
<1> USE SpeechRecognizerAssumption, VoiceAssistantAssumption
<1>1. Init => I
  <2> SUFFICES ASSUME Init PROVE I
    OBVIOUS
  <2>1. sr \in [Structs -> SpeechRec]
    BY NewRecTyped DEF Init, SrInit
  <2>2. SrTypeOK
    <3>1. /\ buffer = FALSE /\ over = FALSE /\ recorder \in {"CREATED", "READY"}
          /\ startSem = 0 /\ begun = 0 /\ result = {} /\ open = {} /\ target = "orig" /\ record = "wait"
          /\ rslt = NoSession /\ heard = NoSession
      BY DEF Init, SrInit
    <3>2. running \in BOOLEAN
      BY DEF Init, SrInit
    <3>3. begun \in 0..MaxSessions /\ startSem \in Nat
      BY <3>1
    <3>4. buffer \in BOOLEAN /\ over \in BOOLEAN
      BY <3>1
    <3>5. QED
      BY <2>1, <3>1, <3>2, <3>3, <3>4 DEF SrTypeOK, Structs
  <2>3. OwnTypes
    <3>1. wakeSem = 0 /\ putSem = 1 /\ urlSem = 0 /\ wakeups = 0 /\ seconds = 0 /\ poll = "first"
      BY DEF Init
    <3>2. micEnabled = TRUE /\ url = FALSE /\ audioPlay = FALSE /\ speaking = FALSE
      BY DEF Init
    <3>3. micEnabled \in BOOLEAN /\ url \in BOOLEAN /\ audioPlay \in BOOLEAN /\ speaking \in BOOLEAN
      BY <3>2
    <3>4. QED
      BY <3>1, <3>3 DEF OwnTypes
  <2>4. isr = "idle" /\ record = "wait"
    BY DEF Init, SrInit
  <2>5. QED
    BY <2>2, <2>3, <2>4, TypeParts DEF IsrPlaces, HoldsText
<1>2. I /\ [Next]_vars => I'
  <2> SUFFICES ASSUME I, [Next]_vars PROVE I'
    OBVIOUS
  <2>1. CASE VoiceLoop
    BY <2>1, TypesLoop DEF HoldsText
  <2>2. CASE Listening /\ UNCHANGED voiceVars
    <3>1. SrTypeOK' /\ isr' \in IsrPlaces
      BY <2>2, TypesStart, TypesStop DEF Listening
    <3>2. UNCHANGED <<record, rslt>>
      BY <2>2 DEF Listening, StartListening, StartRefused, SessionBegin, StartRecord, PostStartRecord, OnRecBegin,
         StopSteps, StopListening, LastWritten, LastRefused, DrainResult, DrainFails, DrainDone
    <3>3. QED
      BY <2>2, <3>1, <3>2 DEF IsrPlaces, voiceVars, micVars, ttsVars, TypeOK, HoldsText
  <2>3. CASE Recorder
    <3>1. SrTypeOK' /\ HoldsText'
      BY <2>3, TypesRecord DEF Recorder, TypeOK
    <3>2. QED
      BY <2>3, <3>1, RecorderKeeps DEF voiceVars, micVars, ttsVars, TypeOK
  <2>4. CASE WakeupThread \/ Spoken \/ UNCHANGED vars
    BY <2>4, TypesOutside DEF HoldsText
  <2>5. QED
    BY <2>1, <2>2, <2>3, <2>4 DEF Next, IsrThread
<1>3. QED
  BY <1>1, <1>2, PTL DEF Spec
-----------------------------------------------------------------------------
(* The end of speech *)

\* While the recorder records for the original struct and neither an error nor
\* the end of speech is noted, the callback takes its samples: the end of speech
\* that it may have met is about to be noted, and no call of end_sr_on_error from
\* before the listening is still to come.
HearingInv ==
  /\ recorder = "RECORDING" => isr \in {"post", "begin result", "listening", "stop"}
  /\ record \in {"forget", "again", "forgetAgain"} => over
  /\ recorder = "RECORDING" /\ target = "orig" /\ ~over =>
       /\ \/ sr["orig"].ep = "LOOKING_FOR_SPEECH"
          \/ sr["orig"].ep = "AFTER_SPEECH" /\ record \in {"get", "append", "vad", "fail"}
       /\ isr # "post" => sr["orig"].state = "STARTED"

\* A step that leaves the recorder stopped, and the record thread where it is.
LEMMA HearingStopped ==
  ASSUME HearingInv, recorder' # "RECORDING", record' = record, over' = over
  PROVE  HearingInv'
BY Zenon DEF HearingInv

\* sr_start_listening arms the struct before the recorder records for it.
LEMMA HearingStart ==
  ASSUME PromptThreads, StructInv, HearingInv, StartListening
  PROVE  HearingInv'
<1>0. sr \in [Structs -> SpeechRecs] /\ target \in Structs /\ "orig" \in Structs
  BY DEF StructInv, Structs
<1>1. CASE StartRefused
  <2>1. isr = "begin" /\ UNCHANGED <<recorder, record, over>>
    BY <1>1 DEF StartRefused, In
  <2>2. recorder # "RECORDING"
    BY <2>1 DEF HearingInv
  <2>3. QED
    BY <2>1, <2>2, HearingStopped
<1>2. CASE SessionBegin
  <2>1. isr = "begin" /\ UNCHANGED <<recorder, record>> /\ record \notin {"forget", "again", "forgetAgain"}
    BY <1>2 DEF SessionBegin, In, RecordIsBusy
  <2>2. recorder' # "RECORDING"
    BY <2>1 DEF HearingInv
  <2>3. QED
    BY <2>1, <2>2 DEF HearingInv
<1>3. CASE StartRecord
  <2>1. isr = "arm" /\ UNCHANGED <<record, over, target>>
    BY <1>3 DEF StartRecord, In
  <2>2. CASE recorder = "CREATED"
    BY <1>3, <2>1, <2>2, HearingStopped DEF StartRecord
  <2>3. CASE recorder # "CREATED"
    <3>1. isr' = "post" /\ sr' = [sr EXCEPT ![target] = Rearmed(@)]
      BY <1>3, <2>3 DEF StartRecord
    <3>2. target = "orig" => sr'["orig"].ep = "LOOKING_FOR_SPEECH"
      BY <1>0, <3>1 DEF SpeechRecs, Rearmed
    <3>3. QED
      BY <2>1, <3>1, <3>2, Zenon DEF HearingInv
  <2>4. QED
    BY <2>2, <2>3
<1>4. CASE PostStartRecord
  <2>1. /\ isr = "post" /\ isr' = "begin result" /\ UNCHANGED <<recorder, record, over, target>>
        /\ sr' = [sr EXCEPT ![target].state = "STARTED"]
    BY <1>4 DEF PostStartRecord, In
  <2>2. target = "orig" => sr'["orig"].ep = sr["orig"].ep /\ sr'["orig"].state = "STARTED"
    BY <1>0, <2>1 DEF SpeechRecs
  <2>3. QED
    BY <2>1, <2>2, Zenon DEF HearingInv
<1>5. CASE OnRecBegin
  <2>1. isr = "begin result" /\ isr' = "listening" /\ UNCHANGED <<recorder, record, over, target, sr>>
    BY <1>5 DEF OnRecBegin, In
  <2>2. QED
    BY <2>1, Zenon DEF HearingInv
<1>6. QED
  BY <1>1, <1>2, <1>3, <1>4, <1>5 DEF StartListening

\* sr_stop_listening stops the recorder before anything else.
LEMMA HearingStop ==
  ASSUME HearingInv, StopSteps
  PROVE  HearingInv'
<1>1. CASE StopListening \/ DrainFails
  <2>1. recorder' # "RECORDING" /\ record' = record
    BY <1>1 DEF StopListening, DrainFails, StopRecord
  <2>2. over' = over \/ over'
    BY <1>1 DEF StopListening, DrainFails
  <2>3. QED
    BY <2>1, <2>2, Zenon DEF HearingInv
<1>2. CASE LastRefused \/ DrainDone \/ (\E ep \in EpStates, rec \in RecStates : LastWritten(ep, rec))
           \/ (\E rec \in RecStates : DrainResult(rec))
  <2>1. isr \in {"last", "drain"} /\ UNCHANGED <<recorder, record, over>>
    BY <1>2 DEF LastRefused, DrainDone, LastWritten, DrainResult, In
  <2>2. recorder' # "RECORDING"
    BY <2>1 DEF HearingInv
  <2>3. QED
    BY <2>1, <2>2, HearingStopped
<1>3. QED
  BY <1>1, <1>2 DEF StopSteps

\* What it does with the recorder and the struct that the samples are for.
RecordKeepsHearing ==
  /\ UNCHANGED <<recorder, over>>
  /\ sr'["orig"].ep = sr["orig"].ep /\ sr'["orig"].state = sr["orig"].state
  /\ record \notin {"forget", "again", "forgetAgain"} => record' \notin {"forget", "again", "forgetAgain"}
  /\ record \in {"get", "append", "vad", "fail"} /\ sr["orig"].ep = "AFTER_SPEECH" =>
       record' \in {"get", "append", "vad", "fail"}

\* The record thread notes what it met before it goes for the next samples.
LEMMA HearingRecord ==
  ASSUME StructInv, HearingInv, RecordThread
  PROVE  HearingInv'
<1>0. sr \in [Structs -> SpeechRecs] /\ "orig" \in Structs
  BY DEF StructInv, Structs
<1>1. UNCHANGED <<isr, target>>
  BY DEF RecordThread, TakeStart, RecordLoop, PcmRead, PcmReadFails, AudioWrite, CallFails, GetResult, Append,
     VadStops, VadPoll, VadAppend, VadComplete, VadEnds, EndOnError, NothingToEnd, ForgetSession, KeepAll, KeepIsr
<1>2. ASSUME RecordKeepsHearing PROVE HearingInv'
  BY <1>1, <1>2, Zenon DEF HearingInv, RecordKeepsHearing
<1>3. ASSUME over', recorder' # "RECORDING" \/ recorder' = recorder PROVE HearingInv'
  BY <1>1, <1>3, Zenon DEF HearingInv
<1>4. CASE TakeStart \/ RecordLoop \/ PcmRead \/ PcmReadFails
           \/ CallFails \/ Append \/ VadAppend \/ VadComplete
  <2>1. UNCHANGED <<recorder, over, sr>>
    BY <1>4 DEF TakeStart, RecordLoop, PcmRead, PcmReadFails, CallFails, Append, VadAppend, VadComplete, KeepAll
  <2>2. record' \notin {"forget", "again", "forgetAgain"}
    BY <1>4 DEF TakeStart, RecordLoop, PcmRead, PcmReadFails, CallFails, Append, VadAppend, VadComplete, At, AfterResult
  <2>3. record \in {"get", "append", "vad", "fail"} /\ sr["orig"].ep = "AFTER_SPEECH" =>
          record' \in {"get", "append", "vad", "fail"}
    BY <1>4 DEF TakeStart, RecordLoop, PcmRead, PcmReadFails, CallFails, Append, VadAppend, VadComplete, At, AfterResult
  <2>4. QED
    BY <1>2, <2>1, <2>2, <2>3 DEF RecordKeepsHearing
<1>5. ASSUME NEW ep \in EpStates, NEW rec \in RecStates, AudioWrite(ep, rec)
      PROVE  HearingInv'
  <2>1. sr' = [sr EXCEPT !["orig"].ep = ep, !["orig"].rec = rec] /\ UNCHANGED recorder
        /\ over' = (over \/ ep = "BEYOND")
    BY <1>5 DEF AudioWrite
  <2>2. sr'["orig"].ep = ep /\ sr'["orig"].state = sr["orig"].state
    BY <1>0, <2>1 DEF SpeechRecs
  <2>3. record = "write" /\ record' \in {"get", "vad", "loop"} /\ (ep = "AFTER_SPEECH" => record' # "loop")
    BY <1>5, <2>2 DEF AudioWrite, At, AfterResult
  <2>4. ep = "LOOKING_FOR_SPEECH" \/ ep = "AFTER_SPEECH" \/ ep = "BEYOND"
    BY DEF EpStates
  <2>5. CASE ep = "BEYOND"
    <3>1. over'
      BY <2>1, <2>5, Zenon
    <3>2. QED
      BY <1>3, <2>1, <3>1
  <2>6. CASE ep # "BEYOND"
    <3>1. ~over' => ~over
      BY <2>1, Zenon
    <3>2. ep = "LOOKING_FOR_SPEECH" \/ (ep = "AFTER_SPEECH" /\ record' \in {"get", "append", "vad", "fail"})
      BY <2>3, <2>4, <2>6
    <3>3. record' \notin {"forget", "again", "forgetAgain"}
      BY <2>3
    <3>4. QED
      BY <1>1, <2>1, <2>2, <3>1, <3>2, <3>3, Zenon DEF HearingInv
  <2>7. QED
    BY <2>5, <2>6
<1>6. ASSUME NEW rec \in RecStates, NEW text \in BOOLEAN, GetResult(rec, text) \/ VadPoll(rec, text)
      PROVE  HearingInv'
  <2>1. sr' = [sr EXCEPT !["orig"].rec = rec] /\ UNCHANGED <<recorder, over>>
    BY <1>6 DEF GetResult, VadPoll
  <2>2. sr'["orig"].ep = sr["orig"].ep /\ sr'["orig"].state = sr["orig"].state
    BY <1>0, <2>1 DEF SpeechRecs
  <2>3. record' \in {"append", "vad", "loop", "poll", "pollAppend"} /\ record \in {"get", "poll"}
        /\ (record = "get" /\ sr["orig"].ep = "AFTER_SPEECH" => record' \in {"append", "vad"})
    BY <1>6 DEF GetResult, VadPoll, At, AfterResult
  <2>4. QED
    BY <1>2, <2>1, <2>2, <2>3 DEF RecordKeepsHearing
<1>7. CASE VadStops \/ VadEnds
  <2>1. over'
    BY <1>7 DEF VadStops, VadEnds
  <2>2. recorder' # "RECORDING" \/ recorder' = recorder
    BY <1>7 DEF VadStops, VadEnds, StopRecord
  <2>3. QED
    BY <1>3, <2>1, <2>2
<1>8. ASSUME NEW c \in ErrorCalls,
             EndOnError(c[1], c[2]) \/ NothingToEnd(c[1], c[3]) \/ ForgetSession(c[2], c[3])
      PROVE  HearingInv'
  <2>1. over'
    <3>1. CASE EndOnError(c[1], c[2]) \/ NothingToEnd(c[1], c[3])
      BY <3>1 DEF EndOnError, NothingToEnd
    <3>2. CASE ForgetSession(c[2], c[3])
      <4>1. record \in {"forget", "forgetAgain"} /\ over' = over
        BY <3>2 DEF ForgetSession, At, ErrorCalls
      <4>2. QED
        BY <4>1, Zenon DEF HearingInv
    <3>3. QED
      BY <1>8, <3>1, <3>2
  <2>2. recorder' # "RECORDING" \/ recorder' = recorder
    BY <1>8 DEF EndOnError, NothingToEnd, ForgetSession, StopRecord
  <2>3. QED
    BY <1>3, <2>1, <2>2
<1>9. QED
  BY <1>4, <1>5, <1>6, <1>7, <1>8 DEF RecordThread

\* Outside a listening the recorder is stopped, and while the thread listens the
\* loop moves nothing that matters.
LEMMA HearingLoop ==
  ASSUME HearingInv, VoiceLoop
  PROVE  HearingInv'
<1>1. UNCHANGED <<recorder, record, over>>
  BY DEF VoiceLoop, TakeWakeup, ListenOn, ListenedEnough, HandleResult, HandleSecondResult,
         TakeTurn, PutText, SetPlayUrl, EnableMic, KeepSr
<1>2. CASE ListenOn \/ ListenedEnough
  <2>1. UNCHANGED <<sr, target>> /\ isr = "listening" /\ isr' \in {"listening", "stop"}
    BY <1>2 DEF ListenOn, ListenedEnough, Go, In
  <2>2. QED
    BY <1>1, <2>1, Zenon DEF HearingInv
<1>3. CASE TakeWakeup \/ HandleResult \/ HandleSecondResult \/ TakeTurn \/ PutText \/ SetPlayUrl \/ EnableMic
  <2>1. isr \in {"idle", "stopped", "turn", "put", "tone", "enable"}
    BY <1>3 DEF TakeWakeup, HandleResult, HandleSecondResult, TakeTurn, PutText, SetPlayUrl, EnableMic, Go, In
  <2>2. recorder' # "RECORDING"
    BY <1>1, <2>1 DEF HearingInv
  <2>3. QED
    BY <1>1, <2>2, HearingStopped
<1>4. QED
  BY <1>2, <1>3 DEF VoiceLoop

\* In the first listening after a wake-up samples are ignored only after an error
\* or the end of speech: nothing that an earlier listening left in the struct, nor
\* a late step of the record thread, makes the callback deaf.
THEOREM FirstListeningHearsCorrect ==
  ASSUME PromptThreads
  PROVE  Spec => FirstListeningHears
<1>1. Init => HearingInv
  BY DEF Init, SrInit, HearingInv
<1>2. StructInv /\ HearingInv /\ [Next]_vars => HearingInv'
  <2> SUFFICES ASSUME StructInv, HearingInv, [Next]_vars
               PROVE  HearingInv'
    OBVIOUS
  <2>1. CASE VoiceLoop
    BY <2>1, HearingLoop
  <2>2. CASE Listening
    BY <2>2, PromptThreads, HearingStart, HearingStop DEF Listening
  <2>3. CASE Recorder
    BY <2>3, HearingRecord DEF Recorder
  <2>4. CASE WakeupThread \/ Spoken \/ UNCHANGED vars
    <3>1. UNCHANGED srVars
      BY <2>4 DEF WakeupThread, FirstInterrupt, PostWakeup, ClearMicFlag, Spoken, vars
    <3>2. QED
      BY <3>1 DEF srVars, HearingInv
  <2>5. QED
    BY <2>1, <2>2, <2>3, <2>4 DEF Next, IsrThread
<1>3. HearingInv /\ [Next]_vars => [Ignored /\ target = "orig" => over]_vars
  <2> SUFFICES ASSUME HearingInv, Next, Ignored, target = "orig"
               PROVE  over
    OBVIOUS
  <2>1. record = "read" /\ record' = "loop" /\ isr = "listening" /\ recorder = "RECORDING"
    BY DEF Ignored
  <2>2. PcmRead
    <3>1. CASE Recorder
      BY <2>1, <3>1 DEF Recorder, RecordThread, TakeStart, RecordLoop, PcmReadFails, AudioWrite, CallFails, GetResult,
         Append, VadStops, VadPoll, VadAppend, VadComplete, VadEnds, EndOnError, NothingToEnd, ForgetSession,
         At, AfterResult, ErrorCalls
    <3>2. CASE VoiceLoop
      BY <2>1, <3>2 DEF VoiceLoop, TakeWakeup, ListenOn, ListenedEnough, HandleResult, HandleSecondResult,
         TakeTurn, PutText, SetPlayUrl, EnableMic, KeepSr
    <3>3. CASE Listening
      BY <2>1, <3>3 DEF Listening, StartListening, StartRefused, SessionBegin, StartRecord, PostStartRecord, OnRecBegin,
         StopSteps, StopListening, LastWritten, LastRefused, DrainResult, DrainFails, DrainDone
    <3>4. CASE WakeupThread \/ Spoken
      BY <2>1, <3>4 DEF WakeupThread, FirstInterrupt, PostWakeup, ClearMicFlag, Spoken, srVars
    <3>5. QED
      BY <3>1, <3>2, <3>3, <3>4 DEF Next, IsrThread
  <2>3. Ignores(sr["orig"])
    BY <2>1, <2>2 DEF PcmRead, At
  <2>4. QED
    BY <2>1, <2>3, Zenon DEF HearingInv, Ignores
<1>4. StructInv /\ HearingInv /\ [Next]_vars => [Ignored /\ target = "orig" => over]_vars
  BY <1>3
<1>5. QED
  BY <1>1, <1>2, <1>4, SessionsInductive, PromptThreads, PTL DEF Spec, FirstListeningHears

=============================================================================
