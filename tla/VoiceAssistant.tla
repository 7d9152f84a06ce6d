--------------------------- MODULE VoiceAssistant ---------------------------
(***************************************************************************)
(* The loop of the recognition thread in user_isr.c around one or two      *)
(* listenings, the wake-up thread of microphone.c that starts it, and the  *)
(* text-to-speech thread that speaks the answers, which the repository     *)
(* only calls.                                                             *)
(***************************************************************************)
EXTENDS SpeechRecognizer

CONSTANTS
  RecordTime,   \* RECORDTIME, 10 seconds in the code
  MaxWakeups,   \* bound: interrupts of the microphone
  PutFaults     \* TRUE: tts_text_put may fail

ASSUME VoiceAssistantAssumption ==
  /\ RecordTime \in Nat
  /\ MaxWakeups \in Nat
  /\ PutFaults \in BOOLEAN

VARIABLES
  wakeSem,      \* sem_mic_wakeup
  putSem,       \* sem_put_next_tts_text
  urlSem,       \* sem_url_hint_tone
  micEnabled,   \* mic_wake_enable_flag
  poll,         \* where the wake-up thread is: "first", "poll" or "clear"
  wakeups,      \* the interrupts so far
  seconds,      \* i, the loops of a listening
  url,          \* the answer has a url to play
  audioPlay,    \* audio_play_flag
  speaking      \* the text-to-speech thread has a text

micVars == <<micEnabled, poll, wakeups>>
ttsVars == <<putSem, urlSem, url, audioPlay, speaking>>
voiceVars == <<wakeSem, micVars, ttsVars, seconds>>
vars == <<srVars, voiceVars>>

\* The recognition thread posts once before its loop.
Init ==
  /\ SrInit
  /\ wakeSem = 0 /\ putSem = 1 /\ urlSem = 0
  /\ micEnabled = TRUE /\ poll = "first" /\ wakeups = 0
  /\ seconds = 0
  /\ url = FALSE /\ audioPlay = FALSE /\ speaking = FALSE

Go(from, to) == In(from) /\ isr' = to

\* What the loop of the recognition thread leaves to sr_start_listening and
\* sr_stop_listening.
KeepSr == UNCHANGED <<recorder, startSem, buffer, result, record, rslt, open, begun, heard, over>>

-----------------------------------------------------------------------------
(* The wake-up thread *)

\* The first interrupt is that of setting the gpio up.
FirstInterrupt ==
  /\ running /\ poll = "first"
  /\ poll' = "poll"
  /\ UNCHANGED <<srVars, wakeSem, micEnabled, wakeups, ttsVars, seconds>>

\* A bug to tell from the code: every interrupt posts.
PostWakeupAlways ==
  /\ running /\ poll = "poll"
  /\ wakeups < MaxWakeups
  /\ wakeSem' = wakeSem + 1
  /\ wakeups' = wakeups + 1
  /\ poll' = "clear"
  /\ UNCHANGED <<srVars, micEnabled, ttsVars, seconds>>

PostWakeup ==
  /\ running /\ poll = "poll"
  /\ wakeups < MaxWakeups
  /\ micEnabled
  /\ wakeSem' = wakeSem + 1
  /\ wakeups' = wakeups + 1
  /\ poll' = "clear"
  /\ UNCHANGED <<srVars, micEnabled, ttsVars, seconds>>

\* The flag is cleared after the post; the recognition thread may be done by then.
ClearMicFlag ==
  /\ running /\ poll = "clear"
  /\ micEnabled' = FALSE
  /\ poll' = "poll"
  /\ UNCHANGED <<srVars, wakeSem, wakeups, ttsVars, seconds>>

-----------------------------------------------------------------------------
(* The recognition thread *)

TakeWakeup ==
  /\ Go("idle", "begin")
  /\ wakeSem > 0
  /\ wakeSem' = wakeSem - 1
  /\ target' = "orig"
  /\ KeepSr /\ UNCHANGED <<sr, running, micVars, ttsVars, seconds>>

\* sleep(1) while no end of speech is noted.
ListenOn ==
  /\ Go("listening", "listening")
  /\ sr[target].ep # "AFTER_SPEECH"
  /\ seconds < RecordTime
  /\ seconds' = seconds + 1
  /\ KeepSr /\ UNCHANGED <<sr, target, running, wakeSem, micVars, ttsVars>>

\* The end of speech, or the time is out.
ListenedEnough ==
  /\ Go("listening", "stop")
  /\ sr[target].ep = "AFTER_SPEECH" \/ seconds = RecordTime
  /\ seconds' = 0
  /\ KeepSr /\ UNCHANGED <<sr, target, running, wakeSem, micVars, ttsVars>>

\* What json_get_result and handle_sofa_cmd make of g_result: an empty one is
\* a text that is no command.  json_parse_document asserts that there is one.
Answers(got) == IF got = {} THEN {"text"} ELSE {"text", "command", "light"}

Parsed ==
  /\ running' = buffer
  /\ ~buffer => UNCHANGED <<isr, sr, target, url, audioPlay>>

\* handle_isr_result gets the struct by value; a sofa command is followed by a
\* second listening with that copy.
HandleResult ==
  /\ In("stopped") /\ target = "orig"
  /\ Parsed
  /\ buffer =>
       \E answer \in Answers(result), hasUrl \in IF result = {} THEN {FALSE} ELSE BOOLEAN :
         /\ sr' = IF answer = "command" THEN [sr EXCEPT !["copy"] = sr["orig"]] ELSE sr
         /\ url' = hasUrl
         /\ audioPlay' = (audioPlay \/ hasUrl)
         /\ isr' = CASE answer = "text"    -> "turn"
                     [] answer = "command" -> "begin"
                     [] answer = "light"   -> "enable"
         /\ target' = IF answer = "command" THEN "copy" ELSE "orig"
  /\ KeepSr /\ UNCHANGED <<wakeSem, micVars, putSem, urlSem, speaking, seconds>>

\* Its text is a command or not; the copy is not used again.
HandleSecondResult ==
  /\ target = "copy"
  /\ Go("stopped", "turn")
  /\ target' = "orig"
  /\ sr' = [sr EXCEPT !["copy"] = NewSpeechRec]
  /\ KeepSr /\ UNCHANGED <<running, wakeSem, micVars, ttsVars, seconds>>

\* A bug to tell from the code: the text is put without waiting for the turn.
TakeNoTurn ==
  /\ Go("turn", "put")
  /\ KeepSr
  /\ UNCHANGED <<sr, target, running, wakeSem, micVars, ttsVars, seconds>>

TakeTurn ==
  /\ Go("turn", "put")
  /\ putSem > 0
  /\ putSem' = putSem - 1
  /\ KeepSr
  /\ UNCHANGED <<sr, target, running, wakeSem, micVars, urlSem, url, audioPlay, speaking, seconds>>

\* A text that is not put is not spoken: the turn is not given back.
PutText ==
  /\ In("put")
  /\ \E ok \in IF PutFaults THEN BOOLEAN ELSE {TRUE} :
       /\ speaking' = (speaking \/ ok)
       /\ isr' = IF ok /\ url THEN "tone" ELSE "enable"
  /\ KeepSr
  /\ UNCHANGED <<sr, target, running, wakeSem, micVars, putSem, urlSem, url, audioPlay, seconds>>

SetPlayUrl ==
  /\ Go("tone", "enable")
  /\ urlSem > 0
  /\ urlSem' = urlSem - 1
  /\ audioPlay' = FALSE
  /\ KeepSr
  /\ UNCHANGED <<sr, target, running, wakeSem, micVars, putSem, url, speaking, seconds>>

EnableMic ==
  /\ Go("enable", "idle")
  /\ micEnabled' = TRUE
  /\ url' = FALSE
  /\ KeepSr
  /\ UNCHANGED <<sr, target, running, wakeSem, poll, wakeups, putSem, urlSem, audioPlay, speaking, seconds>>

VoiceLoop ==
  \/ TakeWakeup \/ ListenOn \/ ListenedEnough
  \/ HandleResult \/ HandleSecondResult
  \/ TakeTurn \/ PutText \/ SetPlayUrl \/ EnableMic

-----------------------------------------------------------------------------
(* The text-to-speech thread *)

\* A text has been spoken: post_next_tts_sem.
Spoken ==
  /\ running /\ speaking
  /\ speaking' = FALSE
  /\ putSem' = putSem + 1
  /\ urlSem' = IF audioPlay THEN urlSem + 1 ELSE urlSem
  /\ UNCHANGED <<srVars, wakeSem, micVars, url, audioPlay, seconds>>

-----------------------------------------------------------------------------
Listening == StartListening \/ StopSteps

IsrThread == VoiceLoop \/ (Listening /\ UNCHANGED voiceVars)
Recorder  == RecordThread /\ UNCHANGED voiceVars
WakeupThread == FirstInterrupt \/ PostWakeup \/ ClearMicFlag

Next == IsrThread \/ Recorder \/ WakeupThread \/ Spoken

Spec == Init /\ [][Next]_vars

\* The threads run, and the service that is asked for results has them in the
\* end, or fails.
FairSpec ==
  /\ Spec
  /\ WF_vars(IsrThread)
  /\ WF_vars((DrainFails \/ DrainDone) /\ UNCHANGED voiceVars)
  /\ WF_vars(Recorder)
  /\ WF_vars(Spoken)

-----------------------------------------------------------------------------
(* Properties *)

TypeOK ==
  /\ SrTypeOK
  /\ isr \in {"idle", "begin", "arm", "post", "begin result", "listening", "stop", "last",
              "drain", "stopped", "turn", "put", "tone", "enable"}
  /\ wakeSem \in Nat /\ putSem \in Nat /\ urlSem \in Nat
  /\ micEnabled \in BOOLEAN /\ poll \in {"first", "poll", "clear"}
  /\ wakeups \in 0..MaxWakeups /\ seconds \in 0..RecordTime
  /\ url \in BOOLEAN /\ audioPlay \in BOOLEAN /\ speaking \in BOOLEAN

\* While a wake-up is being answered no other is pending, although the flag that
\* keeps the microphone still is cleared after the post, possibly long after
\* (microphone.c 284-286 against user_isr.c 359).
WakeNotQueued == isr # "idle" => wakeSem = 0

\* The thread acts on what was said in the listening just ended, if it had a
\* session at all: no text of an earlier session is left in g_result or added
\* late by the record thread (user_isr.c 223, 248).
AnswerIsFresh == isr = "stopped" /\ heard # NoSession => result \subseteq {heard}

\* Whatever fails and whichever thread meets the failure first, a listening
\* leaves no session open at the service (sr_stop_listening, end_sr_on_error).
SessionsEnd ==
  isr \in {"stopped", "turn", "put", "tone", "enable", "idle"} => open = {}

\* A text is put only when the one before has been spoken (user_isr.c 257-262).
OneTextAtATime == isr = "put" => ~speaking

\* "ignore the data if error/vad happened" (speech_recognizer.c 119): as long as
\* the thread waits for the end of speech and the recorder records, samples are
\* ignored only after an error or the end of speech.
Ignored == record = "read" /\ record' = "loop" /\ isr = "listening" /\ recorder = "RECORDING"

\* The first listening keeps to it ...
FirstListeningHears == [][Ignored /\ target = "orig" => over]_vars

\* ... and so would any listening.
EveryListeningHears == [][Ignored => over]_vars

\* "after recording, isr thread will enable this flag, and recovery status"
\* (microphone.c 283): when no wake-up is posted or answered, the next is heard.
MicRecovered == poll = "poll" /\ wakeSem = 0 /\ isr = "idle" => micEnabled

\* Every wake-up is answered and the thread waits for the next, or the process
\* is dead: no failed call of the service, no race with the record thread and no
\* order of the semaphores keeps it (user_isr.c 319-360).
ListensAgain == isr # "idle" ~> (isr = "idle" \/ ~running)

=============================================================================
