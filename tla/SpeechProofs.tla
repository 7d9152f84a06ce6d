---------------------------- MODULE SpeechProofs ----------------------------
(***************************************************************************)
(* Theorems about the two ends of the voice assistant that run by          *)
(* themselves: Recorder, for a period and a device buffer of any size and  *)
(* any number of recordings, and Answer, for a buffer and pieces of any    *)
(* size and for any documents.                                             *)
(***************************************************************************)
EXTENDS Recorder, Answer, SequenceTheorems, TLAPS

-----------------------------------------------------------------------------
(* The recorder *)

Frames == [1..Period -> BOOLEAN]

\* Where the program is while there may be a record thread.
Running == {"idle", "post", "listening", "join"}

\* The thread comes when the recorder is open and is gone before it is closed.
LifeInv ==
  /\ startSem \in Nat
  /\ client = "opened" => state = "READY" /\ handle /\ audiobuf \in Frames
  /\ client \in {"init", "opened"} => recThread = "none"
  /\ client \in Running => recThread # "none"
  /\ recThread \notin {"none", "gone"}
       => /\ client \in Running
          /\ state \in {"READY", "RECORDING", "STOPPING"}
          /\ handle
          /\ audiobuf \in Frames

\* What has been read of the period is its beginning, up to where pcm_read is.
PeriodInv ==
  recThread \in {"read", "callback"}
    => /\ offset \in Nat /\ count \in Nat /\ offset + count = Period
       /\ audiobuf = [i \in 1..Period |-> i =< offset]
       /\ recThread = "callback" => count = 0

\* A start posted before there is a semaphore is the early one.
StartInv ==
  /\ recThread = "begin" /\ client = "listening" => early
  /\ StartNotLost

RecorderInv == LifeInv /\ PeriodInv /\ StartInv

-----------------------------------------------------------------------------
LEMMA LifeOfThread ==
  ASSUME LifeInv, [RecorderNext]_recorderVars
  PROVE  LifeInv'
<1>1. CASE OpenRecorder \/ OpenFails
  BY <1>1 DEF LifeInv, OpenRecorder, OpenFails, OpenDevice, Nothing, Frames, Turns, Running
<1>2. CASE CreateThread \/ ThreadFails
  BY <1>2 DEF LifeInv, CreateThread, ThreadFails, Turns, struct, Running
<1>3. CASE StartRecord \/ PostStart \/ Stop
  BY <1>3 DEF LifeInv, StartRecord, PostStart, Stop, Stopped, Turns, struct, Running
<1>4. CASE Cancel \/ Join \/ CloseRecorder
  BY <1>4 DEF LifeInv, Cancel, Join, CloseRecorder, CloseDevice, Turns, struct, Running
<1>5. CASE MakeSemaphore \/ WaitStart \/ RecordEnds
  BY <1>5 DEF LifeInv, MakeSemaphore, WaitStart, RecordEnds, Runs, Running
<1>6. CASE BeginRead
  BY <1>6 DEF LifeInv, BeginRead, Nothing, Frames, Runs, Running
<1>7. CASE Reads
  <2>1. PICK r \in 0..Period : ReadFrames(r)
    BY <1>7 DEF Reads
  <2>2. recThread = "read" /\ audiobuf' \in Frames
    BY <2>1 DEF ReadFrames, Runs, Frames
  <2>3. recThread' \in {"callback", "read"} /\ UNCHANGED <<client, handle, state, startSem>>
    BY <2>1 DEF ReadFrames, Runs
  <2> QED
    BY <2>2, <2>3 DEF LifeInv, Running
<1>8. CASE RecoverOverrun \/ RecoverSuspend \/ ReadFails \/ Callback \/ Cancelled
  BY <1>8 DEF LifeInv, RecoverOverrun, RecoverSuspend, ReadFails, Callback, Stopped, Cancelled, Runs, Running
<1>9. CASE Capture \/ Suspend \/ UNCHANGED recorderVars
  BY <1>9 DEF LifeInv, Capture, Suspend, KeepThreads, struct, recorderVars
<1> QED
  BY <1>1, <1>2, <1>3, <1>4, <1>5, <1>6, <1>7, <1>8, <1>9 DEF RecorderNext, Program, RecordThread

\* The pieces of a period follow one another.
LEMMA PeriodInOrder ==
  ASSUME LifeInv, PeriodInv, [RecorderNext]_recorderVars
  PROVE  PeriodInv'
<1>0. Period \in Nat \ {0}
  BY RecorderAssumption
<1>1. CASE Program
  <2>1. UNCHANGED <<offset, count>>
    BY <1>1 DEF Program, OpenRecorder, OpenFails, CreateThread, ThreadFails, StartRecord, PostStart, Stop, Cancel,
       Join, CloseRecorder, Turns, progress
  <2>2. CASE OpenRecorder \/ CreateThread \/ Join \/ CloseRecorder
    BY <2>2 DEF LifeInv, PeriodInv, OpenRecorder, CreateThread, Join, CloseRecorder, Turns, Running
  <2>3. CASE OpenFails \/ ThreadFails \/ StartRecord \/ PostStart \/ Stop \/ Cancel
    <3>1. UNCHANGED <<recThread, audiobuf>>
      BY <2>3 DEF OpenFails, ThreadFails, StartRecord, PostStart, Stop, Cancel, struct
    <3> QED
      BY <2>1, <3>1 DEF PeriodInv
  <2> QED
    BY <1>1, <2>2, <2>3 DEF Program
<1>2. CASE MakeSemaphore \/ WaitStart \/ RecordEnds \/ ReadFails \/ Callback \/ Cancelled
  BY <1>2 DEF PeriodInv, MakeSemaphore, WaitStart, RecordEnds, ReadFails, Callback, Cancelled, Runs
<1>3. CASE BeginRead
  <2>1. recThread' = "read" /\ offset' = 0 /\ count' = Period /\ audiobuf' = [i \in 1..Period |-> FALSE]
    BY <1>3 DEF BeginRead, Nothing, Runs
  <2>2. \A i \in 1..Period : FALSE = (i =< offset')
    BY <1>0, <2>1
  <2>3. audiobuf' = [i \in 1..Period |-> i =< offset']
    BY <2>1, <2>2
  <2>4. offset' \in Nat /\ count' \in Nat /\ offset' + count' = Period
    BY <1>0, <2>1
  <2> QED
    BY <2>1, <2>3, <2>4 DEF PeriodInv
<1>4. CASE Reads
  <2>1. PICK r \in 0..Period : ReadFrames(r)
    BY <1>4 DEF Reads
  <2>2. /\ offset \in Nat /\ count \in Nat /\ offset + count = Period
        /\ audiobuf = [i \in 1..Period |-> i =< offset]
    BY <2>1 DEF PeriodInv, ReadFrames, Runs
  <2>3. r \in 0..count /\ offset' = offset + r /\ count' = count - r
    BY <2>1 DEF ReadFrames, Advanced
  <2>4. audiobuf' = [i \in 1..Period |-> i =< offset']
    <3>1. audiobuf' = [i \in 1..Period |-> audiobuf[i] \/ i \in offset + 1..offset + r]
      BY <2>1 DEF ReadFrames
    <3>2. \A i \in 1..Period : (audiobuf[i] \/ i \in offset + 1..offset + r) <=> i =< offset'
      <4> SUFFICES ASSUME NEW i \in 1..Period
                   PROVE  (audiobuf[i] \/ i \in offset + 1..offset + r) <=> i =< offset'
        OBVIOUS
      <4>1. audiobuf[i] = (i =< offset)
        BY <2>2
      <4>2. i =< offset + r <=> i =< offset \/ i \in offset + 1..offset + r
        BY <1>0, <2>2, <2>3
      <4> QED
        BY <2>3, <4>1, <4>2
    <3>3. \A i \in 1..Period : (audiobuf[i] \/ i \in offset + 1..offset + r) = (i =< offset')
      BY <3>2
    <3> QED
      BY <3>1, <3>3
  <2>5. recThread' = IF r = count THEN "callback" ELSE "read"
    BY <2>1 DEF ReadFrames, Runs
  <2> QED
    BY <1>0, <2>2, <2>3, <2>4, <2>5 DEF PeriodInv
<1>5. CASE RecoverOverrun \/ RecoverSuspend \/ Capture \/ Suspend \/ UNCHANGED recorderVars
  <2>1. UNCHANGED <<recThread, offset, count, audiobuf>>
    BY <1>5 DEF RecoverOverrun, RecoverSuspend, Runs, progress, Capture, Suspend, KeepThreads, struct, recorderVars
  <2> QED
    BY <2>1 DEF PeriodInv
<1> QED
  BY <1>1, <1>2, <1>3, <1>4, <1>5 DEF RecorderNext, RecordThread

\* A start is taken by the thread or waits for it.
LEMMA StartsKept ==
  ASSUME LifeInv, StartInv, [RecorderNext]_recorderVars
  PROVE  StartInv'
<1>1. CASE PostStart
  <2>1. client' = "listening" /\ startSem' = startSem + 1 /\ startSem \in Nat
    BY <1>1 DEF PostStart, Turns, LifeInv
  <2>2. recThread' = "begin" => early'
    BY <1>1 DEF PostStart
  <2> QED
    BY <2>1, <2>2 DEF StartInv, StartNotLost
<1>2. CASE Program /\ ~ PostStart
  <2>1. client' # "listening"
    BY <1>2 DEF Program, OpenRecorder, OpenFails, CreateThread, ThreadFails, StartRecord, Stop, Cancel, Join,
       CloseRecorder, Turns
  <2> QED
    BY <2>1 DEF StartInv, StartNotLost
<1>3. CASE MakeSemaphore \/ WaitStart \/ RecordEnds \/ BeginRead
  BY <1>3 DEF StartInv, StartNotLost, MakeSemaphore, WaitStart, RecordEnds, BeginRead, Runs
<1>4. CASE Reads
  <2>1. recThread' \in {"read", "callback"}
    BY <1>4 DEF Reads, ReadFrames, Runs
  <2> QED
    BY <2>1 DEF StartInv, StartNotLost
<1>5. CASE RecoverOverrun \/ RecoverSuspend \/ ReadFails \/ Callback \/ Cancelled
  BY <1>5 DEF StartInv, StartNotLost, RecoverOverrun, RecoverSuspend, ReadFails, Callback, Cancelled, Runs
<1>6. CASE Capture \/ Suspend \/ UNCHANGED recorderVars
  BY <1>6 DEF StartInv, StartNotLost, Capture, Suspend, KeepThreads, struct, recorderVars
<1> QED
  BY <1>1, <1>2, <1>3, <1>4, <1>5, <1>6 DEF RecorderNext, RecordThread

LEMMA RecorderInvariant == RecorderSpec => []RecorderInv
<1>1. RecorderInit => RecorderInv
  BY DEF RecorderInit, RecorderInv, LifeInv, PeriodInv, StartInv, StartNotLost, Running
<1>2. RecorderInv /\ [RecorderNext]_recorderVars => RecorderInv'
  BY LifeOfThread, PeriodInOrder, StartsKept DEF RecorderInv
<1> QED
  BY <1>1, <1>2, PTL DEF RecorderSpec

-----------------------------------------------------------------------------
\* Whatever the device does, the callback of linuxrec.c gets a whole period of
\* its own read.
THEOREM CallbackFreshCorrect == RecorderSpec => []CallbackFresh
<1>1. RecorderInv => CallbackFresh
  <2> SUFFICES ASSUME RecorderInv, recThread = "callback"
               PROVE  audiobuf = [i \in 1..Period |-> TRUE]
    BY DEF CallbackFresh
  <2>1. offset \in Nat /\ offset + 0 = Period /\ audiobuf = [i \in 1..Period |-> i =< offset]
    BY DEF RecorderInv, PeriodInv
  <2>2. \A i \in 1..Period : (i =< offset) = TRUE
    BY <2>1, RecorderAssumption
  <2> QED
    BY <2>1, <2>2
<1> QED
  BY <1>1, RecorderInvariant, PTL

\* The record thread touches no recorder that is closed or freed: what
\* sr_uninit's cancel and join give although close_recorder_internal has none.
THEOREM ThreadHasRecorderCorrect == RecorderSpec => []ThreadHasRecorder
<1>1. RecorderInv => ThreadHasRecorder
  <2>1. NULL \notin Frames
    BY RecorderAssumption DEF Frames
  <2> QED
    BY <2>1 DEF RecorderInv, LifeInv, ThreadHasRecorder
<1> QED
  BY <1>1, RecorderInvariant, PTL

\* However start, stop and the thread's look at the state fall together, the
\* thread does not wait for a start that was taken for an earlier recording.
THEOREM StartNotLostCorrect == RecorderSpec => []StartNotLost
<1>1. RecorderInv => StartNotLost
  BY DEF RecorderInv, StartInv
<1> QED
  BY <1>1, RecorderInvariant, PTL

-----------------------------------------------------------------------------
(* ResultFits *)

\* The answer is as long as MaxAnswer at most, and the buffer grows for no
\* longer one.
LengthInv ==
  /\ strlen \in Int /\ NULL_RESULT =< strlen /\ strlen =< MaxAnswer
  /\ g_buffersize \in Nat /\ 0 < g_buffersize /\ g_buffersize =< MaxAnswer + BUFFER_SIZE
  /\ ResultFits

LEMMA LengthNext == LengthInv /\ [AnswerNext]_answerVars => LengthInv'
<1> SUFFICES ASSUME LengthInv, [AnswerNext]_answerVars PROVE LengthInv'
  OBVIOUS
<1>1. BUFFER_SIZE \in Nat /\ BUFFER_SIZE > 0 /\ MaxAnswer \in Nat /\ SIZE_MAX \in Nat /\ MaxAnswer + BUFFER_SIZE =< SIZE_MAX
  BY AnswerAssumption
<1>2. CASE on_rec_begin
  <2>1. strlen' = 0 /\ g_buffersize' = BUFFER_SIZE /\ ~ overrun'
    BY <1>2 DEF on_rec_begin
  <2> QED
    BY <1>1, <2>1 DEF LengthInv, ResultFits, NULL_RESULT
<1>3. ASSUME NEW size \in PieceSizes, on_rec_result(size) PROVE LengthInv'
  <2>1. size \in Nat
    BY AnswerAssumption
  <2>2. /\ strlen \in Nat /\ strlen + size =< MaxAnswer
        /\ g_buffersize \in Nat /\ 0 < g_buffersize /\ g_buffersize =< MaxAnswer + BUFFER_SIZE
    BY <1>3, <2>1 DEF on_rec_result, LengthInv, NULL_RESULT
  <2>3. strlen < g_buffersize <=> ~ overrun
    BY DEF LengthInv, ResultFits
  <2>4. /\ Left \in Int
        /\ strlen < g_buffersize => Left = g_buffersize - 1 - strlen
        /\ strlen >= g_buffersize => Left >= size
    BY <1>1, <2>1, <2>2 DEF Left
  <2>5. CASE Left >= size /\ strlen' = strlen + size /\ UNCHANGED <<g_buffersize, overrun>>
    <3>1. strlen' < g_buffersize' <=> strlen < g_buffersize
      BY <2>1, <2>2, <2>4, <2>5
    <3> QED
      BY <2>1, <2>2, <2>3, <2>5, <3>1 DEF LengthInv, ResultFits, NULL_RESULT
  <2>6. CASE /\ Left < size
             /\ strlen' = strlen + size /\ g_buffersize' = g_buffersize + BUFFER_SIZE
             /\ overrun' = (strlen + size >= g_buffersize + BUFFER_SIZE)
    <3>1. strlen < g_buffersize
      <4>1. Left < size
        BY <2>6
      <4> QED
        BY <2>1, <2>2, <2>4, <4>1
    <3>2. g_buffersize' \in Nat /\ 0 < g_buffersize' /\ g_buffersize' =< MaxAnswer + BUFFER_SIZE
      BY <1>1, <2>1, <2>2, <2>4, <2>6, <3>1
    <3>3. strlen' < g_buffersize' <=> ~ (strlen + size >= g_buffersize + BUFFER_SIZE)
      BY <1>1, <2>1, <2>2, <2>6
    <3>4. ResultFits'
      BY <2>6, <3>3 DEF ResultFits
    <3> QED
      BY <2>1, <2>2, <2>6, <3>2, <3>4 DEF LengthInv, NULL_RESULT
  <2>7. CASE Left < size /\ strlen' = NULL_RESULT /\ UNCHANGED <<g_buffersize, overrun>>
    <3>1. strlen < g_buffersize
      <4>1. Left < size
        BY <2>7
      <4> QED
        BY <2>1, <2>2, <2>4, <4>1
    <3> QED
      BY <1>1, <2>2, <2>3, <2>7, <3>1 DEF LengthInv, ResultFits, NULL_RESULT
  <2> QED
    BY <1>3, <2>5, <2>6, <2>7 DEF on_rec_result
<1>4. CASE UNCHANGED gathered
  BY <1>4 DEF gathered, LengthInv, ResultFits
<1> QED
  BY <1>2, <1>3, <1>4 DEF AnswerNext, NullResult, OverrunShows, HandleFirst, HandleSecond, answerVars, gathered

\* For a buffer of any size and pieces of any length, whichever realloc fails:
\* the answer is over the end of its buffer exactly behind a piece that was
\* longer than what was left and one BUFFER_SIZE together.
THEOREM ResultFitsCorrect == AnswerSpec => []ResultFits
<1>1. AnswerInit => LengthInv
  <2> SUFFICES ASSUME AnswerInit PROVE LengthInv
    OBVIOUS
  <2>1. strlen = NULL_RESULT /\ g_buffersize = BUFFER_SIZE /\ ~ overrun
    BY DEF AnswerInit
  <2> QED
    BY <2>1, AnswerAssumption DEF LengthInv, ResultFits, NULL_RESULT
<1>2. LengthInv => ResultFits
  BY DEF LengthInv
<1> QED
  BY <1>1, <1>2, LengthNext, PTL DEF AnswerSpec

-----------------------------------------------------------------------------
(* SofaCommandSent *)

\* A text that has a phrase in it has the phrase's first syllable in it.
LEMMA FirstSyllable ==
  ASSUME NEW S, NEW text \in Seq(S), NEW p, Len(p) \in Nat \ {0}, strstr(text, p)
  PROVE  \E j \in 1..Len(text) : text[j] = p[1]
<1>1. Len(text) \in Nat /\ Len(p) \in Nat /\ Len(p) >= 1
  OBVIOUS
<1>2. PICK i \in 0..Len(text) - Len(p) : SubSeq(text, i + 1, i + Len(p)) = p
  BY DEF strstr
<1>3. i + 1 \in 1..Len(text) /\ i + Len(p) \in 1..Len(text) /\ 1 \in 1..(i + Len(p)) - (i + 1) + 1
  BY <1>1, <1>2
<1>4. p[1] = text[i + 1]
  BY <1>1, <1>2, <1>3
<1> QED
  BY <1>3, <1>4

\* What the phrases of the table begin with.
FirstSyllables == {"ting", "zan", "fu", "da", "guan", "tou"}

LEMMA PhrasesBegin ==
  ASSUME NEW k \in DOMAIN sofa_command_compare_table, NEW p \in sofa_command_compare_table[k]
  PROVE  Len(p) \in Nat \ {0} /\ p[1] \in FirstSyllables
<1>1. k \in 1..6
  BY DEF sofa_command_compare_table
<1>2. /\ sofa_command_compare_table[1] = {<<"ting", "zhi">>, <<"ting", "xia", "lai">>, <<"zan", "ting">>}
      /\ sofa_command_compare_table[2] = {<<"fu", "wei">>}
      /\ sofa_command_compare_table[3] =
           {<<"da", "kai", "sha", "fa">>, <<"da", "kai", "shang", "fang">>, <<"da", "kai", "xia", "ba">>}
      /\ sofa_command_compare_table[4] = {<<"guan", "bi", "sha", "fa">>, <<"da", "kai", "xia", "fang">>}
      /\ sofa_command_compare_table[5] = {<<"tou", "bu", "da", "kai">>}
      /\ sofa_command_compare_table[6] = {<<"tou", "bu", "guan", "bi">>}
  BY DEF sofa_command_compare_table
<1>3. \/ \E x \in FirstSyllables : \E y : p = <<x, y>>
      \/ \E x \in FirstSyllables : \E y, z : p = <<x, y, z>>
      \/ \E x \in FirstSyllables : \E y, z, u : p = <<x, y, z, u>>
  <2>1. CASE k = 1
    BY <1>2, <2>1 DEF FirstSyllables
  <2>2. CASE k = 2
    BY <1>2, <2>2 DEF FirstSyllables
  <2>3. CASE k = 3
    BY <1>2, <2>3 DEF FirstSyllables
  <2>4. CASE k = 4
    BY <1>2, <2>4 DEF FirstSyllables
  <2>5. CASE k = 5
    BY <1>2, <2>5 DEF FirstSyllables
  <2>6. CASE k = 6
    BY <1>2, <2>6 DEF FirstSyllables
  <2> QED
    BY <1>1, <2>1, <2>2, <2>3, <2>4, <2>5, <2>6
<1> QED
  BY <1>3

\* The apology names no command.
LEMMA ApologyNamesNone == Named(Apology) = {}
<1> SUFFICES ASSUME NEW k \in DOMAIN sofa_command_compare_table, NEW p \in sofa_command_compare_table[k],
                    strstr(Apology, p)
             PROVE  FALSE
  BY DEF Named
<1>1. Apology \in Seq({"bao", "qian", "mei", "you", "zhao", "dao", "nin", "xiang", "yao", "de", "xin", "xi"})
  BY DEF Apology
<1>2. Len(Apology) = 12
  BY DEF Apology
<1>3. PICK j \in 1..12 : Apology[j] = p[1]
  BY <1>1, <1>2, PhrasesBegin, FirstSyllable
<1>4. Apology[j] \notin FirstSyllables
  BY <1>3 DEF Apology, FirstSyllables
<1> QED
  BY <1>3, <1>4, PhrasesBegin

\* The shifts of the code give the numbers of the protocol's header.
LEMMA NumbersAgree == \A k \in DOMAIN sofa_command_compare_table : SofaNumber(k) = SOFA_CMD[k]
<1> SUFFICES ASSUME NEW k \in 1..6 PROVE SofaNumber(k) = SOFA_CMD[k]
  BY DEF sofa_command_compare_table
<1>1. 2 ^ 0 = 1 /\ 2 ^ 1 = 2 /\ 2 ^ 2 = 4 /\ 2 ^ 3 = 8 /\ 2 ^ 4 = 16
  OBVIOUS
<1>2. CASE k = 1
  BY <1>2 DEF SofaNumber, SOFA_CMD
<1>3. CASE k = 2
  BY <1>1, <1>3 DEF SofaNumber, SOFA_CMD
<1>4. CASE k = 3
  BY <1>1, <1>4 DEF SofaNumber, SOFA_CMD
<1>5. CASE k = 4
  BY <1>1, <1>5 DEF SofaNumber, SOFA_CMD
<1>6. CASE k = 5
  BY <1>1, <1>6 DEF SofaNumber, SOFA_CMD
<1>7. CASE k = 6
  BY <1>1, <1>7 DEF SofaNumber, SOFA_CMD
<1> QED
  BY <1>2, <1>3, <1>4, <1>5, <1>6, <1>7

\* The command is what handle_sofa_cmd makes of the text, the text what
\* json_get_result makes of the document, and the document what was read.
HandledInv ==
  isr \in {"second", "handled"}
    => /\ isrResult = json_get_result(doc)
       /\ command = handle_sofa_cmd(isrResult) \/ (isrType = "cmd" /\ command = NoCommand)
       /\ strlen = 0 => doc = Unread

LEMMA HandledNext == HandledInv /\ [AnswerNext]_answerVars => HandledInv'
<1> SUFFICES ASSUME HandledInv, [AnswerNext]_answerVars PROVE HandledInv'
  OBVIOUS
<1>1. CASE on_rec_begin
  BY <1>1 DEF on_rec_begin, HandledInv
<1>2. CASE NullResult \/ OverrunShows \/ \E size \in PieceSizes : on_rec_result(size)
  BY <1>2 DEF NullResult, OverrunShows, on_rec_result, Gathering, HandledInv
<1>3. ASSUME NEW d, HandleFirst(d) \/ HandleSecond(d) PROVE HandledInv'
  <2>1. strlen' = strlen /\ (strlen = 0 => d = Unread) /\ doc' = d /\ isrResult' = json_get_result(d)
    BY <1>3 DEF HandleFirst, HandleSecond, Takes, Read, gathered
  <2>2. command' = handle_sofa_cmd(json_get_result(d)) \/ (isrType' = "cmd" /\ command' = NoCommand)
    BY <1>3 DEF HandleFirst, HandleSecond, Takes
  <2> QED
    BY <2>1, <2>2 DEF HandledInv, json_get_result, handle_sofa_cmd, Named
<1>4. CASE UNCHANGED answerVars
  BY <1>4 DEF answerVars, HandledInv
<1> QED
  BY <1>1, <1>2, <1>3, <1>4 DEF AnswerNext

LEMMA HandledAsNamed == HandledInv => SofaCommandSent
<1> SUFFICES ASSUME HandledInv, isr \in {"second", "handled"}
             PROVE  /\ Named(isrResult) = {} => command = NoCommand
                    /\ \A k \in Named(isrResult) :
                         Named(isrResult) = {k} /\ (isrType = "text") => command = SOFA_CMD[k]
                    /\ ~ doc.read \/ strlen = 0 => command = NoCommand /\ isrResult = Apology
  BY DEF SofaCommandSent
<1>1. Named(isrResult) = {} => command = NoCommand
  BY DEF HandledInv, handle_sofa_cmd
<1>2. ASSUME NEW k \in Named(isrResult), Named(isrResult) = {k}, isrType = "text"
      PROVE  command = SOFA_CMD[k]
  <2>1. command = handle_sofa_cmd(isrResult)
    BY <1>2 DEF HandledInv
  <2>2. k \in 1..6 /\ k \in DOMAIN sofa_command_compare_table
    BY DEF Named, sofa_command_compare_table
  <2>3. (CHOOSE m \in Named(isrResult) : \A j \in Named(isrResult) : m =< j) = k
    BY <1>2, <2>2
  <2>4. command = SofaNumber(k)
    BY <1>2, <2>1, <2>3 DEF handle_sofa_cmd
  <2> QED
    BY <2>2, <2>4, NumbersAgree
<1>3. ASSUME ~ doc.read \/ strlen = 0 PROVE command = NoCommand /\ isrResult = Apology
  <2>1. ~ doc.read
    <3>1. ~ Unread.read
      BY DEF Unread
    <3> QED
      BY <1>3, <3>1 DEF HandledInv
  <2>2. isrResult = Apology
    BY <2>1 DEF HandledInv, json_get_result
  <2> QED
    BY <1>1, <2>2, ApologyNamesNone
<1> QED
  BY <1>1, <1>2, <1>3

\* Whatever the documents say: what one phrase of the table names is sent as
\* that command's number in the protocol's header, what names none as none, and
\* an answer that could not be read moves nothing.
THEOREM SofaCommandSentCorrect == AnswerSpec => []SofaCommandSent
<1>1. AnswerInit => HandledInv
  BY DEF AnswerInit, HandledInv
<1> QED
  BY <1>1, HandledNext, HandledAsNamed, PTL DEF AnswerSpec

=============================================================================
