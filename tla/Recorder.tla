------------------------------- MODULE Recorder -------------------------------
(***************************************************************************)
(* linuxrec.c: the recorder, its record thread down to the reads of the    *)
(* device with their short counts, overruns and suspensions, and the       *)
(* program of speech_recognizer.c that opens, starts, stops and closes it. *)
(* The two threads share struct recorder without a lock.                   *)
(***************************************************************************)
EXTENDS Naturals

CONSTANTS
  NULL,
  Period,      \* rec->period_frames
  BufferSize,  \* rec->buffer_frames: what the device holds for its reader
  AutoStart,   \* TRUE: any read starts a device that is prepared
  MaxPosts     \* bound: starts posted and not yet taken

ASSUME RecorderAssumption ==
  /\ Period \in Nat \ {0}
  /\ BufferSize \in Nat /\ BufferSize >= Period
  /\ AutoStart \in BOOLEAN
  /\ MaxPosts \in Nat
  /\ NULL \notin [1..Period -> BOOLEAN]

VARIABLES
  state,      \* rec->state; "NONE" before create_recorder and after free(rec)
  handle,     \* rec->wavein_hdl is an open PCM
  audiobuf,   \* rec->audiobuf: whether each frame is of the read going on
  startSem,   \* sem_start_record
  recThread,  \* where the record thread is
  cancelled,  \* pthread_cancel was called on it
  offset,     \* data - rec->audiobuf, in frames
  count,      \* the frames pcm_read has yet to get
  device,     \* the state of the PCM
  avail,      \* the frames it holds
  client,     \* where the program is
  early       \* history: a start was posted before there was a semaphore

recorderVars == <<state, handle, audiobuf, startSem, recThread, cancelled,
                  offset, count, device, avail, client, early>>

struct   == <<state, handle, audiobuf>>
progress == <<offset, count>>
pcm      == <<device, avail>>

RecorderInit ==
  /\ state = "NONE" /\ handle = FALSE /\ audiobuf = NULL
  /\ startSem = 0
  /\ recThread = "none" /\ cancelled = FALSE
  /\ offset = 0 /\ count = 0
  /\ device = "PREPARED" /\ avail = 0
  /\ client = "init" /\ early = FALSE

-----------------------------------------------------------------------------
(* The program: sr_init_ex, sr_start_listening, sr_stop_listening, sr_uninit *)

Turns(from, to) == client = from /\ client' = to /\ UNCHANGED <<progress, pcm>>

\* set_hwparams refuses a period of the whole buffer.
SetHwParams == Period # BufferSize

\* set_swparams: the frames from which on a read starts the device.
StartThreshold == 2 * BufferSize

Nothing == [i \in 1..Period |-> FALSE]

OpenDevice  == SetHwParams /\ handle' = TRUE /\ audiobuf' = Nothing
CloseDevice == handle' = FALSE /\ audiobuf' = NULL

\* create_recorder and open_recorder.
OpenRecorder ==
  /\ Turns("init", "opened")
  /\ state' = "READY" /\ OpenDevice
  /\ UNCHANGED <<startSem, recThread, cancelled, early>>

\* open_recorder_internal closes what it opened, and open_recorder would return
\* 0; but it first logs the state of the PCM, through a handle that is NULL.
OpenFails ==
  /\ Turns("init", "crash")
  /\ state' = "CREATED"
  /\ UNCHANGED <<handle, audiobuf, startSem, recThread, cancelled, early>>

CreateThread ==
  /\ Turns("opened", "idle")
  /\ recThread' = "begin"
  /\ UNCHANGED <<struct, startSem, cancelled, early>>

\* The recorder is freed, but neither the PCM nor the buffer.
ThreadFails ==
  /\ Turns("opened", "failed")
  /\ state' = "NONE"
  /\ UNCHANGED <<handle, audiobuf, startSem, recThread, cancelled, early>>

\* start_record, which no longer starts the device.
StartRecord ==
  /\ Turns("idle", "post")
  /\ startSem < MaxPosts
  /\ state' = "RECORDING"
  /\ UNCHANGED <<handle, audiobuf, startSem, recThread, cancelled, early>>

\* A bug to tell from the code: there is one start to post, not one for each recording.
PostStartOnce ==
  /\ Turns("post", "listening")
  /\ startSem' = IF recThread = "begin" THEN startSem + 1 ELSE startSem
  /\ early' = (early \/ recThread = "begin")
  /\ UNCHANGED <<struct, recThread, cancelled>>

PostStart ==
  /\ Turns("post", "listening")
  /\ startSem' = startSem + 1
  /\ early' = (early \/ recThread = "begin")
  /\ UNCHANGED <<struct, recThread, cancelled>>

Stopped == IF state = "RECORDING" THEN "STOPPING" ELSE state

\* stop_record, which no longer stops the device.
Stop ==
  /\ Turns("listening", "idle")
  /\ state' = Stopped
  /\ UNCHANGED <<handle, audiobuf, startSem, recThread, cancelled, early>>

Cancel ==
  /\ Turns("idle", "join")
  /\ cancelled' = TRUE
  /\ UNCHANGED <<struct, startSem, recThread, early>>

\* A bug to tell from the code: the thread is not waited for, as in
\* close_recorder_internal, where the wait is commented out.
JoinNot == Turns("join", "close") /\ UNCHANGED <<struct, startSem, recThread, cancelled, early>>

Join ==
  /\ Turns("join", "close")
  /\ recThread = "gone"
  /\ UNCHANGED <<struct, startSem, recThread, cancelled, early>>

\* is_record_stopped, stop_record, close_recorder and destroy_recorder.
CloseRecorder ==
  /\ Turns("close", "end")
  /\ state' = "NONE" /\ CloseDevice
  /\ UNCHANGED <<startSem, recThread, cancelled, early>>

Program ==
  \/ OpenRecorder \/ OpenFails \/ CreateThread \/ ThreadFails
  \/ StartRecord \/ PostStart \/ Stop
  \/ Cancel \/ Join \/ CloseRecorder

-----------------------------------------------------------------------------
(* The record thread *)

Runs(from, to) == recThread = from /\ recThread' = to /\ UNCHANGED <<handle, cancelled, client, early>>

\* The thread makes the semaphore itself: a start posted before is lost.
MakeSemaphore ==
  /\ Runs("begin", "wait")
  /\ startSem' = 0
  /\ UNCHANGED <<state, audiobuf, progress, pcm>>

WaitStart ==
  /\ Runs("wait", "loop")
  /\ startSem > 0
  /\ startSem' = startSem - 1
  /\ UNCHANGED <<state, audiobuf, progress, pcm>>

RecordEnds ==
  /\ Runs("loop", "wait")
  /\ state # "RECORDING"
  /\ UNCHANGED <<state, audiobuf, startSem, progress, pcm>>

\* A bug to tell from the code: the thread does not look at the state.
RecordsOn == TRUE

Records == state = "RECORDING"

\* pcm_read is called: what the buffer holds is of an earlier read.
BeginRead ==
  /\ Runs("loop", "read")
  /\ Records
  /\ count' = Period /\ offset' = 0 /\ audiobuf' = Nothing
  /\ UNCHANGED <<state, startSem, pcm>>

\* A bug to tell from the code: the rest is read to the start of the buffer.
AdvancedNot(r) == 0

Advanced(r) == offset + r

\* snd_pcm_readi returns r frames, perhaps fewer than it was asked for; then
\* pcm_read waits and asks for the rest.  The program never starts the device,
\* and a period is below the threshold: whether the read starts it all the same
\* is up to the ALSA library.
ReadFrames(r) ==
  /\ Runs("read", IF r = count THEN "callback" ELSE "read")
  /\ device \in {"PREPARED", "RUNNING"}
  /\ r \in 0..count /\ r =< avail
  /\ count' = count - r
  /\ offset' = Advanced(r)
  /\ audiobuf' = [i \in 1..Period |-> audiobuf[i] \/ i \in offset + 1..offset + r]
  /\ device' = IF AutoStart \/ count >= StartThreshold THEN "RUNNING" ELSE device
  /\ avail' = avail - r
  /\ UNCHANGED <<state, startSem>>

\* xrun_recovery of an overrun: what the device held is dropped.
RecoverOverrun ==
  /\ Runs("read", "read")
  /\ device = "XRUN"
  /\ device' = "PREPARED" /\ avail' = 0
  /\ UNCHANGED <<state, audiobuf, startSem, progress>>

\* xrun_recovery of a suspension: resumed, or prepared if that fails.  The
\* thread tries as long as the device says EAGAIN.
RecoverSuspend ==
  /\ Runs("read", "read")
  /\ device = "SUSPENDED"
  /\ \/ device' = "RUNNING" /\ UNCHANGED avail
     \/ device' = "PREPARED" /\ avail' = 0
  /\ UNCHANGED <<state, audiobuf, startSem, progress>>

\* Any other error, or a recovery that fails: the thread returns and leaves the
\* recorder recording.
ReadFails ==
  /\ Runs("read", "gone")
  /\ UNCHANGED <<state, audiobuf, startSem, progress, pcm>>

\* on_data_ind, which may meet the end of the speech and stop the recorder.
Callback ==
  /\ Runs("callback", "loop")
  /\ state' \in {state, Stopped}
  /\ UNCHANGED <<audiobuf, startSem, progress, pcm>>

\* Every place of the thread calls something that a cancellation ends.
Cancelled ==
  /\ cancelled
  /\ recThread \notin {"none", "gone"}
  /\ Runs(recThread, "gone")
  /\ UNCHANGED <<state, audiobuf, startSem, progress, pcm>>

Reads == \E r \in 0..Period : ReadFrames(r)

RecordThread ==
  \/ MakeSemaphore \/ WaitStart \/ RecordEnds \/ BeginRead
  \/ Reads \/ RecoverOverrun \/ RecoverSuspend \/ ReadFails
  \/ Callback \/ Cancelled

-----------------------------------------------------------------------------
(* The device *)

KeepThreads == UNCHANGED <<struct, startSem, recThread, cancelled, progress, client, early>>

Capture ==
  /\ handle /\ device = "RUNNING"
  /\ IF avail < BufferSize
     THEN avail' = avail + 1 /\ UNCHANGED device
     ELSE device' = "XRUN" /\ UNCHANGED avail
  /\ KeepThreads

Suspend ==
  /\ handle /\ device = "RUNNING"
  /\ device' = "SUSPENDED"
  /\ UNCHANGED avail
  /\ KeepThreads

RecorderNext == Program \/ RecordThread \/ Capture \/ Suspend
RecorderSpec == RecorderInit /\ [][RecorderNext]_recorderVars

\* The thread runs, and the device captures a frame between two suspensions.  A
\* thread that comes to read again and again does so at times before the buffer
\* of the device is full.
RecorderFair ==
  /\ WF_recorderVars(MakeSemaphore \/ WaitStart \/ RecordEnds \/ BeginRead \/ Callback \/ Cancelled)
  /\ WF_recorderVars(RecoverOverrun) /\ WF_recorderVars(RecoverSuspend)
  /\ WF_recorderVars(device = "PREPARED" /\ ReadFrames(0))
  /\ SF_recorderVars(Capture)
  /\ SF_recorderVars(\E r \in 1..Period : ReadFrames(r))

-----------------------------------------------------------------------------
(* Properties *)

\* The callback gets a period of frames of its own read: the pieces of short
\* reads, overruns and suspensions are put together without a gap, and nothing
\* of the period before is left among them.
CallbackFresh == recThread = "callback" => audiobuf = [i \in 1..Period |-> TRUE]

\* As long as the record thread may touch the recorder, its device and its
\* buffer, the program has not closed or freed them.
ThreadHasRecorder ==
  recThread \in {"loop", "read", "callback"}
    => state \notin {"NONE", "CREATED"} /\ handle /\ audiobuf # NULL

\* A start is not lost on a thread that is about to wait, although a recording
\* that is stopped and started again may pass without the thread noticing;
\* except for a start that comes before the thread has made its semaphore.
StartNotLost ==
  client = "listening" /\ recThread = "wait" /\ ~ early /\ state = "RECORDING" => startSem > 0

\* Once a recording is stopped, the thread stops reading, or the next one begins;
\* with a device that a read starts.
StopHeeded ==
  AutoStart /\ state = "STOPPING" ~> recThread \in {"wait", "gone"} \/ state # "STOPPING"

=============================================================================
