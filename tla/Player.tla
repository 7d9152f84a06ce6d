------------------------------- MODULE Player -------------------------------
(***************************************************************************)
(* The program that the Makefile links: main plays one file over the link  *)
(* and exits.  It composes SsapLink, whose sender Main it drives; the      *)
(* other senders (the token thread) go on as they do there, as long as the *)
(* process runs.                                                           *)
(***************************************************************************)
EXTENDS SsapLink

CONSTANTS
  Main,       \* the thread that plays, a member of Senders
  Files,      \* what the argument of main may name
  ReadFaults  \* BOOLEAN: fread may fail in the middle of the file

\* config: /etc/config/mic_wake can be written; exists: the file can be opened;
\* wav: its name does not contain ".mp3".
File == [config : BOOLEAN, exists : BOOLEAN, wav : BOOLEAN, size : Nat]

BlockSize      == 512     \* SSAP_SEND_DATA_LENGTH
WavHeaderSize  == 44      \* sizeof(wav_header_t)
StartSize      == 12      \* the decoder type and "demo.pcm"

StreamRequest(c, n) == [cmd |-> c, len |-> n, slice |-> BlockSize]

ASSUME PlayerAssumption ==
  /\ Main \in Senders
  /\ Files \subseteq File
  /\ ReadFaults \in BOOLEAN
  /\ MaxSlice = BlockSize
  /\ \A c \in StreamCommands, n \in 0..BlockSize : StreamRequest(c, n) \in Requests[Main]

VARIABLES
  file,       \* the file of this run
  stage,      \* what main does next, once its call has returned
  left,       \* bytes of the file that fread has yet to return
  \* History variables.
  offered,    \* the requests of Main, in order
  slices      \* slices[k]: the number of the slice that carried offered[k]

playerVars == <<file, stage, left, offered, slices>>
allVars == <<vars, playerVars>>

\* main's test of get_fileSize, which is (unsigned long)-1 for a file that
\* cannot be opened: larger than any size.
Plays(f) == f.exists => f.size > 100

PlayerInit ==
  /\ Init
  /\ file \in Files
  /\ stage = "boot"
  /\ left = file.size
  /\ offered = <<>>
  /\ slices = <<>>

Exited  == stage \in {"exit", "crash"}
Ready(st) == stage = st /\ pc[Main] = "idle"

\* Main calls spim_send_command_data with n bytes.
Offer(c, n) ==
  /\ Call(Main, StreamRequest(c, n))
  /\ offered' = Append(offered, StreamRequest(c, n))
  /\ UNCHANGED <<file, slices>>

\* main writes the configuration, whose handle it does not check, and goes by
\* the size of the file.
Boot ==
  /\ Ready("boot")
  /\ stage' = IF ~ file.config THEN "crash"
              ELSE IF Plays(file) THEN "start" ELSE "exit"
  /\ UNCHANGED <<vars, file, left, offered, slices>>

\* A bug to tell from the code: the test of the file's type is inverted.
SendStartInverted ==
  /\ Ready("start")
  /\ Offer(SSAP_CMD_START, StartSize)
  /\ stage' = IF file.wav THEN "open" ELSE "header"
  /\ UNCHANGED left

\* tts_audio_start_command_send fills the WAV header and sends START.
SendStart ==
  /\ Ready("start")
  /\ Offer(SSAP_CMD_START, StartSize)
  /\ stage' = IF file.wav THEN "header" ELSE "open"
  /\ UNCHANGED left

SendHeader ==
  /\ Ready("header")
  /\ Offer(SSAP_CMD_DATA, WavHeaderSize)
  /\ stage' = "open"
  /\ UNCHANGED left

\* The file that cannot be opened is read all the same, through NULL.
Open ==
  /\ Ready("open")
  /\ stage' = IF file.exists THEN "read" ELSE "crash"
  /\ UNCHANGED <<vars, file, left, offered, slices>>

\* A bug to tell from the code: the buffer's length is sent, not fread's.
NextBlockWhole == BlockSize

\* What fread returns of the rest of the file.
NextBlock == IF left < BlockSize THEN left ELSE BlockSize

SendBlock ==
  /\ Ready("read")
  /\ left > 0
  /\ Offer(SSAP_CMD_DATA, NextBlock)
  /\ left' = left - NextBlock
  /\ UNCHANGED stage

\* fread returns nothing: the end of the file, or an error.
SendStop ==
  /\ Ready("read")
  /\ left = 0 \/ ReadFaults
  /\ Offer(SSAP_CMD_STOP, 0)
  /\ stage' = "close"
  /\ UNCHANGED left

\* main returns, and the process ends with all its threads.
Close ==
  /\ Ready("close")
  /\ stage' = "exit"
  /\ UNCHANGED <<vars, file, left, offered, slices>>

\* A step that main's call takes in the link.
MainStep ==
  /\ SenderStep(Main)
  /\ slices' = IF prepared' > prepared THEN Append(slices, prepared') ELSE slices
  /\ UNCHANGED <<file, stage, left, offered>>

OtherStep ==
  /\ \E s \in Senders \ {Main} : SenderStep(s) \/ \E r \in Requests[s] : Call(s, r)
  /\ UNCHANGED playerVars

SlaveStep ==
  /\ Slave \/ LoseReply \/ \E r \in Damaged : DamageReply(r)
  /\ UNCHANGED playerVars

PlayerStep ==
  Boot \/ SendStart \/ SendHeader \/ Open \/ SendBlock \/ SendStop \/ Close

PlayerNext ==
  \/ ~ Exited /\ (PlayerStep \/ MainStep \/ OtherStep)
  \/ SlaveStep

PlayerSpec == PlayerInit /\ [][PlayerNext]_allVars

\* The threads are scheduled, and the slave goes on handling the frames it has.
PlayerFairness ==
  /\ WF_allVars(~ Exited /\ (PlayerStep \/ MainStep))
  /\ WF_allVars(~ Exited /\ OtherStep)
  /\ WF_allVars(Slave /\ UNCHANGED playerVars)

-----------------------------------------------------------------------------
(* Properties *)

\* The requests that play the file f, by their position: START, the WAV header
\* unless the file is an mp3, the file in blocks, STOP.
HeaderCount(f) == IF f.wav THEN 1 ELSE 0
BlockCount(f)  == (f.size + BlockSize - 1) \div BlockSize
SongLength(f)  == HeaderCount(f) + BlockCount(f) + 2

SongBlock(f, j) ==
  LET rest == f.size - BlockSize * (j - 1)
  IN  StreamRequest(SSAP_CMD_DATA, IF rest < BlockSize THEN rest ELSE BlockSize)

SongItem(f, k) ==
  IF k = 1 THEN StreamRequest(SSAP_CMD_START, StartSize)
  ELSE IF k = SongLength(f) THEN StreamRequest(SSAP_CMD_STOP, 0)
  ELSE IF k = HeaderCount(f) + 1 THEN StreamRequest(SSAP_CMD_DATA, WavHeaderSize)
  ELSE SongBlock(f, k - 1 - HeaderCount(f))

\* The blocks of the file, whole and in order, between START and STOP, are
\* what main offers to the link; a read that fails ends the song early.
OfferedIsSong ==
  /\ \A k \in 1..Len(offered) :
       \/ offered[k] = SongItem(file, k)
       \/ ReadFaults /\ k = Len(offered) /\ offered[k] = StreamRequest(SSAP_CMD_STOP, 0)
  /\ stage \in {"close", "exit"} /\ Plays(file) /\ ~ ReadFaults
       => Len(offered) = SongLength(file)

\* Every request is one slice, and the one before is settled, delivered or
\* given up, when main makes the next.
EverySettled ==
  pc[Main] = "idle"
    => /\ Len(slices) = Len(offered)
       /\ \A k \in 1..Len(slices) : slices[k] \in confirmed \cup abandoned

TakenAt(n) == {i \in 1..Len(taken) : taken[i] = n}

\* With responses neither lost nor late, what the slave takes of the song is
\* the song: each request once, unless the link gave it up, and in order.
SongHeard ==
  stage \in {"close", "exit"} /\ pc[Main] = "idle"
    => /\ \A k \in 1..Len(slices) :
            Cardinality(TakenAt(slices[k])) = IF slices[k] \in abandoned THEN 0 ELSE 1
       /\ \A k, l \in 1..Len(slices) : k < l =>
            \A i \in TakenAt(slices[k]), j \in TakenAt(slices[l]) : i < j

\* The responses that neither end a slice nor count as a failure: NEXTSEND and
\* whatever else START, DATA and STOP are not answered with, a sofa or mode
\* command that is not OKCMD, a token without a mode or a key.
RetriedForEver(r) ==
  \/ r.command \in StreamCommands /\ r.response \notin {SSAP_CMD_RESP_OKSEND, SSAP_CMD_RESP_RESEND}
  \/ r.command \in ControlCommands /\ r.response # SSAP_CMD_RESP_OKCMD
  \/ TokenRefused(r)

ReadsRetried == MainStep /\ outbox' # outbox /\ RetriedForEver(Head(outbox))

\* main comes to its end, whatever the bus loses, delays or damages and
\* whatever the slave answers, unless it reads without end responses that the
\* link retries without counting them.
PlayEnds == (stage = "boot" ~> Exited) \/ []<><<ReadsRetried>>_allVars

\* "open pcm file error": a file that cannot be opened is an error that
\* play_local_pcm reports, no crash.
OpenErrorHandled == stage # "crash"

=============================================================================
