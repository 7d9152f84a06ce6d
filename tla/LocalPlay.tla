------------------------------ MODULE LocalPlay ------------------------------
(***************************************************************************)
(* local_play.c: the older player, which has the driver to itself, writes  *)
(* its frames to it without the link's mutex and waits for each response   *)
(* with SpisReader; with the slave and the bus at the other end.           *)
(***************************************************************************)
EXTENDS SpisReader, Integers

CONSTANTS
  LocalFiles,     \* what file_path_name may name
  LocalAnswers,   \* what the slave says to a frame of the song
  MaxFrames       \* bound: frames on their way to the slave

\* exists: it can be opened; pcm: its name ends in "pcm"; size: that of stat.
LocalFile == [exists : BOOLEAN, pcm : BOOLEAN, size : Nat]

ASSUME LocalPlayAssumption ==
  /\ LocalFiles \subseteq LocalFile
  /\ LocalAnswers \subseteq {SSAP_CMD_RESP_OKSEND, SSAP_CMD_RESP_RESEND, SSAP_CMD_RESP_NEXTSEND}
  /\ MaxFrames \in Nat

SSAP_SEND_DATA_LENGTH == 512

\* What a frame carries: the name and type of the song, the header of a PCM
\* song, the k-th block of the file, nothing.
START    == 0
HEADER   == 1
BLOCK(k) == 1 + k
STOP     == -1

VARIABLES
  song,       \* the file
  late,       \* the slave may answer after the reader has given up
  place,      \* where spim_stream_audio_player_process is
  file_len,   \* what it takes for the rest of the file
  blocks,     \* the blocks that fread has returned
  content,    \* spim_send_buffer
  frames,     \* frames on their way to the slave
  heard       \* history: what the slave took, in order, repetitions left out

localVars == <<song, late, place, file_len, blocks, content, frames, heard>>
playVars  == <<readerVars, localVars>>

LocalInit ==
  /\ ReaderInit
  /\ song \in LocalFiles
  /\ late \in BOOLEAN
  /\ place = "open" /\ file_len = 0 /\ blocks = 0 /\ content = START
  /\ frames = <<>> /\ heard = <<>>

Frame(cmd) == [cmd |-> cmd, item |-> IF cmd = SSAP_CMD_STOP THEN STOP ELSE content]

\* fopen fails and the process exits; or stat does, and the size is 0.
Open ==
  /\ place = "open"
  /\ place' = IF song.exists THEN "start" ELSE "exit"
  /\ file_len' \in {song.size, 0}
  /\ UNCHANGED <<readerVars, song, late, blocks, content, frames, heard>>

\* A frame is written at once or in blocks of 32 bytes, and errors are ignored:
\* the slave sees all of it, or nothing it can use.
Written(f) == frames' \in {Append(frames, f), frames}

\* The frame at hand is written, again if it was not accepted, and a response
\* is asked for.
Send ==
  /\ place \in {"start", "header", "block"}
  /\ AskResponse
  /\ Written(Frame(IF place = "start" THEN SSAP_CMD_START ELSE SSAP_CMD_DATA))
  /\ UNCHANGED <<line, song, late, place, file_len, blocks, content, heard>>

\* A bug to tell from the code: a full slave passes for one that took the data.
AcceptedOrFull ==
  /\ got.response \in {SSAP_CMD_RESP_OKSEND, SSAP_CMD_RESP_NEXTSEND}
  /\ place # "start" => got.command = SSAP_CMD_DATA

\* START is through with the OKSEND of any command, DATA only with its own; a
\* full slave, a wrong CRC and a time-out all have the frame sent again.
Accepted ==
  /\ got.response = SSAP_CMD_RESP_OKSEND
  /\ place # "start" => got.command = SSAP_CMD_DATA

Answered ==
  /\ reader = "done"
  /\ reader' = "idle"
  /\ LET header == Accepted /\ place = "start" /\ song.pcm
     IN  /\ place' = IF header THEN "header" ELSE IF Accepted THEN "data" ELSE place
         /\ content' = IF header THEN HEADER ELSE content
  /\ UNCHANGED <<line, tries, got, song, late, file_len, blocks, frames, heard>>

\* The length of a block is taken off before it is read, and it is read only if
\* something is left beyond it.  A read that fails leaves the buffer as it is.
NextBlock ==
  /\ place = "data"
  /\ file_len > SSAP_SEND_DATA_LENGTH
  /\ file_len' = file_len - SSAP_SEND_DATA_LENGTH
  /\ \/ blocks' = blocks + 1 /\ content' = BLOCK(blocks')
     \/ UNCHANGED <<blocks, content>>
  /\ place' = "block"
  /\ UNCHANGED <<readerVars, song, late, frames, heard>>

\* A bug to tell from the code: the song ends only when its length is passed.
LocalStopLate ==
  /\ place = "data"
  /\ file_len < 0
  /\ Written(Frame(SSAP_CMD_STOP))
  /\ place' = "closed"
  /\ UNCHANGED <<readerVars, song, late, file_len, blocks, content, heard>>

\* A bug to tell from the code: the last block is sent, but after STOP.
LocalStopFirst ==
  /\ place = "data"
  /\ file_len =< SSAP_SEND_DATA_LENGTH
  /\ file_len' = file_len - SSAP_SEND_DATA_LENGTH
  /\ Written(Frame(SSAP_CMD_STOP))
  /\ IF file_len > 0
     THEN blocks' = blocks + 1 /\ content' = BLOCK(blocks') /\ place' = "block"
     ELSE place' = "closed" /\ UNCHANGED <<blocks, content>>
  /\ UNCHANGED <<readerVars, song, late, heard>>

\* STOP is written once and its response is not read.
LocalStop ==
  /\ place = "data"
  /\ file_len =< SSAP_SEND_DATA_LENGTH
  /\ file_len' = file_len - SSAP_SEND_DATA_LENGTH
  /\ Written(Frame(SSAP_CMD_STOP))
  /\ place' = "closed"
  /\ UNCHANGED <<readerVars, song, late, blocks, content, heard>>

\* The bytes of the reader, which outlasts a slave that is about to answer
\* unless answers may be late.
ReadByte ==
  /\ \/ SyncFound
     \/ ReadRest
     \/ /\ Skip \/ TimeOut
        /\ line # <<>> \/ frames = <<>> \/ (late /\ Len(frames) < MaxFrames)
  /\ UNCHANGED localVars

LocalPlayer == Open \/ Send \/ Answered \/ NextBlock \/ LocalStop \/ ReadByte

\* The slave takes its oldest frame, or does not, and answers it; the answer
\* may be lost.
SlaveDoes(a, reply) ==
  LET f == Head(frames)
      new == heard = <<>> \/ heard[Len(heard)] # f.item
  IN  /\ frames # <<>>
      /\ frames' = Tail(frames)
      /\ heard' = IF a = SSAP_CMD_RESP_OKSEND /\ new THEN Append(heard, f.item) ELSE heard
      /\ line' = IF reply THEN line \o BytesOf([command |-> f.cmd, response |-> a]) ELSE line
      /\ UNCHANGED <<reader, tries, got, song, late, place, file_len, blocks, content>>

LocalSlave == \E a \in LocalAnswers, reply \in BOOLEAN : SlaveDoes(a, reply)

LocalNext == LocalPlayer \/ LocalSlave
LocalSpec == LocalInit /\ [][LocalNext]_playVars

\* The player runs, the slave handles what it gets, and neither is a frame lost
\* nor refused, nor its answer lost, for ever.
LocalFair ==
  /\ WF_playVars(LocalPlayer) /\ WF_playVars(LocalSlave)
  /\ SF_playVars(Send /\ frames' # frames)
  /\ SF_playVars(SlaveDoes(SSAP_CMD_RESP_OKSEND, TRUE))

-----------------------------------------------------------------------------
(* Properties *)

Later(a, b) == b = STOP \/ (a # STOP /\ a < b)

\* Whatever is lost or late, sending again never puts an earlier part of the
\* song after a later one.
LocalInOrder == \A i \in 2..Len(heard) : Later(heard[i - 1], heard[i])

AfterItem(item) == IF item = START /\ ~ song.pcm THEN BLOCK(1) ELSE item + 1

\* While no answer is late, the slave hears the song without a hole: START, the
\* header of a PCM song, the blocks; when STOP is written it has heard all that
\* was sent, which is the file but for its last block, short or full.
LocalHeard ==
  ~ late
    => /\ \A i \in 1..Len(heard) :
            heard[i] # STOP => heard[i] = IF i = 1 THEN START ELSE AfterItem(heard[i - 1])
       /\ place = "closed" => \E i \in 1..Len(heard) : heard[i] = content

\* However full the slave is at times and whatever is lost, a song comes to
\* its end.
LocalEnds == place = "start" ~> place = "closed"

\* Byte by byte the reader gives the player the responses of the slave, whole,
\* each once and in order, or the news that none came.
ReaderIsChannel == Channel!Spec

=============================================================================
