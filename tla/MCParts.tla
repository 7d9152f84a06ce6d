------------------------------- MODULE MCParts -------------------------------
(***************************************************************************)
(* The parts of the program that run by themselves, for TLC: the song      *)
(* queue in the hands of one thread, the recorder, the local player with   *)
(* the response reader, the checksum, and what is made of an answer; one   *)
(* of them in each behaviour.                                              *)
(***************************************************************************)
EXTENDS SequeueAlone, Recorder, LocalPlay, Crc, Answer

VARIABLE part      \* the one that runs

parts == <<part, vars, recorderVars, playVars, crcVars, answerVars>>

SongFiles ==
  {[exists |-> TRUE, pcm |-> p, size |-> n] : p \in BOOLEAN, n \in {512, 513, 1025}}
    \cup {[exists |-> FALSE, pcm |-> FALSE, size |-> 0]}
Bytes == 0..255
SongAnswers == {SSAP_CMD_RESP_OKSEND, SSAP_CMD_RESP_RESEND, SSAP_CMD_RESP_NEXTSEND}

\* One phrase after another, in one of which or across both a command may be.
Phrases == UNION {sofa_command_compare_table[k] : k \in DOMAIN sofa_command_compare_table}
             \cup {<<>>, <<"qing">>}
Doc(s, t, w) == [read |-> TRUE, service |-> s, text |-> t, words |-> w, link |-> TRUE]
SomeDocuments ==
  {Doc("", TRUE, p \o q) : p, q \in Phrases}
    \cup {Doc(s, TRUE, p) : s \in {"radio", "light_smartHome", "other"}, p \in Phrases}
    \cup {Doc("chat", FALSE, Apology)}

PartsInit ==
  /\ part \in {"queue", "recorder", "local", "crc", "answer"}
  /\ Init /\ RecorderInit /\ LocalInit /\ CrcInit /\ AnswerInit
  /\ part # "local" => late /\ line = <<>> /\ ~ song.exists /\ file_len = 0

RunQueue    == part = "queue" /\ Next /\ UNCHANGED <<part, recorderVars, playVars, crcVars, answerVars>>
RunRecorder == part = "recorder" /\ RecorderNext /\ UNCHANGED <<part, vars, playVars, crcVars, answerVars>>
RunLocal    == part = "local" /\ LocalNext /\ UNCHANGED <<part, vars, recorderVars, crcVars, answerVars>>
RunCrc      == part = "crc" /\ get_crc16_nbs /\ UNCHANGED <<part, vars, recorderVars, playVars, answerVars>>
RunAnswer   == part = "answer" /\ AnswerNext /\ UNCHANGED <<part, vars, recorderVars, playVars, crcVars>>

PartsNext == RunQueue \/ RunRecorder \/ RunLocal \/ RunCrc \/ RunAnswer

PartsSpec ==
  /\ PartsInit /\ [][PartsNext]_parts
  /\ part = "recorder" => RecorderFair
  /\ part = "local" => LocalFair

=============================================================================
