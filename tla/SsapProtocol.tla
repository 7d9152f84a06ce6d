---------------------------- MODULE SsapProtocol ----------------------------
(***************************************************************************)
(* The vocabulary of the SPI Stream Audio Player protocol and the decision *)
(* the master takes on a response.                                         *)
(*                                                                         *)
(* Commands and response codes are the numbers of the enumerations of      *)
(* ssap_protocol.h.  The sync byte and the two CRC fields are not part of  *)
(* a frame here: what they do to a frame (it is lost, or it is refused     *)
(* with RESEND) is the slave's choice in SsapLink.                         *)
(***************************************************************************)
EXTENDS Naturals

\* enum SSPP_CMD: the commands of the master.
SSAP_CMD_UNKOWN         == 0
SSAP_CMD_START          == 1
SSAP_CMD_DATA           == 2
SSAP_CMD_STOP           == 3
SSAP_CMD_TOKEN          == 4
SSPP_CMD_SOFA_COMMAND   == 5
SSPP_CMD_SONG_PATH_MODE == 6
SSPP_CMD_MAX            == 7

\* enum SSAP_CMD_RESPONSE: the answers of the slave.
SSAP_CMD_RESP_UNKOWN     == 0
SSAP_CMD_RESP_OKCMD      == 1
SSAP_CMD_RESP_ERCMD      == 2
SSAP_CMD_RESP_OKSEND     == 3
SSAP_CMD_RESP_RESEND     == 4
SSAP_CMD_RESP_NEXTSEND   == 5
SSAP_CMD_RESP_MODE_WIFI  == 6
SSAP_CMD_RESP_SONG_PLAY  == 10
SSAP_CMD_RESP_TIME_OUT   == 15
ModeResponses == 6..7
SongResponses == 8..14

Responses == 0..15

\* data_command is a uint8_t, and so is the command byte of a response.
Byte == 0..255

\* SSAPCmdResponseContext without its sync byte and its CRC, which the
\* master reads and never checks.
Response == [command: Byte, response: Responses]

\* What spis_respones_command returns when no sync byte shows up: only the
\* response field of the zeroed buffer is filled in.
NoResponse == [command |-> SSAP_CMD_UNKOWN, response |-> SSAP_CMD_RESP_TIME_OUT]

(***************************************************************************)
(* handle_spis_response switches on the command the RESPONSE carries, not  *)
(* on the command that was sent.  The branches of that switch:             *)
(***************************************************************************)
StreamCommands  == {SSAP_CMD_START, SSAP_CMD_DATA, SSAP_CMD_STOP}
ControlCommands == {SSPP_CMD_SOFA_COMMAND, SSPP_CMD_SONG_PATH_MODE}

\* A bug to tell from the code: FULL passes for an acceptance.
SliceTakenOrFull(r) ==
  r.command \in StreamCommands
    /\ r.response \in {SSAP_CMD_RESP_OKSEND, SSAP_CMD_RESP_NEXTSEND}

\* The slave took the slice.
SliceTaken(r) ==
  r.command \in StreamCommands /\ r.response = SSAP_CMD_RESP_OKSEND

\* The slave took a sofa or mode command.
ControlTaken(r) ==
  r.command \in ControlCommands /\ r.response = SSAP_CMD_RESP_OKCMD

\* A bug to tell from the code: any answer to the token passes for its mode.
TokenAnswered(r) == r.command = SSAP_CMD_TOKEN

\* The slave answered the token, with its mode or with the key pressed.
TokenTaken(r) ==
  r.command = SSAP_CMD_TOKEN /\ r.response \in ModeResponses \cup SongResponses

\* A token answered with anything else: the failure is counted, but the test
\* that follows reads ret, which is 0, in place of the counter.
TokenRefused(r) ==
  r.command = SSAP_CMD_TOKEN /\ r.response \notin ModeResponses \cup SongResponses

\* A bug to tell from the code: refused slices are not counted.
RetryCountedIfUnknown(r) ==
  r.command \notin StreamCommands \cup ControlCommands \cup {SSAP_CMD_TOKEN}

\* A slice refused for its CRC, and a response that names no known command
\* (a time-out among them): counted, and tested against the limit.
RetryCounted(r) ==
  \/ r.command \in StreamCommands /\ r.response = SSAP_CMD_RESP_RESEND
  \/ r.command \notin StreamCommands \cup ControlCommands \cup {SSAP_CMD_TOKEN}

=============================================================================
