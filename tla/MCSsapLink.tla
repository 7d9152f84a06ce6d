----------------------------- MODULE MCSsapLink -----------------------------
(***************************************************************************)
(* Small instances of SsapLink.  MaxSlice is 2: a buffer of 1 or 2 bytes   *)
(* is one slice, one of 3 bytes is two.                                    *)
(***************************************************************************)
EXTENDS SsapLink, TLC

Calls(cmd, lens) == {[cmd |-> cmd, len |-> n, slice |-> MaxSlice] : n \in lens}

TokenCall == [cmd |-> SSAP_CMD_TOKEN, len |-> 0, slice |-> 0]
OversizedCall == [cmd |-> SSAP_CMD_DATA, len |-> 1, slice |-> MaxSlice + 1]

\* The player, the token thread and the sofa commands of the speech thread.
AllThreads == {"player", "token", "sofa"}
AllRequests ==
  "player" :> (Calls(SSAP_CMD_DATA, {1, 3}) \cup {OversizedCall})
    @@ "token" :> {TokenCall}
    @@ "sofa" :> Calls(SSPP_CMD_SOFA_COMMAND, {1})

TwoThreads == {"player", "token"}
TwoRequests == "player" :> Calls(SSAP_CMD_DATA, {3}) @@ "token" :> {TokenCall}

TokenOnly == {"token"}
TokenRequests == "token" :> {TokenCall}

\* The slave may take or refuse any command.
AnyAnswer ==
  [c \in Byte |->
     IF c \in StreamCommands
     THEN {SSAP_CMD_RESP_OKSEND, SSAP_CMD_RESP_NEXTSEND, SSAP_CMD_RESP_RESEND}
     ELSE IF c \in ControlCommands
     THEN {SSAP_CMD_RESP_OKCMD, SSAP_CMD_RESP_ERCMD}
     ELSE {SSAP_CMD_RESP_MODE_WIFI, SSAP_CMD_RESP_SONG_PLAY, SSAP_CMD_RESP_UNKOWN}]

\* The slave never takes anything: bad CRC for data, no key and no mode for
\* the token.
OnlyErrors ==
  [c \in Byte |->
     IF c \in StreamCommands THEN {SSAP_CMD_RESP_RESEND} ELSE {SSAP_CMD_RESP_UNKOWN}]

=============================================================================
