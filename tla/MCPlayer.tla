------------------------------ MODULE MCPlayer ------------------------------
(***************************************************************************)
(* Small instances of Player: files around the sizes where main and its    *)
(* blocks change, with and without the token thread.                       *)
(***************************************************************************)
EXTENDS Player, TLC

AFile(wav, n) == [config |-> TRUE, exists |-> TRUE, wav |-> wav, size |-> n]

\* Not played; one block, full or not; two blocks; three blocks.
FileSizes == {100, 101, 512, 513, 1025}
AllFiles ==
  {AFile(wav, n) : wav \in BOOLEAN, n \in FileSizes}
    \cup {[AFile(FALSE, 101) EXCEPT !.config = FALSE]}
    \cup {[AFile(FALSE, 0) EXCEPT !.exists = FALSE]}

\* Every way through main: no configuration, no file, too short, header and one
\* block, two blocks.
EveryWay ==
  {[AFile(FALSE, 101) EXCEPT !.config = FALSE], [AFile(FALSE, 0) EXCEPT !.exists = FALSE],
   AFile(FALSE, 100), AFile(TRUE, 101), AFile(FALSE, 513)}

MissingFile == {[AFile(FALSE, 0) EXCEPT !.exists = FALSE]}

MainOnly == {"main"}
WithToken == {"main", "token"}

PlayerRequests ==
  {[cmd |-> c, len |-> n, slice |-> 512] : c \in {SSAP_CMD_START, SSAP_CMD_DATA, SSAP_CMD_STOP}, n \in 0..512}
MainRequests == "main" :> PlayerRequests
WithTokenRequests ==
  MainRequests @@ "token" :> {[cmd |-> SSAP_CMD_TOKEN, len |-> 0, slice |-> 0]}

AnyAnswer ==
  [c \in Byte |->
     IF c \in StreamCommands
     THEN {SSAP_CMD_RESP_OKSEND, SSAP_CMD_RESP_NEXTSEND, SSAP_CMD_RESP_RESEND}
     ELSE {SSAP_CMD_RESP_MODE_WIFI, SSAP_CMD_RESP_UNKOWN}]

\* Of the responses that a damaged one may pass for, one for each decision of
\* handle_spis_response on the slice: taken, refused for its CRC, full; the two
\* of a sofa command and of the token; noise.
AnyDamage ==
  {[command |-> SSAP_CMD_DATA,         response |-> SSAP_CMD_RESP_OKSEND],
   [command |-> SSAP_CMD_DATA,         response |-> SSAP_CMD_RESP_RESEND],
   [command |-> SSAP_CMD_DATA,         response |-> SSAP_CMD_RESP_NEXTSEND],
   [command |-> SSPP_CMD_SOFA_COMMAND, response |-> SSAP_CMD_RESP_OKCMD],
   [command |-> SSPP_CMD_SOFA_COMMAND, response |-> SSAP_CMD_RESP_ERCMD],
   [command |-> SSAP_CMD_TOKEN,        response |-> SSAP_CMD_RESP_MODE_WIFI],
   [command |-> SSAP_CMD_TOKEN,        response |-> SSAP_CMD_RESP_UNKOWN],
   [command |-> SSAP_CMD_UNKOWN,       response |-> SSAP_CMD_RESP_UNKOWN]}

\* Bound: how often the slave takes anything, for what it takes is sent again
\* without end when the response is damaged into NEXTSEND.  It may always refuse.
MaxTaken == 4
FairPlayerSpec ==
  PlayerInit /\ [][PlayerNext /\ Len(taken') =< MaxTaken]_allVars /\ PlayerFairness

=============================================================================
