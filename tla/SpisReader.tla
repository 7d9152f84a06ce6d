------------------------------ MODULE SpisReader ------------------------------
(***************************************************************************)
(* spis_respones_command: one byte after the other from the driver until   *)
(* there is a sync byte, then the rest of the response in one read.  The   *)
(* driver returns a zero for a byte that cannot be read and ignores the    *)
(* error, so that an idle line and a broken one look the same.             *)
(***************************************************************************)
EXTENDS SsapProtocol, Sequences

CONSTANT
  MaxTries   \* 10000 in the code

ASSUME SpisReaderAssumption == MaxTries \in Nat \ {0}

SSAP_SYNC_BYTE == 83      \* 'S': no command and no response code
IdleByte       == 0

VARIABLES
  line,    \* the bytes the slave has for the master
  reader,  \* where spis_respones_command is: "idle", "sync", "rest", "done"
  tries,   \* time_out
  got      \* spis_respones_buffer, once it returns

readerVars == <<line, reader, tries, got>>

\* A response on the line, without its CRC, which nothing looks at.
BytesOf(r) == <<SSAP_SYNC_BYTE, r.command, r.response>>

\* The line may begin with the end of a response that an earlier program read
\* the beginning of.
ReaderInit ==
  /\ line \in {<<>>, <<SSAP_CMD_STOP, SSAP_CMD_RESP_OKSEND>>}
  /\ reader = "idle" /\ tries = 0
  /\ got = NoResponse

AskResponse ==
  /\ reader = "idle"
  /\ reader' = "sync" /\ tries' = 0
  /\ UNCHANGED got

\* spi_master_recv_byte and what it leaves on the line.
NextByte == IF line = <<>> THEN IdleByte ELSE Head(line)
Rest     == IF line = <<>> THEN <<>> ELSE Tail(line)

SyncFound ==
  /\ reader = "sync"
  /\ NextByte = SSAP_SYNC_BYTE
  /\ line' = Rest
  /\ reader' = "rest"
  /\ UNCHANGED <<tries, got>>

Skip ==
  /\ reader = "sync"
  /\ NextByte # SSAP_SYNC_BYTE
  /\ tries =< MaxTries
  /\ line' = Rest
  /\ tries' = tries + 1
  /\ UNCHANGED <<reader, got>>

\* Of the zeroed buffer only the response is filled in.
TimeOut ==
  /\ reader = "sync"
  /\ NextByte # SSAP_SYNC_BYTE
  /\ tries > MaxTries
  /\ line' = Rest
  /\ reader' = "done"
  /\ got' = NoResponse
  /\ UNCHANGED tries

\* A bug to tell from the code: the rest is one byte shorter than a response.
RestLengthShort == 1

\* sizeof(SSAPCmdContext) - SSAP_SYNC_WORD_LENGTH, without the CRC.
RestLength == 2

\* spi_master_recv_data.
ReadRest ==
  /\ reader = "rest"
  /\ LET bytes == [i \in 1..RestLength |-> IF i =< Len(line) THEN line[i] ELSE IdleByte]
         Field(i) == IF i =< RestLength THEN bytes[i] ELSE IdleByte
     IN  got' = [command |-> Field(1), response |-> Field(2)]
  /\ line' = SubSeq(line, RestLength + 1, Len(line))
  /\ reader' = "done"
  /\ UNCHANGED tries

-----------------------------------------------------------------------------
\* The responses on the line: the one being read is still among them, the rest
\* of an old one at its beginning is not.
Given ==
  LET all   == IF reader = "rest" THEN <<SSAP_SYNC_BYTE>> \o line ELSE line
      noise == Len(all) % 3
  IN  [i \in 1..Len(all) \div 3 |->
         [command |-> all[noise + 3 * i - 1], response |-> all[noise + 3 * i]]]

Channel == INSTANCE ResponseChannel WITH
             Responses <- Response, Silence <- NoResponse,
             outbox <- Given, asked <- reader \in {"sync", "rest"}

=============================================================================
