-------------------------------- MODULE Answer --------------------------------
(***************************************************************************)
(* user_isr.c: the answer of the service as it is gathered in g_result, by *)
(* its length, and what handle_isr_result makes of it: the text to be      *)
(* spoken, the url to be played, the command for the sofa.  A document is  *)
(* an object whose service, answer and text, where it has them, are of the *)
(* types the code takes for granted.  VoiceAssistant has the threads       *)
(* around it.                                                              *)
(***************************************************************************)
EXTENDS Integers, Sequences

CONSTANTS
  BUFFER_SIZE,  \* 4096
  SIZE_MAX,     \* the largest size_t
  PieceSizes,   \* the lengths of what the service returns at a time
  Documents,    \* what an answer may be
  MaxAnswer     \* bound: the length of an answer

TextServices == {"weather", "musicX", "story", "datetime", "chat", "joke", "radio", "cmd", "mapU", "calc"}
UrlServices  == {"radio", "joke", "story"}

\* read: json_parse_document reads it; service: "" if there is none; text: there
\* is the text that is looked for, the answer's or the one outside; words: that
\* text; link: there is a url under the name that the service has for it.
Document == [read : BOOLEAN, service : TextServices \cup {"light_smartHome", "other", ""},
             text : BOOLEAN, words : Seq(STRING), link : BOOLEAN]

ASSUME AnswerAssumption ==
  /\ BUFFER_SIZE \in Nat \ {0}
  /\ PieceSizes \subseteq Nat
  /\ \A d \in Documents : DOMAIN d = {"read", "service", "text", "words", "link"}
  /\ MaxAnswer \in Nat
  /\ SIZE_MAX \in Nat /\ MaxAnswer + BUFFER_SIZE =< SIZE_MAX

\* The phrases of each command, a syllable for a character, in the order in
\* which they are looked for.
sofa_command_compare_table == <<
  {<<"ting", "zhi">>, <<"ting", "xia", "lai">>, <<"zan", "ting">>},
  {<<"fu", "wei">>},
  {<<"da", "kai", "sha", "fa">>, <<"da", "kai", "shang", "fang">>, <<"da", "kai", "xia", "ba">>},
  {<<"guan", "bi", "sha", "fa">>, <<"da", "kai", "xia", "fang">>},
  {<<"tou", "bu", "da", "kai">>},
  {<<"tou", "bu", "guan", "bi">>}>>

\* SOFA_CMD of ssap_protocol.h, in the order of the table: STOP, HOME, OPEN,
\* CLOSE, HEAD_UP, HEAD_DOWN.
SOFA_CMD == <<0, 1, 2, 4, 8, 16>>
NoCommand == -1

Apology == <<"bao", "qian", "mei", "you", "zhao", "dao", "nin", "xiang", "yao", "de", "xin", "xi">>

VARIABLES
  strlen,        \* that of g_result, or -1 while that is NULL
  g_buffersize,
  overrun,       \* history: a piece was longer than the room it was given
  isr,           \* where the answer is: "idle", "gathering", "second" (a command was
                 \* sent), "gathering second", "handled", "crash"
  isrResult, isrType,
  url,           \* the url of the first answer is not empty
  command,       \* what was sent to the sofa last, for the answer handled last
  doc            \* history: that answer

answerVars == <<strlen, g_buffersize, overrun, isr, isrResult, isrType, url, command, doc>>
gathered   == <<strlen, g_buffersize, overrun>>
outcome    == <<isrResult, isrType, url, command, doc>>

NULL_RESULT == -1
Unread == [read |-> FALSE, service |-> "", text |-> FALSE, words |-> Apology, link |-> FALSE]

AnswerInit ==
  /\ strlen = NULL_RESULT /\ g_buffersize = BUFFER_SIZE /\ overrun = FALSE
  /\ isr = "idle"
  /\ isrResult = Apology /\ isrType = "text" /\ url = FALSE /\ command = NoCommand /\ doc = Unread

on_rec_begin ==
  /\ isr \in {"idle", "handled", "second"}
  /\ isr' = IF isr = "second" THEN "gathering second" ELSE "gathering"
  /\ strlen' = 0 /\ g_buffersize' = BUFFER_SIZE /\ overrun' = FALSE
  /\ UNCHANGED outcome

Gathering == isr \in {"gathering", "gathering second"}

\* A bug to tell from the code: the terminator is not counted.
LeftWhole == IF strlen =< g_buffersize THEN g_buffersize - strlen ELSE SIZE_MAX + 1 + g_buffersize - strlen

\* A size_t: behind the end of the buffer, almost all of memory is left.
Left == IF strlen < g_buffersize THEN g_buffersize - 1 - strlen ELSE SIZE_MAX + g_buffersize - strlen

\* The buffer grows once, however long the piece is, and the piece is written
\* all the same; if it cannot grow, g_result is NULL and the piece is lost.
on_rec_result(size) ==
  /\ Gathering /\ strlen # NULL_RESULT
  /\ strlen + size =< MaxAnswer
  /\ \/ /\ Left >= size
        /\ strlen' = strlen + size /\ UNCHANGED <<g_buffersize, overrun>>
     \/ /\ Left < size
        /\ strlen' = strlen + size /\ g_buffersize' = g_buffersize + BUFFER_SIZE
        /\ overrun' = (strlen + size >= g_buffersize + BUFFER_SIZE)
     \/ /\ Left < size
        /\ strlen' = NULL_RESULT /\ UNCHANGED <<g_buffersize, overrun>>
  /\ UNCHANGED <<isr, outcome>>

\* What lies behind the buffer is overwritten: the process may end at any time.
OverrunShows ==
  /\ overrun
  /\ isr' = "crash"
  /\ UNCHANGED <<gathered, outcome>>

\* strlen of the NULL that a failed realloc left, or the assertion of
\* json_parse_document.
NullResult ==
  /\ Gathering /\ strlen = NULL_RESULT
  /\ isr' = "crash"
  /\ UNCHANGED <<gathered, outcome>>

-----------------------------------------------------------------------------
\* A document without a service has its text outside, one with a service that is
\* known inside its answer; whatever is missing, there is an apology.
json_get_result(d) ==
  IF d.read /\ d.text /\ d.service # "other" THEN d.words ELSE Apology

TypeOf(d) == IF d.read /\ d.service = "light_smartHome" THEN "cmd" ELSE "text"

isr_get_json_data_result_url(d) == d.read /\ d.service \in UrlServices /\ d.link

strstr(text, phrase) ==
  \E i \in 0..Len(text) - Len(phrase) : SubSeq(text, i + 1, i + Len(phrase)) = phrase

Named(text) ==
  {k \in DOMAIN sofa_command_compare_table : \E p \in sofa_command_compare_table[k] : strstr(text, p)}

\* A bug to tell from the code: the bit of the next command.
SofaNumberNext(k) == IF k = 1 THEN 0 ELSE (2 ^ (k - 1)) % 256

\* The first is 0, each of the others a bit of a byte.
SofaNumber(k) == IF k = 1 THEN 0 ELSE (2 ^ (k - 2)) % 256

\* The first command of the table that the text names, and no other.
handle_sofa_cmd(text) ==
  IF Named(text) = {} THEN NoCommand
  ELSE SofaNumber(CHOOSE k \in Named(text) : \A j \in Named(text) : k =< j)

\* An answer of no length is not read; what else it is, its characters say.
Read(d) == strlen # NULL_RESULT /\ (strlen = 0 => d = Unread)

Takes(d) ==
  /\ isrResult' = json_get_result(d) /\ isrType' = TypeOf(d) /\ doc' = d
  /\ command' = handle_sofa_cmd(json_get_result(d))

\* A command for a lamp is not looked at any further; a command for the sofa is
\* sent and followed by a second listening.
HandleFirst(d) ==
  /\ isr = "gathering" /\ Read(d)
  /\ url' = isr_get_json_data_result_url(d)
  /\ IF TypeOf(d) = "text"
     THEN Takes(d) /\ isr' = IF command' # NoCommand THEN "second" ELSE "handled"
     ELSE /\ isr' = "handled" /\ command' = NoCommand /\ doc' = d
          /\ isrType' = "cmd" /\ isrResult' = json_get_result(d)
  /\ UNCHANGED gathered

\* Of the second answer the type and the url are not looked at.
HandleSecond(d) ==
  /\ isr = "gathering second" /\ Read(d)
  /\ Takes(d)
  /\ isr' = "handled"
  /\ UNCHANGED <<gathered, url>>

AnswerNext ==
  \/ on_rec_begin \/ NullResult \/ OverrunShows
  \/ \E size \in PieceSizes : on_rec_result(size)
  \/ \E d \in Documents \cup {Unread} : HandleFirst(d) \/ HandleSecond(d)

AnswerSpec == AnswerInit /\ [][AnswerNext]_answerVars

-----------------------------------------------------------------------------
(* Properties *)

\* The answer and its terminator are inside g_buffersize unless, and from then
\* on until the next on_rec_begin not any more, a piece came that one more
\* BUFFER_SIZE did not make room for: no other piece runs over, and behind the
\* end of its buffer the answer never gets another one.
ResultFits == strlen < g_buffersize <=> ~ overrun

\* Words that name one command are sent as that command's number in the
\* protocol's header, words that name none as none; the apology names none, so
\* that nothing moves on an answer that could not be read.
SofaCommandSent ==
  isr \in {"second", "handled"}
    => /\ Named(isrResult) = {} => command = NoCommand
       /\ \A k \in Named(isrResult) :
            Named(isrResult) = {k} /\ (isrType = "text") => command = SOFA_CMD[k]
       /\ ~ doc.read \/ strlen = 0 => command = NoCommand /\ isrResult = Apology

=============================================================================
