----------------------------- MODULE JsonParser -----------------------------
(***************************************************************************)
(* json_parse_fragment() of json.c, one turn of its loop at a time, under  *)
(* json_stream_parse() or json_parse_document(); then its caller prints    *)
(* and frees the document.  The lexer is taken at its tokens, a token with *)
(* its text; JsonLexer has its characters.  The end of a fragment changes  *)
(* nothing that is kept, wherever it falls, except in state 0; an          *)
(* unfinished token at the end of the file is not looked at.               *)
(***************************************************************************)
EXTENDS JsonTree

CONSTANTS Values,      \* the tokens of a value: STRING, NUMBER, TRUE, FALSE, NULL
          Texts,       \* the texts of strings; numbers have the text Number
          Number

ASSUME ParserValues == Values \subseteq Scalars
ASSUME ParserTexts  == \A text \in Texts \cup {Number} : IsText(text)

VARIABLES mode,        \* "stream" or "document", the function that parses
          info,        \* its json_parsing_info: the state, and the cursor in the tree
          token,       \* the token it read last
          verdict,     \* "reading", "accepted" or "refused"
          read,        \* the characters of the document so far, without white space
          given        \* the document's root, once handed over

parser == <<tree, mode, info, token, verdict, read, given>>

ParserInit ==
  /\ TreeInit /\ mode \in {"stream", "document"}
  /\ info = [state |-> 0, cursor |-> NULL]          \* json_jpi_init
  /\ token = "none" /\ verdict = "reading" /\ read = <<>> /\ given = NULL

TextsOf(t) == CASE t = "STRING" -> Texts [] t = "NUMBER" -> {Number} [] OTHER -> {NULL}

Spelled(t, text) ==
  CASE t = "STRING"          -> <<"\"">> \o text \o <<"\"">>
    [] t = "NUMBER"          -> text
    [] t \in Literals        -> LiteralText(t)
    [] t = "BEGIN_OBJECT"    -> <<"{">>   [] t = "END_OBJECT"      -> <<"}">>
    [] t = "BEGIN_ARRAY"     -> <<"[">>   [] t = "END_ARRAY"       -> <<"]">>
    [] t = "NAME_SEPARATOR"  -> <<":">>   [] OTHER                 -> <<",">>

\* The parse ends with an error.  json_stream_parse frees from the cursor down, which
\* it asserts not to be NULL; json_parse_document frees nothing of the tree.
Fail(code) ==
  /\ verdict' = "refused"
  /\ CASE mode = "document"                        -> Return(code) /\ UNCHANGED heap
       [] mode = "stream" /\ info.cursor = NULL    -> call' = "aborted" /\ UNCHANGED <<heap, root, cursor, step, output, result>>
       [] mode = "stream" /\ info.cursor # NULL    -> json_free_value(info.cursor)
  /\ UNCHANGED <<info, read, given>>

Goes(state, at) == info' = [state |-> state, cursor |-> at]
Reads(t, text)  == token' = t /\ read' = read \o Spelled(t, text)
NoTree          == UNCHANGED tree
Kept            == UNCHANGED <<mode, verdict, given>>

New == FirstFree(heap)

\* The new value becomes a child of the cursor, and the parser goes on.  An insertion that is refused, and a
\* tree of another shape below, would end the parse: TreeSanity says neither happens.
Insert(type, text, next, at) ==
  LET h == json_new_value(heap, New, type, text)
  IN /\ HasMemory(heap)
     /\ IF MayInsert(h, info.cursor, New)
        THEN heap' = json_insert_child(h, info.cursor, New) /\ Goes(next, at)
        ELSE heap' = h /\ Goes("UNKNOWN_PROBLEM", info.cursor)
     /\ UNCHANGED <<call, root, cursor, step, output, result>>

\* States 1 and 7: the container that { or [ has announced is made, without a token.
OpenContainer(state, type, next) ==
  /\ info.state = state
  /\ IF info.cursor = NULL
     THEN /\ HasMemory(heap)
          /\ heap' = json_new_value(heap, New, type, NULL)
          /\ Goes(next, New)
          /\ UNCHANGED <<call, root, cursor, step, output, result>>
     ELSE Insert(type, NULL, next, New)
  /\ UNCHANGED <<token, read>> /\ Kept

OpenObject == OpenContainer(1, "OBJECT", 2)
OpenArray  == OpenContainer(7, "ARRAY", 8)

Document0 ==
  /\ info.state = 0
  /\ Reads("BEGIN_OBJECT", NULL) /\ Goes(1, info.cursor) /\ NoTree /\ Kept

\* States 2 and 4: a label.
Label ==
  /\ info.state \in {2, 4}
  /\ \E text \in Texts : Reads("STRING", text) /\ Insert("STRING", text, 5, New)
  /\ Kept

\* From a container that ends to what it is in: an object by way of the label, or an array.
LeaveToLabel ==   \* a bug to tell from the code: the label is not left
  LET up == heap[info.cursor].parent IN
  CASE up = NULL                              -> Goes(99, info.cursor)
    [] up # NULL /\ heap[up].type = "STRING"  -> Goes(3, up)
    [] up # NULL /\ heap[up].type # "STRING"  -> Goes(9, up)

Leave ==
  LET up == heap[info.cursor].parent IN
  CASE up = NULL                              -> Goes(99, info.cursor)
    [] up # NULL /\ heap[up].type = "STRING"  -> Goes(3, heap[up].parent)
    [] up # NULL /\ heap[up].type = "ARRAY"   -> Goes(9, up)
    [] up # NULL /\ heap[up].type \notin {"STRING", "ARRAY"} -> Goes("BAD_TREE_STRUCTURE", up)

\* States 2 and 3.
EndObjectLate ==   \* a bug to tell from the code: after a comma, too
  /\ info.state \in {2, 3, 4}
  /\ Reads("END_OBJECT", NULL) /\ Leave /\ NoTree /\ Kept

EndObject ==
  /\ info.state \in {2, 3}
  /\ Reads("END_OBJECT", NULL) /\ Leave /\ NoTree /\ Kept

ObjectComma ==
  /\ info.state = 3
  /\ Reads("VALUE_SEPARATOR", NULL) /\ Goes(4, info.cursor) /\ NoTree /\ Kept

Colon ==
  /\ info.state = 5
  /\ Reads("NAME_SEPARATOR", NULL) /\ Goes(6, info.cursor) /\ NoTree /\ Kept

\* State 6: the label's value.  The branch for a label without a parent sets a
\* state that the next assignment replaces.
LabelValue ==
  /\ info.state = 6
  /\ \E t \in Values : \E text \in TextsOf(t) :
       /\ Reads(t, text)
       /\ LET up == heap[info.cursor].parent
          IN Insert(t, text, 3, IF up = NULL THEN info.cursor ELSE up)
  /\ Kept

\* State 8: an element of the array.
Element ==
  /\ info.state = 8
  /\ \E t \in Values : \E text \in TextsOf(t) :
       Reads(t, text) /\ Insert(t, text, 9, info.cursor)
  /\ Kept

\* States 6 and 8: a container as a value.
BeginContainer ==
  /\ info.state \in {6, 8}
  /\ \/ Reads("BEGIN_OBJECT", NULL) /\ Goes(1, info.cursor)
     \/ Reads("BEGIN_ARRAY", NULL) /\ Goes(7, info.cursor)
  /\ NoTree /\ Kept

\* A comma before the end of an array is accepted, and is not part of the document.
WithoutComma == IF info.state = 8 /\ heap[info.cursor].child # NULL THEN SubSeq(read, 1, Len(read) - 1) ELSE read

\* States 8 and 9.
EndArray ==
  /\ info.state \in {8, 9}
  /\ token' = "END_ARRAY" /\ read' = WithoutComma \o <<"]">>
  /\ Leave /\ NoTree /\ Kept

ArrayComma ==
  /\ info.state = 9
  /\ Reads("VALUE_SEPARATOR", NULL) /\ Goes(8, info.cursor) /\ NoTree /\ Kept

\* The tokens each state has a case for.
Expected ==
  CASE info.state = 0  -> {"BEGIN_OBJECT"}
    [] info.state = 2  -> {"STRING", "END_OBJECT"}
    [] info.state = 3  -> {"VALUE_SEPARATOR", "END_OBJECT"}
    [] info.state = 4  -> {"STRING"}
    [] info.state = 5  -> {"NAME_SEPARATOR"}
    [] info.state = 6  -> Values \cup {"BEGIN_OBJECT", "BEGIN_ARRAY"}
    [] info.state = 8  -> Values \cup {"BEGIN_OBJECT", "BEGIN_ARRAY", "END_ARRAY"}
    [] info.state = 9  -> {"VALUE_SEPARATOR", "END_ARRAY"}
    [] info.state = 99 -> {}

AllTokens == Values \cup {"STRING", "BEGIN_OBJECT", "END_OBJECT", "BEGIN_ARRAY", "END_ARRAY",
                          "NAME_SEPARATOR", "VALUE_SEPARATOR", "INVALID"}

\* Any other token, and the invalid character.
Unexpected ==
  /\ info.state \notin {1, 7}
  /\ \E t \in AllTokens \ Expected :
       /\ token' = t
       /\ Fail(IF t = "INVALID" /\ info.state \in {4, 6, 8} THEN "ILLEGAL_CHARACTER" ELSE "MALFORMED_DOCUMENT")
  /\ UNCHANGED mode

\* The first fragment ends, and had white space only.
BlankFirstLine ==
  /\ info.state = 0 /\ token' = "blank first line"
  /\ Fail("MALFORMED_DOCUMENT") /\ UNCHANGED mode

\* No memory for a value, or for the text of a token, which most states take for a
\* malformed document.
NoMemory ==
  /\ token' = "no memory"
  /\ \/ info.state \in {1, 2, 4, 6, 7, 8, 99} /\ Fail("MEMORY")
     \/ info.state = 0 /\ mode = "document" /\ Fail("MEMORY")
     \/ info.state \in {0, 2, 3, 4, 5, 8, 9} /\ Fail("MALFORMED_DOCUMENT")
  /\ UNCHANGED mode

\* The end of the stream or of the text.
EndOfFile ==
  /\ token' = "end of file"
  /\ IF info.state = 99
     THEN verdict' = "accepted" /\ given' = info.cursor /\ Return("OK")
     ELSE /\ verdict' = "refused" /\ UNCHANGED given
          /\ Return(IF mode = "stream" THEN "UNKNOWN_PROBLEM" ELSE "INCOMPLETE_DOCUMENT")
  /\ UNCHANGED <<heap, mode, info, read>>

Turn == \/ Document0 \/ OpenObject \/ OpenArray \/ Label \/ EndObject \/ ObjectComma \/ Colon
        \/ LabelValue \/ Element \/ BeginContainer \/ EndArray \/ ArrayComma
        \/ Unexpected \/ BlankFirstLine \/ NoMemory \/ EndOfFile

Parse == verdict = "reading" /\ call = "none" /\ Turn

\* The caller, once it has the document: it prints it, or the value of a label it looks
\* for, and frees it.
FoundValues ==
  LET labels == {json_find_first_label(heap, given, text) : text \in Texts} \ {NULL}
  IN {heap[n].child : n \in labels}

Use ==
  /\ given # NULL /\ call = "none"
  /\ \/ /\ \E v \in {given} \cup FoundValues : json_tree_to_string(v) \/ json_stream_output(v)
        /\ UNCHANGED given
     \/ json_free_value(given) /\ given' = NULL
  /\ UNCHANGED <<mode, info, token, verdict, read>>

Walks == Walk /\ UNCHANGED <<mode, info, token, verdict, read, given>>

ParserNext == Parse \/ Use \/ Walks
ParserSpec == ParserInit /\ [][ParserNext]_parser /\ WF_parser(Walks)

-----------------------------------------------------------------------------
\* The containers above the cursor, without the labels between them.
Open[n \in Allocated(heap) \cup {NULL}] ==
  CASE n = NULL -> <<>>
    [] n # NULL /\ heap[n].type = "STRING" -> Open[heap[n].parent]
    [] OTHER -> Append(Open[heap[n].parent], heap[n].type)

Expects == CASE info.state = 0       -> "document"
             [] info.state \in {1, 2} -> "label or end"
             [] info.state = 3       -> "comma in an object"
             [] info.state = 4       -> "label"
             [] info.state = 5       -> "colon"
             [] info.state = 6       -> "value"
             [] info.state \in {7, 8} -> "value or end"
             [] info.state = 9       -> "comma in an array"
             [] info.state = 99      -> "end of file"
             [] OTHER                -> "nothing"

\* While it reads; afterwards the tree may be gone.
Stack == CASE info.state = 1  -> Append(Open[info.cursor], "OBJECT")
           [] info.state = 7  -> Append(Open[info.cursor], "ARRAY")
           [] info.state = 99 -> <<>>
           [] OTHER           -> Open[info.cursor]

Grammar == INSTANCE JsonGrammar WITH
  stack  <- IF verdict = "reading" THEN Stack ELSE <<>>,
  expect <- IF verdict = "reading" THEN Expects ELSE "nothing",
  tok    <- token

(* json_parse_fragment accepts and refuses token by token what the grammar does: the containers above the cursor of   *)
(* the tree are the automaton's stack, with no stack of the parser's own.                                             *)
FollowsTheGrammar == Grammar!Spec

(* The assertions of json_parse_fragment hold, and no insertion and no end of a container is ever refused: in every   *)
(* state the cursor is at a value of the type the state is about.                                                     *)
TreeSanity ==
  verdict = "reading" =>
    LET at == info.cursor
        up == heap[at].parent
    IN CASE info.state = 0           -> at = NULL
         [] info.state \in {1, 7}    -> at = NULL \/ heap[at].type \in {"STRING", "ARRAY"}
         [] info.state \in {2, 3, 4} -> heap[at].type = "OBJECT"
         [] info.state \in {5, 6}    -> heap[at].type = "STRING" /\ up # NULL /\ heap[up].type = "OBJECT"
         [] info.state \in {8, 9}    -> heap[at].type = "ARRAY"
         [] info.state = 99          -> up = NULL
         [] OTHER                    -> FALSE

(* A document that is read and printed is the document that was written, without its white space.                     *)
PrintsWhatItRead ==
  [][\A f \in {"tree_to_string", "stream_output"} :
       CloseValue(f) /\ result' = "OK" /\ root = given =>
         Handed(f) = read \o (IF f = "stream_output" THEN <<"\n">> ELSE <<>>)]_parser

(* Nothing is left of a document that was accepted and then freed.                                                    *)
NothingLeft == verdict = "accepted" /\ given = NULL /\ call = "none" => Allocated(heap) = {}

(* The parser's tree is what its state says it is, from the first token to the last value that is freed.              *)
ParserTreeSound == TreeSanity /\ NothingLeft

=============================================================================
