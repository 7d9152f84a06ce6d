---------------------------- MODULE MCDocuments -----------------------------
(***************************************************************************)
(* json.c for TLC: its readers, a program that builds trees, its parser    *)
(* and its text functions, one of them in each behaviour.  They share no   *)
(* state but the heap of values, which the builder and the parser have.    *)
(***************************************************************************)
EXTENDS JsonReaders, JsonBuilder, JsonParser, JsonStrings

VARIABLE part      \* the one that runs

all == <<part, readers, builder, parser, strings>>

AllCallbacks == {Callbacks, {}}
NumberAlphabet == {"-", "0", "1", ".", "e", "+", " ", "]", ",", "{", "[", "}", ":", "t", "r", "u"}
StringAlphabet == {"\"", "\\", "u", "a"}
\* Four digits of an escape make a text of six characters.
OfNumbers    == [chars |-> NumberAlphabet, max |-> 5]
OfStrings    == [chars |-> StringAlphabet, max |-> 6]
\* .11e+ fills the five characters of a number's string before the digit behind the sign.
OfExponents  == [chars |-> {"0", ".", "e", "+", " "}, max |-> 7]
ThreeAlphabets == {OfNumbers, OfStrings, OfExponents}

SomeTypes == {"STRING", "OBJECT", "ARRAY"}
ValueTokens  == Scalars
ShortTexts   == {<<"a">>}
One          == <<"1">>

U(a, b, c, d) == <<"\\", "u", a, b, c, d>>
SomeDocumentChars == {"{", "}", "[", "]", ":", ",", " ", "\n", "\"", "\\", "n", "1"}
SomeRawChars      == {"SOH", "BS", "\t", "\n", "\f", "\r", "\"", "/", "\\", "a", "high"}
\* The first and the last code of each length of UTF-8 and of each kind of surrogate.
SomeEscapedPieces  == {<<"a">>, U("0", "0", "0", "1"), U("0", "0", "7", "f"), U("0", "0", "8", "0"), U("0", "7", "F", "f"),
                       U("0", "8", "0", "0"), U("d", "7", "f", "f"), U("e", "0", "0", "0"), U("f", "f", "f", "f"),
                       U("d", "8", "0", "0"), U("D", "B", "F", "F"), U("d", "c", "0", "0"), U("d", "f", "f", "f")}

MCInit ==
  /\ part \in {"readers", "builder", "parser", "strings"}
  /\ ReadersInit /\ BuilderInit /\ ParserInit /\ StringsInit
  /\ part # "readers" => jsf = {} /\ alphabet = OfStrings
  /\ part # "parser" => mode = "stream"
  /\ part # "strings" => kind = "raw"

readersOnly == <<lex, lexVerdict, tokens, sax, saxVerdict, calls, jsf, alphabet>>
parserOnly  == <<mode, info, token, verdict, read, given>>

RunReaders == part = "readers" /\ ReadersNext /\ UNCHANGED <<part, builder, parserOnly, strings>>
\* Bound: the builder has one value less than the parser.
RunBuilder == part = "builder" /\ BuilderNext /\ Cardinality(Allocated(heap)') < MaxNodes
              /\ UNCHANGED <<part, readers, parserOnly, strings>>
RunParser  == part = "parser" /\ ParserNext /\ UNCHANGED <<part, readers, lost, strings>>
RunStrings == part = "strings" /\ StringsNext /\ UNCHANGED <<part, readers, builder, parserOnly>>

MCNext == RunReaders \/ RunBuilder \/ RunParser \/ RunStrings
MCSpec == MCInit /\ [][MCNext]_all /\ WF_all(RunBuilder /\ Walk) /\ WF_all(RunParser /\ Walk)

(* Every text that grows a character or a piece at a time, a token's or the output, and its terminator are inside     *)
(* what was allocated for it, but for the text that json_saxy_parse() loses behind a sign (TextFits).                 *)
TextsFit == TextFits /\ OutputFits

=============================================================================
