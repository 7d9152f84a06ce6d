---------------------------- MODULE JsonReaders -----------------------------
(***************************************************************************)
(* The two readers json.c has, side by side on the same characters: the    *)
(* lexer, whose caller takes over the text of every string and number and  *)
(* stops at the first error, and json_saxy_parse() with its callbacks.     *)
(***************************************************************************)
EXTENDS JsonSaxy, FiniteSets

CONSTANTS Alphabets,     \* what is fed: [chars, max], the characters and (bound) the longest text of a token
          CallbackSets   \* the callbacks a caller may have set

ReaderChars == UNION {a.chars : a \in Alphabets}

ASSUME FreedIsNoString == FREED \notin [text : Seq(ReaderChars), max : Nat]

VARIABLES lex, lexVerdict, tokens,        \* the lexer; the tokens of the last character
          sax, saxVerdict, calls, jsf,    \* the SAX parser; the calls of the last character
          alphabet                        \* what both are fed

readers == <<lex, lexVerdict, tokens, sax, saxVerdict, calls, jsf, alphabet>>

Callbacks == {"open_object", "close_object", "open_array", "close_array", "new_string", "new_number",
              "new_true", "new_false", "new_null", "label_value_separator", "sibling_separator"}

ReadersInit ==
  /\ lex = NewLexer /\ lexVerdict = "OK" /\ tokens = <<>>
  /\ sax = NewSaxy /\ saxVerdict = "OK" /\ calls = <<>> /\ jsf \in CallbackSets
  /\ alphabet \in Alphabets

\* A token with the text its caller takes over.
Token(r) == [token |-> r.token, text |-> IF r.token \in {"STRING", "NUMBER"} THEN rcs_unwrap(r.text) ELSE <<>>]

\* The caller of the lexer gives a character that was left to the next call.
LexTakes(c) ==
  LET first  == LexChar(lex, c)
      second == LexChar(Lexed(first), c)
  IN IF first.used
     THEN /\ lex' = Lexed(first)
          /\ tokens' = IF first.token \in {"none", "INVALID"} THEN <<>> ELSE <<Token(first)>>
          /\ lexVerdict' = IF first.token = "INVALID" THEN "INVALID" ELSE "OK"
     ELSE /\ lex' = Lexed(second)
          /\ tokens' = <<Token(first), Token(second)>>
          /\ lexVerdict' = "OK"

SaxTakes(c) ==
  LET r == SaxChar(sax, jsf, c)
  IN /\ ~Touches(sax, c)
     /\ sax' = [state |-> r.state, limit |-> r.limit, temp |-> r.temp]
     /\ calls' = r.calls
     /\ saxVerdict' = r.ret

\* No memory for a text to begin in, or for it to grow: the growth that fails
\* frees the string it is for.
LexRunsOut(c) ==
  LET text == LexChar(lex, c).text
  IN /\ text # NULL
     /\ \/ lex.text = NULL /\ UNCHANGED lex
        \/ lex.text # NULL /\ text.max # lex.text.max /\ lex' = [lex EXCEPT !.text = FREED]
     /\ lexVerdict' = "MEMORY" /\ tokens' = <<>>

\* The state is already another when a number can not begin in 0 or 27.
SaxBeginsNot(c) ==
  LET r == SaxChar(sax, jsf, c)
  IN /\ Begins(sax, c)
     /\ sax' = IF sax.state \in {0, 27} THEN [state |-> r.state, limit |-> r.limit, temp |-> NULL]
               ELSE [sax EXCEPT !.temp = NULL]
     /\ saxVerdict' = "MEMORY" /\ calls' = <<>>

\* Where the answer is looked at the parser gives up; where it is not, it goes
\* on with the pointer to the freed string, and says JSON_OK.
SaxGrowsNot(c) ==
  /\ Grows(sax, jsf, c)
  /\ sax' = [sax EXCEPT !.temp = FREED, !.state = IF Unheeded(sax) THEN SaxChar(sax, jsf, c).state ELSE @]
  /\ saxVerdict' = IF Unheeded(sax) THEN "OK" ELSE "MEMORY"
  /\ calls' = <<>>

SaxRunsOut(c) == SaxBeginsNot(c) \/ SaxGrowsNot(c)

\* A freed string is read: what the process does from here on is anything.
SaxStrays(c) == Touches(sax, c) /\ saxVerdict' = "UNDEFINED" /\ calls' = <<>> /\ UNCHANGED sax

LexStopped == lexVerdict # "OK" /\ tokens' = <<>> /\ UNCHANGED <<lex, lexVerdict>>
SaxStopped == saxVerdict # "OK" /\ calls' = <<>> /\ UNCHANGED <<sax, saxVerdict>>

\* Bound: no text grows past the alphabet's length.
Bounded(text) == text \notin {NULL, FREED} => rcs_length(text) =< alphabet.max
Room(c) ==
  /\ lexVerdict = "OK" => Bounded(LexChar(lex, c).text)
  /\ saxVerdict = "OK" /\ ~Touches(sax, c) => Bounded(SaxChar(sax, jsf, c).temp)

Feed(c) ==
  /\ "OK" \in {lexVerdict, saxVerdict}
  /\ Room(c)
  /\ \/ lexVerdict = "OK" /\ (LexTakes(c) \/ LexRunsOut(c))
     \/ LexStopped
  /\ \/ saxVerdict = "OK" /\ (SaxTakes(c) \/ SaxRunsOut(c) \/ SaxStrays(c))
     \/ SaxStopped
  /\ UNCHANGED <<jsf, alphabet>>

ReadersNext == \E c \in alphabet.chars : Feed(c)
ReadersSpec == ReadersInit /\ [][ReadersNext]_readers

-----------------------------------------------------------------------------
\* What a text is in RFC 4627, without the states of either reader.
IsInt(t)  == t # <<>> /\ (\A i \in DOMAIN t : t[i] \in Digit) /\ (t[1] = "0" => Len(t) = 1)
IsFrac(t) == t = <<>> \/ (Len(t) > 1 /\ t[1] = "." /\ \A i \in 2..Len(t) : t[i] \in Digit)
IsExp(t)  == \/ t = <<>>
             \/ /\ t[1] \in {"e", "E"}
                /\ \E i \in {2, 3} : /\ i =< Len(t)
                                     /\ i = 3 => t[2] \in {"+", "-"}
                                     /\ \A j \in i..Len(t) : t[j] \in Digit
IsNumber(t) ==
  \E i \in 0..1, j, k \in 0..Len(t) :
    /\ i =< j /\ j =< k
    /\ i = 1 => t[1] = "-"
    /\ IsInt(SubSeq(t, i + 1, j)) /\ IsFrac(SubSeq(t, j + 1, k)) /\ IsExp(SubSeq(t, k + 1, Len(t)))

(* The lexer is ready to end a number exactly when the text it has kept is a number of the grammar: no state of its *)
(* automaton accepts one that lacks its digits, its sign out of place or a leading 0.                                *)
NumbersAreJson ==
  lexVerdict = "OK" /\ lex.state \in 17..24 => (IsNumber(lex.text.text) <=> lex.state \in {18, 19, 21, 24})

(* A string's text has every escape complete, and no character that must be escaped, when the lexer is ready to end *)
(* it: the text can be written between quotes as it is.                                                              *)
EscapeEnds(t, i) == t[i] = "\\" /\ (IF t[i + 1] = "u" THEN i + 5 ELSE i + 1) =< Len(t)
WholeEscapes(t) ==
  \E at \in SUBSET DOMAIN t :
    /\ \A i \in DOMAIN t : t[i] = "\\" => i \in at \/ i - 1 \in at
    /\ \A i \in at : /\ i < Len(t) /\ EscapeEnds(t, i) /\ i - 1 \notin at
                     /\ t[i + 1] = "u" => \A j \in i + 2 .. i + 5 : t[j] \in Hex
    /\ \A i \in DOMAIN t : t[i] = "\"" => i - 1 \in at
StringsAreClosed ==
  lexVerdict = "OK" /\ lex.state \in 1..6 => (WholeEscapes(lex.text.text) <=> lex.state = 1)

(* The tokens with a text are those of RFC 4627, wherever the text is cut into pieces.                               *)
TokensAreJson == NumbersAreJson /\ StringsAreClosed

\* The callback a token is for.  The comma directly behind a number, the second
\* token of its character, is reported under the name of the colon.
CallOf(token, place) ==
  CASE token = "BEGIN_OBJECT" -> "open_object" [] token = "END_OBJECT" -> "close_object"
    [] token = "BEGIN_ARRAY"  -> "open_array"  [] token = "END_ARRAY"  -> "close_array"
    [] token = "NUMBER"       -> "new_number"  [] token = "STRING"     -> "new_string"
    [] token = "TRUE"         -> "new_true"    [] token = "FALSE"      -> "new_false"
    [] token = "NULL"         -> "new_null"    [] token = "NAME_SEPARATOR" -> "label_value_separator"
    [] token = "VALUE_SEPARATOR" -> IF place = 1 THEN "sibling_separator" ELSE "label_value_separator"

\* The numbers whose text reaches the callback whole.
Entire(text) == Len(text) = 1 \/ text = <<"-", "0">>

(* As long as json_saxy_parse() accepts, outside strings, the lexer accepts too, and with every callback set the     *)
(* calls a character leads to are, one for one and in their order, those of the tokens it completes.  The call of a   *)
(* number has the text of its token exactly when that is one digit or -0: of any longer one every further digit, the *)
(* point and the e begin a new text.  A comma directly behind a number is the one separator with another's call.      *)
SaxSeesTokens ==
  saxVerdict = "OK" /\ sax.state \notin 1..6 /\ lexVerdict # "MEMORY" =>
    /\ lexVerdict = "OK"
    /\ jsf = Callbacks =>
         /\ Len(calls) = Len(tokens)
         /\ \A i \in DOMAIN calls :
              /\ calls[i].call = CallOf(tokens[i].token, i)
              /\ calls[i].text = tokens[i].text <=> (tokens[i].token = "NUMBER" => Entire(tokens[i].text))

(* The text of either reader that has not run out of memory stays, with its terminator, inside what was allocated    *)
(* for it.  The one exception is a text json_saxy_parse() has lost and does not know of: behind a sign it does not    *)
(* look at the answer of rcs_catc(), and is in the state of a 0 or of an exponent with a string that is freed.        *)
TextFits ==
  /\ lexVerdict # "MEMORY" /\ lex.text # NULL => Fits(lex.text)
  /\ saxVerdict # "MEMORY" /\ sax.temp # NULL =>
       (sax.temp = FREED /\ sax.state \in {17, 21}) \/ Fits(sax.temp)

=============================================================================
