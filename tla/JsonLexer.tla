----------------------------- MODULE JsonLexer ------------------------------
(***************************************************************************)
(* lexer() of json.c: what one character does to the lexer's state and     *)
(* text, both kept between calls, and the token it completes.  A character *)
(* is a string of length one; Control stands for the characters below 0x20 *)
(* that are no white space: BS is 0x08, SOH, 0x01, one that has no name    *)
(* in JSON.  The line counter is left out.                                 *)
(***************************************************************************)
EXTENDS RcString

Space   == {" ", "\t", "\n", "\r"}
Control == {"\f", "BS", "SOH"}
Digit   == {"0", "1", "2", "3", "4", "5", "6", "7", "8", "9"}
Hex     == Digit \cup {"a", "b", "c", "d", "e", "f", "A", "B", "C", "D", "E", "F"}

Structural == {"{", "}", "[", "]", ":", ","}

TokenOf(c) ==
  CASE c = "{" -> "BEGIN_OBJECT"   [] c = "}" -> "END_OBJECT"
    [] c = "[" -> "BEGIN_ARRAY"    [] c = "]" -> "END_ARRAY"
    [] c = ":" -> "NAME_SEPARATOR" [] c = "," -> "VALUE_SEPARATOR"

\* A lexer that has read nothing yet.
NewLexer == [state |-> 0, text |-> NULL]

\* What a character may lead to: another state, or a token.  A token that the
\* next character ends leaves that character to the next call (used = FALSE).
Go(state, text)      == [state |-> state, text |-> text, token |-> "none", used |-> TRUE]
Emit(token, text)    == [state |-> 0, text |-> text, token |-> token, used |-> TRUE]
InvalidCharacter(lex) == [state |-> lex.state, text |-> lex.text, token |-> "INVALID", used |-> TRUE]

Begin(c) == rcs_catc(rcs_create(RSTRING_DEFAULT), c)

\* Outside every token.
LexRoot(lex, c) ==
  CASE c \in Space             -> Go(0, lex.text)
    [] c \in Structural        -> Emit(TokenOf(c), lex.text)
    [] c = "\""                -> Go(1, rcs_create(RSTRING_DEFAULT))
    [] c = "t"                 -> Go(7, lex.text)
    [] c = "f"                 -> Go(10, lex.text)
    [] c = "n"                 -> Go(14, lex.text)
    [] c = "-"                 -> Go(17, Begin(c))
    [] c = "0"                 -> Go(18, Begin(c))
    [] c \in Digit \ {"0"}     -> Go(19, Begin(c))
    [] OTHER                   -> InvalidCharacter(lex)

\* Inside a string.
LexString(lex, c) ==
  CASE c \in Control \cup (Space \ {" "}) -> InvalidCharacter(lex)
    [] c = "\""                           -> Emit("STRING", lex.text)
    [] c = "\\"                           -> Go(2, rcs_catc(lex.text, c))
    [] OTHER                              -> Go(1, rcs_catc(lex.text, c))

\* After a backslash.
LexEscape(lex, c) ==
  CASE c \in {"\\", "\"", "/", "b", "f", "n", "r", "t"} -> Go(1, rcs_catc(lex.text, c))
    [] c = "u"                                          -> Go(3, rcs_catc(lex.text, c))
    [] OTHER                                            -> InvalidCharacter(lex)

\* The four digits of a \u, the last of which leads back into the string.
LexUnicodeShort(lex, c) ==   \* a bug to tell from the code: three digits
  IF c \in Hex
  THEN Go(IF lex.state = 5 THEN 1 ELSE lex.state + 1, rcs_catc(lex.text, c))
  ELSE InvalidCharacter(lex)

LexUnicode(lex, c) ==
  IF c \in Hex
  THEN Go(IF lex.state = 6 THEN 1 ELSE lex.state + 1, rcs_catc(lex.text, c))
  ELSE InvalidCharacter(lex)

\* The letters of true, false and null after the first: the states 7 to 9,
\* 10 to 13 and 14 to 16.
LiteralLetter(state) == <<"r", "u", "e", "a", "l", "s", "e", "u", "l", "l">>[state - 6]

LexLiteral(lex, c) ==
  CASE c # LiteralLetter(lex.state) -> InvalidCharacter(lex)
    [] c = LiteralLetter(lex.state) /\ lex.state = 9  -> Emit("TRUE", lex.text)
    [] c = LiteralLetter(lex.state) /\ lex.state = 13 -> Emit("FALSE", lex.text)
    [] c = LiteralLetter(lex.state) /\ lex.state = 16 -> Emit("NULL", lex.text)
    [] OTHER -> Go(lex.state + 1, lex.text)

\* The end of a number: white space is used up, a delimiter is left.
EndsNumber(c)      == c \in Space \cup {"]", "}", ","}
EmitNumber(lex, c) == [Emit("NUMBER", lex.text) EXCEPT !.used = c \in Space]
GoOn(state, lex, c) == Go(state, rcs_catc(lex.text, c))

\* After the minus sign.
LexMinus(lex, c) ==
  CASE c = "0"             -> GoOn(18, lex, c)
    [] c \in Digit \ {"0"} -> GoOn(19, lex, c)
    [] OTHER               -> InvalidCharacter(lex)

\* After a leading 0.
LexZeroLoose(lex, c) ==   \* a bug to tell from the code: digits after a leading 0
  CASE EndsNumber(c)     -> EmitNumber(lex, c)
    [] c = "."           -> GoOn(20, lex, c)
    [] c \in {"e", "E"}  -> GoOn(22, lex, c)
    [] c \in Digit       -> GoOn(19, lex, c)
    [] OTHER             -> InvalidCharacter(lex)

LexZero(lex, c) ==
  CASE EndsNumber(c)     -> EmitNumber(lex, c)
    [] c = "."           -> GoOn(20, lex, c)
    [] c \in {"e", "E"}  -> GoOn(22, lex, c)
    [] OTHER             -> InvalidCharacter(lex)

\* In the integer part.
LexInteger(lex, c) ==
  CASE EndsNumber(c)     -> EmitNumber(lex, c)
    [] c = "."           -> GoOn(20, lex, c)
    [] c \in {"e", "E"}  -> GoOn(22, lex, c)
    [] c \in Digit       -> GoOn(19, lex, c)
    [] OTHER             -> InvalidCharacter(lex)

\* The first digit after the point, and the others.
LexFractionStart(lex, c) ==
  IF c \in Digit THEN GoOn(21, lex, c) ELSE InvalidCharacter(lex)

LexFraction(lex, c) ==
  CASE EndsNumber(c)     -> EmitNumber(lex, c)
    [] c \in {"e", "E"}  -> GoOn(22, lex, c)
    [] c \in Digit       -> GoOn(21, lex, c)
    [] OTHER             -> InvalidCharacter(lex)

\* The exponent: its sign, its first digit, the others.
LexExponentStart(lex, c) ==
  CASE c \in {"-", "+"} -> GoOn(23, lex, c)
    [] c \in Digit      -> GoOn(24, lex, c)
    [] OTHER            -> InvalidCharacter(lex)

LexExponentSign(lex, c) ==
  IF c \in Digit THEN GoOn(24, lex, c) ELSE InvalidCharacter(lex)

LexExponent(lex, c) ==
  CASE EndsNumber(c)     -> EmitNumber(lex, c)
    [] c \in Digit       -> GoOn(24, lex, c)
    [] OTHER             -> InvalidCharacter(lex)

\* One character.
LexChar(lex, c) ==
  CASE lex.state = 0        -> LexRoot(lex, c)
    [] lex.state = 1        -> LexString(lex, c)
    [] lex.state = 2        -> LexEscape(lex, c)
    [] lex.state \in 3..6   -> LexUnicode(lex, c)
    [] lex.state \in 7..16  -> LexLiteral(lex, c)
    [] lex.state = 17       -> LexMinus(lex, c)
    [] lex.state = 18       -> LexZero(lex, c)
    [] lex.state = 19       -> LexInteger(lex, c)
    [] lex.state = 20       -> LexFractionStart(lex, c)
    [] lex.state = 21       -> LexFraction(lex, c)
    [] lex.state = 22       -> LexExponentStart(lex, c)
    [] lex.state = 23       -> LexExponentSign(lex, c)
    [] lex.state = 24       -> LexExponent(lex, c)

\* What the lexer keeps when its caller has taken the text of a token.
Lexed(r) ==
  [state |-> r.state, text |-> IF r.token \in {"STRING", "NUMBER"} THEN NULL ELSE r.text]

=============================================================================
