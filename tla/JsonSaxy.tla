------------------------------ MODULE JsonSaxy ------------------------------
(***************************************************************************)
(* json_saxy_parse() of json.c: one character, the state it is read in,    *)
(* and the callbacks it makes.  A callback is [call, text], the text being *)
(* that of a number.  rcs_length(NULL) ends the process by its assertion,  *)
(* a callback that is NULL by the jump: both are ret = "abort".  The limit *)
(* JSON_MAX_STRING_LENGTH, SIZE_MAX - 1, is not reached by any text; only  *)
(* the flag that says so is kept, for it is set without the limit too.     *)
(***************************************************************************)
EXTENDS JsonLexer

\* A status as its user has to initialise it.
NewSaxy == [state |-> 0, limit |-> FALSE, temp |-> NULL]

Ret(s, ret)     == [state |-> s.state, limit |-> s.limit, temp |-> s.temp, ret |-> ret, calls |-> <<>>]
Illegal(s)      == Ret(s, "ILLEGAL_CHARACTER")
To(s, state)    == Ret([s EXCEPT !.state = state], "OK")

\* A callback, tested for NULL under the name given first.
Calling(s, jsf, tested, call, text) ==
  CASE tested \notin jsf                 -> Ret(s, "OK")
    [] tested \in jsf /\ call \in jsf    -> [Ret(s, "OK") EXCEPT !.calls = <<[call |-> call, text |-> text]>>]
    [] tested \in jsf /\ call \notin jsf -> Ret(s, "abort")

Plain(s, jsf, call, state) == Calling([s EXCEPT !.state = state], jsf, call, call, <<>>)

\* A number that begins: a string of its own for its text.
Starts(s, room, c, state) == To([s EXCEPT !.temp = rcs_catc(rcs_create(room), c)], state)
Start(s, c, state)        == Starts(s, 5, c, state)

\* A character that goes on with the text, unless the limit is said to be reached.
Keep(s, c, state) ==
  To(IF s.limit THEN s ELSE [s EXCEPT !.temp = rcs_catc(s.temp, c)], state)

\* The end of a number: its callback, then that of the delimiter, which is
\* tested under another name.
EndNumber(s, jsf, tested, call, state) ==
  LET number == Calling(s, jsf, "new_number", "new_number", rcs_unwrap(s.temp))
      then   == Calling([s EXCEPT !.temp = NULL, !.state = state], jsf, tested, call, <<>>)
  IN IF tested = "none"
     THEN [number EXCEPT !.temp = NULL, !.state = state]
     ELSE [then EXCEPT !.calls = number.calls \o then.calls]

\* What the five states in which a number may end have in common.  The comma
\* after a number is reported as a label:value separator.
DelimiterPasted(s, jsf, c, commaTested) ==   \* a bug to tell from the code: ] calls close_object
  CASE c \in Space -> EndNumber(s, jsf, "none", "none", 0)
    [] c \in {"}", "]"} -> EndNumber(s, jsf, "open_object", "close_object", 26)
    [] c = ","     -> EndNumber(s, jsf, commaTested, "label_value_separator", 27)

Delimiter(s, jsf, c, commaTested) ==
  CASE c \in Space -> EndNumber(s, jsf, "none", "none", 0)
    [] c = "}"     -> EndNumber(s, jsf, "open_object", "close_object", 26)
    [] c = "]"     -> EndNumber(s, jsf, "open_object", "close_array", 26)
    [] c = ","     -> EndNumber(s, jsf, commaTested, "label_value_separator", 27)

\* Anything may come.
SaxGeneral(s, jsf, c) ==
  CASE c \in Space             -> Ret(s, "OK")
    [] c = "\""                -> To([s EXCEPT !.limit = FALSE], 1)
    [] c = "{"                 -> Plain(s, jsf, "open_object", 25)
    [] c = "}"                 -> Plain(s, jsf, "close_object", 26)
    [] c = "["                 -> Plain(s, jsf, "open_array", 0)
    [] c = "]"                 -> Plain(s, jsf, "close_array", 26)
    [] c = "t"                 -> To(s, 7)
    [] c = "f"                 -> To(s, 10)
    [] c = "n"                 -> To(s, 14)
    [] c = ":"                 -> Plain(s, jsf, "label_value_separator", 0)
    [] c = ","                 -> Plain(s, jsf, "sibling_separator", 27)
    [] c = "0"                 -> Start([s EXCEPT !.limit = FALSE], c, 17)
    [] c \in Digit \ {"0"}     -> Start([s EXCEPT !.limit = FALSE], c, 24)
    [] c = "-"                 -> Start([s EXCEPT !.limit = FALSE], c, 23)
    [] OTHER                   -> Illegal(s)

\* In a string.  No state that leads here gives it a text to grow.
SaxString(s, jsf, c) ==
  CASE s.temp = NULL /\ c = "\""              -> Ret(s, "UNKNOWN_PROBLEM")
    [] s.temp = NULL /\ c # "\"" /\ s.limit   -> To(s, IF c = "\\" THEN 2 ELSE 1)
    [] s.temp = NULL /\ c # "\"" /\ ~s.limit  -> Ret(s, "abort")
    [] s.temp # NULL /\ c = "\""  ->
         Calling([s EXCEPT !.temp = NULL, !.state = 0], jsf, "new_string", "new_string", rcs_unwrap(s.temp))
    [] s.temp # NULL /\ c # "\""  -> Keep(s, c, IF c = "\\" THEN 2 ELSE 1)

\* Without a text to grow, growing it fails the assertion of rcs_length.
Grow(s, c, state) == IF ~s.limit /\ s.temp = NULL THEN Ret(s, "abort") ELSE Keep(s, c, state)

\* After a backslash: only a \u leads on, every other escape stays here.
SaxEscape(s, c) ==
  CASE c \in {"\"", "\\", "/", "b", "f", "n", "r", "t"} -> Grow(s, c, 2)
    [] c = "u"                                          -> Grow(s, c, 3)
    [] OTHER                                            -> Illegal(s)

\* The first digit of a \u, which is kept as a second u, and the other three.
SaxUnicodeFirst(s, c) == IF c \in Hex THEN Grow(s, "u", 4) ELSE Illegal(s)

SaxUnicode(s, c) ==
  IF c \in Hex THEN Grow(s, c, IF s.state = 6 THEN 1 ELSE s.state + 1) ELSE Illegal(s)

\* The letters of true, false and null after the first.
SaxLiteral(s, jsf, c) ==
  CASE c # LiteralLetter(s.state)                    -> Illegal(s)
    [] c = LiteralLetter(s.state) /\ s.state = 9     -> Plain(s, jsf, "new_true", 0)
    [] c = LiteralLetter(s.state) /\ s.state = 13    -> Plain(s, jsf, "new_false", 0)
    [] c = LiteralLetter(s.state) /\ s.state = 16    -> Plain(s, jsf, "new_null", 0)
    [] OTHER                                         -> To(s, s.state + 1)

\* After a leading 0: the point begins a new text, an exponent is refused.
SaxZero(s, jsf, c) ==
  CASE EndsNumber(c) -> Delimiter(s, jsf, c, "open_object")
    [] c = "."       -> Start(s, c, 18)
    [] OTHER         -> Illegal(s)

SaxFractionStart(s, c) == IF c \in Digit THEN Grow(s, c, 19) ELSE Illegal(s)

SaxFraction(s, jsf, c) ==
  CASE EndsNumber(c)    -> Delimiter(s, jsf, c, "label_value_separator")
    [] c \in Digit      -> Grow(s, c, 19)
    [] c \in {"e", "E"} -> To([s EXCEPT !.temp = rcs_catc(s.temp, c)], 20)
    [] OTHER            -> Illegal(s)

SaxExponentStart(s, c) ==
  CASE c \in {"+", "-"} -> To([s EXCEPT !.limit = FALSE, !.temp = rcs_catc(s.temp, c)], 22)
    [] c \in Digit      -> Grow(s, c, 21)
    [] OTHER            -> Illegal(s)

SaxExponent(s, jsf, c) ==
  CASE EndsNumber(c) -> Delimiter(s, jsf, c, "label_value_separator")
    [] c \in Digit   -> Grow(s, c, 21)
    [] OTHER         -> Illegal(s)

SaxExponentSign(s, c) == IF c \in Digit THEN Grow(s, c, 21) ELSE Illegal(s)

\* After the minus sign, whose text the first digit replaces; the flag that
\* is set with it keeps the digits that follow out.
SaxMinus(s, c) ==
  CASE c = "0"                         -> To([s EXCEPT !.temp = rcs_catc(s.temp, c)], 17)
    [] c \in Digit \ {"0"} /\ ~s.limit -> Start([s EXCEPT !.limit = TRUE], c, 24)
    [] c \in Digit \ {"0"} /\ s.limit  -> To(s, 24)
    [] OTHER                           -> Illegal(s)

\* In the integer part: every character begins a new text.
SaxDecimal(s, jsf, c) ==
  CASE EndsNumber(c)          -> Delimiter(s, jsf, c, "label_value_separator")
    [] c \in Digit /\ ~s.limit -> Start(s, c, 24)
    [] c \in Digit /\ s.limit  -> To(s, 24)
    [] c = "."                -> Start(s, c, 18)
    [] c \in {"e", "E"}       -> Start([s EXCEPT !.limit = FALSE], c, 20)
    [] OTHER                  -> Illegal(s)

\* After {, after } or ], after a comma.
SaxOpenObject(s, jsf, c) ==
  CASE c \in Space -> Ret(s, "OK")
    [] c = "\""    -> To([s EXCEPT !.temp = NULL], 1)
    [] c = "}"     -> Plain(s, jsf, "close_object", 26)
    [] OTHER       -> Illegal(s)

SaxClosed(s, jsf, c) ==
  CASE c \in Space -> Ret(s, "OK")
    [] c = "}"     -> Plain(s, jsf, "close_object", 26)
    [] c = "]"     -> Plain(s, jsf, "close_array", 26)
    [] c = ","     -> Plain(s, jsf, "sibling_separator", 27)
    [] OTHER       -> Illegal(s)

\* A [ calls back and stays in this state.
SaxSibling(s, jsf, c) ==
  CASE c \in Space         -> Ret(s, "OK")
    [] c = "\""            -> To([s EXCEPT !.temp = NULL], 1)
    [] c = "{"             -> Plain(s, jsf, "open_object", 25)
    [] c = "["             -> Plain(s, jsf, "open_array", 27)
    [] c = "t"             -> To(s, 7)
    [] c = "f"             -> To(s, 10)
    [] c = "n"             -> To(s, 14)
    [] c = "0"             -> Start(s, c, 17)
    [] c \in Digit \ {"0"} -> Start(s, c, 24)
    [] c = "-"             -> Starts(s, RSTRING_DEFAULT, c, 23)
    [] OTHER               -> Illegal(s)

\* One character, in the state where the last one left off.
SaxChar(s, jsf, c) ==
  CASE s.state = 0        -> SaxGeneral(s, jsf, c)
    [] s.state = 1        -> SaxString(s, jsf, c)
    [] s.state = 2        -> SaxEscape(s, c)
    [] s.state = 3        -> SaxUnicodeFirst(s, c)
    [] s.state \in 4..6   -> SaxUnicode(s, c)
    [] s.state \in 7..16  -> SaxLiteral(s, jsf, c)
    [] s.state = 17       -> SaxZero(s, jsf, c)
    [] s.state = 18       -> SaxFractionStart(s, c)
    [] s.state = 19       -> SaxFraction(s, jsf, c)
    [] s.state = 20       -> SaxExponentStart(s, c)
    [] s.state = 21       -> SaxExponent(s, jsf, c)
    [] s.state = 22       -> SaxExponentSign(s, c)
    [] s.state = 23       -> SaxMinus(s, c)
    [] s.state = 24       -> SaxDecimal(s, jsf, c)
    [] s.state = 25       -> SaxOpenObject(s, jsf, c)
    [] s.state = 26       -> SaxClosed(s, jsf, c)
    [] s.state = 27       -> SaxSibling(s, jsf, c)

\* The characters with which a string is created, and those that find the one
\* there is full.
Begins(s, c) ==
  \/ s.state \in {0, 27} /\ c \in Digit \cup {"-"}
  \/ s.state \in {17, 24} /\ c = "."
  \/ s.state = 24 /\ c \in {"e", "E"}
  \/ s.state = 23 /\ c \in Digit \ {"0"} /\ ~s.limit
  \/ s.state = 24 /\ c \in Digit /\ ~s.limit

Grows(s, jsf, c) ==
  /\ ~Begins(s, c) /\ s.temp \notin {NULL, FREED}
  /\ LET text == SaxChar(s, jsf, c).temp IN text # NULL /\ text.max # s.temp.max

\* Where the answer of the rcs_catc is not looked at: the first digit after
\* the sign of an exponent, and a 0 after a minus sign.
Unheeded(s) == s.state \in {22, 23}

\* The characters that lead to a use of the text after it was freed.
Touches(s, c) == s.temp = FREED /\ (EndsNumber(c) \/ (s.state = 21 /\ c \in Digit))

=============================================================================
