----------------------------- MODULE JsonProofs ------------------------------
(***************************************************************************)
(* Theorems about the readers of json.c, for texts of any length over any  *)
(* characters, and any callbacks.                                          *)
(***************************************************************************)
EXTENDS JsonReaders, SequenceTheorems, TLAPS

-----------------------------------------------------------------------------
(* The texts that grow *)

\* A growing string that has room for its text.
HasRoom(r) == r \in [text : Seq(ReaderChars), max : Nat] /\ Fits(r)

\* A character more, and the room for it.
LEMMA CatcKeeps ==
  ASSUME NEW r, HasRoom(r), NEW c \in ReaderChars
  PROVE  HasRoom(rcs_catc(r, c)) /\ rcs_catc(r, c).text = Append(r.text, c)
<1>1. /\ r = [text |-> r.text, max |-> r.max] /\ r.text \in Seq(ReaderChars) /\ r.max \in Nat
      /\ Len(r.text) \in Nat /\ Len(r.text) =< r.max
  BY DEF HasRoom, Fits, rcs_length
<1>2. Append(r.text, c) \in Seq(ReaderChars) /\ Len(Append(r.text, c)) = Len(r.text) + 1
  BY <1>1
<1>3. \E m \in Nat : rcs_catc(r, c) = [text |-> Append(r.text, c), max |-> m] /\ Len(r.text) < m
  <2>1. CASE r.max =< Len(r.text)
    <3>1. rcs_resize(r, r.max + RSTRING_INCSTEP) = [text |-> r.text, max |-> r.max + RSTRING_INCSTEP]
      BY <1>1 DEF rcs_resize
    <3>2. rcs_catc(r, c) = [text |-> Append(r.text, c), max |-> r.max + RSTRING_INCSTEP]
      BY <2>1, <3>1 DEF rcs_catc
    <3>3. r.max + RSTRING_INCSTEP \in Nat /\ Len(r.text) < r.max + RSTRING_INCSTEP
      BY <1>1, RcSizes
    <3>4. QED
      BY <3>2, <3>3
  <2>2. CASE ~(r.max =< Len(r.text))
    <3>1. rcs_catc(r, c) = [r EXCEPT !.text = Append(@, c)]
      BY <2>2 DEF rcs_catc
    <3>2. rcs_catc(r, c) = [text |-> Append(r.text, c), max |-> r.max]
      BY <1>1, <3>1
    <3>3. Len(r.text) < r.max
      BY <1>1, <2>2
    <3>4. QED
      BY <1>1, <3>2, <3>3
  <2>3. QED
    BY <2>1, <2>2
<1>4. PICK m \in Nat : rcs_catc(r, c) = [text |-> Append(r.text, c), max |-> m] /\ Len(r.text) < m
  BY <1>3
<1>5. QED
  BY <1>1, <1>2, <1>4 DEF HasRoom, Fits, rcs_length

\* A new string is empty, whatever its room.
LEMMA CreateKeeps ==
  ASSUME NEW n \in Nat
  PROVE  HasRoom(rcs_create(n)) /\ rcs_create(n).text = <<>>
BY DEF HasRoom, Fits, rcs_create, rcs_length

\* The first character of a number.
LEMMA BeginKeeps ==
  ASSUME NEW c \in ReaderChars
  PROVE  HasRoom(Begin(c)) /\ Begin(c).text = <<c>>
<1>1. HasRoom(rcs_create(RSTRING_DEFAULT)) /\ rcs_create(RSTRING_DEFAULT).text = <<>>
  BY RcSizes, CreateKeeps
<1>2. Append(<<>>, c) = <<c>>
  OBVIOUS
<1>3. QED
  BY <1>1, <1>2, CatcKeeps DEF Begin

-----------------------------------------------------------------------------
(* What a character does to the lexer *)

\* The states in which the lexer keeps a text: of a string, of a number.
InString == 1..6
InNumber == 17..24

LexTyped ==
  /\ lex = [state |-> lex.state, text |-> lex.text]
  /\ lex.state \in 0..24
  /\ IF lex.state \in InString \cup InNumber THEN HasRoom(lex.text) ELSE lex.text = NULL

\* The characters that go on with a text, and where they lead.
StringGoes(s, c, n) ==
  \/ s = 1 /\ c # "\"" /\ c # "\\" /\ n = 1
  \/ s = 1 /\ c = "\\" /\ n = 2
  \/ s = 2 /\ c \in {"\\", "\"", "/", "b", "f", "n", "r", "t"} /\ n = 1
  \/ s = 2 /\ c = "u" /\ n = 3
  \/ s \in 3..5 /\ c \in Hex /\ n = s + 1
  \/ s = 6 /\ c \in Hex /\ n = 1

NumberGoes(s, c, n) ==
  \/ s = 17 /\ c = "0" /\ n = 18
  \/ s = 17 /\ c \in Digit \ {"0"} /\ n = 19
  \/ s = 19 /\ c \in Digit /\ n = 19
  \/ s \in {18, 19} /\ c = "." /\ n = 20
  \/ s \in {20, 21} /\ c \in Digit /\ n = 21
  \/ s \in {18, 19, 21} /\ c \in {"e", "E"} /\ n = 22
  \/ s = 22 /\ c \in {"+", "-"} /\ n = 23
  \/ s \in {22, 23, 24} /\ c \in Digit /\ n = 24

NumberBegins(c, n) == \/ c = "-" /\ n = 17
                      \/ c = "0" /\ n = 18
                      \/ c \in Digit \ {"0"} /\ n = 19

\* What a step of the lexer may be.
LexRefuses   == lexVerdict' = "INVALID" /\ lex' = lex
LexIdles     == lexVerdict' = "OK" /\ lex' = [state |-> 0, text |-> NULL]
LexSpells    == lexVerdict' = "OK" /\ \E n \in 7..16 : lex' = [state |-> n, text |-> NULL]
LexOpens     == lexVerdict' = "OK" /\ lex' = [state |-> 1, text |-> rcs_create(RSTRING_DEFAULT)]
LexBegins(c) == lexVerdict' = "OK" /\ \E n \in 17..19 : NumberBegins(c, n) /\ lex' = [state |-> n, text |-> Begin(c)]
LexGoes(c)   == /\ lexVerdict' = "OK"
                /\ \E n \in InString \cup InNumber :
                     /\ StringGoes(lex.state, c, n) \/ NumberGoes(lex.state, c, n)
                     /\ lex' = [state |-> n, text |-> rcs_catc(lex.text, c)]

\* What the automaton does with a character, state by state.
LEMMA RootChar ==
  ASSUME NEW l, NEW c, l.state = 0
  PROVE  \/ c \in Space /\ LexChar(l, c) = Go(0, l.text)
         \/ c \in Structural /\ LexChar(l, c) = Emit(TokenOf(c), l.text)
         \/ c = "\"" /\ LexChar(l, c) = Go(1, rcs_create(RSTRING_DEFAULT))
         \/ c = "t" /\ LexChar(l, c) = Go(7, l.text)
         \/ c = "f" /\ LexChar(l, c) = Go(10, l.text)
         \/ c = "n" /\ LexChar(l, c) = Go(14, l.text)
         \/ c = "-" /\ LexChar(l, c) = Go(17, Begin(c))
         \/ c = "0" /\ LexChar(l, c) = Go(18, Begin(c))
         \/ c \in Digit \ {"0"} /\ LexChar(l, c) = Go(19, Begin(c))
         \/ c \notin Space \cup Structural \cup Digit \cup {"\"", "t", "f", "n", "-"} /\ LexChar(l, c) = InvalidCharacter(l)
<1>1. LexChar(l, c) = LexRoot(l, c)
  BY DEF LexChar
<1>2. CASE c \in Space
  BY <1>1, <1>2 DEF LexRoot, Space, Structural, Digit
<1>3. CASE c \in Structural
  BY <1>1, <1>3 DEF LexRoot, Space, Structural, Digit
<1>4. CASE c \in {"\"", "t", "f", "n", "-"}
  BY <1>1, <1>4 DEF LexRoot, Space, Structural, Digit
<1>5. CASE c \in Digit
  BY <1>1, <1>5 DEF LexRoot, Space, Structural, Digit
<1>6. CASE c \notin Space \cup Structural \cup Digit \cup {"\"", "t", "f", "n", "-"}
  <2>1. LexRoot(l, c) = InvalidCharacter(l)
    BY <1>6 DEF LexRoot, Digit
  <2>2. QED
    BY <1>1, <1>6, <2>1
<1>7. QED
  BY <1>2, <1>3, <1>4, <1>5, <1>6

\* In a string: it goes on, ends, or is refused.
LEMMA StringChar ==
  ASSUME NEW l, NEW c, l.state \in InString
  PROVE  \/ LexChar(l, c) = InvalidCharacter(l)
         \/ LexChar(l, c) = Emit("STRING", l.text)
         \/ \E n \in InString : StringGoes(l.state, c, n) /\ LexChar(l, c) = Go(n, rcs_catc(l.text, c))
<1>1. l.state \in 1..6
  BY DEF InString
<1>2. CASE l.state = 1
  <2>1. LexChar(l, c) = LexString(l, c)
    BY <1>2 DEF LexChar
  <2>2. \/ LexString(l, c) = InvalidCharacter(l)
        \/ LexString(l, c) = Emit("STRING", l.text)
        \/ c = "\\" /\ LexString(l, c) = Go(2, rcs_catc(l.text, c))
        \/ c # "\"" /\ c # "\\" /\ LexString(l, c) = Go(1, rcs_catc(l.text, c))
    BY DEF LexString, Control, Space
  <2>3. /\ c = "\\" => StringGoes(l.state, c, 2)
        /\ c # "\"" /\ c # "\\" => StringGoes(l.state, c, 1)
    BY <1>2 DEF StringGoes
  <2>4. 1 \in InString /\ 2 \in InString
    BY DEF InString
  <2>5. QED
    BY <2>1, <2>2, <2>3, <2>4
<1>3. CASE l.state = 2
  <2>1. LexChar(l, c) = LexEscape(l, c)
    BY <1>3 DEF LexChar
  <2>2. \/ LexEscape(l, c) = InvalidCharacter(l)
        \/ c \in {"\\", "\"", "/", "b", "f", "n", "r", "t"} /\ LexEscape(l, c) = Go(1, rcs_catc(l.text, c))
        \/ c = "u" /\ LexEscape(l, c) = Go(3, rcs_catc(l.text, c))
    BY DEF LexEscape
  <2>3. /\ c \in {"\\", "\"", "/", "b", "f", "n", "r", "t"} => StringGoes(l.state, c, 1)
        /\ c = "u" => StringGoes(l.state, c, 3)
    BY <1>3 DEF StringGoes
  <2>4. 1 \in InString /\ 3 \in InString
    BY DEF InString
  <2>5. QED
    BY <2>1, <2>2, <2>3, <2>4
<1>4. CASE l.state \in 3..6
  <2>1. LexChar(l, c) = LexUnicode(l, c)
    BY <1>4 DEF LexChar
  <2>2. \/ LexUnicode(l, c) = InvalidCharacter(l)
        \/ c \in Hex /\ l.state = 6 /\ LexUnicode(l, c) = Go(1, rcs_catc(l.text, c))
        \/ c \in Hex /\ l.state # 6 /\ LexUnicode(l, c) = Go(l.state + 1, rcs_catc(l.text, c))
    BY DEF LexUnicode
  <2>3. /\ c \in Hex /\ l.state # 6 => l.state + 1 \in InString /\ StringGoes(l.state, c, l.state + 1)
        /\ c \in Hex /\ l.state = 6 => 1 \in InString /\ StringGoes(l.state, c, 1)
    <3>1. /\ l.state # 6 => l.state \in 3..5 /\ l.state + 1 \in InString
          /\ 1 \in InString
      BY <1>4 DEF InString
    <3>2. QED
      BY <3>1, Zenon DEF StringGoes
  <2>4. QED
    BY <2>1, <2>2, <2>3
<1>5. QED
  BY <1>1, <1>2, <1>3, <1>4

\* The last letter of a literal, and the token it completes.
LiteralToken(state) == CASE state = 9 -> "TRUE" [] state = 13 -> "FALSE" [] state = 16 -> "NULL"

\* In a literal: it goes on with its letter, ends with it, or is refused.
LEMMA LiteralChar ==
  ASSUME NEW l, NEW c, l.state \in 7..16
  PROVE  \/ c # LiteralLetter(l.state) /\ LexChar(l, c) = InvalidCharacter(l)
         \/ c = LiteralLetter(l.state) /\ l.state \in {9, 13, 16} /\ LexChar(l, c) = Emit(LiteralToken(l.state), l.text)
         \/ c = LiteralLetter(l.state) /\ l.state \notin {9, 13, 16} /\ LexChar(l, c) = Go(l.state + 1, l.text)
<1>1. LexChar(l, c) = LexLiteral(l, c)
  BY DEF LexChar
<1>2. QED
  BY <1>1 DEF LexLiteral, LiteralToken

\* The states in which a number may end.
MayEnd == {18, 19, 21, 24}

\* In a number: it ends where it may, goes on, or is refused.
LEMMA NumberChar ==
  ASSUME NEW l, NEW c, l.state \in InNumber
  PROVE  \/ l.state \in MayEnd /\ EndsNumber(c) /\ LexChar(l, c) = EmitNumber(l, c)
         \/ /\ \A n \in InNumber : ~NumberGoes(l.state, c, n)
            /\ l.state \notin MayEnd \/ ~EndsNumber(c)
            /\ LexChar(l, c) = InvalidCharacter(l)
         \/ \E n \in InNumber : NumberGoes(l.state, c, n) /\ LexChar(l, c) = Go(n, rcs_catc(l.text, c))
<1>1. l.state \in 17..24
  BY DEF InNumber
<1>2. CASE l.state \in {17, 20, 22, 23}
  <2>1. LexChar(l, c) = CASE l.state = 17 -> LexMinus(l, c)
                          [] l.state = 20 -> LexFractionStart(l, c)
                          [] l.state = 22 -> LexExponentStart(l, c)
                          [] l.state = 23 -> LexExponentSign(l, c)
    BY <1>2 DEF LexChar
  <2>2. CASE l.state = 17
    BY <2>1, <2>2 DEF LexMinus, GoOn, NumberGoes, MayEnd, InNumber, Digit
  <2>3. CASE l.state = 20
    BY <2>1, <2>3 DEF LexFractionStart, GoOn, NumberGoes, MayEnd, InNumber
  <2>4. CASE l.state = 22
    BY <2>1, <2>4 DEF LexExponentStart, GoOn, NumberGoes, MayEnd, InNumber, Digit
  <2>5. CASE l.state = 23
    BY <2>1, <2>5 DEF LexExponentSign, GoOn, NumberGoes, MayEnd, InNumber
  <2>6. QED
    BY <1>2, <2>2, <2>3, <2>4, <2>5
<1>3. CASE l.state \in MayEnd
  <2>1. LexChar(l, c) = CASE l.state = 18 -> LexZero(l, c)
                          [] l.state = 19 -> LexInteger(l, c)
                          [] l.state = 21 -> LexFraction(l, c)
                          [] l.state = 24 -> LexExponent(l, c)
    BY <1>3 DEF LexChar, MayEnd
  <2>2. CASE l.state = 18
    <3>1. \/ EndsNumber(c) /\ LexZero(l, c) = EmitNumber(l, c)
          \/ c = "." /\ ~EndsNumber(c) /\ LexZero(l, c) = Go(20, rcs_catc(l.text, c))
          \/ c \in {"e", "E"} /\ ~EndsNumber(c) /\ LexZero(l, c) = Go(22, rcs_catc(l.text, c))
          \/ c # "." /\ c \notin {"e", "E"} /\ ~EndsNumber(c) /\ LexZero(l, c) = InvalidCharacter(l)
      BY DEF LexZero, GoOn, EndsNumber, Digit, Space
    <3>2. LexZero(l, c) = LexChar(l, c)
      BY <2>1, <2>2
    <3>3. c = "." => NumberGoes(l.state, c, 20) /\ 20 \in InNumber
      BY <2>2 DEF NumberGoes, InNumber
    <3>4. c \in {"e", "E"} => NumberGoes(l.state, c, 22) /\ 22 \in InNumber
      BY <2>2 DEF NumberGoes, InNumber
    <3>5. c # "." /\ c \notin {"e", "E"} => \A n \in InNumber : ~NumberGoes(l.state, c, n)
      BY <2>2 DEF NumberGoes
    <3>6. QED
      BY <2>2, <3>1, <3>2, <3>3, <3>4, <3>5 DEF MayEnd
  <2>3. CASE l.state = 19
    <3>1. \/ EndsNumber(c) /\ LexInteger(l, c) = EmitNumber(l, c)
          \/ c = "." /\ ~EndsNumber(c) /\ LexInteger(l, c) = Go(20, rcs_catc(l.text, c))
          \/ c \in {"e", "E"} /\ ~EndsNumber(c) /\ LexInteger(l, c) = Go(22, rcs_catc(l.text, c))
          \/ c \in Digit /\ ~EndsNumber(c) /\ LexInteger(l, c) = Go(19, rcs_catc(l.text, c))
          \/ c # "." /\ c \notin {"e", "E"} /\ c \notin Digit /\ ~EndsNumber(c) /\ LexInteger(l, c) = InvalidCharacter(l)
      BY DEF LexInteger, GoOn, EndsNumber, Digit, Space
    <3>2. LexInteger(l, c) = LexChar(l, c)
      BY <2>1, <2>3
    <3>3. c = "." => NumberGoes(l.state, c, 20) /\ 20 \in InNumber
      BY <2>3 DEF NumberGoes, InNumber
    <3>4. c \in {"e", "E"} => NumberGoes(l.state, c, 22) /\ 22 \in InNumber
      BY <2>3 DEF NumberGoes, InNumber
    <3>5. c \in Digit => NumberGoes(l.state, c, 19) /\ 19 \in InNumber
      BY <2>3 DEF NumberGoes, InNumber
    <3>6. c # "." /\ c \notin {"e", "E"} /\ c \notin Digit => \A n \in InNumber : ~NumberGoes(l.state, c, n)
      BY <2>3 DEF NumberGoes
    <3>7. QED
      BY <2>3, <3>1, <3>2, <3>3, <3>4, <3>5, <3>6 DEF MayEnd
  <2>4. CASE l.state = 21
    <3>1. \/ EndsNumber(c) /\ LexFraction(l, c) = EmitNumber(l, c)
          \/ c \in {"e", "E"} /\ ~EndsNumber(c) /\ LexFraction(l, c) = Go(22, rcs_catc(l.text, c))
          \/ c \in Digit /\ ~EndsNumber(c) /\ LexFraction(l, c) = Go(21, rcs_catc(l.text, c))
          \/ c \notin {"e", "E"} /\ c \notin Digit /\ ~EndsNumber(c) /\ LexFraction(l, c) = InvalidCharacter(l)
      BY DEF LexFraction, GoOn, EndsNumber, Digit, Space
    <3>2. LexFraction(l, c) = LexChar(l, c)
      BY <2>1, <2>4
    <3>3. c \in {"e", "E"} => NumberGoes(l.state, c, 22) /\ 22 \in InNumber
      BY <2>4 DEF NumberGoes, InNumber
    <3>4. c \in Digit => NumberGoes(l.state, c, 21) /\ 21 \in InNumber
      BY <2>4 DEF NumberGoes, InNumber
    <3>5. c \notin {"e", "E"} /\ c \notin Digit => \A n \in InNumber : ~NumberGoes(l.state, c, n)
      BY <2>4 DEF NumberGoes
    <3>6. QED
      BY <2>4, <3>1, <3>2, <3>3, <3>4, <3>5 DEF MayEnd
  <2>5. CASE l.state = 24
    <3>1. \/ EndsNumber(c) /\ LexExponent(l, c) = EmitNumber(l, c)
          \/ c \in Digit /\ ~EndsNumber(c) /\ LexExponent(l, c) = Go(24, rcs_catc(l.text, c))
          \/ c \notin Digit /\ ~EndsNumber(c) /\ LexExponent(l, c) = InvalidCharacter(l)
      BY DEF LexExponent, GoOn, EndsNumber, Digit, Space
    <3>2. LexExponent(l, c) = LexChar(l, c)
      BY <2>1, <2>5
    <3>3. c \in Digit => NumberGoes(l.state, c, 24) /\ 24 \in InNumber
      BY <2>5 DEF NumberGoes, InNumber
    <3>4. c \notin Digit => \A n \in InNumber : ~NumberGoes(l.state, c, n)
      BY <2>5 DEF NumberGoes
    <3>5. QED
      BY <2>5, <3>1, <3>2, <3>3, <3>4 DEF MayEnd
  <2>6. QED
    BY <1>3, <2>2, <2>3, <2>4, <2>5 DEF MayEnd
<1>4. QED
  BY <1>1, <1>2, <1>3 DEF MayEnd

-----------------------------------------------------------------------------
(* What a step of the lexer and its caller is *)

\* A character that leads to another state.
LEMMA TakesGo ==
  ASSUME NEW c, LexTakes(c), NEW n, NEW t, LexChar(lex, c) = Go(n, t)
  PROVE  lexVerdict' = "OK" /\ tokens' = <<>> /\ lex' = [state |-> n, text |-> t]
<1>1. Go(n, t).used = TRUE /\ Go(n, t).token = "none" /\ Go(n, t).state = n /\ Go(n, t).text = t
  BY DEF Go
<1>2. Lexed(Go(n, t)) = [state |-> n, text |-> t]
  BY <1>1 DEF Lexed
<1>3. QED
  BY <1>1, <1>2 DEF LexTakes

\* A delimiter is one of six tokens.
LEMMA TokenNames ==
  ASSUME NEW c, c \in Structural
  PROVE  TokenOf(c) \in {"BEGIN_OBJECT", "END_OBJECT", "BEGIN_ARRAY", "END_ARRAY", "NAME_SEPARATOR", "VALUE_SEPARATOR"}
BY DEF TokenOf, Structural

\* A token as its caller has it.
Took(k, text) == [token |-> k, text |-> text]

\* A character that completes a token.
LEMMA TakesToken ==
  ASSUME NEW c, LexTakes(c), NEW k, NEW t, LexChar(lex, c) = Emit(k, t), k \notin {"none", "INVALID"},
         k \in {"STRING", "NUMBER"} \/ t = NULL
  PROVE  LexIdles /\ (k \notin {"STRING", "NUMBER"} => tokens' = <<Took(k, <<>>)>>)
<1>1. /\ Emit(k, t).used = TRUE /\ Emit(k, t).token = k /\ Emit(k, t).state = 0 /\ Emit(k, t).text = t
  BY DEF Emit
<1>2. Lexed(Emit(k, t)) = [state |-> 0, text |-> NULL]
  BY <1>1 DEF Lexed
<1>3. k \notin {"STRING", "NUMBER"} => Token(Emit(k, t)) = Took(k, <<>>)
  BY <1>1 DEF Token, Took
<1>4. lexVerdict' = "OK" /\ lex' = Lexed(Emit(k, t)) /\ tokens' = <<Token(Emit(k, t))>>
  BY <1>1 DEF LexTakes
<1>5. QED
  BY <1>2, <1>3, <1>4 DEF LexIdles

\* A character that ends a number: white space is used up, another is a token of the next call.
LEMMA TakesEnd ==
  ASSUME NEW c, LexTakes(c), EndsNumber(c), LexChar(lex, c) = EmitNumber(lex, c)
  PROVE  /\ LexIdles
         /\ tokens' = IF c \in Space THEN <<Took("NUMBER", lex.text.text)>>
                      ELSE <<Took("NUMBER", lex.text.text), Took(TokenOf(c), <<>>)>>
<1> DEFINE first == EmitNumber(lex, c)
           left  == [state |-> 0, text |-> NULL]
<1>1. first.used = (c \in Space) /\ first.token = "NUMBER" /\ first.state = 0 /\ first.text = lex.text
  BY DEF EmitNumber, Emit
<1>2. Lexed(first) = left /\ Token(first) = Took("NUMBER", lex.text.text)
  BY <1>1 DEF Lexed, Token, Took, rcs_unwrap
<1>3. CASE c \in Space
  BY <1>1, <1>2, <1>3 DEF LexTakes, LexIdles
<1>4. CASE c \notin Space
  <2>1. c \in Structural
    BY <1>4 DEF EndsNumber, Structural
  <2>2. LexChar(left, c) = Emit(TokenOf(c), NULL)
    <3>1. left.state = 0 /\ left.text = NULL
      OBVIOUS
    <3> HIDE DEF left
    <3>3. LexChar(left, c) = LexRoot(left, c)
      BY <3>1 DEF LexChar
    <3>4. LexRoot(left, c) = Emit(TokenOf(c), left.text)
      BY <2>1 DEF LexRoot, Space, Structural, Digit
    <3>5. QED
      BY <3>1, <3>3, <3>4
  <2>3. TokenOf(c) \notin {"STRING", "NUMBER"}
    BY <2>1, TokenNames
  <2>4. /\ Lexed(Emit(TokenOf(c), NULL)) = left
        /\ Token(Emit(TokenOf(c), NULL)) = Took(TokenOf(c), <<>>)
    BY <2>3 DEF Lexed, Emit, Token, Took
  <2>5. QED
    BY <1>1, <1>2, <1>4, <2>2, <2>4 DEF LexTakes, LexIdles
<1>5. QED
  BY <1>3, <1>4

\* A character that is refused.
LEMMA TakesInvalid ==
  ASSUME LexTyped, NEW c, LexTakes(c), LexChar(lex, c) = InvalidCharacter(lex)
  PROVE  LexRefuses /\ tokens' = <<>>
<1>1. /\ InvalidCharacter(lex).used = TRUE /\ InvalidCharacter(lex).token = "INVALID"
      /\ InvalidCharacter(lex).state = lex.state /\ InvalidCharacter(lex).text = lex.text
  BY DEF InvalidCharacter
<1>2. Lexed(InvalidCharacter(lex)) = lex
  BY <1>1 DEF Lexed, LexTyped
<1>3. QED
  BY <1>1, <1>2 DEF LexTakes, LexRefuses

\* One character, whatever it is.
LEMMA LexStep ==
  ASSUME LexTyped, NEW c, LexTakes(c)
  PROVE  LexRefuses \/ LexIdles \/ LexSpells \/ LexOpens \/ LexBegins(c) \/ LexGoes(c)
<1>1. CASE lex.state = 0
  <2>0. lex.text = NULL
    BY <1>1 DEF LexTyped, InString, InNumber
  <2>1. CASE c \in Structural /\ LexChar(lex, c) = Emit(TokenOf(c), lex.text)
    BY <2>0, <2>1, TokenNames, TakesToken
  <2>2. CASE LexChar(lex, c) = Go(0, lex.text)
    BY <2>0, <2>2, TakesGo DEF LexIdles
  <2>3. CASE LexChar(lex, c) = Go(1, rcs_create(RSTRING_DEFAULT))
    BY <2>3, TakesGo DEF LexOpens
  <2>4. CASE LexChar(lex, c) = Go(7, lex.text) \/ LexChar(lex, c) = Go(10, lex.text) \/ LexChar(lex, c) = Go(14, lex.text)
    <3>1. PICK n \in {7, 10, 14} : LexChar(lex, c) = Go(n, lex.text)
      BY <2>4
    <3>2. n \in 7..16
      OBVIOUS
    <3>3. QED
      BY <2>0, <3>1, <3>2, TakesGo DEF LexSpells
  <2>5. ASSUME NEW n \in {17, 18, 19}, NumberBegins(c, n), LexChar(lex, c) = Go(n, Begin(c))
        PROVE  LexBegins(c)
    BY <2>5, TakesGo DEF LexBegins
  <2>6. /\ c = "-" => NumberBegins(c, 17)
        /\ c = "0" => NumberBegins(c, 18)
        /\ c \in Digit \ {"0"} => NumberBegins(c, 19)
    BY DEF NumberBegins
  <2>7. CASE LexChar(lex, c) = InvalidCharacter(lex)
    BY <2>7, TakesInvalid
  <2>8. QED
    BY <1>1, <2>1, <2>2, <2>3, <2>4, <2>5, <2>6, <2>7, RootChar
<1>2. CASE lex.state \in InString
  BY <1>2, StringChar, TakesInvalid, TakesToken, TakesGo DEF LexGoes
<1>3. CASE lex.state \in 7..16
  <2>0. lex.text = NULL
    BY <1>3 DEF LexTyped, InString, InNumber
  <2>1. CASE lex.state \in {9, 13, 16} /\ LexChar(lex, c) = Emit(LiteralToken(lex.state), lex.text)
    <3>1. LiteralToken(lex.state) \in {"TRUE", "FALSE", "NULL"}
      BY <2>1 DEF LiteralToken
    <3>2. QED
      BY <2>0, <2>1, <3>1, TakesToken
  <2>2. CASE lex.state \notin {9, 13, 16} /\ LexChar(lex, c) = Go(lex.state + 1, lex.text)
    <3>1. lex.state + 1 \in 7..16
      BY <1>3, <2>2
    <3>2. QED
      BY <2>0, <2>2, <3>1, TakesGo DEF LexSpells
  <2>3. CASE LexChar(lex, c) = InvalidCharacter(lex)
    BY <2>3, TakesInvalid
  <2>4. QED
    BY <1>3, <2>1, <2>2, <2>3, LiteralChar
<1>4. CASE lex.state \in InNumber
  <2>1. CASE EndsNumber(c) /\ LexChar(lex, c) = EmitNumber(lex, c)
    BY <2>1, TakesEnd
  <2>2. CASE LexChar(lex, c) = InvalidCharacter(lex)
    BY <2>2, TakesInvalid
  <2>3. ASSUME NEW n \in InNumber, NumberGoes(lex.state, c, n), LexChar(lex, c) = Go(n, rcs_catc(lex.text, c))
        PROVE  LexGoes(c)
    BY <2>3, TakesGo DEF LexGoes
  <2>4. QED
    BY <1>4, <2>1, <2>2, <2>3, NumberChar
<1>5. QED
  BY <1>1, <1>2, <1>3, <1>4 DEF LexTyped, InString, InNumber

\* The lexer's state and text stay what they are for each other.
LEMMA LexTypedStep ==
  ASSUME LexTyped, NEW c \in ReaderChars,
         LexRefuses \/ LexIdles \/ LexSpells \/ LexOpens \/ LexBegins(c) \/ LexGoes(c) \/ lex' = lex
  PROVE  LexTyped'
<1>1. CASE lex' = lex
  BY <1>1 DEF LexTyped
<1>2. CASE LexRefuses
  BY <1>1, <1>2 DEF LexRefuses
<1>3. CASE LexIdles
  BY <1>3 DEF LexIdles, LexTyped, InString, InNumber
<1>4. CASE LexSpells
  BY <1>4 DEF LexSpells, LexTyped, InString, InNumber
<1>5. CASE LexOpens
  BY <1>5, RcSizes, CreateKeeps DEF LexOpens, LexTyped, InString
<1>6. CASE LexBegins(c)
  BY <1>6, BeginKeeps DEF LexBegins, LexTyped, InNumber
<1>7. CASE LexGoes(c)
  <2>1. PICK n \in InString \cup InNumber :
          /\ StringGoes(lex.state, c, n) \/ NumberGoes(lex.state, c, n)
          /\ lex' = [state |-> n, text |-> rcs_catc(lex.text, c)]
    BY <1>7 DEF LexGoes
  <2>2. lex.state \in InString \cup InNumber
    <3>1. lex.state \in {1, 2, 6} \cup 3..5 \cup {17, 19, 18, 20, 21, 22, 23, 24}
      BY <2>1, Zenon DEF StringGoes, NumberGoes
    <3>2. QED
      BY <3>1 DEF InString, InNumber
  <2>3. HasRoom(lex.text)
    BY <2>2 DEF LexTyped
  <2>4. QED
    BY <2>1, <2>3, CatcKeeps DEF LexTyped, InString, InNumber
<1>8. QED
  BY <1>1, <1>2, <1>3, <1>4, <1>5, <1>6, <1>7

-----------------------------------------------------------------------------
(* Numbers *)

\* The parts of a number, by their places in the text.
SignAt(t, i)    == i = 1 => t[1] = "-"
IntAt(t, i, j)  == i < j /\ (\A x \in i + 1 .. j : t[x] \in Digit) /\ (t[i + 1] = "0" => j = i + 1)
FracAt(t, j, k) == j = k \/ (j + 1 < k /\ t[j + 1] = "." /\ \A x \in j + 2 .. k : t[x] \in Digit)
ExpAt(t, k, n)  == \/ k = n
                   \/ /\ t[k + 1] \in {"e", "E"}
                      /\ \E p \in {2, 3} : /\ k + p =< n
                                           /\ p = 3 => t[k + 2] \in {"+", "-"}
                                           /\ \A x \in k + p .. n : t[x] \in Digit

NumberAt(t) ==
  \E i \in 0..1, j, k \in 0..Len(t) :
    i =< j /\ j =< k /\ SignAt(t, i) /\ IntAt(t, i, j) /\ FracAt(t, j, k) /\ ExpAt(t, k, Len(t))

\* A part of a text.
LEMMA PartOf ==
  ASSUME NEW S, NEW t \in Seq(S), NEW a \in Nat, NEW b \in Nat, a =< b, b =< Len(t)
  PROVE  /\ Len(SubSeq(t, a + 1, b)) = b - a
         /\ DOMAIN SubSeq(t, a + 1, b) = 1 .. b - a
         /\ \A x \in 1 .. b - a : SubSeq(t, a + 1, b)[x] = t[a + x]
         /\ SubSeq(t, a + 1, b) = <<>> <=> a = b
<1>1. \A x \in a + 1 .. b : t[x] \in S
  OBVIOUS
<1>2. SubSeq(t, a + 1, b) \in Seq(S)
  BY <1>1
<1>3. Len(SubSeq(t, a + 1, b)) = b - a
  OBVIOUS
<1>4. \A x \in 1 .. b - a : SubSeq(t, a + 1, b)[x] = t[a + x]
  OBVIOUS
<1>5. SubSeq(t, a + 1, b) = <<>> <=> Len(SubSeq(t, a + 1, b)) = 0
  BY <1>2
<1>6. DOMAIN SubSeq(t, a + 1, b) = 1 .. Len(SubSeq(t, a + 1, b))
  BY <1>2
<1>7. QED
  BY <1>3, <1>4, <1>5, <1>6

\* The integer part of a text.
LEMMA IntPart ==
  ASSUME NEW S, NEW t \in Seq(S), NEW i \in Nat, NEW j \in Nat, i =< j, j =< Len(t)
  PROVE  IsInt(SubSeq(t, i + 1, j)) <=> IntAt(t, i, j)
<1> DEFINE p == SubSeq(t, i + 1, j)
<1>1. /\ Len(p) = j - i /\ DOMAIN p = 1 .. j - i
      /\ \A x \in 1 .. j - i : p[x] = t[i + x]
      /\ p = <<>> <=> i = j
  BY PartOf
<1> HIDE DEF p
<1>2. (\A x \in DOMAIN p : p[x] \in Digit) <=> (\A x \in i + 1 .. j : t[x] \in Digit)
  <2>1. ASSUME \A x \in DOMAIN p : p[x] \in Digit, NEW x \in i + 1 .. j
        PROVE  t[x] \in Digit
    <3>1. x - i \in 1 .. j - i /\ i + (x - i) = x
      OBVIOUS
    <3>2. QED
      BY <1>1, <2>1, <3>1
  <2>2. ASSUME \A x \in i + 1 .. j : t[x] \in Digit, NEW x \in DOMAIN p
        PROVE  p[x] \in Digit
    <3>1. x \in 1 .. j - i /\ i + x \in i + 1 .. j
      BY <1>1
    <3>2. QED
      BY <1>1, <2>2, <3>1
  <2>3. QED
    BY <2>1, <2>2
<1>3. p # <<>> => p[1] = t[i + 1]
  BY <1>1
<1>4. IsInt(p) <=> IntAt(t, i, j)
  BY <1>1, <1>2, <1>3 DEF IsInt, IntAt
<1>5. QED
  BY <1>4 DEF p

\* Its fraction.
LEMMA FracPart ==
  ASSUME NEW S, NEW t \in Seq(S), NEW j \in Nat, NEW k \in Nat, j =< k, k =< Len(t)
  PROVE  IsFrac(SubSeq(t, j + 1, k)) <=> FracAt(t, j, k)
<1> DEFINE p == SubSeq(t, j + 1, k)
<1>1. /\ Len(p) = k - j
      /\ \A x \in 1 .. k - j : p[x] = t[j + x]
      /\ p = <<>> <=> j = k
  BY PartOf
<1> HIDE DEF p
<1>2. (\A x \in 2 .. Len(p) : p[x] \in Digit) <=> (\A x \in j + 2 .. k : t[x] \in Digit)
  <2>1. ASSUME \A x \in 2 .. Len(p) : p[x] \in Digit, NEW x \in j + 2 .. k
        PROVE  t[x] \in Digit
    <3>1. x - j \in 2 .. k - j /\ x - j \in 1 .. k - j /\ j + (x - j) = x
      OBVIOUS
    <3>2. QED
      BY <1>1, <2>1, <3>1
  <2>2. ASSUME \A x \in j + 2 .. k : t[x] \in Digit, NEW x \in 2 .. Len(p)
        PROVE  p[x] \in Digit
    <3>1. x \in 1 .. k - j /\ j + x \in j + 2 .. k
      BY <1>1
    <3>2. QED
      BY <1>1, <2>2, <3>1
  <2>3. QED
    BY <2>1, <2>2
<1>3. Len(p) > 1 => p[1] = t[j + 1]
  BY <1>1
<1>4. IsFrac(p) <=> FracAt(t, j, k)
  BY <1>1, <1>2, <1>3 DEF IsFrac, FracAt
<1>5. QED
  BY <1>4 DEF p

\* Its exponent.
LEMMA ExpPart ==
  ASSUME NEW S, NEW t \in Seq(S), NEW k \in Nat, k =< Len(t)
  PROVE  IsExp(SubSeq(t, k + 1, Len(t))) <=> ExpAt(t, k, Len(t))
<1> DEFINE n == Len(t)
           p == SubSeq(t, k + 1, n)
<1>0. n \in Nat /\ n =< Len(t)
  OBVIOUS
<1>1. /\ Len(p) = n - k
      /\ \A x \in 1 .. n - k : p[x] = t[k + x]
      /\ p = <<>> <=> k = n
  <2> HIDE DEF n
  <2>1. k =< n
    BY DEF n
  <2>2. QED
    BY <1>0, <2>1, PartOf
<1> HIDE DEF p, n
<1>2. \A q \in {2, 3} : (\A x \in q .. Len(p) : p[x] \in Digit) <=> (\A x \in k + q .. n : t[x] \in Digit)
  <2> TAKE q \in {2, 3}
  <2>1. ASSUME \A x \in q .. Len(p) : p[x] \in Digit, NEW x \in k + q .. n
        PROVE  t[x] \in Digit
    <3>1. x - k \in q .. n - k /\ x - k \in 1 .. n - k /\ k + (x - k) = x
      BY <1>0
    <3>2. QED
      BY <1>1, <2>1, <3>1
  <2>2. ASSUME \A x \in k + q .. n : t[x] \in Digit, NEW x \in q .. Len(p)
        PROVE  p[x] \in Digit
    <3>1. x \in 1 .. n - k /\ k + x \in k + q .. n
      BY <1>0, <1>1
    <3>2. QED
      BY <1>1, <2>2, <3>1
  <2>3. QED
    BY <2>1, <2>2
<1>3. \A q \in {2, 3} : q =< Len(p) <=> k + q =< n
  BY <1>0, <1>1
<1>4. \A q \in {2, 3} : q =< Len(p) => p[1] = t[k + 1] /\ p[2] = t[k + 2]
  BY <1>0, <1>1
<1>5. \A q \in {2, 3} :
        /\ p[1] \in {"e", "E"} /\ q =< Len(p) /\ (q = 3 => p[2] \in {"+", "-"}) /\ \A x \in q .. Len(p) : p[x] \in Digit
        <=>
        /\ t[k + 1] \in {"e", "E"} /\ k + q =< n /\ (q = 3 => t[k + 2] \in {"+", "-"}) /\ \A x \in k + q .. n : t[x] \in Digit
  BY <1>2, <1>3, <1>4, Zenon
<1>6. IsExp(p) <=> ExpAt(t, k, n)
  BY <1>1, <1>5, Zenon DEF IsExp, ExpAt
<1>7. QED
  BY <1>6 DEF p, n

\* A number is what its places say.
LEMMA NumberParts ==
  ASSUME NEW S, NEW t \in Seq(S)
  PROVE  IsNumber(t) <=> NumberAt(t)
<1>1. \A i \in 0..1, j, k \in 0..Len(t) :
        i =< j /\ j =< k =>
          /\ IsInt(SubSeq(t, i + 1, j)) <=> IntAt(t, i, j)
          /\ IsFrac(SubSeq(t, j + 1, k)) <=> FracAt(t, j, k)
          /\ IsExp(SubSeq(t, k + 1, Len(t))) <=> ExpAt(t, k, Len(t))
  BY IntPart, FracPart, ExpPart
<1>2. QED
  BY <1>1 DEF IsNumber, NumberAt, SignAt

\* A number ends with a digit.
LEMMA NumberEndsWithDigit ==
  ASSUME NEW S, NEW t \in Seq(S), NumberAt(t)
  PROVE  Len(t) > 0 /\ t[Len(t)] \in Digit
<1>1. PICK i \in 0..1, j \in 0..Len(t), k \in 0..Len(t) :
        i =< j /\ j =< k /\ IntAt(t, i, j) /\ FracAt(t, j, k) /\ ExpAt(t, k, Len(t))
  BY DEF NumberAt
<1>2. CASE k = Len(t) /\ j = k
  BY <1>1, <1>2 DEF IntAt
<1>3. CASE k = Len(t) /\ j # k
  BY <1>1, <1>3 DEF FracAt
<1>4. CASE k # Len(t)
  <2>1. PICK p \in {2, 3} : k + p =< Len(t) /\ \A x \in k + p .. Len(t) : t[x] \in Digit
    BY <1>1, <1>4 DEF ExpAt
  <2>2. QED
    BY <2>1
<1>5. QED
  BY <1>2, <1>3, <1>4

\* What the text of a number is so far.
NumberSoFar(s, t) ==
  LET n == Len(t) IN
  /\ s = 17 => n = 1 /\ t[n] = "-"
  /\ s = 18 => \E i \in 0..1 : SignAt(t, i) /\ n = i + 1 /\ t[n] = "0"
  /\ s = 19 => \E i \in 0..1 : SignAt(t, i) /\ IntAt(t, i, n) /\ t[i + 1] # "0"
  /\ s = 20 => \E i \in 0..1, j \in 0..n :
                 SignAt(t, i) /\ IntAt(t, i, j) /\ n = j + 1 /\ t[n] = "."
  /\ s = 21 => \E i \in 0..1, j \in 0..n :
                 SignAt(t, i) /\ IntAt(t, i, j) /\ FracAt(t, j, n) /\ j < n
  /\ s = 22 => \E i \in 0..1, j, k \in 0..n :
                 j =< k /\ SignAt(t, i) /\ IntAt(t, i, j) /\ FracAt(t, j, k) /\ n = k + 1 /\ t[n] \in {"e", "E"}
  /\ s = 23 => \E i \in 0..1, j, k \in 0..n :
                 /\ j =< k /\ SignAt(t, i) /\ IntAt(t, i, j) /\ FracAt(t, j, k)
                 /\ n = k + 2 /\ t[k + 1] \in {"e", "E"} /\ t[n] \in {"+", "-"}
  /\ s = 24 => \E i \in 0..1, j, k \in 0..n :
                 j =< k /\ SignAt(t, i) /\ IntAt(t, i, j) /\ FracAt(t, j, k) /\ ExpAt(t, k, n) /\ k < n

\* A text is a number just when the lexer may end it.
LEMMA NumberSoFarIsNumber ==
  ASSUME NEW S, NEW t \in Seq(S), NEW s \in InNumber, NumberSoFar(s, t)
  PROVE  IsNumber(t) <=> s \in MayEnd
<1>1. Len(t) \in Nat
  OBVIOUS
<1>2. CASE s = 17
  BY <1>1, <1>2, NumberEndsWithDigit, NumberParts DEF NumberSoFar, MayEnd, Digit
<1>3. CASE s = 20
  BY <1>1, <1>3, NumberEndsWithDigit, NumberParts DEF NumberSoFar, MayEnd, Digit
<1>4. CASE s = 22
  BY <1>1, <1>4, NumberEndsWithDigit, NumberParts DEF NumberSoFar, MayEnd, Digit
<1>5. CASE s = 23
  BY <1>1, <1>5, NumberEndsWithDigit, NumberParts DEF NumberSoFar, MayEnd, Digit
<1>6. ASSUME NEW i \in 0..1, NEW j \in 0..Len(t), NEW k \in 0..Len(t),
             j =< k, SignAt(t, i), IntAt(t, i, j), FracAt(t, j, k), ExpAt(t, k, Len(t))
      PROVE  IsNumber(t)
  <2>1. i =< j
    BY <1>6 DEF IntAt
  <2>2. NumberAt(t)
    BY <1>6, <2>1 DEF NumberAt
  <2>3. QED
    BY <2>2, NumberParts
<1>7. Len(t) \in 0..Len(t) /\ FracAt(t, Len(t), Len(t)) /\ ExpAt(t, Len(t), Len(t))
  BY <1>1 DEF FracAt, ExpAt
<1>8. CASE s = 18
  <2>1. PICK i \in 0..1 : SignAt(t, i) /\ Len(t) = i + 1 /\ t[Len(t)] = "0"
    BY <1>8 DEF NumberSoFar
  <2>2. IntAt(t, i, Len(t))
    BY <2>1 DEF IntAt, Digit
  <2>3. QED
    BY <1>6, <1>7, <1>8, <2>1, <2>2 DEF MayEnd
<1>9. CASE s = 19
  <2>1. PICK i \in 0..1 : SignAt(t, i) /\ IntAt(t, i, Len(t))
    BY <1>9 DEF NumberSoFar
  <2>2. QED
    BY <1>6, <1>7, <1>9, <2>1 DEF MayEnd
<1>10. CASE s = 21
  <2>1. PICK i \in 0..1, j \in 0..Len(t) : SignAt(t, i) /\ IntAt(t, i, j) /\ FracAt(t, j, Len(t)) /\ j < Len(t)
    BY <1>10 DEF NumberSoFar
  <2>2. QED
    BY <1>6, <1>7, <1>10, <2>1 DEF MayEnd
<1>11. CASE s = 24
  <2>1. PICK i \in 0..1, j \in 0..Len(t), k \in 0..Len(t) :
          j =< k /\ SignAt(t, i) /\ IntAt(t, i, j) /\ FracAt(t, j, k) /\ ExpAt(t, k, Len(t))
    BY <1>11 DEF NumberSoFar
  <2>2. QED
    BY <1>6, <1>11, <2>1 DEF MayEnd
<1>12. QED
  BY <1>2, <1>3, <1>4, <1>5, <1>8, <1>9, <1>10, <1>11 DEF InNumber

\* The parts that are there stay when a character is added.
LEMMA PartsStay ==
  ASSUME NEW S, NEW t \in Seq(S), NEW c \in S, NEW i \in 0..1, NEW j \in 0..Len(t)
  PROVE  /\ IntAt(t, i, j) => IntAt(Append(t, c), i, j)
         /\ IntAt(t, i, j) /\ SignAt(t, i) => SignAt(Append(t, c), i)
         /\ \A k \in 0..Len(t) : FracAt(t, j, k) => FracAt(Append(t, c), j, k)
<1> DEFINE u == Append(t, c)
           n == Len(t)
<1>1. n \in Nat /\ \A x \in 1..n : u[x] = t[x]
  OBVIOUS
<1> HIDE DEF u, n
<1>2. i \in 0..1 /\ j \in 0..n
  BY DEF n
<1>3. IntAt(t, i, j) => IntAt(u, i, j)
  BY <1>1, <1>2 DEF IntAt
<1>4. IntAt(t, i, j) /\ SignAt(t, i) => SignAt(u, i)
  BY <1>1, <1>2 DEF IntAt, SignAt
<1>5. \A k \in 0..n : FracAt(t, j, k) => FracAt(u, j, k)
  BY <1>1, <1>2 DEF FracAt
<1>6. QED
  BY <1>3, <1>4, <1>5 DEF u, n

\* The automaton keeps to it, character by character.
LEMMA NumberGrows ==
  ASSUME NEW S, NEW t \in Seq(S), NEW c \in S, NEW s, NEW m, NumberSoFar(s, t), NumberGoes(s, c, m)
  PROVE  NumberSoFar(m, Append(t, c))
<1> DEFINE u == Append(t, c)
           n == Len(t)
<1>1. /\ n \in Nat /\ Len(u) = n + 1 /\ u[n + 1] = c
      /\ \A x \in 1..n : u[x] = t[x]
  OBVIOUS
<1>2. \A i \in 0..1, j \in 0..n :
        /\ IntAt(t, i, j) => IntAt(u, i, j)
        /\ IntAt(t, i, j) /\ SignAt(t, i) => SignAt(u, i)
        /\ \A k \in 0..n : FracAt(t, j, k) => FracAt(u, j, k)
  BY PartsStay
<1>3. n = Len(t)
  OBVIOUS
<1> HIDE DEF u, n
<1>4. CASE s = 17 /\ c = "0" /\ m = 18
  <2>1. n = 1 /\ u[1] = "-" /\ SignAt(u, 1) /\ Len(u) = 1 + 1 /\ u[Len(u)] = "0" /\ 1 \in 0..1
    BY <1>1, <1>3, <1>4 DEF NumberSoFar, SignAt
  <2>2. NumberSoFar(m, u)
    BY <1>4, <2>1 DEF NumberSoFar
  <2>3. QED
    BY <2>2 DEF u
<1>5. CASE s = 17 /\ c \in Digit \ {"0"} /\ m = 19
  <2>1. n = 1 /\ u[1] = "-" /\ SignAt(u, 1) /\ Len(u) = 2 /\ u[2] = c /\ 1 \in 0..1
    BY <1>1, <1>3, <1>5 DEF NumberSoFar, SignAt
  <2>2. \A x \in 1 + 1 .. 2 : x = 2
    OBVIOUS
  <2>3. IntAt(u, 1, Len(u)) /\ u[1 + 1] # "0"
    BY <1>5, <2>1, <2>2 DEF IntAt
  <2>4. NumberSoFar(m, u)
    BY <1>5, <2>1, <2>3 DEF NumberSoFar
  <2>5. QED
    BY <2>4 DEF u
<1>6. CASE s = 19 /\ c \in Digit /\ m = 19
  <2>1. PICK i \in 0..1 : SignAt(t, i) /\ IntAt(t, i, n) /\ t[i + 1] # "0"
    BY <1>3, <1>6 DEF NumberSoFar
  <2>2. i < n /\ \A x \in i + 1 .. n : t[x] \in Digit
    BY <2>1 DEF IntAt
  <2>3. u[i + 1] # "0" /\ SignAt(u, i)
    BY <1>1, <1>2, <2>1, <2>2
  <2>4. \A x \in i + 1 .. n + 1 : u[x] \in Digit
    BY <1>1, <1>6, <2>2
  <2>5. IntAt(u, i, Len(u))
    BY <1>1, <2>2, <2>3, <2>4 DEF IntAt
  <2>6. NumberSoFar(m, u)
    BY <1>6, <2>3, <2>5 DEF NumberSoFar
  <2>7. QED
    BY <2>6 DEF u
<1>7. ASSUME s \in {18, 19, 21}
      PROVE  \E i \in 0..1, j \in 0..n :
               /\ SignAt(u, i) /\ IntAt(u, i, j) /\ FracAt(u, j, n)
               /\ s \in {18, 19} => j = n
               /\ s = 21 => j < n
  <2>1. FracAt(u, n, n) /\ n \in 0..n
    BY <1>1 DEF FracAt
  <2>2. CASE s = 18
    <3>1. PICK i \in 0..1 : SignAt(t, i) /\ n = i + 1 /\ t[n] = "0"
      BY <1>3, <2>2 DEF NumberSoFar
    <3>2. IntAt(t, i, n)
      BY <3>1 DEF IntAt, Digit
    <3>3. QED
      BY <1>2, <2>1, <2>2, <3>1, <3>2
  <2>3. CASE s = 19
    <3>1. PICK i \in 0..1 : SignAt(t, i) /\ IntAt(t, i, n)
      BY <1>3, <2>3 DEF NumberSoFar
    <3>2. QED
      BY <1>2, <2>1, <2>3, <3>1
  <2>4. CASE s = 21
    <3>1. PICK i \in 0..1, j \in 0..n : SignAt(t, i) /\ IntAt(t, i, j) /\ FracAt(t, j, n) /\ j < n
      BY <1>3, <2>4 DEF NumberSoFar
    <3>2. QED
      BY <1>2, <2>1, <2>4, <3>1
  <2>5. QED
    BY <1>7, <2>2, <2>3, <2>4
<1>8. CASE s \in {18, 19} /\ c = "." /\ m = 20
  <2>1. PICK i \in 0..1 : SignAt(u, i) /\ IntAt(u, i, n)
    BY <1>7, <1>8
  <2>2. n \in 0..Len(u) /\ Len(u) = n + 1 /\ u[Len(u)] = "."
    BY <1>1, <1>8
  <2>3. NumberSoFar(m, u)
    BY <1>8, <2>1, <2>2 DEF NumberSoFar
  <2>4. QED
    BY <2>3 DEF u
<1>9. CASE s \in {18, 19, 21} /\ c \in {"e", "E"} /\ m = 22
  <2>1. PICK i \in 0..1, j \in 0..n : SignAt(u, i) /\ IntAt(u, i, j) /\ FracAt(u, j, n)
    BY <1>7, <1>9
  <2>2. n \in 0..Len(u) /\ j \in 0..Len(u) /\ j =< n /\ Len(u) = n + 1 /\ u[Len(u)] \in {"e", "E"}
    BY <1>1, <1>9
  <2>3. NumberSoFar(m, u)
    BY <1>9, <2>1, <2>2 DEF NumberSoFar
  <2>4. QED
    BY <2>3 DEF u
<1>10. CASE s \in {20, 21} /\ c \in Digit /\ m = 21
  <2>1. ASSUME NEW i \in 0..1, NEW j \in 0..n, SignAt(t, i), IntAt(t, i, j), j < n, t[j + 1] = ".",
               \A x \in j + 2 .. n : t[x] \in Digit
        PROVE  NumberSoFar(m, u)
    <3>1. u[j + 1] = "." /\ j + 1 < n + 1
      BY <1>1, <2>1
    <3>2. \A x \in j + 2 .. n + 1 : u[x] \in Digit
      BY <1>1, <1>10, <2>1
    <3>3. FracAt(u, j, Len(u)) /\ j \in 0..Len(u) /\ j < Len(u)
      BY <1>1, <3>1, <3>2 DEF FracAt
    <3>4. QED
      BY <1>2, <1>10, <2>1, <3>3 DEF NumberSoFar
  <2>2. CASE s = 20
    <3>1. PICK i \in 0..1, j \in 0..n : SignAt(t, i) /\ IntAt(t, i, j) /\ n = j + 1 /\ t[n] = "."
      BY <1>3, <2>2 DEF NumberSoFar
    <3>2. \A x \in j + 2 .. n : t[x] \in Digit
      BY <1>1, <3>1
    <3>3. NumberSoFar(m, u)
      BY <1>1, <2>1, <3>1, <3>2
    <3>4. QED
      BY <3>3 DEF u
  <2>3. CASE s = 21
    <3>1. PICK i \in 0..1, j \in 0..n : SignAt(t, i) /\ IntAt(t, i, j) /\ FracAt(t, j, n) /\ j < n
      BY <1>3, <2>3 DEF NumberSoFar
    <3>2. t[j + 1] = "." /\ \A x \in j + 2 .. n : t[x] \in Digit
      BY <3>1 DEF FracAt
    <3>3. NumberSoFar(m, u)
      BY <2>1, <3>1, <3>2
    <3>4. QED
      BY <3>3 DEF u
  <2>4. QED
    BY <1>10, <2>2, <2>3
<1>11. CASE s = 22 /\ c \in {"+", "-"} /\ m = 23
  <2>1. PICK i \in 0..1, j \in 0..n, k \in 0..n :
          j =< k /\ SignAt(t, i) /\ IntAt(t, i, j) /\ FracAt(t, j, k) /\ n = k + 1 /\ t[n] \in {"e", "E"}
    BY <1>3, <1>11 DEF NumberSoFar
  <2>2. /\ Len(u) = k + 2 /\ u[k + 1] \in {"e", "E"} /\ u[Len(u)] \in {"+", "-"}
        /\ k \in 0..Len(u) /\ j \in 0..Len(u)
    BY <1>1, <1>11, <2>1
  <2>3. SignAt(u, i) /\ IntAt(u, i, j) /\ FracAt(u, j, k)
    BY <1>2, <2>1
  <2>4. NumberSoFar(m, u)
    BY <1>11, <2>1, <2>2, <2>3 DEF NumberSoFar
  <2>5. QED
    BY <2>4 DEF u
<1>12. CASE s \in {22, 23, 24} /\ c \in Digit /\ m = 24
  <2>1. ASSUME NEW i \in 0..1, NEW j \in 0..n, NEW k \in 0..n, j =< k,
               SignAt(t, i), IntAt(t, i, j), FracAt(t, j, k), k < n, t[k + 1] \in {"e", "E"},
               NEW p \in {2, 3}, k + p =< n + 1, p = 3 => t[k + 2] \in {"+", "-"},
               \A x \in k + p .. n : t[x] \in Digit
        PROVE  NumberSoFar(m, u)
    <3>1. /\ u[k + 1] \in {"e", "E"}
          /\ p = 3 => u[k + 2] \in {"+", "-"}
      BY <1>1, <2>1
    <3>2. \A x \in k + p .. n + 1 : u[x] \in Digit
      BY <1>1, <1>12, <2>1
    <3>3. ExpAt(u, k, Len(u))
      BY <1>1, <2>1, <3>1, <3>2 DEF ExpAt
    <3>4. k \in 0..Len(u) /\ j \in 0..Len(u) /\ k < Len(u)
      BY <1>1
    <3>5. SignAt(u, i) /\ IntAt(u, i, j) /\ FracAt(u, j, k)
      BY <1>2, <2>1
    <3>6. QED
      BY <1>12, <2>1, <3>3, <3>4, <3>5 DEF NumberSoFar
  <2>2. CASE s = 22
    <3>1. PICK i \in 0..1, j \in 0..n, k \in 0..n :
            j =< k /\ SignAt(t, i) /\ IntAt(t, i, j) /\ FracAt(t, j, k) /\ n = k + 1 /\ t[n] \in {"e", "E"}
      BY <1>3, <2>2 DEF NumberSoFar
    <3>2. \A x \in k + 2 .. n : t[x] \in Digit
      BY <3>1
    <3>3. NumberSoFar(m, u)
      BY <1>1, <2>1, <3>1, <3>2
    <3>4. QED
      BY <3>3 DEF u
  <2>3. CASE s = 23
    <3>1. PICK i \in 0..1, j \in 0..n, k \in 0..n :
            /\ j =< k /\ SignAt(t, i) /\ IntAt(t, i, j) /\ FracAt(t, j, k)
            /\ n = k + 2 /\ t[k + 1] \in {"e", "E"} /\ t[n] \in {"+", "-"}
      BY <1>3, <2>3 DEF NumberSoFar
    <3>2. \A x \in k + 3 .. n : t[x] \in Digit
      BY <3>1
    <3>3. NumberSoFar(m, u)
      BY <1>1, <2>1, <3>1, <3>2
    <3>4. QED
      BY <3>3 DEF u
  <2>4. CASE s = 24
    <3>1. PICK i \in 0..1, j \in 0..n, k \in 0..n :
            j =< k /\ SignAt(t, i) /\ IntAt(t, i, j) /\ FracAt(t, j, k) /\ ExpAt(t, k, n) /\ k < n
      BY <1>3, <2>4 DEF NumberSoFar
    <3>2. PICK p \in {2, 3} : k + p =< n /\ (p = 3 => t[k + 2] \in {"+", "-"}) /\ \A x \in k + p .. n : t[x] \in Digit
      BY <3>1 DEF ExpAt
    <3>3. t[k + 1] \in {"e", "E"} /\ k + p =< n + 1
      BY <1>1, <3>1, <3>2 DEF ExpAt
    <3>4. NumberSoFar(m, u)
      BY <2>1, <3>1, <3>2, <3>3
    <3>5. QED
      BY <3>4 DEF u
  <2>5. QED
    BY <1>12, <2>2, <2>3, <2>4
<1>13. QED
  BY <1>4, <1>5, <1>6, <1>8, <1>9, <1>10, <1>11, <1>12 DEF NumberGoes

\* A number begins with its first character.
LEMMA NumberStarts ==
  ASSUME NEW c, NEW m, NumberBegins(c, m)
  PROVE  NumberSoFar(m, <<c>>)
<1> DEFINE u == <<c>>
<1>1. Len(u) = 1 /\ u[1] = c
  OBVIOUS
<1> HIDE DEF u
<1>2. SignAt(u, 0) /\ 0 \in 0..1
  BY DEF SignAt
<1>3. c \in Digit \ {"0"} => IntAt(u, 0, 1) /\ u[0 + 1] # "0"
  BY <1>1 DEF IntAt
<1>4. NumberSoFar(m, u)
  BY <1>1, <1>2, <1>3 DEF NumberBegins, NumberSoFar
<1>5. QED
  BY <1>4 DEF u

-----------------------------------------------------------------------------
(* Strings *)

\* Where the escapes of a text begin: at a backslash that no escape holds.
Escaping(t, A) == \A i \in 1..Len(t) : i \in A <=> t[i] = "\\" /\ i - 1 \notin A

\* There is one way to see them.
TheMarks(t, A) ==
  /\ A \in SUBSET (1..Len(t)) /\ Escaping(t, A)
  /\ \A B \in SUBSET (1..Len(t)) : Escaping(t, B) => B = A

\* One character more begins an escape, or does not.
LEMMA MarksGrow ==
  ASSUME NEW S, NEW t \in Seq(S), NEW c \in S, NEW A, TheMarks(t, A)
  PROVE  TheMarks(Append(t, c), IF c = "\\" /\ Len(t) \notin A THEN A \cup {Len(t) + 1} ELSE A)
<1> DEFINE u == Append(t, c)
           n == Len(t)
           D == IF c = "\\" /\ n \notin A THEN A \cup {n + 1} ELSE A
<1>1. /\ n \in Nat /\ Len(u) = n + 1 /\ u[n + 1] = c
      /\ \A x \in 1..n : u[x] = t[x]
  OBVIOUS
<1>2. /\ A \in SUBSET (1..n)
      /\ \A i \in 1..n : i \in A <=> t[i] = "\\" /\ i - 1 \notin A
  BY DEF TheMarks, Escaping
<1>3. ASSUME NEW B \in SUBSET (1..n), \A i \in 1..n : i \in B <=> t[i] = "\\" /\ i - 1 \notin B
      PROVE  B = A
  BY <1>3 DEF TheMarks, Escaping
<1> HIDE DEF u, n
<1>4. n + 1 \in D <=> c = "\\" /\ n \notin A
  BY <1>1, <1>2
<1>5. \A i \in 0..n : i \in D <=> i \in A
  BY <1>1, <1>2
<1>6. D \in SUBSET (1 .. n + 1)
  BY <1>1, <1>2
<1> HIDE DEF D
<1>7. Escaping(u, D)
  <2> SUFFICES ASSUME NEW i \in 1 .. n + 1
               PROVE  i \in D <=> u[i] = "\\" /\ i - 1 \notin D
    BY <1>1 DEF Escaping
  <2>1. CASE i = n + 1
    <3>1. i - 1 = n /\ n \in 0..n
      BY <1>1, <2>1
    <3>2. QED
      BY <1>1, <1>4, <1>5, <2>1, <3>1
  <2>2. CASE i # n + 1
    <3>1. i \in 1..n /\ i \in 0..n /\ i - 1 \in 0..n
      BY <1>1, <2>2
    <3>2. QED
      BY <1>1, <1>2, <1>5, <3>1
  <2>3. QED
    BY <2>1, <2>2
<1>8. ASSUME NEW B \in SUBSET (1 .. n + 1), Escaping(u, B)
      PROVE  B = D
  <2> DEFINE E == B \ {n + 1}
  <2>1. \A i \in 1 .. n + 1 : i \in B <=> u[i] = "\\" /\ i - 1 \notin B
    BY <1>1, <1>8 DEF Escaping
  <2>2. E \in SUBSET (1..n) /\ \A i \in 0..n : i \in E <=> i \in B
    BY <1>1
  <2> HIDE DEF E
  <2>3. \A i \in 1..n : i \in E <=> t[i] = "\\" /\ i - 1 \notin E
    <3> TAKE i \in 1..n
    <3>1. i \in 1 .. n + 1 /\ i \in 0..n /\ i - 1 \in 0..n
      BY <1>1
    <3>2. QED
      BY <1>1, <2>1, <2>2, <3>1
  <2>4. E = A
    BY <1>3, <2>2, <2>3
  <2>5. \A i \in 0..n : i \in B <=> i \in D
    BY <1>5, <2>2, <2>4
  <2>6. n + 1 \in B <=> n + 1 \in D
    <3>1. n + 1 \in B <=> c = "\\" /\ n \notin B
      <4>1. n + 1 \in 1 .. n + 1 /\ (n + 1) - 1 = n
        BY <1>1
      <4>2. QED
        BY <1>1, <2>1, <4>1
    <3>2. n \in B <=> n \in A
      <4>1. n \in 0..n
        BY <1>1
      <4>2. QED
        BY <1>5, <2>5, <4>1
    <3>3. QED
      BY <1>4, <3>1, <3>2
  <2>7. \A i \in 1 .. n + 1 : i \in 0..n \/ i = n + 1
    BY <1>1
  <2>8. \A x : x \in B <=> x \in D
    BY <1>6, <2>5, <2>6, <2>7
  <2>9. QED
    BY <2>8
<1>9. TheMarks(u, D)
  BY <1>1, <1>6, <1>7, <1>8 DEF TheMarks
<1>10. QED
  BY <1>9 DEF u, n, D

\* The characters that end a string and that a backslash may stand before.
Quote(c) == c = "\""
Simple(c) == c \in {"\\", "\"", "/", "b", "f", "n", "r", "t"}

\* An escape that is complete.
CompleteEscape(t, i) == i < Len(t) /\ EscapeEnds(t, i) /\ (t[i + 1] = "u" => \A j \in i + 2 .. i + 5 : t[j] \in Hex)

\* Where the escape began that the state is in.
EscapeStart(s, n) == n - (s - 2)

\* What the text of a string is so far.
StringSoFar(s, t) ==
  \E A \in SUBSET (1..Len(t)) :
    /\ TheMarks(t, A)
    /\ \A i \in 1..Len(t) : Quote(t[i]) => i - 1 \in A
    /\ \A i \in A : CompleteEscape(t, i) \/ (s # 1 /\ i = EscapeStart(s, Len(t)))
    /\ s # 1 => /\ EscapeStart(s, Len(t)) \in A
                /\ s # 2 => t[EscapeStart(s, Len(t)) + 1] = "u"
                /\ \A j \in EscapeStart(s, Len(t)) + 2 .. Len(t) : t[j] \in Hex

\* A text has its escapes complete just when the lexer may end it.
LEMMA StringSoFarIsString ==
  ASSUME NEW S, NEW t \in Seq(S), NEW s \in InString, StringSoFar(s, t)
  PROVE  WholeEscapes(t) <=> s = 1
<1> DEFINE n == Len(t)
<1>0. n \in Nat /\ DOMAIN t = 1..n /\ s \in 1..6
  BY DEF InString
<1>1. PICK A \in SUBSET (1..n) :
        /\ TheMarks(t, A)
        /\ \A i \in 1..n : Quote(t[i]) => i - 1 \in A
        /\ \A i \in A : CompleteEscape(t, i) \/ (s # 1 /\ i = EscapeStart(s, n))
        /\ s # 1 => EscapeStart(s, n) \in A /\ (s # 2 => t[EscapeStart(s, n) + 1] = "u")
  BY DEF StringSoFar
<1>2. ASSUME s = 1 PROVE WholeEscapes(t)
  <2>1. \A i \in 1..n : i \in A <=> t[i] = "\\" /\ i - 1 \notin A
    BY <1>1 DEF TheMarks, Escaping
  <2>2. \A i \in A : i < Len(t) /\ EscapeEnds(t, i) /\ (t[i + 1] = "u" => \A j \in i + 2 .. i + 5 : t[j] \in Hex)
    BY <1>1, <1>2 DEF CompleteEscape
  <2>3. \A i \in DOMAIN t : t[i] = "\\" => i \in A \/ i - 1 \in A
    BY <1>0, <2>1
  <2>4. \A i \in A : i - 1 \notin A
    BY <2>1
  <2>5. \A i \in DOMAIN t : t[i] = "\"" => i - 1 \in A
    <3>1. \A i \in DOMAIN t : Quote(t[i]) => i - 1 \in A
      BY <1>0, <1>1
    <3>2. QED
      BY <3>1, Zenon DEF Quote
  <2>6. A \in SUBSET DOMAIN t
    BY <1>0
  <2> HIDE DEF n
  <2>7. QED
    BY <2>2, <2>3, <2>4, <2>5, <2>6, Zenon DEF WholeEscapes
<1>3. ASSUME WholeEscapes(t), s # 1 PROVE FALSE
  <2>1. PICK B \in SUBSET DOMAIN t :
          /\ \A i \in DOMAIN t : t[i] = "\\" => i \in B \/ i - 1 \in B
          /\ \A i \in B : i < Len(t) /\ EscapeEnds(t, i) /\ i - 1 \notin B
    BY <1>3 DEF WholeEscapes
  <2>2. Escaping(t, B)
    BY <1>0, <2>1 DEF Escaping, EscapeEnds
  <2>3. B = A
    BY <1>0, <1>1, <2>2 DEF TheMarks
  <2>4. /\ EscapeStart(s, n) < n
        /\ (IF t[EscapeStart(s, n) + 1] = "u" THEN EscapeStart(s, n) + 5 ELSE EscapeStart(s, n) + 1) =< n
        /\ s # 2 => t[EscapeStart(s, n) + 1] = "u"
    BY <1>1, <1>3, <2>1, <2>3 DEF EscapeEnds
  <2> HIDE DEF n
  <2>5. CASE s = 2
    BY <1>0, <2>4, <2>5 DEF EscapeStart
  <2>6. CASE s # 2
    BY <1>0, <1>3, <2>4, <2>6 DEF EscapeStart
  <2>7. QED
    BY <2>5, <2>6
<1>4. QED
  BY <1>2, <1>3

\* What is complete stays so.
LEMMA CompleteStays ==
  ASSUME NEW S, NEW t \in Seq(S), NEW c \in S, NEW i \in 1..Len(t), CompleteEscape(t, i)
  PROVE  CompleteEscape(Append(t, c), i)
<1> DEFINE u == Append(t, c)
           n == Len(t)
<1>1. n \in Nat /\ Len(u) = n + 1 /\ \A x \in 1..n : u[x] = t[x]
  OBVIOUS
<1>2. i \in 1..n /\ i < n /\ t[i] = "\\" /\ (IF t[i + 1] = "u" THEN i + 5 ELSE i + 1) =< n
      /\ (t[i + 1] = "u" => \A j \in i + 2 .. i + 5 : t[j] \in Hex)
  BY DEF CompleteEscape, EscapeEnds
<1> HIDE DEF u, n
<1>3. u[i] = "\\" /\ u[i + 1] = t[i + 1] /\ i < n + 1
  BY <1>1, <1>2
<1>4. CASE t[i + 1] = "u"
  <2>1. \A j \in i + 2 .. i + 5 : u[j] \in Hex
    BY <1>1, <1>2, <1>4
  <2>2. i + 5 =< n + 1
    BY <1>1, <1>2, <1>4
  <2>3. CompleteEscape(u, i)
    BY <1>1, <1>3, <1>4, <2>1, <2>2 DEF CompleteEscape, EscapeEnds
  <2>4. QED
    BY <2>3 DEF u
<1>5. CASE t[i + 1] # "u"
  <2>1. i + 1 =< n + 1
    BY <1>1, <1>2
  <2>2. CompleteEscape(u, i)
    BY <1>1, <1>3, <1>5, <2>1 DEF CompleteEscape, EscapeEnds
  <2>3. QED
    BY <2>2 DEF u
<1>6. QED
  BY <1>4, <1>5

\* The automaton keeps to it, character by character.
LEMMA StringGrows ==
  ASSUME NEW S, NEW t \in Seq(S), NEW c \in S, NEW s \in InString, NEW m, StringSoFar(s, t), StringGoes(s, c, m)
  PROVE  StringSoFar(m, Append(t, c))
<1> DEFINE u == Append(t, c)
           n == Len(t)
<1>1. /\ n \in Nat /\ Len(u) = n + 1 /\ u[n + 1] = c
      /\ \A x \in 1..n : u[x] = t[x]
      /\ s \in 1..6
  BY DEF InString
<1>2. PICK A \in SUBSET (1..n) :
        /\ TheMarks(t, A)
        /\ \A i \in 1..n : Quote(t[i]) => i - 1 \in A
        /\ \A i \in A : CompleteEscape(t, i) \/ (s # 1 /\ i = EscapeStart(s, n))
        /\ s # 1 => /\ EscapeStart(s, n) \in A
                    /\ s # 2 => t[EscapeStart(s, n) + 1] = "u"
                    /\ \A j \in EscapeStart(s, n) + 2 .. n : t[j] \in Hex
  BY DEF StringSoFar
<1>3. \A i \in A : CompleteEscape(t, i) => CompleteEscape(u, i)
  BY <1>2, CompleteStays
<1>4. TheMarks(u, IF c = "\\" /\ n \notin A THEN A \cup {n + 1} ELSE A)
  BY <1>2, MarksGrow
<1>5. \A i \in A : CompleteEscape(t, i) => i < n
  BY DEF CompleteEscape
<1> HIDE DEF u, n
<1>6. \A i \in 1..n : Quote(u[i]) => i - 1 \in A
  BY <1>1, <1>2
<1>7. CASE s = 1 /\ ~Quote(c) /\ c # "\\" /\ m = 1
  <2>1. TheMarks(u, A)
    BY <1>4, <1>7
  <2>2. A \in SUBSET (1..Len(u)) /\ \A i \in 1..Len(u) : Quote(u[i]) => i - 1 \in A
    BY <1>1, <1>6, <1>7
  <2>3. \A i \in A : CompleteEscape(u, i)
    BY <1>2, <1>3, <1>7
  <2>4. StringSoFar(m, u)
    BY <1>7, <2>1, <2>2, <2>3 DEF StringSoFar
  <2>5. QED
    BY <2>4 DEF u
<1>8. CASE s = 1 /\ c = "\\" /\ m = 2
  <2>1. n \notin A
    BY <1>1, <1>2, <1>5, <1>8
  <2>2. TheMarks(u, A \cup {n + 1})
    BY <1>4, <1>8, <2>1
  <2>0. ~Quote(c)
    BY <1>8, Zenon DEF Quote
  <2>3. A \cup {n + 1} \in SUBSET (1..Len(u)) /\ \A i \in 1..Len(u) : Quote(u[i]) => i - 1 \in A \cup {n + 1}
    BY <1>1, <1>6, <2>0
  <2>4. EscapeStart(m, Len(u)) = n + 1
    BY <1>1, <1>8 DEF EscapeStart
  <2>5. \A i \in A \cup {n + 1} : CompleteEscape(u, i) \/ (m # 1 /\ i = EscapeStart(m, Len(u)))
    BY <1>2, <1>3, <1>8, <2>4
  <2>6. \A j \in EscapeStart(m, Len(u)) + 2 .. Len(u) : FALSE
    BY <1>1, <2>4
  <2>7. StringSoFar(m, u)
    BY <1>8, <2>2, <2>3, <2>4, <2>5, <2>6 DEF StringSoFar
  <2>8. QED
    BY <2>7 DEF u
<1>9. CASE s = 2 /\ Simple(c) /\ m = 1
  <2>0. c # "u"
    BY <1>9, Zenon DEF Simple
  <2>1. EscapeStart(s, n) = n
    BY <1>1, <1>9 DEF EscapeStart
  <2>2. n \in A /\ t[n] = "\\"
    BY <1>2, <1>9, <2>1 DEF TheMarks, Escaping, n
  <2>3. TheMarks(u, A)
    BY <1>4, <2>2
  <2>4. A \in SUBSET (1..Len(u)) /\ \A i \in 1..Len(u) : Quote(u[i]) => i - 1 \in A
    BY <1>1, <1>6, <2>2
  <2>5. CompleteEscape(u, n)
    <3>1. u[n] = "\\" /\ u[n + 1] # "u" /\ n < Len(u) /\ n + 1 =< Len(u)
      BY <1>1, <1>2, <2>0, <2>2
    <3>2. QED
      BY <3>1 DEF CompleteEscape, EscapeEnds
  <2>6. \A i \in A : CompleteEscape(u, i)
    BY <1>2, <1>3, <2>1, <2>5
  <2>7. StringSoFar(m, u)
    BY <1>9, <2>3, <2>4, <2>6 DEF StringSoFar
  <2>8. QED
    BY <2>7 DEF u
<1>10. CASE s = 2 /\ c = "u" /\ m = 3
  <2>1. EscapeStart(s, n) = n /\ EscapeStart(m, Len(u)) = n
    BY <1>1, <1>10 DEF EscapeStart
  <2>2. n \in A
    BY <1>2, <1>10, <2>1
  <2>3. TheMarks(u, A)
    BY <1>4, <1>10
  <2>4. A \in SUBSET (1..Len(u)) /\ \A i \in 1..Len(u) : Quote(u[i]) => i - 1 \in A
    BY <1>1, <1>6, <2>2
  <2>5. \A i \in A : CompleteEscape(u, i) \/ (m # 1 /\ i = EscapeStart(m, Len(u)))
    BY <1>2, <1>3, <1>10, <2>1
  <2>6. u[n + 1] = "u" /\ \A j \in n + 2 .. Len(u) : FALSE
    BY <1>1, <1>10
  <2>7. StringSoFar(m, u)
    BY <1>10, <2>1, <2>2, <2>3, <2>4, <2>5, <2>6 DEF StringSoFar
  <2>8. QED
    BY <2>7 DEF u
<1>11. ASSUME s \in 3..6, c \in Hex
       PROVE  /\ TheMarks(u, A) /\ A \in SUBSET (1..Len(u))
              /\ \A i \in 1..Len(u) : Quote(u[i]) => i - 1 \in A
              /\ u[EscapeStart(s, n) + 1] = "u"
              /\ \A j \in EscapeStart(s, n) + 2 .. Len(u) : u[j] \in Hex
  <2>1. c # "\\" /\ ~Quote(c)
    BY <1>11, Zenon DEF Quote, Hex, Digit
  <2>2. EscapeStart(s, n) \in 1..n /\ EscapeStart(s, n) + 1 =< n
    BY <1>1, <1>2, <1>11 DEF EscapeStart
  <2>3. QED
    BY <1>1, <1>2, <1>4, <1>6, <1>11, <2>1, <2>2
<1>12. CASE s \in 3..5 /\ c \in Hex /\ m = s + 1
  <2>0. s \in 3..6 /\ s # 1 /\ s # 2 /\ m # 1 /\ m # 2
    BY <1>12
  <2>1. EscapeStart(m, Len(u)) = EscapeStart(s, n)
    BY <1>1, <1>12 DEF EscapeStart
  <2>2. \A i \in A : CompleteEscape(u, i) \/ (m # 1 /\ i = EscapeStart(m, Len(u)))
    BY <1>2, <1>3, <2>0, <2>1
  <2>3. EscapeStart(m, Len(u)) \in A /\ u[EscapeStart(m, Len(u)) + 1] = "u"
    BY <1>2, <1>11, <1>12, <2>0, <2>1
  <2>4. \A j \in EscapeStart(m, Len(u)) + 2 .. Len(u) : u[j] \in Hex
    BY <1>11, <1>12, <2>0, <2>1
  <2>5. TheMarks(u, A) /\ A \in SUBSET (1..Len(u)) /\ \A i \in 1..Len(u) : Quote(u[i]) => i - 1 \in A
    BY <1>11, <1>12, <2>0
  <2>6. StringSoFar(m, u)
    BY <2>0, <2>2, <2>3, <2>4, <2>5 DEF StringSoFar
  <2>7. QED
    BY <2>6 DEF u
<1>13. CASE s = 6 /\ c \in Hex /\ m = 1
  <2>1. s \in 3..6
    BY <1>13
  <2>2. EscapeStart(s, n) = n - 4 /\ EscapeStart(s, n) \in A /\ EscapeStart(s, n) \in 1..n
    BY <1>1, <1>2, <1>13 DEF EscapeStart
  <2>3. u[n - 4] = "\\"
    <3>1. \A i \in 1..n : i \in A => t[i] = "\\"
      BY <1>2 DEF TheMarks, Escaping, n
    <3>2. QED
      BY <1>1, <2>2, <3>1
  <2>4. u[(n - 4) + 1] = "u" /\ \A j \in (n - 4) + 2 .. n + 1 : u[j] \in Hex
    BY <1>1, <1>11, <1>13, <2>1, <2>2
  <2>5. CompleteEscape(u, n - 4)
    <3>1. n - 4 < Len(u) /\ (n - 4) + 5 =< Len(u) /\ (n - 4) + 5 = n + 1
      BY <1>1
    <3>2. QED
      BY <2>3, <2>4, <3>1 DEF CompleteEscape, EscapeEnds
  <2>6. \A i \in A : CompleteEscape(u, i)
    BY <1>2, <1>3, <2>2, <2>5
  <2>7. TheMarks(u, A) /\ A \in SUBSET (1..Len(u)) /\ \A i \in 1..Len(u) : Quote(u[i]) => i - 1 \in A
    BY <1>11, <1>13, <2>1
  <2>8. StringSoFar(m, u)
    BY <1>13, <2>6, <2>7 DEF StringSoFar
  <2>9. QED
    BY <2>8 DEF u
<1>14. QED
  BY <1>7, <1>8, <1>9, <1>10, <1>12, <1>13, Zenon DEF StringGoes, Quote, Simple

\* A string begins empty.
LEMMA StringStarts == StringSoFar(1, <<>>)
<1>1. Len(<<>>) = 0
  OBVIOUS
<1>2. \A i \in 1..0 : FALSE
  OBVIOUS
<1>3. SUBSET (1..0) = {{}}
  OBVIOUS
<1>4. TheMarks(<<>>, {})
  BY <1>1, <1>2, <1>3 DEF TheMarks, Escaping
<1>5. QED
  BY <1>1, <1>2, <1>4 DEF StringSoFar

-----------------------------------------------------------------------------
(* The tokens of the lexer *)

LexSound ==
  /\ LexTyped
  /\ lex.state \in InString => StringSoFar(lex.state, lex.text.text)
  /\ lex.state \in InNumber => NumberSoFar(lex.state, lex.text.text)

\* Without memory the text is not there, or freed.
LexInv ==
  /\ alphabet \in Alphabets
  /\ IF lexVerdict = "MEMORY" THEN lex.text \in {NULL, FREED} ELSE LexSound

\* What a step of the readers does with the lexer.
LEMMA LexerSteps ==
  ASSUME LexInv, [ReadersNext]_readers
  PROVE  /\ alphabet' = alphabet
         /\ \/ lex' = lex /\ lexVerdict' = lexVerdict
            \/ lexVerdict' = "MEMORY" /\ lex'.text \in {NULL, FREED}
            \/ LexSound /\ \E c \in ReaderChars : LexTakes(c)
<1>1. CASE ReadersNext
  <2>1. PICK c \in alphabet.chars : Feed(c)
    BY <1>1 DEF ReadersNext
  <2>2. c \in ReaderChars
    BY <2>1 DEF LexInv, ReaderChars
  <2>3. alphabet' = alphabet /\ ((lexVerdict = "OK" /\ (LexTakes(c) \/ LexRunsOut(c))) \/ LexStopped)
    BY <2>1 DEF Feed
  <2>4. ASSUME lexVerdict = "OK", LexRunsOut(c) PROVE lex'.text \in {NULL, FREED} /\ lexVerdict' = "MEMORY"
    <3>1. lex = [state |-> lex.state, text |-> lex.text]
      BY <2>4 DEF LexInv, LexSound, LexTyped
    <3>2. [lex EXCEPT !.text = FREED].text = FREED
      BY <3>1
    <3>3. QED
      BY <2>4, <3>2 DEF LexRunsOut
  <2>5. QED
    BY <2>2, <2>3, <2>4 DEF LexStopped, LexInv
<1>2. CASE UNCHANGED readers
  BY <1>2 DEF readers
<1>3. QED
  BY <1>1, <1>2

\* What a step of the lexer says.
LEMMA TakesVerdict ==
  ASSUME NEW c, LexTakes(c)
  PROVE  lexVerdict' # "MEMORY"
BY DEF LexTakes

\* The text in a state is that of the state, whatever the lexer is fed.
LEMMA LexInvStep ==
  ASSUME LexInv, [ReadersNext]_readers
  PROVE  LexInv'
<1>0. alphabet' \in Alphabets
  BY LexerSteps DEF LexInv
<1>1. ASSUME LexSound, lex' = lex PROVE LexSound'
  BY <1>1 DEF LexSound, LexTyped
<1>2. ASSUME NEW c \in ReaderChars, LexSound, LexTakes(c)
      PROVE  LexSound'
  <2>1. LexRefuses \/ LexIdles \/ LexSpells \/ LexOpens \/ LexBegins(c) \/ LexGoes(c)
    BY <1>2, LexStep DEF LexSound
  <2>2. LexTyped'
    BY <1>2, <2>1, LexTypedStep DEF LexSound
  <2>3. CASE LexRefuses
    BY <1>1, <1>2, <2>3 DEF LexRefuses
  <2>4. CASE LexIdles \/ LexSpells
    <3>1. lex'.state \notin InString \cup InNumber
      BY <2>4 DEF LexIdles, LexSpells, InString, InNumber
    <3>2. QED
      BY <1>2, <2>2, <3>1 DEF LexSound
  <2>5. CASE LexOpens
    <3>1. lex'.state = 1 /\ lex'.text.text = <<>>
      BY <2>5, RcSizes, CreateKeeps DEF LexOpens
    <3>2. QED
      BY <1>2, <2>2, <3>1, StringStarts DEF LexSound, InNumber
  <2>6. CASE LexBegins(c)
    <3>1. PICK n \in 17..19 : NumberBegins(c, n) /\ lex' = [state |-> n, text |-> Begin(c)]
      BY <2>6 DEF LexBegins
    <3>2. lex'.state = n /\ lex'.text.text = <<c>> /\ n \notin InString
      BY <3>1, BeginKeeps DEF InString
    <3>3. QED
      BY <1>2, <2>2, <3>1, <3>2, NumberStarts DEF LexSound
  <2>7. CASE LexGoes(c)
    <3>1. PICK n \in InString \cup InNumber :
            /\ StringGoes(lex.state, c, n) \/ NumberGoes(lex.state, c, n)
            /\ lex' = [state |-> n, text |-> rcs_catc(lex.text, c)]
      BY <2>7 DEF LexGoes
    <3>2. /\ StringGoes(lex.state, c, n) => lex.state \in InString /\ n \in InString
          /\ NumberGoes(lex.state, c, n) => lex.state \in InNumber /\ n \in InNumber
      <4>1. /\ StringGoes(lex.state, c, n) => lex.state \in {1, 2, 6} \cup 3..5 /\ n \in {1, 2, 3, lex.state + 1}
            /\ NumberGoes(lex.state, c, n) => lex.state \in {17, 18, 19, 20, 21, 22, 23, 24}
                                              /\ n \in {18, 19, 20, 21, 22, 23, 24}
        BY Zenon DEF StringGoes, NumberGoes
      <4>2. QED
        BY <3>1, <4>1 DEF InString, InNumber
    <3>3. InString \cap InNumber = {}
      BY DEF InString, InNumber
    <3>4. HasRoom(lex.text)
      BY <1>2, <3>1, <3>2 DEF LexSound, LexTyped
    <3>5. lex'.state = n /\ lex'.text.text = Append(lex.text.text, c) /\ lex.text.text \in Seq(ReaderChars)
      BY <3>1, <3>4, CatcKeeps DEF HasRoom
    <3>6. CASE StringGoes(lex.state, c, n)
      <4>1. StringSoFar(n, Append(lex.text.text, c)) /\ n \notin InNumber
        BY <1>2, <3>2, <3>3, <3>5, <3>6, StringGrows DEF LexSound
      <4>2. QED
        BY <1>2, <2>2, <3>5, <4>1 DEF LexSound
    <3>7. CASE NumberGoes(lex.state, c, n)
      <4>1. NumberSoFar(n, Append(lex.text.text, c)) /\ n \notin InString
        BY <1>2, <3>2, <3>3, <3>5, <3>7, NumberGrows DEF LexSound
      <4>2. QED
        BY <1>2, <2>2, <3>5, <4>1 DEF LexSound
    <3>8. QED
      BY <3>1, <3>6, <3>7
  <2>8. QED
    BY <2>1, <2>3, <2>4, <2>5, <2>6, <2>7
<1>3. CASE lex' = lex /\ lexVerdict' = lexVerdict
  BY <1>0, <1>1, <1>3 DEF LexInv
<1>4. CASE lexVerdict' = "MEMORY" /\ lex'.text \in {NULL, FREED}
  BY <1>0, <1>4 DEF LexInv
<1>5. ASSUME NEW c \in ReaderChars, LexSound, LexTakes(c)
      PROVE  LexInv'
  BY <1>0, <1>2, <1>5, TakesVerdict DEF LexInv
<1>6. QED
  BY <1>3, <1>4, <1>5, LexerSteps

\* Whatever is fed, and wherever it is cut: the lexer is ready to end a number
\* exactly when its text is one of RFC 4627, and a string exactly when its text
\* has every escape complete.
THEOREM TokensAreJsonCorrect == ReadersSpec => []TokensAreJson
<1>1. ReadersInit => LexInv
  BY DEF ReadersInit, LexInv, LexSound, LexTyped, NewLexer, InString, InNumber
<1>2. LexInv /\ [ReadersNext]_readers => LexInv'
  BY LexInvStep
<1>3. LexInv => TokensAreJson
  <2> SUFFICES ASSUME LexInv, lexVerdict = "OK"
               PROVE  TokensAreJson
    BY DEF TokensAreJson, NumbersAreJson, StringsAreClosed
  <2>0. LexSound
    BY DEF LexInv
  <2>1. lex.state \in InString \cup InNumber => lex.text.text \in Seq(ReaderChars)
    BY <2>0 DEF LexSound, LexTyped, HasRoom
  <2>2. NumbersAreJson
    <3>1. lex.state \in InNumber => (IsNumber(lex.text.text) <=> lex.state \in MayEnd)
      BY <2>0, <2>1, NumberSoFarIsNumber DEF LexSound
    <3>2. QED
      BY <3>1 DEF NumbersAreJson, InNumber, MayEnd
  <2>3. StringsAreClosed
    <3>1. lex.state \in InString => (WholeEscapes(lex.text.text) <=> lex.state = 1)
      BY <2>0, <2>1, StringSoFarIsString DEF LexSound
    <3>2. QED
      BY <3>1 DEF StringsAreClosed, InString
  <2>4. QED
    BY <2>2, <2>3 DEF TokensAreJson
<1>4. QED
  BY <1>1, <1>2, <1>3, PTL DEF ReadersSpec

-----------------------------------------------------------------------------
(* What a character does to the SAX parser *)

\* A status of it.
Status(s) == s = [state |-> s.state, limit |-> s.limit, temp |-> s.temp]

\* What it answers: a state and a text, a verdict, its calls.
Answer(n, limit, text, ret, made) == [state |-> n, limit |-> limit, temp |-> text, ret |-> ret, calls |-> made]

\* It goes on without a call, makes one, or gives up where it is.
Quietly(r, n, text) == \E limit : r = Answer(n, limit, text, "OK", <<>>)
Made(call, text)    == <<[call |-> call, text |-> text]>>
Calls(r, jsf1, n, text, call) ==
  \E limit : r = Answer(n, limit, text, "OK", IF call \in jsf1 THEN Made(call, <<>>) ELSE <<>>)
GivesUp(r, s) == \E ret : ret \notin {"OK", "MEMORY"} /\ r = Answer(s.state, s.limit, s.temp, ret, <<>>)

Outside == {0, 25, 26, 27}

\* A string that begins with a character.
Begun(room, c) == rcs_catc(rcs_create(room), c)

\* The state of the lexer when it is fed the same.
LexStateOf(s) ==
  IF s \in Outside THEN 0
  ELSE IF s \in 7..16 THEN s
  ELSE <<18, 20, 21, 22, 24, 23, 17, 19>>[s - 16]

\* The states of the parser as those of the lexer, one by one.
LEMMA LexStates ==
  /\ LexStateOf(0) = 0 /\ LexStateOf(25) = 0 /\ LexStateOf(26) = 0 /\ LexStateOf(27) = 0
  /\ \A s \in 7..16 : LexStateOf(s) = s
  /\ LexStateOf(17) = 18 /\ LexStateOf(18) = 20 /\ LexStateOf(19) = 21 /\ LexStateOf(20) = 22
  /\ LexStateOf(21) = 24 /\ LexStateOf(22) = 23 /\ LexStateOf(23) = 17 /\ LexStateOf(24) = 19
BY DEF LexStateOf, Outside

\* The forms the answers have in the parser.
LEMMA AnswerForms ==
  ASSUME NEW s, Status(s), NEW n, NEW jsf1
  PROVE  /\ Ret(s, "OK") = Answer(s.state, s.limit, s.temp, "OK", <<>>)
         /\ Quietly(To(s, n), n, s.temp)
         /\ \A limit : Quietly(To([s EXCEPT !.limit = limit], n), n, s.temp)
         /\ \A t : Quietly(To([s EXCEPT !.temp = t], n), n, t)
         /\ \A t, limit : Quietly(To([s EXCEPT !.limit = limit, !.temp = t], n), n, t)
         /\ \A c, room : Quietly(Starts(s, room, c, n), n, Begun(room, c))
         /\ \A c : Quietly(Start(s, c, n), n, Begun(5, c))
         /\ \A c, limit : Quietly(Start([s EXCEPT !.limit = limit], c, n), n, Begun(5, c))
         /\ \A call : Calls(Plain(s, jsf1, call, n), jsf1, n, s.temp, call)
         /\ GivesUp(Illegal(s), s)
         /\ \A ret : ret \notin {"OK", "MEMORY"} => GivesUp(Ret(s, ret), s)
<1>1. s = [state |-> s.state, limit |-> s.limit, temp |-> s.temp]
  BY DEF Status
<1>2. /\ Ret(s, "OK") = Answer(s.state, s.limit, s.temp, "OK", <<>>)
      /\ \A ret : ret \notin {"OK", "MEMORY"} => GivesUp(Ret(s, ret), s)
      /\ GivesUp(Illegal(s), s)
  BY DEF Ret, Illegal, Answer, GivesUp
<1>3. To(s, n) = Answer(n, s.limit, s.temp, "OK", <<>>)
  BY <1>1 DEF To, Ret, Answer
<1>4. \A limit : To([s EXCEPT !.limit = limit], n) = Answer(n, limit, s.temp, "OK", <<>>)
  BY <1>1 DEF To, Ret, Answer
<1>5. \A t : To([s EXCEPT !.temp = t], n) = Answer(n, s.limit, t, "OK", <<>>)
  BY <1>1 DEF To, Ret, Answer
<1>6. \A t, limit : To([s EXCEPT !.limit = limit, !.temp = t], n) = Answer(n, limit, t, "OK", <<>>)
  BY <1>1 DEF To, Ret, Answer
<1>7. \A c, room : Starts(s, room, c, n) = Answer(n, s.limit, Begun(room, c), "OK", <<>>)
  BY <1>5 DEF Starts, Begun
<1>8. \A c, limit : Start([s EXCEPT !.limit = limit], c, n) = Answer(n, limit, Begun(5, c), "OK", <<>>)
  BY <1>1 DEF Start, Starts, Begun, To, Ret, Answer
<1>9. \A call : Plain(s, jsf1, call, n) =
        Answer(n, s.limit, s.temp, "OK", IF call \in jsf1 THEN Made(call, <<>>) ELSE <<>>)
  <2> TAKE call
  <2>1. Ret([s EXCEPT !.state = n], "OK") = Answer(n, s.limit, s.temp, "OK", <<>>)
    BY <1>1 DEF Ret, Answer
  <2>2. CASE call \in jsf1
    <3>1. Plain(s, jsf1, call, n) = [Answer(n, s.limit, s.temp, "OK", <<>>) EXCEPT !.calls = Made(call, <<>>)]
      BY <2>1, <2>2 DEF Plain, Calling, Made
    <3>2. QED
      BY <2>2, <3>1 DEF Answer
  <2>3. CASE call \notin jsf1
    BY <2>1, <2>3 DEF Plain, Calling
  <2>4. QED
    BY <2>2, <2>3
<1>10. QED
  BY <1>2, <1>3, <1>4, <1>5, <1>6, <1>7, <1>8, <1>9 DEF Quietly, Calls, Start

\* The tokens, and the callbacks they are for.
LEMMA CallNames ==
  /\ CallOf(TokenOf("{"), 1) = "open_object" /\ CallOf(TokenOf("["), 1) = "open_array"
  /\ \A place : CallOf(TokenOf("}"), place) = "close_object" /\ CallOf(TokenOf("]"), place) = "close_array"
  /\ CallOf(TokenOf(":"), 1) = "label_value_separator"
  /\ CallOf(TokenOf(","), 1) = "sibling_separator" /\ CallOf(TokenOf(","), 2) = "label_value_separator"
  /\ CallOf("NUMBER", 1) = "new_number" /\ CallOf("TRUE", 1) = "new_true"
  /\ CallOf("FALSE", 1) = "new_false"   /\ CallOf("NULL", 1) = "new_null"
<1>1. /\ TokenOf("{") = "BEGIN_OBJECT"   /\ TokenOf("}") = "END_OBJECT"
      /\ TokenOf("[") = "BEGIN_ARRAY"    /\ TokenOf("]") = "END_ARRAY"
      /\ TokenOf(":") = "NAME_SEPARATOR" /\ TokenOf(",") = "VALUE_SEPARATOR"
  BY Zenon DEF TokenOf
<1>2. /\ CallOf("BEGIN_OBJECT", 1) = "open_object" /\ CallOf("BEGIN_ARRAY", 1) = "open_array"
      /\ \A place : CallOf("END_OBJECT", place) = "close_object" /\ CallOf("END_ARRAY", place) = "close_array"
      /\ CallOf("NAME_SEPARATOR", 1) = "label_value_separator"
      /\ CallOf("VALUE_SEPARATOR", 1) = "sibling_separator" /\ CallOf("VALUE_SEPARATOR", 2) = "label_value_separator"
      /\ CallOf("NUMBER", 1) = "new_number" /\ CallOf("TRUE", 1) = "new_true"
      /\ CallOf("FALSE", 1) = "new_false"   /\ CallOf("NULL", 1) = "new_null"
  BY DEF CallOf
<1>3. QED
  BY <1>1, <1>2, Zenon

\* What the parser may do between tokens.
SaxIdles(r, s, c)        == c \in Space /\ r = Answer(s.state, s.limit, s.temp, "OK", <<>>)
SaxOpens(r, s, c)        == c = "\"" /\ \E t \in {s.temp, NULL} : Quietly(r, 1, t)
SaxDelimits(r, s, jsf1, c) ==
  \E call \in Callbacks, n \in Outside :
    c \in Structural /\ call = CallOf(TokenOf(c), 1) /\ Calls(r, jsf1, n, s.temp, call)
SaxSpells(r, s, c) ==
  \/ c = "t" /\ Quietly(r, 7, s.temp)
  \/ c = "f" /\ Quietly(r, 10, s.temp)
  \/ c = "n" /\ Quietly(r, 14, s.temp)
SaxBegins(r, c) ==
  \E n \in InNumber, room \in {5, RSTRING_DEFAULT} : NumberBegins(c, LexStateOf(n)) /\ Quietly(r, n, Begun(room, c))

\* A delimiter is the token of its call.
LEMMA DelimiterCalls ==
  ASSUME NEW s, Status(s), NEW jsf1
  PROVE  /\ \A n \in Outside : SaxDelimits(Plain(s, jsf1, "open_object", n), s, jsf1, "{")
         /\ \A n \in Outside : SaxDelimits(Plain(s, jsf1, "close_object", n), s, jsf1, "}")
         /\ \A n \in Outside : SaxDelimits(Plain(s, jsf1, "open_array", n), s, jsf1, "[")
         /\ \A n \in Outside : SaxDelimits(Plain(s, jsf1, "close_array", n), s, jsf1, "]")
         /\ \A n \in Outside : SaxDelimits(Plain(s, jsf1, "label_value_separator", n), s, jsf1, ":")
         /\ \A n \in Outside : SaxDelimits(Plain(s, jsf1, "sibling_separator", n), s, jsf1, ",")
<1>1. \A n, call : Calls(Plain(s, jsf1, call, n), jsf1, n, s.temp, call)
  BY AnswerForms
<1>2. /\ "open_object" \in Callbacks /\ "close_object" \in Callbacks /\ "open_array" \in Callbacks
      /\ "close_array" \in Callbacks /\ "label_value_separator" \in Callbacks /\ "sibling_separator" \in Callbacks
  BY DEF Callbacks
<1>3. "{" \in Structural /\ "}" \in Structural /\ "[" \in Structural /\ "]" \in Structural
      /\ ":" \in Structural /\ "," \in Structural
  BY Zenon DEF Structural
<1>4. QED
  BY <1>1, <1>2, <1>3, CallNames, Zenon DEF SaxDelimits

\* The first character of a number leads to the state the lexer goes to.
LEMMA NumberStates ==
  ASSUME NEW c, NEW r, NEW room \in {5, RSTRING_DEFAULT}
  PROVE  /\ c = "-" /\ Quietly(r, 23, Begun(room, c)) => SaxBegins(r, c)
         /\ c = "0" /\ Quietly(r, 17, Begun(room, c)) => SaxBegins(r, c)
         /\ c \in Digit \ {"0"} /\ Quietly(r, 24, Begun(room, c)) => SaxBegins(r, c)
<1>1. 17 \in InNumber /\ 23 \in InNumber /\ 24 \in InNumber
  BY DEF InNumber
<1>2. /\ c = "-" => NumberBegins(c, LexStateOf(23))
      /\ c = "0" => NumberBegins(c, LexStateOf(17))
      /\ c \in Digit \ {"0"} => NumberBegins(c, LexStateOf(24))
  BY LexStates DEF NumberBegins
<1>3. QED
  BY <1>1, <1>2 DEF SaxBegins

\* Where a character finds the parser between tokens: at the beginning or after
\* a literal, after {, after a closing one, after a comma.
SaxOutside(r, s, jsf1, c) ==
  GivesUp(r, s) \/ SaxIdles(r, s, c) \/ SaxOpens(r, s, c) \/ SaxDelimits(r, s, jsf1, c) \/ SaxSpells(r, s, c) \/ SaxBegins(r, c)

\* With anything to come.
LEMMA GeneralChar ==
  ASSUME NEW s, Status(s), NEW jsf1, NEW c
  PROVE  SaxOutside(SaxGeneral(s, jsf1, c), s, jsf1, c)
<1> DEFINE r == SaxGeneral(s, jsf1, c)
           s1 == [s EXCEPT !.limit = FALSE]
<1>0. 0 \in Outside /\ 25 \in Outside /\ 26 \in Outside /\ 27 \in Outside
  BY DEF Outside
<1>1. ASSUME c \in Space PROVE r = Ret(s, "OK")
  BY <1>1, Zenon DEF SaxGeneral, Space, Digit
<1>2. ASSUME c = "\"" PROVE r = To(s1, 1)
  BY <1>2, Zenon DEF SaxGeneral, Space, Digit
<1>3. /\ c = "{" => r = Plain(s, jsf1, "open_object", 25)
      /\ c = "}" => r = Plain(s, jsf1, "close_object", 26)
      /\ c = "[" => r = Plain(s, jsf1, "open_array", 0)
      /\ c = "]" => r = Plain(s, jsf1, "close_array", 26)
      /\ c = ":" => r = Plain(s, jsf1, "label_value_separator", 0)
      /\ c = "," => r = Plain(s, jsf1, "sibling_separator", 27)
  BY Zenon DEF SaxGeneral, Space, Digit
<1>4. /\ c = "t" => r = To(s, 7)
      /\ c = "f" => r = To(s, 10)
      /\ c = "n" => r = To(s, 14)
  BY Zenon DEF SaxGeneral, Space, Digit
<1>5. /\ c = "0" => r = Start(s1, c, 17)
      /\ c = "-" => r = Start(s1, c, 23)
  BY Zenon DEF SaxGeneral, Space, Digit
<1>6. ASSUME c \in Digit \ {"0"} PROVE r = Start(s1, c, 24)
  BY <1>6, Zenon DEF SaxGeneral, Space, Digit
<1>7. ASSUME c \notin Space \cup Digit \cup {"\"", "{", "}", "[", "]", ":", ",", "t", "f", "n", "-"}
      PROVE  r = Illegal(s)
  <2>1. c # "0"
    BY <1>7, Zenon DEF Digit
  <2>2. QED
    BY <1>7, <2>1, Zenon DEF SaxGeneral
<1> HIDE DEF r
<1>8. ASSUME c \in Space PROVE SaxIdles(r, s, c)
  BY <1>1, <1>8, AnswerForms DEF SaxIdles
<1>9. ASSUME c = "\"" PROVE SaxOpens(r, s, c)
  BY <1>2, <1>9, AnswerForms, Zenon DEF SaxOpens
<1>10. ASSUME c \in {"{", "}", "[", "]", ":", ","} PROVE SaxDelimits(r, s, jsf1, c)
  BY <1>0, <1>3, <1>10, DelimiterCalls, Zenon
<1>11. ASSUME c \in {"t", "f", "n"} PROVE SaxSpells(r, s, c)
  <2>1. Quietly(To(s, 7), 7, s.temp) /\ Quietly(To(s, 10), 10, s.temp) /\ Quietly(To(s, 14), 14, s.temp)
    BY AnswerForms
  <2>2. CASE c = "t"
    BY <1>4, <2>1, <2>2 DEF SaxSpells
  <2>3. CASE c = "f"
    BY <1>4, <2>1, <2>3 DEF SaxSpells
  <2>4. CASE c = "n"
    BY <1>4, <2>1, <2>4 DEF SaxSpells
  <2>5. QED
    BY <1>11, <2>2, <2>3, <2>4
<1>12. ASSUME c \in Digit \cup {"-"} PROVE SaxBegins(r, c)
  <2>1. /\ Quietly(Start(s1, c, 17), 17, Begun(5, c))
        /\ Quietly(Start(s1, c, 23), 23, Begun(5, c))
        /\ Quietly(Start(s1, c, 24), 24, Begun(5, c))
    BY AnswerForms
  <2>2. CASE c = "0"
    BY <1>5, <2>1, <2>2, NumberStates
  <2>3. CASE c = "-"
    BY <1>5, <2>1, <2>3, NumberStates
  <2>4. CASE c \in Digit \ {"0"}
    BY <1>6, <2>1, <2>4, NumberStates
  <2>5. QED
    BY <1>12, <2>2, <2>3, <2>4
<1>13. Illegal(s) = r => GivesUp(r, s)
  BY AnswerForms
<1>14. QED
  BY <1>7, <1>8, <1>9, <1>10, <1>11, <1>12, <1>13, Zenon DEF SaxOutside, r

\* After {.
LEMMA OpenObjectChar ==
  ASSUME NEW s, Status(s), NEW jsf1, NEW c
  PROVE  SaxOutside(SaxOpenObject(s, jsf1, c), s, jsf1, c)
<1> DEFINE r == SaxOpenObject(s, jsf1, c)
<1>0. 26 \in Outside
  BY DEF Outside
<1>1. /\ c \in Space => r = Ret(s, "OK")
      /\ c = "\"" => r = To([s EXCEPT !.temp = NULL], 1)
      /\ c = "}" => r = Plain(s, jsf1, "close_object", 26)
      /\ c \notin Space /\ c # "\"" /\ c # "}" => r = Illegal(s)
  BY Zenon DEF SaxOpenObject, Space
<1> HIDE DEF r
<1>2. c \in Space => SaxIdles(r, s, c)
  BY <1>1, AnswerForms DEF SaxIdles
<1>3. c = "\"" => SaxOpens(r, s, c)
  BY <1>1, AnswerForms, Zenon DEF SaxOpens
<1>4. c = "}" => SaxDelimits(r, s, jsf1, c)
  BY <1>0, <1>1, DelimiterCalls, Zenon
<1>5. Illegal(s) = r => GivesUp(r, s)
  BY AnswerForms
<1>6. QED
  BY <1>1, <1>2, <1>3, <1>4, <1>5, Zenon DEF SaxOutside, r

\* After } or ].
LEMMA ClosedChar ==
  ASSUME NEW s, Status(s), NEW jsf1, NEW c
  PROVE  SaxOutside(SaxClosed(s, jsf1, c), s, jsf1, c)
<1> DEFINE r == SaxClosed(s, jsf1, c)
<1>0. 26 \in Outside /\ 27 \in Outside
  BY DEF Outside
<1>1. /\ c \in Space => r = Ret(s, "OK")
      /\ c = "}" => r = Plain(s, jsf1, "close_object", 26)
      /\ c = "]" => r = Plain(s, jsf1, "close_array", 26)
      /\ c = "," => r = Plain(s, jsf1, "sibling_separator", 27)
      /\ c \notin Space /\ c # "}" /\ c # "]" /\ c # "," => r = Illegal(s)
  BY Zenon DEF SaxClosed, Space
<1> HIDE DEF r
<1>2. c \in Space => SaxIdles(r, s, c)
  BY <1>1, AnswerForms DEF SaxIdles
<1>3. c \in {"}", "]", ","} => SaxDelimits(r, s, jsf1, c)
  BY <1>0, <1>1, DelimiterCalls, Zenon
<1>4. Illegal(s) = r => GivesUp(r, s)
  BY AnswerForms
<1>5. QED
  BY <1>1, <1>2, <1>3, <1>4, Zenon DEF SaxOutside, r

\* After a comma.
LEMMA SiblingChar ==
  ASSUME NEW s, Status(s), NEW jsf1, NEW c
  PROVE  SaxOutside(SaxSibling(s, jsf1, c), s, jsf1, c)
<1> DEFINE r == SaxSibling(s, jsf1, c)
<1>0. 25 \in Outside /\ 27 \in Outside
  BY DEF Outside
<1>1. /\ c \in Space => r = Ret(s, "OK")
      /\ c = "\"" => r = To([s EXCEPT !.temp = NULL], 1)
      /\ c = "{" => r = Plain(s, jsf1, "open_object", 25)
      /\ c = "[" => r = Plain(s, jsf1, "open_array", 27)
      /\ c = "t" => r = To(s, 7)
      /\ c = "f" => r = To(s, 10)
      /\ c = "n" => r = To(s, 14)
      /\ c = "0" => r = Start(s, c, 17)
      /\ c = "-" => r = Starts(s, RSTRING_DEFAULT, c, 23)
  BY Zenon DEF SaxSibling, Space, Digit
<1>2. ASSUME c \in Digit \ {"0"} PROVE r = Start(s, c, 24)
  BY <1>2, Zenon DEF SaxSibling, Space, Digit
<1>3. ASSUME c \notin Space \cup Digit \cup {"\"", "{", "[", "t", "f", "n", "-"}
      PROVE  r = Illegal(s)
  <2>1. c # "0"
    BY <1>3, Zenon DEF Digit
  <2>2. QED
    BY <1>3, <2>1, Zenon DEF SaxSibling
<1> HIDE DEF r
<1>4. c \in Space => SaxIdles(r, s, c)
  BY <1>1, AnswerForms DEF SaxIdles
<1>5. c = "\"" => SaxOpens(r, s, c)
  BY <1>1, AnswerForms, Zenon DEF SaxOpens
<1>6. c \in {"{", "["} => SaxDelimits(r, s, jsf1, c)
  BY <1>0, <1>1, DelimiterCalls, Zenon
<1>7. c \in {"t", "f", "n"} => SaxSpells(r, s, c)
  <2>1. Quietly(To(s, 7), 7, s.temp) /\ Quietly(To(s, 10), 10, s.temp) /\ Quietly(To(s, 14), 14, s.temp)
    BY AnswerForms
  <2>2. CASE c = "t"
    BY <1>1, <2>1, <2>2, Zenon DEF SaxSpells
  <2>3. CASE c = "f"
    BY <1>1, <2>1, <2>3, Zenon DEF SaxSpells
  <2>4. CASE c = "n"
    BY <1>1, <2>1, <2>4, Zenon DEF SaxSpells
  <2>5. QED
    BY <2>2, <2>3, <2>4
<1>8. c \in Digit \cup {"-"} => SaxBegins(r, c)
  <2>1. /\ Quietly(Start(s, c, 17), 17, Begun(5, c))
        /\ Quietly(Starts(s, RSTRING_DEFAULT, c, 23), 23, Begun(RSTRING_DEFAULT, c))
        /\ Quietly(Start(s, c, 24), 24, Begun(5, c))
    BY AnswerForms
  <2>2. QED
    BY <1>1, <1>2, <2>1, NumberStates, Zenon
<1>9. Illegal(s) = r => GivesUp(r, s)
  BY AnswerForms
<1>10. QED
  BY <1>3, <1>4, <1>5, <1>6, <1>7, <1>8, <1>9, Zenon DEF SaxOutside, r

\* In a literal: the letter that goes on with it, or ends it.
SaxInLiteral(r, s, jsf1, c) ==
  \/ GivesUp(r, s)
  \/ /\ c = LiteralLetter(s.state) /\ s.state \in {9, 13, 16}
     /\ \E call \in Callbacks : call = CallOf(LiteralToken(s.state), 1) /\ Calls(r, jsf1, 0, s.temp, call)
  \/ c = LiteralLetter(s.state) /\ s.state \notin {9, 13, 16} /\ Quietly(r, s.state + 1, s.temp)

\* What the parser does in a literal.
LEMMA SaxLiteralChar ==
  ASSUME NEW s, Status(s), NEW jsf1, NEW c, s.state \in 7..16
  PROVE  SaxInLiteral(SaxLiteral(s, jsf1, c), s, jsf1, c)
<1> DEFINE r == SaxLiteral(s, jsf1, c)
           l == c = LiteralLetter(s.state)
<1>1. /\ ~l => r = Illegal(s)
      /\ l /\ s.state = 9 => r = Plain(s, jsf1, "new_true", 0)
      /\ l /\ s.state = 13 => r = Plain(s, jsf1, "new_false", 0)
      /\ l /\ s.state = 16 => r = Plain(s, jsf1, "new_null", 0)
      /\ l /\ s.state \notin {9, 13, 16} => r = To(s, s.state + 1)
  BY DEF SaxLiteral
<1>2. /\ s.state = 9 => CallOf(LiteralToken(s.state), 1) = "new_true"
      /\ s.state = 13 => CallOf(LiteralToken(s.state), 1) = "new_false"
      /\ s.state = 16 => CallOf(LiteralToken(s.state), 1) = "new_null"
  <2>1. /\ s.state = 9 => LiteralToken(s.state) = "TRUE"
        /\ s.state = 13 => LiteralToken(s.state) = "FALSE"
        /\ s.state = 16 => LiteralToken(s.state) = "NULL"
    BY DEF LiteralToken
  <2>2. QED
    BY <2>1, CallNames, Zenon
<1>3. "new_true" \in Callbacks /\ "new_false" \in Callbacks /\ "new_null" \in Callbacks
  BY DEF Callbacks
<1> HIDE DEF r, l
<1>4. /\ \A call : r = Plain(s, jsf1, call, 0) => Calls(r, jsf1, 0, s.temp, call)
      /\ r = Illegal(s) => GivesUp(r, s)
      /\ r = To(s, s.state + 1) => Quietly(r, s.state + 1, s.temp)
  BY AnswerForms
<1>5. CASE ~l
  BY <1>1, <1>4, <1>5 DEF SaxInLiteral, r
<1>6. CASE l /\ s.state \in {9, 13, 16}
  <2>1. \E call \in Callbacks : call = CallOf(LiteralToken(s.state), 1) /\ Calls(r, jsf1, 0, s.temp, call)
    BY <1>1, <1>2, <1>3, <1>4, <1>6
  <2>2. QED
    BY <1>6, <2>1 DEF SaxInLiteral, r, l
<1>7. CASE l /\ s.state \notin {9, 13, 16}
  BY <1>1, <1>4, <1>7 DEF SaxInLiteral, r, l
<1>8. QED
  BY <1>5, <1>6, <1>7

\* A text that grows, or is said to be full, or is not there.
LEMMA GrowForms ==
  ASSUME NEW s, Status(s), NEW c, NEW n
  PROVE  \/ GivesUp(Grow(s, c, n), s)
         \/ \E t \in {s.temp, rcs_catc(s.temp, c)} : Quietly(Grow(s, c, n), n, t)
<1>1. CASE ~s.limit /\ s.temp = NULL
  BY <1>1, AnswerForms DEF Grow
<1>2. CASE s.limit
  <2>1. Grow(s, c, n) = To(s, n)
    BY <1>2 DEF Grow, Keep
  <2>2. QED
    BY <2>1, AnswerForms
<1>3. CASE ~s.limit /\ s.temp # NULL
  <2>1. Grow(s, c, n) = To([s EXCEPT !.temp = rcs_catc(s.temp, c)], n)
    BY <1>3 DEF Grow, Keep
  <2>2. QED
    BY <2>1, AnswerForms
<1>4. QED
  BY <1>1, <1>2, <1>3

\* A callback that is tested under its own name is made when it is set.
LEMMA CallingForms ==
  ASSUME NEW s, Status(s), NEW jsf1, NEW tested, NEW call, NEW text
  PROVE  /\ \E ret, made : Calling(s, jsf1, tested, call, text) = Answer(s.state, s.limit, s.temp, ret, made)
         /\ tested \in jsf1 /\ call \in jsf1 => Calling(s, jsf1, tested, call, text).calls = Made(call, text)
<1>1. /\ \A ret : Ret(s, ret) = Answer(s.state, s.limit, s.temp, ret, <<>>)
      /\ [Ret(s, "OK") EXCEPT !.calls = Made(call, text)] = Answer(s.state, s.limit, s.temp, "OK", Made(call, text))
  BY DEF Ret, Answer
<1>2. CASE tested \in jsf1 /\ call \in jsf1
  <2>1. Calling(s, jsf1, tested, call, text) = [Ret(s, "OK") EXCEPT !.calls = Made(call, text)]
    BY <1>2 DEF Calling, Made
  <2>2. Answer(s.state, s.limit, s.temp, "OK", Made(call, text)).calls = Made(call, text)
    BY DEF Answer
  <2>3. QED
    BY <1>1, <2>1, <2>2
<1>3. CASE tested \notin jsf1
  BY <1>1, <1>3 DEF Calling
<1>4. CASE tested \in jsf1 /\ call \notin jsf1
  BY <1>1, <1>4 DEF Calling
<1>5. QED
  BY <1>2, <1>3, <1>4

\* What a number that ends leaves of a status.
LEMMA EndOfText ==
  ASSUME NEW s, Status(s), NEW n
  PROVE  [s EXCEPT !.temp = NULL, !.state = n] = [state |-> n, limit |-> s.limit, temp |-> NULL]
<1>1. [s EXCEPT !.temp = NULL] = [state |-> s.state, limit |-> s.limit, temp |-> NULL]
  BY DEF Status
<1>2. \A q : q = [state |-> s.state, limit |-> s.limit, temp |-> NULL] =>
               [q EXCEPT !.state = n] = [state |-> n, limit |-> s.limit, temp |-> NULL]
  OBVIOUS
<1>3. QED
  BY <1>1, <1>2, Zenon

\* The end of a number leaves no text; with every callback set the number is
\* called, then its delimiter.
LEMMA EndNumberForms ==
  ASSUME NEW s, Status(s), NEW jsf1, NEW tested, NEW call, NEW n
  PROVE  /\ EndNumber(s, jsf1, tested, call, n).state = n
         /\ EndNumber(s, jsf1, tested, call, n).temp = NULL
         /\ "new_number" \in jsf1 /\ (tested = "none" \/ (tested \in jsf1 /\ call \in jsf1)) =>
              EndNumber(s, jsf1, tested, call, n).calls =
                IF tested = "none" THEN Made("new_number", rcs_unwrap(s.temp))
                ELSE Made("new_number", rcs_unwrap(s.temp)) \o Made(call, <<>>)
<1> DEFINE text   == rcs_unwrap(s.temp)
           after  == [s EXCEPT !.temp = NULL, !.state = n]
           number == Calling(s, jsf1, "new_number", "new_number", text)
           then   == Calling(after, jsf1, tested, call, <<>>)
           ended  == EndNumber(s, jsf1, tested, call, n)
<1>1. PICK ret, made : number = Answer(s.state, s.limit, s.temp, ret, made)
  BY CallingForms
<1>2. "new_number" \in jsf1 => number.calls = Made("new_number", text)
  BY CallingForms
<1>3. after = [state |-> n, limit |-> s.limit, temp |-> NULL]
  BY EndOfText
<1>4. ended = IF tested = "none" THEN [number EXCEPT !.temp = NULL, !.state = n]
              ELSE [then EXCEPT !.calls = number.calls \o then.calls]
  BY DEF EndNumber
<1> HIDE DEF after
<1>5. Status(after) /\ after.state = n /\ after.temp = NULL
  BY <1>3 DEF Status
<1>6. PICK ret2, made2 : then = Answer(n, after.limit, NULL, ret2, made2)
  <2>1. \E ret2, made2 : then = Answer(after.state, after.limit, after.temp, ret2, made2)
    BY <1>5, CallingForms
  <2>2. QED
    BY <1>5, <2>1
<1>7. tested \in jsf1 /\ call \in jsf1 => then.calls = Made(call, <<>>)
  BY <1>5, CallingForms
<1> HIDE DEF number, then, ended, text
<1>8. CASE tested = "none"
  <2>1. ended = Answer(n, s.limit, NULL, ret, number.calls)
    <3>1. [number EXCEPT !.temp = NULL] = Answer(s.state, s.limit, NULL, ret, number.calls)
      BY <1>1 DEF Answer
    <3>2. \A p : p = Answer(s.state, s.limit, NULL, ret, number.calls) =>
                 [p EXCEPT !.state = n] = Answer(n, s.limit, NULL, ret, number.calls)
      BY DEF Answer
    <3>3. QED
      BY <1>4, <1>8, <3>1, <3>2, Zenon
  <2>2. ended.state = n /\ ended.temp = NULL /\ ended.calls = number.calls
    BY <2>1 DEF Answer
  <2>3. QED
    BY <1>2, <1>8, <2>2 DEF ended, text
<1>9. CASE tested # "none"
  <2>1. ended = Answer(n, after.limit, NULL, ret2, number.calls \o then.calls)
    <3>1. \A made3 : [then EXCEPT !.calls = made3] = Answer(n, after.limit, NULL, ret2, made3)
      BY <1>6 DEF Answer
    <3>2. QED
      BY <1>4, <1>9, <3>1
  <2>2. ended.state = n /\ ended.temp = NULL /\ ended.calls = number.calls \o then.calls
    BY <2>1 DEF Answer
  <2>3. "new_number" \in jsf1 /\ tested \in jsf1 /\ call \in jsf1 =>
          ended.calls = Made("new_number", text) \o Made(call, <<>>)
    BY <1>2, <1>7, <2>2
  <2>4. QED
    BY <1>9, <2>2, <2>3, Zenon DEF ended, text
<1>10. QED
  BY <1>8, <1>9

\* The calls of a number that ends, its delimiter's with it.
EndCalls(made, c, text) ==
  made = IF c \in Space THEN Made("new_number", text)
         ELSE Made("new_number", text) \o Made(CallOf(TokenOf(c), 2), <<>>)

\* Every delimiter ends the number: it leaves no text, and its own call comes second.
LEMMA DelimiterEnds ==
  ASSUME NEW s, Status(s), NEW jsf1, NEW c, EndsNumber(c), NEW tested \in Callbacks
  PROVE  /\ Delimiter(s, jsf1, c, tested).state \in Outside
         /\ Delimiter(s, jsf1, c, tested).temp = NULL
         /\ jsf1 = Callbacks => EndCalls(Delimiter(s, jsf1, c, tested).calls, c, rcs_unwrap(s.temp))
<1> DEFINE r == Delimiter(s, jsf1, c, tested)
           text == rcs_unwrap(s.temp)
<1>0. /\ "new_number" \in Callbacks /\ "open_object" \in Callbacks /\ "close_object" \in Callbacks
      /\ "close_array" \in Callbacks /\ "label_value_separator" \in Callbacks /\ "none" \notin Callbacks
  BY DEF Callbacks
<1>1. 0 \in Outside /\ 26 \in Outside /\ 27 \in Outside
  BY DEF Outside
<1>2. ASSUME NEW call \in Callbacks, NEW t \in Callbacks, NEW n \in Outside,
             c \notin Space, call = CallOf(TokenOf(c), 2), r = EndNumber(s, jsf1, t, call, n)
      PROVE  r.state \in Outside /\ r.temp = NULL /\ (jsf1 = Callbacks => EndCalls(r.calls, c, text))
  <2>1. /\ r.state = n /\ r.temp = NULL
        /\ "new_number" \in jsf1 /\ (t = "none" \/ (t \in jsf1 /\ call \in jsf1)) =>
             r.calls = IF t = "none" THEN Made("new_number", text)
                       ELSE Made("new_number", text) \o Made(call, <<>>)
    BY <1>2, EndNumberForms
  <2>2. jsf1 = Callbacks => r.calls = Made("new_number", text) \o Made(call, <<>>)
    BY <1>0, <2>1
  <2>3. QED
    BY <1>2, <2>1, <2>2 DEF EndCalls
<1>3. CASE c \in Space
  <2>1. r = EndNumber(s, jsf1, "none", "none", 0)
    BY <1>3, Zenon DEF Delimiter, Space
  <2>2. /\ r.state = 0 /\ r.temp = NULL
        /\ "new_number" \in jsf1 => r.calls = Made("new_number", text)
    <3>1. /\ r.state = 0 /\ r.temp = NULL
          /\ "new_number" \in jsf1 /\ ("none" = "none" \/ ("none" \in jsf1 /\ "none" \in jsf1)) =>
               r.calls = IF "none" = "none" THEN Made("new_number", text)
                         ELSE Made("new_number", text) \o Made("none", <<>>)
      BY <2>1, EndNumberForms
    <3>2. QED
      BY <3>1
  <2>3. QED
    BY <1>0, <1>1, <1>3, <2>2 DEF EndCalls, r
<1>4. CASE c \notin Space
  <2>1. c \in {"]", "}", ","}
    BY <1>4, Zenon DEF EndsNumber
  <2>2. CASE c = "}"
    <3>1. r = EndNumber(s, jsf1, "open_object", "close_object", 26)
      BY <1>4, <2>2, Zenon DEF Delimiter
    <3>2. CallOf(TokenOf(c), 2) = "close_object"
      BY <2>2, CallNames, Zenon
    <3>3. QED
      BY <1>0, <1>1, <1>2, <1>4, <3>1, <3>2, Zenon DEF r
  <2>3. CASE c = "]"
    <3>1. r = EndNumber(s, jsf1, "open_object", "close_array", 26)
      BY <1>4, <2>3, Zenon DEF Delimiter
    <3>2. CallOf(TokenOf(c), 2) = "close_array"
      BY <2>3, CallNames, Zenon
    <3>3. QED
      BY <1>0, <1>1, <1>2, <1>4, <3>1, <3>2, Zenon DEF r
  <2>4. CASE c = ","
    <3>1. r = EndNumber(s, jsf1, tested, "label_value_separator", 27)
      BY <1>4, <2>4, Zenon DEF Delimiter
    <3>2. CallOf(TokenOf(c), 2) = "label_value_separator"
      BY <2>4, CallNames, Zenon
    <3>3. QED
      BY <1>0, <1>1, <1>2, <1>4, <3>1, <3>2, Zenon DEF r
  <2>5. QED
    BY <2>1, <2>2, <2>3, <2>4
<1>5. QED
  BY <1>3, <1>4

\* In a number: its end, or a character that goes on with it.
SaxEnds(r, s, jsf1, c) ==
  /\ LexStateOf(s.state) \in MayEnd /\ EndsNumber(c)
  /\ r.state \in Outside /\ r.temp = NULL
  /\ jsf1 = Callbacks => EndCalls(r.calls, c, rcs_unwrap(s.temp))

\* Where a number may go on, and the texts it may then have.
Leads(s, c, n)  == NumberGoes(LexStateOf(s.state), c, LexStateOf(n)) /\ (s.state = 17 => n = 18)
GrownText(s, c) == {s.temp, rcs_catc(s.temp, c)}
TextAfter(s, c, n) ==
  IF n = 17 THEN {rcs_catc(s.temp, c)}
  ELSE IF n = 18 \/ (n = 20 /\ s.state = 24) THEN {Begun(5, c)}
  ELSE IF n = 24 THEN {s.temp, Begun(5, c)}
  ELSE GrownText(s, c)
SaxGoes(r, s, c) ==
  \E n \in InNumber : Leads(s, c, n) /\ \E t \in TextAfter(s, c, n) : Quietly(r, n, t)
SaxInNumber(r, s, jsf1, c) == GivesUp(r, s) \/ SaxEnds(r, s, jsf1, c) \/ SaxGoes(r, s, c)

\* The forms of going on.
LEMMA GoesForms ==
  ASSUME NEW s, Status(s), NEW c, NEW n \in InNumber, Leads(s, c, n), NEW r
  PROVE  /\ r = Grow(s, c, n) /\ GrownText(s, c) \subseteq TextAfter(s, c, n) => GivesUp(r, s) \/ SaxGoes(r, s, c)
         /\ r = Start(s, c, n) /\ Begun(5, c) \in TextAfter(s, c, n) => SaxGoes(r, s, c)
         /\ \A limit : r = Start([s EXCEPT !.limit = limit], c, n) /\ Begun(5, c) \in TextAfter(s, c, n) =>
              SaxGoes(r, s, c)
         /\ r = To(s, n) /\ s.temp \in TextAfter(s, c, n) => SaxGoes(r, s, c)
         /\ r = To([s EXCEPT !.temp = rcs_catc(s.temp, c)], n) /\ rcs_catc(s.temp, c) \in TextAfter(s, c, n) =>
              SaxGoes(r, s, c)
         /\ \A limit : r = To([s EXCEPT !.limit = limit, !.temp = rcs_catc(s.temp, c)], n)
                       /\ rcs_catc(s.temp, c) \in TextAfter(s, c, n) => SaxGoes(r, s, c)
<1>1. \A t \in TextAfter(s, c, n) : Quietly(r, n, t) => SaxGoes(r, s, c)
  BY DEF SaxGoes
<1>2. r = Grow(s, c, n) => GivesUp(r, s) \/ \E t \in GrownText(s, c) : Quietly(r, n, t)
  BY GrowForms DEF GrownText
<1>3. QED
  BY <1>1, <1>2, AnswerForms

\* The texts, state by state.
LEMMA TextsAfter ==
  ASSUME NEW s, NEW c
  PROVE  /\ rcs_catc(s.temp, c) \in TextAfter(s, c, 17)
         /\ Begun(5, c) \in TextAfter(s, c, 18)
         /\ GrownText(s, c) \subseteq TextAfter(s, c, 19)
         /\ IF s.state = 24 THEN Begun(5, c) \in TextAfter(s, c, 20) ELSE rcs_catc(s.temp, c) \in TextAfter(s, c, 20)
         /\ GrownText(s, c) \subseteq TextAfter(s, c, 21)
         /\ rcs_catc(s.temp, c) \in TextAfter(s, c, 22)
         /\ s.temp \in TextAfter(s, c, 24) /\ Begun(5, c) \in TextAfter(s, c, 24)
BY DEF TextAfter, GrownText

\* What the parser does in a number, state by state.
LEMMA SaxNumberChar ==
  ASSUME NEW s, Status(s), NEW jsf1, NEW c, s.state \in InNumber
  PROVE  SaxInNumber(SaxChar(s, jsf1, c), s, jsf1, c)
<1> DEFINE r == SaxChar(s, jsf1, c)
<1>0. s.state \in 17..24 /\ \A n \in 17..24 : n \in InNumber
  BY DEF InNumber
<1>1. r = Illegal(s) => SaxInNumber(r, s, jsf1, c)
  BY AnswerForms DEF SaxInNumber
<1>2. "open_object" \in Callbacks /\ "label_value_separator" \in Callbacks
  BY DEF Callbacks
<1>3. ASSUME LexStateOf(s.state) \in MayEnd, EndsNumber(c), NEW tested \in Callbacks, r = Delimiter(s, jsf1, c, tested)
      PROVE  SaxInNumber(r, s, jsf1, c)
  BY <1>3, DelimiterEnds DEF SaxInNumber, SaxEnds
<1>4. /\ 18 \in InNumber /\ 19 \in InNumber /\ 20 \in InNumber /\ 21 \in InNumber
      /\ 22 \in InNumber /\ 17 \in InNumber /\ 24 \in InNumber
  BY <1>0
<1>5. CASE s.state = 17
  <2>1. r = SaxZero(s, jsf1, c)
    BY <1>5 DEF SaxChar
  <2>2. LexStateOf(s.state) = 18 /\ LexStateOf(s.state) \in MayEnd
    BY <1>5, LexStates DEF MayEnd
  <2>3. c = "." => Leads(s, c, 18)
    BY <1>5, LexStates DEF Leads, NumberGoes
  <2>4. \/ EndsNumber(c) /\ SaxZero(s, jsf1, c) = Delimiter(s, jsf1, c, "open_object")
        \/ c = "." /\ SaxZero(s, jsf1, c) = Start(s, c, 18)
        \/ SaxZero(s, jsf1, c) = Illegal(s)
    BY Zenon DEF SaxZero, EndsNumber, Space
  <2> HIDE DEF r
  <2>5. QED
    BY <1>1, <1>2, <1>3, <1>4, <2>1, <2>2, <2>3, <2>4, TextsAfter, GoesForms DEF SaxInNumber, r
<1>6. CASE s.state = 18
  <2>1. r = SaxFractionStart(s, c)
    BY <1>6 DEF SaxChar
  <2>2. LexStateOf(s.state) = 20
    BY <1>6, LexStates
  <2>3. c \in Digit => Leads(s, c, 19)
    BY <1>6, LexStates DEF Leads, NumberGoes
  <2>4. \/ c \in Digit /\ SaxFractionStart(s, c) = Grow(s, c, 19)
        \/ SaxFractionStart(s, c) = Illegal(s)
    BY Zenon DEF SaxFractionStart
  <2> HIDE DEF r
  <2>5. QED
    BY <1>1, <1>2, <1>3, <1>4, <2>1, <2>2, <2>3, <2>4, TextsAfter, GoesForms DEF SaxInNumber, r
<1>7. CASE s.state = 19
  <2>1. r = SaxFraction(s, jsf1, c)
    BY <1>7 DEF SaxChar
  <2>2. LexStateOf(s.state) = 21 /\ LexStateOf(s.state) \in MayEnd
    BY <1>7, LexStates DEF MayEnd
  <2>3. /\ c \in Digit => Leads(s, c, 19)
        /\ c \in {"e", "E"} => Leads(s, c, 20)
    BY <1>7, LexStates DEF Leads, NumberGoes
  <2>4. \/ EndsNumber(c) /\ SaxFraction(s, jsf1, c) = Delimiter(s, jsf1, c, "label_value_separator")
        \/ c \in Digit /\ SaxFraction(s, jsf1, c) = Grow(s, c, 19)
        \/ c \in {"e", "E"} /\ SaxFraction(s, jsf1, c) = To([s EXCEPT !.temp = rcs_catc(s.temp, c)], 20)
        \/ SaxFraction(s, jsf1, c) = Illegal(s)
    BY Zenon DEF SaxFraction, EndsNumber, Space, Digit
  <2> HIDE DEF r
  <2>5. GrownText(s, c) \subseteq TextAfter(s, c, 19) /\ rcs_catc(s.temp, c) \in TextAfter(s, c, 20)
    BY <1>7, TextsAfter
  <2>6. CASE c \in {"e", "E"} /\ SaxFraction(s, jsf1, c) = To([s EXCEPT !.temp = rcs_catc(s.temp, c)], 20)
    BY <1>4, <2>1, <2>3, <2>5, <2>6, GoesForms DEF SaxInNumber, r
  <2>7. QED
    BY <1>1, <1>2, <1>3, <1>4, <2>1, <2>2, <2>3, <2>4, <2>5, <2>6, GoesForms DEF SaxInNumber, r
<1>8. CASE s.state = 20
  <2>1. r = SaxExponentStart(s, c)
    BY <1>8 DEF SaxChar
  <2>2. LexStateOf(s.state) = 22
    BY <1>8, LexStates
  <2>3. /\ c \in {"+", "-"} => Leads(s, c, 22)
        /\ c \in Digit => Leads(s, c, 21)
    BY <1>8, LexStates DEF Leads, NumberGoes
  <2>4. \/ c \in {"+", "-"} /\ SaxExponentStart(s, c) = To([s EXCEPT !.limit = FALSE, !.temp = rcs_catc(s.temp, c)], 22)
        \/ c \in Digit /\ SaxExponentStart(s, c) = Grow(s, c, 21)
        \/ SaxExponentStart(s, c) = Illegal(s)
    BY Zenon DEF SaxExponentStart, Digit
  <2> HIDE DEF r
  <2>5. QED
    BY <1>1, <1>2, <1>3, <1>4, <2>1, <2>2, <2>3, <2>4, TextsAfter, GoesForms DEF SaxInNumber, r
<1>9. CASE s.state = 21
  <2>1. r = SaxExponent(s, jsf1, c)
    BY <1>9 DEF SaxChar
  <2>2. LexStateOf(s.state) = 24 /\ LexStateOf(s.state) \in MayEnd
    BY <1>9, LexStates DEF MayEnd
  <2>3. c \in Digit => Leads(s, c, 21)
    BY <1>9, LexStates DEF Leads, NumberGoes
  <2>4. \/ EndsNumber(c) /\ SaxExponent(s, jsf1, c) = Delimiter(s, jsf1, c, "label_value_separator")
        \/ c \in Digit /\ SaxExponent(s, jsf1, c) = Grow(s, c, 21)
        \/ SaxExponent(s, jsf1, c) = Illegal(s)
    BY Zenon DEF SaxExponent, EndsNumber, Space, Digit
  <2> HIDE DEF r
  <2>5. QED
    BY <1>1, <1>2, <1>3, <1>4, <2>1, <2>2, <2>3, <2>4, TextsAfter, GoesForms DEF SaxInNumber, r
<1>10. CASE s.state = 22
  <2>1. r = SaxExponentSign(s, c)
    BY <1>10 DEF SaxChar
  <2>2. LexStateOf(s.state) = 23
    BY <1>10, LexStates
  <2>3. c \in Digit => Leads(s, c, 21)
    BY <1>10, LexStates DEF Leads, NumberGoes
  <2>4. \/ c \in Digit /\ SaxExponentSign(s, c) = Grow(s, c, 21)
        \/ SaxExponentSign(s, c) = Illegal(s)
    BY Zenon DEF SaxExponentSign
  <2> HIDE DEF r
  <2>5. QED
    BY <1>1, <1>2, <1>3, <1>4, <2>1, <2>2, <2>3, <2>4, TextsAfter, GoesForms DEF SaxInNumber, r
<1>11. CASE s.state = 23
  <2>1. r = SaxMinus(s, c)
    BY <1>11 DEF SaxChar
  <2>2. LexStateOf(s.state) = 17
    BY <1>11, LexStates
  <2>3. /\ c = "0" => Leads(s, c, 17)
        /\ c \in Digit \ {"0"} => Leads(s, c, 24)
    BY <1>11, LexStates DEF Leads, NumberGoes
  <2>4. \/ c = "0" /\ SaxMinus(s, c) = To([s EXCEPT !.temp = rcs_catc(s.temp, c)], 17)
        \/ c \in Digit \ {"0"} /\ SaxMinus(s, c) = Start([s EXCEPT !.limit = TRUE], c, 24)
        \/ c \in Digit \ {"0"} /\ SaxMinus(s, c) = To(s, 24)
        \/ SaxMinus(s, c) = Illegal(s)
    BY Zenon DEF SaxMinus, Digit
  <2> HIDE DEF r
  <2>5. QED
    BY <1>1, <1>2, <1>3, <1>4, <2>1, <2>2, <2>3, <2>4, TextsAfter, GoesForms DEF SaxInNumber, r
<1>12. CASE s.state = 24
  <2>1. r = SaxDecimal(s, jsf1, c)
    BY <1>12 DEF SaxChar
  <2>2. LexStateOf(s.state) = 19 /\ LexStateOf(s.state) \in MayEnd
    BY <1>12, LexStates DEF MayEnd
  <2>3. /\ c \in Digit => Leads(s, c, 24)
        /\ c = "." => Leads(s, c, 18)
        /\ c \in {"e", "E"} => Leads(s, c, 20)
    BY <1>12, LexStates DEF Leads, NumberGoes
  <2>4. \/ EndsNumber(c) /\ SaxDecimal(s, jsf1, c) = Delimiter(s, jsf1, c, "label_value_separator")
        \/ c \in Digit /\ SaxDecimal(s, jsf1, c) = Start(s, c, 24)
        \/ c \in Digit /\ SaxDecimal(s, jsf1, c) = To(s, 24)
        \/ c = "." /\ SaxDecimal(s, jsf1, c) = Start(s, c, 18)
        \/ c \in {"e", "E"} /\ SaxDecimal(s, jsf1, c) = Start([s EXCEPT !.limit = FALSE], c, 20)
        \/ SaxDecimal(s, jsf1, c) = Illegal(s)
    BY Zenon DEF SaxDecimal, EndsNumber, Space, Digit
  <2> HIDE DEF r
  <2>5. QED
    BY <1>1, <1>2, <1>3, <1>4, <1>12, <2>1, <2>2, <2>3, <2>4, TextsAfter, GoesForms DEF SaxInNumber, r
<1>13. QED
  BY <1>0, <1>5, <1>6, <1>7, <1>8, <1>9, <1>10, <1>11, <1>12

\* In a string, without a text to grow: the parser stays in it, or gives up.
SaxStays(r, s) == GivesUp(r, s) \/ \E n \in InString : Quietly(r, n, s.temp)

\* What the parser does in a string, state by state.
LEMMA SaxStringChar ==
  ASSUME NEW s, Status(s), NEW jsf1, NEW c, s.state \in InString, s.temp = NULL
  PROVE  SaxStays(SaxChar(s, jsf1, c), s)
<1> DEFINE r == SaxChar(s, jsf1, c)
<1>0. s.state \in 1..6 /\ \A n \in 1..6 : n \in InString
  BY DEF InString
<1>1. \A ret : ret \notin {"OK", "MEMORY"} /\ r = Ret(s, ret) => SaxStays(r, s)
  BY AnswerForms DEF SaxStays
<1>2. r = Illegal(s) => SaxStays(r, s)
  BY AnswerForms DEF SaxStays
<1>3. \A n \in 1..6 : r = To(s, n) => SaxStays(r, s)
  BY <1>0, AnswerForms DEF SaxStays
<1>4. \A d, n : Grow(s, d, n) = Ret(s, "abort") \/ Grow(s, d, n) = To(s, n)
  BY DEF Grow, Keep
<1>5. CASE s.state = 1
  <2>1. r = SaxString(s, jsf1, c)
    BY <1>5 DEF SaxChar
  <2>2. \/ SaxString(s, jsf1, c) = Ret(s, "UNKNOWN_PROBLEM")
        \/ SaxString(s, jsf1, c) = To(s, 2)
        \/ SaxString(s, jsf1, c) = To(s, 1)
        \/ SaxString(s, jsf1, c) = Ret(s, "abort")
    BY Zenon DEF SaxString
  <2>3. QED
    BY <1>1, <1>3, <2>1, <2>2
<1>6. CASE s.state = 2
  <2>1. r = SaxEscape(s, c)
    BY <1>6 DEF SaxChar
  <2>2. SaxEscape(s, c) \in {Grow(s, c, 2), Grow(s, c, 3), Illegal(s)}
    BY Zenon DEF SaxEscape
  <2>3. QED
    BY <1>1, <1>2, <1>3, <1>4, <2>1, <2>2
<1>7. CASE s.state = 3
  <2>1. r = SaxUnicodeFirst(s, c)
    BY <1>7 DEF SaxChar
  <2>2. SaxUnicodeFirst(s, c) \in {Grow(s, "u", 4), Illegal(s)}
    BY DEF SaxUnicodeFirst
  <2>3. QED
    BY <1>1, <1>2, <1>3, <1>4, <2>1, <2>2
<1>8. CASE s.state \in 4..6
  <2>1. r = SaxUnicode(s, c)
    BY <1>8 DEF SaxChar
  <2>2. \E n \in 1..6 : SaxUnicode(s, c) \in {Grow(s, c, n), Illegal(s)}
    BY <1>8 DEF SaxUnicode
  <2>3. QED
    BY <1>1, <1>2, <1>3, <1>4, <2>1, <2>2
<1>9. QED
  BY <1>0, <1>5, <1>6, <1>7, <1>8

\* Between tokens, in any of the four states.
LEMMA OutsideChar ==
  ASSUME NEW s, Status(s), NEW jsf1, NEW c, s.state \in Outside
  PROVE  SaxOutside(SaxChar(s, jsf1, c), s, jsf1, c)
<1>1. s.state \in {0, 25, 26, 27}
  BY DEF Outside
<1>2. /\ s.state = 0  => SaxChar(s, jsf1, c) = SaxGeneral(s, jsf1, c)
      /\ s.state = 25 => SaxChar(s, jsf1, c) = SaxOpenObject(s, jsf1, c)
      /\ s.state = 26 => SaxChar(s, jsf1, c) = SaxClosed(s, jsf1, c)
      /\ s.state = 27 => SaxChar(s, jsf1, c) = SaxSibling(s, jsf1, c)
  BY DEF SaxChar
<1>3. QED
  BY <1>1, <1>2, GeneralChar, OpenObjectChar, ClosedChar, SiblingChar

\* In a literal.
LEMMA LiteralCharOf ==
  ASSUME NEW s, Status(s), NEW jsf1, NEW c, s.state \in 7..16
  PROVE  SaxInLiteral(SaxChar(s, jsf1, c), s, jsf1, c)
<1>1. SaxChar(s, jsf1, c) = SaxLiteral(s, jsf1, c)
  BY DEF SaxChar
<1>2. QED
  BY <1>1, SaxLiteralChar

-----------------------------------------------------------------------------
(* What a step of the parser leaves *)

SaxSound ==
  /\ Status(sax)
  /\ sax.state \in 0..27
  /\ IF sax.state \in InNumber THEN HasRoom(sax.temp) \/ (sax.temp = FREED /\ sax.state \in {17, 21})
     ELSE sax.temp = NULL

\* Without memory the text is not there, or freed.
SaxTyped == IF saxVerdict = "MEMORY" THEN sax.temp \in {NULL, FREED} ELSE SaxSound

\* The groups of its states.
LEMMA SaxStates ==
  /\ \A n \in 0..27 : n \in Outside \/ n \in InString \/ n \in 7..16 \/ n \in InNumber
  /\ Outside \subseteq 0..27 /\ InString \subseteq 0..27 /\ InNumber \subseteq 0..27
  /\ \A n \in InNumber : n \notin Outside /\ n \notin InString /\ n \notin 7..16
  /\ \A n \in Outside : n \notin InString /\ n \notin 7..16
  /\ \A n \in InString : n \notin 7..16
BY DEF Outside, InString, InNumber

\* What a character leaves of the status, by the answer.
LEMMA TakesAnswer ==
  ASSUME NEW c, SaxTakes(c), NEW n, NEW limit, NEW t, NEW ret, NEW made,
         SaxChar(sax, jsf, c) = Answer(n, limit, t, ret, made)
  PROVE  /\ Status(sax') /\ sax'.state = n /\ sax'.temp = t /\ saxVerdict' = ret
         /\ calls' = made
<1> DEFINE r == SaxChar(sax, jsf, c)
<1>1. r.state = n /\ r.limit = limit /\ r.temp = t /\ r.ret = ret /\ r.calls = made
  BY DEF Answer
<1>2. sax' = [state |-> n, limit |-> limit, temp |-> t] /\ saxVerdict' = ret
      /\ calls' = made
  BY <1>1 DEF SaxTakes
<1>3. QED
  BY <1>2 DEF Status

\* Giving up keeps the status.
LEMMA TakesGivesUp ==
  ASSUME SaxSound, NEW c, SaxTakes(c), GivesUp(SaxChar(sax, jsf, c), sax)
  PROVE  SaxSound' /\ saxVerdict' \notin {"OK", "MEMORY"}
<1>1. PICK ret : ret \notin {"OK", "MEMORY"} /\ SaxChar(sax, jsf, c) = Answer(sax.state, sax.limit, sax.temp, ret, <<>>)
  BY DEF GivesUp
<1>2. Status(sax') /\ sax'.state = sax.state /\ sax'.temp = sax.temp /\ saxVerdict' = ret
  BY <1>1, TakesAnswer
<1>3. QED
  BY <1>1, <1>2 DEF SaxSound

\* Going on quietly leads where it says, with no call.
LEMMA TakesQuietly ==
  ASSUME NEW c, SaxTakes(c), NEW n \in 0..27, NEW t, Quietly(SaxChar(sax, jsf, c), n, t)
  PROVE  /\ Status(sax') /\ sax'.state = n /\ sax'.temp = t /\ saxVerdict' = "OK" /\ calls' = <<>>
         /\ (IF n \in InNumber THEN HasRoom(t) ELSE t = NULL) => SaxSound'
<1>1. PICK limit : SaxChar(sax, jsf, c) = Answer(n, limit, t, "OK", <<>>)
  BY DEF Quietly
<1>2. /\ Status(sax') /\ sax'.state = n /\ sax'.temp = t /\ saxVerdict' = "OK" /\ calls' = <<>>
  BY <1>1, TakesAnswer
<1>3. QED
  BY <1>2 DEF SaxSound

\* A call leads where it says; with every callback set it is the one call.
LEMMA TakesCalls ==
  ASSUME NEW c, SaxTakes(c), NEW n \in Outside, NEW t, NEW call, Calls(SaxChar(sax, jsf, c), jsf, n, t, call)
  PROVE  /\ Status(sax') /\ sax'.state = n /\ sax'.temp = t /\ saxVerdict' = "OK"
         /\ call \in jsf => calls' = Made(call, <<>>)
         /\ t = NULL => SaxSound'
<1> DEFINE made == IF call \in jsf THEN Made(call, <<>>) ELSE <<>>
<1>1. PICK limit : SaxChar(sax, jsf, c) = Answer(n, limit, t, "OK", made)
  BY DEF Calls
<1>2. Status(sax') /\ sax'.state = n /\ sax'.temp = t /\ saxVerdict' = "OK" /\ calls' = made
  BY <1>1, TakesAnswer
<1>3. n \in 0..27 /\ n \notin InNumber
  BY SaxStates
<1>4. QED
  BY <1>2, <1>3 DEF SaxSound

\* A number goes on with a text that has room: a freed one is not touched.
LEMMA GoesOnWithRoom ==
  ASSUME SaxSound, sax.state \in InNumber, NEW c \in ReaderChars, ~Touches(sax, c),
         NEW n \in InNumber, Leads(sax, c, n), NEW t \in TextAfter(sax, c, n)
  PROVE  /\ HasRoom(t)
         /\ HasRoom(sax.temp) \/ (sax.state = 17 /\ n = 18)
<1>1. HasRoom(Begun(5, c))
  BY CreateKeeps, CatcKeeps DEF Begun
<1>2. CASE HasRoom(sax.temp)
  <2>1. t \in {sax.temp, rcs_catc(sax.temp, c), Begun(5, c)}
    BY DEF TextAfter, GrownText
  <2>2. QED
    BY <1>1, <1>2, <2>1, CatcKeeps
<1>3. CASE sax.temp = FREED /\ sax.state = 21
  <2>1. c \in Digit
    BY <1>3, LexStates DEF Leads, NumberGoes
  <2>2. QED
    BY <1>3, <2>1 DEF Touches
<1>4. CASE sax.state = 17 /\ n = 18
  <2>1. t = Begun(5, c)
    BY <1>4 DEF TextAfter
  <2>2. QED
    BY <1>1, <1>4, <2>1
<1>5. QED
  BY <1>2, <1>3, <1>4 DEF SaxSound, Leads

\* One character, whatever it is: the status stays one, and a string is not left.
LEMMA SaxTypedStep ==
  ASSUME SaxSound, NEW c \in ReaderChars, SaxTakes(c)
  PROVE  /\ SaxSound'
         /\ sax.state \in InString /\ saxVerdict' = "OK" => sax'.state \in InString
<1> DEFINE r == SaxChar(sax, jsf, c)
<1>0. GivesUp(r, sax) => SaxSound' /\ saxVerdict' \notin {"OK", "MEMORY"}
  BY TakesGivesUp
<1>1. Status(sax) /\ sax.state \in 0..27
  BY DEF SaxSound
<1>2. \A room \in Nat : HasRoom(Begun(room, c))
  BY CreateKeeps, CatcKeeps DEF Begun
<1>3. CASE sax.state \in InString
  <2>1. sax.temp = NULL /\ SaxStays(r, sax)
    BY <1>1, <1>3, SaxStates, SaxStringChar DEF SaxSound
  <2>2. ASSUME NEW n \in InString, Quietly(r, n, sax.temp)
        PROVE  SaxSound' /\ sax'.state \in InString
    BY <2>1, <2>2, SaxStates, TakesQuietly
  <2>3. QED
    BY <1>0, <2>1, <2>2 DEF SaxStays
<1>4. CASE sax.state \in Outside
  <2>1. sax.temp = NULL /\ sax.state \notin InString /\ SaxOutside(r, sax, jsf, c)
    BY <1>1, <1>4, SaxStates, OutsideChar DEF SaxSound
  <2>2. CASE SaxIdles(r, sax, c)
    <3>1. Quietly(r, sax.state, sax.temp)
      BY <2>2 DEF SaxIdles, Quietly
    <3>2. QED
      BY <1>1, <1>4, <2>1, <3>1, SaxStates, TakesQuietly
  <2>3. CASE SaxOpens(r, sax, c)
    <3>1. Quietly(r, 1, NULL)
      BY <2>1, <2>3 DEF SaxOpens
    <3>2. 1 \in 0..27 /\ 1 \notin InNumber
      BY DEF InNumber
    <3>3. QED
      BY <2>1, <3>1, <3>2, TakesQuietly
  <2>4. CASE SaxDelimits(r, sax, jsf, c)
    BY <2>1, <2>4, TakesCalls DEF SaxDelimits
  <2>5. CASE SaxSpells(r, sax, c)
    <3>1. \E n \in {7, 10, 14} : Quietly(r, n, sax.temp)
      BY <2>5 DEF SaxSpells
    <3>2. \A n \in {7, 10, 14} : n \in 0..27 /\ n \notin InNumber
      BY DEF InNumber
    <3>3. QED
      BY <2>1, <3>1, <3>2, TakesQuietly
  <2>6. CASE SaxBegins(r, c)
    <3>1. PICK n \in InNumber, room \in {5, RSTRING_DEFAULT} : Quietly(r, n, Begun(room, c))
      BY <2>6 DEF SaxBegins
    <3>2. HasRoom(Begun(room, c))
      BY <1>2, RcSizes
    <3>3. QED
      BY <2>1, <3>1, <3>2, SaxStates, TakesQuietly
  <2>7. QED
    BY <1>0, <2>1, <2>2, <2>3, <2>4, <2>5, <2>6 DEF SaxOutside
<1>5. CASE sax.state \in 7..16
  <2>1. sax.temp = NULL /\ sax.state \notin InString /\ SaxInLiteral(r, sax, jsf, c)
    BY <1>1, <1>5, SaxStates, LiteralCharOf DEF SaxSound
  <2>2. 0 \in Outside
    BY DEF Outside
  <2>3. ASSUME NEW call, Calls(r, jsf, 0, sax.temp, call)
        PROVE  SaxSound'
    BY <2>1, <2>2, <2>3, TakesCalls
  <2>4. CASE sax.state \notin {9, 13, 16} /\ Quietly(r, sax.state + 1, sax.temp)
    <3>1. sax.state + 1 \in 0..27 /\ sax.state + 1 \notin InNumber
      BY <1>5, <2>4 DEF InNumber
    <3>2. QED
      BY <2>1, <2>4, <3>1, TakesQuietly
  <2>5. QED
    BY <1>0, <2>1, <2>3, <2>4 DEF SaxInLiteral
<1>6. CASE sax.state \in InNumber
  <2>1. sax.state \notin InString /\ SaxInNumber(r, sax, jsf, c)
    BY <1>1, <1>6, SaxStates, SaxNumberChar DEF SaxSound
  <2>2. CASE SaxEnds(r, sax, jsf, c)
    <3>1. sax' = [state |-> r.state, limit |-> r.limit, temp |-> NULL] /\ r.state \in Outside
      BY <2>2 DEF SaxTakes, SaxEnds
    <3>2. QED
      BY <2>1, <3>1, SaxStates DEF SaxSound, Status
  <2>3. CASE SaxGoes(r, sax, c)
    <3>1. PICK n \in InNumber : Leads(sax, c, n) /\ \E t \in TextAfter(sax, c, n) : Quietly(r, n, t)
      BY <2>3 DEF SaxGoes
    <3>2. PICK t \in TextAfter(sax, c, n) : Quietly(r, n, t)
      BY <3>1
    <3>3. ~Touches(sax, c)
      BY DEF SaxTakes
    <3>4. HasRoom(t)
      BY <1>6, <3>1, <3>3, GoesOnWithRoom
    <3>5. QED
      BY <2>1, <3>2, <3>4, SaxStates, TakesQuietly
  <2>4. QED
    BY <1>0, <2>1, <2>2, <2>3 DEF SaxInNumber
<1>7. QED
  BY <1>1, <1>3, <1>4, <1>5, <1>6, SaxStates

\* A character that is taken does not run out of memory.
LEMMA NoMemoryNoText ==
  ASSUME SaxSound, NEW c \in ReaderChars, SaxTakes(c), saxVerdict' = "MEMORY"
  PROVE  sax'.temp = NULL
<1> DEFINE r == SaxChar(sax, jsf, c)
<1>0. ~GivesUp(r, sax)
  BY TakesGivesUp
<1>1. Status(sax) /\ sax.state \in 0..27
  BY DEF SaxSound
<1>2. \A n \in 0..27 : \A t : ~Quietly(r, n, t)
  BY TakesQuietly
<1>3. \A n \in Outside : \A t, call : ~Calls(r, jsf, n, t, call)
  BY TakesCalls
<1>4. CASE sax.state \in InString
  BY <1>0, <1>1, <1>2, <1>4, SaxStates, SaxStringChar DEF SaxSound, SaxStays
<1>5. CASE sax.state \in Outside
  <2>1. SaxOutside(r, sax, jsf, c)
    BY <1>1, <1>5, OutsideChar
  <2>2. ~SaxIdles(r, sax, c)
    BY <1>1, <1>2 DEF SaxIdles, Quietly
  <2>3. ~SaxOpens(r, sax, c) /\ ~SaxSpells(r, sax, c)
    <3>1. 1 \in 0..27 /\ 7 \in 0..27 /\ 10 \in 0..27 /\ 14 \in 0..27
      OBVIOUS
    <3>2. QED
      BY <1>2, <3>1, Zenon DEF SaxOpens, SaxSpells
  <2>4. ~SaxDelimits(r, sax, jsf, c) /\ ~SaxBegins(r, c)
    BY <1>2, <1>3, SaxStates DEF SaxDelimits, SaxBegins
  <2>5. QED
    BY <1>0, <2>1, <2>2, <2>3, <2>4 DEF SaxOutside
<1>6. CASE sax.state \in 7..16
  <2>1. SaxInLiteral(r, sax, jsf, c)
    BY <1>1, <1>6, LiteralCharOf
  <2>2. 0 \in Outside /\ sax.state + 1 \in 0..27
    BY <1>6 DEF Outside
  <2>3. QED
    BY <1>0, <1>2, <1>3, <2>1, <2>2 DEF SaxInLiteral
<1>7. CASE sax.state \in InNumber
  <2>1. SaxInNumber(r, sax, jsf, c)
    BY <1>1, <1>7, SaxNumberChar
  <2>2. ~SaxGoes(r, sax, c)
    BY <1>2, SaxStates DEF SaxGoes
  <2>3. SaxEnds(r, sax, jsf, c) => sax'.temp = NULL
    BY DEF SaxTakes, SaxEnds
  <2>4. QED
    BY <1>0, <2>1, <2>2, <2>3 DEF SaxInNumber
<1>8. QED
  BY <1>1, <1>4, <1>5, <1>6, <1>7, SaxStates

-----------------------------------------------------------------------------
(* The calls of the parser and the tokens of the lexer *)

\* Between tokens, what the lexer does with a character the parser takes.
LEMMA RootForms ==
  ASSUME NEW l, NEW c, l.state = 0
  PROVE  /\ c \in Space => LexChar(l, c) = Go(0, l.text)
         /\ c \in Structural => LexChar(l, c) = Emit(TokenOf(c), l.text)
         /\ c = "t" => LexChar(l, c) = Go(7, l.text)
         /\ c = "f" => LexChar(l, c) = Go(10, l.text)
         /\ c = "n" => LexChar(l, c) = Go(14, l.text)
         /\ \A n : NumberBegins(c, n) => LexChar(l, c) = Go(n, Begin(c))
<1>1. LexChar(l, c) = LexRoot(l, c)
  BY DEF LexChar
<1>2. c \in Space => LexRoot(l, c) = Go(0, l.text)
  BY Zenon DEF LexRoot, Space, Structural, Digit
<1>3. c \in Structural => LexRoot(l, c) = Emit(TokenOf(c), l.text)
  BY Zenon DEF LexRoot, Space, Structural, Digit
<1>4. /\ c = "t" => LexRoot(l, c) = Go(7, l.text)
      /\ c = "f" => LexRoot(l, c) = Go(10, l.text)
      /\ c = "n" => LexRoot(l, c) = Go(14, l.text)
      /\ c = "-" => LexRoot(l, c) = Go(17, Begin(c))
      /\ c = "0" => LexRoot(l, c) = Go(18, Begin(c))
  BY Zenon DEF LexRoot, Space, Structural, Digit
<1>5. c \in Digit \ {"0"} => LexRoot(l, c) = Go(19, Begin(c))
  BY Zenon DEF LexRoot, Space, Structural, Digit
<1>6. \A n : NumberBegins(c, n) => LexRoot(l, c) = Go(n, Begin(c))
  BY <1>4, <1>5, Zenon DEF NumberBegins
<1>7. QED
  BY <1>1, <1>2, <1>3, <1>4, <1>6, Zenon

\* A character that goes on with a number leads to one state, and ends none.
LEMMA NumberGoesOne ==
  ASSUME NEW s, NEW c, NEW n, NumberGoes(s, c, n)
  PROVE  ~EndsNumber(c) /\ \A m : NumberGoes(s, c, m) => m = n
<1>1. c \in Digit \cup {".", "e", "E", "+", "-"}
  BY Zenon DEF NumberGoes, Digit
<1>2. ~EndsNumber(c)
  BY <1>1, Zenon DEF EndsNumber, Space, Digit
<1>3. \A m : NumberGoes(s, c, m) => m = n
  BY DEF NumberGoes, Digit
<1>4. QED
  BY <1>2, <1>3

\* In a number, what the lexer does with a character the parser takes.
LEMMA NumberForms ==
  ASSUME NEW l, NEW c, l.state \in InNumber
  PROVE  /\ l.state \in MayEnd /\ EndsNumber(c) => LexChar(l, c) = EmitNumber(l, c)
         /\ \A n \in InNumber : NumberGoes(l.state, c, n) => LexChar(l, c) = Go(n, rcs_catc(l.text, c))
BY NumberChar, NumberGoesOne

\* The states of the lexer that are those of the parser.
LEMMA LexStateGroups ==
  /\ \A s \in Outside : LexStateOf(s) = 0
  /\ \A s \in 7..16 : LexStateOf(s) = s
  /\ \A s \in InNumber : LexStateOf(s) \in InNumber
<1>1. \A s \in InNumber : s \in {17, 18, 19, 20, 21, 22, 23, 24}
  BY DEF InNumber
<1>2. 17 \in InNumber /\ 18 \in InNumber /\ 19 \in InNumber /\ 20 \in InNumber
      /\ 21 \in InNumber /\ 22 \in InNumber /\ 23 \in InNumber /\ 24 \in InNumber
  BY DEF InNumber
<1>3. QED
  BY <1>1, <1>2, LexStates DEF Outside

\* A call is that of a token; the calls of a character are those of its tokens.
Suits(m, d, i) == /\ m.call = CallOf(d.token, i)
                  /\ m.text = d.text <=> (d.token = "NUMBER" => Entire(d.text))
Match(made, done) == Len(made) = Len(done) /\ \A i \in DOMAIN made : Suits(made[i], done[i], i)

\* None, one and two of each.
LEMMA Matches ==
  /\ Match(<<>>, <<>>)
  /\ \A m, d : Suits(m, d, 1) => Match(<<m>>, <<d>>)
  /\ \A m, d, m2, d2 : Suits(m, d, 1) /\ Suits(m2, d2, 2) => Match(<<m, m2>>, <<d, d2>>)
BY DEF Match

\* A call without a text, and that of a number.
LEMMA SuitsForms ==
  /\ \A k, i : k # "NUMBER" => Suits([call |-> CallOf(k, i), text |-> <<>>], Took(k, <<>>), i)
  /\ \A u, t : (u = t <=> Entire(t)) => Suits([call |-> "new_number", text |-> u], Took("NUMBER", t), 1)
<1>1. CallOf("NUMBER", 1) = "new_number"
  BY CallNames, Zenon
<1>2. QED
  BY <1>1 DEF Suits, Took

\* One token that is no number, and its call.
LEMMA OneCall ==
  ASSUME NEW k, k # "NUMBER", NEW call, call = CallOf(k, 1)
  PROVE  Match(Made(call, <<>>), <<Took(k, <<>>)>>)
BY SuitsForms, Matches DEF Made

\* One call and then another.
LEMMA TwoCalls ==
  ASSUME NEW a, NEW b
  PROVE  <<a>> \o <<b>> = <<a, b>>
<1> DEFINE x == <<a>>
           y == <<b>>
<1>1. x \in Seq({a, b}) /\ y \in Seq({a, b}) /\ Len(x) = 1 /\ Len(y) = 1 /\ x[1] = a /\ y[1] = b
  OBVIOUS
<1> HIDE DEF x, y
<1>2. x \o y \in Seq({a, b}) /\ Len(x \o y) = 2 /\ (x \o y)[1] = a /\ (x \o y)[2] = b
  <2>1. x \o y \in Seq({a, b}) /\ Len(x \o y) = Len(x) + Len(y)
    BY <1>1, ConcatProperties
  <2>2. \A i \in 1 .. Len(x) + Len(y) : (x \o y)[i] = IF i <= Len(x) THEN x[i] ELSE y[i - Len(x)]
    BY <1>1, ConcatProperties
  <2>3. QED
    BY <1>1, <2>1, <2>2
<1>3. \A z \in Seq({a, b}) : Len(z) = 2 => z = <<z[1], z[2]>>
  OBVIOUS
<1>4. QED
  BY <1>2, <1>3 DEF x, y

\* The calls of the end of a number are those of its tokens.
LEMMA EndCallsMatch ==
  ASSUME NEW made, NEW c, EndsNumber(c), NEW u, NEW t, u = t <=> Entire(t), EndCalls(made, c, u)
  PROVE  Match(made, IF c \in Space THEN <<Took("NUMBER", t)>> ELSE <<Took("NUMBER", t), Took(TokenOf(c), <<>>)>>)
<1>1. Suits([call |-> "new_number", text |-> u], Took("NUMBER", t), 1)
  BY SuitsForms
<1>2. CASE c \in Space
  <2>1. made = <<[call |-> "new_number", text |-> u]>>
    BY <1>2 DEF EndCalls, Made
  <2>2. QED
    BY <1>1, <1>2, <2>1, Matches
<1>3. CASE c \notin Space
  <2>1. c \in Structural
    BY <1>3, Zenon DEF EndsNumber, Structural
  <2>2. TokenOf(c) # "NUMBER"
    BY <2>1, TokenNames
  <2>3. Suits([call |-> CallOf(TokenOf(c), 2), text |-> <<>>], Took(TokenOf(c), <<>>), 2)
    BY <2>2, SuitsForms
  <2>4. made = <<[call |-> "new_number", text |-> u], [call |-> CallOf(TokenOf(c), 2), text |-> <<>>]>>
    BY <1>3, TwoCalls DEF EndCalls, Made
  <2>5. QED
    BY <1>1, <1>3, <2>3, <2>4, Matches
<1>4. QED
  BY <1>2, <1>3

-----------------------------------------------------------------------------
(* The texts the two readers keep of the same number *)

NumberMarks == {".", "e", "E"}

\* The state of the parser, its text, and the text of the lexer: all of the
\* number only of a 0, a sign, or the first digit.
Abreast(n, temp, t) ==
  /\ Len(t) > 0 /\ t[1] \notin NumberMarks
  /\ n = 17 => t \in {<<"0">>, <<"-", "0">>} /\ (HasRoom(temp) => temp.text = t)
  /\ n = 23 => t = <<"-">> /\ temp.text = t
  /\ n = 24 => Len(temp.text) = 1 /\ (Len(t) = 1 => temp.text = t) /\ t # <<"-">> /\ t # <<"-", "0">>
  /\ n \in 18..22 => /\ Len(t) > 1 /\ t # <<"-", "0">>
                     /\ HasRoom(temp) => Len(temp.text) > 0 /\ temp.text[1] \in NumberMarks

\* A character behind a text.
LEMMA AppendForms ==
  ASSUME NEW S, NEW t \in Seq(S), NEW c \in S
  PROVE  /\ Append(t, c) \in Seq(S) /\ Len(Append(t, c)) = Len(t) + 1
         /\ Append(t, c)[Len(t) + 1] = c
         /\ Len(t) > 0 => Append(t, c)[1] = t[1]
         /\ t = <<>> => Append(t, c) = <<c>>
         /\ \A d : t = <<d>> => Append(t, c) = <<d, c>>
<1> DEFINE u == Append(t, c)
<1>1. u \in Seq(S) /\ Len(u) = Len(t) + 1 /\ u[Len(t) + 1] = c /\ Len(t) \in Nat
      /\ \A i \in 1 .. Len(t) : u[i] = t[i]
  BY AppendProperties, LenProperties
<1>2. Len(t) > 0 => u[1] = t[1]
  BY <1>1
<1>3. t = <<>> => u = <<c>>
  OBVIOUS
<1>4. ASSUME NEW d, t = <<d>> PROVE u = <<d, c>>
  <2>1. Len(t) = 1 /\ t[1] = d
    BY <1>4
  <2> HIDE DEF u
  <2>2. Len(u) = 2 /\ u[1] = d /\ u[2] = c
    BY <1>1, <2>1
  <2>3. \A z \in Seq(S) : Len(z) = 2 => z = <<z[1], z[2]>>
    OBVIOUS
  <2>4. QED
    BY <1>1, <2>2, <2>3
<1>5. QED
  BY <1>1, <1>2, <1>3, <1>4, Zenon

\* A string that begins.
LEMMA BegunText ==
  ASSUME NEW c \in ReaderChars, NEW room \in Nat
  PROVE  HasRoom(Begun(room, c)) /\ Begun(room, c).text = <<c>>
<1>1. HasRoom(rcs_create(room)) /\ rcs_create(room).text = <<>>
  BY CreateKeeps
<1>2. HasRoom(Begun(room, c)) /\ Begun(room, c).text = Append(rcs_create(room).text, c)
  BY <1>1, CatcKeeps DEF Begun
<1>3. \A z : z = <<>> => Append(z, c) = <<c>>
  OBVIOUS
<1>4. QED
  BY <1>1, <1>2, <1>3, Zenon

\* A number that begins has the same text in both.
LEMMA AbreastBegins ==
  ASSUME NEW c \in ReaderChars, NEW room \in Nat, NEW n \in InNumber, NumberBegins(c, LexStateOf(n))
  PROVE  Abreast(n, Begun(room, c), <<c>>)
<1>1. n \in {17, 18, 19, 20, 21, 22, 23, 24}
  BY DEF InNumber
<1>2. \/ n = 17 /\ c = "0"
      \/ n = 23 /\ c = "-"
      \/ n = 24 /\ c \in Digit \ {"0"}
  BY <1>1, LexStates DEF NumberBegins
<1>3. Begun(room, c).text = <<c>> /\ Len(<<c>>) = 1 /\ <<c>>[1] = c
  BY BegunText
<1>4. c \notin NumberMarks /\ (c \in Digit => c # "-")
  BY <1>2 DEF NumberMarks, Digit
<1>5. QED
  BY <1>2, <1>3, <1>4 DEF Abreast

\* The text of a sign alone.
LEMMA SignAlone ==
  ASSUME NEW z, Len(z) > 1
  PROVE  z # <<"-">>
<1>1. Len(<<"-">>) = 1 /\ ~(1 > 1)
  OBVIOUS
<1>2. QED
  BY <1>1, Zenon

\* The text -0.
LEMMA SignThenZero ==
  ASSUME NEW S, NEW t \in Seq(S), NEW c \in S
  PROVE  Append(t, c) = <<"-", "0">> => c = "0" /\ t = <<"-">>
<1> DEFINE u == Append(t, c)
           z == <<"-", "0">>
<1>1. Len(u) = Len(t) + 1 /\ u[Len(t) + 1] = c /\ Len(t) \in Nat /\ (Len(t) > 0 => u[1] = t[1])
  <2>1. u \in Seq(S) /\ Len(u) = Len(t) + 1 /\ u[Len(t) + 1] = c /\ Len(t) \in Nat
        /\ \A i \in 1 .. Len(t) : u[i] = t[i]
    BY AppendProperties, LenProperties
  <2>2. Len(t) > 0 => u[1] = t[1]
    BY <2>1
  <2>3. QED
    BY <2>1, <2>2
<1>2. Len(z) = 2 /\ z[1] = "-" /\ z[2] = "0"
  OBVIOUS
<1>3. \A k \in Nat : k + 1 = 2 => k = 1 /\ k > 0
  OBVIOUS
<1>4. Len(t) = 1 /\ t[1] = "-" => t = <<"-">>
  OBVIOUS
<1> HIDE DEF u, z
<1>5. ASSUME u = z PROVE Len(t) = 1 /\ t[1] = "-" /\ c = "0"
  <2>1. Len(t) + 1 = 2 /\ u[1] = "-" /\ u[2] = "0"
    BY <1>1, <1>2, <1>5, Zenon
  <2>2. Len(t) = 1 /\ Len(t) > 0
    BY <1>1, <1>3, <2>1, Zenon
  <2>3. QED
    BY <1>1, <2>1, <2>2, Zenon
<1>6. QED
  BY <1>4, <1>5, Zenon DEF u, z

\* A text is freed, and the state another.
LEMMA FreedForm ==
  ASSUME NEW s, Status(s), NEW n
  PROVE  [s EXCEPT !.temp = FREED, !.state = n] = [state |-> n, limit |-> s.limit, temp |-> FREED]
<1> DEFINE a == [s EXCEPT !.temp = FREED]
<1>1. s = [state |-> s.state, limit |-> s.limit, temp |-> s.temp]
  BY DEF Status
<1>2. a = [state |-> s.state, limit |-> s.limit, temp |-> FREED]
  BY <1>1
<1> HIDE DEF a
<1>3. [a EXCEPT !.state = n] = [state |-> n, limit |-> s.limit, temp |-> FREED]
  BY <1>2
<1>4. QED
  BY <1>3 DEF a

\* A character that goes on with it.
LEMMA AbreastGoes ==
  ASSUME NEW s, s.state \in InNumber, NEW n \in InNumber, NEW c \in ReaderChars, Leads(s, c, n),
         NEW t \in Seq(ReaderChars), Abreast(s.state, s.temp, t),
         HasRoom(s.temp) \/ (s.state = 17 /\ n = 18), NEW temp,
         temp \in TextAfter(s, c, n) \/ (temp = FREED /\ n \in {17, 21})
  PROVE  Abreast(n, temp, Append(t, c))
<1> DEFINE u == Append(t, c)
           m == s.state
<1>0. m \in {17, 18, 19, 20, 21, 22, 23, 24} /\ n \in {17, 18, 19, 20, 21, 22, 23, 24}
  BY DEF InNumber
<1>1. /\ u \in Seq(ReaderChars) /\ Len(u) = Len(t) + 1 /\ u[Len(t) + 1] = c
      /\ Len(t) > 0 /\ u[1] = t[1] /\ t[1] \notin NumberMarks /\ Len(t) \in Nat
      /\ \A d : t = <<d>> => u = <<d, c>>
  BY AppendForms DEF Abreast
<1>2. Len(u) > 1 /\ u[1] \notin NumberMarks
  BY <1>1
<1>3. Begun(5, c).text = <<c>> /\ Len(<<c>>) = 1 /\ <<c>>[1] = c
  BY BegunText
<1>4. HasRoom(s.temp) => /\ rcs_catc(s.temp, c).text = Append(s.temp.text, c)
                         /\ Len(rcs_catc(s.temp, c).text) = Len(s.temp.text) + 1
                         /\ Len(s.temp.text) \in Nat
                         /\ Len(s.temp.text) > 0 => rcs_catc(s.temp, c).text[1] = s.temp.text[1]
  <2> SUFFICES ASSUME HasRoom(s.temp)
               PROVE  /\ rcs_catc(s.temp, c).text = Append(s.temp.text, c)
                      /\ Len(rcs_catc(s.temp, c).text) = Len(s.temp.text) + 1
                      /\ Len(s.temp.text) \in Nat
                      /\ Len(s.temp.text) > 0 => rcs_catc(s.temp, c).text[1] = s.temp.text[1]
    OBVIOUS
  <2>1. s.temp.text \in Seq(ReaderChars) /\ Len(s.temp.text) \in Nat
    BY LenProperties DEF HasRoom
  <2>2. rcs_catc(s.temp, c).text = Append(s.temp.text, c)
    BY CatcKeeps
  <2>3. /\ Len(Append(s.temp.text, c)) = Len(s.temp.text) + 1
        /\ Len(s.temp.text) > 0 => Append(s.temp.text, c)[1] = s.temp.text[1]
    BY <2>1, AppendForms
  <2>4. QED
    BY <2>1, <2>2, <2>3, Zenon
<1>5. ~HasRoom(FREED)
  BY FreedIsNoString DEF HasRoom
<1>6. u = <<"-", "0">> => c = "0" /\ t = <<"-">>
  BY SignThenZero, Zenon
<1> HIDE DEF u
<1>7. CASE n = 17
  <2>1. m = 23 /\ c = "0"
    BY <1>0, <1>7, LexStates DEF Leads, NumberGoes
  <2>2. t = <<"-">> /\ s.temp.text = t /\ HasRoom(s.temp)
    BY <2>1 DEF Abreast
  <2>3. u = <<"-", "0">> /\ Append(s.temp.text, c) = u
    BY <1>1, <2>1, <2>2 DEF u
  <2>4. HasRoom(temp) => temp.text = u
    BY <1>4, <1>5, <1>7, <2>2, <2>3 DEF TextAfter
  <2>5. QED
    BY <1>2, <1>7, <2>3, <2>4 DEF Abreast, u
<1>8. CASE n = 24
  <2>1. (m = 23 /\ c \in Digit \ {"0"}) \/ (m = 24 /\ c \in Digit)
    BY <1>0, <1>8, LexStates DEF Leads, NumberGoes
  <2>2. Len(s.temp.text) = 1 /\ (t = <<"-">> => c # "0")
    BY <2>1 DEF Abreast
  <2>3. temp \in {s.temp, Begun(5, c)}
    BY <1>8 DEF TextAfter
  <2>4. Len(temp.text) = 1
    BY <1>3, <2>2, <2>3
  <2>5. u # <<"-">>
    BY <1>2, SignAlone
  <2>6. QED
    BY <1>2, <1>6, <1>8, <2>2, <2>4, <2>5 DEF Abreast, u
<1>9. CASE n \in 18..22
  <2>1. u # <<"-", "0">>
    <3>1. t = <<"-">> => m = 23
      <4>1. t = <<"-">> => Len(t) = 1 /\ t # <<"0">> /\ t # <<"-", "0">>
        OBVIOUS
      <4>2. QED
        BY <1>0, <4>1 DEF Abreast
    <3>2. m # 23
      BY <1>0, <1>9, LexStates DEF Leads, NumberGoes
    <3>3. QED
      BY <1>6, <3>1, <3>2
  <2>2. HasRoom(temp) => Len(temp.text) > 0 /\ temp.text[1] \in NumberMarks
    <3>1. CASE n = 18 \/ (n = 20 /\ m = 24)
      <4>1. c \in NumberMarks
        BY <1>0, <3>1, LexStates DEF Leads, NumberGoes, NumberMarks, Digit
      <4>2. temp = Begun(5, c)
        BY <3>1 DEF TextAfter
      <4>3. Len(temp.text) = 1 /\ temp.text[1] = c
        BY <1>3, <4>2, Zenon
      <4>4. QED
        BY <4>1, <4>3
    <3>2. CASE ~(n = 18 \/ (n = 20 /\ m = 24))
      <4>1. m \in 18..22
        BY <1>0, <1>9, <3>2, LexStates DEF Leads, NumberGoes
      <4>2. HasRoom(s.temp) /\ Len(s.temp.text) > 0 /\ s.temp.text[1] \in NumberMarks
        BY <4>1 DEF Abreast
      <4>3. temp = FREED \/ temp = s.temp \/ temp = rcs_catc(s.temp, c)
        BY <1>9, <3>2 DEF TextAfter, GrownText
      <4>4. QED
        BY <1>4, <1>5, <4>2, <4>3
    <3>3. QED
      BY <3>1, <3>2
  <2>3. QED
    BY <1>2, <1>9, <2>1, <2>2 DEF Abreast, u
<1>10. n # 23
  BY <1>0, LexStates DEF Leads, NumberGoes
<1>11. QED
  BY <1>0, <1>7, <1>8, <1>9, <1>10

\* At its end the two texts are the same for one digit and for -0.
LEMMA AbreastEnds ==
  ASSUME NEW n \in InNumber, NEW temp, HasRoom(temp), NEW t, Abreast(n, temp, t), LexStateOf(n) \in MayEnd
  PROVE  rcs_unwrap(temp) = t <=> Entire(t)
<1>1. n \in {17, 19, 21, 24}
  BY LexStates DEF MayEnd, InNumber
<1>2. CASE n = 17
  <2>1. temp.text = t /\ t \in {<<"0">>, <<"-", "0">>}
    BY <1>2 DEF Abreast
  <2>2. rcs_unwrap(temp) = t
    BY <2>1 DEF rcs_unwrap
  <2>3. Entire(<<"0">>) /\ Entire(<<"-", "0">>)
    <3>1. Len(<<"0">>) = 1
      OBVIOUS
    <3>2. QED
      BY <3>1, Zenon DEF Entire
  <2>4. Entire(t)
    BY <2>1, <2>3, Zenon
  <2>5. QED
    BY <2>2, <2>4
<1>3. CASE n = 24
  BY <1>3 DEF Abreast, Entire, rcs_unwrap
<1>4. CASE n \in {19, 21}
  <2>1. Len(t) > 1 /\ t # <<"-", "0">> /\ t[1] \notin NumberMarks /\ temp.text[1] \in NumberMarks
    BY <1>4 DEF Abreast
  <2>2. rcs_unwrap(temp) # t
    BY <2>1, Zenon DEF rcs_unwrap
  <2>3. Len(t) # 1
    BY <2>1
  <2>4. QED
    BY <2>1, <2>2, <2>3, Zenon DEF Entire
<1>5. QED
  BY <1>1, <1>2, <1>3, <1>4

\* What the two readers keep of the number they are in.
TextsAbreast == sax.state \in InNumber => Abreast(sax.state, sax.temp, lex.text.text)

\* The lexer and the parser take the same character from states that go
\* together: unless the parser gives up or enters a string, the lexer accepts
\* too, their states go together again, and the calls are the tokens.
LEMMA TogetherStep ==
  ASSUME LexTyped, SaxSound, lex.state = LexStateOf(sax.state), sax.state \notin InString, TextsAbreast,
         NEW c \in ReaderChars, LexTakes(c), SaxTakes(c), saxVerdict' = "OK", sax'.state \notin InString
  PROVE  /\ lexVerdict' = "OK" /\ lex'.state = LexStateOf(sax'.state) /\ TextsAbreast'
         /\ jsf = Callbacks => Match(calls', tokens')
<1> DEFINE r == SaxChar(sax, jsf, c)
<1>0. ~GivesUp(r, sax)
  BY TakesGivesUp
<1>1. Status(sax) /\ sax.state \in 0..27
  BY DEF SaxSound
<1>6. sax'.state \notin InNumber => TextsAbreast'
  BY DEF TextsAbreast
<1>2. CASE sax.state \in Outside
  <2>1. SaxOutside(r, sax, jsf, c)
    BY <1>1, <1>2, OutsideChar
  <2>2. lex.state = 0 /\ lex.text = NULL
    BY <1>2, LexStateGroups DEF LexTyped, InString, InNumber
  <2>3. CASE SaxIdles(r, sax, c)
    <3>1. c \in Space /\ Quietly(r, sax.state, sax.temp)
      BY <2>3 DEF SaxIdles, Quietly
    <3>2. sax'.state = sax.state /\ calls' = <<>>
      BY <1>1, <3>1, TakesQuietly
    <3>3. lexVerdict' = "OK" /\ tokens' = <<>> /\ lex' = [state |-> 0, text |-> lex.text]
      BY <2>2, <3>1, RootForms, TakesGo
    <3>4. QED
      BY <1>2, <1>6, <2>2, <3>2, <3>3, Matches, SaxStates
  <2>4. CASE SaxOpens(r, sax, c)
    <3>1. \E t : Quietly(r, 1, t)
      BY <2>4, Zenon DEF SaxOpens
    <3>2. 1 \in 0..27 /\ 1 \in InString
      BY DEF InString
    <3>3. sax'.state = 1
      BY <3>1, <3>2, TakesQuietly
    <3>4. QED
      BY <3>2, <3>3
  <2>5. CASE SaxDelimits(r, sax, jsf, c)
    <3>1. PICK call \in Callbacks, n \in Outside :
            c \in Structural /\ call = CallOf(TokenOf(c), 1) /\ Calls(r, jsf, n, sax.temp, call)
      BY <2>5 DEF SaxDelimits
    <3>2. sax'.state = n /\ (jsf = Callbacks => calls' = Made(call, <<>>))
      BY <3>1, TakesCalls
    <3>3. LexChar(lex, c) = Emit(TokenOf(c), NULL)
      BY <2>2, <3>1, RootForms
    <3>4. LexIdles /\ tokens' = <<Took(TokenOf(c), <<>>)>> /\ TokenOf(c) # "NUMBER"
      <4>1. TokenOf(c) \notin {"none", "INVALID", "STRING", "NUMBER"}
        BY <3>1, TokenNames
      <4>2. QED
        BY <3>3, <4>1, TakesToken
    <3>5. QED
      BY <1>6, <3>1, <3>2, <3>4, LexStateGroups, OneCall, SaxStates DEF LexIdles
  <2>6. CASE SaxSpells(r, sax, c)
    <3>1. PICK n \in {7, 10, 14} : Quietly(r, n, sax.temp) /\ LexChar(lex, c) = Go(n, lex.text)
      BY <2>2, <2>6, RootForms DEF SaxSpells
    <3>2. n \in 7..16 /\ n \in 0..27
      OBVIOUS
    <3>3. sax'.state = n /\ calls' = <<>>
      BY <3>1, <3>2, TakesQuietly
    <3>4. lexVerdict' = "OK" /\ tokens' = <<>> /\ lex' = [state |-> n, text |-> lex.text]
      BY <3>1, TakesGo
    <3>5. QED
      BY <1>6, <3>2, <3>3, <3>4, LexStateGroups, Matches, SaxStates
  <2>7. CASE SaxBegins(r, c)
    <3>1. PICK n \in InNumber, room \in {5, RSTRING_DEFAULT} :
            NumberBegins(c, LexStateOf(n)) /\ Quietly(r, n, Begun(room, c))
      BY <2>7 DEF SaxBegins
    <3>2. sax'.state = n /\ sax'.temp = Begun(room, c) /\ calls' = <<>>
      BY <3>1, SaxStates, TakesQuietly
    <3>3. lexVerdict' = "OK" /\ tokens' = <<>> /\ lex' = [state |-> LexStateOf(n), text |-> Begin(c)]
      BY <2>2, <3>1, RootForms, TakesGo
    <3>4. TextsAbreast'
      <4>1. Abreast(n, Begun(room, c), <<c>>)
        BY <3>1, RcSizes, AbreastBegins
      <4>2. lex'.text.text = <<c>>
        BY <3>3, BeginKeeps
      <4>3. QED
        BY <3>2, <4>1, <4>2 DEF TextsAbreast
    <3>5. QED
      BY <3>2, <3>3, <3>4, Matches
  <2>8. QED
    BY <1>0, <2>1, <2>3, <2>4, <2>5, <2>6, <2>7 DEF SaxOutside
<1>3. CASE sax.state \in 7..16
  <2>1. SaxInLiteral(r, sax, jsf, c)
    BY <1>1, <1>3, LiteralCharOf
  <2>2. lex.state = sax.state /\ lex.state \in 7..16 /\ lex.text = NULL
    BY <1>3, LexStateGroups DEF LexTyped, InString, InNumber
  <2>3. /\ c = LiteralLetter(lex.state)
        /\ \/ lex.state \in {9, 13, 16} /\ LexChar(lex, c) = Emit(LiteralToken(lex.state), NULL)
           \/ lex.state \notin {9, 13, 16} /\ LexChar(lex, c) = Go(lex.state + 1, NULL)
    BY <1>0, <2>1, <2>2, LiteralChar DEF SaxInLiteral
  <2>4. CASE sax.state \in {9, 13, 16}
    <3>1. PICK call \in Callbacks : call = CallOf(LiteralToken(sax.state), 1) /\ Calls(r, jsf, 0, sax.temp, call)
      BY <1>0, <2>1, <2>4 DEF SaxInLiteral
    <3>2. 0 \in Outside
      BY DEF Outside
    <3>3. sax'.state = 0 /\ (jsf = Callbacks => calls' = Made(call, <<>>))
      BY <3>1, <3>2, TakesCalls
    <3>4. LiteralToken(lex.state) \in {"TRUE", "FALSE", "NULL"}
      BY <2>2, <2>4 DEF LiteralToken
    <3>5. LexIdles /\ tokens' = <<Took(LiteralToken(lex.state), <<>>)>>
      BY <2>2, <2>3, <2>4, <3>4, TakesToken
    <3>6. QED
      BY <1>6, <2>2, <3>1, <3>2, <3>3, <3>4, <3>5, LexStateGroups, OneCall, SaxStates DEF LexIdles
  <2>5. CASE sax.state \notin {9, 13, 16}
    <3>1. Quietly(r, sax.state + 1, sax.temp)
      BY <1>0, <2>1, <2>5 DEF SaxInLiteral
    <3>2. sax.state + 1 \in 7..16 /\ sax.state + 1 \in 0..27
      BY <1>3, <2>5
    <3>3. sax'.state = sax.state + 1 /\ calls' = <<>>
      BY <3>1, <3>2, TakesQuietly
    <3>4. lexVerdict' = "OK" /\ tokens' = <<>> /\ lex' = [state |-> lex.state + 1, text |-> NULL]
      BY <2>2, <2>3, <2>5, TakesGo
    <3>5. QED
      BY <1>6, <2>2, <3>2, <3>3, <3>4, LexStateGroups, Matches, SaxStates
  <2>6. QED
    BY <2>4, <2>5
<1>4. CASE sax.state \in InNumber
  <2>1. SaxInNumber(r, sax, jsf, c) /\ lex.state \in InNumber
    BY <1>1, <1>4, LexStateGroups, SaxNumberChar
  <2>5. ~Touches(sax, c) /\ Abreast(sax.state, sax.temp, lex.text.text) /\ lex.text.text \in Seq(ReaderChars)
        /\ HasRoom(lex.text)
    BY <1>4, <2>1 DEF SaxTakes, TextsAbreast, LexTyped, HasRoom
  <2>2. CASE SaxEnds(r, sax, jsf, c)
    <3>1. /\ LexIdles
          /\ tokens' = IF c \in Space THEN <<Took("NUMBER", lex.text.text)>>
                       ELSE <<Took("NUMBER", lex.text.text), Took(TokenOf(c), <<>>)>>
      BY <2>1, <2>2, NumberForms, TakesEnd DEF SaxEnds
    <3>2. sax'.state = r.state /\ r.state \in Outside /\ calls' = r.calls
      BY <2>2 DEF SaxTakes, SaxEnds
    <3>3. ASSUME jsf = Callbacks PROVE Match(calls', tokens')
      <4>1. EndCalls(r.calls, c, rcs_unwrap(sax.temp)) /\ EndsNumber(c) /\ LexStateOf(sax.state) \in MayEnd
        BY <2>2, <3>3 DEF SaxEnds
      <4>2. HasRoom(sax.temp)
        BY <1>4, <2>5, <4>1 DEF SaxSound, Touches
      <4>3. rcs_unwrap(sax.temp) = lex.text.text <=> Entire(lex.text.text)
        BY <1>4, <2>5, <4>1, <4>2, AbreastEnds
      <4>4. QED
        BY <3>1, <3>2, <4>1, <4>3, EndCallsMatch
    <3>4. QED
      BY <1>6, <3>1, <3>2, <3>3, LexStateGroups, SaxStates DEF LexIdles
  <2>3. CASE SaxGoes(r, sax, c)
    <3>1. PICK n \in InNumber : Leads(sax, c, n) /\ \E t \in TextAfter(sax, c, n) : Quietly(r, n, t)
      BY <2>3 DEF SaxGoes
    <3>2. PICK t \in TextAfter(sax, c, n) : Quietly(r, n, t)
      BY <3>1
    <3>3. sax'.state = n /\ sax'.temp = t /\ calls' = <<>>
      BY <3>2, SaxStates, TakesQuietly
    <3>4. lexVerdict' = "OK" /\ tokens' = <<>> /\ lex' = [state |-> LexStateOf(n), text |-> rcs_catc(lex.text, c)]
      <4>1. LexChar(lex, c) = Go(LexStateOf(n), rcs_catc(lex.text, c))
        BY <2>1, <3>1, LexStateGroups, NumberForms DEF Leads
      <4>2. QED
        BY <4>1, TakesGo
    <3>5. TextsAbreast'
      <4>1. lex'.text.text = Append(lex.text.text, c)
        BY <2>5, <3>4, CatcKeeps
      <4>2. HasRoom(sax.temp) \/ (sax.state = 17 /\ n = 18)
        BY <1>4, <2>5, <3>1, <3>2, GoesOnWithRoom
      <4>3. Abreast(n, t, Append(lex.text.text, c))
        BY <1>4, <2>5, <3>1, <3>2, <4>2, AbreastGoes
      <4>4. QED
        BY <3>3, <4>1, <4>3 DEF TextsAbreast
    <3>6. QED
      BY <3>3, <3>4, <3>5, Matches
  <2>4. QED
    BY <1>0, <2>1, <2>2, <2>3 DEF SaxInNumber
<1>5. QED
  BY <1>1, <1>2, <1>3, <1>4, SaxStates

-----------------------------------------------------------------------------
(* The two readers on the same characters *)

\* Growth that fails where the answer is not looked at: the parser goes on like
\* the lexer, with a freed text.
LEMMA GrowsNotForms ==
  ASSUME SaxSound, NEW c, Grows(sax, jsf, c), Unheeded(sax)
  PROVE  /\ SaxChar(sax, jsf, c).state \in {17, 21} /\ sax.state \in InNumber /\ HasRoom(sax.temp)
         /\ Leads(sax, c, SaxChar(sax, jsf, c).state)
<1> DEFINE r == SaxChar(sax, jsf, c)
<1>1. sax.state \in {22, 23} /\ Status(sax) /\ HasRoom(sax.temp) /\ sax.state \in InNumber
  BY DEF Unheeded, SaxSound, InNumber
<1>2. r.temp # sax.temp /\ ~Begins(sax, c) /\ sax.temp # NULL
  BY DEF Grows
<1>3. Illegal(sax).temp = sax.temp /\ \A n : To(sax, n).temp = sax.temp /\ To(sax, n).state = n
  BY <1>1, AnswerForms DEF Quietly, Answer, To, Ret, Illegal
<1>4. CASE sax.state = 22
  <2>1. r = SaxExponentSign(sax, c)
    BY <1>4 DEF SaxChar
  <2>2. c \in Digit /\ r = Grow(sax, c, 21)
    BY <1>2, <1>3, <2>1 DEF SaxExponentSign
  <2>3. \A t : To([sax EXCEPT !.temp = t], 21).state = 21
    <3>1. \A t : Quietly(To([sax EXCEPT !.temp = t], 21), 21, t)
      BY <1>1, AnswerForms, Zenon
    <3>2. \A z, t : Quietly(z, 21, t) => z.state = 21
      BY DEF Quietly, Answer
    <3>3. QED
      BY <3>1, <3>2, Zenon
  <2>4. r.state = 21
    BY <1>2, <1>3, <2>2, <2>3 DEF Grow, Keep
  <2>5. QED
    BY <1>1, <1>4, <2>2, <2>4, LexStates DEF Leads, NumberGoes
<1>5. CASE sax.state = 23
  <2>1. r = SaxMinus(sax, c)
    BY <1>5 DEF SaxChar
  <2>2. c \in Digit \ {"0"} => sax.limit
    BY <1>2, <1>5 DEF Begins
  <2>3. c = "0" /\ r = To([sax EXCEPT !.temp = rcs_catc(sax.temp, c)], 17)
    BY <1>2, <1>3, <2>1, <2>2 DEF SaxMinus, Digit
  <2>4. r.state = 17
    <3>1. \A t : Quietly(To([sax EXCEPT !.temp = t], 17), 17, t)
      BY <1>1, AnswerForms, Zenon
    <3>2. \A z, t : Quietly(z, 17, t) => z.state = 17
      BY DEF Quietly, Answer
    <3>3. QED
      BY <2>3, <3>1, <3>2, Zenon
  <2>5. QED
    BY <1>1, <1>5, <2>3, <2>4, LexStates DEF Leads, NumberGoes
<1>6. QED
  BY <1>1, <1>4, <1>5

\* In step as long as the parser accepts and is in no string, unless the lexer
\* has run out of memory.
InStep ==
  saxVerdict = "OK" /\ sax.state \notin InString /\ lexVerdict # "MEMORY" =>
    lexVerdict = "OK" /\ lex.state = LexStateOf(sax.state) /\ TextsAbreast

ReadersInv == LexInv /\ SaxTyped /\ InStep /\ SaxSeesTokens

\* A character both take, or the parser as if it had: the lexer has memory, and
\* was in step.
LEMMA WasInStep ==
  ASSUME ReadersInv, NEW c, saxVerdict = "OK", sax.state \notin InString, lexVerdict' # "MEMORY",
         (lexVerdict = "OK" /\ (LexTakes(c) \/ LexRunsOut(c))) \/ LexStopped
  PROVE  /\ lexVerdict = "OK" /\ LexTakes(c) /\ LexTyped
         /\ lex.state = LexStateOf(sax.state) /\ TextsAbreast
<1>1. lexVerdict # "MEMORY" /\ ~LexRunsOut(c)
  BY DEF LexRunsOut, LexStopped, LexTakes
<1>2. lexVerdict = "OK" /\ lex.state = LexStateOf(sax.state) /\ TextsAbreast
  BY <1>1 DEF ReadersInv, InStep
<1>3. LexTakes(c)
  BY <1>1, <1>2 DEF LexStopped
<1>4. LexTyped
  BY <1>1 DEF ReadersInv, LexInv, LexSound
<1>5. QED
  BY <1>2, <1>3, <1>4

\* What a character does with both.
LEMMA FeedKeeps ==
  ASSUME ReadersInv, NEW c \in alphabet.chars, Feed(c)
  PROVE  ReadersInv'
<1>1. c \in ReaderChars
  BY DEF ReadersInv, LexInv, ReaderChars
<1>2. LexInv'
  <2>1. ReadersNext
    BY DEF ReadersNext
  <2>2. QED
    BY <2>1, LexInvStep DEF ReadersInv
<1>3. /\ (saxVerdict = "OK" /\ (SaxTakes(c) \/ SaxRunsOut(c) \/ SaxStrays(c))) \/ SaxStopped
      /\ (lexVerdict = "OK" /\ (LexTakes(c) \/ LexRunsOut(c))) \/ LexStopped
      /\ jsf' = jsf
  BY DEF Feed
<1>4. CASE SaxStopped
  <2>1. SaxTyped' /\ saxVerdict' # "OK"
    BY <1>4 DEF SaxStopped, ReadersInv, SaxTyped, SaxSound, Status
  <2>2. QED
    BY <1>2, <2>1 DEF ReadersInv, InStep, SaxSeesTokens
<1>0. saxVerdict = "OK" => SaxSound /\ sax = [state |-> sax.state, limit |-> sax.limit, temp |-> sax.temp]
  BY DEF ReadersInv, SaxTyped, SaxSound, Status
<1>5. CASE saxVerdict = "OK" /\ SaxStrays(c)
  <2>1. SaxTyped' /\ saxVerdict' # "OK"
    BY <1>0, <1>5 DEF SaxStrays, SaxTyped, SaxSound, Status
  <2>2. QED
    BY <1>2, <2>1 DEF ReadersInv, InStep, SaxSeesTokens
<1>6. CASE saxVerdict = "OK" /\ (SaxBeginsNot(c) \/ (SaxGrowsNot(c) /\ ~Unheeded(sax)))
  <2>1. saxVerdict' = "MEMORY" /\ sax'.temp \in {NULL, FREED}
    <3>1. CASE SaxBeginsNot(c)
      <4>1. [sax EXCEPT !.temp = NULL].temp = NULL
        BY <1>0, <1>6
      <4>2. QED
        BY <3>1, <4>1 DEF SaxBeginsNot
    <3>2. CASE SaxGrowsNot(c) /\ ~Unheeded(sax)
      <4>1. \A n : [sax EXCEPT !.temp = FREED, !.state = n].temp = FREED
        BY <1>0, <1>6
      <4>2. sax'.temp = FREED /\ saxVerdict' = "MEMORY"
        BY <3>2, <4>1 DEF SaxGrowsNot
      <4>3. QED
        BY <4>2
    <3>3. QED
      BY <1>6, <3>1, <3>2
  <2>2. QED
    BY <1>2, <2>1 DEF ReadersInv, InStep, SaxSeesTokens, SaxTyped
<1>7. CASE saxVerdict = "OK" /\ SaxGrowsNot(c) /\ Unheeded(sax)
  <2> DEFINE n == SaxChar(sax, jsf, c).state
  <2>0. Grows(sax, jsf, c) /\ SaxSound
    BY <1>0, <1>7 DEF SaxGrowsNot
  <2>1. n \in {17, 21} /\ sax.state \in InNumber /\ HasRoom(sax.temp) /\ Leads(sax, c, n)
    BY <1>7, <2>0, GrowsNotForms
  <2>2. sax' = [state |-> n, limit |-> sax.limit, temp |-> FREED] /\ saxVerdict' = "OK" /\ calls' = <<>>
    <3>1. [sax EXCEPT !.temp = FREED, !.state = n] = [state |-> n, limit |-> sax.limit, temp |-> FREED]
      <4>1. Status(sax)
        BY <1>0, <1>7 DEF SaxSound
      <4> HIDE DEF n
      <4>2. QED
        BY <4>1, FreedForm, Zenon
    <3>2. QED
      BY <1>7, <3>1 DEF SaxGrowsNot
  <2> HIDE DEF n
  <2>3. n \in InNumber /\ sax'.state = n /\ sax'.temp = FREED /\ sax.state \notin InString
    BY <2>1, <2>2, SaxStates DEF InNumber
  <2>4. SaxTyped'
    BY <2>1, <2>2, <2>3 DEF SaxTyped, SaxSound, Status, InNumber
  <2>5. (InStep /\ SaxSeesTokens)'
    <3> SUFFICES ASSUME lexVerdict' # "MEMORY"
                 PROVE  /\ lexVerdict' = "OK" /\ lex'.state = LexStateOf(sax'.state) /\ TextsAbreast'
                        /\ Match(calls', tokens')
      BY DEF InStep, SaxSeesTokens, Match, Suits, InString
    <3>1. LexTakes(c) /\ LexTyped /\ lex.state = LexStateOf(sax.state) /\ TextsAbreast
      BY <1>3, <1>7, <2>3, WasInStep
    <3>2. lex.state \in InNumber
      BY <2>1, <3>1, LexStateGroups
    <3>3. lexVerdict' = "OK" /\ tokens' = <<>> /\ lex' = [state |-> LexStateOf(n), text |-> rcs_catc(lex.text, c)]
      <4>1. LexChar(lex, c) = Go(LexStateOf(n), rcs_catc(lex.text, c))
        BY <2>1, <2>3, <3>1, <3>2, LexStateGroups, NumberForms DEF Leads
      <4>2. QED
        BY <3>1, <4>1, TakesGo
    <3>4. HasRoom(lex.text) /\ lex.text.text \in Seq(ReaderChars)
      BY <3>1, <3>2 DEF LexTyped, HasRoom
    <3>5. Abreast(n, FREED, Append(lex.text.text, c))
      BY <1>1, <2>1, <2>3, <3>1, <3>4, AbreastGoes DEF TextsAbreast
    <3>6. TextsAbreast'
      BY <1>1, <2>3, <3>3, <3>4, <3>5, CatcKeeps DEF TextsAbreast
    <3>7. QED
      BY <2>2, <2>3, <3>3, <3>6, Matches
  <2>6. QED
    BY <1>2, <2>4, <2>5 DEF ReadersInv
<1>8. CASE saxVerdict = "OK" /\ SaxTakes(c)
  <2>1. SaxSound' /\ (sax.state \in InString /\ saxVerdict' = "OK" => sax'.state \in InString)
    BY <1>0, <1>1, <1>8, SaxTypedStep
  <2>2. SaxTyped'
    BY <1>0, <1>1, <1>8, <2>1, NoMemoryNoText DEF SaxTyped
  <2>3. (InStep /\ SaxSeesTokens)'
    <3> SUFFICES ASSUME saxVerdict' = "OK", sax'.state \notin InString, lexVerdict' # "MEMORY"
                 PROVE  /\ lexVerdict' = "OK" /\ lex'.state = LexStateOf(sax'.state) /\ TextsAbreast'
                        /\ jsf' = Callbacks => Match(calls', tokens')
      BY DEF InStep, SaxSeesTokens, Match, Suits, InString
    <3>1. sax.state \notin InString
      BY <2>1
    <3>2. LexTakes(c) /\ LexTyped /\ lex.state = LexStateOf(sax.state) /\ TextsAbreast
      BY <1>3, <1>8, <3>1, WasInStep
    <3>3. QED
      BY <1>0, <1>1, <1>3, <1>8, <3>1, <3>2, TogetherStep
  <2>4. QED
    BY <1>2, <2>2, <2>3 DEF ReadersInv
<1>9. QED
  BY <1>3, <1>4, <1>5, <1>6, <1>7, <1>8 DEF SaxRunsOut

\* The two readers keep to it.
LEMMA ReadersInvHolds == ReadersSpec => []ReadersInv
<1>1. ReadersInit => ReadersInv
  <2> SUFFICES ASSUME ReadersInit PROVE ReadersInv
    OBVIOUS
  <2>1. LexInv
    BY DEF ReadersInit, LexInv, LexSound, LexTyped, NewLexer, InString, InNumber
  <2>2. SaxTyped /\ sax.state = 0
    BY DEF ReadersInit, SaxTyped, SaxSound, Status, NewSaxy, InNumber
  <2>3. lexVerdict = "OK" /\ lex.state = 0 /\ calls = <<>> /\ tokens = <<>>
    BY DEF ReadersInit, NewLexer
  <2>4. TextsAbreast
    BY <2>2 DEF TextsAbreast, InNumber
  <2>5. QED
    BY <2>1, <2>2, <2>3, <2>4, LexStates DEF ReadersInv, InStep, SaxSeesTokens
<1>2. ReadersInv /\ [ReadersNext]_readers => ReadersInv'
  <2>1. ASSUME ReadersInv, ReadersNext PROVE ReadersInv'
    BY <2>1, FeedKeeps DEF ReadersNext
  <2>2. ASSUME ReadersInv, UNCHANGED readers PROVE ReadersInv'
    <3>1. /\ alphabet' = alphabet /\ lex' = lex /\ lexVerdict' = lexVerdict /\ tokens' = tokens
          /\ sax' = sax /\ saxVerdict' = saxVerdict /\ calls' = calls /\ jsf' = jsf
      BY <2>2 DEF readers
    <3>2. LexInv'
      BY <2>2, <3>1 DEF ReadersInv, LexInv, LexSound, LexTyped
    <3>3. SaxTyped'
      BY <2>2, <3>1 DEF ReadersInv, SaxTyped, SaxSound, Status
    <3>4. (InStep /\ SaxSeesTokens)'
      BY <2>2, <3>1 DEF ReadersInv, InStep, SaxSeesTokens, TextsAbreast
    <3>5. QED
      BY <3>2, <3>3, <3>4 DEF ReadersInv
  <2>3. QED
    BY <2>1, <2>2
<1>3. QED
  BY <1>1, <1>2, PTL DEF ReadersSpec

\* For any callbacks: as long as json_saxy_parse() accepts, outside strings, the
\* lexer accepts, and with every callback set its calls are those of the tokens,
\* a number's with the whole text exactly when it is one digit or -0.
THEOREM SaxSeesTokensCorrect == ReadersSpec => []SaxSeesTokens
<1>1. ReadersInv => SaxSeesTokens
  BY DEF ReadersInv
<1>2. QED
  BY <1>1, ReadersInvHolds, PTL

\* The text of a reader that has memory stays, with its terminator, in its room,
\* but for the text json_saxy_parse() goes on with although its growth failed.
THEOREM TextFitsCorrect == ReadersSpec => []TextFits
<1>1. ReadersInv => TextFits
  <2> SUFFICES ASSUME ReadersInv PROVE TextFits
    OBVIOUS
  <2>1. lexVerdict # "MEMORY" /\ lex.text # NULL => HasRoom(lex.text)
    BY DEF ReadersInv, LexInv, LexSound, LexTyped
  <2>2. saxVerdict # "MEMORY" /\ sax.temp # NULL =>
          (sax.temp = FREED /\ sax.state \in {17, 21}) \/ HasRoom(sax.temp)
    BY DEF ReadersInv, SaxTyped, SaxSound
  <2>3. QED
    BY <2>1, <2>2 DEF TextFits, HasRoom
<1>2. QED
  BY <1>1, ReadersInvHolds, PTL

=============================================================================
