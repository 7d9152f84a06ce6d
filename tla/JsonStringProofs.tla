-------------------------- MODULE JsonStringProofs --------------------------
(***************************************************************************)
(* Theorems about the text functions of json.c, for texts of any length.   *)
(***************************************************************************)
EXTENDS MCDocuments, JsonProofs, JsonTreeProofs

-----------------------------------------------------------------------------
(* Loops *)

\* Counting up: what holds of 0 and, of any k before n, of k + 1 too.
LEMMA Counting ==
  ASSUME NEW n \in Nat, NEW P, 0 \in P, \A k \in 0..n - 1 : k \in P => k + 1 \in P
  PROVE  \A k \in 0..n : k \in P
<1> DEFINE missing == {k \in 0..n : k \notin P}
<1>1. SUFFICES ASSUME missing # {}
               PROVE  FALSE
  OBVIOUS
<1>2. missing \in SUBSET Nat
  OBVIOUS
<1>3. PICK k \in missing : \A j \in missing : k =< j
  <2> HIDE DEF missing
  <2> QED  BY <1>1, <1>2, LeastNumber
<1>4. k \in Nat /\ k # 0 /\ k - 1 \in 0..n - 1 /\ k - 1 \notin missing
  BY <1>3
<1>5. k - 1 \in P /\ k \notin P /\ (k - 1) + 1 = k
  BY <1>3, <1>4
<1> QED  BY <1>4, <1>5

\* Turns from one member of a set to another, and what they lead to one after the other.
Turns(F, n, S) == F \in [S \X (1..n) -> S]
Run(f, F, n, S, start) == f \in [0..n -> S] /\ f[0] = start /\ \A k \in 1..n : f[k] = F[<<f[k - 1], k>>]

\* What is computed a turn at a time exists.
LEMMA TurnsExist ==
  ASSUME NEW n \in Nat, NEW S, NEW start \in S, NEW F, Turns(F, n, S)
  PROVE  \E f : Run(f, F, n, S, start)
<1>0. F \in [S \X (1..n) -> S]
  BY DEF Turns
<1> DEFINE Upto(f, m) == f[0] = start /\ \A k \in 1..m : f[k] = F[<<f[k - 1], k>>]
           P == {m \in 0..n : \E f \in [0..m -> S] : Upto(f, m)}
<1>1. 0 \in P
  <2>1. \E f \in [0..0 -> S] : f[0] = start
    <3>1. [k \in 0..0 |-> start] \in [0..0 -> S] /\ [k \in 0..0 |-> start][0] = start
      OBVIOUS
    <3> QED  BY <3>1
  <2>2. PICK f \in [0..0 -> S] : f[0] = start
    BY <2>1
  <2>3. Upto(f, 0)
    BY <2>2
  <2> HIDE DEF Upto
  <2> QED  BY <2>2, <2>3
<1>2. ASSUME NEW m \in 0..n - 1, m \in P
      PROVE  m + 1 \in P
  <2>1. PICK f \in [0..m -> S] : Upto(f, m)
    BY <1>2
  <2> DEFINE last == F[<<f[m], m + 1>>]
             g    == [k \in 0..m + 1 |-> IF k = m + 1 THEN last ELSE f[k]]
  <2>2. m \in Nat /\ m + 1 \in 1..n /\ f[m] \in S
    BY <2>1
  <2>3. last \in S
    BY <1>0, <2>2
  <2>4. g \in [0..m + 1 -> S]
    BY <2>1, <2>2, <2>3
  <2>5. g[0] = start /\ g[m + 1] = last /\ \A k \in 0..m : g[k] = f[k]
    BY <2>1, <2>2
  <2> HIDE DEF g
  <2>6. ASSUME NEW k \in 1..m + 1
        PROVE  g[k] = F[<<g[k - 1], k>>]
    <3>1. CASE k = m + 1
      <4>1. k - 1 = m /\ g[m] = f[m]
        BY <2>2, <2>5, <3>1
      <4> QED  BY <2>5, <3>1, <4>1
    <3>2. CASE k \in 1..m
      <4>1. g[k] = f[k] /\ g[k - 1] = f[k - 1]
        BY <2>2, <2>5, <3>2
      <4> QED  BY <2>1, <3>2, <4>1
    <3> QED  BY <2>2, <3>1, <3>2
  <2>7. Upto(g, m + 1)
    BY <2>5, <2>6
  <2> QED  BY <2>2, <2>4, <2>7
<1>3. n \in P
  <2> HIDE DEF P
  <2>1. \A k \in 0..n : k \in P
    BY <1>1, <1>2, Counting
  <2> QED  BY <2>1
<1> QED  BY <1>3 DEF Run

\* Two functions that go on in the same way from the same start are the same.
LEMMA SameRun ==
  ASSUME NEW n \in Nat, NEW f, NEW g, f[0] = g[0], \A k \in 1..n : f[k - 1] = g[k - 1] => f[k] = g[k]
  PROVE  \A k \in 0..n : f[k] = g[k]
<1> DEFINE P == {k \in 0..n : f[k] = g[k]}
<1>1. 0 \in P
  OBVIOUS
<1>2. ASSUME NEW k \in 0..n - 1, k \in P
      PROVE  k + 1 \in P
  <2>1. k + 1 \in 1..n /\ (k + 1) - 1 = k /\ f[k] = g[k]
    BY <1>2
  <2>2. f[k + 1] = g[k + 1]
    BY <2>1
  <2> QED  BY <2>1, <2>2
<1>3. \A k \in 0..n : k \in P
  <2> HIDE DEF P
  <2> QED  BY <1>1, <1>2, Counting
<1> QED  BY <1>3

-----------------------------------------------------------------------------
(* The texts that grow *)

Rcs(C) == [text : Seq(C), max : Nat]

\* A character more, and the room for it.
LEMMA CatcIs ==
  ASSUME NEW C, NEW r \in Rcs(C), NEW c \in C
  PROVE  /\ rcs_catc(r, c) \in Rcs(C) /\ rcs_catc(r, c).text = Append(r.text, c)
         /\ Fits(r) => Fits(rcs_catc(r, c))
<1>1. PICK t \in Seq(C), m \in Nat : r = [text |-> t, max |-> m]
  BY DEF Rcs
<1>2. Append(t, c) \in Seq(C) /\ Len(Append(t, c)) = Len(t) + 1 /\ Len(t) \in Nat
  BY AppendProperties, LenProperties
<1> DEFINE max == IF m =< Len(t) THEN m + RSTRING_INCSTEP ELSE m
           Longer(x) == [x EXCEPT !.text = Append(@, c)]
<1>3. rcs_catc(r, c) = [text |-> Append(t, c), max |-> max]
  <2>1. rcs_resize(r, m + RSTRING_INCSTEP) = [text |-> t, max |-> m + RSTRING_INCSTEP]
    BY <1>1 DEF rcs_resize
  <2>2. \A k : Longer([text |-> t, max |-> k]) = [text |-> Append(t, c), max |-> k]
    <3>1. \A k, x : [[text |-> t, max |-> k] EXCEPT !.text = x] = [text |-> x, max |-> k]
      OBVIOUS
    <3>2. \A k : [text |-> t, max |-> k].text = t
      OBVIOUS
    <3> QED  BY <3>1, <3>2, Zenon
  <2>3. rcs_catc(r, c) = Longer(IF m =< Len(t) THEN rcs_resize(r, m + RSTRING_INCSTEP) ELSE r)
    BY <1>1 DEF rcs_catc
  <2> HIDE DEF Longer
  <2>4. CASE m =< Len(t)
    BY <1>1, <2>1, <2>2, <2>3, <2>4
  <2>5. CASE ~(m =< Len(t))
    BY <1>1, <2>2, <2>3, <2>5
  <2> QED  BY <2>4, <2>5
<1>4. max \in Nat /\ (Len(t) =< m => Len(t) + 1 =< max)
  BY <1>2, RcSizes
<1> HIDE DEF max
<1>5. rcs_catc(r, c) \in Rcs(C)
  BY <1>2, <1>3, <1>4 DEF Rcs
<1>6. rcs_catc(r, c).text = Append(r.text, c)
  BY <1>1, <1>3
<1> QED  BY <1>1, <1>2, <1>3, <1>4, <1>5, <1>6 DEF Fits, rcs_length

\* A text more, and the room for it.
LEMMA CatcsIs ==
  ASSUME NEW C, NEW r \in Rcs(C), NEW s \in Seq(C)
  PROVE  /\ rcs_catcs(r, s) \in Rcs(C) /\ rcs_catcs(r, s).text = r.text \o s
         /\ Fits(r) => Fits(rcs_catcs(r, s))
<1>1. PICK t \in Seq(C), m \in Nat : r = [text |-> t, max |-> m]
  BY DEF Rcs
<1>2. t \o s \in Seq(C) /\ Len(t \o s) = Len(t) + Len(s) /\ Len(t) \in Nat /\ Len(s) \in Nat
  BY ConcatProperties, LenProperties
<1> DEFINE max == IF m < Len(t) + Len(s) THEN Len(t) + Len(s) + RSTRING_INCSTEP ELSE m
           Longer(x) == [x EXCEPT !.text = @ \o s]
<1>3. rcs_catcs(r, s) = [text |-> t \o s, max |-> max]
  <2>1. rcs_resize(r, Len(t) + Len(s) + RSTRING_INCSTEP) = [text |-> t, max |-> Len(t) + Len(s) + RSTRING_INCSTEP]
    BY <1>1 DEF rcs_resize
  <2>2. \A k : Longer([text |-> t, max |-> k]) = [text |-> t \o s, max |-> k]
    <3>1. \A k, x : [[text |-> t, max |-> k] EXCEPT !.text = x] = [text |-> x, max |-> k]
      OBVIOUS
    <3>2. \A k : [text |-> t, max |-> k].text = t
      OBVIOUS
    <3> QED  BY <3>1, <3>2, Zenon
  <2>3. rcs_catcs(r, s) = Longer(IF m < Len(t) + Len(s) THEN rcs_resize(r, Len(t) + Len(s) + RSTRING_INCSTEP) ELSE r)
    BY <1>1 DEF rcs_catcs
  <2> HIDE DEF Longer
  <2>4. CASE m < Len(t) + Len(s)
    BY <1>1, <2>1, <2>2, <2>3, <2>4
  <2>5. CASE ~(m < Len(t) + Len(s))
    BY <1>1, <2>2, <2>3, <2>5
  <2> QED  BY <2>4, <2>5
<1>4. max \in Nat /\ (Len(t) =< m => Len(t) + Len(s) =< max)
  BY <1>2, RcSizes
<1> HIDE DEF max
<1>5. rcs_catcs(r, s) \in Rcs(C)
  BY <1>2, <1>3, <1>4 DEF Rcs
<1>6. rcs_catcs(r, s).text = r.text \o s
  BY <1>1, <1>3
<1> QED  BY <1>1, <1>2, <1>3, <1>4, <1>5, <1>6 DEF Fits, rcs_length

\* An empty text, whatever its room.
LEMMA CreateIs ==
  ASSUME NEW C, NEW n \in Nat
  PROVE  rcs_create(n) \in Rcs(C) /\ rcs_create(n).text = <<>> /\ Fits(rcs_create(n))
BY DEF Rcs, rcs_create, Fits, rcs_length

-----------------------------------------------------------------------------
(* What a character does to the lexer over a text *)

LexedNames == {"STRING", "NUMBER", "TRUE", "FALSE", "NULL", "INVALID"} \cup {TokenOf(c) : c \in Structural}
TokensOver(C) == Seq(LexedNames \X Seq(C))
Lexes(C) == {l \in [state : 0..24, text : Rcs(C) \cup {NULL}] :
               IF l.state \in InString \cup InNumber THEN l.text \in Rcs(C) ELSE l.text = NULL}
Scans(C) == [lex : Lexes(C), tokens : TokensOver(C)]

\* Another state; a token; a number that ended; a character that is refused.
Going(s, n, t)      == [lex |-> [state |-> n, text |-> t], tokens |-> s.tokens]
Taking(s, name, t)  == [lex |-> NewLexer, tokens |-> Append(s.tokens, <<name, t>>)]
NumberEnd(s)            == Taking(s, "NUMBER", s.lex.text.text)
Refusing(s)         == [lex |-> s.lex, tokens |-> Append(s.tokens, <<"INVALID", <<>> >>)]

LEMMA ScanGoes ==
  ASSUME NEW s, NEW c, NEW n, NEW t, LexChar(s.lex, c) = Go(n, t)
  PROVE  ScanChar(s, c) = Going(s, n, t)
<1>1. Go(n, t).used /\ Lexed(Go(n, t)) = [state |-> n, text |-> t] /\ WithToken(s.tokens, Go(n, t)) = s.tokens
  BY DEF Go, Lexed, WithToken
<1> QED  BY <1>1 DEF ScanChar, Going

LEMMA ScanTakes ==
  ASSUME NEW s, NEW c, NEW k, NEW t, LexChar(s.lex, c) = Emit(k, t), k # "none",
         k \notin {"STRING", "NUMBER"} => t = NULL
  PROVE  ScanChar(s, c) = Taking(s, k, IF k \in {"STRING", "NUMBER"} THEN t.text ELSE <<>>)
<1> DEFINE named == <<k, IF k \in {"STRING", "NUMBER"} THEN t.text ELSE <<>> >>
<1>1. Emit(k, t).used /\ Lexed(Emit(k, t)) = NewLexer
  BY DEF Emit, Lexed, NewLexer
<1>2. WithToken(s.tokens, Emit(k, t)) = Append(s.tokens, named)
  BY DEF Emit, WithToken
<1> QED  BY <1>1, <1>2 DEF ScanChar, Taking

LEMMA ScanRefuses ==
  ASSUME NEW C, NEW s \in Scans(C), NEW c, LexChar(s.lex, c) = InvalidCharacter(s.lex)
  PROVE  ScanChar(s, c) = Refusing(s)
<1>1. s.lex = [state |-> s.lex.state, text |-> s.lex.text]
  BY DEF Scans, Lexes
<1> DEFINE r == InvalidCharacter(s.lex)
<1>2. r.used /\ Lexed(r) = s.lex
  BY <1>1 DEF InvalidCharacter, Lexed
<1>3. WithToken(s.tokens, r) = Append(s.tokens, <<"INVALID", <<>> >>)
  BY DEF InvalidCharacter, WithToken
<1> QED  BY <1>2, <1>3 DEF ScanChar, Refusing

\* Outside every token.
LEMMA RootScan ==
  ASSUME NEW C, NEW s \in Scans(C), NEW c, s.lex.state = 0
  PROVE  /\ s = [lex |-> NewLexer, tokens |-> s.tokens]
         /\ \/ c \in Space /\ ScanChar(s, c) = s
            \/ c \in Structural /\ ScanChar(s, c) = Taking(s, TokenOf(c), <<>>)
            \/ c = "\"" /\ ScanChar(s, c) = Going(s, 1, rcs_create(RSTRING_DEFAULT))
            \/ c \in {"t", "f", "n"} /\ \E n \in {7, 10, 14} : ScanChar(s, c) = Going(s, n, NULL)
            \/ c \in Digit \cup {"-"} /\ \E n \in {17, 18, 19} : ScanChar(s, c) = Going(s, n, Begin(c))
            \/ /\ c \notin Space \cup Structural \cup Digit \cup {"\"", "t", "f", "n", "-"}
               /\ ScanChar(s, c) = Refusing(s)
<1>1. s = [lex |-> s.lex, tokens |-> s.tokens] /\ s.lex = [state |-> 0, text |-> NULL]
  BY DEF Scans, Lexes, InString, InNumber
<1>2. s = [lex |-> NewLexer, tokens |-> s.tokens] /\ s.lex.text = NULL
  BY <1>1 DEF NewLexer
<1>3. Going(s, 0, NULL) = s
  BY <1>1 DEF Going
<1>4. CASE c \in Space /\ LexChar(s.lex, c) = Go(0, s.lex.text)
  <2>1. ScanChar(s, c) = Going(s, 0, NULL)
    BY <1>2, <1>4, ScanGoes
  <2> QED  BY <1>2, <1>3, <1>4, <2>1
<1>5. CASE c \in Structural /\ LexChar(s.lex, c) = Emit(TokenOf(c), s.lex.text)
  <2>1. TokenOf(c) \notin {"none", "STRING", "NUMBER"}
    BY <1>5 DEF Structural, TokenOf
  <2> QED  BY <1>2, <1>5, <2>1, ScanTakes
<1>6. CASE c = "\"" /\ LexChar(s.lex, c) = Go(1, rcs_create(RSTRING_DEFAULT))
  <2>1. ScanChar(s, c) = Going(s, 1, rcs_create(RSTRING_DEFAULT))
    BY <1>6, ScanGoes
  <2> QED  BY <1>2, <1>6, <2>1
<1>7. ASSUME NEW n \in {7, 10, 14}, c \in {"t", "f", "n"}, LexChar(s.lex, c) = Go(n, s.lex.text)
      PROVE  ScanChar(s, c) = Going(s, n, NULL)
  BY <1>2, <1>7, ScanGoes
<1>8. ASSUME NEW n \in {17, 18, 19}, c \in Digit \cup {"-"}, LexChar(s.lex, c) = Go(n, Begin(c))
      PROVE  ScanChar(s, c) = Going(s, n, Begin(c))
  BY <1>8, ScanGoes
<1>9. CASE c \notin Space \cup Structural \cup Digit \cup {"\"", "t", "f", "n", "-"} /\ LexChar(s.lex, c) = InvalidCharacter(s.lex)
  BY <1>2, <1>9, ScanRefuses
<1>10. "0" \in Digit
  BY DEF Digit
<1> QED  BY <1>2, <1>4, <1>5, <1>6, <1>7, <1>8, <1>9, <1>10, RootChar

\* The state a string goes to.
Next1(state, c) ==
  IF state = 1 /\ c = "\\" THEN 2 ELSE IF state = 2 /\ c = "u" THEN 3 ELSE IF state \in 3..5 THEN state + 1 ELSE 1

\* In a string.
LEMMA StringScan ==
  ASSUME NEW C, NEW s \in Scans(C), NEW c, s.lex.state \in InString
  PROVE  \/ s.lex.state = 1 /\ c = "\"" /\ ScanChar(s, c) = Taking(s, "STRING", s.lex.text.text)
         \/ /\ s.lex.state # 1 \/ c # "\""
            /\ StringGoes(s.lex.state, c, Next1(s.lex.state, c)) /\ Next1(s.lex.state, c) \in InString
            /\ ScanChar(s, c) = Going(s, Next1(s.lex.state, c), rcs_catc(s.lex.text, c))
         \/ (s.lex.state # 1 \/ c # "\"") /\ ScanChar(s, c) = Refusing(s)
<1>1. CASE s.lex.state = 1
  <2>1. LexChar(s.lex, c) = LexString(s.lex, c)
    BY <1>1 DEF LexChar
  <2>2. CASE c = "\""
    <3>1. LexString(s.lex, c) = Emit("STRING", s.lex.text)
      BY <2>2 DEF LexString, Control, Space
    <3> QED  BY <1>1, <2>1, <2>2, <3>1, ScanTakes
  <2>3. CASE c = "\\"
    <3>1. LexString(s.lex, c) = Go(2, rcs_catc(s.lex.text, c))
      BY <2>3 DEF LexString, Control, Space
    <3>2. ScanChar(s, c) = Going(s, 2, rcs_catc(s.lex.text, c))
      BY <2>1, <3>1, ScanGoes
    <3>3. Next1(1, c) = 2 /\ StringGoes(1, c, 2) /\ 2 \in InString /\ c # "\""
      BY <2>3 DEF StringGoes, Next1, InString
    <3> QED  BY <1>1, <3>2, <3>3
  <2>4. CASE c \notin {"\"", "\\"}
    <3>1. \/ LexString(s.lex, c) = InvalidCharacter(s.lex)
          \/ LexString(s.lex, c) = Go(1, rcs_catc(s.lex.text, c))
      BY <2>4 DEF LexString
    <3>2. \/ ScanChar(s, c) = Refusing(s)
          \/ ScanChar(s, c) = Going(s, 1, rcs_catc(s.lex.text, c))
      BY <2>1, <3>1, ScanGoes, ScanRefuses
    <3>3. Next1(1, c) = 1 /\ StringGoes(1, c, 1) /\ 1 \in InString /\ c # "\""
      <4>1. c # "\\" /\ c # "\""
        BY <2>4
      <4>2. 1 # 2 /\ 1 \notin 3..5 /\ 1 \in InString
        BY DEF InString
      <4> QED  BY <4>1, <4>2, Zenon DEF StringGoes, Next1
    <3> QED  BY <1>1, <3>2, <3>3
  <2> QED  BY <2>2, <2>3, <2>4
<1>2. CASE s.lex.state = 2
  <2>1. LexChar(s.lex, c) = LexEscape(s.lex, c)
    BY <1>2 DEF LexChar
  <2>2. CASE c = "u"
    <3>1. LexEscape(s.lex, c) = Go(3, rcs_catc(s.lex.text, c))
      BY <2>2 DEF LexEscape
    <3>2. Next1(2, c) = 3 /\ StringGoes(2, c, 3) /\ 3 \in InString
      BY <2>2 DEF StringGoes, Next1, InString
    <3> QED  BY <1>2, <2>1, <3>1, <3>2, ScanGoes
  <2>3. CASE c \in {"\\", "\"", "/", "b", "f", "n", "r", "t"}
    <3>1. LexEscape(s.lex, c) = Go(1, rcs_catc(s.lex.text, c))
      BY <2>3 DEF LexEscape
    <3>2. Next1(2, c) = 1 /\ StringGoes(2, c, 1) /\ 1 \in InString
      <4>1. c # "u"
        BY <2>3
      <4>2. 1 # 2 /\ 2 \notin 3..5 /\ 1 \in InString
        BY DEF InString
      <4> QED  BY <2>3, <4>1, <4>2, Zenon DEF StringGoes, Next1
    <3> QED  BY <1>2, <2>1, <3>1, <3>2, ScanGoes
  <2>4. CASE c \notin {"\\", "\"", "/", "b", "f", "n", "r", "t", "u"}
    <3>1. LexEscape(s.lex, c) = InvalidCharacter(s.lex)
      BY <2>4 DEF LexEscape
    <3> QED  BY <1>2, <2>1, <3>1, ScanRefuses
  <2> QED  BY <2>2, <2>3, <2>4
<1>3. CASE s.lex.state \in 3..6
  <2>1. LexChar(s.lex, c) = LexUnicode(s.lex, c)
    BY <1>3 DEF LexChar
  <2>2. CASE c \notin Hex
    <3>1. LexUnicode(s.lex, c) = InvalidCharacter(s.lex)
      BY <2>2 DEF LexUnicode
    <3>2. s.lex.state # 1
      BY <1>3
    <3> QED  BY <2>1, <3>1, <3>2, ScanRefuses
  <2>3. CASE c \in Hex
    <3>1. Next1(s.lex.state, c) = IF s.lex.state = 6 THEN 1 ELSE s.lex.state + 1
      BY <1>3 DEF Next1
    <3>2. LexUnicode(s.lex, c) = Go(Next1(s.lex.state, c), rcs_catc(s.lex.text, c))
      BY <2>3, <3>1 DEF LexUnicode
    <3>3. Next1(s.lex.state, c) \in InString
      BY <1>3, <3>1 DEF InString
    <3>4. StringGoes(s.lex.state, c, Next1(s.lex.state, c))
      <4>1. CASE s.lex.state = 6
        BY <2>3, <3>1, <4>1, Zenon DEF StringGoes
      <4>2. CASE s.lex.state \in 3..5
        <5>1. s.lex.state # 6
          BY <4>2
        <5> QED  BY <2>3, <3>1, <4>2, <5>1, Zenon DEF StringGoes
      <4> QED  BY <1>3, <4>1, <4>2
    <3>5. ScanChar(s, c) = Going(s, Next1(s.lex.state, c), rcs_catc(s.lex.text, c))
      BY <2>1, <3>2, ScanGoes
    <3>6. s.lex.state # 1
      BY <1>3
    <3> QED  BY <3>3, <3>4, <3>5, <3>6
  <2> QED  BY <2>2, <2>3
<1>4. s.lex.state = 1 \/ s.lex.state = 2 \/ s.lex.state \in 3..6
  BY DEF InString
<1> QED  BY <1>1, <1>2, <1>3, <1>4

\* In a literal.
LEMMA LiteralScan ==
  ASSUME NEW C, NEW s \in Scans(C), NEW c, s.lex.state \in 7..16
  PROVE  \/ ScanChar(s, c) = Refusing(s) /\ c # LiteralLetter(s.lex.state)
         \/ /\ c = LiteralLetter(s.lex.state)
            /\ \/ \E k \in {"TRUE", "FALSE", "NULL"} : ScanChar(s, c) = Taking(s, k, <<>>)
               \/ \E n \in 7..16 : ScanChar(s, c) = Going(s, n, NULL)
<1>1. s.lex.text = NULL
  BY DEF Scans, Lexes, InString, InNumber
<1>2. CASE c # LiteralLetter(s.lex.state) /\ LexChar(s.lex, c) = InvalidCharacter(s.lex)
  BY <1>2, ScanRefuses
<1>3. CASE c = LiteralLetter(s.lex.state) /\ s.lex.state \in {9, 13, 16} /\ LexChar(s.lex, c) = Emit(LiteralToken(s.lex.state), s.lex.text)
  <2>1. LiteralToken(s.lex.state) \in {"TRUE", "FALSE", "NULL"}
    BY <1>3 DEF LiteralToken
  <2> QED  BY <1>1, <1>3, <2>1, ScanTakes
<1>4. CASE c = LiteralLetter(s.lex.state) /\ s.lex.state \notin {9, 13, 16} /\ LexChar(s.lex, c) = Go(s.lex.state + 1, s.lex.text)
  <2>1. s.lex.state + 1 \in 7..16
    BY <1>4
  <2> QED  BY <1>1, <1>4, <2>1, ScanGoes
<1> QED  BY <1>2, <1>3, <1>4, LiteralChar

\* In a number.
LEMMA NumberScan ==
  ASSUME NEW C, NEW s \in Scans(C), NEW c, s.lex.state \in InNumber
  PROVE  \/ s.lex.state \in MayEnd /\ c \in Space /\ ScanChar(s, c) = NumberEnd(s)
         \/ s.lex.state \in MayEnd /\ c \in {"]", "}", ","} /\ ScanChar(s, c) = ScanChar(NumberEnd(s), c)
         \/ ScanChar(s, c) = Refusing(s) /\ (s.lex.state \notin MayEnd \/ ~EndsNumber(c))
         \/ \E n \in InNumber : NumberGoes(s.lex.state, c, n) /\ ScanChar(s, c) = Going(s, n, rcs_catc(s.lex.text, c))
<1>1. CASE s.lex.state \in MayEnd /\ EndsNumber(c) /\ LexChar(s.lex, c) = EmitNumber(s.lex, c)
  <2>1. CASE c \in Space
    <3>1. LexChar(s.lex, c) = Emit("NUMBER", s.lex.text)
      BY <1>1, <2>1 DEF EmitNumber, Emit
    <3> QED  BY <1>1, <2>1, <3>1, ScanTakes DEF NumberEnd
  <2>2. CASE c \in {"]", "}", ","}
    <3> DEFINE first == LexChar(s.lex, c)
    <3>1. /\ ~first.used /\ Lexed(first) = NewLexer
          /\ WithToken(s.tokens, first) = Append(s.tokens, <<"NUMBER", s.lex.text.text>>)
      <4>1. c \notin Space
        BY <2>2 DEF Space
      <4>2. first.used = (c \in Space) /\ first.token = "NUMBER" /\ first.state = 0 /\ first.text = s.lex.text
        BY <1>1 DEF EmitNumber, Emit
      <4> HIDE DEF first
      <4> QED  BY <4>1, <4>2 DEF Lexed, WithToken, NewLexer
    <3>2. LexChar(NewLexer, c) = Emit(TokenOf(c), NULL)
      <4>1. c \in Structural /\ c \notin Space
        BY <2>2 DEF Structural, Space
      <4>2. LexChar(NewLexer, c) = LexRoot(NewLexer, c)
        BY DEF LexChar, NewLexer
      <4>3. LexRoot(NewLexer, c) = Emit(TokenOf(c), NewLexer.text)
        BY <2>2, <4>1 DEF LexRoot, Structural, Digit
      <4> QED  BY <4>2, <4>3 DEF NewLexer
    <3>3. TokenOf(c) \notin {"none", "STRING", "NUMBER"}
      BY <2>2 DEF TokenOf
    <3>4. ScanChar(NumberEnd(s), c) = Taking(NumberEnd(s), TokenOf(c), <<>>)
      <4>1. NumberEnd(s).lex = NewLexer
        BY DEF NumberEnd, Taking
      <4> QED  BY <3>2, <3>3, <4>1, ScanTakes
    <3> DEFINE second == Emit(TokenOf(c), NULL)
    <3>5. Lexed(second) = NewLexer /\ \A ts : WithToken(ts, second) = Append(ts, <<TokenOf(c), <<>> >>)
      BY <3>3 DEF Emit, Lexed, WithToken, NewLexer
    <3> HIDE DEF first, second
    <3>6. ScanChar(s, c) = [lex |-> Lexed(second), tokens |-> WithToken(WithToken(s.tokens, first), second)]
      <4>1. ScanChar(s, c) = [lex |-> Lexed(LexChar(Lexed(first), c)),
                              tokens |-> WithToken(WithToken(s.tokens, first), LexChar(Lexed(first), c))]
        BY <3>1 DEF ScanChar, first
      <4> QED  BY <3>1, <3>2, <4>1 DEF second
    <3>7. ScanChar(s, c) = [lex |-> NewLexer, tokens |-> Append(Append(s.tokens, <<"NUMBER", s.lex.text.text>>), <<TokenOf(c), <<>> >>)]
      BY <3>1, <3>5, <3>6
    <3> QED  BY <1>1, <2>2, <3>4, <3>7 DEF NumberEnd, Taking
  <2> QED  BY <1>1, <2>1, <2>2 DEF EndsNumber
<1>2. CASE (s.lex.state \notin MayEnd \/ ~EndsNumber(c)) /\ LexChar(s.lex, c) = InvalidCharacter(s.lex)
  BY <1>2, ScanRefuses
<1>3. ASSUME NEW n \in InNumber, NumberGoes(s.lex.state, c, n), LexChar(s.lex, c) = Go(n, rcs_catc(s.lex.text, c))
      PROVE  ScanChar(s, c) = Going(s, n, rcs_catc(s.lex.text, c))
  BY <1>3, ScanGoes
<1> QED  BY <1>1, <1>2, <1>3, NumberChar

LEMMA NewScanTyped == ASSUME NEW C PROVE NewScan \in Scans(C)
<1>1. NewLexer \in Lexes(C)
  BY DEF NewLexer, Lexes, InString, InNumber
<1>2. <<>> \in TokensOver(C)
  BY EmptySeq DEF TokensOver
<1> QED  BY <1>1, <1>2 DEF NewScan, Scans

LEMMA GoingTyped ==
  ASSUME NEW C, NEW s \in Scans(C), NEW n \in 0..24, NEW t,
         IF n \in InString \cup InNumber THEN t \in Rcs(C) ELSE t = NULL
  PROVE  Going(s, n, t) \in Scans(C)
<1>1. [state |-> n, text |-> t] \in Lexes(C)
  BY DEF Lexes
<1>2. s.tokens \in TokensOver(C)
  BY DEF Scans
<1> QED  BY <1>1, <1>2 DEF Going, Scans

LEMMA TakingTyped ==
  ASSUME NEW C, NEW s \in Scans(C), NEW k \in LexedNames, NEW t \in Seq(C)
  PROVE  /\ Taking(s, k, t) \in Scans(C) /\ Taking(s, k, t).lex = NewLexer
         /\ Taking(s, k, t).tokens = Append(s.tokens, <<k, t>>)
<1>1. NewLexer \in Lexes(C)
  BY DEF NewLexer, Lexes, InString, InNumber
<1>2. s.tokens \in Seq(LexedNames \X Seq(C)) /\ <<k, t>> \in LexedNames \X Seq(C)
  BY DEF Scans, TokensOver
<1>3. Append(s.tokens, <<k, t>>) \in TokensOver(C)
  BY <1>2, AppendProperties DEF TokensOver
<1> QED  BY <1>1, <1>3 DEF Taking, Scans

LEMMA RefusingTyped ==
  ASSUME NEW C, NEW s \in Scans(C)
  PROVE  /\ Refusing(s) \in Scans(C)
         /\ Refusing(s).tokens = Append(s.tokens, <<"INVALID", <<>> >>)
<1>1. s.lex \in Lexes(C)
  BY DEF Scans
<1>2. s.tokens \in Seq(LexedNames \X Seq(C)) /\ <<"INVALID", <<>> >> \in LexedNames \X Seq(C)
  BY EmptySeq DEF Scans, TokensOver, LexedNames
<1>3. Append(s.tokens, <<"INVALID", <<>> >>) \in TokensOver(C)
  BY <1>2, AppendProperties DEF TokensOver
<1> QED  BY <1>1, <1>3 DEF Refusing, Scans

\* The text of a string or a number.
LEMMA TextTyped ==
  ASSUME NEW C, NEW s \in Scans(C), s.lex.state \in InString \cup InNumber
  PROVE  s.lex.text \in Rcs(C) /\ s.lex.text.text \in Seq(C)
BY DEF Scans, Lexes, Rcs

LEMMA EndedTyped ==
  ASSUME NEW C, NEW s \in Scans(C), s.lex.state \in MayEnd
  PROVE  NumberEnd(s) \in Scans(C) /\ NumberEnd(s).lex = NewLexer
<1>1. s.lex.state \in InNumber
  BY DEF MayEnd, InNumber
<1>2. "NUMBER" \in LexedNames
  BY DEF LexedNames
<1> QED  BY <1>1, <1>2, TextTyped, TakingTyped DEF NumberEnd

LEMMA ScanTyped ==
  ASSUME NEW C, NEW s \in Scans(C), NEW c \in C
  PROVE  ScanChar(s, c) \in Scans(C)
<1>0. s.lex.state \in 0..24 /\ <<>> \in Seq(C)
  BY EmptySeq DEF Scans, Lexes
<1>1. Refusing(s) \in Scans(C)
  BY RefusingTyped
<1>2. ASSUME NEW z \in Scans(C), z.lex.state = 0
      PROVE  ScanChar(z, c) \in Scans(C)
  <2>1. CASE c \in Structural /\ ScanChar(z, c) = Taking(z, TokenOf(c), <<>>)
    <3>1. TokenOf(c) \in LexedNames
      BY <2>1 DEF LexedNames
    <3> QED  BY <1>0, <2>1, <3>1, TakingTyped
  <2>2. CASE c = "\"" /\ ScanChar(z, c) = Going(z, 1, rcs_create(RSTRING_DEFAULT))
    <3>1. 1 \in InString /\ 1 \in 0..24 /\ rcs_create(RSTRING_DEFAULT) \in Rcs(C)
      BY CreateIs, RcSizes DEF InString
    <3> QED  BY <2>2, <3>1, GoingTyped
  <2>3. ASSUME NEW n \in {7, 10, 14}, ScanChar(z, c) = Going(z, n, NULL)
        PROVE  ScanChar(z, c) \in Scans(C)
    <3>1. n \notin InString \cup InNumber /\ n \in 0..24
      BY DEF InString, InNumber
    <3> QED  BY <2>3, <3>1, GoingTyped
  <2>4. ASSUME NEW n \in {17, 18, 19}, ScanChar(z, c) = Going(z, n, Begin(c))
        PROVE  ScanChar(z, c) \in Scans(C)
    <3>1. n \in InNumber /\ n \in 0..24
      BY DEF InNumber
    <3>2. Begin(c) \in Rcs(C)
      BY CreateIs, CatcIs, RcSizes DEF Begin
    <3> QED  BY <2>4, <3>1, <3>2, GoingTyped
  <2>5. CASE ScanChar(z, c) = Refusing(z)
    BY <2>5, RefusingTyped
  <2>6. CASE ScanChar(z, c) = z
    BY <2>6
  <2> QED  BY <1>2, <2>1, <2>2, <2>3, <2>4, <2>5, <2>6, RootScan
<1>3. CASE s.lex.state = 0
  BY <1>2, <1>3
<1>4. CASE s.lex.state \in InString
  <2>1. s.lex.text \in Rcs(C) /\ s.lex.text.text \in Seq(C) /\ "STRING" \in LexedNames
    BY <1>4, TextTyped DEF LexedNames
  <2>2. Taking(s, "STRING", s.lex.text.text) \in Scans(C)
    BY <2>1, TakingTyped
  <2>3. ASSUME NEW n \in InString
        PROVE  Going(s, n, rcs_catc(s.lex.text, c)) \in Scans(C)
    <3>1. n \in 0..24
      BY DEF InString
    <3>2. rcs_catc(s.lex.text, c) \in Rcs(C)
      BY <2>1, CatcIs
    <3> QED  BY <3>1, <3>2, GoingTyped
  <2> QED  BY <1>1, <1>4, <2>2, <2>3, StringScan
<1>5. CASE s.lex.state \in 7..16
  <2>1. ASSUME NEW k \in {"TRUE", "FALSE", "NULL"}
        PROVE  Taking(s, k, <<>>) \in Scans(C)
    <3>1. k \in LexedNames
      BY DEF LexedNames
    <3> QED  BY <1>0, <3>1, TakingTyped
  <2>2. ASSUME NEW n \in 7..16
        PROVE  Going(s, n, NULL) \in Scans(C)
    <3>1. n \notin InString \cup InNumber /\ n \in 0..24
      BY DEF InString, InNumber
    <3> QED  BY <3>1, GoingTyped
  <2> QED  BY <1>1, <1>5, <2>1, <2>2, LiteralScan
<1>6. CASE s.lex.state \in InNumber
  <2>1. s.lex.text \in Rcs(C)
    BY <1>6, TextTyped
  <2>2. ASSUME NEW n \in InNumber
        PROVE  Going(s, n, rcs_catc(s.lex.text, c)) \in Scans(C)
    <3>1. n \in 0..24
      BY DEF InNumber
    <3>2. rcs_catc(s.lex.text, c) \in Rcs(C)
      BY <2>1, CatcIs
    <3> QED  BY <3>1, <3>2, GoingTyped
  <2>3. s.lex.state \in MayEnd => NumberEnd(s) \in Scans(C) /\ NumberEnd(s).lex.state = 0
    BY EndedTyped DEF NewLexer
  <2>4. s.lex.state \in MayEnd => ScanChar(NumberEnd(s), c) \in Scans(C)
    BY <1>2, <2>3
  <2> QED  BY <1>1, <1>6, <2>2, <2>3, <2>4, NumberScan
<1> QED  BY <1>0, <1>3, <1>4, <1>5, <1>6 DEF InString, InNumber

\* What the lexer makes of a text, character by character.
LEMMA ScanTextIs ==
  ASSUME NEW C, NEW s \in Scans(C), NEW text \in Seq(C)
  PROVE  \E f \in [0..Len(text) -> Scans(C)] :
            /\ f[0] = s /\ \A k \in 1..Len(text) : f[k] = ScanChar(f[k - 1], text[k])
            /\ ScanText(s, text) = f[Len(text)]
<1> DEFINE n == Len(text)
           F == [p \in Scans(C) \X (1..n) |-> ScanChar(p[1], text[p[2]])]
           P(f) == f = [k \in 0..n |-> IF k = 0 THEN s ELSE ScanChar(f[k - 1], text[k])]
<1>1. n \in Nat
  BY LenProperties
<1>2. Turns(F, n, Scans(C))
  <2> SUFFICES ASSUME NEW p \in Scans(C) \X (1..n)
               PROVE  ScanChar(p[1], text[p[2]]) \in Scans(C)
    BY DEF Turns
  <2>1. p[1] \in Scans(C) /\ p[2] \in 1..n
    OBVIOUS
  <2>2. text[p[2]] \in C
    BY <2>1, ElementOfSeq
  <2> QED  BY <2>1, <2>2, ScanTyped
<1>3. PICK f \in [0..n -> Scans(C)] : f[0] = s /\ \A k \in 1..n : f[k] = F[<<f[k - 1], k>>]
  <2> HIDE DEF F, P, n
  <2>1. \E f : Run(f, F, n, Scans(C), s)
    BY <1>1, <1>2, TurnsExist
  <2> QED  BY <2>1 DEF Run
<1>4. \A k \in 1..n : f[k] = ScanChar(f[k - 1], text[k])
  <2> SUFFICES ASSUME NEW k \in 1..n
               PROVE  f[k] = ScanChar(f[k - 1], text[k])
    OBVIOUS
  <2>1. f[k - 1] \in Scans(C)
    BY <1>1, <1>3
  <2>2. <<f[k - 1], k>> \in Scans(C) \X (1..n)
    BY <2>1
  <2> QED  BY <1>3, <2>2
<1>5. P(f)
  BY <1>1, <1>3, <1>4
<1>6. ScanText(s, text) = (CHOOSE g : P(g))[n]
  BY DEF ScanText, For
<1>7. PICK g : P(g) /\ ScanText(s, text) = g[n]
  <2> HIDE DEF P
  <2> QED  BY <1>5, <1>6
<1>8. \A k \in 0..n : f[k] = g[k]
  <2>1. g[0] = s /\ \A k \in 1..n : g[k] = ScanChar(g[k - 1], text[k])
    BY <1>1, <1>7
  <2>2. \A k \in 1..n : f[k - 1] = g[k - 1] => f[k] = g[k]
    BY <1>4, <2>1
  <2>3. f[0] = g[0]
    BY <1>3, <2>1
  <2> HIDE DEF P, F, n
  <2> QED  BY <1>1, <2>2, <2>3, SameRun, Zenon
<1> QED  BY <1>1, <1>3, <1>4, <1>7, <1>8

LEMMA ScanTextGrows ==
  ASSUME NEW C, NEW s \in Scans(C)
  PROVE  /\ ScanText(s, <<>>) = s
         /\ \A t \in Seq(C) : ScanText(s, t) \in Scans(C)
         /\ \A t \in Seq(C), c \in C : ScanText(s, Append(t, c)) = ScanChar(ScanText(s, t), c)
<1>1. ScanText(s, <<>>) = s
  <2>1. ASSUME NEW t \in Seq(C), Len(t) = 0
        PROVE  ScanText(s, t) = s
    <3>1. PICK f : f[0] = s /\ ScanText(s, t) = f[Len(t)]
      BY ScanTextIs
    <3> QED  BY <2>1, <3>1
  <2>2. <<>> \in Seq(C) /\ Len(<<>>) = 0
    BY EmptySeq
  <2> QED  BY <2>1, <2>2
<1>2. ASSUME NEW t \in Seq(C)
      PROVE  ScanText(s, t) \in Scans(C)
  <2>1. Len(t) \in 0..Len(t)
    BY LenProperties
  <2> QED  BY <2>1, ScanTextIs
<1>3. ASSUME NEW t \in Seq(C), NEW c \in C
      PROVE  ScanText(s, Append(t, c)) = ScanChar(ScanText(s, t), c)
  <2> DEFINE n == Len(t)
  <2>1. /\ n \in Nat /\ Append(t, c) \in Seq(C) /\ Len(Append(t, c)) = n + 1
        /\ Append(t, c)[n + 1] = c /\ \A k \in 1..n : Append(t, c)[k] = t[k]
    BY AppendProperties, LenProperties
  <2>2. PICK f : /\ f[0] = s /\ \A k \in 1..n : f[k] = ScanChar(f[k - 1], t[k])
                 /\ ScanText(s, t) = f[n]
    BY ScanTextIs
  <2> DEFINE u == Append(t, c)
  <2>3. PICK g : /\ g[0] = s /\ \A k \in 1..n + 1 : g[k] = ScanChar(g[k - 1], u[k])
                 /\ ScanText(s, u) = g[n + 1]
    <3> HIDE DEF u
    <3>1. u \in Seq(C) /\ Len(u) = n + 1
      BY <2>1 DEF u
    <3> QED  BY <3>1, ScanTextIs
  <2>4. \A k \in 0..n : f[k] = g[k]
    <3>1. f[0] = g[0]
      BY <2>2, <2>3
    <3>2. \A k \in 1..n : f[k - 1] = g[k - 1] => f[k] = g[k]
      BY <2>1, <2>2, <2>3
    <3>3. n \in Nat
      BY <2>1
    <3> HIDE DEF n, u
    <3> QED  BY <3>1, <3>2, <3>3, SameRun, Zenon
  <2>5. f[n] = g[n] /\ g[n + 1] = ScanChar(g[(n + 1) - 1], u[n + 1]) /\ (n + 1) - 1 = n
    BY <2>1, <2>3, <2>4
  <2> QED  BY <2>1, <2>2, <2>3, <2>5
<1> QED  BY <1>1, <1>2, <1>3

-----------------------------------------------------------------------------
(* Escaping *)

\* What stands for a character in an escaped text.
PieceOf(c) == IF c \in {"\\", "\"", "/", "BS", "\f", "\n", "\r", "\t"} THEN <<"\\", EscapeOf(c)>> ELSE <<c>>
Escaped == Raw \cup {"b", "f", "n", "r", "t"}

\* The characters that json_escape comes through, and what it does to the text for each.
Escapable == Raw \ (Control \ Shortened)
EscapeOne(out, c) ==
  IF c \in {"\\", "\"", "/", "BS", "\f", "\n", "\r", "\t"} THEN rcs_catcs(out, <<"\\", EscapeOf(c)>>) ELSE rcs_catc(out, c)

LEMMA EscapeOneIs ==
  ASSUME NEW out \in Rcs(Escaped), NEW c \in Escapable
  PROVE  /\ EscapeOne(out, c) \in Rcs(Escaped) /\ EscapeOne(out, c).text = out.text \o PieceOf(c)
         /\ Fits(out) => Fits(EscapeOne(out, c))
<1>0. c \in Raw
  BY DEF Escapable
<1>1. CASE c \in {"\\", "\"", "/", "BS", "\f", "\n", "\r", "\t"}
  <2>1. "\\" \in Escaped /\ EscapeOf(c) \in Escaped
    BY <1>0, <1>1, Zenon DEF Escaped, EscapeOf, Raw
  <2>2. <<"\\", EscapeOf(c)>> \in Seq(Escaped)
    BY <2>1
  <2>3. EscapeOne(out, c) = rcs_catcs(out, PieceOf(c)) /\ PieceOf(c) = <<"\\", EscapeOf(c)>>
    BY <1>1, Zenon DEF EscapeOne, PieceOf
  <2> QED  BY <2>2, <2>3, CatcsIs
<1>2. CASE c \notin {"\\", "\"", "/", "BS", "\f", "\n", "\r", "\t"}
  <2>1. c \in Escaped /\ PieceOf(c) = <<c>> /\ EscapeOne(out, c) = rcs_catc(out, c)
    BY <1>0, <1>2, Zenon DEF EscapeOne, PieceOf, Escaped
  <2>2. out.text \in Seq(Escaped)
    BY DEF Rcs
  <2>3. Append(out.text, c) = out.text \o <<c>>
    BY <2>1, <2>2, AppendIsConcat
  <2> QED  BY <2>1, <2>3, CatcIs
<1> QED  BY <1>1, <1>2, Zenon

LEMMA EscapeOneOf ==
  ASSUME NEW out, NEW c
  PROVE  /\ c \in Shortened => EscapeOne(out, c) = rcs_catcs(out, <<"\\", EscapeOf(c)>>)
         /\ c \notin Shortened => EscapeOne(out, c) = rcs_catc(out, c)
BY Zenon DEF EscapeOne, Shortened

\* The states of the loop, and what a character does to them.
EscapeStates == [ended : BOOLEAN, out : Rcs(Escaped)]
Still(o)     == [ended |-> FALSE, out |-> o]

LEMMA EscapeTyped ==
  ASSUME NEW s \in EscapeStates, NEW c \in Raw
  PROVE  /\ EscapeTurn(s, c) \in EscapeStates
         /\ s.ended => EscapeTurn(s, c).ended
         /\ c \in Control \ Shortened => EscapeTurn(s, c).ended
         /\ ~s.ended /\ c \in Escapable => EscapeTurn(s, c) = Still(EscapeOne(s.out, c))
<1>1. s = [ended |-> s.ended, out |-> s.out] /\ s.ended \in BOOLEAN /\ s.out \in Rcs(Escaped)
  BY DEF EscapeStates
<1>2. CASE s.ended
  <2>1. EscapeTurn(s, c) = s
    BY <1>2 DEF EscapeTurn
  <2> QED  BY <1>2, <2>1
<1>3. CASE ~s.ended /\ c \in Control \ Shortened
  <2>1. EscapeTurn(s, c) = [s EXCEPT !.ended = TRUE]
    BY <1>3 DEF EscapeTurn
  <2>2. EscapeTurn(s, c) = [ended |-> TRUE, out |-> s.out]
    BY <1>1, <2>1
  <2>3. EscapeTurn(s, c) \in EscapeStates /\ EscapeTurn(s, c).ended
    BY <1>1, <2>2 DEF EscapeStates
  <2> QED  BY <1>3, <2>3 DEF Escapable
<1>4. CASE ~s.ended /\ c \notin Control \ Shortened
  <2>1. c \in Escapable
    BY <1>4 DEF Escapable
  <2>2. EscapeTurn(s, c) = [s EXCEPT !.out = EscapeOne(s.out, c)]
    <3>1. CASE c \in Shortened
      <4>1. EscapeTurn(s, c) = [s EXCEPT !.out = rcs_catcs(s.out, <<"\\", EscapeOf(c)>>)]
        BY <1>4, <3>1, Zenon DEF EscapeTurn
      <4> QED  BY <3>1, <4>1, EscapeOneOf, Zenon
    <3>2. CASE c \notin Shortened
      <4>1. EscapeTurn(s, c) = [s EXCEPT !.out = rcs_catc(s.out, c)]
        BY <1>4, <3>2, Zenon DEF EscapeTurn
      <4> QED  BY <3>2, <4>1, EscapeOneOf, Zenon
    <3> QED  BY <3>1, <3>2, Zenon
  <2>3. EscapeTurn(s, c) = Still(EscapeOne(s.out, c))
    <3> DEFINE o == EscapeOne(s.out, c)
    <3> HIDE DEF o
    <3>0. s.ended = FALSE
      BY <1>1, <1>4, Zenon
    <3>1. [s EXCEPT !.out = o] = [ended |-> s.ended, out |-> o]
      <4> DEFINE b == s.ended
                 x == s.out
      <4>1. s = [ended |-> b, out |-> x]
        BY <1>1, Zenon
      <4> HIDE DEF b, x
      <4>2. [s EXCEPT !.out = o] = [ended |-> b, out |-> o]
        BY <4>1
      <4> QED  BY <4>2, Zenon DEF b
    <3>2. [s EXCEPT !.out = o] = [ended |-> FALSE, out |-> o]
      BY <3>0, <3>1, Zenon
    <3> QED  BY <2>2, <3>2 DEF o, Still
  <2>4. EscapeOne(s.out, c) \in Rcs(Escaped)
    BY <1>1, <2>1, EscapeOneIs
  <2>5. EscapeTurn(s, c) \in EscapeStates
    BY <2>3, <2>4 DEF EscapeStates, Still
  <2> QED  BY <1>4, <2>3, <2>5
<1> QED  BY <1>2, <1>3, <1>4

EscapeRun(g, text) ==
  /\ g \in [0..Len(text) -> EscapeStates] /\ g[0] = Still(rcs_create(Len(text)))
  /\ \A k \in 1..Len(text) : g[k] = EscapeTurn(g[k - 1], text[k])
  /\ json_escape(text) = g[Len(text)]

LEMMA EscapeRuns ==
  ASSUME NEW text \in Seq(Raw)
  PROVE  \E g : EscapeRun(g, text)
<1> DEFINE n == Len(text)
           start == Still(rcs_create(n))
           F == [p \in EscapeStates \X (1..n) |-> EscapeTurn(p[1], text[p[2]])]
           P(f) == f = [k \in 0..n |-> IF k = 0 THEN start ELSE EscapeTurn(f[k - 1], text[k])]
<1>1. n \in Nat /\ start \in EscapeStates
  BY LenProperties, CreateIs DEF EscapeStates, Still
<1>2. Turns(F, n, EscapeStates)
  <2> SUFFICES ASSUME NEW p \in EscapeStates \X (1..n)
               PROVE  EscapeTurn(p[1], text[p[2]]) \in EscapeStates
    BY DEF Turns
  <2>1. p[1] \in EscapeStates /\ p[2] \in 1..n
    OBVIOUS
  <2>2. text[p[2]] \in Raw
    BY <2>1, ElementOfSeq
  <2> QED  BY <2>1, <2>2, EscapeTyped
<1>3. PICK f \in [0..n -> EscapeStates] : f[0] = start /\ \A k \in 1..n : f[k] = F[<<f[k - 1], k>>]
  <2> HIDE DEF F, P, n, start
  <2>1. \E f : Run(f, F, n, EscapeStates, start)
    BY <1>1, <1>2, TurnsExist
  <2> QED  BY <2>1 DEF Run
<1>4. \A k \in 1..n : f[k] = EscapeTurn(f[k - 1], text[k])
  <2> SUFFICES ASSUME NEW k \in 1..n
               PROVE  f[k] = EscapeTurn(f[k - 1], text[k])
    OBVIOUS
  <2>1. f[k - 1] \in EscapeStates
    BY <1>1, <1>3
  <2>2. <<f[k - 1], k>> \in EscapeStates \X (1..n)
    BY <2>1
  <2> QED  BY <1>3, <2>2
<1>5. P(f)
  BY <1>1, <1>3, <1>4
<1>6. json_escape(text) = (CHOOSE g : P(g))[n]
  BY DEF json_escape, For, Still
<1>7. PICK g : P(g) /\ json_escape(text) = g[n]
  <2> HIDE DEF P
  <2> QED  BY <1>5, <1>6
<1>8. \A k \in 0..n : f[k] = g[k]
  <2>1. g[0] = start /\ \A k \in 1..n : g[k] = EscapeTurn(g[k - 1], text[k])
    BY <1>1, <1>7
  <2>2. \A k \in 1..n : f[k - 1] = g[k - 1] => f[k] = g[k]
    BY <1>4, <2>1
  <2>3. f[0] = g[0]
    BY <1>3, <2>1
  <2> HIDE DEF P, F, n, start
  <2> QED  BY <1>1, <2>2, <2>3, SameRun, Zenon
<1>9. json_escape(text) = f[n]
  BY <1>1, <1>7, <1>8
<1> QED  BY <1>3, <1>4, <1>9 DEF EscapeRun

\* Behind a control character without an escape of two the loop has ended.
LEMMA ControlEnds ==
  ASSUME NEW text \in Seq(Raw), NEW i \in 1..Len(text), text[i] \in Control \ Shortened
  PROVE  json_escape(text).ended
<1> DEFINE n == Len(text)
<1>1. PICK g : EscapeRun(g, text)
  BY EscapeRuns
<1>2. /\ g \in [0..n -> EscapeStates] /\ json_escape(text) = g[n] /\ n \in Nat /\ i \in 1..n
      /\ \A k \in 1..n : g[k] = EscapeTurn(g[k - 1], text[k])
  BY <1>1, LenProperties DEF EscapeRun
<1>3. \A k \in 1..n : text[k] \in Raw
  BY ElementOfSeq
<1> HIDE DEF n
<1>4. ASSUME NEW k \in 1..n
      PROVE  (g[k - 1].ended => g[k].ended) /\ (k = i => g[k].ended)
  <2>1. g[k - 1] \in EscapeStates /\ text[k] \in Raw /\ g[k] = EscapeTurn(g[k - 1], text[k])
    BY <1>2, <1>3
  <2> QED  BY <2>1, EscapeTyped
<1> DEFINE P == {k \in 0..n : k >= i => g[k].ended}
<1>5. 0 \in P
  BY <1>2
<1>6. ASSUME NEW k \in 0..n - 1, k \in P
      PROVE  k + 1 \in P
  <2>1. k + 1 \in 1..n /\ (k + 1) - 1 = k /\ k + 1 \in 0..n /\ (k + 1 >= i => k >= i \/ k + 1 = i)
    BY <1>2
  <2>2. (g[k].ended => g[k + 1].ended) /\ (k + 1 = i => g[k + 1].ended)
    BY <1>4, <2>1
  <2>3. k >= i => g[k].ended
    BY <1>6
  <2> QED  BY <2>1, <2>2, <2>3
<1>7. \A k \in 0..n : k \in P
  <2> HIDE DEF P
  <2> QED  BY <1>2, <1>5, <1>6, Counting
<1>8. n \in 0..n /\ n >= i
  BY <1>2
<1>9. g[n].ended
  BY <1>7, <1>8
<1> QED  BY <1>2, <1>9

\* The escaped text, character by character.
LEMMA EscapeIs ==
  ASSUME NEW text \in Seq(Escapable)
  PROVE  \E f \in [0..Len(text) -> Rcs(Escaped)] :
            /\ f[0] = rcs_create(Len(text)) /\ \A k \in 1..Len(text) : f[k] = EscapeOne(f[k - 1], text[k])
            /\ json_escape(text) = Still(f[Len(text)])
<1> DEFINE n == Len(text)
<1>0. text \in Seq(Raw) /\ \A k \in 1..n : text[k] \in Escapable
  <2>1. Escapable \subseteq Raw
    BY DEF Escapable
  <2>2. \A k \in 1..n : text[k] \in Escapable
    BY ElementOfSeq
  <2> QED  BY <2>1, <2>2, SeqDef
<1>1. PICK g : EscapeRun(g, text)
  BY <1>0, EscapeRuns
<1>2. /\ g \in [0..n -> EscapeStates] /\ json_escape(text) = g[n] /\ n \in Nat
      /\ g[0] = Still(rcs_create(n)) /\ \A k \in 1..n : g[k] = EscapeTurn(g[k - 1], text[k])
  BY <1>1, LenProperties DEF EscapeRun
<1> HIDE DEF n
<1> DEFINE f == [k \in 0..n |-> g[k].out]
           P == {k \in 0..n : g[k] = Still(g[k].out)}
<1>3. ASSUME NEW o
      PROVE  Still(o).out = o /\ ~Still(o).ended
  BY DEF Still
<1>4. 0 \in P
  <2>1. g[0] = Still(g[0].out)
    BY <1>2, <1>3, Zenon
  <2> QED  BY <1>2, <2>1
<1>5. ASSUME NEW k \in 1..n, g[k - 1] = Still(g[k - 1].out)
      PROVE  g[k] = Still(EscapeOne(g[k - 1].out, text[k])) /\ g[k].out = EscapeOne(g[k - 1].out, text[k])
  <2>1. g[k - 1] \in EscapeStates /\ text[k] \in Escapable /\ text[k] \in Raw
    BY <1>0, <1>2 DEF Escapable, n
  <2>2. ~g[k - 1].ended
    BY <1>3, <1>5, Zenon
  <2>3. g[k] = Still(EscapeOne(g[k - 1].out, text[k]))
    BY <1>2, <2>1, <2>2, EscapeTyped, Zenon
  <2> QED  BY <1>3, <2>3, Zenon
<1>6. ASSUME NEW k \in 0..n - 1, k \in P
      PROVE  k + 1 \in P
  <2>1. k + 1 \in 1..n /\ (k + 1) - 1 = k /\ k + 1 \in 0..n
    BY <1>2
  <2>2. g[(k + 1) - 1] = Still(g[(k + 1) - 1].out)
    BY <1>6, <2>1
  <2>3. g[k + 1] = Still(g[k + 1].out)
    BY <1>5, <2>1, <2>2, Zenon
  <2> QED  BY <2>1, <2>3
<1>7. \A k \in 0..n : k \in P
  <2> HIDE DEF P
  <2> QED  BY <1>2, <1>4, <1>6, Counting
<1>8. f \in [0..n -> Rcs(Escaped)] /\ \A k \in 0..n : f[k] = g[k].out
  BY <1>2 DEF EscapeStates
<1>9. f[0] = rcs_create(n)
  <2>1. g[0].out = rcs_create(n) /\ 0 \in 0..n
    BY <1>2, <1>3
  <2> QED  BY <1>8, <2>1
<1>10. \A k \in 1..n : f[k] = EscapeOne(f[k - 1], text[k])
  <2> SUFFICES ASSUME NEW k \in 1..n
               PROVE  f[k] = EscapeOne(f[k - 1], text[k])
    OBVIOUS
  <2>1. k \in 0..n /\ k - 1 \in 0..n
    BY <1>2
  <2>2. g[k - 1] = Still(g[k - 1].out)
    BY <1>7, <2>1
  <2>3. g[k].out = EscapeOne(g[k - 1].out, text[k])
    BY <1>5, <2>2
  <2>4. f[k] = g[k].out /\ f[k - 1] = g[k - 1].out
    BY <1>8, <2>1
  <2> QED  BY <2>3, <2>4, Zenon
<1>11. json_escape(text) = Still(f[n])
  <2>1. n \in 0..n
    BY <1>2
  <2>2. g[n] = Still(g[n].out) /\ f[n] = g[n].out
    BY <1>7, <1>8, <2>1
  <2> QED  BY <1>2, <2>2, Zenon
<1> QED
  <2> HIDE DEF f
  <2> QED  BY <1>8, <1>9, <1>10, <1>11 DEF n

\* A loop that has read its text changes nothing in the turns that are left.
Halts(g, st, n, m) ==
  /\ m \in Nat /\ n \in 0..m /\ g[0] = st[0]
  /\ \A k \in 1..n : g[k - 1] = st[k - 1] => g[k] = st[k]
  /\ \A k \in n + 1..m : g[k - 1] = st[n] => g[k] = st[n]

LEMMA RunStops ==
  ASSUME NEW m, NEW n, NEW st, NEW g, Halts(g, st, n, m)
  PROVE  g[m] = st[n]
<1>0. /\ m \in Nat /\ n \in 0..m /\ g[0] = st[0]
      /\ \A k \in 1..n : g[k - 1] = st[k - 1] => g[k] = st[k]
      /\ \A k \in n + 1..m : g[k - 1] = st[n] => g[k] = st[n]
  BY DEF Halts
<1> DEFINE h == [k \in 0..m |-> IF k =< n THEN st[k] ELSE st[n]]
<1>1. h[0] = st[0] /\ h[m] = st[n] /\ \A k \in 0..m : h[k] = IF k =< n THEN st[k] ELSE st[n]
  BY <1>0
<1> HIDE DEF h
<1>2. ASSUME NEW k \in 1..m, g[k - 1] = h[k - 1]
      PROVE  g[k] = h[k]
  <2>1. CASE k =< n
    <3>1. h[k - 1] = st[k - 1] /\ h[k] = st[k] /\ k \in 1..n
      BY <1>0, <1>1, <2>1
    <3> QED  BY <1>0, <1>2, <3>1
  <2>2. CASE k > n
    <3>1. h[k - 1] = st[n] /\ h[k] = st[n] /\ k \in n + 1..m
      BY <1>0, <1>1, <2>2
    <3> QED  BY <1>0, <1>2, <3>1
  <2> QED  BY <1>0, <2>1, <2>2
<1>3. g[0] = h[0] /\ m \in 0..m
  BY <1>0, <1>1
<1>4. \A k \in 1..m : g[k - 1] = h[k - 1] => g[k] = h[k]
  BY <1>2
<1>5. \A k \in 0..m : g[k] = h[k]
  BY <1>0, <1>3, <1>4, SameRun
<1> QED  BY <1>1, <1>3, <1>5

\* Unescaping, by its states.
Passed(text, n, st) ==
  /\ st[0] = [pos |-> 1, out |-> <<>>]
  /\ \A k \in 1..n : ~(st[k - 1].pos > Len(text)) /\ st[k] = UnescapeTurn(text, st[k - 1])
UnescapeStates(text, n, st) == n \in 0..Len(text) /\ Passed(text, n, st) /\ st[n].pos > Len(text)

LEMMA UnescapeRuns ==
  ASSUME NEW S, NEW text \in Seq(S), NEW n \in 0..Len(text), NEW st, UnescapeStates(text, n, st)
  PROVE  Unescaped(text) = st[n]
<1> DEFINE m == Len(text)
           start == [pos |-> 1, out |-> <<>>]
           After(s) == IF s.pos > m THEN s ELSE UnescapeTurn(text, s)
           P(g) == g = [k \in 0..m |-> IF k = 0 THEN start ELSE After(g[k - 1])]
           g0 == [k \in 0..m |-> IF k =< n THEN st[k] ELSE st[n]]
<1>1. m \in Nat /\ n \in 0..m
  BY LenProperties DEF UnescapeStates
<1>2. st[0] = start /\ After(st[n]) = st[n] /\ \A k \in 1..n : After(st[k - 1]) = st[k]
  BY Zenon DEF UnescapeStates, Passed
<1>3. Unescaped(text) = (CHOOSE g : P(g))[m]
  BY DEF Unescaped, While, For
<1> HIDE DEF m, start, After
<1>4. P(g0)
  <2>1. \A k \in 0..m : g0[k] = IF k = 0 THEN start ELSE After(g0[k - 1])
    <3> SUFFICES ASSUME NEW k \in 0..m
                 PROVE  g0[k] = IF k = 0 THEN start ELSE After(g0[k - 1])
      OBVIOUS
    <3>1. CASE k = 0
      BY <1>1, <1>2, <3>1
    <3>2. CASE k \in 1..n
      <4>1. g0[k - 1] = st[k - 1] /\ g0[k] = st[k]
        BY <1>1, <3>2
      <4> QED  BY <1>2, <3>2, <4>1
    <3>3. CASE k > n /\ k # 0
      <4>1. g0[k - 1] = st[n] /\ g0[k] = st[n]
        BY <1>1, <3>3
      <4> QED  BY <1>2, <3>3, <4>1
    <3> QED  BY <1>1, <3>1, <3>2, <3>3
  <2>2. DOMAIN g0 = 0..m /\ g0 = [k \in 0..m |-> g0[k]]
    OBVIOUS
  <2> HIDE DEF g0
  <2> QED  BY <2>1, <2>2
<1>5. PICK g : P(g) /\ Unescaped(text) = g[m]
  <2> HIDE DEF P, g0
  <2> QED  BY <1>3, <1>4
<1>6. g[0] = start /\ \A k \in 1..m : g[k] = After(g[k - 1])
  BY <1>1, <1>5
<1>7. g[m] = st[n]
  <2>1. g[0] = st[0]
    BY <1>2, <1>6
  <2>2. \A k \in 1..n : g[k - 1] = st[k - 1] => g[k] = st[k]
    BY <1>1, <1>2, <1>6
  <2>3. \A k \in n + 1..m : g[k - 1] = st[n] => g[k] = st[n]
    BY <1>1, <1>2, <1>6
  <2>4. Halts(g, st, n, m)
    BY <1>1, <2>1, <2>2, <2>3, Zenon DEF Halts
  <2> HIDE DEF P
  <2> QED  BY <2>4, RunStops
<1> QED  BY <1>5, <1>7

\* What an escaped text is made of, in a string.
LEMMA StringPieces ==
  ASSUME NEW C, NEW s \in Scans(C), NEW c
  PROVE  /\ s.lex.state = 1 /\ c \notin Control \cup Space \cup {"\"", "\\"} =>
              ScanChar(s, c) = Going(s, 1, rcs_catc(s.lex.text, c))
         /\ s.lex.state = 1 /\ c = " " => ScanChar(s, c) = Going(s, 1, rcs_catc(s.lex.text, c))
         /\ s.lex.state = 1 /\ c = "\\" => ScanChar(s, c) = Going(s, 2, rcs_catc(s.lex.text, c))
         /\ s.lex.state = 2 /\ c \in {"\\", "\"", "/", "b", "f", "n", "r", "t"} =>
              ScanChar(s, c) = Going(s, 1, rcs_catc(s.lex.text, c))
<1>1. s.lex.state = 1 => LexChar(s.lex, c) = LexString(s.lex, c)
  BY DEF LexChar
<1>2. CASE s.lex.state = 1 /\ c \notin Control \cup Space \cup {"\"", "\\"}
  <2>1. LexString(s.lex, c) = Go(1, rcs_catc(s.lex.text, c))
    BY <1>2 DEF LexString
  <2>2. ScanChar(s, c) = Going(s, 1, rcs_catc(s.lex.text, c))
    BY <1>1, <1>2, <2>1, ScanGoes
  <2>3. c # " " /\ c # "\\"
    BY <1>2 DEF Space
  <2> QED  BY <1>2, <2>2, <2>3
<1>3. CASE s.lex.state = 1 /\ c = " "
  <2>1. LexString(s.lex, c) = Go(1, rcs_catc(s.lex.text, c))
    BY <1>3 DEF LexString, Control, Space
  <2>2. c # "\\" /\ c \in Space
    BY <1>3 DEF Space
  <2>3. ScanChar(s, c) = Going(s, 1, rcs_catc(s.lex.text, c))
    BY <1>1, <1>3, <2>1, ScanGoes
  <2> QED  BY <1>3, <2>2, <2>3
<1>4. CASE s.lex.state = 1 /\ c = "\\"
  <2>1. LexString(s.lex, c) = Go(2, rcs_catc(s.lex.text, c))
    BY <1>4 DEF LexString, Control, Space
  <2>2. ScanChar(s, c) = Going(s, 2, rcs_catc(s.lex.text, c))
    BY <1>1, <1>4, <2>1, ScanGoes
  <2> QED  BY <1>4, <2>2
<1>5. CASE s.lex.state = 2 /\ c \in {"\\", "\"", "/", "b", "f", "n", "r", "t"}
  <2>0. s.lex.state = 2
    BY <1>5
  <2>1. LexChar(s.lex, c) = LexEscape(s.lex, c)
    BY <2>0 DEF LexChar
  <2>2. LexEscape(s.lex, c) = Go(1, rcs_catc(s.lex.text, c))
    BY <1>5 DEF LexEscape
  <2>3. ScanChar(s, c) = Going(s, 1, rcs_catc(s.lex.text, c))
    BY <2>1, <2>2, ScanGoes
  <2> QED  BY <1>5, <2>3
<1> QED  BY <1>2, <1>3, <1>4, <1>5

LEMMA TwoMore ==
  ASSUME NEW S, NEW t \in Seq(S), NEW a \in S, NEW b \in S
  PROVE  t \o <<a, b>> = Append(Append(t, a), b)
<1>1. /\ t \o <<a, b>> \in Seq(S) /\ Len(t \o <<a, b>>) = Len(t) + 2 /\ Len(t) \in Nat
      /\ \A i \in 1..Len(t) + 2 : (t \o <<a, b>>)[i] = IF i =< Len(t) THEN t[i] ELSE <<a, b>>[i - Len(t)]
  <2>1. <<a, b>> \in Seq(S) /\ Len(<<a, b>>) = 2
    OBVIOUS
  <2> QED  BY <2>1, ConcatProperties, LenProperties
<1> DEFINE u == Append(t, a)
<1>2. u \in Seq(S) /\ Len(u) = Len(t) + 1 /\ u[Len(t) + 1] = a /\ \A i \in 1..Len(t) : u[i] = t[i]
  BY AppendProperties
<1> HIDE DEF u
<1>3. /\ Append(u, b) \in Seq(S) /\ Len(Append(u, b)) = Len(u) + 1 /\ Append(u, b)[Len(u) + 1] = b
      /\ \A i \in 1..Len(u) : Append(u, b)[i] = u[i]
  BY <1>2, AppendProperties
<1>4. ASSUME NEW i \in 1..Len(t) + 2
      PROVE  (t \o <<a, b>>)[i] = Append(u, b)[i]
  <2>1. CASE i =< Len(t)
    BY <1>1, <1>2, <1>3, <2>1
  <2>2. CASE i = Len(t) + 1
    <3>1. (t \o <<a, b>>)[i] = <<a, b>>[1]
      BY <1>1, <2>2
    <3> QED  BY <1>1, <1>2, <1>3, <2>2, <3>1
  <2>3. CASE i = Len(t) + 2
    <3>1. (t \o <<a, b>>)[i] = <<a, b>>[2]
      BY <1>1, <2>3
    <3> QED  BY <1>1, <1>2, <1>3, <2>3, <3>1
  <2>4. Len(t) \in Nat
    BY LenProperties
  <2>5. i =< Len(t) \/ i = Len(t) + 1 \/ i = Len(t) + 2
    BY <2>4
  <2> QED  BY <2>1, <2>2, <2>3, <2>5
<1>5. Len(Append(u, b)) = Len(t \o <<a, b>>) /\ \A i \in 1..Len(t \o <<a, b>>) : (t \o <<a, b>>)[i] = Append(u, b)[i]
  BY <1>1, <1>2, <1>3, <1>4
<1>6. t \o <<a, b>> = Append(u, b)
  BY <1>1, <1>3, <1>5, SeqEqual
<1> QED  BY <1>6 DEF u

\* An open string and its text.
InText(s, t) == s.lex.state = 1 /\ s.lex.text.text = t /\ s.tokens = <<>>

\* A piece of an escaped text is read as it is.
LEMMA PieceIsText ==
  ASSUME NEW t \in Seq(Escaped), NEW e \in Seq(Escaped), NEW c \in Escapable, InText(ScanText(NewScan, t), e)
  PROVE  InText(ScanText(NewScan, t \o PieceOf(c)), e \o PieceOf(c))
<1>00. c \in Raw /\ c \notin Control \ Shortened
  BY DEF Escapable
<1> DEFINE s == ScanText(NewScan, t)
<1>0. /\ s \in Scans(Escaped)
      /\ \A u \in Seq(Escaped), d \in Escaped : ScanText(NewScan, Append(u, d)) = ScanChar(ScanText(NewScan, u), d)
  BY NewScanTyped, ScanTextGrows
<1> DEFINE r == s.lex.text
<1>1. r \in Rcs(Escaped) /\ s.lex.state = 1 /\ r.text = e /\ s.tokens = <<>>
  <2>1. s.lex.state \in InString
    BY DEF InText, InString
  <2> QED  BY <1>0, <2>1, TextTyped DEF InText
<1> HIDE DEF s, r
<1>2. ASSUME NEW z, NEW n, NEW x
      PROVE  Going(z, n, x).lex.state = n /\ Going(z, n, x).lex.text = x /\ Going(z, n, x).tokens = z.tokens
  BY DEF Going
<1>3. CASE c \in {"\\", "\"", "/", "BS", "\f", "\n", "\r", "\t"}
  <2> DEFINE d == EscapeOf(c)
             z == ScanChar(s, "\\")
  <2>1. d \in {"\\", "\"", "/", "b", "f", "n", "r", "t"} /\ d \in Escaped /\ "\\" \in Escaped
    BY <1>00, <1>3 DEF EscapeOf, Escaped, Raw
  <2> HIDE DEF d
  <2>2. z = Going(s, 2, rcs_catc(r, "\\"))
    BY <1>0, <1>1, StringPieces DEF r
  <2>3. z \in Scans(Escaped)
    BY <1>0, <2>1, ScanTyped
  <2> DEFINE x == rcs_catc(r, "\\")
             y == rcs_catc(x, d)
  <2>4. x \in Rcs(Escaped) /\ x.text = Append(e, "\\") /\ y.text = Append(x.text, d)
    BY <1>1, <2>1, CatcIs
  <2> HIDE DEF x, y
  <2>5. z.lex.state = 2 /\ z.lex.text = x /\ z.tokens = <<>>
    BY <1>1, <1>2, <2>2 DEF x
  <2> HIDE DEF z
  <2>6. ScanChar(z, d) = Going(z, 1, y)
    BY <2>1, <2>3, <2>5, StringPieces DEF y
  <2>7. InText(ScanChar(z, d), Append(Append(e, "\\"), d))
    BY <1>2, <2>4, <2>5, <2>6 DEF InText
  <2>8. Append(t, "\\") \in Seq(Escaped) /\ PieceOf(c) = <<"\\", d>>
    BY <1>3, <2>1, AppendProperties DEF PieceOf, d
  <2>9. t \o <<"\\", d>> = Append(Append(t, "\\"), d) /\ e \o <<"\\", d>> = Append(Append(e, "\\"), d)
    <3>1. \A v \in Seq(Escaped), a, b \in Escaped : v \o <<a, b>> = Append(Append(v, a), b)
      BY TwoMore
    <3>2. "\\" \in Escaped /\ d \in Escaped
      BY <2>1
    <3> QED  BY <3>1, <3>2, Zenon
  <2>10. ScanText(NewScan, Append(Append(t, "\\"), d)) = ScanChar(z, d)
    BY <1>0, <2>1, <2>8 DEF z, s
  <2> QED  BY <2>7, <2>8, <2>9, <2>10
<1>4. CASE c \notin {"\\", "\"", "/", "BS", "\f", "\n", "\r", "\t"}
  <2>1. PieceOf(c) = <<c>> /\ c \in Escaped
    BY <1>00, <1>4 DEF PieceOf, Escaped
  <2>2. c = " " \/ c \notin Control \cup Space \cup {"\"", "\\"}
    BY <1>00, <1>4, Zenon DEF Raw, Shortened, Space
  <2>3. ScanChar(s, c) = Going(s, 1, rcs_catc(r, c))
    BY <1>0, <1>1, <2>2, StringPieces DEF r
  <2>4. InText(ScanChar(s, c), Append(e, c))
    <3>1. rcs_catc(r, c).text = Append(e, c)
      BY <1>1, <2>1, CatcIs
    <3> QED  BY <1>1, <1>2, <2>3, <3>1 DEF InText
  <2>5. t \o <<c>> = Append(t, c) /\ e \o <<c>> = Append(e, c)
    BY <2>1, AppendIsConcat
  <2>6. ScanText(NewScan, Append(t, c)) = ScanChar(s, c)
    BY <1>0, <2>1 DEF s
  <2> QED  BY <2>1, <2>4, <2>5, <2>6
<1> QED  BY <1>3, <1>4

\* What a character that is no backslash, and an escape of two characters, come to.
LEMMA PlainTranslated ==
  ASSUME NEW text, NEW r, text[r] # "\\"
  PROVE  Translated(text, r) = [bytes |-> <<Byte(text[r])>>, next |-> r + 1]
BY DEF Translated, Into

LEMMA ShortTranslated ==
  ASSUME NEW text, NEW r, text[r] = "\\", text[r + 1] # "u"
  PROVE  Translated(text, r) = [bytes |-> <<Short(text[r + 1])>>, next |-> r + 2]
BY DEF Translated, Into

LEMMA ShortIs ==
  ASSUME NEW c \in {"\\", "\"", "/", "BS", "\f", "\n", "\r", "\t"}
  PROVE  Short(EscapeOf(c)) = Byte(c) /\ EscapeOf(c) # "u"
<1>1. c = "BS" \/ c = "\f" \/ c = "\n" \/ c = "\r" \/ c = "\t" \/ c \in {"\\", "\"", "/"}
  BY Zenon
<1>2. CASE c = "BS"
  <2>1. EscapeOf(c) = "b"
    BY <1>2, Zenon DEF EscapeOf
  <2>2. Short("b") = 8
    BY Zenon DEF Short
  <2>3. Byte("BS") = 8
    BY Zenon DEF Byte, Digit
  <2> QED  BY <1>2, <2>1, <2>2, <2>3, Zenon
<1>3. CASE c = "\f"
  <2>1. EscapeOf(c) = "f"
    BY <1>3, Zenon DEF EscapeOf
  <2>2. Short("f") = 12
    BY Zenon DEF Short
  <2>3. Byte("\f") = 12
    BY Zenon DEF Byte, Digit
  <2> QED  BY <1>3, <2>1, <2>2, <2>3, Zenon
<1>4. CASE c = "\n"
  <2>1. EscapeOf(c) = "n"
    BY <1>4, Zenon DEF EscapeOf
  <2>2. Short("n") = 10
    BY Zenon DEF Short
  <2>3. Byte("\n") = 10
    BY Zenon DEF Byte, Digit
  <2> QED  BY <1>4, <2>1, <2>2, <2>3, Zenon
<1>5. CASE c = "\r"
  <2>1. EscapeOf(c) = "r"
    BY <1>5, Zenon DEF EscapeOf
  <2>2. Short("r") = 13
    BY Zenon DEF Short
  <2>3. Byte("\r") = 13
    BY Zenon DEF Byte, Digit
  <2> QED  BY <1>5, <2>1, <2>2, <2>3, Zenon
<1>6. CASE c = "\t"
  <2>1. EscapeOf(c) = "t"
    BY <1>6, Zenon DEF EscapeOf
  <2>2. Short("t") = 9
    BY Zenon DEF Short
  <2>3. Byte("\t") = 9
    BY Zenon DEF Byte, Digit
  <2> QED  BY <1>6, <2>1, <2>2, <2>3, Zenon
<1>7. CASE c \in {"\\", "\"", "/"}
  <2>1. EscapeOf(c) = c
    BY <1>7, Zenon DEF EscapeOf
  <2>2. Short(c) = Byte(c)
    BY <1>7, Zenon DEF Short, Byte
  <2>3. c # "u"
    BY <1>7, Zenon
  <2> QED  BY <2>1, <2>2, <2>3, Zenon
<1> QED  BY <1>1, <1>2, <1>3, <1>4, <1>5, <1>6, <1>7, Zenon

LEMMA TurnIs ==
  ASSUME NEW text, NEW r, NEW out
  PROVE  UnescapeTurn(text, [pos |-> r, out |-> out]) = [pos |-> Translated(text, r).next, out |-> out \o Translated(text, r).bytes]
<1>1. [pos |-> r, out |-> out].pos = r /\ [pos |-> r, out |-> out].out = out
  OBVIOUS
<1> QED  BY <1>1, Zenon DEF UnescapeTurn

\* A piece at a place of a text.
IsAt(text, i, p) == i \in Nat /\ i + Len(p) =< Len(text) /\ \A j \in 1..Len(p) : text[i + j] = p[j]

\* What unescaping makes of a piece at a place of a text.
LEMMA PieceIsUnescaped ==
  ASSUME NEW S, NEW text \in Seq(S), NEW c \in Raw, NEW i \in Nat, NEW out, IsAt(text, i, PieceOf(c))
  PROVE  /\ Len(PieceOf(c)) \in {1, 2}
         /\ UnescapeTurn(text, [pos |-> i + 1, out |-> out]) = [pos |-> i + Len(PieceOf(c)) + 1, out |-> out \o <<Byte(c)>>]
<1>0. i + Len(PieceOf(c)) =< Len(text) /\ \A j \in 1..Len(PieceOf(c)) : text[i + j] = PieceOf(c)[j]
  BY DEF IsAt
<1>1. CASE c \in {"\\", "\"", "/", "BS", "\f", "\n", "\r", "\t"}
  <2>1. PieceOf(c) = <<"\\", EscapeOf(c)>> /\ Len(PieceOf(c)) = 2
    BY <1>1 DEF PieceOf
  <2>2. text[i + 1] = "\\" /\ text[i + 2] = EscapeOf(c)
    BY <1>0, <2>1
  <2>3. (i + 1) + 1 = i + 2 /\ (i + 1) + 2 = i + Len(PieceOf(c)) + 1
    BY <2>1
  <2>4. Translated(text, i + 1) = [bytes |-> <<Byte(c)>>, next |-> i + Len(PieceOf(c)) + 1]
    <3>1. text[(i + 1) + 1] = EscapeOf(c)
      BY <2>2, <2>3
    <3>2. Translated(text, i + 1) = [bytes |-> <<Short(text[(i + 1) + 1])>>, next |-> (i + 1) + 2]
      BY <1>1, <2>2, <3>1, ShortIs, ShortTranslated
    <3> QED  BY <1>1, <2>3, <3>1, <3>2, ShortIs
  <2>5. UnescapeTurn(text, [pos |-> i + 1, out |-> out]) = [pos |-> i + Len(PieceOf(c)) + 1, out |-> out \o <<Byte(c)>>]
    <3>1. Translated(text, i + 1).next = i + Len(PieceOf(c)) + 1 /\ Translated(text, i + 1).bytes = <<Byte(c)>>
      BY <2>4
    <3>2. UnescapeTurn(text, [pos |-> i + 1, out |-> out])
            = [pos |-> Translated(text, i + 1).next, out |-> out \o Translated(text, i + 1).bytes]
      BY TurnIs
    <3> QED  BY <3>1, <3>2, Zenon
  <2> QED  BY <2>1, <2>5
<1>2. CASE c \notin {"\\", "\"", "/", "BS", "\f", "\n", "\r", "\t"}
  <2>1. PieceOf(c) = <<c>> /\ Len(PieceOf(c)) = 1 /\ PieceOf(c)[1] = c
    BY <1>2 DEF PieceOf
  <2>2. text[i + 1] = c
    <3>1. 1 \in 1..Len(PieceOf(c))
      BY <2>1
    <3>2. text[i + 1] = PieceOf(c)[1]
      BY <1>0, <3>1
    <3> QED  BY <2>1, <3>2
  <2>3. c # "\\"
    BY <1>2
  <2>4. (i + 1) + 1 = i + Len(PieceOf(c)) + 1
    BY <2>1
  <2>5. Translated(text, i + 1) = [bytes |-> <<Byte(c)>>, next |-> i + Len(PieceOf(c)) + 1]
    BY <2>2, <2>3, <2>4, PlainTranslated
  <2>6. UnescapeTurn(text, [pos |-> i + 1, out |-> out]) = [pos |-> i + Len(PieceOf(c)) + 1, out |-> out \o <<Byte(c)>>]
    <3>1. Translated(text, i + 1).next = i + Len(PieceOf(c)) + 1 /\ Translated(text, i + 1).bytes = <<Byte(c)>>
      BY <2>5
    <3>2. UnescapeTurn(text, [pos |-> i + 1, out |-> out])
            = [pos |-> Translated(text, i + 1).next, out |-> out \o Translated(text, i + 1).bytes]
      BY TurnIs
    <3> QED  BY <3>1, <3>2, Zenon
  <2> QED  BY <2>1, <2>6
<1> QED  BY <1>1, <1>2

\* A text that grew by pieces begins with what it was before.
Lengthened(e, n, S) == n \in Nat /\ e \in [0..n -> Seq(S)] /\ \A k \in 1..n : \E p \in Seq(S) : e[k] = e[k - 1] \o p

Prefixed(e, n) == \A k \in 0..n : Len(e[k]) =< Len(e[n]) /\ \A i \in 1..Len(e[k]) : e[n][i] = e[k][i]

LEMMA Prefixes ==
  ASSUME NEW S, NEW n, NEW e, Lengthened(e, n, S)
  PROVE  Prefixed(e, n)
<1> DEFINE IsPrefixAt(k) == Len(e[k]) =< Len(e[n]) /\ \A i \in 1..Len(e[k]) : e[n][i] = e[k][i]
           P == {j \in 0..n : IsPrefixAt(n - j)}
<1>0. n \in Nat /\ e \in [0..n -> Seq(S)] /\ \A k \in 1..n : \E p \in Seq(S) : e[k] = e[k - 1] \o p
  BY DEF Lengthened
<1>1. 0 \in P
  <2>1. n - 0 = n /\ Len(e[n]) \in Nat
    BY <1>0, LenProperties
  <2> QED  BY <1>0, <2>1
<1>2. ASSUME NEW j \in 0..n - 1, j \in P
      PROVE  j + 1 \in P
  <2> DEFINE k == n - j
  <2>1. k \in 1..n /\ k - 1 \in 0..n /\ n - (j + 1) = k - 1 /\ j + 1 \in 0..n
    BY <1>0
  <2>2. IsPrefixAt(k)
    BY <1>2
  <2> HIDE DEF k
  <2>3. PICK p \in Seq(S) : e[k] = e[k - 1] \o p
    BY <1>0, <2>1
  <2>4. e[k - 1] \in Seq(S)
    BY <1>0, <2>1
  <2>5. /\ Len(e[k]) = Len(e[k - 1]) + Len(p) /\ Len(e[k - 1]) \in Nat /\ Len(p) \in Nat
        /\ \A i \in 1..Len(e[k - 1]) : e[k][i] = e[k - 1][i]
    <3> DEFINE a == e[k - 1]
    <3> HIDE DEF a
    <3>0. a \in Seq(S)
      BY <2>4 DEF a
    <3>1. /\ Len(a \o p) = Len(a) + Len(p) /\ Len(a) \in Nat /\ Len(p) \in Nat
          /\ \A i \in 1..Len(a) : (a \o p)[i] = a[i]
      BY <3>0, ConcatProperties, LenProperties
    <3> QED  BY <2>3, <3>1 DEF a
  <2>6. Len(e[n]) \in Nat
    BY <1>0, LenProperties
  <2>7. Len(e[k - 1]) =< Len(e[n])
    BY <2>2, <2>5, <2>6
  <2>8. ASSUME NEW i \in 1..Len(e[k - 1])
        PROVE  e[n][i] = e[k - 1][i]
    <3>1. i \in 1..Len(e[k])
      BY <2>5
    <3> QED  BY <2>2, <2>5, <3>1
  <2>9. IsPrefixAt(n - (j + 1))
    BY <2>1, <2>7, <2>8
  <2> QED  BY <2>1, <2>9
<1>3. \A j \in 0..n : j \in P
  <2> HIDE DEF P
  <2> QED  BY <1>0, <1>1, <1>2, Counting
<1>4. ASSUME NEW k \in 0..n
      PROVE  IsPrefixAt(k)
  <2>1. n - k \in 0..n /\ n - (n - k) = k
    BY <1>0
  <2>2. n - k \in P
    BY <1>3, <2>1
  <2>3. IsPrefixAt(n - (n - k))
    BY <2>2
  <2> HIDE DEF IsPrefixAt
  <2> QED  BY <2>1, <2>3
<1> QED  BY <1>4 DEF Prefixed

\* One more byte.
LEMMA OneMore ==
  ASSUME NEW g, NEW k \in Nat \ {0}
  PROVE  /\ [i \in 1..k |-> g[i]] = [i \in 1..k - 1 |-> g[i]] \o <<g[k]>>
         /\ [i \in 1..k |-> g[i]] = Append([i \in 1..k - 1 |-> g[i]], g[k])
<1> DEFINE S == {g[i] : i \in 1..k}
           a == [i \in 1..k - 1 |-> g[i]]
           b == [i \in 1..k |-> g[i]]
<1>1. k - 1 \in Nat /\ k \in 1..k
  OBVIOUS
<1>2. a \in Seq(S) /\ b \in Seq(S) /\ g[k] \in S
  <2>1. a \in [1..k - 1 -> S] /\ b \in [1..k -> S]
    OBVIOUS
  <2> HIDE DEF a, b
  <2> QED  BY <1>1, <2>1, SeqDef
<1>3. Len(a) = k - 1 /\ Len(b) = k
  <2>1. DOMAIN a = 1..k - 1 /\ DOMAIN b = 1..k
    OBVIOUS
  <2> HIDE DEF a, b, S
  <2> QED  BY <1>1, <1>2, <2>1, LenProperties
<1>4. (\A i \in 1..k - 1 : a[i] = g[i]) /\ (\A i \in 1..k : b[i] = g[i])
  OBVIOUS
<1> HIDE DEF a, b, S
<1>5. /\ Append(a, g[k]) \in Seq(S) /\ Len(Append(a, g[k])) = k /\ Append(a, g[k])[k] = g[k]
      /\ \A i \in 1..k - 1 : Append(a, g[k])[i] = a[i]
  BY <1>1, <1>2, <1>3, AppendProperties
<1>6. \A i \in 1..k : b[i] = Append(a, g[k])[i]
  <2> SUFFICES ASSUME NEW i \in 1..k
               PROVE  b[i] = Append(a, g[k])[i]
    OBVIOUS
  <2>1. i = k \/ i \in 1..k - 1
    OBVIOUS
  <2> QED  BY <1>4, <1>5, <2>1
<1>7. b = Append(a, g[k])
  BY <1>2, <1>3, <1>5, <1>6, SeqEqual
<1>8. Append(a, g[k]) = a \o <<g[k]>>
  BY <1>2, AppendIsConcat
<1> QED  BY <1>7, <1>8 DEF a, b

\* The pieces of an escaped text are the texts of strings, one after the other.
LEMMA PiecesTyped ==
  ASSUME NEW c \in Raw
  PROVE  PieceOf(c) \in Seq(Escaped) /\ Len(PieceOf(c)) \in {1, 2}
<1>1. CASE c \in {"\\", "\"", "/", "BS", "\f", "\n", "\r", "\t"}
  <2>1. "\\" \in Escaped /\ EscapeOf(c) \in Escaped
    BY <1>1 DEF Escaped, EscapeOf, Raw
  <2>2. PieceOf(c) = <<"\\", EscapeOf(c)>>
    BY <1>1 DEF PieceOf
  <2>3. <<"\\", EscapeOf(c)>> \in Seq(Escaped) /\ Len(<<"\\", EscapeOf(c)>>) = 2
    BY <2>1
  <2> QED  BY <2>2, <2>3
<1>2. CASE c \notin {"\\", "\"", "/", "BS", "\f", "\n", "\r", "\t"}
  <2>1. PieceOf(c) = <<c>> /\ c \in Escaped
    BY <1>2 DEF PieceOf, Escaped
  <2>2. <<c>> \in Seq(Escaped) /\ Len(<<c>>) = 1
    BY <2>1
  <2> QED  BY <2>1, <2>2
<1> QED  BY <1>1, <1>2

LEMMA OneCharText ==
  ASSUME NEW C, NEW s \in Scans(C), NEW c \in C
  PROVE  ScanText(s, <<c>>) = ScanChar(s, c)
<1>1. PICK t \in Seq(C) : t = <<c>> /\ Len(t) = 1 /\ t[1] = c
  <2>1. <<c>> \in Seq(C) /\ Len(<<c>>) = 1 /\ <<c>>[1] = c
    OBVIOUS
  <2> QED  BY <2>1
<1>2. PICK f \in [0..Len(t) -> Scans(C)] :
         /\ f[0] = s /\ \A k \in 1..Len(t) : f[k] = ScanChar(f[k - 1], t[k])
         /\ ScanText(s, t) = f[Len(t)]
  BY ScanTextIs
<1>3. f[1] = ScanChar(f[1 - 1], t[1]) /\ 1 - 1 = 0
  BY <1>1, <1>2
<1> QED  BY <1>1, <1>2, <1>3

LEMMA OneTyped == ASSUME NEW S, NEW a \in S PROVE <<a>> \in Seq(S) /\ Len(<<a>>) = 1
OBVIOUS

\* A string begins.
LEMMA QuoteScan ==
  ASSUME NEW C, NEW s \in Scans(C), NEW c, c = "\"", s.lex.state = 0
  PROVE  ScanChar(s, c) = Going(s, 1, rcs_create(RSTRING_DEFAULT))
<1>1. c \notin Space \cup Structural \cup Digit \cup {"t", "f", "n", "-"} /\ c = "\""
  BY DEF Space, Structural, Digit
<1> QED  BY <1>1, RootScan

\* Escaping and back, of a text of any length.
LEMMA RoundTrip ==
  ASSUME NEW text \in Seq(Escapable)
  PROVE  /\ ~json_escape(text).ended
         /\ LET escaped == rcs_unwrap(json_escape(text).out)
            IN /\ TokensOf(<<"\"">> \o escaped \o <<"\"">>) = <<<<"STRING", escaped>>>>
               /\ json_unescape(escaped) = [i \in DOMAIN text |-> Byte(text[i])]
         /\ Fits(json_escape(text).out)
<1> DEFINE n == Len(text)
<1>1. PICK f \in [0..n -> Rcs(Escaped)] :
         /\ f[0] = rcs_create(n) /\ \A k \in 1..n : f[k] = EscapeOne(f[k - 1], text[k])
         /\ json_escape(text) = Still(f[n])
  BY EscapeIs
<1>2. n \in Nat /\ n \in 0..n /\ DOMAIN text = 1..n
  BY LenProperties
<1> HIDE DEF n
<1> DEFINE e == [k \in 0..n |-> f[k].text]
           piece(k) == PieceOf(text[k])
<1>3. e \in [0..n -> Seq(Escaped)] /\ (\A k \in 0..n : e[k] = f[k].text)
  BY <1>2 DEF Rcs
<1> HIDE DEF e
<1>4. ASSUME NEW k \in 1..n
      PROVE  /\ k - 1 \in 0..n /\ text[k] \in Raw /\ text[k] \in Escapable /\ piece(k) \in Seq(Escaped) /\ Len(piece(k)) \in {1, 2}
             /\ e[k] = e[k - 1] \o piece(k) /\ (Fits(f[k - 1]) => Fits(f[k]))
  <2>0. text[k] \in Escapable
    BY ElementOfSeq DEF n
  <2>1. k - 1 \in 0..n /\ f[k - 1] \in Rcs(Escaped) /\ text[k] \in Raw
    BY <1>2, <2>0 DEF Escapable
  <2>2. f[k] = EscapeOne(f[k - 1], text[k])
    BY <1>1
  <2>3. f[k].text = f[k - 1].text \o PieceOf(text[k]) /\ (Fits(f[k - 1]) => Fits(f[k]))
    BY <2>0, <2>1, <2>2, EscapeOneIs
  <2>4. k \in 0..n /\ e[k] = f[k].text /\ e[k - 1] = f[k - 1].text
    BY <1>2, <1>3, <2>1
  <2>5. piece(k) \in Seq(Escaped) /\ Len(piece(k)) \in {1, 2}
    BY <2>1, PiecesTyped
  <2> QED  BY <2>0, <2>1, <2>3, <2>4, <2>5, Zenon
<1>5. e[0] = <<>> /\ Fits(f[0])
  <2>1. f[0].text = <<>> /\ Fits(f[0])
    BY <1>1, <1>2, CreateIs
  <2> QED  BY <1>2, <1>3, <2>1
<1>6. Fits(f[n])
  <2> DEFINE P == {k \in 0..n : Fits(f[k])}
  <2>1. 0 \in P
    BY <1>2, <1>5
  <2>2. ASSUME NEW k \in 0..n - 1, k \in P
        PROVE  k + 1 \in P
    <3>1. k + 1 \in 1..n /\ (k + 1) - 1 = k
      BY <1>2
    <3>2. Fits(f[(k + 1) - 1]) => Fits(f[k + 1])
      BY <1>4, <3>1
    <3>3. Fits(f[k + 1]) /\ k + 1 \in 0..n
      BY <1>2, <2>2, <3>1, <3>2
    <3> QED  BY <3>3
  <2>3. \A k \in 0..n : k \in P
    <3> HIDE DEF P
    <3> QED  BY <1>2, <2>1, <2>2, Counting
  <2> QED  BY <1>2, <2>3
<1> DEFINE q == <<"\"">>
           s(k) == ScanText(NewScan, q \o e[k])
<1>7. "\"" \in Escaped /\ q \in Seq(Escaped)
  <2>1. "\"" \in Escaped
    BY DEF Escaped, Raw
  <2> QED  BY <2>1, OneTyped, Zenon
<1>8. InText(s(n), e[n])
  <2> DEFINE P == {k \in 0..n : InText(s(k), e[k])}
  <2>1. 0 \in P
    <3>1. q \o <<>> = q
      OBVIOUS
    <3>2. NewScan \in Scans(Escaped)
      BY NewScanTyped
    <3>3. s(0) = ScanChar(NewScan, "\"")
      BY <1>5, <1>7, <3>1, <3>2, OneCharText, Zenon
    <3>4. ScanChar(NewScan, "\"") = Going(NewScan, 1, rcs_create(RSTRING_DEFAULT))
      <4>1. NewScan.lex.state = 0
        BY DEF NewScan, NewLexer
      <4> QED  BY <3>2, <4>1, QuoteScan, Zenon
    <3>5. InText(s(0), <<>>)
      <4>1. InText(Going(NewScan, 1, rcs_create(RSTRING_DEFAULT)), <<>>)
        BY DEF InText, Going, NewScan, rcs_create
      <4> QED  BY <3>3, <3>4, <4>1, Zenon
    <3>6. 0 \in 0..n
      BY <1>2
    <3> QED  BY <1>5, <3>5, <3>6, Zenon
  <2>2. ASSUME NEW k \in 0..n - 1, k \in P
        PROVE  k + 1 \in P
    <3>1. k + 1 \in 1..n /\ (k + 1) - 1 = k /\ k \in 0..n /\ k + 1 \in 0..n
      BY <1>2
    <3>2. e[k + 1] = e[k] \o piece(k + 1) /\ text[k + 1] \in Escapable /\ piece(k + 1) \in Seq(Escaped) /\ e[k] \in Seq(Escaped)
      BY <1>3, <1>4, <3>1
    <3>3. q \o e[k] \in Seq(Escaped) /\ q \o e[k + 1] = (q \o e[k]) \o piece(k + 1)
      <4> DEFINE a == e[k]
                 b == piece(k + 1)
                 c == q
      <4> HIDE DEF a, b, c
      <4>0. a \in Seq(Escaped) /\ b \in Seq(Escaped) /\ c \in Seq(Escaped)
        BY <1>7, <3>2 DEF a, b, c
      <4>1. c \o a \in Seq(Escaped) /\ c \o (a \o b) = (c \o a) \o b
        BY <4>0, ConcatProperties, ConcatAssociative
      <4> QED  BY <3>2, <4>1 DEF a, b, c
    <3>4. InText(ScanText(NewScan, (q \o e[k]) \o piece(k + 1)), e[k] \o piece(k + 1))
      <4> DEFINE t == q \o e[k]
      <4>1. t \in Seq(Escaped) /\ InText(ScanText(NewScan, t), e[k])
        BY <2>2, <3>3
      <4> HIDE DEF t
      <4>2. InText(ScanText(NewScan, t \o PieceOf(text[k + 1])), e[k] \o PieceOf(text[k + 1]))
        BY <3>2, <4>1, PieceIsText
      <4> QED  BY <4>2 DEF t
    <3> QED  BY <3>1, <3>2, <3>3, <3>4
  <2>3. \A k \in 0..n : k \in P
    <3> HIDE DEF P
    <3> QED  BY <1>2, <2>1, <2>2, Counting
  <2> QED  BY <1>2, <2>3
<1>9. TokensOf(q \o e[n] \o q) = <<<<"STRING", e[n]>>>>
  <2> DEFINE t == q \o e[n]
  <2>1. t \in Seq(Escaped) /\ t \o q = Append(t, "\"")
    <3>1. e[n] \in Seq(Escaped)
      BY <1>2, <1>3
    <3>2. t \in Seq(Escaped)
      BY <1>7, <3>1, ConcatProperties
    <3> HIDE DEF t
    <3> QED  BY <1>7, <3>2, AppendIsConcat
  <2>2. NewScan \in Scans(Escaped)
    BY NewScanTyped
  <2> HIDE DEF t
  <2> DEFINE z == ScanText(NewScan, t)
  <2>3. z \in Scans(Escaped) /\ ScanText(NewScan, Append(t, "\"")) = ScanChar(z, "\"")
    <3>1. \A u \in Seq(Escaped), c \in Escaped : ScanText(NewScan, u) \in Scans(Escaped) /\ ScanText(NewScan, Append(u, c)) = ScanChar(ScanText(NewScan, u), c)
      BY <2>2, ScanTextGrows
    <3> QED  BY <1>7, <2>1, <3>1, Zenon
  <2>4. z.lex.state = 1 /\ z.lex.text.text = e[n] /\ z.tokens = <<>>
    BY <1>8 DEF InText, t
  <2> HIDE DEF z
  <2>5. ScanChar(z, "\"") = Taking(z, "STRING", z.lex.text.text)
    <3>1. z.lex.state \in InString
      BY <2>4 DEF InString
    <3> QED  BY <2>3, <2>4, <3>1, StringScan
  <2>6. ScanChar(z, "\"").tokens = Append(<<>>, <<"STRING", e[n]>>)
    <3>1. ScanChar(z, "\"").tokens = Append(z.tokens, <<"STRING", z.lex.text.text>>)
      <4> DEFINE x == z.lex.text.text
      <4> HIDE DEF x
      <4>1. Taking(z, "STRING", x).tokens = Append(z.tokens, <<"STRING", x>>)
        BY DEF Taking
      <4>2. ScanChar(z, "\"") = Taking(z, "STRING", x)
        BY <2>5 DEF x
      <4> QED  BY <4>1, <4>2 DEF x
    <3> QED  BY <2>4, <3>1, Zenon
  <2>7. Append(<<>>, <<"STRING", e[n]>>) = <<<<"STRING", e[n]>>>>
    OBVIOUS
  <2> QED  BY <2>1, <2>3, <2>6, <2>7 DEF TokensOf, t
<1>10. json_unescape(e[n]) = [i \in 1..n |-> Byte(text[i])]
  <2> DEFINE bytes == [i \in 1..n |-> Byte(text[i])]
             st == [k \in 0..n |-> [pos |-> Len(e[k]) + 1, out |-> [i \in 1..k |-> bytes[i]]]]
  <2>1. \A k \in 0..n : Len(e[k]) =< Len(e[n]) /\ \A i \in 1..Len(e[k]) : e[n][i] = e[k][i]
    <3>1. \A k \in 1..n : \E p \in Seq(Escaped) : e[k] = e[k - 1] \o p
      BY <1>4, Zenon
    <3>2. Lengthened(e, n, Escaped)
      BY <1>2, <1>3, <3>1 DEF Lengthened
    <3>3. Prefixed(e, n)
      BY <3>2, Prefixes, Zenon
    <3> QED  BY <3>3 DEF Prefixed
  <2>2. \A k \in 0..n : Len(e[k]) \in Nat
    BY <1>3, LenProperties
  <2>3. \A k \in 1..n : /\ Len(e[k]) = Len(e[k - 1]) + Len(piece(k)) /\ k - 1 \in 0..n
                        /\ \A j \in 1..Len(piece(k)) : e[k][Len(e[k - 1]) + j] = piece(k)[j]
    <3> SUFFICES ASSUME NEW k \in 1..n
                 PROVE  /\ Len(e[k]) = Len(e[k - 1]) + Len(piece(k)) /\ k - 1 \in 0..n
                        /\ \A j \in 1..Len(piece(k)) : e[k][Len(e[k - 1]) + j] = piece(k)[j]
      OBVIOUS
    <3> DEFINE a == e[k - 1]
               b == piece(k)
    <3>1. e[k] = a \o b /\ a \in Seq(Escaped) /\ b \in Seq(Escaped) /\ k - 1 \in 0..n
      BY <1>3, <1>4
    <3> HIDE DEF a, b
    <3>2. /\ Len(a \o b) = Len(a) + Len(b) /\ Len(a) \in Nat /\ Len(b) \in Nat
          /\ \A j \in 1..Len(a) + Len(b) : (a \o b)[j] = IF j =< Len(a) THEN a[j] ELSE b[j - Len(a)]
      BY <3>1, ConcatProperties, LenProperties
    <3>3. ASSUME NEW j \in 1..Len(b)
          PROVE  (a \o b)[Len(a) + j] = b[j]
      <4>1. Len(a) + j \in 1..Len(a) + Len(b) /\ ~(Len(a) + j =< Len(a)) /\ (Len(a) + j) - Len(a) = j
        BY <3>2
      <4> QED  BY <3>2, <4>1
    <3> QED  BY <3>1, <3>2, <3>3 DEF a, b
  <2>4. n =< Len(e[n])
    <3> DEFINE P == {k \in 0..n : k =< Len(e[k])}
    <3>1. 0 \in P
      BY <1>2, <2>2
    <3>2. ASSUME NEW k \in 0..n - 1, k \in P
          PROVE  k + 1 \in P
      <4>1. k + 1 \in 1..n /\ (k + 1) - 1 = k /\ k \in 0..n /\ k + 1 \in 0..n
        BY <1>2
      <4>2. Len(e[k + 1]) = Len(e[k]) + Len(piece(k + 1)) /\ Len(piece(k + 1)) \in {1, 2}
        <5>1. Len(e[k + 1]) = Len(e[(k + 1) - 1]) + Len(piece(k + 1)) /\ Len(piece(k + 1)) \in {1, 2}
          BY <1>4, <2>3, <4>1, Zenon
        <5> QED  BY <4>1, <5>1
      <4>3. k =< Len(e[k]) /\ Len(e[k]) \in Nat
        BY <2>2, <3>2, <4>1
      <4> DEFINE a == Len(e[k])
                 b == Len(e[k + 1])
                 l == Len(piece(k + 1))
      <4> HIDE DEF a, b, l
      <4>5. b = a + l /\ l \in {1, 2} /\ k =< a /\ a \in Nat
        BY <4>2, <4>3 DEF a, b, l
      <4>6. k + 1 =< b
        BY <4>5
      <4>4. k + 1 =< Len(e[k + 1])
        BY <4>6 DEF b
      <4> QED  BY <4>1, <4>4
    <3>3. \A k \in 0..n : k \in P
      <4> HIDE DEF P
      <4> QED  BY <1>2, <3>1, <3>2, Counting
    <3> QED  BY <1>2, <3>3
  <2>5. \A k \in 0..n : st[k] = [pos |-> Len(e[k]) + 1, out |-> [i \in 1..k |-> bytes[i]]]
    OBVIOUS
  <2> HIDE DEF st
  <2>6. st[0] = [pos |-> 1, out |-> <<>>]
    <3>1. [i \in 1..0 |-> bytes[i]] = <<>>
      OBVIOUS
    <3>2. Len(e[0]) + 1 = 1 /\ 0 \in 0..n
      BY <1>2, <1>5
    <3> HIDE DEF bytes
    <3>3. st[0] = [pos |-> Len(e[0]) + 1, out |-> [i \in 1..0 |-> bytes[i]]]
      BY <2>5, <3>2
    <3> QED  BY <3>1, <3>2, <3>3
  <2>7. ASSUME NEW k \in 1..n
        PROVE  ~(st[k - 1].pos > Len(e[n])) /\ st[k] = UnescapeTurn(e[n], st[k - 1])
    <3> DEFINE i == Len(e[k - 1])
               out == [j \in 1..k - 1 |-> bytes[j]]
    <3>1. k - 1 \in 0..n /\ k \in 0..n /\ text[k] \in Raw /\ Len(PieceOf(text[k])) \in {1, 2} /\ Len(e[k]) = i + Len(PieceOf(text[k]))
      <4>1. k \in 0..n
        BY <1>2
      <4> QED  BY <1>4, <2>3, <4>1, Zenon
    <3>2. i \in Nat /\ Len(e[k]) =< Len(e[n]) /\ Len(e[n]) \in Nat
      BY <1>2, <2>1, <2>2, <3>1
    <3>3. st[k - 1] = [pos |-> i + 1, out |-> out]
      BY <2>5, <3>1
    <3>4. e[n] \in Seq(Escaped) /\ i + Len(PieceOf(text[k])) =< Len(e[n])
      BY <1>2, <1>3, <3>1, <3>2
    <3>5. \A j \in 1..Len(PieceOf(text[k])) : e[n][i + j] = PieceOf(text[k])[j]
      <4> SUFFICES ASSUME NEW j \in 1..Len(PieceOf(text[k]))
                   PROVE  e[n][i + j] = PieceOf(text[k])[j]
        OBVIOUS
      <4>1. e[k][i + j] = PieceOf(text[k])[j]
        BY <2>3
      <4>2. i + j \in 1..Len(e[k])
        <5> HIDE DEF i
        <5> QED  BY <3>1, <3>2
      <4>3. e[n][i + j] = e[k][i + j]
        BY <2>1, <3>1, <4>2
      <4> QED  BY <4>1, <4>3
    <3>6. UnescapeTurn(e[n], [pos |-> i + 1, out |-> out]) = [pos |-> i + Len(PieceOf(text[k])) + 1, out |-> out \o <<Byte(text[k])>>]
      <4> DEFINE o == out
                 l == i
      <4>1. l \in Nat /\ l + Len(PieceOf(text[k])) =< Len(e[n]) /\ \A j \in 1..Len(PieceOf(text[k])) : e[n][l + j] = PieceOf(text[k])[j]
        BY <3>2, <3>4, <3>5
      <4> HIDE DEF o, l
      <4>2. UnescapeTurn(e[n], [pos |-> l + 1, out |-> o]) = [pos |-> l + Len(PieceOf(text[k])) + 1, out |-> o \o <<Byte(text[k])>>]
        <5>1. IsAt(e[n], l, PieceOf(text[k]))
          BY <4>1 DEF IsAt
        <5>2. e[n] \in Seq(Escaped) /\ text[k] \in Raw /\ l \in Nat
          BY <3>1, <3>4, <4>1
        <5> QED  BY <5>1, <5>2, PieceIsUnescaped, Zenon
      <4> QED  BY <4>2 DEF o, l
    <3>7. out \o <<Byte(text[k])>> = [j \in 1..k |-> bytes[j]]
      <4>1. bytes[k] = Byte(text[k]) /\ k \in Nat \ {0}
        BY <1>2
      <4> HIDE DEF bytes
      <4> QED  BY <4>1, OneMore
    <3>8. st[k] = [pos |-> i + Len(PieceOf(text[k])) + 1, out |-> [j \in 1..k |-> bytes[j]]]
      BY <2>5, <3>1
    <3>9. ~(i + 1 > Len(e[n]))
      <4> DEFINE a == Len(e[k])
                 b == Len(PieceOf(text[k]))
                 c == Len(e[n])
      <4> HIDE DEF a, b, c, i
      <4>1. a = i + b /\ b \in {1, 2} /\ i \in Nat /\ a =< c /\ c \in Nat
        BY <3>1, <3>2 DEF a, b, c
      <4>2. ~(i + 1 > c)
        BY <4>1
      <4> QED  BY <4>2 DEF c
    <3> HIDE DEF out, bytes, i
    <3>10. ~(st[k - 1].pos > Len(e[n]))
      <4>1. st[k - 1].pos = i + 1
        BY <3>3
      <4> QED  BY <3>9, <4>1
    <3>11. st[k] = UnescapeTurn(e[n], st[k - 1])
      BY <3>3, <3>6, <3>7, <3>8, Zenon
    <3> QED  BY <3>10, <3>11
  <2>8. st[n].pos > Len(e[n]) /\ st[n].out = [i \in 1..n |-> bytes[i]]
    <3>1. st[n] = [pos |-> Len(e[n]) + 1, out |-> [i \in 1..n |-> bytes[i]]]
      BY <1>2, <2>5
    <3> QED  BY <1>2, <2>2, <3>1
  <2>9. json_unescape(e[n]) = st[n].out
    <3>1. e[n] \in Seq(Escaped) /\ n \in 0..Len(e[n])
      BY <1>2, <1>3, <2>2, <2>4
    <3> HIDE DEF bytes
    <3>2. st[n].pos > Len(e[n])
      BY <2>8
    <3>3. \A k \in 1..n : ~(st[k - 1].pos > Len(e[n])) /\ st[k] = UnescapeTurn(e[n], st[k - 1])
      BY <2>7
    <3>4. UnescapeStates(e[n], n, st)
      BY <2>6, <3>1, <3>2, <3>3, Zenon DEF UnescapeStates, Passed
    <3>5. Unescaped(e[n]) = st[n]
      BY <3>1, <3>4, UnescapeRuns, Zenon
    <3> QED  BY <3>5, Zenon DEF json_unescape
  <2> QED  BY <2>8, <2>9
<1>11. json_escape(text).out = f[n] /\ ~json_escape(text).ended
  <2>1. Still(f[n]).out = f[n] /\ ~Still(f[n]).ended
    BY DEF Still
  <2> QED  BY <1>1, <2>1, Zenon
<1>12. rcs_unwrap(json_escape(text).out) = e[n]
  BY <1>2, <1>3, <1>11 DEF rcs_unwrap
<1> QED  BY <1>2, <1>6, <1>9, <1>10, <1>11, <1>12

-----------------------------------------------------------------------------
(* Unescaping *)

\* A text made of pieces: each is found where those before it end, and there are no more pieces than characters.
MadeOf(x, p, n, S) ==
  /\ n \in Nat /\ x \in [0..n -> Seq(S)] /\ p \in [1..n -> Seq(S)] /\ x[0] = <<>>
  /\ \A k \in 1..n : x[k] = x[k - 1] \o p[k] /\ Len(p[k]) > 0

Placed(x, p, n) ==
         /\ n =< Len(x[n]) /\ Len(x[0]) = 0 /\ \A k \in 0..n : Len(x[k]) \in Nat
         /\ \A k \in 1..n : /\ IsAt(x[n], Len(x[k - 1]), p[k]) /\ Len(x[k]) = Len(x[k - 1]) + Len(p[k])
                            /\ ~(Len(x[k - 1]) + 1 > Len(x[n])) /\ k - 1 \in 0..n /\ Len(p[k]) \in Nat

LEMMA PiecesAreAt ==
  ASSUME NEW S, NEW n, NEW x, NEW p, MadeOf(x, p, n, S)
  PROVE  Placed(x, p, n)
<1>0. n \in Nat
  BY DEF MadeOf
<1>1. /\ x \in [0..n -> Seq(S)] /\ p \in [1..n -> Seq(S)] /\ x[0] = <<>>
      /\ \A k \in 1..n : x[k] = x[k - 1] \o p[k] /\ Len(p[k]) > 0
  BY DEF MadeOf
<1>2. \A k \in 0..n : Len(x[k]) \in Nat
  BY <1>0, <1>1, LenProperties
<1>3. Len(x[0]) = 0
  BY <1>1
<1>4. ASSUME NEW k \in 1..n
      PROVE  /\ Len(x[k]) = Len(x[k - 1]) + Len(p[k]) /\ Len(p[k]) \in Nat /\ Len(p[k]) > 0 /\ k - 1 \in 0..n /\ k \in 0..n
             /\ \A j \in 1..Len(p[k]) : x[k][Len(x[k - 1]) + j] = p[k][j]
  <2> DEFINE a == x[k - 1]
             b == p[k]
  <2>0. k - 1 \in 0..n /\ k \in 0..n
    BY <1>0
  <2>1. x[k] = a \o b /\ a \in Seq(S) /\ b \in Seq(S) /\ Len(b) > 0
    <3>1. a \in Seq(S) /\ b \in Seq(S)
      BY <1>1, <2>0
    <3> QED  BY <1>1, <3>1, Zenon
  <2> HIDE DEF a, b
  <2>2. /\ Len(a \o b) = Len(a) + Len(b) /\ Len(a) \in Nat /\ Len(b) \in Nat
        /\ \A j \in 1..Len(a) + Len(b) : (a \o b)[j] = IF j =< Len(a) THEN a[j] ELSE b[j - Len(a)]
    BY <2>1, ConcatProperties, LenProperties
  <2>3. ASSUME NEW j \in 1..Len(b)
        PROVE  (a \o b)[Len(a) + j] = b[j]
    <3>1. Len(a) + j \in 1..Len(a) + Len(b) /\ ~(Len(a) + j =< Len(a)) /\ (Len(a) + j) - Len(a) = j
      BY <2>2
    <3> QED  BY <2>2, <3>1
  <2> QED  BY <2>0, <2>1, <2>2, <2>3 DEF a, b
<1>5. Lengthened(x, n, S)
  <2>1. \A k \in 1..n : p[k] \in Seq(S) /\ x[k] = x[k - 1] \o p[k]
    BY <1>1
  <2>2. \A k \in 1..n : \E q \in Seq(S) : x[k] = x[k - 1] \o q
    BY <2>1, Zenon
  <2> QED  BY <1>0, <1>1, <2>2 DEF Lengthened
<1>8. \A k \in 0..n : Len(x[k]) =< Len(x[n]) /\ \A i \in 1..Len(x[k]) : x[n][i] = x[k][i]
  <2>1. Prefixed(x, n)
    BY <1>5, Prefixes, Zenon
  <2> QED  BY <2>1 DEF Prefixed
<1>6. n =< Len(x[n])
  <2> DEFINE P == {k \in 0..n : k =< Len(x[k])}
  <2>1. 0 \in P
    BY <1>0, <1>3
  <2>2. ASSUME NEW k \in 0..n - 1, k \in P
        PROVE  k + 1 \in P
    <3>1. k + 1 \in 1..n /\ (k + 1) - 1 = k /\ k \in 0..n /\ k + 1 \in 0..n
      BY <1>0
    <3> DEFINE a == Len(x[k])
               b == Len(x[k + 1])
               l == Len(p[k + 1])
    <3>2. b = a + l /\ l \in Nat /\ l > 0
      BY <1>4, <3>1
    <3>3. k =< a /\ a \in Nat
      BY <1>2, <2>2, <3>1
    <3> HIDE DEF a, b, l
    <3>4. k + 1 =< b
      BY <3>2, <3>3
    <3> QED  BY <3>1, <3>4 DEF b
  <2>3. \A k \in 0..n : k \in P
    <3> HIDE DEF P
    <3> QED  BY <1>0, <2>1, <2>2, Counting
  <2>4. n \in P
    BY <1>0, <2>3
  <2> QED  BY <2>4
<1>7. ASSUME NEW k \in 1..n
      PROVE  IsAt(x[n], Len(x[k - 1]), p[k]) /\ ~(Len(x[k - 1]) + 1 > Len(x[n]))
  <2> DEFINE a == Len(x[k - 1])
             b == Len(x[k])
             c == Len(x[n])
             l == Len(p[k])
  <2>1. b = a + l /\ l \in Nat /\ l > 0 /\ \A j \in 1..l : x[k][a + j] = p[k][j]
    BY <1>4
  <2>2. a \in Nat /\ c \in Nat /\ b =< c /\ \A i \in 1..b : x[n][i] = x[k][i]
    <3>1. k - 1 \in 0..n /\ k \in 0..n /\ n \in 0..n
      BY <1>0
    <3> QED  BY <1>2, <1>8, <3>1
  <2> HIDE DEF a, b, c, l
  <2>3. a + l =< c /\ ~(a + 1 > c)
    BY <2>1, <2>2
  <2>4. ASSUME NEW j \in 1..l
        PROVE  x[n][a + j] = p[k][j]
    <3>1. a + j \in 1..b
      BY <2>1, <2>2
    <3> QED  BY <2>1, <2>2, <3>1
  <2> QED  BY <2>2, <2>3, <2>4 DEF IsAt, a, c, l
<1> QED  BY <1>2, <1>3, <1>4, <1>6, <1>7 DEF Placed

\* What texts with \u escapes are made of, and the code points and the bytes they stand for.
Coded    == Hex \cup {"\\", "u"}
Single   == {p \in Escapes : ~High(p) /\ ~Low(p)}
Pair     == {p \o q : p \in {h \in Escapes : High(h)}, q \in {l \in Escapes : Low(l)}}
Groups   == {<<"a">>} \cup Single \cup Pair

PointOf(g) ==
  CASE Len(g) = 1  -> 97
    [] Len(g) = 6  -> Unit(g, 3)
    [] Len(g) = 12 -> Joined(Unit(g, 3), Unit(g, 9))

Utf8(p) == IF p < 128 THEN <<p>> ELSE IF p < 2048 THEN TwoBytes(p) ELSE IF p < 65536 THEN ThreeBytes(p) ELSE FourBytes(p)

IsUnit(u) == u \in Nat /\ u < 65536

HexAt(t, i) == \A k \in 0..3 : t[i + k] \in Hex

Value(w, x, y, z) == 4096 * w + 256 * x + 16 * y + z

LEMMA FourDigits ==
  ASSUME NEW w \in 0..15, NEW x \in 0..15, NEW y \in 0..15, NEW z \in 0..15
  PROVE  IsUnit(Value(w, x, y, z))
BY SMT DEF IsUnit, Value

LEMMA HexDigits == ASSUME NEW c \in Hex PROVE HexDigit(c) \in 0..15
BY DEF Hex, Digit, HexDigit

\* An escape, its length and its number.
LEMMA EscapeShape ==
  ASSUME NEW p \in Escapes
  PROVE  /\ p \in Seq(Coded) /\ Len(p) = 6 /\ p[1] = "\\" /\ p[2] = "u" /\ IsUnit(Unit(p, 3))
         /\ \A i \in 2..6 : p[i] # "\\"
         /\ HexAt(p, 3)
<1>1. PICK a \in Hex, b \in Hex, c \in Hex, d \in Hex : p = <<"\\", "u", a, b, c, d>>
  BY DEF Escapes
<1>2. "\\" \in Coded /\ "u" \in Coded /\ a \in Coded /\ b \in Coded /\ c \in Coded /\ d \in Coded
  BY DEF Coded
<1>3. p \in Seq(Coded) /\ Len(p) = 6 /\ p[1] = "\\" /\ p[2] = "u" /\ p[3] = a /\ p[4] = b /\ p[5] = c /\ p[6] = d
  BY <1>1, <1>2
<1>4. p[3 + 1] = b /\ p[3 + 2] = c /\ p[3 + 3] = d
  BY <1>3
<1>5. HexDigit(a) \in 0..15 /\ HexDigit(b) \in 0..15 /\ HexDigit(c) \in 0..15 /\ HexDigit(d) \in 0..15
  BY HexDigits
<1>6. Unit(p, 3) = Value(HexDigit(a), HexDigit(b), HexDigit(c), HexDigit(d))
  BY <1>3, <1>4, SMT DEF Unit, Value
<1>7. IsUnit(Unit(p, 3))
  BY <1>5, <1>6, FourDigits, Zenon
<1>8. "\\" \notin Hex
  BY DEF Hex, Digit
<1>9. \A i \in 2..6 : p[i] # "\\"
  <2> SUFFICES ASSUME NEW i \in 2..6
               PROVE  p[i] # "\\"
    OBVIOUS
  <2>1. i = 2 \/ i = 3 \/ i = 4 \/ i = 5 \/ i = 6
    OBVIOUS
  <2> QED  BY <1>3, <1>8, <2>1
<1>10. HexAt(p, 3)
  <2> SUFFICES ASSUME NEW k \in 0..3
               PROVE  p[3 + k] \in Hex
    BY DEF HexAt
  <2>1. 3 + k = 3 \/ 3 + k = 4 \/ 3 + k = 5 \/ 3 + k = 6
    OBVIOUS
  <2> QED  BY <1>3, <2>1, Zenon
<1> QED  BY <1>3, <1>7, <1>9, <1>10, Zenon

\* A pair, its halves and its code point.
LEMMA PairShape ==
  ASSUME NEW g \in Pair
  PROVE  /\ g \in Seq(Coded) /\ Len(g) = 12 /\ g[1] = "\\" /\ g[2] = "u"
         /\ HighUnit(Unit(g, 3)) /\ LowUnit(Unit(g, 9)) /\ HexAt(g, 9)
         /\ \E p, q \in Escapes : High(p) /\ Low(q) /\ g = p \o q
<1>1. PICK p \in Escapes, q \in Escapes : g = p \o q /\ High(p) /\ Low(q)
  BY DEF Pair
<1>2. p \in Seq(Coded) /\ Len(p) = 6 /\ p[1] = "\\" /\ p[2] = "u" /\ q \in Seq(Coded) /\ Len(q) = 6 /\ HexAt(q, 3)
  BY EscapeShape
<1>3. HighUnit(Unit(p, 3)) /\ LowUnit(Unit(q, 3))
  BY <1>1, SMT DEF High, Low, HighUnit, LowUnit
<1>4. /\ p \o q \in Seq(Coded) /\ Len(p \o q) = 12
      /\ \A i \in 1..12 : (p \o q)[i] = IF i =< 6 THEN p[i] ELSE q[i - 6]
  <2>1. /\ p \o q \in Seq(Coded) /\ Len(p \o q) = Len(p) + Len(q)
        /\ \A i \in 1..Len(p) + Len(q) : (p \o q)[i] = IF i =< Len(p) THEN p[i] ELSE q[i - Len(p)]
    BY <1>2, ConcatProperties
  <2>2. Len(p) = 6 /\ Len(p) + Len(q) = 12
    BY <1>2
  <2> QED  BY <2>1, <2>2
<1>5. IsAt(g, 0, p) /\ IsAt(g, 6, q)
  <2>1. \A j \in 1..6 : g[0 + j] = p[j]
    <3> SUFFICES ASSUME NEW j \in 1..6
                 PROVE  g[0 + j] = p[j]
      OBVIOUS
    <3>1. 0 + j \in 1..12 /\ 0 + j =< 6 /\ 0 + j = j
      OBVIOUS
    <3> QED  BY <1>1, <1>4, <3>1
  <2>2. \A j \in 1..6 : g[6 + j] = q[j]
    <3> SUFFICES ASSUME NEW j \in 1..6
                 PROVE  g[6 + j] = q[j]
      OBVIOUS
    <3>1. 6 + j \in 1..12 /\ ~(6 + j =< 6) /\ (6 + j) - 6 = j
      OBVIOUS
    <3> QED  BY <1>1, <1>4, <3>1
  <2>3. 0 \in Nat /\ 6 \in Nat
    OBVIOUS
  <2> QED  BY <1>1, <1>2, <1>4, <2>1, <2>2, <2>3 DEF IsAt
<1>6. Unit(g, 3) = Unit(p, 3) /\ Unit(g, 9) = Unit(q, 3)
  <2>1. \A j \in 1..6 : g[0 + j] = p[j] /\ g[6 + j] = q[j]
    BY <1>2, <1>5 DEF IsAt
  <2>2. g[0 + 3] = p[3] /\ g[0 + 4] = p[4] /\ g[0 + 5] = p[5] /\ g[0 + 6] = p[6]
    BY <2>1
  <2>3. g[6 + 3] = q[3] /\ g[6 + 4] = q[4] /\ g[6 + 5] = q[5] /\ g[6 + 6] = q[6]
    BY <2>1
  <2> QED  BY <2>2, <2>3, SMT DEF Unit
<1>9. g \in Seq(Coded) /\ Len(g) = 12
  BY <1>1, <1>4
<1>10. g[1] = "\\" /\ g[2] = "u"
  <2>1. (p \o q)[1] = p[1] /\ (p \o q)[2] = p[2]
    BY <1>4
  <2> QED  BY <1>1, <1>2, <2>1
<1>11. HexAt(g, 9)
  <2> SUFFICES ASSUME NEW k \in 0..3
               PROVE  g[9 + k] \in Hex
    BY DEF HexAt
  <2>1. \A j \in 1..6 : g[6 + j] = q[j]
    BY <1>2, <1>5 DEF IsAt
  <2>2. 3 + k \in 1..6 /\ 6 + (3 + k) = 9 + k
    OBVIOUS
  <2>3. q[3 + k] \in Hex
    BY <1>2 DEF HexAt
  <2> QED  BY <2>1, <2>2, <2>3
<1> QED  BY <1>1, <1>3, <1>6, <1>9, <1>10, <1>11

-----------------------------------------------------------------------------
(* Code points *)

\* A code point, decoded from its bytes.
LEMMA DecodeOne ==
  ASSUME NEW b, NEW s, NEW u \in Nat, u < 128, b[s.pos] = u
  PROVE  DecodeTurn(b, s) = Advance(s, 1, u)
BY SMT DEF DecodeTurn

LEMMA DecodeTwo ==
  ASSUME NEW b, NEW s, NEW u \in Nat, 128 =< u, u < 2048, NEW x, NEW y, b[s.pos] = x, b[s.pos + 1] = y,
         x = 192 + ((u \div 64) % 32), y = 128 + (u % 64)
  PROVE  DecodeTurn(b, s) = Advance(s, 2, u)
<1>1. x \in 192..223 /\ ~(x < 128) /\ x \notin 224..239 /\ x \notin 240..247 /\ (x - 192) * 64 + (y - 128) = u
  BY SMT
<1> QED  BY <1>1, SMT DEF DecodeTurn

LEMMA DecodeThree ==
  ASSUME NEW b, NEW s, NEW u \in Nat, 2048 =< u, u < 65536, NEW x, NEW y, NEW z,
         b[s.pos] = x, b[s.pos + 1] = y, b[s.pos + 2] = z,
         x = 224 + ((u \div 4096) % 16), y = 128 + ((u \div 64) % 64), z = 128 + (u % 64)
  PROVE  DecodeTurn(b, s) = Advance(s, 3, u)
<1>1. x \in 224..239 /\ ~(x < 128) /\ x \notin 192..223 /\ x \notin 240..247
  BY SMT
<1>2. (x - 224) * 4096 + (y - 128) * 64 + (z - 128) = u
  BY SMT
<1> QED  BY <1>1, <1>2, SMT DEF DecodeTurn

LEMMA DecodeFour ==
  ASSUME NEW b, NEW s, NEW u \in Nat, 65536 =< u, u < 1114112, NEW x, NEW y, NEW z, NEW w,
         b[s.pos] = x, b[s.pos + 1] = y, b[s.pos + 2] = z, b[s.pos + 3] = w,
         x = 240 + ((u \div 262144) % 8), y = 128 + ((u \div 4096) % 64), z = 128 + ((u \div 64) % 64), w = 128 + (u % 64)
  PROVE  DecodeTurn(b, s) = Advance(s, 4, u)
<1>1. x \in 240..247 /\ ~(x < 128) /\ x \notin 192..223 /\ x \notin 224..239
  BY SMT
<1>2. (x - 240) * 262144 + (y - 128) * 4096 + (z - 128) * 64 + (w - 128) = u
  BY SMT
<1> QED  BY <1>1, <1>2, SMT DEF DecodeTurn

Scalar(u) == u \in Nat /\ u < 1114112

LEMMA AdvanceIs ==
  ASSUME NEW r, NEW o, NEW n, NEW u
  PROVE  Advance([pos |-> r, out |-> o], n, u) = [pos |-> r + n, out |-> Append(o, u)]
BY DEF Advance

\* What decoding makes of n bytes at a place of a text.
Decodes(p, u, n) ==
  /\ p \in Seq(Nat) /\ Len(p) = n
  /\ \A b, i, o : IsAt(b, i, p) => DecodeTurn(b, [pos |-> i + 1, out |-> o]) = [pos |-> i + n + 1, out |-> Append(o, u)]

\* The encoding of a code point, its length, and what decoding makes of it.
LEMMA DecodeGroup ==
  ASSUME NEW u, Scalar(u)
  PROVE  IF u < 128 THEN Decodes(Utf8(u), u, 1)
         ELSE IF u < 2048 THEN Decodes(Utf8(u), u, 2)
         ELSE IF u < 65536 THEN Decodes(Utf8(u), u, 3) ELSE Decodes(Utf8(u), u, 4)
<1>0. u \in Nat /\ u < 1114112
  BY DEF Scalar
<1>1. CASE u < 128
  <2> DEFINE x == u
  <2>1. Utf8(u) = <<x>>
    BY <1>1, SMT DEF Utf8
  <2>2. x \in Nat
    BY <1>0, SMT
  <2>3. x = u
    OBVIOUS
  <2> HIDE DEF x
  <2>4. <<x>> \in Seq(Nat) /\ Len(<<x>>) = 1 /\ <<x>>[1] = x
    BY <2>2
  <2>5. ASSUME NEW b, NEW i, NEW o, IsAt(b, i, <<x>>)
        PROVE  DecodeTurn(b, [pos |-> i + 1, out |-> o]) = [pos |-> i + 1 + 1, out |-> Append(o, u)]
    <3> DEFINE s == [pos |-> i + 1, out |-> o]
    <3>1. i \in Nat /\ b[i + 1] = x
      BY <2>4, <2>5, SMT DEF IsAt
    <3>2. s.pos = i + 1 /\ (i + 1) + 1 = i + 1 + 1
      BY <3>1, SMT
    <3>3. Advance(s, 1, u) = [pos |-> (i + 1) + 1, out |-> Append(o, u)]
      BY AdvanceIs
    <3>4. Advance(s, 1, u) = [pos |-> i + 1 + 1, out |-> Append(o, u)]
      BY <3>2, <3>3, SMT
    <3> HIDE DEF s
    <3>5. b[s.pos] = x
      BY <3>1, <3>2, SMT
    <3>6. DecodeTurn(b, s) = Advance(s, 1, u)
      BY <1>0, <1>1, <2>3, <3>5, DecodeOne, SMT
    <3> QED  BY <3>4, <3>6 DEF s
  <2>6. Decodes(<<x>>, u, 1)
    BY <2>4, <2>5 DEF Decodes
  <2> QED  BY <1>1, <2>1, <2>6, SMT
<1>2. CASE ~(u < 128) /\ u < 2048
  <2> DEFINE x == 192 + ((u \div 64) % 32)
             y == 128 + (u % 64)
  <2>1. Utf8(u) = <<x, y>>
    BY <1>2, SMT DEF Utf8, TwoBytes
  <2>2. x \in Nat /\ y \in Nat
    BY <1>0, SMT
  <2>3. x = 192 + ((u \div 64) % 32) /\ y = 128 + (u % 64)
    OBVIOUS
  <2> HIDE DEF x, y
  <2>4. <<x, y>> \in Seq(Nat) /\ Len(<<x, y>>) = 2 /\ <<x, y>>[1] = x /\ <<x, y>>[2] = y
    BY <2>2
  <2>5. ASSUME NEW b, NEW i, NEW o, IsAt(b, i, <<x, y>>)
        PROVE  DecodeTurn(b, [pos |-> i + 1, out |-> o]) = [pos |-> i + 2 + 1, out |-> Append(o, u)]
    <3> DEFINE s == [pos |-> i + 1, out |-> o]
    <3>1. i \in Nat /\ b[i + 1] = x /\ b[i + 2] = y
      BY <2>4, <2>5, SMT DEF IsAt
    <3>2. s.pos = i + 1 /\ (i + 1) + 2 = i + 2 + 1 /\ (i + 1) + 1 = i + 2
      BY <3>1, SMT
    <3>3. Advance(s, 2, u) = [pos |-> (i + 1) + 2, out |-> Append(o, u)]
      BY AdvanceIs
    <3>4. Advance(s, 2, u) = [pos |-> i + 2 + 1, out |-> Append(o, u)]
      BY <3>2, <3>3, SMT
    <3> HIDE DEF s
    <3>5. b[s.pos] = x /\ b[s.pos + 1] = y
      BY <3>1, <3>2, SMT
    <3>6. DecodeTurn(b, s) = Advance(s, 2, u)
      BY <1>0, <1>2, <2>3, <3>5, DecodeTwo, SMT
    <3> QED  BY <3>4, <3>6 DEF s
  <2>6. Decodes(<<x, y>>, u, 2)
    BY <2>4, <2>5 DEF Decodes
  <2> QED  BY <1>2, <2>1, <2>6, SMT
<1>3. CASE ~(u < 2048) /\ u < 65536
  <2> DEFINE x == 224 + ((u \div 4096) % 16)
             y == 128 + ((u \div 64) % 64)
             z == 128 + (u % 64)
  <2>0. ~(u < 128) /\ ~(u < 2048)
    BY <1>0, <1>3, SMT
  <2>1. Utf8(u) = <<x, y, z>>
    BY <1>3, <2>0, SMT DEF Utf8, ThreeBytes
  <2>2. x \in Nat /\ y \in Nat /\ z \in Nat
    BY <1>0, SMT
  <2>3. x = 224 + ((u \div 4096) % 16) /\ y = 128 + ((u \div 64) % 64) /\ z = 128 + (u % 64)
    OBVIOUS
  <2> HIDE DEF x, y, z
  <2>4. <<x, y, z>> \in Seq(Nat) /\ Len(<<x, y, z>>) = 3 /\ <<x, y, z>>[1] = x /\ <<x, y, z>>[2] = y /\ <<x, y, z>>[3] = z
    BY <2>2
  <2>5. ASSUME NEW b, NEW i, NEW o, IsAt(b, i, <<x, y, z>>)
        PROVE  DecodeTurn(b, [pos |-> i + 1, out |-> o]) = [pos |-> i + 3 + 1, out |-> Append(o, u)]
    <3> DEFINE s == [pos |-> i + 1, out |-> o]
    <3>1. i \in Nat /\ b[i + 1] = x /\ b[i + 2] = y /\ b[i + 3] = z
      BY <2>4, <2>5, SMT DEF IsAt
    <3>2. s.pos = i + 1 /\ (i + 1) + 3 = i + 3 + 1 /\ (i + 1) + 1 = i + 2 /\ (i + 1) + 2 = i + 3
      BY <3>1, SMT
    <3>3. Advance(s, 3, u) = [pos |-> (i + 1) + 3, out |-> Append(o, u)]
      BY AdvanceIs
    <3>4. Advance(s, 3, u) = [pos |-> i + 3 + 1, out |-> Append(o, u)]
      BY <3>2, <3>3, SMT
    <3> HIDE DEF s
    <3>5. b[s.pos] = x /\ b[s.pos + 1] = y /\ b[s.pos + 2] = z
      BY <3>1, <3>2, SMT
    <3>6. DecodeTurn(b, s) = Advance(s, 3, u)
      BY <1>0, <1>3, <2>3, <3>5, <2>0, DecodeThree, SMT
    <3> QED  BY <3>4, <3>6 DEF s
  <2>6. Decodes(<<x, y, z>>, u, 3)
    BY <2>4, <2>5 DEF Decodes
  <2> QED  BY <1>3, <2>1, <2>6, <2>0, SMT
<1>4. CASE ~(u < 65536)
  <2> DEFINE x == 240 + ((u \div 262144) % 8)
             y == 128 + ((u \div 4096) % 64)
             z == 128 + ((u \div 64) % 64)
             w == 128 + (u % 64)
  <2>0. ~(u < 128) /\ ~(u < 2048)
    BY <1>0, <1>4, SMT
  <2>1. Utf8(u) = <<x, y, z, w>>
    BY <1>4, <2>0, SMT DEF Utf8, FourBytes
  <2>2. x \in Nat /\ y \in Nat /\ z \in Nat /\ w \in Nat
    BY <1>0, SMT
  <2>3. x = 240 + ((u \div 262144) % 8) /\ y = 128 + ((u \div 4096) % 64) /\ z = 128 + ((u \div 64) % 64) /\ w = 128 + (u % 64)
    OBVIOUS
  <2> HIDE DEF x, y, z, w
  <2>4. <<x, y, z, w>> \in Seq(Nat) /\ Len(<<x, y, z, w>>) = 4 /\ <<x, y, z, w>>[1] = x /\ <<x, y, z, w>>[2] = y /\ <<x, y, z, w>>[3] = z /\ <<x, y, z, w>>[4] = w
    BY <2>2
  <2>5. ASSUME NEW b, NEW i, NEW o, IsAt(b, i, <<x, y, z, w>>)
        PROVE  DecodeTurn(b, [pos |-> i + 1, out |-> o]) = [pos |-> i + 4 + 1, out |-> Append(o, u)]
    <3> DEFINE s == [pos |-> i + 1, out |-> o]
    <3>1. i \in Nat /\ b[i + 1] = x /\ b[i + 2] = y /\ b[i + 3] = z /\ b[i + 4] = w
      BY <2>4, <2>5, SMT DEF IsAt
    <3>2. s.pos = i + 1 /\ (i + 1) + 4 = i + 4 + 1 /\ (i + 1) + 1 = i + 2 /\ (i + 1) + 2 = i + 3 /\ (i + 1) + 3 = i + 4
      BY <3>1, SMT
    <3>3. Advance(s, 4, u) = [pos |-> (i + 1) + 4, out |-> Append(o, u)]
      BY AdvanceIs
    <3>4. Advance(s, 4, u) = [pos |-> i + 4 + 1, out |-> Append(o, u)]
      BY <3>2, <3>3, SMT
    <3> HIDE DEF s
    <3>5. b[s.pos] = x /\ b[s.pos + 1] = y /\ b[s.pos + 2] = z /\ b[s.pos + 3] = w
      BY <3>1, <3>2, SMT
    <3>6. DecodeTurn(b, s) = Advance(s, 4, u)
      BY <1>0, <1>4, <2>3, <3>5, <2>0, DecodeFour, SMT
    <3> QED  BY <3>4, <3>6 DEF s
  <2>6. Decodes(<<x, y, z, w>>, u, 4)
    BY <2>4, <2>5 DEF Decodes
  <2> QED  BY <1>4, <2>1, <2>6, <2>0, SMT
<1> QED  BY <1>0, <1>1, <1>2, <1>3, <1>4, SMT

\* Four digits, as strtol reads them.
LEMMA StrtolDigits ==
  ASSUME NEW t, NEW i, HexAt(t, i)
  PROVE  strtol(t, i) = Unit(t, i)
<1> DEFINE Digits(n) == \A k \in 0..n - 1 : t[i + k] \in Hex
<1>1. Digits(1) /\ Digits(2) /\ Digits(3) /\ Digits(4)
  BY DEF HexAt
<1>2. strtol(t, i) =
        CASE ~Digits(1)              -> 0
          [] Digits(1) /\ ~Digits(2) -> HexDigit(t[i + 0])
          [] Digits(2) /\ ~Digits(3) -> 16 * HexDigit(t[i + 0]) + HexDigit(t[i + 1])
          [] Digits(3) /\ ~Digits(4) -> 256 * HexDigit(t[i + 0]) + 16 * HexDigit(t[i + 1]) + HexDigit(t[i + 2])
          [] Digits(4)               -> Unit(t, i)
  BY Zenon DEF strtol
<1> HIDE DEF Digits
<1> QED  BY <1>1, <1>2, Zenon

\* What an escape of a character, or of a half of a pair, becomes.
LEMMA SingleUnit ==
  ASSUME NEW text, NEW r, NEW u, IsUnit(u), ~HighUnit(u), Unit(text, r + 2) = u
  PROVE  FromUnit(text, r) = Into(Utf8(u), r + 6)
<1>1. u \in Nat /\ u < 65536
  BY SMT DEF IsUnit
<1>2. CASE u < 128
  <2>1. FromUnit(text, r) = Into(<<u>>, r + 6)
    BY <1>1, <1>2, SMT DEF FromUnit
  <2> QED  BY <1>2, <2>1, SMT DEF Utf8
<1>3. CASE ~(u < 128) /\ u < 2048
  <2>1. u \in 128..2047
    BY <1>1, <1>3, SMT
  <2>2. FromUnit(text, r) = Into(TwoBytes(u), r + 6)
    BY <1>3, <2>1, SMT DEF FromUnit
  <2> QED  BY <1>3, <2>2, SMT DEF Utf8
<1>4. CASE ~(u < 2048)
  <2>1. u \notin 128..2047 /\ ~(u < 128) /\ u > 2047
    BY <1>1, <1>4, SMT
  <2>2. FromUnit(text, r) = Into(ThreeBytes(u), r + 6)
    BY <2>1, SMT DEF FromUnit
  <2> QED  BY <1>1, <1>4, <2>1, <2>2, SMT DEF Utf8
<1> QED  BY <1>1, <1>2, <1>3, <1>4, SMT

LEMMA HalfUnit ==
  ASSUME NEW text, NEW r, NEW u, HighUnit(u), Unit(text, r + 2) = u
  PROVE  FromUnit(text, r) = FromHigh(text, r, u)
<1>1. u \notin 128..2047 /\ ~(u < 128)
  BY SMT DEF HighUnit
<1> QED  BY <1>1, SMT DEF FromUnit

LEMMA PairUnits ==
  ASSUME NEW u, NEW v, HighUnit(u), LowUnit(v)
  PROVE  /\ (u - 55296) * 1024 + (v - 56320) + 65536 = Joined(u, v) /\ Scalar(Joined(u, v)) /\ ~(Joined(u, v) < 65536)
         /\ u \in 55296..56319 /\ u \notin 128..2047 /\ ~(u < 128)
<1>1. u \in Int /\ v \in Int /\ u \in 55296..56319 /\ v \in 56320..57343
  BY SMT DEF HighUnit, LowUnit
<1>2. u % 1024 = u - 55296 /\ v % 1024 = v - 56320 /\ u \notin 128..2047 /\ ~(u < 128)
  BY <1>1, SMT
<1>3. u - 55296 \in 0..1023 /\ v - 56320 \in 0..1023
  BY <1>1, SMT
<1> QED  BY <1>1, <1>2, <1>3, SMT DEF Joined, Scalar

LEMMA JoinedUnits ==
  ASSUME NEW text, NEW r, NEW u, NEW v, HighUnit(u), LowUnit(v), Unit(text, r + 2) = u, strtol(text, r + 8) = v,
         r + 11 =< Len(text)
  PROVE  FromUnit(text, r) = Into(Utf8(Joined(u, v)), r + 12)
<1>1. FromUnit(text, r) = Into(FourBytes(Joined(u, v)), r + 12)
  <2>1. FromUnit(text, r) = FromHigh(text, r, u)
    BY HalfUnit, Zenon
  <2>2. FromHigh(text, r, u) = Into(FourBytes((u - 55296) * 1024 + (v - 56320) + 65536), r + 12)
    BY SMT DEF FromHigh
  <2>3. (u - 55296) * 1024 + (v - 56320) + 65536 = Joined(u, v)
    BY PairUnits
  <2> QED  BY <2>1, <2>2, <2>3
<1>2. Utf8(Joined(u, v)) = FourBytes(Joined(u, v))
  <2>1. Scalar(Joined(u, v)) /\ ~(Joined(u, v) < 65536)
    BY PairUnits
  <2>2. ~(Joined(u, v) < 128) /\ ~(Joined(u, v) < 2048)
    BY <2>1, SMT DEF Scalar
  <2> QED  BY <2>1, <2>2, SMT DEF Utf8
<1> QED  BY <1>1, <1>2, Zenon

\* The numbers of the escapes of a group at its place in a text.
LEMMA UnitsAt ==
  ASSUME NEW text, NEW i, NEW g, IsAt(text, i, g), Len(g) \in {6, 12}
  PROVE  /\ i \in Nat /\ text[i + 1] = g[1] /\ text[(i + 1) + 1] = g[2] /\ Unit(text, (i + 1) + 2) = Unit(g, 3)
         /\ Len(g) = 12 /\ HexAt(g, 9) =>
              strtol(text, (i + 1) + 8) = Unit(g, 9) /\ Unit(text, (i + 1) + 8) = Unit(g, 9) /\ (i + 1) + 11 =< Len(text)
<1>1. i \in Nat /\ i + Len(g) =< Len(text) /\ \A j \in 1..Len(g) : text[i + j] = g[j]
  BY DEF IsAt
<1>2. /\ text[i + 1] = g[1] /\ text[i + 2] = g[2] /\ text[i + 3] = g[3] /\ text[i + 4] = g[4]
      /\ text[i + 5] = g[5] /\ text[i + 6] = g[6]
  BY <1>1
<1>3. /\ (i + 1) + 1 = i + 2 /\ (i + 1) + 2 = i + 3 /\ ((i + 1) + 2) + 1 = i + 4 /\ ((i + 1) + 2) + 2 = i + 5
      /\ ((i + 1) + 2) + 3 = i + 6
  BY <1>1
<1>4. Unit(text, (i + 1) + 2) = Unit(g, 3)
  BY <1>2, <1>3, SMT DEF Unit
<1>5. ASSUME Len(g) = 12
      PROVE  Unit(text, (i + 1) + 8) = Unit(g, 9)
  <2>1. text[i + 9] = g[9] /\ text[i + 10] = g[10] /\ text[i + 11] = g[11] /\ text[i + 12] = g[12]
    BY <1>1, <1>5
  <2>2. (i + 1) + 8 = i + 9 /\ ((i + 1) + 8) + 1 = i + 10 /\ ((i + 1) + 8) + 2 = i + 11 /\ ((i + 1) + 8) + 3 = i + 12
    BY <1>1
  <2> QED  BY <2>1, <2>2, SMT DEF Unit
<1>6. ASSUME Len(g) = 12
      PROVE  (i + 1) + 11 =< Len(text)
  <2>1. i + 12 =< Len(text) /\ (i + 1) + 11 = i + 12
    BY <1>1, <1>6
  <2> QED  BY <2>1
<1>7. ASSUME Len(g) = 12, HexAt(g, 9)
      PROVE  strtol(text, (i + 1) + 8) = Unit(text, (i + 1) + 8)
  <2>1. HexAt(text, (i + 1) + 8)
    <3> SUFFICES ASSUME NEW k \in 0..3
                 PROVE  text[((i + 1) + 8) + k] \in Hex
      BY DEF HexAt
    <3>1. ((i + 1) + 8) + k = i + (9 + k) /\ 9 + k \in 1..12
      BY <1>1
    <3>2. text[i + (9 + k)] = g[9 + k]
      BY <1>1, <1>7, <3>1
    <3>3. g[9 + k] \in Hex
      BY <1>7 DEF HexAt
    <3> QED  BY <3>1, <3>2, <3>3
  <2> QED  BY <2>1, StrtolDigits, Zenon
<1> QED  BY <1>1, <1>2, <1>3, <1>4, <1>5, <1>6, <1>7

\* What is made of a group at its place in a text: n characters, a code point.
Stands(text, i, o, n, u) ==
  /\ UnescapeTurn(text, [pos |-> i + 1, out |-> o]) = [pos |-> i + n + 1, out |-> o \o Utf8(u)]
  /\ PointsTurn(text, [pos |-> i + 1, out |-> o]) = [pos |-> i + n + 1, out |-> Append(o, u)]

GroupIs(g, n, u) ==
  /\ g \in Seq(Coded) /\ Len(g) = n /\ n > 0 /\ n \in Nat /\ PointOf(g) = u /\ Scalar(u)
  /\ \A text, i, o : IsAt(text, i, g) => Stands(text, i, o, n, u)

\* From what a turn translates, to what it leaves.
LEMMA TurnsStand ==
  ASSUME NEW text, NEW i \in Nat, NEW o, NEW n \in Nat, NEW u, NEW r, r = i + 1, Translated(text, r) = Into(Utf8(u), r + n),
         \A s : s.pos = r => PointsTurn(text, s) = Advance(s, n, u)
  PROVE  Stands(text, i, o, n, u)
<1>1. (i + 1) + n = i + n + 1
  OBVIOUS
<1> DEFINE s == [pos |-> r, out |-> o]
<1>2. s.pos = r /\ s.out = o
  OBVIOUS
<1>3. Translated(text, r).next = r + n /\ Translated(text, r).bytes = Utf8(u)
  BY DEF Into
<1>4. UnescapeTurn(text, s) = [pos |-> r + n, out |-> o \o Utf8(u)]
  <2>1. UnescapeTurn(text, s) = [pos |-> Translated(text, r).next, out |-> o \o Translated(text, r).bytes]
    BY TurnIs
  <2> QED  BY <1>3, <2>1, Zenon
<1>5. PointsTurn(text, s) = [pos |-> r + n, out |-> Append(o, u)]
  <2>1. PointsTurn(text, s) = Advance(s, n, u)
    <3> HIDE DEF s
    <3> QED  BY <1>2
  <2>2. Advance(s, n, u) = [pos |-> r + n, out |-> Append(o, u)]
    <3> HIDE DEF s
    <3>1. Advance(s, n, u) = [pos |-> s.pos + n, out |-> Append(s.out, u)]
      BY Zenon DEF Advance
    <3> QED  BY <1>2, <3>1, Zenon
  <2> QED  BY <2>1, <2>2, Zenon
<1>6. r + n = i + n + 1 /\ r = i + 1
  BY <1>1
<1> QED  BY <1>4, <1>5, <1>6, Zenon DEF Stands

\* The only plain character.
LEMMA PlainByte == Byte("a") = 97
<1>1. HexDigit("a") = 10
  BY SMT DEF HexDigit
<1>2. "a" \notin Digit
  BY DEF Digit
<1>3. Byte("a") = 87 + HexDigit("a")
  BY <1>2, Zenon DEF Byte
<1>4. 87 + 10 = 97
  OBVIOUS
<1> QED  BY <1>1, <1>3, <1>4, Zenon

LEMMA PlainGroup == GroupIs(<<"a">>, 1, 97)
<1> DEFINE g == <<"a">>
<1>1. g \in Seq(Coded) /\ Len(g) = 1 /\ g[1] = "a"
  <2>1. "a" \in Coded
    BY DEF Coded, Hex
  <2> QED  BY <2>1
<1>2. PointOf(g) = 97 /\ Scalar(97) /\ Byte("a") = 97 /\ Utf8(97) = <<97>>
  <2>1. PointOf(g) = 97
    BY <1>1, SMT DEF PointOf
  <2>2. Scalar(97)
    BY SMT DEF Scalar
  <2>3. Byte("a") = 97
    BY PlainByte
  <2>4. Utf8(97) = <<97>>
    BY SMT DEF Utf8
  <2> QED  BY <2>1, <2>2, <2>3, <2>4
<1> HIDE DEF g
<1>3. ASSUME NEW text, NEW i, NEW o, IsAt(text, i, g)
      PROVE  Stands(text, i, o, 1, 97)
  <2>1. i \in Nat /\ text[i + 1] = "a"
    BY <1>1, <1>3 DEF IsAt
  <2> DEFINE r == i + 1
  <2>2. text[r] = "a" /\ text[r] # "\\" /\ r = i + 1
    BY <2>1
  <2> HIDE DEF r
  <2>3. Translated(text, r) = Into(Utf8(97), r + 1)
    BY <1>2, <2>2, SMT DEF Translated
  <2>4. \A s : s.pos = r => PointsTurn(text, s) = Advance(s, 1, 97)
    BY <1>2, <2>2, Zenon DEF PointsTurn
  <2> QED  BY <2>1, <2>2, <2>3, <2>4, TurnsStand, SMT
<1>4. GroupIs(g, 1, 97)
  BY <1>1, <1>2, <1>3, SMT DEF GroupIs
<1> QED  BY <1>4 DEF g

LEMMA SingleGroup ==
  ASSUME NEW g \in Single
  PROVE  GroupIs(g, 6, Unit(g, 3))
<1>1. g \in Escapes /\ ~High(g) /\ ~Low(g)
  BY DEF Single
<1>2. g \in Seq(Coded) /\ Len(g) = 6 /\ g[1] = "\\" /\ g[2] = "u" /\ IsUnit(Unit(g, 3))
  BY <1>1, EscapeShape
<1> DEFINE u == Unit(g, 3)
<1>3. ~HighUnit(u) /\ IsUnit(u)
  BY <1>1, <1>2, SMT DEF High, HighUnit
<1>4. PointOf(g) = u /\ Scalar(u)
  BY <1>2, SMT DEF PointOf, Scalar, IsUnit
<1> HIDE DEF u
<1>5. ASSUME NEW text, NEW i, NEW o, IsAt(text, i, g)
      PROVE  Stands(text, i, o, 6, u)
  <2> DEFINE r == i + 1
  <2>1. i \in Nat /\ text[r] = "\\" /\ text[r + 1] = "u" /\ Unit(text, r + 2) = u /\ r = i + 1
    BY <1>2, <1>5, UnitsAt, SMT DEF u
  <2> HIDE DEF r
  <2>2. Translated(text, r) = Into(Utf8(u), r + 6)
    <3>1. Translated(text, r) = FromUnit(text, r)
      BY <2>1, SMT DEF Translated
    <3> QED  BY <1>3, <2>1, <3>1, SingleUnit, SMT
  <2>3. \A s : s.pos = r => PointsTurn(text, s) = Advance(s, 6, u)
    BY <1>3, <2>1, Zenon DEF PointsTurn
  <2> QED  BY <2>1, <2>2, <2>3, TurnsStand, SMT
<1>6. GroupIs(g, 6, u)
  BY <1>2, <1>4, <1>5, SMT DEF GroupIs
<1> QED  BY <1>6 DEF u

LEMMA PairGroup ==
  ASSUME NEW g \in Pair
  PROVE  GroupIs(g, 12, Joined(Unit(g, 3), Unit(g, 9)))
<1>1. /\ g \in Seq(Coded) /\ Len(g) = 12 /\ g[1] = "\\" /\ g[2] = "u"
      /\ HighUnit(Unit(g, 3)) /\ LowUnit(Unit(g, 9)) /\ HexAt(g, 9)
  BY PairShape
<1> DEFINE u == Unit(g, 3)
           v == Unit(g, 9)
           q == Joined(u, v)
<1>2. PointOf(g) = q
  BY <1>1, SMT DEF PointOf
<1>3. HighUnit(u) /\ LowUnit(v)
  BY <1>1
<1>4. Scalar(q)
  BY <1>3, PairUnits
<1> HIDE DEF u, v, q
<1>5. ASSUME NEW text, NEW i, NEW o, IsAt(text, i, g)
      PROVE  Stands(text, i, o, 12, q)
  <2> DEFINE r == i + 1
  <2>1. i \in Nat /\ text[r] = "\\" /\ text[r + 1] = "u" /\ Unit(text, r + 2) = u /\ Unit(text, r + 8) = v /\ r = i + 1
         /\ strtol(text, r + 8) = v /\ r + 11 =< Len(text)
    BY <1>1, <1>5, UnitsAt, Zenon DEF u, v
  <2> HIDE DEF r
  <2>2. Translated(text, r) = Into(Utf8(q), r + 12)
    <3>1. Translated(text, r) = FromUnit(text, r)
      BY <2>1, SMT DEF Translated
    <3> QED  BY <1>3, <2>1, <3>1, JoinedUnits, SMT DEF q
  <2>3. \A s : s.pos = r => PointsTurn(text, s) = Advance(s, 12, q)
    BY <1>3, <2>1, Zenon DEF PointsTurn, q
  <2> QED  BY <2>1, <2>2, <2>3, TurnsStand, SMT
<1>6. GroupIs(g, 12, q)
  BY <1>1, <1>2, <1>4, <1>5, SMT DEF GroupIs
<1> QED  BY <1>6 DEF u, v, q

\* The length of an encoding, and what decoding makes of it.
LEMMA Utf8Is ==
  ASSUME NEW u, Scalar(u)
  PROVE  \E n \in 1..4 : Decodes(Utf8(u), u, n)
BY DecodeGroup, SMT

\* A group and its encoding.
Encoded(g, n, m) == GroupIs(g, n, PointOf(g)) /\ Decodes(Utf8(PointOf(g)), PointOf(g), m) /\ m > 0 /\ m =< n /\ m \in Nat

LEMMA GroupsAre ==
  ASSUME NEW g \in Groups
  PROVE  \E n, m : Encoded(g, n, m)
<1>1. CASE g = <<"a">>
  <2>1. GroupIs(g, 1, 97)
    BY <1>1, PlainGroup
  <2>2. PointOf(g) = 97 /\ Scalar(97)
    BY <2>1, SMT DEF GroupIs
  <2>3. Decodes(Utf8(97), 97, 1)
    BY <2>2, DecodeGroup, SMT
  <2>4. Encoded(g, 1, 1)
    BY <2>1, <2>2, <2>3, SMT DEF Encoded
  <2> QED  BY <2>4
<1>2. ASSUME NEW n \in {6, 12}, NEW u, GroupIs(g, n, u)
      PROVE  \E nn, m : Encoded(g, nn, m)
  <2>1. PointOf(g) = u /\ Scalar(u)
    BY <1>2 DEF GroupIs
  <2>2. PICK m \in 1..4 : Decodes(Utf8(u), u, m)
    BY <2>1, Utf8Is
  <2>3. m > 0 /\ m =< n /\ m \in Nat
    BY <2>2
  <2>4. Encoded(g, n, m)
    BY <1>2, <2>1, <2>2, <2>3 DEF Encoded
  <2> QED  BY <2>4
<1>3. CASE g \in Single
  BY <1>2, <1>3, SingleGroup
<1>4. CASE g \in Pair
  BY <1>2, <1>4, PairGroup
<1> QED  BY <1>1, <1>3, <1>4 DEF Groups

\* Decoding, by its states.
LEMMA DecodedRuns ==
  ASSUME NEW S, NEW text \in Seq(S), NEW n \in 0..Len(text), NEW st,
         st[0] = [pos |-> 1, out |-> <<>>], st[n].pos > Len(text),
         \A k \in 1..n : ~(st[k - 1].pos > Len(text)) /\ st[k] = DecodeTurn(text, st[k - 1])
  PROVE  Decoded(text) = st[n].out
<1> DEFINE m == Len(text)
           start == [pos |-> 1, out |-> <<>>]
           After(s) == IF s.pos > m THEN s ELSE DecodeTurn(text, s)
           P(g) == g = [k \in 0..m |-> IF k = 0 THEN start ELSE After(g[k - 1])]
           g0 == [k \in 0..m |-> IF k =< n THEN st[k] ELSE st[n]]
<1>1. m \in Nat /\ n \in 0..m
  BY LenProperties
<1>2. st[0] = start /\ After(st[n]) = st[n] /\ \A k \in 1..n : After(st[k - 1]) = st[k]
  BY Zenon
<1>3. Decoded(text) = (CHOOSE g : P(g))[m].out
  BY DEF Decoded, While, For
<1> HIDE DEF m, start, After
<1>4. P(g0)
  <2>1. \A k \in 0..m : g0[k] = IF k = 0 THEN start ELSE After(g0[k - 1])
    <3> SUFFICES ASSUME NEW k \in 0..m
                 PROVE  g0[k] = IF k = 0 THEN start ELSE After(g0[k - 1])
      OBVIOUS
    <3>1. CASE k = 0
      BY <1>1, <1>2, <3>1
    <3>2. CASE k \in 1..n
      <4>1. g0[k - 1] = st[k - 1] /\ g0[k] = st[k]
        BY <1>1, <3>2
      <4> QED  BY <1>2, <3>2, <4>1
    <3>3. CASE k > n /\ k # 0
      <4>1. g0[k - 1] = st[n] /\ g0[k] = st[n]
        BY <1>1, <3>3
      <4> QED  BY <1>2, <3>3, <4>1
    <3> QED  BY <1>1, <3>1, <3>2, <3>3
  <2>2. DOMAIN g0 = 0..m /\ g0 = [k \in 0..m |-> g0[k]]
    OBVIOUS
  <2> HIDE DEF g0
  <2> QED  BY <2>1, <2>2
<1>5. PICK g : P(g) /\ Decoded(text) = g[m].out
  <2> HIDE DEF P, g0
  <2> QED  BY <1>3, <1>4
<1>6. g[0] = start /\ \A k \in 1..m : g[k] = After(g[k - 1])
  BY <1>1, <1>5
<1>7. g[m] = st[n]
  <2>1. g[0] = st[0]
    BY <1>2, <1>6
  <2>2. \A k \in 1..n : g[k - 1] = st[k - 1] => g[k] = st[k]
    BY <1>1, <1>2, <1>6
  <2>3. \A k \in n + 1..m : g[k - 1] = st[n] => g[k] = st[n]
    BY <1>1, <1>2, <1>6
  <2>4. Halts(g, st, n, m)
    BY <1>1, <2>1, <2>2, <2>3, Zenon DEF Halts
  <2> HIDE DEF P
  <2> QED  BY <2>4, RunStops
<1> QED  BY <1>5, <1>7

\* Reading the code points, by its states.
LEMMA PointsRuns ==
  ASSUME NEW S, NEW text \in Seq(S), NEW n \in 0..Len(text), NEW st,
         st[0] = [pos |-> 1, out |-> <<>>], st[n].pos > Len(text),
         \A k \in 1..n : ~(st[k - 1].pos > Len(text)) /\ st[k] = PointsTurn(text, st[k - 1])
  PROVE  Points(text) = st[n].out
<1> DEFINE m == Len(text)
           start == [pos |-> 1, out |-> <<>>]
           After(s) == IF s.pos > m THEN s ELSE PointsTurn(text, s)
           P(g) == g = [k \in 0..m |-> IF k = 0 THEN start ELSE After(g[k - 1])]
           g0 == [k \in 0..m |-> IF k =< n THEN st[k] ELSE st[n]]
<1>1. m \in Nat /\ n \in 0..m
  BY LenProperties
<1>2. st[0] = start /\ After(st[n]) = st[n] /\ \A k \in 1..n : After(st[k - 1]) = st[k]
  BY Zenon
<1>3. Points(text) = (CHOOSE g : P(g))[m].out
  BY DEF Points, While, For
<1> HIDE DEF m, start, After
<1>4. P(g0)
  <2>1. \A k \in 0..m : g0[k] = IF k = 0 THEN start ELSE After(g0[k - 1])
    <3> SUFFICES ASSUME NEW k \in 0..m
                 PROVE  g0[k] = IF k = 0 THEN start ELSE After(g0[k - 1])
      OBVIOUS
    <3>1. CASE k = 0
      BY <1>1, <1>2, <3>1
    <3>2. CASE k \in 1..n
      <4>1. g0[k - 1] = st[k - 1] /\ g0[k] = st[k]
        BY <1>1, <3>2
      <4> QED  BY <1>2, <3>2, <4>1
    <3>3. CASE k > n /\ k # 0
      <4>1. g0[k - 1] = st[n] /\ g0[k] = st[n]
        BY <1>1, <3>3
      <4> QED  BY <1>2, <3>3, <4>1
    <3> QED  BY <1>1, <3>1, <3>2, <3>3
  <2>2. DOMAIN g0 = 0..m /\ g0 = [k \in 0..m |-> g0[k]]
    OBVIOUS
  <2> HIDE DEF g0
  <2> QED  BY <2>1, <2>2
<1>5. PICK g : P(g) /\ Points(text) = g[m].out
  <2> HIDE DEF P, g0
  <2> QED  BY <1>3, <1>4
<1>6. g[0] = start /\ \A k \in 1..m : g[k] = After(g[k - 1])
  BY <1>1, <1>5
<1>7. g[m] = st[n]
  <2>1. g[0] = st[0]
    BY <1>2, <1>6
  <2>2. \A k \in 1..n : g[k - 1] = st[k - 1] => g[k] = st[k]
    BY <1>1, <1>2, <1>6
  <2>3. \A k \in n + 1..m : g[k - 1] = st[n] => g[k] = st[n]
    BY <1>1, <1>2, <1>6
  <2>4. Halts(g, st, n, m)
    BY <1>1, <2>1, <2>2, <2>3, Zenon DEF Halts
  <2> HIDE DEF P
  <2> QED  BY <2>4, RunStops
<1> QED  BY <1>5, <1>7

\* A text of groups, the groups, and the bytes they stand for.
Bytes(g, n) == [k \in 1..n |-> Utf8(PointOf(g[k]))]
Grouped(n, g, e, out) ==
  /\ n \in Nat /\ g \in [1..n -> Groups] /\ MadeOf(e, g, n, Coded) /\ MadeOf(out, Bytes(g, n), n, Nat)

\* The turns over groups that are found in a text, in their order.
Found(text, n, e, g) == \A k \in 1..n : IsAt(text, Len(e[k - 1]), g[k]) /\ ~(Len(e[k - 1]) + 1 > Len(text))
Between(st, n, e, out) == \A k \in 0..n : st[k] = [pos |-> Len(e[k]) + 1, out |-> out[k]]

LEMMA GroupSteps ==
  ASSUME NEW n, NEW g, NEW e, NEW out, Grouped(n, g, e, out), NEW text, Found(text, n, e, g), NEW st, Between(st, n, e, out)
  PROVE  Passed(text, n, st)
<1>1. n \in Nat /\ g \in [1..n -> Groups] /\ e[0] = <<>> /\ out[0] = <<>>
  BY DEF Grouped, MadeOf
<1>2. st[0] = [pos |-> 1, out |-> <<>>]
  <2>1. 0 \in 0..n /\ Len(e[0]) + 1 = 1
    BY <1>1
  <2>2. st[0] = [pos |-> Len(e[0]) + 1, out |-> out[0]]
    BY <2>1, Zenon DEF Between
  <2> QED  BY <1>1, <2>1, <2>2, Zenon
<1>3. ASSUME NEW k \in 1..n
      PROVE  ~(st[k - 1].pos > Len(text)) /\ st[k] = UnescapeTurn(text, st[k - 1])
  <2> DEFINE u == PointOf(g[k])
             i == Len(e[k - 1])
  <2>1. k - 1 \in 0..n /\ k \in 0..n
    BY <1>1
  <2>2. st[k - 1] = [pos |-> i + 1, out |-> out[k - 1]] /\ st[k] = [pos |-> Len(e[k]) + 1, out |-> out[k]]
    BY <2>1, Zenon DEF Between
  <2>3. PICK l, m : Encoded(g[k], l, m)
    BY <1>1, GroupsAre
  <2>4. GroupIs(g[k], l, u) /\ Len(g[k]) = l
    BY <2>3 DEF Encoded, GroupIs
  <2>5. Stands(text, i, out[k - 1], l, u) /\ ~(i + 1 > Len(text))
    BY <2>4, Zenon DEF Found, GroupIs
  <2>6. Len(e[k]) = i + Len(g[k])
    <3>1. Placed(e, g, n)
      BY PiecesAreAt, Zenon DEF Grouped
    <3> QED  BY <3>1, Zenon DEF Placed
  <2>7. out[k] = out[k - 1] \o Utf8(u)
    BY <1>1 DEF Grouped, MadeOf, Bytes
  <2> HIDE DEF u, i
  <2>8. st[k] = UnescapeTurn(text, st[k - 1])
    BY <2>2, <2>4, <2>5, <2>6, <2>7, Zenon DEF Stands
  <2>9. st[k - 1].pos = i + 1
    BY <2>2
  <2> QED  BY <2>5, <2>8, <2>9, Zenon
<1> QED  BY <1>2, <1>3, Zenon DEF Passed

LEMMA GroupedRuns ==
  ASSUME NEW n, NEW g, NEW e, NEW out, Grouped(n, g, e, out)
  PROVE  Unescaped(e[n]) = [pos |-> Len(e[n]) + 1, out |-> out[n]] /\ Decoded(out[n]) = Points(e[n])
<1>1. n \in Nat /\ g \in [1..n -> Groups] /\ n \in 0..n
  BY DEF Grouped
<1>2. Placed(e, g, n) /\ Placed(out, Bytes(g, n), n)
  BY PiecesAreAt, Zenon DEF Grouped
<1>3. /\ e \in [0..n -> Seq(Coded)] /\ e[0] = <<>> /\ out \in [0..n -> Seq(Nat)] /\ out[0] = <<>>
      /\ \A k \in 1..n : out[k] = out[k - 1] \o Utf8(PointOf(g[k]))
  BY <1>1 DEF Grouped, MadeOf, Bytes
<1> DEFINE pts == [i \in 1..n |-> PointOf(g[i])]
<1>4. ASSUME NEW k \in 1..n
      PROVE  /\ \A text, i, o : IsAt(text, i, g[k]) => Stands(text, i, o, Len(g[k]), pts[k])
             /\ \A b, i, o : IsAt(b, i, Utf8(pts[k])) =>
                  DecodeTurn(b, [pos |-> i + 1, out |-> o]) = [pos |-> i + Len(Utf8(pts[k])) + 1, out |-> Append(o, pts[k])]
             /\ Len(Utf8(pts[k])) =< Len(g[k]) /\ pts[k] = PointOf(g[k])
  <2>1. g[k] \in Groups
    BY <1>1
  <2>2. PICK l, m : Encoded(g[k], l, m)
    BY <2>1, GroupsAre
  <2>3. pts[k] = PointOf(g[k])
    OBVIOUS
  <2> HIDE DEF pts
  <2>4. GroupIs(g[k], l, pts[k]) /\ Decodes(Utf8(pts[k]), pts[k], m) /\ m =< l
    BY <2>2, <2>3 DEF Encoded
  <2>5. Len(g[k]) = l /\ Len(Utf8(pts[k])) = m
    BY <2>4 DEF GroupIs, Decodes
  <2>6. \A text, i, o : IsAt(text, i, g[k]) => Stands(text, i, o, Len(g[k]), pts[k])
    BY <2>4, <2>5, Zenon DEF GroupIs
  <2>7. \A b, i, o : IsAt(b, i, Utf8(pts[k])) =>
                  DecodeTurn(b, [pos |-> i + 1, out |-> o]) = [pos |-> i + Len(Utf8(pts[k])) + 1, out |-> Append(o, pts[k])]
    BY <2>4, <2>5, Zenon DEF Decodes
  <2> QED  BY <2>3, <2>4, <2>5, <2>6, <2>7, Zenon
<1>5. /\ n =< Len(e[n]) /\ Len(e[0]) = 0 /\ \A k \in 0..n : Len(e[k]) \in Nat
      /\ \A k \in 1..n : /\ IsAt(e[n], Len(e[k - 1]), g[k]) /\ Len(e[k]) = Len(e[k - 1]) + Len(g[k])
                         /\ ~(Len(e[k - 1]) + 1 > Len(e[n])) /\ k - 1 \in 0..n /\ Len(g[k]) \in Nat
  BY <1>2 DEF Placed
<1>6. /\ n =< Len(out[n]) /\ Len(out[0]) = 0 /\ \A k \in 0..n : Len(out[k]) \in Nat
      /\ \A k \in 1..n : /\ IsAt(out[n], Len(out[k - 1]), Utf8(pts[k])) /\ Len(out[k]) = Len(out[k - 1]) + Len(Utf8(pts[k]))
                         /\ ~(Len(out[k - 1]) + 1 > Len(out[n])) /\ Len(Utf8(pts[k])) \in Nat
  <2>1. \A k \in 1..n : Bytes(g, n)[k] = Utf8(pts[k])
    BY DEF Bytes
  <2> HIDE DEF pts
  <2> QED  BY <1>2, <2>1 DEF Placed
<1> HIDE DEF pts
<1>7. Unescaped(e[n]) = [pos |-> Len(e[n]) + 1, out |-> out[n]]
  <2> DEFINE st == [k \in 0..n |-> [pos |-> Len(e[k]) + 1, out |-> out[k]]]
  <2>1. Between(st, n, e, out)
    BY DEF Between
  <2> HIDE DEF st
  <2>2. Found(e[n], n, e, g)
    BY <1>5, Zenon DEF Found
  <2>3. st[n] = [pos |-> Len(e[n]) + 1, out |-> out[n]]
    BY <1>1, <2>1, Zenon DEF Between
  <2>4. st[n].pos > Len(e[n])
    BY <1>1, <1>5, <2>3
  <2>5. e[n] \in Seq(Coded) /\ n \in 0..Len(e[n])
    BY <1>1, <1>3, <1>5
  <2>6. UnescapeStates(e[n], n, st)
    BY <2>1, <2>2, <2>4, <2>5, GroupSteps, Zenon DEF UnescapeStates
  <2>7. Unescaped(e[n]) = st[n]
    BY <2>5, <2>6, UnescapeRuns, Zenon
  <2> QED  BY <2>3, <2>7, Zenon
<1> DEFINE first(k) == [i \in 1..k |-> pts[i]]
<1>8. first(0) = <<>> /\ \A k \in 1..n : first(k) = Append(first(k - 1), pts[k])
  <2>1. first(0) = <<>>
    OBVIOUS
  <2>2. ASSUME NEW k \in 1..n
        PROVE  first(k) = Append(first(k - 1), pts[k])
    <3>1. k \in Nat \ {0}
      BY <1>1
    <3> QED  BY <3>1, OneMore
  <2> QED  BY <2>1, <2>2
<1> HIDE DEF first
<1>9. Points(e[n]) = first(n)
  <2> DEFINE st == [k \in 0..n |-> [pos |-> Len(e[k]) + 1, out |-> first(k)]]
  <2>1. \A k \in 0..n : st[k] = [pos |-> Len(e[k]) + 1, out |-> first(k)]
    OBVIOUS
  <2> HIDE DEF st
  <2>2. st[0] = [pos |-> 1, out |-> <<>>]
    <3>1. 0 \in 0..n /\ Len(e[0]) + 1 = 1
      BY <1>1, <1>5
    <3>2. st[0] = [pos |-> Len(e[0]) + 1, out |-> first(0)]
      BY <2>1, <3>1, Zenon
    <3> QED  BY <1>8, <3>1, <3>2, Zenon
  <2>3. ASSUME NEW k \in 1..n
        PROVE  ~(st[k - 1].pos > Len(e[n])) /\ st[k] = PointsTurn(e[n], st[k - 1])
    <3>1. k - 1 \in 0..n /\ k \in 0..n
      BY <1>1
    <3>2. st[k - 1] = [pos |-> Len(e[k - 1]) + 1, out |-> first(k - 1)] /\ st[k] = [pos |-> Len(e[k]) + 1, out |-> first(k)]
      BY <2>1, <3>1, Zenon
    <3>3. Stands(e[n], Len(e[k - 1]), first(k - 1), Len(g[k]), pts[k])
      BY <1>4, <1>5, Zenon
    <3>4. PointsTurn(e[n], st[k - 1]) = [pos |-> Len(e[k - 1]) + Len(g[k]) + 1, out |-> Append(first(k - 1), pts[k])]
      BY <3>2, <3>3, Zenon DEF Stands
    <3>5. Len(e[k]) = Len(e[k - 1]) + Len(g[k]) /\ first(k) = Append(first(k - 1), pts[k])
      BY <1>5, <1>8, Zenon
    <3>6. st[k - 1].pos = Len(e[k - 1]) + 1
      BY <3>2
    <3>7. ~(st[k - 1].pos > Len(e[n]))
      BY <1>5, <3>6, Zenon
    <3> QED  BY <3>2, <3>4, <3>5, <3>7, Zenon
  <2>4. st[n].pos > Len(e[n]) /\ st[n].out = first(n)
    <3>1. st[n] = [pos |-> Len(e[n]) + 1, out |-> first(n)]
      BY <1>1, <2>1, Zenon
    <3> QED  BY <1>1, <1>5, <3>1
  <2>5. e[n] \in Seq(Coded) /\ n \in 0..Len(e[n])
    BY <1>1, <1>3, <1>5
  <2>6. Points(e[n]) = st[n].out
    BY <2>2, <2>3, <2>4, <2>5, PointsRuns, Zenon
  <2> QED  BY <2>4, <2>6
<1>10. Decoded(out[n]) = first(n)
  <2> DEFINE st == [k \in 0..n |-> [pos |-> Len(out[k]) + 1, out |-> first(k)]]
  <2>1. \A k \in 0..n : st[k] = [pos |-> Len(out[k]) + 1, out |-> first(k)]
    OBVIOUS
  <2> HIDE DEF st
  <2>2. st[0] = [pos |-> 1, out |-> <<>>]
    <3>1. 0 \in 0..n /\ Len(out[0]) + 1 = 1
      BY <1>1, <1>6
    <3>2. st[0] = [pos |-> Len(out[0]) + 1, out |-> first(0)]
      BY <2>1, <3>1, Zenon
    <3> QED  BY <1>8, <3>1, <3>2, Zenon
  <2>3. ASSUME NEW k \in 1..n
        PROVE  ~(st[k - 1].pos > Len(out[n])) /\ st[k] = DecodeTurn(out[n], st[k - 1])
    <3>1. k - 1 \in 0..n /\ k \in 0..n
      BY <1>1
    <3>2. st[k - 1] = [pos |-> Len(out[k - 1]) + 1, out |-> first(k - 1)] /\ st[k] = [pos |-> Len(out[k]) + 1, out |-> first(k)]
      BY <2>1, <3>1, Zenon
    <3>3. DecodeTurn(out[n], [pos |-> Len(out[k - 1]) + 1, out |-> first(k - 1)])
            = [pos |-> Len(out[k - 1]) + Len(Utf8(pts[k])) + 1, out |-> Append(first(k - 1), pts[k])]
      <4>1. IsAt(out[n], Len(out[k - 1]), Utf8(pts[k]))
        BY <1>6
      <4>2. \A b, i, o : IsAt(b, i, Utf8(pts[k])) =>
              DecodeTurn(b, [pos |-> i + 1, out |-> o]) = [pos |-> i + Len(Utf8(pts[k])) + 1, out |-> Append(o, pts[k])]
        BY <1>4, Zenon
      <4> QED  BY <4>1, <4>2, Zenon
    <3>4. DecodeTurn(out[n], st[k - 1]) = [pos |-> Len(out[k - 1]) + Len(Utf8(pts[k])) + 1, out |-> Append(first(k - 1), pts[k])]
      BY <3>2, <3>3, Zenon
    <3>5. Len(out[k]) = Len(out[k - 1]) + Len(Utf8(pts[k])) /\ first(k) = Append(first(k - 1), pts[k])
      BY <1>6, <1>8, Zenon
    <3>6. st[k - 1].pos = Len(out[k - 1]) + 1
      BY <3>2
    <3>7. ~(st[k - 1].pos > Len(out[n]))
      BY <1>6, <3>6, Zenon
    <3> QED  BY <3>2, <3>4, <3>5, <3>7, Zenon
  <2>4. st[n].pos > Len(out[n]) /\ st[n].out = first(n)
    <3>1. st[n] = [pos |-> Len(out[n]) + 1, out |-> first(n)]
      BY <1>1, <2>1, Zenon
    <3> QED  BY <1>1, <1>6, <3>1
  <2>5. out[n] \in Seq(Nat) /\ n \in 0..Len(out[n])
    BY <1>1, <1>3, <1>6
  <2>6. Decoded(out[n]) = st[n].out
    BY <2>2, <2>3, <2>4, <2>5, DecodedRuns, Zenon
  <2> QED  BY <2>4, <2>6
<1> QED  BY <1>7, <1>9, <1>10, Zenon

-----------------------------------------------------------------------------
(* The texts of strings with \u escapes, and how far they are read *)

\* Where the characters of a joined text come from.
JoinOf(x, s, t) ==
  /\ Len(x) = Len(s) + Len(t) /\ Len(s) \in Nat /\ Len(t) \in Nat
  /\ \A i \in 1..Len(s) : x[i] = s[i]
  /\ \A i \in 1..Len(t) : x[Len(s) + i] = t[i]

LEMMA JoinedAt ==
  ASSUME NEW S, NEW s \in Seq(S), NEW t \in Seq(S)
  PROVE  s \o t \in Seq(S) /\ JoinOf(s \o t, s, t)
<1> DEFINE a == Len(s)
           b == Len(t)
<1>1. a \in Nat /\ b \in Nat
  BY LenProperties
<1>2. s \o t \in Seq(S) /\ Len(s \o t) = a + b /\ \A i \in 1..a + b : (s \o t)[i] = IF i =< a THEN s[i] ELSE t[i - a]
  BY ConcatProperties
<1> HIDE DEF a, b
<1>3. \A i \in 1..a : (s \o t)[i] = s[i]
  <2> SUFFICES ASSUME NEW i \in 1..a
               PROVE  (s \o t)[i] = s[i]
    OBVIOUS
  <2>1. i \in 1..a + b /\ i =< a
    BY <1>1
  <2> QED  BY <1>2, <2>1
<1>4. \A i \in 1..b : (s \o t)[a + i] = t[i]
  <2> SUFFICES ASSUME NEW i \in 1..b
               PROVE  (s \o t)[a + i] = t[i]
    OBVIOUS
  <2>1. a + i \in 1..a + b /\ ~(a + i =< a) /\ (a + i) - a = i
    BY <1>1
  <2> QED  BY <1>2, <2>1
<1> QED  BY <1>1, <1>2, <1>3, <1>4 DEF a, b, JoinOf

\* A backslash begins an escape of four digits.
EscapeAt(t, j) == j + 5 =< Len(t) /\ t[j + 1] = "u" /\ HexAt(t, j + 2)
WellEscaped(t) == t \in Seq(Coded) /\ \A j \in 1..Len(t) : t[j] = "\\" => EscapeAt(t, j)

LEMMA PieceEscaped ==
  ASSUME NEW p \in Escapes \cup {<<"a">>}
  PROVE  WellEscaped(p)
<1>1. CASE p = <<"a">>
  <2>1. "a" \in Coded
    BY DEF Coded, Hex
  <2>2. <<"a">> \in Seq(Coded) /\ Len(<<"a">>) = 1 /\ <<"a">>[1] = "a"
    BY <2>1
  <2> QED  BY <1>1, <2>2 DEF WellEscaped
<1>2. CASE p \in Escapes
  <2>1. p \in Seq(Coded) /\ Len(p) = 6 /\ p[2] = "u" /\ HexAt(p, 3) /\ \A i \in 2..6 : p[i] # "\\"
    BY <1>2, EscapeShape
  <2>2. ASSUME NEW j \in 1..Len(p), p[j] = "\\"
        PROVE  EscapeAt(p, j)
    <3>1. j = 1
      BY <2>1, <2>2
    <3>2. 1 + 5 =< Len(p) /\ 1 + 1 = 2 /\ 1 + 2 = 3
      BY <2>1
    <3> QED  BY <2>1, <3>1, <3>2 DEF EscapeAt
  <2> QED  BY <2>1, <2>2, Zenon DEF WellEscaped
<1> QED  BY <1>1, <1>2

LEMMA EscapedJoin ==
  ASSUME NEW s, NEW t, WellEscaped(s), WellEscaped(t)
  PROVE  WellEscaped(s \o t)
<1> DEFINE st == s \o t
           a == Len(s)
           b == Len(t)
<1>1. /\ st \in Seq(Coded) /\ Len(st) = a + b /\ a \in Nat /\ b \in Nat
      /\ \A i \in 1..a : st[i] = s[i]
      /\ \A i \in 1..b : st[a + i] = t[i]
  <2>1. st \in Seq(Coded) /\ JoinOf(st, s, t)
    BY JoinedAt DEF WellEscaped
  <2> HIDE DEF st
  <2> QED  BY <2>1 DEF JoinOf
<1>2. \A j \in 1..a : s[j] = "\\" => j + 5 =< a /\ s[j + 1] = "u" /\ HexAt(s, j + 2)
  BY DEF WellEscaped, EscapeAt
<1>3. \A j \in 1..b : t[j] = "\\" => j + 5 =< b /\ t[j + 1] = "u" /\ HexAt(t, j + 2)
  BY DEF WellEscaped, EscapeAt
<1> HIDE DEF st, a, b
<1>4. ASSUME NEW j \in 1..a + b, st[j] = "\\"
      PROVE  j + 5 =< a + b /\ st[j + 1] = "u" /\ HexAt(st, j + 2)
  <2>1. CASE j =< a
    <3>1. j \in 1..a /\ s[j] = "\\"
      BY <1>1, <1>4, <2>1
    <3>2. j + 5 =< a /\ s[j + 1] = "u" /\ HexAt(s, j + 2)
      BY <1>2, <3>1
    <3>3. st[j + 1] = s[j + 1] /\ j + 5 =< a + b
      <4>1. j + 1 \in 1..a /\ j + 5 =< a + b
        BY <1>1, <3>1, <3>2
      <4> QED  BY <1>1, <4>1
    <3>4. HexAt(st, j + 2)
      <4> SUFFICES ASSUME NEW k \in 0..3
                   PROVE  st[(j + 2) + k] \in Hex
        BY DEF HexAt
      <4>1. (j + 2) + k \in 1..a
        BY <1>1, <3>1, <3>2
      <4>2. s[(j + 2) + k] \in Hex
        BY <3>2 DEF HexAt
      <4> QED  BY <1>1, <4>1, <4>2
    <3> QED  BY <3>2, <3>3, <3>4, Zenon
  <2>2. CASE j > a
    <3> DEFINE i == j - a
    <3>1. i \in 1..b /\ a + i = j
      BY <1>1, <2>2
    <3> HIDE DEF i
    <3>2. i + 5 =< b /\ t[i + 1] = "u" /\ HexAt(t, i + 2)
      BY <1>1, <1>3, <1>4, <3>1
    <3>3. st[j + 1] = t[i + 1] /\ j + 5 =< a + b
      <4>1. i + 1 \in 1..b /\ a + (i + 1) = j + 1 /\ j + 5 =< a + b
        BY <1>1, <3>1, <3>2
      <4>2. st[a + (i + 1)] = t[i + 1]
        BY <1>1, <4>1
      <4> QED  BY <4>1, <4>2
    <3>4. HexAt(st, j + 2)
      <4> SUFFICES ASSUME NEW k \in 0..3
                   PROVE  st[(j + 2) + k] \in Hex
        BY DEF HexAt
      <4>1. (i + 2) + k \in 1..b /\ a + ((i + 2) + k) = (j + 2) + k
        BY <1>1, <3>1, <3>2
      <4>2. t[(i + 2) + k] \in Hex
        BY <3>2 DEF HexAt
      <4>3. st[a + ((i + 2) + k)] = t[(i + 2) + k]
        BY <1>1, <4>1
      <4> QED  BY <4>1, <4>2, <4>3
    <3> QED  BY <3>2, <3>3, <3>4, Zenon
  <2> QED  BY <1>1, <2>1, <2>2
<1>5. \A j \in 1..Len(st) : st[j] = "\\" => j + 5 =< Len(st) /\ st[j + 1] = "u" /\ HexAt(st, j + 2)
  BY <1>1, <1>4
<1> QED  BY <1>1, <1>5, Zenon DEF WellEscaped, EscapeAt, st

\* Four digits name a unit.
LEMMA UnitTyped ==
  ASSUME NEW t, NEW i \in Int, HexAt(t, i)
  PROVE  IsUnit(Unit(t, i))
<1>1. t[i] \in Hex /\ t[i + 1] \in Hex /\ t[i + 2] \in Hex /\ t[i + 3] \in Hex
  <2>1. t[i + 0] \in Hex /\ t[i + 1] \in Hex /\ t[i + 2] \in Hex /\ t[i + 3] \in Hex
    BY DEF HexAt
  <2>2. i + 0 = i
    OBVIOUS
  <2> QED  BY <2>1, <2>2, Zenon
<1> DEFINE w == HexDigit(t[i])
           x == HexDigit(t[i + 1])
           y == HexDigit(t[i + 2])
           z == HexDigit(t[i + 3])
<1>2. w \in 0..15 /\ x \in 0..15 /\ y \in 0..15 /\ z \in 0..15
  BY <1>1, HexDigits
<1>3. Unit(t, i) = Value(w, x, y, z)
  BY SMT DEF Unit, Value
<1> HIDE DEF w, x, y, z
<1> QED  BY <1>2, <1>3, FourDigits, Zenon

\* What a turn writes: at most four bytes, and no more than it reads.
ByteSet(t) == {Translated(t, r).bytes[i] : r \in 1..Len(t), i \in 1..4}

ReadsTo(x, r, S) == \E l \in Nat : x.next = r + l /\ x.bytes \in Seq(S) /\ Len(x.bytes) =< l

AFew(b) ==
  \/ b = <<>>
  \/ \E x : b = <<x>>
  \/ \E x, y : b = <<x, y>>
  \/ \E x, y, z : b = <<x, y, z>>
  \/ \E x, y, z, w : b = <<x, y, z, w>>

LEMMA AFewTyped ==
  ASSUME NEW S, NEW b, AFew(b), b[1] \in S, b[2] \in S, b[3] \in S, b[4] \in S
  PROVE  b \in Seq(S) /\ Len(b) \in 0..4
<1>1. CASE b = <<>>
  BY <1>1
<1>2. ASSUME NEW x, b = <<x>>
      PROVE  b \in Seq(S) /\ Len(b) \in 0..4
  <2>1. x \in S
    BY <1>2
  <2> QED  BY <1>2, <2>1
<1>3. ASSUME NEW x, NEW y, b = <<x, y>>
      PROVE  b \in Seq(S) /\ Len(b) \in 0..4
  <2>1. x \in S /\ y \in S
    BY <1>3
  <2> QED  BY <1>3, <2>1
<1>4. ASSUME NEW x, NEW y, NEW z, b = <<x, y, z>>
      PROVE  b \in Seq(S) /\ Len(b) \in 0..4
  <2>1. x \in S /\ y \in S /\ z \in S
    BY <1>4
  <2> QED  BY <1>4, <2>1
<1>5. ASSUME NEW x, NEW y, NEW z, NEW w, b = <<x, y, z, w>>
      PROVE  b \in Seq(S) /\ Len(b) \in 0..4
  <2>1. x \in S /\ y \in S /\ z \in S /\ w \in S
    BY <1>5
  <2> QED  BY <1>5, <2>1
<1> QED  BY <1>1, <1>2, <1>3, <1>4, <1>5, Zenon DEF AFew

LEMMA BytesAreFew ==
  ASSUME NEW u
  PROVE  AFew(<<u>>) /\ AFew(TwoBytes(u)) /\ AFew(ThreeBytes(u)) /\ AFew(FourBytes(u)) /\ AFew(<<>>)
<1> DEFINE b1 == 192 + ((u \div 64) % 32)
           b2 == 224 + ((u \div 4096) % 16)
           b3 == 240 + ((u \div 262144) % 8)
           b4 == 128 + ((u \div 4096) % 64)
           b5 == 128 + ((u \div 64) % 64)
           b6 == 128 + (u % 64)
<1>1. TwoBytes(u) = <<b1, b6>> /\ ThreeBytes(u) = <<b2, b5, b6>> /\ FourBytes(u) = <<b3, b4, b5, b6>>
  BY DEF TwoBytes, ThreeBytes, FourBytes
<1> HIDE DEF b1, b2, b3, b4, b5, b6
<1> QED  BY <1>1, Zenon DEF AFew

LEMMA Utf8IsFew == ASSUME NEW u PROVE AFew(Utf8(u))
<1>1. Utf8(u) = <<u>> \/ Utf8(u) = TwoBytes(u) \/ Utf8(u) = ThreeBytes(u) \/ Utf8(u) = FourBytes(u)
  BY SMT DEF Utf8
<1> QED  BY <1>1, BytesAreFew, Zenon

LEMMA HighIsFew ==
  ASSUME NEW t, NEW r, NEW u
  PROVE  \E b : AFew(b) /\ FromHigh(t, r, u) = Into(b, r + 12)
<1> DEFINE pair == (u - 55296) * 1024 + (strtol(t, r + 8) - 56320) + 65536
           b == IF r + 11 =< Len(t) THEN FourBytes(pair) ELSE <<>>
<1>1. FromHigh(t, r, u) = Into(b, r + 12)
  BY SMT DEF FromHigh
<1> HIDE DEF pair
<1>2. b = FourBytes(pair) \/ b = <<>>
  OBVIOUS
<1> HIDE DEF b
<1>3. AFew(b)
  BY <1>2, BytesAreFew, Zenon
<1> QED  BY <1>1, <1>3, Zenon

LEMMA IntoIs == ASSUME NEW b, NEW q PROVE Into(b, q).bytes = b /\ Into(b, q).next = q
BY DEF Into

LEMMA IntoReads ==
  ASSUME NEW t, NEW r \in 1..Len(t), NEW b, NEW l \in Nat, Translated(t, r) = Into(b, r + l), AFew(b),
         l >= 4 \/ Len(b) =< l
  PROVE  ReadsTo(Translated(t, r), r, ByteSet(t))
<1>1. Translated(t, r).bytes = b /\ Translated(t, r).next = r + l
  BY IntoIs, Zenon
<1>2. \A i \in 1..4 : Translated(t, r).bytes[i] \in ByteSet(t)
  BY DEF ByteSet
<1>3. b[1] \in ByteSet(t) /\ b[2] \in ByteSet(t) /\ b[3] \in ByteSet(t) /\ b[4] \in ByteSet(t)
  <2>1. 1 \in 1..4 /\ 2 \in 1..4 /\ 3 \in 1..4 /\ 4 \in 1..4
    OBVIOUS
  <2> QED  BY <1>1, <1>2, <2>1, Zenon
<1>4. b \in Seq(ByteSet(t)) /\ Len(b) \in 0..4
  BY <1>3, AFewTyped
<1> DEFINE k == Len(b)
<1>5. k \in 0..4 /\ (l >= 4 \/ k =< l)
  BY <1>4
<1> HIDE DEF k
<1>6. k =< l
  BY <1>5
<1> QED  BY <1>1, <1>4, <1>6, Zenon DEF ReadsTo, k

LEMMA TurnTakes ==
  ASSUME NEW t, WellEscaped(t), NEW r \in 1..Len(t)
  PROVE  ReadsTo(Translated(t, r), r, ByteSet(t))
<1>0. r \in Int /\ 1 \in Nat /\ 6 \in Nat /\ 12 \in Nat /\ 6 >= 4 /\ 12 >= 4
  <2>1. Len(t) \in Nat
    BY LenProperties DEF WellEscaped
  <2> QED  BY <2>1
<1>1. CASE t[r] # "\\"
  <2> DEFINE b == <<Byte(t[r])>>
  <2>1. Translated(t, r) = Into(b, r + 1)
    BY <1>1, Zenon DEF Translated
  <2>2. AFew(b)
    BY Zenon DEF AFew
  <2>3. \A x : Len(<<x>>) =< 1
    OBVIOUS
  <2>4. Len(b) =< 1
    BY <2>3, Zenon
  <2> HIDE DEF b
  <2> QED  BY <1>0, <2>1, <2>2, <2>4, IntoReads, Zenon
<1>2. CASE t[r] = "\\"
  <2> DEFINE u == Unit(t, r + 2)
  <2>1. t[r + 1] = "u" /\ HexAt(t, r + 2)
    BY <1>2, Zenon DEF WellEscaped, EscapeAt
  <2>2. IsUnit(u)
    <3>1. r + 2 \in Int
      BY <1>0
    <3> QED  BY <2>1, <3>1, UnitTyped
  <2>3. Translated(t, r) = FromUnit(t, r)
    BY <1>2, <2>1, Zenon DEF Translated
  <2>4. CASE ~HighUnit(u)
    <3> DEFINE b == Utf8(u)
    <3>1. Translated(t, r) = Into(b, r + 6)
      BY <2>2, <2>3, <2>4, SingleUnit, Zenon
    <3>2. AFew(b)
      BY Utf8IsFew, Zenon
    <3> HIDE DEF b
    <3> QED  BY <1>0, <3>1, <3>2, IntoReads, Zenon
  <2>5. CASE HighUnit(u)
    <3>1. FromUnit(t, r) = FromHigh(t, r, u)
      BY <2>5, HalfUnit, Zenon
    <3>2. PICK b : AFew(b) /\ FromHigh(t, r, u) = Into(b, r + 12)
      BY HighIsFew
    <3>3. Translated(t, r) = Into(b, r + 12)
      BY <2>3, <3>1, <3>2, Zenon
    <3> QED  BY <1>0, <3>2, <3>3, IntoReads, Zenon
  <2> QED  BY <2>4, <2>5
<1> QED  BY <1>1, <1>2, Zenon

\* Between two turns no more is written than was read.
ReadStates(t) == {s \in [pos : Nat \ {0}, out : Seq(ByteSet(t))] : Len(s.out) < s.pos}

LEMMA TurnWrites ==
  ASSUME NEW t, WellEscaped(t), NEW s \in ReadStates(t), ~(s.pos > Len(t))
  PROVE  UnescapeTurn(t, s) \in ReadStates(t)
<1> DEFINE r == s.pos
           o == s.out
           x == Translated(t, r)
           B == ByteSet(t)
<1>1. s = [pos |-> r, out |-> o] /\ r \in Nat \ {0} /\ o \in Seq(B) /\ Len(o) < r
  BY DEF ReadStates
<1>2. r \in 1..Len(t)
  <2>1. Len(t) \in Nat
    BY LenProperties DEF WellEscaped
  <2> QED  BY <1>1, <2>1
<1> HIDE DEF r, o
<1>3. PICK l \in Nat : x.next = r + l /\ x.bytes \in Seq(B) /\ Len(x.bytes) =< l
  BY <1>2, TurnTakes, Zenon DEF ReadsTo
<1>4. UnescapeTurn(t, s) = [pos |-> x.next, out |-> o \o x.bytes]
  <2>1. UnescapeTurn(t, [pos |-> r, out |-> o]) = [pos |-> x.next, out |-> o \o x.bytes]
    BY TurnIs
  <2> QED  BY <1>1, <2>1, Zenon
<1> DEFINE v == o \o x.bytes
           a == Len(o)
           b == Len(x.bytes)
<1> HIDE DEF B, x
<1>5. v \in Seq(B) /\ Len(v) = a + b /\ a \in Nat /\ b \in Nat
  BY <1>1, <1>3, ConcatProperties, LenProperties
<1>6. a < r /\ b =< l
  BY <1>1, <1>3
<1> HIDE DEF v, a, b
<1>7. r + l \in Nat \ {0} /\ Len(v) < r + l
  BY <1>1, <1>3, <1>5, <1>6
<1>8. [pos |-> r + l, out |-> v] \in ReadStates(t)
  <2>1. [pos |-> r + l, out |-> v] \in [pos : Nat \ {0}, out : Seq(B)]
    BY <1>5, <1>7
  <2> QED  BY <1>7, <2>1 DEF ReadStates, B
<1> QED  BY <1>3, <1>4, <1>8, Zenon DEF v

LEMMA NoMoreWritten ==
  ASSUME NEW t, WellEscaped(t)
  PROVE  Unescaped(t) \in ReadStates(t)
<1> DEFINE n == Len(t)
           R == ReadStates(t)
           start == [pos |-> 1, out |-> <<>>]
           After(s) == IF s.pos > n THEN s ELSE UnescapeTurn(t, s)
           F == [p \in R \X (1..n) |-> After(p[1])]
           P(f) == f = [k \in 0..n |-> IF k = 0 THEN start ELSE After(f[k - 1])]
<1>1. n \in Nat /\ start \in R
  <2>1. n \in Nat
    BY LenProperties DEF WellEscaped
  <2>2. start \in [pos : Nat \ {0}, out : Seq(ByteSet(t))] /\ Len(start.out) < start.pos
    OBVIOUS
  <2> QED  BY <2>1, <2>2 DEF ReadStates
<1>2. \A s \in R : After(s) \in R
  BY TurnWrites
<1>3. Unescaped(t) = (CHOOSE f : P(f))[n]
  BY DEF Unescaped, While, For
<1> HIDE DEF n, R, start, After
<1>4. Turns(F, n, R)
  BY <1>2 DEF Turns
<1>5. PICK f \in [0..n -> R] : f[0] = start /\ \A k \in 1..n : f[k] = F[<<f[k - 1], k>>]
  <2> HIDE DEF F, P
  <2>1. \E f : Run(f, F, n, R, start)
    BY <1>1, <1>4, TurnsExist
  <2> QED  BY <2>1 DEF Run
<1>6. \A k \in 1..n : f[k] = After(f[k - 1])
  <2> SUFFICES ASSUME NEW k \in 1..n
               PROVE  f[k] = After(f[k - 1])
    OBVIOUS
  <2>1. f[k - 1] \in R
    BY <1>1, <1>5
  <2>2. <<f[k - 1], k>> \in R \X (1..n)
    BY <2>1
  <2> QED  BY <1>5, <2>2
<1>7. P(f)
  BY <1>1, <1>5, <1>6
<1>8. PICK g : P(g) /\ Unescaped(t) = g[n]
  <2> HIDE DEF P
  <2> QED  BY <1>3, <1>7
<1>9. \A k \in 0..n : f[k] = g[k]
  <2>1. g[0] = start /\ \A k \in 1..n : g[k] = After(g[k - 1])
    BY <1>1, <1>8
  <2>2. \A k \in 1..n : f[k - 1] = g[k - 1] => f[k] = g[k]
    BY <1>6, <2>1
  <2>3. f[0] = g[0]
    BY <1>5, <2>1
  <2> HIDE DEF P, F
  <2> QED  BY <1>1, <2>2, <2>3, SameRun, Zenon
<1>10. n \in 0..n
  BY <1>1
<1> QED  BY <1>5, <1>8, <1>9, <1>10 DEF R

-----------------------------------------------------------------------------
(* The invariant of the runs on strings with \u escapes *)

\* A text of characters, and one that ends with half a character more.
Characters(t) == \E n, g, e, out : Grouped(n, g, e, out) /\ t = e[n]
HalfMore(t)   == \E s, p : Characters(s) /\ p \in Escapes /\ High(p) /\ t = s \o p

\* One piece more.
Longer(x, n, v) == [k \in 0..n + 1 |-> IF k = n + 1 THEN v ELSE x[k]]
OneOn(p, n, q)  == [k \in 1..n + 1 |-> IF k = n + 1 THEN q ELSE p[k]]

LEMMA MadeOfMore ==
  ASSUME NEW S, NEW n, NEW x, NEW p, MadeOf(x, p, n, S), NEW q \in Seq(S), Len(q) > 0
  PROVE  MadeOf(Longer(x, n, x[n] \o q), OneOn(p, n, q), n + 1, S)
<1> DEFINE v == x[n] \o q
           y == Longer(x, n, v)
           r == OneOn(p, n, q)
<1>0. n \in Nat /\ n + 1 \in Nat /\ n \in 0..n
  BY DEF MadeOf
<1>1. /\ x \in [0..n -> Seq(S)] /\ p \in [1..n -> Seq(S)] /\ x[0] = <<>>
      /\ \A k \in 1..n : x[k] = x[k - 1] \o p[k] /\ Len(p[k]) > 0
  BY DEF MadeOf
<1>2. v \in Seq(S)
  <2>1. x[n] \in Seq(S)
    BY <1>0, <1>1
  <2> QED  BY <2>1, ConcatProperties
<1>3. v = x[n] \o q
  OBVIOUS
<1> HIDE DEF v
<1>4. /\ y \in [0..n + 1 -> Seq(S)] /\ y[n + 1] = v /\ \A k \in 0..n : y[k] = x[k]
  BY <1>0, <1>1, <1>2 DEF Longer
<1>5. /\ r \in [1..n + 1 -> Seq(S)] /\ r[n + 1] = q /\ \A k \in 1..n : r[k] = p[k]
  BY <1>0, <1>1 DEF OneOn
<1> HIDE DEF y, r
<1>6. ASSUME NEW k \in 1..n + 1
      PROVE  y[k] = y[k - 1] \o r[k] /\ Len(r[k]) > 0
  <2>1. CASE k = n + 1
    <3>1. y[k] = v /\ r[k] = q /\ y[k - 1] = x[n]
      <4>1. k - 1 = n
        BY <1>0, <2>1
      <4> QED  BY <1>0, <1>4, <1>5, <2>1, <4>1
    <3> QED  BY <1>3, <3>1
  <2>2. CASE k \in 1..n
    <3>1. k \in 0..n /\ k - 1 \in 0..n
      BY <1>0, <2>2
    <3>2. y[k] = x[k] /\ y[k - 1] = x[k - 1] /\ r[k] = p[k]
      BY <1>4, <1>5, <2>2, <3>1
    <3>3. x[k] = x[k - 1] \o p[k] /\ Len(p[k]) > 0
      BY <1>1, <2>2
    <3> QED  BY <3>2, <3>3
  <2>3. k = n + 1 \/ k \in 1..n
    BY <1>0
  <2> QED  BY <2>1, <2>2, <2>3, Zenon
<1>7. y[0] = <<>>
  BY <1>0, <1>1, <1>4
<1> QED  BY <1>0, <1>4, <1>5, <1>6, <1>7, Zenon DEF MadeOf, y, r, v

LEMMA CharactersGrow ==
  ASSUME NEW t, Characters(t), NEW g \in Groups
  PROVE  Characters(t \o g)
<1>1. PICK n, gs, e, out : Grouped(n, gs, e, out) /\ t = e[n]
  BY DEF Characters
<1>3. PICK l, m : Encoded(g, l, m)
  BY GroupsAre
<1> DEFINE b == Utf8(PointOf(g))
<1>4. g \in Seq(Coded) /\ Len(g) > 0
  BY <1>3, SMT DEF Encoded, GroupIs
<1>5. b \in Seq(Nat) /\ Len(b) > 0
  BY <1>3, SMT DEF Encoded, Decodes
<1> DEFINE e1   == Longer(e, n, e[n] \o g)
           gs1  == OneOn(gs, n, g)
           out1 == Longer(out, n, out[n] \o b)
<1>6. /\ n \in Nat /\ gs \in [1..n -> Groups] /\ MadeOf(e, gs, n, Coded) /\ MadeOf(out, Bytes(gs, n), n, Nat)
  BY <1>1 DEF Grouped
<1>7. MadeOf(e1, gs1, n + 1, Coded)
  BY <1>4, <1>6, MadeOfMore
<1>8. Bytes(gs1, n + 1) = OneOn(Bytes(gs, n), n, b)
  <2>1. \A k \in 1..n + 1 : Utf8(PointOf(gs1[k])) = IF k = n + 1 THEN b ELSE Bytes(gs, n)[k]
    <3> SUFFICES ASSUME NEW k \in 1..n + 1
                 PROVE  Utf8(PointOf(gs1[k])) = IF k = n + 1 THEN b ELSE Bytes(gs, n)[k]
      OBVIOUS
    <3>1. CASE k = n + 1
      <4>1. gs1[k] = g
        BY <3>1 DEF OneOn
      <4> QED  BY <3>1, <4>1, Zenon
    <3>2. CASE k # n + 1
      <4>1. k \in 1..n
        BY <1>6, <3>2
      <4>2. gs1[k] = gs[k]
        BY <3>2 DEF OneOn
      <4>3. Bytes(gs, n)[k] = Utf8(PointOf(gs[k]))
        BY <4>1, Zenon DEF Bytes
      <4> QED  BY <3>2, <4>2, <4>3, Zenon
    <3> QED  BY <3>1, <3>2
  <2> HIDE DEF b, gs1
  <2> QED  BY <2>1, Zenon DEF Bytes, OneOn
<1>9. MadeOf(out1, Bytes(gs1, n + 1), n + 1, Nat)
  <2> HIDE DEF b, gs1
  <2> QED  BY <1>5, <1>6, <1>8, MadeOfMore
<1>10. gs1 \in [1..n + 1 -> Groups] /\ n + 1 \in Nat
  BY <1>6 DEF OneOn
<1>11. e1[n + 1] = t \o g
  BY <1>1, <1>6 DEF Longer
<1> HIDE DEF b, e1, gs1, out1
<1>12. Grouped(n + 1, gs1, e1, out1)
  BY <1>7, <1>9, <1>10, Zenon DEF Grouped
<1> QED  BY <1>11, <1>12, Zenon DEF Characters

LEMMA NoCharacters == Characters(<<>>)
<1> DEFINE g == [k \in 1..0 |-> <<"a">>]
           e == [k \in 0..0 |-> <<>>]
<1>1. /\ 0 \in Nat /\ g \in [1..0 -> Groups] /\ g \in [1..0 -> Seq(Coded)] /\ Bytes(g, 0) \in [1..0 -> Seq(Nat)]
      /\ \A k \in 1..0 : FALSE
  BY DEF Bytes
<1>2. e \in [0..0 -> Seq(Coded)] /\ e \in [0..0 -> Seq(Nat)] /\ e[0] = <<>>
  OBVIOUS
<1> HIDE DEF g, e
<1>3. MadeOf(e, g, 0, Coded) /\ MadeOf(e, Bytes(g, 0), 0, Nat)
  BY <1>1, <1>2 DEF MadeOf
<1>4. Grouped(0, g, e, e)
  BY <1>1, <1>3, Zenon DEF Grouped
<1> QED  BY <1>2, <1>4, Zenon DEF Characters

\* A high surrogate at the end is read on from, past the end of the text.
LEMMA HalfTurn ==
  ASSUME NEW t, NEW i, NEW o, NEW p \in Escapes, High(p), IsAt(t, i, p)
  PROVE  UnescapeTurn(t, [pos |-> i + 1, out |-> o]).pos = (i + 1) + 12
<1> DEFINE r == i + 1
           u == Unit(p, 3)
<1>1. Len(p) = 6 /\ p[1] = "\\" /\ p[2] = "u"
  BY EscapeShape
<1>2. HighUnit(u)
  BY DEF High
<1>3. Len(p) \in {6, 12}
  BY <1>1
<1>4. t[r] = "\\" /\ t[r + 1] = "u" /\ Unit(t, r + 2) = u
  BY <1>1, <1>3, UnitsAt, Zenon
<1>5. Translated(t, r) = FromUnit(t, r)
  BY <1>4, Zenon DEF Translated
<1> HIDE DEF r, u
<1>6. PICK b : AFew(b) /\ FromHigh(t, r, u) = Into(b, r + 12)
  BY HighIsFew
<1>7. Translated(t, r) = Into(b, r + 12)
  BY <1>2, <1>4, <1>5, <1>6, HalfUnit, Zenon
<1>8. Translated(t, r).next = r + 12
  <2>1. Into(b, r + 12).next = r + 12
    BY IntoIs
  <2> QED  BY <1>7, <2>1, Zenon
<1>9. UnescapeTurn(t, [pos |-> r, out |-> o]) = [pos |-> r + 12, out |-> o \o Translated(t, r).bytes]
  BY <1>8, TurnIs, Zenon
<1>10. UnescapeTurn(t, [pos |-> r, out |-> o]).pos = r + 12
  BY <1>9
<1> QED  BY <1>10 DEF r

LEMMA HalfRuns ==
  ASSUME NEW t, HalfMore(t)
  PROVE  Unescaped(t).pos > Len(t) + 1
<1>1. PICK s, p : Characters(s) /\ p \in Escapes /\ High(p) /\ t = s \o p
  BY DEF HalfMore
<1>2. PICK n, g, e, out : Grouped(n, g, e, out) /\ s = e[n]
  BY <1>1 DEF Characters
<1>3. n \in Nat /\ MadeOf(e, g, n, Coded) /\ n + 1 \in 1..n + 1 /\ (n + 1) - 1 = n /\ n + 1 \in Nat /\ n \in 0..n /\ n + 1 # n
  BY <1>2 DEF Grouped
<1>4. p \in Seq(Coded) /\ Len(p) = 6
  BY <1>1, EscapeShape
<1> DEFINE x == Longer(e, n, e[n] \o p)
           q == OneOn(g, n, p)
           l == Len(e[n])
<1>5. MadeOf(x, q, n + 1, Coded)
  <2>1. Len(p) > 0
    BY <1>4
  <2> QED  BY <1>3, <1>4, <2>1, MadeOfMore
<1>6. /\ x[n + 1] = t /\ q[n + 1] = p /\ \A k \in 0..n : x[k] = e[k]
      /\ \A k \in 1..n : q[k] = g[k] /\ x[k - 1] = e[k - 1] /\ k \in 1..n + 1
  BY <1>1, <1>2, <1>3 DEF Longer, OneOn
<1> HIDE DEF x, q
<1>7. Placed(x, q, n + 1)
  BY <1>5, PiecesAreAt, Zenon
<1>8. /\ n + 1 =< Len(t) /\ l \in Nat
      /\ \A k \in 1..n + 1 : IsAt(t, Len(x[k - 1]), q[k]) /\ ~(Len(x[k - 1]) + 1 > Len(t))
      /\ Len(t) = l + 6
  <2>1. x[(n + 1) - 1] = e[n]
    BY <1>3, <1>6
  <2>2. /\ n + 1 =< Len(x[n + 1]) /\ \A k \in 0..n + 1 : Len(x[k]) \in Nat
        /\ \A k \in 1..n + 1 : /\ IsAt(x[n + 1], Len(x[k - 1]), q[k]) /\ Len(x[k]) = Len(x[k - 1]) + Len(q[k])
                               /\ ~(Len(x[k - 1]) + 1 > Len(x[n + 1]))
    BY <1>7, Zenon DEF Placed
  <2>3. Len(x[n + 1]) = Len(x[(n + 1) - 1]) + Len(q[n + 1])
    BY <1>3, <2>2, Zenon
  <2>4. Len(t) = l + 6
    BY <1>4, <1>6, <2>1, <2>3, Zenon
  <2>5. l \in Nat
    <3>1. n \in 0..n + 1
      BY <1>3
    <3> QED  BY <1>3, <1>6, <2>2, <3>1, Zenon
  <2> QED  BY <1>6, <2>2, <2>4, <2>5, Zenon
<1>9. Found(t, n, e, g)
  BY <1>6, <1>8, Zenon DEF Found
<1>10. IsAt(t, l, p) /\ ~(l + 1 > Len(t))
  BY <1>3, <1>6, <1>8, Zenon
<1> DEFINE last == [pos |-> l + 1, out |-> out[n]]
           st == [k \in 0..n + 1 |-> IF k = n + 1 THEN UnescapeTurn(t, last) ELSE [pos |-> Len(e[k]) + 1, out |-> out[k]]]
<1>11. st[n + 1] = UnescapeTurn(t, last) /\ st[n] = last /\ Between(st, n, e, out)
  BY <1>3 DEF Between
<1> HIDE DEF st
<1>12. st[n + 1].pos = (l + 1) + 12
  <2>1. UnescapeTurn(t, last).pos = (l + 1) + 12
    BY <1>1, <1>10, HalfTurn
  <2> QED  BY <1>11, <2>1, Zenon
<1>13. last.pos = l + 1
  OBVIOUS
<1> HIDE DEF last, l
<1>14. st[n + 1].pos > Len(t) + 1 /\ st[n + 1].pos > Len(t)
  BY <1>8, <1>12
<1>15. UnescapeStates(t, n + 1, st)
  <2>1. n + 1 \in 0..Len(t)
    <3>1. Len(t) \in Nat
      BY <1>8
    <3> QED  BY <1>3, <1>8, <3>1
  <2>2. Passed(t, n, st)
    <3>1. Grouped(n, g, e, out)
      BY <1>2
    <3>2. Between(st, n, e, out)
      BY <1>11
    <3> QED  BY <1>9, <3>1, <3>2, GroupSteps, Zenon
  <2>3. ~(st[(n + 1) - 1].pos > Len(t)) /\ st[n + 1] = UnescapeTurn(t, st[(n + 1) - 1])
    BY <1>3, <1>10, <1>11, <1>13, Zenon
  <2>4. \A k \in 1..n + 1 : ~(st[k - 1].pos > Len(t)) /\ st[k] = UnescapeTurn(t, st[k - 1])
    <3>1. \A k \in 1..n + 1 : k \in 1..n \/ k = n + 1
      BY <1>3
    <3> QED  BY <2>2, <2>3, <3>1, Zenon DEF Passed
  <2> QED  BY <1>14, <2>1, <2>2, <2>4, Zenon DEF UnescapeStates, Passed
<1>16. t \in Seq(Coded)
  BY <1>3, <1>5, <1>6 DEF MadeOf
<1>17. Unescaped(t) = st[n + 1]
  <2>1. n + 1 \in 0..Len(t)
    BY <1>15 DEF UnescapeStates
  <2> QED  BY <1>15, <1>16, <2>1, UnescapeRuns, Zenon
<1> QED  BY <1>14, <1>17, Zenon

LEMMA NotBoth == ASSUME NEW u, LowUnit(u) PROVE ~HighUnit(u)
<1>1. u \in Int /\ u \in 56320..57343
  BY SMT DEF LowUnit
<1>2. u > 56319
  BY <1>1, SMT
<1> SUFFICES ASSUME HighUnit(u)
             PROVE  FALSE
  OBVIOUS
<1>3. u =< 56319
  BY <1>1, SMT DEF HighUnit
<1> QED  BY <1>1, <1>2, <1>3, SMT

LEMMA OneHalf == ASSUME NEW p, Low(p) PROVE ~High(p)
BY NotBoth, Zenon DEF High, Low

\* What the pieces are, and how far they are paired.
Pieces == Escapes \cup {<<"a">>}
Up(ps, n) ==
  \A i \in 1..n : /\ High(ps[i]) => i < n /\ Low(ps[i + 1])
                  /\ Low(ps[i]) => i > 1 /\ High(ps[i - 1])
Half(ps, n) == n > 0 /\ Up(ps, n - 1) /\ High(ps[n])
PairsKept(ps, t) ==
  /\ WellEscaped(t)
  /\ Up(ps, Len(ps)) => Characters(t)
  /\ Half(ps, Len(ps)) => HalfMore(t)

StringInv ==
  /\ kind = "raw" => chars \in Seq(Raw)
  /\ kind = "escaped" => pieces \in Seq(Pieces) /\ PairsKept(pieces, chars)

LEMMA LowFollows ==
  ASSUME NEW ps \in Seq(Pieces), NEW q \in Pieces, Up(Append(ps, q), Len(ps) + 1)
  PROVE  ~High(q) /\ IF Low(q) THEN Half(ps, Len(ps)) ELSE Up(ps, Len(ps))
<1> DEFINE n == Len(ps)
           rs == Append(ps, q)
<1>1. n \in Nat /\ rs[n + 1] = q /\ \A i \in 1..n : rs[i] = ps[i]
  BY AppendProperties, LenProperties
<1>2. \A i \in 1..n + 1 : /\ High(rs[i]) => i < n + 1 /\ Low(rs[i + 1])
                          /\ Low(rs[i]) => i > 1 /\ High(rs[i - 1])
  BY Zenon DEF Up
<1> HIDE DEF n, rs
<1>3. ~High(q)
  <2>1. n + 1 \in 1..n + 1 /\ ~(n + 1 < n + 1)
    BY <1>1
  <2> QED  BY <1>1, <1>2, <2>1, Zenon
<1>4. ASSUME NEW m \in 0..n, \A i \in 1..m : High(rs[i]) => i < m
      PROVE  Up(ps, m)
  <2> SUFFICES ASSUME NEW i \in 1..m
               PROVE  /\ High(ps[i]) => i < m /\ Low(ps[i + 1])
                      /\ Low(ps[i]) => i > 1 /\ High(ps[i - 1])
    BY DEF Up
  <2>1. i \in 1..n /\ i \in 1..n + 1 /\ ps[i] = rs[i]
    BY <1>1
  <2>2. ASSUME High(ps[i])
        PROVE  i < m /\ Low(ps[i + 1])
    <3>1. i < m /\ Low(rs[i + 1])
      BY <1>2, <1>4, <2>1, <2>2, Zenon
    <3>2. i + 1 \in 1..n
      BY <1>1, <3>1
    <3> QED  BY <1>1, <3>1, <3>2, Zenon
  <2>3. ASSUME Low(ps[i])
        PROVE  i > 1 /\ High(ps[i - 1])
    <3>1. i > 1 /\ High(rs[i - 1])
      BY <1>2, <2>1, <2>3, Zenon
    <3>2. i - 1 \in 1..n
      BY <1>1, <3>1
    <3> QED  BY <1>1, <3>1, <3>2, Zenon
  <2> QED  BY <2>2, <2>3
<1>5. CASE Low(q)
  <2>1. n + 1 > 1 /\ High(rs[(n + 1) - 1])
    <3>1. n + 1 \in 1..n + 1
      BY <1>1
    <3> QED  BY <1>1, <1>2, <1>5, <3>1, Zenon
  <2>2. n > 0 /\ (n + 1) - 1 = n /\ n \in 1..n /\ n - 1 \in 0..n
    BY <1>1, <2>1
  <2>3. High(ps[n])
    BY <1>1, <2>1, <2>2, Zenon
  <2>4. ASSUME NEW i \in 1..n - 1, High(rs[i])
        PROVE  i < n - 1
    <3>1. i \in 1..n + 1 /\ (i < n - 1 \/ i + 1 = n)
      BY <1>1
    <3>2. i + 1 # n
      <4> SUFFICES ASSUME i + 1 = n
                   PROVE  FALSE
        OBVIOUS
      <4>1. Low(rs[n]) /\ rs[n] = ps[n]
        BY <1>1, <1>2, <2>2, <2>4, <3>1, Zenon
      <4> QED  BY <2>3, <4>1, OneHalf, Zenon
    <3> QED  BY <3>1, <3>2
  <2>5. Up(ps, n - 1)
    BY <1>4, <2>2, <2>4, Zenon
  <2> QED  BY <1>3, <1>5, <2>2, <2>3, <2>5, Zenon DEF Half, n
<1>6. CASE ~Low(q)
  <2>1. ASSUME NEW i \in 1..n, High(rs[i])
        PROVE  i < n
    <3>1. i \in 1..n + 1 /\ (i < n \/ i + 1 = n + 1)
      BY <1>1
    <3> QED  BY <1>1, <1>2, <1>6, <2>1, <3>1, Zenon
  <2>2. n \in 0..n
    BY <1>1
  <2>3. Up(ps, n)
    BY <1>4, <2>1, <2>2, Zenon
  <2> QED  BY <1>3, <1>6, <2>3, Zenon DEF n
<1> QED  BY <1>5, <1>6

LEMMA PieceFollows ==
  ASSUME NEW ps \in Seq(Pieces), NEW t, PairsKept(ps, t), NEW q \in Pieces
  PROVE  Append(ps, q) \in Seq(Pieces) /\ PairsKept(Append(ps, q), t \o q)
<1> DEFINE n == Len(ps)
           rs == Append(ps, q)
<1>1. rs \in Seq(Pieces) /\ Len(rs) = n + 1 /\ rs[n + 1] = q /\ n \in Nat /\ \A i \in 1..n : rs[i] = ps[i]
  BY AppendProperties, LenProperties
<1>2. WellEscaped(t \o q) /\ t \in Seq(Coded) /\ q \in Seq(Coded)
  BY EscapedJoin, PieceEscaped, Zenon DEF PairsKept, Pieces, WellEscaped
<1>3. ASSUME Up(rs, n + 1)
      PROVE  Characters(t \o q)
  <2>1. ~High(q) /\ IF Low(q) THEN Half(ps, n) ELSE Up(ps, n)
    BY <1>3, LowFollows
  <2>2. CASE Low(q)
    <3>1. PICK s, p : Characters(s) /\ p \in Escapes /\ High(p) /\ t = s \o p
      BY <2>1, <2>2, Zenon DEF PairsKept, HalfMore
    <3>2. q \in Escapes
      <4>1. Len(<<"a">>) = 1
        OBVIOUS
      <4> QED  BY <2>2, <4>1 DEF Low, Pieces
    <3>3. p \o q \in Groups
      <4> DEFINE Highs == {h \in Escapes : High(h)}
                 Lows  == {l \in Escapes : Low(l)}
      <4>1. p \in Highs /\ q \in Lows
        BY <2>2, <3>1, <3>2
      <4>2. Pair = {x \o y : x \in Highs, y \in Lows}
        BY DEF Pair
      <4> HIDE DEF Highs, Lows
      <4>3. p \o q \in Pair
        BY <4>1, <4>2
      <4> QED  BY <4>3 DEF Groups
    <3>4. t \o q = s \o (p \o q)
      <4>1. s \in Seq(Coded) /\ p \in Seq(Coded)
        <5>1. s \in Seq(Coded)
          BY <3>1 DEF Characters, Grouped, MadeOf
        <5> QED  BY <3>1, <5>1, EscapeShape
      <4> QED  BY <1>2, <3>1, <4>1, ConcatAssociative
    <3> QED  BY <3>1, <3>3, <3>4, CharactersGrow, Zenon
  <2>3. CASE ~Low(q)
    <3>1. Characters(t)
      BY <2>1, <2>3, Zenon DEF PairsKept
    <3>2. q \in Groups
      BY <2>1, <2>3 DEF Groups, Single, Pieces
    <3> QED  BY <3>1, <3>2, CharactersGrow, Zenon
  <2> QED  BY <2>2, <2>3
<1>4. ASSUME Half(rs, n + 1)
      PROVE  HalfMore(t \o q)
  <2>1. High(q) /\ Up(rs, n)
    <3>1. (n + 1) - 1 = n
      BY <1>1
    <3> QED  BY <1>1, <1>4, <3>1, Zenon DEF Half
  <2>2. q \in Escapes
    <3>1. Len(<<"a">>) = 1
      OBVIOUS
    <3> QED  BY <2>1, <3>1 DEF High, Pieces
  <2>3. Up(ps, n)
    <3> SUFFICES ASSUME NEW i \in 1..n
                 PROVE  /\ High(ps[i]) => i < n /\ Low(ps[i + 1])
                        /\ Low(ps[i]) => i > 1 /\ High(ps[i - 1])
      BY DEF Up
    <3>1. /\ High(rs[i]) => i < n /\ Low(rs[i + 1])
          /\ Low(rs[i]) => i > 1 /\ High(rs[i - 1])
      BY <2>1, Zenon DEF Up
    <3>2. rs[i] = ps[i] /\ (i < n => rs[i + 1] = ps[i + 1]) /\ (i > 1 => rs[i - 1] = ps[i - 1])
      <4>1. (i < n => i + 1 \in 1..n) /\ (i > 1 => i - 1 \in 1..n)
        BY <1>1
      <4> QED  BY <1>1, <4>1
    <3> QED  BY <3>1, <3>2, Zenon
  <2>4. Characters(t)
    BY <2>3, Zenon DEF PairsKept
  <2> QED  BY <2>1, <2>2, <2>4, Zenon DEF HalfMore
<1> HIDE DEF n, rs
<1>5. PairsKept(rs, t \o q)
  BY <1>1, <1>2, <1>3, <1>4, Zenon DEF PairsKept
<1> QED  BY <1>1, <1>5, Zenon DEF rs

LEMMA StringInductive ==
  /\ StringsInit => StringInv
  /\ StringInv /\ [StringsNext]_strings => StringInv'
<1>1. StringsInit => StringInv
  <2>1. <<>> \in Seq(Pieces) /\ Len(<<>>) = 0 /\ ~(0 > 0)
    OBVIOUS
  <2>2. WellEscaped(<<>>)
    BY DEF WellEscaped
  <2>3. PairsKept(<<>>, <<>>)
    BY <2>1, <2>2, NoCharacters, Zenon DEF PairsKept, Half
  <2>4. <<>> \in Seq(Raw)
    OBVIOUS
  <2> QED  BY <2>1, <2>3, <2>4, Zenon DEF StringsInit, StringInv
<1>2. StringInv /\ [StringsNext]_strings => StringInv'
  <2> SUFFICES ASSUME StringInv, [StringsNext]_strings
               PROVE  StringInv'
    OBVIOUS
  <2>1. ASSUME NEW c \in DocumentChars, AddToDocument(c)
        PROVE  StringInv'
    BY <2>1 DEF AddToDocument, StringInv
  <2>2. ASSUME NEW c \in RawChars, AddToText(c)
        PROVE  StringInv'
    <3>1. c \in Raw /\ chars \in Seq(Raw) /\ kind' = "raw" /\ chars' = Append(chars, c)
      BY <2>2, StringsChars DEF AddToText, StringInv
    <3>2. chars' \in Seq(Raw)
      BY <3>1, AppendProperties
    <3> QED  BY <3>1, <3>2 DEF StringInv
  <2>3. ASSUME NEW piece \in EscapedPieces, AddToString(piece)
        PROVE  StringInv'
    <3>1. kind' = "escaped" /\ chars' = chars \o piece /\ pieces' = Append(pieces, piece)
          /\ pieces \in Seq(Pieces) /\ PairsKept(pieces, chars)
      BY <2>3 DEF AddToString, StringInv
    <3>2. piece \in Pieces
      BY StringsChars DEF Pieces
    <3>3. pieces' \in Seq(Pieces) /\ PairsKept(pieces', chars')
      BY <3>1, <3>2, PieceFollows, Zenon
    <3> QED  BY <3>1, <3>3, Zenon DEF StringInv
  <2>4. CASE UNCHANGED strings
    BY <2>4 DEF strings, StringInv
  <2> QED  BY <2>1, <2>2, <2>3, <2>4 DEF StringsNext
<1> QED  BY <1>1, <1>2

LEMMA StringInvSuffices == StringInv => EscapesKeepCharacters
<1> SUFFICES ASSUME StringInv
             PROVE  EscapesKeepCharacters
  OBVIOUS
<1>1. EscapeRoundTrip
  <2> SUFFICES ASSUME kind = "raw"
               PROVE  EscapeRoundTrip
    BY DEF EscapeRoundTrip
  <2>1. chars \in Seq(Raw)
    BY DEF StringInv
  <2>2. CASE \E i \in DOMAIN chars : chars[i] \in Control \ Shortened
    <3>1. json_escape(chars).ended
      <4>1. PICK i \in 1..Len(chars) : chars[i] \in Control \ Shortened
        BY <2>1, <2>2, LenProperties
      <4> QED  BY <2>1, <4>1, ControlEnds
    <3> QED  BY <2>2, <3>1, Zenon DEF EscapeRoundTrip
  <2>3. CASE \A i \in DOMAIN chars : chars[i] \notin Control \ Shortened
    <3>1. chars \in Seq(Escapable)
      BY <2>1, <2>3, LenProperties DEF Escapable
    <3> QED  BY <2>3, <3>1, RoundTrip, Zenon DEF EscapeRoundTrip
  <2> QED  BY <2>2, <2>3, Zenon
<1>2. UnescapeIsUtf8
  <2> SUFFICES ASSUME kind = "escaped"
               PROVE  UnescapeIsUtf8
    BY DEF UnescapeIsUtf8
  <2> DEFINE end  == Len(chars) + 1
             whole == Unescaped(chars)
  <2>1. PairsKept(pieces, chars) /\ WellEscaped(chars)
    BY DEF StringInv, PairsKept
  <2>2. ASSUME Paired
        PROVE  whole.pos = end /\ Decoded(whole.out) = Points(chars)
    <3>1. Characters(chars)
      <4>1. Up(pieces, Len(pieces))
        BY <2>2, Zenon DEF Paired, PairedUpTo, Up
      <4> QED  BY <2>1, <4>1, Zenon DEF PairsKept
    <3>2. PICK n, g, e, out : Grouped(n, g, e, out) /\ chars = e[n]
      BY <3>1 DEF Characters
    <3>3. whole = [pos |-> end, out |-> out[n]] /\ Decoded(out[n]) = Points(chars)
      BY <3>2, GroupedRuns, Zenon
    <3> HIDE DEF whole, end
    <3>4. whole.pos = end /\ whole.out = out[n]
      BY <3>3
    <3> QED  BY <3>3, <3>4, Zenon
  <2>3. ASSUME Halved
        PROVE  whole.pos > end
    <3>1. HalfMore(chars)
      <4>1. Half(pieces, Len(pieces))
        BY <2>3, Zenon DEF Halved, PairedUpTo, Half, Up
      <4> QED  BY <2>1, <4>1, Zenon DEF PairsKept
    <3> QED  BY <3>1, HalfRuns, Zenon
  <2>4. ASSUME whole.pos = end
        PROVE  Len(whole.out) =< Len(chars)
    <3>1. whole \in ReadStates(chars)
      BY <2>1, NoMoreWritten, Zenon
    <3> HIDE DEF whole
    <3>2. whole.out \in Seq(ByteSet(chars)) /\ Len(whole.out) < end
      BY <2>4, <3>1 DEF ReadStates
    <3>3. Len(whole.out) \in Nat /\ Len(chars) \in Nat
      BY <2>1, <3>2, LenProperties DEF WellEscaped
    <3> QED  BY <3>2, <3>3
  <2> QED  BY <2>2, <2>3, <2>4, Zenon DEF UnescapeIsUtf8
<1> QED  BY <1>1, <1>2 DEF EscapesKeepCharacters

(* For texts of any length: escaping comes to its end but for a control character without an escape of two, and gives *)
(* the text of a string, which unescaping turns back into the same bytes; the \u escapes of a string come out as the  *)
(* UTF-8 of the characters they name where the surrogates are paired, a high one in the last place is read past the   *)
(* end, and a text that is read to its end, however its surrogates stand, has room for what is written of it          *)
(* (EscapesKeepCharacters).                                                                                           *)
THEOREM EscapesKeepCharactersCorrect == StringsSpec => []EscapesKeepCharacters
BY StringInductive, StringInvSuffices, PTL DEF StringsSpec

-----------------------------------------------------------------------------

(* In a run of any part of json.c the text that grows is, with its terminator, inside what was allocated for it; the  *)
(* one exception is the text of json_saxy_parse() behind a sign, which is lost when a growth fails unheeded and is    *)
(* gone on with in the state of a 0 or of an exponent (TextsFit).                                                     *)
THEOREM TextsFitCorrect == MCSpec => []TextsFit
<1> DEFINE TreesInv == (part # "parser" => PrintingInv) /\ (part = "parser" => TextInv)
<1>1. MCInit => ReadersInit /\ TreesInv
  BY PrintingInductive, TextInductive DEF MCInit
<1>2. [MCNext]_all => [ReadersNext]_readers
  BY DEF MCNext, all, RunReaders, RunBuilder, RunParser, RunStrings
<1>3. TreesInv /\ [MCNext]_all => TreesInv'
  <2> SUFFICES ASSUME TreesInv, [MCNext]_all
               PROVE  TreesInv'
    OBVIOUS
  <2>1. CASE RunParser
    BY <2>1, TextInductive DEF RunParser
  <2>2. CASE RunBuilder
    BY <2>2, PrintingInductive DEF RunBuilder
  <2>3. CASE RunReaders \/ RunStrings \/ UNCHANGED all
    <3>1. part' = part /\ UNCHANGED builder /\ UNCHANGED parser
      BY <2>3 DEF RunReaders, RunStrings, all, builder, parser, parserOnly
    <3> QED  BY <3>1, PrintingInductive, TextInductive
  <2> QED  BY <2>1, <2>2, <2>3 DEF MCNext
<1>4. TreesInv => OutputFits
  BY PrintFits DEF PrintingInv, TextInv
<1>5. MCSpec => ReadersSpec
  BY <1>1, <1>2, PTL DEF MCSpec, ReadersSpec
<1>6. MCSpec => []TreesInv
  BY <1>1, <1>3, PTL DEF MCSpec
<1> HIDE DEF TreesInv
<1> QED  BY <1>4, <1>5, <1>6, TextFitsCorrect, PTL DEF TextsFit

-----------------------------------------------------------------------------
(* White space out of a document, and into it *)

\* What a token may follow, and the tokens of a document whose strings have good texts.
MayFollow(a, b) == \/ a \in Openers \/ b \in Closers \cup {"VALUE_SEPARATOR"}
                   \/ b = "NAME_SEPARATOR" /\ a = "STRING"
Sound(ts, Good) ==
  \A i \in 1..Len(ts) : /\ ts[i][1] # "INVALID"
                        /\ i > 1 => MayFollow(ts[i - 1][1], ts[i][1])
                        /\ ts[i][1] = "STRING" => ts[i][2] \in Good

\* A token has begun where none may come.
AfterValue(s) == Len(s.tokens) > 0 /\ s.tokens[Len(s.tokens)][1] \notin Openers
Doomed(s)     == AfterValue(s) /\ s.lex.state # 0

LEMMA SoundTaking ==
  ASSUME NEW Good, NEW C, NEW s \in Scans(C), NEW k \in LexedNames, NEW t \in Seq(C), Sound(Taking(s, k, t).tokens, Good)
  PROVE  /\ Sound(s.tokens, Good) /\ k # "INVALID" /\ (k = "STRING" => t \in Good)
         /\ AfterValue(s) => MayFollow(s.tokens[Len(s.tokens)][1], k)
<1> DEFINE ts == s.tokens
           us == Append(ts, <<k, t>>)
           n  == Len(ts)
<1>1. ts \in Seq(LexedNames \X Seq(C)) /\ <<k, t>> \in LexedNames \X Seq(C)
  BY DEF Scans, TokensOver
<1>2. /\ n \in Nat /\ Len(us) = n + 1 /\ us[n + 1] = <<k, t>>
      /\ \A i \in 1..n : us[i] = ts[i]
  BY <1>1, AppendProperties, LenProperties
<1>3. Sound(us, Good)
  BY TakingTyped
<1>4. <<k, t>>[1] = k /\ <<k, t>>[2] = t
  OBVIOUS
<1> HIDE DEF us
<1>5. Sound(ts, Good)
  <2> SUFFICES ASSUME NEW i \in 1..n
               PROVE  /\ ts[i][1] # "INVALID"
                      /\ i > 1 => MayFollow(ts[i - 1][1], ts[i][1])
                      /\ ts[i][1] = "STRING" => ts[i][2] \in Good
    BY DEF Sound
  <2>1. i \in 1..n + 1 /\ us[i] = ts[i] /\ (i > 1 => i - 1 \in 1..n)
    BY <1>2
  <2>2. i \in 1..Len(us) /\ (i > 1 => us[i - 1] = ts[i - 1])
    BY <1>2, <2>1
  <2> HIDE DEF n, ts
  <2> QED  BY <1>3, <2>1, <2>2 DEF Sound
<1>6. n + 1 \in 1..Len(us)
  BY <1>2
<1>7. k # "INVALID" /\ (k = "STRING" => t \in Good)
  BY <1>2, <1>3, <1>4, <1>6 DEF Sound
<1>8. ASSUME AfterValue(s)
      PROVE  MayFollow(ts[n][1], k)
  <2>1. n \in 1..n /\ n + 1 > 1 /\ (n + 1) - 1 = n
    BY <1>2, <1>8 DEF AfterValue
  <2>2. MayFollow(us[(n + 1) - 1][1], us[n + 1][1])
    BY <1>3, <1>6, <2>1 DEF Sound
  <2> QED  BY <1>2, <1>4, <2>1, <2>2
<1> QED  BY <1>5, <1>7, <1>8

\* After a value comes no other.
ValueNames == {"STRING", "NUMBER", "TRUE", "FALSE", "NULL", "INVALID", "BEGIN_OBJECT", "BEGIN_ARRAY"}

LEMMA NoValueFollows ==
  ASSUME NEW Good, NEW C, NEW s \in Scans(C), AfterValue(s), NEW k \in ValueNames, NEW t \in Seq(C)
  PROVE  ~Sound(Taking(s, k, t).tokens, Good)
<1>1. ValueNames \subseteq LexedNames
  BY DEF ValueNames, LexedNames, Structural, TokenOf
<1>2. s.tokens[Len(s.tokens)][1] \notin Openers
  BY DEF AfterValue
<1>3. ~MayFollow(s.tokens[Len(s.tokens)][1], k)
  BY <1>2 DEF MayFollow, ValueNames, Closers
<1> QED  BY <1>1, <1>3, SoundTaking

LEMMA SoundRefusing ==
  ASSUME NEW Good, NEW C, NEW s \in Scans(C)
  PROVE  ~Sound(Refusing(s).tokens, Good)
<1>1. s.tokens \in Seq(LexedNames \X Seq(C)) /\ <<"INVALID", <<>> >> \in LexedNames \X Seq(C)
  BY EmptySeq DEF Scans, TokensOver, LexedNames
<1> DEFINE us == Append(s.tokens, <<"INVALID", <<>> >>)
<1>2. Len(us) \in 1..Len(us) /\ us[Len(us)] = <<"INVALID", <<>> >>
  BY <1>1, AppendProperties, LenProperties
<1>3. us[Len(us)][1] = "INVALID"
  BY <1>2
<1>4. Refusing(s).tokens = us
  BY DEF Refusing
<1> HIDE DEF us
<1> QED  BY <1>2, <1>3, <1>4 DEF Sound

-----------------------------------------------------------------------------

\* What a character does that the lexer takes: outside every token, in a string, in a literal, in a number.
Special == Space \cup Structural \cup {"\"", "\\"}

RootStep(s, c) ==
  /\ s.lex.state = 0
  /\ \/ c \in Space /\ ScanChar(s, c) = s
     \/ c \in Structural /\ ScanChar(s, c) = Taking(s, TokenOf(c), <<>>)
     \/ c = "\"" /\ ScanChar(s, c) = Going(s, 1, rcs_create(RSTRING_DEFAULT))
     \/ c \notin Special /\ \E n \in 7..24 : \E t : ScanChar(s, c) = Going(s, n, t)

StringStep(s, c) ==
  /\ s.lex.state \in InString
  /\ \/ s.lex.state = 1 /\ c = "\"" /\ ScanChar(s, c) = Taking(s, "STRING", s.lex.text.text)
     \/ /\ s.lex.state # 1 \/ c # "\""
        /\ StringGoes(s.lex.state, c, Next1(s.lex.state, c)) /\ Next1(s.lex.state, c) \in InString
        /\ ScanChar(s, c) = Going(s, Next1(s.lex.state, c), rcs_catc(s.lex.text, c))

LiteralStep(s, c) ==
  /\ s.lex.state \in 7..16 /\ c \notin Special
  /\ \/ \E k \in {"TRUE", "FALSE", "NULL"} : ScanChar(s, c) = Taking(s, k, <<>>)
     \/ \E n \in 7..24 : \E t : ScanChar(s, c) = Going(s, n, t)

NumberStep(s, c) ==
  /\ s.lex.state \in InNumber
  /\ \/ s.lex.state \in MayEnd /\ c \in Space /\ ScanChar(s, c) = NumberEnd(s)
     \/ s.lex.state \in MayEnd /\ c \in {"]", "}", ","} /\ ScanChar(s, c) = ScanChar(NumberEnd(s), c)
     \/ c \notin Special /\ \E n \in 7..24 : \E t : ScanChar(s, c) = Going(s, n, t)

LEMMA Steps ==
  ASSUME NEW Good, NEW C, NEW s \in Scans(C), NEW c \in C, Sound(ScanChar(s, c).tokens, Good)
  PROVE  RootStep(s, c) \/ StringStep(s, c) \/ LiteralStep(s, c) \/ NumberStep(s, c)
<1>0. ScanChar(s, c) # Refusing(s)
  BY SoundRefusing
<1>1. CASE s.lex.state = 0
  <2>1. Digit \cup {"t", "f", "n", "-"} \subseteq {x \in Digit \cup {"t", "f", "n", "-"} : x \notin Special}
    BY DEF Digit, Special, Space, Structural
  <2>2. ASSUME NEW n \in {7, 10, 14}, c \in {"t", "f", "n"}, ScanChar(s, c) = Going(s, n, NULL)
        PROVE  RootStep(s, c)
    <3>1. n \in 7..24
      OBVIOUS
    <3> QED  BY <1>1, <2>1, <2>2, <3>1 DEF RootStep
  <2>3. ASSUME NEW n \in {17, 18, 19}, c \in Digit \cup {"-"}, ScanChar(s, c) = Going(s, n, Begin(c))
        PROVE  RootStep(s, c)
    <3>1. n \in 7..24
      OBVIOUS
    <3> QED  BY <1>1, <2>1, <2>3, <3>1 DEF RootStep
  <2>4. \/ c \in Space /\ ScanChar(s, c) = s
        \/ c \in Structural /\ ScanChar(s, c) = Taking(s, TokenOf(c), <<>>)
        \/ c = "\"" /\ ScanChar(s, c) = Going(s, 1, rcs_create(RSTRING_DEFAULT))
        \/ c \in {"t", "f", "n"} /\ \E n \in {7, 10, 14} : ScanChar(s, c) = Going(s, n, NULL)
        \/ c \in Digit \cup {"-"} /\ \E n \in {17, 18, 19} : ScanChar(s, c) = Going(s, n, Begin(c))
    BY <1>0, <1>1, RootScan
  <2> QED  BY <1>1, <2>2, <2>3, <2>4 DEF RootStep
<1>2. CASE s.lex.state \in InString
  BY <1>0, <1>2, StringScan, Zenon DEF StringStep
<1>3. CASE s.lex.state \in 7..16
  <2>1. LiteralLetter(s.lex.state) \notin Special
    <3>1. \A i \in 1..10 : <<"r", "u", "e", "a", "l", "s", "e", "u", "l", "l">>[i] \in {"r", "u", "e", "a", "l", "s"}
      OBVIOUS
    <3>2. s.lex.state - 6 \in 1..10
      BY <1>3
    <3>3. LiteralLetter(s.lex.state) \in {"r", "u", "e", "a", "l", "s"}
      BY <3>1, <3>2 DEF LiteralLetter
    <3> QED  BY <3>3 DEF Special, Space, Structural
  <2>2. 7..16 \subseteq 7..24
    OBVIOUS
  <2>3. \/ \E k \in {"TRUE", "FALSE", "NULL"} : c = LiteralLetter(s.lex.state) /\ ScanChar(s, c) = Taking(s, k, <<>>)
        \/ \E n \in 7..16 : c = LiteralLetter(s.lex.state) /\ ScanChar(s, c) = Going(s, n, NULL)
    BY <1>0, <1>3, LiteralScan
  <2> HIDE DEF Special
  <2> QED  BY <1>3, <2>1, <2>2, <2>3 DEF LiteralStep
<1>4. CASE s.lex.state \in InNumber
  <2>1. ASSUME NEW n \in InNumber, NumberGoes(s.lex.state, c, n), ScanChar(s, c) = Going(s, n, rcs_catc(s.lex.text, c))
        PROVE  NumberStep(s, c)
    <3>1. c \notin Special
      BY <2>1 DEF NumberGoes, Special, Space, Structural, Digit
    <3>2. n \in 7..24
      BY DEF InNumber
    <3> QED  BY <1>4, <2>1, <3>1, <3>2 DEF NumberStep
  <2> QED  BY <1>0, <1>4, <2>1, NumberScan DEF NumberStep
<1>5. s.lex.state \in 0..24
  BY DEF Scans, Lexes
<1> QED  BY <1>1, <1>2, <1>3, <1>4, <1>5 DEF InString, InNumber

\* A number that ends where a delimiter stands.
LEMMA EndedStep ==
  ASSUME NEW C, NEW s \in Scans(C), NEW c, s.lex.state = 0, c \in Structural
  PROVE  ScanChar(s, c) = Taking(s, TokenOf(c), <<>>) /\ TokenOf(c) \in LexedNames
<1>1. c \notin Space /\ c # "\"" /\ c \notin {"t", "f", "n"} /\ c \notin Digit \cup {"-"}
  BY DEF Structural, Space, Digit
<1>2. ScanChar(s, c) = Taking(s, TokenOf(c), <<>>)
  BY <1>1, RootScan
<1> QED  BY <1>2 DEF LexedNames

\* A token that should not have begun goes on, or completes.
LEMMA StaysDoomed ==
  ASSUME NEW Good, NEW C, NEW s \in Scans(C), NEW c \in C, Sound(ScanChar(s, c).tokens, Good), Doomed(s)
  PROVE  Doomed(ScanChar(s, c))
<1>0. AfterValue(s) /\ s.lex.state # 0 /\ <<>> \in Seq(C)
  BY EmptySeq DEF Doomed
<1>1. ASSUME NEW n, NEW t, n # 0, ScanChar(s, c) = Going(s, n, t)
      PROVE  Doomed(ScanChar(s, c))
  <2>1. Going(s, n, t).lex.state = n /\ Going(s, n, t).tokens = s.tokens
    BY DEF Going
  <2> QED  BY <1>0, <1>1, <2>1 DEF Doomed, AfterValue
<1>2. CASE StringStep(s, c)
  <2>1. 0 \notin InString /\ s.lex.text.text \in Seq(C) /\ "STRING" \in ValueNames
    <3>1. s.lex.state \in InString \cup InNumber
      BY <1>2 DEF StringStep
    <3> QED  BY <3>1, TextTyped DEF InString, ValueNames
  <2>2. ScanChar(s, c) # Taking(s, "STRING", s.lex.text.text)
    BY <1>0, <2>1, NoValueFollows
  <2> QED  BY <1>1, <1>2, <2>1, <2>2 DEF StringStep
<1>3. CASE LiteralStep(s, c)
  <2>1. ASSUME NEW k \in {"TRUE", "FALSE", "NULL"}
        PROVE  ScanChar(s, c) # Taking(s, k, <<>>)
    <3>1. k \in ValueNames
      BY DEF ValueNames
    <3> QED  BY <1>0, <3>1, NoValueFollows
  <2> QED  BY <1>1, <1>3, <2>1 DEF LiteralStep
<1>4. CASE NumberStep(s, c)
  <2>1. s.lex.text.text \in Seq(C) /\ "NUMBER" \in ValueNames
    BY <1>4, TextTyped DEF NumberStep, ValueNames
  <2>2. ~Sound(NumberEnd(s).tokens, Good)
    BY <1>0, <2>1, NoValueFollows DEF NumberEnd
  <2>3. ASSUME s.lex.state \in MayEnd, c \in {"]", "}", ","}
        PROVE  ScanChar(s, c) # ScanChar(NumberEnd(s), c)
    <3>1. NumberEnd(s) \in Scans(C) /\ NumberEnd(s).lex.state = 0
      <4>1. NumberEnd(s) \in Scans(C) /\ NumberEnd(s).lex = NewLexer
        BY <2>3, EndedTyped
      <4> QED  BY <4>1 DEF NewLexer
    <3>2. c \in Structural
      BY <2>3 DEF Structural
    <3>3. ScanChar(NumberEnd(s), c) = Taking(NumberEnd(s), TokenOf(c), <<>>) /\ TokenOf(c) \in LexedNames
      BY <3>1, <3>2, EndedStep
    <3>4. ~Sound(Taking(NumberEnd(s), TokenOf(c), <<>>).tokens, Good)
      BY <1>0, <2>2, <3>1, <3>3, SoundTaking
    <3> QED  BY <3>3, <3>4
  <2>4. \A n \in 7..24 : n # 0
    OBVIOUS
  <2> QED  BY <1>1, <1>4, <2>2, <2>3, <2>4 DEF NumberStep
<1>5. ~RootStep(s, c)
  BY <1>0 DEF RootStep
<1> QED  BY <1>2, <1>3, <1>4, <1>5, Steps

\* The tokens before a character are sound if those after it are.
LEMMA SoundBefore ==
  ASSUME NEW Good, NEW C, NEW s \in Scans(C), NEW c \in C, Sound(ScanChar(s, c).tokens, Good)
  PROVE  Sound(s.tokens, Good)
<1>0. <<>> \in Seq(C) /\ \A n, t : Going(s, n, t).tokens = s.tokens
  BY EmptySeq DEF Going
<1>1. CASE RootStep(s, c)
  <2>1. CASE c \in Structural /\ ScanChar(s, c) = Taking(s, TokenOf(c), <<>>)
    <3>1. TokenOf(c) \in LexedNames
      BY <2>1 DEF LexedNames
    <3> QED  BY <1>0, <2>1, <3>1, SoundTaking
  <2> QED  BY <1>0, <1>1, <2>1 DEF RootStep
<1>2. CASE StringStep(s, c)
  <2>1. s.lex.state \in InString \cup InNumber /\ "STRING" \in LexedNames
    BY <1>2 DEF StringStep, LexedNames
  <2>2. s.lex.text.text \in Seq(C)
    BY <2>1, TextTyped
  <2>3. CASE ScanChar(s, c) = Taking(s, "STRING", s.lex.text.text)
    BY <2>1, <2>2, <2>3, SoundTaking
  <2>4. CASE ScanChar(s, c) = Going(s, Next1(s.lex.state, c), rcs_catc(s.lex.text, c))
    BY <1>0, <2>4
  <2> QED  BY <1>2, <2>3, <2>4 DEF StringStep
<1>3. CASE LiteralStep(s, c)
  <2>1. \A k \in {"TRUE", "FALSE", "NULL"} : k \in LexedNames
    BY DEF LexedNames
  <2> QED  BY <1>0, <1>3, <2>1, SoundTaking DEF LiteralStep
<1>4. CASE NumberStep(s, c)
  <2>1. s.lex.state \in InString \cup InNumber /\ "NUMBER" \in LexedNames
    BY <1>4 DEF NumberStep, LexedNames
  <2>2. s.lex.text.text \in Seq(C)
    BY <2>1, TextTyped
  <2>3. ASSUME Sound(NumberEnd(s).tokens, Good)
        PROVE  Sound(s.tokens, Good)
    BY <2>1, <2>2, <2>3, SoundTaking DEF NumberEnd
  <2>4. ASSUME s.lex.state \in MayEnd, c \in {"]", "}", ","}, ScanChar(s, c) = ScanChar(NumberEnd(s), c)
        PROVE  Sound(s.tokens, Good)
    <3>1. NumberEnd(s) \in Scans(C) /\ NumberEnd(s).lex = NewLexer
      BY <2>4, EndedTyped
    <3>2. c \in Structural /\ NumberEnd(s).lex.state = 0
      <4>1. c \in Structural
        BY <2>4 DEF Structural
      <4>2. NumberEnd(s).lex.state = 0
        BY <3>1 DEF NewLexer
      <4> QED  BY <4>1, <4>2
    <3>3. ScanChar(NumberEnd(s), c) = Taking(NumberEnd(s), TokenOf(c), <<>>) /\ TokenOf(c) \in LexedNames
      BY <3>1, <3>2, EndedStep
    <3>4. Sound(NumberEnd(s).tokens, Good)
      BY <1>0, <2>4, <3>1, <3>3, SoundTaking
    <3> QED  BY <2>3, <3>4
  <2> QED  BY <1>0, <1>4, <2>3, <2>4 DEF NumberStep
<1> QED  BY <1>1, <1>2, <1>3, <1>4, Steps

\* The lexer over a text, character by character.
Scanned(f, text, C) ==
  /\ text \in Seq(C) /\ f \in [0..Len(text) -> Scans(C)] /\ f[0] = NewScan
  /\ \A k \in 1..Len(text) : f[k] = ScanChar(f[k - 1], text[k])

\* From the end of a text back to any place in it.
LEMMA CountingDown ==
  ASSUME NEW n \in Nat, NEW P, n \in P, \A k \in 1..n : k \in P => k - 1 \in P
  PROVE  \A k \in 0..n : k \in P
<1> DEFINE Q == {j \in 0..n : n - j \in P}
<1>1. 0 \in Q
  OBVIOUS
<1>2. ASSUME NEW j \in 0..n - 1, j \in Q
      PROVE  j + 1 \in Q
  <2>1. n - j \in 1..n /\ n - j \in P /\ (n - j) - 1 = n - (j + 1) /\ j + 1 \in 0..n
    BY <1>2
  <2> QED  BY <2>1
<1>3. \A j \in 0..n : j \in Q
  <2> HIDE DEF Q
  <2> QED  BY <1>1, <1>2, Counting
<1>4. ASSUME NEW k \in 0..n
      PROVE  k \in P
  <2>1. n - k \in 0..n /\ n - (n - k) = k
    OBVIOUS
  <2> QED  BY <1>3, <2>1
<1> QED  BY <1>4

\* Of a document whose tokens are sound and that ends outside every token.
Clean(s, Good) == Sound(s.tokens, Good) /\ ~Doomed(s)

LEMMA CleanRun ==
  ASSUME NEW Good, NEW C, NEW text, NEW f, Scanned(f, text, C), Clean(f[Len(text)], Good)
  PROVE  \A k \in 0..Len(text) : Clean(f[k], Good)
<1> DEFINE n == Len(text)
           P == {k \in 0..n : Clean(f[k], Good)}
<1>1. n \in Nat /\ f \in [0..n -> Scans(C)] /\ \A k \in 1..n : text[k] \in C /\ f[k] = ScanChar(f[k - 1], text[k])
  BY LenProperties, ElementOfSeq DEF Scanned
<1>2. n \in P
  BY <1>1
<1>3. ASSUME NEW k \in 1..n, k \in P
      PROVE  k - 1 \in P
  <2>1. k - 1 \in 0..n /\ f[k - 1] \in Scans(C) /\ text[k] \in C /\ f[k] = ScanChar(f[k - 1], text[k])
    BY <1>1
  <2>2. Sound(f[k].tokens, Good) /\ ~Doomed(f[k])
    BY <1>3 DEF Clean
  <2>3. Sound(f[k - 1].tokens, Good) /\ ~Doomed(f[k - 1])
    BY <2>1, <2>2, SoundBefore, StaysDoomed
  <2> QED  BY <2>1, <2>3 DEF Clean
<1> HIDE DEF P, n
<1>4. \A k \in 0..n : k \in P
  BY <1>1, <1>2, <1>3, CountingDown
<1> QED  BY <1>4 DEF P, n

-----------------------------------------------------------------------------

\* Twice scans of the same tokens, the second of which has not yet seen the end of a number.
Follows(o, s) == o = s \/ (s.lex.state \in MayEnd /\ o = NumberEnd(s))

LEMMA StepsApart ==
  ASSUME NEW s, NEW c
  PROVE  /\ s.lex.state \in InString => ~RootStep(s, c) /\ ~LiteralStep(s, c) /\ ~NumberStep(s, c)
         /\ s.lex.state \notin InString => ~StringStep(s, c)
<1>1. 0 \notin InString /\ \A n \in InString : n \notin 7..16 /\ n \notin InNumber
  BY DEF InString, InNumber
<1> QED  BY <1>1 DEF RootStep, LiteralStep, NumberStep, StringStep

\* Outside the strings white space changes nothing.
LEMMA Dropped ==
  ASSUME NEW Good, NEW C, NEW s, NEW o \in Scans(C), NEW c \in C, Follows(o, s), Sound(ScanChar(o, c).tokens, Good),
         c \in Space, o.lex.state \notin InString
  PROVE  Follows(ScanChar(o, c), s) /\ ScanChar(o, c).lex.state \notin InString
<1>0. c \in Special /\ c \notin Structural /\ c # "\"" /\ c \notin {"]", "}", ","} /\ 0 \notin InString
  <2>1. c \in Special
    BY DEF Special
  <2>2. c \notin Structural /\ c # "\"" /\ c \notin {"]", "}", ","}
    BY DEF Space, Structural
  <2>3. 0 \notin InString
    BY DEF InString
  <2> QED  BY <2>1, <2>2, <2>3
<1>1. RootStep(o, c) \/ LiteralStep(o, c) \/ NumberStep(o, c)
  BY Steps, StepsApart
<1>2. CASE RootStep(o, c)
  <2>1. ScanChar(o, c) = o
    BY <1>0, <1>2 DEF RootStep
  <2> QED  BY <2>1
<1>3. CASE LiteralStep(o, c)
  BY <1>0, <1>3 DEF LiteralStep
<1>4. CASE NumberStep(o, c)
  <2>1. o.lex.state \in MayEnd /\ ScanChar(o, c) = NumberEnd(o)
    BY <1>0, <1>4 DEF NumberStep
  <2>2. NumberEnd(o).lex.state = 0 /\ NumberEnd(s).lex.state = 0
    BY DEF NumberEnd, Taking, NewLexer
  <2>3. o = s
    BY <2>1, <2>2 DEF Follows, MayEnd
  <2> QED  BY <1>0, <2>1, <2>2, <2>3 DEF Follows
<1> QED  BY <1>1, <1>2, <1>3, <1>4

\* Everything else means the same after either.
LEMMA Copied ==
  ASSUME NEW Good, NEW C, NEW s \in Scans(C), NEW o \in Scans(C), NEW c \in C, Follows(o, s), Clean(ScanChar(o, c), Good),
         c \notin Space \/ o.lex.state \in InString
  PROVE  ScanChar(s, c) = ScanChar(o, c)
<1> SUFFICES ASSUME s.lex.state \in MayEnd, o = NumberEnd(s)
             PROVE  ScanChar(s, c) = ScanChar(o, c)
  BY DEF Follows
<1>0. Sound(ScanChar(o, c).tokens, Good) /\ ~Doomed(ScanChar(o, c))
  BY DEF Clean
<1>1. o.lex.state = 0 /\ 0 \notin InString
  BY DEF NumberEnd, Taking, NewLexer, InString
<1>2. RootStep(o, c)
  <2>1. 0 \notin 7..16 /\ 0 \notin InNumber
    BY DEF InNumber
  <2>2. ~StringStep(o, c) /\ ~LiteralStep(o, c) /\ ~NumberStep(o, c)
    BY <1>1, <2>1 DEF StringStep, LiteralStep, NumberStep
  <2> QED  BY <1>0, <2>2, Steps
<1>3. s.lex.state \in InNumber /\ s.lex.text.text \in Seq(C) /\ "NUMBER" \in LexedNames
  <2>1. s.lex.state \in InNumber
    BY DEF MayEnd, InNumber
  <2> QED  BY <2>1, TextTyped DEF LexedNames
<1>4. Len(o.tokens) > 0 /\ o.tokens[Len(o.tokens)] = <<"NUMBER", s.lex.text.text>>
  <2>1. s.tokens \in Seq(LexedNames \X Seq(C)) /\ <<"NUMBER", s.lex.text.text>> \in LexedNames \X Seq(C)
    BY <1>3 DEF Scans, TokensOver
  <2>2. o.tokens = Append(s.tokens, <<"NUMBER", s.lex.text.text>>)
    BY DEF NumberEnd, Taking
  <2> QED  BY <2>1, <2>2, AppendProperties, LenProperties
<1>5. AfterValue(o) /\ o.tokens[Len(o.tokens)][1] = "NUMBER"
  <2>1. o.tokens[Len(o.tokens)][1] = "NUMBER" /\ "NUMBER" \notin Openers
    BY <1>4 DEF Openers
  <2> QED  BY <1>4, <2>1 DEF AfterValue
<1>6. ASSUME NEW n, NEW t, n # 0
      PROVE  ScanChar(o, c) # Going(o, n, t)
  <2>1. Going(o, n, t).lex.state = n /\ Going(o, n, t).tokens = o.tokens
    BY DEF Going
  <2> QED  BY <1>0, <1>5, <1>6, <2>1 DEF Doomed, AfterValue
<1>7. c \in Structural /\ ScanChar(o, c) = Taking(o, TokenOf(c), <<>>)
  <2>1. \A n \in 7..24 : n # 0
    OBVIOUS
  <2>2. ~\E n \in 7..24 : \E t : ScanChar(o, c) = Going(o, n, t)
    BY <1>6, <2>1, Zenon
  <2>3. ScanChar(o, c) # Going(o, 1, rcs_create(RSTRING_DEFAULT))
    <3>1. 1 # 0
      OBVIOUS
    <3> QED  BY <1>6, <3>1, Zenon
  <2>4. c \notin Space
    BY <1>1
  <2> QED  BY <1>2, <2>2, <2>3, <2>4 DEF RootStep
<1>8. TokenOf(c) \in LexedNames /\ <<>> \in Seq(C)
  BY <1>7, EmptySeq DEF LexedNames
<1>9. MayFollow("NUMBER", TokenOf(c))
  BY <1>0, <1>5, <1>7, <1>8, SoundTaking
<1>10. c \in {"]", "}", ","}
  BY <1>7, <1>9 DEF MayFollow, Openers, Closers, Structural, TokenOf
<1>11. c \notin Space /\ EndsNumber(c)
  BY <1>10 DEF Space, EndsNumber
<1>12. ~\E n \in InNumber : NumberGoes(s.lex.state, c, n) /\ ScanChar(s, c) = Going(s, n, rcs_catc(s.lex.text, c))
  BY <1>10 DEF NumberGoes, Digit
<1> QED  BY <1>3, <1>11, <1>12, NumberScan

\* Only a " leads into a string.
LeadsIn(s, c) ==
  /\ ScanChar(s, c).lex.state \in InString <=> c = "\""
  /\ c = "\"" => ScanChar(s, c).lex.state = 1 /\ ScanChar(s, c).lex.text.text = <<>>
  /\ c \in Structural => ScanChar(s, c).lex.state = 0

LEMMA OutsideScan ==
  ASSUME NEW Good, NEW C, NEW s \in Scans(C), NEW c \in C, Sound(ScanChar(s, c).tokens, Good), s.lex.state \notin InString
  PROVE  LeadsIn(s, c)
<1>0. /\ \A n, t : Going(s, n, t).lex.state = n /\ Going(s, n, t).lex.text = t
      /\ \A z, k, t : Taking(z, k, t).lex.state = 0
  BY DEF Going, Taking, NewLexer
<1>1. 0 \notin InString /\ 1 \in InString /\ \A n \in 7..24 : n \notin InString
  BY DEF InString
<1>2. /\ "\"" \in Special /\ Structural \subseteq Special
      /\ "\"" \notin Space /\ "\"" \notin Structural /\ Space \cap Structural = {}
  BY DEF Special, Space, Structural
<1>3. rcs_create(RSTRING_DEFAULT).text = <<>>
  BY DEF rcs_create
<1>4. RootStep(s, c) \/ LiteralStep(s, c) \/ NumberStep(s, c)
  BY Steps, StepsApart
<1> SUFFICES /\ ScanChar(s, c).lex.state \in InString <=> c = "\""
             /\ c = "\"" => ScanChar(s, c).lex.state = 1 /\ ScanChar(s, c).lex.text.text = <<>>
             /\ c \in Structural => ScanChar(s, c).lex.state = 0
  BY DEF LeadsIn
<1>5. ASSUME NEW n \in 7..24, NEW t, c \notin Special, ScanChar(s, c) = Going(s, n, t)
      PROVE  ScanChar(s, c).lex.state \notin InString /\ c # "\"" /\ c \notin Structural
  <2>1. ScanChar(s, c).lex.state = n
    BY <1>0, <1>5, Zenon
  <2> QED  BY <1>1, <1>2, <1>5, <2>1, Zenon
<1>6. ASSUME NEW z, NEW k, NEW t, c # "\"", ScanChar(s, c) = Taking(z, k, t)
      PROVE  ScanChar(s, c).lex.state = 0 /\ ScanChar(s, c).lex.state \notin InString
  <2>1. ScanChar(s, c).lex.state = 0
    <3>1. Taking(z, k, t).lex.state = 0
      BY <1>0
    <3> QED  BY <1>6, <3>1, Zenon
  <2> QED  BY <1>1, <2>1, Zenon
<1>7. CASE RootStep(s, c)
  <2>1. CASE c \in Space /\ ScanChar(s, c) = s
    BY <1>2, <2>1
  <2>2. CASE c \in Structural /\ ScanChar(s, c) = Taking(s, TokenOf(c), <<>>)
    BY <1>2, <1>6, <2>2
  <2>3. CASE c = "\"" /\ ScanChar(s, c) = Going(s, 1, rcs_create(RSTRING_DEFAULT))
    <3>1. ScanChar(s, c).lex.state = 1 /\ ScanChar(s, c).lex.text.text = <<>>
      <4>1. Going(s, 1, rcs_create(RSTRING_DEFAULT)).lex.state = 1
        BY <1>0
      <4>2. Going(s, 1, rcs_create(RSTRING_DEFAULT)).lex.text = rcs_create(RSTRING_DEFAULT)
        BY <1>0
      <4> QED  BY <1>3, <2>3, <4>1, <4>2, Zenon
    <3> QED  BY <1>1, <1>2, <2>3, <3>1, Zenon
  <2>4. CASE c \notin Special /\ \E n \in 7..24 : \E t : ScanChar(s, c) = Going(s, n, t)
    BY <1>5, <2>4
  <2> QED  BY <1>7, <2>1, <2>2, <2>3, <2>4 DEF RootStep
<1>8. CASE LiteralStep(s, c)
  <2>1. c # "\"" /\ c \notin Structural
    BY <1>2, <1>8 DEF LiteralStep
  <2>2. ScanChar(s, c).lex.state \notin InString
    BY <1>5, <1>6, <1>8, <2>1 DEF LiteralStep
  <2> QED  BY <2>1, <2>2
<1>9. CASE NumberStep(s, c)
  <2>1. CASE c \in Space /\ ScanChar(s, c) = NumberEnd(s)
    <3>1. c # "\"" /\ c \notin Structural
      BY <1>2, <2>1, Zenon
    <3> QED  BY <1>6, <2>1, <3>1, Zenon DEF NumberEnd
  <2>2. CASE s.lex.state \in MayEnd /\ c \in {"]", "}", ","} /\ ScanChar(s, c) = ScanChar(NumberEnd(s), c)
    <3>1. NumberEnd(s) \in Scans(C) /\ NumberEnd(s).lex.state = 0
      <4>1. NumberEnd(s) \in Scans(C) /\ NumberEnd(s).lex = NewLexer
        BY <2>2, EndedTyped
      <4> QED  BY <4>1 DEF NewLexer
    <3>2. c \in Structural
      BY <2>2 DEF Structural
    <3>3. ScanChar(NumberEnd(s), c) = Taking(NumberEnd(s), TokenOf(c), <<>>)
      BY <3>1, <3>2, EndedStep
    <3> QED  BY <1>2, <1>6, <2>2, <3>2, <3>3
  <2>3. CASE c \notin Special /\ \E n \in 7..24 : \E t : ScanChar(s, c) = Going(s, n, t)
    BY <1>5, <2>3
  <2> QED  BY <1>9, <2>1, <2>2, <2>3 DEF NumberStep
<1> QED  BY <1>4, <1>7, <1>8, <1>9

-----------------------------------------------------------------------------

StripStates(C) == [state : 0..1, out : Seq(C)]
StripStart     == [state |-> 0, out |-> <<>>]

StripsOff(text, s, i) ==
  /\ text[i] \in Space /\ s.state = 0 => StripTurn(text, s, i) = s
  /\ text[i] \notin Space \/ s.state = 1 => StripTurn(text, s, i).out = Append(s.out, text[i])
  /\ StripTurn(text, s, i).state = IF text[i] # "\"" THEN s.state
                                   ELSE IF s.state = 0 THEN 1 ELSE IF text[i - 1] # "\\" THEN 0 ELSE 1

LEMMA StripTurnIs ==
  ASSUME NEW C, NEW s \in StripStates(C), NEW text, NEW i, text[i] \in C
  PROVE  StripTurn(text, s, i) \in StripStates(C) /\ StripsOff(text, s, i)
<1> SUFFICES
      /\ StripTurn(text, s, i) \in StripStates(C)
      /\ text[i] \in Space /\ s.state = 0 => StripTurn(text, s, i) = s
      /\ text[i] \notin Space \/ s.state = 1 => StripTurn(text, s, i).out = Append(s.out, text[i])
      /\ StripTurn(text, s, i).state = IF text[i] # "\"" THEN s.state
                                       ELSE IF s.state = 0 THEN 1 ELSE IF text[i - 1] # "\\" THEN 0 ELSE 1
  BY Zenon DEF StripsOff
<1> DEFINE c == text[i]
           p == text[i - 1]
           copied == [s EXCEPT !.out = Append(@, c)]
           m == IF s.state = 0 THEN 1 ELSE IF p # "\\" THEN 0 ELSE 1
<1>1. PICK n \in 0..1, t \in Seq(C) : s = [state |-> n, out |-> t]
  BY DEF StripStates
<1>2. /\ s.state = n /\ s.out = t /\ Append(t, c) \in Seq(C) /\ n \in {0, 1}
      /\ copied = [state |-> n, out |-> Append(t, c)] /\ [copied EXCEPT !.state = m] = [state |-> m, out |-> Append(t, c)]
  <2>1. s.state = n /\ s.out = t
    BY <1>1
  <2>2. Append(t, c) \in Seq(C)
    BY AppendProperties
  <2>3. \A x : [[state |-> n, out |-> t] EXCEPT !.out = x] = [state |-> n, out |-> x]
    OBVIOUS
  <2>4. copied = [[state |-> n, out |-> t] EXCEPT !.out = Append(t, c)]
    BY <1>1, <2>1
  <2>5. \A x, y : [[state |-> n, out |-> x] EXCEPT !.state = y] = [state |-> y, out |-> x]
    OBVIOUS
  <2> HIDE DEF copied, m
  <2>6. copied = [state |-> n, out |-> Append(t, c)]
    BY <2>3, <2>4, Zenon
  <2>7. [copied EXCEPT !.state = m] = [state |-> m, out |-> Append(t, c)]
    BY <2>5, <2>6, Zenon
  <2> QED  BY <2>1, <2>2, <2>6, <2>7
<1>8. s.state = n /\ n \in {0, 1}
  BY <1>2
<1>3. "\"" \notin Space
  BY DEF Space
<1>4. StripTurn(text, s, i) = IF c \in Space THEN IF s.state = 1 THEN copied ELSE s
                              ELSE IF c = "\"" THEN [copied EXCEPT !.state = m] ELSE copied
  <2> HIDE DEF copied
  <2>1. CASE c \in Space
    BY <1>3, <2>1 DEF StripTurn, copied
  <2>2. CASE c \notin Space /\ c = "\""
    BY <1>3, <2>2 DEF StripTurn, copied
  <2>3. CASE c \notin Space /\ c # "\""
    BY <2>3 DEF StripTurn, copied
  <2> QED  BY <2>1, <2>2, <2>3
<1> HIDE DEF copied
<1>5. CASE c \in Space /\ s.state = 0
  <2>1. StripTurn(text, s, i) = s
    BY <1>4, <1>5
  <2>2. s.state # 1
    BY <1>5
  <2>3. c # "\""
    BY <1>3, <1>5, Zenon
  <2> HIDE DEF m
  <2> QED  BY <1>5, <2>1, <2>2, <2>3, Zenon
<1>6. CASE c # "\"" /\ (c \notin Space \/ s.state = 1)
  <2>1. StripTurn(text, s, i) = [state |-> n, out |-> Append(t, c)]
    BY <1>2, <1>4, <1>6
  <2>2. StripTurn(text, s, i) \in StripStates(C) /\ StripTurn(text, s, i).state = n
       /\ StripTurn(text, s, i).out = Append(t, c)
    BY <1>2, <2>1 DEF StripStates
  <2>3. ~(c \in Space /\ n = 0)
    <3>1. 0 # 1
      OBVIOUS
    <3> QED  BY <1>6, <1>8, <3>1, Zenon
  <2> HIDE DEF m
  <2> QED  BY <1>2, <1>6, <2>2, <2>3
<1>7. CASE c = "\""
  <2>1. StripTurn(text, s, i) = [state |-> m, out |-> Append(t, c)] /\ m \in 0..1
    <3>1. c \notin Space
      BY <1>3, <1>7, Zenon
    <3>2. m \in 0..1
      OBVIOUS
    <3> HIDE DEF m
    <3> QED  BY <1>2, <1>4, <1>7, <3>1, <3>2
  <2> HIDE DEF m
  <2>2. StripTurn(text, s, i) \in StripStates(C) /\ StripTurn(text, s, i).state = m
       /\ StripTurn(text, s, i).out = Append(t, c)
    BY <1>2, <2>1 DEF StripStates
  <2> QED  BY <1>2, <1>3, <1>7, <2>2 DEF m
<1> QED  BY <1>2, <1>5, <1>6, <1>7

\* The character and the one before it are all that is read.
LEMMA StripTurnSame ==
  ASSUME NEW s, NEW text, NEW i, NEW u, NEW j, text[i] = u[j], s.state # 0 => text[i - 1] = u[j - 1]
  PROVE  StripTurn(text, s, i) = StripTurn(u, s, j)
BY Zenon DEF StripTurn

\* Stripping, turn by turn.
LEMMA StripRun ==
  ASSUME NEW C, NEW text \in Seq(C)
  PROVE  \E g \in [0..Len(text) -> StripStates(C)] :
            /\ g[0] = StripStart /\ \A k \in 1..Len(text) : g[k] = StripTurn(text, g[k - 1], k)
            /\ Stripped(text) = g[Len(text)]
<1> DEFINE n == Len(text)
           S == StripStates(C)
           F == [p \in S \X (1..n) |-> StripTurn(text, p[1], p[2])]
           P(f) == f = [k \in 0..n |-> IF k = 0 THEN [state |-> 0, out |-> <<>>] ELSE StripTurn(text, f[k - 1], k)]
<1>1. n \in Nat /\ StripStart \in S
  BY LenProperties, EmptySeq DEF StripStart, StripStates
<1>2. Turns(F, n, S)
  <2> SUFFICES ASSUME NEW p \in S \X (1..n)
               PROVE  StripTurn(text, p[1], p[2]) \in S
    BY DEF Turns
  <2>1. p[1] \in S /\ p[2] \in 1..n
    OBVIOUS
  <2>2. text[p[2]] \in C
    BY <2>1, ElementOfSeq
  <2> QED  BY <2>1, <2>2, StripTurnIs
<1>3. PICK f \in [0..n -> S] : f[0] = StripStart /\ \A k \in 1..n : f[k] = F[<<f[k - 1], k>>]
  <2> HIDE DEF F, P, n, S
  <2>1. \E f : Run(f, F, n, S, StripStart)
    BY <1>1, <1>2, TurnsExist
  <2> QED  BY <2>1 DEF Run
<1>4. \A k \in 1..n : f[k] = StripTurn(text, f[k - 1], k)
  <2> SUFFICES ASSUME NEW k \in 1..n
               PROVE  f[k] = StripTurn(text, f[k - 1], k)
    OBVIOUS
  <2>1. f[k - 1] \in S
    BY <1>1, <1>3
  <2>2. <<f[k - 1], k>> \in S \X (1..n)
    BY <2>1
  <2> QED  BY <1>3, <2>2
<1>5. P(f)
  BY <1>1, <1>3, <1>4 DEF StripStart
<1>6. Stripped(text) = (CHOOSE g : P(g))[n]
  BY DEF Stripped, For
<1>7. PICK g : P(g) /\ Stripped(text) = g[n]
  <2> HIDE DEF P
  <2> QED  BY <1>5, <1>6
<1>8. \A k \in 0..n : f[k] = g[k]
  <2>1. g[0] = StripStart /\ \A k \in 1..n : g[k] = StripTurn(text, g[k - 1], k)
    BY <1>1, <1>7 DEF StripStart
  <2>2. \A k \in 1..n : f[k - 1] = g[k - 1] => f[k] = g[k]
    BY <1>4, <2>1
  <2>3. f[0] = g[0]
    BY <1>3, <2>1
  <2> HIDE DEF P, F, n
  <2> QED  BY <1>1, <2>2, <2>3, SameRun, Zenon
<1>9. n \in 0..n
  BY <1>1
<1> QED  BY <1>3, <1>4, <1>7, <1>8, <1>9

LEMMA StripGrows ==
  ASSUME NEW C
  PROVE  /\ Stripped(<<>>) = StripStart
         /\ \A t \in Seq(C) : Stripped(t) \in StripStates(C)
         /\ \A t \in Seq(C), c \in C : Stripped(Append(t, c)) = StripTurn(Append(t, c), Stripped(t), Len(t) + 1)
<1>1. Stripped(<<>>) = StripStart
  <2>1. ASSUME NEW t \in Seq(C), Len(t) = 0
        PROVE  Stripped(t) = StripStart
    <3>1. PICK g : g[0] = StripStart /\ Stripped(t) = g[Len(t)]
      BY StripRun
    <3> QED  BY <2>1, <3>1
  <2>2. <<>> \in Seq(C) /\ Len(<<>>) = 0
    BY EmptySeq
  <2> QED  BY <2>1, <2>2
<1>2. ASSUME NEW t \in Seq(C)
      PROVE  Stripped(t) \in StripStates(C)
  <2>1. Len(t) \in 0..Len(t)
    BY LenProperties
  <2> QED  BY <2>1, StripRun
<1>3. ASSUME NEW t \in Seq(C), NEW c \in C
      PROVE  Stripped(Append(t, c)) = StripTurn(Append(t, c), Stripped(t), Len(t) + 1)
  <2> DEFINE n == Len(t)
             u == Append(t, c)
  <2>1. /\ n \in Nat /\ u \in Seq(C) /\ Len(u) = n + 1 /\ \A k \in 1..n : u[k] = t[k]
    BY AppendProperties, LenProperties
  <2> HIDE DEF u
  <2>2. PICK f \in [0..n -> StripStates(C)] :
           /\ f[0] = StripStart /\ \A k \in 1..n : f[k] = StripTurn(t, f[k - 1], k)
           /\ Stripped(t) = f[n]
    BY StripRun
  <2>3. PICK g : /\ g[0] = StripStart /\ \A k \in 1..n + 1 : g[k] = StripTurn(u, g[k - 1], k)
                 /\ Stripped(u) = g[n + 1]
    BY <2>1, StripRun
  <2>4. \A k \in 0..n : f[k] = g[k]
    <3>1. f[0] = g[0]
      BY <2>2, <2>3
    <3>2. ASSUME NEW k \in 1..n, f[k - 1] = g[k - 1]
          PROVE  f[k] = g[k]
      <4>1. f[k] = StripTurn(t, f[k - 1], k) /\ g[k] = StripTurn(u, f[k - 1], k)
        BY <2>1, <2>2, <2>3, <3>2
      <4>2. t[k] = u[k]
        BY <2>1
      <4>3. f[k - 1].state # 0 => t[k - 1] = u[k - 1]
        <5>1. CASE k = 1
          BY <2>1, <2>2, <5>1 DEF StripStart
        <5>2. CASE k # 1
          <6>1. k - 1 \in 1..n
            BY <2>1, <5>2
          <6> QED  BY <2>1, <6>1
        <5> QED  BY <5>1, <5>2
      <4> QED  BY <4>1, <4>2, <4>3, StripTurnSame
    <3>3. n \in Nat /\ \A k \in 1..n : f[k - 1] = g[k - 1] => f[k] = g[k]
      BY <2>1, <3>2
    <3> HIDE DEF n
    <3> QED  BY <3>1, <3>3, SameRun, Zenon
  <2>5. f[n] = g[n] /\ g[n + 1] = StripTurn(u, g[(n + 1) - 1], n + 1) /\ (n + 1) - 1 = n
    BY <2>1, <2>3, <2>4
  <2> QED  BY <2>2, <2>3, <2>5 DEF u
<1> QED  BY <1>1, <1>2, <1>3

\* Stripping what was stripped changes nothing.
StripsTwiceAt(g, text, k) ==
  /\ Stripped(g[k].out) = g[k]
  /\ g[k].state # 0 => Len(g[k].out) > 0 /\ g[k].out[Len(g[k].out)] = text[k]

LEMMA StripTwice ==
  ASSUME NEW C, NEW text \in Seq(C)
  PROVE  json_strip_white_spaces(json_strip_white_spaces(text)) = json_strip_white_spaces(text)
<1> DEFINE n == Len(text)
<1>1. PICK g \in [0..n -> StripStates(C)] :
         /\ g[0] = StripStart /\ \A k \in 1..n : g[k] = StripTurn(text, g[k - 1], k)
         /\ Stripped(text) = g[n]
  BY StripRun
<1>2. n \in Nat
  BY LenProperties
<1> DEFINE Q == {k \in 0..n : StripsTwiceAt(g, text, k)}
<1>3. 0 \in Q
  <2>1. g[0].out = <<>> /\ g[0].state = 0
    BY <1>1 DEF StripStart
  <2>2. Stripped(g[0].out) = g[0]
    BY <1>1, <2>1, StripGrows
  <2>3. 0 \in 0..n
    BY <1>2
  <2> QED  BY <2>1, <2>2, <2>3 DEF StripsTwiceAt
<1>4. ASSUME NEW k \in 0..n - 1, k \in Q
      PROVE  k + 1 \in Q
  <2> DEFINE s == g[k]
             c == text[k + 1]
             u == Append(s.out, c)
             i == Len(s.out)
  <2>1. /\ k + 1 \in 1..n /\ k + 1 \in 0..n /\ (k + 1) - 1 = k /\ s \in StripStates(C) /\ c \in C
        /\ g[k + 1] = StripTurn(text, s, k + 1)
    <3>1. k + 1 \in 1..n /\ k + 1 \in 0..n /\ (k + 1) - 1 = k /\ k \in 0..n
      BY <1>2
    <3> QED  BY <1>1, <3>1, ElementOfSeq
  <2>2. Stripped(s.out) = s /\ (s.state # 0 => i > 0 /\ s.out[i] = text[k])
    BY <1>4 DEF StripsTwiceAt
  <2>3. s.state \in {0, 1} /\ s.out \in Seq(C)
    BY <2>1 DEF StripStates
  <2>4. i \in Nat /\ u \in Seq(C) /\ Len(u) = i + 1 /\ u[i + 1] = c /\ \A j \in 1..i : u[j] = s.out[j]
    BY <2>1, <2>3, AppendProperties, LenProperties
  <2>5. Stripped(u) = StripTurn(u, s, i + 1)
    BY <2>1, <2>2, <2>3, StripGrows
  <2>8. /\ c \in Space /\ s.state = 0 => StripTurn(text, s, k + 1) = s
        /\ c \notin Space \/ s.state = 1 => StripTurn(text, s, k + 1).out = u
    <3>1. s \in StripStates(C) /\ text[k + 1] \in C
      BY <2>1
    <3>2. StripsOff(text, s, k + 1)
      <4> HIDE DEF s
      <4> QED  BY <3>1, StripTurnIs
    <3> HIDE DEF s
    <3> QED  BY <3>2, Zenon DEF StripsOff
  <2> HIDE DEF s, c, u, i, n
  <2>6. CASE c \in Space /\ s.state = 0
    <3>1. StripTurn(text, s, k + 1) = s
      BY <2>6, <2>8
    <3>2. g[k + 1] = s
      BY <2>1, <3>1
    <3>3. StripsTwiceAt(g, text, k + 1)
      BY <2>2, <2>6, <3>2 DEF StripsTwiceAt
    <3> QED  BY <2>1, <3>3
  <2>7. CASE c \notin Space \/ s.state = 1
    <3>1. s.state # 0 => text[(k + 1) - 1] = u[(i + 1) - 1]
      <4>1. ASSUME s.state # 0
            PROVE  u[i] = text[k] /\ (i + 1) - 1 = i
        <5>1. i \in 1..i /\ (i + 1) - 1 = i
          BY <2>2, <2>4, <4>1
        <5> QED  BY <2>2, <2>4, <4>1, <5>1
      <4> QED  BY <2>1, <4>1
    <3>2. text[k + 1] = u[i + 1]
      BY <2>4 DEF c
    <3>3. StripTurn(text, s, k + 1) = StripTurn(u, s, i + 1)
      BY <3>1, <3>2, StripTurnSame
    <3>4. g[k + 1].out = u
      BY <2>1, <2>7, <2>8
    <3>5. Stripped(g[k + 1].out) = g[k + 1]
      BY <2>1, <2>5, <3>3, <3>4
    <3>6. Len(u) > 0 /\ u[Len(u)] = text[k + 1]
      BY <2>4 DEF c
    <3>7. StripsTwiceAt(g, text, k + 1)
      BY <3>4, <3>5, <3>6 DEF StripsTwiceAt
    <3> QED  BY <2>1, <3>7
  <2> QED  BY <2>3, <2>6, <2>7
<1>5. n \in Q
  <2> HIDE DEF Q, n
  <2>1. \A k \in 0..n : k \in Q
    BY <1>2, <1>3, <1>4, Counting
  <2> QED  BY <1>2, <2>1
<1>6. Stripped(g[n].out) = g[n]
  BY <1>5 DEF StripsTwiceAt
<1> QED  BY <1>1, <1>6 DEF json_strip_white_spaces

-----------------------------------------------------------------------------

\* The texts that do not end with a backslash.
Unslashed(C) == {t \in Seq(C) : t = <<>> \/ t[Len(t)] # "\\"}

\* The character a string was read up to.
ReadTo(s, c) ==
  /\ IF s.lex.text.text = <<>> THEN c = "\"" ELSE s.lex.text.text[Len(s.lex.text.text)] = c
  /\ s.lex.state = 2 => c = "\\"

\* In a string.
LeadsOn(s, c, Good) ==
  \/ /\ s.lex.state = 1 /\ c = "\"" /\ ScanChar(s, c).lex.state = 0
     /\ s.lex.text.text \in Good
  \/ /\ s.lex.state # 1 \/ c # "\""
     /\ StringGoes(s.lex.state, c, Next1(s.lex.state, c)) /\ Next1(s.lex.state, c) \in InString
     /\ ScanChar(s, c).lex.state = Next1(s.lex.state, c)
     /\ ScanChar(s, c).lex.text.text = Append(s.lex.text.text, c)

LEMMA InsideScan ==
  ASSUME NEW Good, NEW C, NEW s \in Scans(C), NEW c \in C, Sound(ScanChar(s, c).tokens, Good), s.lex.state \in InString
  PROVE  LeadsOn(s, c, Good)
<1>1. s.lex.state \in InString \cup InNumber /\ "STRING" \in LexedNames
  BY DEF LexedNames
<1>2. s.lex.text \in Rcs(C) /\ s.lex.text.text \in Seq(C)
  BY <1>1, TextTyped
<1>3. StringStep(s, c)
  BY Steps, StepsApart
<1>4. CASE s.lex.state = 1 /\ c = "\"" /\ ScanChar(s, c) = Taking(s, "STRING", s.lex.text.text)
  <2>1. s.lex.text.text \in Good
    BY <1>1, <1>2, <1>4, SoundTaking
  <2>2. ScanChar(s, c).lex.state = 0
    <3>1. Taking(s, "STRING", s.lex.text.text).lex.state = 0
      BY DEF Taking, NewLexer
    <3> QED  BY <1>4, <3>1, Zenon
  <2> QED  BY <1>4, <2>1, <2>2, Zenon DEF LeadsOn
<1>5. CASE /\ s.lex.state # 1 \/ c # "\""
           /\ StringGoes(s.lex.state, c, Next1(s.lex.state, c)) /\ Next1(s.lex.state, c) \in InString
           /\ ScanChar(s, c) = Going(s, Next1(s.lex.state, c), rcs_catc(s.lex.text, c))
  <2>1. \A n, t : Going(s, n, t).lex.state = n /\ Going(s, n, t).lex.text = t
    BY DEF Going
  <2>2. rcs_catc(s.lex.text, c).text = Append(s.lex.text.text, c)
    BY <1>2, CatcIs
  <2>3. ScanChar(s, c).lex.state = Next1(s.lex.state, c) /\ ScanChar(s, c).lex.text = rcs_catc(s.lex.text, c)
    BY <1>5, <2>1, Zenon
  <2> QED  BY <1>5, <2>2, <2>3, Zenon DEF LeadsOn
<1> QED  BY <1>3, <1>4, <1>5, Zenon DEF StringStep

\* How stripping and the lexer go together.
StripsAlong(s, g, c) ==
  /\ g.state = 1 <=> s.lex.state \in InString
  /\ Follows(s, ScanText(NewScan, g.out))
  /\ s.lex.state \in InString => ReadTo(s, c)

LEMMA StripStep ==
  ASSUME NEW C, NEW s \in Scans(C), NEW g \in StripStates(C), NEW text, NEW i, text[i] \in C, StripsAlong(s, g, text[i - 1]),
         Clean(ScanChar(s, text[i]), Unslashed(C))
  PROVE  StripsAlong(ScanChar(s, text[i]), StripTurn(text, g, i), text[i])
<1> DEFINE c == text[i]
           p == text[i - 1]
           next == ScanChar(s, c)
           turn == StripTurn(text, g, i)
           z == ScanText(NewScan, g.out)
           Good == Unslashed(C)
<1>1. Sound(next.tokens, Good) /\ Clean(next, Good)
  BY DEF Clean
<1>2. g.state \in {0, 1} /\ g.out \in Seq(C) /\ z \in Scans(C)
  <2>1. g.state \in {0, 1} /\ g.out \in Seq(C)
    BY DEF StripStates
  <2> QED  BY <2>1, ScanTextGrows, NewScanTyped
<1>3. (g.state = 1 <=> s.lex.state \in InString) /\ Follows(s, z) /\ (s.lex.state \in InString => ReadTo(s, p))
  BY DEF StripsAlong
<1>4. /\ c \in Space /\ g.state = 0 => turn = g
      /\ c \notin Space \/ g.state = 1 => turn.out = Append(g.out, c)
      /\ turn.state = IF c # "\"" THEN g.state ELSE IF g.state = 0 THEN 1 ELSE IF p # "\\" THEN 0 ELSE 1
  <2>1. StripsOff(text, g, i)
    BY StripTurnIs
  <2> QED  BY <2>1, Zenon DEF StripsOff
<1>5. 0 \notin InString /\ 1 \in InString /\ 0 # 1 /\ 1 # 2
  BY DEF InString
<1> HIDE DEF c, p, next, turn, z, Good
<1>6. CASE c \in Space /\ s.lex.state \notin InString
  <2>1. Follows(next, z) /\ next.lex.state \notin InString
    BY <1>1, <1>3, <1>6, Dropped DEF c, next
  <2>2. g.state = 0 /\ turn = g
    BY <1>2, <1>3, <1>4, <1>6
  <2> QED  BY <1>5, <2>1, <2>2 DEF StripsAlong, next, turn, z, c
<1>7. CASE c \notin Space \/ s.lex.state \in InString
  <2>1. ScanChar(z, c) = next
    BY <1>1, <1>2, <1>3, <1>7, Copied DEF c, next
  <2>2. turn.out = Append(g.out, c)
    BY <1>3, <1>4, <1>7
  <2>3. ScanText(NewScan, turn.out) = next
    BY <1>2, <2>1, <2>2, ScanTextGrows, NewScanTyped DEF z, c
  <2>4. Follows(next, ScanText(NewScan, turn.out))
    BY <2>3 DEF Follows
  <2>5. (turn.state = 1 <=> next.lex.state \in InString) /\ (next.lex.state \in InString => ReadTo(next, c))
    <3>1. CASE s.lex.state \notin InString
      <4>1. g.state = 0
        BY <1>2, <1>3, <3>1
      <4>2. /\ next.lex.state \in InString <=> c = "\""
            /\ c = "\"" => next.lex.state = 1 /\ next.lex.text.text = <<>>
        <5>1. LeadsIn(s, c)
          BY <1>1, <3>1, OutsideScan DEF c, next
        <5> QED  BY <5>1, Zenon DEF next, LeadsIn
      <4>3. turn.state = IF c # "\"" THEN 0 ELSE 1
        BY <1>4, <4>1
      <4>4. c = "\"" => ReadTo(next, c)
        <5> SUFFICES ASSUME c = "\""
                     PROVE  ReadTo(next, c)
          OBVIOUS
        <5>1. next.lex.state # 2 /\ next.lex.text.text = <<>>
          <6>1. next.lex.state = 1 /\ next.lex.text.text = <<>>
            BY <4>2, Zenon
          <6> QED  BY <1>5, <6>1, Zenon
        <5> QED  BY <5>1, Zenon DEF ReadTo
      <4> QED  BY <1>5, <4>2, <4>3, <4>4
    <3>2. CASE s.lex.state \in InString
      <4>1. g.state = 1 /\ ReadTo(s, p)
        BY <1>3, <3>2
      <4>2. turn.state = IF c # "\"" THEN 1 ELSE IF p # "\\" THEN 0 ELSE 1
        BY <1>4, <1>5, <4>1
      <4>3. CASE s.lex.state = 1 /\ c = "\"" /\ next.lex.state = 0 /\ s.lex.text.text \in Good
        <5>1. p # "\\"
          BY <4>1, <4>3 DEF ReadTo, Good, Unslashed
        <5> QED  BY <1>5, <4>2, <4>3, <5>1
      <4>4. CASE /\ s.lex.state # 1 \/ c # "\""
                 /\ StringGoes(s.lex.state, c, Next1(s.lex.state, c)) /\ Next1(s.lex.state, c) \in InString
                 /\ next.lex.state = Next1(s.lex.state, c)
                 /\ next.lex.text.text = Append(s.lex.text.text, c)
        <5>1. ReadTo(next, c)
          <6>1. next.lex.state = 2 => c = "\\"
            <7>1. \A m, x : StringGoes(m, x, 2) => x = "\\"
              BY DEF StringGoes
            <7> QED  BY <4>4, <7>1, Zenon
          <6>2. s.lex.text.text \in Seq(C)
            <7>1. s.lex.state \in InString \cup InNumber
              BY <3>2
            <7> QED  BY <7>1, TextTyped
          <6>3. next.lex.text.text # <<>> /\ next.lex.text.text[Len(next.lex.text.text)] = c
            <7>1. /\ Append(s.lex.text.text, c)[Len(Append(s.lex.text.text, c))] = c
                  /\ Append(s.lex.text.text, c) # <<>>
              BY <6>2, AppendProperties, LenProperties DEF c
            <7> QED  BY <4>4, <7>1
          <6> QED  BY <6>1, <6>3 DEF ReadTo
        <5>2. ASSUME c = "\""
              PROVE  p = "\\"
          <6>1. s.lex.state = 2
            <7>1. "\"" \notin Hex /\ "\"" # "\\"
              BY DEF Hex, Digit
            <7> QED  BY <4>4, <5>2, <7>1 DEF StringGoes
          <6> QED  BY <4>1, <6>1 DEF ReadTo
        <5>3. turn.state = 1
          BY <4>2, <5>2
        <5> QED  BY <4>4, <5>1, <5>3
      <4>5. LeadsOn(s, c, Good)
        BY <1>1, <3>2, InsideScan DEF c, next
      <4> QED  BY <4>3, <4>4, <4>5, Zenon DEF next, LeadsOn
    <3> QED  BY <3>1, <3>2
  <2> QED  BY <2>4, <2>5 DEF StripsAlong, next, turn, c
<1> QED  BY <1>6, <1>7

\* The scan of a document, and of what stripping leaves of it.
LEMMA StripSame ==
  ASSUME NEW C, NEW text, NEW f, Scanned(f, text, C), Clean(f[Len(text)], Unslashed(C))
  PROVE  Follows(f[Len(text)], ScanText(NewScan, json_strip_white_spaces(text)))
<1> DEFINE n == Len(text)
<1>1. n \in Nat /\ text \in Seq(C) /\ f \in [0..n -> Scans(C)] /\ f[0] = NewScan
  BY LenProperties DEF Scanned
<1>2. \A k \in 1..n : text[k] \in C /\ f[k] = ScanChar(f[k - 1], text[k])
  BY ElementOfSeq DEF Scanned
<1>3. PICK g \in [0..n -> StripStates(C)] :
         /\ g[0] = StripStart /\ \A k \in 1..n : g[k] = StripTurn(text, g[k - 1], k)
         /\ Stripped(text) = g[n]
  BY <1>1, StripRun
<1>4. \A k \in 0..n : Clean(f[k], Unslashed(C))
  BY CleanRun
<1> DEFINE P == {k \in 0..n : StripsAlong(f[k], g[k], text[k])}
<1>5. 0 \in P
  <2>1. g[0].state = 0 /\ g[0].out = <<>> /\ f[0].lex.state = 0 /\ 0 \notin InString /\ 0 \in 0..n
    BY <1>1, <1>3 DEF StripStart, NewScan, NewLexer, InString
  <2>2. ScanText(NewScan, g[0].out) = f[0]
    BY <1>1, <2>1, ScanTextGrows, NewScanTyped
  <2>3. StripsAlong(f[0], g[0], text[0])
    BY <2>1, <2>2 DEF StripsAlong, Follows
  <2> QED  BY <2>1, <2>3
<1>6. ASSUME NEW k \in 0..n - 1, k \in P
      PROVE  k + 1 \in P
  <2>1. k + 1 \in 1..n /\ k + 1 \in 0..n /\ (k + 1) - 1 = k /\ k \in 0..n
    BY <1>1
  <2>2. /\ f[k] \in Scans(C) /\ g[k] \in StripStates(C) /\ text[k + 1] \in C
        /\ f[k + 1] = ScanChar(f[k], text[k + 1]) /\ g[k + 1] = StripTurn(text, g[k], k + 1)
    BY <1>1, <1>2, <1>3, <2>1
  <2>3. StripsAlong(f[k], g[k], text[(k + 1) - 1]) /\ Clean(ScanChar(f[k], text[k + 1]), Unslashed(C))
    BY <1>4, <1>6, <2>1, <2>2
  <2>4. StripsAlong(f[k + 1], g[k + 1], text[k + 1])
    BY <2>2, <2>3, StripStep
  <2> QED  BY <2>1, <2>4
<1>7. n \in P
  <2> HIDE DEF P, n
  <2>1. \A k \in 0..n : k \in P
    BY <1>1, <1>5, <1>6, Counting
  <2> QED  BY <1>1, <2>1
<1> QED  BY <1>3, <1>7 DEF StripsAlong, json_strip_white_spaces

-----------------------------------------------------------------------------

\* What the lexer makes of an output, and an output that went on.
ReadOut(r) == ScanText(NewScan, r.text)
Wrote(r, q, z, C) == q \in Rcs(C) /\ ReadOut(q) = z /\ (Fits(r) => Fits(q))

LEMMA ReadTyped == ASSUME NEW C, NEW r \in Rcs(C) PROVE ReadOut(r) \in Scans(C)
<1>1. r.text \in Seq(C)
  BY DEF Rcs
<1> QED  BY <1>1, ScanTextGrows, NewScanTyped DEF ReadOut

LEMMA ReadsOn ==
  ASSUME NEW C, NEW t \in Seq(C), NEW c \in C
  PROVE  ScanText(NewScan, Append(t, c)) = ScanChar(ScanText(NewScan, t), c)
<1>1. NewScan \in Scans(C)
  BY NewScanTyped
<1>2. \A x \in Seq(C), y \in C : ScanText(NewScan, Append(x, y)) = ScanChar(ScanText(NewScan, x), y)
  BY <1>1, ScanTextGrows
<1> QED  BY <1>2

LEMMA WritesOne ==
  ASSUME NEW C, NEW r \in Rcs(C), NEW c \in C
  PROVE  Wrote(r, rcs_catc(r, c), ScanChar(ReadOut(r), c), C)
<1>1. r.text \in Seq(C)
  BY DEF Rcs
<1>2. /\ rcs_catc(r, c) \in Rcs(C) /\ rcs_catc(r, c).text = Append(r.text, c)
      /\ Fits(r) => Fits(rcs_catc(r, c))
  BY CatcIs
<1>3. ScanText(NewScan, Append(r.text, c)) = ScanChar(ScanText(NewScan, r.text), c)
  BY <1>1, ReadsOn
<1> QED  BY <1>2, <1>3 DEF Wrote, ReadOut

LEMMA WritesTwo ==
  ASSUME NEW C, NEW r \in Rcs(C), NEW a \in C, NEW b \in C
  PROVE  Wrote(r, rcs_catcs(r, <<a, b>>), ScanChar(ScanChar(ReadOut(r), a), b), C)
<1>1. r.text \in Seq(C) /\ <<a, b>> \in Seq(C)
  BY DEF Rcs
<1>2. /\ rcs_catcs(r, <<a, b>>) \in Rcs(C) /\ rcs_catcs(r, <<a, b>>).text = r.text \o <<a, b>>
      /\ Fits(r) => Fits(rcs_catcs(r, <<a, b>>))
  BY <1>1, CatcsIs
<1>3. r.text \o <<a, b>> = Append(Append(r.text, a), b) /\ Append(r.text, a) \in Seq(C)
  BY <1>1, TwoMore, AppendProperties
<1>4. ScanText(NewScan, Append(Append(r.text, a), b)) = ScanChar(ScanChar(ScanText(NewScan, r.text), a), b)
  BY <1>1, <1>3, ReadsOn
<1> QED  BY <1>2, <1>3, <1>4 DEF Wrote, ReadOut

AtRoot(s) == s.lex.state = 0

LEMMA RootSpace ==
  ASSUME NEW C, NEW s \in Scans(C), NEW c \in Space, AtRoot(s)
  PROVE  ScanChar(s, c) = s
<1>1. c \notin Structural /\ c # "\"" /\ c \notin {"t", "f", "n"} /\ c \notin Digit \cup {"-"}
  BY DEF Structural, Space, Digit
<1> QED  BY <1>1, RootScan DEF AtRoot

\* What formatting writes of its own.
Signs == {"\n", "\t", " ", "{", "}", ":", ",", "\"", "\\", "NUL"}

\* Tabs outside every token change nothing.
LEMMA TabsAre ==
  ASSUME NEW C, Signs \subseteq C, NEW out \in Rcs(C), NEW n \in Int, AtRoot(ReadOut(out))
  PROVE  Wrote(out, Tabs(out, n), ReadOut(out), C)
<1>1. CASE ~(n > 0)
  BY <1>1 DEF Tabs, Wrote
<1>2. CASE n > 0
  <2> DEFINE z == ReadOut(out)
             S == {q \in Rcs(C) : Wrote(out, q, z, C)}
             F == [p \in S \X (1..n) |-> rcs_catc(p[1], "\t")]
             P(f) == f = [k \in 0..n |-> IF k = 0 THEN out ELSE rcs_catc(f[k - 1], "\t")]
  <2>1. n \in Nat /\ out \in S
    BY <1>2 DEF Wrote
  <2>2. ASSUME NEW q \in S
        PROVE  rcs_catc(q, "\t") \in S
    <3>1. q \in Rcs(C) /\ ReadOut(q) = z /\ (Fits(out) => Fits(q)) /\ z \in Scans(C)
      BY ReadTyped DEF Wrote
    <3>2. Wrote(q, rcs_catc(q, "\t"), ScanChar(z, "\t"), C)
      <4>1. "\t" \in C
        BY DEF Signs
      <4> QED  BY <3>1, <4>1, WritesOne
    <3>3. ScanChar(z, "\t") = z
      <4>1. "\t" \in Space
        BY DEF Space
      <4> QED  BY <3>1, <4>1, RootSpace
    <3> HIDE DEF z
    <3> QED  BY <3>1, <3>2, <3>3 DEF Wrote
  <2>3. Turns(F, n, S)
    <3> SUFFICES ASSUME NEW p \in S \X (1..n)
                 PROVE  rcs_catc(p[1], "\t") \in S
      BY DEF Turns
    <3>1. p[1] \in S
      OBVIOUS
    <3> HIDE DEF S
    <3> QED  BY <2>2, <3>1
  <2>4. PICK f \in [0..n -> S] : f[0] = out /\ \A k \in 1..n : f[k] = F[<<f[k - 1], k>>]
    <3> HIDE DEF F, P, S
    <3>1. \E f : Run(f, F, n, S, out)
      BY <2>1, <2>3, TurnsExist
    <3> QED  BY <3>1 DEF Run
  <2> HIDE DEF S
  <2>5. \A k \in 1..n : f[k] = rcs_catc(f[k - 1], "\t")
    <3> SUFFICES ASSUME NEW k \in 1..n
                 PROVE  f[k] = rcs_catc(f[k - 1], "\t")
      OBVIOUS
    <3>1. f[k - 1] \in S
      BY <2>1, <2>4
    <3>2. <<f[k - 1], k>> \in S \X (1..n)
      BY <3>1
    <3> QED  BY <2>4, <3>2
  <2>6. P(f)
    BY <2>1, <2>4, <2>5
  <2>7. Tabs(out, n) = (CHOOSE g : P(g))[n]
    BY <1>2 DEF Tabs, For
  <2>8. PICK g : P(g) /\ Tabs(out, n) = g[n]
    <3> HIDE DEF P
    <3> QED  BY <2>6, <2>7
  <2>9. \A k \in 0..n : f[k] = g[k]
    <3>1. g[0] = out /\ \A k \in 1..n : g[k] = rcs_catc(g[k - 1], "\t")
      BY <2>1, <2>8
    <3>2. \A k \in 1..n : f[k - 1] = g[k - 1] => f[k] = g[k]
      BY <2>5, <3>1
    <3>3. f[0] = g[0]
      BY <2>4, <3>1
    <3>4. n \in Nat
      BY <2>1
    <3> HIDE DEF P, F
    <3> QED  BY <3>2, <3>3, <3>4, SameRun, Zenon
  <2>10. n \in 0..n /\ f[n] \in S
    BY <2>1, <2>4
  <2>11. Tabs(out, n) \in S
    BY <2>8, <2>9, <2>10
  <2> QED  BY <2>11 DEF S
<1> QED  BY <1>1, <1>2

-----------------------------------------------------------------------------

\* The texts in which an escaped " is followed by neither the end nor another escape.
Settled(C) == {t \in Seq(C) : \A i \in 1..Len(t) : t[i] = "\"" => i + 1 \in 1..Len(t) /\ t[i + 1] # "\\"}
Settling(t) == \A i \in 1..Len(t) : i + 1 \in 1..Len(t) /\ t[i] = "\"" => t[i + 1] # "\\"
Quiet(s) == s.lex.state \in InString => Settling(s.lex.text.text)

LEMMA QuietBefore ==
  ASSUME NEW C, NEW s \in Scans(C), NEW c \in C, Clean(ScanChar(s, c), Settled(C)), Quiet(ScanChar(s, c))
  PROVE  Quiet(s)
<1> DEFINE t == s.lex.text.text
           u == Append(t, c)
<1> SUFFICES ASSUME s.lex.state \in InString
             PROVE  Settling(t)
  BY DEF Quiet
<1>1. t \in Seq(C)
  <2>1. s.lex.state \in InString \cup InNumber
    OBVIOUS
  <2> QED  BY <2>1, TextTyped
<1>2. Len(t) \in Nat /\ Len(u) = Len(t) + 1 /\ \A i \in 1..Len(t) : u[i] = t[i]
  BY <1>1, AppendProperties, LenProperties
<1>3. LeadsOn(s, c, Settled(C))
  BY InsideScan DEF Clean
<1> HIDE DEF t, u
<1>4. CASE t \in Settled(C)
  BY <1>4 DEF Settled, Settling
<1>5. CASE ScanChar(s, c).lex.state \in InString /\ ScanChar(s, c).lex.text.text = u
  <2>1. Settling(u)
    BY <1>5 DEF Quiet
  <2>2. ASSUME NEW i \in 1..Len(t), i + 1 \in 1..Len(t)
        PROVE  i \in 1..Len(u) /\ i + 1 \in 1..Len(u) /\ u[i] = t[i] /\ u[i + 1] = t[i + 1]
    BY <1>2, <2>2
  <2> QED  BY <2>1, <2>2, Zenon DEF Settling
<1> QED  BY <1>3, <1>4, <1>5, Zenon DEF LeadsOn, t, u

LEMMA QuietRun ==
  ASSUME NEW C, NEW text, NEW f, Scanned(f, text, C), Clean(f[Len(text)], Settled(C)), Quiet(f[Len(text)])
  PROVE  \A k \in 0..Len(text) : Quiet(f[k])
<1> DEFINE n == Len(text)
           P == {k \in 0..n : Quiet(f[k])}
<1>1. n \in Nat /\ f \in [0..n -> Scans(C)] /\ \A k \in 1..n : text[k] \in C /\ f[k] = ScanChar(f[k - 1], text[k])
  BY LenProperties, ElementOfSeq DEF Scanned
<1>2. n \in P
  BY <1>1
<1>3. \A k \in 0..n : Clean(f[k], Settled(C))
  BY CleanRun
<1>4. ASSUME NEW k \in 1..n, k \in P
      PROVE  k - 1 \in P
  <2>1. k - 1 \in 0..n /\ k \in 0..n /\ f[k - 1] \in Scans(C) /\ text[k] \in C /\ f[k] = ScanChar(f[k - 1], text[k])
    BY <1>1
  <2>2. Quiet(f[k]) /\ Clean(f[k], Settled(C))
    BY <1>3, <1>4, <2>1
  <2>3. Quiet(f[k - 1])
    BY <2>1, <2>2, QuietBefore
  <2> QED  BY <2>1, <2>3
<1> HIDE DEF P, n
<1>5. \A k \in 0..n : k \in P
  BY <1>1, <1>2, <1>4, CountingDown
<1> QED  BY <1>5 DEF P, n

-----------------------------------------------------------------------------

\* A state of formatting.
FormatState(p, d, b, r) == [pos |-> p, indentation |-> d, inside |-> b, out |-> r]
FormatStates(C) == [pos : Nat, indentation : Int, inside : BOOLEAN, out : Rcs(C)]

\* The output of a turn outside the strings, and how far it is indented after it.
Indented(c, d) == IF c = "{" THEN d + 1 ELSE IF c = "}" THEN d - 1 ELSE d
Opened(c, b)   == IF c = "\"" THEN TRUE ELSE b
WrittenOut(c, d, r) ==
  IF c \in Space THEN r
  ELSE IF c = "{" THEN Tabs(rcs_catcs(r, <<"{", "\n">>), Indented(c, d))
  ELSE IF c = "}" THEN rcs_catc(Tabs(rcs_catc(r, "\n"), Indented(c, d)), "}")
  ELSE IF c = ":" THEN rcs_catcs(r, <<":", " ">>)
  ELSE IF c = "," THEN Tabs(rcs_catcs(r, <<",", "\n">>), d)
  ELSE rcs_catc(r, c)

LEMMA FormatTurnIs ==
  ASSUME NEW p, NEW d, NEW b, NEW r, NEW text
  PROVE  FormatTurn(text, FormatState(p, d, b, r)) =
           FormatState(p + 1, Indented(text[p], d), Opened(text[p], b), WrittenOut(text[p], d, r))
<1> DEFINE s == FormatState(p, d, b, r)
           c == text[p]
           next == [s EXCEPT !.pos = @ + 1]
<1>1. s.pos = p /\ s.indentation = d /\ s.inside = b /\ s.out = r
  BY DEF FormatState
<1>2. next = FormatState(p + 1, d, b, r)
  BY DEF FormatState
<1>3. next.out = r
  BY <1>2 DEF FormatState
<1> HIDE DEF s, next
<1>4. /\ \A x : [next EXCEPT !.out = x] = FormatState(p + 1, d, b, x)
      /\ \A x, y : [next EXCEPT !.indentation = y, !.out = x] = FormatState(p + 1, y, b, x)
      /\ \A x, v : [next EXCEPT !.inside = v, !.out = x] = FormatState(p + 1, d, v, x)
  <2>1. \A x, q : [FormatState(q, d, b, r) EXCEPT !.out = x] = FormatState(q, d, b, x)
    BY DEF FormatState
  <2>2. ASSUME NEW x, NEW y, NEW q
        PROVE  [FormatState(q, d, b, r) EXCEPT !.indentation = y, !.out = x] = FormatState(q, y, b, x)
    <3>1. [FormatState(q, d, b, r) EXCEPT !.indentation = y] = FormatState(q, y, b, r)
      BY DEF FormatState
    <3>2. [FormatState(q, y, b, r) EXCEPT !.out = x] = FormatState(q, y, b, x)
      BY DEF FormatState
    <3>3. [FormatState(q, d, b, r) EXCEPT !.indentation = y, !.out = x]
          = [[FormatState(q, d, b, r) EXCEPT !.indentation = y] EXCEPT !.out = x]
      OBVIOUS
    <3> QED  BY <3>1, <3>2, <3>3
  <2>3. ASSUME NEW x, NEW v, NEW q
        PROVE  [FormatState(q, d, b, r) EXCEPT !.inside = v, !.out = x] = FormatState(q, d, v, x)
    <3>1. [FormatState(q, d, b, r) EXCEPT !.inside = v] = FormatState(q, d, v, r)
      BY DEF FormatState
    <3>2. [FormatState(q, d, v, r) EXCEPT !.out = x] = FormatState(q, d, v, x)
      BY DEF FormatState
    <3>3. [FormatState(q, d, b, r) EXCEPT !.inside = v, !.out = x]
          = [[FormatState(q, d, b, r) EXCEPT !.inside = v] EXCEPT !.out = x]
      OBVIOUS
    <3> QED  BY <3>1, <3>2, <3>3
  <2>4. ASSUME NEW x
        PROVE  [next EXCEPT !.out = x] = FormatState(p + 1, d, b, x)
    BY <1>2, <2>1
  <2>5. ASSUME NEW x, NEW y
        PROVE  [next EXCEPT !.indentation = y, !.out = x] = FormatState(p + 1, y, b, x)
    BY <1>2, <2>2
  <2>6. ASSUME NEW x, NEW v
        PROVE  [next EXCEPT !.inside = v, !.out = x] = FormatState(p + 1, d, v, x)
    BY <1>2, <2>3
  <2> QED  BY <2>4, <2>5, <2>6
<1>5. CASE c \in Space
  <2>1. c # "{" /\ c # "}" /\ c # ":" /\ c # "," /\ c # "\""
    BY <1>5 DEF Space
  <2>2. FormatTurn(text, s) = next
    BY <1>1, <1>5, <2>1, Zenon DEF FormatTurn, next
  <2>3. Indented(c, d) = d /\ Opened(c, b) = b /\ WrittenOut(c, d, r) = r
    BY <1>5, <2>1, Zenon DEF Indented, Opened, WrittenOut
  <2> QED  BY <1>2, <2>2, <2>3 DEF s
<1>6. CASE c = "{"
  <2>1. c \notin Space /\ c # "}" /\ c # ":" /\ c # "," /\ c # "\""
    BY <1>6 DEF Space
  <2>2. FormatTurn(text, s) = [next EXCEPT !.indentation = d + 1, !.out = Tabs(rcs_catcs(@, <<"{", "\n">>), d + 1)]
    BY <1>1, <1>6, <2>1 DEF FormatTurn, next
  <2>3. FormatTurn(text, s) = FormatState(p + 1, d + 1, b, Tabs(rcs_catcs(r, <<"{", "\n">>), d + 1))
    BY <1>3, <1>4, <2>2
  <2>4. Indented(c, d) = d + 1 /\ Opened(c, b) = b /\ WrittenOut(c, d, r) = Tabs(rcs_catcs(r, <<"{", "\n">>), d + 1)
    BY <1>6, <2>1 DEF Indented, Opened, WrittenOut
  <2> QED  BY <2>3, <2>4 DEF s
<1>7. CASE c = "}"
  <2>1. c \notin Space /\ c # "{" /\ c # ":" /\ c # "," /\ c # "\""
    BY <1>7 DEF Space
  <2>2. FormatTurn(text, s) = [next EXCEPT !.indentation = d - 1, !.out = rcs_catc(Tabs(rcs_catc(@, "\n"), d - 1), "}")]
    BY <1>1, <1>7, <2>1 DEF FormatTurn, next
  <2>3. FormatTurn(text, s) = FormatState(p + 1, d - 1, b, rcs_catc(Tabs(rcs_catc(r, "\n"), d - 1), "}"))
    BY <1>3, <1>4, <2>2
  <2>4. Indented(c, d) = d - 1 /\ Opened(c, b) = b /\ WrittenOut(c, d, r) = rcs_catc(Tabs(rcs_catc(r, "\n"), d - 1), "}")
    BY <1>7, <2>1 DEF Indented, Opened, WrittenOut
  <2> QED  BY <2>3, <2>4 DEF s
<1>8. CASE c = ":"
  <2>1. c \notin Space /\ c # "{" /\ c # "}" /\ c # "," /\ c # "\""
    BY <1>8 DEF Space
  <2>2. FormatTurn(text, s) = [next EXCEPT !.out = rcs_catcs(@, <<":", " ">>)]
    BY <1>1, <1>8, <2>1 DEF FormatTurn, next
  <2>3. FormatTurn(text, s) = FormatState(p + 1, d, b, rcs_catcs(r, <<":", " ">>))
    BY <1>3, <1>4, <2>2
  <2>4. Indented(c, d) = d /\ Opened(c, b) = b /\ WrittenOut(c, d, r) = rcs_catcs(r, <<":", " ">>)
    BY <1>8, <2>1 DEF Indented, Opened, WrittenOut
  <2> QED  BY <2>3, <2>4 DEF s
<1>9. CASE c = ","
  <2>1. c \notin Space /\ c # "{" /\ c # "}" /\ c # ":" /\ c # "\""
    BY <1>9 DEF Space
  <2>2. FormatTurn(text, s) = [next EXCEPT !.out = Tabs(rcs_catcs(@, <<",", "\n">>), d)]
    BY <1>1, <1>9, <2>1 DEF FormatTurn, next
  <2>3. FormatTurn(text, s) = FormatState(p + 1, d, b, Tabs(rcs_catcs(r, <<",", "\n">>), d))
    BY <1>3, <1>4, <2>2
  <2>4. Indented(c, d) = d /\ Opened(c, b) = b /\ WrittenOut(c, d, r) = Tabs(rcs_catcs(r, <<",", "\n">>), d)
    BY <1>9, <2>1 DEF Indented, Opened, WrittenOut
  <2> QED  BY <2>3, <2>4 DEF s
<1>10. CASE c = "\""
  <2>1. c \notin Space /\ c # "{" /\ c # "}" /\ c # ":" /\ c # ","
    BY <1>10 DEF Space
  <2>2. FormatTurn(text, s) = [next EXCEPT !.inside = TRUE, !.out = rcs_catc(@, c)]
    BY <1>1, <1>10, <2>1 DEF FormatTurn, next
  <2>3. FormatTurn(text, s) = FormatState(p + 1, d, TRUE, rcs_catc(r, c))
    BY <1>3, <1>4, <2>2
  <2>4. Indented(c, d) = d /\ Opened(c, b) = TRUE /\ WrittenOut(c, d, r) = rcs_catc(r, c)
    BY <1>10, <2>1 DEF Indented, Opened, WrittenOut
  <2> QED  BY <2>3, <2>4 DEF s
<1>11. CASE c \notin Space /\ c \notin {"{", "}", ":", ",", "\""}
  <2>1. c \notin Space /\ c # "{" /\ c # "}" /\ c # ":" /\ c # "," /\ c # "\""
    BY <1>11 DEF Space
  <2>2. FormatTurn(text, s) = [next EXCEPT !.out = rcs_catc(@, c)]
    BY <1>1, <1>11, <2>1 DEF FormatTurn, next
  <2>3. FormatTurn(text, s) = FormatState(p + 1, d, b, rcs_catc(r, c))
    BY <1>3, <1>4, <2>2
  <2>4. Indented(c, d) = d /\ Opened(c, b) = b /\ WrittenOut(c, d, r) = rcs_catc(r, c)
    BY <1>11, <2>1 DEF Indented, Opened, WrittenOut
  <2> QED  BY <2>3, <2>4 DEF s
<1> QED  BY <1>5, <1>6, <1>7, <1>8, <1>9, <1>10, <1>11 DEF s

\* The turns in a string: its end, an escaped ", another escape, any other character.
Ends(text, p)   == At(text, p) = "\""
Quotes(text, p) == At(text, p) = "\\" /\ At(text, p + 1) = "\""
Breaks(text, p) == At(text, p) = "\\" /\ At(text, p + 1) # "\""
Plainly(text, p) == At(text, p) # "\"" /\ At(text, p) # "\\"

StringGives(text, p, d, b, r) ==
  LET turn == StringTurn(text, FormatState(p, d, b, r))
  IN /\ Ends(text, p)    => turn = FormatState(p + 1, d, FALSE, rcs_catc(r, At(text, p)))
     /\ Quotes(text, p)  => turn = FormatState(p + 3, d, TRUE, rcs_catc(rcs_catc(rcs_catc(r, At(text, p)), At(text, p + 1)), At(text, p + 2)))
     /\ Breaks(text, p)  => turn = FormatState(p + 2, d, TRUE, rcs_catc(rcs_catc(r, At(text, p)), At(text, p + 1)))
     /\ Plainly(text, p) => turn = FormatState(p + 1, d, TRUE, rcs_catc(r, At(text, p)))

LEMMA StringTurnIs ==
  ASSUME NEW p \in Nat, NEW d, NEW b, NEW r, NEW text
  PROVE  StringGives(text, p, d, b, r)
<1> DEFINE s == FormatState(p, d, b, r)
           c == At(text, p)
           turn == StringTurn(text, s)
<1>1. s.pos = p /\ s.out = r
  BY DEF FormatState
<1>2. ASSUME NEW x, NEW v, NEW y
      PROVE  [s EXCEPT !.pos = x, !.inside = v, !.out = y] = FormatState(x, d, v, y)
  <2>1. [s EXCEPT !.pos = x] = FormatState(x, d, b, r)
    BY DEF FormatState
  <2>2. [FormatState(x, d, b, r) EXCEPT !.inside = v] = FormatState(x, d, v, r)
    BY DEF FormatState
  <2>3. [FormatState(x, d, v, r) EXCEPT !.out = y] = FormatState(x, d, v, y)
    BY DEF FormatState
  <2>4. [s EXCEPT !.pos = x, !.inside = v, !.out = y] = [[[s EXCEPT !.pos = x] EXCEPT !.inside = v] EXCEPT !.out = y]
    OBVIOUS
  <2> QED  BY <2>1, <2>2, <2>3, <2>4
<1> HIDE DEF s
<1>3. ASSUME Ends(text, p)
      PROVE  turn = FormatState(p + 1, d, FALSE, rcs_catc(r, c))
  <2>1. c = "\"" /\ c # "\\"
    BY <1>3 DEF Ends
  <2>2. turn = [s EXCEPT !.pos = p + 1, !.inside = FALSE, !.out = rcs_catc(r, c)]
    BY <1>1, <2>1 DEF StringTurn
  <2> QED  BY <1>2, <2>2
<1>4. ASSUME Quotes(text, p)
      PROVE  turn = FormatState(p + 3, d, TRUE, rcs_catc(rcs_catc(rcs_catc(r, c), At(text, p + 1)), At(text, p + 2)))
  <2>1. c # "\"" /\ c = "\\" /\ At(text, p + 1) = "\""
    BY <1>4 DEF Quotes
  <2>2. turn = [s EXCEPT !.pos = p + 2 + 1, !.inside = TRUE,
                         !.out = rcs_catc(rcs_catc(rcs_catc(r, c), "\""), At(text, p + 2))]
    BY <1>1, <2>1 DEF StringTurn
  <2>3. p + 2 + 1 = p + 3
    OBVIOUS
  <2>4. turn = FormatState(p + 2 + 1, d, TRUE, rcs_catc(rcs_catc(rcs_catc(r, c), "\""), At(text, p + 2)))
    BY <1>2, <2>2, Zenon
  <2>5. rcs_catc(rcs_catc(rcs_catc(r, c), "\""), At(text, p + 2))
          = rcs_catc(rcs_catc(rcs_catc(r, c), At(text, p + 1)), At(text, p + 2))
    BY <2>1, Zenon
  <2> QED  BY <2>3, <2>4, <2>5, Zenon
<1>5. ASSUME Breaks(text, p)
      PROVE  turn = FormatState(p + 2, d, TRUE, rcs_catc(rcs_catc(r, c), At(text, p + 1)))
  <2>1. c # "\"" /\ c = "\\" /\ At(text, p + 1) # "\""
    BY <1>5 DEF Breaks
  <2>2. turn = [s EXCEPT !.pos = p + 1 + 1, !.inside = TRUE, !.out = rcs_catc(rcs_catc(r, c), At(text, p + 1))]
    BY <1>1, <2>1 DEF StringTurn
  <2>3. p + 1 + 1 = p + 2
    OBVIOUS
  <2> QED  BY <1>2, <2>2, <2>3
<1>6. ASSUME Plainly(text, p)
      PROVE  turn = FormatState(p + 1, d, TRUE, rcs_catc(r, c))
  <2>1. c # "\"" /\ c # "\\"
    BY <1>6 DEF Plainly
  <2>2. turn = [s EXCEPT !.pos = p + 1, !.inside = TRUE, !.out = rcs_catc(r, c)]
    BY <1>1, <2>1 DEF StringTurn
  <2> QED  BY <1>2, <2>2
<1> QED  BY <1>3, <1>4, <1>5, <1>6 DEF StringGives, s

\* A line break ends what a } ends.
Closes(s, o) ==
  /\ AtRoot(ScanChar(s, "\n")) /\ ScanChar(s, "\n") \in {s, NumberEnd(s)}
  /\ ScanChar(ScanChar(s, "\n"), "}") = ScanChar(o, "}")

LEMMA MayEndNumbers == MayEnd \subseteq InNumber /\ 0 \notin MayEnd /\ \A n \in MayEnd : n \notin 7..16
BY DEF MayEnd, InNumber

LEMMA BraceCloses ==
  ASSUME NEW Good, NEW C, NEW s \in Scans(C), NEW o \in Scans(C), "}" \in C, Follows(o, s), Clean(ScanChar(o, "}"), Good),
         o.lex.state \notin InString
  PROVE  Closes(s, o)
<1>0. /\ "}" \notin Space /\ "}" \in Special /\ "\n" \in Space
      /\ "\n" \notin {"]", "}", ","}
  BY DEF Space, Special, Structural
<1>1. ASSUME NEW z \in Scans(C), z.lex.state \in MayEnd
      PROVE  ScanChar(z, "\n") = NumberEnd(z) /\ NumberEnd(z) \in Scans(C) /\ AtRoot(NumberEnd(z))
  <2>1. NumberEnd(z) \in Scans(C)
    BY <1>1, EndedTyped
  <2>2. z.lex.state \in InNumber /\ AtRoot(NumberEnd(z))
    <3>1. z.lex.state \in InNumber
      BY <1>1, MayEndNumbers
    <3>2. AtRoot(NumberEnd(z))
      BY DEF AtRoot, NumberEnd, Taking, NewLexer
    <3> QED  BY <3>1, <3>2
  <2>3. ~\E n \in InNumber : NumberGoes(z.lex.state, "\n", n)
    BY DEF NumberGoes, Digit
  <2>4. EndsNumber("\n")
    BY <1>0, Zenon DEF EndsNumber
  <2>5. ScanChar(z, "\n") = NumberEnd(z)
    BY <1>0, <1>1, <2>2, <2>3, <2>4, NumberScan
  <2> QED  BY <2>1, <2>2, <2>5
<1>2. CASE s.lex.state \in MayEnd
  <2>1. ScanChar(s, "\n") = NumberEnd(s) /\ AtRoot(NumberEnd(s))
    BY <1>1, <1>2
  <2>2. ScanChar(NumberEnd(s), "}") = ScanChar(o, "}")
    <3>1. CASE o = NumberEnd(s)
      BY <3>1
    <3>2. CASE o = s
      <4>1. NumberStep(s, "}")
        <5>1. RootStep(s, "}") \/ LiteralStep(s, "}") \/ NumberStep(s, "}")
          BY <3>2, Steps, StepsApart DEF Clean
        <5>2. s.lex.state \notin 7..16 /\ s.lex.state # 0
          BY <1>2, MayEndNumbers
        <5> QED  BY <5>1, <5>2 DEF RootStep, LiteralStep
      <4> QED  BY <1>0, <4>1, <3>2 DEF NumberStep
    <3> QED  BY <3>1, <3>2 DEF Follows
  <2> QED  BY <2>1, <2>2 DEF Closes
<1>3. CASE s.lex.state \notin MayEnd
  <2>1. o = s
    BY <1>3 DEF Follows
  <2>2. RootStep(s, "}") \/ LiteralStep(s, "}") \/ NumberStep(s, "}")
    BY <2>1, Steps, StepsApart DEF Clean
  <2>3. ~LiteralStep(s, "}") /\ ~NumberStep(s, "}")
    BY <1>0, <1>3 DEF LiteralStep, NumberStep
  <2>4. AtRoot(s)
    BY <2>2, <2>3 DEF RootStep, AtRoot
  <2>5. ScanChar(s, "\n") = s
    BY <1>0, <2>4, RootSpace
  <2> QED  BY <2>1, <2>4, <2>5 DEF Closes
<1> QED  BY <1>2, <1>3

\* What is true of the output, when the lexer has read as much of the text as was formatted.
CarriedOn(o, r, q, C) == q \in Rcs(C) /\ Follows(o, ReadOut(q)) /\ (Fits(r) => Fits(q))

LEMMA OutsideWrites ==
  ASSUME NEW Good, NEW C, Signs \subseteq C, NEW o \in Scans(C), NEW r \in Rcs(C), NEW c \in C, NEW d \in Int,
         Follows(o, ReadOut(r)), Clean(ScanChar(o, c), Good), o.lex.state \notin InString
  PROVE  CarriedOn(ScanChar(o, c), r, WrittenOut(c, d, r), C)
<1> DEFINE s == ReadOut(r)
           o2 == ScanChar(o, c)
           w == WrittenOut(c, d, r)
<1>0. s \in Scans(C) /\ Sound(o2.tokens, Good)
  BY ReadTyped DEF Clean
<1>1. \A q, z : Wrote(r, q, z, C) /\ Follows(o2, z) => CarriedOn(o2, r, q, C)
  BY Zenon DEF Wrote, CarriedOn
<1>2. \A x : Follows(x, x)
  BY DEF Follows
<1>9. "\n" \in Space /\ "\n" \in C /\ " " \in Space /\ " " \in C /\ "}" \in C
  BY DEF Space, Signs
<1>19. d - 1 \in Int /\ d + 1 \in Int
  OBVIOUS
<1>20. "{" \in Structural /\ "," \in Structural /\ ":" \in Structural
  BY DEF Structural
<1> HIDE DEF s, o2, w
<1>3. ASSUME c \in Space
      PROVE  CarriedOn(o2, r, w, C)
  <2>1. Follows(o2, s) /\ w = r
    BY <1>0, <1>3, Dropped, Zenon DEF o2, s, w, WrittenOut
  <2> QED  BY <2>1, Zenon DEF CarriedOn, s
<1>4. ASSUME c \notin Space
      PROVE  ScanChar(s, c) = o2
  BY <1>0, <1>4, Copied, Zenon DEF o2, s
<1>5. ASSUME NEW b \in Space, c \in Structural, "\n" \in C, b \in C
      PROVE  Wrote(r, rcs_catcs(r, <<c, b>>), o2, C) /\ AtRoot(o2) /\ o2 \in Scans(C)
  <2>1. c \notin Space
    BY <1>5 DEF Space, Structural
  <2>2. AtRoot(o2) /\ o2 \in Scans(C)
    BY <1>0, <1>5, OutsideScan, ScanTyped DEF LeadsIn, AtRoot, o2
  <2>3. ScanChar(ScanChar(s, c), b) = o2
    <3>1. ScanChar(o2, b) = o2
      BY <2>2, RootSpace
    <3>2. ScanChar(s, c) = o2
      BY <1>4, <2>1
    <3> QED  BY <3>1, <3>2, Zenon
  <2>4. Wrote(r, rcs_catcs(r, <<c, b>>), ScanChar(ScanChar(s, c), b), C)
    BY <1>5, WritesTwo, Zenon DEF s
  <2> QED  BY <2>2, <2>3, <2>4, Zenon
<1>6. ASSUME NEW q, Wrote(r, q, o2, C), AtRoot(o2), NEW n \in Int
      PROVE  CarriedOn(o2, r, Tabs(q, n), C)
  <2>1. q \in Rcs(C) /\ ReadOut(q) = o2 /\ (Fits(r) => Fits(q))
    BY <1>6, Zenon DEF Wrote
  <2>2. Wrote(q, Tabs(q, n), o2, C)
    BY <1>6, <2>1, TabsAre, Zenon
  <2>3. Wrote(r, Tabs(q, n), o2, C)
    BY <2>1, <2>2, Zenon DEF Wrote
  <2> QED  BY <1>1, <1>2, <2>3, Zenon
<1>7. ASSUME c = "}"
      PROVE  CarriedOn(o2, r, rcs_catc(Tabs(rcs_catc(r, "\n"), d - 1), "}"), C)
  <2> DEFINE z == ScanChar(s, "\n")
             q == rcs_catc(r, "\n")
             t == Tabs(q, d - 1)
  <2>1. "\n" \in C /\ "}" \in C /\ d - 1 \in Int
    BY <1>9, <1>19
  <2>2. Closes(s, o) /\ o2 = ScanChar(o, "}")
    <3>1. o2 = ScanChar(o, "}") /\ Clean(ScanChar(o, "}"), Good)
      BY <1>7, Zenon DEF o2
    <3> QED  BY <1>0, <2>1, <3>1, BraceCloses, Zenon DEF s
  <2>3. Wrote(r, q, z, C)
    BY <2>1, WritesOne, Zenon DEF s
  <2>4. AtRoot(z) /\ ScanChar(z, "}") = o2
    BY <2>2, Zenon DEF Closes
  <2> HIDE DEF z, q
  <2>5. q \in Rcs(C) /\ ReadOut(q) = z /\ (Fits(r) => Fits(q))
    BY <2>3, Zenon DEF Wrote
  <2>6. Wrote(q, t, z, C)
    BY <2>1, <2>4, <2>5, TabsAre, Zenon
  <2> HIDE DEF t
  <2>7. t \in Rcs(C) /\ ReadOut(t) = z /\ (Fits(q) => Fits(t))
    BY <2>6, Zenon DEF Wrote
  <2>8. Wrote(t, rcs_catc(t, "}"), o2, C)
    BY <2>1, <2>4, <2>7, WritesOne, Zenon
  <2>9. Wrote(r, rcs_catc(t, "}"), o2, C)
    BY <2>5, <2>7, <2>8, Zenon DEF Wrote
  <2> QED  BY <1>1, <1>2, <2>9, Zenon DEF t, q
<1>8. ASSUME c \notin Space
      PROVE  CarriedOn(o2, r, rcs_catc(r, c), C)
  <2>1. Wrote(r, rcs_catc(r, c), o2, C)
    BY <1>4, <1>8, WritesOne, Zenon DEF s
  <2> QED  BY <1>1, <1>2, <2>1, Zenon
<1>10. ASSUME c = "{"
       PROVE  CarriedOn(o2, r, Tabs(rcs_catcs(r, <<c, "\n">>), Indented(c, d)), C)
  <2>1. c \in Structural /\ Indented(c, d) \in Int
    BY <1>10, <1>19, <1>20, Zenon DEF Indented
  <2> QED  BY <1>5, <1>6, <1>9, <2>1, Zenon
<1>11. ASSUME c = ","
       PROVE  CarriedOn(o2, r, Tabs(rcs_catcs(r, <<c, "\n">>), d), C)
  <2>1. c \in Structural
    BY <1>11 DEF Structural
  <2> QED  BY <1>5, <1>6, <1>9, <2>1, Zenon
<1>12. ASSUME c = ":"
       PROVE  CarriedOn(o2, r, rcs_catcs(r, <<c, " ">>), C)
  <2>1. c \in Structural
    BY <1>12 DEF Structural
  <2> QED  BY <1>1, <1>2, <1>5, <1>9, <2>1, Zenon
<1>13. CASE c \in Space
  BY <1>3, <1>13 DEF o2, w
<1>14. CASE c = "{"
  <2>1. w = Tabs(rcs_catcs(r, <<"{", "\n">>), Indented(c, d))
    BY <1>14 DEF w, WrittenOut, Space
  <2>2. w = Tabs(rcs_catcs(r, <<c, "\n">>), Indented(c, d))
    BY <1>14, <2>1, Zenon
  <2> QED  BY <1>10, <1>14, <2>2, Zenon DEF o2, w
<1>15. CASE c = "}"
  <2>1. w = rcs_catc(Tabs(rcs_catc(r, "\n"), Indented(c, d)), "}") /\ Indented(c, d) = d - 1
    BY <1>15 DEF w, WrittenOut, Space, Indented
  <2> QED  BY <1>7, <1>15, <2>1, Zenon DEF o2, w
<1>16. CASE c = ":"
  <2>1. w = rcs_catcs(r, <<":", " ">>)
    BY <1>16 DEF w, WrittenOut, Space
  <2>2. w = rcs_catcs(r, <<c, " ">>)
    BY <1>16, <2>1, Zenon
  <2> QED  BY <1>12, <1>16, <2>2, Zenon DEF o2, w
<1>17. CASE c = ","
  <2>1. w = Tabs(rcs_catcs(r, <<",", "\n">>), d)
    BY <1>17 DEF w, WrittenOut, Space
  <2>2. w = Tabs(rcs_catcs(r, <<c, "\n">>), d)
    BY <1>17, <2>1, Zenon
  <2> QED  BY <1>11, <1>17, <2>2, Zenon DEF o2, w
<1>18. CASE c \notin Space /\ c # "{" /\ c # "}" /\ c # ":" /\ c # ","
  <2>1. w = rcs_catc(r, c)
    BY <1>18 DEF w, WrittenOut
  <2> QED  BY <1>8, <1>18, <2>1, Zenon DEF o2, w
<1> QED  BY <1>13, <1>14, <1>15, <1>16, <1>17, <1>18

\* In a string, and behind a backslash in it.
InStr(s)      == s.lex.state \in InString
AfterSlash(s) == s.lex.state = 2

LeadsBy(s, c) ==
  /\ ~AfterSlash(s) /\ c = "\"" => ~InStr(ScanChar(s, c)) /\ ~AfterSlash(ScanChar(s, c))
  /\ ~AfterSlash(s) /\ c = "\\" => InStr(ScanChar(s, c)) /\ AfterSlash(ScanChar(s, c))
  /\ ~AfterSlash(s) /\ c # "\"" /\ c # "\\" => InStr(ScanChar(s, c)) /\ ~AfterSlash(ScanChar(s, c))
  /\ AfterSlash(s) => InStr(ScanChar(s, c)) /\ ~AfterSlash(ScanChar(s, c))

\* The last character of a text, and the last two.
LastIs(u, a) == Len(u) \in 1..Len(u) /\ ~(Len(u) + 1 \in 1..Len(u)) /\ u[Len(u)] = a
LastTwo(u, v, a, b) == /\ Len(u) \in 1..Len(v) /\ Len(u) + 1 \in 1..Len(v)
                       /\ v[Len(u)] = a /\ v[Len(u) + 1] = b

LEMMA TextEnds ==
  ASSUME NEW C, NEW t \in Seq(C), NEW a \in C, NEW b \in C
  PROVE  LastIs(Append(t, a), a) /\ LastTwo(Append(t, a), Append(Append(t, a), b), a, b)
<1>1. Len(t) \in Nat /\ Append(t, a) \in Seq(C) /\ Len(Append(t, a)) = Len(t) + 1 /\ Append(t, a)[Len(t) + 1] = a
  BY AppendProperties, LenProperties
<1> DEFINE u == Append(t, a)
<1> HIDE DEF u
<1>2. /\ Len(u) \in Nat /\ Append(u, b) \in Seq(C) /\ Len(Append(u, b)) = Len(u) + 1
      /\ Append(u, b)[Len(u) + 1] = b /\ \A i \in 1..Len(u) : Append(u, b)[i] = u[i]
  BY <1>1, AppendProperties, LenProperties DEF u
<1>3. Len(u) \in 1..Len(u) /\ ~(Len(u) + 1 \in 1..Len(u)) /\ u[Len(u)] = a
  BY <1>1, <1>2 DEF u
<1>4. Len(u) \in 1..Len(Append(u, b)) /\ Len(u) + 1 \in 1..Len(Append(u, b))
  BY <1>2, <1>3
<1> QED  BY <1>2, <1>3, <1>4 DEF LastIs, LastTwo, u

LEMMA OneTwo == 2 # 1
OBVIOUS

LEMMA GoesToSlash ==
  ASSUME NEW n \in 1..6, NEW c, NEW m, StringGoes(n, c, m), m = 2
  PROVE  n = 1 /\ c = "\\"
<1>1. \A k \in 3..5 : k + 1 # 2
  OBVIOUS
<1>2. 1 # 2 /\ 3 # 2
  OBVIOUS
<1> QED  BY <1>1, <1>2, Zenon DEF StringGoes

LEMMA StringLeads ==
  ASSUME NEW Good, NEW s, NEW c, LeadsOn(s, c, Good), InStr(s)
  PROVE  LeadsBy(s, c)
<1> DEFINE n == s.lex.state
           m == ScanChar(s, c).lex.state
<1>1. n \in 1..6
  BY DEF InStr, InString
<1>2. \/ n = 1 /\ c = "\"" /\ m = 0
      \/ (n # 1 \/ c # "\"") /\ StringGoes(n, c, m) /\ m \in 1..6
  BY Zenon DEF LeadsOn, InString
<1> HIDE DEF n, m
<1>3. ASSUME n # 2, c = "\""
      PROVE  m = 0
  <2>1. "\"" \notin Hex /\ "\"" # "\\"
    BY DEF Hex, Digit
  <2>2. ~StringGoes(n, c, m) \/ n = 1
    BY <1>3, <2>1 DEF StringGoes
  <2> QED  BY <1>2, <1>3, <2>2
<1>4. ASSUME n # 2, c = "\\"
      PROVE  m = 2
  <2>1. "\\" \notin Hex /\ "\"" # "\\"
    BY DEF Hex, Digit
  <2>2. StringGoes(n, c, m)
    BY <1>2, <1>4, <2>1
  <2> QED  BY <1>4, <2>1, <2>2 DEF StringGoes
<1>5. ASSUME n # 2, c # "\"", c # "\\"
      PROVE  m \in 1..6 /\ m # 2
  <2>1. StringGoes(n, c, m) /\ m \in 1..6
    BY <1>2, <1>5
  <2> QED  BY <1>1, <1>5, <2>1, GoesToSlash, Zenon
<1>9. 1 # 2
  OBVIOUS
<1>6. ASSUME n = 2
      PROVE  m \in 1..6 /\ m # 2
  <2>1. StringGoes(n, c, m) /\ m \in 1..6
    BY <1>2, <1>6
  <2> QED  BY <1>1, <1>6, <1>9, <2>1, GoesToSlash, Zenon
<1>7. 0 \notin 1..6 /\ 0 # 2 /\ 2 \in 1..6
  OBVIOUS
<1>8. /\ AfterSlash(s) <=> n = 2
      /\ AfterSlash(ScanChar(s, c)) <=> m = 2
      /\ InStr(ScanChar(s, c)) <=> m \in 1..6
  BY Zenon DEF AfterSlash, InStr, InString, n, m
<1> QED  BY <1>3, <1>4, <1>5, <1>6, <1>7, <1>8, Zenon DEF LeadsBy

\* Behind an escaped " the string goes on, and no escape begins.
LEMMA QuoteLeads ==
  ASSUME NEW C, NEW s \in Scans(C), NEW e \in C, "\"" \in C, AfterSlash(s), InStr(s),
         LeadsOn(s, "\"", Settled(C)), LeadsOn(ScanChar(s, "\""), e, Settled(C)), Quiet(ScanChar(ScanChar(s, "\""), e))
  PROVE  InStr(ScanChar(ScanChar(s, "\""), e)) /\ ~AfterSlash(ScanChar(ScanChar(s, "\""), e))
<1> DEFINE z == ScanChar(s, "\"")
           y == ScanChar(z, e)
           t == s.lex.text.text
           u == Append(t, "\"")
           v == Append(u, e)
<1>1. t \in Seq(C)
  BY TextTyped, Zenon DEF InStr
<1>2. LastIs(u, "\"") /\ LastTwo(u, v, "\"", e)
  BY <1>1, TextEnds, Zenon
<1>4. InStr(z) /\ ~AfterSlash(z) /\ z.lex.text.text = u
  <2>1. 2 # 1
    BY OneTwo, Zenon
  <2>2. z.lex.text.text = u
    BY <2>1, Zenon DEF LeadsOn, AfterSlash
  <2> QED  BY <2>2, StringLeads, Zenon DEF LeadsBy
<1> HIDE DEF z, t, u, v
<1>5. LeadsBy(z, e) /\ LeadsOn(z, e, Settled(C)) /\ Quiet(y)
  BY <1>4, StringLeads, Zenon DEF z
<1> HIDE DEF y
<1>6. e # "\""
  <2> SUFFICES ASSUME e = "\""
               PROVE  FALSE
    OBVIOUS
  <2>1. ~InStr(y)
    BY <1>4, <1>5, Zenon DEF LeadsBy, y
  <2>2. u \in Settled(C)
    BY <1>4, <1>5, <2>1, Zenon DEF LeadsOn, InStr, y
  <2> QED  BY <1>2, <2>2, Zenon DEF Settled, LastIs
<1>7. e # "\\"
  <2> SUFFICES ASSUME e = "\\"
               PROVE  FALSE
    OBVIOUS
  <2>1. y.lex.text.text = v /\ Settling(v)
    <3>1. y.lex.text.text = v
      BY <1>4, <1>5, <1>6, Zenon DEF LeadsOn, y, v
    <3>2. InStr(y)
      BY <1>4, <1>5, Zenon DEF LeadsBy, y
    <3> QED  BY <1>5, <3>1, <3>2, Zenon DEF Quiet, InStr
  <2>2. v[Len(u)] = "\"" /\ v[Len(u) + 1] = "\\"
    BY <1>2, Zenon DEF LastTwo
  <2> QED  BY <1>2, <2>1, <2>2, Zenon DEF Settling, LastTwo
<1> QED  BY <1>4, <1>5, <1>6, <1>7, Zenon DEF LeadsBy, y, z

\* What a state of formatting has to do with the lexer over what was formatted.
Standing(o, s, C) ==
  /\ s.out \in Rcs(C) /\ Fits(s.out) /\ Follows(o, ReadOut(s.out))
  /\ s.inside <=> InStr(o)
  /\ ~AfterSlash(o)

LEMMA StateIs ==
  ASSUME NEW C, NEW s \in FormatStates(C)
  PROVE  /\ s = FormatState(s.pos, s.indentation, s.inside, s.out)
         /\ s.pos \in Nat /\ s.indentation \in Int /\ s.inside \in BOOLEAN /\ s.out \in Rcs(C)
BY DEF FormatStates, FormatState

LEMMA StateOf ==
  ASSUME NEW C, NEW p \in Nat, NEW d \in Int, NEW b \in BOOLEAN, NEW r \in Rcs(C)
  PROVE  FormatState(p, d, b, r) \in FormatStates(C)
BY DEF FormatStates, FormatState

LEMMA StandingIs ==
  ASSUME NEW C, NEW o, NEW p, NEW d, NEW b \in BOOLEAN, NEW r \in Rcs(C),
         Fits(r), Follows(o, ReadOut(r)), b <=> InStr(o), ~AfterSlash(o)
  PROVE  Standing(o, FormatState(p, d, b, r), C)
<1>1. FormatState(p, d, b, r).out = r /\ FormatState(p, d, b, r).inside = b
  BY DEF FormatState
<1> QED  BY <1>1, Zenon DEF Standing

\* A turn outside the strings, and one in a string.
MovedOn(o, s, t, C) == t \in FormatStates(C) /\ t.pos = s.pos + 1 /\ Standing(o, t, C)

LEMMA NotSlash ==
  ASSUME NEW s
  PROVE  /\ s.lex.state \notin InString => ~AfterSlash(s) /\ ~InStr(s)
         /\ s.lex.state = 1 => ~AfterSlash(s)
BY DEF AfterSlash, InStr, InString

LEMMA OutsideTurn ==
  ASSUME NEW Good, NEW C, Signs \subseteq C, NEW o \in Scans(C), NEW s \in FormatStates(C), NEW text, text[s.pos] \in C,
         ~s.inside, Standing(o, s, C), Clean(ScanChar(o, text[s.pos]), Good)
  PROVE  MovedOn(ScanChar(o, text[s.pos]), s, FormatTurn(text, s), C)
<1> DEFINE p == s.pos
           d == s.indentation
           b == s.inside
           r == s.out
           c == text[s.pos]
           q == WrittenOut(c, d, r)
           o2 == ScanChar(o, c)
<1>1. s = FormatState(p, d, b, r) /\ p \in Nat /\ d \in Int /\ b \in BOOLEAN /\ r \in Rcs(C)
  BY StateIs, Zenon
<1>2. Fits(r) /\ Follows(o, ReadOut(r)) /\ ~InStr(o) /\ o.lex.state \notin InString
  BY Zenon DEF Standing, InStr
<1>3. CarriedOn(o2, r, q, C)
  BY <1>1, <1>2, OutsideWrites, Zenon
<1>4. FormatTurn(text, s) = FormatState(p + 1, Indented(c, d), Opened(c, b), q)
  <2>1. \A x, y, z, w : FormatTurn(text, FormatState(x, y, z, w)) =
                          FormatState(x + 1, Indented(text[x], y), Opened(text[x], z), WrittenOut(text[x], y, w))
    BY FormatTurnIs
  <2> HIDE DEF p, d, b, r
  <2>2. FormatTurn(text, FormatState(p, d, b, r)) = FormatState(p + 1, Indented(c, d), Opened(c, b), q)
    BY <2>1, Zenon DEF p
  <2> QED  BY <1>1, <2>2, Zenon
<1>5. LeadsIn(o, c)
  BY <1>2, OutsideScan, Zenon DEF Clean
<1>6. ~AfterSlash(o2) /\ (Opened(c, b) <=> InStr(o2)) /\ Opened(c, b) \in BOOLEAN
  <2>1. (InStr(o2) <=> c = "\"") /\ ~AfterSlash(o2)
    BY <1>5, NotSlash, Zenon DEF LeadsIn, InStr
  <2>2. c = "\"" => Opened(c, b) = TRUE
    BY Zenon DEF Opened
  <2>3. c # "\"" => Opened(c, b) = b
    BY Zenon DEF Opened
  <2>4. b \in BOOLEAN /\ ~b
    BY <1>1
  <2> HIDE DEF b, c, o2
  <2> QED  BY <2>1, <2>2, <2>3, <2>4, Zenon
<1>7. p + 1 \in Nat /\ Indented(c, d) \in Int
  <2>1. d + 1 \in Int /\ d - 1 \in Int /\ p + 1 \in Nat
    BY <1>1
  <2> QED  BY <1>1, <2>1, Zenon DEF Indented
<1>8. q \in Rcs(C) /\ Fits(q) /\ Follows(o2, ReadOut(q))
  BY <1>2, <1>3, Zenon DEF CarriedOn
<1>9. \A x, y, z, w : FormatState(x, y, z, w).pos = x
  BY DEF FormatState
<1> HIDE DEF q, o2, c, p, d, b, r
<1>10. FormatState(p + 1, Indented(c, d), Opened(c, b), q) \in FormatStates(C)
  BY <1>6, <1>7, <1>8, StateOf, Zenon
<1>11. Standing(o2, FormatState(p + 1, Indented(c, d), Opened(c, b), q), C)
  BY <1>6, <1>8, StandingIs, Zenon
<1>12. MovedOn(o2, s, FormatState(p + 1, Indented(c, d), Opened(c, b), q), C)
  BY <1>9, <1>10, <1>11, Zenon DEF MovedOn, p
<1>13. MovedOn(o2, s, FormatTurn(text, s), C)
  BY <1>4, <1>12, Zenon
<1> QED  BY <1>13, Zenon DEF o2, c

\* A document that ends outside every token, with sound tokens and quiet strings.
Settles(f, text, C) ==
  /\ Scanned(f, text, C) /\ AtRoot(f[Len(text)])
  /\ \A k \in 0..Len(text) : Clean(f[k], Settled(C)) /\ Quiet(f[k])

\* What comes next in a string.
GoesOn(f, text, C, k) ==
  /\ text[k] \in C /\ At(text, k) = text[k] /\ f[k - 1] \in Scans(C) /\ f[k] = ScanChar(f[k - 1], text[k])
  /\ LeadsOn(f[k - 1], text[k], Settled(C)) /\ LeadsBy(f[k - 1], text[k]) /\ Quiet(f[k])

LEMMA RootIsOutside == ASSUME NEW s, AtRoot(s) PROVE ~InStr(s)
BY DEF AtRoot, InStr, InString

LEMMA StringGoesOn ==
  ASSUME NEW C, NEW text, NEW f, Settles(f, text, C), NEW k \in 1..Len(text) + 1, InStr(f[k - 1])
  PROVE  k \in 1..Len(text) /\ GoesOn(f, text, C, k)
<1> DEFINE n == Len(text)
           o == f[k - 1]
           c == text[k]
<1>1. /\ text \in Seq(C) /\ f \in [0..n -> Scans(C)] /\ n \in Nat
      /\ \A j \in 1..n : f[j] = ScanChar(f[j - 1], text[j])
  BY LenProperties DEF Settles, Scanned
<1>2. k \in 1..n
  <2>1. k - 1 # n
    <3> SUFFICES ASSUME k - 1 = n PROVE FALSE
      OBVIOUS
    <3>1. AtRoot(f[k - 1])
      BY Zenon DEF Settles
    <3> QED  BY <3>1, RootIsOutside, Zenon
  <2> QED  BY <1>1, <2>1
<1>3. k - 1 \in 0..n /\ k \in 0..n /\ o \in Scans(C) /\ c \in C /\ f[k] = ScanChar(o, c)
  BY <1>1, <1>2, ElementOfSeq
<1>4. At(text, k) = c
  <2>1. k \in DOMAIN text
    BY <1>1, <1>2, LenProperties
  <2> QED  BY <2>1, Zenon DEF At
<1>5. Clean(f[k], Settled(C)) /\ Quiet(f[k])
  BY <1>3, Zenon DEF Settles
<1> HIDE DEF o, c
<1>6. LeadsOn(o, c, Settled(C))
  BY <1>3, <1>5, InsideScan, Zenon DEF Clean, InStr, o
<1>7. LeadsBy(o, c)
  BY <1>6, StringLeads, Zenon DEF o
<1> QED  BY <1>2, <1>3, <1>4, <1>5, <1>6, <1>7, Zenon DEF GoesOn, o, c

\* In a string the output has been read as far as the text.
ReadAs(o, r, C) == r \in Rcs(C) /\ Fits(r) /\ ReadOut(r) = o

LEMMA ReadInString ==
  ASSUME NEW C, NEW o, NEW s, Standing(o, s, C), InStr(o)
  PROVE  ReadAs(o, s.out, C)
<1>1. \A z : ~InStr(NumberEnd(z))
  BY DEF NumberEnd, Taking, NewLexer, InStr, InString
<1> QED  BY <1>1, Zenon DEF Standing, Follows, ReadAs

LEMMA WritesChar ==
  ASSUME NEW C, NEW o, NEW r, ReadAs(o, r, C), NEW c \in C
  PROVE  ReadAs(ScanChar(o, c), rcs_catc(r, c), C)
BY WritesOne, Zenon DEF ReadAs, Wrote

LEMMA ReadStands ==
  ASSUME NEW C, NEW o, NEW r, ReadAs(o, r, C), ~AfterSlash(o), NEW b \in BOOLEAN, b <=> InStr(o),
         NEW p \in Nat, NEW d \in Int
  PROVE  /\ FormatState(p, d, b, r) \in FormatStates(C) /\ FormatState(p, d, b, r).pos = p
         /\ Standing(o, FormatState(p, d, b, r), C)
<1>1. r \in Rcs(C) /\ Fits(r) /\ Follows(o, ReadOut(r))
  BY DEF ReadAs, Follows
<1>2. FormatState(p, d, b, r).pos = p
  BY DEF FormatState
<1> QED  BY <1>1, <1>2, StateOf, StandingIs, Zenon

\* Once or more characters on.
GoneOn(f, text, s, t, C) == \E m \in s.pos..Len(text) : t \in FormatStates(C) /\ t.pos = m + 1 /\ Standing(f[m], t, C)

LEMMA InsideTurn ==
  ASSUME NEW C, NEW text, NEW f, Settles(f, text, C), NEW s \in FormatStates(C), s.pos \in 1..Len(text) + 1, s.inside,
         Standing(f[s.pos - 1], s, C), Signs \subseteq C
  PROVE  GoneOn(f, text, s, StringTurn(text, s), C)
<1> DEFINE n == Len(text)
           p == s.pos
           d == s.indentation
           r == s.out
           turn == StringTurn(text, s)
           Once  == rcs_catc(r, At(text, p))
           Twice  == rcs_catc(Once, At(text, p + 1))
           Thrice == rcs_catc(Twice, At(text, p + 2))
<1>1. s = FormatState(p, d, s.inside, r) /\ p \in Nat /\ d \in Int /\ r \in Rcs(C) /\ n \in Nat
  <2>1. n \in Nat
    BY LenProperties DEF Settles, Scanned
  <2> QED  BY <2>1, StateIs, Zenon
<1>2. InStr(f[p - 1]) /\ ~AfterSlash(f[p - 1]) /\ ReadAs(f[p - 1], r, C)
  BY ReadInString, Zenon DEF Standing
<1>3. p \in 1..n /\ GoesOn(f, text, C, p)
  BY <1>2, StringGoesOn, Zenon
<1>4. StringGives(text, p, d, s.inside, r) /\ turn = StringTurn(text, FormatState(p, d, s.inside, r))
  BY <1>1, StringTurnIs, Zenon
<1>5. p..n \subseteq Nat /\ p \in p..n /\ p + 1 \in 1..n + 1 /\ (p + 1) - 1 = p /\ p + 1 \in Nat
  BY <1>1, <1>3
<1>6. ReadAs(f[p], Once, C)
  BY <1>2, <1>3, WritesChar, Zenon DEF GoesOn
<1> HIDE DEF n, p, d, r, turn, Once, Twice, Thrice
<1>7. ASSUME NEW m \in p..n, NEW b \in BOOLEAN, NEW q, turn = FormatState(m + 1, d, b, q), ReadAs(f[m], q, C),
             b <=> InStr(f[m]), ~AfterSlash(f[m])
      PROVE  GoneOn(f, text, s, turn, C)
  <2>1. m + 1 \in Nat
    BY <1>5
  <2> DEFINE w == FormatState(m + 1, d, b, q)
  <2>2. w \in FormatStates(C) /\ w.pos = m + 1 /\ Standing(f[m], w, C)
    BY <1>1, <1>7, <2>1, ReadStands
  <2> HIDE DEF w
  <2>3. GoneOn(f, text, s, w, C)
    BY <2>2, Zenon DEF GoneOn, n, p
  <2>4. turn = w
    BY <1>7, Zenon DEF w
  <2> QED  BY <2>3, <2>4, Zenon
<1>14. ASSUME NEW m \in p..n, NEW q, turn = FormatState(m + 1, d, TRUE, q), ReadAs(f[m], q, C),
             InStr(f[m]), ~AfterSlash(f[m])
       PROVE  GoneOn(f, text, s, turn, C)
  <2>1. TRUE \in BOOLEAN /\ (TRUE <=> InStr(f[m]))
    BY <1>14, Zenon
  <2> QED  BY <1>7, <1>14, <2>1, Zenon
<1>15. ASSUME NEW m \in p..n, NEW q, turn = FormatState(m + 1, d, FALSE, q), ReadAs(f[m], q, C),
             ~InStr(f[m]), ~AfterSlash(f[m])
       PROVE  GoneOn(f, text, s, turn, C)
  <2>1. FALSE \in BOOLEAN /\ (FALSE <=> InStr(f[m]))
    BY <1>15, Zenon
  <2> QED  BY <1>7, <1>15, <2>1, Zenon
<1>8. CASE Ends(text, p)
  <2>1. turn = FormatState(p + 1, d, FALSE, Once)
    BY <1>4, <1>8, Zenon DEF StringGives, Once
  <2>2. ~InStr(f[p]) /\ ~AfterSlash(f[p])
    BY <1>2, <1>3, <1>8, Zenon DEF GoesOn, LeadsBy, Ends
  <2> QED  BY <1>5, <1>6, <1>15, <2>1, <2>2, Zenon DEF turn
<1>9. CASE Plainly(text, p)
  <2>1. turn = FormatState(p + 1, d, TRUE, Once)
    BY <1>4, <1>9, Zenon DEF StringGives, Once
  <2>2. InStr(f[p]) /\ ~AfterSlash(f[p])
    BY <1>2, <1>3, <1>9, Zenon DEF GoesOn, LeadsBy, Plainly
  <2> QED  BY <1>5, <1>6, <1>14, <2>1, <2>2, Zenon DEF turn
<1>10. ASSUME Quotes(text, p) \/ Breaks(text, p)
       PROVE  /\ InStr(f[p]) /\ AfterSlash(f[p]) /\ p + 1 \in p..n /\ GoesOn(f, text, C, p + 1)
              /\ ReadAs(f[p + 1], Twice, C) /\ InStr(f[p + 1]) /\ ~AfterSlash(f[p + 1])
  <2>1. InStr(f[p]) /\ AfterSlash(f[p])
    BY <1>2, <1>3, <1>10, Zenon DEF GoesOn, LeadsBy, Quotes, Breaks
  <2>2. InStr(f[(p + 1) - 1])
    BY <1>5, <2>1, Zenon
  <2>3. p + 1 \in 1..n /\ GoesOn(f, text, C, p + 1)
    BY <1>5, <2>2, StringGoesOn, Zenon DEF n
  <2>4. p + 1 \in p..n
    BY <1>1, <1>3, <2>3
  <2>5. ReadAs(f[p + 1], Twice, C) /\ InStr(f[p + 1]) /\ ~AfterSlash(f[p + 1])
    BY <1>5, <1>6, <2>1, <2>3, WritesChar, Zenon DEF GoesOn, LeadsBy, Twice
  <2> QED  BY <2>1, <2>3, <2>4, <2>5
<1>11. CASE Breaks(text, p)
  <2>1. turn = FormatState(p + 2, d, TRUE, Twice)
    BY <1>4, <1>11, Zenon DEF StringGives, Twice, Once
  <2>2. p + 2 = (p + 1) + 1
    BY <1>1
  <2>3. turn = FormatState((p + 1) + 1, d, TRUE, Twice)
    BY <2>1, <2>2, Zenon
  <2> QED  BY <1>14, <1>10, <1>11, <2>3, Zenon DEF turn
<1>12. CASE Quotes(text, p)
  <2>1. turn = FormatState(p + 3, d, TRUE, Thrice)
    BY <1>4, <1>12, Zenon DEF StringGives, Thrice, Twice, Once
  <2>2. p + 3 = (p + 2) + 1 /\ p + 2 \in 1..n + 1 /\ (p + 2) - 1 = p + 1
    <3>1. p + 1 \in p..n
      BY <1>10, <1>12
    <3> QED  BY <1>1, <1>3, <3>1
  <2>3. InStr(f[(p + 2) - 1])
    BY <1>10, <1>12, <2>2, Zenon
  <2>4. p + 2 \in 1..n /\ GoesOn(f, text, C, p + 2)
    BY <2>2, <2>3, StringGoesOn, Zenon DEF n
  <2>5. p + 2 \in p..n
    BY <1>1, <1>3, <2>4
  <2>6. ReadAs(f[p + 2], Thrice, C)
    BY <1>10, <1>12, <2>2, <2>4, WritesChar, Zenon DEF GoesOn, Thrice
  <2>7. f[p + 1] = ScanChar(f[p], "\"") /\ f[p + 2] = ScanChar(ScanChar(f[p], "\""), text[p + 2]) /\ f[p] \in Scans(C)
    BY <1>5, <1>10, <1>12, <2>2, <2>4, Zenon DEF GoesOn, Quotes
  <2>8. /\ LeadsOn(f[p], "\"", Settled(C)) /\ LeadsOn(ScanChar(f[p], "\""), text[p + 2], Settled(C)) /\ text[p + 2] \in C
        /\ Quiet(ScanChar(ScanChar(f[p], "\""), text[p + 2]))
    <3>1. LeadsOn(f[p], "\"", Settled(C))
      BY <1>5, <1>10, <1>12, Zenon DEF GoesOn, Quotes
    <3> QED  BY <2>2, <2>4, <2>7, <3>1, Zenon DEF GoesOn
  <2>10. "\"" \in C
    BY Zenon DEF Signs
  <2>9. InStr(f[p + 2]) /\ ~AfterSlash(f[p + 2])
    BY <2>10, <1>10, <1>12, <2>7, <2>8, QuoteLeads, Zenon
  <2>11. turn = FormatState((p + 2) + 1, d, TRUE, Thrice)
    BY <2>1, <2>2, Zenon
  <2> QED  BY <1>14, <2>5, <2>6, <2>9, <2>11, Zenon DEF turn
<1>13. Ends(text, p) \/ Plainly(text, p) \/ Breaks(text, p) \/ Quotes(text, p)
  BY Zenon DEF Ends, Plainly, Breaks, Quotes
<1> QED  BY <1>8, <1>9, <1>11, <1>12, <1>13, Zenon DEF turn, p

FormatStep(text, s) == IF s.pos > Len(text) THEN s ELSE IF s.inside THEN StringTurn(text, s) ELSE FormatTurn(text, s)
FormatStart(n) == FormatState(1, 0, FALSE, rcs_create(n))

\* The states in which the lexer over what was formatted has nothing against it.
Laid(f, text, C) == {s \in FormatStates(C) : s.pos \in 1..Len(text) + 1 /\ Standing(f[s.pos - 1], s, C)}

LEMMA FormatBegins ==
  ASSUME NEW C, NEW text, NEW f, Settles(f, text, C)
  PROVE  FormatStart(Len(text)) \in Laid(f, text, C)
<1> DEFINE n == Len(text)
           r == rcs_create(n)
<1>1. n \in Nat /\ f[0] = NewScan /\ 0 \in Int /\ 1 \in Nat /\ 1 \in 1..n + 1 /\ 1 - 1 = 0
  <2>1. n \in Nat /\ f[0] = NewScan
    BY LenProperties DEF Settles, Scanned
  <2> QED  BY <2>1
<1>2. r \in Rcs(C) /\ r.text = <<>> /\ Fits(r)
  BY <1>1, CreateIs
<1>3. ScanText(NewScan, <<>>) = NewScan
  BY NewScanTyped, ScanTextGrows
<1> HIDE DEF n, r
<1>4. Follows(f[0], ReadOut(r))
  <2>1. ReadOut(r) = NewScan
    BY <1>2, <1>3, Zenon DEF ReadOut
  <2> QED  BY <1>1, <2>1, Zenon DEF Follows
<1>5. ~InStr(f[0]) /\ ~AfterSlash(f[0])
  <2>1. NewScan.lex.state = 0 /\ 0 # 2 /\ 0 \notin InString
    BY DEF NewScan, NewLexer, InString
  <2> QED  BY <1>1, <2>1, Zenon DEF InStr, AfterSlash
<1>6. FALSE \in BOOLEAN /\ (FALSE <=> InStr(f[0]))
  BY <1>5, Zenon
<1> DEFINE s == FormatState(1, 0, FALSE, r)
<1>7. s \in FormatStates(C) /\ Standing(f[0], s, C) /\ s.pos = 1
  <2>1. s \in FormatStates(C)
    BY <1>1, <1>2, <1>6, StateOf, Zenon
  <2>2. Standing(f[0], s, C)
    BY <1>2, <1>4, <1>5, <1>6, StandingIs, Zenon
  <2>3. s.pos = 1
    BY DEF FormatState
  <2> QED  BY <2>1, <2>2, <2>3
<1>8. FormatStart(Len(text)) = s
  BY Zenon DEF FormatStart, n, r
<1> HIDE DEF s
<1>9. s.pos - 1 = 0 /\ s.pos \in 1..Len(text) + 1
  BY <1>1, <1>7 DEF n
<1> QED  BY <1>7, <1>8, <1>9, Zenon DEF Laid

LEMMA FormatStepGoes ==
  ASSUME NEW C, NEW text, NEW f, Settles(f, text, C), Signs \subseteq C, NEW s \in Laid(f, text, C)
  PROVE  /\ FormatStep(text, s) \in Laid(f, text, C)
         /\ s.pos > Len(text) \/ FormatStep(text, s).pos > s.pos
<1> DEFINE n == Len(text)
           p == s.pos
           t == FormatStep(text, s)
<1>1. s \in FormatStates(C) /\ p \in 1..n + 1 /\ Standing(f[p - 1], s, C)
  BY Zenon DEF Laid
<1>2. /\ text \in Seq(C) /\ f \in [0..n -> Scans(C)] /\ n \in Nat
      /\ \A j \in 1..n : f[j] = ScanChar(f[j - 1], text[j])
  BY LenProperties DEF Settles, Scanned
<1>3. CASE p > n
  <2>1. t = s
    BY <1>3, Zenon DEF FormatStep
  <2> QED  BY <1>3, <2>1
<1>4. CASE ~(p > n) /\ s.inside
  <2>1. t = StringTurn(text, s)
    BY <1>4, Zenon DEF FormatStep
  <2>2. GoneOn(f, text, s, t, C)
    <3>1. GoneOn(f, text, s, StringTurn(text, s), C)
      BY <1>1, <1>4, InsideTurn, Zenon
    <3> QED  BY <2>1, <3>1, Zenon
  <2> HIDE DEF t
  <2>3. PICK m \in p..n : t \in FormatStates(C) /\ t.pos = m + 1 /\ Standing(f[m], t, C)
    BY <2>2, Zenon DEF GoneOn
  <2>4. t.pos - 1 = m /\ t.pos \in 1..n + 1 /\ t.pos > p
    BY <1>1, <1>2, <2>3
  <2>5. t \in Laid(f, text, C)
    BY <2>3, <2>4, Zenon DEF Laid
  <2> QED  BY <2>4, <2>5, Zenon DEF t
<1>5. CASE ~(p > n) /\ ~s.inside
  <2>1. t = FormatTurn(text, s)
    BY <1>5, Zenon DEF FormatStep
  <2>2. p \in 1..n /\ p - 1 \in 0..n /\ p \in 0..n
    BY <1>1, <1>2, <1>5
  <2>3. f[p - 1] \in Scans(C) /\ text[p] \in C /\ f[p] = ScanChar(f[p - 1], text[p])
    BY <1>2, <2>2, ElementOfSeq
  <2>4. Clean(f[p], Settled(C))
    BY <2>2, Zenon DEF Settles
  <2> HIDE DEF t
  <2>5. MovedOn(f[p], s, t, C)
    <3>1. MovedOn(ScanChar(f[p - 1], text[p]), s, FormatTurn(text, s), C)
      BY <1>1, <1>5, <2>3, <2>4, OutsideTurn, Zenon
    <3> QED  BY <2>1, <2>3, <3>1, Zenon
  <2>6. t \in FormatStates(C) /\ t.pos = p + 1 /\ Standing(f[p], t, C)
    BY <2>5, Zenon DEF MovedOn
  <2>7. t.pos - 1 = p /\ t.pos \in 1..n + 1 /\ t.pos > p
    BY <1>1, <1>2, <2>2, <2>6
  <2>8. t \in Laid(f, text, C)
    BY <2>6, <2>7, Zenon DEF Laid
  <2> QED  BY <2>7, <2>8, Zenon DEF t
<1> QED  BY <1>3, <1>4, <1>5

\* The same after k turns.
Alike(f, g, k) == f[k] = g[k]

LEMMA StayAlike ==
  ASSUME NEW n \in Nat, NEW f, NEW g, Alike(f, g, 0), \A k \in 1..n : Alike(f, g, k - 1) => Alike(f, g, k)
  PROVE  \A k \in 0..n : Alike(f, g, k)
BY SameRun DEF Alike

\* Formatting, turn by turn.
LEMMA FormatRun ==
  ASSUME NEW text, NEW S, FormatStart(Len(text)) \in S, Len(text) \in Nat, \A s \in S : FormatStep(text, s) \in S
  PROVE  \E g \in [0..Len(text) -> S] :
            /\ g[0] = FormatStart(Len(text)) /\ \A k \in 1..Len(text) : g[k] = FormatStep(text, g[k - 1])
            /\ Formatted(text) = g[Len(text)]
<1> DEFINE n == Len(text)
           start == FormatStart(n)
           F == [p \in S \X (1..n) |-> FormatStep(text, p[1])]
           P(f) == f = [k \in 0..n |-> IF k = 0 THEN start ELSE FormatStep(text, f[k - 1])]
<1>1. n \in Nat /\ start \in S
  OBVIOUS
<1>2. Turns(F, n, S)
  <2> SUFFICES ASSUME NEW p \in S \X (1..n)
               PROVE  FormatStep(text, p[1]) \in S
    BY DEF Turns
  <2>1. p[1] \in S
    OBVIOUS
  <2> QED  BY <2>1
<1>3. PICK f \in [0..n -> S] : f[0] = start /\ \A k \in 1..n : f[k] = F[<<f[k - 1], k>>]
  <2> HIDE DEF F, P, n, start
  <2>1. \E f : Run(f, F, n, S, start)
    BY <1>1, <1>2, TurnsExist
  <2> QED  BY <2>1 DEF Run
<1>4. \A k \in 1..n : f[k] = FormatStep(text, f[k - 1])
  <2> SUFFICES ASSUME NEW k \in 1..n
               PROVE  f[k] = FormatStep(text, f[k - 1])
    OBVIOUS
  <2>1. f[k - 1] \in S
    BY <1>1, <1>3
  <2>2. <<f[k - 1], k>> \in S \X (1..n)
    BY <2>1
  <2> QED  BY <1>3, <2>2
<1>5. P(f)
  BY <1>1, <1>3, <1>4
<1>6. Formatted(text) = (CHOOSE g : P(g))[n]
  BY Zenon DEF Formatted, While, For, FormatStep, FormatStart, FormatState
<1>7. PICK g : P(g) /\ Formatted(text) = g[n]
  <2> HIDE DEF P
  <2> QED  BY <1>5, <1>6
<1>8. \A k \in 0..n : Alike(f, g, k)
  <2>1. g[0] = start /\ \A k \in 1..n : g[k] = FormatStep(text, g[k - 1])
    BY <1>1, <1>7
  <2>2. \A k \in 1..n : Alike(f, g, k - 1) => Alike(f, g, k)
    BY <1>4, <2>1, Zenon DEF Alike
  <2>3. Alike(f, g, 0)
    BY <1>3, <2>1, Zenon DEF Alike
  <2> HIDE DEF P, F, n, start
  <2> QED  BY <1>1, <2>2, <2>3, StayAlike, Zenon
<1>9. n \in 0..n
  BY <1>1
<1> QED  BY <1>3, <1>4, <1>7, <1>8, <1>9 DEF Alike

\* The scan of a document, and of what formatting makes of it.
LEMMA FormatSame ==
  ASSUME NEW C, NEW text, NEW f, Settles(f, text, C), Signs \subseteq C
  PROVE  /\ Follows(f[Len(text)], ReadOut(json_format_string(text)))
         /\ json_format_string(text) \in Rcs(C) /\ Fits(json_format_string(text))
<1> DEFINE n == Len(text)
           S == Laid(f, text, C)
<1>1. n \in Nat
  BY LenProperties DEF Settles, Scanned
<1>2. FormatStart(n) \in S /\ \A s \in S : FormatStep(text, s) \in S /\ (s.pos > n \/ FormatStep(text, s).pos > s.pos)
  BY FormatBegins, FormatStepGoes, Zenon
<1>3. \A s \in S : s.pos \in 1..n + 1 /\ Standing(f[s.pos - 1], s, C)
  BY Zenon DEF Laid
<1> HIDE DEF S
<1>4. PICK g \in [0..n -> S] : /\ g[0] = FormatStart(n) /\ \A k \in 1..n : g[k] = FormatStep(text, g[k - 1])
                               /\ Formatted(text) = g[n]
  BY <1>1, <1>2, FormatRun, Zenon
<1> HIDE DEF n
<1> DEFINE P == {k \in 0..n : g[k].pos > k}
<1>5. 0 \in P
  <2>1. g[0] \in S /\ 0 \in 0..n
    BY <1>1, <1>4
  <2>2. g[0].pos > 0
    BY <1>1, <1>3, <2>1
  <2> QED  BY <2>1, <2>2
<1>6. ASSUME NEW k \in 0..n - 1, k \in P
      PROVE  k + 1 \in P
  <2>1. k + 1 \in 1..n /\ k + 1 \in 0..n /\ k \in 0..n /\ (k + 1) - 1 = k /\ g[k].pos > k
    BY <1>1, <1>6
  <2>2. g[k] \in S /\ g[k + 1] \in S /\ g[k + 1] = FormatStep(text, g[k])
    BY <1>4, <2>1
  <2>3. g[k].pos \in 1..n + 1 /\ g[k + 1].pos \in 1..n + 1 /\ (g[k].pos > n \/ g[k + 1].pos > g[k].pos)
    BY <1>2, <1>3, <2>2, Zenon
  <2>4. g[k].pos > n => g[k + 1] = g[k]
    BY <2>2, Zenon DEF FormatStep, n
  <2>5. g[k + 1].pos > k + 1
    BY <1>1, <2>1, <2>3, <2>4
  <2> QED  BY <2>1, <2>5
<1>7. \A k \in 0..n : k \in P
  <2> HIDE DEF P
  <2> QED  BY <1>1, <1>5, <1>6, Counting
<1>8. g[n] \in S /\ g[n].pos > n
  <2>1. n \in 0..n
    BY <1>1
  <2> QED  BY <1>4, <1>7, <2>1
<1>9. g[n].pos - 1 = n
  BY <1>1, <1>3, <1>8
<1>10. Standing(f[n], g[n], C)
  BY <1>3, <1>8, <1>9, Zenon
<1>11. json_format_string(text) = g[n].out
  BY <1>4, Zenon DEF json_format_string
<1> QED  BY <1>10, <1>11, Zenon DEF Standing, n

-----------------------------------------------------------------------------

\* The characters of a document and those that formatting writes.
PageChars == DocumentChars \cup Signs

DocumentInv ==
  kind = "document" => chars \in Seq(PageChars) /\ scan = ScanText(NewScan, chars) /\ Legal(scan.tokens)

LEMMA DocumentInductive ==
  /\ StringsInit => DocumentInv
  /\ DocumentInv /\ [StringsNext]_strings => DocumentInv'
<1>1. StringsInit => DocumentInv
  <2>1. ScanText(NewScan, <<>>) = NewScan /\ <<>> \in Seq(PageChars)
    BY NewScanTyped, ScanTextGrows, EmptySeq
  <2>2. NewScan.tokens = <<>>
    BY DEF NewScan
  <2>3. Legal(<<>>)
    BY DEF Legal
  <2> QED  BY <2>1, <2>2, <2>3, Zenon DEF StringsInit, DocumentInv
<1>2. DocumentInv /\ [StringsNext]_strings => DocumentInv'
  <2> SUFFICES ASSUME DocumentInv, [StringsNext]_strings
               PROVE  DocumentInv'
    OBVIOUS
  <2>1. ASSUME NEW c \in DocumentChars, AddToDocument(c)
        PROVE  DocumentInv'
    <3>1. /\ kind = "document" /\ chars' = Append(chars, c) /\ scan' = ScanChar(scan, c) /\ Legal(scan'.tokens)
      BY <2>1, Zenon DEF AddToDocument
    <3>2. chars \in Seq(PageChars) /\ scan = ScanText(NewScan, chars) /\ c \in PageChars
      BY <3>1, Zenon DEF DocumentInv, PageChars
    <3>3. Append(chars, c) \in Seq(PageChars)
      BY <3>2, AppendProperties
    <3>4. ScanText(NewScan, Append(chars, c)) = ScanChar(ScanText(NewScan, chars), c)
      BY <3>2, ReadsOn
    <3> QED  BY <3>1, <3>2, <3>3, <3>4, Zenon DEF DocumentInv
  <2>2. ASSUME NEW c \in RawChars, AddToText(c)
        PROVE  DocumentInv'
    BY <2>2 DEF AddToText, DocumentInv
  <2>3. ASSUME NEW piece \in EscapedPieces, AddToString(piece)
        PROVE  DocumentInv'
    BY <2>3 DEF AddToString, DocumentInv
  <2>4. CASE UNCHANGED strings
    BY <2>4, Zenon DEF strings, DocumentInv
  <2> QED  BY <2>1, <2>2, <2>3, <2>4, Zenon DEF StringsNext
<1> QED  BY <1>1, <1>2

LEMMA LegalSound ==
  ASSUME NEW C, NEW ts \in TokensOver(C), Legal(ts), NEW Good,
         \A i \in 1..Len(ts) : Named(ts, i) = "STRING" => ts[i][2] \in Good
  PROVE  Sound(ts, Good)
<1>1. DOMAIN ts = 1..Len(ts)
  BY LenProperties DEF TokensOver
<1> SUFFICES ASSUME NEW i \in 1..Len(ts)
             PROVE  /\ ts[i][1] # "INVALID" /\ (i > 1 => MayFollow(ts[i - 1][1], ts[i][1]))
                    /\ ts[i][1] = "STRING" => ts[i][2] \in Good
  BY Zenon DEF Sound
<1>2. /\ Named(ts, i) # "INVALID"
      /\ i > 1 /\ Named(ts, i - 1) \notin Openers =>
           \/ Named(ts, i) \in Closers \cup {"VALUE_SEPARATOR"}
           \/ Named(ts, i) = "NAME_SEPARATOR" /\ Named(ts, i - 1) = "STRING"
  BY <1>1, Zenon DEF Legal
<1> QED  BY <1>2, Zenon DEF Named, MayFollow

\* A scan that a complete document leaves, and the tokens of one that it follows.
Done(s) == AtRoot(s) /\ s.tokens # <<>> /\ Named(s.tokens, Len(s.tokens)) # "NUMBER"

LEMMA DoneFollows ==
  ASSUME NEW C, NEW o, NEW z \in Scans(C), Follows(o, z), Done(o)
  PROVE  z.tokens = o.tokens
<1> SUFFICES ASSUME z.lex.state \in MayEnd, o = NumberEnd(z)
             PROVE  FALSE
  BY Zenon DEF Follows
<1>1. z.lex.text.text \in Seq(C) /\ "NUMBER" \in LexedNames
  <2>1. z.lex.state \in InNumber
    BY MayEndNumbers
  <2> QED  BY <2>1, TextTyped DEF LexedNames
<1>2. z.tokens \in Seq(LexedNames \X Seq(C)) /\ <<"NUMBER", z.lex.text.text>> \in LexedNames \X Seq(C)
  BY <1>1 DEF Scans, TokensOver
<1>3. o.tokens = Append(z.tokens, <<"NUMBER", z.lex.text.text>>)
  BY DEF NumberEnd, Taking
<1>4. o.tokens[Len(o.tokens)] = <<"NUMBER", z.lex.text.text>>
  BY <1>2, <1>3, AppendProperties, LenProperties
<1>5. Named(o.tokens, Len(o.tokens)) = "NUMBER"
  BY <1>4 DEF Named
<1> QED  BY <1>5, Zenon DEF Done

LEMMA DoneIsClean ==
  ASSUME NEW Good, NEW s, Done(s), Sound(s.tokens, Good)
  PROVE  Clean(s, Good) /\ AtRoot(s) /\ Quiet(s)
<1>1. AtRoot(s) /\ ~InStr(s)
  BY RootIsOutside, Zenon DEF Done
<1> QED  BY <1>1, Zenon DEF Clean, Doomed, Quiet, InStr, AtRoot

\* A text that the lexer is done with, read character by character.
LEMMA DoneScanned ==
  ASSUME NEW C, NEW text \in Seq(C)
  PROVE  \E f : Scanned(f, text, C) /\ f[Len(text)] = ScanText(NewScan, text)
<1>0. NewScan \in Scans(C)
  BY NewScanTyped
<1>1. PICK f :
        /\ f \in [0..Len(text) -> Scans(C)] /\ f[0] = NewScan
        /\ \A k \in 1..Len(text) : f[k] = ScanChar(f[k - 1], text[k])
        /\ ScanText(NewScan, text) = f[Len(text)]
  <2>1. ASSUME NEW s \in Scans(C)
        PROVE  \E f \in [0..Len(text) -> Scans(C)] :
                 /\ f[0] = s /\ \A k \in 1..Len(text) : f[k] = ScanChar(f[k - 1], text[k])
                 /\ ScanText(s, text) = f[Len(text)]
    BY ScanTextIs
  <2> QED  BY <1>0, <2>1, Zenon
<1>2. Scanned(f, text, C)
  BY <1>1 DEF Scanned
<1> QED  BY <1>1, <1>2, Zenon

LEMMA StripKeeps ==
  ASSUME NEW C, NEW text \in Seq(C), NEW o, o = ScanText(NewScan, text), Done(o), Sound(o.tokens, Unslashed(C))
  PROVE  LET stripped == json_strip_white_spaces(text)
         IN TokensOf(stripped) = o.tokens /\ json_strip_white_spaces(stripped) = stripped
<1> DEFINE stripped == json_strip_white_spaces(text)
<1>1. PICK f : Scanned(f, text, C) /\ f[Len(text)] = o
  BY DoneScanned, Zenon
<1>2. Follows(o, ScanText(NewScan, stripped))
  <2>1. Clean(f[Len(text)], Unslashed(C))
    BY <1>1, DoneIsClean, Zenon
  <2> QED  BY <1>1, <2>1, StripSame, Zenon
<1>3. stripped \in Seq(C)
  BY StripGrows DEF StripStates, json_strip_white_spaces
<1>4. ScanText(NewScan, stripped) \in Scans(C)
  BY <1>3, NewScanTyped, ScanTextGrows
<1>5. TokensOf(stripped) = o.tokens
  BY <1>2, <1>4, DoneFollows, Zenon DEF TokensOf
<1> QED  BY <1>5, StripTwice, Zenon

LEMMA FormatKeeps ==
  ASSUME NEW C, Signs \subseteq C, NEW text \in Seq(C), NEW o, o = ScanText(NewScan, text), Done(o),
         Sound(o.tokens, Settled(C))
  PROVE  LET formatted == json_format_string(text)
         IN TokensOf(formatted.text) = o.tokens /\ Fits(formatted)
<1> DEFINE formatted == json_format_string(text)
<1>1. PICK f : Scanned(f, text, C) /\ f[Len(text)] = o
  BY DoneScanned, Zenon
<1>2. Clean(f[Len(text)], Settled(C)) /\ AtRoot(f[Len(text)]) /\ Quiet(f[Len(text)])
  BY <1>1, DoneIsClean, Zenon
<1>3. Settles(f, text, C)
  BY <1>1, <1>2, CleanRun, QuietRun, Zenon DEF Settles
<1>4. Follows(o, ReadOut(formatted)) /\ formatted \in Rcs(C) /\ Fits(formatted)
  BY <1>1, <1>3, FormatSame, Zenon
<1>5. ReadOut(formatted) \in Scans(C)
  BY <1>4, ReadTyped, Zenon
<1>6. TokensOf(formatted.text) = o.tokens
  BY <1>4, <1>5, DoneFollows, Zenon DEF TokensOf, ReadOut
<1> QED  BY <1>4, <1>6, Zenon

LEMMA DocumentInvSuffices == DocumentInv => WhiteSpaceKeepsTokens
<1> SUFFICES ASSUME DocumentInv, Whole
             PROVE  WhiteSpaceKeepsTokens
  BY Zenon DEF WhiteSpaceKeepsTokens, StripKeepsTokens, FormatKeepsTokens
<1> DEFINE C == PageChars
           ts == scan.tokens
<1>1. chars \in Seq(C) /\ scan = ScanText(NewScan, chars) /\ Legal(ts)
  BY Zenon DEF DocumentInv, Whole
<1>2. Done(scan)
  BY Zenon DEF Whole, Done, AtRoot
<1>3. scan \in Scans(C) /\ ts \in TokensOver(C)
  <2>1. scan \in Scans(C)
    BY <1>1, NewScanTyped, ScanTextGrows
  <2> QED  BY <2>1 DEF Scans
<1>4. ASSUME NEW i \in 1..Len(ts), Named(ts, i) = "STRING"
      PROVE  ts[i][2] \in StringTexts /\ ts[i][2] \in Seq(C)
  <2>1. i \in DOMAIN ts /\ ts[i] \in LexedNames \X Seq(C)
    BY <1>3, LenProperties, ElementOfSeq DEF TokensOver
  <2> QED  BY <1>4, <2>1 DEF StringTexts
<1>5. Signs \subseteq C
  BY DEF PageChars
<1> HIDE DEF C, ts
<1>6. StripKeepsTokens
  <2> SUFFICES ASSUME \A t \in StringTexts : t = <<>> \/ t[Len(t)] # "\\"
               PROVE  LET stripped == json_strip_white_spaces(chars)
                      IN TokensOf(stripped) = scan.tokens /\ json_strip_white_spaces(stripped) = stripped
    BY Zenon DEF StripKeepsTokens
  <2>1. \A i \in 1..Len(ts) : Named(ts, i) = "STRING" => ts[i][2] \in Unslashed(C)
    BY <1>4, Zenon DEF Unslashed
  <2>2. Sound(ts, Unslashed(C))
    BY <1>1, <1>3, <2>1, LegalSound, Zenon
  <2> QED  BY <1>1, <1>2, <2>2, StripKeeps, Zenon DEF ts
<1>7. FormatKeepsTokens
  <2> SUFFICES ASSUME \A t \in StringTexts : \A i \in DOMAIN t : t[i] = "\"" => At(t, i + 1) \notin {"NUL", "\\"}
               PROVE  LET formatted == json_format_string(chars)
                      IN TokensOf(formatted.text) = scan.tokens /\ Fits(formatted)
    BY Zenon DEF FormatKeepsTokens
  <2>1. ASSUME NEW t \in StringTexts, t \in Seq(C)
        PROVE  t \in Settled(C)
    <3>1. DOMAIN t = 1..Len(t)
      BY <2>1, LenProperties
    <3>2. ASSUME NEW i \in 1..Len(t), t[i] = "\""
          PROVE  i + 1 \in 1..Len(t) /\ t[i + 1] # "\\"
      <4>1. At(t, i + 1) # "NUL" /\ At(t, i + 1) # "\\"
        BY <3>1, <3>2, Zenon
      <4>2. i + 1 \in DOMAIN t
        BY <4>1, Zenon DEF At
      <4>3. At(t, i + 1) = t[i + 1]
        BY <4>2, Zenon DEF At
      <4> QED  BY <3>1, <4>1, <4>2, <4>3, Zenon
    <3> QED  BY <2>1, <3>2, Zenon DEF Settled
  <2>2. \A i \in 1..Len(ts) : Named(ts, i) = "STRING" => ts[i][2] \in Settled(C)
    BY <1>4, <2>1, Zenon
  <2>3. Sound(ts, Settled(C))
    BY <1>1, <1>3, <2>2, LegalSound, Zenon
  <2> QED  BY <1>1, <1>2, <1>5, <2>3, FormatKeeps, Zenon DEF ts
<1> QED  BY <1>6, <1>7, Zenon DEF WhiteSpaceKeepsTokens

(* Taking the white space out of a document, and putting white space into it, changes no token that the lexer reads,  *)
(* for documents of any length (WhiteSpaceKeepsTokens).                                                               *)
THEOREM WhiteSpaceKeepsTokensCorrect == StringsSpec => []WhiteSpaceKeepsTokens
BY DocumentInductive, DocumentInvSuffices, PTL DEF StringsSpec

=============================================================================
