---------------------------- MODULE JsonStrings -----------------------------
(***************************************************************************)
(* The functions of json.c from text to text: white space out, white space *)
(* in, escaping, unescaping.  They are checked on documents that the lexer *)
(* of the same file reads, on any texts, and on the texts of strings with  *)
(* \u escapes.  Bytes are numbers; "high" is a byte that begins or goes on *)
(* with a UTF-8 character.                                                 *)
(***************************************************************************)
EXTENDS JsonLexer, FiniteSets

CONSTANTS DocumentChars,     \* what a document is put together from
          RawChars,          \* what a text is put together from
          EscapedPieces,     \* what the text of a string is put together from
          MaxDocument, MaxRaw, MaxEscaped      \* bounds: the characters, or pieces, of each

\* The characters that may be escaped, and what an escape of four digits looks like.
Raw     == Control \cup Space \cup {"\"", "/", "\\", "a", "high"}
Escapes == {<<"\\", "u", a, b, c, d>> : a, b, c, d \in Hex}

ASSUME StringsChars ==
  /\ RawChars \subseteq Raw /\ EscapedPieces \subseteq Escapes \cup {<<"a">>}
  /\ {MaxDocument, MaxRaw, MaxEscaped} \subseteq Nat

VARIABLES kind,              \* "document", "raw" or "escaped"
          chars,             \* the text
          pieces,            \* the pieces that a string with escapes was put together from
          scan               \* a document as the lexer reads it

strings == <<kind, chars, pieces, scan>>

At(text, i) == IF i \in DOMAIN text THEN text[i] ELSE "NUL"

\* A loop that is gone through n times, and one over a text that advances in every turn.
For(n, start, Turn(_, _)) ==
  LET after[k \in 0..n] == IF k = 0 THEN start ELSE Turn(after[k - 1], k)
  IN after[n]

While(text, start, Turn(_)) ==
  For(Len(text), start, LAMBDA s, k : IF s.pos > Len(text) THEN s ELSE Turn(s))

-----------------------------------------------------------------------------
\* state is 1 inside a string, which a " ends unless a \ stands before it.
StripTurnPlain(text, s, i) ==   \* a bug to tell from the code: every " ends a string
  LET copied == [s EXCEPT !.out = Append(@, text[i])]
  IN CASE text[i] \in Space  -> IF s.state = 1 THEN copied ELSE s
       [] text[i] = "\""     -> [copied EXCEPT !.state = 1 - s.state]
       [] OTHER              -> copied

StripTurn(text, s, i) ==
  LET copied == [s EXCEPT !.out = Append(@, text[i])]
  IN CASE text[i] \in Space  -> IF s.state = 1 THEN copied ELSE s
       [] text[i] = "\""     ->
            [copied EXCEPT !.state = IF s.state = 0 THEN 1 ELSE IF text[i - 1] # "\\" THEN 0 ELSE 1]
       [] OTHER              -> copied

Stripped(text) == For(Len(text), [state |-> 0, out |-> <<>>], LAMBDA s, i : StripTurn(text, s, i))

json_strip_white_spaces(text) == Stripped(text).out

\* n tabs behind a text.
Tabs(out, n) == IF n > 0 THEN For(n, out, LAMBDA o, i : rcs_catc(o, "\t")) ELSE out

\* The inner loop copies a string to the " that ends it.
StringTurnPlain(text, s) ==   \* a bug to tell from the code: an escaped " ends the string
  [s EXCEPT !.pos = @ + 1, !.inside = At(text, s.pos) # "\"", !.out = rcs_catc(@, At(text, s.pos))]

\* After an escaped " the next character is copied whatever it is.
StringTurn(text, s) ==
  LET c      == At(text, s.pos)
      quote  == c = "\\" /\ At(text, s.pos + 1) = "\""
      begun  == IF c = "\\" THEN rcs_catc(s.out, c) ELSE s.out
      last   == CASE quote -> s.pos + 2 [] c = "\\" /\ ~quote -> s.pos + 1 [] OTHER -> s.pos
  IN [s EXCEPT !.pos = last + 1,
               !.inside = c # "\"",
               !.out = rcs_catc(IF quote THEN rcs_catc(begun, "\"") ELSE begun, At(text, last))]

FormatTurn(text, s) ==
  LET c    == text[s.pos]
      next == [s EXCEPT !.pos = @ + 1]
      more == s.indentation + 1
      less == s.indentation - 1
  IN CASE c \in Space -> next
       [] c = "{"     -> [next EXCEPT !.indentation = more, !.out = Tabs(rcs_catcs(@, <<"{", "\n">>), more)]
       [] c = "}"     -> [next EXCEPT !.indentation = less, !.out = rcs_catc(Tabs(rcs_catc(@, "\n"), less), "}")]
       [] c = ":"     -> [next EXCEPT !.out = rcs_catcs(@, <<":", " ">>)]
       [] c = ","     -> [next EXCEPT !.out = Tabs(rcs_catcs(@, <<",", "\n">>), s.indentation)]
       [] c = "\""    -> [next EXCEPT !.inside = TRUE, !.out = rcs_catc(@, c)]
       [] OTHER       -> [next EXCEPT !.out = rcs_catc(@, c)]

Formatted(text) ==
  While(text, [pos |-> 1, indentation |-> 0, inside |-> FALSE, out |-> rcs_create(Len(text))],
        LAMBDA s : IF s.inside THEN StringTurn(text, s) ELSE FormatTurn(text, s))

json_format_string(text) == Formatted(text).out

-----------------------------------------------------------------------------
\* The characters with an escape of two, and its second character.
Shortened   == {"\\", "\"", "/", "BS", "\f", "\n", "\r", "\t"}
EscapeOf(c) == CASE c = "BS" -> "b" [] c = "\f" -> "f" [] c = "\n" -> "n" [] c = "\r" -> "r" [] c = "\t" -> "t"
                 [] OTHER -> c

EscapeTurnNoBackslash(s, c) ==   \* a bug to tell from the code: the backslash itself is not escaped
  CASE s.ended                                                -> s
    [] ~s.ended /\ c \in Shortened \ {"\\"}                   -> [s EXCEPT !.out = rcs_catcs(@, <<"\\", EscapeOf(c)>>)]
    [] ~s.ended /\ c \in Control \ Shortened                  -> [s EXCEPT !.ended = TRUE]
    [] ~s.ended /\ c \notin Control \cup (Shortened \ {"\\"}) -> [s EXCEPT !.out = rcs_catc(@, c)]

\* Any other control character is given to vsnprintf for its va_list: the
\* process reads the address that the character is, and ends.
EscapeTurn(s, c) ==
  CASE s.ended                                    -> s
    [] ~s.ended /\ c \in Shortened                -> [s EXCEPT !.out = rcs_catcs(@, <<"\\", EscapeOf(c)>>)]
    [] ~s.ended /\ c \in Control \ Shortened      -> [s EXCEPT !.ended = TRUE]
    [] ~s.ended /\ c \notin Control \cup Shortened -> [s EXCEPT !.out = rcs_catc(@, c)]

json_escape(text) ==
  For(Len(text), [ended |-> FALSE, out |-> rcs_create(Len(text))], LAMBDA s, i : EscapeTurn(s, text[i]))

HexDigit(c) ==
  CASE c = "0" -> 0 [] c = "1" -> 1 [] c = "2" -> 2 [] c = "3" -> 3 [] c = "4" -> 4
    [] c = "5" -> 5 [] c = "6" -> 6 [] c = "7" -> 7 [] c = "8" -> 8 [] c = "9" -> 9
    [] c \in {"a", "A"} -> 10 [] c \in {"b", "B"} -> 11 [] c \in {"c", "C"} -> 12
    [] c \in {"d", "D"} -> 13 [] c \in {"e", "E"} -> 14 [] c \in {"f", "F"} -> 15

\* strtol of four digits from position i, and of four characters that need not be digits.
Unit(text, i) ==
  4096 * HexDigit(text[i]) + 256 * HexDigit(text[i + 1]) + 16 * HexDigit(text[i + 2]) + HexDigit(text[i + 3])

strtol(text, i) ==
  LET d(k)      == HexDigit(text[i + k])
      Digits(n) == \A k \in 0..n - 1 : text[i + k] \in Hex
  IN CASE ~Digits(1)              -> 0
       [] Digits(1) /\ ~Digits(2) -> d(0)
       [] Digits(2) /\ ~Digits(3) -> 16 * d(0) + d(1)
       [] Digits(3) /\ ~Digits(4) -> 256 * d(0) + 16 * d(1) + d(2)
       [] Digits(4)               -> Unit(text, i)

\* The code of a character.
Byte(c) == CASE c = "SOH" -> 1 [] c = "BS" -> 8 [] c = "\t" -> 9 [] c = "\n" -> 10 [] c = "\f" -> 12 [] c = "\r" -> 13
             [] c = " " -> 32 [] c = "\"" -> 34 [] c = "/" -> 47 [] c = "\\" -> 92 [] c = "u" -> 117 [] c = "high" -> 200
             [] c \in Digit -> 48 + HexDigit(c)
             [] c \in {"A", "B", "C", "D", "E", "F"} -> 55 + HexDigit(c)
             [] c \in {"a", "b", "c", "d", "e", "f"} -> 87 + HexDigit(c)

\* The halves of a surrogate pair.
HighUnit(u) == u \in 55296..56319
LowUnit(u)  == u \in 56320..57343

\* The bytes of a \u escape, or of the two that a high surrogate begins.
TwoBytes(u)   == <<192 + ((u \div 64) % 32), 128 + (u % 64)>>
ThreeBytes(u) == <<224 + ((u \div 4096) % 16), 128 + ((u \div 64) % 64), 128 + (u % 64)>>
FourBytesNarrow(u) ==   \* a bug to tell from the code: two bits for the first byte
  <<240 + ((u \div 262144) % 4), 128 + ((u \div 4096) % 64), 128 + ((u \div 64) % 64), 128 + (u % 64)>>
FourBytes(u)  == <<240 + ((u \div 262144) % 8), 128 + ((u \div 4096) % 64), 128 + ((u \div 64) % 64), 128 + (u % 64)>>

\* What an escape of two characters stands for.
Short(c) ==
  CASE c = "b" -> 8 [] c = "t" -> 9 [] c = "n" -> 10 [] c = "f" -> 12 [] c = "r" -> 13 [] c \in {"\"", "\\", "/"} -> Byte(c)

\* The bytes of the text, and how far it was read.  The tests for a second \u
\* after a high surrogate are always false: the six characters behind it are
\* taken whatever they are.  With fewer the text is read past its end: what is
\* there, and what is written of it, is not known.
Into(bytes, next) == [bytes |-> bytes, next |-> next]

FromHigh(text, r, high) ==
  LET pair == (high - 55296) * 1024 + (strtol(text, r + 8) - 56320) + 65536
  IN Into(IF r + 11 =< Len(text) THEN FourBytes(pair) ELSE <<>>, r + 12)

FromUnit(text, r) ==
  LET unit == Unit(text, r + 2)
  IN CASE unit < 128                      -> Into(<<unit>>, r + 6)
       [] unit \in 128..2047              -> Into(TwoBytes(unit), r + 6)
       [] unit > 2047 /\ ~HighUnit(unit)  -> Into(ThreeBytes(unit), r + 6)
       [] HighUnit(unit)                  -> FromHigh(text, r, unit)

Translated(text, r) ==
  CASE text[r] # "\\"                       -> Into(<<Byte(text[r])>>, r + 1)
    [] text[r] = "\\" /\ text[r + 1] # "u"  -> Into(<<Short(text[r + 1])>>, r + 2)
    [] text[r] = "\\" /\ text[r + 1] = "u"  -> FromUnit(text, r)

UnescapeTurn(text, s) ==
  LET t == Translated(text, s.pos) IN [pos |-> t.next, out |-> s.out \o t.bytes]

Unescaped(text) == While(text, [pos |-> 1, out |-> <<>>], LAMBDA s : UnescapeTurn(text, s))

json_unescape(text) == Unescaped(text).out

-----------------------------------------------------------------------------
\* The tokens with the one that a character completed.
WithToken(tokens, r) ==
  IF r.token = "none" THEN tokens
  ELSE Append(tokens, <<r.token, IF r.token \in {"STRING", "NUMBER"} THEN r.text.text ELSE <<>> >>)

\* The lexer over a text: its tokens, with their texts, and where it stands.
ScanChar(s, c) ==
  LET first  == LexChar(s.lex, c)
      second == LexChar(Lexed(first), c)
  IN IF first.used
     THEN [lex |-> Lexed(first), tokens |-> WithToken(s.tokens, first)]
     ELSE [lex |-> Lexed(second), tokens |-> WithToken(WithToken(s.tokens, first), second)]

NewScan == [lex |-> NewLexer, tokens |-> <<>>]
ScanText(s, text) == For(Len(text), s, LAMBDA sc, i : ScanChar(sc, text[i]))
TokensOf(text) == ScanText(NewScan, text).tokens

Named(tokens, i) == tokens[i][1]
Closers == {"END_OBJECT", "END_ARRAY"}
Openers == {"BEGIN_OBJECT", "BEGIN_ARRAY", "NAME_SEPARATOR", "VALUE_SEPARATOR"}

\* After a value comes an end or a separator, and no object ends that has not begun.
Legal(tokens) ==
  LET Count(t, i) == Cardinality({j \in 1..i : Named(tokens, j) = t})
  IN \A i \in DOMAIN tokens :
       /\ Named(tokens, i) # "INVALID"
       /\ i > 1 /\ Named(tokens, i - 1) \notin Openers =>
            \/ Named(tokens, i) \in Closers \cup {"VALUE_SEPARATOR"}
            \/ Named(tokens, i) = "NAME_SEPARATOR" /\ Named(tokens, i - 1) = "STRING"
       /\ Count("END_OBJECT", i) =< Count("BEGIN_OBJECT", i)

\* The escape of a high surrogate, and of a low one.
High(piece) == Len(piece) = 6 /\ piece[1] = "\\" /\ HighUnit(Unit(piece, 3))
Low(piece)  == Len(piece) = 6 /\ piece[1] = "\\" /\ LowUnit(Unit(piece, 3))

StringsInit ==
  kind \in {"document", "raw", "escaped"} /\ chars = <<>> /\ pieces = <<>> /\ scan = NewScan

AddToDocument(c) ==
  /\ kind = "document" /\ Len(chars) < MaxDocument
  /\ scan' = ScanChar(scan, c) /\ Legal(scan'.tokens)
  /\ chars' = Append(chars, c) /\ UNCHANGED <<kind, pieces>>

AddToText(c) ==
  /\ kind = "raw" /\ Len(chars) < MaxRaw
  /\ chars' = Append(chars, c) /\ UNCHANGED <<kind, pieces, scan>>

AddToString(piece) ==
  /\ kind = "escaped" /\ Len(pieces) < MaxEscaped
  /\ chars' = chars \o piece /\ pieces' = Append(pieces, piece) /\ UNCHANGED <<kind, scan>>

StringsNext ==
  \/ \E c \in DocumentChars : AddToDocument(c)
  \/ \E c \in RawChars : AddToText(c)
  \/ \E piece \in EscapedPieces : AddToString(piece)

StringsSpec == StringsInit /\ [][StringsNext]_strings

-----------------------------------------------------------------------------
\* No token is unfinished, nor one that stripping could leave unfinished.
Whole == /\ kind = "document" /\ scan.lex.state = 0 /\ scan.tokens # <<>>
         /\ Named(scan.tokens, Len(scan.tokens)) # "NUMBER"

StringTexts == {scan.tokens[i][2] : i \in {j \in DOMAIN scan.tokens : Named(scan.tokens, j) = "STRING"}}

(* Taking the white space out changes no token that the lexer reads, and leaves none outside the strings, whatever    *)
(* the strings hold, as long as none ends with an escaped backslash: its closing " would be taken for an escaped one. *)
StripKeepsTokens ==
  Whole /\ (\A t \in StringTexts : t = <<>> \/ t[Len(t)] # "\\") =>
    LET stripped == json_strip_white_spaces(chars)
    IN TokensOf(stripped) = scan.tokens /\ json_strip_white_spaces(stripped) = stripped

(* Formatting changes no token that the lexer reads and takes out no more than stripping does, as long as an escaped  *)
(* " is followed by neither the end of its string nor another escape.                                                 *)
FormatKeepsTokens ==
  Whole /\ (\A t \in StringTexts : \A i \in DOMAIN t : t[i] = "\"" => At(t, i + 1) \notin {"NUL", "\\"}) =>
    LET formatted == json_format_string(chars)
    IN TokensOf(formatted.text) = scan.tokens /\ Fits(formatted)

(* What a reader makes of a document is the same with the white space taken out and with it put in.                   *)
WhiteSpaceKeepsTokens == StripKeepsTokens /\ FormatKeepsTokens

(* Escaping comes to its end unless the text has a control character without an escape of two.  The escaped text is   *)
(* the text of a string for the lexer, and unescaping gives the bytes back.                                           *)
EscapeRoundTrip ==
  kind = "raw" =>
    LET done    == json_escape(chars)
        escaped == rcs_unwrap(done.out)
    IN /\ done.ended <=> \E i \in DOMAIN chars : chars[i] \in Control \ Shortened
       /\ ~done.ended =>
            /\ TokensOf(<<"\"">> \o escaped \o <<"\"">>) = <<<<"STRING", escaped>>>>
            /\ json_unescape(escaped) = [i \in DOMAIN chars |-> Byte(chars[i])]
            /\ Fits(done.out)

\* A code point more, read from n places.
Advance(s, n, point) == [pos |-> s.pos + n, out |-> Append(s.out, point)]

\* The code points of the bytes, decoded as RFC 3629 has it.
DecodeTurn(b, s) ==
  LET first   == b[s.pos]
      Low6(i) == b[s.pos + i] - 128
  IN CASE first < 128        -> Advance(s, 1, first)
       [] first \in 192..223 -> Advance(s, 2, (first - 192) * 64 + Low6(1))
       [] first \in 224..239 -> Advance(s, 3, (first - 224) * 4096 + Low6(1) * 64 + Low6(2))
       [] first \in 240..247 -> Advance(s, 4, (first - 240) * 262144 + Low6(1) * 4096 + Low6(2) * 64 + Low6(3))

Decoded(b) == While(b, [pos |-> 1, out |-> <<>>], LAMBDA s : DecodeTurn(b, s)).out

\* The code points the escapes name, and the one that a pair names.
Joined(high, low) == 65536 + (high % 1024) * 1024 + (low % 1024)

PointsTurn(t, s) ==
  LET unit == Unit(t, s.pos + 2)
  IN CASE t[s.pos] # "\\"                     -> Advance(s, 1, Byte(t[s.pos]))
       [] t[s.pos] = "\\" /\ HighUnit(unit)   -> Advance(s, 12, Joined(unit, Unit(t, s.pos + 8)))
       [] t[s.pos] = "\\" /\ ~HighUnit(unit)  -> Advance(s, 6, unit)

Points(t) == While(t, [pos |-> 1, out |-> <<>>], LAMBDA s : PointsTurn(t, s)).out

\* Up to the n-th piece every high surrogate has a low one behind it, and every
\* low one a high one before it; and only the last piece is a high one alone.
PairedUpTo(n) ==
  \A i \in 1..n : /\ High(pieces[i]) => i < n /\ Low(pieces[i + 1])
                  /\ Low(pieces[i]) => i > 1 /\ High(pieces[i - 1])

Paired == PairedUpTo(Len(pieces))
Halved == LET n == Len(pieces) IN n > 0 /\ PairedUpTo(n - 1) /\ High(pieces[n])

(* The \u escapes of a string, surrogate pairs among them, come out as the UTF-8 of the characters they name.  A high  *)
(* surrogate in the last place is read past the end of the text.  Whatever the escapes are, a text that is read to    *)
(* its end is not shorter than what is written of it, for which as much was allocated.                                *)
UnescapeIsUtf8 ==
  kind = "escaped" =>
    LET end  == Len(chars) + 1
        read == Unescaped(chars)
    IN /\ Paired => read.pos = end /\ Decoded(read.out) = Points(chars)
       /\ Halved => read.pos > end
       /\ read.pos = end => Len(read.out) =< Len(chars)

(* Escapes stand for the characters they were made of, and for those that another writer made them of.                *)
EscapesKeepCharacters == EscapeRoundTrip /\ UnescapeIsUtf8

=============================================================================
