---------------------------- MODULE JsonGrammar -----------------------------
(***************************************************************************)
(* What the parser of json.c accepts, as a pushdown automaton over whole   *)
(* tokens: an object, with RFC 4627's nesting, in which an array may also  *)
(* have a comma before its end.  Anything else is refused when it is read, *)
(* and so are an invalid character, a shortage of memory, white space that *)
(* fills the first fragment and the end of the file before the end of the  *)
(* document.                                                               *)
(***************************************************************************)
EXTENDS Sequences, Naturals

CONSTANT Values        \* the tokens that are a value by themselves

VARIABLES stack,       \* the containers that are open, the innermost last
          expect,      \* what may come next
          tok,         \* the token that was read
          verdict      \* "reading", "accepted" or "refused"

grammar == <<stack, expect, tok, verdict>>

Tokens == Values \cup {"STRING", "BEGIN_OBJECT", "END_OBJECT", "BEGIN_ARRAY", "END_ARRAY",
                       "NAME_SEPARATOR", "VALUE_SEPARATOR", "INVALID", "no memory", "blank first line"}

Init == stack = <<>> /\ expect = "document" /\ tok = "none" /\ verdict = "reading"

\* Whether a token is allowed where it comes.
Allowed(e, t) ==
  \/ e \in {"document", "value", "value or end"} /\ t = "BEGIN_OBJECT"
  \/ e \in {"value", "value or end"} /\ t \in Values \cup {"BEGIN_ARRAY"}
  \/ e \in {"label or end", "label"} /\ t = "STRING"
  \/ e = "colon" /\ t = "NAME_SEPARATOR"
  \/ e \in {"comma in an object", "comma in an array"} /\ t = "VALUE_SEPARATOR"
  \/ e \in {"label or end", "comma in an object"} /\ t = "END_OBJECT"
  \/ e \in {"value or end", "comma in an array"} /\ t = "END_ARRAY"

\* What the innermost container goes on with, once a value of it is complete.
After(s) == CASE s = <<>> -> "end of file"
              [] s # <<>> /\ s[Len(s)] = "OBJECT" -> "comma in an object"
              [] OTHER -> "comma in an array"

Take(t) == verdict = "reading" /\ Allowed(expect, t) /\ tok' = t /\ UNCHANGED verdict

Goes(s, e) == stack' = s /\ expect' = e

Label == Take("STRING") /\ expect \in {"label or end", "label"} /\ Goes(stack, "colon")
Colon == Take("NAME_SEPARATOR") /\ Goes(stack, "value")
Value == /\ expect \in {"value", "value or end"}
         /\ \E t \in Values : Take(t)
         /\ Goes(stack, After(stack))
BeginObject == Take("BEGIN_OBJECT") /\ Goes(Append(stack, "OBJECT"), "label or end")
BeginArray  == Take("BEGIN_ARRAY") /\ Goes(Append(stack, "ARRAY"), "value or end")
Comma == Take("VALUE_SEPARATOR") /\ Goes(stack, IF expect = "comma in an object" THEN "label" ELSE "value or end")
End == LET s == SubSeq(stack, 1, Len(stack) - 1)
       IN (Take("END_OBJECT") \/ Take("END_ARRAY")) /\ Goes(s, After(s))

Refuse == /\ verdict = "reading" /\ verdict' = "refused"
          /\ tok' \in Tokens /\ ~Allowed(expect, tok') /\ Goes(<<>>, "nothing")

EndOfFile == /\ verdict = "reading" /\ tok' = "end of file" /\ Goes(<<>>, "nothing")
             /\ verdict' = IF expect = "end of file" THEN "accepted" ELSE "refused"

Next == Label \/ Colon \/ Value \/ BeginObject \/ BeginArray \/ Comma \/ End \/ Refuse \/ EndOfFile
Spec == Init /\ [][Next]_grammar

=============================================================================
