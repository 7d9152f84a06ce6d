------------------------------ MODULE RcString ------------------------------
(***************************************************************************)
(* The growing strings of json.c (struct rui_cstring): a text and the room *)
(* for it, max bytes and one for the terminator.  An rcs_resize that fails *)
(* is a step of the callers' models, not of these operators: it frees the  *)
(* string, and the caller's pointer is FREED.                              *)
(***************************************************************************)
EXTENDS Naturals, Sequences

CONSTANTS RSTRING_INCSTEP,   \* how much a full string grows
          RSTRING_DEFAULT,   \* the room of a string whose length is unknown
          NULL,
          FREED              \* a pointer to a string that is freed

ASSUME RcSizes == RSTRING_INCSTEP \in Nat \ {0} /\ RSTRING_DEFAULT \in Nat \ {0}

rcs_create(length) == [text |-> <<>>, max |-> length]

rcs_resize(rcs, length) == [rcs EXCEPT !.max = length]

\* A bug to tell from the code: the text that is there is not counted.
rcs_catcsShort(pre, s) ==
  LET room == IF pre.max < Len(s) THEN rcs_resize(pre, Len(s) + RSTRING_INCSTEP) ELSE pre
  IN [room EXCEPT !.text = @ \o s]

\* Append a text.
rcs_catcs(pre, s) ==
  LET length == Len(pre.text) + Len(s)
      room   == IF pre.max < length THEN rcs_resize(pre, length + RSTRING_INCSTEP) ELSE pre
  IN [room EXCEPT !.text = @ \o s]

\* A bug to tell from the code: a full text takes one more.
rcs_catcLate(pre, c) ==
  LET room == IF pre.max < Len(pre.text) THEN rcs_resize(pre, pre.max + RSTRING_INCSTEP) ELSE pre
  IN [room EXCEPT !.text = Append(@, c)]

\* Append a character.
rcs_catc(pre, c) ==
  LET room == IF pre.max =< Len(pre.text) THEN rcs_resize(pre, pre.max + RSTRING_INCSTEP) ELSE pre
  IN [room EXCEPT !.text = Append(@, c)]

rcs_length(rcs) == Len(rcs.text)

\* What the caller takes over.
rcs_unwrap(rcs) == rcs.text

\* The text and its terminator are inside what was allocated.
Fits(rcs) == rcs_length(rcs) =< rcs.max

=============================================================================
