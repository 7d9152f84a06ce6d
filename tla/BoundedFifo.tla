---------------------------- MODULE BoundedFifo ----------------------------
(***************************************************************************)
(* What a queue promises its two ends: the elements come out in the order  *)
(* they went in, each once; "full" is said only of Capacity elements and   *)
(* "empty" only of none.                                                   *)
(***************************************************************************)
EXTENDS Naturals, Sequences

CONSTANTS Elements, Capacity

VARIABLES
  items,     \* the elements in the queue
  received,  \* the elements handed out so far
  answer     \* what the last operation answered

vars == <<items, received, answer>>

Init == items = <<>> /\ received = <<>> /\ answer = "none"

Put(x) ==
  /\ Len(items) < Capacity
  /\ items' = Append(items, x)
  /\ answer' = "ok"
  /\ UNCHANGED received

Full ==
  /\ Len(items) = Capacity
  /\ answer' = "full"
  /\ UNCHANGED <<items, received>>

Get ==
  /\ items # <<>>
  /\ received' = Append(received, Head(items))
  /\ items' = Tail(items)
  /\ answer' = "ok"

Drop ==
  /\ items # <<>>
  /\ items' = Tail(items)
  /\ answer' = "ok"
  /\ UNCHANGED received

Empty ==
  /\ items = <<>>
  /\ answer' = "empty"
  /\ UNCHANGED <<items, received>>

Clear ==
  /\ items' = <<>>
  /\ answer' = "cleared"
  /\ UNCHANGED received

Next == (\E x \in Elements : Put(x)) \/ Full \/ Get \/ Drop \/ Empty \/ Clear

Spec == Init /\ [][Next]_vars

=============================================================================
