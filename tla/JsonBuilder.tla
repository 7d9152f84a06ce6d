---------------------------- MODULE JsonBuilder -----------------------------
(***************************************************************************)
(* A program that builds trees with the calls of json.h: any values, any   *)
(* insertions their comments and assertions allow, printed and freed at    *)
(* any value, not only at a root.                                          *)
(***************************************************************************)
EXTENDS JsonTree

CONSTANTS NewTypes,     \* the types of the values it makes
          Labels        \* the texts of its strings

ASSUME BuilderTypes  == NewTypes \subseteq Types
ASSUME BuilderLabels == \A text \in Labels : IsText(text)

VARIABLE lost           \* labels that no one can name any more

builder == <<tree, lost>>

BuilderInit == TreeInit /\ lost = {}

Mine == Allocated(heap) \ lost
Roots == {n \in Mine : heap[n].parent = NULL}

\* json_new_string and the others; without memory nothing changes.
NewValue(type) ==
  /\ call = "none" /\ HasMemory(heap)
  /\ \E text \in IF type \in {"STRING", "NUMBER"} THEN Labels ELSE {NULL} :
       heap' = json_new_value(heap, FirstFree(heap), type, text)
  /\ Return("OK") /\ UNCHANGED lost

\* The child has no parent yet, and the parent is not part of it.
InsertChild(parent, child) ==
  /\ call = "none" /\ child \in Roots /\ ~Beneath(heap, parent, child)
  /\ IF MayInsert(heap, parent, child)
     THEN heap' = json_insert_child(heap, parent, child) /\ Return("OK")
     ELSE UNCHANGED heap /\ Return("BAD_TREE_STRUCTURE")
  /\ UNCHANGED lost

\* The label is allocated first, and lost when the value cannot be its child.
json_insert_pair_into_object(parent, text, value) ==
  /\ call = "none" /\ heap[parent].type = "OBJECT" /\ value \in Roots /\ ~Beneath(heap, parent, value)
  /\ HasMemory(heap)
  /\ LET label == FirstFree(heap)
         with  == json_new_value(heap, label, "STRING", text)
     IN IF MayInsert(with, label, value)
        THEN /\ heap' = json_insert_child(json_insert_child(with, label, value), parent, label)
             /\ Return("OK") /\ UNCHANGED lost
        ELSE /\ heap' = with /\ lost' = lost \cup {label}
             /\ Return("BAD_TREE_STRUCTURE")

Call(v) ==
  /\ \/ json_free_value(v)
     \/ json_tree_to_string(v) \/ TreeToStringAborts(v)
     \/ json_stream_output(v)
  /\ UNCHANGED lost

BuilderNext ==
  \/ \E type \in NewTypes : NewValue(type)
  \/ \E parent, child \in Mine : InsertChild(parent, child)
  \/ \E parent, value \in Mine, text \in Labels : json_insert_pair_into_object(parent, text, value)
  \/ \E v \in Mine : Call(v)
  \/ Walk /\ UNCHANGED lost

BuilderSpec == BuilderInit /\ [][BuilderNext]_builder /\ WF_builder(Walk /\ UNCHANGED lost)

=============================================================================
