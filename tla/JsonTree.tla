------------------------------ MODULE JsonTree ------------------------------
(***************************************************************************)
(* The values of json.c (json_t) and the calls on them: new values, the    *)
(* insertion of a child, the walks that free a tree or print it.  A walk   *)
(* is a loop over a cursor and is modelled by its turns; the functions     *)
(* without a loop are operators on the heap.  A text is a sequence of      *)
(* characters, already escaped.                                            *)
(***************************************************************************)
EXTENDS RcString, FiniteSets

CONSTANT MaxNodes    \* bound: the values in memory at the same time

VARIABLES heap,      \* the allocated values
          call,      \* the function that runs, or "none"; "aborted" after a failed assertion
          root,      \* its argument
          cursor,    \* where it is
          step,      \* printing: state1 opens the value at the cursor, state2 closes it
          output,    \* printing: the text so far (for a stream, its room means nothing)
          result     \* what the last call returned; "none" while one runs

tree == <<heap, call, root, cursor, step, output, result>>

ASSUME TreeNodes == MaxNodes \in Nat /\ NULL \notin 1..MaxNodes

Nodes == 1..MaxNodes
Free  == [type |-> "free"]

Literals == {"TRUE", "FALSE", "NULL"}
Scalars  == {"STRING", "NUMBER"} \cup Literals
Types    == Scalars \cup {"OBJECT", "ARRAY"}

Allocated(h) == {n \in Nodes : h[n] # Free}
FirstFree(h) == CHOOSE n \in Nodes \ Allocated(h) : \A k \in Nodes \ Allocated(h) : n =< k
HasMemory(h) == Allocated(h) # Nodes

\* A value alone: of json_new_object, json_new_array and the literals the text is NULL.
json_new_value(h, n, type, text) ==
  [h EXCEPT ![n] = [type |-> type, text |-> text, parent |-> NULL, child |-> NULL,
                    child_end |-> NULL, previous |-> NULL, next |-> NULL]]

\* The type rules of json_insert_child: a label's own value is not looked at.
MayInsert(h, parent, child) ==
  CASE h[parent].type \in {"STRING", "ARRAY"} -> h[child].type \in Scalars => h[child].child = NULL
    [] h[parent].type = "OBJECT"              -> h[child].type = "STRING"
    [] OTHER                                  -> FALSE

\* A bug to tell from the code, in the list of its TODO: the child becomes the first one.
json_insert_childLifo(h, parent, child) ==
  IF h[parent].child # NULL
  THEN [h EXCEPT ![child].parent = parent, ![child].next = h[parent].child,
                 ![h[parent].child].previous = child, ![parent].child = child]
  ELSE [h EXCEPT ![child].parent = parent, ![parent].child = child, ![parent].child_end = child]

\* The child becomes the last one; its own next stays as it is.
json_insert_child(h, parent, child) ==
  IF h[parent].child # NULL
  THEN [h EXCEPT ![child].parent = parent, ![child].previous = h[parent].child_end,
                 ![h[parent].child_end].next = child, ![parent].child_end = child]
  ELSE [h EXCEPT ![child].parent = parent, ![parent].child = child, ![parent].child_end = child]

\* A bug to tell from the code: the parent's child_end is forgotten.
intern_json_free_valueFirst(h, n) ==
  LET v == h[n]
      siblings == [k \in Nodes |->
        CASE k = v.previous -> [h[k] EXCEPT !.next = v.next]
          [] k = v.next     -> [h[k] EXCEPT !.previous = v.previous]
          [] OTHER          -> h[k]]
      linked == IF v.parent = NULL THEN siblings
                ELSE [siblings EXCEPT ![v.parent].child = IF @ = n THEN v.next ELSE @]
  IN [linked EXCEPT ![n] = Free]

\* A value without children leaves its siblings and its parent, and is freed.
intern_json_free_value(h, n) ==
  LET v == h[n]
      siblings == [k \in Nodes |->
        CASE k = v.previous -> [h[k] EXCEPT !.next = v.next]
          [] k = v.next     -> [h[k] EXCEPT !.previous = v.previous]
          [] OTHER          -> h[k]]
      linked == IF v.parent = NULL THEN siblings
                ELSE [siblings EXCEPT ![v.parent].child     = IF @ = n THEN v.next ELSE @,
                                      ![v.parent].child_end = IF @ = n THEN v.previous ELSE @]
  IN [linked EXCEPT ![n] = Free]

\* The first label of an object that has the text, or NULL.
FindFrom(h, text) ==
  LET from[n \in Allocated(h) \cup {NULL}] == IF n = NULL \/ h[n].text = text THEN n ELSE from[h[n].next]
  IN from
json_find_first_label(h, object, text) == FindFrom(h, text)[h[object].child]

\* A text of any length.
IsText(s) == Len(s) \in Nat /\ s = [i \in 1..Len(s) |-> s[i]]

TreeInit ==
  /\ heap = [n \in Nodes |-> Free]
  /\ call = "none" /\ root = NULL /\ cursor = NULL /\ step = "open" /\ output = NULL
  /\ result = "OK"

Return(code) ==
  /\ call' = "none" /\ root' = NULL /\ cursor' = NULL /\ step' = "open" /\ output' = NULL
  /\ result' = code

-----------------------------------------------------------------------------
\* Freeing a tree: down to a value without children, which is freed, and up again.
json_free_value(v) ==
  /\ call = "none"
  /\ call' = "free" /\ root' = v /\ cursor' = v /\ result' = "none"
  /\ UNCHANGED <<heap, step, output>>

FreeDescends ==
  /\ call = "free" /\ heap[cursor].child # NULL
  /\ cursor' = heap[cursor].child
  /\ UNCHANGED <<heap, call, root, step, output, result>>

\* Bugs to tell from the code: the parent is tested instead of the value, or whether there is one at
\* all; a value with a following sibling is left for later.
FreeUntil(last) ==
  /\ call = "free" /\ heap[cursor].child = NULL
  /\ heap' = intern_json_free_value(heap, cursor)
  /\ IF last
     THEN Return("OK")
     ELSE cursor' = heap[cursor].parent /\ UNCHANGED <<call, root, step, output, result>>
FreeOneEarly == FreeUntil(root \in {cursor, heap[cursor].parent})
FreeOneToTop == FreeUntil(heap[cursor].parent = NULL)
FreeOneLater == IF call = "free" /\ heap[cursor].next # NULL
                THEN heap[cursor].child = NULL /\ cursor' = heap[cursor].parent /\ cursor' # NULL
                     /\ UNCHANGED <<heap, call, root, step, output, result>>
                ELSE FreeUntil(cursor = root)

FreeOne ==
  /\ call = "free" /\ heap[cursor].child = NULL
  /\ heap' = intern_json_free_value(heap, cursor)
  /\ IF cursor = root
     THEN Return("OK")
     ELSE cursor' = heap[cursor].parent /\ UNCHANGED <<call, root, step, output, result>>

-----------------------------------------------------------------------------
\* Printing starts.  json_tree_to_string does not test its rcs_create.
Prints(f, v) ==
  /\ call = "none"
  /\ call' = f /\ root' = v /\ cursor' = v /\ step' = "open"
  /\ output' = rcs_create(RSTRING_DEFAULT) /\ result' = "none"
  /\ UNCHANGED heap

json_tree_to_string(v) == Prints("tree_to_string", v)
json_stream_output(v)  == Prints("stream_output", v)

TreeToStringAborts(v) ==
  /\ call = "none" /\ call' = "aborted"
  /\ UNCHANGED <<heap, root, cursor, step, output, result>>

\* A label is a member of an object or the argument itself, when it has no parent.
IsLabel(n) == /\ heap[n].type = "STRING"
              /\ heap[n].parent # NULL => heap[heap[n].parent].type = "OBJECT"

Quoted(out, text) == rcs_catc(rcs_catcs(rcs_catc(out, "\""), text), "\"")

LiteralText(type) == CASE type = "TRUE"  -> <<"t", "r", "u", "e">>
                       [] type = "FALSE" -> <<"f", "a", "l", "s", "e">>
                       [] OTHER          -> <<"n", "u", "l", "l">>

\* What opening and closing the value at the cursor writes.
Opening(out, n) ==
  LET v    == heap[n]
      with == IF v.previous # NULL /\ n # root THEN rcs_catc(out, ",") ELSE out
  IN CASE v.type = "STRING" /\ IsLabel(n) /\ v.child # NULL -> rcs_catc(Quoted(with, v.text), ":")
       [] v.type = "STRING" /\ ~(IsLabel(n) /\ v.child # NULL) -> Quoted(with, v.text)
       [] v.type = "NUMBER"   -> rcs_catcs(with, v.text)
       [] v.type \in Literals -> rcs_catcs(with, LiteralText(v.type))
       [] v.type = "OBJECT"   -> rcs_catc(with, "{")
       [] OTHER               -> rcs_catc(with, "[")

Closing(out, n) ==
  CASE heap[n].type = "OBJECT" -> rcs_catc(out, "}")
    [] heap[n].type = "ARRAY"  -> rcs_catc(out, "]")
    [] OTHER                   -> out

Written == IF step = "open" THEN Opening(output, cursor) ELSE Closing(output, cursor)

\* state1, with a label that lacks its value refused after it was written.
OpenValue(f) ==
  /\ call = f /\ step = "open"
  /\ IF IsLabel(cursor) /\ heap[cursor].child = NULL
     THEN Return("BAD_TREE_STRUCTURE")
     ELSE /\ output' = Written
          /\ IF heap[cursor].type \in {"STRING", "OBJECT", "ARRAY"} /\ heap[cursor].child # NULL
             THEN cursor' = heap[cursor].child /\ step' = "open"
             ELSE step' = "close" /\ UNCHANGED cursor
          /\ UNCHANGED <<call, root, result>>
  /\ UNCHANGED heap

\* What the caller gets, or finds in the stream.
Handed(f) == IF f = "tree_to_string" THEN rcs_unwrap(Written) ELSE Append(Written.text, "\n")

\* A bug to tell from the code: up to the top of the tree, whatever the argument was.
CloseValueToTop(f) ==
  /\ call = f /\ step = "close"
  /\ IF heap[cursor].parent = NULL
     THEN Return("OK")
     ELSE /\ output' = Written
          /\ IF heap[cursor].next # NULL
             THEN cursor' = heap[cursor].next /\ step' = "open"
             ELSE cursor' = heap[cursor].parent /\ step' = "close"
          /\ UNCHANGED <<call, root, result>>
  /\ UNCHANGED heap

\* state2, up to the argument.
CloseValue(f) ==
  /\ call = f /\ step = "close"
  /\ IF heap[cursor].parent = NULL \/ cursor = root
     THEN Return("OK")
     ELSE /\ output' = Written
          /\ IF heap[cursor].next # NULL
             THEN cursor' = heap[cursor].next /\ step' = "open"
             ELSE cursor' = heap[cursor].parent /\ step' = "close"
          /\ UNCHANGED <<call, root, result>>
  /\ UNCHANGED heap

OpenInString  == OpenValue("tree_to_string")
CloseInString == CloseValue("tree_to_string")
OpenInStream  == OpenValue("stream_output")
CloseInStream == CloseValue("stream_output")

\* A string that cannot grow: the call gives up, and its text so far is lost.
StringRunsOut ==
  /\ call = "tree_to_string" /\ Written.max # output.max
  /\ Return("MEMORY") /\ UNCHANGED heap

\* A stream that cannot be written to: only the colon of an object's member is tested.
StreamRunsOut ==
  /\ call = "stream_output" /\ step = "open" /\ IsLabel(cursor)
  /\ heap[cursor].parent # NULL /\ heap[cursor].child # NULL
  /\ Return("MEMORY") /\ UNCHANGED heap

Walk == \/ FreeDescends \/ FreeOne
        \/ OpenInString \/ CloseInString \/ StringRunsOut
        \/ OpenInStream \/ CloseInStream \/ StreamRunsOut

\* From the value n the parents lead to top.
Beneath(h, n, top) ==
  \A s \in SUBSET Allocated(h) : n \in s /\ (\A k \in s : h[k].parent \in s \cup {NULL}) => top \in s

-----------------------------------------------------------------------------
\* A value as RFC 4627 writes it, around the text of what it holds.
ValueText(n, members) ==
  LET v      == heap[n]
      string == <<"\"">> \o v.text \o <<"\"">>
  IN CASE v.type = "STRING" /\ v.child = NULL -> string
       [] v.type = "STRING" /\ v.child # NULL -> string \o <<":">> \o members
       [] v.type = "NUMBER"   -> v.text
       [] v.type \in Literals -> LiteralText(v.type)
       [] v.type = "OBJECT"   -> <<"{">> \o members \o <<"}">>
       [] OTHER               -> <<"[">> \o members \o <<"]">>

\* The values of a list up to n, with commas between them.
Listing[n \in Allocated(heap) \cup {NULL}] ==
  IF n = NULL THEN <<>>
  ELSE (IF heap[n].previous = NULL THEN <<>> ELSE Listing[heap[n].previous] \o <<",">>)
       \o ValueText(n, Listing[heap[n].child_end])

Document(n) == ValueText(n, Listing[heap[n].child_end])

\* A tree that stands for a document: each label has one value, no other string has any.
WellFormed(top) ==
  \A n \in Allocated(heap) :
    heap[n].type = "STRING" /\ Beneath(heap, n, top) =>
      IF IsLabel(n) THEN heap[n].child # NULL /\ heap[heap[n].child].next = NULL ELSE heap[n].child = NULL

(* The links of the values always agree, in the middle of a walk too: a child's parent, the first and the last of a   *)
(* list, next and previous; and none leads to a value that has been freed.                                            *)
TreeSound ==
  \A n \in Allocated(heap) :
    LET v == heap[n] IN
    /\ {v.parent, v.child, v.child_end, v.previous, v.next} \subseteq Allocated(heap) \cup {NULL}
    /\ (v.child = NULL) = (v.child_end = NULL)
    /\ v.child # NULL => /\ heap[v.child].parent = n /\ heap[v.child].previous = NULL
                         /\ heap[v.child_end].parent = n /\ heap[v.child_end].next = NULL
    /\ v.next # NULL => heap[v.next].previous = n /\ heap[v.next].parent = v.parent
    /\ v.previous # NULL => heap[v.previous].next = n
    /\ v.parent # NULL => /\ v.previous = NULL => heap[v.parent].child = n
                          /\ v.next = NULL => heap[v.parent].child_end = n

(* Printing a well-formed tree, or a part of one, gives the document it stands for, whether to a string or to a       *)
(* stream: the cursor visits every value once and in order, and stops at the value it was given.                      *)
PrintsTheDocument ==
  [][\A f \in {"tree_to_string", "stream_output"} :
       CloseValue(f) /\ result' = "OK" /\ WellFormed(root) =>
         Handed(f) = Document(root) \o (IF f = "stream_output" THEN <<"\n">> ELSE <<>>)]_tree

(* The text being printed and its terminator stay inside what was allocated.                                          *)
OutputFits == output # NULL => Fits(output)

(* A value is freed only by json_free_value, and only below the value that was given to it.                           *)
FreesItsTree ==
  [][\A n \in Allocated(heap) : heap'[n] = Free => call = "free" /\ Beneath(heap, n, root)]_tree

(* Without a stack, a walk goes over the tree it was given, all of it and nothing else.                               *)
WalksTheTree == PrintsTheDocument /\ FreesItsTree

(* Every walk over a tree ends.                                                                                       *)
CallsReturn == call # "none" ~> call \in {"none", "aborted"}

=============================================================================
