--------------------------- MODULE JsonTreeProofs ---------------------------
(***************************************************************************)
(* Theorems about the trees of json.c, for any number of values and texts  *)
(* of any length: of a program that builds them in any way, and of the     *)
(* parser.  The trees are sound; and in their printing the text has room,  *)
(* a well-formed tree is printed as the document it stands for, and a      *)
(* document that was read is printed as it was written.                    *)
(***************************************************************************)
EXTENDS JsonBuilder, JsonParser, SequenceTheorems, FiniteSetTheorems, WellFoundedInduction, TLAPS

-----------------------------------------------------------------------------
(* The links of a heap *)

Links == Nodes \cup {NULL}
Cells == [type : Types, text : Labels \cup Texts \cup {Number, NULL},
          parent : Links, child : Links, child_end : Links, previous : Links, next : Links]
Heaps == [Nodes -> Cells \cup {Free}]

\* No link leads out of what is allocated.
Inside(h) ==
  \A n \in Allocated(h) :
    /\ h[n].parent \in Allocated(h) \cup {NULL}
    /\ h[n].child \in Allocated(h) \cup {NULL} /\ h[n].child_end \in Allocated(h) \cup {NULL}
    /\ h[n].previous \in Allocated(h) \cup {NULL} /\ h[n].next \in Allocated(h) \cup {NULL}

\* The two ends of a list of children.
Ended(h) ==
  \A n \in Allocated(h) :
    /\ h[n].child = NULL <=> h[n].child_end = NULL
    /\ h[n].child # NULL => /\ h[h[n].child].parent = n /\ h[h[n].child].previous = NULL
                            /\ h[h[n].child_end].parent = n /\ h[h[n].child_end].next = NULL

\* The values of a list, one after the other.
Chained(h) ==
  \A n \in Allocated(h) :
    /\ h[n].next # NULL => h[h[n].next].previous = n /\ h[h[n].next].parent = h[n].parent
    /\ h[n].previous # NULL => h[h[n].previous].next = n

\* A value is in the list of its parent, which has one; without a parent it is alone.
Listed(h) ==
  \A n \in Allocated(h) :
    /\ h[n].parent # NULL => /\ h[n].previous = NULL => h[h[n].parent].child = n
                             /\ h[n].next = NULL => h[h[n].parent].child_end = n
                             /\ h[h[n].parent].child # NULL
    /\ h[n].parent = NULL => h[n].previous = NULL /\ h[n].next = NULL

\* No list is a ring.
InOrderBy(h, rank) == \A n \in Allocated(h) : h[n].next # NULL => rank[n] < rank[h[n].next]
Ordered(h) == \E rank \in [Nodes -> Nat] : InOrderBy(h, rank)

Linked(h) == h \in Heaps /\ Inside(h) /\ Ended(h) /\ Chained(h) /\ Listed(h) /\ Ordered(h)

\* A walk that frees is at a value from which the parents lead to its argument.
Below(h, top, at) ==
  \E s \in SUBSET Allocated(h) : top \in s /\ at \in s /\ \A n \in s \ {top} : h[n].parent \in s

TreeInv ==
  /\ Linked(heap)
  /\ call = "free" => Below(heap, root, cursor)

-----------------------------------------------------------------------------
(* The tree of the parser *)

\* No value is above itself.
LayeredBy(h, depth) == \A n \in Allocated(h) : h[n].parent # NULL => depth[h[n].parent] < depth[n]
Layered(h) == \E depth \in [Nodes -> Nat] : LayeredBy(h, depth)

OnlyRoot(h, top) == top \in Allocated(h) /\ \A n \in Allocated(h) : h[n].parent = NULL <=> n = top
IsMember(h, n) == h[n].type = "STRING" /\ h[n].parent # NULL /\ h[h[n].parent].type = "OBJECT"

\* In an object there are labels, and only a label of an object has a value.
Shaped(h) ==
  \A n \in Allocated(h) :
    h[n].parent # NULL => \/ h[h[n].parent].type = "OBJECT" /\ h[n].type = "STRING"
                          \/ IsMember(h, h[n].parent)
                          \/ h[h[n].parent].type = "ARRAY"

\* What the cursor of the parser is at, state by state.
AtState(h, state, at) ==
  /\ state = 0 => at = NULL /\ Allocated(h) = {}
  /\ state = 1 /\ at = NULL => Allocated(h) = {}
  /\ (state = 1 /\ at # NULL) \/ state = 7 => at \in Allocated(h) /\ (IsMember(h, at) \/ h[at].type = "ARRAY")
  /\ state \in {2, 3, 4} => at \in Allocated(h) /\ h[at].type = "OBJECT"
  /\ state \in {5, 6} => at \in Allocated(h) /\ IsMember(h, at)
  /\ state \in {8, 9} => at \in Allocated(h) /\ h[at].type = "ARRAY"
  /\ state = 99 => at \in Allocated(h) /\ h[at].parent = NULL

ReadingInv ==
  verdict = "reading" =>
    /\ info.state \in 0..9 \cup {99}
    /\ call = "none" /\ given = NULL
    /\ AtState(heap, info.state, info.cursor)
    /\ Allocated(heap) # {} => \E top \in Nodes : OnlyRoot(heap, top)

AcceptedInv ==
  verdict = "accepted" =>
    /\ given # NULL => call # "free" /\ OnlyRoot(heap, given)
    /\ given = NULL => \/ call = "free" /\ OnlyRoot(heap, root)
                       \/ call # "free" /\ Allocated(heap) = {}

ParserInv ==
  /\ TreeInv /\ Layered(heap) /\ Shaped(heap)
  /\ mode \in {"stream", "document"}
  /\ given # NULL => verdict = "accepted"
  /\ ReadingInv /\ AcceptedInv

-----------------------------------------------------------------------------
(* What the calls change, link by link *)

(* A value that is allocated is a cell, and one that is not is free.                                                  *)
LEMMA AllocatedCells ==
  ASSUME NEW h \in Heaps
  PROVE  /\ \A n \in Allocated(h) : n \in Nodes /\ h[n] \in Cells
         /\ \A n \in Nodes : h[n] \in Cells => n \in Allocated(h)
         /\ Allocated(h) \subseteq Nodes
<1>1. Free \notin Cells
  BY DEF Free, Cells, Types, Scalars, Literals
<1> QED  BY <1>1 DEF Heaps, Allocated

\* One heap has another cell at n than the other.
Changed(h, g, n, c) ==
  /\ g \in Heaps /\ Allocated(g) = Allocated(h)
  /\ g[n] = c /\ c \in Cells
  /\ \A k \in Nodes : k # n => g[k] = h[k]

LEMMA SetCell ==
  ASSUME NEW h \in Heaps, NEW n \in Allocated(h), NEW c \in Cells
  PROVE  Changed(h, [h EXCEPT ![n] = c], n, c)
<1>1. n \in Nodes /\ DOMAIN h = Nodes
  BY DEF Allocated, Heaps
<1>2. c # Free /\ h[n] # Free
  BY DEF Cells, Free, Types, Scalars, Literals, Allocated
<1>3. \A k \in Nodes : [h EXCEPT ![n] = c][k] = IF k = n THEN c ELSE h[k]
  BY <1>1
<1>4. [h EXCEPT ![n] = c] \in Heaps
  BY <1>1 DEF Heaps
<1> QED  BY <1>1, <1>2, <1>3, <1>4 DEF Allocated, Changed

\* A cell with other links.
Relinked(c, parent, child, end, previous, next) ==
  [type |-> c.type, text |-> c.text, parent |-> parent, child |-> child,
   child_end |-> end, previous |-> previous, next |-> next]

(* A heap with one link of a value replaced.                                                                          *)
LEMMA SetLink ==
  ASSUME NEW h \in Heaps, NEW n \in Allocated(h), NEW x \in Links
  PROVE  /\ Changed(h, [h EXCEPT ![n].parent = x], n,
              Relinked(h[n], x, h[n].child, h[n].child_end, h[n].previous, h[n].next))
         /\ Changed(h, [h EXCEPT ![n].child = x], n,
              Relinked(h[n], h[n].parent, x, h[n].child_end, h[n].previous, h[n].next))
         /\ Changed(h, [h EXCEPT ![n].child_end = x], n,
              Relinked(h[n], h[n].parent, h[n].child, x, h[n].previous, h[n].next))
         /\ Changed(h, [h EXCEPT ![n].previous = x], n,
              Relinked(h[n], h[n].parent, h[n].child, h[n].child_end, x, h[n].next))
         /\ Changed(h, [h EXCEPT ![n].next = x], n,
              Relinked(h[n], h[n].parent, h[n].child, h[n].child_end, h[n].previous, x))
<1>1. h[n] \in Cells /\ n \in Nodes
  BY AllocatedCells
<1>2. Changed(h, [h EXCEPT ![n].parent = x], n,
           Relinked(h[n], x, h[n].child, h[n].child_end, h[n].previous, h[n].next))
  <2>1. [h[n] EXCEPT !.parent = x] = Relinked(h[n], x, h[n].child, h[n].child_end, h[n].previous, h[n].next)
    BY <1>1 DEF Cells, Relinked
  <2>2. [h[n] EXCEPT !.parent = x] \in Cells
    BY <1>1 DEF Cells
  <2> QED  BY <2>1, <2>2, SetCell, Zenon
<1>3. Changed(h, [h EXCEPT ![n].child = x], n,
           Relinked(h[n], h[n].parent, x, h[n].child_end, h[n].previous, h[n].next))
  <2>1. [h[n] EXCEPT !.child = x] = Relinked(h[n], h[n].parent, x, h[n].child_end, h[n].previous, h[n].next)
    BY <1>1 DEF Cells, Relinked
  <2>2. [h[n] EXCEPT !.child = x] \in Cells
    BY <1>1 DEF Cells
  <2> QED  BY <2>1, <2>2, SetCell, Zenon
<1>4. Changed(h, [h EXCEPT ![n].child_end = x], n,
           Relinked(h[n], h[n].parent, h[n].child, x, h[n].previous, h[n].next))
  <2>1. [h[n] EXCEPT !.child_end = x] = Relinked(h[n], h[n].parent, h[n].child, x, h[n].previous, h[n].next)
    BY <1>1 DEF Cells, Relinked
  <2>2. [h[n] EXCEPT !.child_end = x] \in Cells
    BY <1>1 DEF Cells
  <2> QED  BY <2>1, <2>2, SetCell, Zenon
<1>5. Changed(h, [h EXCEPT ![n].previous = x], n,
           Relinked(h[n], h[n].parent, h[n].child, h[n].child_end, x, h[n].next))
  <2>1. [h[n] EXCEPT !.previous = x] = Relinked(h[n], h[n].parent, h[n].child, h[n].child_end, x, h[n].next)
    BY <1>1 DEF Cells, Relinked
  <2>2. [h[n] EXCEPT !.previous = x] \in Cells
    BY <1>1 DEF Cells
  <2> QED  BY <2>1, <2>2, SetCell, Zenon
<1>6. Changed(h, [h EXCEPT ![n].next = x], n,
           Relinked(h[n], h[n].parent, h[n].child, h[n].child_end, h[n].previous, x))
  <2>1. [h[n] EXCEPT !.next = x] = Relinked(h[n], h[n].parent, h[n].child, h[n].child_end, h[n].previous, x)
    BY <1>1 DEF Cells, Relinked
  <2>2. [h[n] EXCEPT !.next = x] \in Cells
    BY <1>1 DEF Cells
  <2> QED  BY <2>1, <2>2, SetCell, Zenon
<1> QED  BY <1>2, <1>3, <1>4, <1>5, <1>6

(* json_insert_child, link by link: the child gets its parent and follows the one that was last.                      *)
InsertedBy(h, g, p, c) ==
  /\ g \in Heaps /\ Allocated(g) = Allocated(h)
  /\ \A n \in Allocated(h) :
       /\ g[n].type = h[n].type /\ g[n].text = h[n].text
       /\ g[n].parent    = IF n = c THEN p ELSE h[n].parent
       /\ g[n].child     = IF n = p /\ h[p].child = NULL THEN c ELSE h[n].child
       /\ g[n].child_end = IF n = p THEN c ELSE h[n].child_end
       /\ g[n].previous  = IF n = c THEN h[p].child_end ELSE h[n].previous
       /\ g[n].next      = IF n = h[p].child_end THEN c ELSE h[n].next

LEMMA InsertLinks ==
  ASSUME NEW h, Linked(h), NEW p \in Allocated(h), NEW c \in Allocated(h), p # c, h[c].parent = NULL
  PROVE  InsertedBy(h, json_insert_child(h, p, c), p, c)
<1> DEFINE e  == h[p].child_end
           h1 == [h EXCEPT ![c].parent = p]
<1>0. /\ h \in Heaps /\ p \in Nodes /\ c \in Nodes /\ NULL \notin Nodes
      /\ h[p] \in Cells /\ h[c] \in Cells /\ p \in Links /\ c \in Links
  BY AllocatedCells, TreeNodes DEF Linked, Nodes, Links
<1>1. h[c].previous = NULL /\ h[c].next = NULL
  BY DEF Linked, Listed
<1>2. /\ h[p].child = NULL <=> e = NULL
      /\ e # NULL => e \in Allocated(h) /\ h[e].parent = p /\ e # c /\ e \in Nodes /\ h[e] \in Cells /\ e \in Links
  BY <1>0, AllocatedCells DEF Linked, Ended, Inside, Links
<1>3. Changed(h, h1, c, Relinked(h[c], p, h[c].child, h[c].child_end, h[c].previous, h[c].next))
  BY <1>0, SetLink
<1>4. CASE h[p].child # NULL
  <2> DEFINE h2 == [h1 EXCEPT ![c].previous = e]
             h3 == [h2 EXCEPT ![e].next = c]
             h4 == [h3 EXCEPT ![p].child_end = c]
  <2>1. json_insert_child(h, p, c) = h4
    BY <1>4 DEF json_insert_child
  <2>2. Changed(h1, h2, c, Relinked(h1[c], h1[c].parent, h1[c].child, h1[c].child_end, e, h1[c].next))
    <3> HIDE DEF h1
    <3>1. h1 \in Heaps /\ c \in Allocated(h1) /\ e \in Links
      BY <1>2, <1>3, <1>4 DEF Changed
    <3> QED  BY <3>1, SetLink
  <2>3. Changed(h2, h3, e, Relinked(h2[e], h2[e].parent, h2[e].child, h2[e].child_end, h2[e].previous, c))
    <3> HIDE DEF h1, h2
    <3>1. h2 \in Heaps /\ e \in Allocated(h2) /\ c \in Links
      BY <1>0, <1>2, <1>3, <1>4, <2>2 DEF Changed
    <3> QED  BY <3>1, SetLink
  <2>4. Changed(h3, h4, p, Relinked(h3[p], h3[p].parent, h3[p].child, c, h3[p].previous, h3[p].next))
    <3> HIDE DEF h1, h2, h3
    <3>1. h3 \in Heaps /\ p \in Allocated(h3) /\ c \in Links
      BY <1>0, <1>3, <2>2, <2>3 DEF Changed
    <3> QED  BY <3>1, SetLink
  <2>5. InsertedBy(h, h4, p, c)
    <3> HIDE DEF h1, h2, h3, h4
    <3> QED  BY <1>0, <1>1, <1>2, <1>3, <1>4, <2>2, <2>3, <2>4, AllocatedCells DEF Changed, Relinked, InsertedBy, e
  <2> QED  BY <2>1, <2>5
<1>5. CASE h[p].child = NULL
  <2> DEFINE h2 == [h1 EXCEPT ![p].child = c]
             h3 == [h2 EXCEPT ![p].child_end = c]
  <2>1. json_insert_child(h, p, c) = h3
    BY <1>5 DEF json_insert_child
  <2>2. Changed(h1, h2, p, Relinked(h1[p], h1[p].parent, c, h1[p].child_end, h1[p].previous, h1[p].next))
    <3> HIDE DEF h1
    <3>1. h1 \in Heaps /\ p \in Allocated(h1) /\ c \in Links
      BY <1>0, <1>3 DEF Changed
    <3> QED  BY <3>1, SetLink
  <2>3. Changed(h2, h3, p, Relinked(h2[p], h2[p].parent, h2[p].child, c, h2[p].previous, h2[p].next))
    <3> HIDE DEF h1, h2
    <3>1. h2 \in Heaps /\ p \in Allocated(h2) /\ c \in Links
      BY <1>0, <1>3, <2>2 DEF Changed
    <3> QED  BY <3>1, SetLink
  <2>4. InsertedBy(h, h3, p, c)
    <3> HIDE DEF h1, h2, h3
    <3> QED  BY <1>0, <1>1, <1>2, <1>3, <1>5, <2>2, <2>3, AllocatedCells DEF Changed, Relinked, InsertedBy, e
  <2> QED  BY <2>1, <2>4
<1> QED  BY <1>4, <1>5

(* An insertion keeps the links in agreement.                                                                         *)
LEMMA InsertKeepsLinked ==
  ASSUME NEW h, Linked(h), NEW p \in Allocated(h), NEW c \in Allocated(h), p # c, h[c].parent = NULL
  PROVE  Linked(json_insert_child(h, p, c))
<1> DEFINE g == json_insert_child(h, p, c)
           e == h[p].child_end
<1>1. InsertedBy(h, g, p, c)
  BY InsertLinks
<1> HIDE DEF g
<1>2. /\ h \in Heaps /\ Allocated(h) \subseteq Nodes /\ NULL \notin Allocated(h)
      /\ g \in Heaps /\ Allocated(g) = Allocated(h)
  BY <1>1, AllocatedCells, TreeNodes DEF Linked, Nodes, InsertedBy
<1>3. Inside(h) /\ Ended(h) /\ Chained(h) /\ Listed(h) /\ Ordered(h)
  BY DEF Linked
<1>4. /\ h[c].previous = NULL /\ h[c].next = NULL
      /\ \A n \in Allocated(h) : h[n].previous # c /\ h[n].next # c /\ h[n].child # c /\ h[n].child_end # c
  BY <1>2, <1>3 DEF Listed, Ended, Chained
<1>5. /\ h[p].child = NULL <=> e = NULL
      /\ e # NULL => e \in Allocated(h) /\ h[e].parent = p /\ h[e].next = NULL /\ e # c
      /\ \A n \in Allocated(h) : h[n].child_end = e /\ e # NULL => n = p
      /\ \A n \in Allocated(h) : h[n].previous = e /\ e # NULL => FALSE
  BY <1>2, <1>3 DEF Ended, Inside, Chained
<1>6. Inside(g)
  BY <1>1, <1>2, <1>3, <1>5 DEF Inside, InsertedBy
<1>7. Ended(g)
  BY <1>1, <1>2, <1>3, <1>4, <1>5 DEF Inside, Ended, InsertedBy
<1>8. Chained(g)
  BY <1>1, <1>2, <1>3, <1>4, <1>5 DEF Inside, Chained, InsertedBy
<1>9. Listed(g)
  BY <1>1, <1>2, <1>3, <1>4, <1>5 DEF Inside, Listed, InsertedBy
<1>10. Ordered(g)
  <2>1. PICK rank \in [Nodes -> Nat] : InOrderBy(h, rank)
    BY <1>3 DEF Ordered
  <2> DEFINE after == [rank EXCEPT ![c] = IF e = NULL THEN 0 ELSE rank[e] + 1]
  <2>2. after \in [Nodes -> Nat] /\ \A n \in Nodes : after[n] = IF n # c THEN rank[n] ELSE IF e = NULL THEN 0 ELSE rank[e] + 1
    BY <1>2, <1>5
  <2> HIDE DEF after
  <2>3. InOrderBy(g, after)
    BY <1>1, <1>2, <1>3, <1>4, <1>5, <2>1, <2>2 DEF Inside, InOrderBy, InsertedBy
  <2> QED  BY <2>2, <2>3 DEF Ordered
<1> QED  BY <1>2, <1>6, <1>7, <1>8, <1>9, <1>10 DEF Linked, g

(* Any numbers have a least one.                                                                                      *)
LEMMA LeastNumber ==
  ASSUME NEW S \in SUBSET Nat, S # {}
  PROVE  \E x \in S : \A y \in S : x =< y
<1> DEFINE before == OpToRel(<, Nat)
<1>1. IsWellFoundedOn(before, Nat)
  BY NatLessThanWellFounded, Zenon
<1>2. \A x, y \in Nat : y < x => <<y, x>> \in before
  BY DEF OpToRel
<1> HIDE DEF before
<1>3. \E x \in S : \A y \in S : ~ (<<y, x>> \in before)
  BY <1>1, WFMin, Zenon
<1>4. PICK x \in S : \A y \in S : ~ (<<y, x>> \in before)
  BY <1>3, Zenon
<1>5. \A y \in S : ~ (y < x)
  BY <1>2, <1>4, Zenon
<1> QED  BY <1>5

(* The value that a new one gets was free.                                                                            *)
LEMMA FirstFreeIsFree ==
  ASSUME NEW h, HasMemory(h)
  PROVE  FirstFree(h) \in Nodes \ Allocated(h)
<1>1. Nodes \ Allocated(h) \in SUBSET Nat /\ Nodes \ Allocated(h) # {}
  BY TreeNodes DEF HasMemory, Allocated, Nodes
<1>2. \E n \in Nodes \ Allocated(h) : \A k \in Nodes \ Allocated(h) : n =< k
  BY <1>1, LeastNumber
<1> QED  BY <1>2, Zenon DEF FirstFree

(* json_new_value makes a value without links out of one that is free.                                                *)
FreshIn(h, g, n, type, text) ==
  /\ g \in Heaps /\ n \in Nodes \ Allocated(h) /\ Allocated(g) = Allocated(h) \cup {n}
  /\ g[n].type = type /\ g[n].text = text
  /\ g[n].parent = NULL /\ g[n].child = NULL /\ g[n].child_end = NULL /\ g[n].previous = NULL /\ g[n].next = NULL
  /\ \A k \in Allocated(h) : g[k] = h[k] /\ k # n

LEMMA NewLinks ==
  ASSUME NEW h \in Heaps, NEW n \in Nodes \ Allocated(h), NEW type \in Types,
         NEW text \in Labels \cup Texts \cup {Number, NULL}
  PROVE  FreshIn(h, json_new_value(h, n, type, text), n, type, text)
<1> DEFINE c == [type |-> type, text |-> text, parent |-> NULL, child |-> NULL,
                 child_end |-> NULL, previous |-> NULL, next |-> NULL]
           g == [h EXCEPT ![n] = c]
<1>1. c \in Cells /\ Free \notin Cells
  BY DEF Cells, Links, Free, Types, Scalars, Literals
<1>2. json_new_value(h, n, type, text) = g
  BY DEF json_new_value
<1>3. \A k \in Nodes : g[k] = IF k = n THEN c ELSE h[k]
  BY DEF Heaps
<1>4. g \in Heaps
  BY <1>1 DEF Heaps
<1>5. Allocated(g) = Allocated(h) \cup {n}
  BY <1>1, <1>3 DEF Allocated
<1> HIDE DEF g
<1> QED  BY <1>2, <1>3, <1>4, <1>5 DEF FreshIn, Allocated

LEMMA NewKeepsLinked ==
  ASSUME NEW h, Linked(h), NEW g, NEW n, NEW type, NEW text, FreshIn(h, g, n, type, text)
  PROVE  Linked(g)
<1>1. /\ h \in Heaps /\ g \in Heaps /\ NULL \notin Nodes /\ Allocated(h) \subseteq Nodes
      /\ Inside(h) /\ Ended(h) /\ Chained(h) /\ Listed(h) /\ Ordered(h)
  BY AllocatedCells, TreeNodes DEF Linked, FreshIn, Nodes
<1>2. Inside(g)
  BY <1>1 DEF Inside, FreshIn
<1>3. Ended(g)
  BY <1>1 DEF Inside, Ended, FreshIn
<1>4. Chained(g)
  BY <1>1 DEF Inside, Chained, FreshIn
<1>5. Listed(g)
  BY <1>1 DEF Inside, Listed, FreshIn
<1>6. Ordered(g)
  BY <1>1 DEF Inside, Ordered, InOrderBy, FreshIn
<1> QED  BY <1>1, <1>2, <1>3, <1>4, <1>5, <1>6 DEF Linked

(* intern_json_free_value, link by link: every link to the value leads to what came before or after it.               *)
RemovedFrom(h, g, n) ==
  /\ g \in Heaps /\ Allocated(g) = Allocated(h) \ {n}
  /\ \A k \in Allocated(g) :
       /\ g[k].type = h[k].type /\ g[k].text = h[k].text /\ g[k].parent = h[k].parent
       /\ g[k].child     = IF h[k].child = n THEN h[n].next ELSE h[k].child
       /\ g[k].child_end = IF h[k].child_end = n THEN h[n].previous ELSE h[k].child_end
       /\ g[k].previous  = IF h[k].previous = n THEN h[n].previous ELSE h[k].previous
       /\ g[k].next      = IF h[k].next = n THEN h[n].next ELSE h[k].next

LEMMA RemoveLinks ==
  ASSUME NEW h, Linked(h), NEW n \in Allocated(h), h[n].child = NULL
  PROVE  RemovedFrom(h, intern_json_free_value(h, n), n)
<1> DEFINE v == h[n]
           siblings == [k \in Nodes |->
             CASE k = v.previous -> [h[k] EXCEPT !.next = v.next]
               [] k = v.next     -> [h[k] EXCEPT !.previous = v.previous]
               [] OTHER          -> h[k]]
           first == [siblings EXCEPT ![v.parent].child = IF @ = n THEN v.next ELSE @]
           last  == [first EXCEPT ![v.parent].child_end = IF @ = n THEN v.previous ELSE @]
           alone == IF v.parent = NULL THEN siblings ELSE last
<1>1. /\ h \in Heaps /\ n \in Nodes /\ NULL \notin Nodes /\ Allocated(h) \subseteq Nodes
      /\ Inside(h) /\ Ended(h) /\ Chained(h) /\ Listed(h)
      /\ \A k \in Allocated(h) : h[k] \in Cells
      /\ \A k \in Nodes \ Allocated(h) : h[k] = Free
      /\ {v.previous, v.next, v.parent} \subseteq Links
  BY AllocatedCells, TreeNodes DEF Linked, Nodes, Inside, Links, Allocated
<1>2. v.previous # NULL => v.previous # v.next
  <2>1. PICK rank \in [Nodes -> Nat] : InOrderBy(h, rank)
    BY DEF Linked, Ordered
  <2> QED  BY <1>1, <2>1 DEF Chained, Inside, InOrderBy
<1>3. /\ v.next # NULL => v.next \in Allocated(h) /\ v.next # n
      /\ v.previous # NULL => v.previous \in Allocated(h) /\ v.previous # n
      /\ v.parent # NULL => v.parent \in Allocated(h) /\ v.parent # n
  <2>1. PICK rank \in [Nodes -> Nat] : InOrderBy(h, rank)
    BY DEF Linked, Ordered
  <2> QED  BY <1>1, <2>1 DEF Inside, Chained, InOrderBy, Listed
<1>4. \A k \in Allocated(h) :
        /\ h[k].previous = n <=> k = v.next
        /\ h[k].next = n <=> k = v.previous
        /\ h[k].child = n => k = v.parent
        /\ h[k].child_end = n => k = v.parent
  BY <1>1, <1>3 DEF Chained, Ended, Inside
<1>5. /\ siblings \in Heaps /\ Allocated(siblings) = Allocated(h)
      /\ \A k \in Allocated(h) :
           /\ siblings[k].type = h[k].type /\ siblings[k].text = h[k].text /\ siblings[k].parent = h[k].parent
           /\ siblings[k].child = h[k].child /\ siblings[k].child_end = h[k].child_end
           /\ siblings[k].previous = IF k = v.next THEN v.previous ELSE h[k].previous
           /\ siblings[k].next = IF k = v.previous THEN v.next ELSE h[k].next
  <2>1. \A k \in Nodes : siblings[k] = CASE k = v.previous -> [h[k] EXCEPT !.next = v.next]
                                         [] k = v.next     -> [h[k] EXCEPT !.previous = v.previous]
                                         [] OTHER          -> h[k]
    OBVIOUS
  <2>2. DOMAIN siblings = Nodes /\ siblings = [k \in Nodes |-> siblings[k]]
    OBVIOUS
  <2> HIDE DEF siblings
  <2>3. ASSUME NEW k \in Allocated(h)
        PROVE  /\ siblings[k] \in Cells
               /\ siblings[k].type = h[k].type /\ siblings[k].text = h[k].text /\ siblings[k].parent = h[k].parent
               /\ siblings[k].child = h[k].child /\ siblings[k].child_end = h[k].child_end
               /\ siblings[k].previous = IF k = v.next THEN v.previous ELSE h[k].previous
               /\ siblings[k].next = IF k = v.previous THEN v.next ELSE h[k].next
    <3>1. k \in Nodes /\ h[k] \in Cells /\ k # NULL /\ {v.previous, v.next} \subseteq Links
      BY <1>1
    <3>2. CASE k = v.previous
      <4>1. siblings[k] = [h[k] EXCEPT !.next = v.next] /\ k # v.next
        BY <1>2, <2>1, <3>1, <3>2
      <4> QED  BY <3>1, <3>2, <4>1 DEF Cells
    <3>3. CASE k # v.previous /\ k = v.next
      <4>1. siblings[k] = [h[k] EXCEPT !.previous = v.previous]
        BY <2>1, <3>1, <3>3
      <4> QED  BY <3>1, <3>3, <4>1 DEF Cells
    <3>4. CASE k # v.previous /\ k # v.next
      <4>1. siblings[k] = h[k]
        BY <2>1, <3>1, <3>4
      <4> QED  BY <3>1, <3>4, <4>1
    <3> QED  BY <3>2, <3>3, <3>4
  <2>4. \A k \in Nodes \ Allocated(h) : siblings[k] = Free
    BY <1>1, <1>3, <2>1
  <2>5. siblings \in Heaps
    BY <1>1, <2>2, <2>3, <2>4 DEF Heaps
  <2>6. Allocated(siblings) = Allocated(h)
    BY <1>1, <2>3, <2>4, <2>5, AllocatedCells DEF Allocated
  <2> QED  BY <2>3, <2>5, <2>6
<1>6. /\ alone \in Heaps /\ Allocated(alone) = Allocated(h)
      /\ \A k \in Allocated(h) :
           /\ alone[k].type = h[k].type /\ alone[k].text = h[k].text /\ alone[k].parent = h[k].parent
           /\ alone[k].child     = IF h[k].child = n THEN v.next ELSE h[k].child
           /\ alone[k].child_end = IF h[k].child_end = n THEN v.previous ELSE h[k].child_end
           /\ alone[k].previous = IF k = v.next THEN v.previous ELSE h[k].previous
           /\ alone[k].next = IF k = v.previous THEN v.next ELSE h[k].next
  <2>1. CASE v.parent = NULL
    <3>1. alone = siblings
      BY <2>1
    <3> HIDE DEF siblings, alone
    <3>2. \A k \in Allocated(h) : h[k].child # n /\ h[k].child_end # n
      BY <1>1, <1>4, <2>1
    <3> QED  BY <1>5, <3>1, <3>2
  <2>2. CASE v.parent # NULL
    <3> DEFINE p == v.parent
               child == IF siblings[p].child = n THEN v.next ELSE siblings[p].child
               end   == IF first[p].child_end = n THEN v.previous ELSE first[p].child_end
    <3>1. alone = last /\ p \in Nodes /\ p \in Allocated(h)
      BY <1>1, <1>3, <2>2
    <3>2. DOMAIN siblings = Nodes
      OBVIOUS
    <3> HIDE DEF siblings, alone
    <3>3. first = [siblings EXCEPT ![p].child = child] /\ DOMAIN first = Nodes
      BY <3>1, <3>2
    <3>4. child \in Links
      BY <1>1, <1>5, <3>1 DEF Inside, Links
    <3> HIDE DEF first, child
    <3>5. last = [first EXCEPT ![p].child_end = end]
      BY <3>1, <3>3
    <3>6. Changed(siblings, first, p, Relinked(siblings[p], siblings[p].parent, child,
                    siblings[p].child_end, siblings[p].previous, siblings[p].next))
      BY <1>5, <3>1, <3>3, <3>4, SetLink
    <3>7. end \in Links
      BY <1>1, <1>5, <3>1, <3>6 DEF Relinked, Inside, Links, Changed
    <3> HIDE DEF last, end
    <3>8. Changed(first, last, p, Relinked(first[p], first[p].parent, first[p].child, end,
                    first[p].previous, first[p].next))
      <4>1. first \in Heaps /\ p \in Allocated(first)
        BY <1>5, <3>1, <3>6 DEF Changed
      <4> QED  BY <3>5, <3>7, <4>1, SetLink
    <3>9. \A k \in Allocated(h) : (h[k].child = n \/ h[k].child_end = n) => k = p
      BY <1>4
    <3> QED  BY <1>1, <1>5, <3>1, <3>6, <3>8, <3>9 DEF Changed, Relinked, child, end
  <2> QED  BY <2>1, <2>2
<1>7. intern_json_free_value(h, n) = [alone EXCEPT ![n] = Free]
  <2>1. last = [siblings EXCEPT ![v.parent].child     = IF @ = n THEN v.next ELSE @,
                                ![v.parent].child_end = IF @ = n THEN v.previous ELSE @]
    <3> HIDE DEF siblings
    <3> QED  OBVIOUS
  <2> QED  BY <2>1 DEF intern_json_free_value
<1> HIDE DEF siblings, first, last, alone
<1> DEFINE g == [alone EXCEPT ![n] = Free]
<1>8. \A k \in Nodes : g[k] = IF k = n THEN Free ELSE alone[k]
  BY <1>6 DEF Heaps
<1>9. g \in Heaps
  BY <1>6 DEF Heaps
<1>10. Allocated(g) = Allocated(h) \ {n}
  BY <1>1, <1>6, <1>8 DEF Allocated
<1> HIDE DEF g
<1>11. \A k \in Allocated(h) \ {n} : g[k] = alone[k]
  BY <1>1, <1>8
<1>12. RemovedFrom(h, g, n)
  BY <1>4, <1>6, <1>9, <1>10, <1>11 DEF RemovedFrom
<1> QED  BY <1>7, <1>12 DEF g

(* A value without children can be removed, and the links still agree.                                                *)
LEMMA RemoveKeepsLinked ==
  ASSUME NEW h, Linked(h), NEW n \in Allocated(h), h[n].child = NULL,
         NEW g, RemovedFrom(h, g, n)
  PROVE  Linked(g)
<1>1. /\ h \in Heaps /\ NULL \notin Nodes /\ Allocated(h) \subseteq Nodes
      /\ Inside(h) /\ Ended(h) /\ Chained(h) /\ Listed(h) /\ Ordered(h)
      /\ g \in Heaps /\ Allocated(g) = Allocated(h) \ {n} /\ NULL \notin Allocated(h)
  BY AllocatedCells, TreeNodes DEF Linked, Nodes, RemovedFrom
<1>2. PICK rank \in [Nodes -> Nat] : InOrderBy(h, rank)
  BY <1>1 DEF Ordered
<1>3. /\ h[n].next # n /\ h[n].previous # n /\ h[n].parent # n
      /\ \A k \in Allocated(h) : h[k].parent # n
  BY <1>1, <1>2 DEF Inside, Chained, InOrderBy, Listed
<1>4. \A k \in Allocated(h) :
        /\ h[k].previous = n <=> k = h[n].next
        /\ h[k].next = n <=> k = h[n].previous
        /\ h[k].child = n => k = h[n].parent /\ h[n].previous = NULL
        /\ h[k].child_end = n => k = h[n].parent /\ h[n].next = NULL
        /\ h[n].previous = NULL /\ k = h[n].parent => h[k].child = n
        /\ h[n].next = NULL /\ k = h[n].parent => h[k].child_end = n
  BY <1>1, <1>3 DEF Chained, Ended, Inside, Listed
<1>5. /\ h[n].next # NULL => h[n].next \in Allocated(g) /\ h[h[n].next].parent = h[n].parent
      /\ h[n].previous # NULL => h[n].previous \in Allocated(g) /\ h[h[n].previous].parent = h[n].parent
      /\ h[n].next # NULL /\ h[n].previous # NULL => rank[h[n].previous] < rank[h[n].next]
  BY <1>1, <1>2, <1>3 DEF Inside, Chained, InOrderBy
<1>6. Inside(g)
  BY <1>1, <1>3, <1>5 DEF Inside, RemovedFrom
<1>7. Ended(g)
  BY <1>1, <1>3, <1>4, <1>5 DEF Inside, Ended, Chained, RemovedFrom
<1>8. Chained(g)
  BY <1>1, <1>3, <1>4, <1>5 DEF Inside, Chained, RemovedFrom
<1>9. \A k \in Allocated(g) : g[k].parent # NULL => g[g[k].parent].child # NULL
  <2> SUFFICES ASSUME NEW k \in Allocated(g), g[k].parent # NULL, g[g[k].parent].child = NULL
               PROVE  FALSE
    OBVIOUS
  <2> DEFINE p == h[k].parent
             others == {j \in Allocated(g) : h[j].parent = p}
  <2>1. p = g[k].parent /\ p \in Allocated(g)
    BY <1>1, <1>3 DEF RemovedFrom, Inside
  <2>2. h[p].child = n /\ h[n].next = NULL /\ h[n].parent = p
    BY <1>1, <1>4, <2>1 DEF RemovedFrom, Listed
  <2>3. \E j \in others : \A i \in others : rank[j] =< rank[i]
    <3>1. {rank[j] : j \in others} \in SUBSET Nat /\ {rank[j] : j \in others} # {}
      BY <1>1
    <3>2. \E x \in {rank[j] : j \in others} : \A y \in {rank[j] : j \in others} : x =< y
      BY <3>1, LeastNumber
    <3> QED  BY <3>2
  <2>4. PICK j \in others : \A i \in others : rank[j] =< rank[i]
    BY <2>3
  <2>5. h[j].previous # NULL /\ h[j].previous # n
    BY <1>1, <1>4, <2>1, <2>2, <2>4 DEF Listed
  <2>6. h[j].previous \in others /\ h[h[j].previous].next = j
    BY <1>1, <2>1, <2>4, <2>5 DEF Inside, Chained
  <2> QED  BY <1>1, <1>2, <2>4, <2>6 DEF InOrderBy
<1>10. Listed(g)
  BY <1>1, <1>3, <1>4, <1>5, <1>9 DEF Inside, Listed, RemovedFrom
<1>11. InOrderBy(g, rank)
  BY <1>1, <1>2, <1>3, <1>4, <1>5 DEF Inside, InOrderBy, RemovedFrom
<1> QED  BY <1>1, <1>6, <1>7, <1>8, <1>10, <1>11 DEF Linked, Ordered

(* A walk that frees starts at its argument, goes to a child, and comes back to a parent.                             *)
LEMMA WalkStaysBelow ==
  /\ \A h, top : top \in Allocated(h) => Below(h, top, top)
  /\ \A h, top, at : Inside(h) /\ Ended(h) /\ Below(h, top, at) /\ h[at].child # NULL => Below(h, top, h[at].child)
  /\ \A h, g, top, at : /\ Linked(h) /\ Below(h, top, at) /\ at # top /\ h[at].child = NULL /\ RemovedFrom(h, g, at)
                        => Below(g, top, h[at].parent)
<1>1. ASSUME NEW h, NEW top \in Allocated(h)
      PROVE  Below(h, top, top)
  <2>1. {top} \in SUBSET Allocated(h) /\ \A n \in {top} \ {top} : h[n].parent \in {top}
    OBVIOUS
  <2> QED  BY <2>1 DEF Below
<1>2. ASSUME NEW h, NEW top, NEW at, Inside(h), Ended(h), Below(h, top, at), h[at].child # NULL
      PROVE  Below(h, top, h[at].child)
  <2>1. PICK s \in SUBSET Allocated(h) : top \in s /\ at \in s /\ \A n \in s \ {top} : h[n].parent \in s
    BY <1>2 DEF Below
  <2> DEFINE t == s \cup {h[at].child}
  <2>2. t \in SUBSET Allocated(h) /\ top \in t /\ h[at].child \in t /\ \A n \in t \ {top} : h[n].parent \in t
    BY <1>2, <2>1 DEF Inside, Ended
  <2> HIDE DEF t
  <2> QED  BY <2>2 DEF Below
<1>3. ASSUME NEW h, NEW g, NEW top, NEW at, Linked(h), Below(h, top, at), at # top, h[at].child = NULL,
             RemovedFrom(h, g, at)
      PROVE  Below(g, top, h[at].parent)
  <2>1. PICK s \in SUBSET Allocated(h) : top \in s /\ at \in s /\ \A n \in s \ {top} : h[n].parent \in s
    BY <1>3 DEF Below
  <2>2. NULL \notin Allocated(h)
    BY <1>3, AllocatedCells, TreeNodes DEF Linked, Nodes
  <2>3. \A n \in Allocated(h) : h[n].parent # at
    BY <1>3, <2>1, <2>2 DEF Linked, Listed
  <2> DEFINE t == s \ {at}
  <2>4. t \in SUBSET Allocated(g) /\ top \in t /\ h[at].parent \in t /\ \A n \in t \ {top} : g[n].parent \in t
    BY <1>3, <2>1, <2>3 DEF RemovedFrom
  <2> HIDE DEF t
  <2> QED  BY <2>4 DEF Below
<1> QED  BY <1>1, <1>2, <1>3

-----------------------------------------------------------------------------
(* No value is above itself *)

(* What parents lead to.                                                                                              *)
LEMMA BeneathParent ==
  ASSUME NEW h, NEW top \in Allocated(h), NEW n \in Allocated(h), n # top, h[n].parent \in Allocated(h), NULL \notin Allocated(h)
  PROVE  Beneath(h, n, top) <=> Beneath(h, h[n].parent, top)
<1> DEFINE p == h[n].parent
<1>1. ASSUME Beneath(h, p, top), NEW s \in SUBSET Allocated(h), n \in s, \A k \in s : h[k].parent \in s \cup {NULL}
      PROVE  top \in s
  BY <1>1 DEF Beneath
<1>2. ASSUME Beneath(h, n, top), NEW s \in SUBSET Allocated(h), p \in s, \A k \in s : h[k].parent \in s \cup {NULL}
      PROVE  top \in s
  <2> DEFINE t == s \cup {n}
  <2>1. t \in SUBSET Allocated(h) /\ n \in t /\ \A k \in t : h[k].parent \in t \cup {NULL}
    BY <1>2
  <2>2. top \in t
    BY <1>2, <2>1, Zenon DEF Beneath
  <2> QED  BY <2>2
<1> QED  BY <1>1, <1>2 DEF Beneath

(* A value that is not above the one it is inserted into can be inserted there, with all that is below it.            *)
LEMMA InsertKeepsLayered ==
  ASSUME NEW h, Linked(h), Layered(h), NEW p \in Allocated(h), NEW c \in Allocated(h), h[c].parent = NULL,
         ~Beneath(h, p, c), NEW g, InsertedBy(h, g, p, c)
  PROVE  Layered(g)
<1>1. /\ Inside(h) /\ NULL \notin Allocated(h) /\ Allocated(h) \subseteq Nodes
  BY AllocatedCells, TreeNodes DEF Linked, Nodes
<1>2. PICK depth \in [Nodes -> Nat] : LayeredBy(h, depth)
  BY DEF Layered
<1> DEFINE deeper == [n \in Nodes |-> IF Beneath(h, n, c) THEN depth[n] + depth[p] + 1 ELSE depth[n]]
<1>3. deeper \in [Nodes -> Nat]
  BY <1>1
<1>4. \A n \in Nodes : deeper[n] = IF Beneath(h, n, c) THEN depth[n] + depth[p] + 1 ELSE depth[n]
  OBVIOUS
<1> HIDE DEF deeper
<1>5. Beneath(h, c, c) /\ p \in Nodes /\ c \in Nodes
  BY <1>1 DEF Beneath
<1>6. ASSUME NEW n \in Allocated(g), g[n].parent # NULL
      PROVE  deeper[g[n].parent] < deeper[n]
  <2>1. CASE n = c
    BY <1>1, <1>4, <1>5, <2>1 DEF InsertedBy
  <2>2. CASE n # c
    <3>1. /\ n \in Allocated(h) /\ g[n].parent = h[n].parent /\ h[n].parent \in Allocated(h)
          /\ depth[h[n].parent] < depth[n] /\ n \in Nodes /\ h[n].parent \in Nodes
      BY <1>1, <1>2, <1>6, <2>2 DEF InsertedBy, Inside, LayeredBy
    <3>2. Beneath(h, n, c) <=> Beneath(h, h[n].parent, c)
      BY <1>1, <2>2, <3>1, BeneathParent
    <3>3. depth[n] \in Nat /\ depth[h[n].parent] \in Nat /\ depth[p] \in Nat
      BY <1>5, <3>1
    <3> QED  BY <1>4, <3>1, <3>2, <3>3
  <2> QED  BY <2>1, <2>2
<1> QED  BY <1>3, <1>6 DEF Layered, LayeredBy

LEMMA NewKeepsLayered ==
  ASSUME NEW h, Linked(h), Layered(h), NEW g, NEW n, NEW type, NEW text, FreshIn(h, g, n, type, text)
  PROVE  Layered(g)
BY AllocatedCells, TreeNodes DEF Linked, Nodes, Layered, LayeredBy, Inside, FreshIn

LEMMA RemoveKeepsLayered ==
  ASSUME NEW h, Linked(h), Layered(h), NEW n \in Allocated(h), h[n].child = NULL, NEW g, RemovedFrom(h, g, n)
  PROVE  Layered(g)
<1>1. \A k \in Allocated(h) : h[k].parent # n
  BY AllocatedCells, TreeNodes DEF Linked, Nodes, Listed
<1> QED  BY <1>1 DEF Linked, Layered, LayeredBy, Inside, RemovedFrom

(* The value a walk is at is below its argument.                                                                      *)
LEMMA BelowIsBeneath ==
  ASSUME NEW h, Linked(h), Layered(h), NEW top, NEW at, Below(h, top, at)
  PROVE  Beneath(h, at, top)
<1>1. NULL \notin Allocated(h) /\ Allocated(h) \subseteq Nodes
  BY AllocatedCells, TreeNodes DEF Linked, Nodes
<1>2. PICK depth \in [Nodes -> Nat] : LayeredBy(h, depth)
  BY DEF Layered
<1>3. PICK t \in SUBSET Allocated(h) : top \in t /\ at \in t /\ \A n \in t \ {top} : h[n].parent \in t
  BY DEF Below
<1> SUFFICES ASSUME NEW s \in SUBSET Allocated(h), at \in s, \A k \in s : h[k].parent \in s \cup {NULL}, top \notin s
             PROVE  FALSE
  BY DEF Beneath
<1>4. {depth[n] : n \in s \cap t} \in SUBSET Nat /\ {depth[n] : n \in s \cap t} # {}
  BY <1>1, <1>3
<1>5. \E x \in {depth[n] : n \in s \cap t} : \A y \in {depth[n] : n \in s \cap t} : x =< y
  BY <1>4, LeastNumber
<1>6. PICK n \in s \cap t : \A k \in s \cap t : depth[n] =< depth[k]
  BY <1>5
<1>7. h[n].parent \in s \cap t /\ h[n].parent # NULL
  BY <1>1, <1>3, <1>6
<1> QED  BY <1>1, <1>2, <1>6, <1>7 DEF LayeredBy

-----------------------------------------------------------------------------
(* The walks, and a program that builds trees *)

LEMMA LinkedIsSound == Linked(heap) => TreeSound
<1> SUFFICES ASSUME Linked(heap), NEW n \in Allocated(heap)
             PROVE  LET v == heap[n] IN
    /\ {v.parent, v.child, v.child_end, v.previous, v.next} \subseteq Allocated(heap) \cup {NULL}
    /\ (v.child = NULL) = (v.child_end = NULL)
    /\ v.child # NULL => /\ heap[v.child].parent = n /\ heap[v.child].previous = NULL
                         /\ heap[v.child_end].parent = n /\ heap[v.child_end].next = NULL
    /\ v.next # NULL => heap[v.next].previous = n /\ heap[v.next].parent = v.parent
    /\ v.previous # NULL => heap[v.previous].next = n
    /\ v.parent # NULL => /\ v.previous = NULL => heap[v.parent].child = n
                          /\ v.next = NULL => heap[v.parent].child_end = n
  BY DEF TreeSound
<1> QED  BY DEF Linked, Inside, Ended, Chained, Listed

LEMMA InitTree == TreeInit => TreeInv /\ Layered(heap) /\ Allocated(heap) = {}
<1> SUFFICES ASSUME TreeInit
             PROVE  TreeInv /\ Layered(heap) /\ Allocated(heap) = {}
  OBVIOUS
<1>1. heap \in Heaps /\ Allocated(heap) = {} /\ call = "none"
  BY DEF TreeInit, Heaps, Allocated
<1> DEFINE zero == [n \in Nodes |-> 0]
<1>2. zero \in [Nodes -> Nat] /\ InOrderBy(heap, zero) /\ LayeredBy(heap, zero)
  BY <1>1 DEF InOrderBy, LayeredBy
<1> HIDE DEF zero
<1>3. Ordered(heap) /\ Layered(heap)
  BY <1>2 DEF Ordered, Layered
<1> QED  BY <1>1, <1>3 DEF TreeInv, Linked, Inside, Ended, Chained, Listed

(* Whatever a walk does to the tree, it does at its cursor, and that is below its argument.                           *)
LEMMA FreeOneRemoves ==
  ASSUME TreeInv, FreeOne
  PROVE  /\ RemovedFrom(heap, heap', cursor) /\ cursor \in Allocated(heap) /\ root \in Allocated(heap)
         /\ heap[cursor].child = NULL
<1>1. cursor \in Allocated(heap) /\ root \in Allocated(heap) /\ heap[cursor].child = NULL
  BY DEF FreeOne, TreeInv, Below
<1> QED  BY <1>1, RemoveLinks DEF FreeOne, TreeInv

LEMMA WalkKeepsTree ==
  ASSUME TreeInv, Walk
  PROVE  TreeInv'
<1>1. CASE FreeDescends
  BY <1>1, WalkStaysBelow DEF TreeInv, FreeDescends, Linked
<1>2. CASE FreeOne
  <2>1. RemovedFrom(heap, heap', cursor) /\ cursor \in Allocated(heap) /\ heap[cursor].child = NULL
    BY <1>2, FreeOneRemoves
  <2>2. Linked(heap)'
    BY <2>1, RemoveKeepsLinked DEF TreeInv
  <2>3. CASE cursor = root
    BY <1>2, <2>2, <2>3 DEF TreeInv, FreeOne, Return
  <2>4. CASE cursor # root
    <3>1. call = "free" /\ root' = root /\ cursor' = heap[cursor].parent
      BY <1>2, <2>4 DEF FreeOne
    <3>2. Below(heap', root, heap[cursor].parent)
      BY <2>1, <2>4, <3>1, WalkStaysBelow DEF TreeInv
    <3> QED  BY <2>2, <3>1, <3>2 DEF TreeInv
  <2> QED  BY <2>3, <2>4
<1>3. CASE \E f \in {"tree_to_string", "stream_output"} : OpenValue(f) \/ CloseValue(f)
  BY <1>3 DEF TreeInv, OpenValue, CloseValue, Return
<1>4. CASE StringRunsOut \/ StreamRunsOut
  BY <1>4 DEF TreeInv, StringRunsOut, StreamRunsOut, Return
<1> QED  BY <1>1, <1>2, <1>3, <1>4 DEF Walk, OpenInString, CloseInString, OpenInStream, CloseInStream

LEMMA WalkKeepsLayered ==
  ASSUME TreeInv, Layered(heap), Walk
  PROVE  Layered(heap') /\ (FreeOne \/ UNCHANGED heap)
<1>1. CASE FreeOne
  BY <1>1, FreeOneRemoves, RemoveKeepsLayered DEF TreeInv
<1>2. CASE ~FreeOne
  BY <1>2 DEF Walk, FreeDescends, OpenInString, CloseInString, OpenInStream, CloseInStream, OpenValue, CloseValue,
       StringRunsOut, StreamRunsOut
<1> QED  BY <1>1, <1>2

\* What the builder's steps keep of its trees; what they free comes from the walks only.
BuilderInv == TreeInv /\ Layered(heap)
NothingFreed == Allocated(heap) \subseteq Allocated(heap')

LEMMA BuilderKeepsTree ==
  ASSUME BuilderInv, BuilderNext
  PROVE  BuilderInv' /\ (FreeOne \/ NothingFreed)
<1>0. Linked(heap) /\ Layered(heap) /\ heap \in Heaps /\ NULL \notin Allocated(heap)
  BY AllocatedCells, TreeNodes DEF BuilderInv, TreeInv, Linked, Nodes
<1>1. CASE \E type \in NewTypes : NewValue(type)
  <2>0. PICK type \in NewTypes : NewValue(type)
    BY <1>1
  <2>1. PICK text \in IF type \in {"STRING", "NUMBER"} THEN Labels ELSE {NULL} :
          heap' = json_new_value(heap, FirstFree(heap), type, text)
    BY <2>0 DEF NewValue
  <2>2. type \in Types /\ text \in Labels \cup Texts \cup {Number, NULL} /\ HasMemory(heap) /\ call' = "none"
    BY <2>0, BuilderTypes DEF NewValue, Return
  <2>3. FreshIn(heap, heap', FirstFree(heap), type, text)
    BY <1>0, <2>1, <2>2, FirstFreeIsFree, NewLinks
  <2> QED  BY <1>0, <2>2, <2>3, NewKeepsLinked, NewKeepsLayered DEF BuilderInv, TreeInv, FreshIn, NothingFreed
<1>2. CASE \E parent, child \in Mine : InsertChild(parent, child)
  <2>1. PICK parent, child \in Mine : InsertChild(parent, child)
    BY <1>2
  <2>2. /\ parent \in Allocated(heap) /\ child \in Allocated(heap) /\ heap[child].parent = NULL
        /\ ~Beneath(heap, parent, child)
        /\ call' = "none" /\ (heap' = heap \/ heap' = json_insert_child(heap, parent, child))
    BY <2>1 DEF InsertChild, Mine, Roots, Return
  <2>3. parent # child
    BY <2>2 DEF Beneath
  <2>4. ASSUME heap' = json_insert_child(heap, parent, child)
        PROVE  Linked(heap') /\ Layered(heap') /\ NothingFreed
    <3>1. InsertedBy(heap, heap', parent, child)
      BY <1>0, <2>2, <2>3, <2>4, InsertLinks
    <3> QED  BY <1>0, <2>2, <2>3, <2>4, <3>1, InsertKeepsLinked, InsertKeepsLayered DEF InsertedBy, NothingFreed
  <2> QED  BY <1>0, <2>2, <2>4 DEF BuilderInv, TreeInv, NothingFreed
<1>3. CASE \E parent, value \in Mine, text \in Labels : json_insert_pair_into_object(parent, text, value)
  <2>1. PICK parent, value \in Mine, text \in Labels : json_insert_pair_into_object(parent, text, value)
    BY <1>3
  <2> DEFINE label  == FirstFree(heap)
             with   == json_new_value(heap, label, "STRING", text)
             paired == json_insert_child(with, label, value)
  <2>2. /\ parent \in Allocated(heap) /\ value \in Allocated(heap) /\ heap[value].parent = NULL
        /\ ~Beneath(heap, parent, value) /\ HasMemory(heap) /\ call' = "none"
        /\ heap' = with \/ heap' = json_insert_child(paired, parent, label)
    BY <2>1 DEF json_insert_pair_into_object, Mine, Roots, Return
  <2>3. FreshIn(heap, with, label, "STRING", text)
    BY <1>0, <2>2, FirstFreeIsFree, NewLinks DEF Types, Scalars
  <2> HIDE DEF label, with
  <2>4. Linked(with) /\ Layered(with)
    BY <1>0, <2>3, NewKeepsLinked, NewKeepsLayered
  <2>5. label \in Allocated(with) /\ value \in Allocated(with) /\ label # value /\ with[value].parent = NULL
    BY <2>2, <2>3 DEF FreshIn
  <2>6. Linked(paired) /\ InsertedBy(with, paired, label, value)
    BY <2>4, <2>5, InsertLinks, InsertKeepsLinked
  <2> HIDE DEF paired
  <2>7. Layered(paired)
    <3>1. {label} \in SUBSET Allocated(with) /\ with[label].parent = NULL /\ value \notin {label}
      BY <2>3, <2>5 DEF FreshIn
    <3>2. ~Beneath(with, label, value)
      BY <3>1 DEF Beneath
    <3> QED  BY <2>4, <2>5, <2>6, <3>2, InsertKeepsLayered
  <2>8. parent \in Allocated(paired) /\ label \in Allocated(paired) /\ parent # label /\ paired[label].parent = NULL
    BY <2>2, <2>3, <2>5, <2>6 DEF FreshIn, InsertedBy
  <2>9. ~Beneath(paired, parent, label)
    <3>1. PICK s \in SUBSET Allocated(heap) : parent \in s /\ (\A k \in s : heap[k].parent \in s \cup {NULL}) /\ value \notin s
      BY <2>2 DEF Beneath
    <3>2. s \in SUBSET Allocated(paired) /\ label \notin s /\ \A k \in s : paired[k].parent = heap[k].parent
      BY <2>3, <2>6, <3>1 DEF FreshIn, InsertedBy
    <3> QED  BY <3>1, <3>2 DEF Beneath
  <2>10. ASSUME heap' = json_insert_child(paired, parent, label)
         PROVE  Linked(heap') /\ Layered(heap') /\ Allocated(heap') = Allocated(paired)
    <3>1. InsertedBy(paired, heap', parent, label)
      BY <2>6, <2>8, <2>10, InsertLinks
    <3> QED  BY <2>6, <2>7, <2>8, <2>9, <2>10, <3>1, InsertKeepsLinked, InsertKeepsLayered DEF InsertedBy
  <2>11. Linked(heap') /\ Layered(heap') /\ NothingFreed
    BY <2>2, <2>3, <2>4, <2>6, <2>10 DEF FreshIn, InsertedBy, NothingFreed
  <2> QED  BY <2>2, <2>11 DEF BuilderInv, TreeInv
<1>4. CASE \E v \in Mine : Call(v)
  BY <1>4, WalkStaysBelow DEF BuilderInv, TreeInv, Call, json_free_value, json_tree_to_string, json_stream_output, Prints,
       TreeToStringAborts, Mine, NothingFreed
<1>5. CASE Walk
  BY <1>0, <1>5, WalkKeepsTree, WalkKeepsLayered DEF BuilderInv, NothingFreed
<1> QED  BY <1>1, <1>2, <1>3, <1>4, <1>5 DEF BuilderNext

(* A value that FreeOne frees is the one at the cursor.                                                               *)
LEMMA FreesBelow ==
  ASSUME TreeInv, Layered(heap), FreeOne, NEW n \in Allocated(heap), heap'[n] = Free
  PROVE  call = "free" /\ Beneath(heap, n, root)
<1>1. RemovedFrom(heap, heap', cursor) /\ call = "free" /\ Below(heap, root, cursor)
  BY FreeOneRemoves DEF FreeOne, TreeInv
<1>2. n \in Nodes /\ n \notin Allocated(heap')
  BY DEF Allocated
<1>3. n = cursor
  BY <1>1, <1>2 DEF RemovedFrom
<1> QED  BY <1>1, <1>3, BelowIsBeneath DEF TreeInv

LEMMA BuilderInductive ==
  /\ BuilderInit => BuilderInv
  /\ BuilderInv /\ [BuilderNext]_builder => BuilderInv'
<1>1. BuilderInit => BuilderInv
  BY InitTree DEF BuilderInit, BuilderInv
<1>2. BuilderInv /\ UNCHANGED builder => BuilderInv'
  BY DEF BuilderInv, TreeInv, builder, tree
<1> QED  BY <1>1, <1>2, BuilderKeepsTree

(* Any program that calls json_new_..., json_insert_child, json_insert_pair_into_object, json_free_value and the      *)
(* printing functions keeps the links of its trees in agreement, in the middle of every walk too (TreeSound).         *)
THEOREM BuilderTreeSound == BuilderSpec => []TreeSound
<1>1. BuilderInv => TreeSound
  BY LinkedIsSound DEF BuilderInv, TreeInv
<1> QED  BY <1>1, BuilderInductive, PTL DEF BuilderSpec

(* In such a program a value is freed only by json_free_value, and only when it is, by its parents, below the value   *)
(* that was given to it (FreesItsTree).                                                                               *)
THEOREM BuilderFreesItsTree == BuilderSpec => FreesItsTree
<1>1. BuilderInv /\ [BuilderNext]_builder
        => [\A n \in Allocated(heap) : heap'[n] = Free => call = "free" /\ Beneath(heap, n, root)]_tree
  <2> SUFFICES ASSUME BuilderInv, BuilderNext, NEW n \in Allocated(heap), heap'[n] = Free
               PROVE  call = "free" /\ Beneath(heap, n, root)
    BY DEF builder
  <2>1. n \notin Allocated(heap')
    BY DEF Allocated
  <2>2. FreeOne
    BY <2>1, BuilderKeepsTree DEF NothingFreed
  <2> QED  BY <2>2, FreesBelow DEF BuilderInv
<1> QED  BY <1>1, BuilderInductive, PTL DEF BuilderSpec, FreesItsTree

-----------------------------------------------------------------------------
(* The tree of the parser *)

\* What the three changes of a heap keep, besides the links.
Formed(h) == Linked(h) /\ Layered(h) /\ Shaped(h)

LEMMA NewKeepsFormed ==
  ASSUME NEW h, Formed(h), NEW g, NEW n, NEW type, NEW text, FreshIn(h, g, n, type, text)
  PROVE  Formed(g)
<1>1. Linked(h) /\ Linked(g) /\ Inside(h) /\ Layered(h) /\ Shaped(h) /\ NULL \notin Allocated(h)
  BY NewKeepsLinked, AllocatedCells, TreeNodes DEF Formed, Linked, Nodes
<1>2. Layered(g)
  BY <1>1, NewKeepsLayered
<1>3. Shaped(g)
  BY <1>1 DEF Shaped, IsMember, Inside, FreshIn
<1> QED  BY <1>1, <1>2, <1>3 DEF Formed

LEMMA InsertKeepsFormed ==
  ASSUME NEW h, Formed(h), NEW p \in Allocated(h), NEW c \in Allocated(h), p # c,
         h[c].parent = NULL, h[c].child = NULL,
         \/ h[p].type = "OBJECT" /\ h[c].type = "STRING"
         \/ IsMember(h, p)
         \/ h[p].type = "ARRAY"
  PROVE  Formed(json_insert_child(h, p, c)) /\ InsertedBy(h, json_insert_child(h, p, c), p, c)
<1> DEFINE g == json_insert_child(h, p, c)
<1>1. /\ Linked(h) /\ Linked(g) /\ InsertedBy(h, g, p, c) /\ Inside(h) /\ Listed(h) /\ Layered(h) /\ Shaped(h)
      /\ NULL \notin Allocated(h) /\ Allocated(h) \subseteq Nodes
  BY InsertLinks, InsertKeepsLinked, AllocatedCells, TreeNodes DEF Formed, Linked, Nodes
<1> HIDE DEF g
<1>2. \A n \in Allocated(h) : h[n].parent # c
  BY <1>1 DEF Listed
<1>3. Layered(g)
  <2> DEFINE others == Allocated(h) \ {c}
  <2>1. p \in others /\ \A k \in others : h[k].parent \in others \cup {NULL}
    BY <1>1, <1>2 DEF Inside
  <2>2. ~Beneath(h, p, c)
    BY <2>1 DEF Beneath
  <2> QED  BY <1>1, <2>2, InsertKeepsLayered
<1>4. \A n \in Allocated(h) : IsMember(h, n) => IsMember(g, n)
  BY <1>1 DEF IsMember, Inside, InsertedBy
<1>5. Shaped(g)
  BY <1>1, <1>2, <1>4 DEF Shaped, Inside, InsertedBy
<1> QED  BY <1>1, <1>3, <1>5 DEF Formed, g

LEMMA RemoveKeepsFormed ==
  ASSUME NEW h, Formed(h), NEW n \in Allocated(h), h[n].child = NULL, NEW g, RemovedFrom(h, g, n)
  PROVE  /\ Formed(g)
         /\ \A top : OnlyRoot(h, top) /\ n # top => OnlyRoot(g, top)
         /\ OnlyRoot(h, n) => Allocated(g) = {}
<1>1. /\ Linked(h) /\ Linked(g) /\ Inside(h) /\ Listed(h) /\ Layered(h) /\ Shaped(h)
      /\ NULL \notin Allocated(h) /\ Allocated(h) \subseteq Nodes
  BY RemoveKeepsLinked, AllocatedCells, TreeNodes DEF Formed, Linked, Nodes
<1>2. \A k \in Allocated(h) : h[k].parent # n
  BY <1>1 DEF Listed
<1>3. Layered(g)
  BY <1>1, RemoveKeepsLayered
<1>4. Shaped(g)
  BY <1>1, <1>2 DEF Shaped, IsMember, Inside, RemovedFrom
<1>5. \A top : OnlyRoot(h, top) /\ n # top => OnlyRoot(g, top)
  BY DEF OnlyRoot, RemovedFrom
<1>6. ASSUME OnlyRoot(h, n), Allocated(g) # {}
      PROVE  FALSE
  <2>1. PICK depth \in [Nodes -> Nat] : LayeredBy(h, depth)
    BY <1>1 DEF Layered
  <2>2. {depth[k] : k \in Allocated(g)} \in SUBSET Nat /\ {depth[k] : k \in Allocated(g)} # {}
    BY <1>1, <1>6 DEF RemovedFrom
  <2>3. \E x \in {depth[k] : k \in Allocated(g)} : \A y \in {depth[k] : k \in Allocated(g)} : x =< y
    BY <2>2, LeastNumber
  <2>4. PICK k \in Allocated(g) : \A j \in Allocated(g) : depth[k] =< depth[j]
    BY <2>3
  <2>5. h[k].parent # NULL /\ h[k].parent \in Allocated(g)
    BY <1>1, <1>2, <1>6 DEF OnlyRoot, RemovedFrom, Inside
  <2> QED  BY <1>1, <2>1, <2>4, <2>5 DEF LayeredBy, RemovedFrom
<1> QED  BY <1>1, <1>3, <1>4, <1>5, <1>6 DEF Formed

Reading == ParserInv /\ verdict = "reading"

\* What the parser's tree keeps when a value is added to it.
Grown(type, parent) ==
  /\ Formed(heap') /\ New \notin Allocated(heap) /\ New \in Nodes /\ Allocated(heap') = Allocated(heap) \cup {New}
  /\ heap'[New].type = type /\ heap'[New].parent = parent
  /\ \A n \in Allocated(heap) : heap'[n].type = heap[n].type /\ heap'[n].parent = heap[n].parent

\* One heap is the other with a new value c, the last in the list of p.
AddedTo(h, g, p, c, type, text) ==
  /\ g \in Heaps /\ c \in Nodes \ Allocated(h) /\ Allocated(g) = Allocated(h) \cup {c}
  /\ g[c].type = type /\ g[c].text = text
  /\ g[c].parent = p /\ g[c].child = NULL /\ g[c].child_end = NULL
  /\ g[c].previous = h[p].child_end /\ g[c].next = NULL
  /\ \A n \in Allocated(h) :
       /\ g[n].type = h[n].type /\ g[n].text = h[n].text
       /\ g[n].parent = h[n].parent /\ g[n].previous = h[n].previous
       /\ g[n].child     = IF n = p /\ h[p].child = NULL THEN c ELSE h[n].child
       /\ g[n].child_end = IF n = p THEN c ELSE h[n].child_end
       /\ g[n].next      = IF n = h[p].child_end THEN c ELSE h[n].next

(* The insertions of the parser are never refused: where it has its cursor, the new value may go.                     *)
LEMMA ParserInserts ==
  ASSUME Formed(heap), info.cursor \in Allocated(heap), NEW type \in Types,
         NEW text \in Labels \cup Texts \cup {Number, NULL}, NEW next, NEW at,
         Insert(type, text, next, at),
         \/ heap[info.cursor].type = "OBJECT" /\ type = "STRING"
         \/ IsMember(heap, info.cursor)
         \/ heap[info.cursor].type = "ARRAY"
  PROVE  /\ Grown(type, info.cursor) /\ AddedTo(heap, heap', info.cursor, New, type, text)
         /\ info' = [state |-> next, cursor |-> at] /\ UNCHANGED <<call, root, cursor, output>>
<1> DEFINE h == json_new_value(heap, New, type, text)
           p == info.cursor
<1>1. FreshIn(heap, h, New, type, text)
  BY FirstFreeIsFree, NewLinks DEF Insert, Formed, Linked, New
<1>2. Insert(type, text, next, at) =>
        /\ MayInsert(h, p, New) => heap' = json_insert_child(h, p, New) /\ Goes(next, at)
        /\ UNCHANGED <<call, root, cursor, output>>
  BY DEF Insert
<1> HIDE DEF h
<1>3. Formed(h) /\ p \in Allocated(h) /\ New \in Allocated(h) /\ p # New /\ h[New].parent = NULL /\ h[New].child = NULL
  BY <1>1, NewKeepsFormed DEF FreshIn
<1>4. \/ h[p].type = "OBJECT" /\ h[New].type = "STRING"
      \/ IsMember(h, p)
      \/ h[p].type = "ARRAY"
  BY <1>1 DEF FreshIn, IsMember, Formed, Linked, Inside
<1>5. MayInsert(h, p, New)
  BY <1>3, <1>4 DEF MayInsert, IsMember
<1>6. heap' = json_insert_child(h, p, New)
  BY <1>2, <1>5
<1>7. Formed(heap') /\ InsertedBy(h, heap', p, New)
  BY <1>3, <1>4, <1>6, InsertKeepsFormed
<1>8. Grown(type, p)
  BY <1>1, <1>7 DEF Grown, FreshIn, InsertedBy
<1>9. AddedTo(heap, heap', p, New, type, text)
  <2>1. NULL \notin Nodes /\ h[p] = heap[p] /\ heap[p].child_end # New
    BY <1>1, TreeNodes DEF Nodes, FreshIn, Formed, Linked, Inside
  <2> QED  BY <1>1, <1>7, <2>1 DEF AddedTo, FreshIn, InsertedBy
<1> QED  BY <1>2, <1>5, <1>8, <1>9 DEF Goes

(* One value is above all others, before and after an insertion.                                                      *)
LEMMA GrownKeepsRoot ==
  ASSUME NEW type, NEW parent \in Allocated(heap), Formed(heap), Grown(type, parent),
         NEW top, OnlyRoot(heap, top)
  PROVE  OnlyRoot(heap', top)
<1>1. parent # NULL
  BY AllocatedCells, TreeNodes DEF Formed, Linked, Nodes
<1> QED  BY <1>1 DEF OnlyRoot, Grown

(* The parser's turns, when it goes on: from a state about one kind of value to a state about another.                *)
LEMMA ParserGoesOn ==
  ASSUME Formed(heap)', verdict = "reading", verdict' = "reading", UNCHANGED <<given, mode>>, ParserInv, call' = "none",
         info'.state \in 0..9 \cup {99}, AtState(heap, info.state, info.cursor)',
         (Allocated(heap) # {} => \E top \in Nodes : OnlyRoot(heap, top))'
  PROVE  ParserInv'
BY DEF ParserInv, TreeInv, Formed, ReadingInv, AcceptedInv

\* What holds while the parser reads, of the value at its cursor.
AtCursor ==
  /\ Formed(heap) /\ NULL \notin Nodes /\ Allocated(heap) \subseteq Nodes
  /\ info.state \in 0..9 \cup {99} /\ AtState(heap, info.state, info.cursor) /\ call = "none"
  /\ Allocated(heap) # {} => \E top \in Nodes : OnlyRoot(heap, top)

LEMMA ReadingIsAtCursor == Reading => AtCursor
BY AllocatedCells, TreeNodes
   DEF Reading, AtCursor, ParserInv, ReadingInv, TreeInv, Formed, Linked, Nodes

LEMMA TokenTexts ==
  ASSUME NEW t \in Values, NEW text \in TextsOf(t)
  PROVE  t \in Types /\ text \in Labels \cup Texts \cup {Number, NULL}
<1>1. t \in Scalars
  BY ParserValues
<1> QED  BY <1>1 DEF TextsOf, Types

(* States 1 and 7: the container that was announced becomes a value below the cursor, or the first of all.            *)
LEMMA ContainerGrows ==
  ASSUME AtCursor, NEW state \in {1, 7}, NEW type \in {"OBJECT", "ARRAY"}, NEW next \in {2, 8},
         OpenContainer(state, type, next)
  PROVE  /\ Grown(type, info.cursor) /\ info' = [state |-> next, cursor |-> New]
         /\ UNCHANGED <<call, token, verdict, given, mode>>
         /\ info.cursor = NULL => Allocated(heap) = {}
         /\ info.cursor # NULL => info.cursor \in Allocated(heap)
<1>1. /\ AtState(heap, state, info.cursor) /\ type \in Types /\ UNCHANGED <<token, verdict, given, mode>>
      /\ NULL \notin Allocated(heap) /\ Formed(heap) /\ info.state = state
      /\ NULL \in Labels \cup Texts \cup {Number, NULL}
  BY DEF AtCursor, OpenContainer, Kept, Types
<1>2. CASE info.cursor = NULL
  <2>1. heap' = json_new_value(heap, New, type, NULL) /\ info' = [state |-> next, cursor |-> New] /\ HasMemory(heap)
        /\ UNCHANGED call
    BY <1>2 DEF OpenContainer, Goes
  <2>2. Allocated(heap) = {} /\ heap \in Heaps
    BY <1>1, <1>2 DEF AtState, Formed, Linked
  <2>3. FreshIn(heap, heap', New, type, NULL)
    BY <1>1, <2>1, <2>2, FirstFreeIsFree, NewLinks DEF New
  <2>4. Formed(heap')
    BY <1>1, <2>3, NewKeepsFormed
  <2> QED  BY <1>1, <1>2, <2>1, <2>2, <2>3, <2>4 DEF Grown, FreshIn
<1>3. CASE info.cursor # NULL
  <2>1. /\ info.cursor \in Allocated(heap)
        /\ IsMember(heap, info.cursor) \/ heap[info.cursor].type = "ARRAY"
        /\ Insert(type, NULL, next, New)
    BY <1>1, <1>3 DEF AtState, OpenContainer
  <2>2. Grown(type, info.cursor) /\ info' = [state |-> next, cursor |-> New] /\ UNCHANGED call
    BY <1>1, <2>1, ParserInserts
  <2> QED  BY <1>1, <1>3, <2>1, <2>2
<1> QED  BY <1>2, <1>3

LEMMA OpenContainerKeeps ==
  ASSUME Reading, NEW state \in {1, 7}, NEW type \in {"OBJECT", "ARRAY"}, NEW next \in {2, 8},
         next = 2 <=> type = "OBJECT", OpenContainer(state, type, next)
  PROVE  ParserInv' /\ NothingFreed
<1>1. AtCursor
  BY ReadingIsAtCursor
<1>2. /\ Grown(type, info.cursor) /\ info' = [state |-> next, cursor |-> New]
      /\ UNCHANGED <<call, token, verdict, given, mode>>
      /\ info.cursor = NULL => Allocated(heap) = {}
      /\ info.cursor # NULL => info.cursor \in Allocated(heap)
  BY <1>1, ContainerGrows
<1>3. AtState(heap', next, New)
  BY <1>1, <1>2 DEF AtState, AtCursor, Grown
<1>4. \E top \in Nodes : OnlyRoot(heap', top)
  <2>1. CASE info.cursor = NULL
    <3>1. New \in Nodes /\ OnlyRoot(heap', New)
      BY <1>2, <2>1 DEF Grown, OnlyRoot
    <3> QED  BY <3>1
  <2>2. CASE info.cursor # NULL
    BY <1>1, <1>2, <2>2, GrownKeepsRoot DEF AtCursor
  <2> QED  BY <2>1, <2>2
<1> QED  BY <1>1, <1>2, <1>3, <1>4, ParserGoesOn DEF Reading, Grown, AtCursor, NothingFreed

(* States 2 and 4: a label becomes a value of the object at the cursor.                                               *)
LEMMA LabelGrows ==
  ASSUME AtCursor, Label
  PROVE  /\ info.cursor \in Allocated(heap) /\ heap[info.cursor].type = "OBJECT"
         /\ Grown("STRING", info.cursor) /\ token' = "STRING" /\ info' = [state |-> 5, cursor |-> New]
         /\ UNCHANGED call
<1>1. PICK text \in Texts : Reads("STRING", text) /\ Insert("STRING", text, 5, New)
  BY DEF Label
<1>2. /\ info.cursor \in Allocated(heap) /\ heap[info.cursor].type = "OBJECT" /\ "STRING" \in Types
      /\ Formed(heap) /\ text \in Labels \cup Texts \cup {Number, NULL}
  BY DEF Label, AtCursor, AtState, Types, Scalars
<1>3. Grown("STRING", info.cursor) /\ info' = [state |-> 5, cursor |-> New] /\ UNCHANGED call
  BY <1>1, <1>2, ParserInserts
<1> QED  BY <1>1, <1>2, <1>3 DEF Reads

(* State 6: a value of the label at the cursor.                                                                       *)
LEMMA LabelValueGrows ==
  ASSUME AtCursor, LabelValue
  PROVE  LET up == heap[info.cursor].parent
         IN /\ info.cursor \in Allocated(heap) /\ IsMember(heap, info.cursor)
            /\ up # NULL /\ up \in Allocated(heap) /\ heap[up].type = "OBJECT"
            /\ \E t \in Values : Grown(t, info.cursor) /\ token' = t
            /\ info' = [state |-> 3, cursor |-> up] /\ UNCHANGED call
<1> DEFINE up == heap[info.cursor].parent
<1>1. PICK t \in Values : \E text \in TextsOf(t) :
        Reads(t, text) /\ Insert(t, text, 3, IF up = NULL THEN info.cursor ELSE up)
  BY DEF LabelValue
<1>2. PICK text \in TextsOf(t) : Reads(t, text) /\ Insert(t, text, 3, IF up = NULL THEN info.cursor ELSE up)
  BY <1>1
<1>3. info.cursor \in Allocated(heap) /\ IsMember(heap, info.cursor) /\ Formed(heap)
  BY DEF LabelValue, AtCursor, AtState
<1>4. up # NULL /\ up \in Allocated(heap) /\ heap[up].type = "OBJECT"
  BY <1>3 DEF Formed, Linked, Inside, IsMember
<1>5. Grown(t, info.cursor) /\ info' = [state |-> 3, cursor |-> up] /\ UNCHANGED call
  <2>1. Insert(t, text, 3, up)
    BY <1>2, <1>4
  <2> QED  BY <1>3, <2>1, ParserInserts, TokenTexts
<1>6. token' = t
  BY <1>2 DEF Reads
<1> QED  BY <1>3, <1>4, <1>5, <1>6

(* State 8: an element of the array at the cursor.                                                                    *)
LEMMA ElementGrows ==
  ASSUME AtCursor, Element
  PROVE  /\ info.cursor \in Allocated(heap) /\ heap[info.cursor].type = "ARRAY"
         /\ \E t \in Values : Grown(t, info.cursor) /\ token' = t
         /\ info' = [state |-> 9, cursor |-> info.cursor] /\ UNCHANGED call
<1>1. PICK t \in Values : \E text \in TextsOf(t) : Reads(t, text) /\ Insert(t, text, 9, info.cursor)
  BY DEF Element
<1>2. PICK text \in TextsOf(t) : Reads(t, text) /\ Insert(t, text, 9, info.cursor)
  BY <1>1
<1>3. info.cursor \in Allocated(heap) /\ heap[info.cursor].type = "ARRAY"
  BY DEF Element, AtCursor, AtState
<1>4. Grown(t, info.cursor) /\ info' = [state |-> 9, cursor |-> info.cursor] /\ UNCHANGED call
  <2>1. t \in Types /\ text \in Labels \cup Texts \cup {Number, NULL} /\ Formed(heap)
    BY TokenTexts DEF AtCursor
  <2> QED  BY <1>2, <1>3, <2>1, ParserInserts
<1>5. token' = t
  BY <1>2 DEF Reads
<1> QED  BY <1>3, <1>4, <1>5

LEMMA ValueKeeps ==
  ASSUME Reading, Label \/ LabelValue \/ Element
  PROVE  ParserInv' /\ NothingFreed
<1>1. AtCursor /\ UNCHANGED <<verdict, given, mode>>
  BY ReadingIsAtCursor DEF Label, LabelValue, Element, Kept
<1>2. ASSUME NEW type, NEW next, NEW at, info.cursor \in Allocated(heap),
             Grown(type, info.cursor), info' = [state |-> next, cursor |-> at], UNCHANGED call,
             AtState(heap', next, at), next \in 0..9
      PROVE  ParserInv' /\ NothingFreed
  <2>1. \E top \in Nodes : OnlyRoot(heap', top)
    BY <1>1, <1>2, GrownKeepsRoot DEF AtCursor
  <2>2. Formed(heap') /\ NothingFreed
    BY <1>2 DEF Grown, NothingFreed
  <2> QED  BY <1>1, <1>2, <2>1, <2>2, ParserGoesOn DEF Reading, AtCursor
<1>3. CASE Label
  <2>1. /\ info.cursor \in Allocated(heap) /\ heap[info.cursor].type = "OBJECT"
        /\ Grown("STRING", info.cursor) /\ info' = [state |-> 5, cursor |-> New] /\ UNCHANGED call
    BY <1>1, <1>3, LabelGrows
  <2>2. info.cursor # NULL
    BY <1>1, <2>1 DEF AtCursor
  <2>3. AtState(heap', 5, New)
    BY <2>1, <2>2 DEF Grown, AtState, IsMember
  <2> QED  BY <1>2, <2>1, <2>3
<1>4. CASE LabelValue
  <2> DEFINE up == heap[info.cursor].parent
  <2>1. /\ info.cursor \in Allocated(heap) /\ up \in Allocated(heap) /\ heap[up].type = "OBJECT"
        /\ \E t \in Values : Grown(t, info.cursor)
        /\ info' = [state |-> 3, cursor |-> up] /\ UNCHANGED call
    BY <1>1, <1>4, LabelValueGrows
  <2>2. AtState(heap', 3, up)
    BY <2>1 DEF Grown, AtState
  <2> HIDE DEF up
  <2> QED  BY <1>2, <2>1, <2>2
<1>5. CASE Element
  <2>1. /\ info.cursor \in Allocated(heap) /\ heap[info.cursor].type = "ARRAY"
        /\ \E t \in Values : Grown(t, info.cursor)
        /\ info' = [state |-> 9, cursor |-> info.cursor] /\ UNCHANGED call
    BY <1>1, <1>5, ElementGrows
  <2>2. AtState(heap', 9, info.cursor)
    BY <2>1 DEF Grown, AtState
  <2> QED  BY <1>2, <2>1, <2>2
<1> QED  BY <1>3, <1>4, <1>5

(* A container that ends is in an array, or is the value of a label of an object, or is the document.                 *)
LEMMA LeaveGoesUp ==
  ASSUME AtCursor, info.cursor \in Allocated(heap), heap[info.cursor].type \in {"OBJECT", "ARRAY"}, Leave
  PROVE  info'.state \in {3, 9, 99} /\ AtState(heap, info'.state, info'.cursor)
<1> DEFINE at == info.cursor
           up == heap[at].parent
<1>1. Inside(heap) /\ Shaped(heap) /\ NULL \notin Allocated(heap)
  BY DEF AtCursor, Formed, Linked
<1>2. CASE up = NULL
  <2>1. info' = [state |-> 99, cursor |-> at]
    BY <1>2 DEF Leave, Goes
  <2> QED  BY <1>2, <2>1 DEF AtState
<1>3. CASE up # NULL /\ heap[up].type = "STRING"
  <2>1. IsMember(heap, up) /\ up \in Allocated(heap)
    BY <1>1, <1>3 DEF Shaped, IsMember, Inside
  <2>2. info' = [state |-> 3, cursor |-> heap[up].parent]
    BY <1>3 DEF Leave, Goes
  <2> QED  BY <1>1, <2>1, <2>2 DEF AtState, IsMember, Inside
<1>4. CASE up # NULL /\ heap[up].type # "STRING"
  <2>1. heap[up].type = "ARRAY" /\ up \in Allocated(heap)
    BY <1>1, <1>4 DEF Shaped, IsMember, Inside
  <2>2. info' = [state |-> 9, cursor |-> up]
    BY <1>4, <2>1 DEF Leave, Goes
  <2> QED  BY <2>1, <2>2 DEF AtState
<1> QED  BY <1>2, <1>3, <1>4

LEMMA TokenKeeps ==
  ASSUME Reading, Document0 \/ EndObject \/ ObjectComma \/ Colon \/ BeginContainer \/ EndArray \/ ArrayComma
  PROVE  ParserInv' /\ NothingFreed
<1>1. AtCursor /\ UNCHANGED <<heap, call, verdict, given, mode>>
  BY ReadingIsAtCursor
     DEF Document0, EndObject, ObjectComma, Colon, BeginContainer, EndArray, ArrayComma, Kept, NoTree, tree
<1>2. info'.state \in 0..9 \cup {99} /\ AtState(heap, info'.state, info'.cursor)
  <2>1. CASE EndObject
    <3>1. info.cursor \in Allocated(heap) /\ heap[info.cursor].type = "OBJECT" /\ Leave
      BY <1>1, <2>1 DEF EndObject, AtCursor, AtState
    <3> QED  BY <1>1, <3>1, LeaveGoesUp
  <2>2. CASE EndArray
    <3>1. info.cursor \in Allocated(heap) /\ heap[info.cursor].type = "ARRAY" /\ Leave
      BY <1>1, <2>2 DEF EndArray, AtCursor, AtState
    <3> QED  BY <1>1, <3>1, LeaveGoesUp
  <2>3. CASE BeginContainer
    <3>1. info' = [state |-> 1, cursor |-> info.cursor] \/ info' = [state |-> 7, cursor |-> info.cursor]
      BY <2>3 DEF BeginContainer, Goes
    <3> QED  BY <1>1, <2>3, <3>1 DEF BeginContainer, AtCursor, AtState
  <2>4. CASE Document0
    BY <1>1, <2>4 DEF Document0, Goes, AtCursor, AtState
  <2>5. CASE ObjectComma
    BY <1>1, <2>5 DEF ObjectComma, Goes, AtCursor, AtState
  <2>6. CASE Colon
    BY <1>1, <2>6 DEF Colon, Goes, AtCursor, AtState
  <2>7. CASE ArrayComma
    BY <1>1, <2>7 DEF ArrayComma, Goes, AtCursor, AtState
  <2> QED  BY <2>1, <2>2, <2>3, <2>4, <2>5, <2>6, <2>7
<1> QED  BY <1>1, <1>2, ParserGoesOn DEF Reading, AtCursor, NothingFreed

(* The parser stops: on an error the tree is given to json_free_value, or kept, or the program aborts.                *)
LEMMA FailKeeps ==
  ASSUME Reading, NEW code, Fail(code), UNCHANGED mode
  PROVE  ParserInv' /\ NothingFreed
<1>1. AtCursor /\ given = NULL /\ verdict' = "refused" /\ UNCHANGED <<heap, given>> /\ ParserInv
  BY ReadingIsAtCursor DEF Reading, ParserInv, ReadingInv, Fail, json_free_value, Return
<1>2. call' = "free" => Below(heap, root', cursor')
  <2>1. CASE mode = "document"
    BY <2>1 DEF Fail, Return
  <2>2. CASE mode = "stream" /\ info.cursor = NULL
    BY <2>2 DEF Fail
  <2>3. CASE mode = "stream" /\ info.cursor # NULL
    <3>1. root' = info.cursor /\ cursor' = info.cursor
      BY <2>3 DEF Fail, json_free_value
    <3>2. info.cursor \in Allocated(heap)
      BY <1>1, <2>3 DEF AtCursor, AtState
    <3> QED  BY <3>1, <3>2, WalkStaysBelow
  <2> QED  BY <1>1, <2>1, <2>2, <2>3 DEF ParserInv
<1> QED  BY <1>1, <1>2 DEF ParserInv, TreeInv, ReadingInv, AcceptedInv, NothingFreed

LEMMA EndOfFileKeeps ==
  ASSUME Reading, EndOfFile
  PROVE  ParserInv' /\ NothingFreed
<1>1. AtCursor /\ ParserInv /\ given = NULL /\ UNCHANGED <<heap, mode, info>> /\ call' = "none"
  BY ReadingIsAtCursor DEF Reading, ParserInv, ReadingInv, EndOfFile, Return
<1>2. CASE info.state = 99
  <2>1. info.cursor \in Allocated(heap) /\ heap[info.cursor].parent = NULL
    BY <1>1, <1>2 DEF AtCursor, AtState
  <2>2. OnlyRoot(heap, info.cursor)
    BY <1>1, <2>1 DEF AtCursor, OnlyRoot
  <2>3. verdict' = "accepted" /\ given' = info.cursor /\ given' # NULL
    BY <1>1, <1>2, <2>1 DEF EndOfFile, AtCursor
  <2> QED  BY <1>1, <2>2, <2>3 DEF ParserInv, TreeInv, ReadingInv, AcceptedInv, NothingFreed
<1>3. CASE info.state # 99
  <2>1. verdict' = "refused" /\ given' = NULL
    BY <1>1, <1>3 DEF EndOfFile
  <2> QED  BY <1>1, <2>1 DEF ParserInv, TreeInv, ReadingInv, AcceptedInv, NothingFreed
<1> QED  BY <1>2, <1>3

LEMMA ParseKeeps ==
  ASSUME ParserInv, Parse
  PROVE  ParserInv' /\ NothingFreed
<1>1. Reading
  BY DEF Reading, Parse
<1>2. CASE OpenObject \/ OpenArray
  BY <1>1, <1>2, OpenContainerKeeps DEF OpenObject, OpenArray
<1>3. CASE Label \/ LabelValue \/ Element
  BY <1>1, <1>3, ValueKeeps
<1>4. CASE Document0 \/ EndObject \/ ObjectComma \/ Colon \/ BeginContainer \/ EndArray \/ ArrayComma
  BY <1>1, <1>4, TokenKeeps
<1>5. CASE Unexpected
  BY <1>1, <1>5, FailKeeps DEF Unexpected
<1>6. CASE BlankFirstLine
  BY <1>1, <1>6, FailKeeps DEF BlankFirstLine
<1>7. CASE NoMemory
  BY <1>1, <1>7, FailKeeps DEF NoMemory
<1>8. CASE EndOfFile
  BY <1>1, <1>8, EndOfFileKeeps
<1> QED  BY <1>2, <1>3, <1>4, <1>5, <1>6, <1>7, <1>8 DEF Parse, Turn

(* The caller prints and frees; it has the document until it frees it.                                                *)
LEMMA UseKeeps ==
  ASSUME ParserInv, Use
  PROVE  ParserInv'
<1>1. /\ verdict = "accepted" /\ given # NULL /\ OnlyRoot(heap, given) /\ given \in Allocated(heap)
      /\ UNCHANGED <<heap, mode, info, verdict>>
  BY DEF ParserInv, AcceptedInv, OnlyRoot, Use, json_tree_to_string, json_stream_output, Prints, json_free_value
<1>2. CASE json_free_value(given) /\ given' = NULL
  <2>1. call' = "free" /\ root' = given /\ cursor' = given /\ Below(heap, given, given)
    BY <1>1, <1>2, WalkStaysBelow DEF json_free_value
  <2> QED  BY <1>1, <1>2, <2>1 DEF ParserInv, TreeInv, ReadingInv, AcceptedInv
<1>3. CASE (\E v \in {given} \cup FoundValues : json_tree_to_string(v) \/ json_stream_output(v)) /\ UNCHANGED given
  <2>1. call' \in {"tree_to_string", "stream_output"}
    BY <1>3 DEF json_tree_to_string, json_stream_output, Prints
  <2> QED  BY <1>1, <1>3, <2>1 DEF ParserInv, TreeInv, ReadingInv, AcceptedInv
<1> QED  BY <1>2, <1>3 DEF Use

LEMMA WalksKeep ==
  ASSUME ParserInv, Walks
  PROVE  ParserInv'
<1>1. /\ TreeInv' /\ call # "none" /\ verdict # "reading"
      /\ UNCHANGED <<mode, info, verdict, given>>
  BY WalkKeepsTree
     DEF ParserInv, ReadingInv, Walks, Walk, FreeDescends, FreeOne, OpenInString, CloseInString, OpenInStream,
         CloseInStream, OpenValue, CloseValue, StringRunsOut, StreamRunsOut
<1>2. CASE FreeOne
  <2>1. RemovedFrom(heap, heap', cursor) /\ cursor \in Allocated(heap) /\ heap[cursor].child = NULL /\ Formed(heap)
    BY <1>2, FreeOneRemoves DEF ParserInv, TreeInv, Formed
  <2>2. /\ Formed(heap')
        /\ \A top : OnlyRoot(heap, top) /\ cursor # top => OnlyRoot(heap', top)
        /\ OnlyRoot(heap, cursor) => Allocated(heap') = {}
    BY <2>1, RemoveKeepsFormed
  <2>3. IF cursor = root THEN call' = "none" ELSE UNCHANGED <<call, root>>
    BY <1>2 DEF FreeOne, Return
  <2>4. call = "free"
    BY <1>2 DEF FreeOne
  <2>5. AcceptedInv'
    BY <1>1, <2>2, <2>3, <2>4 DEF ParserInv, AcceptedInv
  <2> QED  BY <1>1, <2>2, <2>5 DEF ParserInv, Formed, ReadingInv
<1>3. CASE ~FreeOne
  <2>1. UNCHANGED heap /\ (call = "free" => UNCHANGED <<call, root>>) /\ (call # "free" => call' # "free")
    BY <1>3 DEF Walks, Walk, FreeDescends, OpenInString, CloseInString, OpenInStream,
         CloseInStream, OpenValue, CloseValue, StringRunsOut, StreamRunsOut, Return
  <2> QED  BY <1>1, <2>1 DEF ParserInv, ReadingInv, AcceptedInv
<1> QED  BY <1>2, <1>3

LEMMA ParserInductive ==
  /\ ParserInit => ParserInv
  /\ ParserInv /\ [ParserNext]_parser => ParserInv'
<1>1. ParserInit => ParserInv
  <2> SUFFICES ASSUME ParserInit
               PROVE  ParserInv
    OBVIOUS
  <2>1. TreeInv /\ Layered(heap) /\ Allocated(heap) = {} /\ call = "none"
    BY InitTree DEF ParserInit, TreeInit
  <2> QED  BY <2>1 DEF ParserInit, ParserInv, Shaped, ReadingInv, AcceptedInv, AtState
<1>2. ParserInv /\ UNCHANGED parser => ParserInv'
  BY DEF ParserInv, TreeInv, ReadingInv, AcceptedInv, parser, tree
<1> QED  BY <1>1, <1>2, ParseKeeps, UseKeeps, WalksKeep DEF ParserNext

(* The parser and its caller keep the links of the tree in agreement, on every document, accepted or refused, and     *)
(* when memory runs out at any token (TreeSound).                                                                     *)
THEOREM ParserKeepsTreeSound == ParserSpec => []TreeSound
<1>1. ParserInv => TreeSound
  BY LinkedIsSound DEF ParserInv, TreeInv
<1> QED  BY <1>1, ParserInductive, PTL DEF ParserSpec

(* The parser, when it fails, and its caller free only below the value that they give to json_free_value              *)
(* (FreesItsTree).                                                                                                    *)
THEOREM ParserFreesItsTree == ParserSpec => FreesItsTree
<1>1. ParserInv /\ [ParserNext]_parser
        => [\A n \in Allocated(heap) : heap'[n] = Free => call = "free" /\ Beneath(heap, n, root)]_tree
  <2> SUFFICES ASSUME ParserInv, ParserNext, NEW n \in Allocated(heap), heap'[n] = Free
               PROVE  call = "free" /\ Beneath(heap, n, root)
    BY DEF parser
  <2>1. n \notin Allocated(heap') /\ TreeInv /\ Layered(heap)
    BY DEF Allocated, ParserInv
  <2>2. CASE Parse
    BY <2>1, <2>2, ParseKeeps DEF NothingFreed
  <2>3. CASE Use
    BY <2>1, <2>3 DEF Use, json_tree_to_string, json_stream_output, Prints, json_free_value
  <2>4. CASE Walks
    <3>1. FreeOne
      BY <2>1, <2>4, WalkKeepsLayered DEF Walks
    <3> QED  BY <2>1, <3>1, FreesBelow
  <2> QED  BY <2>2, <2>3, <2>4 DEF ParserNext
<1> QED  BY <1>1, ParserInductive, PTL DEF ParserSpec, FreesItsTree

(* In every state of json_parse_fragment the cursor is at a value of the type that state is about, so that none of    *)
(* its assertions fails; and json_free_value leaves nothing of an accepted document (ParserTreeSound).                *)
THEOREM ParserTreeSoundCorrect == ParserSpec => []ParserTreeSound
<1>1. ParserInv => TreeSanity
  <2> SUFFICES ASSUME ParserInv, verdict = "reading"
               PROVE  TreeSanity
    BY DEF TreeSanity
  <2>1. AtState(heap, info.state, info.cursor) /\ info.state \in 0..9 \cup {99} /\ NULL \notin Allocated(heap)
    BY AllocatedCells, TreeNodes DEF ParserInv, ReadingInv, TreeInv, Linked, Nodes
  <2> QED  BY <2>1 DEF TreeSanity, AtState, IsMember
<1>2. ParserInv => NothingLeft
  BY DEF ParserInv, AcceptedInv, NothingLeft
<1> QED  BY <1>1, <1>2, ParserInductive, PTL DEF ParserSpec, ParserTreeSound

-----------------------------------------------------------------------------
(* The containers above a value *)

OpenBody(h, f, n) ==
  CASE n = NULL -> <<>>
    [] n # NULL /\ h[n].type = "STRING" -> f[h[n].parent]
    [] OTHER -> Append(f[h[n].parent], h[n].type)

\* The function Open, for any heap.
OpenIn(h) == CHOOSE f : f = [n \in Allocated(h) \cup {NULL} |-> OpenBody(h, f, n)]

(* Among any values of a tree there is one whose parent is not among them.                                            *)
LEMMA Uppermost ==
  ASSUME NEW h, h \in Heaps, Layered(h), NEW s \in SUBSET Allocated(h), s # {}
  PROVE  \E n \in s : h[n].parent \notin s
<1>1. PICK depth \in [Nodes -> Nat] : LayeredBy(h, depth)
  BY DEF Layered
<1>2. {depth[n] : n \in s} \in SUBSET Nat /\ {depth[n] : n \in s} # {}
  BY DEF Allocated
<1>3. \E x \in {depth[n] : n \in s} : \A y \in {depth[n] : n \in s} : x =< y
  BY <1>2, LeastNumber
<1>4. PICK n \in s : \A k \in s : depth[n] =< depth[k]
  BY <1>3
<1>5. h[n].parent # NULL => depth[h[n].parent] < depth[n]
  BY <1>1 DEF LayeredBy
<1>6. NULL \notin s
  BY TreeNodes DEF Allocated, Nodes
<1>7. ASSUME h[n].parent \in s
      PROVE  FALSE
  <2>1. depth[n] \in Nat /\ depth[h[n].parent] \in Nat
    BY <1>7 DEF Allocated
  <2> QED  BY <1>4, <1>5, <1>6, <1>7, <2>1
<1> QED  BY <1>7

(* The depths of a tree have a bound.                                                                                 *)
LEMMA DepthsBounded ==
  ASSUME NEW depth \in [Nodes -> Nat]
  PROVE  \E d \in Nat : \A n \in Nodes : depth[n] < d
<1> DEFINE Bounded(m) == \E d \in Nat : \A n \in 1..m : n \in Nodes => depth[n] < d
           bad == {m \in Nat : ~Bounded(m)}
<1>1. MaxNodes \in Nat /\ Nodes = 1..MaxNodes
  BY TreeNodes DEF Nodes
<1>2. SUFFICES bad = {}
  <2>1. Bounded(MaxNodes)
    BY <1>1, <1>2
  <2> QED  BY <1>1, <2>1
<1>3. SUFFICES ASSUME bad # {}
               PROVE  FALSE
  OBVIOUS
<1>4. PICK m \in bad : \A k \in bad : m =< k
  <2>1. bad \in SUBSET Nat
    OBVIOUS
  <2> QED  BY <1>3, <2>1, LeastNumber
<1>5. m \in Nat /\ ~Bounded(m)
  OBVIOUS
<1>6. m # 0
  <2>1. Bounded(0)
    OBVIOUS
  <2> QED  BY <1>5, <2>1
<1>7. m - 1 \in Nat /\ Bounded(m - 1)
  <2>1. m - 1 \in Nat /\ ~(m =< m - 1)
    BY <1>5, <1>6
  <2>2. m - 1 \notin bad
    BY <1>4, <2>1
  <2> QED  BY <2>1, <2>2
<1>8. PICK d \in Nat : \A n \in 1..(m - 1) : n \in Nodes => depth[n] < d
  BY <1>7
<1>9. CASE m \notin Nodes
  <2>1. \A n \in 1..m : n \in Nodes => depth[n] < d
    BY <1>5, <1>8, <1>9
  <2> QED  BY <1>5, <2>1
<1>10. CASE m \in Nodes
  <2>1. depth[m] \in Nat
    BY <1>10
  <2>2. \A n \in 1..m : n \in Nodes => depth[n] < d + depth[m] + 1
    <3> SUFFICES ASSUME NEW n \in 1..m, n \in Nodes
                 PROVE  depth[n] < d + depth[m] + 1
      OBVIOUS
    <3>1. n = m \/ n \in 1..(m - 1)
      BY <1>5
    <3>2. depth[n] \in Nat
      OBVIOUS
    <3> QED  BY <1>8, <2>1, <3>1, <3>2
  <2>3. d + depth[m] + 1 \in Nat
    BY <2>1
  <2> QED  BY <1>5, <2>2, <2>3
<1> QED  BY <1>9, <1>10

(* Open is what its equation says.                                                                                    *)
LEMMA OpenIs ==
  ASSUME NEW h, Formed(h)
  PROVE  OpenIn(h) = [n \in Allocated(h) \cup {NULL} |-> OpenBody(h, OpenIn(h), n)]
<1> DEFINE places == Allocated(h) \cup {NULL}
<1>1. h \in Heaps /\ Inside(h) /\ NULL \notin Allocated(h) /\ Allocated(h) \subseteq Nodes /\ Layered(h)
  BY AllocatedCells, TreeNodes DEF Formed, Linked, Nodes
<1>2. PICK depth \in [Nodes -> Nat] : LayeredBy(h, depth)
  BY <1>1 DEF Layered
<1> DEFINE Upto(d, f) == \A n \in places : n = NULL \/ depth[n] < d => f[n] = OpenBody(h, f, n)
           Some(d) == \E f : f = [n \in places |-> f[n]] /\ Upto(d, f)
           bad == {d \in Nat : ~Some(d)}
<1>3. \A d \in Nat : Some(d)
  <2>1. SUFFICES ASSUME bad # {}
                 PROVE  FALSE
    OBVIOUS
  <2>2. PICK d \in bad : \A k \in bad : d =< k
    <3>1. bad \in SUBSET Nat
      OBVIOUS
    <3> QED  BY <2>1, <3>1, LeastNumber
  <2>3. d \in Nat /\ ~Some(d)
    OBVIOUS
  <2>4. d # 0
    <3> DEFINE f == [n \in places |-> <<>>]
    <3>1. f = [n \in places |-> f[n]]
      OBVIOUS
    <3>2. Upto(0, f)
      <4>1. \A n \in Allocated(h) : depth[n] \in Nat /\ ~(depth[n] < 0)
        BY <1>1
      <4>2. f[NULL] = OpenBody(h, f, NULL)
        BY DEF OpenBody
      <4> QED  BY <1>1, <4>1, <4>2
    <3> HIDE DEF f
    <3>3. Some(0)
      BY <3>1, <3>2
    <3> QED  BY <2>3, <3>3
  <2>5. d - 1 \in Nat /\ Some(d - 1)
    <3>1. d - 1 \in Nat /\ ~(d =< d - 1)
      BY <2>3, <2>4
    <3>2. d - 1 \notin bad
      BY <2>2, <3>1
    <3> QED  BY <3>1, <3>2
  <2>6. PICK f : f = [n \in places |-> f[n]] /\ Upto(d - 1, f)
    BY <2>5
  <2> DEFINE g == [n \in places |-> OpenBody(h, f, n)]
  <2>7. g = [n \in places |-> g[n]]
    OBVIOUS
  <2>8. Upto(d, g)
    <3> SUFFICES ASSUME NEW n \in places, n = NULL \/ depth[n] < d
                 PROVE  g[n] = OpenBody(h, g, n)
      OBVIOUS
    <3>1. g[n] = OpenBody(h, f, n)
      OBVIOUS
    <3>2. CASE n = NULL
      BY <3>1, <3>2 DEF OpenBody
    <3>3. CASE n # NULL
      <4> DEFINE up == h[n].parent
      <4>1. n \in Allocated(h) /\ depth[n] \in Nat /\ up \in places
        BY <1>1, <3>3 DEF Inside
      <4>2. up = NULL \/ depth[up] < d - 1
        <5>1. up # NULL => depth[up] < depth[n] /\ depth[up] \in Nat
          BY <1>1, <1>2, <4>1 DEF LayeredBy
        <5> QED  BY <2>3, <3>3, <4>1, <5>1
      <4>3. f[up] = OpenBody(h, f, up)
        BY <2>6, <4>1, <4>2
      <4>4. g[up] = f[up]
        BY <4>1, <4>3
      <4> HIDE DEF g
      <4> QED  BY <3>1, <4>4 DEF OpenBody
    <3> QED  BY <3>2, <3>3
  <2> HIDE DEF g
  <2>9. Some(d)
    BY <2>7, <2>8
  <2> QED  BY <2>3, <2>9
<1>4. PICK d \in Nat : \A n \in Nodes : depth[n] < d
  BY DepthsBounded
<1>5. PICK f : f = [n \in places |-> f[n]] /\ Upto(d, f)
  BY <1>3
<1>6. \A n \in places : f[n] = OpenBody(h, f, n)
  BY <1>1, <1>4, <1>5
<1>7. f = [n \in places |-> OpenBody(h, f, n)]
  BY <1>5, <1>6
<1> QED  BY <1>7 DEF OpenIn

Containers == Seq({"OBJECT", "ARRAY"})

(* What Open is at a value of the parser's tree, from what it is at the parent.                                       *)
LEMMA OpenUp ==
  ASSUME NEW h, Formed(h)
  PROVE  /\ OpenIn(h)[NULL] = <<>>
         /\ \A n \in Allocated(h) :
              OpenIn(h)[n] = IF h[n].type = "STRING" THEN OpenIn(h)[h[n].parent]
                             ELSE Append(OpenIn(h)[h[n].parent], h[n].type)
<1>1. NULL \notin Allocated(h)
  BY AllocatedCells, TreeNodes DEF Formed, Linked, Nodes
<1>2. \A n \in Allocated(h) \cup {NULL} : OpenIn(h)[n] = OpenBody(h, OpenIn(h), n)
  BY OpenIs
<1>3. OpenBody(h, OpenIn(h), NULL) = <<>>
  BY DEF OpenBody
<1>4. \A n \in Allocated(h) :
        OpenBody(h, OpenIn(h), n) = IF h[n].type = "STRING" THEN OpenIn(h)[h[n].parent]
                                    ELSE Append(OpenIn(h)[h[n].parent], h[n].type)
  BY <1>1 DEF OpenBody
<1> QED  BY <1>2, <1>3, <1>4

(* Of a container, and of a label, Open is a sequence of containers.                                                  *)
LEMMA OpenContains ==
  ASSUME NEW h, Formed(h), NEW n \in Allocated(h), h[n].type \in {"OBJECT", "ARRAY"} \/ IsMember(h, n)
  PROVE  OpenIn(h)[n] \in Containers
<1> DEFINE bad == {k \in Allocated(h) : (h[k].type \in {"OBJECT", "ARRAY"} \/ IsMember(h, k)) /\ OpenIn(h)[k] \notin Containers}
<1>1. h \in Heaps /\ Inside(h) /\ Layered(h) /\ Shaped(h) /\ NULL \notin Allocated(h)
  BY AllocatedCells, TreeNodes DEF Formed, Linked, Nodes
<1>2. SUFFICES ASSUME bad # {}
               PROVE  FALSE
  OBVIOUS
<1>3. PICK k \in bad : h[k].parent \notin bad
  BY <1>1, <1>2, Uppermost
<1> DEFINE up == h[k].parent
<1>4. k \in Allocated(h) /\ up \in Allocated(h) \cup {NULL}
  BY <1>1 DEF Inside
<1>5. OpenIn(h)[up] \in Containers
  <2>1. CASE up = NULL
    <3>1. OpenIn(h)[NULL] = <<>>
      BY OpenUp
    <3> QED  BY <2>1, <3>1 DEF Containers
  <2>2. CASE up # NULL
    <3>1. up \in Allocated(h) /\ (h[up].type \in {"OBJECT", "ARRAY"} \/ IsMember(h, up))
      BY <1>1, <1>4, <2>2 DEF Shaped
    <3> QED  BY <1>3, <3>1
  <2> QED  BY <2>1, <2>2
<1>6. OpenIn(h)[k] = IF h[k].type = "STRING" THEN OpenIn(h)[up] ELSE Append(OpenIn(h)[up], h[k].type)
  BY <1>4, OpenUp
<1>7. h[k].type \in {"STRING", "OBJECT", "ARRAY"} /\ OpenIn(h)[k] \notin Containers
  BY DEF IsMember
<1> QED  BY <1>5, <1>6, <1>7 DEF Containers

(* A new value changes nothing above the others.                                                                      *)
LEMMA OpenStays ==
  ASSUME NEW h, NEW g, Formed(h), Formed(g), Allocated(h) \subseteq Allocated(g),
         \A n \in Allocated(h) : g[n].type = h[n].type /\ g[n].parent = h[n].parent
  PROVE  \A n \in Allocated(h) \cup {NULL} : OpenIn(g)[n] = OpenIn(h)[n]
<1> DEFINE bad == {n \in Allocated(h) : OpenIn(g)[n] # OpenIn(h)[n]}
<1>1. h \in Heaps /\ Inside(h) /\ Layered(h)
  BY DEF Formed, Linked
<1>2. OpenIn(g)[NULL] = OpenIn(h)[NULL]
  <2>1. OpenIn(g)[NULL] = <<>> /\ OpenIn(h)[NULL] = <<>>
    BY OpenUp
  <2> QED  BY <2>1
<1>3. SUFFICES ASSUME bad # {}
               PROVE  FALSE
  BY <1>2
<1>4. PICK n \in bad : h[n].parent \notin bad
  BY <1>1, <1>3, Uppermost
<1>5. n \in Allocated(h) /\ n \in Allocated(g)
  OBVIOUS
<1>6. OpenIn(g)[h[n].parent] = OpenIn(h)[h[n].parent]
  BY <1>1, <1>2, <1>4, <1>5 DEF Inside
<1>7. OpenIn(h)[n] = IF h[n].type = "STRING" THEN OpenIn(h)[h[n].parent] ELSE Append(OpenIn(h)[h[n].parent], h[n].type)
  BY <1>5, OpenUp
<1>8. OpenIn(g)[n] = IF g[n].type = "STRING" THEN OpenIn(g)[g[n].parent] ELSE Append(OpenIn(g)[g[n].parent], g[n].type)
  BY <1>5, OpenUp
<1> QED  BY <1>5, <1>6, <1>7, <1>8

(* A container that is complete is taken off, and what it is in goes on.                                              *)
LEMMA OpenEnds ==
  ASSUME NEW h, Formed(h), NEW n \in Allocated(h), h[n].type \in {"OBJECT", "ARRAY"}
  PROVE  /\ OpenIn(h)[n] = Append(OpenIn(h)[h[n].parent], h[n].type) /\ OpenIn(h)[h[n].parent] \in Containers
         /\ Grammar!After(OpenIn(h)[n]) = IF h[n].type = "OBJECT" THEN "comma in an object" ELSE "comma in an array"
         /\ SubSeq(OpenIn(h)[n], 1, Len(OpenIn(h)[n]) - 1) = OpenIn(h)[h[n].parent]
<1> DEFINE up == h[n].parent
           s  == OpenIn(h)[up]
<1>1. Inside(h) /\ Shaped(h)
  BY DEF Formed, Linked
<1>2. s \in Containers
  <2>1. CASE up = NULL
    <3>1. OpenIn(h)[NULL] = <<>>
      BY OpenUp
    <3> QED  BY <2>1, <3>1 DEF Containers
  <2>2. CASE up # NULL
    <3>1. up \in Allocated(h) /\ (h[up].type \in {"OBJECT", "ARRAY"} \/ IsMember(h, up))
      BY <1>1, <2>2 DEF Shaped, Inside
    <3> QED  BY <3>1, OpenContains
  <2> QED  BY <2>1, <2>2
<1>3. OpenIn(h)[n] = Append(s, h[n].type)
  BY OpenUp
<1> HIDE DEF s
<1>4. /\ Append(s, h[n].type) # <<>> /\ Len(Append(s, h[n].type)) = Len(s) + 1
      /\ Append(s, h[n].type)[Len(s) + 1] = h[n].type
      /\ SubSeq(Append(s, h[n].type), 1, Len(s)) = s /\ Len(s) \in Nat
  BY <1>2 DEF Containers
<1>5. Grammar!After(Append(s, h[n].type)) = IF h[n].type = "OBJECT" THEN "comma in an object" ELSE "comma in an array"
  BY <1>4 DEF Grammar!After
<1>6. SubSeq(Append(s, h[n].type), 1, Len(Append(s, h[n].type)) - 1) = s
  <2>1. Len(Append(s, h[n].type)) - 1 = Len(s)
    BY <1>4
  <2> QED  BY <1>4, <2>1
<1> QED  BY <1>2, <1>3, <1>5, <1>6, Zenon DEF s

StackIn(h, state, at) ==
  CASE state = 1  -> Append(OpenIn(h)[at], "OBJECT")
    [] state = 7  -> Append(OpenIn(h)[at], "ARRAY")
    [] state = 99 -> <<>>
    [] OTHER      -> OpenIn(h)[at]

ExpectsIn(state) ==
  CASE state = 0       -> "document"
    [] state \in {1, 2} -> "label or end"
    [] state = 3       -> "comma in an object"
    [] state = 4       -> "label"
    [] state = 5       -> "colon"
    [] state = 6       -> "value"
    [] state \in {7, 8} -> "value or end"
    [] state = 9       -> "comma in an array"
    [] state = 99      -> "end of file"
    [] OTHER           -> "nothing"

LEMMA StackIs ==
  /\ Stack = StackIn(heap, info.state, info.cursor) /\ Stack' = StackIn(heap', info'.state, info'.cursor)
  /\ Expects = ExpectsIn(info.state) /\ Expects' = ExpectsIn(info'.state)
<1>1. Open = OpenIn(heap)
  BY DEF Open, OpenIn, OpenBody
<1>2. Open' = OpenIn(heap')
  BY DEF Open, OpenIn, OpenBody
<1> QED  BY <1>1, <1>2 DEF Stack, StackIn, Expects, ExpectsIn

LEMMA ExpectsAt ==
  /\ ExpectsIn(0) = "document" /\ ExpectsIn(1) = "label or end" /\ ExpectsIn(2) = "label or end"
  /\ ExpectsIn(3) = "comma in an object" /\ ExpectsIn(4) = "label" /\ ExpectsIn(5) = "colon" /\ ExpectsIn(6) = "value"
  /\ ExpectsIn(7) = "value or end" /\ ExpectsIn(8) = "value or end" /\ ExpectsIn(9) = "comma in an array"
  /\ ExpectsIn(99) = "end of file"
BY DEF ExpectsIn

(* The containers of a state and of the next, while the tree stays or grows by a value.                               *)
LEMMA OpenKept ==
  ASSUME Formed(heap), heap' = heap \/ (\E type, parent : Grown(type, parent))
  PROVE  \A n \in Allocated(heap) \cup {NULL} : OpenIn(heap')[n] = OpenIn(heap)[n]
<1>1. CASE heap' = heap
  BY <1>1
<1>2. CASE \E type, parent : Grown(type, parent)
  <2>1. /\ Formed(heap') /\ Allocated(heap) \subseteq Allocated(heap')
        /\ \A n \in Allocated(heap) : heap'[n].type = heap[n].type /\ heap'[n].parent = heap[n].parent
    BY <1>2 DEF Grown
  <2> QED  BY <2>1, OpenStays
<1> QED  BY <1>1, <1>2

(* The containers of the parser are the stack of the automaton                                                        *)

(* Where the parser has its cursor, the automaton has its stack.                                                      *)
LEMMA OpenContainerFollows ==
  ASSUME Reading, OpenObject \/ OpenArray
  PROVE  UNCHANGED Grammar!grammar
<1>1. AtCursor /\ verdict = "reading"
  BY ReadingIsAtCursor DEF Reading
<1>2. ASSUME NEW state \in {1, 7}, NEW type \in {"OBJECT", "ARRAY"}, NEW next \in {2, 8},
             next = 2 <=> type = "OBJECT", state = 1 <=> type = "OBJECT", OpenContainer(state, type, next)
      PROVE  UNCHANGED <<Stack, Expects, token, verdict>>
  <2>1. /\ Grown(type, info.cursor) /\ info' = [state |-> next, cursor |-> New] /\ info.state = state
        /\ UNCHANGED <<token, verdict>>
        /\ info.cursor \in Allocated(heap) \cup {NULL}
    BY <1>1, <1>2, ContainerGrows DEF OpenContainer
  <2>2. OpenIn(heap')[info.cursor] = OpenIn(heap)[info.cursor]
    BY <1>1, <2>1, OpenKept DEF AtCursor
  <2>3. OpenIn(heap')[New] = Append(OpenIn(heap')[info.cursor], type)
    <3>1. Formed(heap') /\ New \in Allocated(heap') /\ heap'[New].type = type /\ heap'[New].parent = info.cursor
      BY <2>1 DEF Grown
    <3>2. OpenIn(heap')[New] = IF type = "STRING" THEN OpenIn(heap')[info.cursor] ELSE Append(OpenIn(heap')[info.cursor], type)
      BY <3>1, OpenUp
    <3> QED  BY <3>2
  <2>4. Stack = Append(OpenIn(heap)[info.cursor], type) /\ Stack' = OpenIn(heap')[New]
    BY <1>2, <2>1, StackIs DEF StackIn
  <2>5. Expects = Expects'
    BY <1>2, <2>1, StackIs, ExpectsAt
  <2> QED  BY <2>1, <2>2, <2>3, <2>4, <2>5
<1>3. UNCHANGED <<Stack, Expects, token, verdict>>
  BY <1>2 DEF OpenObject, OpenArray
<1> QED  BY <1>3 DEF Grammar!grammar

LEMMA LabelFollows ==
  ASSUME Reading, Label
  PROVE  Grammar!Label
<1>1. AtCursor /\ verdict = "reading" /\ verdict' = "reading" /\ info.state \in {2, 4}
  BY ReadingIsAtCursor DEF Reading, Label, Kept
<1>2. /\ info.cursor \in Allocated(heap) /\ Grown("STRING", info.cursor)
      /\ token' = "STRING" /\ info' = [state |-> 5, cursor |-> New]
  BY <1>1, LabelGrows
<1>3. OpenIn(heap')[New] = OpenIn(heap)[info.cursor]
  <2>1. OpenIn(heap')[info.cursor] = OpenIn(heap)[info.cursor]
    BY <1>1, <1>2, OpenKept DEF AtCursor
  <2>2. Formed(heap') /\ New \in Allocated(heap') /\ heap'[New].type = "STRING" /\ heap'[New].parent = info.cursor
    BY <1>2 DEF Grown
  <2>3. OpenIn(heap')[New] = OpenIn(heap')[info.cursor]
    BY <2>2, OpenUp
  <2> QED  BY <2>1, <2>3
<1>4. Stack' = Stack
  BY <1>1, <1>2, <1>3, StackIs DEF StackIn
<1>5. Expects \in {"label or end", "label"} /\ Expects' = "colon"
  BY <1>1, <1>2, StackIs, ExpectsAt
<1> QED  BY <1>1, <1>2, <1>4, <1>5 DEF Grammar!Label, Grammar!Take, Grammar!Allowed, Grammar!Goes

LEMMA ValueFollows ==
  ASSUME Reading, LabelValue \/ Element
  PROVE  Grammar!Value
<1>1. AtCursor /\ verdict = "reading" /\ verdict' = "reading"
  BY ReadingIsAtCursor DEF Reading, LabelValue, Element, Kept
<1>2. ASSUME Expects \in {"value", "value or end"}, Stack' = Stack, Expects' = Grammar!After(Stack),
             \E t \in Values : token' = t
      PROVE  Grammar!Value
  BY <1>1, <1>2 DEF Grammar!Value, Grammar!Take, Grammar!Allowed, Grammar!Goes
<1>3. CASE LabelValue
  <2> DEFINE at == info.cursor
             up == heap[info.cursor].parent
  <2>1. /\ at \in Allocated(heap) /\ IsMember(heap, at) /\ up \in Allocated(heap) /\ heap[up].type = "OBJECT"
        /\ \E t \in Values : Grown(t, info.cursor) /\ token' = t
        /\ info' = [state |-> 3, cursor |-> up] /\ info.state = 6
    BY <1>1, <1>3, LabelValueGrows DEF LabelValue
  <2>2. OpenIn(heap')[up] = OpenIn(heap)[up]
    BY <1>1, <2>1, OpenKept DEF AtCursor
  <2>3. OpenIn(heap)[at] = OpenIn(heap)[up]
    BY <1>1, <2>1, OpenUp DEF AtCursor, IsMember
  <2>4. Grammar!After(OpenIn(heap)[up]) = "comma in an object"
    BY <1>1, <2>1, OpenEnds DEF AtCursor
  <2>5. Stack = OpenIn(heap)[at] /\ Stack' = OpenIn(heap')[up]
    BY <2>1, StackIs DEF StackIn
  <2>6. Expects = "value" /\ Expects' = "comma in an object"
    BY <2>1, StackIs, ExpectsAt
  <2> QED  BY <1>2, <2>1, <2>2, <2>3, <2>4, <2>5, <2>6
<1>4. CASE Element
  <2> DEFINE at == info.cursor
  <2>1. /\ at \in Allocated(heap) /\ heap[at].type = "ARRAY"
        /\ \E t \in Values : Grown(t, info.cursor) /\ token' = t
        /\ info' = [state |-> 9, cursor |-> info.cursor] /\ info.state = 8
    BY <1>1, <1>4, ElementGrows DEF Element
  <2>2. OpenIn(heap')[at] = OpenIn(heap)[at]
    BY <1>1, <2>1, OpenKept DEF AtCursor
  <2>3. Grammar!After(OpenIn(heap)[at]) = "comma in an array"
    BY <1>1, <2>1, OpenEnds DEF AtCursor
  <2>4. Stack = OpenIn(heap)[at] /\ Stack' = OpenIn(heap')[at]
    BY <2>1, StackIs DEF StackIn
  <2>5. Expects = "value or end" /\ Expects' = "comma in an array"
    BY <2>1, StackIs, ExpectsAt
  <2> QED  BY <1>2, <2>1, <2>2, <2>3, <2>4, <2>5
<1> QED  BY <1>3, <1>4

(* A container that ends: the automaton takes off what the parser finds above its cursor.                             *)
LEMMA LeaveFollows ==
  ASSUME AtCursor, info.cursor \in Allocated(heap), heap[info.cursor].type \in {"OBJECT", "ARRAY"}, Leave, heap' = heap
  PROVE  LET s == SubSeq(OpenIn(heap)[info.cursor], 1, Len(OpenIn(heap)[info.cursor]) - 1)
         IN Stack' = s /\ Expects' = Grammar!After(s)
<1> DEFINE at == info.cursor
           up == heap[at].parent
           s  == OpenIn(heap)[up]
<1>1. Inside(heap) /\ Shaped(heap) /\ NULL \notin Allocated(heap) /\ Formed(heap)
  BY DEF AtCursor, Formed, Linked
<1>2. SUFFICES Stack' = s /\ Expects' = Grammar!After(s)
  <2>1. SubSeq(OpenIn(heap)[at], 1, Len(OpenIn(heap)[at]) - 1) = s
    BY <1>1, OpenEnds
  <2> HIDE DEF s
  <2> QED  BY <2>1, Zenon
<1>3. CASE up = NULL
  <2>1. info' = [state |-> 99, cursor |-> at]
    BY <1>3 DEF Leave, Goes
  <2>2. s = <<>>
    BY <1>1, <1>3, OpenUp
  <2>3. Grammar!After(<<>>) = "end of file"
    BY DEF Grammar!After
  <2>4. Stack' = <<>>
    BY <2>1, StackIs DEF StackIn
  <2>5. Expects' = "end of file"
    BY <2>1, StackIs, ExpectsAt
  <2> QED  BY <2>2, <2>3, <2>4, <2>5
<1>4. CASE up # NULL /\ heap[up].type = "STRING"
  <2> DEFINE top == heap[up].parent
  <2>1. IsMember(heap, up) /\ up \in Allocated(heap) /\ top \in Allocated(heap) /\ heap[top].type = "OBJECT"
    BY <1>1, <1>4 DEF Shaped, IsMember, Inside
  <2>2. info' = [state |-> 3, cursor |-> top]
    BY <1>4 DEF Leave, Goes
  <2>3. s = OpenIn(heap)[top]
    BY <1>1, <1>4, <2>1, OpenUp
  <2>4. Grammar!After(OpenIn(heap)[top]) = "comma in an object"
    BY <1>1, <2>1, OpenEnds
  <2>5. Stack' = OpenIn(heap)[top]
    BY <2>2, StackIs DEF StackIn
  <2>6. Expects' = "comma in an object"
    BY <2>2, StackIs, ExpectsAt
  <2> QED  BY <2>3, <2>4, <2>5, <2>6
<1>5. CASE up # NULL /\ heap[up].type # "STRING"
  <2>1. heap[up].type = "ARRAY" /\ up \in Allocated(heap)
    BY <1>1, <1>5 DEF Shaped, IsMember, Inside
  <2>2. info' = [state |-> 9, cursor |-> up]
    BY <1>5, <2>1 DEF Leave, Goes
  <2>3. Grammar!After(s) = "comma in an array"
    BY <1>1, <2>1, OpenEnds
  <2>4. Stack' = s
    BY <2>2, StackIs DEF StackIn
  <2>5. Expects' = "comma in an array"
    BY <2>2, StackIs, ExpectsAt
  <2> QED  BY <2>3, <2>4, <2>5
<1> QED  BY <1>3, <1>4, <1>5

LEMMA EndFollows ==
  ASSUME Reading, EndObject \/ EndArray
  PROVE  Grammar!End
<1> DEFINE at == info.cursor
           s  == SubSeq(OpenIn(heap)[at], 1, Len(OpenIn(heap)[at]) - 1)
<1>1. AtCursor /\ verdict = "reading" /\ verdict' = "reading" /\ heap' = heap /\ Leave
  BY ReadingIsAtCursor DEF Reading, EndObject, EndArray, Kept, NoTree, tree
<1>2. /\ at \in Allocated(heap) /\ heap[at].type \in {"OBJECT", "ARRAY"} /\ Stack = OpenIn(heap)[at]
      /\ \/ token' = "END_OBJECT" /\ Expects \in {"label or end", "comma in an object"}
         \/ token' = "END_ARRAY" /\ Expects \in {"value or end", "comma in an array"}
  <2>1. CASE EndObject
    <3>1. info.state \in {2, 3} /\ token' = "END_OBJECT"
      BY <2>1 DEF EndObject, Reads
    <3>2. at \in Allocated(heap) /\ heap[at].type = "OBJECT"
      BY <1>1, <3>1 DEF AtCursor, AtState
    <3>3. Stack = OpenIn(heap)[at]
      BY <3>1, StackIs DEF StackIn
    <3>4. Expects \in {"label or end", "comma in an object"}
      BY <3>1, StackIs, ExpectsAt
    <3> QED  BY <3>1, <3>2, <3>3, <3>4
  <2>2. CASE EndArray
    <3>1. info.state \in {8, 9} /\ token' = "END_ARRAY"
      BY <2>2 DEF EndArray
    <3>2. at \in Allocated(heap) /\ heap[at].type = "ARRAY"
      BY <1>1, <3>1 DEF AtCursor, AtState
    <3>3. Stack = OpenIn(heap)[at]
      BY <3>1, StackIs DEF StackIn
    <3>4. Expects \in {"value or end", "comma in an array"}
      BY <3>1, StackIs, ExpectsAt
    <3> QED  BY <3>1, <3>2, <3>3, <3>4
  <2> QED  BY <2>1, <2>2
<1>3. Stack' = s /\ Expects' = Grammar!After(s)
  BY <1>1, <1>2, LeaveFollows
<1> HIDE DEF at
<1>4. s = SubSeq(Stack, 1, Len(Stack) - 1)
  BY <1>2
<1> HIDE DEF s
<1> QED  BY <1>1, <1>2, <1>3, <1>4 DEF Grammar!End, Grammar!Take, Grammar!Allowed, Grammar!Goes

LEMMA TokenFollows ==
  ASSUME Reading, Document0 \/ ObjectComma \/ Colon \/ BeginContainer \/ ArrayComma
  PROVE  Grammar!Next
<1> DEFINE at == info.cursor
<1>1. /\ AtCursor /\ verdict = "reading" /\ verdict' = "reading" /\ heap' = heap /\ info'.cursor = at
  BY ReadingIsAtCursor
     DEF Reading, Document0, ObjectComma, Colon, BeginContainer, ArrayComma, Kept, NoTree, tree, Goes
<1>2. CASE Document0 \/ BeginContainer
  <2>1. /\ info.state \in {0, 6, 8}
        /\ \/ token' = "BEGIN_OBJECT" /\ info'.state = 1
           \/ token' = "BEGIN_ARRAY" /\ info'.state = 7 /\ info.state \in {6, 8}
    BY <1>2 DEF Document0, BeginContainer, Reads, Goes
  <2>2. Stack = OpenIn(heap)[at]
    BY <2>1, StackIs DEF StackIn
  <2>3. Expects \in {"document", "value", "value or end"} /\ (info.state \in {6, 8} => Expects \in {"value", "value or end"})
    BY <2>1, StackIs, ExpectsAt
  <2>4. CASE token' = "BEGIN_OBJECT" /\ info'.state = 1
    <3>1. Stack' = Append(Stack, "OBJECT") /\ Expects' = "label or end"
      BY <1>1, <2>2, <2>4, StackIs, ExpectsAt DEF StackIn
    <3>2. Grammar!BeginObject
      BY <1>1, <2>3, <2>4, <3>1 DEF Grammar!BeginObject, Grammar!Take, Grammar!Allowed, Grammar!Goes
    <3> QED  BY <3>2 DEF Grammar!Next
  <2>5. CASE token' = "BEGIN_ARRAY" /\ info'.state = 7 /\ info.state \in {6, 8}
    <3>1. Stack' = Append(Stack, "ARRAY") /\ Expects' = "value or end"
      BY <1>1, <2>2, <2>5, StackIs, ExpectsAt DEF StackIn
    <3>2. Grammar!BeginArray
      BY <1>1, <2>3, <2>5, <3>1 DEF Grammar!BeginArray, Grammar!Take, Grammar!Allowed, Grammar!Goes
    <3> QED  BY <3>2 DEF Grammar!Next
  <2> QED  BY <2>1, <2>4, <2>5
<1>3. CASE Colon
  <2>1. info.state = 5 /\ info'.state = 6 /\ token' = "NAME_SEPARATOR"
    BY <1>3 DEF Colon, Reads, Goes
  <2>2. Stack' = Stack
    BY <1>1, <2>1, StackIs DEF StackIn
  <2>3. Expects = "colon" /\ Expects' = "value"
    BY <2>1, StackIs, ExpectsAt
  <2>4. Grammar!Colon
    BY <1>1, <2>1, <2>2, <2>3 DEF Grammar!Colon, Grammar!Take, Grammar!Allowed, Grammar!Goes
  <2> QED  BY <2>4 DEF Grammar!Next
<1>4. CASE ObjectComma \/ ArrayComma
  <2>1. /\ token' = "VALUE_SEPARATOR"
        /\ (info.state = 3 /\ info'.state = 4) \/ (info.state = 9 /\ info'.state = 8)
    BY <1>4 DEF ObjectComma, ArrayComma, Reads, Goes
  <2>2. Stack' = Stack
    BY <1>1, <2>1, StackIs DEF StackIn
  <2>3. \/ Expects = "comma in an object" /\ Expects' = "label"
        \/ Expects = "comma in an array" /\ Expects' = "value or end"
    BY <2>1, StackIs, ExpectsAt
  <2>4. Grammar!Comma
    BY <1>1, <2>1, <2>2, <2>3 DEF Grammar!Comma, Grammar!Take, Grammar!Allowed, Grammar!Goes
  <2> QED  BY <2>4 DEF Grammar!Next
<1> QED  BY <1>2, <1>3, <1>4

(* The parser refuses what the automaton refuses, and ends where it ends.                                             *)
LEMMA RefusalFollows ==
  ASSUME Reading, Unexpected \/ BlankFirstLine \/ NoMemory
  PROVE  Grammar!Refuse
<1>1. AtCursor /\ verdict = "reading" /\ verdict' = "refused"
  BY ReadingIsAtCursor DEF Reading, Unexpected, BlankFirstLine, NoMemory, Fail
<1>2. token' \in Grammar!Tokens /\ ~Grammar!Allowed(Expects, token')
  <2>1. CASE BlankFirstLine \/ NoMemory
    <3>1. token' \in {"blank first line", "no memory"}
      BY <2>1 DEF BlankFirstLine, NoMemory
    <3> QED  BY <3>1, ParserValues DEF Grammar!Tokens, Grammar!Allowed, Scalars, Literals
  <2>2. CASE Unexpected
    <3>1. info.state \in {0, 2, 3, 4, 5, 6, 8, 9, 99}
      BY <1>1, <2>2 DEF Unexpected, AtCursor
    <3>2. token' \in AllTokens /\ token' \notin Expected
      BY <2>2 DEF Unexpected
    <3>3. token' \in Grammar!Tokens
      BY <3>2 DEF Grammar!Tokens, AllTokens
    <3>4. ~Grammar!Allowed(Expects, token')
      BY <3>1, <3>2, ParserValues DEF Grammar!Allowed, AllTokens, Scalars, Literals, Expects, Expected
    <3> QED  BY <3>3, <3>4
  <2> QED  BY <2>1, <2>2
<1> QED  BY <1>1, <1>2 DEF Grammar!Refuse, Grammar!Goes

LEMMA EndOfFileFollows ==
  ASSUME Reading, EndOfFile
  PROVE  Grammar!EndOfFile
<1>1. info.state \in 0..9 \cup {99} /\ verdict = "reading" /\ token' = "end of file"
  BY ReadingIsAtCursor DEF Reading, AtCursor, EndOfFile
<1>2. Expects = "end of file" <=> info.state = 99
  <2>1. ASSUME NEW state, state # 99
        PROVE  ExpectsIn(state) # "end of file"
    BY <2>1 DEF ExpectsIn
  <2> QED  BY <2>1, StackIs, ExpectsAt
<1>3. verdict' = IF info.state = 99 THEN "accepted" ELSE "refused"
  BY DEF EndOfFile
<1> QED  BY <1>1, <1>2, <1>3 DEF Grammar!EndOfFile, Grammar!Goes

(* Every turn of json_parse_fragment is a step of the grammar's automaton, or makes the value of a token that the     *)
(* automaton has already taken; what the caller does with the tree is no step of it.  So the parser accepts what the  *)
(* grammar accepts, at any depth, and the tree is all the memory it needs (FollowsTheGrammar).                        *)
THEOREM ParserFollowsTheGrammar == ParserSpec => FollowsTheGrammar
<1>1. ParserInit => Grammar!Init
  <2> SUFFICES ASSUME ParserInit
               PROVE  Grammar!Init
    OBVIOUS
  <2>1. Formed(heap)
    BY ParserInductive, ReadingIsAtCursor DEF ParserInit, Reading, AtCursor
  <2>2. verdict = "reading" /\ token = "none" /\ info.state = 0 /\ info.cursor = NULL
    BY DEF ParserInit
  <2>3. Stack = <<>>
    <3>1. Stack = OpenIn(heap)[NULL]
      BY <2>2, StackIs DEF StackIn
    <3> QED  BY <2>1, <3>1, OpenUp
  <2>4. Expects = "document"
    BY <2>2, StackIs, ExpectsAt
  <2> QED  BY <2>2, <2>3, <2>4 DEF Grammar!Init
<1>2. ParserInv /\ [ParserNext]_parser => [Grammar!Next]_(Grammar!grammar)
  <2> SUFFICES ASSUME ParserInv, [ParserNext]_parser
               PROVE  [Grammar!Next]_(Grammar!grammar)
    OBVIOUS
  <2>1. CASE Parse
    <3>1. Reading
      BY <2>1 DEF Parse, Reading
    <3>2. CASE OpenObject \/ OpenArray
      BY <3>1, <3>2, OpenContainerFollows
    <3>3. CASE Label
      BY <3>1, <3>3, LabelFollows DEF Grammar!Next
    <3>4. CASE LabelValue \/ Element
      BY <3>1, <3>4, ValueFollows DEF Grammar!Next
    <3>5. CASE EndObject \/ EndArray
      BY <3>1, <3>5, EndFollows DEF Grammar!Next
    <3>6. CASE Document0 \/ ObjectComma \/ Colon \/ BeginContainer \/ ArrayComma
      BY <3>1, <3>6, TokenFollows
    <3>7. CASE Unexpected \/ BlankFirstLine \/ NoMemory
      BY <3>1, <3>7, RefusalFollows DEF Grammar!Next
    <3>8. CASE EndOfFile
      BY <3>1, <3>8, EndOfFileFollows DEF Grammar!Next
    <3> QED  BY <2>1, <3>2, <3>3, <3>4, <3>5, <3>6, <3>7, <3>8 DEF Parse, Turn
  <2>2. CASE Use \/ Walks
    <3>1. verdict # "reading"
      BY <2>2 DEF ParserInv, ReadingInv, Use, Walks, Walk, FreeDescends, FreeOne, OpenInString, CloseInString,
         OpenInStream, CloseInStream, OpenValue, CloseValue, StringRunsOut, StreamRunsOut
    <3>2. UNCHANGED <<token, verdict>>
      BY <2>2 DEF Use, Walks
    <3> QED  BY <3>1, <3>2 DEF Grammar!grammar
  <2>3. CASE UNCHANGED parser
    <3>1. UNCHANGED <<heap, info, token, verdict>>
      BY <2>3 DEF parser, tree
    <3>2. Stack' = Stack /\ Expects' = Expects
      BY <3>1, StackIs
    <3> QED  BY <3>1, <3>2 DEF Grammar!grammar
  <2> QED  BY <2>1, <2>2, <2>3 DEF ParserNext
<1> QED  BY <1>1, <1>2, ParserInductive, PTL DEF ParserSpec, FollowsTheGrammar, Grammar!Spec

-----------------------------------------------------------------------------
(* Recursion over a tree *)

(* A function on a finite set may be defined by recursion when, of the places its value at each place depends on,     *)
(* every set has one that depends on no other in it.                                                                  *)
Recursive(D, V, F, needs) ==
  /\ IsFiniteSet(D) /\ V # {} /\ F \in [D \X [D -> V] -> V] /\ needs \in [D -> SUBSET D]
  /\ \A n \in D : \A f, g \in [D -> V] : (\A k \in needs[n] : f[k] = g[k]) => F[<<n, f>>] = F[<<n, g>>]
  /\ \A s \in SUBSET D : s # {} => \E n \in s : needs[n] \cap s = {}

LEMMA Recursion ==
  ASSUME NEW D, NEW V, NEW F, NEW needs, Recursive(D, V, F, needs)
  PROVE  \E f \in [D -> V] : \A n \in D : f[n] = F[<<n, f>>]
<1>0. /\ IsFiniteSet(D) /\ V # {} /\ F \in [D \X [D -> V] -> V] /\ needs \in [D -> SUBSET D]
      /\ \A n \in D : \A f, g \in [D -> V] : (\A k \in needs[n] : f[k] = g[k]) => F[<<n, f>>] = F[<<n, g>>]
      /\ \A s \in SUBSET D : s # {} => \E n \in s : needs[n] \cap s = {}
  BY Zenon DEF Recursive
<1> DEFINE Solves(t, f) == \A n \in t : needs[n] \subseteq t /\ f[n] = F[<<n, f>>]
           solved == {t \in SUBSET D : \E f \in [D -> V] : Solves(t, f)}
<1>1. PICK v \in V : TRUE
  BY <1>0
<1>2. {} \in solved
  <2>1. [n \in D |-> v] \in [D -> V] /\ Solves({}, [n \in D |-> v])
    OBVIOUS
  <2> HIDE DEF Solves
  <2> QED  BY <2>1
<1>3. solved \subseteq SUBSET D /\ \A t \in SUBSET D : t \in solved <=> \E f \in [D -> V] : Solves(t, f)
  OBVIOUS
<1> HIDE DEF solved
<1> DEFINE left == [t \in SUBSET D |-> Cardinality(D \ t)]
<1>4. \A t \in SUBSET D : IsFiniteSet(D \ t) /\ left[t] = Cardinality(D \ t) /\ left[t] \in Nat
  BY <1>0, FS_Subset, FS_CardinalityType
<1> HIDE DEF left
<1>5. PICK t \in solved : \A u \in solved : left[t] =< left[u]
  <2> DEFINE numbers == {left[u] : u \in solved}
  <2>1. \A u \in solved : left[u] \in Nat /\ left[u] \in numbers
    BY <1>3, <1>4
  <2>2. numbers \in SUBSET Nat /\ numbers # {}
    BY <1>2, <2>1
  <2>3. \E x \in numbers : \A y \in numbers : x =< y
    BY <2>2, LeastNumber
  <2> QED  BY <2>3
<1>6. PICK f \in [D -> V] : Solves(t, f)
  BY <1>3
<1>7. ASSUME t # D
      PROVE  FALSE
  <2>1. t \in SUBSET D
    BY <1>3
  <2>2. PICK n \in D \ t : needs[n] \cap (D \ t) = {}
    BY <1>0, <1>7, <2>1
  <2> DEFINE g == [f EXCEPT ![n] = F[<<n, f>>]]
             u == t \cup {n}
  <2>3. g \in [D -> V] /\ g[n] = F[<<n, f>>] /\ \A k \in t : g[k] = f[k]
    <3>1. <<n, f>> \in D \X [D -> V]
      OBVIOUS
    <3>2. F[<<n, f>>] \in V
      BY <1>0, <3>1
    <3> QED  BY <2>1, <2>2, <3>2
  <2> HIDE DEF g
  <2>4. needs[n] \subseteq t
    BY <1>0, <2>1, <2>2
  <2>5. \A k \in u : needs[k] \subseteq t /\ g[k] = F[<<k, f>>] /\ k \in D
    BY <1>6, <2>1, <2>2, <2>3, <2>4
  <2>6. ASSUME NEW k \in u
        PROVE  F[<<k, f>>] = F[<<k, g>>]
    <3>1. \A j \in needs[k] : f[j] = g[j]
      BY <2>3, <2>5
    <3>2. k \in D /\ f \in [D -> V] /\ g \in [D -> V]
      BY <2>3, <2>5
    <3> QED  BY <1>0, <3>1, <3>2, Zenon
  <2>7. Solves(u, g) /\ u \in SUBSET D
    BY <2>1, <2>5, <2>6
  <2> HIDE DEF Solves, u
  <2>8. u \in solved
    BY <1>3, <2>3, <2>7
  <2>9. D \ u = (D \ t) \ {n} /\ n \in D \ t
    BY <2>2 DEF u
  <2>10. Cardinality((D \ t) \ {n}) = Cardinality(D \ t) - 1
    BY <1>4, <2>1, <2>2, FS_RemoveElement
  <2>11. left[u] = left[t] - 1
    BY <1>4, <2>1, <2>7, <2>9, <2>10
  <2>12. left[t] =< left[u]
    BY <1>5, <2>8
  <2>13. left[t] \in Nat
    BY <1>4, <2>1
  <2> QED  BY <2>11, <2>12, <2>13
<1> QED  BY <1>6, <1>7

(* Among any values of a tree there is one whose last child and whose predecessor are not among them.                 *)
LEMMA Innermost ==
  ASSUME NEW h, Linked(h), Layered(h), NEW s \in SUBSET Allocated(h), s # {}
  PROVE  \E n \in s : h[n].previous \notin s /\ h[n].child_end \notin s
<1>1. /\ Inside(h) /\ Ended(h) /\ Chained(h) /\ Ordered(h) /\ NULL \notin Allocated(h) /\ Allocated(h) \subseteq Nodes
  BY AllocatedCells, TreeNodes DEF Linked, Nodes
<1>2. PICK depth \in [Nodes -> Nat] : LayeredBy(h, depth)
  BY DEF Layered
<1>3. PICK d \in Nat : \A n \in Nodes : depth[n] < d
  BY DepthsBounded
<1>4. PICK rank \in [Nodes -> Nat] : InOrderBy(h, rank)
  BY <1>1 DEF Ordered
<1> DEFINE up == [n \in s |-> IF h[n].parent = NULL THEN d ELSE d - 1 - depth[h[n].parent]]
<1>5. \A n \in s : up[n] \in Nat
  <2> SUFFICES ASSUME NEW n \in s
               PROVE  up[n] \in Nat
    OBVIOUS
  <2>1. CASE h[n].parent = NULL
    BY <2>1
  <2>2. CASE h[n].parent # NULL
    <3>1. h[n].parent \in Nodes
      BY <1>1, <2>2 DEF Inside
    <3>2. depth[h[n].parent] \in Nat /\ depth[h[n].parent] < d
      BY <1>3, <3>1
    <3> QED  BY <2>2, <3>2
  <2> QED  BY <2>1, <2>2
<1>6. PICK m \in s : \A k \in s : up[m] =< up[k]
  <2>1. {up[n] : n \in s} \in SUBSET Nat /\ {up[n] : n \in s} # {}
    BY <1>5
  <2>2. \E x \in {up[n] : n \in s} : \A y \in {up[n] : n \in s} : x =< y
    BY <2>1, LeastNumber
  <2> QED  BY <2>2
<1> DEFINE low == {n \in s : up[n] = up[m]}
<1>7. PICK n \in low : \A k \in low : rank[n] =< rank[k]
  <2>1. {rank[k] : k \in low} \in SUBSET Nat /\ {rank[k] : k \in low} # {}
    BY <1>1, <1>4
  <2>2. \E x \in {rank[k] : k \in low} : \A y \in {rank[k] : k \in low} : x =< y
    BY <2>1, LeastNumber
  <2> QED  BY <2>2
<1>8. ASSUME h[n].child_end \in s
      PROVE  FALSE
  <2> DEFINE c == h[n].child_end
  <2>1. h[c].parent = n /\ n # NULL /\ n \in Allocated(h)
    BY <1>1, <1>8 DEF Ended
  <2>2. up[c] = d - 1 - depth[n]
    BY <1>8, <2>1
  <2>3. depth[n] \in Nat /\ n \in Nodes
    BY <1>1, <2>1
  <2>4. up[n] > d - 1 - depth[n]
    <3>1. CASE h[n].parent = NULL
      BY <2>3, <3>1
    <3>2. CASE h[n].parent # NULL
      <4>1. depth[h[n].parent] < depth[n] /\ h[n].parent \in Nodes
        BY <1>1, <1>2, <2>1, <3>2 DEF LayeredBy, Inside
      <4>2. depth[h[n].parent] \in Nat
        BY <4>1
      <4> QED  BY <2>3, <3>2, <4>1, <4>2
    <3> QED  BY <3>1, <3>2
  <2>5. up[c] < up[n] /\ up[c] \in Nat /\ up[n] \in Nat /\ up[n] = up[m] /\ up[m] =< up[c]
    BY <1>5, <1>6, <1>7, <1>8, <2>2, <2>3, <2>4
  <2> HIDE DEF up
  <2> QED  BY <2>5
<1>9. ASSUME h[n].previous \in s
      PROVE  FALSE
  <2> DEFINE p == h[n].previous
  <2>1. h[p].next = n /\ h[p].parent = h[n].parent /\ n # NULL /\ p \in Allocated(h)
    BY <1>1, <1>9 DEF Chained
  <2>2. rank[p] < rank[n] /\ rank[p] \in Nat /\ rank[n] \in Nat
    BY <1>1, <1>4, <2>1 DEF InOrderBy
  <2>3. up[p] = up[n]
    BY <1>9, <2>1
  <2> HIDE DEF up
  <2>4. p \in low
    BY <1>7, <1>9, <2>3
  <2>5. rank[n] =< rank[p]
    BY <1>7, <2>4
  <2> QED  BY <2>2, <2>5
<1> QED  BY <1>7, <1>8, <1>9

-----------------------------------------------------------------------------
(* The texts of a tree *)

Words == Labels \cup Texts \cup {Number}
Marks == {"\"", ":", ",", "{", "}", "[", "]", "t", "r", "u", "e", "f", "a", "l", "s", "n"}
Chars == Marks \cup UNION {{s[i] : i \in 1..Len(s)} : s \in Words}
Strings == Seq(Chars)

QuoteMark == <<"\"">>
ColonMark == <<":">>
CommaMark == <<",">>
ObjectMark == <<"{">>
ObjectEnd == <<"}">>
ArrayMark == <<"[">>
ArrayEnd == <<"]">>

\* A string or a number has one of the texts that its maker gave it.
Worded(h) == \A n \in Allocated(h) : h[n].type \in {"STRING", "NUMBER"} => h[n].text \in Words

LEMMA WordsAreStrings == Words \subseteq Strings
<1> SUFFICES ASSUME NEW s \in Words
             PROVE  s \in Strings
  OBVIOUS
<1>1. IsText(s)
  BY BuilderLabels, ParserTexts DEF Words
<1>2. Len(s) \in Nat /\ s = [i \in 1..Len(s) |-> s[i]]
  BY <1>1, Zenon DEF IsText
<1> DEFINE own == {s[i] : i \in 1..Len(s)}
<1>3. own \subseteq Chars
  <2>1. own \in {{r[i] : i \in 1..Len(r)} : r \in Words}
    BY Zenon
  <2> HIDE DEF own
  <2> QED  BY <2>1, Zenon DEF Chars
<1>4. \A i \in 1..Len(s) : s[i] \in own
  OBVIOUS
<1> HIDE DEF own
<1>5. \A i \in 1..Len(s) : s[i] \in Chars
  BY <1>3, <1>4, Zenon
<1>6. [i \in 1..Len(s) |-> s[i]] \in Seq(Chars)
  BY <1>2, <1>5
<1> QED  BY <1>2, <1>6, Zenon DEF Strings

LEMMA MarksAreStrings ==
  /\ QuoteMark \in Strings /\ ColonMark \in Strings /\ CommaMark \in Strings
  /\ ObjectMark \in Strings /\ ObjectEnd \in Strings /\ ArrayMark \in Strings /\ ArrayEnd \in Strings
  /\ \A type : LiteralText(type) \in Strings
<1>1. ASSUME NEW c \in Chars
      PROVE  <<c>> \in Strings
  BY DEF Strings
<1>2. Marks \subseteq Chars
  BY Zenon DEF Chars
<1>3. \A c \in Marks : <<c>> \in Strings
  BY <1>1, <1>2, Zenon
<1>4. /\ "\"" \in Marks /\ ":" \in Marks /\ "," \in Marks /\ "{" \in Marks /\ "}" \in Marks /\ "[" \in Marks /\ "]" \in Marks
      /\ "t" \in Marks /\ "r" \in Marks /\ "u" \in Marks /\ "e" \in Marks /\ "f" \in Marks /\ "a" \in Marks /\ "l" \in Marks
      /\ "s" \in Marks /\ "n" \in Marks
  BY Zenon DEF Marks
<1>5. /\ QuoteMark \in Strings /\ ColonMark \in Strings /\ CommaMark \in Strings
      /\ ObjectMark \in Strings /\ ObjectEnd \in Strings /\ ArrayMark \in Strings /\ ArrayEnd \in Strings
  BY <1>3, <1>4, Zenon DEF QuoteMark, ColonMark, CommaMark, ObjectMark, ObjectEnd, ArrayMark, ArrayEnd
<1>6. ASSUME NEW a \in Chars, NEW b \in Chars, NEW c \in Chars, NEW d \in Chars
      PROVE  <<a, b, c, d>> \in Strings
  BY DEF Strings
<1>7. ASSUME NEW a \in Chars, NEW b \in Chars, NEW c \in Chars, NEW d \in Chars, NEW e \in Chars
      PROVE  <<a, b, c, d, e>> \in Strings
  BY DEF Strings
<1>8. <<"t", "r", "u", "e">> \in Strings /\ <<"f", "a", "l", "s", "e">> \in Strings /\ <<"n", "u", "l", "l">> \in Strings
  BY <1>2, <1>4, <1>6, <1>7, Zenon
<1> QED  BY <1>5, <1>8, Zenon DEF LiteralText

(* Texts are put together in any order.                                                                               *)
LEMMA Together ==
  /\ <<>> \in Strings
  /\ \A x, y \in Strings : x \o y \in Strings
  /\ \A x, y, z \in Strings : (x \o y) \o z = x \o (y \o z)
  /\ \A x \in Strings : x \o <<>> = x /\ <<>> \o x = x
BY EmptySeq, ConcatProperties, ConcatAssociative, ConcatEmptySeq DEF Strings

\* A value as RFC 4627 writes it, around the text of what it holds, and in parts.
ValueIn(h, n, members) ==
  LET v      == h[n]
      string == QuoteMark \o v.text \o QuoteMark
  IN CASE v.type = "STRING" /\ v.child = NULL -> string
       [] v.type = "STRING" /\ v.child # NULL -> string \o ColonMark \o members
       [] v.type = "NUMBER"   -> v.text
       [] v.type \in Literals -> LiteralText(v.type)
       [] v.type = "OBJECT"   -> ObjectMark \o members \o ObjectEnd
       [] OTHER               -> ArrayMark \o members \o ArrayEnd

Opener(h, n) ==
  CASE h[n].type = "STRING"   -> QuoteMark \o h[n].text \o QuoteMark \o (IF h[n].child = NULL THEN <<>> ELSE ColonMark)
    [] h[n].type = "NUMBER"   -> h[n].text
    [] h[n].type \in Literals -> LiteralText(h[n].type)
    [] h[n].type = "OBJECT"   -> ObjectMark
    [] OTHER                  -> ArrayMark
Closer(h, n) ==
  CASE h[n].type = "OBJECT" -> ObjectEnd
    [] h[n].type = "ARRAY"  -> ArrayEnd
    [] OTHER                -> <<>>
Holds(h, n) == h[n].type \in {"STRING", "OBJECT", "ARRAY"}

ListBody(h, f, n) ==
  IF n = NULL THEN <<>>
  ELSE (IF h[n].previous = NULL THEN <<>> ELSE f[h[n].previous] \o CommaMark) \o ValueIn(h, n, f[h[n].child_end])
ListingIn(h) == CHOOSE f : f = [n \in Allocated(h) \cup {NULL} |-> ListBody(h, f, n)]

\* What a value has before it in its list, and what is in it.
Earlier(h, n) == IF h[n].previous = NULL THEN <<>> ELSE ListingIn(h)[h[n].previous] \o CommaMark
Inner(h, n) == IF Holds(h, n) THEN ListingIn(h)[h[n].child_end] ELSE <<>>

(* The parts of a value's text.                                                                                       *)
LEMMA PartsAreStrings ==
  ASSUME NEW h \in Heaps, Worded(h), NEW n \in Allocated(h)
  PROVE  Opener(h, n) \in Strings /\ Closer(h, n) \in Strings
<1>1. h[n].type \in {"STRING", "NUMBER"} => h[n].text \in Strings
  BY WordsAreStrings DEF Worded
<1>2. Closer(h, n) \in Strings
  BY MarksAreStrings, Together DEF Closer
<1>3. CASE h[n].type = "STRING"
  <2> DEFINE string == QuoteMark \o h[n].text \o QuoteMark
  <2>1. string \in Strings /\ string \o <<>> \in Strings /\ string \o ColonMark \in Strings
    BY <1>1, <1>3, MarksAreStrings, Together, Zenon
  <2>2. h[n].child = NULL => Opener(h, n) = string \o <<>>
    BY <1>3 DEF Opener, Literals
  <2>3. h[n].child # NULL => Opener(h, n) = string \o ColonMark
    BY <1>3 DEF Opener, Literals
  <2> QED  BY <1>2, <2>1, <2>2, <2>3, Zenon
<1>4. CASE h[n].type # "STRING"
  <2>1. h[n].type = "NUMBER" => Opener(h, n) = h[n].text
    BY <1>4 DEF Opener, Literals
  <2>2. h[n].type # "NUMBER" => Opener(h, n) \in {LiteralText(h[n].type), ObjectMark, ArrayMark}
    BY <1>4 DEF Opener, Literals
  <2> QED  BY <1>1, <1>2, <2>1, <2>2, MarksAreStrings, Zenon
<1> QED  BY <1>3, <1>4

LEMMA ValueIsString ==
  ASSUME NEW h \in Heaps, Worded(h), NEW n \in Allocated(h), NEW members \in Strings
  PROVE  ValueIn(h, n, members) \in Strings
<1> DEFINE string == QuoteMark \o h[n].text \o QuoteMark
<1>1. h[n].type \in {"STRING", "NUMBER"} => h[n].text \in Strings
  BY WordsAreStrings DEF Worded
<1>2. h[n].type = "STRING" => string \in Strings /\ string \o ColonMark \o members \in Strings
  BY <1>1, MarksAreStrings, Together, Zenon
<1>3. ObjectMark \o members \o ObjectEnd \in Strings /\ ArrayMark \o members \o ArrayEnd \in Strings
  BY MarksAreStrings, Together, Zenon
<1>4. /\ h[n].type = "STRING" => ValueIn(h, n, members) \in {string, string \o ColonMark \o members}
      /\ h[n].type = "NUMBER" => ValueIn(h, n, members) = h[n].text
      /\ h[n].type \notin {"STRING", "NUMBER"} =>
           ValueIn(h, n, members) \in
             {LiteralText(h[n].type), ObjectMark \o members \o ObjectEnd, ArrayMark \o members \o ArrayEnd}
  BY DEF ValueIn, Literals
<1> HIDE DEF string
<1> QED  BY <1>1, <1>2, <1>3, <1>4, MarksAreStrings, Zenon

LEMMA ValueParts ==
  ASSUME NEW h \in Heaps, Ended(h), Worded(h), NEW n \in Allocated(h), NEW members \in Strings,
         h[n].child_end = NULL => members = <<>>
  PROVE  /\ ValueIn(h, n, members) = Opener(h, n) \o (IF Holds(h, n) THEN members ELSE <<>>) \o Closer(h, n)
         /\ ValueIn(h, n, members) \in Strings
<1> DEFINE inner == IF Holds(h, n) THEN members ELSE <<>>
<1>1. h[n].type \in Types /\ (h[n].child = NULL => members = <<>>)
  BY AllocatedCells DEF Cells, Ended
<1>2. Opener(h, n) \in Strings /\ Closer(h, n) \in Strings
  BY PartsAreStrings
<1>3. inner \in Strings
  BY Together, Zenon
<1>4. h[n].type \in {"STRING", "NUMBER"} => h[n].text \in Strings
  BY WordsAreStrings DEF Worded
<1>5. CASE h[n].type = "STRING"
  <2> DEFINE string == QuoteMark \o h[n].text \o QuoteMark
  <2>1. string \in Strings
    BY <1>4, <1>5, MarksAreStrings, Together, Zenon
  <2>2. inner = members /\ Closer(h, n) = <<>>
    BY <1>5 DEF Holds, Closer
  <2>3. CASE h[n].child = NULL
    <3>1. ValueIn(h, n, members) = string /\ Opener(h, n) = string \o <<>> /\ members = <<>>
      BY <1>1, <1>5, <2>3 DEF ValueIn, Opener, Literals
    <3> HIDE DEF string, inner
    <3> QED  BY <2>1, <2>2, <3>1, Together, Zenon DEF inner
  <2>4. CASE h[n].child # NULL
    <3>1. ValueIn(h, n, members) = string \o ColonMark \o members /\ Opener(h, n) = string \o ColonMark
      BY <1>5, <2>4 DEF ValueIn, Opener, Literals
    <3> HIDE DEF string, inner
    <3>2. string \o ColonMark \o members \in Strings
      BY <2>1, MarksAreStrings, Together, Zenon
    <3> QED  BY <2>2, <3>1, <3>2, Together, Zenon DEF inner
  <2> QED  BY <2>3, <2>4
<1>6. CASE h[n].type = "NUMBER" \/ h[n].type \in Literals
  <2>1. inner = <<>> /\ Closer(h, n) = <<>>
    BY <1>6 DEF Holds, Closer, Literals
  <2>2. ValueIn(h, n, members) = Opener(h, n)
    BY <1>6 DEF ValueIn, Opener, Literals
  <2> HIDE DEF inner
  <2> QED  BY <1>2, <2>1, <2>2, Together, Zenon DEF inner
<1>7. CASE h[n].type \in {"OBJECT", "ARRAY"}
  <2>1. ValueIn(h, n, members) = Opener(h, n) \o inner \o Closer(h, n)
    BY <1>7 DEF ValueIn, Opener, Closer, Holds, Literals
  <2>2. Opener(h, n) \o inner \o Closer(h, n) \in Strings
    BY <1>2, <1>3, Together, Zenon
  <2> QED  BY <2>1, <2>2, Zenon
<1> QED  BY <1>1, <1>5, <1>6, <1>7 DEF Types, Scalars

-----------------------------------------------------------------------------
(* The listing of a heap *)

(* What the listing is, of a value, from what it is of the value before it and of its last child.                     *)
LEMMA ListingIs ==
  ASSUME NEW h, Linked(h), Layered(h), Worded(h)
  PROVE  /\ ListingIn(h) \in [Allocated(h) \cup {NULL} -> Strings]
         /\ ListingIn(h)[NULL] = <<>>
         /\ \A n \in Allocated(h) :
              ListingIn(h)[n] = Earlier(h, n) \o ValueIn(h, n, ListingIn(h)[h[n].child_end])
<1> DEFINE places == Allocated(h) \cup {NULL}
<1>1. h \in Heaps /\ Inside(h) /\ NULL \notin Allocated(h) /\ Allocated(h) \subseteq Nodes
  BY AllocatedCells, TreeNodes DEF Linked, Nodes
<1>2. IsFiniteSet(places)
  <2>1. IsFiniteSet(1..MaxNodes)
    BY TreeNodes, FS_Interval
  <2>2. Allocated(h) \in SUBSET (1..MaxNodes)
    BY <1>1 DEF Nodes
  <2> QED  BY <2>1, <2>2, FS_Subset, FS_AddElement
<1> DEFINE needs == [n \in places |-> IF n = NULL THEN {} ELSE {h[n].previous, h[n].child_end}]
           F == [x \in places \X [places -> Strings] |-> ListBody(h, x[2], x[1])]
<1>3. needs \in [places -> SUBSET places]
  BY <1>1 DEF Inside
<1>4. ASSUME NEW n \in Allocated(h), NEW f \in [places -> Strings]
      PROVE  /\ f[h[n].child_end] \in Strings
             /\ h[n].previous # NULL => f[h[n].previous] \in Strings
             /\ ListBody(h, f, n) \in Strings
  <2>1. h[n].child_end \in places /\ h[n].previous \in places /\ n # NULL
    BY <1>1 DEF Inside
  <2>2. f[h[n].child_end] \in Strings /\ f[h[n].previous] \in Strings
    BY <2>1
  <2>3. ValueIn(h, n, f[h[n].child_end]) \in Strings
    BY <1>1, <2>2, ValueIsString
  <2>4. (IF h[n].previous = NULL THEN <<>> ELSE f[h[n].previous] \o CommaMark) \in Strings
    BY <2>2, MarksAreStrings, Together, Zenon
  <2> QED  BY <2>1, <2>2, <2>3, <2>4, Together, Zenon DEF ListBody
<1>5. \A f : ListBody(h, f, NULL) = <<>>
  BY Zenon DEF ListBody
<1>6. \A n \in places : \A f \in [places -> Strings] : ListBody(h, f, n) \in Strings
  BY <1>4, <1>5, Together, Zenon
<1>7. F \in [places \X [places -> Strings] -> Strings]
  BY <1>6
<1>8. \A n \in places : \A f \in [places -> Strings] : F[<<n, f>>] = ListBody(h, f, n)
  OBVIOUS
<1>9. ASSUME NEW n \in places, NEW f, NEW g, \A k \in needs[n] : f[k] = g[k]
      PROVE  ListBody(h, f, n) = ListBody(h, g, n)
  <2>1. n # NULL => f[h[n].previous] = g[h[n].previous] /\ f[h[n].child_end] = g[h[n].child_end]
    BY <1>9
  <2> QED  BY <2>1, Zenon DEF ListBody
<1>10. ASSUME NEW s \in SUBSET places, s # {}
       PROVE  \E n \in s : needs[n] \cap s = {}
  <2>1. CASE NULL \in s
    BY <2>1
  <2>2. CASE NULL \notin s
    <3>1. PICK n \in s : h[n].previous \notin s /\ h[n].child_end \notin s
      BY <1>10, <2>2, Innermost
    <3>2. needs[n] = {h[n].previous, h[n].child_end}
      BY <2>2
    <3> HIDE DEF needs
    <3> QED  BY <3>1, <3>2
  <2> QED  BY <2>1, <2>2
<1> HIDE DEF needs, F, places
<1>11. \A n \in places : \A f, g \in [places -> Strings] : (\A k \in needs[n] : f[k] = g[k]) => F[<<n, f>>] = F[<<n, g>>]
  <2> SUFFICES ASSUME NEW n \in places, NEW f \in [places -> Strings], NEW g \in [places -> Strings],
                      \A k \in needs[n] : f[k] = g[k]
               PROVE  F[<<n, f>>] = F[<<n, g>>]
    BY Zenon
  <2>1. ListBody(h, f, n) = ListBody(h, g, n)
    BY <1>9
  <2> QED  BY <1>8, <2>1, Zenon
<1>12. \E f \in [places -> Strings] : \A n \in places : f[n] = F[<<n, f>>]
  <2>1. Strings # {}
    BY Together
  <2>2. \A s \in SUBSET places : s # {} => \E n \in s : needs[n] \cap s = {}
    BY <1>10
  <2>3. Recursive(places, Strings, F, needs)
    BY <1>2, <1>3, <1>7, <1>11, <2>1, <2>2, Zenon DEF Recursive
  <2> QED  BY <2>3, Recursion
<1>13. PICK f \in [places -> Strings] : \A n \in places : f[n] = ListBody(h, f, n)
  BY <1>8, <1>12
<1>14. f = [n \in places |-> ListBody(h, f, n)]
  BY <1>13
<1>15. ListingIn(h) = [n \in places |-> ListBody(h, ListingIn(h), n)]
  BY <1>14 DEF ListingIn, places
<1> DEFINE L == ListingIn(h)
<1> HIDE DEF L
<1>16. \A n \in places : L[n] = ListBody(h, L, n)
  BY <1>15 DEF L
<1>17. ASSUME NEW n \in places
       PROVE  L[n] = f[n]
  <2> DEFINE bad == {k \in places : L[k] # f[k]}
  <2>1. SUFFICES ASSUME bad # {}
                 PROVE  FALSE
    OBVIOUS
  <2>2. PICK k \in bad : needs[k] \cap bad = {}
    BY <1>10, <2>1
  <2>3. k \in places /\ L[k] # f[k] /\ \A j \in needs[k] : L[j] = f[j]
    BY <1>3, <2>2
  <2> QED  BY <1>9, <1>13, <1>16, <2>3, Zenon
<1>18. L \in [places -> Strings]
  BY <1>15, <1>17 DEF L
<1>19. L[NULL] = <<>>
  BY <1>5, <1>16, Zenon DEF places
<1>20. \A n \in Allocated(h) : L[n] = Earlier(h, n) \o ValueIn(h, n, L[h[n].child_end])
  <2>1. \A n \in Allocated(h) : n # NULL /\ n \in places
    BY <1>1 DEF places
  <2> QED  BY <1>16, <2>1, Zenon DEF ListBody, Earlier, L
<1> QED  BY <1>18, <1>19, <1>20 DEF L, places

LEMMA Associates ==
  ASSUME NEW x \in Strings, NEW y \in Strings, NEW z \in Strings
  PROVE  (x \o y) \o z = x \o (y \o z)
BY Together, Zenon

-----------------------------------------------------------------------------
(* What printing writes *)

Outputs == [text : Strings, max : Nat]
Roomy(out) == out \in Outputs /\ Fits(out)

QuoteChar == "\""
ColonChar == ":"
CommaChar == ","
ObjectChar == "{"
ObjectEndChar == "}"
ArrayChar == "["
ArrayEndChar == "]"

LEMMA CharsOfMarks ==
  /\ QuoteMark = <<QuoteChar>> /\ ColonMark = <<ColonChar>> /\ CommaMark = <<CommaChar>>
  /\ ObjectMark = <<ObjectChar>> /\ ObjectEnd = <<ObjectEndChar>> /\ ArrayMark = <<ArrayChar>> /\ ArrayEnd = <<ArrayEndChar>>
BY Zenon DEF QuoteMark, ColonMark, CommaMark, ObjectMark, ObjectEnd, ArrayMark, ArrayEnd,
             QuoteChar, ColonChar, CommaChar, ObjectChar, ObjectEndChar, ArrayChar, ArrayEndChar

LEMMA RoomIs ==
  ASSUME NEW text \in Strings, NEW max \in Nat, Len(text) =< max
  PROVE  Roomy([text |-> text, max |-> max])
<1> DEFINE out == [text |-> text, max |-> max]
<1>1. out \in Outputs
  BY DEF Outputs
<1>2. out.text = text /\ out.max = max
  OBVIOUS
<1> HIDE DEF out
<1>3. Roomy(out)
  BY <1>1, <1>2 DEF Roomy, Fits, rcs_length
<1> QED  BY <1>3 DEF out

(* A string that grows: the text is appended, and there is room for it and its terminator.                            *)
LEMMA Appends ==
  ASSUME NEW out, Roomy(out)
  PROVE  /\ \A s \in Strings : Roomy(rcs_catcs(out, s)) /\ rcs_catcs(out, s).text = out.text \o s
         /\ \A c : <<c>> \in Strings => Roomy(rcs_catc(out, c)) /\ rcs_catc(out, c).text = out.text \o <<c>>
<1>1. out \in Outputs /\ Len(out.text) =< out.max /\ out.max \in Nat /\ out.text \in Seq(Chars)
  BY DEF Roomy, Outputs, Strings, Fits, rcs_length
<1>2. ASSUME NEW s \in Seq(Chars)
      PROVE  Roomy(rcs_catcs(out, s)) /\ rcs_catcs(out, s).text = out.text \o s
  <2>1. out.text \o s \in Seq(Chars) /\ Len(out.text \o s) = Len(out.text) + Len(s) /\ Len(s) \in Nat /\ Len(out.text) \in Nat
    BY <1>1, ConcatProperties, LenProperties
  <2> DEFINE long == out.text \o s
             max == IF out.max < Len(out.text) + Len(s) THEN Len(out.text) + Len(s) + RSTRING_INCSTEP ELSE out.max
  <2>2. rcs_catcs(out, s) = [text |-> long, max |-> max]
    <3>1. PICK t \in Strings, m \in Nat : out = [text |-> t, max |-> m]
      BY <1>1 DEF Outputs
    <3> HIDE DEF Strings
    <3>2. rcs_resize(out, Len(t) + Len(s) + RSTRING_INCSTEP) = [text |-> t, max |-> Len(t) + Len(s) + RSTRING_INCSTEP]
      BY <3>1 DEF rcs_resize
    <3> DEFINE Longer(r) == [r EXCEPT !.text = @ \o s]
    <3>3. \A k : Longer([text |-> t, max |-> k]) = [text |-> t \o s, max |-> k]
      <4>1. \A k, x : [[text |-> t, max |-> k] EXCEPT !.text = x] = [text |-> x, max |-> k]
        OBVIOUS
      <4>2. \A k : [text |-> t, max |-> k].text = t
        OBVIOUS
      <4> QED  BY <4>1, <4>2, Zenon
    <3>4. rcs_catcs(out, s) = Longer(IF m < Len(t) + Len(s) THEN rcs_resize(out, Len(t) + Len(s) + RSTRING_INCSTEP) ELSE out)
      BY <3>1 DEF rcs_catcs
    <3> HIDE DEF Longer
    <3>5. CASE m < Len(t) + Len(s)
      BY <3>1, <3>2, <3>3, <3>4, <3>5
    <3>6. CASE ~(m < Len(t) + Len(s))
      BY <3>1, <3>3, <3>4, <3>6
    <3> QED  BY <3>5, <3>6
  <2>3. max \in Nat /\ Len(long) =< max
    BY <1>1, <2>1, RcSizes
  <2> HIDE DEF max, long
  <2>4. Roomy([text |-> long, max |-> max])
    <3>1. long \in Strings
      BY <2>1, Zenon DEF Strings, long
    <3> QED  BY <2>3, <3>1, RoomIs
  <2> QED  BY <2>2, <2>4 DEF long
<1>3. ASSUME NEW c, <<c>> \in Seq(Chars)
      PROVE  Roomy(rcs_catc(out, c)) /\ rcs_catc(out, c).text = out.text \o <<c>>
  <2>1. c \in Chars
    BY <1>3
  <2>2. /\ out.text \o <<c>> \in Seq(Chars) /\ Len(out.text \o <<c>>) = Len(out.text) + 1 /\ Len(out.text) \in Nat
        /\ Append(out.text, c) = out.text \o <<c>>
    BY <1>1, <2>1, AppendProperties, AppendIsConcat, LenProperties
  <2> DEFINE long == out.text \o <<c>>
             max == IF out.max =< Len(out.text) THEN out.max + RSTRING_INCSTEP ELSE out.max
  <2>3. rcs_catc(out, c) = [text |-> Append(out.text, c), max |-> max]
    <3>1. PICK t \in Strings, m \in Nat : out = [text |-> t, max |-> m]
      BY <1>1 DEF Outputs
    <3>2. rcs_resize(out, m + RSTRING_INCSTEP) = [text |-> t, max |-> m + RSTRING_INCSTEP]
      BY <3>1 DEF rcs_resize
    <3>3. CASE m =< Len(t)
      BY <3>1, <3>2, <3>3 DEF rcs_catc
    <3>4. CASE ~(m =< Len(t))
      BY <3>1, <3>4 DEF rcs_catc
    <3> QED  BY <3>3, <3>4
  <2>4. max \in Nat /\ Len(long) =< max
    BY <1>1, <2>2, RcSizes
  <2> HIDE DEF max, long
  <2>5. Roomy([text |-> long, max |-> max])
    <3>1. long \in Strings
      BY <2>2, Zenon DEF Strings, long
    <3> QED  BY <2>4, <3>1, RoomIs
  <2> QED  BY <2>2, <2>3, <2>5 DEF long
<1> QED  BY <1>2, <1>3 DEF Strings

LEMMA AppendsMarks ==
  ASSUME NEW out, Roomy(out)
  PROVE  /\ Roomy(rcs_catc(out, QuoteChar)) /\ rcs_catc(out, QuoteChar).text = out.text \o QuoteMark
         /\ Roomy(rcs_catc(out, ColonChar)) /\ rcs_catc(out, ColonChar).text = out.text \o ColonMark
         /\ Roomy(rcs_catc(out, CommaChar)) /\ rcs_catc(out, CommaChar).text = out.text \o CommaMark
         /\ Roomy(rcs_catc(out, ObjectChar)) /\ rcs_catc(out, ObjectChar).text = out.text \o ObjectMark
         /\ Roomy(rcs_catc(out, ObjectEndChar)) /\ rcs_catc(out, ObjectEndChar).text = out.text \o ObjectEnd
         /\ Roomy(rcs_catc(out, ArrayChar)) /\ rcs_catc(out, ArrayChar).text = out.text \o ArrayMark
         /\ Roomy(rcs_catc(out, ArrayEndChar)) /\ rcs_catc(out, ArrayEndChar).text = out.text \o ArrayEnd
<1>1. \A c : <<c>> \in Strings => Roomy(rcs_catc(out, c)) /\ rcs_catc(out, c).text = out.text \o <<c>>
  BY Appends, Zenon
<1> QED  BY <1>1, CharsOfMarks, MarksAreStrings, Zenon

LEMMA QuotesAround ==
  ASSUME NEW a \in Strings, NEW t \in Strings
  PROVE  ((a \o QuoteMark) \o t) \o QuoteMark = a \o ((QuoteMark \o t) \o QuoteMark)
<1>1. QuoteMark \in Strings /\ QuoteMark \o t \in Strings
  BY MarksAreStrings, Together, Zenon
<1>2. (a \o QuoteMark) \o t = a \o (QuoteMark \o t)
  BY <1>1, Associates
<1>3. (a \o (QuoteMark \o t)) \o QuoteMark = a \o ((QuoteMark \o t) \o QuoteMark)
  BY <1>1, Associates
<1> QED  BY <1>2, <1>3

QuotedBy(out, text) == rcs_catc(rcs_catcs(rcs_catc(out, QuoteChar), text), QuoteChar)
WithComma(out, n) == IF heap[n].previous # NULL /\ n # root THEN rcs_catc(out, CommaChar) ELSE out
OpeningBy(with, n) ==
  LET v == heap[n] IN
  CASE v.type = "STRING" /\ IsLabel(n) /\ v.child # NULL -> rcs_catc(QuotedBy(with, v.text), ColonChar)
    [] v.type = "STRING" /\ ~(IsLabel(n) /\ v.child # NULL) -> QuotedBy(with, v.text)
    [] v.type = "NUMBER"   -> rcs_catcs(with, v.text)
    [] v.type \in Literals -> rcs_catcs(with, LiteralText(v.type))
    [] v.type = "OBJECT"   -> rcs_catc(with, ObjectChar)
    [] OTHER               -> rcs_catc(with, ArrayChar)
ClosingBy(out, n) ==
  CASE heap[n].type = "OBJECT" -> rcs_catc(out, ObjectEndChar)
    [] heap[n].type = "ARRAY"  -> rcs_catc(out, ArrayEndChar)
    [] OTHER                   -> out

LEMMA OpeningAndClosing ==
  /\ \A out, n : Opening(out, n) = OpeningBy(WithComma(out, n), n)
  /\ \A out, n : Closing(out, n) = ClosingBy(out, n)
<1>1. ASSUME NEW out, NEW n
      PROVE  Opening(out, n) = OpeningBy(WithComma(out, n), n)
  BY Zenon DEF Opening, OpeningBy, WithComma, Quoted, QuotedBy, QuoteChar, ColonChar, CommaChar, ObjectChar, ArrayChar
<1>2. ASSUME NEW out, NEW n
      PROVE  Closing(out, n) = ClosingBy(out, n)
  BY Zenon DEF Closing, ClosingBy, ObjectEndChar, ArrayEndChar
<1> QED  BY <1>1, <1>2

\* The comma before a value, and what a string needs so that it is opened as the document has it.
CommaAt(n) == IF heap[n].previous # NULL /\ n # root THEN CommaMark ELSE <<>>
Labelled(n) == heap[n].type = "STRING" => (IsLabel(n) <=> heap[n].child # NULL)

LEMMA OpeningWrites ==
  ASSUME heap \in Heaps, Worded(heap), NEW n \in Allocated(heap), NEW out, Roomy(out)
  PROVE  /\ Roomy(Opening(out, n))
         /\ Labelled(n) => Opening(out, n).text = out.text \o CommaAt(n) \o Opener(heap, n)
<1> DEFINE with == WithComma(out, n)
           v == heap[n]
<1>1. Roomy(with) /\ with.text = out.text \o CommaAt(n) /\ with.text \in Strings
  BY AppendsMarks, Together, MarksAreStrings DEF WithComma, CommaAt, Roomy, Outputs
<1>2. v.type \in {"STRING", "NUMBER"} => v.text \in Strings
  BY WordsAreStrings DEF Worded
<1>3. Opening(out, n) = OpeningBy(with, n)
  BY OpeningAndClosing
<1>4. v.type \in Types
  BY AllocatedCells DEF Cells
<1> HIDE DEF with
<1>5. SUFFICES Roomy(OpeningBy(with, n)) /\ (Labelled(n) => OpeningBy(with, n).text = with.text \o Opener(heap, n))
  BY <1>1, <1>3
<1>6. CASE v.type = "STRING"
  <2> DEFINE first == rcs_catc(with, QuoteChar)
             second == rcs_catcs(first, v.text)
             third == rcs_catc(second, QuoteChar)
             fourth == rcs_catc(third, ColonChar)
  <2>1. Roomy(first) /\ first.text = with.text \o QuoteMark
    BY <1>1, AppendsMarks, Zenon
  <2> HIDE DEF first
  <2>2. Roomy(second) /\ second.text = first.text \o v.text
    BY <1>2, <1>6, <2>1, Appends
  <2> HIDE DEF second
  <2>3. Roomy(third) /\ third.text = second.text \o QuoteMark
    BY <2>2, AppendsMarks, Zenon
  <2> HIDE DEF third
  <2>4. Roomy(fourth) /\ fourth.text = third.text \o ColonMark
    BY <2>3, AppendsMarks, Zenon
  <2> HIDE DEF fourth
  <2>5. OpeningBy(with, n) = IF IsLabel(n) /\ v.child # NULL THEN fourth ELSE third
    BY <1>6 DEF OpeningBy, QuotedBy, Literals, first, second, third, fourth
  <2> DEFINE string == QuoteMark \o v.text \o QuoteMark
  <2>6. string \in Strings /\ third.text = with.text \o string /\ fourth.text = with.text \o (string \o ColonMark)
        /\ string \o <<>> = string
    <3>1. string \in Strings /\ QuoteMark \o v.text \in Strings /\ with.text \o QuoteMark \in Strings
      BY <1>1, <1>2, <1>6, MarksAreStrings, Together, Zenon
    <3>2. third.text = with.text \o string
      <4>1. with.text \in Strings /\ v.text \in Strings
        BY <1>1, <1>2, <1>6
      <4>2. ((with.text \o QuoteMark) \o v.text) \o QuoteMark = with.text \o ((QuoteMark \o v.text) \o QuoteMark)
        BY <4>1, QuotesAround
      <4>3. third.text = ((with.text \o QuoteMark) \o v.text) \o QuoteMark
        BY <2>1, <2>2, <2>3
      <4> QED  BY <4>2, <4>3
    <3> HIDE DEF string
    <3>3. (with.text \o string) \o ColonMark = with.text \o (string \o ColonMark)
      <4>1. with.text \in Strings /\ ColonMark \in Strings
        BY <1>1, MarksAreStrings
      <4> QED  BY <3>1, <4>1, Associates
    <3>4. string \o <<>> = string
      BY <3>1, Together, Zenon
    <3> QED  BY <2>4, <3>1, <3>2, <3>3, <3>4, Zenon
  <2>7. Opener(heap, n) = string \o (IF v.child = NULL THEN <<>> ELSE ColonMark)
    BY <1>6 DEF Opener, Literals
  <2> HIDE DEF string
  <2> QED  BY <1>6, <2>3, <2>4, <2>5, <2>6, <2>7 DEF Labelled
<1>7. CASE v.type = "NUMBER"
  <2>1. OpeningBy(with, n) = rcs_catcs(with, v.text) /\ Opener(heap, n) = v.text
    BY <1>7 DEF OpeningBy, Opener, Literals
  <2>2. v.text \in Strings
    BY <1>2, <1>7
  <2> QED  BY <1>1, <2>1, <2>2, Appends, Zenon
<1>8. CASE v.type \in Literals
  <2>1. OpeningBy(with, n) = rcs_catcs(with, LiteralText(v.type)) /\ Opener(heap, n) = LiteralText(v.type)
    BY <1>8 DEF OpeningBy, Opener, Literals
  <2>2. LiteralText(v.type) \in Strings
    BY MarksAreStrings, Zenon
  <2> QED  BY <1>1, <2>1, <2>2, Appends, Zenon
<1>9. CASE v.type = "OBJECT"
  <2>1. OpeningBy(with, n) = rcs_catc(with, ObjectChar) /\ Opener(heap, n) = ObjectMark
    BY <1>9 DEF OpeningBy, Opener, Literals
  <2> QED  BY <1>1, <2>1, AppendsMarks, Zenon
<1>10. CASE v.type = "ARRAY"
  <2>1. OpeningBy(with, n) = rcs_catc(with, ArrayChar) /\ Opener(heap, n) = ArrayMark
    BY <1>10 DEF OpeningBy, Opener, Literals
  <2> QED  BY <1>1, <2>1, AppendsMarks, Zenon
<1> QED  BY <1>4, <1>6, <1>7, <1>8, <1>9, <1>10 DEF Types, Scalars

LEMMA ClosingWrites ==
  ASSUME heap \in Heaps, NEW n \in Allocated(heap), NEW out, Roomy(out)
  PROVE  Roomy(Closing(out, n)) /\ Closing(out, n).text = out.text \o Closer(heap, n)
<1>1. Closing(out, n) = ClosingBy(out, n) /\ out.text \in Strings
  BY OpeningAndClosing DEF Roomy, Outputs
<1>2. CASE heap[n].type = "OBJECT"
  <2>1. ClosingBy(out, n) = rcs_catc(out, ObjectEndChar) /\ Closer(heap, n) = ObjectEnd
    BY <1>2 DEF ClosingBy, Closer
  <2> QED  BY <1>1, <2>1, AppendsMarks, Zenon
<1>3. CASE heap[n].type = "ARRAY"
  <2>1. ClosingBy(out, n) = rcs_catc(out, ArrayEndChar) /\ Closer(heap, n) = ArrayEnd
    BY <1>3 DEF ClosingBy, Closer
  <2> QED  BY <1>1, <2>1, AppendsMarks, Zenon
<1>4. CASE heap[n].type \notin {"OBJECT", "ARRAY"}
  <2>1. ClosingBy(out, n) = out /\ Closer(heap, n) = <<>>
    BY <1>4 DEF ClosingBy, Closer
  <2> QED  BY <1>1, <2>1, Together
<1> QED  BY <1>2, <1>3, <1>4

-----------------------------------------------------------------------------
(* The way from a value to one below it *)

\* What is printed of the tree before the members of a value: of each value on the way, what it has before it in its
\* list and its own opening.
Onward(h, n, text) == text \o (Earlier(h, n) \o Opener(h, n))
PathTo(h, top, at, s, before) ==
  /\ s \in SUBSET Allocated(h) /\ top \in s /\ at \in s /\ before \in [s -> Strings]
  /\ before[top] = Opener(h, top)
  /\ \A n \in s \ {top} : /\ h[n].parent \in s /\ Holds(h, h[n].parent)
                          /\ before[n] = Onward(h, n, before[h[n].parent])

Trees(h) == Linked(h) /\ Layered(h) /\ Worded(h)

LEMMA TreesAre ==
  ASSUME NEW h, Trees(h)
  PROVE  /\ h \in Heaps /\ Inside(h) /\ Ended(h) /\ Chained(h) /\ Listed(h) /\ Linked(h) /\ Layered(h) /\ Worded(h)
         /\ NULL \notin Allocated(h) /\ Allocated(h) \subseteq Nodes
BY AllocatedCells, TreeNodes DEF Trees, Linked, Nodes

(* What the listing adds, for each value of a list.                                                                   *)
LEMMA ListingAdds ==
  ASSUME NEW h, Trees(h), NEW n \in Allocated(h)
  PROVE  /\ Earlier(h, n) \in Strings /\ Inner(h, n) \in Strings
         /\ Opener(h, n) \in Strings /\ Closer(h, n) \in Strings
         /\ ListingIn(h)[n] = Earlier(h, n) \o ((Opener(h, n) \o Inner(h, n)) \o Closer(h, n))
         /\ ValueIn(h, n, ListingIn(h)[h[n].child_end]) = (Opener(h, n) \o Inner(h, n)) \o Closer(h, n)
         /\ h[n].child = NULL => Inner(h, n) = <<>>
         /\ h[n].previous = NULL => Earlier(h, n) = <<>>
<1> DEFINE members == ListingIn(h)[h[n].child_end]
<1>1. /\ h \in Heaps /\ Inside(h) /\ Ended(h) /\ Linked(h) /\ Layered(h) /\ Worded(h) /\ NULL \notin Allocated(h)
  BY TreesAre
<1>2. /\ ListingIn(h) \in [Allocated(h) \cup {NULL} -> Strings]
      /\ ListingIn(h)[NULL] = <<>>
      /\ ListingIn(h)[n] = Earlier(h, n) \o ValueIn(h, n, members)
  BY <1>1, ListingIs
<1>3. members \in Strings /\ (h[n].child_end = NULL => members = <<>>)
  BY <1>1, <1>2 DEF Inside
<1>4. h[n].previous # NULL => ListingIn(h)[h[n].previous] \in Strings
  BY <1>1, <1>2 DEF Inside
<1> HIDE DEF members
<1>5. ValueIn(h, n, members) = Opener(h, n) \o (IF Holds(h, n) THEN members ELSE <<>>) \o Closer(h, n)
  BY <1>1, <1>3, ValueParts
<1>6. Inner(h, n) = IF Holds(h, n) THEN members ELSE <<>>
  BY DEF Inner, members
<1>7. Inner(h, n) \in Strings /\ (h[n].child = NULL => Inner(h, n) = <<>>)
  <2>1. h[n].child = NULL => h[n].child_end = NULL
    BY <1>1 DEF Ended
  <2> QED  BY <1>3, <1>6, <2>1, Together, Zenon
<1>8. Earlier(h, n) \in Strings /\ (h[n].previous = NULL => Earlier(h, n) = <<>>)
  BY <1>4, MarksAreStrings, Together, Zenon DEF Earlier
<1>9. Opener(h, n) \in Strings /\ Closer(h, n) \in Strings
  BY <1>1, PartsAreStrings
<1> QED  BY <1>2, <1>5, <1>6, <1>7, <1>8, <1>9, Zenon DEF members

LEMMA PathStarts ==
  ASSUME NEW h, Trees(h), NEW top \in Allocated(h)
  PROVE  PathTo(h, top, top, {top}, [n \in {top} |-> Opener(h, top)])
<1>1. Opener(h, top) \in Strings
  BY ListingAdds
<1> DEFINE before == [n \in {top} |-> Opener(h, top)]
<1>2. before \in [{top} -> Strings] /\ before[top] = Opener(h, top)
  BY <1>1
<1> HIDE DEF before
<1>3. PathTo(h, top, top, {top}, before)
  BY <1>2 DEF PathTo
<1> QED  BY <1>3 DEF before

(* The way to a value goes on to any of its children.                                                                 *)
LEMMA PathGrows ==
  ASSUME NEW h, Trees(h), NEW top, NEW at, NEW s, NEW before, PathTo(h, top, at, s, before),
         NEW n \in Allocated(h), h[n].parent = at, Holds(h, at)
  PROVE  \E t, after : PathTo(h, top, n, t, after) /\ after[n] = Onward(h, n, before[at])
<1>1. /\ s \in SUBSET Allocated(h) /\ top \in s /\ at \in s /\ before \in [s -> Strings]
      /\ before[top] = Opener(h, top)
      /\ \A k \in s \ {top} : /\ h[k].parent \in s /\ Holds(h, h[k].parent)
                              /\ before[k] = Onward(h, k, before[h[k].parent])
  BY DEF PathTo
<1>2. n # top
  <2>1. PICK k \in s : h[k].parent \notin s
    BY <1>1, TreesAre, Uppermost
  <2> QED  BY <1>1, <2>1
<1> DEFINE own == Onward(h, n, before[at])
<1>3. own \in Strings
  <2>1. before[at] \in Strings /\ Earlier(h, n) \in Strings /\ Opener(h, n) \in Strings
    BY <1>1, ListingAdds
  <2> QED  BY <2>1, Together, Zenon DEF Onward
<1> HIDE DEF own
<1>4. CASE n \in s
  <2>1. before[n] = own
    BY <1>1, <1>2, <1>4 DEF own
  <2>2. PathTo(h, top, n, s, before)
    BY <1>1, <1>4 DEF PathTo
  <2> QED  BY <2>1, <2>2 DEF own
<1>5. CASE n \notin s
  <2> DEFINE t == s \cup {n}
             after == [k \in t |-> IF k = n THEN own ELSE before[k]]
  <2>1. after \in [t -> Strings] /\ after[n] = own /\ \A k \in s : after[k] = before[k]
    BY <1>1, <1>3, <1>5
  <2> HIDE DEF after
  <2>2. \A k \in t \ {top} : h[k].parent \in s /\ Holds(h, h[k].parent)
    BY <1>1
  <2>3. \A k \in t \ {top} : after[k] = Onward(h, k, after[h[k].parent])
    <3> SUFFICES ASSUME NEW k \in t \ {top}
                 PROVE  after[k] = Onward(h, k, after[h[k].parent])
      OBVIOUS
    <3>1. after[h[k].parent] = before[h[k].parent]
      BY <2>1, <2>2
    <3>2. CASE k = n
      BY <2>1, <3>1, <3>2 DEF own
    <3>3. CASE k # n
      BY <1>1, <2>1, <3>1, <3>3
    <3> QED  BY <3>2, <3>3
  <2>4. PathTo(h, top, n, t, after)
    <3>1. t \in SUBSET Allocated(h) /\ top \in t /\ n \in t /\ after[top] = Opener(h, top)
      BY <1>1, <2>1
    <3> QED  BY <2>1, <2>2, <2>3, <3>1 DEF PathTo
  <2> QED  BY <2>1, <2>4 DEF own
<1> QED  BY <1>4, <1>5

LEMMA PathIsBelow ==
  ASSUME NEW h, NEW top, NEW at, NEW s, NEW before, PathTo(h, top, at, s, before)
  PROVE  Below(h, top, at) /\ at \in Allocated(h) /\ top \in Allocated(h) /\ before[at] \in Strings
BY DEF PathTo, Below

-----------------------------------------------------------------------------
(* Printing *)

Comma(h, top, n) == IF h[n].previous # NULL /\ n # top THEN CommaMark ELSE <<>>

\* What was printed when the value at the cursor is opened, and when it is closed.
Said(h, top, at, turn, text, before) ==
  /\ turn = "open"  => text \o (Comma(h, top, at) \o Opener(h, at)) = before[at]
  /\ turn = "close" => text = before[at] \o Inner(h, at)

(* From one value to the next, of the text.                                                                           *)
LEMMA SaysFirst ==
  ASSUME NEW h, Trees(h), NEW top \in Allocated(h)
  PROVE  Said(h, top, top, "open", <<>>, [n \in {top} |-> Opener(h, top)])
<1>1. Opener(h, top) \in Strings
  BY ListingAdds
<1>2. Comma(h, top, top) = <<>>
  BY DEF Comma
<1>3. <<>> \o (<<>> \o Opener(h, top)) = Opener(h, top)
  BY <1>1, Together, Zenon
<1>4. [n \in {top} |-> Opener(h, top)][top] = Opener(h, top)
  OBVIOUS
<1> QED  BY <1>2, <1>3, <1>4, Zenon DEF Said

LEMMA SaysChild ==
  ASSUME NEW h, Trees(h), NEW top, NEW at, NEW s, NEW before, PathTo(h, top, at, s, before), Holds(h, at),
         h[at].child # NULL
  PROVE  \E t, after : /\ PathTo(h, top, h[at].child, t, after)
                       /\ Said(h, top, h[at].child, "open", before[at], after)
<1> DEFINE n == h[at].child
<1>1. at \in Allocated(h) /\ before[at] \in Strings
  BY PathIsBelow
<1>2. n \in Allocated(h) /\ h[n].parent = at /\ h[n].previous = NULL
  BY <1>1, TreesAre DEF Inside, Ended
<1>3. PICK t, after : PathTo(h, top, n, t, after) /\ after[n] = Onward(h, n, before[at])
  BY <1>2, PathGrows
<1> HIDE DEF n
<1>4. Earlier(h, n) = <<>> /\ Opener(h, n) \in Strings
  BY <1>2, ListingAdds
<1>5. Comma(h, top, n) = <<>>
  BY <1>2 DEF Comma
<1>6. Said(h, top, n, "open", before[at], after)
  BY <1>3, <1>4, <1>5, Zenon DEF Said, Onward
<1> QED  BY <1>3, <1>6 DEF n

LEMMA SaysInner ==
  ASSUME NEW h, Trees(h), NEW top, NEW at, NEW s, NEW before, PathTo(h, top, at, s, before),
         ~Holds(h, at) \/ h[at].child = NULL
  PROVE  Said(h, top, at, "close", before[at], before)
<1>1. at \in Allocated(h) /\ before[at] \in Strings
  BY PathIsBelow
<1>2. Inner(h, at) = <<>>
  BY <1>1, ListingAdds DEF Inner
<1>3. before[at] \o <<>> = before[at]
  BY <1>1, Together, Zenon
<1> QED  BY <1>2, <1>3, Zenon DEF Said

(* A value that is closed, and is not the argument, leaves what its parent has before it and the list up to it.       *)
LEMMA SaysListing ==
  ASSUME NEW h, Trees(h), NEW top, NEW at, NEW s, NEW before, PathTo(h, top, at, s, before), at # top
  PROVE  /\ h[at].parent \in Allocated(h) /\ Holds(h, h[at].parent) /\ PathTo(h, top, h[at].parent, s, before)
         /\ (before[at] \o Inner(h, at)) \o Closer(h, at) = before[h[at].parent] \o ListingIn(h)[at]
         /\ ListingIn(h)[at] \in Strings
<1> DEFINE p == h[at].parent
<1>1. at \in Allocated(h) /\ before[at] \in Strings
  BY PathIsBelow
<1>2. p \in Allocated(h) /\ Holds(h, p) /\ PathTo(h, top, p, s, before)
      /\ before[at] = Onward(h, at, before[p]) /\ before[p] \in Strings
  BY DEF PathTo
<1> HIDE DEF p
<1> DEFINE e == Earlier(h, at)
           o == Opener(h, at)
           i == Inner(h, at)
           c == Closer(h, at)
           b == before[p]
<1>3. e \in Strings /\ o \in Strings /\ i \in Strings /\ c \in Strings /\ ListingIn(h)[at] = e \o ((o \o i) \o c)
  BY <1>1, ListingAdds
<1>4. b \in Strings /\ before[at] = b \o (e \o o)
  BY <1>2 DEF Onward
<1> HIDE DEF e, o, i, c, b
<1>5. /\ e \o o \in Strings /\ o \o i \in Strings /\ e \o (o \o i) \in Strings /\ (o \o i) \o c \in Strings
      /\ e \o ((o \o i) \o c) \in Strings
  BY <1>3, Together, Zenon
<1>6. (b \o (e \o o)) \o i = b \o ((e \o o) \o i)
  BY <1>3, <1>4, <1>5, Associates
<1>7. (e \o o) \o i = e \o (o \o i)
  BY <1>3, Associates
<1>8. (b \o (e \o (o \o i))) \o c = b \o ((e \o (o \o i)) \o c)
  BY <1>3, <1>4, <1>5, Associates
<1>9. (e \o (o \o i)) \o c = e \o ((o \o i) \o c)
  <2> DEFINE v == o \o i
  <2>1. v \in Strings
    BY <1>5
  <2> HIDE DEF v
  <2>2. (e \o v) \o c = e \o (v \o c)
    BY <1>3, <2>1, Associates
  <2> QED  BY <2>2 DEF v
<1>10. (before[at] \o i) \o c = b \o ListingIn(h)[at]
  BY <1>3, <1>4, <1>6, <1>7, <1>8, <1>9, Zenon
<1> QED  BY <1>2, <1>3, <1>5, <1>10 DEF p, b, i, c

LEMMA SaysNext ==
  ASSUME NEW h, Trees(h), NEW top, NEW at, NEW s, NEW before, PathTo(h, top, at, s, before), at # top,
         h[at].next # NULL
  PROVE  \E t, after : /\ PathTo(h, top, h[at].next, t, after)
                       /\ Said(h, top, h[at].next, "open", (before[at] \o Inner(h, at)) \o Closer(h, at), after)
<1> DEFINE n == h[at].next
           p == h[at].parent
<1>1. at \in Allocated(h)
  BY PathIsBelow
<1>2. /\ p \in Allocated(h) /\ Holds(h, p) /\ PathTo(h, top, p, s, before)
      /\ (before[at] \o Inner(h, at)) \o Closer(h, at) = before[p] \o ListingIn(h)[at]
      /\ ListingIn(h)[at] \in Strings
  BY SaysListing
<1>3. n \in Allocated(h) /\ h[n].parent = p /\ h[n].previous = at /\ at # NULL
  BY <1>1, TreesAre DEF Inside, Chained
<1> HIDE DEF n, p
<1>4. PICK t, after : PathTo(h, top, n, t, after) /\ after[n] = Onward(h, n, before[p])
  BY <1>2, <1>3, PathGrows
<1>5. n # top
  <2>1. PICK k \in s : h[k].parent \notin s
    BY TreesAre, Uppermost DEF PathTo
  <2> QED  BY <1>2, <1>3, <2>1 DEF PathTo
<1>6. Comma(h, top, n) = CommaMark /\ Earlier(h, n) = ListingIn(h)[at] \o CommaMark
  BY <1>3, <1>5 DEF Comma, Earlier
<1>7. Opener(h, n) \in Strings /\ before[p] \in Strings
  BY <1>2, <1>3, ListingAdds, PathIsBelow
<1> DEFINE o == Opener(h, n)
           l == ListingIn(h)[at]
           b == before[p]
<1>8. /\ (b \o l) \o (CommaMark \o o) = b \o (l \o (CommaMark \o o))
      /\ (l \o CommaMark) \o o = l \o (CommaMark \o o)
  <2>1. CommaMark \in Strings /\ CommaMark \o o \in Strings
    BY <1>7, MarksAreStrings, Together, Zenon
  <2> QED  BY <1>2, <1>7, <2>1, Associates
<1>9. Said(h, top, n, "open", b \o l, after)
  BY <1>4, <1>6, <1>8, Zenon DEF Said, Onward
<1> QED  BY <1>2, <1>4, <1>9 DEF n

LEMMA SaysUp ==
  ASSUME NEW h, Trees(h), NEW top, NEW at, NEW s, NEW before, PathTo(h, top, at, s, before), at # top,
         h[at].next = NULL
  PROVE  /\ PathTo(h, top, h[at].parent, s, before)
         /\ Said(h, top, h[at].parent, "close", (before[at] \o Inner(h, at)) \o Closer(h, at), before)
<1> DEFINE p == h[at].parent
<1>1. at \in Allocated(h)
  BY PathIsBelow
<1>2. /\ p \in Allocated(h) /\ Holds(h, p) /\ PathTo(h, top, p, s, before)
      /\ (before[at] \o Inner(h, at)) \o Closer(h, at) = before[p] \o ListingIn(h)[at]
  BY SaysListing
<1>3. h[p].child_end = at
  BY <1>1, <1>2, TreesAre DEF Listed
<1> HIDE DEF p
<1>4. Inner(h, p) = ListingIn(h)[at]
  BY <1>2, <1>3 DEF Inner
<1>5. Said(h, top, p, "close", before[p] \o ListingIn(h)[at], before)
  BY <1>4, Zenon DEF Said
<1> QED  BY <1>2, <1>5 DEF p

-----------------------------------------------------------------------------
(* A call that prints *)

Printers == {"tree_to_string", "stream_output"}

\* While a call prints, the cursor is below its argument, and the text so far is what stands before it in the document;
\* there is room for it.
PrintInv ==
  IF call \in Printers
  THEN /\ Roomy(output) /\ step \in {"open", "close"} /\ result = "none"
       /\ \E s, before : /\ PathTo(heap, root, cursor, s, before)
                         /\ WellFormed(root) => Said(heap, root, cursor, step, output.text, before)
  ELSE output = NULL

LEMMA PrintReturns ==
  ASSUME NEW code, Return(code)
  PROVE  PrintInv'
BY DEF Return, PrintInv, Printers

LEMMA PrintStutters ==
  ASSUME PrintInv, UNCHANGED <<heap, call, root, cursor, step, output, result>>
  PROVE  PrintInv'
<1>1. WellFormed(root)' <=> WellFormed(root)
  BY DEF WellFormed, IsLabel
<1> QED  BY <1>1, Zenon DEF PrintInv

LEMMA PrintStarts ==
  ASSUME Trees(heap), NEW f \in Printers, NEW v \in Allocated(heap), Prints(f, v)
  PROVE  PrintInv'
<1> DEFINE before == [n \in {v} |-> Opener(heap, v)]
           empty == [text |-> <<>>, max |-> RSTRING_DEFAULT]
<1>1. /\ call' = f /\ root' = v /\ cursor' = v /\ step' = "open" /\ result' = "none" /\ heap' = heap /\ output' = empty
  BY DEF Prints, rcs_create
<1>2. PathTo(heap, v, v, {v}, before) /\ Said(heap, v, v, "open", <<>>, before)
  BY PathStarts, SaysFirst
<1>3. Roomy(empty)
  <2>1. <<>> \in Strings /\ Len(<<>>) =< RSTRING_DEFAULT /\ RSTRING_DEFAULT \in Nat
    BY RcSizes, Together
  <2> QED  BY <2>1, RoomIs
<1>4. empty.text = <<>>
  OBVIOUS
<1> HIDE DEF before, empty
<1>5. \E s, b : PathTo(heap', root', cursor', s, b) /\ Said(heap', root', cursor', step', output'.text, b)
  BY <1>1, <1>2, <1>4
<1>6. call' \in Printers /\ Roomy(output') /\ step' \in {"open", "close"} /\ result' = "none"
  BY <1>1, <1>3
<1> QED  BY <1>5, <1>6, Zenon DEF PrintInv

\* What PrintInv says of a call that prints, and of one that goes on with the tree as it was.
LEMMA PrintFacts ==
  ASSUME PrintInv, call \in Printers
  PROVE  /\ Roomy(output) /\ step \in {"open", "close"} /\ result = "none"
         /\ \E s, before : /\ PathTo(heap, root, cursor, s, before)
                           /\ WellFormed(root) => Said(heap, root, cursor, step, output.text, before)
BY Zenon DEF PrintInv

LEMMA PrintGoesOn ==
  ASSUME call \in Printers, Roomy(output'), step' \in {"open", "close"}, result = "none",
         UNCHANGED <<heap, call, root, result>>,
         NEW s, NEW before, PathTo(heap, root, cursor', s, before),
         WellFormed(root) => Said(heap, root, cursor', step', output'.text, before)
  PROVE  PrintInv'
<1>1. WellFormed(root)' => WellFormed(root)
  BY DEF WellFormed, IsLabel
<1>2. PathTo(heap', root', cursor', s, before)
  BY Zenon
<1>3. WellFormed(root)' => Said(heap', root', cursor', step', output'.text, before)
  BY <1>1, Zenon
<1>4. \E t, b : PathTo(heap', root', cursor', t, b) /\ (WellFormed(root)' => Said(heap', root', cursor', step', output'.text, b))
  BY <1>2, <1>3
<1>5. call' \in Printers /\ result' = "none"
  OBVIOUS
<1> QED  BY <1>4, <1>5, Zenon DEF PrintInv

LEMMA WellFormedLabels ==
  ASSUME Trees(heap), NEW top, NEW at, NEW s, NEW before, PathTo(heap, top, at, s, before), WellFormed(top)
  PROVE  Labelled(at)
<1>1. Beneath(heap, at, top) /\ at \in Allocated(heap)
  BY PathIsBelow, BelowIsBeneath DEF Trees
<1> QED  BY <1>1 DEF WellFormed, Labelled

LEMMA OpenKeepsPrint ==
  ASSUME Trees(heap), PrintInv, NEW f \in Printers, OpenValue(f)
  PROVE  PrintInv'
<1>1. CASE IsLabel(cursor) /\ heap[cursor].child = NULL
  <2>1. Return("BAD_TREE_STRUCTURE")
    BY <1>1 DEF OpenValue
  <2> QED  BY <2>1, PrintReturns
<1>2. CASE ~(IsLabel(cursor) /\ heap[cursor].child = NULL)
  <2>1. /\ call = f /\ step = "open" /\ output' = Written
        /\ IF Holds(heap, cursor) /\ heap[cursor].child # NULL
           THEN cursor' = heap[cursor].child /\ step' = "open"
           ELSE step' = "close" /\ UNCHANGED cursor
        /\ UNCHANGED <<heap, call, root, result>>
    BY <1>2 DEF OpenValue, Holds
  <2>2. Roomy(output) /\ result = "none"
    BY <2>1, PrintFacts
  <2>3. PICK s, before : /\ PathTo(heap, root, cursor, s, before)
                         /\ WellFormed(root) => Said(heap, root, cursor, step, output.text, before)
    BY <2>1, PrintFacts
  <2>4. Written = Opening(output, cursor)
    BY <2>1 DEF Written
  <2>5. cursor \in Allocated(heap) /\ root \in Allocated(heap) /\ before[cursor] \in Strings
    BY <2>3, PathIsBelow
  <2>6. /\ Roomy(output')
        /\ Labelled(cursor) => output'.text = output.text \o CommaAt(cursor) \o Opener(heap, cursor)
    BY <2>1, <2>2, <2>4, <2>5, TreesAre, OpeningWrites
  <2>7. WellFormed(root) => output'.text = before[cursor]
    <3>1. SUFFICES ASSUME WellFormed(root)
                   PROVE  output'.text = before[cursor]
      OBVIOUS
    <3>2. output'.text = (output.text \o CommaAt(cursor)) \o Opener(heap, cursor)
      BY <2>3, <2>6, <3>1, WellFormedLabels
    <3>3. output.text \o (Comma(heap, root, cursor) \o Opener(heap, cursor)) = before[cursor]
      BY <2>1, <2>3, <3>1 DEF Said
    <3>4. CommaAt(cursor) = Comma(heap, root, cursor) /\ CommaAt(cursor) \in Strings
      BY MarksAreStrings, Together, Zenon DEF CommaAt, Comma
    <3>5. output.text \in Strings /\ Opener(heap, cursor) \in Strings
      BY <2>2, <2>5, ListingAdds DEF Roomy, Outputs
    <3>6. (output.text \o CommaAt(cursor)) \o Opener(heap, cursor) = output.text \o (CommaAt(cursor) \o Opener(heap, cursor))
      BY <3>4, <3>5, Associates
    <3> QED  BY <3>2, <3>3, <3>4, <3>6, Zenon
  <2>8. CASE Holds(heap, cursor) /\ heap[cursor].child # NULL
    <3>1. PICK t, after : /\ PathTo(heap, root, heap[cursor].child, t, after)
                          /\ Said(heap, root, heap[cursor].child, "open", before[cursor], after)
      BY <2>3, <2>8, SaysChild
    <3>2. cursor' = heap[cursor].child /\ step' = "open"
      BY <2>1, <2>8
    <3>3. WellFormed(root) => Said(heap, root, cursor', step', output'.text, after)
      BY <2>7, <3>1, <3>2, Zenon
    <3>4. PathTo(heap, root, cursor', t, after) /\ step' \in {"open", "close"}
      BY <3>1, <3>2
    <3> QED  BY <2>1, <2>2, <2>6, <3>3, <3>4, PrintGoesOn
  <2>9. CASE ~(Holds(heap, cursor) /\ heap[cursor].child # NULL)
    <3>1. Said(heap, root, cursor, "close", before[cursor], before)
      BY <2>3, <2>9, SaysInner
    <3>2. cursor' = cursor /\ step' = "close"
      BY <2>1, <2>9
    <3>3. WellFormed(root) => Said(heap, root, cursor', step', output'.text, before)
      BY <2>7, <3>1, <3>2, Zenon
    <3>4. PathTo(heap, root, cursor', s, before) /\ step' \in {"open", "close"}
      BY <2>3, <3>2
    <3> QED  BY <2>1, <2>2, <2>6, <3>3, <3>4, PrintGoesOn
  <2> QED  BY <2>8, <2>9
<1> QED  BY <1>1, <1>2

(* What closing the value at the cursor makes of the text.                                                            *)
LEMMA ClosedText ==
  ASSUME Trees(heap), PrintInv, NEW f \in Printers, CloseValue(f)
  PROVE  /\ Roomy(output) /\ result = "none" /\ Roomy(Written)
         /\ \E s, before :
              /\ PathTo(heap, root, cursor, s, before)
              /\ WellFormed(root) => Written.text = (before[cursor] \o Inner(heap, cursor)) \o Closer(heap, cursor)
<1>1. call = f /\ step = "close"
  BY DEF CloseValue
<1>2. Roomy(output) /\ result = "none"
  BY <1>1, PrintFacts
<1>3. PICK s, before : /\ PathTo(heap, root, cursor, s, before)
                       /\ WellFormed(root) => Said(heap, root, cursor, step, output.text, before)
  BY <1>1, PrintFacts
<1>4. Written = Closing(output, cursor)
  BY <1>1 DEF Written
<1>5. Roomy(Written) /\ Written.text = output.text \o Closer(heap, cursor)
  BY <1>2, <1>3, <1>4, PathIsBelow, TreesAre, ClosingWrites
<1>6. WellFormed(root) => output.text = before[cursor] \o Inner(heap, cursor)
  BY <1>1, <1>3 DEF Said
<1>7. WellFormed(root) => Written.text = (before[cursor] \o Inner(heap, cursor)) \o Closer(heap, cursor)
  BY <1>5, <1>6, Zenon
<1> QED  BY <1>2, <1>3, <1>5, <1>7

LEMMA CloseKeepsPrint ==
  ASSUME Trees(heap), PrintInv, NEW f \in Printers, CloseValue(f)
  PROVE  PrintInv'
<1>1. CASE heap[cursor].parent = NULL \/ cursor = root
  <2>1. Return("OK")
    BY <1>1 DEF CloseValue
  <2> QED  BY <2>1, PrintReturns
<1>2. CASE ~(heap[cursor].parent = NULL \/ cursor = root)
  <2>1. /\ call = f /\ output' = Written
        /\ IF heap[cursor].next # NULL
           THEN cursor' = heap[cursor].next /\ step' = "open"
           ELSE cursor' = heap[cursor].parent /\ step' = "close"
        /\ UNCHANGED <<heap, call, root, result>>
    BY <1>2 DEF CloseValue
  <2>2. result = "none" /\ Roomy(output')
    BY <2>1, ClosedText
  <2>3. PICK s, before :
          /\ PathTo(heap, root, cursor, s, before)
          /\ WellFormed(root) => output'.text = (before[cursor] \o Inner(heap, cursor)) \o Closer(heap, cursor)
    BY <2>1, ClosedText
  <2>4. CASE heap[cursor].next # NULL
    <3>1. PICK t, after :
            /\ PathTo(heap, root, heap[cursor].next, t, after)
            /\ Said(heap, root, heap[cursor].next, "open", (before[cursor] \o Inner(heap, cursor)) \o Closer(heap, cursor), after)
      BY <1>2, <2>3, <2>4, SaysNext
    <3>2. cursor' = heap[cursor].next /\ step' = "open"
      BY <2>1, <2>4
    <3>3. WellFormed(root) => Said(heap, root, cursor', step', output'.text, after)
      BY <2>3, <3>1, <3>2, Zenon
    <3>4. PathTo(heap, root, cursor', t, after) /\ step' \in {"open", "close"}
      BY <3>1, <3>2
    <3> QED  BY <2>1, <2>2, <3>3, <3>4, PrintGoesOn
  <2>5. CASE heap[cursor].next = NULL
    <3>1. /\ PathTo(heap, root, heap[cursor].parent, s, before)
          /\ Said(heap, root, heap[cursor].parent, "close", (before[cursor] \o Inner(heap, cursor)) \o Closer(heap, cursor), before)
      BY <1>2, <2>3, <2>5, SaysUp
    <3>2. cursor' = heap[cursor].parent /\ step' = "close"
      BY <2>1, <2>5
    <3>3. WellFormed(root) => Said(heap, root, cursor', step', output'.text, before)
      BY <2>3, <3>1, <3>2, Zenon
    <3>4. PathTo(heap, root, cursor', s, before) /\ step' \in {"open", "close"}
      BY <3>1, <3>2
    <3> QED  BY <2>1, <2>2, <3>3, <3>4, PrintGoesOn
  <2> QED  BY <2>4, <2>5
<1> QED  BY <1>1, <1>2

LEMMA WalkKeepsPrint ==
  ASSUME Trees(heap), PrintInv, Walk
  PROVE  PrintInv'
<1>1. CASE FreeDescends
  BY <1>1, Zenon DEF FreeDescends, PrintInv, Printers
<1>2. CASE FreeOne
  <2>1. call = "free" /\ output = NULL
    BY <1>2 DEF FreeOne, PrintInv, Printers
  <2>2. CASE cursor = root
    BY <1>2, <2>2, PrintReturns DEF FreeOne
  <2>3. CASE cursor # root
    BY <1>2, <2>1, <2>3 DEF FreeOne, PrintInv, Printers
  <2> QED  BY <2>2, <2>3
<1>3. CASE OpenInString \/ OpenInStream
  <2>1. \E f \in Printers : OpenValue(f)
    BY <1>3, Zenon DEF OpenInString, OpenInStream, Printers
  <2> QED  BY <2>1, OpenKeepsPrint
<1>4. CASE CloseInString \/ CloseInStream
  <2>1. \E f \in Printers : CloseValue(f)
    BY <1>4, Zenon DEF CloseInString, CloseInStream, Printers
  <2> QED  BY <2>1, CloseKeepsPrint
<1>5. CASE StringRunsOut \/ StreamRunsOut
  BY <1>5, PrintReturns DEF StringRunsOut, StreamRunsOut
<1> QED  BY <1>1, <1>2, <1>3, <1>4, <1>5 DEF Walk

(* The listing is the model's own.                                                                                    *)
LEMMA DocumentIs == \A n : Document(n) = ValueIn(heap, n, ListingIn(heap)[heap[n].child_end])
<1>1. \A n, members : ValueText(n, members) = ValueIn(heap, n, members)
  BY Zenon DEF ValueText, ValueIn, QuoteMark, ColonMark, ObjectMark, ObjectEnd, ArrayMark, ArrayEnd
<1>2. Listing = ListingIn(heap)
  BY Zenon DEF Listing, ListingIn, ListBody, CommaMark, ValueText, ValueIn, QuoteMark, ColonMark, ObjectMark, ObjectEnd,
               ArrayMark, ArrayEnd
<1> QED  BY <1>1, <1>2, Zenon DEF Document

LEMMA PrintHands ==
  ASSUME Trees(heap), PrintInv, NEW f \in Printers, CloseValue(f), result' = "OK", WellFormed(root)
  PROVE  Handed(f) = Document(root) \o (IF f = "stream_output" THEN <<"\n">> ELSE <<>>)
<1>1. result = "none"
  BY ClosedText
<1>2. PICK s, before :
        /\ PathTo(heap, root, cursor, s, before)
        /\ Written.text = (before[cursor] \o Inner(heap, cursor)) \o Closer(heap, cursor)
  BY ClosedText
<1>3. heap[cursor].parent = NULL \/ cursor = root
  BY <1>1 DEF CloseValue
<1>4. cursor = root
  BY <1>2, <1>3, TreesAre DEF PathTo
<1>5. before[cursor] = Opener(heap, root) /\ root \in Allocated(heap)
  BY <1>2, <1>4 DEF PathTo
<1>6. Written.text = Document(root)
  BY <1>2, <1>4, <1>5, ListingAdds, DocumentIs
<1>7. Written.text \in Strings
  BY ClosedText DEF Roomy, Outputs
<1>8. CASE f = "tree_to_string"
  <2>1. Handed(f) = Written.text
    BY <1>8 DEF Handed, rcs_unwrap
  <2> QED  BY <1>6, <1>7, <1>8, <2>1, Together
<1>9. CASE f = "stream_output"
  <2>1. Handed(f) = Append(Written.text, "\n")
    BY <1>9 DEF Handed
  <2>2. ASSUME NEW t \in Seq(Chars), NEW c
        PROVE  Append(t, c) = t \o <<c>>
    OBVIOUS
  <2>3. Append(Written.text, "\n") = Written.text \o <<"\n">>
    BY <1>7, <2>2, Zenon DEF Strings
  <2> QED  BY <1>6, <1>9, <2>1, <2>3
<1> QED  BY <1>8, <1>9 DEF Printers

-----------------------------------------------------------------------------
(* Printing, in a program that builds trees *)

LEMMA ChangesKeepWorded ==
  /\ \A h, g, n, type, text : FreshIn(h, g, n, type, text) /\ Worded(h) /\ (type \in {"STRING", "NUMBER"} => text \in Words)
                              => Worded(g)
  /\ \A h, g, p, c : InsertedBy(h, g, p, c) /\ Worded(h) => Worded(g)
  /\ \A h, g, n : RemovedFrom(h, g, n) /\ Worded(h) => Worded(g)
<1>1. ASSUME NEW h, NEW g, NEW n, NEW type, NEW text, FreshIn(h, g, n, type, text), Worded(h),
             type \in {"STRING", "NUMBER"} => text \in Words
      PROVE  Worded(g)
  BY <1>1 DEF Worded, FreshIn
<1>2. ASSUME NEW h, NEW g, NEW p, NEW c, InsertedBy(h, g, p, c), Worded(h)
      PROVE  Worded(g)
  BY <1>2 DEF Worded, InsertedBy
<1>3. ASSUME NEW h, NEW g, NEW n, RemovedFrom(h, g, n), Worded(h)
      PROVE  Worded(g)
  BY <1>3 DEF Worded, RemovedFrom
<1> QED  BY <1>1, <1>2, <1>3

LEMMA WalkKeepsWorded ==
  ASSUME TreeInv, Layered(heap), Worded(heap), Walk
  PROVE  Worded(heap')
<1>1. CASE FreeOne
  BY <1>1, FreeOneRemoves, ChangesKeepWorded
<1>2. CASE UNCHANGED heap
  BY <1>2
<1> QED  BY <1>1, <1>2, WalkKeepsLayered

PrintingInv == BuilderInv /\ Worded(heap) /\ PrintInv

LEMMA BuilderKeepsWorded ==
  ASSUME BuilderInv, Worded(heap), BuilderNext
  PROVE  Worded(heap')
<1>0. Linked(heap) /\ heap \in Heaps
  BY DEF BuilderInv, TreeInv, Linked
<1>1. CASE \E type \in NewTypes : NewValue(type)
  <2>0. PICK type \in NewTypes : NewValue(type)
    BY <1>1
  <2>1. PICK text \in IF type \in {"STRING", "NUMBER"} THEN Labels ELSE {NULL} :
          heap' = json_new_value(heap, FirstFree(heap), type, text)
    BY <2>0 DEF NewValue
  <2>2. type \in Types /\ text \in Labels \cup Texts \cup {Number, NULL} /\ HasMemory(heap)
    BY <2>0, BuilderTypes DEF NewValue
  <2>3. FreshIn(heap, heap', FirstFree(heap), type, text)
    BY <1>0, <2>1, <2>2, FirstFreeIsFree, NewLinks
  <2>4. type \in {"STRING", "NUMBER"} => text \in Words
    BY <2>1 DEF Words
  <2> QED  BY <2>3, <2>4, ChangesKeepWorded
<1>2. CASE \E parent, child \in Mine : InsertChild(parent, child)
  <2>1. PICK parent, child \in Mine : InsertChild(parent, child)
    BY <1>2
  <2>2. /\ parent \in Allocated(heap) /\ child \in Allocated(heap) /\ heap[child].parent = NULL
        /\ ~Beneath(heap, parent, child)
        /\ heap' = heap \/ heap' = json_insert_child(heap, parent, child)
    BY <2>1 DEF InsertChild, Mine, Roots
  <2>3. parent # child
    BY <2>2 DEF Beneath
  <2>4. heap' = heap \/ InsertedBy(heap, heap', parent, child)
    BY <1>0, <2>2, <2>3, InsertLinks
  <2> QED  BY <2>4, ChangesKeepWorded
<1>3. CASE \E parent, value \in Mine, text \in Labels : json_insert_pair_into_object(parent, text, value)
  <2>1. PICK parent, value \in Mine, text \in Labels : json_insert_pair_into_object(parent, text, value)
    BY <1>3
  <2> DEFINE label  == FirstFree(heap)
             with   == json_new_value(heap, label, "STRING", text)
             paired == json_insert_child(with, label, value)
  <2>2. /\ parent \in Allocated(heap) /\ value \in Allocated(heap) /\ heap[value].parent = NULL
        /\ HasMemory(heap)
        /\ heap' = with \/ heap' = json_insert_child(paired, parent, label)
    BY <2>1 DEF json_insert_pair_into_object, Mine, Roots
  <2>3. FreshIn(heap, with, label, "STRING", text)
    BY <1>0, <2>2, FirstFreeIsFree, NewLinks DEF Types, Scalars
  <2> HIDE DEF label, with
  <2>4. Linked(with) /\ Worded(with)
    BY <1>0, <2>3, NewKeepsLinked, ChangesKeepWorded DEF Words
  <2>5. label \in Allocated(with) /\ value \in Allocated(with) /\ label # value /\ with[value].parent = NULL
    BY <2>2, <2>3 DEF FreshIn
  <2>6. Linked(paired) /\ InsertedBy(with, paired, label, value)
    BY <2>4, <2>5, InsertLinks, InsertKeepsLinked
  <2> HIDE DEF paired
  <2>7. Worded(paired)
    BY <2>4, <2>6, ChangesKeepWorded
  <2>8. parent \in Allocated(paired) /\ label \in Allocated(paired) /\ parent # label /\ paired[label].parent = NULL
    BY <2>2, <2>3, <2>5, <2>6 DEF FreshIn, InsertedBy
  <2>9. InsertedBy(paired, json_insert_child(paired, parent, label), parent, label)
    BY <2>6, <2>8, InsertLinks
  <2> QED  BY <2>2, <2>4, <2>7, <2>9, ChangesKeepWorded
<1>4. CASE \E v \in Mine : Call(v)
  BY <1>4 DEF Call, json_free_value, json_tree_to_string, json_stream_output, Prints, TreeToStringAborts
<1>5. CASE Walk
  BY <1>5, WalkKeepsWorded DEF BuilderInv
<1> QED  BY <1>1, <1>2, <1>3, <1>4, <1>5 DEF BuilderNext

LEMMA BuilderKeepsPrint ==
  ASSUME PrintingInv, BuilderNext
  PROVE  PrintInv'
<1>0. Trees(heap)
  BY DEF PrintingInv, BuilderInv, TreeInv, Trees
<1>1. ASSUME call = "none", call' \notin Printers, UNCHANGED output \/ output' = NULL
      PROVE  PrintInv'
  BY <1>1 DEF PrintingInv, PrintInv, Printers
<1>2. CASE \/ \E type \in NewTypes : NewValue(type)
           \/ \E parent, child \in Mine : InsertChild(parent, child)
           \/ \E parent, value \in Mine, text \in Labels : json_insert_pair_into_object(parent, text, value)
  <2>1. \E code : Return(code)
    BY <1>2 DEF NewValue, InsertChild, json_insert_pair_into_object
  <2> QED  BY <2>1, PrintReturns
<1>3. CASE \E v \in Mine : Call(v)
  <2>1. PICK v \in Mine : Call(v)
    BY <1>3
  <2>2. CASE json_free_value(v) \/ TreeToStringAborts(v)
    BY <1>1, <2>2 DEF json_free_value, TreeToStringAborts, Printers
  <2>3. CASE json_tree_to_string(v) \/ json_stream_output(v)
    <3>1. v \in Allocated(heap)
      BY DEF Mine
    <3>2. \E f \in Printers : Prints(f, v)
      BY <2>3 DEF json_tree_to_string, json_stream_output, Printers
    <3> QED  BY <1>0, <3>1, <3>2, PrintStarts
  <2> QED  BY <2>1, <2>2, <2>3 DEF Call
<1>4. CASE Walk
  BY <1>0, <1>4, WalkKeepsPrint DEF PrintingInv
<1> QED  BY <1>2, <1>3, <1>4 DEF BuilderNext

LEMMA PrintingInductive ==
  /\ BuilderInit => PrintingInv
  /\ PrintingInv /\ [BuilderNext]_builder => PrintingInv'
<1>1. BuilderInit => PrintingInv
  <2> SUFFICES ASSUME BuilderInit
               PROVE  PrintingInv
    OBVIOUS
  <2>1. BuilderInv /\ Allocated(heap) = {} /\ call = "none" /\ output = NULL
    BY BuilderInductive, InitTree DEF BuilderInit, TreeInit
  <2> QED  BY <2>1 DEF PrintingInv, Worded, PrintInv, Printers
<1>2. PrintingInv /\ UNCHANGED builder => PrintingInv'
  <2> SUFFICES ASSUME PrintingInv, UNCHANGED builder
               PROVE  PrintingInv'
    OBVIOUS
  <2>1. BuilderInv' /\ Worded(heap)'
    BY BuilderInductive DEF PrintingInv, builder, tree
  <2>2. UNCHANGED <<heap, call, root, cursor, step, output, result>>
    BY DEF builder, tree
  <2>3. PrintInv'
    BY <2>2, PrintStutters DEF PrintingInv
  <2> QED  BY <2>1, <2>3 DEF PrintingInv
<1>3. PrintingInv /\ BuilderNext => PrintingInv'
  BY BuilderKeepsTree, BuilderKeepsWorded, BuilderKeepsPrint DEF PrintingInv
<1> QED  BY <1>1, <1>2, <1>3

LEMMA PrintFits == PrintInv => OutputFits
BY DEF PrintInv, OutputFits, Roomy

(* In any program that builds trees, the text that is printed and its terminator are inside what was allocated, at    *)
(* every step of the printing (OutputFits).                                                                           *)
THEOREM BuilderOutputFits == BuilderSpec => []OutputFits
<1>1. PrintingInv => OutputFits
  BY PrintFits DEF PrintingInv
<1> QED  BY <1>1, PrintingInductive, PTL DEF BuilderSpec

(* A walk goes over the tree it was given, all of it and nothing else: what is printed of a well-formed tree, from    *)
(* any value of it, is the document it stands for, and only what is below the argument is freed (WalksTheTree).       *)
THEOREM BuilderWalksTheTree == BuilderSpec => WalksTheTree
<1>1. PrintingInv /\ [BuilderNext]_builder
        => [\A f \in {"tree_to_string", "stream_output"} :
              CloseValue(f) /\ result' = "OK" /\ WellFormed(root) =>
                Handed(f) = Document(root) \o (IF f = "stream_output" THEN <<"\n">> ELSE <<>>)]_tree
  <2> SUFFICES ASSUME PrintingInv, NEW f \in Printers, CloseValue(f), result' = "OK", WellFormed(root)
               PROVE  Handed(f) = Document(root) \o (IF f = "stream_output" THEN <<"\n">> ELSE <<>>)
    BY Zenon DEF Printers
  <2>1. Trees(heap)
    BY DEF PrintingInv, BuilderInv, TreeInv, Trees
  <2> QED  BY <2>1, PrintHands, Zenon DEF PrintingInv
<1>2. BuilderSpec => PrintsTheDocument
  BY <1>1, PrintingInductive, PTL DEF BuilderSpec, PrintsTheDocument
<1> QED  BY <1>2, BuilderFreesItsTree, PTL DEF WalksTheTree

-----------------------------------------------------------------------------
(* The text the parser has read, in its tree *)

\* The way from the top of the tree to the last value of all, which nothing follows.
Spine(h, top, at, s, before) ==
  /\ PathTo(h, top, at, s, before) /\ h[top].parent = NULL
  /\ \A n \in s : h[n].next = NULL /\ h[n].parent # at

\* What stands before a new member of a value.
Ready(h, at, text) ==
  CASE h[at].type = "STRING" -> text \o ColonMark
    [] h[at].type # "STRING" /\ h[at].child_end = NULL -> text
    [] OTHER -> text \o (ListingIn(h)[h[at].child_end] \o CommaMark)

\* A new value changes the listing only at the values it is below.
LEMMA ListingStays ==
  ASSUME NEW h, Trees(h), NEW g, Trees(g), NEW p, NEW c, NEW type, NEW text, AddedTo(h, g, p, c, type, text),
         NEW s \in SUBSET Allocated(h), p \in s, \A n \in s : h[n].next = NULL /\ h[n].parent \in s \cup {NULL},
         NEW k \in Allocated(h) \ s
  PROVE  ListingIn(g)[k] = ListingIn(h)[k]
<1> DEFINE bad == {n \in Allocated(h) \ s : ListingIn(g)[n] # ListingIn(h)[n]}
<1>1. SUFFICES ASSUME bad # {}
               PROVE  FALSE
  OBVIOUS
<1>2. /\ Inside(h) /\ Ended(h) /\ Chained(h) /\ NULL \notin Allocated(h) /\ Linked(h) /\ Layered(h) /\ Worded(h)
      /\ Linked(g) /\ Layered(g) /\ Worded(g) /\ Allocated(h) \subseteq Allocated(g)
  BY TreesAre DEF AddedTo
<1>3. PICK n \in bad : h[n].previous \notin bad /\ h[n].child_end \notin bad
  <2>1. bad \in SUBSET Allocated(h)
    OBVIOUS
  <2> HIDE DEF bad
  <2> QED  BY <1>1, <1>2, <2>1, Innermost
<1>4. n \in Allocated(h) /\ n \notin s /\ n # p /\ ListingIn(g)[n] # ListingIn(h)[n]
  OBVIOUS
<1>5. h[n].previous \notin s /\ h[n].child_end \notin s
  BY <1>2, <1>4 DEF Chained, Ended, Inside
<1>6. ListingIn(g)[NULL] = <<>> /\ ListingIn(h)[NULL] = <<>>
  BY <1>2, ListingIs
<1>7. \A m \in {h[n].previous, h[n].child_end} : ListingIn(g)[m] = ListingIn(h)[m]
  BY <1>2, <1>3, <1>4, <1>5, <1>6 DEF Inside
<1>8. g[n].type = h[n].type /\ g[n].text = h[n].text /\ g[n].previous = h[n].previous /\ g[n].child = h[n].child
      /\ g[n].child_end = h[n].child_end
  BY <1>4 DEF AddedTo
<1>9. ListingIn(g)[n] = Earlier(g, n) \o ValueIn(g, n, ListingIn(g)[g[n].child_end])
  BY <1>2, <1>4, ListingIs
<1>10. ListingIn(h)[n] = Earlier(h, n) \o ValueIn(h, n, ListingIn(h)[h[n].child_end])
  BY <1>2, <1>4, ListingIs
<1>11. Earlier(g, n) = Earlier(h, n)
  BY <1>7, <1>8, Zenon DEF Earlier
<1>12. ListingIn(g)[g[n].child_end] = ListingIn(h)[h[n].child_end]
  BY <1>7, <1>8
<1>13. \A members : ValueIn(g, n, members) = ValueIn(h, n, members)
  BY <1>8, Zenon DEF ValueIn
<1> QED  BY <1>4, <1>9, <1>10, <1>11, <1>12, <1>13, Zenon

\* A label is opened with a colon once it has its value; the openings of the others stay.
LEMMA OpenerGrows ==
  ASSUME NEW h, Trees(h), NEW g, NEW p, NEW c, NEW type, NEW text, AddedTo(h, g, p, c, type, text),
         h[p].type = "STRING" => h[p].child = NULL, c # NULL, NEW n \in Allocated(h)
  PROVE  Opener(g, n) = IF n = p /\ h[p].type = "STRING" THEN Opener(h, n) \o ColonMark ELSE Opener(h, n)
<1>1. h \in Heaps /\ Worded(h)
  BY TreesAre
<1>2. g[n].type = h[n].type /\ g[n].text = h[n].text /\ g[n].child = IF n = p /\ h[p].child = NULL THEN c ELSE h[n].child
  BY DEF AddedTo
<1>3. CASE n = p /\ h[p].type = "STRING"
  <2> DEFINE string == QuoteMark \o h[n].text \o QuoteMark
  <2>1. h[n].text \in Strings
    BY <1>1, <1>3, WordsAreStrings DEF Worded
  <2>2. string \in Strings
    BY <2>1, MarksAreStrings, Together, Zenon
  <2>3. g[n].child = c /\ h[n].child = NULL
    BY <1>2, <1>3
  <2>4. Opener(g, n) = string \o ColonMark
    BY <1>2, <1>3, <2>3 DEF Opener, Literals
  <2>5. Opener(h, n) = string \o <<>>
    BY <1>3, <2>3 DEF Opener, Literals
  <2> HIDE DEF string
  <2>6. string \o <<>> = string
    BY <2>2, Together, Zenon
  <2> QED  BY <1>3, <2>4, <2>5, <2>6
<1>4. CASE h[n].type # "STRING"
  <2>1. Opener(g, n) = Opener(h, n)
    BY <1>2, <1>4 DEF Opener
  <2> QED  BY <1>4, <2>1
<1>5. CASE n # p
  <2>1. Opener(g, n) = Opener(h, n)
    BY <1>2, <1>5, Zenon DEF Opener
  <2> QED  BY <1>5, <2>1
<1> QED  BY <1>3, <1>4, <1>5

(* A new value at the end of the spine is its new end.                                                                *)
LEMMA SpineGrows ==
  ASSUME NEW h, Trees(h), NEW g, Trees(g), NEW at, NEW c, NEW type, NEW text, AddedTo(h, g, at, c, type, text),
         NEW top, NEW s, NEW before, Spine(h, top, at, s, before), Holds(h, at),
         h[at].type = "STRING" => h[at].child = NULL
  PROVE  \E t, after : Spine(g, top, c, t, after) /\ after[c] = Ready(h, at, before[at]) \o Opener(g, c)
<1> DEFINE end == h[at].child_end
           own == Ready(h, at, before[at]) \o Opener(g, c)
           base == IF h[at].type = "STRING" THEN before[at] \o ColonMark ELSE before[at]
           t == s \cup {c}
           after == [k \in t |-> IF k = c THEN own ELSE IF k = at THEN base ELSE before[k]]
<1>1. /\ s \in SUBSET Allocated(h) /\ top \in s /\ at \in s /\ before \in [s -> Strings]
      /\ before[top] = Opener(h, top) /\ h[top].parent = NULL
      /\ \A n \in s \ {top} : /\ h[n].parent \in s /\ Holds(h, h[n].parent)
                              /\ before[n] = Onward(h, n, before[h[n].parent])
      /\ \A n \in s : h[n].next = NULL /\ h[n].parent # at
  BY DEF Spine, PathTo
<1>2. /\ Inside(h) /\ Ended(h) /\ Chained(h) /\ NULL \notin Allocated(h) /\ NULL \notin Allocated(g) /\ at \in Allocated(h)
  BY <1>1, TreesAre
<1>3. c \in Allocated(g) /\ c \notin Allocated(h) /\ c \notin s /\ c # NULL /\ Allocated(h) \subseteq Allocated(g)
  BY <1>1, <1>2 DEF AddedTo
<1>4. end \in Allocated(h) \cup {NULL} /\ end \notin s /\ (h[at].child = NULL <=> end = NULL)
  BY <1>1, <1>2 DEF Inside, Ended
<1>5. \A k \in Allocated(h) \ s : ListingIn(g)[k] = ListingIn(h)[k]
  <2>1. \A n \in s : h[n].next = NULL /\ h[n].parent \in s \cup {NULL}
    BY <1>1
  <2> QED  BY <1>1, <2>1, ListingStays
<1>6. \A n \in s : Earlier(g, n) = Earlier(h, n)
  <2> SUFFICES ASSUME NEW n \in s
               PROVE  Earlier(g, n) = Earlier(h, n)
    OBVIOUS
  <2>1. g[n].previous = h[n].previous
    BY <1>1 DEF AddedTo
  <2>2. h[n].previous # NULL => h[n].previous \in Allocated(h) \ s
    BY <1>1, <1>2 DEF Inside, Chained
  <2>3. h[n].previous # NULL => ListingIn(g)[h[n].previous] = ListingIn(h)[h[n].previous]
    BY <1>5, <2>2
  <2> QED  BY <2>1, <2>3, Zenon DEF Earlier
<1>7. \A n \in s : Opener(g, n) = IF n = at /\ h[at].type = "STRING" THEN Opener(h, n) \o ColonMark ELSE Opener(h, n)
  BY <1>1, <1>3, OpenerGrows
<1>8. /\ before[at] \in Strings /\ Opener(g, c) \in Strings /\ base \in Strings
      /\ end # NULL => ListingIn(h)[end] \in Strings
  <2>1. before[at] \in Strings /\ Opener(g, c) \in Strings
    BY <1>1, <1>3, ListingAdds
  <2>2. end # NULL => ListingIn(h)[end] \in Strings
    BY <1>4, TreesAre, ListingIs
  <2>3. base \in Strings
    BY <2>1, MarksAreStrings, Together, Zenon
  <2> QED  BY <2>1, <2>2, <2>3
<1>9. own = Onward(g, c, base) /\ own \in Strings
  <2>1. g[c].previous = end
    BY DEF AddedTo
  <2> DEFINE o == Opener(g, c)
  <2>2. CASE end = NULL
    <3>1. Earlier(g, c) = <<>> /\ Ready(h, at, before[at]) = base
      BY <2>1, <2>2, Zenon DEF Earlier, Ready
    <3>2. <<>> \o o = o /\ base \o o \in Strings
      BY <1>8, Together, Zenon
    <3> HIDE DEF base
    <3> QED  BY <3>1, <3>2, Zenon DEF Onward
  <2>3. CASE end # NULL
    <3> DEFINE l == ListingIn(h)[end]
    <3>1. ListingIn(g)[end] = l /\ l \in Strings
      BY <1>4, <1>5, <1>8, <2>3
    <3>2. Earlier(g, c) = l \o CommaMark
      BY <2>1, <2>3, <3>1, Zenon DEF Earlier
    <3>3. h[at].type # "STRING" /\ base = before[at]
      BY <1>4, <2>3
    <3>4. Ready(h, at, before[at]) = before[at] \o (l \o CommaMark)
      BY <2>3, <3>3 DEF Ready
    <3>5. l \o CommaMark \in Strings
      BY <3>1, MarksAreStrings, Together, Zenon
    <3> HIDE DEF l, o, base, end
    <3>6. (before[at] \o (l \o CommaMark)) \o o = before[at] \o ((l \o CommaMark) \o o)
      BY <1>8, <3>5, Associates DEF o
    <3>7. (before[at] \o (l \o CommaMark)) \o o \in Strings
      BY <1>8, <3>5, Together, Zenon DEF o
    <3> QED  BY <3>2, <3>3, <3>4, <3>6, <3>7, Zenon DEF Onward, o
  <2> QED  BY <2>2, <2>3
<1> HIDE DEF own, base
<1>10. after \in [t -> Strings] /\ after[c] = own /\ after[at] = base /\ \A k \in s : k # at => after[k] = before[k]
  BY <1>1, <1>3, <1>8, <1>9
<1> HIDE DEF after
<1>11. after[top] = Opener(g, top)
  BY <1>1, <1>7, <1>10 DEF base
<1>12. ASSUME NEW n \in t \ {top}
       PROVE  g[n].parent \in t /\ Holds(g, g[n].parent) /\ after[n] = Onward(g, n, after[g[n].parent])
  <2>1. CASE n = c
    <3>1. g[n].parent = at /\ g[at].type = h[at].type
      BY <1>2, <2>1 DEF AddedTo
    <3> QED  BY <1>1, <1>9, <1>10, <2>1, <3>1 DEF Holds
  <2>2. CASE n # c
    <3>1. n \in s /\ n \in Allocated(h) /\ h[n].parent \in s /\ Holds(h, h[n].parent) /\ h[n].parent # at
          /\ before[n] = Onward(h, n, before[h[n].parent])
      BY <1>1, <2>2
    <3>2. g[n].parent = h[n].parent /\ g[h[n].parent].type = h[h[n].parent].type
      BY <1>1, <3>1 DEF AddedTo
    <3>3. after[h[n].parent] = before[h[n].parent] /\ before[h[n].parent] \in Strings
      BY <1>1, <1>10, <3>1
    <3>4. CASE n = at /\ h[at].type = "STRING"
      <4> DEFINE b == before[h[n].parent]
                 e == Earlier(h, n)
                 o == Opener(h, n)
      <4>1. e \in Strings /\ o \in Strings /\ ColonMark \in Strings /\ b \in Strings
        BY <3>1, <3>3, ListingAdds, MarksAreStrings
      <4>2. after[n] = (b \o (e \o o)) \o ColonMark
        BY <1>10, <3>1, <3>4 DEF base, Onward
      <4>3. Onward(g, n, b) = b \o (e \o (o \o ColonMark))
        BY <1>6, <1>7, <3>1, <3>4 DEF Onward
      <4> HIDE DEF b, e, o
      <4>4. e \o o \in Strings
        BY <4>1, Together, Zenon
      <4>5. (b \o (e \o o)) \o ColonMark = b \o ((e \o o) \o ColonMark)
        BY <4>1, <4>4, Associates
      <4>6. (e \o o) \o ColonMark = e \o (o \o ColonMark)
        BY <4>1, Associates
      <4>7. after[n] = Onward(g, n, b)
        BY <4>2, <4>3, <4>5, <4>6, Zenon
      <4> QED  BY <3>1, <3>2, <3>3, <4>7 DEF b, Holds
    <3>5. CASE ~(n = at /\ h[at].type = "STRING")
      <4>1. after[n] = before[n]
        BY <1>10, <3>1, <3>5 DEF base
      <4>2. Onward(g, n, before[h[n].parent]) = Onward(h, n, before[h[n].parent])
        BY <1>6, <1>7, <3>1, <3>5 DEF Onward
      <4> QED  BY <3>1, <3>2, <3>3, <4>1, <4>2 DEF Holds
    <3> QED  BY <3>4, <3>5
  <2> QED  BY <2>1, <2>2
<1>13. PathTo(g, top, c, t, after)
  <2>1. t \in SUBSET Allocated(g) /\ top \in t /\ c \in t
    BY <1>1, <1>3
  <2> QED  BY <1>10, <1>11, <1>12, <2>1 DEF PathTo
<1>14. g[top].parent = NULL
  BY <1>1 DEF AddedTo
<1>15. \A n \in t : g[n].next = NULL /\ g[n].parent # c
  <2>1. g[c].next = NULL /\ g[c].parent = at /\ at # c
    BY <1>2, <1>3 DEF AddedTo
  <2>2. ASSUME NEW n \in s
        PROVE  g[n].next = NULL /\ g[n].parent # c
    <3>1. n \in Allocated(h) /\ n # end /\ h[n].parent \in Allocated(h) \cup {NULL}
      BY <1>1, <1>2, <1>4 DEF Inside
    <3> QED  BY <1>1, <1>3, <3>1 DEF AddedTo
  <2> QED  BY <2>1, <2>2
<1> QED  BY <1>10, <1>13, <1>14, <1>15 DEF Spine, own

(* A value that is left, and is not the top, is the last of the list its parent has so far.                           *)
LEMMA LeaveReads ==
  ASSUME NEW h, Trees(h), NEW top, NEW at, NEW s, NEW before, Spine(h, top, at, s, before), at # top
  PROVE  \E t, b : /\ Spine(h, top, h[at].parent, t, b)
                   /\ (before[at] \o Inner(h, at)) \o Closer(h, at) = b[h[at].parent] \o Inner(h, h[at].parent)
                   /\ h[h[at].parent].child # NULL
<1> DEFINE up == h[at].parent
           t == s \ {at}
           b == [k \in t |-> before[k]]
<1>1. /\ PathTo(h, top, at, s, before) /\ h[top].parent = NULL
      /\ \A n \in s : h[n].next = NULL /\ h[n].parent # at
  BY DEF Spine
<1>2. /\ s \in SUBSET Allocated(h) /\ top \in s /\ at \in s /\ before \in [s -> Strings]
      /\ before[top] = Opener(h, top)
      /\ \A n \in s \ {top} : /\ h[n].parent \in s /\ Holds(h, h[n].parent)
                              /\ before[n] = Onward(h, n, before[h[n].parent])
  BY <1>1 DEF PathTo
<1>3. /\ up \in Allocated(h) /\ Holds(h, up)
      /\ (before[at] \o Inner(h, at)) \o Closer(h, at) = before[up] \o ListingIn(h)[at]
  BY <1>1, SaysListing
<1>4. h[up].child_end = at /\ h[up].child # NULL /\ NULL \notin Allocated(h)
  BY <1>1, <1>2, <1>3, TreesAre DEF Listed
<1>5. up \in t /\ top \in t
  BY <1>1, <1>2
<1> HIDE DEF up
<1>6. Inner(h, up) = ListingIn(h)[at]
  BY <1>3, <1>4 DEF Inner
<1>7. \A n \in t : n \in s /\ b[n] = before[n] /\ (n # top => h[n].parent \in t)
  BY <1>1, <1>2
<1>8. b \in [t -> Strings] /\ t \in SUBSET Allocated(h)
  BY <1>2
<1> HIDE DEF t, b
<1>9. PathTo(h, top, up, t, b)
  <2>1. b[top] = Opener(h, top)
    BY <1>2, <1>5, <1>7
  <2>2. \A n \in t \ {top} : /\ h[n].parent \in t /\ Holds(h, h[n].parent)
                             /\ b[n] = Onward(h, n, b[h[n].parent])
    BY <1>2, <1>7
  <2> QED  BY <1>5, <1>8, <2>1, <2>2 DEF PathTo
<1>10. \A n \in t : h[n].next = NULL /\ h[n].parent # up
  <2> SUFFICES ASSUME NEW n \in t, h[n].parent = up
               PROVE  FALSE
    BY <1>1, <1>7
  <2>1. n \in Allocated(h) /\ h[n].next = NULL /\ up # NULL
    BY <1>1, <1>3, <1>4, <1>7, <1>8
  <2>2. h[up].child_end = n
    BY <2>1, TreesAre DEF Listed
  <2> QED  BY <1>4, <2>2 DEF t
<1>11. Spine(h, top, up, t, b)
  BY <1>1, <1>9, <1>10 DEF Spine
<1>12. (before[at] \o Inner(h, at)) \o Closer(h, at) = b[up] \o Inner(h, up)
  BY <1>3, <1>5, <1>6, <1>7
<1> QED  BY <1>4, <1>11, <1>12 DEF up

\* A value without an end of its own: a label, or one of those that hold nothing.
LEMMA LeaveScalar ==
  ASSUME NEW h, Trees(h), NEW top, NEW at, NEW s, NEW before, Spine(h, top, at, s, before), at # top,
         h[at].type \in Scalars
  PROVE  \E t, b : /\ Spine(h, top, h[at].parent, t, b)
                   /\ before[at] \o Inner(h, at) = b[h[at].parent] \o Inner(h, h[at].parent)
                   /\ h[h[at].parent].child # NULL
<1>1. PICK t, b : /\ Spine(h, top, h[at].parent, t, b)
                  /\ (before[at] \o Inner(h, at)) \o Closer(h, at) = b[h[at].parent] \o Inner(h, h[at].parent)
                  /\ h[h[at].parent].child # NULL
  BY LeaveReads
<1>2. at \in Allocated(h) /\ before[at] \in Strings
  BY PathIsBelow DEF Spine
<1>3. Closer(h, at) = <<>>
  BY DEF Closer, Scalars, Literals
<1>4. Inner(h, at) \in Strings
  BY <1>2, ListingAdds
<1>5. (before[at] \o Inner(h, at)) \o <<>> = before[at] \o Inner(h, at)
  BY <1>2, <1>4, Together, Zenon
<1> QED  BY <1>1, <1>3, <1>5

(* A new value that holds nothing is read after what was ready for it.                                                *)
LEMMA ScalarReads ==
  ASSUME NEW h, Trees(h), NEW g, Trees(g), NEW at, NEW c, NEW type, NEW text, AddedTo(h, g, at, c, type, text),
         NEW top, NEW s, NEW before, Spine(h, top, at, s, before), Holds(h, at),
         h[at].type = "STRING" => h[at].child = NULL, type \in Scalars
  PROVE  \E t, after : /\ Spine(g, top, at, t, after)
                       /\ Ready(h, at, before[at]) \o Opener(g, c) = after[at] \o Inner(g, at)
                       /\ g[at].child # NULL
<1>1. PICK t, b : Spine(g, top, c, t, b) /\ b[c] = Ready(h, at, before[at]) \o Opener(g, c)
  BY SpineGrows
<1>2. c # top
  BY DEF Spine, PathTo, AddedTo
<1>3. g[c].type \in Scalars /\ g[c].parent = at /\ g[c].child = NULL /\ c \in Allocated(g)
  BY DEF AddedTo
<1>4. PICK u, after : /\ Spine(g, top, at, u, after)
                      /\ b[c] \o Inner(g, c) = after[at] \o Inner(g, at)
                      /\ g[at].child # NULL
  BY <1>1, <1>2, <1>3, LeaveScalar
<1>5. Inner(g, c) = <<>> /\ b[c] \in Strings
  BY <1>1, <1>3, ListingAdds, PathIsBelow DEF Spine
<1>6. b[c] \o <<>> = b[c]
  BY <1>5, Together, Zenon
<1> QED  BY <1>1, <1>4, <1>5, <1>6, Zenon

-----------------------------------------------------------------------------
(* What the parser has read, state by state *)

DocumentIn(h, n) == ValueIn(h, n, ListingIn(h)[h[n].child_end])

\* Behind what stands before the members of the value at the cursor.
AsRead(h, state, at, text, before) ==
  /\ state = 1 => text = Ready(h, at, before) \o ObjectMark
  /\ state = 7 => text = Ready(h, at, before) \o ArrayMark
  /\ state = 2 => text = before /\ h[at].child = NULL
  /\ state \in {3, 9} => text = before \o Inner(h, at) /\ h[at].child # NULL
  /\ state \in {4, 6, 8} => text = Ready(h, at, before)
  /\ state = 5 => text = before

AtSpine(h, state, at, text) ==
  \E top, s, before : Spine(h, top, at, s, before) /\ AsRead(h, state, at, text, before[at])

ReadAt(h, state, at, text) ==
  /\ state = 0 => text = <<>>
  /\ state = 1 /\ at = NULL => text = ObjectMark
  /\ state \in 1..9 /\ at # NULL => AtSpine(h, state, at, text)
  /\ state = 99 => text = DocumentIn(h, at)

\* Each member of an object has one value, but the one the parser is at may still lack it; no other string has any.
Complete(h, lacking) ==
  \A n \in Allocated(h) :
    /\ h[n].parent = NULL => h[n].type = "OBJECT"
    /\ h[n].type = "STRING" => IF IsMember(h, n) /\ n # lacking
                               THEN h[n].child # NULL /\ h[n].child = h[n].child_end
                               ELSE h[n].child = NULL
Lacking(state, at) == IF state \in {1, 5, 6, 7} THEN at ELSE NULL

ReadInv ==
  /\ ParserInv /\ Worded(heap) /\ PrintInv
  /\ verdict = "reading" => /\ Complete(heap, Lacking(info.state, info.cursor))
                            /\ ReadAt(heap, info.state, info.cursor, read)
  /\ given # NULL => Complete(heap, NULL) /\ read = DocumentIn(heap, given)

(* What a token adds to the text.                                                                                     *)
LEMMA SpelledMarks ==
  /\ Spelled("BEGIN_OBJECT", NULL) = ObjectMark /\ Spelled("END_OBJECT", NULL) = ObjectEnd
  /\ Spelled("BEGIN_ARRAY", NULL) = ArrayMark
  /\ Spelled("NAME_SEPARATOR", NULL) = ColonMark /\ Spelled("VALUE_SEPARATOR", NULL) = CommaMark
BY Zenon DEF Spelled, ObjectMark, ObjectEnd, ArrayMark, ColonMark, CommaMark, Literals

LEMMA SpelledValues ==
  /\ \A text : Spelled("STRING", text) = QuoteMark \o text \o QuoteMark /\ Spelled("NUMBER", text) = text
  /\ \A t \in Literals : \A text : Spelled(t, text) = LiteralText(t)
<1>1. \A text : Spelled("STRING", text) = QuoteMark \o text \o QuoteMark
  BY Zenon DEF Spelled, QuoteMark, Literals
<1>2. \A text : Spelled("NUMBER", text) = text
  BY Zenon DEF Spelled, Literals
<1>3. \A text : /\ Spelled("TRUE", text) = LiteralText("TRUE")
                /\ Spelled("FALSE", text) = LiteralText("FALSE")
                /\ Spelled("NULL", text) = LiteralText("NULL")
  BY Zenon DEF Spelled, Literals
<1> QED  BY <1>1, <1>2, <1>3, Zenon DEF Literals

LEMMA SpelledScalar ==
  ASSUME NEW h \in Heaps, Worded(h), NEW n \in Allocated(h), h[n].type \in Scalars, h[n].child = NULL
  PROVE  Spelled(h[n].type, h[n].text) = Opener(h, n)
<1>1. CASE h[n].type = "STRING"
  <2> DEFINE string == QuoteMark \o h[n].text \o QuoteMark
  <2>1. h[n].text \in Strings
    BY <1>1, WordsAreStrings DEF Worded
  <2>2. string \in Strings
    BY <2>1, MarksAreStrings, Together, Zenon
  <2>3. Spelled("STRING", h[n].text) = string
    BY SpelledValues, Zenon
  <2>4. Opener(h, n) = string \o <<>>
    BY <1>1 DEF Opener, Literals
  <2> HIDE DEF string
  <2>5. string \o <<>> = string
    BY <2>2, Together, Zenon
  <2> QED  BY <1>1, <2>3, <2>4, <2>5
<1>2. CASE h[n].type = "NUMBER"
  <2>1. Opener(h, n) = h[n].text
    BY <1>2 DEF Opener, Literals
  <2> QED  BY <1>2, <2>1, SpelledValues, Zenon
<1>3. CASE h[n].type \in Literals
  <2>1. Opener(h, n) = LiteralText(h[n].type)
    BY <1>3 DEF Opener, Literals
  <2> QED  BY <1>3, <2>1, SpelledValues, Zenon
<1> QED  BY <1>1, <1>2, <1>3 DEF Scalars

(* A new value keeps the members as they are, and gives the one it is put in its value.                               *)
LEMMA CompleteGrows ==
  ASSUME NEW h, Trees(h), NEW g, NEW at \in Allocated(h), NEW c, NEW type, NEW text, AddedTo(h, g, at, c, type, text),
         NEW lacking, Complete(h, lacking), lacking \in {NULL, at}
  PROVE  /\ h[at].type = "OBJECT" /\ type = "STRING" => Complete(g, c)
         /\ (IsMember(h, at) /\ lacking = at) \/ h[at].type = "ARRAY" => Complete(g, NULL)
<1>1. NULL \notin Allocated(h) /\ NULL \notin Nodes /\ Inside(h) /\ Ended(h) /\ Allocated(h) \subseteq Nodes
  BY TreesAre, TreeNodes DEF Nodes
<1>2. c # NULL /\ at # c /\ c \notin Allocated(h)
  BY <1>1 DEF AddedTo
<1>3. \A n \in Allocated(h) : IsMember(g, n) <=> IsMember(h, n)
  BY <1>1 DEF AddedTo, IsMember, Inside
<1>4. \A n \in Allocated(g) : g[n].parent = NULL => g[n].type = "OBJECT"
  BY <1>1 DEF AddedTo, Complete
<1>5. \A n \in Allocated(h) \ {at} : /\ g[n].type = h[n].type /\ g[n].child = h[n].child /\ g[n].child_end = h[n].child_end
                                     /\ n # lacking /\ n # c /\ n # NULL
  BY <1>1 DEF AddedTo
<1>6. \A n \in Allocated(h) \ {at} : g[n].type = "STRING" => IF IsMember(g, n)
                                                             THEN g[n].child # NULL /\ g[n].child = g[n].child_end
                                                             ELSE g[n].child = NULL
  BY <1>3, <1>5 DEF Complete
<1>7. ASSUME h[at].type = "OBJECT", type = "STRING"
      PROVE  Complete(g, c)
  <2>1. g[at].type # "STRING" /\ g[c].child = NULL
    BY <1>7 DEF AddedTo
  <2>2. \A n \in Allocated(g) : n \in Allocated(h) \ {at} \/ n = at \/ n = c
    BY DEF AddedTo
  <2> QED  BY <1>4, <1>5, <1>6, <2>1, <2>2 DEF Complete
<1>8. ASSUME (IsMember(h, at) /\ lacking = at) \/ h[at].type = "ARRAY"
      PROVE  Complete(g, NULL)
  <2>1. h[at].type = "STRING" => g[at].child # NULL /\ g[at].child = g[at].child_end /\ IsMember(g, at) /\ at # NULL
    <3> SUFFICES ASSUME h[at].type = "STRING"
                 PROVE  g[at].child # NULL /\ g[at].child = g[at].child_end /\ IsMember(g, at) /\ at # NULL
      OBVIOUS
    <3>1. IsMember(h, at) /\ lacking = at
      BY <1>8
    <3>2. h[at].child = NULL
      BY <3>1 DEF Complete
    <3> QED  BY <1>1, <1>2, <1>3, <3>1, <3>2 DEF AddedTo
  <2>2. ~IsMember(g, c) /\ g[c].child = NULL
    BY <1>1, <1>2, <1>8 DEF AddedTo, IsMember
  <2>3. \A n \in Allocated(g) : n \in Allocated(h) \ {at} \/ n = at \/ n = c
    BY DEF AddedTo
  <2>4. g[at].type = h[at].type
    BY DEF AddedTo
  <2> QED  BY <1>4, <1>5, <1>6, <2>1, <2>2, <2>3, <2>4 DEF Complete
<1> QED  BY <1>7, <1>8

(* A value becomes the end of the spine.                                                                              *)
LEMMA SpineHas ==
  ASSUME NEW h, Trees(h), NEW top, NEW at, NEW s, NEW before, Spine(h, top, at, s, before)
  PROVE  /\ at \in Allocated(h) /\ at # NULL /\ before[at] \in Strings
         /\ Inner(h, at) \in Strings
         /\ h[at].parent = NULL <=> at = top
         /\ at = top => before[at] = Opener(h, at)
<1>1. at \in Allocated(h) /\ before[at] \in Strings /\ NULL \notin Allocated(h)
  BY TreesAre, PathIsBelow DEF Spine
<1>2. (h[at].parent = NULL <=> at = top) /\ (at = top => before[at] = Opener(h, at))
  BY <1>1 DEF Spine, PathTo
<1> QED  BY <1>1, <1>2, ListingAdds

-----------------------------------------------------------------------------
(* The turns of the parser, and the text *)

\* What holds of the text while the parser reads.
ReadingText ==
  /\ Worded(heap)
  /\ Complete(heap, Lacking(info.state, info.cursor))
  /\ ReadAt(heap, info.state, info.cursor, read)

LEMMA TextGoesOn ==
  ASSUME NEW state, NEW at, info' = [state |-> state, cursor |-> at], Worded(heap'), Complete(heap', Lacking(state, at)),
         ReadAt(heap', state, at, read')
  PROVE  ReadingText'
<1>1. info'.state = state /\ info'.cursor = at
  OBVIOUS
<1> QED  BY <1>1, Zenon DEF ReadingText

LEMMA SpineIsRead ==
  ASSUME NEW h, NEW state \in 1..9, NEW at, at # NULL, NEW text,
         NEW top, NEW s, NEW before, Spine(h, top, at, s, before), AsRead(h, state, at, text, before[at])
  PROVE  ReadAt(h, state, at, text)
<1>1. AtSpine(h, state, at, text)
  BY Zenon DEF AtSpine
<1>2. state # 0 /\ state # 99
  OBVIOUS
<1> QED  BY <1>1, <1>2, Zenon DEF ReadAt

LEMMA ReadingTrees ==
  ASSUME AtCursor, ReadingText
  PROVE  Trees(heap) /\ Shaped(heap)
BY DEF AtCursor, ReadingText, Formed, Trees

(* The cursor is at the end of the spine.                                                                             *)
LEMMA ReadingSpine ==
  ASSUME AtCursor, ReadingText, info.state \in 1..9, info.cursor # NULL
  PROVE  \E top, s, before : /\ Spine(heap, top, info.cursor, s, before)
                             /\ AsRead(heap, info.state, info.cursor, read, before[info.cursor])
BY Zenon DEF ReadingText, ReadAt, AtSpine

LEMMA CommaReads ==
  ASSUME NEW h, Trees(h), NEW top, NEW at, NEW s, NEW before, Spine(h, top, at, s, before),
         h[at].type \in {"OBJECT", "ARRAY"}, h[at].child # NULL
  PROVE  (before[at] \o Inner(h, at)) \o CommaMark = Ready(h, at, before[at])
<1>1. at \in Allocated(h) /\ before[at] \in Strings /\ Inner(h, at) \in Strings
  BY SpineHas
<1>2. h[at].child_end # NULL
  BY <1>1, TreesAre DEF Ended
<1>3. Inner(h, at) = ListingIn(h)[h[at].child_end]
  BY DEF Inner, Holds
<1>4. Ready(h, at, before[at]) = before[at] \o (Inner(h, at) \o CommaMark)
  BY <1>2, <1>3 DEF Ready
<1>5. (before[at] \o Inner(h, at)) \o CommaMark = before[at] \o (Inner(h, at) \o CommaMark)
  BY <1>1, MarksAreStrings, Associates
<1> QED  BY <1>4, <1>5

(* A container that ends is part of what it was in, or the document.                                                  *)
LEMMA EndReads ==
  ASSUME Trees(heap), Shaped(heap), NEW top, NEW s, NEW before, Spine(heap, top, info.cursor, s, before),
         heap[info.cursor].type \in {"OBJECT", "ARRAY"}, Leave,
         read' = (before[info.cursor] \o Inner(heap, info.cursor)) \o Closer(heap, info.cursor)
  PROVE  ReadAt(heap, info'.state, info'.cursor, read') /\ info'.state \in {3, 9, 99}
<1> DEFINE at == info.cursor
           up == heap[at].parent
<1>1. /\ at \in Allocated(heap) /\ at # NULL
      /\ up = NULL <=> at = top
      /\ at = top => before[at] = Opener(heap, at)
  BY SpineHas
<1>2. Inside(heap) /\ NULL \notin Allocated(heap)
  BY TreesAre
<1>3. CASE up = NULL
  <2>1. info' = [state |-> 99, cursor |-> at]
    BY <1>3 DEF Leave, Goes
  <2>2. read' = DocumentIn(heap, at)
    BY <1>1, <1>3, ListingAdds DEF DocumentIn
  <2>3. info'.state = 99 /\ info'.cursor = at
    BY <2>1
  <2>4. ReadAt(heap, 99, at, read')
    <3>1. 99 # 0 /\ 99 # 1 /\ 99 \notin 1..9
      OBVIOUS
    <3> QED  BY <2>2, <3>1, Zenon DEF ReadAt
  <2> QED  BY <2>3, <2>4
<1>4. ASSUME up # NULL
      PROVE  \E t, b : /\ Spine(heap, top, up, t, b)
                       /\ read' = b[up] \o Inner(heap, up)
                       /\ heap[up].child # NULL
  <2>1. at # top
    BY <1>1, <1>4
  <2> QED  BY <2>1, LeaveReads
<1>5. CASE up # NULL /\ heap[up].type = "STRING"
  <2>1. PICK t, b : Spine(heap, top, up, t, b) /\ read' = b[up] \o Inner(heap, up)
    BY <1>4, <1>5
  <2> DEFINE over == heap[up].parent
  <2>2. IsMember(heap, up) /\ up \in Allocated(heap)
    BY <1>1, <1>2, <1>5 DEF Shaped, IsMember, Inside
  <2>3. over # NULL /\ heap[up].type \in Scalars
    BY <1>5, <2>2 DEF IsMember, Scalars
  <2>4. up # top
    BY <2>1, <2>3, SpineHas
  <2>5. PICK u, a : /\ Spine(heap, top, over, u, a)
                    /\ b[up] \o Inner(heap, up) = a[over] \o Inner(heap, over)
                    /\ heap[over].child # NULL
    BY <2>1, <2>3, <2>4, LeaveScalar
  <2>6. info' = [state |-> 3, cursor |-> over]
    BY <1>5 DEF Leave, Goes
  <2>7. AsRead(heap, 3, over, read', a[over])
    <3>1. read' = a[over] \o Inner(heap, over) /\ heap[over].child # NULL
      BY <2>1, <2>5, Zenon
    <3> HIDE DEF over, up
    <3> QED  BY <3>1 DEF AsRead
  <2>8. ReadAt(heap, 3, over, read')
    <3>1. 3 \in 1..9
      OBVIOUS
    <3> HIDE DEF over, up
    <3> QED  BY <2>3, <2>5, <2>7, <3>1, SpineIsRead
  <2>9. info'.state = 3 /\ info'.cursor = over
    BY <2>6
  <2> QED  BY <2>8, <2>9
<1>6. CASE up # NULL /\ heap[up].type # "STRING"
  <2>1. PICK t, b : Spine(heap, top, up, t, b) /\ read' = b[up] \o Inner(heap, up) /\ heap[up].child # NULL
    BY <1>4, <1>6
  <2>2. heap[up].type = "ARRAY" /\ up \in Allocated(heap)
    <3>1. up \in Allocated(heap) /\ ~IsMember(heap, up) /\ heap[at].type # "STRING"
      BY <1>1, <1>2, <1>6 DEF IsMember, Inside
    <3> QED  BY <1>1, <1>6, <3>1 DEF Shaped
  <2>3. info' = [state |-> 9, cursor |-> up]
    BY <1>6, <2>2 DEF Leave, Goes
  <2>4. AsRead(heap, 9, up, read', b[up])
    BY <2>1 DEF AsRead
  <2>5. ReadAt(heap, 9, up, read')
    <3>1. 9 \in 1..9
      OBVIOUS
    <3> HIDE DEF up
    <3> QED  BY <1>6, <2>1, <2>4, <3>1, SpineIsRead
  <2>6. info'.state = 9 /\ info'.cursor = up
    BY <2>3
  <2> QED  BY <2>5, <2>6
<1> QED  BY <1>3, <1>5, <1>6

(* Without what follows it, a text is as it was.                                                                      *)
LEMMA CommaIsTaken ==
  ASSUME NEW x \in Strings
  PROVE  SubSeq(x \o CommaMark, 1, Len(x \o CommaMark) - 1) = x
<1>1. ASSUME NEW S, NEW y \in Seq(S), NEW c
      PROVE  SubSeq(y \o <<c>>, 1, Len(y \o <<c>>) - 1) = y
  OBVIOUS
<1>2. \A c : SubSeq(x \o <<c>>, 1, Len(x \o <<c>>) - 1) = x
  BY <1>1, Zenon DEF Strings
<1> QED  BY <1>2, Zenon DEF CommaMark

(* The tokens that leave the tree as it is.                                                                           *)
LEMMA Document0Reads ==
  ASSUME AtCursor, ReadingText, Document0
  PROVE  ReadingText'
<1>1. info.state = 0 /\ info' = [state |-> 1, cursor |-> info.cursor] /\ UNCHANGED heap
      /\ read' = read \o Spelled("BEGIN_OBJECT", NULL)
  BY DEF Document0, Goes, Reads, NoTree, tree
<1>2. info.cursor = NULL /\ Allocated(heap) = {}
  BY <1>1 DEF AtCursor, AtState
<1>3. read' = ObjectMark
  <2>1. read = <<>>
    BY <1>1, Zenon DEF ReadingText, ReadAt
  <2> QED  BY <1>1, <2>1, SpelledMarks, MarksAreStrings, Together, Zenon
<1>4. ReadAt(heap, 1, NULL, read')
  <2>1. 1 # 0 /\ 1 # 99
    OBVIOUS
  <2> QED  BY <1>3, <2>1, Zenon DEF ReadAt
<1>5. Complete(heap, Lacking(1, NULL))
  BY <1>2 DEF Complete
<1>6. ReadAt(heap', 1, info.cursor, read') /\ Complete(heap', Lacking(1, info.cursor)) /\ Worded(heap')
  BY <1>1, <1>2, <1>4, <1>5, Zenon DEF ReadingText
<1> QED  BY <1>1, <1>6, TextGoesOn

LEMMA CommaIsRead ==
  ASSUME AtCursor, ReadingText, ObjectComma \/ ArrayComma
  PROVE  ReadingText'
<1> DEFINE at == info.cursor
           next == IF info.state = 3 THEN 4 ELSE 8
<1>1. info.state \in {3, 9} /\ info' = [state |-> next, cursor |-> at] /\ UNCHANGED heap
      /\ read' = read \o Spelled("VALUE_SEPARATOR", NULL)
  BY DEF ObjectComma, ArrayComma, Goes, Reads, NoTree, tree
<1>2. at # NULL /\ heap[at].type \in {"OBJECT", "ARRAY"}
  BY <1>1 DEF AtCursor, AtState
<1>3. PICK top, s, before : Spine(heap, top, at, s, before) /\ AsRead(heap, info.state, at, read, before[at])
  BY <1>1, <1>2, ReadingSpine
<1>4. read = before[at] \o Inner(heap, at) /\ heap[at].child # NULL
  BY <1>1, <1>3 DEF AsRead
<1>5. Trees(heap)
  BY ReadingTrees
<1> HIDE DEF at
<1>6. read' = Ready(heap, at, before[at])
  BY <1>1, <1>2, <1>3, <1>4, <1>5, SpelledMarks, CommaReads
<1>7. AsRead(heap, next, at, read', before[at]) /\ next \in 1..9
  BY <1>1, <1>6 DEF AsRead
<1>8. ReadAt(heap, next, at, read')
  BY <1>2, <1>3, <1>7, SpineIsRead
<1>9. Complete(heap, Lacking(next, at))
  <2>1. Lacking(next, at) = NULL /\ Lacking(info.state, at) = NULL
    BY <1>1 DEF Lacking
  <2> QED  BY <2>1 DEF ReadingText, at
<1>10. Worded(heap') /\ Complete(heap', Lacking(next, at)) /\ ReadAt(heap', next, at, read')
  BY <1>1, <1>8, <1>9, Zenon DEF ReadingText
<1> HIDE DEF next
<1> QED  BY <1>1, <1>10, TextGoesOn

LEMMA ColonReads ==
  ASSUME AtCursor, ReadingText, Colon
  PROVE  ReadingText'
<1> DEFINE at == info.cursor
<1>1. info.state = 5 /\ info' = [state |-> 6, cursor |-> at] /\ UNCHANGED heap
      /\ read' = read \o Spelled("NAME_SEPARATOR", NULL)
  BY DEF Colon, Goes, Reads, NoTree, tree
<1>2. at # NULL /\ heap[at].type = "STRING"
  BY <1>1 DEF AtCursor, AtState, IsMember
<1>3. PICK top, s, before : Spine(heap, top, at, s, before) /\ AsRead(heap, 5, at, read, before[at])
  BY <1>1, <1>2, ReadingSpine
<1>4. read = before[at]
  BY <1>3 DEF AsRead
<1>5. Ready(heap, at, before[at]) = before[at] \o ColonMark
  BY <1>2 DEF Ready
<1> HIDE DEF at
<1>6. read' = Ready(heap, at, before[at])
  BY <1>1, <1>4, <1>5, SpelledMarks, Zenon
<1>7. AsRead(heap, 6, at, read', before[at]) /\ 6 \in 1..9
  BY <1>6 DEF AsRead
<1>8. ReadAt(heap, 6, at, read')
  BY <1>2, <1>3, <1>7, SpineIsRead
<1>9. Complete(heap, Lacking(6, at))
  <2>1. Lacking(6, at) = at /\ Lacking(info.state, at) = at
    BY <1>1 DEF Lacking
  <2> QED  BY <2>1 DEF ReadingText, at
<1>10. Worded(heap') /\ Complete(heap', Lacking(6, at)) /\ ReadAt(heap', 6, at, read')
  BY <1>1, <1>8, <1>9, Zenon DEF ReadingText
<1> QED  BY <1>1, <1>10, TextGoesOn

LEMMA BeginReads ==
  ASSUME AtCursor, ReadingText, BeginContainer
  PROVE  ReadingText'
<1> DEFINE at == info.cursor
<1>1. info.state \in {6, 8} /\ UNCHANGED heap
  BY DEF BeginContainer, NoTree, tree
<1>2. PICK state \in {1, 7} : /\ info' = [state |-> state, cursor |-> at]
                              /\ read' = read \o (IF state = 1 THEN ObjectMark ELSE ArrayMark)
  <2>1. CASE Reads("BEGIN_OBJECT", NULL) /\ Goes(1, at)
    <3>1. info' = [state |-> 1, cursor |-> at] /\ read' = read \o ObjectMark
      BY <2>1, SpelledMarks, Zenon DEF Reads, Goes
    <3> QED  BY <3>1
  <2>2. CASE Reads("BEGIN_ARRAY", NULL) /\ Goes(7, at)
    <3>1. info' = [state |-> 7, cursor |-> at] /\ read' = read \o ArrayMark
      BY <2>2, SpelledMarks, Zenon DEF Reads, Goes
    <3> QED  BY <3>1
  <2> QED  BY <2>1, <2>2 DEF BeginContainer
<1>3. /\ at # NULL /\ at \in Allocated(heap)
      /\ info.state = 6 => IsMember(heap, at)
      /\ info.state = 8 => heap[at].type = "ARRAY"
  BY <1>1 DEF AtCursor, AtState
<1>4. PICK top, s, before : Spine(heap, top, at, s, before) /\ AsRead(heap, info.state, at, read, before[at])
  BY <1>1, <1>3, ReadingSpine
<1>5. read = Ready(heap, at, before[at])
  BY <1>1, <1>4 DEF AsRead
<1>6. AsRead(heap, state, at, read', before[at]) /\ state \in 1..9
  <2>1. CASE state = 1
    <3>1. read' = Ready(heap, at, before[at]) \o ObjectMark
      BY <1>2, <1>5, <2>1
    <3> QED  BY <2>1, <3>1 DEF AsRead
  <2>2. CASE state = 7
    <3>1. read' = Ready(heap, at, before[at]) \o ArrayMark
      BY <1>2, <1>5, <2>2
    <3> QED  BY <2>2, <3>1 DEF AsRead
  <2> QED  BY <2>1, <2>2
<1>7. Complete(heap, Lacking(state, at))
  <2>1. Lacking(state, at) = at /\ Complete(heap, Lacking(info.state, at))
    BY DEF Lacking, ReadingText
  <2>2. CASE info.state = 6
    BY <2>1, <2>2 DEF Lacking
  <2>3. CASE info.state = 8
    <3>1. Complete(heap, NULL) /\ heap[at].type # "STRING"
      BY <1>3, <2>1, <2>3 DEF Lacking
    <3>2. \A n \in Allocated(heap) : n # NULL
      BY TreesAre, ReadingTrees
    <3> QED  BY <2>1, <3>1, <3>2 DEF Complete
  <2> QED  BY <1>1, <2>2, <2>3
<1> HIDE DEF at
<1>8. ReadAt(heap, state, at, read')
  BY <1>3, <1>4, <1>6, SpineIsRead
<1>9. Worded(heap') /\ Complete(heap', Lacking(state, at)) /\ ReadAt(heap', state, at, read')
  BY <1>1, <1>7, <1>8, Zenon DEF ReadingText
<1> QED  BY <1>2, <1>9, TextGoesOn

(* The end of a container.                                                                                            *)
LEMMA EndIsRead ==
  ASSUME AtCursor, ReadingText, EndObject \/ EndArray
  PROVE  ReadingText'
<1> DEFINE at == info.cursor
<1>1. /\ info.state \in {2, 3, 8, 9} /\ UNCHANGED heap /\ Leave /\ Trees(heap) /\ Shaped(heap)
      /\ at # NULL /\ at \in Allocated(heap)
      /\ info.state \in {2, 3} => heap[at].type = "OBJECT"
      /\ info.state \in {8, 9} => heap[at].type = "ARRAY"
  BY ReadingTrees DEF EndObject, EndArray, NoTree, tree, AtCursor, AtState
<1>2. PICK top, s, before : Spine(heap, top, at, s, before) /\ AsRead(heap, info.state, at, read, before[at])
  BY <1>1, ReadingSpine
<1> DEFINE members == before[at] \o Inner(heap, at)
<1>3. before[at] \in Strings /\ Inner(heap, at) \in Strings
  BY <1>1, <1>2, SpineHas
<1>4. heap[at].child = NULL => members = before[at]
  <2>1. heap[at].child = NULL => Inner(heap, at) = <<>>
    BY <1>1, ListingAdds
  <2>2. before[at] \o <<>> = before[at]
    BY <1>3, Together, Zenon
  <2> QED  BY <2>1, <2>2, Zenon
<1>5. members \in Strings
  BY <1>3, Together, Zenon
<1>6. info.state \in {2, 3, 9} => read = members
  <2>1. /\ info.state = 2 => read = before[at] /\ heap[at].child = NULL
        /\ info.state \in {3, 9} => read = before[at] \o Inner(heap, at)
    BY <1>2 DEF AsRead
  <2> HIDE DEF members
  <2> QED  BY <1>4, <2>1 DEF members
<1>7. info.state = 8 => WithoutComma = members
  <2> SUFFICES ASSUME info.state = 8
               PROVE  WithoutComma = members
    OBVIOUS
  <2>1. read = Ready(heap, at, before[at])
    BY <1>2 DEF AsRead
  <2>2. CASE heap[at].child = NULL
    <3>1. heap[at].child_end = NULL
      BY <1>1, <2>2, TreesAre DEF Ended
    <3>2. Ready(heap, at, before[at]) = before[at]
      BY <1>1, <3>1 DEF Ready
    <3>3. WithoutComma = read
      BY <2>2 DEF WithoutComma
    <3> QED  BY <1>4, <2>1, <2>2, <3>2, <3>3, Zenon
  <2>3. CASE heap[at].child # NULL
    <3>1. read = members \o CommaMark
      BY <1>1, <1>2, <2>1, <2>3, CommaReads
    <3>2. WithoutComma = SubSeq(read, 1, Len(read) - 1)
      BY <2>3 DEF WithoutComma
    <3> QED  BY <1>5, <3>1, <3>2, CommaIsTaken
  <2> QED  BY <2>2, <2>3
<1>8. read' = members \o Closer(heap, at)
  <2>1. CASE EndObject
    <3>1. read' = read \o Spelled("END_OBJECT", NULL) /\ info.state \in {2, 3}
      BY <2>1 DEF EndObject, Reads
    <3>2. Closer(heap, at) = ObjectEnd
      BY <1>1, <3>1 DEF Closer
    <3> QED  BY <1>6, <3>1, <3>2, SpelledMarks
  <2>2. CASE EndArray
    <3>1. read' = WithoutComma \o ArrayEnd
      BY <2>2, Zenon DEF EndArray, ArrayEnd
    <3>2. info.state \in {8, 9}
      BY <2>2 DEF EndArray
    <3>3. WithoutComma = members
      <4>1. info.state = 9 => WithoutComma = read
        BY DEF WithoutComma
      <4> QED  BY <1>6, <1>7, <3>2, <4>1
    <3>4. Closer(heap, at) = ArrayEnd
      BY <1>1, <3>2 DEF Closer
    <3> QED  BY <3>1, <3>3, <3>4
  <2> QED  BY <2>1, <2>2
<1>9. ReadAt(heap, info'.state, info'.cursor, read') /\ info'.state \in {3, 9, 99}
  <2>1. heap[at].type \in {"OBJECT", "ARRAY"}
    BY <1>1
  <2> QED  BY <1>1, <1>2, <1>8, <2>1, EndReads
<1>10. Complete(heap, Lacking(info'.state, info'.cursor))
  <2>1. Lacking(info'.state, info'.cursor) = NULL /\ Lacking(info.state, info.cursor) = NULL
    BY <1>1, <1>9 DEF Lacking
  <2> QED  BY <2>1 DEF ReadingText
<1> QED  BY <1>1, <1>9, <1>10, Zenon DEF ReadingText

(* The turns that add a value: what is read is at its place in the tree.                                              *)
LEMMA AddedTrees ==
  ASSUME AtCursor, ReadingText, NEW type, NEW text, Grown(type, info.cursor),
         AddedTo(heap, heap', info.cursor, New, type, text), type \in {"STRING", "NUMBER"} => text \in Words
  PROVE  Trees(heap')
<1>1. Worded(heap')
  BY DEF Worded, AddedTo, ReadingText
<1> QED  BY <1>1 DEF Trees, Grown, Formed

LEMMA TextIsWord ==
  ASSUME NEW t \in Values, NEW text \in TextsOf(t)
  PROVE  t \in Scalars /\ t \in Types /\ text \in Labels \cup Texts \cup {Number, NULL}
         /\ (t \in {"STRING", "NUMBER"} => text \in Words)
<1>1. t \in Scalars
  BY ParserValues
<1> QED  BY <1>1, TokenTexts DEF TextsOf, Words

LEMMA LabelReads ==
  ASSUME AtCursor, ReadingText, Label
  PROVE  ReadingText'
<1> DEFINE at == info.cursor
<1>1. PICK text \in Texts : Reads("STRING", text) /\ Insert("STRING", text, 5, New)
  BY DEF Label
<1>2. /\ at \in Allocated(heap) /\ heap[at].type = "OBJECT" /\ "STRING" \in Types /\ at # NULL
      /\ Formed(heap) /\ text \in Labels \cup Texts \cup {Number, NULL} /\ info.state \in {2, 4}
      /\ Trees(heap)
  BY ReadingTrees DEF Label, AtCursor, AtState, Types, Scalars
<1>3. /\ Grown("STRING", at) /\ AddedTo(heap, heap', at, New, "STRING", text)
      /\ info' = [state |-> 5, cursor |-> New]
  BY <1>1, <1>2, ParserInserts
<1>4. Trees(heap')
  <2>1. text \in Words
    BY DEF Words
  <2> QED  BY <1>3, <2>1, AddedTrees
<1>5. PICK top, s, before : Spine(heap, top, at, s, before) /\ AsRead(heap, info.state, at, read, before[at])
  BY <1>2, ReadingSpine
<1>6. read = Ready(heap, at, before[at])
  <2>1. CASE info.state = 2
    <3>1. read = before[at] /\ heap[at].child = NULL
      BY <1>5, <2>1 DEF AsRead
    <3>2. heap[at].child_end = NULL
      BY <1>2, <3>1, TreesAre DEF Ended
    <3> QED  BY <1>2, <3>1, <3>2 DEF Ready
  <2>2. CASE info.state = 4
    BY <1>5, <2>2 DEF AsRead
  <2> QED  BY <1>2, <2>1, <2>2
<1>7. PICK t, after : Spine(heap', top, New, t, after) /\ after[New] = Ready(heap, at, before[at]) \o Opener(heap', New)
  BY <1>2, <1>3, <1>4, <1>5, SpineGrows DEF Holds
<1>8. heap'[New].type = "STRING" /\ heap'[New].text = text /\ heap'[New].child = NULL /\ New \in Allocated(heap') /\ New # NULL
  BY <1>3, TreeNodes DEF AddedTo, Nodes
<1>9. Spelled("STRING", text) = Opener(heap', New)
  <2>1. heap'[New].type \in Scalars
    BY <1>8 DEF Scalars
  <2>2. Spelled(heap'[New].type, heap'[New].text) = Opener(heap', New)
    BY <1>4, <1>8, <2>1, TreesAre, SpelledScalar
  <2> QED  BY <1>8, <2>2
<1>10. read' = after[New]
  BY <1>1, <1>6, <1>7, <1>9, Zenon DEF Reads
<1>11. ReadAt(heap', 5, New, read')
  <2> DEFINE c == New
  <2>1. c # NULL /\ Spine(heap', top, c, t, after) /\ read' = after[c] /\ 5 \in 1..9
    BY <1>7, <1>8, <1>10
  <2> HIDE DEF c
  <2>2. AsRead(heap', 5, c, read', after[c])
    BY <2>1 DEF AsRead
  <2>3. ReadAt(heap', 5, c, read')
    BY <2>1, <2>2, SpineIsRead
  <2> QED  BY <2>3 DEF c
<1>12. Complete(heap', Lacking(5, New))
  <2>1. Complete(heap, NULL)
    <3>1. Lacking(info.state, at) = NULL
      BY <1>2 DEF Lacking
    <3> QED  BY <3>1 DEF ReadingText
  <2>2. Complete(heap', New)
    BY <1>2, <1>3, <2>1, CompleteGrows
  <2> QED  BY <2>2 DEF Lacking
<1> QED  BY <1>3, <1>4, <1>11, <1>12, TextGoesOn DEF Trees

LEMMA LabelValueReads ==
  ASSUME AtCursor, ReadingText, LabelValue
  PROVE  ReadingText'
<1> DEFINE at == info.cursor
           up == heap[at].parent
<1>1. PICK type \in Values : \E text \in TextsOf(type) :
        Reads(type, text) /\ Insert(type, text, 3, IF up = NULL THEN at ELSE up)
  BY DEF LabelValue
<1>2. PICK text \in TextsOf(type) : Reads(type, text) /\ Insert(type, text, 3, IF up = NULL THEN at ELSE up)
  BY <1>1
<1>3. /\ at \in Allocated(heap) /\ IsMember(heap, at) /\ at # NULL /\ Formed(heap) /\ info.state = 6 /\ Trees(heap)
      /\ heap[at].type = "STRING" /\ heap[at].type \in Scalars
  BY ReadingTrees DEF LabelValue, AtCursor, AtState, IsMember, Scalars
<1>4. up # NULL /\ up \in Allocated(heap)
  BY <1>3 DEF Formed, Linked, Inside, IsMember
<1>5. Grown(type, at) /\ AddedTo(heap, heap', at, New, type, text) /\ info' = [state |-> 3, cursor |-> up]
  <2>1. Insert(type, text, 3, up)
    BY <1>2, <1>4
  <2> QED  BY <1>3, <2>1, ParserInserts, TokenTexts
<1>6. Trees(heap')
  BY <1>5, AddedTrees, TextIsWord
<1>7. PICK top, s, before : Spine(heap, top, at, s, before) /\ AsRead(heap, 6, at, read, before[at])
  BY <1>3, ReadingSpine
<1>8. read = Ready(heap, at, before[at])
  BY <1>7 DEF AsRead
<1>9. Complete(heap, at) /\ Lacking(3, up) = NULL
  <2>1. Lacking(6, at) = at
    BY DEF Lacking
  <2> QED  BY <1>3, <2>1 DEF ReadingText, Lacking
<1>10. heap[at].child = NULL
  BY <1>3, <1>9 DEF Complete
<1>11. PICK t, a : /\ Spine(heap', top, at, t, a)
                   /\ Ready(heap, at, before[at]) \o Opener(heap', New) = a[at] \o Inner(heap', at)
                   /\ heap'[at].child # NULL
  <2>1. type \in Scalars /\ Holds(heap, at)
    BY <1>3, TextIsWord DEF Holds
  <2> HIDE DEF at
  <2> QED  BY <1>3, <1>5, <1>6, <1>7, <1>10, <2>1, ScalarReads
<1>12. heap'[at].parent = up /\ heap'[at].type \in Scalars
  BY <1>3, <1>5 DEF AddedTo
<1>13. at # top
  BY <1>4, <1>6, <1>11, <1>12, SpineHas
<1>14. PICK u, b : /\ Spine(heap', top, up, u, b)
                   /\ a[at] \o Inner(heap', at) = b[up] \o Inner(heap', up)
                   /\ heap'[up].child # NULL
  BY <1>6, <1>11, <1>12, <1>13, LeaveScalar
<1>15. Spelled(type, text) = Opener(heap', New)
  <2>1. heap'[New].type = type /\ heap'[New].text = text /\ heap'[New].child = NULL /\ New \in Allocated(heap')
    BY <1>5 DEF AddedTo
  <2>2. Spelled(heap'[New].type, heap'[New].text) = Opener(heap', New)
    BY <1>6, <2>1, TreesAre, TextIsWord, SpelledScalar
  <2> QED  BY <2>1, <2>2
<1>16. read' = b[up] \o Inner(heap', up)
  BY <1>2, <1>8, <1>11, <1>14, <1>15, Zenon DEF Reads
<1> HIDE DEF up
<1>17. ReadAt(heap', 3, up, read')
  <2>1. AsRead(heap', 3, up, read', b[up]) /\ 3 \in 1..9
    BY <1>14, <1>16 DEF AsRead
  <2> QED  BY <1>4, <1>14, <2>1, SpineIsRead
<1>18. Complete(heap', Lacking(3, up))
  <2>1. Complete(heap', NULL)
    BY <1>3, <1>5, <1>9, CompleteGrows
  <2> QED  BY <1>9, <2>1
<1> QED  BY <1>5, <1>6, <1>17, <1>18, TextGoesOn DEF Trees

LEMMA ElementReads ==
  ASSUME AtCursor, ReadingText, Element
  PROVE  ReadingText'
<1> DEFINE at == info.cursor
<1>1. PICK type \in Values : \E text \in TextsOf(type) : Reads(type, text) /\ Insert(type, text, 9, at)
  BY DEF Element
<1>2. PICK text \in TextsOf(type) : Reads(type, text) /\ Insert(type, text, 9, at)
  BY <1>1
<1>3. /\ at \in Allocated(heap) /\ heap[at].type = "ARRAY" /\ at # NULL /\ Formed(heap) /\ info.state = 8 /\ Trees(heap)
  BY ReadingTrees DEF Element, AtCursor, AtState
<1>4. Grown(type, at) /\ AddedTo(heap, heap', at, New, type, text) /\ info' = [state |-> 9, cursor |-> at]
  BY <1>2, <1>3, ParserInserts, TokenTexts
<1>5. Trees(heap')
  BY <1>4, AddedTrees, TextIsWord
<1>6. PICK top, s, before : Spine(heap, top, at, s, before) /\ AsRead(heap, 8, at, read, before[at])
  BY <1>3, ReadingSpine
<1>7. read = Ready(heap, at, before[at])
  BY <1>6 DEF AsRead
<1>8. PICK t, a : /\ Spine(heap', top, at, t, a)
                  /\ Ready(heap, at, before[at]) \o Opener(heap', New) = a[at] \o Inner(heap', at)
                  /\ heap'[at].child # NULL
  BY <1>3, <1>4, <1>5, <1>6, TextIsWord, ScalarReads DEF Holds
<1>9. Spelled(type, text) = Opener(heap', New)
  <2>1. heap'[New].type = type /\ heap'[New].text = text /\ heap'[New].child = NULL /\ New \in Allocated(heap')
    BY <1>4 DEF AddedTo
  <2>2. Spelled(heap'[New].type, heap'[New].text) = Opener(heap', New)
    BY <1>5, <2>1, TreesAre, TextIsWord, SpelledScalar
  <2> QED  BY <2>1, <2>2
<1>10. read' = a[at] \o Inner(heap', at)
  BY <1>2, <1>7, <1>8, <1>9, Zenon DEF Reads
<1>11. Complete(heap', Lacking(9, at))
  <2>1. Lacking(9, at) = NULL /\ Lacking(info.state, at) = NULL
    BY <1>3 DEF Lacking
  <2>2. Complete(heap', NULL)
    BY <1>3, <1>4, <2>1, CompleteGrows DEF ReadingText
  <2> QED  BY <2>1, <2>2
<1> HIDE DEF at
<1>12. ReadAt(heap', 9, at, read')
  <2>1. AsRead(heap', 9, at, read', a[at]) /\ 9 \in 1..9
    BY <1>8, <1>10 DEF AsRead
  <2> QED  BY <1>3, <1>8, <2>1, SpineIsRead
<1> QED  BY <1>4, <1>5, <1>11, <1>12, TextGoesOn DEF Trees

LEMMA FirstObjectReads ==
  ASSUME AtCursor, ReadingText, OpenObject, info.cursor = NULL
  PROVE  ReadingText'
<1>1. /\ info.state = 1 /\ UNCHANGED read /\ HasMemory(heap)
      /\ heap' = json_new_value(heap, New, "OBJECT", NULL) /\ info' = [state |-> 2, cursor |-> New]
  BY DEF OpenObject, OpenContainer, Goes
<1>2. Grown("OBJECT", NULL) /\ Allocated(heap) = {}
  BY ContainerGrows DEF OpenObject
<1>3. FreshIn(heap, heap', New, "OBJECT", NULL)
  <2>1. heap \in Heaps /\ NULL \in Labels \cup Texts \cup {Number, NULL} /\ "OBJECT" \in Types
    BY DEF AtCursor, Formed, Linked, Types
  <2> QED  BY <1>1, <2>1, FirstFreeIsFree, NewLinks DEF New
<1>4. Worded(heap') /\ Trees(heap')
  <2>1. Worded(heap')
    BY <1>3, ChangesKeepWorded DEF ReadingText
  <2> QED  BY <1>2, <2>1 DEF Grown, Formed, Trees
<1> DEFINE c == New
           before == [n \in {c} |-> Opener(heap', c)]
<1>5. /\ Allocated(heap') = {c} /\ c # NULL /\ heap'[c].type = "OBJECT" /\ heap'[c].parent = NULL
      /\ heap'[c].child = NULL /\ heap'[c].next = NULL
  BY <1>2, <1>3, TreeNodes DEF FreshIn, Nodes
<1> HIDE DEF c
<1>6. Spine(heap', c, c, {c}, before)
  <2>1. PathTo(heap', c, c, {c}, before)
    BY <1>4, <1>5, PathStarts
  <2> QED  BY <1>5, <2>1 DEF Spine
<1>7. AsRead(heap', 2, c, read', before[c])
  <2>1. read = ObjectMark
    BY <1>1, Zenon DEF ReadingText, ReadAt
  <2>2. Opener(heap', c) = ObjectMark
    BY <1>5 DEF Opener, Literals
  <2> QED  BY <1>1, <1>5, <2>1, <2>2 DEF AsRead
<1> HIDE DEF before
<1>8. ReadAt(heap', 2, c, read')
  <2>1. 2 \in 1..9
    OBVIOUS
  <2> QED  BY <1>5, <1>6, <1>7, <2>1, SpineIsRead
<1>9. Complete(heap', Lacking(2, c))
  BY <1>5 DEF Complete
<1> QED  BY <1>1, <1>4, <1>8, <1>9, TextGoesOn DEF c

LEMMA ContainerReads ==
  ASSUME AtCursor, ReadingText, NEW state, NEW type, NEW next,
         (state = 1 /\ type = "OBJECT" /\ next = 2) \/ (state = 7 /\ type = "ARRAY" /\ next = 8),
         OpenContainer(state, type, next), info.cursor # NULL
  PROVE  ReadingText'
<1> DEFINE at == info.cursor
           mark == IF state = 1 THEN ObjectMark ELSE ArrayMark
<1>1. (state = 1 /\ type = "OBJECT" /\ next = 2) \/ (state = 7 /\ type = "ARRAY" /\ next = 8)
  OBVIOUS
<1>2. info.state = state /\ UNCHANGED read /\ Insert(type, NULL, next, New)
  BY DEF OpenContainer
<1>3. /\ at # NULL /\ at \in Allocated(heap)
      /\ IsMember(heap, at) \/ heap[at].type = "ARRAY"
      /\ Formed(heap) /\ Trees(heap)
  BY <1>1, <1>2, ReadingTrees DEF AtCursor, AtState
<1>4. Grown(type, at) /\ AddedTo(heap, heap', at, New, type, NULL) /\ info' = [state |-> next, cursor |-> New]
  <2>1. type \in Types /\ NULL \in Labels \cup Texts \cup {Number, NULL}
    BY <1>1 DEF Types
  <2> QED  BY <1>2, <1>3, <2>1, ParserInserts
<1>5. Trees(heap')
  BY <1>1, <1>4, AddedTrees
<1>6. PICK top, s, before : Spine(heap, top, at, s, before) /\ AsRead(heap, state, at, read, before[at])
  BY <1>1, <1>2, ReadingSpine
<1>7. read = Ready(heap, at, before[at]) \o mark
  BY <1>1, <1>6 DEF AsRead
<1>8. Complete(heap, at)
  BY <1>1, <1>2, Zenon DEF ReadingText, Lacking
<1>9. heap[at].type = "STRING" => heap[at].child = NULL
  BY <1>3, <1>8 DEF Complete
<1>10. Holds(heap, at)
  BY <1>3 DEF Holds, IsMember
<1>11. PICK t, after : Spine(heap', top, New, t, after) /\ after[New] = Ready(heap, at, before[at]) \o Opener(heap', New)
  <2> HIDE DEF at
  <2> QED  BY <1>3, <1>4, <1>5, <1>6, <1>9, <1>10, SpineGrows
<1> DEFINE c == New
<1>12. heap'[c].type = type /\ heap'[c].child = NULL /\ heap'[c].child_end = NULL /\ c # NULL
  BY <1>4, TreeNodes DEF AddedTo, Nodes
<1>13. Opener(heap', c) = mark
  BY <1>1, <1>12 DEF Opener, Literals
<1>14. read' = after[c]
  BY <1>2, <1>7, <1>11, <1>13, Zenon
<1> HIDE DEF c, mark
<1>15. ReadAt(heap', next, c, read')
  <2>1. Ready(heap', c, after[c]) = after[c]
    BY <1>1, <1>12 DEF Ready
  <2>2. AsRead(heap', next, c, read', after[c]) /\ next \in 1..9
    BY <1>1, <1>12, <1>14, <2>1 DEF AsRead
  <2> QED  BY <1>11, <1>12, <2>2, SpineIsRead DEF c
<1>16. Complete(heap', Lacking(next, c))
  <2>1. Lacking(next, c) = NULL
    BY <1>1 DEF Lacking
  <2>2. CASE IsMember(heap, at)
    <3>1. Complete(heap', NULL)
      BY <1>3, <1>4, <1>8, <2>2, CompleteGrows
    <3> QED  BY <2>1, <3>1
  <2>3. CASE heap[at].type = "ARRAY"
    <3>1. Complete(heap', NULL)
      BY <1>3, <1>4, <1>8, <2>3, CompleteGrows
    <3> QED  BY <2>1, <3>1
  <2> QED  BY <1>3, <2>2, <2>3
<1> QED  BY <1>4, <1>5, <1>15, <1>16, TextGoesOn DEF c, Trees

-----------------------------------------------------------------------------
(* The label that is looked for *)

FindBody(h, text, f, n) == IF n = NULL \/ h[n].text = text THEN n ELSE f[h[n].next]
FindIn(h, text) == CHOOSE f : f = [n \in Allocated(h) \cup {NULL} |-> FindBody(h, text, f, n)]

(* Among any values of a tree there is one whose successor is not among them.                                         *)
LEMMA LastOfAll ==
  ASSUME NEW h, Linked(h), NEW s \in SUBSET Allocated(h), s # {}
  PROVE  \E n \in s : h[n].next \notin s
<1>1. Ordered(h) /\ Allocated(h) \subseteq Nodes
  BY AllocatedCells DEF Linked
<1>2. PICK rank \in [Nodes -> Nat] : InOrderBy(h, rank)
  BY <1>1 DEF Ordered
<1>3. PICK d \in Nat : \A n \in Nodes : rank[n] < d
  BY DepthsBounded
<1> DEFINE left == [n \in s |-> d - rank[n]]
<1>4. \A n \in s : left[n] \in Nat
  <2> SUFFICES ASSUME NEW n \in s
               PROVE  left[n] \in Nat
    OBVIOUS
  <2>1. rank[n] \in Nat /\ rank[n] < d
    BY <1>1, <1>3
  <2> QED  BY <2>1
<1>5. PICK n \in s : \A k \in s : left[n] =< left[k]
  <2>1. {left[k] : k \in s} \in SUBSET Nat /\ {left[k] : k \in s} # {}
    BY <1>4
  <2>2. \E x \in {left[k] : k \in s} : \A y \in {left[k] : k \in s} : x =< y
    BY <2>1, LeastNumber
  <2> QED  BY <2>2
<1>6. ASSUME h[n].next \in s
      PROVE  FALSE
  <2> DEFINE k == h[n].next
  <2>1. k # NULL /\ n \in Nodes /\ k \in Nodes
    BY <1>1, <1>6, TreeNodes DEF Nodes
  <2>2. rank[n] < rank[k] /\ rank[n] \in Nat /\ rank[k] \in Nat
    BY <1>2, <2>1 DEF InOrderBy
  <2>3. d - rank[n] =< d - rank[k]
    BY <1>5, <1>6
  <2> QED  BY <2>2, <2>3
<1> QED  BY <1>6

(* The first label with a text, and the labels that are passed over before it.                                        *)
LEMMA FindIs ==
  ASSUME NEW h, Linked(h), NEW text
  PROVE  \A n \in Allocated(h) \cup {NULL} : FindIn(h, text)[n] = FindBody(h, text, FindIn(h, text), n)
<1> DEFINE places == Allocated(h) \cup {NULL}
           needs == [n \in places |-> IF n = NULL THEN {} ELSE {h[n].next}]
           F == [x \in places \X [places -> places] |-> FindBody(h, text, x[2], x[1])]
<1>1. h \in Heaps /\ Inside(h) /\ NULL \notin Allocated(h)
  BY AllocatedCells, TreeNodes DEF Linked, Nodes
<1>2. IsFiniteSet(places)
  <2>1. IsFiniteSet(1..MaxNodes)
    BY TreeNodes, FS_Interval
  <2>2. Allocated(h) \in SUBSET (1..MaxNodes)
    BY <1>1, AllocatedCells DEF Nodes
  <2> QED  BY <2>1, <2>2, FS_Subset, FS_AddElement
<1>3. needs \in [places -> SUBSET places]
  BY <1>1 DEF Inside
<1>4. \A n \in places : \A f \in [places -> places] : FindBody(h, text, f, n) \in places
  BY <1>1 DEF FindBody, Inside
<1>5. F \in [places \X [places -> places] -> places]
  BY <1>4
<1>6. \A n \in places : \A f \in [places -> places] : F[<<n, f>>] = FindBody(h, text, f, n)
  OBVIOUS
<1>7. ASSUME NEW n \in places, NEW f, NEW g, \A k \in needs[n] : f[k] = g[k]
      PROVE  FindBody(h, text, f, n) = FindBody(h, text, g, n)
  <2>1. n # NULL => f[h[n].next] = g[h[n].next]
    BY <1>7
  <2> QED  BY <2>1, Zenon DEF FindBody
<1>8. ASSUME NEW s \in SUBSET places, s # {}
      PROVE  \E n \in s : needs[n] \cap s = {}
  <2>1. CASE NULL \in s
    BY <2>1
  <2>2. CASE NULL \notin s
    <3>1. PICK n \in s : h[n].next \notin s
      BY <1>8, <2>2, LastOfAll
    <3>2. needs[n] = {h[n].next}
      BY <2>2
    <3> HIDE DEF needs
    <3> QED  BY <3>1, <3>2
  <2> QED  BY <2>1, <2>2
<1> HIDE DEF needs, F, places
<1>9. \A n \in places : \A f, g \in [places -> places] : (\A k \in needs[n] : f[k] = g[k]) => F[<<n, f>>] = F[<<n, g>>]
  <2> SUFFICES ASSUME NEW n \in places, NEW f \in [places -> places], NEW g \in [places -> places],
                      \A k \in needs[n] : f[k] = g[k]
               PROVE  F[<<n, f>>] = F[<<n, g>>]
    BY Zenon
  <2>1. FindBody(h, text, f, n) = FindBody(h, text, g, n)
    BY <1>7
  <2> QED  BY <1>6, <2>1, Zenon
<1>10. \E f \in [places -> places] : \A n \in places : f[n] = F[<<n, f>>]
  <2>1. places # {}
    BY DEF places
  <2>2. \A s \in SUBSET places : s # {} => \E n \in s : needs[n] \cap s = {}
    BY <1>8
  <2>3. Recursive(places, places, F, needs)
    BY <1>2, <1>3, <1>5, <1>9, <2>1, <2>2, Zenon DEF Recursive
  <2> QED  BY <2>3, Recursion
<1>11. PICK f \in [places -> places] : \A n \in places : f[n] = FindBody(h, text, f, n)
  BY <1>6, <1>10
<1>12. f = [n \in places |-> FindBody(h, text, f, n)]
  BY <1>11
<1>13. FindIn(h, text) = [n \in places |-> FindBody(h, text, FindIn(h, text), n)]
  BY <1>12 DEF FindIn, places
<1> DEFINE L == FindIn(h, text)
<1> HIDE DEF L
<1>14. \A n \in places : L[n] = FindBody(h, text, L, n)
  BY <1>13 DEF L
<1> QED  BY <1>14 DEF L, places

(* What is found in an object is one of its labels.                                                                   *)
LEMMA FoundIsMember ==
  ASSUME NEW h, Linked(h), NEW object \in Allocated(h), NEW text
  PROVE  \/ json_find_first_label(h, object, text) = NULL
         \/ /\ json_find_first_label(h, object, text) \in Allocated(h)
            /\ h[json_find_first_label(h, object, text)].parent = object
<1> DEFINE L == FindIn(h, text)
           kin == {n \in Allocated(h) : h[n].parent = object} \cup {NULL}
           bad == {n \in kin \ {NULL} : L[n] \notin kin}
<1>1. FindFrom(h, text) = L
  BY Zenon DEF FindFrom, FindIn, FindBody
<1>2. \A n \in Allocated(h) \cup {NULL} : L[n] = FindBody(h, text, L, n)
  BY FindIs
<1> HIDE DEF L
<1>3. L[NULL] = NULL
  BY <1>2 DEF FindBody
<1>4. Inside(h) /\ Chained(h) /\ Ended(h) /\ NULL \notin Allocated(h)
  BY AllocatedCells, TreeNodes DEF Linked, Nodes
<1>5. bad = {}
  <2> SUFFICES ASSUME bad # {}
               PROVE  FALSE
    OBVIOUS
  <2>1. bad \in SUBSET Allocated(h)
    OBVIOUS
  <2>2. PICK n \in bad : h[n].next \notin bad
    <3> HIDE DEF bad
    <3> QED  BY <2>1, LastOfAll
  <2>3. n \in Allocated(h) /\ h[n].parent = object /\ n # NULL /\ L[n] \notin kin
    BY <1>4
  <2>4. h[n].next \in kin
    BY <1>4, <2>3 DEF Inside, Chained
  <2>5. L[h[n].next] \in kin
    BY <1>3, <2>2, <2>4
  <2>6. L[n] = n \/ L[n] = L[h[n].next]
    BY <1>2, <2>3 DEF FindBody
  <2> QED  BY <2>3, <2>5, <2>6
<1>6. h[object].child \in kin
  BY <1>4 DEF Inside, Ended
<1>7. L[h[object].child] \in kin
  BY <1>3, <1>5, <1>6
<1>8. json_find_first_label(h, object, text) = L[h[object].child]
  BY <1>1 DEF json_find_first_label
<1> QED  BY <1>7, <1>8

(* What the caller prints is in the document.                                                                         *)
LEMMA FoundIsInside ==
  ASSUME Formed(heap), given \in Allocated(heap), heap[given].parent = NULL, Complete(heap, NULL)
  PROVE  FoundValues \subseteq Allocated(heap)
<1>1. Linked(heap) /\ Inside(heap) /\ Shaped(heap) /\ NULL \notin Allocated(heap) /\ heap[given].type = "OBJECT"
  BY AllocatedCells, TreeNodes DEF Formed, Linked, Nodes, Complete
<1> SUFFICES ASSUME NEW text \in Texts, json_find_first_label(heap, given, text) # NULL
             PROVE  heap[json_find_first_label(heap, given, text)].child \in Allocated(heap)
  BY Zenon DEF FoundValues
<1> DEFINE n == json_find_first_label(heap, given, text)
<1>2. n \in Allocated(heap) /\ heap[n].parent = given
  BY <1>1, FoundIsMember
<1> HIDE DEF n
<1>3. heap[n].type = "STRING" /\ IsMember(heap, n) /\ n # NULL
  BY <1>1, <1>2 DEF Shaped, IsMember
<1>4. heap[n].child # NULL
  BY <1>2, <1>3 DEF Complete
<1> QED  BY <1>1, <1>2, <1>4 DEF Inside, n

-----------------------------------------------------------------------------
(* Reading, then printing *)

TextInv ==
  /\ ParserInv /\ Worded(heap) /\ PrintInv
  /\ verdict = "reading" => ReadingText
  /\ given # NULL => Complete(heap, NULL) /\ read = DocumentIn(heap, given)

LEMMA PrintIdles ==
  ASSUME PrintInv, call = "none", call' \notin Printers, UNCHANGED output
  PROVE  PrintInv'
BY DEF PrintInv, Printers

LEMMA TurnReads ==
  ASSUME TextInv, verdict = "reading",
         \/ Document0 \/ OpenObject \/ OpenArray \/ Label \/ EndObject \/ ObjectComma \/ Colon
         \/ LabelValue \/ Element \/ BeginContainer \/ EndArray \/ ArrayComma
  PROVE  /\ ReadingText' /\ PrintInv' /\ UNCHANGED <<verdict, given>>
<1>1. AtCursor /\ ReadingText /\ PrintInv /\ call = "none"
  BY ReadingIsAtCursor DEF TextInv, Reading, AtCursor
<1>2. UNCHANGED <<verdict, given, call, output>>
  BY DEF Document0, OpenObject, OpenArray, OpenContainer, Label, EndObject, ObjectComma, Colon, LabelValue, Element,
         BeginContainer, EndArray, ArrayComma, Kept, NoTree, Insert, tree
<1>3. PrintInv'
  BY <1>1, <1>2, PrintIdles DEF Printers
<1>4. CASE OpenObject
  <2>1. ASSUME info.cursor = NULL
        PROVE  ReadingText'
    BY <1>1, <1>4, <2>1, FirstObjectReads
  <2>2. ASSUME info.cursor # NULL
        PROVE  ReadingText'
    <3>1. OpenContainer(1, "OBJECT", 2)
      BY <1>4 DEF OpenObject
    <3> QED  BY <1>1, <2>2, <3>1, ContainerReads
  <2> QED  BY <1>2, <1>3, <2>1, <2>2
<1>5. CASE OpenArray
  <2>1. info.cursor # NULL
    BY <1>1, <1>5 DEF OpenArray, OpenContainer, AtCursor, AtState
  <2>2. OpenContainer(7, "ARRAY", 8)
    BY <1>5 DEF OpenArray
  <2>3. ReadingText'
    BY <1>1, <2>1, <2>2, ContainerReads
  <2> QED  BY <1>2, <1>3, <2>3
<1>6. CASE \/ Document0 \/ Label \/ EndObject \/ ObjectComma \/ Colon
           \/ LabelValue \/ Element \/ BeginContainer \/ EndArray \/ ArrayComma
  <2>1. ReadingText'
    BY <1>1, <1>6, Document0Reads, LabelReads, EndIsRead, CommaIsRead, ColonReads, LabelValueReads, ElementReads, BeginReads
  <2> QED  BY <1>2, <1>3, <2>1
<1> QED  BY <1>4, <1>5, <1>6

LEMMA RefusalReads ==
  ASSUME TextInv, verdict = "reading", Unexpected \/ BlankFirstLine \/ NoMemory
  PROVE  UNCHANGED <<heap, given>> /\ verdict' = "refused" /\ PrintInv'
<1>1. PICK code : Fail(code)
  BY DEF Unexpected, BlankFirstLine, NoMemory
<1>2. call = "none" /\ PrintInv /\ mode \in {"stream", "document"}
  BY DEF TextInv, ParserInv, ReadingInv
<1>3. UNCHANGED <<heap, given>> /\ verdict' = "refused"
  BY <1>1, <1>2 DEF Fail, json_free_value
<1>4. CASE mode = "document"
  <2>1. Return(code)
    BY <1>1, <1>4 DEF Fail
  <2> QED  BY <1>3, <2>1, PrintReturns
<1>5. CASE mode = "stream"
  <2>1. call' \in {"aborted", "free"} /\ UNCHANGED output
    BY <1>1, <1>5 DEF Fail, json_free_value
  <2> QED  BY <1>2, <1>3, <2>1, PrintIdles DEF Printers
<1> QED  BY <1>2, <1>4, <1>5

LEMMA EndOfFileReads ==
  ASSUME TextInv, verdict = "reading", EndOfFile
  PROVE  /\ UNCHANGED heap /\ verdict' \in {"accepted", "refused"} /\ PrintInv'
         /\ given' # NULL => Complete(heap, NULL) /\ read' = DocumentIn(heap, given')
<1>1. UNCHANGED <<heap, read>> /\ verdict' \in {"accepted", "refused"} /\ given = NULL /\ ReadingText
  BY DEF EndOfFile, TextInv, ParserInv, ReadingInv
<1>2. PrintInv'
  <2>1. \E code : Return(code)
    BY DEF EndOfFile
  <2> QED  BY <2>1, PrintReturns
<1>3. CASE info.state = 99
  <2>1. given' = info.cursor
    BY <1>3 DEF EndOfFile
  <2>2. Lacking(info.state, info.cursor) = NULL
    BY <1>3 DEF Lacking
  <2>3. read = DocumentIn(heap, info.cursor)
    BY <1>1, <1>3, Zenon DEF ReadingText, ReadAt
  <2>4. Complete(heap, NULL)
    BY <1>1, <2>2 DEF ReadingText
  <2> QED  BY <1>1, <1>2, <2>1, <2>3, <2>4
<1>4. CASE info.state # 99
  <2>1. given' = NULL
    BY <1>1, <1>4 DEF EndOfFile
  <2> QED  BY <1>1, <1>2, <2>1
<1> QED  BY <1>3, <1>4

LEMMA TextTrees == TextInv => Trees(heap) /\ Formed(heap)
BY DEF TextInv, ParserInv, TreeInv, Trees, Formed

LEMMA ParseKeepsText ==
  ASSUME TextInv, Parse
  PROVE  TextInv'
<1>1. ParserInv' /\ verdict = "reading" /\ given = NULL
  BY ParseKeeps DEF TextInv, Parse, ParserInv, ReadingInv
<1>2. CASE \/ Document0 \/ OpenObject \/ OpenArray \/ Label \/ EndObject \/ ObjectComma \/ Colon
           \/ LabelValue \/ Element \/ BeginContainer \/ EndArray \/ ArrayComma
  <2>1. ReadingText' /\ PrintInv' /\ UNCHANGED <<verdict, given>>
    BY <1>1, <1>2, TurnReads
  <2> QED  BY <1>1, <2>1, Zenon DEF TextInv, ReadingText
<1>3. CASE Unexpected \/ BlankFirstLine \/ NoMemory
  <2>1. UNCHANGED <<heap, given>> /\ verdict' = "refused" /\ PrintInv'
    BY <1>1, <1>3, RefusalReads
  <2>2. Worded(heap)'
    BY <2>1 DEF TextInv
  <2> QED  BY <1>1, <2>1, <2>2 DEF TextInv
<1>4. CASE EndOfFile
  <2>1. /\ UNCHANGED heap /\ verdict' \in {"accepted", "refused"} /\ PrintInv'
        /\ given' # NULL => Complete(heap, NULL) /\ read' = DocumentIn(heap, given')
    BY <1>1, <1>4, EndOfFileReads
  <2>2. Worded(heap)'
    BY <2>1 DEF TextInv
  <2>3. given' # NULL => Complete(heap', NULL) /\ read' = DocumentIn(heap', given')
    BY <2>1
  <2>4. verdict' # "reading"
    BY <2>1
  <2> QED  BY <1>1, <2>1, <2>2, <2>3, <2>4, Zenon DEF TextInv
<1> QED  BY <1>2, <1>3, <1>4 DEF Parse, Turn

LEMMA UseKeepsText ==
  ASSUME TextInv, Use
  PROVE  TextInv'
<1>1. /\ ParserInv' /\ UNCHANGED <<heap, read, verdict>> /\ verdict = "accepted" /\ given # NULL /\ call = "none"
      /\ OnlyRoot(heap, given) /\ NULL \notin Allocated(heap)
  BY UseKeeps, TextTrees, TreesAre
     DEF TextInv, ParserInv, AcceptedInv, Use, json_tree_to_string, json_stream_output, Prints, json_free_value
<1>2. Worded(heap)'
  BY <1>1 DEF TextInv
<1>3. CASE json_free_value(given) /\ given' = NULL
  <2>1. PrintInv'
    BY <1>1, <1>3, PrintIdles DEF TextInv, json_free_value, Printers
  <2> QED  BY <1>1, <1>2, <1>3, <2>1, Zenon DEF TextInv
<1>4. CASE (\E v \in {given} \cup FoundValues : json_tree_to_string(v) \/ json_stream_output(v)) /\ UNCHANGED given
  <2>1. PICK v \in {given} \cup FoundValues : json_tree_to_string(v) \/ json_stream_output(v)
    BY <1>4
  <2>2. FoundValues \subseteq Allocated(heap)
    BY <1>1, TextTrees, FoundIsInside DEF TextInv, OnlyRoot
  <2>3. v \in Allocated(heap)
    BY <1>1, <2>2 DEF OnlyRoot
  <2>4. \E f \in Printers : Prints(f, v)
    BY <2>1 DEF json_tree_to_string, json_stream_output, Printers
  <2>5. PrintInv'
    BY <2>3, <2>4, TextTrees, PrintStarts
  <2>6. Complete(heap', NULL) /\ read' = DocumentIn(heap', given') /\ verdict' # "reading"
    BY <1>1, <1>4 DEF TextInv
  <2> QED  BY <1>1, <1>2, <2>5, <2>6, Zenon DEF TextInv
<1> QED  BY <1>3, <1>4 DEF Use

LEMMA WalksKeepText ==
  ASSUME TextInv, Walks
  PROVE  TextInv'
<1>1. ParserInv' /\ UNCHANGED <<verdict, read, given>> /\ Walk /\ Trees(heap)
  BY WalksKeep, TextTrees DEF TextInv, Walks
<1>2. verdict # "reading"
  BY <1>1 DEF TextInv, ParserInv, ReadingInv, Walk, FreeDescends, FreeOne, OpenInString, CloseInString, OpenInStream,
         CloseInStream, OpenValue, CloseValue, StringRunsOut, StreamRunsOut
<1>3. Worded(heap') /\ PrintInv'
  BY <1>1, WalkKeepsWorded, WalkKeepsPrint DEF TextInv, ParserInv
<1>4. given # NULL => UNCHANGED heap
  BY <1>1 DEF TextInv, ParserInv, AcceptedInv, Walk, FreeDescends, FreeOne, OpenInString, CloseInString, OpenInStream,
         CloseInStream, OpenValue, CloseValue, StringRunsOut, StreamRunsOut
<1>5. given' # NULL => Complete(heap', NULL) /\ read' = DocumentIn(heap', given')
  BY <1>1, <1>4 DEF TextInv
<1> QED  BY <1>1, <1>2, <1>3, <1>5, Zenon DEF TextInv

LEMMA TextInductive ==
  /\ ParserInit => TextInv
  /\ TextInv /\ [ParserNext]_parser => TextInv'
<1>1. ParserInit => TextInv
  <2> SUFFICES ASSUME ParserInit
               PROVE  TextInv
    OBVIOUS
  <2>1. ParserInv /\ Allocated(heap) = {} /\ call = "none" /\ output = NULL
    BY ParserInductive, InitTree DEF ParserInit, TreeInit
  <2>2. info.state = 0 /\ info.cursor = NULL /\ read = <<>> /\ given = NULL
    BY DEF ParserInit
  <2>3. ReadAt(heap, 0, NULL, <<>>)
    <3>1. 0 # 1 /\ 0 # 99 /\ 0 \notin 1..9
      OBVIOUS
    <3> QED  BY <3>1, Zenon DEF ReadAt
  <2>4. ReadingText
    BY <2>1, <2>2, <2>3 DEF ReadingText, Worded, Complete
  <2> QED  BY <2>1, <2>2, <2>4 DEF TextInv, ReadingText, PrintInv, Printers
<1>2. TextInv /\ UNCHANGED parser => TextInv'
  <2> SUFFICES ASSUME TextInv, UNCHANGED parser
               PROVE  TextInv'
    OBVIOUS
  <2>1. UNCHANGED <<heap, call, root, cursor, step, output, result>> /\ UNCHANGED <<info, verdict, read, given>>
    BY DEF parser, tree
  <2>2. ParserInv' /\ PrintInv'
    BY <2>1, ParserInductive, PrintStutters DEF TextInv
  <2>3. Worded(heap)' /\ (ReadingText' <=> ReadingText)
    BY <2>1, Zenon DEF TextInv, ReadingText
  <2> QED  BY <2>1, <2>2, <2>3, Zenon DEF TextInv
<1> QED  BY <1>1, <1>2, ParseKeepsText, UseKeepsText, WalksKeepText DEF ParserNext

(* The text that is printed of a document that was read, or of a value found in it, and its terminator are inside     *)
(* what was allocated (OutputFits).                                                                                   *)
THEOREM ParserOutputFits == ParserSpec => []OutputFits
<1>1. TextInv => OutputFits
  BY PrintFits DEF TextInv
<1> QED  BY <1>1, TextInductive, PTL DEF ParserSpec

(* With a tree of the parser, too, a walk goes over the tree it was given, all of it and nothing else: what is        *)
(* printed is the document it stands for, and only what is below the argument is freed (WalksTheTree).                *)
THEOREM ParserWalksTheTree == ParserSpec => WalksTheTree
<1>1. TextInv /\ [ParserNext]_parser
        => [\A f \in {"tree_to_string", "stream_output"} :
              CloseValue(f) /\ result' = "OK" /\ WellFormed(root) =>
                Handed(f) = Document(root) \o (IF f = "stream_output" THEN <<"\n">> ELSE <<>>)]_tree
  <2> SUFFICES ASSUME TextInv, NEW f \in Printers, CloseValue(f), result' = "OK", WellFormed(root)
               PROVE  Handed(f) = Document(root) \o (IF f = "stream_output" THEN <<"\n">> ELSE <<>>)
    BY Zenon DEF Printers
  <2> QED  BY TextTrees, PrintHands, Zenon DEF TextInv
<1>2. ParserSpec => PrintsTheDocument
  BY <1>1, TextInductive, PTL DEF ParserSpec, PrintsTheDocument
<1> QED  BY <1>2, ParserFreesItsTree, PTL DEF WalksTheTree

(* A tree that the parser has completed stands for a document.                                                        *)
LEMMA CompleteIsWellFormed ==
  ASSUME Trees(heap), Complete(heap, NULL), NEW top
  PROVE  WellFormed(top)
<1> SUFFICES ASSUME NEW n \in Allocated(heap), heap[n].type = "STRING"
             PROVE  IF IsLabel(n) THEN heap[n].child # NULL /\ heap[heap[n].child].next = NULL ELSE heap[n].child = NULL
  BY Zenon DEF WellFormed
<1>1. NULL \notin Allocated(heap) /\ Ended(heap)
  BY TreesAre
<1>2. IsLabel(n) <=> IsMember(heap, n)
  BY DEF IsLabel, IsMember, Complete
<1> QED  BY <1>1, <1>2 DEF Complete, Ended

(* A document that is read and printed is the document that was written, without its white space, whatever its tokens *)
(* and however deep it is: the tree holds all of what the parser read, in order, and the walk that prints it leaves   *)
(* nothing out (PrintsWhatItRead).                                                                                    *)
THEOREM ParserPrintsWhatItRead == ParserSpec => PrintsWhatItRead
<1>1. TextInv /\ [ParserNext]_parser
        => [\A f \in {"tree_to_string", "stream_output"} :
              CloseValue(f) /\ result' = "OK" /\ root = given =>
                Handed(f) = read \o (IF f = "stream_output" THEN <<"\n">> ELSE <<>>)]_parser
  <2> SUFFICES ASSUME TextInv, NEW f \in Printers, CloseValue(f), result' = "OK", root = given
               PROVE  Handed(f) = read \o (IF f = "stream_output" THEN <<"\n">> ELSE <<>>)
    BY Zenon DEF Printers
  <2>1. Trees(heap) /\ PrintInv
    BY TextTrees DEF TextInv
  <2>2. root \in Allocated(heap) /\ given # NULL
    BY <2>1, ClosedText, TreesAre DEF PathTo
  <2>3. Complete(heap, NULL) /\ read = DocumentIn(heap, root)
    BY <2>2 DEF TextInv
  <2>4. read = Document(root)
    BY <2>3, DocumentIs, Zenon DEF DocumentIn
  <2> QED  BY <2>1, <2>3, <2>4, CompleteIsWellFormed, PrintHands, Zenon
<1> QED  BY <1>1, TextInductive, PTL DEF ParserSpec, PrintsWhatItRead

=============================================================================
