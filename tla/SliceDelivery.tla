---------------------------- MODULE SliceDelivery ----------------------------
(***************************************************************************)
(* What the SPI link promises its callers when a response can neither be   *)
(* lost nor come late: slices are offered one at a time; the slave takes   *)
(* the slice on offer at most once; the master holds a slice for delivered *)
(* only if the slave took it, and for abandoned only if it did not; and it *)
(* offers no slice before it has settled the one before.                   *)
(***************************************************************************)
EXTENDS Naturals, Sequences

VARIABLES
  offered,     \* the number of slices offered so far
  taken,       \* the slices the slave took, in order
  confirmed,   \* the slices the master holds for delivered
  abandoned    \* the slices the master gave up

vars == <<offered, taken, confirmed, abandoned>>

IsTaken == \E i \in 1..Len(taken) : taken[i] = offered

Settled == offered = 0 \/ offered \in confirmed \cup abandoned

Init == offered = 0 /\ taken = <<>> /\ confirmed = {} /\ abandoned = {}

Offer ==
  /\ Settled
  /\ offered' = offered + 1
  /\ UNCHANGED <<taken, confirmed, abandoned>>

Take ==
  /\ ~ Settled /\ ~ IsTaken
  /\ taken' = Append(taken, offered)
  /\ UNCHANGED <<offered, confirmed, abandoned>>

Confirm ==
  /\ ~ Settled /\ IsTaken
  /\ confirmed' = confirmed \cup {offered}
  /\ UNCHANGED <<offered, taken, abandoned>>

Abandon ==
  /\ ~ Settled /\ ~ IsTaken
  /\ abandoned' = abandoned \cup {offered}
  /\ UNCHANGED <<offered, taken, confirmed>>

Next == Offer \/ Take \/ Confirm \/ Abandon

Spec == Init /\ [][Next]_vars

=============================================================================
