--------------------------- MODULE ResponseChannel ---------------------------
(***************************************************************************)
(* What a caller of spis_respones_command may expect while it has the bus  *)
(* to itself: a response that the slave gave, whole, each once and in the  *)
(* order they were given, or the news that none came in time.              *)
(***************************************************************************)
EXTENDS Sequences

CONSTANTS
  Responses,  \* what the slave may say
  Silence     \* what the caller is told when nothing came

VARIABLES
  outbox,     \* the responses given and not yet read
  asked,      \* the caller waits for one
  got         \* what the last call returned

vars == <<outbox, asked, got>>

Init == outbox = <<>> /\ asked = FALSE /\ got = Silence

Give ==
  /\ outbox' # <<>>
  /\ LET r == outbox'[Len(outbox')]
     IN  r \in Responses /\ outbox' = Append(outbox, r)
  /\ UNCHANGED <<asked, got>>

Ask ==
  /\ ~ asked /\ asked'
  /\ UNCHANGED <<outbox, got>>

Read ==
  /\ asked /\ ~ asked'
  /\ outbox # <<>>
  /\ got' = Head(outbox) /\ outbox' = Tail(outbox)

GiveUp ==
  /\ asked /\ ~ asked'
  /\ outbox = <<>>
  /\ got' = Silence
  /\ UNCHANGED outbox

Next == Give \/ Ask \/ Read \/ GiveUp
Spec == Init /\ [][Next]_vars

=============================================================================
