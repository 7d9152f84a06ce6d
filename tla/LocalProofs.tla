----------------------------- MODULE LocalProofs -----------------------------
(***************************************************************************)
(* Theorems about LocalPlay and the SpisReader it waits with, for files of *)
(* any size, any number of tries and any faults, and about the checksum    *)
(* of its frames, for frames of any length.                                *)
(***************************************************************************)
EXTENDS LocalPlay, Crc, SequenceTheorems, WellFoundedInduction, TLAPS

Items  == Nat \cup {STOP}
Sent   == [cmd : {SSAP_CMD_START, SSAP_CMD_DATA, SSAP_CMD_STOP}, item : Items]

\* a is the same part of the song as b, or an earlier one.
NotAfter(a, b) == b = STOP \/ (a # STOP /\ a =< b)

\* The part that was sent last, or will be sent next.
Newest == IF place = "closed" THEN STOP ELSE content

\* What the slave heard last, what is on its way and what comes next stand in
\* the order of the song.
OnTheWay ==
  /\ content \in Nat /\ blocks \in Nat /\ content =< 1 + blocks
  /\ place \in {"open", "start"} => content = START
  /\ frames \in Seq(Sent)
  /\ \A i \in 1..Len(frames) : NotAfter(frames[i].item, Newest)
  /\ \A i, j \in 1..Len(frames) : i < j => NotAfter(frames[i].item, frames[j].item)

Behind ==
  /\ heard \in Seq(Items)
  /\ heard # <<>> => NotAfter(heard[Len(heard)], Newest)
  /\ heard # <<>> => \A i \in 1..Len(frames) : NotAfter(heard[Len(heard)], frames[i].item)
  /\ LocalInOrder

LocalInv == OnTheWay /\ Behind

\* A response is waited for only where a frame was sent.
Waits == reader # "idle" => place \in {"start", "header", "block"}

LEMMA WaitsNext == Waits /\ [LocalNext]_playVars => Waits'
<1> SUFFICES ASSUME Waits, [LocalNext]_playVars PROVE Waits'
  OBVIOUS
<1>1. CASE Open \/ NextBlock \/ LocalStop
  BY <1>1 DEF Waits, Open, NextBlock, LocalStop, readerVars
<1>2. CASE Send \/ Answered
  BY <1>2 DEF Waits, Send, Answered
<1>3. CASE ReadByte
  BY <1>3 DEF Waits, ReadByte, SyncFound, ReadRest, Skip, TimeOut, localVars
<1>4. CASE LocalSlave \/ UNCHANGED playVars
  BY <1>4 DEF Waits, LocalSlave, SlaveDoes, playVars, readerVars, localVars
<1> QED
  BY <1>1, <1>2, <1>3, <1>4 DEF LocalNext, LocalPlayer

LEMMA Transitive ==
  ASSUME NEW a \in Items, NEW b \in Items, NEW c \in Items, NotAfter(a, b), NotAfter(b, c)
  PROVE  NotAfter(a, c)
BY DEF NotAfter, Items, STOP

\* The player comes to a later part, and sends what it has come to or nothing.
LEMMA PlayerGoesOn ==
  ASSUME LocalInv, Newest' \in Items, NotAfter(Newest, Newest'),
         \/ frames' = frames
         \/ \E f \in Sent : frames' = Append(frames, f) /\ f.item = Newest',
         heard' = heard,
         content' \in Nat, blocks' \in Nat, content' =< 1 + blocks',
         place' \in {"open", "start"} => content' = START
  PROVE  LocalInv'
<1>1. frames \in Seq(Sent) /\ heard \in Seq(Items) /\ Len(frames) \in Nat /\ Len(heard) \in Nat
  BY DEF LocalInv, OnTheWay, Behind
<1>2. Newest \in Items
  BY DEF LocalInv, OnTheWay, Newest, Items
<1>3. \A i \in 1..Len(frames) : frames[i].item \in Items
  <2>1. \A i \in 1..Len(frames) : frames[i] \in Sent
    BY <1>1
  <2> QED
    BY <2>1 DEF Sent
<1>4. heard # <<>> => heard[Len(heard)] \in Items
  <2>1. heard # <<>> => Len(heard) \in 1..Len(heard)
    BY <1>1
  <2> QED
    BY <1>1, <2>1
<1>5. \A i \in 1..Len(frames) : NotAfter(frames[i].item, Newest')
  BY <1>2, <1>3, Transitive DEF LocalInv, OnTheWay
<1>6. heard # <<>> => NotAfter(heard[Len(heard)], Newest')
  BY <1>2, <1>4, Transitive DEF LocalInv, Behind
<1>7. LocalInOrder'
  BY DEF LocalInv, Behind, LocalInOrder
<1>8. CASE frames' = frames
  BY <1>1, <1>5, <1>6, <1>7, <1>8 DEF LocalInv, OnTheWay, Behind
<1>9. CASE \E f \in Sent : frames' = Append(frames, f) /\ f.item = Newest'
  <2>1. PICK f \in Sent : frames' = Append(frames, f) /\ f.item = Newest'
    BY <1>9
  <2>2. /\ frames' \in Seq(Sent) /\ Len(frames') = Len(frames) + 1
        /\ \A i \in 1..Len(frames) : frames'[i] = frames[i]
        /\ frames'[Len(frames) + 1] = f
    BY <1>1, <2>1, AppendProperties
  <2>3. \A i \in 1..Len(frames') : i \in 1..Len(frames) \/ i = Len(frames) + 1
    BY <1>1, <2>2
  <2>4. NotAfter(Newest', Newest')
    BY DEF NotAfter, Items, STOP
  <2>5. \A i \in 1..Len(frames') : NotAfter(frames'[i].item, Newest')
    BY <2>1, <2>2, <2>3, <2>4, <1>5
  <2>6. \A i, j \in 1..Len(frames') : i < j => NotAfter(frames'[i].item, frames'[j].item)
    <3> SUFFICES ASSUME NEW i \in 1..Len(frames'), NEW j \in 1..Len(frames'), i < j
                 PROVE  NotAfter(frames'[i].item, frames'[j].item)
      OBVIOUS
    <3>1. i \in 1..Len(frames) /\ frames'[i] = frames[i]
      BY <1>1, <2>2
    <3>2. CASE j \in 1..Len(frames)
      BY <3>1, <3>2, <2>2 DEF LocalInv, OnTheWay
    <3>3. CASE j = Len(frames) + 1
      BY <3>1, <3>3, <2>1, <2>2, <1>5
    <3> QED
      BY <2>3, <3>2, <3>3
  <2>7. heard # <<>> => \A i \in 1..Len(frames') : NotAfter(heard[Len(heard)], frames'[i].item)
    BY <2>1, <2>2, <2>3, <1>6 DEF LocalInv, Behind
  <2> QED
    BY <1>1, <1>6, <1>7, <2>2, <2>5, <2>6, <2>7 DEF LocalInv, OnTheWay, Behind
<1> QED
  BY <1>8, <1>9

\* The slave takes the oldest frame or throws it away.
LEMMA SlaveGoesOn ==
  ASSUME LocalInv, LocalSlave
  PROVE  LocalInv'
<1>1. PICK a \in LocalAnswers, reply \in BOOLEAN : SlaveDoes(a, reply)
  BY DEF LocalSlave
<1> DEFINE f == frames[1]
<1>2. /\ frames \in Seq(Sent) /\ heard \in Seq(Items) /\ Len(frames) \in Nat /\ Len(heard) \in Nat
      /\ frames # <<>> /\ frames' = Tail(frames)
      /\ UNCHANGED <<place, content, blocks>>
  BY <1>1 DEF SlaveDoes, LocalInv, OnTheWay, Behind
<1>3. 1 \in 1..Len(frames) /\ f \in Sent /\ f.item \in Items /\ Head(frames) = f
  <2>1. 1 \in 1..Len(frames)
    BY <1>2
  <2>2. f \in Sent
    BY <1>2, <2>1
  <2> QED
    BY <1>2, <2>1, <2>2 DEF Sent
<1>4. /\ frames' \in Seq(Sent) /\ Len(frames') = Len(frames) - 1
      /\ \A i \in 1..Len(frames') : frames'[i] = frames[i + 1] /\ i + 1 \in 1..Len(frames) /\ 1 < i + 1
  BY <1>2, HeadTailProperties
<1>5. Newest' = Newest
  BY <1>2 DEF Newest
<1>6. OnTheWay'
  <2>1. \A i \in 1..Len(frames') : NotAfter(frames'[i].item, Newest')
    BY <1>4, <1>5 DEF LocalInv, OnTheWay
  <2>2. \A i, j \in 1..Len(frames') : i < j => NotAfter(frames'[i].item, frames'[j].item)
    <3> SUFFICES ASSUME NEW i \in 1..Len(frames'), NEW j \in 1..Len(frames'), i < j
                 PROVE  NotAfter(frames'[i].item, frames'[j].item)
      OBVIOUS
    <3>1. i + 1 \in 1..Len(frames) /\ j + 1 \in 1..Len(frames) /\ i + 1 < j + 1
      BY <1>4
    <3> QED
      BY <3>1, <1>4 DEF LocalInv, OnTheWay
  <2> QED
    BY <2>1, <2>2, <1>2, <1>4 DEF LocalInv, OnTheWay
<1>7. CASE heard' = heard
  <2>1. heard # <<>> => \A i \in 1..Len(frames') : NotAfter(heard[Len(heard)], frames'[i].item)
    BY <1>4 DEF LocalInv, Behind
  <2> QED
    BY <2>1, <1>5, <1>6, <1>7 DEF LocalInv, Behind, LocalInOrder
<1>8. CASE heard' = Append(heard, f.item) /\ (heard = <<>> \/ heard[Len(heard)] # f.item)
  <2>1. /\ heard' \in Seq(Items) /\ Len(heard') = Len(heard) + 1 /\ heard' # <<>>
        /\ \A i \in 1..Len(heard) : heard'[i] = heard[i]
        /\ heard'[Len(heard')] = f.item
    BY <1>2, <1>3, <1>8, AppendProperties
  <2>2. NotAfter(f.item, Newest')
    BY <1>3, <1>5 DEF LocalInv, OnTheWay
  <2>3. \A i \in 1..Len(frames') : NotAfter(f.item, frames'[i].item)
    BY <1>3, <1>4 DEF LocalInv, OnTheWay
  <2>4. LocalInOrder'
    <3> SUFFICES ASSUME NEW i \in 2..Len(heard')
                 PROVE  Later(heard'[i - 1], heard'[i])
      BY DEF LocalInOrder
    <3>1. CASE i = Len(heard')
      <4>1. heard # <<>> /\ i - 1 = Len(heard) /\ Len(heard) \in 1..Len(heard)
        BY <3>1, <2>1, <1>2
      <4>2. heard'[i - 1] = heard[Len(heard)] /\ heard[Len(heard)] \in Items
        BY <4>1, <2>1, <1>2
      <4>3. NotAfter(heard[Len(heard)], f.item) /\ heard[Len(heard)] # f.item
        BY <4>1, <1>3, <1>8 DEF LocalInv, Behind
      <4> QED
        BY <3>1, <4>2, <4>3, <1>3, <2>1 DEF NotAfter, Later, Items, STOP
    <3>2. CASE i # Len(heard')
      <4>1. i \in 2..Len(heard) /\ i \in 1..Len(heard) /\ i - 1 \in 1..Len(heard)
        BY <3>2, <2>1, <1>2
      <4> QED
        BY <4>1, <2>1 DEF LocalInv, Behind, LocalInOrder
    <3> QED
      BY <3>1, <3>2
  <2> QED
    BY <2>1, <2>2, <2>3, <2>4, <1>6 DEF LocalInv, Behind
<1>9. QED
  BY <1>1, <1>3, <1>7, <1>8 DEF SlaveDoes

LEMMA LocalInvNext == LocalInv /\ Waits /\ [LocalNext]_playVars => LocalInv'
<1> SUFFICES ASSUME LocalInv, Waits, [LocalNext]_playVars PROVE LocalInv'
  OBVIOUS
<1>1. /\ content \in Nat /\ blocks \in Nat /\ content =< 1 + blocks
      /\ place \in {"open", "start"} => content = START
  BY DEF LocalInv, OnTheWay
<1>2. CASE Open
  <2>1. UNCHANGED <<frames, heard, content, blocks>> /\ Newest' = Newest /\ content = START
    BY <1>2, <1>1 DEF Open, Newest
  <2>2. Newest' \in Items /\ NotAfter(Newest, Newest')
    BY <2>1, <1>1 DEF Newest, NotAfter, Items, STOP
  <2> QED
    BY <1>1, <2>1, <2>2, PlayerGoesOn
<1>3. CASE Send
  <2> DEFINE f == Frame(IF place = "start" THEN SSAP_CMD_START ELSE SSAP_CMD_DATA)
  <2>1. /\ UNCHANGED <<heard, content, blocks, place>> /\ Newest' = Newest /\ Newest = content
        /\ Written(f)
    BY <1>3 DEF Send, Newest
  <2>2. f \in Sent /\ f.item = content
    BY <1>1 DEF Frame, Sent, Items, SSAP_CMD_START, SSAP_CMD_DATA, SSAP_CMD_STOP
  <2>3. Newest' \in Items /\ NotAfter(Newest, Newest')
    BY <2>1, <1>1 DEF NotAfter, Items, STOP
  <2>4. frames' = frames \/ \E g \in Sent : frames' = Append(frames, g) /\ g.item = Newest'
    BY <2>1, <2>2 DEF Written
  <2> QED
    BY <1>1, <2>1, <2>3, <2>4, PlayerGoesOn
<1>4. CASE Answered
  <2>1. UNCHANGED <<frames, heard, blocks>> /\ content' \in {content, HEADER}
    BY <1>4 DEF Answered
  <2>2. CASE content' = content /\ place' = place
    <3>1. Newest' = Newest /\ Newest \in Items /\ NotAfter(Newest, Newest)
      BY <2>2, <1>1 DEF Newest, NotAfter, Items, STOP
    <3> QED
      BY <1>1, <2>1, <2>2, <3>1, PlayerGoesOn
  <2>3. CASE content' = content /\ place' = "data"
    <3>1. place # "closed"
      BY <1>4 DEF Answered, Waits
    <3>2. Newest' = content /\ Newest = content
      BY <2>3, <3>1 DEF Newest
    <3>3. Newest' \in Items /\ NotAfter(Newest, Newest')
      BY <1>1, <3>2 DEF NotAfter, Items
    <3> QED
      BY <1>1, <2>1, <2>3, <3>3, PlayerGoesOn
  <2>4. CASE content' = HEADER /\ place = "start" /\ place' = "header"
    <3>1. Newest' = 1 /\ Newest = 0
      BY <2>4, <1>1 DEF Newest, HEADER, START
    <3>2. Newest' \in Items /\ NotAfter(Newest, Newest')
      BY <3>1 DEF NotAfter, Items, STOP
    <3> QED
      BY <1>1, <2>1, <2>4, <3>2, PlayerGoesOn DEF HEADER
  <2> QED
    BY <1>4, <2>2, <2>3, <2>4 DEF Answered
<1>5. CASE NextBlock
  <2>1. /\ UNCHANGED <<frames, heard>> /\ place = "data" /\ place' = "block"
        /\ \/ blocks' = blocks + 1 /\ content' = 1 + blocks'
           \/ UNCHANGED <<blocks, content>>
    BY <1>5 DEF NextBlock, BLOCK
  <2>2. /\ content' \in Nat /\ blocks' \in Nat /\ content' =< 1 + blocks' /\ content =< content'
        /\ Newest' = content' /\ Newest = content
    BY <2>1, <1>1 DEF Newest
  <2>3. Newest' \in Items /\ NotAfter(Newest, Newest')
    BY <2>2, <1>1 DEF NotAfter, Items, STOP
  <2> QED
    BY <2>1, <2>2, <2>3, PlayerGoesOn
<1>6. CASE LocalStop
  <2>1. /\ UNCHANGED <<heard, content, blocks>> /\ place' = "closed" /\ Newest' = STOP
        /\ Written(Frame(SSAP_CMD_STOP))
    BY <1>6 DEF LocalStop, Newest
  <2>2. Frame(SSAP_CMD_STOP) \in Sent /\ Frame(SSAP_CMD_STOP).item = STOP
    BY DEF Frame, Sent, Items
  <2>3. Newest' \in Items /\ NotAfter(Newest, Newest')
    BY <2>1 DEF NotAfter, Items
  <2>4. frames' = frames \/ \E g \in Sent : frames' = Append(frames, g) /\ g.item = Newest'
    BY <2>1, <2>2 DEF Written
  <2> QED
    BY <1>1, <2>1, <2>3, <2>4, PlayerGoesOn
<1>7. CASE ReadByte \/ UNCHANGED playVars
  <2>1. UNCHANGED <<frames, heard, content, blocks, place>>
    BY <1>7 DEF ReadByte, playVars, localVars
  <2> QED
    BY <2>1 DEF LocalInv, OnTheWay, Behind, LocalInOrder, Newest
<1>8. CASE LocalSlave
  BY <1>8, SlaveGoesOn
<1> QED
  BY <1>2, <1>3, <1>4, <1>5, <1>6, <1>7, <1>8 DEF LocalNext, LocalPlayer

\* Whatever the bus loses and however late the slave answers, the repetitions of
\* local_play.c put no part of the song behind a later one.
THEOREM LocalInOrderCorrect == LocalSpec => []LocalInOrder
<1>1. LocalInit => LocalInv
  BY DEF LocalInit, LocalInv, OnTheWay, Behind, LocalInOrder, Newest, START, Items, Sent
<1>2. LocalInit => Waits
  BY DEF LocalInit, ReaderInit, Waits
<1>3. LocalInv => LocalInOrder
  BY DEF LocalInv, Behind
<1> QED
  BY <1>1, <1>2, <1>3, LocalInvNext, WaitsNext, PTL DEF LocalSpec

-----------------------------------------------------------------------------
(* The byte loop of spis_respones_command implements ResponseChannel, with the
   local player and its slave at its two ends, for any number of tries and any
   faults. *)

\* A line: n bytes left of an old response and q whole ones.
Line(w, n, q) ==
  /\ w \in Seq(Nat) /\ n \in 0..2 /\ q \in Nat
  /\ Len(w) = n + 3 * q
  /\ \A i \in 1..n : w[i] # SSAP_SYNC_BYTE
  /\ \A i \in 1..q : /\ w[n + 3 * i - 2] = SSAP_SYNC_BYTE
                     /\ w[n + 3 * i - 1] \in Byte
                     /\ w[n + 3 * i] \in Responses

\* The responses on it.
ResponsesOf(w, n, q) == [i \in 1..q |-> [command |-> w[n + 3 * i - 1], response |-> w[n + 3 * i]]]

LEMMA ResponsesFacts ==
  ASSUME NEW w, NEW n, NEW q, Line(w, n, q)
  PROVE  /\ ResponsesOf(w, n, q) \in Seq(Response)
         /\ Len(ResponsesOf(w, n, q)) = q
         /\ \A i \in 1..q :
              ResponsesOf(w, n, q)[i] = [command |-> w[n + 3 * i - 1], response |-> w[n + 3 * i]]
<1>1. q \in Nat
  BY DEF Line
<1>2. \A i \in 1..q : [command |-> w[n + 3 * i - 1], response |-> w[n + 3 * i]] \in Response
  BY DEF Line, Response
<1>3. ResponsesOf(w, n, q) \in [1..q -> Response]
  BY <1>2 DEF ResponsesOf
<1> QED
  BY <1>1, <1>3 DEF ResponsesOf

\* A byte of the noise is read.
LEMMA NoiseRead ==
  ASSUME NEW w, NEW n, NEW q, Line(w, n, q), n > 0
  PROVE  /\ w # <<>>
         /\ Line(Tail(w), n - 1, q)
         /\ ResponsesOf(Tail(w), n - 1, q) = ResponsesOf(w, n, q)
<1>1. w \in Seq(Nat) /\ n \in 1..2 /\ q \in Nat /\ Len(w) = n + 3 * q /\ w # <<>>
  BY DEF Line
<1>2. /\ Tail(w) \in Seq(Nat) /\ Len(Tail(w)) = (n - 1) + 3 * q
      /\ \A i \in 1..(n - 1) + 3 * q : Tail(w)[i] = w[i + 1]
  BY <1>1, HeadTailProperties
<1>3. \A i \in 1..n - 1 : Tail(w)[i] # SSAP_SYNC_BYTE
  BY <1>1, <1>2 DEF Line
<1>4. \A i \in 1..q : /\ Tail(w)[(n - 1) + 3 * i - 2] = w[n + 3 * i - 2]
                      /\ Tail(w)[(n - 1) + 3 * i - 1] = w[n + 3 * i - 1]
                      /\ Tail(w)[(n - 1) + 3 * i] = w[n + 3 * i]
  <2> SUFFICES ASSUME NEW i \in 1..q
               PROVE  /\ Tail(w)[(n - 1) + 3 * i - 2] = w[n + 3 * i - 2]
                      /\ Tail(w)[(n - 1) + 3 * i - 1] = w[n + 3 * i - 1]
                      /\ Tail(w)[(n - 1) + 3 * i] = w[n + 3 * i]
    OBVIOUS
  <2>1. /\ (n - 1) + 3 * i - 2 \in 1..(n - 1) + 3 * q /\ ((n - 1) + 3 * i - 2) + 1 = n + 3 * i - 2
        /\ (n - 1) + 3 * i - 1 \in 1..(n - 1) + 3 * q /\ ((n - 1) + 3 * i - 1) + 1 = n + 3 * i - 1
        /\ (n - 1) + 3 * i \in 1..(n - 1) + 3 * q /\ ((n - 1) + 3 * i) + 1 = n + 3 * i
    BY <1>1
  <2> QED
    BY <2>1, <1>2
<1>5. Line(Tail(w), n - 1, q)
  BY <1>1, <1>2, <1>3, <1>4 DEF Line
<1>6. ResponsesOf(Tail(w), n - 1, q) = ResponsesOf(w, n, q)
  BY <1>4 DEF ResponsesOf
<1> QED
  BY <1>1, <1>5, <1>6

\* Whether a line begins with noise shows in its first byte.
LEMMA FirstByte ==
  ASSUME NEW w, NEW n, NEW q, Line(w, n, q), w # <<>>
  PROVE  IF w[1] = SSAP_SYNC_BYTE THEN n = 0 /\ q > 0 ELSE n > 0
<1>1. n \in 0..2 /\ q \in Nat /\ (n > 0 \/ q > 0)
  BY DEF Line
<1>2. n > 0 => w[1] # SSAP_SYNC_BYTE
  BY <1>1 DEF Line
<1>3. n = 0 => w[1] = SSAP_SYNC_BYTE
  <2> SUFFICES ASSUME n = 0 PROVE w[1] = SSAP_SYNC_BYTE
    OBVIOUS
  <2>1. 1 \in 1..q /\ n + 3 * 1 - 2 = 1
    BY <1>1
  <2>2. w[n + 3 * 1 - 2] = SSAP_SYNC_BYTE
    BY <2>1 DEF Line
  <2> QED
    BY <2>1, <2>2
<1> QED
  BY <1>1, <1>2, <1>3

\* The slave gives a response.
LEMMA ResponseGiven ==
  ASSUME NEW w, NEW n, NEW q, Line(w, n, q), NEW r \in Response
  PROVE  /\ Line(w \o BytesOf(r), n, q + 1)
         /\ ResponsesOf(w \o BytesOf(r), n, q + 1) = Append(ResponsesOf(w, n, q), r)
<1> DEFINE b == BytesOf(r)
           v == w \o b
<1>1. w \in Seq(Nat) /\ n \in 0..2 /\ q \in Nat /\ Len(w) = n + 3 * q
  BY DEF Line
<1>2. /\ b \in Seq(Nat) /\ Len(b) = 3
      /\ b[1] = SSAP_SYNC_BYTE /\ b[2] = r.command /\ b[3] = r.response
  BY DEF BytesOf, Response, Byte, Responses, SSAP_SYNC_BYTE
<1>3. /\ v \in Seq(Nat) /\ Len(v) = n + 3 * (q + 1)
      /\ \A i \in 1..n + 3 * q : v[i] = w[i]
      /\ v[n + 3 * q + 1] = b[1] /\ v[n + 3 * q + 2] = b[2] /\ v[n + 3 * q + 3] = b[3]
  <2> HIDE DEF b
  <2>1. /\ v \in Seq(Nat) /\ Len(v) = Len(w) + Len(b)
        /\ \A i \in 1..Len(w) + Len(b) : v[i] = IF i <= Len(w) THEN w[i] ELSE b[i - Len(w)]
    BY <1>1, <1>2, ConcatProperties
  <2> HIDE DEF v
  <2>2. Len(v) = n + 3 * (q + 1) /\ \A i \in 1..n + 3 * q : v[i] = w[i]
    BY <2>1, <1>1, <1>2
  <2>3. \A k \in 1..3 : /\ Len(w) + k \in 1..Len(w) + Len(b)
                        /\ ~ (Len(w) + k <= Len(w)) /\ (Len(w) + k) - Len(w) = k
    BY <1>1, <1>2
  <2>4. \A k \in 1..3 : v[Len(w) + k] = b[k]
    BY <2>1, <2>3
  <2>5. v[n + 3 * q + 1] = b[1] /\ v[n + 3 * q + 2] = b[2] /\ v[n + 3 * q + 3] = b[3]
    <3>1. \A k \in 1..3 : v[n + 3 * q + k] = b[k]
      BY <2>4, <1>1
    <3>2. 1 \in 1..3 /\ 2 \in 1..3 /\ 3 \in 1..3
      OBVIOUS
    <3> QED
      BY <3>1, <3>2
  <2> QED
    BY <2>1, <2>2, <2>5
<1> HIDE DEF v
<1>4. \A i \in 1..n : v[i] # SSAP_SYNC_BYTE
  BY <1>1, <1>3 DEF Line
<1>5. \A i \in 1..q : /\ v[n + 3 * i - 2] = w[n + 3 * i - 2]
                      /\ v[n + 3 * i - 1] = w[n + 3 * i - 1]
                      /\ v[n + 3 * i] = w[n + 3 * i]
  <2> SUFFICES ASSUME NEW i \in 1..q
               PROVE  /\ n + 3 * i - 2 \in 1..n + 3 * q
                      /\ n + 3 * i - 1 \in 1..n + 3 * q
                      /\ n + 3 * i \in 1..n + 3 * q
    BY <1>3
  <2> QED
    BY <1>1
<1>6. /\ v[n + 3 * (q + 1) - 2] = SSAP_SYNC_BYTE
      /\ v[n + 3 * (q + 1) - 1] = r.command
      /\ v[n + 3 * (q + 1)] = r.response
  <2>1. /\ n + 3 * (q + 1) - 2 = n + 3 * q + 1
        /\ n + 3 * (q + 1) - 1 = n + 3 * q + 2
        /\ n + 3 * (q + 1) = n + 3 * q + 3
    BY <1>1
  <2> QED
    BY <2>1, <1>2, <1>3
<1>7. \A i \in 1..q + 1 : i \in 1..q \/ i = q + 1
  BY <1>1
<1>8. r.command \in Byte /\ r.response \in Responses /\ r = [command |-> r.command, response |-> r.response]
  BY DEF Response
<1>9. Line(v, n, q + 1)
  <2>1. \A i \in 1..q + 1 : /\ v[n + 3 * i - 2] = SSAP_SYNC_BYTE
                            /\ v[n + 3 * i - 1] \in Byte
                            /\ v[n + 3 * i] \in Responses
    BY <1>5, <1>6, <1>7, <1>8 DEF Line
  <2> QED
    BY <2>1, <1>1, <1>3, <1>4 DEF Line
<1>10. ResponsesOf(v, n, q + 1) = Append(ResponsesOf(w, n, q), r)
  <2> DEFINE s == ResponsesOf(v, n, q + 1)
             t == Append(ResponsesOf(w, n, q), r)
  <2>1. /\ s \in Seq(Response) /\ Len(s) = q + 1
        /\ \A i \in 1..q + 1 : s[i] = [command |-> v[n + 3 * i - 1], response |-> v[n + 3 * i]]
    BY <1>9, ResponsesFacts
  <2>2. /\ ResponsesOf(w, n, q) \in Seq(Response) /\ Len(ResponsesOf(w, n, q)) = q
        /\ \A i \in 1..q :
             ResponsesOf(w, n, q)[i] = [command |-> w[n + 3 * i - 1], response |-> w[n + 3 * i]]
    BY ResponsesFacts
  <2>3. /\ t \in Seq(Response) /\ Len(t) = q + 1
        /\ \A i \in 1..q : t[i] = ResponsesOf(w, n, q)[i]
        /\ t[q + 1] = r
    BY <2>2, AppendProperties
  <2> HIDE DEF s, t
  <2>4. \A i \in 1..q + 1 : s[i] = t[i]
    BY <2>1, <2>2, <2>3, <1>5, <1>6, <1>7, <1>8
  <2> QED
    BY <2>1, <2>3, <2>4, SeqEqual DEF s, t
<1> QED
  BY <1>9, <1>10 DEF v

\* A whole response is read.
LEMMA ResponseRead ==
  ASSUME NEW l \in Seq(Nat), NEW q, Line(<<SSAP_SYNC_BYTE>> \o l, 0, q), q > 0
  PROVE  LET w == <<SSAP_SYNC_BYTE>> \o l
             v == SubSeq(l, 3, Len(l))
         IN  /\ Len(l) >= 2
             /\ ResponsesOf(w, 0, q) # <<>>
             /\ Head(ResponsesOf(w, 0, q)) = [command |-> l[1], response |-> l[2]]
             /\ Line(v, 0, q - 1)
             /\ ResponsesOf(v, 0, q - 1) = Tail(ResponsesOf(w, 0, q))
<1> DEFINE w == <<SSAP_SYNC_BYTE>> \o l
           v == SubSeq(l, 3, Len(l))
           s == ResponsesOf(w, 0, q)
<1>1. q \in Nat /\ Len(w) = 3 * q
  BY DEF Line
<1>2. Len(w) = Len(l) + 1 /\ \A i \in 1..Len(l) : w[i + 1] = l[i]
  <2>1. <<SSAP_SYNC_BYTE>> \in Seq(Nat) /\ Len(<<SSAP_SYNC_BYTE>>) = 1
    BY DEF SSAP_SYNC_BYTE
  <2>2. /\ Len(w) = 1 + Len(l)
        /\ \A i \in 1..1 + Len(l) : w[i] = IF i <= 1 THEN <<SSAP_SYNC_BYTE>>[i] ELSE l[i - 1]
    BY <2>1, ConcatProperties
  <2> HIDE DEF w
  <2>3. Len(l) \in Nat /\ \A i \in 1..Len(l) : i + 1 \in 1..1 + Len(l) /\ ~ (i + 1 <= 1) /\ (i + 1) - 1 = i
    OBVIOUS
  <2> QED
    BY <2>2, <2>3
<1>3. Len(l) \in Nat /\ Len(l) = 3 * q - 1 /\ Len(l) >= 2
  BY <1>1, <1>2
<1>4. /\ v \in Seq(Nat) /\ Len(v) = 3 * (q - 1)
      /\ \A i \in 1..3 * (q - 1) : v[i] = l[i + 2]
  <2>1. \A i \in 3..Len(l) : l[i] \in Nat
    BY <1>3
  <2>2. /\ v \in Seq(Nat)
        /\ Len(v) = IF 3 <= Len(l) THEN Len(l) - 3 + 1 ELSE 0
        /\ \A i \in 1..Len(l) - 3 + 1 : v[i] = l[3 + i - 1]
    BY <2>1, <1>3, SubSeqProperties
  <2> HIDE DEF v
  <2>3. Len(v) = 3 * (q - 1) /\ Len(l) - 3 + 1 = 3 * (q - 1)
    BY <2>2, <1>1, <1>3
  <2>4. \A i \in 1..3 * (q - 1) : 3 + i - 1 = i + 2
    BY <1>1
  <2> QED
    BY <2>2, <2>3, <2>4
<1>5. \A i \in 1..3 * (q - 1) : v[i] = w[i + 3]
  <2> SUFFICES ASSUME NEW i \in 1..3 * (q - 1) PROVE v[i] = w[i + 3]
    OBVIOUS
  <2>1. i + 2 \in 1..Len(l) /\ (i + 2) + 1 = i + 3
    BY <1>1, <1>3
  <2> HIDE DEF v, w
  <2> QED
    BY <2>1, <1>2, <1>4
<1>6. \A i \in 1..q - 1 : /\ v[0 + 3 * i - 2] = w[0 + 3 * (i + 1) - 2]
                          /\ v[0 + 3 * i - 1] = w[0 + 3 * (i + 1) - 1]
                          /\ v[0 + 3 * i] = w[0 + 3 * (i + 1)]
                          /\ i + 1 \in 1..q
  <2> SUFFICES ASSUME NEW i \in 1..q - 1
               PROVE  /\ v[0 + 3 * i - 2] = w[0 + 3 * (i + 1) - 2]
                      /\ v[0 + 3 * i - 1] = w[0 + 3 * (i + 1) - 1]
                      /\ v[0 + 3 * i] = w[0 + 3 * (i + 1)]
                      /\ i + 1 \in 1..q
    OBVIOUS
  <2>1. /\ 0 + 3 * i - 2 \in 1..3 * (q - 1) /\ (0 + 3 * i - 2) + 3 = 0 + 3 * (i + 1) - 2
        /\ 0 + 3 * i - 1 \in 1..3 * (q - 1) /\ (0 + 3 * i - 1) + 3 = 0 + 3 * (i + 1) - 1
        /\ 0 + 3 * i \in 1..3 * (q - 1) /\ (0 + 3 * i) + 3 = 0 + 3 * (i + 1)
        /\ i + 1 \in 1..q
    BY <1>1
  <2> HIDE DEF v, w
  <2> QED
    BY <2>1, <1>5
<1>7. Line(v, 0, q - 1)
  <2>1. q - 1 \in Nat /\ 0 \in 0..2 /\ Len(v) = 0 + 3 * (q - 1) /\ (1..0) = {}
    BY <1>1, <1>4
  <2>2. \A i \in 1..q : /\ w[0 + 3 * i - 2] = SSAP_SYNC_BYTE
                        /\ w[0 + 3 * i - 1] \in Byte
                        /\ w[0 + 3 * i] \in Responses
    BY DEF Line
  <2> HIDE DEF v, w
  <2>3. \A i \in 1..q - 1 : /\ v[0 + 3 * i - 2] = SSAP_SYNC_BYTE
                            /\ v[0 + 3 * i - 1] \in Byte
                            /\ v[0 + 3 * i] \in Responses
    BY <2>2, <1>6
  <2> QED
    BY <2>1, <2>3, <1>4 DEF Line
<1>8. /\ s \in Seq(Response) /\ Len(s) = q
      /\ \A i \in 1..q : s[i] = [command |-> w[0 + 3 * i - 1], response |-> w[0 + 3 * i]]
  <2>1. Line(w, 0, q)
    OBVIOUS
  <2> HIDE DEF w
  <2> QED
    BY <2>1, ResponsesFacts
<1>9. s # <<>> /\ Head(s) = [command |-> l[1], response |-> l[2]]
  <2>1. 1 \in 1..q /\ 0 + 3 * 1 - 1 = 1 + 1 /\ 0 + 3 * 1 = 2 + 1 /\ 1 \in 1..Len(l) /\ 2 \in 1..Len(l)
    BY <1>1, <1>3
  <2> HIDE DEF s, w
  <2>2. s[1] = [command |-> w[1 + 1], response |-> w[2 + 1]]
    BY <2>1, <1>8
  <2>3. w[1 + 1] = l[1] /\ w[2 + 1] = l[2]
    BY <2>1, <1>2
  <2> QED
    BY <2>1, <2>2, <2>3, <1>8
<1>10. ResponsesOf(v, 0, q - 1) = Tail(s)
  <2> DEFINE u == ResponsesOf(v, 0, q - 1)
  <2>1. /\ u \in Seq(Response) /\ Len(u) = q - 1
        /\ \A i \in 1..q - 1 : u[i] = [command |-> v[0 + 3 * i - 1], response |-> v[0 + 3 * i]]
    <3> HIDE DEF v
    <3> QED
      BY <1>7, ResponsesFacts
  <2> HIDE DEF u, s, v, w
  <2>2. /\ Tail(s) \in Seq(Response) /\ Len(Tail(s)) = q - 1
        /\ \A i \in 1..q - 1 : Tail(s)[i] = s[i + 1]
    BY <1>8, <1>9, HeadTailProperties
  <2>3. \A i \in 1..q - 1 : u[i] = Tail(s)[i]
    BY <2>1, <2>2, <1>6, <1>8
  <2> QED
    BY <2>1, <2>2, <2>3, SeqEqual DEF u
<1> QED
  BY <1>3, <1>7, <1>9, <1>10

All == IF reader = "rest" THEN <<SSAP_SYNC_BYTE>> \o line ELSE line

\* The line while it is read: its noise is used up before the reader gives up.
LineIs(n, q) ==
  /\ Line(All, n, q)
  /\ reader = "rest" => n = 0 /\ q > 0
  /\ reader = "sync" /\ n > 0 => tries + n =< 2

LineInv ==
  /\ line \in Seq(Nat) /\ tries \in Nat
  /\ \E n, q \in Nat : LineIs(n, q)

\* The responses read off any line are those of Line.
LEMMA Counts ==
  ASSUME NEW w, NEW n, NEW q, Line(w, n, q)
  PROVE  Len(w) % 3 = n /\ Len(w) \div 3 = q
<1>1. Len(w) = n + 3 * q /\ n \in 0..2 /\ q \in Nat
  BY DEF Line
<1> QED
  BY <1>1

LEMMA GivenIs ==
  ASSUME NEW n, NEW q, Line(All, n, q)
  PROVE  Given = ResponsesOf(All, n, q)
<1>1. Given = ResponsesOf(All, Len(All) % 3, Len(All) \div 3)
  BY DEF Given, ResponsesOf, All
<1>2. Len(All) % 3 = n /\ Len(All) \div 3 = q
  BY Counts
<1> QED
  BY <1>1, <1>2

LEMMA GivenIsNext ==
  ASSUME NEW n, NEW q, Line(All', n, q)
  PROVE  Given' = ResponsesOf(All', n, q)
<1>1. Given' = ResponsesOf(All', Len(All') % 3, Len(All') \div 3)
  BY DEF Given, ResponsesOf, All
<1>2. Len(All') % 3 = n /\ Len(All') \div 3 = q
  BY Counts
<1> QED
  BY <1>1, <1>2

\* A step that moves neither the line nor what was read.
LEMMA StepAside ==
  ASSUME LineInv, All' = All, line' \in Seq(Nat), tries' \in Nat, got' = got,
         reader' \in {"sync", "rest"} <=> reader \in {"sync", "rest"},
         \A n, q \in Nat : LineIs(n, q) =>
           /\ reader' = "rest" => n = 0 /\ q > 0
           /\ reader' = "sync" /\ n > 0 => tries' + n =< 2
  PROVE  LineInv' /\ UNCHANGED Channel!vars
<1>1. PICK n \in Nat, q \in Nat : LineIs(n, q)
  BY DEF LineInv
<1>2. Line(All, n, q)
  BY <1>1 DEF LineIs
<1>3. Line(All', n, q)
  BY <1>2
<1>4. LineIs(n, q)'
  BY <1>1, <1>3 DEF LineIs
<1>5. Given' = Given
  <2>1. Given = ResponsesOf(All, n, q)
    BY <1>2, GivenIs
  <2>2. Given' = ResponsesOf(All', n, q)
    BY <1>3, GivenIsNext
  <2> QED
    BY <2>1, <2>2
<1> QED
  BY <1>4, <1>5 DEF LineInv, Channel!vars

\* The first byte is there and is a sync byte, or it is not.
LEMMA ReadByteSteps ==
  ASSUME LineInv, SyncFound \/ Skip \/ TimeOut \/ ReadRest
  PROVE  /\ LineInv'
         /\ \/ (SyncFound \/ Skip) /\ UNCHANGED Channel!vars
            \/ ReadRest /\ Channel!Read
            \/ TimeOut /\ line = <<>> /\ Channel!GiveUp
<1>1. PICK n \in Nat, q \in Nat : LineIs(n, q)
  BY DEF LineInv
<1>2. line \in Seq(Nat) /\ tries \in Nat /\ Line(All, n, q)
  BY <1>1 DEF LineInv, LineIs
<1>3. line = <<>> \/ (line # <<>> /\ NextByte = line[1] /\ Rest = Tail(line))
  BY <1>2 DEF NextByte, Rest
<1>4. CASE SyncFound
  <2>1. reader = "sync" /\ reader' = "rest" /\ All = line /\ UNCHANGED <<tries, got>>
    BY <1>4 DEF SyncFound, All
  <2>2. line # <<>> /\ line[1] = SSAP_SYNC_BYTE /\ line' = Tail(line)
    BY <1>3, <1>4 DEF SyncFound, NextByte, SSAP_SYNC_BYTE, IdleByte, Rest
  <2>3. All' = All
    <3>1. <<line[1]>> \o Tail(line) = line
      BY <1>2, <2>2
    <3> QED
      BY <2>1, <2>2, <3>1 DEF All
  <2>4. \A k, p \in Nat : LineIs(k, p) => k = 0 /\ p > 0
    BY <2>1, <2>2, FirstByte DEF LineIs
  <2>5. line' \in Seq(Nat)
    BY <1>2, <2>2
  <2> QED
    BY <1>2, <1>4, <2>1, <2>3, <2>4, <2>5, StepAside
<1>5. CASE Skip /\ line = <<>>
  <2>1. UNCHANGED <<line, reader, got>> /\ tries' \in Nat /\ reader = "sync" /\ All' = All /\ All = <<>>
    BY <1>2, <1>5 DEF Skip, Rest, All
  <2>2. \A k, p \in Nat : LineIs(k, p) => k = 0
    BY <2>1 DEF LineIs, Line
  <2>3. \A k, p \in Nat : LineIs(k, p) =>
          /\ reader' = "rest" => k = 0 /\ p > 0
          /\ reader' = "sync" /\ k > 0 => tries' + k =< 2
    <3>1. reader' # "rest"
      BY <2>1
    <3>2. ~ (0 > 0)
      OBVIOUS
    <3> QED
      BY <2>2, <3>1, <3>2, Zenon
  <2>4. line' = line /\ got' = got /\ reader' = reader
    BY <2>1
  <2>5. LineInv' /\ UNCHANGED Channel!vars
    BY <1>2, <2>1, <2>3, <2>4, StepAside
  <2> QED
    BY <1>5, <2>5
<1>6. CASE Skip /\ line # <<>>
  <2>1. /\ UNCHANGED <<reader, got>> /\ tries' = tries + 1 /\ reader = "sync"
        /\ All = line /\ All' = Tail(line) /\ line' = Tail(line) /\ line[1] # SSAP_SYNC_BYTE
    BY <1>3, <1>6 DEF Skip, All
  <2>2. n > 0
    BY <1>2, <1>6, <2>1, FirstByte
  <2>3. Line(All', n - 1, q) /\ ResponsesOf(All', n - 1, q) = ResponsesOf(All, n, q)
    BY <1>2, <2>1, <2>2, NoiseRead
  <2>4. LineIs(n - 1, q)' /\ n - 1 \in Nat
    BY <1>1, <1>2, <2>1, <2>2, <2>3 DEF LineIs
  <2>5. Given' = Given
    <3>1. Given = ResponsesOf(All, n, q)
      BY <1>2, GivenIs
    <3>2. Given' = ResponsesOf(All', n - 1, q)
      BY <2>3, GivenIsNext
    <3> QED
      BY <2>3, <3>1, <3>2
  <2>6. line' \in Seq(Nat) /\ tries' \in Nat
    BY <1>2, <1>6, <2>1
  <2> QED
    BY <1>6, <2>1, <2>4, <2>5, <2>6 DEF LineInv, Channel!vars
<1>7. CASE TimeOut
  <2>1. /\ reader = "sync" /\ reader' = "done" /\ tries > MaxTries /\ UNCHANGED tries
        /\ All = line /\ All' = line' /\ line' = Rest /\ got' = NoResponse
        /\ NextByte # SSAP_SYNC_BYTE
    BY <1>7 DEF TimeOut, All
  <2>2. line = <<>>
    <3> SUFFICES ASSUME line # <<>> PROVE FALSE
      OBVIOUS
    <3>1. n > 0
      BY <1>2, <1>3, <2>1, FirstByte
    <3> QED
      BY <1>1, <1>2, <2>1, <3>1, SpisReaderAssumption DEF LineIs
  <2>3. All' = <<>> /\ All = <<>> /\ line' = <<>>
    BY <2>1, <2>2 DEF Rest
  <2>4. n = 0 /\ q = 0
    BY <1>2, <2>3 DEF Line
  <2>5. Line(All', 0, 0) /\ Line(All, 0, 0)
    BY <1>2, <2>3, <2>4
  <2>6. Given = <<>> /\ Given' = <<>>
    BY <2>5, GivenIs, GivenIsNext DEF ResponsesOf
  <2>7. LineInv'
    BY <1>2, <2>1, <2>3, <2>5 DEF LineInv, LineIs
  <2>8. Channel!GiveUp
    BY <2>1, <2>6 DEF Channel!GiveUp
  <2> QED
    BY <1>7, <2>2, <2>7, <2>8
<1>8. CASE ReadRest
  <2>1. /\ reader = "rest" /\ reader' = "done" /\ UNCHANGED tries
        /\ All = <<SSAP_SYNC_BYTE>> \o line /\ All' = line' /\ line' = SubSeq(line, 3, Len(line))
    BY <1>8 DEF ReadRest, RestLength, All
  <2>2. n = 0 /\ q > 0
    BY <1>1, <2>1 DEF LineIs
  <2>3. /\ Len(line) >= 2
        /\ ResponsesOf(All, 0, q) # <<>>
        /\ Head(ResponsesOf(All, 0, q)) = [command |-> line[1], response |-> line[2]]
        /\ Line(line', 0, q - 1)
        /\ ResponsesOf(line', 0, q - 1) = Tail(ResponsesOf(All, 0, q))
    BY <1>2, <2>1, <2>2, ResponseRead
  <2>4. got' = [command |-> line[1], response |-> line[2]]
    BY <1>2, <1>8, <2>3 DEF ReadRest, RestLength
  <2>5. Given = ResponsesOf(All, 0, q) /\ Given' = ResponsesOf(All', 0, q - 1)
    BY <1>2, <2>1, <2>2, <2>3, GivenIs, GivenIsNext
  <2>6. Channel!Read
    BY <2>1, <2>3, <2>4, <2>5 DEF Channel!Read
  <2>7. LineInv'
    <3>1. line' \in Seq(Nat) /\ q - 1 \in Nat /\ tries' \in Nat
      BY <1>2, <2>1, <2>2, <2>3 DEF Line
    <3> QED
      BY <2>1, <2>3, <3>1 DEF LineInv, LineIs
  <2> QED
    BY <1>8, <2>6, <2>7
<1> QED
  BY <1>4, <1>5, <1>6, <1>7, <1>8

\* The slave gives a response, or keeps it to itself.
LEMMA SlaveSteps ==
  ASSUME LineInv, LocalInv, NEW a \in LocalAnswers, NEW reply \in BOOLEAN, SlaveDoes(a, reply)
  PROVE  /\ LineInv' /\ [Channel!Next]_(Channel!vars)
         /\ ~ reply => Given' = Given
         /\ reply => Given' = Append(Given, [command |-> frames[1].cmd, response |-> a])
<1>2. UNCHANGED <<reader, tries, got>>
  BY DEF SlaveDoes
<1>3. CASE ~ reply
  <2>1. line' = line /\ All' = All
    BY <1>2, <1>3 DEF SlaveDoes, All
  <2> QED
    BY <1>2, <1>3, <2>1, StepAside DEF LineInv, LineIs, Channel!vars
<1>4. CASE reply
  <2> DEFINE r == [command |-> frames[1].cmd, response |-> a]
  <2>1. frames \in Seq(Sent) /\ frames # <<>> /\ line' = line \o BytesOf(r)
    <3>1. frames \in Seq(Sent) /\ frames # <<>> /\ Head(frames) = frames[1]
      BY DEF SlaveDoes, LocalInv, OnTheWay
    <3>2. line' = line \o BytesOf([command |-> Head(frames).cmd, response |-> a])
      BY <1>4 DEF SlaveDoes
    <3> QED
      BY <3>1, <3>2
  <2>2. r \in Response
    <3>1. frames[1] \in Sent
      BY <2>1
    <3>2. a \in Responses
      BY LocalPlayAssumption
         DEF Responses, SSAP_CMD_RESP_OKSEND, SSAP_CMD_RESP_RESEND, SSAP_CMD_RESP_NEXTSEND
    <3> QED
      BY <3>1, <3>2 DEF Sent, Response, Byte, SSAP_CMD_START, SSAP_CMD_DATA, SSAP_CMD_STOP
  <2> HIDE DEF r
  <2>3. BytesOf(r) \in Seq(Nat) /\ line \in Seq(Nat) /\ <<SSAP_SYNC_BYTE>> \in Seq(Nat)
    <3>1. r.command \in Nat /\ r.response \in Nat /\ SSAP_SYNC_BYTE \in Nat
      BY <2>2 DEF Response, Byte, Responses, SSAP_SYNC_BYTE
    <3> QED
      BY <3>1 DEF BytesOf, LineInv
  <2>4. line' \in Seq(Nat)
    BY <2>1, <2>3, ConcatProperties
  <2>5. All' = All \o BytesOf(r)
    <3>1. <<SSAP_SYNC_BYTE>> \o (line \o BytesOf(r)) = (<<SSAP_SYNC_BYTE>> \o line) \o BytesOf(r)
      BY <2>3, ConcatAssociative
    <3> QED
      BY <1>2, <2>1, <3>1 DEF All
  <2>6. PICK n \in Nat, q \in Nat : LineIs(n, q)
    BY DEF LineInv
  <2>7. Line(All, n, q)
    BY <2>6 DEF LineIs
  <2>8. /\ Line(All', n, q + 1)
        /\ ResponsesOf(All', n, q + 1) = Append(ResponsesOf(All, n, q), r)
    BY <2>2, <2>5, <2>7, ResponseGiven
  <2>9. Given' = Append(Given, r)
    <3>1. Given = ResponsesOf(All, n, q)
      BY <2>7, GivenIs
    <3>2. Given' = ResponsesOf(All', n, q + 1)
      BY <2>8, GivenIsNext
    <3> QED
      BY <2>8, <3>1, <3>2
  <2>10. Given \in Seq(Response)
    BY <2>7, GivenIs, ResponsesFacts
  <2>11. Given' # <<>> /\ Given'[Len(Given')] = r
    BY <2>2, <2>9, <2>10, AppendProperties
  <2>12. Channel!Give
    BY <1>2, <2>2, <2>9, <2>11 DEF Channel!Give
  <2>13. LineIs(n, q + 1)' /\ q + 1 \in Nat
    BY <1>2, <2>6, <2>8 DEF LineIs
  <2>14. LineInv'
    BY <1>2, <2>4, <2>13 DEF LineInv
  <2> QED
    BY <1>4, <2>9, <2>12, <2>14 DEF Channel!Next, r
<1> QED
  BY <1>3, <1>4

LEMMA LineNext ==
  LineInv /\ LocalInv /\ [LocalNext]_playVars => LineInv' /\ [Channel!Next]_(Channel!vars)
<1> SUFFICES ASSUME LineInv, LocalInv, [LocalNext]_playVars
             PROVE  LineInv' /\ [Channel!Next]_(Channel!vars)
  OBVIOUS
<1>1. CASE Send
  <2>1. /\ reader = "idle" /\ reader' = "sync" /\ tries' = 0 /\ UNCHANGED <<line, got>>
        /\ All' = All
    BY <1>1 DEF Send, AskResponse, All
  <2>2. PICK n \in Nat, q \in Nat : LineIs(n, q)
    BY DEF LineInv
  <2>3. Line(All, n, q) /\ Line(All', n, q)
    BY <2>1, <2>2 DEF LineIs
  <2>4. Given' = Given
    <3>1. Given = ResponsesOf(All, n, q)
      BY <2>3, GivenIs
    <3>2. Given' = ResponsesOf(All', n, q)
      BY <2>3, GivenIsNext
    <3> QED
      BY <2>1, <3>1, <3>2
  <2>5. Channel!Ask
    BY <2>1, <2>4 DEF Channel!Ask
  <2>6. LineIs(n, q)'
    BY <2>1, <2>3 DEF LineIs, Line
  <2> QED
    BY <2>1, <2>2, <2>5, <2>6 DEF LineInv, Channel!Next
<1>2. CASE Answered
  <2>1. reader = "done" /\ reader' = "idle" /\ UNCHANGED <<line, tries, got>> /\ All' = All
    BY <1>2 DEF Answered, All
  <2> QED
    BY <2>1, StepAside DEF LineInv
<1>3. CASE Open \/ NextBlock \/ LocalStop \/ UNCHANGED playVars
  <2>1. UNCHANGED <<reader, line, tries, got>> /\ All' = All
    BY <1>3 DEF Open, NextBlock, LocalStop, readerVars, playVars, All
  <2> QED
    BY <2>1, StepAside DEF LineInv, LineIs
<1>4. CASE ReadByte
  BY <1>4, ReadByteSteps DEF ReadByte, Channel!Next
<1>5. CASE LocalSlave
  BY <1>5, SlaveSteps DEF LocalSlave
<1> QED
  BY <1>1, <1>2, <1>3, <1>4, <1>5 DEF LocalNext, LocalPlayer

LEMMA LineInit == LocalInit => LineInv /\ Channel!Init
<1> SUFFICES ASSUME LocalInit PROVE LineInv /\ Channel!Init
  OBVIOUS
<1>1. /\ reader = "idle" /\ tries = 0 /\ got = NoResponse
      /\ line = <<>> \/ line = <<SSAP_CMD_STOP, SSAP_CMD_RESP_OKSEND>>
      /\ All = line
  BY DEF LocalInit, ReaderInit, All
<1>2. \E n \in Nat : Line(line, n, 0)
  <2>1. CASE line = <<>>
    BY <2>1 DEF Line
  <2>2. CASE line = <<SSAP_CMD_STOP, SSAP_CMD_RESP_OKSEND>>
    <3>1. Line(line, 2, 0)
      BY <2>2 DEF Line, SSAP_CMD_STOP, SSAP_CMD_RESP_OKSEND, SSAP_SYNC_BYTE
    <3> QED
      BY <3>1
  <2> QED
    BY <1>1, <2>1, <2>2
<1>3. PICK n \in Nat : Line(line, n, 0)
  BY <1>2
<1>4. Given = <<>>
  BY <1>1, <1>3, GivenIs DEF ResponsesOf
<1>5. LineInv
  BY <1>1, <1>3 DEF LineInv, LineIs, Line
<1> QED
  BY <1>1, <1>4, <1>5 DEF Channel!Init

\* Byte by byte, with whatever noise the line begins and whatever is lost, the
\* reader is a channel of whole responses.
THEOREM ReaderIsChannelCorrect == LocalSpec => ReaderIsChannel
<1>1. LocalInit => LocalInv /\ Waits
  <2>1. LocalInit => LocalInv
    BY DEF LocalInit, LocalInv, OnTheWay, Behind, LocalInOrder, Newest, START, Items, Sent
  <2>2. LocalInit => Waits
    BY DEF LocalInit, ReaderInit, Waits
  <2> QED
    BY <2>1, <2>2
<1> QED
  BY <1>1, LineInit, LineNext, LocalInvNext, WaitsNext, PTL
     DEF LocalSpec, ReaderIsChannel, Channel!Spec

-----------------------------------------------------------------------------
(* LocalHeard.  While no answer is late, one frame or one answer is on its way,
   so that an acceptance is that of the frame at hand. *)

AtHand == Frame(IF place = "start" THEN SSAP_CMD_START ELSE SSAP_CMD_DATA)

HasHeard == heard # <<>> /\ heard[Len(heard)] = content
Follows  == heard # <<>> /\ heard[Len(heard)] # STOP /\ content = AfterItem(heard[Len(heard)])

\* What is on its way to the slave and back.
OneOnItsWay ==
  /\ place # "closed" /\ reader \in {"idle", "done"} => frames = <<>> /\ Given = <<>>
  /\ place # "closed" /\ reader \in {"sync", "rest"} =>
       \/ frames \in {<<>>, <<AtHand>>} /\ Given = <<>>
       \/ /\ frames = <<>> /\ Len(Given) = 1
          /\ Given[1].response = SSAP_CMD_RESP_OKSEND => HasHeard
  /\ reader = "done" /\ got.response = SSAP_CMD_RESP_OKSEND => HasHeard
  /\ place = "closed" => \A i \in 1..Len(frames) : frames[i].item = STOP

\* The part that the player is at is the one of its blocks.
PartAtHand ==
  /\ place \in {"open", "start", "header"} => blocks = 0
  /\ place = "header" => content = HEADER /\ song.pcm
  /\ place \in {"data", "block"} /\ blocks = 0 => content = IF song.pcm THEN HEADER ELSE START
  /\ blocks > 0 => content = BLOCK(blocks)

\* The slave has heard all before that part.
HeardUpTo ==
  /\ place \in {"open", "exit"} => heard = <<>>
  /\ place = "start" => heard = <<>> \/ HasHeard
  /\ place \in {"header", "block"} => HasHeard \/ Follows
  /\ place = "data" => HasHeard
  /\ place = "closed" => \E i \in 1..Len(heard) : heard[i] = content

NoHole ==
  \A i \in 1..Len(heard) : heard[i] # STOP => heard[i] = IF i = 1 THEN START ELSE AfterItem(heard[i - 1])

HeardInv ==
  /\ place \in {"open", "exit", "start", "header", "data", "block", "closed"}
  /\ reader \in {"idle", "sync", "rest", "done"}
  /\ reader # "idle" => place \in {"start", "header", "block"}
  /\ OneOnItsWay /\ PartAtHand /\ HeardUpTo /\ NoHole

LEMMA HeardInit == LocalInit => HeardInv
<1> SUFFICES ASSUME LocalInit PROVE HeardInv
  OBVIOUS
<1>1. Given = <<>>
  BY LineInit DEF Channel!Init
<1>2. place = "open" /\ reader = "idle" /\ frames = <<>> /\ heard = <<>> /\ blocks = 0 /\ content = START
  BY DEF LocalInit, ReaderInit
<1> QED
  BY <1>1, <1>2 DEF HeardInv, OneOnItsWay, PartAtHand, HeardUpTo, NoHole

\* Steps of the player that leave the line alone leave the responses on it.
LEMMA SameGiven ==
  ASSUME line' = line, reader' = "rest" <=> reader = "rest"
  PROVE  Given' = Given
BY DEF Given

\* What the slave has heard stays as long as it hears nothing new.
LEMMA HeardStays ==
  ASSUME heard' = heard, song' = song
  PROVE  /\ NoHole => NoHole'
         /\ content' = content => HasHeard' = HasHeard /\ Follows' = Follows
BY DEF NoHole, AfterItem, HasHeard, Follows

\* The player opens, writes, reads its answer and goes on.
LEMMA HeardSend ==
  ASSUME HeardInv, Send
  PROVE  HeardInv'
<1>1. /\ place \in {"start", "header", "block"} /\ reader = "idle" /\ reader' = "sync"
      /\ frames' = Append(frames, AtHand) \/ frames' = frames
      /\ UNCHANGED <<line, got, song, place, blocks, content, heard>>
  BY DEF Send, AskResponse, Written, AtHand
<1>2. frames = <<>> /\ Given = <<>>
  BY <1>1 DEF HeardInv, OneOnItsWay
<1>3. Given' = <<>> /\ frames' \in {<<>>, <<AtHand>>}
  BY <1>1, <1>2, SameGiven
<1>4. AtHand' = AtHand
  BY <1>1 DEF AtHand, Frame
<1>5. OneOnItsWay'
  BY <1>1, <1>3, <1>4 DEF OneOnItsWay
<1> QED
  BY <1>1, <1>5, HeardStays DEF HeardInv, PartAtHand, HeardUpTo

LEMMA HeardAnswered ==
  ASSUME HeardInv, LocalInv, Answered
  PROVE  HeardInv'
<1>1. /\ reader = "done" /\ reader' = "idle" /\ place \in {"start", "header", "block"}
      /\ UNCHANGED <<line, got, song, blocks, frames, heard>>
  BY DEF Answered, HeardInv
<1>2. frames' = <<>> /\ Given' = <<>>
  BY <1>1, SameGiven DEF HeardInv, OneOnItsWay
<1>3. NoHole'
  BY <1>1, HeardStays DEF HeardInv
<1>4. CASE ~ Accepted
  <2>1. place' = place /\ content' = content
    BY <1>4 DEF Answered
  <2>2. OneOnItsWay'
    BY <1>1, <1>2, <2>1 DEF OneOnItsWay
  <2> QED
    BY <1>1, <1>3, <2>1, <2>2, HeardStays DEF HeardInv, PartAtHand, HeardUpTo
<1>5. CASE Accepted
  <2>1. HasHeard
    BY <1>1, <1>5 DEF Accepted, HeardInv, OneOnItsWay
  <2>2. CASE place = "start" /\ song.pcm
    <3>1. place' = "header" /\ content' = HEADER /\ content = START /\ blocks = 0
      BY <1>5, <2>2 DEF Answered, HeardInv, PartAtHand, LocalInv, OnTheWay
    <3>2. Follows'
      BY <1>1, <2>1, <2>2, <3>1 DEF HasHeard, Follows, AfterItem, START, HEADER, STOP
    <3>3. OneOnItsWay'
      BY <1>1, <1>2, <3>1 DEF OneOnItsWay
    <3> QED
      BY <1>1, <1>3, <2>2, <3>1, <3>2, <3>3 DEF HeardInv, PartAtHand, HeardUpTo
  <2>3. CASE ~ (place = "start" /\ song.pcm)
    <3>1. place' = "data" /\ content' = content
      BY <1>5, <2>3 DEF Answered
    <3>2. PartAtHand'
      <4>1. CASE blocks = 0
        <5>1. content = IF song.pcm THEN HEADER ELSE START
          BY <1>1, <2>3, <4>1 DEF HeardInv, PartAtHand, LocalInv, OnTheWay
        <5> QED
          BY <1>1, <3>1, <4>1, <5>1 DEF PartAtHand
      <4>2. CASE blocks # 0
        BY <1>1, <3>1, <4>2 DEF HeardInv, PartAtHand
      <4> QED
        BY <4>1, <4>2
    <3>3. OneOnItsWay' /\ HasHeard'
      BY <1>1, <1>2, <2>1, <3>1, HeardStays DEF OneOnItsWay
    <3> QED
      BY <1>1, <1>3, <3>1, <3>2, <3>3 DEF HeardInv, HeardUpTo
  <2> QED
    BY <2>2, <2>3
<1> QED
  BY <1>4, <1>5

LEMMA HeardNextBlock ==
  ASSUME HeardInv, LocalInv, NextBlock
  PROVE  HeardInv'
<1>1. /\ place = "data" /\ place' = "block" /\ reader = "idle"
      /\ UNCHANGED <<line, reader, got, song, frames, heard>>
  BY DEF NextBlock, HeardInv, readerVars
<1>2. blocks \in Nat /\ content \in Nat
  BY DEF LocalInv, OnTheWay
<1>3. HasHeard /\ NoHole' /\ Given' = <<>> /\ frames' = <<>>
  BY <1>1, HeardStays, SameGiven DEF HeardInv, HeardUpTo, OneOnItsWay
<1>4. OneOnItsWay'
  BY <1>1, <1>3 DEF OneOnItsWay
<1>5. CASE blocks' = blocks + 1 /\ content' = BLOCK(blocks')
  <2>1. content' = AfterItem(content) /\ content # STOP
    <3>1. CASE blocks = 0
      BY <1>1, <1>2, <1>5, <3>1 DEF HeardInv, PartAtHand, AfterItem, BLOCK, HEADER, START, STOP
    <3>2. CASE blocks # 0
      <4>1. content = 1 + blocks
        BY <1>2, <3>2 DEF HeardInv, PartAtHand, BLOCK
      <4> QED
        BY <1>2, <1>5, <3>2, <4>1 DEF AfterItem, BLOCK, START, STOP
    <3> QED
      BY <3>1, <3>2
  <2>2. Follows'
    BY <1>1, <1>3, <2>1 DEF HasHeard, Follows, AfterItem
  <2>3. PartAtHand'
    BY <1>1, <1>2, <1>5 DEF PartAtHand
  <2> QED
    BY <1>1, <1>3, <1>4, <2>2, <2>3 DEF HeardInv, HeardUpTo
<1>6. CASE UNCHANGED <<blocks, content>>
  <2>1. HasHeard' /\ PartAtHand'
    BY <1>1, <1>3, <1>6, HeardStays DEF HeardInv, PartAtHand
  <2> QED
    BY <1>1, <1>3, <1>4, <2>1 DEF HeardInv, HeardUpTo
<1> QED
  BY <1>5, <1>6 DEF NextBlock

LEMMA HeardStop ==
  ASSUME HeardInv, LocalInv, LocalStop
  PROVE  HeardInv'
<1>1. /\ place = "data" /\ place' = "closed" /\ reader = "idle"
      /\ UNCHANGED <<line, reader, got, song, blocks, content, heard>>
      /\ frames' \in {Append(frames, Frame(SSAP_CMD_STOP)), frames}
  BY DEF LocalStop, HeardInv, readerVars, Written
<1>2. HasHeard /\ NoHole' /\ frames = <<>>
  BY <1>1, HeardStays DEF HeardInv, HeardUpTo, OneOnItsWay
<1>3. \A i \in 1..Len(frames') : frames'[i].item = STOP
  <2>1. frames' = <<>> \/ frames' = <<Frame(SSAP_CMD_STOP)>>
    BY <1>1, <1>2
  <2>2. Frame(SSAP_CMD_STOP).item = STOP
    BY DEF Frame
  <2> QED
    BY <2>1, <2>2
<1>4. OneOnItsWay'
  BY <1>1, <1>3 DEF OneOnItsWay
<1>5. heard \in Seq(Items)
  BY DEF LocalInv, Behind
<1>6. \E i \in 1..Len(heard') : heard'[i] = content'
  <2>1. Len(heard) \in 1..Len(heard)
    BY <1>2, <1>5 DEF HasHeard
  <2> QED
    BY <1>1, <1>2, <2>1 DEF HasHeard
<1>7. PartAtHand'
  BY <1>1 DEF HeardInv, PartAtHand
<1> QED
  BY <1>1, <1>2, <1>4, <1>6, <1>7 DEF HeardInv, HeardUpTo

\* An answer is read, or the reader gives up when none can come any more.
LEMMA HeardReads ==
  ASSUME HeardInv, LocalInv, LineInv, ~ late, ReadByte
  PROVE  HeardInv'
<1>1. /\ reader \in {"sync", "rest"} /\ place \in {"start", "header", "block"}
      /\ UNCHANGED <<song, place, blocks, content, frames, heard>>
  BY DEF ReadByte, SyncFound, Skip, TimeOut, ReadRest, HeardInv, localVars
<1>2. PartAtHand' /\ HeardUpTo' /\ NoHole' /\ HasHeard' = HasHeard /\ AtHand' = AtHand
  BY <1>1, HeardStays DEF HeardInv, PartAtHand, HeardUpTo, AtHand, Frame
<1>3. CASE (SyncFound \/ Skip) /\ UNCHANGED Channel!vars
  <2>1. reader' \in {"sync", "rest"} /\ Given' = Given
    BY <1>3 DEF SyncFound, Skip, Channel!vars
  <2>2. OneOnItsWay'
    BY <1>1, <1>2, <2>1 DEF HeardInv, OneOnItsWay
  <2> QED
    BY <1>1, <1>2, <2>1, <2>2 DEF HeardInv
<1>4. CASE ReadRest /\ Channel!Read
  <2>1. reader' = "done" /\ Given # <<>> /\ got' = Head(Given) /\ Given' = Tail(Given)
    BY <1>4 DEF ReadRest, Channel!Read
  <2>2. /\ frames = <<>> /\ Len(Given) = 1
        /\ Given[1].response = SSAP_CMD_RESP_OKSEND => HasHeard
    BY <1>1, <2>1 DEF HeardInv, OneOnItsWay
  <2>3. Given \in Seq(Response)
    BY GivenIs, ResponsesFacts DEF LineInv, LineIs
  <2>4. Given' = <<>> /\ got' = Given[1]
    BY <2>1, <2>2, <2>3
  <2>5. OneOnItsWay'
    BY <1>1, <1>2, <2>1, <2>2, <2>4 DEF OneOnItsWay
  <2> QED
    BY <1>1, <1>2, <2>1, <2>5 DEF HeardInv
<1>5. CASE TimeOut /\ line = <<>> /\ Channel!GiveUp
  <2>1. reader' = "done" /\ Given = <<>> /\ Given' = <<>> /\ got' = NoResponse
    BY <1>5 DEF TimeOut, Channel!GiveUp
  <2>2. frames = <<>>
    BY <1>5 DEF ReadByte, SyncFound, Skip, TimeOut, ReadRest
  <2>3. got'.response # SSAP_CMD_RESP_OKSEND
    BY <2>1 DEF NoResponse, SSAP_CMD_RESP_TIME_OUT, SSAP_CMD_RESP_OKSEND
  <2>4. OneOnItsWay'
    BY <1>1, <2>1, <2>2, <2>3 DEF OneOnItsWay
  <2> QED
    BY <1>1, <1>2, <2>1, <2>4 DEF HeardInv
<1> QED
  BY <1>3, <1>4, <1>5, ReadByteSteps DEF ReadByte

\* A part that follows on what was heard leaves no hole.
LEMMA NoHoleAppended ==
  ASSUME NoHole, heard \in Seq(Items), NEW x \in Items, heard' = Append(heard, x), song' = song,
         \/ x = STOP
         \/ heard = <<>> /\ x = START
         \/ heard # <<>> /\ x = AfterItem(heard[Len(heard)])
  PROVE  /\ NoHole'
         /\ heard' # <<>> /\ heard'[Len(heard')] = x
         /\ \A i \in 1..Len(heard) : i \in 1..Len(heard') /\ heard'[i] = heard[i]
<1>1. /\ heard' \in Seq(Items) /\ Len(heard') = Len(heard) + 1 /\ Len(heard) \in Nat
      /\ \A i \in 1..Len(heard) : heard'[i] = heard[i]
      /\ heard'[Len(heard) + 1] = x
  BY AppendProperties
<1>2. heard' # <<>> /\ heard'[Len(heard')] = x
  BY <1>1
<1>3. \A i \in 1..Len(heard) : i \in 1..Len(heard') /\ heard'[i] = heard[i]
  BY <1>1
<1>4. ASSUME NEW i \in 1..Len(heard'), heard'[i] # STOP
      PROVE  heard'[i] = IF i = 1 THEN START ELSE AfterItem(heard'[i - 1])
  <2>1. CASE i \in 1..Len(heard)
    <3>1. heard'[i] = heard[i] /\ (i # 1 => heard'[i - 1] = heard[i - 1])
      BY <1>1, <2>1
    <3> QED
      BY <1>4, <2>1, <3>1 DEF NoHole
  <2>2. CASE i = Len(heard) + 1
    <3>1. heard'[i] = x /\ (i = 1 <=> heard = <<>>)
      BY <1>1, <2>2
    <3>2. heard # <<>> => heard'[i - 1] = heard[Len(heard)]
      BY <1>1, <2>2
    <3> QED
      BY <1>4, <3>1, <3>2
  <2> QED
    BY <1>1, <2>1, <2>2
<1>5. NoHole'
  BY <1>4 DEF NoHole, AfterItem
<1> QED
  BY <1>2, <1>3, <1>5

\* The slave takes the frame at hand, or STOP, or neither.
LEMMA HeardSlave ==
  ASSUME HeardInv, LocalInv, LineInv, LocalSlave
  PROVE  HeardInv'
<1>1. PICK a \in LocalAnswers, reply \in BOOLEAN : SlaveDoes(a, reply)
  BY DEF LocalSlave
<1> DEFINE f == frames[1]
<1>2. /\ frames # <<>> /\ frames \in Seq(Sent) /\ heard \in Seq(Items) /\ content \in Nat
      /\ frames' = Tail(frames) /\ Head(frames) = f
      /\ UNCHANGED <<reader, got, song, place, blocks, content>>
  BY <1>1 DEF SlaveDoes, LocalInv, OnTheWay, Behind
<1>3. \/ heard' = heard /\ (a = SSAP_CMD_RESP_OKSEND => heard # <<>> /\ heard[Len(heard)] = f.item)
      \/ heard' = Append(heard, f.item) /\ (heard = <<>> \/ heard[Len(heard)] # f.item)
  BY <1>1, <1>2 DEF SlaveDoes
<1>4. PartAtHand'
  BY <1>2 DEF HeardInv, PartAtHand
<1>5. CASE place = "closed"
  <2>1. reader = "idle" /\ f.item = STOP /\ f.item \in Items
    <3>1. 1 \in 1..Len(frames)
      BY <1>2
    <3> QED
      BY <1>5, <3>1 DEF HeardInv, OneOnItsWay, Items
  <2>2. \A i \in 1..Len(frames') : frames'[i].item = STOP
    <3>1. \A i \in 1..Len(frames') : frames'[i] = frames[i + 1] /\ i + 1 \in 1..Len(frames)
      BY <1>2, HeadTailProperties
    <3> QED
      BY <1>5, <3>1 DEF HeardInv, OneOnItsWay
  <2>3. OneOnItsWay'
    BY <1>2, <1>5, <2>1, <2>2 DEF OneOnItsWay
  <2>4. NoHole' /\ \E i \in 1..Len(heard') : heard'[i] = content
    <3>1. CASE heard' = heard
      BY <1>2, <1>5, <3>1, HeardStays DEF HeardInv, HeardUpTo
    <3>2. CASE heard' = Append(heard, f.item)
      BY <1>2, <1>5, <2>1, <3>2, NoHoleAppended DEF HeardInv, HeardUpTo
    <3> QED
      BY <1>3, <3>1, <3>2
  <2> QED
    BY <1>2, <1>4, <1>5, <2>1, <2>3, <2>4 DEF HeardInv, HeardUpTo
<1>6. CASE place # "closed"
  <2>1. reader \in {"sync", "rest"} /\ frames = <<AtHand>> /\ Given = <<>>
    BY <1>2, <1>6 DEF HeardInv, OneOnItsWay
  <2>2. f.item = content /\ frames' = <<>> /\ place \in {"start", "header", "block"}
    BY <1>2, <2>1 DEF HeardInv, AtHand, Frame, SSAP_CMD_START, SSAP_CMD_DATA, SSAP_CMD_STOP
  <2>3. heard' = heard \/ (NoHole' /\ HasHeard')
    <3>1. CASE heard' # heard
      <4>1. heard' = Append(heard, content) /\ ~ HasHeard
        BY <1>3, <2>2, <3>1 DEF HasHeard
      <4>2. \/ heard = <<>> /\ content = START
            \/ heard # <<>> /\ content = AfterItem(heard[Len(heard)])
        <5>1. CASE place = "start"
          BY <4>1, <5>1 DEF HeardInv, HeardUpTo, LocalInv, OnTheWay
        <5>2. CASE place \in {"header", "block"}
          BY <4>1, <5>2 DEF HeardInv, HeardUpTo, Follows
        <5> QED
          BY <2>2, <5>1, <5>2
      <4>3. NoHole' /\ heard' # <<>> /\ heard'[Len(heard')] = content
        BY <1>2, <4>1, <4>2, NoHoleAppended DEF HeardInv, Items
      <4> QED
        BY <1>2, <4>1, <4>3 DEF HasHeard
    <3> QED
      BY <3>1
  <2>4. NoHole' /\ HeardUpTo'
    <3>1. CASE heard' = heard
      BY <1>2, <3>1, HeardStays DEF HeardInv, HeardUpTo
    <3>2. CASE NoHole' /\ HasHeard'
      BY <1>2, <2>2, <3>2 DEF HeardUpTo
    <3> QED
      BY <2>3, <3>1, <3>2
  <2>5. a = SSAP_CMD_RESP_OKSEND => HasHeard'
    BY <1>2, <1>3, <2>2, <2>3 DEF HasHeard
  <2>6. Given' = <<>> \/ Given' = <<[command |-> f.cmd, response |-> a]>>
    BY <1>1, <2>1, SlaveSteps
  <2>7. Given' = <<>> \/ (Len(Given') = 1 /\ Given'[1].response = a)
    BY <2>6
  <2>8. OneOnItsWay'
    BY <1>2, <2>1, <2>2, <2>5, <2>7 DEF OneOnItsWay
  <2> QED
    BY <1>2, <1>4, <2>4, <2>8 DEF HeardInv
<1> QED
  BY <1>5, <1>6

LEMMA HeardInvNext ==
  LocalInv /\ LineInv /\ (~ late => HeardInv) /\ [LocalNext]_playVars => (~ late => HeardInv)'
<1> SUFFICES ASSUME LocalInv, LineInv, ~ late => HeardInv, [LocalNext]_playVars, ~ late'
             PROVE  HeardInv'
  OBVIOUS
<1>1. ~ late
  BY DEF LocalNext, LocalPlayer, Open, Send, Answered, NextBlock, LocalStop, ReadByte, LocalSlave, SlaveDoes,
     playVars, localVars
<1>2. HeardInv
  BY <1>1
<1>3. CASE Open
  <2>1. /\ place = "open" /\ place' \in {"start", "exit"} /\ reader = "idle"
        /\ UNCHANGED <<line, reader, got, song, blocks, content, frames, heard>>
    BY <1>2, <1>3 DEF Open, readerVars, HeardInv
  <2>2. Given' = Given /\ NoHole'
    BY <1>2, <2>1, SameGiven, HeardStays DEF HeardInv
  <2>3. OneOnItsWay'
    BY <1>2, <2>1, <2>2 DEF HeardInv, OneOnItsWay
  <2>4. PartAtHand' /\ HeardUpTo'
    BY <1>2, <2>1 DEF HeardInv, PartAtHand, HeardUpTo
  <2> QED
    BY <2>1, <2>2, <2>3, <2>4 DEF HeardInv
<1>4. CASE UNCHANGED playVars
  <2>1. UNCHANGED <<line, reader, got, song, place, blocks, content, frames, heard>>
    BY <1>4 DEF playVars, readerVars, localVars
  <2>2. Given' = Given /\ NoHole' /\ HasHeard' = HasHeard /\ Follows' = Follows /\ AtHand' = AtHand
    BY <1>2, <2>1, SameGiven, HeardStays DEF HeardInv, AtHand, Frame
  <2>3. OneOnItsWay' /\ PartAtHand' /\ HeardUpTo'
    BY <1>2, <2>1, <2>2 DEF HeardInv, OneOnItsWay, PartAtHand, HeardUpTo
  <2> QED
    BY <1>2, <2>1, <2>2, <2>3 DEF HeardInv
<1> QED
  BY <1>1, <1>2, <1>3, <1>4, HeardSend, HeardAnswered, HeardNextBlock, HeardStop, HeardReads, HeardSlave
     DEF LocalNext, LocalPlayer

\* As long as no answer is late, whatever else the bus loses and wherever a read
\* fails, the slave of the older player hears the song without a hole: START,
\* the header of a PCM song, and the blocks up to the last that was sent.
THEOREM LocalHeardCorrect == LocalSpec => []LocalHeard
<1>1. LocalInit => LocalInv /\ Waits
  BY DEF LocalInit, LocalInv, OnTheWay, Behind, LocalInOrder, Newest, START, Items, Sent, ReaderInit, Waits
<1>2. (~ late => HeardInv) => LocalHeard
  BY DEF HeardInv, HeardUpTo, NoHole, LocalHeard
<1> QED
  BY <1>1, <1>2, HeardInit, LineInit, LineNext, LocalInvNext, WaitsNext, HeardInvNext, PTL DEF LocalSpec

-----------------------------------------------------------------------------
(* The checksum *)

(* Any numbers have a least one.                                                                                      *)
LEMMA LeastNumber ==
  ASSUME NEW S \in SUBSET Nat, S # {}
  PROVE  \E x \in S : \A y \in S : x =< y
<1> DEFINE before == OpToRel(<, Nat)
<1>1. IsWellFoundedOn(before, Nat)
  BY NatLessThanWellFounded, Zenon
<1>2. \A x, y \in Nat : y < x => <<y, x>> \in before
  BY DEF OpToRel
<1> HIDE DEF before
<1>3. \E x \in S : \A y \in S : ~ (<<y, x>> \in before)
  BY <1>1, WFMin, Zenon
<1>4. PICK x \in S : \A y \in S : ~ (<<y, x>> \in before)
  BY <1>3, Zenon
<1>5. \A y \in S : ~ (y < x)
  BY <1>2, <1>4, Zenon
<1> QED  BY <1>5

\* A polynomial has a degree.
Polynomials == {p \in SUBSET Nat : \E n \in Nat : \A i \in p : i < n}

\* r is the rest of the division of a frame and two bytes of zeros.
IsRest(r, message) ==
  r \in Word /\ \E q \in Polynomials : Shift(message, 16) = Times(q) ^^ r

LEMMA Exclusive == \A a, b, i : i \in a ^^ b <=> (i \in a) # (i \in b)
BY DEF ^^

LEMMA Shifted ==
  ASSUME NEW p \in SUBSET Int, NEW k \in Int
  PROVE  /\ Shift(p, k) \in SUBSET Int /\ \A i \in Int : i \in Shift(p, k) <=> i - k \in p
         /\ p \in SUBSET Nat /\ k \in Nat => Shift(p, k) \in SUBSET Nat
BY DEF Shift

LEMMA ExclusiveType == \A a, b \in SUBSET Int : a ^^ b \in SUBSET Int
BY DEF ^^

\* A product is shifted as its factor is, and distributes over the sum.
LEMMA TimesIs ==
  ASSUME NEW p \in SUBSET Int
  PROVE  /\ Times(p) \in SUBSET Int
         /\ \A i \in Int : i \in Times(p) <=> (((i - 16 \in p) # (i - 12 \in p)) # (i - 5 \in p)) # (i \in p)
<1>1. Shift(p, 16) \in SUBSET Int /\ Shift(p, 12) \in SUBSET Int /\ Shift(p, 5) \in SUBSET Int
  BY Shifted
<1>2. Times(p) \in SUBSET Int
  BY <1>1, ExclusiveType DEF Times
<1>3. \A i \in Int : /\ i \in Shift(p, 16) <=> i - 16 \in p
                     /\ i \in Shift(p, 12) <=> i - 12 \in p
                     /\ i \in Shift(p, 5) <=> i - 5 \in p
  BY Shifted
<1>4. \A i : i \in Times(p) <=> (((i \in Shift(p, 16)) # (i \in Shift(p, 12))) # (i \in Shift(p, 5))) # (i \in p)
  BY DEF Times, ^^
<1> QED  BY <1>2, <1>3, <1>4

LEMMA TimesAdds ==
  ASSUME NEW p \in SUBSET Int, NEW q \in SUBSET Int
  PROVE  Times(p ^^ q) = Times(p) ^^ Times(q)
<1>1. p ^^ q \in SUBSET Int /\ Times(p) ^^ Times(q) \in SUBSET Int
  BY TimesIs, ExclusiveType
<1>2. \A i \in Int : i \in Times(p ^^ q) <=> i \in Times(p) ^^ Times(q)
  <2> TAKE i \in Int
  <2>1. /\ i \in Times(p ^^ q) <=>
             (((i - 16 \in p ^^ q) # (i - 12 \in p ^^ q)) # (i - 5 \in p ^^ q)) # (i \in p ^^ q)
        /\ i \in Times(p) <=> (((i - 16 \in p) # (i - 12 \in p)) # (i - 5 \in p)) # (i \in p)
        /\ i \in Times(q) <=> (((i - 16 \in q) # (i - 12 \in q)) # (i - 5 \in q)) # (i \in q)
    BY <1>1, TimesIs
  <2>2. \A j : j \in p ^^ q <=> (j \in p) # (j \in q)
    BY Exclusive
  <2>3. i \in Times(p) ^^ Times(q) <=> (i \in Times(p)) # (i \in Times(q))
    BY Exclusive
  <2> QED  BY <2>1, <2>2, <2>3
<1> QED  BY <1>1, <1>2, TimesIs

LEMMA TimesShifts ==
  ASSUME NEW p \in SUBSET Int, NEW k \in Int
  PROVE  Times(Shift(p, k)) = Shift(Times(p), k)
<1>1. /\ Shift(p, k) \in SUBSET Int /\ Times(Shift(p, k)) \in SUBSET Int /\ Times(p) \in SUBSET Int
      /\ Shift(Times(p), k) \in SUBSET Int
  BY Shifted, TimesIs
<1>2. \A i \in Int : i \in Times(Shift(p, k)) <=> i \in Shift(Times(p), k)
  <2> TAKE i \in Int
  <2> DEFINE s == Shift(p, k)
  <2>1. i \in Times(s) <=> (((i - 16 \in s) # (i - 12 \in s)) # (i - 5 \in s)) # (i \in s)
    BY <1>1, TimesIs
  <2>2. i - k \in Times(p) <=> (((i - k - 16 \in p) # (i - k - 12 \in p)) # (i - k - 5 \in p)) # (i - k \in p)
    BY TimesIs
  <2>3. i \in Shift(Times(p), k) <=> i - k \in Times(p)
    BY <1>1, Shifted
  <2>4. \A j \in Int : j \in s <=> j - k \in p
    BY Shifted
  <2>5. /\ i - 16 \in s <=> i - k - 16 \in p /\ TRUE
        /\ i - 12 \in s <=> i - k - 12 \in p
        /\ i - 5 \in s <=> i - k - 5 \in p
    BY <2>4
  <2> QED  BY <2>1, <2>2, <2>3, <2>4, <2>5
<1> QED  BY <1>1, <1>2

\* Shifting distributes over the sum.
LEMMA ShiftAdds ==
  ASSUME NEW p \in SUBSET Int, NEW q \in SUBSET Int, NEW k \in Int
  PROVE  Shift(p ^^ q, k) = Shift(p, k) ^^ Shift(q, k)
<1>1. p ^^ q \in SUBSET Int /\ Shift(p, k) \in SUBSET Int /\ Shift(q, k) \in SUBSET Int
  BY Shifted, ExclusiveType
<1>2. Shift(p ^^ q, k) \in SUBSET Int /\ Shift(p, k) ^^ Shift(q, k) \in SUBSET Int
  BY <1>1, Shifted, ExclusiveType
<1>3. \A i \in Int : i \in Shift(p ^^ q, k) <=> i \in Shift(p, k) ^^ Shift(q, k)
  BY <1>1, Shifted, Exclusive
<1> QED  BY <1>2, <1>3

LEMMA ShiftsAdd ==
  ASSUME NEW p \in SUBSET Int, NEW k \in Int, NEW l \in Int
  PROVE  Shift(Shift(p, k), l) = Shift(p, k + l)
<1>1. Shift(p, k) \in SUBSET Int /\ Shift(Shift(p, k), l) \in SUBSET Int /\ Shift(p, k + l) \in SUBSET Int
  BY Shifted
<1>2. \A i \in Int : i \in Shift(Shift(p, k), l) <=> i \in Shift(p, k + l)
  BY <1>1, Shifted
<1> QED  BY <1>1, <1>2

-----------------------------------------------------------------------------
LEMMA BitsAre == \A n, w : Bits(n, w) \in SUBSET (0..w - 1)
BY DEF Bits

\* A byte more, below the others.
LEMMA MessageGrows ==
  ASSUME NEW s \in Seq(0..255), NEW byte \in 0..255
  PROVE  /\ Message(s) \in SUBSET Nat
         /\ Message(Append(s, byte)) = Shift(Message(s), 8) ^^ Bits(byte, 8)
<1>1. ASSUME NEW t \in Seq(0..255)
      PROVE  /\ Message(t) \in SUBSET Nat
             /\ \A j \in Int : j \in Message(t) <=> \E i \in 1..Len(t) : j - 8 * (Len(t) - i) \in Bits(t[i], 8)
  <2>1. \A i \in 1..Len(t) : /\ Bits(t[i], 8) \in SUBSET (0..7) /\ 8 * (Len(t) - i) \in Nat
                             /\ Shift(Bits(t[i], 8), 8 * (Len(t) - i)) \in SUBSET Nat
                             /\ \A j \in Int : j \in Shift(Bits(t[i], 8), 8 * (Len(t) - i))
                                                 <=> j - 8 * (Len(t) - i) \in Bits(t[i], 8)
    <3> TAKE i \in 1..Len(t)
    <3> DEFINE own == Bits(t[i], 8)
    <3>1. own \in SUBSET (0..7)
      BY BitsAre
    <3>2. 8 * (Len(t) - i) \in Nat
      BY LenProperties
    <3>3. own \in SUBSET Nat /\ own \in SUBSET Int /\ 8 * (Len(t) - i) \in Int
      BY <3>1, <3>2
    <3> HIDE DEF own
    <3>4. \A k \in Nat : /\ Shift(own, k) \in SUBSET Nat
                         /\ \A j \in Int : j \in Shift(own, k) <=> j - k \in own
      BY <3>3, Shifted
    <3> QED  BY <3>1, <3>2, <3>4 DEF own
  <2> QED  BY <2>1 DEF Message
<1> DEFINE t == Append(s, byte)
<1>2. t \in Seq(0..255) /\ Len(t) = Len(s) + 1 /\ Len(s) \in Nat /\ t[Len(t)] = byte /\ \A i \in 1..Len(s) : t[i] = s[i]
  BY AppendProperties, LenProperties
<1> HIDE DEF t
<1>3. ASSUME NEW j \in Int
      PROVE  j \in Message(t) <=> j \in Shift(Message(s), 8) ^^ Bits(byte, 8)
  <2>1. j \in Message(t) <=> \E i \in 1..Len(s) + 1 : j - 8 * (Len(s) + 1 - i) \in Bits(t[i], 8)
    <3>1. j \in Message(t) <=> \E i \in 1..Len(t) : j - 8 * (Len(t) - i) \in Bits(t[i], 8)
      BY <1>1, <1>2
    <3> QED  BY <1>2, <3>1
  <2>2. j \in Shift(Message(s), 8) <=> \E i \in 1..Len(s) : j - 8 - 8 * (Len(s) - i) \in Bits(s[i], 8)
    <3>1. Message(s) \in SUBSET Int /\ j - 8 \in Int
      BY <1>1
    <3>2. j \in Shift(Message(s), 8) <=> j - 8 \in Message(s)
      BY <3>1, Shifted
    <3> QED  BY <1>1, <3>1, <3>2
  <2>3. (\E i \in 1..Len(s) + 1 : j - 8 * (Len(s) + 1 - i) \in Bits(t[i], 8))
          <=> j \in Bits(byte, 8) \/ \E i \in 1..Len(s) : j - 8 - 8 * (Len(s) - i) \in Bits(s[i], 8)
    <3>1. \A i \in 1..Len(s) : j - 8 * (Len(s) + 1 - i) = j - 8 - 8 * (Len(s) - i)
      BY <1>2
    <3>2. j - 8 * (Len(s) + 1 - (Len(s) + 1)) = j
      BY <1>2
    <3>3. 1..Len(s) + 1 = 1..Len(s) \cup {Len(s) + 1}
      BY <1>2
    <3> QED  BY <1>2, <3>1, <3>2, <3>3, Zenon
  <2>4. j \in Bits(byte, 8) => j < 8
    BY BitsAre
  <2>5. j \in Shift(Message(s), 8) => j >= 8
    BY <1>1, Shifted
  <2>6. j \in Shift(Message(s), 8) ^^ Bits(byte, 8) <=> (j \in Shift(Message(s), 8)) # (j \in Bits(byte, 8))
    BY Exclusive
  <2> QED  BY <2>1, <2>2, <2>3, <2>4, <2>5, <2>6
<1>4. Message(s) \in SUBSET Int /\ Message(t) \in SUBSET Int
  BY <1>1, <1>2
<1>5. Shift(Message(s), 8) ^^ Bits(byte, 8) \in SUBSET Int
  <2>1. Bits(byte, 8) \in SUBSET Int
    BY BitsAre
  <2> QED  BY <1>4, <2>1, Shifted, ExclusiveType
<1> QED  BY <1>1, <1>3, <1>4, <1>5 DEF t

-----------------------------------------------------------------------------
\* The halves of the register.
LEMMA Halves ==
  ASSUME NEW r \in Word
  PROVE  Left8(r) \in Word /\ Right8(r) \in Octet /\ Shift(r, 8) = Left8(r) ^^ Shift(Right8(r), 16)
<1>1. r \in SUBSET Int /\ Shift(r, 8) \in SUBSET Int
  BY Shifted DEF Word
<1>2. Left8(r) \in Word /\ \A i \in Int : i \in Left8(r) <=> i - 8 \in r /\ i - 8 \in 0..7
  BY DEF Left8, Word
<1>3. Right8(r) \in Octet /\ \A i \in Int : i \in Right8(r) <=> i + 8 \in r /\ i + 8 \in 8..15
  BY DEF Right8, Word, Octet
<1>4. Shift(Right8(r), 16) \in SUBSET Int
  BY <1>3, Shifted DEF Octet
<1>5. Left8(r) ^^ Shift(Right8(r), 16) \in SUBSET Int
  BY <1>2, <1>4, ExclusiveType DEF Word
<1>6. \A i \in Int : i \in Shift(r, 8) <=> i \in Left8(r) ^^ Shift(Right8(r), 16)
  <2> TAKE i \in Int
  <2>1. i \in Shift(r, 8) <=> i - 8 \in r
    BY <1>1, Shifted
  <2>2. i \in Shift(Right8(r), 16) <=> i - 16 \in Right8(r)
    BY <1>3, Shifted DEF Octet
  <2>3. i - 16 \in Right8(r) <=> i - 8 \in r /\ i - 8 \in 8..15
    BY <1>3
  <2>4. i \in Left8(r) ^^ Shift(Right8(r), 16) <=> (i \in Left8(r)) # (i \in Shift(Right8(r), 16))
    BY Exclusive
  <2>5. i - 8 \in r => i - 8 \in 0..7 \/ i - 8 \in 8..15
    BY DEF Word
  <2> QED  BY <1>2, <2>1, <2>2, <2>3, <2>4, <2>5
<1> QED  BY <1>1, <1>2, <1>3, <1>5, <1>6

\* The rest is that of the division, and the quotient a polynomial.
CrcInv ==
  /\ bytes \in Seq(0..255)
  /\ quotient \in Polynomials
  /\ CrcIsRemainder

LEMMA CrcInductive == CrcSpec => []CrcInv
<1>1. CrcInit => CrcInv
  <2> SUFFICES ASSUME CrcInit
               PROVE  CrcInv
    OBVIOUS
  <2>1. bytes = <<>> /\ crc = {} /\ quotient = {}
    BY DEF CrcInit
  <2>2. Message(bytes) = {} /\ Shift(Message(bytes), 16) = {}
    <3>1. Len(bytes) = 0 /\ 1..0 = {}
      BY <2>1
    <3>2. Message(bytes) = {}
      BY <3>1, Zenon DEF Message
    <3> QED  BY <3>2 DEF Shift
  <2>3. Times({}) ^^ {} = {}
    BY DEF Times, Shift, ^^
  <2>4. {} \in Polynomials
    BY DEF Polynomials
  <2>5. bytes \in Seq(0..255) /\ crc \in Word
    BY <2>1 DEF Word
  <2> QED  BY <2>1, <2>2, <2>3, <2>4, <2>5 DEF CrcInv, CrcIsRemainder
<1>2. CrcInv /\ [get_crc16_nbs]_crcVars => CrcInv'
  <2> SUFFICES ASSUME CrcInv, [get_crc16_nbs]_crcVars
               PROVE  CrcInv'
    OBVIOUS
  <2>1. CASE UNCHANGED crcVars
    BY <2>1 DEF CrcInv, CrcIsRemainder, crcVars
  <2>2. CASE get_crc16_nbs
    <3> DEFINE m == Message(bytes)
               q == quotient
    <3>1. PICK b \in 0..255 : /\ bytes' = Append(bytes, b)
                              /\ crc' = Turn(crc, Bits(b, 8))
                              /\ quotient' = Shift(quotient, 8) ^^ QuotientOf[Bits(b, 8) ^^ Right8(crc)]
      BY <2>2, CrcAssumption DEF get_crc16_nbs
    <3> DEFINE byte == Bits(b, 8)
               top  == byte ^^ Right8(crc)
               own  == QuotientOf[top]
    <3>2. /\ bytes \in Seq(0..255) /\ q \in Polynomials /\ crc \in Word
          /\ Shift(m, 16) = Times(q) ^^ crc
      BY DEF CrcInv, CrcIsRemainder
    <3>3. m \in SUBSET Nat /\ Message(bytes') = Shift(m, 8) ^^ byte
      BY <3>1, <3>2, MessageGrows
    <3>4. byte \in Octet
      BY BitsAre DEF Octet
    <3>5. Left8(crc) \in Word /\ Right8(crc) \in Octet /\ Shift(crc, 8) = Left8(crc) ^^ Shift(Right8(crc), 16)
      BY <3>2, Halves
    <3>6. top \in Octet
      BY <3>4, <3>5 DEF Octet, ^^
    <3>7. own \in Octet /\ Shift(top, 16) = Times(own) ^^ Table[top]
      BY <3>6, TableDivides
    <3>8. Table[top] \in Word
      BY <3>6, BitsAre DEF Table, Word
    <3>9. crc' = Left8(crc) ^^ Table[top] /\ crc' \in Word
      BY <3>1, <3>5, <3>8 DEF Turn, Word, ^^
    <3>10. quotient' = Shift(q, 8) ^^ own
      BY <3>1
    <3> HIDE DEF m, q, byte, top, own
    <3>11. /\ m \in SUBSET Int /\ q \in SUBSET Int /\ crc \in SUBSET Int /\ byte \in SUBSET Int /\ own \in SUBSET Int
           /\ Right8(crc) \in SUBSET Int /\ Left8(crc) \in SUBSET Int /\ Table[top] \in SUBSET Int
      BY <3>2, <3>3, <3>4, <3>5, <3>7, <3>8 DEF Octet, Word, Polynomials
    <3>12. quotient' \in Polynomials
      <4>1. Shift(q, 8) \in SUBSET Nat /\ \A i \in Int : i \in Shift(q, 8) <=> i - 8 \in q
        <5>1. q \in SUBSET Nat
          BY <3>2 DEF Polynomials
        <5>2. q \in SUBSET Int /\ 8 \in Nat /\ 8 \in Int
          BY <5>1
        <5> QED  BY <5>1, <5>2, Shifted
      <4>2. PICK n \in Nat : \A i \in q : i < n
        BY <3>2 DEF Polynomials
      <4>3. \A i \in own : i \in Nat /\ i < 8
        BY <3>7 DEF Octet
      <4>4. quotient' \subseteq Shift(q, 8) \cup own
        BY <3>10 DEF ^^
      <4>5. \A i \in quotient' : i \in Nat /\ i < n + 8
        <5> TAKE i \in quotient'
        <5>1. CASE i \in own
          BY <4>3, <5>1
        <5>2. CASE i \in Shift(q, 8)
          BY <4>1, <4>2, <5>2
        <5> QED  BY <4>4, <5>1, <5>2
      <4>6. n + 8 \in Nat
        OBVIOUS
      <4> QED  BY <4>5, <4>6 DEF Polynomials
    <3>13. Shift(Message(bytes'), 16) = Times(quotient') ^^ crc'
      <4>1. Shift(m, 8) \in SUBSET Int /\ Shift(q, 8) \in SUBSET Int /\ Times(q) \in SUBSET Int
        BY <3>11, Shifted, TimesIs
      <4>2. Shift(Message(bytes'), 16) = Shift(Shift(m, 8), 16) ^^ Shift(byte, 16)
        BY <3>3, <3>11, <4>1, ShiftAdds
      <4>3. Shift(Shift(m, 8), 16) = Shift(Shift(m, 16), 8)
        BY <3>11, ShiftsAdd
      <4>4. Shift(Shift(m, 16), 8) = Shift(Times(q), 8) ^^ Shift(crc, 8)
        BY <3>2, <3>11, <4>1, ShiftAdds
      <4>5. Shift(Times(q), 8) = Times(Shift(q, 8))
        BY <3>11, TimesShifts
      <4>6. Shift(top, 16) = Shift(byte, 16) ^^ Shift(Right8(crc), 16)
        BY <3>11, ShiftAdds DEF top
      <4>7. Times(quotient') = Times(Shift(q, 8)) ^^ Times(own)
        BY <3>10, <3>11, <4>1, TimesAdds
      <4> DEFINE a == Times(Shift(q, 8))
                 l == Left8(crc)
                 h == Shift(Right8(crc), 16)
                 x == Shift(byte, 16)
                 y == Times(own)
                 z == Table[top]
      <4>8. Shift(Message(bytes'), 16) = (a ^^ (l ^^ h)) ^^ x
        BY <3>5, <4>2, <4>3, <4>4, <4>5
      <4>9. x ^^ h = y ^^ z
        BY <3>7, <4>6
      <4>10. Times(quotient') ^^ crc' = (a ^^ y) ^^ (l ^^ z)
        BY <3>9, <4>7
      <4> HIDE DEF a, l, h, x, y, z
      <4>11. (a ^^ (l ^^ h)) ^^ x = (a ^^ l) ^^ (x ^^ h)
        BY DEF ^^
      <4>12. (a ^^ y) ^^ (l ^^ z) = (a ^^ l) ^^ (y ^^ z)
        BY DEF ^^
      <4> QED  BY <4>8, <4>9, <4>10, <4>11, <4>12
    <3>14. bytes' \in Seq(0..255)
      BY <3>1, <3>2, AppendProperties
    <3> QED  BY <3>9, <3>12, <3>13, <3>14 DEF CrcInv, CrcIsRemainder
  <2> QED  BY <2>1, <2>2
<1> QED  BY <1>1, <1>2, PTL DEF CrcSpec

THEOREM CrcCorrect == CrcSpec => []CrcIsRemainder
<1>1. CrcInv => CrcIsRemainder
  BY DEF CrcInv
<1> QED  BY <1>1, CrcInductive, PTL

\* A polynomial but 0 has a lowest and a highest bit.
LEMMA Extremes ==
  ASSUME NEW p \in Polynomials, p # {}
  PROVE  \E low, high \in p : \A i \in p : low =< i /\ i =< high
<1>1. p \in SUBSET Nat
  BY DEF Polynomials
<1>2. PICK low \in p : \A i \in p : low =< i
  BY <1>1, LeastNumber
<1> DEFINE bounds == {n \in Nat : \A i \in p : i < n}
<1>3. bounds \in SUBSET Nat /\ bounds # {}
  BY DEF Polynomials
<1>4. PICK n \in bounds : \A m \in bounds : n =< m
  BY <1>3, LeastNumber
<1>5. n \in Nat /\ \A i \in p : i \in Nat /\ i < n
  BY <1>1, <1>4
<1>6. n - 1 \in Nat
  BY <1>2, <1>5
<1>7. n - 1 \notin bounds
  BY <1>4, <1>5, <1>6
<1>8. PICK high \in p : ~ high < n - 1
  BY <1>6, <1>7
<1>9. \A i \in p : i =< high
  BY <1>5, <1>8
<1> QED  BY <1>2, <1>9

\* The lowest bit of a product is that of its factor, its highest 16 above it.
LEMMA ProductSpans ==
  ASSUME NEW q \in Polynomials, q # {}
  PROVE  \E low, high \in q : low =< high /\ low \in Times(q) /\ high + 16 \in Times(q)
<1>1. PICK low \in q, high \in q : \A i \in q : low =< i /\ i =< high
  BY Extremes
<1>2. q \in SUBSET Int /\ low \in Nat /\ high \in Nat
  BY DEF Polynomials
<1>3. low - 16 \notin q /\ low - 12 \notin q /\ low - 5 \notin q
  BY <1>1, <1>2
<1>4. high + 16 \notin q /\ high + 16 - 12 \notin q /\ high + 16 - 5 \notin q /\ high + 16 - 16 \in q
  BY <1>1, <1>2
<1>5. low \in Times(q)
  BY <1>2, <1>3, TimesIs
<1>6. high + 16 \in Times(q)
  BY <1>2, <1>4, TimesIs
<1> QED  BY <1>1, <1>5, <1>6

\* The sum of two polynomials, and of two products.
LEMMA Sums ==
  ASSUME NEW p \in Polynomials, NEW q \in Polynomials
  PROVE  p ^^ q \in Polynomials
<1>1. PICK n \in Nat, m \in Nat : (\A i \in p : i < n) /\ (\A i \in q : i < m)
  BY DEF Polynomials
<1>2. p \in SUBSET Nat /\ q \in SUBSET Nat /\ p ^^ q \subseteq p \cup q
  BY DEF Polynomials, ^^
<1>3. \A i \in p ^^ q : i < n + m
  <2> TAKE i \in p ^^ q
  <2>1. i \in Nat /\ (i \in p \/ i \in q)
    BY <1>2
  <2>2. i < n \/ i < m
    BY <1>1, <2>1
  <2> QED  BY <2>1, <2>2
<1>4. n + m \in Nat
  OBVIOUS
<1>5. p ^^ q \in SUBSET Nat
  BY <1>2
<1> QED  BY <1>3, <1>4, <1>5 DEF Polynomials

(* The checksum is that of the frame alone: the division has one rest.                                                *)
THEOREM RestIsUnique ==
  ASSUME NEW m \in SUBSET Nat, NEW r, NEW s, IsRest(r, m), IsRest(s, m)
  PROVE  r = s
<1>1. PICK p \in Polynomials : Shift(m, 16) = Times(p) ^^ r
  BY DEF IsRest
<1>2. PICK q \in Polynomials : Shift(m, 16) = Times(q) ^^ s
  BY DEF IsRest
<1>3. r \in Word /\ s \in Word
  BY DEF IsRest
<1>4. p \in SUBSET Int /\ q \in SUBSET Int
  BY DEF Polynomials
<1>5. Times(p ^^ q) = Times(p) ^^ Times(q)
  BY <1>4, TimesAdds
<1>6. Times(p) ^^ Times(q) = r ^^ s
  BY <1>1, <1>2 DEF ^^
<1>7. p ^^ q = {}
  <2>1. SUFFICES ASSUME p ^^ q # {}
                 PROVE  FALSE
    OBVIOUS
  <2>2. p ^^ q \in Polynomials
    BY Sums
  <2>3. PICK high \in p ^^ q : high + 16 \in Times(p ^^ q)
    BY <2>1, <2>2, ProductSpans
  <2>4. high \in Nat /\ high + 16 \in r ^^ s
    BY <1>5, <1>6, <2>2, <2>3 DEF Polynomials
  <2>5. r ^^ s \subseteq 0..15
    BY <1>3 DEF Word, ^^
  <2> QED  BY <2>4, <2>5
<1>8. r ^^ s = {}
  BY <1>5, <1>6, <1>7 DEF Times, Shift, ^^
<1> QED  BY <1>8 DEF ^^

(* What the checksum is for: two frames with the same one differ in bits that are 16 places or more apart, so no      *)
(* change of one bit and no burst of 16 passes for the frame that was sent.                                           *)
THEOREM BurstShows ==
  ASSUME NEW m \in SUBSET Nat, NEW l \in SUBSET Nat, NEW r, IsRest(r, m), IsRest(r, l), m # l
  PROVE  \E i, j \in m ^^ l : j >= i + 16
<1>1. PICK p \in Polynomials : Shift(m, 16) = Times(p) ^^ r
  BY DEF IsRest
<1>2. PICK q \in Polynomials : Shift(l, 16) = Times(q) ^^ r
  BY DEF IsRest
<1>3. p \in SUBSET Int /\ q \in SUBSET Int /\ m \in SUBSET Int /\ l \in SUBSET Int
  BY DEF Polynomials
<1>4. Times(p ^^ q) = Times(p) ^^ Times(q)
  BY <1>3, TimesAdds
<1>5. Shift(m ^^ l, 16) = Shift(m, 16) ^^ Shift(l, 16)
  BY <1>3, ShiftAdds
<1>6. Shift(m, 16) ^^ Shift(l, 16) = Times(p) ^^ Times(q)
  BY <1>1, <1>2 DEF ^^
<1>7. m ^^ l \in SUBSET Int /\ m ^^ l # {}
  BY <1>3 DEF ^^
<1>8. \A i \in Int : i \in Times(p ^^ q) <=> i - 16 \in m ^^ l
  BY <1>4, <1>5, <1>6, <1>7, Shifted
<1>9. p ^^ q # {}
  <2>1. PICK i \in Int : i \in m ^^ l
    BY <1>7
  <2>2. i + 16 \in Int /\ i + 16 - 16 = i
    OBVIOUS
  <2>3. i + 16 \in Times(p ^^ q)
    BY <1>8, <2>1, <2>2
  <2>4. Times({}) = {}
    BY DEF Times, Shift, ^^
  <2> QED  BY <2>3, <2>4
<1>10. p ^^ q \in Polynomials
  BY Sums
<1>11. PICK low \in p ^^ q, high \in p ^^ q : low =< high /\ low \in Times(p ^^ q) /\ high + 16 \in Times(p ^^ q)
  BY <1>9, <1>10, ProductSpans
<1>12. low \in Int /\ high \in Int /\ high + 16 \in Int /\ high + 16 - 16 = high
  BY <1>10 DEF Polynomials
<1>13. low - 16 \in m ^^ l /\ high \in m ^^ l /\ high >= (low - 16) + 16
  BY <1>8, <1>11, <1>12
<1> QED  BY <1>13

=============================================================================
