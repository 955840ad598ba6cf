------------------------- MODULE SocketServerProofs -------------------------
(***************************************************************************)
(* Proofs about SocketServer, for any number of services, slots and ids:   *)
(* the invariants of SocketServerInv are inductive, and the properties     *)
(* follow from them.                                                       *)
(***************************************************************************)
EXTENDS SocketServerInv, SequenceTheorems, FiniteSetTheorems, TLAPS

-----------------------------------------------------------------------------
(* Lemmas about the operators of the model. *)

\* An id is known by its slot and its tag.
LEMMA TagIsId ==
    ASSUME NEW i \in Nat, NEW j \in Nat,
           HASH_ID(i) = HASH_ID(j), ID_TAG16(i) = ID_TAG16(j)
    PROVE  i = j
<1>1. MAX_SOCKET \in Nat \ {0}
  BY SocketAssumption
<1>2. ASSUME NEW m \in Nat \ {0}, NEW x \in Nat
      PROVE  x = m * (x \div m) + (x % m)
  OBVIOUS
<1>3. i = MAX_SOCKET * ID_TAG16(i) + HASH_ID(i) /\ j = MAX_SOCKET * ID_TAG16(j) + HASH_ID(j)
  BY <1>1, <1>2 DEF HASH_ID, ID_TAG16
<1>. QED
  BY <1>3

LEMMA HashType ==
    ASSUME NEW i \in Nat
    PROVE  HASH_ID(i) \in Slot /\ ID_TAG16(i) \in Nat
<1>1. MAX_SOCKET \in Nat \ {0}
  BY SocketAssumption
<1>. QED
  BY <1>1 DEF HASH_ID, ID_TAG16, Slot

\* What a step that sets one slot does to the table.
LEMMA OneSlot ==
    ASSUME slot \in [Slot -> Record], NEW k \in Slot, NEW r \in Record,
           SetSlot(k, r)
    PROVE  /\ slot' \in [Slot -> Record] /\ slot'[k] = r
           /\ \A j \in Slot \ {k} : slot'[j] = slot[j]
  BY DEF SetSlot

LEMMA NewFdFields ==
    ASSUME NEW r \in Record, NEW id \in Id, NEW type \in Type,
           NEW reading \in BOOLEAN, NEW writing \in BOOLEAN,
           NEW s, s = NewFd(r, id, type, reading, writing)
    PROVE  /\ s \in Record
           /\ s.id = id /\ s.type = type /\ s.protocol = "TCP" /\ ~s.closing
           /\ s.tag = ID_TAG16(id) /\ s.sending = 0 /\ s.dw_buffer = NULL
           /\ s.high = r.high /\ s.low = r.low
<1>1. ID_TAG16(id) \in Nat /\ id \in 0..MaxId /\ 0 \in 0..MAX_SENDING
  BY HashType, SocketAssumption DEF Id
<1>. QED
  BY <1>1 DEF NewFd, Record

\* r and s are the same socket: they differ at most in what is done on it.
Alike(r, s) ==
    /\ s.id = r.id /\ s.protocol = r.protocol /\ s.tag = r.tag
    /\ s.type = r.type /\ s.closing = r.closing

LEMMA CloseReadFields ==
    ASSUME NEW r \in Record
    PROVE  LET s == CloseRead(r) IN
           /\ s \in Record /\ s.id = r.id /\ s.protocol = r.protocol /\ s.tag = r.tag
           /\ s.type = "HALFCLOSE_READ" /\ s.sending = r.sending
           /\ s.high = r.high /\ s.low = r.low /\ s.dw_buffer = r.dw_buffer
           /\ s.writing = r.writing
  BY DEF CloseRead, Record, Type

LEMMA ClosedFields ==
    ASSUME NEW r \in Record
    PROVE  LET s == Closed(r) IN
           /\ s \in Record /\ s.id = r.id /\ s.protocol = r.protocol /\ s.tag = r.tag
           /\ s.type = "INVALID" /\ s.sending = r.sending /\ send_buffer_empty(s)
<1>1. <<>> \in Seq(Buffer)
  BY EmptySeq
<1>. QED
  BY <1>1 DEF Closed, Record, Type, send_buffer_empty

LEMMA QueuedFields ==
    ASSUME NEW r \in Record, NEW p \in Packet
    PROVE  LET s == Queued(r, p) IN
           /\ s \in Record /\ Alike(r, s) /\ s.sending = r.sending
           /\ s.dw_buffer = r.dw_buffer
           /\ s.writing \/ (s.writing = r.writing /\ ~send_buffer_empty(r))
<1>. DEFINE b == [p |-> p, off |-> 0]
<1>1. b \in Buffer
  BY DEF Buffer
<1>2. ASSUME NEW q \in Seq(Buffer) PROVE Append(q, b) \in Seq(Buffer)
  BY <1>1, AppendProperties
<1>. HIDE DEF b
<1>3. Append(r.high, b) \in Seq(Buffer) /\ Append(r.low, b) \in Seq(Buffer)
  BY <1>2 DEF Record
<1>4. Queued(r, p) = IF send_buffer_empty(r)
                     THEN [r EXCEPT !.high = Append(@, b), !.writing = TRUE]
                     ELSE IF p.high THEN [r EXCEPT !.high = Append(@, b)]
                                    ELSE [r EXCEPT !.low = Append(@, b)]
  BY DEF Queued, b
<1>5. CASE send_buffer_empty(r)
  <2>1. Queued(r, p) = [r EXCEPT !.high = Append(r.high, b), !.writing = TRUE]
    BY <1>4, <1>5
  <2>. QED BY <1>3, <2>1 DEF Record, Alike
<1>6. CASE ~send_buffer_empty(r) /\ p.high
  BY <1>3, <1>4, <1>6 DEF Record, Alike
<1>7. CASE ~send_buffer_empty(r) /\ ~p.high
  BY ZenonT(40), <1>3, <1>4, <1>7 DEF Record, Alike
<1>. QED
  BY <1>5, <1>6, <1>7

LEMMA TakeDirectFields ==
    ASSUME NEW r \in Record
    PROVE  LET s == TakeDirect(r) IN
           /\ s \in Record /\ Alike(r, s) /\ s.sending = r.sending
           /\ s.dw_buffer = NULL /\ s.writing = r.writing
           /\ send_buffer_empty(r) /\ r.dw_buffer = NULL => send_buffer_empty(s)
<1>1. CASE r.dw_buffer = NULL
  BY <1>1 DEF TakeDirect, Alike
<1>2. CASE r.dw_buffer # NULL
  <2>1. <<r.dw_buffer>> \o r.high \in Seq(Buffer)
    <3>1. r.dw_buffer \in Buffer /\ r.high \in Seq(Buffer)
      BY <1>2 DEF Record
    <3>2. <<r.dw_buffer>> \in Seq(Buffer)
      BY <3>1
    <3>. QED BY <3>1, <3>2, ConcatProperties
  <2>2. TakeDirect(r) = [r EXCEPT !.high = <<r.dw_buffer>> \o r.high, !.dw_buffer = NULL]
    BY <1>2 DEF TakeDirect, Record
  <2>. QED BY <1>2, <2>1, <2>2 DEF Record, Alike
<1>. QED
  BY <1>1, <1>2

\* What n packets written leave of the two lists.
LEMMA RestOfLists ==
    ASSUME NEW S, NEW h \in Seq(S), NEW l \in Seq(S), NEW n \in Nat,
           n <= Len(h) + Len(l)
    PROVE  LET high == SubSeq(h, n + 1, Len(h))
               low == IF n <= Len(h) THEN l ELSE SubSeq(l, n - Len(h) + 1, Len(l))
           IN  /\ high \in Seq(S) /\ low \in Seq(S)
               /\ n < Len(h) + Len(l) /\ high = <<>> => low # <<>>
               /\ h = <<>> /\ l = <<>> => high = <<>> /\ low = <<>>
<1>. DEFINE high == SubSeq(h, n + 1, Len(h))
            low == IF n <= Len(h) THEN l ELSE SubSeq(l, n - Len(h) + 1, Len(l))
<1>1. Len(h) \in Nat /\ Len(l) \in Nat
  BY LenProperties
<1>2. high \in Seq(S) /\ Len(high) = IF n <= Len(h) THEN Len(h) - n ELSE 0
  <2>1. \A i \in (n + 1)..Len(h) : h[i] \in S
    BY <1>1, ElementOfSeq
  <2>2. /\ high \in Seq(S)
        /\ Len(high) = IF n + 1 <= Len(h) THEN Len(h) - (n + 1) + 1 ELSE 0
    BY <1>1, <2>1, SubSeqProperties
  <2>. QED BY <1>1, <2>2
<1>3. /\ low \in Seq(S)
      /\ Len(low) = IF n <= Len(h) THEN Len(l) ELSE Len(h) + Len(l) - n
  <2>1. CASE n <= Len(h)
    BY <1>1, <2>1
  <2>2. CASE n > Len(h)
    <3>. DEFINE m == n - Len(h) + 1
    <3>1. m \in Nat /\ m <= Len(l) + 1 /\ \A i \in m..Len(l) : l[i] \in S
      BY <1>1, <2>2, ElementOfSeq
    <3>2. low = SubSeq(l, m, Len(l))
      BY <1>1, <2>2
    <3>. HIDE DEF m, low
    <3>3. /\ low \in Seq(S)
          /\ Len(low) = IF m <= Len(l) THEN Len(l) - m + 1 ELSE 0
      BY <1>1, <3>1, <3>2, SubSeqProperties
    <3>. QED BY <1>1, <2>2, <3>1, <3>3 DEF m
  <2>. QED BY <1>1, <2>1, <2>2
<1>4. ASSUME NEW q \in Seq(S) PROVE q = <<>> <=> Len(q) = 0
  BY EmptySeq
<1>. HIDE DEF high, low
<1>5. /\ h = <<>> <=> Len(h) = 0
      /\ l = <<>> <=> Len(l) = 0
      /\ high = <<>> <=> Len(high) = 0
      /\ low = <<>> <=> Len(low) = 0
  BY <1>2, <1>3, <1>4
<1>6. ASSUME n < Len(h) + Len(l), Len(high) = 0 PROVE Len(low) # 0
  BY <1>1, <1>2, <1>3, <1>6
<1>7. ASSUME Len(h) = 0, Len(l) = 0 PROVE Len(high) = 0 /\ Len(low) = 0
  BY <1>1, <1>2, <1>3, <1>7
<1>8. /\ high \in Seq(S) /\ low \in Seq(S)
      /\ n < Len(h) + Len(l) /\ high = <<>> => low # <<>>
      /\ h = <<>> /\ l = <<>> => high = <<>> /\ low = <<>>
  BY <1>2, <1>3, <1>5, <1>6, <1>7
<1>. QED
  BY <1>8 DEF high, low

\* What one call of send_list_tcp on each list leaves of them.
LEMMA WrittenFields ==
    ASSUME NEW r \in Record, NEW n \in 0..Len(r.high \o r.low), NEW part \in 0..1,
           n = Len(r.high \o r.low) => part = 0
    PROVE  LET s == Written(r, n, part) IN
           /\ s \in Record /\ Alike(r, s) /\ s.sending = r.sending
           /\ s.dw_buffer = r.dw_buffer /\ s.writing = r.writing
           /\ send_buffer_empty(r) => send_buffer_empty(s)
<1>. DEFINE high == SubSeq(r.high, n + 1, Len(r.high))
            low  == IF n <= Len(r.high) THEN r.low
                    ELSE SubSeq(r.low, n - Len(r.high) + 1, Len(r.low))
<1>1. PICK h \in Seq(Buffer), l \in Seq(Buffer) : h = r.high /\ l = r.low
  BY DEF Record
<1>2. /\ n \in Nat /\ n <= Len(h) + Len(l) /\ (n = Len(h) + Len(l) => part = 0)
      /\ (part = 1 => n < Len(h) + Len(l))
  <2>1. Len(h \o l) = Len(h) + Len(l) /\ Len(h) \in Nat /\ Len(l) \in Nat
    BY ConcatProperties, LenProperties
  <2>2. n \in 0..(Len(h) + Len(l)) /\ (n = Len(h) + Len(l) => part = 0)
    BY <1>1, <2>1
  <2>. QED BY <2>1, <2>2
<1>3. /\ high \in Seq(Buffer) /\ low \in Seq(Buffer)
      /\ part = 1 /\ high = <<>> => low # <<>>
      /\ h = <<>> /\ l = <<>> => part = 0 /\ high = <<>> /\ low = <<>>
  <2>1. /\ high = SubSeq(h, n + 1, Len(h))
        /\ low = IF n <= Len(h) THEN l ELSE SubSeq(l, n - Len(h) + 1, Len(l))
    BY <1>1
  <2>. HIDE DEF high, low
  <2>2. h = <<>> /\ l = <<>> => part = 0
    BY <1>2, EmptySeq
  <2>3. LET hi == SubSeq(h, n + 1, Len(h))
            lo == IF n <= Len(h) THEN l ELSE SubSeq(l, n - Len(h) + 1, Len(l))
        IN  /\ hi \in Seq(Buffer) /\ lo \in Seq(Buffer)
            /\ n < Len(h) + Len(l) /\ hi = <<>> => lo # <<>>
            /\ h = <<>> /\ l = <<>> => hi = <<>> /\ lo = <<>>
    BY <1>2, RestOfLists
  <2>. QED
    BY <1>2, <2>1, <2>2, <2>3
<1>4. send_buffer_empty(r) => part = 0 /\ high = <<>> /\ low = <<>>
  <2>. HIDE DEF high, low
  <2>. QED BY <1>1, <1>3 DEF send_buffer_empty
<1>5. Written(r, n, part) =
        IF part = 0 THEN [r EXCEPT !.high = high, !.low = low]
        ELSE IF high # <<>> THEN [r EXCEPT !.high = [high EXCEPT ![1].off = 1]]
        ELSE [r EXCEPT !.high = <<[Head(low) EXCEPT !.off = 1]>>, !.low = Tail(low)]
  BY DEF Written
<1>. HIDE DEF high, low
<1>6. CASE part = 0
  BY ZenonT(40), <1>3, <1>4, <1>5, <1>6 DEF Record, Alike, send_buffer_empty
<1>7. CASE part = 1 /\ high # <<>>
  <2>. DEFINE q == [high EXCEPT ![1].off = 1]
  <2>1. 1 \in 1..Len(high) /\ high[1] \in Buffer
    BY <1>3, <1>7, EmptySeq, LenProperties, ElementOfSeq
  <2>2. [high[1] EXCEPT !.off = 1] \in Buffer
    BY <2>1 DEF Buffer
  <2>3. [high EXCEPT ![1] = [high[1] EXCEPT !.off = 1]] \in Seq(Buffer)
    BY <1>3, <2>1, <2>2, ExceptSeq
  <2>4. q \in Seq(Buffer)
    BY <2>3
  <2>5. Written(r, n, part) = [r EXCEPT !.high = q]
    BY <1>5, <1>7
  <2>. HIDE DEF q
  <2>. QED
    BY <1>4, <1>7, <2>4, <2>5 DEF Record, Alike
<1>8. CASE part = 1 /\ high = <<>>
  <2>. DEFINE q == <<[Head(low) EXCEPT !.off = 1]>>
  <2>1. Head(low) \in Buffer /\ Tail(low) \in Seq(Buffer)
    BY <1>3, <1>8, HeadTailProperties
  <2>2. q \in Seq(Buffer)
    <3>1. PICK b \in Buffer : b = Head(low)
      BY <2>1
    <3>2. [b EXCEPT !.off = 1] \in Buffer
      BY DEF Buffer
    <3>3. ASSUME NEW c \in Buffer PROVE <<c>> \in Seq(Buffer)
      OBVIOUS
    <3>. QED BY <3>1, <3>2, <3>3
  <2>3. Written(r, n, part) = [r EXCEPT !.high = q, !.low = Tail(low)]
    BY <1>5, <1>8
  <2>. HIDE DEF q
  <2>4. ~send_buffer_empty(r)
    BY <1>4, <1>8
  <2>5. LET s == [r EXCEPT !.high = q, !.low = Tail(low)] IN
        /\ s \in Record /\ Alike(r, s) /\ s.sending = r.sending
        /\ s.dw_buffer = r.dw_buffer /\ s.writing = r.writing
    <3>1. ASSUME NEW x \in Seq(Buffer), NEW y \in Seq(Buffer)
          PROVE  LET s == [r EXCEPT !.high = x, !.low = y] IN
                 /\ s \in Record /\ Alike(r, s) /\ s.sending = r.sending
                 /\ s.dw_buffer = r.dw_buffer /\ s.writing = r.writing
      BY DEF Record, Alike
    <3>. QED
      BY <2>1, <2>2, <3>1, Zenon
  <2>. QED
    BY <2>3, <2>4, <2>5
<1>. QED
  BY <1>6, <1>7, <1>8

\* close_write and the end of send_buffer.
LEMMA CloseWriteFields ==
    ASSUME NEW r \in Record
    PROVE  LET s == CloseWrite(r) IN
           /\ s \in Record /\ s.id = r.id /\ s.protocol = r.protocol /\ s.tag = r.tag
           /\ s.sending = r.sending
           /\ \/ /\ s.type = "INVALID" /\ send_buffer_empty(s)
                 /\ (r.closing \/ r.type = "HALFCLOSE_READ")
              \/ /\ s.type = "HALFCLOSE_WRITE" /\ s.closing = r.closing
                 /\ ~r.closing /\ r.type # "HALFCLOSE_READ"
<1>1. CASE r.closing \/ r.type = "HALFCLOSE_READ"
  BY <1>1, ClosedFields DEF CloseWrite
<1>2. CASE ~r.closing /\ r.type = "HALFCLOSE_WRITE"
  BY <1>2 DEF CloseWrite
<1>3. CASE ~(r.closing \/ r.type \in {"HALFCLOSE_READ", "HALFCLOSE_WRITE"})
  BY <1>3 DEF CloseWrite, Record, Type
<1>. QED
  BY <1>1, <1>2, <1>3

LEMMA CheckCloseFields ==
    ASSUME NEW r \in Record
    PROVE  LET s == CheckClose(r) IN
           /\ s \in Record /\ s.id = r.id /\ s.protocol = r.protocol /\ s.tag = r.tag
           /\ s.sending = r.sending
           /\ \/ s.type = "INVALID" /\ send_buffer_empty(s) /\ r.closing
              \/ /\ s.type = r.type /\ s.closing = r.closing /\ s.high = r.high
                 /\ s.low = r.low /\ s.dw_buffer = r.dw_buffer
                 /\ ~send_buffer_empty(r) => s.writing = r.writing
<1>1. CASE ~send_buffer_empty(r)
  BY <1>1 DEF CheckClose
<1>2. CASE send_buffer_empty(r) /\ r.closing
  BY <1>2, ClosedFields DEF CheckClose
<1>3. CASE send_buffer_empty(r) /\ ~r.closing
  BY <1>3 DEF CheckClose, Record
<1>. QED
  BY <1>1, <1>2, <1>3

-----------------------------------------------------------------------------
(* What a step does to the slots, to the ids and to the commands: every     *)
(* action is one of these.                                                  *)

SlotTypes == slot \in [Slot -> Record]

\* No slot comes into the middle of reserve_id, or leaves it.
SameHalves == \A k \in Slot : HalfReserved(k)' <=> HalfReserved(k)

Elsewhere(k) == \A j \in Slot \ {k} : slot'[j] = slot[j]

SlotsAlike ==
    \A k \in Slot : /\ Alike(slot[k], slot'[k])
                    /\ slot[k].type \in Dead => send_buffer_empty(slot'[k])
SameSending == \A k \in Slot : slot'[k].sending = slot[k].sending

SameIds == UNCHANGED <<alloc_id, opened, closes>>
SameThread == pc' # "force" \/ UNCHANGED <<pc, doomed>>
SameSenders == UNCHANGED <<at, job, reserving>>

\* The jobs go on, and nobody starts or ends to wait with a counted packet.
SendersGoOn ==
    /\ UNCHANGED reserving
    /\ \A t \in Sender :
        /\ at'[t] # "idle" => job'[t].id \in opened
        /\ at'[t] = "request" <=> at[t] = "request"
        /\ at[t] = "request" => job'[t] = job[t]

Takes(cmds) == pipe # <<>> /\ Head(pipe).cmd \in cmds /\ pipe' = Tail(pipe)
Asks(cmds) == \E c \in Cmd : /\ c.cmd \in cmds /\ c.id \in Known
                              /\ pipe' = Append(pipe, c)
Late == Control \ Opening   \* commands about an id that has been opened
PipeGoesOn == pipe' = pipe \/ Takes(Late) \/ Asks(Late)

Quiet == SlotsAlike /\ SameSending /\ SameIds /\ SameThread /\ SendersGoOn /\ PipeGoesOn

\* reserve_id, and the command that follows it.
Reserves(t, k) ==
    /\ slot[k].type = "INVALID" /\ Elsewhere(k) /\ reserving[t].step = "none"
    /\ alloc_id' \in Id /\ alloc_id' > alloc_id /\ HASH_ID(alloc_id') = k
    /\ slot'[k].id = slot[k].id /\ slot'[k].type = "RESERVE"
    /\ slot'[k].protocol = slot[k].protocol /\ slot'[k].tag = slot[k].tag
    /\ slot'[k].sending = slot[k].sending /\ send_buffer_empty(slot'[k])
    /\ \E cmd \in Opening : reserving' =
            [reserving EXCEPT ![t] = [step |-> "id", id |-> alloc_id', cmd |-> cmd]]
    /\ UNCHANGED <<opened, closes, pipe, pc, doomed, at, job>>

Names(t, k) ==
    /\ Elsewhere(k) /\ reserving[t].step = "id" /\ HASH_ID(reserving[t].id) = k
    /\ slot'[k].id = reserving[t].id /\ slot'[k].type = slot[k].type
    /\ slot'[k].protocol = "UNKNOWN" /\ send_buffer_empty(slot'[k])
    /\ reserving' = [reserving EXCEPT ![t].step = "open"]
    /\ SameIds /\ UNCHANGED <<pipe, pc, doomed, at, job>>

Requires(t) ==
    /\ reserving[t].step = "open"
    /\ \E c \in Cmd : /\ c.cmd \in Opening /\ c.id = reserving[t].id
                      /\ pipe' = Append(pipe, c)
    /\ reserving' = [reserving EXCEPT ![t] = NotReserving]
    /\ SameIds /\ UNCHANGED <<slot, pc, doomed, at, job>>

\* new_fd, for an id that was reserved, and for a connection that is accepted.
IsNew(k, types) ==
    /\ slot'[k].type \in types /\ slot'[k].protocol = "TCP"
    /\ slot'[k].tag = ID_TAG16(slot'[k].id) /\ ~slot'[k].closing
    /\ slot'[k].sending = 0

Opens(k) ==
    /\ Use(k) = "RESERVE" /\ Elsewhere(k)
    /\ Takes(Opening) /\ slot[k].id = Head(pipe).id /\ slot'[k].id = slot[k].id
    /\ IsNew(k, {"CONNECTED", "CONNECTING", "PLISTEN"})
    /\ \/ opened' = opened
       \/ slot'[k].type = "CONNECTED" /\ opened' = opened \cup {slot[k].id}
    /\ UNCHANGED <<alloc_id, closes>> /\ SameSenders /\ pc' # "force"

OpenFails(k) ==
    /\ Use(k) = "RESERVE" /\ Elsewhere(k)
    /\ Takes(Opening) /\ slot[k].id = Head(pipe).id /\ slot'[k].id = slot[k].id
    /\ slot'[k].type = "INVALID" /\ slot'[k].protocol = slot[k].protocol
    /\ send_buffer_empty(slot'[k])
    /\ SameIds /\ SameSenders /\ pc' # "force"

Accepts(k) ==
    /\ slot[k].type = "INVALID" /\ Elsewhere(k)
    /\ alloc_id' \in Id /\ alloc_id' > alloc_id /\ HASH_ID(alloc_id') = k
    /\ slot'[k].id = alloc_id' /\ IsNew(k, {"PACCEPT"})
    /\ UNCHANGED <<opened, closes, pipe>> /\ SameSenders /\ pc' # "force"

\* The same socket, in another state.
Becomes(k) ==
    /\ slot[k].type \notin Dead /\ Elsewhere(k)
    /\ slot'[k].id = slot[k].id /\ slot'[k].protocol = slot[k].protocol
    /\ slot'[k].tag = slot[k].tag /\ slot'[k].sending = slot[k].sending
    /\ UNCHANGED alloc_id /\ SameSenders /\ pc' # "force"
    /\ pipe' = pipe \/ Takes(Late)

Turns(k) ==
    /\ Becomes(k)
    /\ slot[k].type # "HALFCLOSE_READ" /\ slot'[k].closing = slot[k].closing
    /\ slot'[k].type \in Type \ (Dead \cup {"HALFCLOSE_READ", "CONNECTING"})
    /\ opened' = opened \/ opened' = opened \cup {slot[k].id}
    /\ UNCHANGED closes

RaisesClose(k) == closes' = [closes EXCEPT ![slot[k].id] = @ + 1]

Halves(k) ==
    /\ Becomes(k)
    /\ slot'[k].type = "HALFCLOSE_READ"
    /\ \/ slot[k].type = "HALFCLOSE_READ" /\ UNCHANGED closes
       \/ slot[k].type # "HALFCLOSE_READ" /\ RaisesClose(k)
    /\ UNCHANGED opened

Ends(k) ==
    /\ Becomes(k)
    /\ slot'[k].type = "INVALID" /\ send_buffer_empty(slot'[k])
    /\ \/ slot[k].type \in {"HALFCLOSE_READ", "CONNECTING"} /\ UNCHANGED closes
       \/ slot[k].type # "HALFCLOSE_READ" /\ RaisesClose(k)
    /\ UNCHANGED opened

Dooms ==
    /\ SlotsAlike /\ SameSending /\ SameIds /\ SameSenders /\ Forced'
    /\ pipe' = pipe \/ Takes(Late)

\* IncSending, SendRequest and SendSocket: a packet on its way through the pipe.
Incs(t) ==
    /\ at[t] = "inc" /\ at' = [at EXCEPT ![t] = "request"]
    /\ SlotsAlike
    /\ \A k \in Slot : slot'[k].sending =
            IF slot[k].protocol = "TCP" /\ slot[k].id = job[t].id
            THEN slot[k].sending + 1 ELSE slot[k].sending
    /\ SameIds /\ UNCHANGED <<pc, doomed, pipe, job, reserving>>

Posts(t) ==
    /\ at[t] = "request" /\ at' = [at EXCEPT ![t] = "idle"]
    /\ job' = [job EXCEPT ![t] = NULL]
    /\ \E c \in Cmd : c.cmd = "send" /\ c.id = job[t].id /\ pipe' = Append(pipe, c)
    /\ SameIds /\ UNCHANGED <<slot, pc, doomed, reserving>>

Delivers ==
    /\ Takes({"send"}) /\ SlotsAlike
    /\ \A k \in Slot : slot'[k].sending =
            IF slot[k].protocol = "TCP" /\ slot[k].id = Head(pipe).id
            THEN slot[k].sending - 1 ELSE slot[k].sending
    /\ SameIds /\ SameSenders /\ UNCHANGED <<pc, doomed>>

Effect ==
    \/ Quiet \/ Dooms \/ Delivers
    \/ \E t \in Sender : Requires(t) \/ \E k \in Slot : Reserves(t, k) \/ Names(t, k)
    \/ \E k \in Slot : Opens(k) \/ OpenFails(k) \/ Accepts(k)
                      \/ Turns(k) \/ Halves(k) \/ Ends(k)
    \/ \E t \in Sender : Incs(t) \/ Posts(t)

\* What every action needs of the types.
LEMMA HeadOfPipe ==
    ASSUME pipe \in Seq(Cmd), pipe # <<>>
    PROVE  /\ Head(pipe) \in Cmd /\ Tail(pipe) \in Seq(Cmd)
           /\ id_ \in Id /\ k_ \in Slot
           /\ Head(pipe).cmd \in Control \cup {"send"}
           /\ Head(pipe).cmd = "send" => Head(pipe).p \in Packet
           /\ 1 \in DOMAIN pipe /\ Head(pipe) = pipe[1]
<1>1. /\ Head(pipe) \in Cmd /\ Tail(pipe) \in Seq(Cmd)
      /\ 1 \in DOMAIN pipe /\ Head(pipe) = pipe[1]
  BY HeadTailProperties, EmptySeq, LenProperties
<1>2. /\ Head(pipe).id \in Id
      /\ Head(pipe).cmd \in Control \cup {"send"}
      /\ Head(pipe).cmd = "send" => Head(pipe).p \in Packet
  <2>1. CASE Head(pipe) \in [cmd : Control, id : Id]
    BY <2>1 DEF Control, Opening
  <2>2. CASE Head(pipe) \in [cmd : {"send"}, id : Id, p : Packet]
    BY <2>2
  <2>. QED BY <1>1, <2>1, <2>2 DEF Cmd
<1>3. k_ \in Slot
  BY <1>2, HashType DEF k_, id_, Id
<1>. QED
  BY <1>1, <1>2, <1>3 DEF id_

LEMMA HeadOfEvents ==
    ASSUME ev \in Seq(Report), ev # <<>>
    PROVE  /\ Head(ev) \in Report /\ Tail(ev) \in Seq(Report)
           /\ s_ \in Slot /\ AfterRead \in Seq(Report)
<1>1. Head(ev) \in Report /\ Tail(ev) \in Seq(Report)
  BY HeadTailProperties
<1>2. s_ \in Slot
  BY <1>1 DEF s_, Report
<1>3. [s |-> s_, k |-> "w"] \in Report
  BY <1>2 DEF Report
<1>4. <<[s |-> s_, k |-> "w"]>> \o Tail(ev) \in Seq(Report)
  <2>1. ASSUME NEW e \in Report PROVE <<e>> \o Tail(ev) \in Seq(Report)
    <3>1. <<e>> \in Seq(Report)
      OBVIOUS
    <3>. QED BY <1>1, <3>1, ConcatProperties
  <2>. QED BY <1>3, <2>1
<1>. QED
  BY <1>1, <1>2, <1>4 DEF AfterRead

LEMMA SameSlots ==
    ASSUME Types, Placed, slot' = slot
    PROVE  SlotTypes' /\ SlotsAlike /\ SameSending
  BY DEF Types, SlotTypes, Placed, SlotPlaced, SlotsAlike, SameSending, Alike

LEMMA AlikeSlot ==
    ASSUME Types, Placed, NEW k \in Slot, NEW r \in Record, SetSlot(k, r),
           Alike(slot[k], r), slot[k].type \in Dead => send_buffer_empty(r)
    PROVE  /\ SlotTypes' /\ SlotsAlike /\ Elsewhere(k) /\ slot'[k] = r
           /\ r.sending = slot[k].sending => SameSending
<1>1. /\ slot' \in [Slot -> Record] /\ slot'[k] = r
      /\ \A j \in Slot \ {k} : slot'[j] = slot[j]
  BY OneSlot DEF Types
<1>. QED
  BY <1>1 DEF SlotTypes, Placed, SlotPlaced, SlotsAlike, SameSending, Alike, Elsewhere

LEMMA SendersStay ==
    ASSUME Types, Sent, UNCHANGED <<at, job, reserving>>
    PROVE  SendersGoOn
  BY DEF Sent, SendersGoOn

LEMMA CommandTypes ==
    ASSUME NEW c \in Late, NEW i \in 1..alloc_id, alloc_id \in 0..MaxId
    PROVE  [cmd |-> c, id |-> i] \in Cmd
<1>1. c \in Control /\ i \in Id
  BY SocketAssumption DEF Late, Id
<1>. QED
  BY <1>1 DEF Cmd

\* What is being reserved.
LEMMA TicketType ==
    ASSUME Types, NEW t \in Sender
    PROVE  /\ reserving[t].step \in {"none", "id", "open"}
           /\ reserving[t].step = "none" => reserving[t].id = 0
           /\ reserving[t].step # "none" =>
                /\ reserving[t].id \in Id /\ reserving[t].cmd \in Opening
                /\ HASH_ID(reserving[t].id) \in Slot
           /\ reserving[t] \in Ticket /\ DOMAIN reserving = Sender
<1>1. reserving[t] \in Ticket /\ DOMAIN reserving = Sender
  BY DEF Types, SenderTypes
<1>2. CASE reserving[t] = NotReserving
  BY <1>1, <1>2 DEF NotReserving
<1>3. CASE reserving[t] \in [step : {"id", "open"}, id : Id, cmd : Opening]
  <2>1. reserving[t].step \in {"id", "open"} /\ reserving[t].id \in Id /\ reserving[t].cmd \in Opening
    BY <1>3
  <2>2. HASH_ID(reserving[t].id) \in Slot
    BY <2>1, HashType DEF Id
  <2>. QED BY <1>1, <2>1, <2>2
<1>. QED
  BY <1>1, <1>2, <1>3 DEF Ticket

\* Ids that have been opened are known.
LEMMA OpenedKnown ==
    ASSUME Inv, NEW id \in opened
    PROVE  id \in Known /\ id \in 1..alloc_id
<1>1. id \in Id /\ id <= alloc_id /\ alloc_id \in Nat
  BY DEF Inv, Types, ThreadTypes, SenderTypes, Sent
<1>2. id \in 1..alloc_id
  BY <1>1 DEF Id
<1>3. ASSUME NEW t \in Sender PROVE reserving[t].id # id
  <2>1. reserving[t].step = "none" => reserving[t].id = 0
    BY TicketType DEF Inv
  <2>2. reserving[t].step # "none" => reserving[t].id \notin opened
    BY DEF Inv, Tickets, Ticketed
  <2>. QED BY <1>2, <2>1, <2>2
<1>. QED
  BY <1>2, <1>3 DEF Known

LEMMA HalvesSame ==
    ASSUME UNCHANGED reserving
    PROVE  \A k : HalfReserved(k)' <=> HalfReserved(k)
  BY DEF HalfReserved

\* Services that only ask for something.
LEMMA AskEffect ==
    ASSUME Inv, NEW t \in Sender, StartPause(t) \/ Close(t) \/ Shutdown(t)
    PROVE  SlotTypes' /\ Effect /\ Assertions'
<1>1. \E id \in Known, c \in Late : pipe' = Append(pipe, [cmd |-> c, id |-> id])
  <2>. USE DEF Request, Late, Control, Opening
  <2>1. CASE StartPause(t)
    BY <2>1 DEF StartPause
  <2>2. CASE Close(t)
    BY <2>2 DEF Close
  <2>3. CASE Shutdown(t)
    BY <2>3 DEF Shutdown
  <2>. QED BY <2>1, <2>2, <2>3
<1>2. Asks(Late)
  <2>1. PICK id \in Known, c \in Late : pipe' = Append(pipe, [cmd |-> c, id |-> id])
    BY <1>1
  <2>0. id \in 1..alloc_id
    BY DEF Known
  <2>2. PICK m \in Cmd : m = [cmd |-> c, id |-> id]
    BY <2>0, CommandTypes DEF Inv, Types, ThreadTypes
  <2>. QED BY <2>1, <2>2 DEF Asks
<1>3. /\ slot' = slot /\ SameIds /\ UNCHANGED <<pc, doomed, at, job, reserving, failed>>
  BY DEF StartPause, Close, Shutdown, SameIds, sendVars
<1>. QED
  BY <1>2, <1>3, SameSlots, SendersStay
     DEF Inv, Quiet, PipeGoesOn, SameThread, Effect, Assertions

LEMMA ReserveTypeEffect ==
    ASSUME Inv, NEW t \in Sender, ReserveType(t)
    PROVE  SlotTypes' /\ Effect /\ Assertions'
<1>1. PICK id \in Id, cmd \in Opening :
        /\ Reservable(id) /\ alloc_id' = id
        /\ SetSlot(HASH_ID(id), [slot[HASH_ID(id)] EXCEPT !.type = "RESERVE"])
        /\ reserving' = [reserving EXCEPT ![t] = [step |-> "id", id |-> id, cmd |-> cmd]]
  BY DEF ReserveType, Opening
<1>2. /\ UNCHANGED <<opened, closes, pipe, pc, doomed, at, job, failed>>
      /\ reserving[t].step = "none"
  BY DEF ReserveType, Call
<1>3. PICK k \in Slot : k = HASH_ID(id)
  BY HashType DEF Id
<1>4. slot[k] \in Record /\ slot \in [Slot -> Record] /\ id > alloc_id
  BY <1>1 DEF Inv, Types, ThreadTypes, Id, Reservable
<1>5. slot[k].type = "INVALID" /\ send_buffer_empty(slot[k])
  BY <1>1, <1>3, <1>4 DEF Reservable, Inv, Placed, SlotPlaced, Dead
<1>6. PICK q \in Record : q = slot[k]
  BY <1>4
<1>. DEFINE r == [q EXCEPT !.type = "RESERVE"]
<1>7. /\ r \in Record /\ r.type = "RESERVE" /\ r.id = q.id /\ r.protocol = q.protocol
      /\ r.tag = q.tag /\ r.sending = q.sending /\ r.high = q.high /\ r.low = q.low
  BY DEF Record, Type
<1>8. SetSlot(k, r)
  BY <1>1, <1>3, <1>6
<1>. HIDE DEF r
<1>9. slot' \in [Slot -> Record] /\ slot'[k] = r /\ Elsewhere(k)
  BY <1>4, <1>7, <1>8, OneSlot DEF Elsewhere
<1>10. send_buffer_empty(slot'[k])
  BY <1>5, <1>6, <1>7, <1>9 DEF send_buffer_empty
<1>11. Reserves(t, k)
  BY <1>1, <1>2, <1>3, <1>4, <1>5, <1>6, <1>7, <1>9, <1>10 DEF Reserves
<1>. QED
  BY <1>2, <1>3, <1>9, <1>11 DEF Effect, SlotTypes, Inv, Assertions

LEMMA ReserveIdEffect ==
    ASSUME Inv, NEW t \in Sender, ReserveId(t)
    PROVE  SlotTypes' /\ Effect /\ Assertions'
<1>1. PICK id : id = reserving[t].id
  OBVIOUS
<1>2. /\ SetSlot(HASH_ID(id), [slot[HASH_ID(id)] EXCEPT !.id = id, !.protocol = "UNKNOWN"])
      /\ reserving' = [reserving EXCEPT ![t].step = "open"]
      /\ SameIds /\ UNCHANGED <<pipe, pc, doomed, at, job, failed>>
      /\ reserving[t].step = "id"
  BY <1>1 DEF ReserveId, Reserving, SameIds, history
<1>3. id \in Id /\ HASH_ID(id) \in Slot
  BY <1>1, <1>2, TicketType DEF Inv
<1>4. PICK k \in Slot : k = HASH_ID(id)
  BY <1>3
<1>5. slot[k] \in Record /\ slot \in [Slot -> Record] /\ slot[k].type = "RESERVE"
  BY <1>1, <1>2, <1>4 DEF Inv, Types, Tickets, Ticketed
<1>6. send_buffer_empty(slot[k])
  BY <1>5 DEF Inv, Placed, SlotPlaced, Dead
<1>7. PICK q \in Record : q = slot[k]
  BY <1>5
<1>. DEFINE r == [q EXCEPT !.id = id, !.protocol = "UNKNOWN"]
<1>8. /\ r \in Record /\ r.type = q.type /\ r.id = id /\ r.protocol = "UNKNOWN"
      /\ r.high = q.high /\ r.low = q.low
  <2>1. id \in 0..MaxId
    BY <1>3, SocketAssumption DEF Id
  <2>. QED BY <2>1 DEF Record
<1>9. SetSlot(k, r)
  BY <1>2, <1>4, <1>7
<1>. HIDE DEF r
<1>10. slot' \in [Slot -> Record] /\ slot'[k] = r /\ Elsewhere(k)
  BY <1>5, <1>8, <1>9, OneSlot DEF Elsewhere
<1>11. send_buffer_empty(slot'[k])
  BY <1>6, <1>7, <1>8, <1>10 DEF send_buffer_empty
<1>12. Names(t, k)
  BY <1>1, <1>2, <1>4, <1>7, <1>8, <1>10, <1>11 DEF Names
<1>. QED
  BY <1>2, <1>10, <1>12 DEF Effect, SlotTypes, Inv, Assertions

LEMMA OpenRequestEffect ==
    ASSUME Inv, NEW t \in Sender, OpenRequest(t)
    PROVE  SlotTypes' /\ Effect /\ Assertions'
<1>1. /\ reserving[t].step = "open"
      /\ pipe' = Append(pipe, [cmd |-> reserving[t].cmd, id |-> reserving[t].id])
      /\ reserving' = [reserving EXCEPT ![t] = NotReserving]
      /\ SameIds /\ UNCHANGED <<slot, pc, doomed, at, job, failed>>
  BY DEF OpenRequest, Reserving, Request, SameIds, history
<1>2. reserving[t].id \in Id /\ reserving[t].cmd \in Opening
  BY <1>1, TicketType DEF Inv
<1>3. PICK m \in Cmd : m = [cmd |-> reserving[t].cmd, id |-> reserving[t].id]
  BY <1>2 DEF Cmd, Control
<1>4. Requires(t)
  BY <1>1, <1>2, <1>3 DEF Requires
<1>. QED
  BY <1>1, <1>4, SameSlots DEF Effect, Inv, Assertions

LEMMA SendEffect ==
    ASSUME Inv, NEW t \in Sender, Send(t)
    PROVE  SlotTypes' /\ Effect /\ Assertions'
<1>1. PICK id \in 1..alloc_id, high \in BOOLEAN :
        LET k == HASH_ID(id)
            direct == high /\ can_direct_write(slot[k], id) /\ slot[k].dw_lock = NULL
        IN  /\ id \in opened
            /\ job' = [job EXCEPT ![t] = [id |-> id, p |-> NewPacket(t, high)]]
            /\ at' = [at EXCEPT ![t] = IF direct THEN "locked" ELSE "inc"]
            /\ slot' = IF direct THEN [slot EXCEPT ![k].dw_lock = t] ELSE slot
  BY DEF Send, Known
<1>2. at[t] = "idle" /\ SameIds /\ UNCHANGED <<pc, doomed, pipe, reserving, failed>>
  BY DEF Send, Call, At, SameIds
<1>. DEFINE k == HASH_ID(id)
<1>3. k \in Slot /\ slot[k] \in Record /\ slot \in [Slot -> Record]
  BY SMTT(30), HashType DEF Inv, Types, ThreadTypes
<1>4. SlotTypes' /\ SlotsAlike /\ SameSending
  <2>1. CASE slot' = slot
    BY <2>1, SameSlots DEF Inv
  <2>2. CASE slot' = [slot EXCEPT ![k].dw_lock = t]
    <3>1. PICK q \in Record : q = slot[k]
      BY <1>3
    <3>. DEFINE r == [q EXCEPT !.dw_lock = t]
    <3>2. /\ r \in Record /\ Alike(q, r) /\ r.sending = q.sending
          /\ r.high = q.high /\ r.low = q.low
      BY DEF Record, Alike
    <3>3. SetSlot(k, r)
      BY <1>3, <2>2, <3>1 DEF SetSlot
    <3>4. slot[k].type \in Dead => send_buffer_empty(r)
      BY <1>3, <3>1, <3>2 DEF Inv, Placed, SlotPlaced, send_buffer_empty
    <3>. HIDE DEF r
    <3>. QED
      BY <1>3, <3>1, <3>2, <3>3, <3>4, AlikeSlot DEF Inv
  <2>. QED BY <1>1, <2>1, <2>2
<1>5. SendersGoOn
  <2>1. at \in [Sender -> Place] /\ DOMAIN job = Sender
    BY DEF Inv, Types, SenderTypes
  <2>2. /\ job'[t].id = id /\ id \in opened /\ at'[t] # "request"
        /\ \A u \in Sender \ {t} : job'[u] = job[u] /\ at'[u] = at[u]
    BY <1>1, <2>1
  <2>. QED
    BY <1>2, <2>2 DEF SendersGoOn, Inv, Sent
<1>. QED
  BY <1>2, <1>4, <1>5 DEF Effect, Quiet, SameThread, PipeGoesOn, Inv, Assertions

\* What a direct write does to the slot it works on.
LEMMA DirectWriteCases ==
    ASSUME NEW t, DirectWrite(t), NEW id, id = job[t].id, NEW k, k = HASH_ID(id),
           NEW q, q = slot[k]
    PROVE  LET r == [q EXCEPT !.dw_lock = NULL] IN
           \/ SetSlot(k, r)
           \/ \E n \in 0..1 :
                /\ SetSlot(k, [r EXCEPT !.dw_buffer = [p |-> job[t].p, off |-> n]])
                /\ can_direct_write(r, id)
                /\ at' = [at EXCEPT ![t] = "trigger"] /\ job' = job
<1>. DEFINE r == [q EXCEPT !.dw_lock = NULL]
            w(n) == [r EXCEPT !.dw_buffer = [p |-> job[t].p, off |-> n]]
<1>1. \/ SetSlot(k, r)
      \/ /\ can_direct_write(r, id)
         /\ \E n \in 0..2 :
              /\ SetSlot(k, IF n = 2 THEN r ELSE w(n))
              /\ at' = [at EXCEPT ![t] = IF n = 2 THEN "idle" ELSE "trigger"]
              /\ job' = IF n = 2 THEN [job EXCEPT ![t] = NULL] ELSE job
  BY Zenon DEF DirectWrite
<1>. HIDE DEF r, w
<1>2. ASSUME can_direct_write(r, id), NEW n \in 0..2,
             SetSlot(k, IF n = 2 THEN r ELSE w(n)),
             at' = [at EXCEPT ![t] = IF n = 2 THEN "idle" ELSE "trigger"],
             job' = IF n = 2 THEN [job EXCEPT ![t] = NULL] ELSE job
      PROVE  \/ SetSlot(k, r)
             \/ \E m \in 0..1 :
                  /\ SetSlot(k, w(m)) /\ can_direct_write(r, id)
                  /\ at' = [at EXCEPT ![t] = "trigger"] /\ job' = job
  <2>1. CASE n = 2
    BY <1>2, <2>1
  <2>2. CASE n # 2
    <3>1. n \in 0..1
      BY <2>2
    <3>. QED BY <1>2, <2>2, <3>1
  <2>. QED BY <2>1, <2>2
<1>3. \/ SetSlot(k, r)
      \/ \E m \in 0..1 :
           /\ SetSlot(k, w(m)) /\ can_direct_write(r, id)
           /\ at' = [at EXCEPT ![t] = "trigger"] /\ job' = job
  BY <1>1, <1>2
<1>. QED
  BY <1>3 DEF r, w

LEMMA DirectWriteEffect ==
    ASSUME Inv, NEW t \in Sender, DirectWrite(t)
    PROVE  SlotTypes' /\ Effect /\ Assertions'
<1>1. at[t] = "locked" /\ SameIds /\ UNCHANGED <<pc, doomed, pipe, reserving, failed>>
  BY DEF DirectWrite, At, SameIds
<1>2. job[t] \in Job /\ job[t].id \in opened /\ job[t].p \in Packet
  BY <1>1 DEF Inv, Types, SenderTypes, Sent, Job
<1>. DEFINE id == job[t].id
            k == HASH_ID(id)
<1>a. id \in Nat
  BY <1>2 DEF Job, Id
<1>3. k \in Slot /\ slot[k] \in Record /\ slot \in [Slot -> Record]
  BY <1>a, HashType DEF Inv, Types
<1>4. PICK q \in Record : q = slot[k]
  BY <1>3
<1>. DEFINE r == [q EXCEPT !.dw_lock = NULL]
            w(n) == [r EXCEPT !.dw_buffer = [p |-> job[t].p, off |-> n]]
<1>5. /\ r \in Record /\ Alike(q, r) /\ r.sending = q.sending
      /\ r.high = q.high /\ r.low = q.low
  BY DEF Record, Alike
<1>6. ASSUME NEW n \in 0..1
      PROVE  /\ w(n) \in Record /\ Alike(q, w(n)) /\ w(n).sending = q.sending
             /\ w(n).high = q.high /\ w(n).low = q.low
  <2>1. [p |-> job[t].p, off |-> n] \in Buffer
    BY <1>2 DEF Buffer
  <2>. QED BY <1>5, <2>1 DEF Record, Alike
<1>7. \/ SetSlot(k, r)
      \/ \E n \in 0..1 : SetSlot(k, w(n))
  BY <1>4, DirectWriteCases
<1>8. \A x \in {r, w(0), w(1)} : slot[k].type \in Dead => send_buffer_empty(x)
  <2>. HIDE DEF r, w
  <2>1. \A x \in {r, w(0), w(1)} : x.high = q.high /\ x.low = q.low
    BY <1>5, <1>6
  <2>2. slot[k].type \in Dead => send_buffer_empty(q)
    BY <1>3, <1>4 DEF Inv, Placed, SlotPlaced
  <2>. QED BY <2>1, <2>2 DEF send_buffer_empty
<1>9. SlotTypes' /\ SlotsAlike /\ SameSending
  <2>. HIDE DEF r, w, k
  <2>1. CASE SetSlot(k, r)
    BY <1>3, <1>4, <1>5, <1>8, <2>1, AlikeSlot DEF Inv
  <2>2. ASSUME NEW n \in 0..1, SetSlot(k, w(n))
        PROVE  SlotTypes' /\ SlotsAlike /\ SameSending
    <3>1. n = 0 \/ n = 1
      OBVIOUS
    <3>. QED BY <1>3, <1>4, <1>6, <1>8, <2>2, <3>1, AlikeSlot DEF Inv
  <2>. QED BY <1>7, <2>1, <2>2
<1>10. SendersGoOn
  <2>1. at \in [Sender -> Place] /\ DOMAIN job = Sender
    BY DEF Inv, Types, SenderTypes
  <2>2. /\ at'[t] \in {"inc", "trigger", "idle"}
        /\ at'[t] # "idle" => job'[t] = job[t]
        /\ \A u \in Sender \ {t} : job'[u] = job[u] /\ at'[u] = at[u]
    BY <2>1 DEF DirectWrite
  <2>. QED
    BY <1>1, <1>2, <2>2 DEF SendersGoOn, Inv, Sent
<1>. QED
  BY <1>1, <1>9, <1>10 DEF Effect, Quiet, SameThread, PipeGoesOn, Inv, Assertions

LEMMA TriggerRequestEffect ==
    ASSUME Inv, NEW t \in Sender, TriggerRequest(t)
    PROVE  SlotTypes' /\ Effect /\ Assertions'
<1>1. /\ at[t] = "trigger" /\ slot' = slot /\ SameIds
      /\ UNCHANGED <<pc, doomed, reserving, failed>>
      /\ pipe' = Append(pipe, [cmd |-> "trigger", id |-> job[t].id])
      /\ at' = [at EXCEPT ![t] = "idle"] /\ job' = [job EXCEPT ![t] = NULL]
  BY DEF TriggerRequest, At, SameIds, Request, history
<1>2. /\ job[t].id \in 1..alloc_id /\ job[t].id \in Known /\ "trigger" \in Late
      /\ alloc_id \in 0..MaxId
  <2>1. job[t].id \in opened /\ alloc_id \in 0..MaxId
    BY <1>1 DEF Inv, Types, ThreadTypes, Sent
  <2>. QED
    BY <2>1, OpenedKnown DEF Late, Control, Opening
<1>3. PICK m \in Cmd : m = [cmd |-> "trigger", id |-> job[t].id]
  BY <1>2, CommandTypes
<1>4. Asks(Late)
  BY <1>1, <1>2, <1>3 DEF Asks
<1>5. SendersGoOn
  <2>1. at \in [Sender -> Place] /\ DOMAIN job = Sender
    BY DEF Inv, Types, SenderTypes
  <2>. QED
    BY <1>1, <2>1 DEF SendersGoOn, Inv, Sent
<1>. QED
  BY <1>1, <1>4, <1>5, SameSlots
     DEF Effect, Quiet, SameThread, PipeGoesOn, Inv, Assertions

LEMMA SendRequestEffect ==
    ASSUME Inv, NEW t \in Sender, SendRequest(t)
    PROVE  SlotTypes' /\ Effect /\ Assertions'
<1>1. /\ at[t] = "request" /\ slot' = slot /\ SameIds
      /\ UNCHANGED <<pc, doomed, reserving, failed>>
      /\ pipe' = Append(pipe, [cmd |-> "send", id |-> job[t].id, p |-> job[t].p])
      /\ at' = [at EXCEPT ![t] = "idle"] /\ job' = [job EXCEPT ![t] = NULL]
  BY DEF SendRequest, At, SameIds, Request, history
<1>2. job[t].id \in Id /\ job[t].p \in Packet
  BY <1>1 DEF Inv, Types, SenderTypes, Job
<1>3. PICK m \in Cmd : m = [cmd |-> "send", id |-> job[t].id, p |-> job[t].p]
  BY <1>2 DEF Cmd
<1>4. Posts(t)
  BY <1>1, <1>3 DEF Posts
<1>. QED
  BY <1>1, <1>4, SameSlots DEF Effect, Inv, Assertions

LEMMA IncSendingEffect ==
    ASSUME Inv, NEW t \in Sender, IncSending(t)
    PROVE  SlotTypes' /\ Effect /\ Assertions'
<1>1. /\ at[t] = "inc" /\ SameIds
      /\ UNCHANGED <<pc, doomed, pipe, job, reserving, failed>>
      /\ at' = [at EXCEPT ![t] = "request"]
  BY DEF IncSending, At, SameIds
<1>. DEFINE id == job[t].id
            k == HASH_ID(id)
<1>2. id \in Id /\ id \in Nat
  BY <1>1 DEF Inv, Types, SenderTypes, Job, Id
<1>3. k \in Slot /\ slot[k] \in Record /\ slot \in [Slot -> Record]
  BY <1>2, HashType DEF Inv, Types
<1>4. PICK q \in Record : q = slot[k]
  BY <1>3
<1>. DEFINE r == inc_sending_ref(q, id)
            counted == q.protocol = "TCP" /\ q.tag = ID_TAG16(id)
<1>5. /\ SetSlot(k, r)
      /\ counted => q.sending < MAX_SENDING
  BY <1>4 DEF IncSending
<1>6. /\ r \in Record /\ Alike(q, r) /\ r.high = q.high /\ r.low = q.low
      /\ r.sending = IF counted THEN q.sending + 1 ELSE q.sending
  <2>1. CASE ~counted
    BY <2>1 DEF inc_sending_ref, Alike
  <2>2. CASE counted
    <3>1. q.sending + 1 \in 0..MAX_SENDING
      BY <1>5, <2>2, SocketAssumption DEF Record
    <3>2. r = [q EXCEPT !.sending = q.sending + 1]
      BY <2>2 DEF inc_sending_ref, Record
    <3>. QED BY <2>2, <3>1, <3>2 DEF Record, Alike
  <2>. QED BY <2>1, <2>2
<1>7. slot[k].type \in Dead => send_buffer_empty(r)
  BY <1>3, <1>4, <1>6 DEF Inv, Placed, SlotPlaced, send_buffer_empty
<1>8. SlotTypes' /\ SlotsAlike /\ Elsewhere(k) /\ slot'[k] = r
  <2>. HIDE DEF r, k
  <2>. QED BY <1>3, <1>4, <1>5, <1>6, <1>7, AlikeSlot DEF Inv
<1>9. counted <=> q.protocol = "TCP" /\ q.id = id
  <2>1. q.protocol = "TCP" => q.id \in Nat /\ HASH_ID(q.id) = k /\ q.tag = ID_TAG16(q.id)
    BY <1>3, <1>4 DEF Inv, Placed, SlotPlaced, Id
  <2>. QED
    BY <1>2, <2>1, TagIsId
<1>10. ASSUME NEW j \in Slot \ {k}
       PROVE  ~(slot[j].protocol = "TCP" /\ slot[j].id = id)
  BY DEF Inv, Placed, SlotPlaced
<1>11. Incs(t)
  <2>. HIDE DEF r, k, id
  <2>1. \A j \in Slot : slot'[j].sending =
            IF slot[j].protocol = "TCP" /\ slot[j].id = id
            THEN slot[j].sending + 1 ELSE slot[j].sending
    BY <1>4, <1>6, <1>8, <1>9, <1>10 DEF Elsewhere
  <2>. QED
    BY <1>1, <1>8, <2>1 DEF Incs, id
<1>. QED
  BY <1>1, <1>8, <1>11 DEF Effect, Inv, Assertions

-----------------------------------------------------------------------------
(* The socket thread: commands. *)

LEMMA CommandFacts ==
    ASSUME Inv, NEW c, Command(c)
    PROVE  /\ pipe # <<>> /\ Head(pipe).cmd = c /\ pipe' = Tail(pipe)
           /\ failed = "no" /\ pc = "poll"
           /\ k_ \in Slot /\ id_ \in Id /\ slot[k_] \in Record
           /\ 1 \in DOMAIN pipe /\ Head(pipe) = pipe[1]
<1>1. /\ pipe # <<>> /\ Head(pipe).cmd = c /\ pipe' = Tail(pipe)
      /\ failed = "no" /\ pc = "poll"
  BY DEF Command, Thread
<1>. QED
  BY <1>1, HeadOfPipe DEF Inv, Types, ThreadTypes

\* A slot is reserved only until the command that opens it comes, which is the
\* first about its id; and commands about the old id of a slot are not taken while
\* the slot is half reserved.
LEMMA NotReserved ==
    ASSUME Inv, ~Crosses, pipe # <<>>, pipe' = Tail(pipe), Head(pipe).cmd \notin Opening,
           slot[k_].id = id_
    PROVE  slot[k_].type # "RESERVE" /\ ~HalfReserved(k_)
<1>1. /\ k_ \in Slot /\ id_ \in Id /\ 1 \in DOMAIN pipe /\ Head(pipe) = pipe[1]
      /\ id_ = pipe[1].id /\ DOMAIN pipe = 1..Len(pipe)
  BY HeadOfPipe, LenProperties DEF Inv, Types, ThreadTypes, id_
<1>2. ~HalfReserved(k_)
  BY DEF Crosses, Opening
<1>3. SUFFICES ASSUME slot[k_].type = "RESERVE" PROVE FALSE
  BY <1>2
<1>4. Awaited(id_)
  BY <1>1, <1>2, <1>3 DEF Inv, Placed, SlotPlaced, Use
<1>5. ~Asked(id_)
  BY <1>1 DEF Asked, Inv, Tickets, Ticketed
<1>6. PICK i \in DOMAIN pipe : pipe[i].cmd \in Opening /\ pipe[i].id = id_
  BY <1>4, <1>5 DEF Awaited
<1>7. i <= 1
  BY <1>1, <1>6 DEF Inv, OpenFirst
<1>8. i = 1
  BY <1>1, <1>7
<1>. QED
  BY <1>1, <1>6, <1>8

\* The slot that the command to open an id finds.
LEMMA OpenFinds ==
    ASSUME Inv, pipe # <<>>, Head(pipe).cmd \in Opening
    PROVE  /\ Use(k_) = "RESERVE" /\ slot[k_].type = "RESERVE" /\ slot[k_].id = id_
           /\ CanOpen
<1>1. /\ k_ \in Slot /\ 1 \in DOMAIN pipe /\ Head(pipe) = pipe[1] /\ id_ = pipe[1].id
  BY HeadOfPipe DEF Inv, Types, ThreadTypes, id_
<1>2. Use(k_) = "RESERVE" /\ slot[k_].id = id_
  BY <1>1 DEF Inv, OpenFirst, k_
<1>3. slot[k_].type = "RESERVE"
  BY <1>2 DEF Use
<1>. QED
  BY <1>1, <1>2, <1>3 DEF CanOpen, Inv, Placed, SlotPlaced, Dead

LEMMA NewFdEffect ==
    ASSUME Inv, Takes(Opening), NEW type \in {"CONNECTED", "CONNECTING", "PLISTEN"},
           NEW reading \in BOOLEAN, NEW writing \in BOOLEAN,
           SetSlot(k_, NewFd(slot[k_], id_, type, reading, writing)),
           opened' = opened \/ (type = "CONNECTED" /\ opened' = opened \cup {id_}),
           UNCHANGED <<alloc_id, closes, pc, at, job, reserving>>, pc = "poll"
    PROVE  SlotTypes' /\ Opens(k_)
<1>1. /\ k_ \in Slot /\ id_ \in Id /\ slot[k_] \in Record /\ slot \in [Slot -> Record]
      /\ Use(k_) = "RESERVE" /\ slot[k_].id = id_
  BY OpenFinds, HeadOfPipe DEF Takes, Inv, Types, ThreadTypes
<1>. DEFINE r == NewFd(slot[k_], id_, type, reading, writing)
<1>2. type \in Type
  BY DEF Type
<1>3. /\ r \in Record /\ r.id = id_ /\ r.type = type /\ r.protocol = "TCP"
      /\ ~r.closing /\ r.tag = ID_TAG16(id_) /\ r.sending = 0
  BY <1>1, <1>2, NewFdFields
<1>. HIDE DEF r
<1>4. slot' \in [Slot -> Record] /\ slot'[k_] = r /\ Elsewhere(k_)
  BY <1>1, <1>3, OneSlot DEF Elsewhere, r
<1>. QED
  BY <1>1, <1>3, <1>4 DEF Opens, IsNew, SlotTypes, SameSenders, id_

LEMMA NewFdFails ==
    ASSUME Inv, Takes(Opening), SetSlot(k_, [slot[k_] EXCEPT !.type = "INVALID"]),
           UNCHANGED <<alloc_id, opened, closes, pc, at, job, reserving>>, pc = "poll"
    PROVE  SlotTypes' /\ OpenFails(k_)
<1>1. /\ k_ \in Slot /\ slot[k_] \in Record /\ slot \in [Slot -> Record]
      /\ Use(k_) = "RESERVE" /\ slot[k_].id = id_ /\ CanOpen
  BY OpenFinds, HeadOfPipe DEF Takes, Inv, Types, ThreadTypes
<1>2. PICK q \in Record : q = slot[k_]
  BY <1>1
<1>. DEFINE r == [q EXCEPT !.type = "INVALID"]
<1>3. /\ r \in Record /\ r.id = q.id /\ r.type = "INVALID" /\ r.protocol = q.protocol
      /\ r.high = q.high /\ r.low = q.low
  BY DEF Record, Type
<1>4. SetSlot(k_, r)
  BY <1>2
<1>. HIDE DEF r
<1>5. slot' \in [Slot -> Record] /\ slot'[k_] = r /\ Elsewhere(k_)
  BY <1>1, <1>3, <1>4, OneSlot DEF Elsewhere
<1>6. send_buffer_empty(r)
  BY <1>1, <1>2, <1>3 DEF CanOpen, send_buffer_empty
<1>7. SameIds /\ SameSenders /\ pc' # "force"
  BY DEF SameIds, SameSenders
<1>8. /\ slot'[k_].id = slot[k_].id /\ slot'[k_].type = "INVALID"
      /\ slot'[k_].protocol = slot[k_].protocol /\ send_buffer_empty(slot'[k_])
  BY <1>2, <1>3, <1>5, <1>6 DEF send_buffer_empty
<1>. QED
  BY <1>1, <1>5, <1>7, <1>8 DEF OpenFails, SlotTypes, id_

LEMMA OpenSocketEffect ==
    ASSUME Inv, OpenSocket
    PROVE  SlotTypes' /\ Effect /\ Assertions'
<1>1. /\ Command("open") /\ UNCHANGED <<alloc_id, closes, pc, doomed, at, job, reserving>>
  BY DEF OpenSocket, sendVars
<1>2. k_ \in Slot /\ Takes(Opening) /\ pc = "poll" /\ failed = "no"
  BY <1>1, CommandFacts DEF Takes, Opening
<1>3. Assertions'
  BY <1>2, OpenFinds DEF OpenSocket, Assertions, Takes
<1>4. CASE /\ SetSlot(k_, NewFd(slot[k_], id_, "CONNECTED", TRUE, FALSE))
           /\ opened' = opened \cup {id_}
  BY <1>1, <1>2, <1>3, <1>4, NewFdEffect DEF Effect
<1>5. CASE /\ SetSlot(k_, NewFd(slot[k_], id_, "CONNECTING", TRUE, TRUE))
           /\ UNCHANGED opened
  BY <1>1, <1>2, <1>3, <1>5, NewFdEffect DEF Effect
<1>6. CASE SetSlot(k_, [slot[k_] EXCEPT !.type = "INVALID"]) /\ UNCHANGED opened
  BY <1>1, <1>2, <1>3, <1>6, NewFdFails DEF Effect
<1>. QED
  BY <1>4, <1>5, <1>6 DEF OpenSocket

LEMMA ListenSocketEffect ==
    ASSUME Inv, ListenSocket
    PROVE  SlotTypes' /\ Effect /\ Assertions'
<1>1. /\ Command("listen")
      /\ UNCHANGED <<alloc_id, closes, opened, pc, doomed, at, job, reserving>>
  BY DEF ListenSocket, sendVars, history
<1>2. k_ \in Slot /\ Takes(Opening) /\ pc = "poll" /\ failed = "no"
  BY <1>1, CommandFacts DEF Takes, Opening
<1>3. Assertions'
  BY <1>2, OpenFinds DEF ListenSocket, Assertions, Takes
<1>4. CASE SetSlot(k_, NewFd(slot[k_], id_, "PLISTEN", FALSE, FALSE))
  BY <1>1, <1>2, <1>3, <1>4, NewFdEffect DEF Effect
<1>5. CASE SetSlot(k_, [slot[k_] EXCEPT !.type = "INVALID"])
  BY <1>1, <1>2, <1>3, <1>5, NewFdFails DEF Effect
<1>. QED
  BY <1>4, <1>5 DEF ListenSocket

LEMMA PauseTriggerEffect ==
    ASSUME Inv, PauseSocket \/ TriggerWrite
    PROVE  SlotTypes' /\ Effect /\ Assertions'
<1>1. /\ Command("pause") \/ Command("trigger")
      /\ SameIds /\ UNCHANGED <<pc, doomed, at, job, reserving, failed>>
  BY DEF PauseSocket, TriggerWrite, sendVars, history, SameIds
<1>2. k_ \in Slot /\ slot[k_] \in Record /\ slot \in [Slot -> Record] /\ Takes(Late)
  BY <1>1, CommandFacts DEF Takes, Late, Control, Opening, Inv, Types
<1>3. SlotTypes' /\ SlotsAlike /\ SameSending
  <2>1. CASE slot' = slot
    BY <2>1, SameSlots DEF Inv
  <2>2. PICK q \in Record : q = slot[k_]
    BY <1>2
  <2>3. CASE slot' # slot
    <3>. DEFINE p == [q EXCEPT !.reading = FALSE]
                w == [q EXCEPT !.writing = TRUE]
    <3>1. /\ p \in Record /\ Alike(q, p) /\ p.sending = q.sending
          /\ p.high = q.high /\ p.low = q.low
      BY DEF Record, Alike
    <3>2. /\ w \in Record /\ Alike(q, w) /\ w.sending = q.sending
          /\ w.high = q.high /\ w.low = q.low
      BY DEF Record, Alike
    <3>3. SetSlot(k_, p) \/ SetSlot(k_, w)
      BY <1>2, <2>2, <2>3 DEF PauseSocket, TriggerWrite, SetSlot
    <3>. HIDE DEF p, w
    <3>4. slot[k_].type \in Dead => send_buffer_empty(p) /\ send_buffer_empty(w)
      BY <1>2, <2>2, <3>1, <3>2 DEF Inv, Placed, SlotPlaced, send_buffer_empty
    <3>5. CASE SetSlot(k_, p)
      BY <1>2, <2>2, <3>1, <3>4, <3>5, AlikeSlot DEF Inv
    <3>6. CASE SetSlot(k_, w)
      BY <1>2, <2>2, <3>2, <3>4, <3>6, AlikeSlot DEF Inv
    <3>. QED BY <3>3, <3>5, <3>6
  <2>. QED BY <2>1, <2>3
<1>. QED
  BY <1>1, <1>2, <1>3, SendersStay DEF Effect, Quiet, SameThread, PipeGoesOn, Inv, Assertions

LEMMA ResumeSocketEffect ==
    ASSUME Inv, ~Crosses, ResumeSocket
    PROVE  SlotTypes' /\ Effect /\ Assertions'
<1>1. /\ Command("start") /\ UNCHANGED <<alloc_id, closes, pc, doomed, at, job, reserving, failed>>
  BY DEF ResumeSocket, sendVars
<1>2. /\ k_ \in Slot /\ slot[k_] \in Record /\ slot \in [Slot -> Record] /\ Takes(Late)
      /\ pc = "poll" /\ Head(pipe).cmd \notin Opening /\ pipe # <<>>
  BY <1>1, CommandFacts DEF Takes, Late, Control, Opening, Inv, Types
<1>3. Assertions'
  BY <1>1 DEF Inv, Assertions
<1>4. CASE UNCHANGED <<slot, opened>>
  BY <1>1, <1>2, <1>3, <1>4, SameSlots, SendersStay
     DEF Effect, Quiet, SameThread, PipeGoesOn, SameIds, Inv
<1>5. CASE ~UNCHANGED <<slot, opened>>
  <2>1. PICK q \in Record : q = slot[k_]
    BY <1>2
  <2>. DEFINE r == [q EXCEPT !.reading = TRUE]
              s == CASE r.type = "PACCEPT" -> [r EXCEPT !.type = "CONNECTED"]
                     [] r.type = "PLISTEN" -> [r EXCEPT !.type = "LISTEN"]
                     [] OTHER -> r
  <2>2. /\ slot[k_].id = id_ /\ q.type # "INVALID" /\ q.type # "HALFCLOSE_READ"
        /\ SetSlot(k_, s)
        /\ opened' = IF q.type \in {"PACCEPT", "CONNECTED"} THEN opened \cup {id_} ELSE opened
    <3>1. r.type = q.type
      BY DEF Record
    <3>2. /\ ~(socket_invalid(k_, id_) \/ r.type = "HALFCLOSE_READ")
          /\ SetSlot(k_, s)
          /\ opened' = IF r.type \in {"PACCEPT", "CONNECTED"} THEN opened \cup {id_} ELSE opened
      BY <1>5, <2>1 DEF ResumeSocket
    <3>. HIDE DEF r, s
    <3>. QED BY <2>1, <3>1, <3>2 DEF socket_invalid
  <2>3. q.type # "RESERVE"
    BY <1>2, <2>1, <2>2, NotReserved DEF Takes
  <2>4. /\ r \in Record /\ Alike(q, r) /\ r.sending = q.sending
    BY DEF Record, Alike
  <2>5. /\ s \in Record /\ s.id = q.id /\ s.protocol = q.protocol /\ s.tag = q.tag
        /\ s.sending = q.sending /\ s.closing = q.closing
        /\ \/ s.type = q.type
           \/ s.type \in {"CONNECTED", "LISTEN"}
        /\ q.type = "PACCEPT" => s.type = "CONNECTED"
    <3>1. CASE r.type = "PACCEPT"
      <4>1. s = [r EXCEPT !.type = "CONNECTED"]
        BY <3>1
      <4>. HIDE DEF r
      <4>. QED BY <2>4, <4>1 DEF Record, Alike, Type
    <3>2. CASE r.type = "PLISTEN"
      <4>1. s = [r EXCEPT !.type = "LISTEN"] /\ q.type # "PACCEPT"
        BY <2>4, <3>2 DEF Alike
      <4>. HIDE DEF r
      <4>. QED BY <2>4, <4>1 DEF Record, Alike, Type
    <3>3. CASE r.type \notin {"PACCEPT", "PLISTEN"}
      <4>1. s = r /\ q.type # "PACCEPT"
        BY <2>4, <3>3 DEF Alike
      <4>. HIDE DEF r
      <4>. QED BY <2>4, <4>1 DEF Alike
    <3>. QED BY <3>1, <3>2, <3>3
  <2>. HIDE DEF r, s
  <2>6. slot' \in [Slot -> Record] /\ slot'[k_] = s /\ Elsewhere(k_)
    BY <1>2, <2>2, <2>5, OneSlot DEF Elsewhere
  <2>7. CASE q.type = "CONNECTING"
    <3>2. CASE s.type = q.type
      <4>1. opened' = opened /\ Alike(q, s) /\ SetSlot(k_, s) /\ q.type \notin Dead
        BY <2>2, <2>5, <2>7, <3>2 DEF Alike, Dead
      <4>2. SlotTypes' /\ SlotsAlike /\ SameSending
        BY <1>2, <2>1, <2>5, <4>1, AlikeSlot DEF Inv
      <4>. QED
        BY <1>1, <1>2, <1>3, <4>1, <4>2, SendersStay
           DEF Effect, Quiet, SameThread, PipeGoesOn, SameIds, Inv
    <3>3. CASE s.type # q.type
      <4>1. Turns(k_)
        BY <1>1, <1>2, <2>1, <2>2, <2>3, <2>5, <2>6, <2>7, <3>3
           DEF Turns, Becomes, Dead, Type, SameSenders
      <4>. QED BY <1>2, <1>3, <2>6, <4>1 DEF Effect, SlotTypes
    <3>. QED BY <3>2, <3>3
  <2>8. CASE q.type # "CONNECTING"
    <3>1. s.type \in Type \ (Dead \cup {"HALFCLOSE_READ", "CONNECTING"})
      <4>1. s.type \in Type
        BY <2>5 DEF Record
      <4>. QED BY <2>2, <2>3, <2>5, <2>8, <4>1 DEF Dead
    <3>2. Becomes(k_)
      BY <1>1, <1>2, <2>1, <2>2, <2>3, <2>5, <2>6 DEF Becomes, Dead, SameSenders
    <3>3. Turns(k_)
      BY <1>1, <2>1, <2>2, <2>5, <2>6, <3>1, <3>2 DEF Turns
    <3>. QED BY <1>2, <1>3, <2>6, <3>3 DEF Effect, SlotTypes
  <2>. QED BY <2>7, <2>8
<1>. QED
  BY <1>4, <1>5

\* force_close up to the lock.
LEMMA ForceCloseEffect ==
    ASSUME Inv, NEW k \in Slot, NEW raise \in {"none", "CLOSE", "ERR"}, NEW ctrl \in BOOLEAN,
           ForceClose(k, slot[k], raise, ctrl),
           slot[k].type \notin Dead,
           raise = "none" => slot[k].type = "HALFCLOSE_READ",
           raise = "CLOSE" => slot[k].type # "HALFCLOSE_READ",
           raise = "ERR" => slot[k].type = "CONNECTING",
           SameIds, SameSenders, pipe' = pipe \/ Takes(Late)
    PROVE  SlotTypes' /\ Effect /\ Assertions'
<1>1. PICK q \in Record : q = slot[k]
  BY DEF Inv, Types
<1>. DEFINE r == [q EXCEPT !.high = <<>>, !.low = <<>>]
<1>2. r \in Record /\ Alike(q, r) /\ r.sending = q.sending /\ send_buffer_empty(r)
  <2>1. <<>> \in Seq(Buffer)
    BY EmptySeq
  <2>. QED BY <2>1 DEF Record, Alike, send_buffer_empty
<1>3. /\ SetSlot(k, r) /\ doomed' = [s |-> k, raise |-> raise, ctrl |-> ctrl]
      /\ failed' = failed
  BY <1>1 DEF ForceClose, Dead
<1>. HIDE DEF r
<1>4. SlotTypes' /\ SlotsAlike /\ SameSending /\ slot'[k] = r
  BY <1>1, <1>2, <1>3, AlikeSlot DEF Inv
<1>5. slot'[k].type = slot[k].type
  BY <1>1, <1>2, <1>4 DEF Alike
<1>6. doomed'.s = k /\ doomed'.raise = raise
  BY <1>3
<1>7. Forced'
  BY <1>5, <1>6 DEF Forced
<1>. QED
  BY <1>3, <1>4, <1>7 DEF Effect, Dooms, Inv, Assertions

LEMMA CloseSocketEffect ==
    ASSUME Inv, ~Crosses, CloseSocket
    PROVE  SlotTypes' /\ Effect /\ Assertions'
<1>1. /\ Command("close") \/ Command("shutdown")
      /\ UNCHANGED <<alloc_id, opened, at, job, reserving>>
  BY DEF CloseSocket, sendVars
<1>2. /\ k_ \in Slot /\ slot[k_] \in Record /\ slot \in [Slot -> Record] /\ Takes(Late)
      /\ pc = "poll" /\ Head(pipe).cmd \notin Opening /\ pipe # <<>>
  BY <1>1, CommandFacts DEF Takes, Late, Control, Opening, Inv, Types
<1>. DEFINE raise == IF slot[k_].type = "HALFCLOSE_READ" THEN "none" ELSE "CLOSE"
<1>3. CASE socket_invalid(k_, id_)
  <2>1. UNCHANGED <<slot, pc, doomed, closes, failed>>
    BY <1>3 DEF CloseSocket
  <2>. QED
    BY <1>1, <1>2, <2>1, SameSlots, SendersStay
       DEF Effect, Quiet, SameThread, PipeGoesOn, SameIds, Inv, Assertions
<1>4. CASE ~socket_invalid(k_, id_)
  <2>1. slot[k_].type \notin Dead /\ slot[k_].id = id_
    BY <1>2, <1>4, NotReserved DEF socket_invalid, Dead, Takes
  <2>2. CASE Head(pipe).cmd = "shutdown" \/ nomore_sending_data(slot[k_])
    <3>1. ForceClose(k_, slot[k_], raise, TRUE) /\ UNCHANGED closes
      BY <1>4, <2>2 DEF CloseSocket
    <3>2. SameIds /\ SameSenders
      BY <1>1, <3>1 DEF SameIds, SameSenders
    <3>3. PICK k \in Slot : k = k_
      BY <1>2
    <3>4. PICK c \in BOOLEAN : c = TRUE
      OBVIOUS
    <3>5. /\ ForceClose(k, slot[k], raise, c)
          /\ raise \in {"none", "CLOSE", "ERR"}
          /\ raise = "none" => slot[k].type = "HALFCLOSE_READ"
          /\ raise = "CLOSE" => slot[k].type # "HALFCLOSE_READ"
          /\ raise # "ERR"
      BY <3>1, <3>3, <3>4
    <3>. HIDE DEF raise
    <3>. QED BY <1>2, <2>1, <3>2, <3>3, <3>5, ForceCloseEffect
  <2>3. CASE ~(Head(pipe).cmd = "shutdown" \/ nomore_sending_data(slot[k_]))
    <3>1. /\ SetSlot(k_, [CloseRead(slot[k_]) EXCEPT !.closing = TRUE])
          /\ closes' = IF raise = "none" THEN closes ELSE [closes EXCEPT ![id_] = @ + 1]
          /\ UNCHANGED <<pc, doomed, failed>>
      BY <1>4, <2>3 DEF CloseSocket
    <3>2. PICK q \in Record : q = CloseRead(slot[k_])
      BY <1>2, CloseReadFields
    <3>3. /\ q.id = slot[k_].id /\ q.protocol = slot[k_].protocol /\ q.tag = slot[k_].tag
          /\ q.type = "HALFCLOSE_READ" /\ q.sending = slot[k_].sending
      BY <1>2, <3>2, CloseReadFields
    <3>. DEFINE r == [q EXCEPT !.closing = TRUE]
    <3>4. /\ r \in Record /\ r.id = q.id /\ r.protocol = q.protocol /\ r.tag = q.tag
          /\ r.type = q.type /\ r.sending = q.sending
      BY DEF Record
    <3>5. SetSlot(k_, r)
      BY <3>1, <3>2
    <3>. HIDE DEF r
    <3>6. slot' \in [Slot -> Record] /\ slot'[k_] = r /\ Elsewhere(k_)
      BY <1>2, <3>4, <3>5, OneSlot DEF Elsewhere
    <3>7. Becomes(k_)
      BY <1>1, <1>2, <2>1, <3>1, <3>3, <3>4, <3>6 DEF Becomes, SameSenders
    <3>8. Halves(k_)
      BY <1>1, <2>1, <3>1, <3>3, <3>4, <3>6, <3>7 DEF Halves, RaisesClose
    <3>. QED BY <1>2, <3>1, <3>6, <3>8 DEF Effect, SlotTypes, Inv, Assertions
  <2>. QED BY <2>2, <2>3
<1>. QED
  BY <1>3, <1>4

LEMMA SendSocketEffect ==
    ASSUME Inv, ~Crosses, SendSocket
    PROVE  SlotTypes' /\ Effect /\ Assertions'
<1>1. /\ Command("send") /\ SameIds /\ UNCHANGED <<pc, doomed, at, job, reserving>>
  BY DEF SendSocket, sendVars, history, SameIds
<1>2. /\ k_ \in Slot /\ id_ \in Id /\ slot \in [Slot -> Record] /\ Takes({"send"})
      /\ Head(pipe).cmd \notin Opening /\ pipe # <<>> /\ Head(pipe).p \in Packet
      /\ 1 \in DOMAIN pipe /\ Head(pipe) = pipe[1] /\ failed = "no"
  BY <1>1, CommandFacts, HeadOfPipe DEF Takes, Opening, Inv, Types, ThreadTypes
<1>3. PICK q \in Record : q = slot[k_]
  BY <1>2
<1>. DEFINE p == Head(pipe).p
            refused == \/ q.id # id_ \/ q.closing
                       \/ q.type \in {"INVALID", "HALFCLOSE_WRITE", "PACCEPT",
                                     "PLISTEN", "LISTEN"}
            r == IF refused THEN q ELSE Queued(q, p)
            counted == q.id = id_ /\ q.protocol = "TCP"
            s == IF counted /\ q.sending > 0 THEN [r EXCEPT !.sending = @ - 1] ELSE r
<1>4. /\ failed' = IF counted /\ q.sending = 0 THEN "sending" ELSE failed
      /\ SetSlot(k_, s)
  BY <1>3 DEF SendSocket
<1>5. r \in Record /\ Alike(q, r) /\ r.sending = q.sending /\ (refused => r = q)
  BY <1>2, QueuedFields DEF Alike
\* The packet of the command is counted.
<1>6. counted => q.sending > 0
  <2>1. SUFFICES ASSUME counted PROVE q.sending > 0
    OBVIOUS
  <2>2. q.sending = Cardinality(Requests(id_)) + Cardinality(Sends(id_))
    BY <1>2, <1>3, <2>1 DEF Inv, Counted
  <2>3. IsFiniteSet(Requests(id_)) /\ IsFiniteSet(Sends(id_))
    <3>1. Requests(id_) \in SUBSET Sender /\ Sends(id_) \in SUBSET (1..Len(pipe))
      BY LenProperties DEF Requests, Sends, Inv, Types, ThreadTypes
    <3>2. IsFiniteSet(1..Len(pipe))
      BY FS_Interval, LenProperties DEF Inv, Types, ThreadTypes
    <3>. QED BY <3>1, <3>2, FS_Subset, SocketAssumption
  <2>4. 1 \in Sends(id_)
    BY <1>1, <1>2 DEF Sends, id_, Takes
  <2>5. /\ Cardinality(Requests(id_)) \in Nat /\ Cardinality(Sends(id_)) \in Nat
        /\ Cardinality(Sends(id_)) # 0
    BY <2>3, <2>4, FS_CardinalityType, FS_EmptySet
  <2>. QED BY <2>2, <2>5
<1>7. /\ s \in Record /\ Alike(q, s) /\ s.high = r.high /\ s.low = r.low
      /\ s.sending = IF counted THEN q.sending - 1 ELSE q.sending
  <2>. HIDE DEF r, refused
  <2>1. CASE counted
    <3>1. q.sending - 1 \in 0..MAX_SENDING
      BY <1>6, <2>1, SocketAssumption DEF Record
    <3>2. s = [r EXCEPT !.sending = r.sending - 1]
      BY <1>5, <1>6, <2>1 DEF Record
    <3>. HIDE DEF s, counted
    <3>. QED BY <1>5, <2>1, <3>1, <3>2 DEF Record, Alike
  <2>2. CASE ~counted
    BY <1>5, <2>2
  <2>. QED BY <2>1, <2>2
<1>8. q.type \in Dead => send_buffer_empty(s)
  <2>1. q.type \in Dead => refused
    <3>1. q.id = id_ => q.type # "RESERVE"
      BY <1>2, <1>3, NotReserved DEF Takes
    <3>. QED BY <3>1 DEF Dead
  <2>2. q.type \in Dead => send_buffer_empty(q)
    BY <1>2, <1>3 DEF Inv, Placed, SlotPlaced
  <2>. HIDE DEF s, r, refused
  <2>. QED BY <1>5, <1>7, <2>1, <2>2 DEF send_buffer_empty
<1>9. SlotTypes' /\ SlotsAlike /\ Elsewhere(k_) /\ slot'[k_] = s
  <2>. HIDE DEF s
  <2>. QED BY <1>2, <1>3, <1>4, <1>7, <1>8, AlikeSlot DEF Inv
<1>10. ASSUME NEW j \in Slot \ {k_}
       PROVE  ~(slot[j].protocol = "TCP" /\ slot[j].id = id_)
  BY DEF Inv, Placed, SlotPlaced, k_
<1>11. \A j \in Slot : slot'[j].sending =
          IF slot[j].protocol = "TCP" /\ slot[j].id = id_
          THEN slot[j].sending - 1 ELSE slot[j].sending
  <2>. HIDE DEF s
  <2>. QED BY <1>3, <1>7, <1>9, <1>10 DEF Elsewhere
<1>12. Delivers
  BY <1>1, <1>2, <1>9, <1>11 DEF Delivers, SameSenders, id_
<1>13. Assertions'
  BY <1>2, <1>4, <1>6 DEF Assertions
<1>. QED
  BY <1>9, <1>12, <1>13 DEF Effect

-----------------------------------------------------------------------------
(* The socket thread: events, and the end of force_close. *)

LEMMA ForceCloseEndEffect ==
    ASSUME Inv, ForceCloseEnd
    PROVE  SlotTypes' /\ Effect /\ Assertions'
<1>1. /\ pc = "force" /\ pc' # "force"
      /\ UNCHANGED <<alloc_id, pipe, at, job, reserving, opened, failed>>
  BY DEF ForceCloseEnd, Thread, sendVars
<1>2. PICK k \in Slot : k = doomed.s
  BY <1>1 DEF Inv, Types, ThreadTypes, Doom
<1>3. slot[k] \in Record /\ slot \in [Slot -> Record] /\ doomed.raise \in {"none", "CLOSE", "ERR"}
  BY <1>1 DEF Inv, Types, ThreadTypes, Doom
<1>4. /\ SetSlot(k, Closed(slot[k]))
      /\ closes' = IF doomed.raise = "CLOSE" THEN [closes EXCEPT ![slot[k].id] = @ + 1]
                   ELSE closes
  BY <1>2 DEF ForceCloseEnd
<1>5. /\ slot[k].type \notin Dead
      /\ doomed.raise = "CLOSE" => slot[k].type # "HALFCLOSE_READ"
      /\ doomed.raise # "CLOSE" => slot[k].type \in {"HALFCLOSE_READ", "CONNECTING"}
  BY <1>1, <1>2, <1>3 DEF Inv, Forced
<1>. DEFINE r == Closed(slot[k])
<1>6. /\ r \in Record /\ r.id = slot[k].id /\ r.protocol = slot[k].protocol
      /\ r.tag = slot[k].tag /\ r.type = "INVALID" /\ r.sending = slot[k].sending
      /\ send_buffer_empty(r)
  BY <1>3, ClosedFields
<1>. HIDE DEF r
<1>7. slot' \in [Slot -> Record] /\ slot'[k] = r /\ Elsewhere(k)
  BY <1>3, <1>4, <1>6, OneSlot DEF Elsewhere, r
<1>8. Becomes(k)
  BY <1>1, <1>5, <1>6, <1>7 DEF Becomes, SameSenders
<1>9. Ends(k)
  BY <1>1, <1>4, <1>5, <1>6, <1>7, <1>8 DEF Ends, RaisesClose
<1>. QED
  BY <1>1, <1>7, <1>9 DEF Effect, SlotTypes, Inv, Assertions

LEMMA EventFacts ==
    ASSUME Inv, NEW types, Event(types)
    PROVE  /\ s_ \in Slot /\ slot[s_] \in Record /\ slot \in [Slot -> Record]
           /\ slot[s_].type \in types /\ pc = "event" /\ ev # <<>>
  BY HeadOfEvents DEF Event, Thread, Inv, Types, ThreadTypes

\* Steps of the socket thread that leave the slots alone.
LEMMA LoopEffect ==
    ASSUME Inv, NoCommand \/ SpWait \/ EventInvalid \/ ReadData
    PROVE  SlotTypes' /\ Effect /\ Assertions'
<1>1. slot' = slot /\ pc' # "force" /\ SameIds /\ UNCHANGED <<pipe, at, job, reserving, failed>>
  <2>. USE DEF sendVars, history, SameIds
  <2>1. CASE NoCommand
    BY <2>1 DEF NoCommand
  <2>2. CASE SpWait
    BY <2>2 DEF SpWait
  <2>3. CASE EventInvalid
    BY <2>3 DEF EventInvalid, Handled
  <2>4. CASE ReadData
    BY <2>4 DEF ReadData, Handled
  <2>. QED BY <2>1, <2>2, <2>3, <2>4
<1>. QED
  BY <1>1, SameSlots, SendersStay
     DEF Effect, Quiet, SameThread, PipeGoesOn, Inv, Assertions

LEMMA EventReservedEffect ==
    ASSUME Inv, EventReserved
    PROVE  SlotTypes' /\ Effect /\ Assertions'
<1>1. /\ pc' # "force" /\ SameIds /\ UNCHANGED <<pipe, at, job, reserving>>
      /\ failed' \in {failed, "reserve"}
  BY DEF EventReserved, Handled, sendVars, history, SameIds
<1>2. s_ \in Slot /\ slot[s_] \in Record /\ slot \in [Slot -> Record]
  BY EventFacts DEF EventReserved
<1>3. PICK q \in Record : q = slot[s_]
  BY <1>2
<1>. DEFINE r == IF Head(ev).k = "w" THEN [q EXCEPT !.writing = FALSE] ELSE q
<1>4. r \in Record /\ Alike(q, r) /\ r.sending = q.sending /\ r.high = q.high /\ r.low = q.low
  BY DEF Record, Alike
<1>5. SetSlot(s_, r)
  BY <1>3 DEF EventReserved
<1>6. slot[s_].type \in Dead => send_buffer_empty(r)
  BY <1>2, <1>3, <1>4 DEF Inv, Placed, SlotPlaced, send_buffer_empty
<1>. HIDE DEF r
<1>7. SlotTypes' /\ SlotsAlike /\ SameSending
  BY <1>2, <1>3, <1>4, <1>5, <1>6, AlikeSlot DEF Inv
<1>. QED
  BY <1>1, <1>7, SendersStay
     DEF Effect, Quiet, SameThread, PipeGoesOn, Inv, Assertions

LEMMA ReportConnectEffect ==
    ASSUME Inv, ReportConnect
    PROVE  SlotTypes' /\ Effect /\ Assertions'
<1>1. UNCHANGED <<alloc_id, pipe, at, job, reserving, closes>>
  BY DEF ReportConnect, sendVars
<1>2. /\ s_ \in Slot /\ slot[s_] \in Record /\ slot \in [Slot -> Record]
      /\ slot[s_].type = "CONNECTING"
  BY EventFacts DEF ReportConnect
<1>3. CASE ForceClose(s_, slot[s_], "ERR", FALSE) /\ UNCHANGED opened
  <2>1. PICK k \in Slot : k = s_
    BY <1>2
  <2>2. PICK c \in BOOLEAN : c = FALSE
    OBVIOUS
  <2>3. ForceClose(k, slot[k], "ERR", c) /\ SameIds /\ SameSenders
    BY <1>1, <1>3, <2>1, <2>2 DEF SameIds, SameSenders
  <2>4. slot[k].type = "CONNECTING" /\ slot[k].type \notin Dead
    BY <1>2, <2>1 DEF Dead
  <2>. QED BY <1>1, <2>3, <2>4, ForceCloseEffect
<1>4. CASE ~(ForceClose(s_, slot[s_], "ERR", FALSE) /\ UNCHANGED opened)
  <2>1. PICK q \in Record : q = slot[s_]
    BY <1>2
  <2>. DEFINE r == [q EXCEPT !.type = "CONNECTED"]
              s == IF nomore_sending_data(r) THEN [r EXCEPT !.writing = FALSE] ELSE r
  <2>2. /\ SetSlot(s_, s) /\ opened' = opened \cup {r.id}
        /\ pc' # "force" /\ UNCHANGED failed
    BY <1>4, <2>1 DEF ReportConnect, Handled
  <2>3. /\ r \in Record /\ r.id = q.id /\ r.protocol = q.protocol /\ r.tag = q.tag
        /\ r.type = "CONNECTED" /\ r.sending = q.sending /\ r.closing = q.closing
    BY DEF Record, Type
  <2>. HIDE DEF r
  <2>4. /\ s \in Record /\ s.id = q.id /\ s.protocol = q.protocol /\ s.tag = q.tag
        /\ s.type = "CONNECTED" /\ s.sending = q.sending /\ s.closing = q.closing
    BY <2>3 DEF Record
  <2>. HIDE DEF s
  <2>5. slot' \in [Slot -> Record] /\ slot'[s_] = s /\ Elsewhere(s_)
    BY <1>2, <2>2, <2>4, OneSlot DEF Elsewhere
  <2>6. Becomes(s_)
    BY <1>1, <1>2, <2>1, <2>2, <2>4, <2>5 DEF Becomes, SameSenders, Dead
  <2>7. Turns(s_)
    BY <1>1, <1>2, <2>1, <2>2, <2>3, <2>4, <2>5, <2>6 DEF Turns, Dead, Type
  <2>. QED BY <1>2, <2>2, <2>5, <2>7 DEF Effect, SlotTypes, Inv, Assertions
<1>. QED
  BY <1>3, <1>4

LEMMA ReportAcceptEffect ==
    ASSUME Inv, ReportAccept
    PROVE  SlotTypes' /\ Effect /\ Assertions'
<1>1. UNCHANGED <<pipe, at, job, reserving, closes, opened>> /\ pc' # "force" /\ failed = "no"
  BY DEF ReportAccept, Handled, sendVars, history, Event, Thread
<1>2. CASE UNCHANGED <<alloc_id, slot, failed>>
  BY <1>1, <1>2, SameSlots, SendersStay
     DEF Effect, Quiet, SameThread, PipeGoesOn, SameIds, Inv, Assertions
<1>3. CASE ~UNCHANGED <<alloc_id, slot, failed>>
  <2>1. PICK id \in Id :
          /\ Reservable(id) /\ alloc_id' = id
          /\ SetSlot(HASH_ID(id), NewFd(slot[HASH_ID(id)], id, "PACCEPT", FALSE, FALSE))
          /\ failed' = IF send_buffer_empty(slot[HASH_ID(id)]) THEN failed ELSE "new_fd"
    BY <1>3 DEF ReportAccept
  <2>2. PICK k \in Slot : k = HASH_ID(id)
    BY HashType DEF Id
  <2>3. /\ slot[k] \in Record /\ slot \in [Slot -> Record] /\ id > alloc_id
        /\ slot[k].type = "INVALID" /\ send_buffer_empty(slot[k])
    <3>1. slot[k] \in Record /\ slot \in [Slot -> Record]
      BY DEF Inv, Types
    <3>2. slot[k].type = "INVALID" /\ id > alloc_id
      BY <2>1, <2>2 DEF Reservable, Inv, Types, ThreadTypes, Id
    <3>3. send_buffer_empty(slot[k])
      BY <3>2 DEF Inv, Placed, SlotPlaced, Dead
    <3>. QED BY <3>1, <3>2, <3>3
  <2>. DEFINE r == NewFd(slot[k], id, "PACCEPT", FALSE, FALSE)
  <2>4. /\ r \in Record /\ r.id = id /\ r.type = "PACCEPT" /\ r.protocol = "TCP"
        /\ ~r.closing /\ r.tag = ID_TAG16(id) /\ r.sending = 0
    <3>1. PICK q \in Record, c \in BOOLEAN, type \in Type :
            q = slot[k] /\ c = FALSE /\ type = "PACCEPT"
      BY <2>3 DEF Type
    <3>2. r = NewFd(q, id, type, c, c)
      BY <3>1
    <3>. HIDE DEF r
    <3>. QED BY <3>1, <3>2, NewFdFields
  <2>. HIDE DEF r
  <2>5. slot' \in [Slot -> Record] /\ slot'[k] = r /\ Elsewhere(k)
    BY <2>1, <2>2, <2>3, <2>4, OneSlot DEF Elsewhere, r
  <2>6. Accepts(k)
    BY <1>1, <2>1, <2>2, <2>3, <2>4, <2>5 DEF Accepts, IsNew, SameSenders
  <2>. QED BY <1>1, <2>1, <2>2, <2>3, <2>5, <2>6 DEF Effect, SlotTypes, Assertions
<1>. QED
  BY <1>2, <1>3

LEMMA HangUpEffect ==
    ASSUME Inv, HangUp
    PROVE  SlotTypes' /\ Effect /\ Assertions'
<1>1. SameIds /\ SameSenders /\ UNCHANGED pipe
  BY DEF HangUp, sendVars, SameIds, SameSenders
<1>2. s_ \in Slot /\ slot[s_].type \in Open
  BY EventFacts DEF HangUp
<1>3. PICK k \in Slot : k = s_
  BY <1>2
<1>. DEFINE raise == IF slot[k].type = "HALFCLOSE_READ" THEN "none" ELSE "CLOSE"
<1>4. PICK c \in BOOLEAN : c = FALSE
  OBVIOUS
<1>5. /\ ForceClose(k, slot[k], raise, c) /\ slot[k].type \notin Dead
      /\ raise \in {"none", "CLOSE", "ERR"}
      /\ raise = "none" => slot[k].type = "HALFCLOSE_READ"
      /\ raise = "CLOSE" => slot[k].type # "HALFCLOSE_READ"
      /\ raise # "ERR"
  BY <1>2, <1>3, <1>4 DEF HangUp, Open, Dead
<1>. HIDE DEF raise
<1>. QED
  BY <1>1, <1>5, ForceCloseEffect

LEMMA ReadEndEffect ==
    ASSUME Inv, ReadEnd
    PROVE  SlotTypes' /\ Effect /\ Assertions'
<1>1. UNCHANGED <<alloc_id, pipe, at, job, reserving, opened>> /\ SameSenders
  BY DEF ReadEnd, sendVars, SameSenders
<1>2. /\ s_ \in Slot /\ slot[s_].type \in Open /\ slot[s_] \in Record
      /\ slot \in [Slot -> Record]
  BY EventFacts DEF ReadEnd
<1>3. PICK k \in Slot : k = s_
  BY <1>2
<1>4. slot[k].type \notin Dead /\ (slot[k].closing => slot[k].type = "HALFCLOSE_READ")
  BY <1>2, <1>3 DEF Open, Dead, Inv, ClosesCounted
<1>5. PICK c \in BOOLEAN : c = FALSE
  OBVIOUS
<1>6. CASE slot[k].closing /\ nomore_sending_data(slot[k])
  <2>1. ForceClose(k, slot[k], "none", c) /\ SameIds
    BY <1>1, <1>3, <1>5, <1>6 DEF ReadEnd, SameIds
  <2>. QED BY <1>1, <1>4, <1>6, <2>1, ForceCloseEffect
<1>7. CASE ~slot[k].closing /\ slot[k].type = "HALFCLOSE_WRITE"
  <2>1. ForceClose(k, slot[k], "CLOSE", c) /\ SameIds
    BY <1>1, <1>3, <1>5, <1>7 DEF ReadEnd, SameIds
  <2>. QED BY <1>1, <1>4, <1>7, <2>1, ForceCloseEffect
<1>8. CASE ~slot[k].closing /\ slot[k].type \notin {"HALFCLOSE_READ", "HALFCLOSE_WRITE"}
  <2>1. /\ SetSlot(k, CloseRead(slot[k])) /\ RaisesClose(k) /\ pc' # "force"
        /\ UNCHANGED failed
    BY <1>3, <1>8 DEF ReadEnd, Handled, RaisesClose
  <2>. DEFINE r == CloseRead(slot[k])
  <2>2. /\ r \in Record /\ r.id = slot[k].id /\ r.protocol = slot[k].protocol
        /\ r.tag = slot[k].tag /\ r.type = "HALFCLOSE_READ" /\ r.sending = slot[k].sending
    BY <1>2, <1>3, CloseReadFields
  <2>. HIDE DEF r
  <2>3. slot' \in [Slot -> Record] /\ slot'[k] = r /\ Elsewhere(k)
    BY <1>2, <2>1, <2>2, OneSlot DEF Elsewhere, r
  <2>4. Becomes(k)
    BY <1>1, <1>4, <2>1, <2>2, <2>3 DEF Becomes
  <2>5. Halves(k)
    BY <1>1, <1>8, <2>1, <2>2, <2>3, <2>4 DEF Halves
  <2>. QED BY <2>1, <2>3, <2>5 DEF Effect, SlotTypes, Inv, Assertions
<1>9. CASE /\ ~(slot[k].closing /\ nomore_sending_data(slot[k]))
           /\ ~(~slot[k].closing /\ slot[k].type = "HALFCLOSE_WRITE")
           /\ ~(~slot[k].closing /\ slot[k].type \notin {"HALFCLOSE_READ", "HALFCLOSE_WRITE"})
  <2>1. UNCHANGED <<slot, doomed, closes, failed>> /\ pc' # "force"
    BY <1>3, <1>9 DEF ReadEnd, Handled
  <2>. QED
    BY <1>1, <2>1, SameSlots, SendersStay
       DEF Effect, Quiet, SameThread, PipeGoesOn, SameIds, Inv, Assertions
<1>. QED
  BY <1>6, <1>7, <1>8, <1>9

LEMMA SendBufferEffect ==
    ASSUME Inv, SendBuffer
    PROVE  SlotTypes' /\ Effect /\ Assertions'
<1>0. /\ UNCHANGED <<alloc_id, opened, closes, pipe, at, job, reserving, failed>>
      /\ Handled(Tail(ev))
  BY Zenon DEF SendBuffer, sendVars
<1>1. /\ SameIds /\ SameSenders /\ UNCHANGED <<alloc_id, opened, closes, pipe, at, job, failed>>
      /\ pc' # "force"
  BY <1>0 DEF Handled, SameIds, SameSenders
<1>2. /\ s_ \in Slot /\ slot[s_].type \in Open /\ slot[s_] \in Record
      /\ slot \in [Slot -> Record]
  BY EventFacts DEF SendBuffer
<1>3. PICK k \in Slot : k = s_
  BY <1>2
<1>4. slot[k].type \notin Dead /\ (slot[k].closing => slot[k].type = "HALFCLOSE_READ")
  BY <1>2, <1>3 DEF Open, Dead, Inv, ClosesCounted
<1>5. CASE slot' = slot
  BY <1>1, <1>5, SameSlots, SendersStay
     DEF Effect, Quiet, SameThread, PipeGoesOn, SameIds, Inv, Assertions, SameSenders
<1>6. CASE slot' # slot
  <2>1. PICK r \in Record : r = TakeDirect(slot[k])
    BY <1>2, <1>3, TakeDirectFields
  <2>2. Alike(slot[k], r) /\ r.sending = slot[k].sending
    BY <1>2, <1>3, <2>1, TakeDirectFields
  <2>3. PICK n \in 0..Len(r.high \o r.low), part \in 0..1, error \in BOOLEAN :
          /\ n = Len(r.high \o r.low) => part = 0
          /\ SetSlot(k, IF error THEN CloseWrite(Written(r, n, 0))
                        ELSE CheckClose(Written(r, n, part)))
    BY <1>3, <1>6, <2>1 DEF SendBuffer
  <2>4. PICK y \in Record : /\ Alike(r, y) /\ y.sending = r.sending
                            /\ SetSlot(k, CloseWrite(y)) \/ SetSlot(k, CheckClose(y))
    <3>1. CASE error
      <4>1. SetSlot(k, CloseWrite(Written(r, n, 0)))
        BY <2>3, <3>1
      <4>2. PICK none \in 0..1 : none = 0
        OBVIOUS
      <4>3. SetSlot(k, CloseWrite(Written(r, n, none)))
        BY <4>1, <4>2
      <4>. QED BY <4>2, <4>3, WrittenFields
    <3>2. CASE ~error
      <4>1. SetSlot(k, CheckClose(Written(r, n, part)))
        BY <2>3, <3>2
      <4>. QED BY <2>3, <4>1, WrittenFields
    <3>. QED BY <3>1, <3>2
  <2>5. Alike(slot[k], y) /\ y.sending = slot[k].sending
    BY <2>2, <2>4 DEF Alike
  <2>6. PICK z \in Record :
          /\ SetSlot(k, z) /\ z.id = y.id /\ z.protocol = y.protocol /\ z.tag = y.tag
          /\ z.sending = y.sending
          /\ \/ /\ z.type = "INVALID" /\ send_buffer_empty(z)
                /\ y.closing \/ y.type = "HALFCLOSE_READ"
             \/ /\ z.type = "HALFCLOSE_WRITE" /\ z.closing = y.closing
                /\ y.type # "HALFCLOSE_READ"
             \/ z.type = y.type /\ z.closing = y.closing
    <3>1. CASE SetSlot(k, CloseWrite(y))
      BY <3>1, CloseWriteFields
    <3>2. CASE SetSlot(k, CheckClose(y))
      BY <3>2, CheckCloseFields
    <3>. QED BY <2>4, <3>1, <3>2
  <2>7. slot' \in [Slot -> Record] /\ slot'[k] = z /\ Elsewhere(k)
    BY <1>2, <2>6, OneSlot DEF Elsewhere
  <2>8. Becomes(k)
    BY <1>1, <1>4, <2>5, <2>6, <2>7 DEF Becomes, Alike
  <2>9. CASE z.type = "INVALID" /\ send_buffer_empty(z) /\ (y.closing \/ y.type = "HALFCLOSE_READ")
    <3>1. slot[k].type = "HALFCLOSE_READ"
      BY <1>4, <2>5, <2>9 DEF Alike
    <3>2. Ends(k)
      BY <1>1, <2>7, <2>8, <2>9, <3>1 DEF Ends
    <3>. QED BY <1>1, <2>7, <3>2 DEF Effect, SlotTypes, Inv, Assertions
  <2>10. CASE z.type = "HALFCLOSE_WRITE" /\ z.closing = y.closing /\ y.type # "HALFCLOSE_READ"
    <3>1. Turns(k)
      BY <1>1, <2>5, <2>7, <2>8, <2>10 DEF Turns, Dead, Type, Alike
    <3>. QED BY <1>1, <2>7, <3>1 DEF Effect, SlotTypes, Inv, Assertions
  <2>11. CASE z.type = y.type /\ z.closing = y.closing
    <3>1. Alike(slot[k], z) /\ z.sending = slot[k].sending
      BY <2>5, <2>6, <2>11 DEF Alike
    <3>2. SlotTypes' /\ SlotsAlike /\ SameSending
      BY <1>4, <2>6, <3>1, AlikeSlot DEF Inv
    <3>. QED
      BY <1>1, <3>2, SendersStay
         DEF Effect, Quiet, SameThread, PipeGoesOn, SameIds, Inv, Assertions, SameSenders
  <2>. QED BY <2>6, <2>9, <2>10, <2>11
<1>. QED
  BY <1>5, <1>6

\* Every step has one of the effects, and fails no assertion but force_close's.
LEMMA StepEffect ==
    ASSUME Inv, Next, ~Crosses
    PROVE  SlotTypes' /\ Effect /\ Assertions'
  BY AskEffect, ReserveTypeEffect, ReserveIdEffect, OpenRequestEffect, SendEffect,
     DirectWriteEffect, TriggerRequestEffect, SendRequestEffect, IncSendingEffect,
     OpenSocketEffect, ListenSocketEffect, PauseTriggerEffect, ResumeSocketEffect,
     CloseSocketEffect, SendSocketEffect,
     ForceCloseEndEffect, LoopEffect, EventReservedEffect, ReportConnectEffect,
     ReportAcceptEffect, HangUpEffect, ReadEndEffect, SendBufferEffect
  DEF Next, SocketThread, Service

-----------------------------------------------------------------------------
(* What the effects preserve: where the ids are. *)

LEMMA PipeTaken ==
    ASSUME pipe \in Seq(Cmd), pipe # <<>>, pipe' = Tail(pipe)
    PROVE  /\ DOMAIN pipe = 1..Len(pipe) /\ Len(pipe) \in Nat /\ pipe' \in Seq(Cmd)
           /\ Head(pipe) = pipe[1] /\ 1 \in DOMAIN pipe
           /\ \A i \in DOMAIN pipe' :
                i \in Nat /\ i + 1 \in DOMAIN pipe /\ pipe'[i] = pipe[i + 1]
           /\ \A i \in DOMAIN pipe \ {1} : i - 1 \in DOMAIN pipe'
<1>1. /\ pipe' \in Seq(Cmd) /\ Len(pipe') = Len(pipe) - 1
      /\ \A i \in 1..Len(pipe') : pipe'[i] = pipe[i + 1]
  BY HeadTailProperties
<1>2. /\ DOMAIN pipe = 1..Len(pipe) /\ Len(pipe) \in Nat
      /\ DOMAIN pipe' = 1..Len(pipe') /\ Len(pipe) # 0 /\ Head(pipe) = pipe[1]
  BY <1>1, LenProperties, EmptySeq
<1>. QED
  BY <1>1, <1>2

LEMMA PipeAsked ==
    ASSUME pipe \in Seq(Cmd), NEW c \in Cmd, pipe' = Append(pipe, c)
    PROVE  /\ DOMAIN pipe = 1..Len(pipe) /\ Len(pipe) \in Nat /\ pipe' \in Seq(Cmd)
           /\ DOMAIN pipe' = DOMAIN pipe \cup {Len(pipe) + 1}
           /\ Len(pipe) + 1 \notin DOMAIN pipe
           /\ \A i \in DOMAIN pipe : pipe'[i] = pipe[i]
           /\ pipe'[Len(pipe) + 1] = c
<1>1. /\ pipe' \in Seq(Cmd) /\ Len(pipe') = Len(pipe) + 1
      /\ \A i \in 1..Len(pipe) : pipe'[i] = pipe[i]
      /\ pipe'[Len(pipe) + 1] = c
  BY AppendProperties
<1>2. /\ DOMAIN pipe = 1..Len(pipe) /\ Len(pipe) \in Nat
      /\ DOMAIN pipe' = 1..Len(pipe')
  BY <1>1, LenProperties
<1>. QED
  BY <1>1, <1>2

Reserved(id) == slot[HASH_ID(id)].id = id /\ Use(HASH_ID(id)) = "RESERVE"

OtherHalves(k) == \A j \in Slot \ {k} : HalfReserved(j)' <=> HalfReserved(j)

\* The slots in the middle of reserve_id.
LEMMA HalvesStep ==
    ASSUME Inv
    PROVE  /\ UNCHANGED reserving => SameHalves
           /\ \A t \in Sender, k \in Slot : Reserves(t, k) =>
                OtherHalves(k) /\ HalfReserved(k)'
           /\ \A t \in Sender, k \in Slot : Names(t, k) =>
                OtherHalves(k) /\ HalfReserved(k) /\ ~HalfReserved(k)'
           /\ \A t \in Sender : Requires(t) => SameHalves
<1>1. UNCHANGED reserving => SameHalves
  BY HalvesSame DEF SameHalves
<1>2. DOMAIN reserving = Sender /\ \A t \in Sender : reserving[t] \in Ticket
  BY DEF Inv, Types, SenderTypes
<1>. DEFINE Half(k, t) == reserving[t].step = "id" /\ HASH_ID(reserving[t].id) = k
            Half1(k, t) == reserving'[t].step = "id" /\ HASH_ID(reserving'[t].id) = k
<1>3. ASSUME NEW t \in Sender, NEW k \in Slot, Reserves(t, k)
      PROVE  OtherHalves(k) /\ HalfReserved(k)'
  <2>1. PICK cmd \in Opening :
          reserving' = [reserving EXCEPT ![t] = [step |-> "id", id |-> alloc_id', cmd |-> cmd]]
    BY <1>3 DEF Reserves
  <2>2. reserving[t].step = "none" /\ HASH_ID(alloc_id') = k
    BY <1>3 DEF Reserves
  <2>3. /\ reserving'[t] = [step |-> "id", id |-> alloc_id', cmd |-> cmd]
        /\ \A u \in Sender \ {t} : reserving'[u] = reserving[u]
    BY <1>2, <2>1
  <2>4. Half1(k, t) /\ \A j : ~Half(j, t) /\ (Half1(j, t) => j = k)
    BY <2>2, <2>3
  <2>5. \A u \in Sender \ {t} : \A j : Half1(j, u) <=> Half(j, u)
    BY <2>3
  <2>. QED BY <2>4, <2>5 DEF OtherHalves, HalfReserved
<1>4. ASSUME NEW t \in Sender, NEW k \in Slot, Names(t, k)
      PROVE  OtherHalves(k) /\ HalfReserved(k) /\ ~HalfReserved(k)'
  <2>1. /\ reserving[t].step = "id" /\ HASH_ID(reserving[t].id) = k
        /\ reserving' = [reserving EXCEPT ![t].step = "open"]
    BY <1>4 DEF Names
  <2>2. /\ reserving'[t].step = "open"
        /\ \A u \in Sender \ {t} : reserving'[u] = reserving[u]
    <3>1. reserving'[t] = [reserving[t] EXCEPT !.step = "open"]
      BY <1>2, <2>1
    <3>2. reserving[t] \in [step : {"id", "open"}, id : Id, cmd : Opening]
      BY <1>2, <2>1 DEF Ticket, NotReserving
    <3>3. reserving'[t].step = "open"
      BY <3>1, <3>2
    <3>. QED BY <1>2, <2>1, <3>3
  <2>3. Half(k, t) /\ \A j : ~Half1(j, t) /\ (Half(j, t) => j = k)
    BY <2>1, <2>2
  <2>4. \A u \in Sender \ {t} : \A j : Half1(j, u) <=> Half(j, u)
    BY <2>2
  <2>5. \A u \in Sender \ {t} : ~Half(k, u)
    BY <2>1 DEF Inv, Tickets
  <2>. QED BY <2>3, <2>4, <2>5 DEF OtherHalves, HalfReserved
<1>5. ASSUME NEW t \in Sender, Requires(t) PROVE SameHalves
  <2>1. reserving[t].step = "open" /\ reserving' = [reserving EXCEPT ![t] = NotReserving]
    BY <1>5 DEF Requires
  <2>2. /\ reserving'[t].step = "none"
        /\ \A u \in Sender \ {t} : reserving'[u] = reserving[u]
    BY <1>2, <2>1 DEF NotReserving
  <2>3. \A u \in Sender : \A j : Half1(j, u) <=> Half(j, u)
    BY <2>1, <2>2
  <2>. QED BY <2>3 DEF SameHalves, HalfReserved
<1>. QED
  BY <1>1, <1>3, <1>4, <1>5

\* How Use and the type of a slot agree.
LEMMA UseFacts ==
    ASSUME Placed, NEW k \in Slot
    PROVE  /\ slot[k].type \notin Dead => ~HalfReserved(k) /\ Use(k) = slot[k].type
           /\ Use(k) # "INVALID" => ~HalfReserved(k) /\ Use(k) = slot[k].type
           /\ slot[k].type = "INVALID" => ~HalfReserved(k) /\ Use(k) = "INVALID"
           /\ HalfReserved(k) => slot[k].type = "RESERVE"
           /\ Use(k) = "INVALID" => slot[k].type \in Dead
  BY DEF Placed, SlotPlaced, Use, Dead

\* What all effects have in common: ids and connections are added, and at most one
\* command comes or goes.
GoesOn ==
    /\ alloc_id \in 0..MaxId /\ alloc_id' \in 0..MaxId /\ alloc_id <= alloc_id'
    /\ pipe \in Seq(Cmd) /\ opened \subseteq opened'
    /\ \/ pipe' = pipe
       \/ pipe # <<>> /\ pipe' = Tail(pipe)
       \/ \E c \in Cmd : /\ pipe' = Append(pipe, c) /\ c.id <= alloc_id'
                         /\ c.cmd = "send" => c.id \in opened
                         /\ c.cmd \in Opening =>
                                /\ \A i \in DOMAIN pipe : pipe[i].id # c.id
                                /\ Reserved(c.id)'

LEMMA EffectGoesOn ==
    ASSUME Inv, Effect
    PROVE  GoesOn
<1>1. alloc_id \in 0..MaxId /\ pipe \in Seq(Cmd)
  BY DEF Inv, Types, ThreadTypes
<1>. USE DEF GoesOn
<1>2. CASE Quiet
  <2>1. UNCHANGED <<alloc_id, opened>> /\ PipeGoesOn
    BY <1>2 DEF Quiet, SameIds
  <2>2. CASE Asks(Late)
    <3>1. PICK c \in Cmd : c.cmd \in Late /\ c.id \in 1..alloc_id /\ pipe' = Append(pipe, c)
      BY <2>2 DEF Asks, Known
    <3>2. c.cmd # "send" /\ c.cmd \notin Opening /\ c.id <= alloc_id
      BY <1>1, <3>1 DEF Late, Control, Opening
    <3>. QED BY <1>1, <2>1, <3>1, <3>2
  <2>. QED BY <1>1, <2>1, <2>2 DEF PipeGoesOn, Takes
<1>3. CASE Dooms \/ Delivers
  BY <1>1, <1>3 DEF Dooms, Delivers, Takes, SameIds
<1>4. ASSUME NEW t \in Sender, NEW k \in Slot, Reserves(t, k) \/ Names(t, k) PROVE GoesOn
  BY <1>1, <1>4, SocketAssumption DEF Reserves, Names, SameIds, Id
<1>10. ASSUME NEW t \in Sender, Requires(t) PROVE GoesOn
  <2>1. PICK c \in Cmd : /\ c.cmd \in Opening /\ c.id = reserving[t].id
                        /\ pipe' = Append(pipe, c)
    BY <1>10 DEF Requires
  <2>2. UNCHANGED <<alloc_id, opened, slot>> /\ reserving[t].step = "open" /\ SameHalves
    BY <1>10, HalvesStep DEF Requires, SameIds
  <2>3. PICK k \in Slot : k = HASH_ID(c.id)
    BY <2>1, <2>2, TicketType DEF Inv
  <2>4. /\ c.id <= alloc_id /\ \A i \in DOMAIN pipe : pipe[i].id # c.id
        /\ slot[k].type = "RESERVE" /\ slot[k].id = c.id
    BY <2>1, <2>2, <2>3 DEF Inv, Tickets, Ticketed
  <2>5. ~HalfReserved(k)
    <3>1. \A u \in Sender : reserving[u].step = "id" => HASH_ID(reserving[u].id) # k
      BY <2>1, <2>2, <2>3 DEF Inv, Tickets
    <3>. QED BY <3>1 DEF HalfReserved
  <2>6. ~HalfReserved(k)'
    BY <2>2, <2>5 DEF SameHalves
  <2>7. Reserved(c.id)'
    <3>1. PICK x : x = c.id
      OBVIOUS
    <3>2. slot'[k].id = x /\ Use(k)' = "RESERVE" /\ k = HASH_ID(x)
      BY <2>2, <2>3, <2>4, <2>6, <3>1 DEF Use
    <3>3. Reserved(x)'
      BY <3>2 DEF Reserved
    <3>. QED BY <3>1, <3>3
  <2>. QED BY <1>1, <2>1, <2>2, <2>4, <2>7 DEF Opening
<1>5. ASSUME NEW k \in Slot, Opens(k) \/ OpenFails(k) PROVE GoesOn
  BY <1>1, <1>5 DEF Opens, OpenFails, Takes, SameIds
<1>6. ASSUME NEW k \in Slot, Accepts(k) PROVE GoesOn
  <2>1. alloc_id' \in 0..MaxId /\ alloc_id' > alloc_id /\ opened' = opened /\ pipe' = pipe
    BY <1>6, SocketAssumption DEF Accepts, Id
  <2>. QED BY <1>1, <2>1
<1>7. ASSUME NEW k \in Slot, Turns(k) \/ Halves(k) \/ Ends(k) PROVE GoesOn
  BY <1>1, <1>7 DEF Turns, Halves, Ends, Becomes, Takes
<1>8. ASSUME NEW t \in Sender, Incs(t) PROVE GoesOn
  BY <1>1, <1>8 DEF Incs, SameIds
<1>9. ASSUME NEW t \in Sender, Posts(t) PROVE GoesOn
  <2>1. PICK c \in Cmd : c.cmd = "send" /\ c.id = job[t].id /\ pipe' = Append(pipe, c)
    BY <1>9 DEF Posts
  <2>2. c.id \in opened /\ c.id <= alloc_id /\ SameIds
    BY <1>9, <2>1 DEF Posts, Inv, Sent
  <2>. QED BY <1>1, <2>1, <2>2 DEF SameIds, Opening
<1>. QED
  BY <1>2, <1>3, <1>4, <1>5, <1>6, <1>7, <1>8, <1>9, <1>10 DEF Effect

\* The command that opens an id will be sent, and then stays on the pipe until it is
\* taken.
Keeps(x) ==
    \/ pipe' = pipe
    \/ /\ pipe # <<>> /\ pipe' = Tail(pipe)
       /\ Head(pipe).cmd \notin Opening \/ Head(pipe).id # x
    \/ \E c \in Cmd : pipe' = Append(pipe, c)

LEMMA StaysAsked ==
    ASSUME Inv, Effect, NEW x, Asked(x)
    PROVE  Awaited(x)'
<1>1. PICK t \in Sender : reserving[t].step = "open" /\ reserving[t].id = x
  BY DEF Asked
<1>2. CASE reserving'[t].step = "open" /\ reserving'[t].id = x
  BY <1>1, <1>2 DEF Awaited, Asked
<1>3. DOMAIN reserving = Sender
  BY DEF Inv, Types, SenderTypes
<1>4. CASE UNCHANGED reserving
  BY <1>1, <1>2, <1>4
<1>5. ASSUME NEW u \in Sender, NEW k \in Slot, Reserves(u, k) \/ Names(u, k)
      PROVE  Awaited(x)'
  <2>1. reserving[u].step # "open" /\ u # t
    BY <1>1, <1>5 DEF Reserves, Names
  <2>2. reserving'[t] = reserving[t]
    BY <1>3, <1>5, <2>1 DEF Reserves, Names
  <2>. QED BY <1>1, <1>2, <2>2
<1>6. ASSUME NEW u \in Sender, Requires(u) PROVE Awaited(x)'
  <2>1. CASE u # t
    <3>1. reserving'[t] = reserving[t]
      BY <1>3, <1>6, <2>1 DEF Requires
    <3>. QED BY <1>1, <1>2, <3>1
  <2>2. CASE u = t
    <3>1. PICK c \in Cmd : c.cmd \in Opening /\ c.id = x /\ pipe' = Append(pipe, c)
      BY <1>1, <1>6, <2>2 DEF Requires
    <3>2. Len(pipe) + 1 \in DOMAIN pipe' /\ pipe'[Len(pipe) + 1] = c
      BY <3>1, PipeAsked DEF Inv, Types, ThreadTypes
    <3>. QED BY <3>1, <3>2 DEF Awaited
  <2>. QED BY <2>1, <2>2
<1>. QED
  BY <1>4, <1>5, <1>6
  DEF Effect, Quiet, SendersGoOn, Dooms, Delivers, SameSenders, Opens, OpenFails,
      Accepts, Turns, Halves, Ends, Becomes, Incs, Posts

LEMMA StaysAwaited ==
    ASSUME Inv, Effect, GoesOn, NEW x, Awaited(x), Keeps(x)
    PROVE  Awaited(x)'
<1>0. CASE Asked(x)
  BY <1>0, StaysAsked
<1>1. SUFFICES ASSUME NEW i \in DOMAIN pipe, pipe[i].cmd \in Opening /\ pipe[i].id = x
               PROVE  Awaited(x)'
  BY <1>0 DEF Awaited
<1>2. CASE pipe' = pipe
  BY <1>1, <1>2 DEF Awaited
<1>3. CASE /\ pipe # <<>> /\ pipe' = Tail(pipe)
           /\ Head(pipe).cmd \notin Opening \/ Head(pipe).id # x
  <2>0. pipe \in Seq(Cmd)
    BY DEF GoesOn
  <2>1. /\ Head(pipe) = pipe[1] /\ DOMAIN pipe = 1..Len(pipe)
        /\ \A j \in DOMAIN pipe' : j + 1 \in DOMAIN pipe /\ pipe'[j] = pipe[j + 1]
        /\ \A j \in DOMAIN pipe \ {1} : j - 1 \in DOMAIN pipe'
    BY <1>3, <2>0, PipeTaken
  <2>2. i # 1
    BY <1>1, <1>3, <2>1
  <2>3. i - 1 \in DOMAIN pipe' /\ pipe'[i - 1] = pipe[i - 1 + 1]
    BY <2>1, <2>2
  <2>4. i - 1 + 1 = i
    BY <2>1
  <2>. QED BY <1>1, <2>3, <2>4 DEF Awaited
<1>4. ASSUME NEW c \in Cmd, pipe' = Append(pipe, c) PROVE Awaited(x)'
  <2>1. i \in DOMAIN pipe' /\ pipe'[i] = pipe[i]
    BY <1>4, PipeAsked DEF GoesOn
  <2>. QED BY <1>1, <2>1 DEF Awaited
<1>. QED
  BY <1>2, <1>3, <1>4 DEF Keeps

\* Two slots in use have two ids.
LEMMA TwoIds ==
    ASSUME Placed, NEW j \in Slot, NEW k \in Slot, j # k,
           Use(j) # "INVALID", Use(k) # "INVALID"
    PROVE  slot[j].id # slot[k].id
  BY DEF Placed, SlotPlaced

LEMMA AlikePlaced ==
    ASSUME Inv, Effect, SlotTypes', GoesOn, SlotsAlike, SameIds, SameHalves,
           \A x : Keeps(x)
    PROVE  Placed'
<1>. SUFFICES ASSUME NEW k \in Slot PROVE SlotPlaced(k)'
  BY DEF Placed
<1>1. Alike(slot[k], slot'[k]) /\ (slot[k].type \in Dead => send_buffer_empty(slot'[k]))
  BY DEF SlotsAlike
<1>2. SlotPlaced(k) /\ UNCHANGED <<alloc_id, opened>>
  BY DEF Inv, Placed, SameIds
<1>3. Awaited(slot[k].id) => Awaited(slot[k].id)'
  <2>1. PICK x : x = slot[k].id
    OBVIOUS
  <2>2. x = slot'[k].id
    BY <1>1, <2>1 DEF Alike
  <2>3. Awaited(x) => Awaited(x)'
    BY StaysAwaited
  <2>. QED BY <2>1, <2>2, <2>3 DEF Awaited, Asked
<1>4. Use(k)' = Use(k) /\ (HalfReserved(k)' <=> HalfReserved(k))
  BY <1>1 DEF Use, SameHalves, Alike
<1>. QED
  BY <1>1, <1>2, <1>3, <1>4 DEF SlotPlaced, Alike, send_buffer_empty

\* The slots that a step on slot k leaves alone.
LEMMA OthersPlaced ==
    ASSUME Inv, Effect, SlotTypes', GoesOn, NEW k \in Slot, Elsewhere(k), OtherHalves(k),
           opened' \subseteq opened \cup {slot[k].id},
           Use(k) = "INVALID" => opened' = opened,
           \A x : (Use(k) = "RESERVE" => x # slot[k].id) => Keeps(x)
    PROVE  \A j \in Slot \ {k} : SlotPlaced(j)'
<1>. SUFFICES ASSUME NEW j \in Slot, j # k PROVE SlotPlaced(j)'
  OBVIOUS
<1>1. slot'[j] = slot[j] /\ (HalfReserved(j)' <=> HalfReserved(j)) /\ Use(j)' = Use(j)
  BY DEF Elsewhere, OtherHalves, Use
<1>2. SlotPlaced(j) /\ alloc_id <= alloc_id' /\ slot[j].id <= alloc_id'
  BY DEF Inv, Placed, SlotPlaced, GoesOn, Types, Record
<1>3. Use(j) = "RESERVE" => slot[j].id \notin opened' /\ Awaited(slot[j].id)'
  <2>. SUFFICES ASSUME Use(j) = "RESERVE"
                PROVE  slot[j].id \notin opened' /\ Awaited(slot[j].id)'
    OBVIOUS
  <2>1. PICK x : x = slot[j].id
    OBVIOUS
  <2>2. x \notin opened /\ Awaited(x)
    BY <1>2, <2>1 DEF SlotPlaced
  <2>3. Use(k) # "INVALID" => x # slot[k].id
    BY <2>1, TwoIds DEF Inv
  <2>4. Awaited(x)'
    BY <2>2, <2>3, StaysAwaited
  <2>5. x \notin opened'
    BY <2>2, <2>3
  <2>. QED BY <1>1, <2>1, <2>4, <2>5 DEF Awaited, Asked
<1>. QED
  BY <1>1, <1>2, <1>3 DEF SlotPlaced, send_buffer_empty

LEMMA PlacedStep ==
    ASSUME Inv, SlotTypes', Effect
    PROVE  Placed'
<1>1. GoesOn
  BY EffectGoesOn
<1>2. Late \cap Opening = {} /\ "send" \notin Opening
  BY DEF Late, Control, Opening
<1>3. CASE Quiet \/ Dooms \/ Delivers
  <2>1. SlotsAlike /\ SameIds /\ SameHalves
    BY <1>3, HalvesStep DEF Quiet, Dooms, Delivers, SendersGoOn, SameSenders
  <2>2. \A x : Keeps(x)
    BY <1>2, <1>3 DEF Quiet, Dooms, Delivers, PipeGoesOn, Takes, Asks, Keeps
  <2>. QED BY <1>1, <2>1, <2>2, AlikePlaced
<1>4. ASSUME NEW t \in Sender, Incs(t) \/ Posts(t) \/ Requires(t) PROVE Placed'
  <2>1. SlotsAlike /\ SameIds /\ SameHalves
    BY <1>4, SameSlots, HalvesStep DEF Incs, Posts, Requires, Inv
  <2>2. \A x : Keeps(x)
    BY <1>4 DEF Incs, Posts, Requires, Keeps
  <2>. QED BY <1>1, <2>1, <2>2, AlikePlaced
<1>5. ASSUME NEW t \in Sender, NEW k \in Slot, Reserves(t, k) PROVE Placed'
  <2>1. /\ slot[k].type = "INVALID" /\ Elsewhere(k) /\ OtherHalves(k)
        /\ pipe' = pipe /\ opened' = opened /\ alloc_id' > alloc_id
    BY <1>5, HalvesStep DEF Reserves
  <2>2. \A j \in Slot \ {k} : SlotPlaced(j)'
    BY <1>1, <2>1, OthersPlaced DEF Keeps
  <2>3. HalfReserved(k)' /\ Use(k)' = "INVALID"
    BY <1>5, HalvesStep DEF Use
  <2>4. SlotPlaced(k) /\ slot[k].id \in Nat
    BY DEF Inv, Placed, Types, Record
  <2>5. SlotPlaced(k)'
    BY <1>1, <1>5, <2>1, <2>3, <2>4 DEF SlotPlaced, Reserves, GoesOn, Dead, send_buffer_empty
  <2>. QED BY <2>2, <2>5 DEF Placed
<1>9. ASSUME NEW t \in Sender, NEW k \in Slot, Names(t, k) PROVE Placed'
  <2>1. /\ Elsewhere(k) /\ OtherHalves(k) /\ HalfReserved(k) /\ ~HalfReserved(k)'
        /\ pipe' = pipe /\ UNCHANGED <<opened, alloc_id>>
    BY <1>9, HalvesStep DEF Names, SameIds
  <2>2. Use(k) = "INVALID"
    BY <2>1 DEF Use
  <2>3. \A j \in Slot \ {k} : SlotPlaced(j)'
    BY <1>1, <2>1, <2>2, OthersPlaced DEF Keeps
  <2>4. PICK x : x = reserving[t].id
    OBVIOUS
  <2>5. reserving[t].step = "id" /\ slot'[k].id = x /\ HASH_ID(x) = k
    BY <1>9, <2>4 DEF Names
  <2>6. x \in Id /\ x <= alloc_id /\ x \notin opened /\ slot[k].type = "RESERVE"
    BY <2>4, <2>5, TicketType DEF Inv, Tickets, Ticketed
  <2>7. Awaited(x)'
    <3>1. reserving[t] \in [step : {"id", "open"}, id : Id, cmd : Opening]
      BY <2>5, TicketType DEF Inv, Ticket, NotReserving
    <3>2. reserving'[t] = [reserving[t] EXCEPT !.step = "open"]
      BY <1>9, TicketType DEF Names, Inv
    <3>3. reserving'[t].step = "open" /\ reserving'[t].id = x
      BY <2>4, <3>1, <3>2
    <3>. QED BY <3>3 DEF Awaited, Asked
  <2>8. slot'[k].type = "RESERVE" /\ Use(k)' = "RESERVE" /\ slot'[k].protocol = "UNKNOWN"
    BY <1>9, <2>1, <2>6 DEF Names, Use
  <2>9. Awaited(slot[k].id)'
    BY <2>5, <2>7 DEF Awaited, Asked
  <2>10. SlotPlaced(k)'
    BY <1>9, <2>1, <2>5, <2>6, <2>8, <2>9 DEF SlotPlaced, Names, Dead
  <2>. QED BY <2>3, <2>10 DEF Placed
<1>6. ASSUME NEW k \in Slot, Opens(k) \/ OpenFails(k) PROVE Placed'
  <2>1. /\ Use(k) = "RESERVE" /\ Elsewhere(k) /\ UNCHANGED alloc_id /\ SameHalves
        /\ opened' = opened \/ opened' = opened \cup {slot[k].id}
        /\ pipe # <<>> /\ pipe' = Tail(pipe) /\ Head(pipe).id = slot[k].id
        /\ slot'[k].id = slot[k].id
    BY <1>6, HalvesStep DEF Opens, OpenFails, Takes, SameIds, SameSenders
  <2>2. \A j \in Slot \ {k} : SlotPlaced(j)'
    BY <1>1, <2>1, OthersPlaced DEF Keeps, SameHalves, OtherHalves
  <2>3. SlotPlaced(k)'
    <3>1. SlotPlaced(k)
      BY DEF Inv, Placed
    <3>2. ~HalfReserved(k)' /\ Use(k)' = slot'[k].type
      BY <2>1, UseFacts DEF SameHalves, Use, Inv
    <3>. QED
      BY <1>6, <2>1, <3>1, <3>2
      DEF SlotPlaced, Opens, OpenFails, IsNew, Dead, send_buffer_empty
  <2>. QED BY <2>2, <2>3 DEF Placed
<1>7. ASSUME NEW k \in Slot, Accepts(k) PROVE Placed'
  <2>1. slot[k].type = "INVALID" /\ Use(k) = "INVALID" /\ ~HalfReserved(k)
    BY <1>7, UseFacts DEF Accepts, Inv
  <2>2. /\ SameHalves /\ OtherHalves(k) /\ Elsewhere(k) /\ opened' = opened /\ pipe' = pipe
    BY <1>7, HalvesStep DEF Accepts, SameSenders, SameHalves, OtherHalves
  <2>3. \A j \in Slot \ {k} : SlotPlaced(j)'
    BY <1>1, <2>1, <2>2, OthersPlaced DEF Keeps
  <2>4. ~HalfReserved(k)' /\ Use(k)' = slot'[k].type
    BY <2>1, <2>2 DEF SameHalves, Use
  <2>5. SlotPlaced(k)'
    BY <1>1, <1>7, <2>4 DEF SlotPlaced, Accepts, IsNew, GoesOn, Dead
  <2>. QED BY <2>3, <2>5 DEF Placed
<1>8. ASSUME NEW k \in Slot, Turns(k) \/ Halves(k) \/ Ends(k) PROVE Placed'
  <2>1. Becomes(k) /\ (opened' = opened \/ opened' = opened \cup {slot[k].id})
    BY <1>8 DEF Turns, Halves, Ends
  <2>2. /\ slot[k].type \notin Dead /\ Elsewhere(k) /\ UNCHANGED alloc_id /\ SameHalves
        /\ slot'[k].id = slot[k].id /\ slot'[k].protocol = slot[k].protocol
        /\ slot'[k].tag = slot[k].tag /\ \A x : Keeps(x)
    BY <1>2, <2>1, HalvesStep DEF Becomes, Keeps, Takes, SameSenders
  <2>3. Use(k) = slot[k].type /\ ~HalfReserved(k)' /\ Use(k)' = slot'[k].type
    BY <2>2, UseFacts DEF SameHalves, Use, Inv
  <2>4. \A j \in Slot \ {k} : SlotPlaced(j)'
    BY <1>1, <2>1, <2>2, <2>3, OthersPlaced DEF Dead, SameHalves, OtherHalves
  <2>5. SlotPlaced(k)'
    <3>1. SlotPlaced(k)
      BY DEF Inv, Placed
    <3>2. /\ slot'[k].type # "RESERVE"
          /\ slot'[k].type \in Dead => send_buffer_empty(slot'[k])
      BY <1>8 DEF Turns, Halves, Ends, Dead
    <3>. QED BY <2>2, <2>3, <3>1, <3>2 DEF SlotPlaced, Dead, send_buffer_empty
  <2>. QED BY <2>4, <2>5 DEF Placed
<1>. QED
  BY <1>3, <1>4, <1>5, <1>6, <1>7, <1>8, <1>9 DEF Effect

LEMMA SentStep ==
    ASSUME Inv, SlotTypes', Effect
    PROVE  Sent'
<1>p. pipe \in Seq(Cmd)
  BY DEF Inv, Types, ThreadTypes
<1>1. GoesOn
  BY EffectGoesOn
<1>2. \A id \in opened' : id <= alloc_id'
  <2>1. \/ opened' = opened
        \/ \E k \in Slot : opened' = opened \cup {slot[k].id}
    BY DEF Effect, Quiet, Dooms, Delivers, Reserves, Names, Requires, Opens, OpenFails,
           Accepts, Turns, Halves, Ends, Incs, Posts, SameIds
  <2>2. \A k \in Slot : slot[k].id <= alloc_id /\ slot[k].id \in Nat
    BY DEF Inv, Types, Record, Placed, SlotPlaced
  <2>3. \A id \in opened : id <= alloc_id /\ id \in Nat
    <3>1. opened \subseteq 1..MaxId /\ MaxId \in Nat
      BY SocketAssumption DEF Inv, Types, SenderTypes, Id
    <3>2. \A id \in opened : id <= alloc_id
      BY DEF Inv, Sent
    <3>. QED BY <3>1, <3>2
  <2>. QED BY <1>1, <2>1, <2>2, <2>3 DEF GoesOn
<1>3. \A i \in DOMAIN pipe' : /\ pipe'[i].id <= alloc_id'
                              /\ pipe'[i].cmd = "send" => pipe'[i].id \in opened'
  <2>1. \A i \in DOMAIN pipe : /\ pipe[i].id <= alloc_id'
                               /\ pipe[i].cmd = "send" => pipe[i].id \in opened'
    <3>1. \A i \in DOMAIN pipe : /\ pipe[i].id <= alloc_id /\ pipe[i].id \in Nat
                                 /\ pipe[i].cmd = "send" => pipe[i].id \in opened
      <4>1. \A i \in DOMAIN pipe : pipe[i] \in Cmd
        BY <1>1, ElementOfSeq, LenProperties DEF GoesOn
      <4>2. \A c \in Cmd : c.id \in Nat
        BY DEF Cmd, Id
      <4>. QED BY <4>1, <4>2 DEF Inv, Sent
    <3>. QED BY <1>1, <3>1 DEF GoesOn
  <2>2. CASE pipe' = pipe
    BY <2>1, <2>2
  <2>3. CASE pipe # <<>> /\ pipe' = Tail(pipe)
    BY <1>1, <2>1, <2>3, PipeTaken, <1>p
  <2>4. CASE \E c \in Cmd : /\ pipe' = Append(pipe, c) /\ c.id <= alloc_id'
                            /\ c.cmd = "send" => c.id \in opened
    <3>1. PICK c \in Cmd : /\ pipe' = Append(pipe, c) /\ c.id <= alloc_id'
                           /\ c.cmd = "send" => c.id \in opened'
      BY <1>1, <2>4 DEF GoesOn
    <3>. QED BY <1>1, <2>1, <3>1, PipeAsked, <1>p
  <2>. QED BY <1>1, <2>2, <2>3, <2>4 DEF GoesOn
<1>4. \A t \in Sender : at'[t] # "idle" => job'[t].id \in opened'
  <2>1. opened \subseteq opened' /\ \A t \in Sender : at[t] # "idle" => job[t].id \in opened
    BY <1>1 DEF GoesOn, Inv, Sent
  <2>2. CASE Quiet
    BY <2>2 DEF Quiet, SendersGoOn, SameIds
  <2>3. CASE UNCHANGED <<at, job>>
    BY <2>1, <2>3
  <2>4. ASSUME NEW t \in Sender, Incs(t) \/ Posts(t)
        PROVE  \A u \in Sender : at'[u] # "idle" => job'[u].id \in opened'
    <3>1. at \in [Sender -> Place] /\ DOMAIN job = Sender
      BY DEF Inv, Types, SenderTypes
    <3>2. /\ \A u \in Sender \ {t} : at'[u] = at[u] /\ job'[u] = job[u]
          /\ at'[t] = "idle" \/ (at[t] # "idle" /\ job'[t] = job[t])
      BY <2>4, <3>1 DEF Incs, Posts
    <3>. QED BY <2>1, <3>2
  <2>. QED
    BY <2>2, <2>3, <2>4 DEF Effect, Dooms, Delivers, Reserves, Names, Requires, Opens,
       OpenFails, Accepts, Turns, Halves, Ends, Becomes, SameSenders
<1>. QED
  BY <1>2, <1>3, <1>4 DEF Sent

\* A slot stays reserved until the command that opens its id is taken.
LEMMA StaysReserved ==
    ASSUME Inv, Effect, NEW h \in Slot, slot[h].type = "RESERVE"
    PROVE  \/ /\ slot'[h].type = "RESERVE"
              /\ ~HalfReserved(h) => ~HalfReserved(h)' /\ slot'[h].id = slot[h].id
           \/ /\ ~HalfReserved(h) /\ pipe # <<>> /\ pipe' = Tail(pipe)
              /\ Head(pipe).id = slot[h].id
<1>. DEFINE Stays == /\ slot'[h].type = "RESERVE"
                     /\ ~HalfReserved(h) => ~HalfReserved(h)' /\ slot'[h].id = slot[h].id
            Taken == /\ ~HalfReserved(h) /\ pipe # <<>> /\ pipe' = Tail(pipe)
                     /\ Head(pipe).id = slot[h].id
<1>1. ASSUME SlotsAlike, UNCHANGED reserving PROVE Stays
  BY <1>1, HalvesStep DEF SlotsAlike, Alike, SameHalves
<1>2. ASSUME NEW k \in Slot, k # h, Elsewhere(k), OtherHalves(k)
      PROVE  Stays
  BY <1>2 DEF Elsewhere, OtherHalves
<1>3. ASSUME NEW t \in Sender, NEW k \in Slot, Reserves(t, k) PROVE Stays
  BY <1>2, <1>3, HalvesStep DEF Reserves
<1>4. ASSUME NEW k \in Slot, UNCHANGED reserving PROVE OtherHalves(k)
  BY <1>4, HalvesStep DEF OtherHalves, SameHalves
<1>5. ASSUME NEW k \in Slot, Accepts(k) \/ Turns(k) \/ Halves(k) \/ Ends(k) PROVE Stays
  BY <1>2, <1>4, <1>5 DEF Accepts, Turns, Halves, Ends, Becomes, Dead, SameSenders
<1>6. ASSUME NEW k \in Slot, Opens(k) \/ OpenFails(k) PROVE Stays \/ Taken
  BY <1>2, <1>4, <1>6, UseFacts DEF Opens, OpenFails, Takes, SameSenders, Inv
<1>7. ASSUME NEW t \in Sender, NEW k \in Slot, Names(t, k) PROVE Stays
  BY <1>2, <1>7, HalvesStep DEF Names
<1>8. ASSUME NEW t \in Sender, Incs(t) \/ Posts(t) PROVE Stays
  BY <1>1, <1>8, SameSlots DEF Incs, Posts, Inv
<1>9. ASSUME NEW t \in Sender, Requires(t) PROVE Stays
  BY <1>9, HalvesStep DEF Requires, SameHalves
<1>. HIDE DEF Stays, Taken
<1>10. Stays \/ Taken
  <2>1. CASE Quiet \/ Dooms \/ Delivers
    BY <1>1, <2>1 DEF Quiet, Dooms, Delivers, SendersGoOn, SameSenders
  <2>. QED BY <1>3, <1>5, <1>6, <1>7, <1>8, <1>9, <2>1 DEF Effect
<1>. QED
  BY <1>10 DEF Stays, Taken

\* What is being reserved stays unknown to others.
LEMMA TicketStays ==
    ASSUME Inv, SlotTypes', Effect, GoesOn, NEW t \in Sender, reserving[t].step # "none",
           reserving'[t] = reserving[t]
    PROVE  Ticketed(t)'
<1>1. PICK x, k : x = reserving[t].id /\ k = HASH_ID(x)
  OBVIOUS
<1>2. x \in Id /\ k \in Slot
  BY <1>1, TicketType DEF Inv
<1>3. /\ x <= alloc_id /\ x \notin opened /\ closes[x] = 0 /\ slot[k].type = "RESERVE"
      /\ \A i \in DOMAIN pipe : pipe[i].id # x
      /\ reserving[t].step = "open" => slot[k].id = x
  BY <1>1 DEF Inv, Tickets, Ticketed
<1>4. pipe # <<>> => Head(pipe).id # x
  BY <1>3, HeadOfPipe DEF Inv, Types, ThreadTypes
<1>5. \A j \in Slot : slot[j].type \notin Dead => slot[j].id # x
  <2>. SUFFICES ASSUME NEW j \in Slot, slot[j].type \notin Dead, slot[j].id = x PROVE FALSE
    OBVIOUS
  <2>1. HASH_ID(slot[j].id) = j
    BY UseFacts DEF Inv, Placed, SlotPlaced, Dead
  <2>. QED BY <1>1, <1>3, <2>1 DEF Dead
<1>6. x \notin opened'
  <2>1. \/ opened' = opened
        \/ \E j \in Slot : /\ opened' = opened \cup {slot[j].id}
                           /\ \/ slot[j].type \notin Dead
                              \/ pipe # <<>> /\ slot[j].id = Head(pipe).id
    BY DEF Effect, Quiet, Dooms, Delivers, Reserves, Names, Requires, Opens, OpenFails,
           Accepts, Turns, Halves, Ends, Incs, Posts, SameIds, Takes, Becomes
  <2>. QED BY <1>3, <1>4, <1>5, <2>1
<1>7. closes'[x] = 0
  <2>1. UNCHANGED closes \/ \E j \in Slot : RaisesClose(j) /\ slot[j].type \notin Dead
    BY DEF Effect, Quiet, Dooms, Delivers, Reserves, Names, Requires, Opens, OpenFails,
           Accepts, Turns, Halves, Ends, Incs, Posts, SameIds, Becomes
  <2>2. closes \in [Id -> Nat]
    BY DEF Inv, Types, SenderTypes
  <2>. QED BY <1>2, <1>3, <1>5, <2>1, <2>2 DEF RaisesClose
<1>8. \A i \in DOMAIN pipe' : pipe'[i].id # x
  <2>1. pipe \in Seq(Cmd)
    BY DEF GoesOn
  <2>2. ASSUME NEW c \in Cmd, c.id \in Known PROVE c.id # x
    BY <1>1, <2>2 DEF Known
  <2>3. ASSUME NEW u \in Sender, Posts(u), NEW c \in Cmd, c.id = job[u].id PROVE c.id # x
    BY <1>3, <2>3 DEF Posts, Inv, Sent
  <2>4. ASSUME NEW u \in Sender, Requires(u), NEW c \in Cmd, c.id = reserving[u].id
        PROVE  c.id # x
    <3>1. reserving[u].step = "open" /\ reserving' = [reserving EXCEPT ![u] = NotReserving]
      BY <2>4 DEF Requires
    <3>2. u # t
      BY <3>1, TicketType DEF Inv, NotReserving
    <3>. QED BY <1>1, <2>4, <3>1, <3>2 DEF Inv, Tickets
  <2>5. \/ pipe' = pipe
        \/ pipe # <<>> /\ pipe' = Tail(pipe)
        \/ \E c \in Cmd : pipe' = Append(pipe, c) /\ c.id # x
    <3>. DEFINE Goal == \/ pipe' = pipe
                        \/ pipe # <<>> /\ pipe' = Tail(pipe)
                        \/ \E c \in Cmd : pipe' = Append(pipe, c) /\ c.id # x
    <3>1. ASSUME Asks(Late) PROVE Goal
      BY <2>2, <3>1 DEF Asks
    <3>2. ASSUME NEW u \in Sender, Posts(u) \/ Requires(u) PROVE Goal
      BY <2>3, <2>4, <3>2 DEF Posts, Requires
    <3>3. ASSUME pipe' = pipe \/ (pipe # <<>> /\ pipe' = Tail(pipe)) PROVE Goal
      BY <3>3
    <3>. HIDE DEF Goal
    <3>4. Goal
      BY <3>1, <3>2, <3>3 DEF Effect, Quiet, PipeGoesOn, Dooms, Delivers, Reserves, Names,
         Opens, OpenFails, Accepts, Turns, Halves, Ends, Incs, Takes, Becomes
    <3>. QED BY <3>4 DEF Goal
  <2>6. CASE pipe' = pipe
    BY <1>3, <2>6
  <2>7. CASE pipe # <<>> /\ pipe' = Tail(pipe)
    BY <1>3, <2>1, <2>7, PipeTaken
  <2>8. ASSUME NEW c \in Cmd, pipe' = Append(pipe, c), c.id # x
        PROVE  \A i \in DOMAIN pipe' : pipe'[i].id # x
    BY <1>3, <2>1, <2>8, PipeAsked
  <2>. QED BY <2>5, <2>6, <2>7, <2>8
<1>9. reserving[t].step = "open" <=> ~HalfReserved(k)
  <2>1. reserving[t].step \in {"id", "open"}
    BY TicketType DEF Inv
  <2>2. \A u \in Sender : reserving[u].step = "id" /\ HASH_ID(reserving[u].id) = k => u = t
    BY <1>1 DEF Inv, Tickets
  <2>. QED BY <1>1, <2>1, <2>2 DEF HalfReserved
<1>10. slot'[k].type = "RESERVE" /\ (reserving[t].step = "open" => slot'[k].id = x)
  BY <1>2, <1>3, <1>4, <1>9, StaysReserved
<1>11. x <= alloc_id'
  BY <1>2, <1>3 DEF GoesOn, Id
<1>12. /\ reserving'[t].id = x /\ HASH_ID(reserving'[t].id) = k
       /\ reserving'[t].step = reserving[t].step
  BY <1>1
<1>. QED
  BY <1>6, <1>7, <1>8, <1>10, <1>11, <1>12 DEF Ticketed

LEMMA TicketsStep ==
    ASSUME Inv, SlotTypes', Effect
    PROVE  Tickets'
<1>p. pipe \in Seq(Cmd)
  BY DEF Inv, Types, ThreadTypes
<1>1. GoesOn
  BY EffectGoesOn
<1>2. /\ DOMAIN reserving = Sender /\ \A t \in Sender : Ticketed(t)
      /\ \A t, u \in Sender :
            reserving[t].step # "none" /\ reserving[u].step # "none" /\ t # u =>
                HASH_ID(reserving[t].id) # HASH_ID(reserving[u].id)
  BY DEF Inv, Types, SenderTypes, Tickets
<1>3. ASSUME NEW t \in Sender, reserving'[t] = reserving[t] PROVE Ticketed(t)'
  BY <1>1, <1>3, TicketStays DEF Ticketed
<1>4. CASE UNCHANGED reserving
  BY <1>2, <1>3, <1>4 DEF Tickets
<1>5. ASSUME NEW t \in Sender, NEW k \in Slot, Reserves(t, k) PROVE Tickets'
  <2>1. PICK x \in Id, cmd \in Opening :
          /\ x = alloc_id' /\ x > alloc_id /\ HASH_ID(x) = k
          /\ reserving' = [reserving EXCEPT ![t] = [step |-> "id", id |-> x, cmd |-> cmd]]
          /\ UNCHANGED <<opened, closes, pipe>> /\ slot'[k].type = "RESERVE"
          /\ slot[k].type = "INVALID"
    BY <1>5 DEF Reserves
  <2>2. /\ reserving'[t] = [step |-> "id", id |-> x, cmd |-> cmd]
        /\ \A u \in Sender \ {t} : reserving'[u] = reserving[u]
    BY <1>2, <2>1
  <2>3. reserving'[t].step = "id" /\ reserving'[t].id = x
    BY <2>2
  <2>4. \A i \in DOMAIN pipe : pipe[i].id # x
    <3>1. \A i \in DOMAIN pipe : pipe[i].id <= alloc_id
      BY DEF Inv, Sent
    <3>2. \A i \in DOMAIN pipe : pipe[i].id \in Nat
      <4>1. \A i \in DOMAIN pipe : pipe[i] \in Cmd
        BY <1>1, ElementOfSeq, LenProperties DEF GoesOn
      <4>2. \A c \in Cmd : c.id \in Nat
        BY DEF Cmd, Id
      <4>. QED BY <4>1, <4>2
    <3>. QED BY <1>1, <2>1, <3>1, <3>2 DEF GoesOn, Id
  <2>5. closes[x] = 0 /\ x \notin opened /\ x <= alloc_id'
    <3>1. x \in Nat /\ alloc_id \in Nat
      BY <1>1, <2>1 DEF GoesOn, Id
    <3>. QED BY <2>1, <3>1 DEF Inv, ClosesCounted, Sent
  <2>6. Ticketed(t)'
    BY <2>1, <2>3, <2>4, <2>5 DEF Ticketed
  <2>7. \A u \in Sender \ {t} : reserving[u].step # "none" => HASH_ID(reserving[u].id) # k
    BY <1>2, <2>1 DEF Ticketed
  <2>. QED BY <1>2, <1>3, <2>1, <2>2, <2>3, <2>6, <2>7 DEF Tickets
<1>6. ASSUME NEW t \in Sender, NEW k \in Slot, Names(t, k) PROVE Tickets'
  <2>1. PICK x : x = reserving[t].id
    OBVIOUS
  <2>2. /\ reserving[t].step = "id" /\ HASH_ID(x) = k /\ slot'[k].id = x
        /\ slot'[k].type = slot[k].type
        /\ reserving' = [reserving EXCEPT ![t].step = "open"]
        /\ UNCHANGED <<alloc_id, opened, closes, pipe>>
    BY <1>6, <2>1 DEF Names, SameIds
  <2>3. /\ reserving'[t].step = "open" /\ reserving'[t].id = x
        /\ \A u \in Sender \ {t} : reserving'[u] = reserving[u]
    <3>1. reserving[t] \in [step : {"id", "open"}, id : Id, cmd : Opening]
      BY <2>2, TicketType DEF Inv, Ticket, NotReserving
    <3>2. reserving'[t] = [reserving[t] EXCEPT !.step = "open"]
      BY <1>2, <2>2
    <3>3. reserving'[t].step = "open" /\ reserving'[t].id = x
      BY <2>1, <3>1, <3>2
    <3>. QED BY <1>2, <2>2, <3>3
  <2>4. Ticketed(t)'
    BY <1>2, <2>1, <2>2, <2>3 DEF Ticketed
  <2>. QED BY <1>2, <1>3, <2>1, <2>2, <2>3, <2>4 DEF Tickets
<1>7. ASSUME NEW t \in Sender, Requires(t) PROVE Tickets'
  <2>1. /\ reserving'[t].step = "none"
        /\ \A u \in Sender \ {t} : reserving'[u] = reserving[u]
    BY <1>2, <1>7 DEF Requires, NotReserving
  <2>2. Ticketed(t)'
    BY <2>1 DEF Ticketed
  <2>. QED BY <1>2, <1>3, <2>1, <2>2 DEF Tickets
<1>. QED
  BY <1>4, <1>5, <1>6, <1>7
  DEF Effect, Quiet, SendersGoOn, Dooms, Delivers, SameSenders, Opens, OpenFails,
      Accepts, Turns, Halves, Ends, Becomes, Incs, Posts

LEMMA OpenFirstStep ==
    ASSUME Inv, SlotTypes', Effect
    PROVE  OpenFirst'
<1>p. pipe \in Seq(Cmd)
  BY DEF Inv, Types, ThreadTypes
<1>1. GoesOn
  BY EffectGoesOn
<1>2. /\ DOMAIN pipe = 1..Len(pipe) /\ Len(pipe) \in Nat
      /\ \A i \in DOMAIN pipe : pipe[i].id \in Nat /\ HASH_ID(pipe[i].id) \in Slot
  <2>1. \A c \in Cmd : c.id \in Nat
    BY DEF Cmd, Id
  <2>2. \A i \in DOMAIN pipe : pipe[i] \in Cmd
    BY <1>1, ElementOfSeq, LenProperties DEF GoesOn
  <2>. QED BY <1>1, <2>1, <2>2, HashType, LenProperties DEF GoesOn
<1>3. /\ \A i \in DOMAIN pipe : pipe[i].cmd \in Opening => Reserved(pipe[i].id)
      /\ \A i, j \in DOMAIN pipe :
            pipe[j].cmd \in Opening /\ pipe[i].id = pipe[j].id => j <= i
  BY DEF Inv, OpenFirst, Reserved
<1>. DEFINE Id1(i) == pipe'[i].id
            Single(i, j) == pipe'[j].cmd \in Opening /\ Id1(i) = Id1(j) => j <= i
            Half1(k) == \E t \in Sender : /\ reserving'[t].step = "id"
                                          /\ HASH_ID(reserving'[t].id) = k
            Old(x) == /\ slot'[HASH_ID(x)].id = x
                      /\ slot'[HASH_ID(x)].type = "RESERVE" /\ ~Half1(HASH_ID(x))
<1>4. SUFFICES /\ \A i \in DOMAIN pipe' : pipe'[i].cmd \in Opening => Old(Id1(i))
               /\ \A i, j \in DOMAIN pipe' : Single(i, j)
  BY DEF OpenFirst, Use, HalfReserved
<1>5. ASSUME NEW i \in DOMAIN pipe, pipe[i].cmd \in Opening,
             pipe # <<>> /\ pipe' = Tail(pipe) => i # 1
      PROVE  Old(pipe[i].id)
  <2>0. PICK h \in Slot : h = HASH_ID(pipe[i].id)
    BY <1>2
  <2>1. slot[h].type = "RESERVE" /\ slot[h].id = pipe[i].id /\ ~HalfReserved(h)
    BY <1>2, <1>3, <1>5, <2>0 DEF Reserved, Use
  <2>2. CASE slot'[h].type = "RESERVE" /\ slot'[h].id = slot[h].id /\ ~HalfReserved(h)'
    BY <2>0, <2>1, <2>2 DEF HalfReserved
  <2>3. CASE pipe # <<>> /\ pipe' = Tail(pipe) /\ Head(pipe).id = slot[h].id
    <3>1. Head(pipe) = pipe[1] /\ 1 \in DOMAIN pipe
      BY <1>1, <2>3, PipeTaken, <1>p
    <3>2. pipe[1].id = pipe[i].id
      BY <2>1, <2>3, <3>1
    <3>3. i <= 1
      BY <1>3, <1>5, <3>1, <3>2
    <3>. QED BY <1>2, <1>5, <2>3, <3>3
  <2>. QED BY <2>1, <2>2, <2>3, StaysReserved
<1>6. CASE pipe' = pipe
  <2>1. pipe # <<>> /\ pipe' = Tail(pipe) => FALSE
    <3>1. pipe # <<>> => Len(Tail(pipe)) = Len(pipe) - 1
      BY <1>p, HeadTailProperties
    <3>. QED BY <1>2, <1>6, <3>1
  <2>. QED BY <1>3, <1>5, <1>6, <2>1
<1>7. CASE pipe # <<>> /\ pipe' = Tail(pipe)
  <2>1. \A i \in DOMAIN pipe' : /\ i \in Nat /\ i + 1 \in DOMAIN pipe
                                /\ pipe'[i] = pipe[i + 1] /\ i + 1 # 1
    <3>1. \A i \in DOMAIN pipe' : i \in Nat /\ i + 1 \in DOMAIN pipe /\ pipe'[i] = pipe[i + 1]
      BY <1>1, <1>7, PipeTaken, <1>p
    <3>2. \A i \in DOMAIN pipe' : i # 0
      BY <1>7, LenProperties, <1>p, HeadTailProperties
    <3>. QED BY <3>1, <3>2
  <2>2. \A i \in DOMAIN pipe' : pipe'[i].cmd \in Opening => Old(Id1(i))
    BY <1>5, <2>1
  <2>3. ASSUME NEW i \in DOMAIN pipe', NEW j \in DOMAIN pipe' PROVE Single(i, j)
    <3>1. pipe'[j].cmd \in Opening /\ pipe'[i].id = pipe'[j].id => j + 1 <= i + 1
      BY <1>3, <2>1
    <3>. QED BY <2>1, <3>1
  <2>. QED BY <2>2, <2>3
<1>8. CASE \E c \in Cmd : /\ pipe' = Append(pipe, c) /\ c.id <= alloc_id'
                          /\ c.cmd = "send" => c.id \in opened
                          /\ c.cmd \in Opening =>
                                /\ \A i \in DOMAIN pipe : pipe[i].id # c.id
                                /\ Reserved(c.id)'
  <2>1. PICK c \in Cmd : /\ pipe' = Append(pipe, c)
                         /\ c.cmd \in Opening =>
                                /\ \A i \in DOMAIN pipe : pipe[i].id # c.id
                                /\ Reserved(c.id)'
    BY <1>8
  <2>. DEFINE n == Len(pipe) + 1
  <2>2. /\ DOMAIN pipe' = DOMAIN pipe \cup {n} /\ pipe'[n] = c
        /\ \A i \in DOMAIN pipe : pipe'[i] = pipe[i] /\ i < n
    <3>1. pipe \in Seq(Cmd) /\ pipe' = Append(pipe, c)
      BY <1>1, <2>1 DEF GoesOn
    <3>2. /\ DOMAIN pipe' = DOMAIN pipe \cup {n} /\ pipe'[n] = c
          /\ \A i \in DOMAIN pipe : pipe'[i] = pipe[i]
      BY <3>1, PipeAsked
    <3>3. \A i \in DOMAIN pipe : i < n
      BY <1>2
    <3>. QED BY <3>2, <3>3
  <2>. HIDE DEF n
  <2>3. pipe # <<>> /\ pipe' = Tail(pipe) => FALSE
    <3>1. pipe # <<>> => Len(Tail(pipe)) = Len(pipe) - 1
      BY <1>p, HeadTailProperties
    <3>2. Len(pipe') = Len(pipe) + 1
      BY <1>1, <2>1, <1>p, AppendProperties
    <3>. QED BY <1>2, <3>1, <3>2
  <2>4. ASSUME NEW i \in DOMAIN pipe', pipe'[i].cmd \in Opening PROVE Old(Id1(i))
    <3>1. CASE i \in DOMAIN pipe
      BY <1>5, <2>2, <2>3, <2>4, <3>1
    <3>2. CASE i = n
      BY <2>1, <2>2, <2>4, <3>2 DEF Reserved, Use, HalfReserved
    <3>. QED BY <2>2, <3>1, <3>2
  <2>5. ASSUME NEW i \in DOMAIN pipe', NEW j \in DOMAIN pipe' PROVE Single(i, j)
    <3>1. CASE i \in DOMAIN pipe /\ j \in DOMAIN pipe
      BY <1>3, <2>2, <3>1
    <3>2. CASE i = n
      BY <1>2, <2>2, <3>2 DEF n
    <3>3. CASE i \in DOMAIN pipe /\ j = n
      <4>1. pipe'[i].id = pipe[i].id /\ pipe'[j] = c
        BY <2>2, <3>3
      <4>. QED BY <2>1, <3>3, <4>1
    <3>. QED BY <2>2, <3>1, <3>2, <3>3
  <2>. QED BY <2>4, <2>5
<1>. QED
  BY <1>1, <1>6, <1>7, <1>8 DEF GoesOn

LEMMA ForcedStep ==
    ASSUME Inv, SlotTypes', Effect
    PROVE  Forced'
<1>1. SUFFICES ASSUME pc' = "force" PROVE Forced'
  BY DEF Forced
<1>2. pc = "force" => Forced /\ doomed.s \in Slot
  BY DEF Inv, Types, ThreadTypes, Doom
<1>3. CASE UNCHANGED <<pc, doomed>> /\ SlotsAlike
  BY <1>1, <1>2, <1>3 DEF Forced, SlotsAlike, Alike
<1>4. ASSUME NEW t \in Sender, NEW k \in Slot, Reserves(t, k) \/ Names(t, k) PROVE Forced'
  <2>1. UNCHANGED <<pc, doomed>> /\ slot[k].type \in Dead /\ Elsewhere(k)
    BY <1>4 DEF Reserves, Names, Dead, Inv, Tickets, Ticketed
  <2>2. doomed.s # k
    BY <1>1, <1>2, <2>1 DEF Forced, Dead
  <2>. QED BY <1>1, <1>2, <2>1, <2>2 DEF Forced, Elsewhere
<1>5. ASSUME NEW t \in Sender, Incs(t) \/ Posts(t) \/ Requires(t) PROVE Forced'
  BY <1>3, <1>5, SameSlots DEF Incs, Posts, Requires, Inv
<1>6. ASSUME NEW k \in Slot,
             Opens(k) \/ OpenFails(k) \/ Accepts(k) \/ Turns(k) \/ Halves(k) \/ Ends(k)
      PROVE  FALSE
  BY <1>1, <1>6 DEF Opens, OpenFails, Accepts, Turns, Halves, Ends, Becomes
<1>. QED
  BY <1>1, <1>3, <1>4, <1>5, <1>6 DEF Effect, Quiet, SameThread, Dooms, Delivers

-----------------------------------------------------------------------------
(* What the effects preserve: how often SOCKET_CLOSE has been raised. *)

SlotCloses(k) ==
    /\ slot[k].type \notin Dead =>
        /\ slot[k].closing => slot[k].type = "HALFCLOSE_READ"
        /\ slot[k].type = "CONNECTING" => slot[k].id \notin opened
        /\ closes[slot[k].id] = IF slot[k].type = "HALFCLOSE_READ" THEN 1 ELSE 0
    /\ Use(k) = "RESERVE" => closes[slot[k].id] = 0

IdCloses(id) ==
    /\ closes[id] <= 1
    /\ id > alloc_id => closes[id] = 0
    /\ id \in opened /\ ~Live(id) => closes[id] = 1

LEMMA ClosesParts ==
    ClosesCounted <=> (\A k \in Slot : SlotCloses(k)) /\ (\A id \in Id : IdCloses(id))
  BY DEF ClosesCounted, SlotCloses, IdCloses

\* A step that raises nothing and leaves the slots what they were.
LEMMA AlikeCloses ==
    ASSUME Inv, SlotTypes', SlotsAlike, SameIds, SameHalves
    PROVE  (\A k \in Slot : SlotCloses(k)') /\ (\A id \in Id : IdCloses(id)')
<1>1. (\A k \in Slot : SlotCloses(k)) /\ (\A id \in Id : IdCloses(id))
  BY ClosesParts DEF Inv
<1>2. ASSUME NEW k \in Slot PROVE SlotCloses(k)'
  <2>1. SlotCloses(k) /\ Alike(slot[k], slot'[k]) /\ UNCHANGED <<closes, opened>>
    BY <1>1 DEF SlotsAlike, SameIds
  <2>2. Use(k)' = Use(k)
    BY <2>1 DEF Use, SameHalves, Alike
  <2>. QED BY <2>1, <2>2 DEF SlotCloses, Alike
<1>3. ASSUME NEW id \in Id PROVE IdCloses(id)'
  <2>1. HASH_ID(id) \in Slot
    BY HashType DEF Id
  <2>2. Alike(slot[HASH_ID(id)], slot'[HASH_ID(id)])
    BY <2>1 DEF SlotsAlike
  <2>3. Live(id) <=> Live(id)'
    BY <2>2 DEF Live, Alike
  <2>. QED BY <1>1, <2>3 DEF IdCloses, SameIds
<1>. QED
  BY <1>2, <1>3

\* The slots and the ids that a step on slot k has nothing to do with.
LEMMA OthersCloses ==
    ASSUME Inv, SlotTypes', GoesOn, NEW k \in Slot, Elsewhere(k), OtherHalves(k),
           opened' = opened \/ (opened' = opened \cup {slot[k].id} /\ Use(k) # "INVALID"),
           UNCHANGED closes \/ (RaisesClose(k) /\ Use(k) # "INVALID")
    PROVE  /\ \A j \in Slot \ {k} : SlotCloses(j)'
           /\ \A id \in Id : HASH_ID(id) # k => IdCloses(id)'
           /\ \A id \in Id : id # slot[k].id => closes'[id] = closes[id]
<1>1. /\ \A j \in Slot : SlotCloses(j)
      /\ \A id \in Id : IdCloses(id)
      /\ closes \in [Id -> Nat] /\ Placed
  BY ClosesParts DEF Inv, Types, SenderTypes
<1>2. \A id \in Id : id # slot[k].id => closes'[id] = closes[id]
  BY <1>1 DEF RaisesClose
<1>3. ASSUME NEW j \in Slot, j # k PROVE SlotCloses(j)'
  <2>1. slot'[j] = slot[j] /\ SlotCloses(j) /\ Use(j)' = Use(j)
    BY <1>1, <1>3 DEF Elsewhere, OtherHalves, Use
  <2>2. CASE Use(j) = "INVALID"
    <3>1. slot[j].type \in Dead
      BY <1>1, <2>2, UseFacts
    <3>. QED BY <2>1, <2>2, <3>1 DEF SlotCloses
  <2>3. CASE Use(j) # "INVALID"
    <3>1. slot[j].id \in Id
      BY <1>1, <2>3 DEF Placed, SlotPlaced
    <3>2. Use(k) # "INVALID" => slot[j].id # slot[k].id
      BY <1>1, <1>3, <2>3, TwoIds
    <3>3. closes'[slot[j].id] = closes[slot[j].id]
      BY <1>2, <3>1, <3>2
    <3>4. slot[j].id \in opened' => slot[j].id \in opened
      BY <3>2
    <3>. QED BY <2>1, <3>3, <3>4 DEF SlotCloses
  <2>. QED BY <2>2, <2>3
<1>4. ASSUME NEW id \in Id, HASH_ID(id) # k PROVE IdCloses(id)'
  <2>1. HASH_ID(id) \in Slot
    BY HashType DEF Id
  <2>2. Live(id)' <=> Live(id)
    BY <1>4, <2>1 DEF Live, Elsewhere
  <2>3. Use(k) # "INVALID" => id # slot[k].id
    BY <1>1, <1>4 DEF Placed, SlotPlaced
  <2>4. closes'[id] = closes[id] /\ (id \in opened' => id \in opened)
    BY <1>2, <2>3
  <2>5. id > alloc_id' => id > alloc_id
    BY DEF GoesOn, Id
  <2>. QED BY <1>1, <2>2, <2>4, <2>5 DEF IdCloses
<1>. QED
  BY <1>2, <1>3, <1>4

LEMMA ClosesStep ==
    ASSUME Inv, SlotTypes', Effect
    PROVE  ClosesCounted'
<1>1. SUFFICES (\A k \in Slot : SlotCloses(k)') /\ (\A id \in Id : IdCloses(id)')
  BY DEF ClosesCounted, SlotCloses, IdCloses, Live
<1>2. /\ \A j \in Slot : SlotCloses(j)
      /\ \A id \in Id : IdCloses(id)
      /\ closes \in [Id -> Nat] /\ Placed /\ GoesOn
  BY ClosesParts, EffectGoesOn DEF Inv, Types, SenderTypes
<1>3. CASE SlotsAlike /\ SameIds /\ SameHalves
  BY <1>3, AlikeCloses
<1>4. ASSUME NEW t \in Sender, Incs(t) \/ Posts(t) \/ Requires(t)
      PROVE  SlotsAlike /\ SameIds /\ SameHalves
  BY <1>4, SameSlots, HalvesStep DEF Incs, Posts, Requires, Inv
<1>h. ASSUME UNCHANGED reserving, NEW k \in Slot PROVE OtherHalves(k)
  BY <1>h, HalvesStep DEF SameHalves, OtherHalves
<1>5. ASSUME NEW k \in Slot, Elsewhere(k), OtherHalves(k), UNCHANGED <<opened, closes>>,
             slot[k].type \in Dead, SlotCloses(k)'
      PROVE  (\A j \in Slot : SlotCloses(j)') /\ (\A id \in Id : IdCloses(id)')
  <2>1. /\ \A j \in Slot \ {k} : SlotCloses(j)'
        /\ \A id \in Id : HASH_ID(id) # k => IdCloses(id)'
    BY <1>2, <1>5, OthersCloses
  <2>2. ASSUME NEW id \in Id, HASH_ID(id) = k PROVE IdCloses(id)'
    <3>1. ~Live(id)
      BY <1>5, <2>2 DEF Live, Dead
    <3>2. id > alloc_id' => id > alloc_id
      BY <1>2 DEF GoesOn, Id
    <3>. QED BY <1>2, <1>5, <3>1, <3>2 DEF IdCloses
  <2>. QED BY <1>5, <2>1, <2>2
<1>8. ASSUME NEW k \in Slot, Accepts(k)
      PROVE  (\A j \in Slot : SlotCloses(j)') /\ (\A id \in Id : IdCloses(id)')
  <2>1. /\ slot[k].type \in Dead /\ Elsewhere(k) /\ UNCHANGED <<opened, closes>>
        /\ alloc_id' \in Id /\ alloc_id' > alloc_id /\ slot'[k].id = alloc_id'
        /\ OtherHalves(k) /\ ~slot'[k].closing /\ slot'[k].type = "PACCEPT"
    BY <1>8, <1>h DEF Accepts, SameSenders, Dead, IsNew
  <2>2. closes'[slot'[k].id] = 0
    BY <1>2, <2>1 DEF IdCloses
  <2>3. SlotCloses(k)'
    BY <2>1, <2>2 DEF SlotCloses, Use
  <2>. QED BY <1>5, <2>1, <2>3
<1>9. ASSUME NEW t \in Sender, NEW k \in Slot, Reserves(t, k)
      PROVE  (\A j \in Slot : SlotCloses(j)') /\ (\A id \in Id : IdCloses(id)')
  <2>1. /\ slot[k].type \in Dead /\ Elsewhere(k) /\ UNCHANGED <<opened, closes>>
        /\ OtherHalves(k) /\ HalfReserved(k)' /\ slot'[k].type = "RESERVE"
    BY <1>9, HalvesStep DEF Reserves, Dead
  <2>2. SlotCloses(k)'
    BY <2>1 DEF SlotCloses, Use, Dead
  <2>. QED BY <1>5, <2>1, <2>2
<1>10. ASSUME NEW t \in Sender, NEW k \in Slot, Names(t, k)
       PROVE  (\A j \in Slot : SlotCloses(j)') /\ (\A id \in Id : IdCloses(id)')
  <2>1. /\ slot[k].type = "RESERVE" /\ Elsewhere(k) /\ UNCHANGED <<opened, closes>>
        /\ OtherHalves(k) /\ slot'[k].type = "RESERVE" /\ closes[slot'[k].id] = 0
    BY <1>10, HalvesStep DEF Names, SameIds, Inv, Tickets, Ticketed
  <2>2. SlotCloses(k)'
    BY <2>1 DEF SlotCloses, Dead
  <2>. QED BY <1>5, <2>1, <2>2 DEF Dead
<1>6. ASSUME NEW k \in Slot, Opens(k) \/ OpenFails(k)
      PROVE  (\A j \in Slot : SlotCloses(j)') /\ (\A id \in Id : IdCloses(id)')
  <2>0. Use(k) = "RESERVE" /\ slot[k].type = "RESERVE" /\ OtherHalves(k)
    BY <1>2, <1>6, <1>h, UseFacts DEF Opens, OpenFails, SameSenders
  <2>1. /\ Elsewhere(k) /\ UNCHANGED <<alloc_id, closes>>
        /\ slot'[k].id = slot[k].id
        /\ \/ opened' = opened
           \/ slot'[k].type = "CONNECTED" /\ opened' = opened \cup {slot[k].id}
    BY <1>6 DEF Opens, OpenFails, SameIds
  <2>2. /\ \A j \in Slot \ {k} : SlotCloses(j)'
        /\ \A id \in Id : HASH_ID(id) # k => IdCloses(id)'
    BY <1>2, <2>0, <2>1, OthersCloses
  <2>3. closes'[slot'[k].id] = 0 /\ slot[k].id \notin opened
    BY <1>2, <2>0, <2>1 DEF SlotCloses, Placed, SlotPlaced
  <2>4. SlotCloses(k)'
    <3>1. \/ slot'[k].type = "INVALID"
          \/ ~slot'[k].closing /\ slot'[k].type \in {"CONNECTED", "CONNECTING", "PLISTEN"}
      BY <1>6 DEF Opens, OpenFails, IsNew
    <3>. QED BY <2>1, <2>3, <3>1 DEF SlotCloses, Dead, Use
  <2>5. ASSUME NEW id \in Id, HASH_ID(id) = k PROVE IdCloses(id)'
    <3>1. ~Live(id)
      BY <2>0, <2>5 DEF Live
    <3>2. CASE id = slot[k].id
      <4>1. id \in opened' => Live(id)'
        BY <2>1, <2>3, <2>5, <3>2 DEF Live
      <4>. QED BY <1>2, <2>1, <4>1 DEF IdCloses
    <3>3. CASE id # slot[k].id
      <4>1. id \in opened' => id \in opened
        BY <2>1, <3>3
      <4>. QED BY <1>2, <2>1, <3>1, <4>1 DEF IdCloses
    <3>. QED BY <3>2, <3>3
  <2>. QED BY <2>2, <2>4, <2>5
<1>7. ASSUME NEW k \in Slot, Turns(k) \/ Halves(k) \/ Ends(k)
      PROVE  (\A j \in Slot : SlotCloses(j)') /\ (\A id \in Id : IdCloses(id)')
  <2>1. /\ Becomes(k)
        /\ opened' = opened \/ opened' = opened \cup {slot[k].id}
        /\ UNCHANGED closes \/ RaisesClose(k)
    BY <1>7 DEF Turns, Halves, Ends
  <2>2. /\ slot[k].type \notin Dead /\ Elsewhere(k) /\ UNCHANGED alloc_id
        /\ slot'[k].id = slot[k].id /\ OtherHalves(k)
    BY <1>h, <2>1 DEF Becomes, SameSenders
  <2>u. Use(k) # "INVALID" /\ Use(k) = slot[k].type
    BY <1>2, <2>2, UseFacts DEF Dead
  <2>3. /\ \A j \in Slot \ {k} : SlotCloses(j)'
        /\ \A id \in Id : HASH_ID(id) # k => IdCloses(id)'
        /\ \A id \in Id : id # slot[k].id => closes'[id] = closes[id]
    BY <1>2, <2>1, <2>2, <2>u, OthersCloses
  <2>4. PICK x \in Id : x = slot[k].id
    BY <1>2, <2>u DEF Placed, SlotPlaced
  <2>5. /\ closes[x] = IF slot[k].type = "HALFCLOSE_READ" THEN 1 ELSE 0
        /\ slot[k].closing => slot[k].type = "HALFCLOSE_READ"
        /\ slot[k].type = "CONNECTING" => x \notin opened
        /\ x <= alloc_id /\ HASH_ID(x) = k
    BY <1>2, <2>2, <2>u, <2>4 DEF SlotCloses, Placed, SlotPlaced
  <2>6. RaisesClose(k) => closes'[x] = closes[x] + 1
    BY <1>2, <2>4 DEF RaisesClose
  <2>7. SlotCloses(k)' /\ IdCloses(x)'
    <3>1. CASE Turns(k)
      <4>1. /\ slot[k].type # "HALFCLOSE_READ" /\ slot'[k].closing = slot[k].closing
            /\ slot'[k].type \notin Dead /\ slot'[k].type # "HALFCLOSE_READ"
            /\ slot'[k].type # "CONNECTING" /\ closes' = closes
        BY <3>1 DEF Turns
      <4>2. Live(x)'
        BY <2>2, <2>4, <2>5, <4>1 DEF Live, Dead
      <4>. QED BY <1>2, <2>2, <2>4, <2>5, <4>1, <4>2 DEF SlotCloses, IdCloses, Use, Dead
    <3>2. CASE Halves(k)
      <4>1. /\ slot'[k].type = "HALFCLOSE_READ" /\ closes'[x] = 1
        BY <2>5, <2>6, <3>2 DEF Halves
      <4>2. Live(x)'
        BY <2>2, <2>4, <2>5, <4>1 DEF Live, Dead
      <4>3. ~(x > alloc_id')
        BY <1>2, <2>2, <2>5 DEF GoesOn, Id
      <4>. QED BY <2>2, <2>4, <4>1, <4>2, <4>3 DEF SlotCloses, IdCloses, Use
    <3>3. CASE Ends(k)
      <4>1. /\ slot'[k].type = "INVALID" /\ UNCHANGED opened
            /\ closes'[x] = 1 \/ (closes'[x] = 0 /\ x \notin opened)
        BY <2>5, <2>6, <3>3 DEF Ends
      <4>2. ~(x > alloc_id')
        BY <1>2, <2>2, <2>5 DEF GoesOn, Id
      <4>. QED BY <4>1, <4>2 DEF SlotCloses, IdCloses, Dead, Use
    <3>. QED BY <1>7, <3>1, <3>2, <3>3
  <2>8. ASSUME NEW id \in Id, HASH_ID(id) = k, id # x PROVE IdCloses(id)'
    <3>1. ~Live(id)
      BY <2>4, <2>8 DEF Live
    <3>2. closes'[id] = closes[id] /\ (id \in opened' => id \in opened)
      BY <2>1, <2>3, <2>4, <2>8
    <3>. QED BY <1>2, <2>2, <3>1, <3>2 DEF IdCloses
  <2>. QED BY <2>3, <2>7, <2>8
<1>. QED
  <2>1. CASE Quiet \/ Dooms \/ Delivers
    BY <1>3, <2>1, HalvesStep DEF Quiet, Dooms, Delivers, SendersGoOn, SameSenders
  <2>. QED BY <1>3, <1>4, <1>6, <1>7, <1>8, <1>9, <1>10, <2>1 DEF Effect

-----------------------------------------------------------------------------
(* What the effects preserve: the count of packets on their way. *)

LEMMA CountTypes ==
    ASSUME Types, NEW x
    PROVE  /\ IsFiniteSet(Requests(x)) /\ Cardinality(Requests(x)) \in Nat
           /\ IsFiniteSet(Sends(x)) /\ Cardinality(Sends(x)) \in Nat
<1>1. Requests(x) \in SUBSET Sender /\ IsFiniteSet(Sender)
  BY SocketAssumption DEF Requests
<1>2. Sends(x) \in SUBSET (1..Len(pipe)) /\ Len(pipe) \in Nat
  BY LenProperties DEF Sends, Types, ThreadTypes
<1>3. IsFiniteSet(1..Len(pipe))
  BY <1>2, FS_Interval
<1>4. IsFiniteSet(Requests(x)) /\ IsFiniteSet(Sends(x))
  BY <1>1, <1>2, <1>3, FS_Subset
<1>. QED
  BY <1>4, FS_CardinalityType

\* A command is taken.
LEMMA SendsTaken ==
    ASSUME Types, NEW x, pipe # <<>>, pipe' = Tail(pipe)
    PROVE  Cardinality(Sends(x)') =
             IF Head(pipe).cmd = "send" /\ Head(pipe).id = x
             THEN Cardinality(Sends(x)) - 1 ELSE Cardinality(Sends(x))
<1>1. /\ DOMAIN pipe = 1..Len(pipe) /\ Len(pipe) \in Nat
      /\ Head(pipe) = pipe[1] /\ 1 \in DOMAIN pipe
      /\ \A i \in DOMAIN pipe' :
           i \in Nat /\ i + 1 \in DOMAIN pipe /\ pipe'[i] = pipe[i + 1]
      /\ \A i \in DOMAIN pipe \ {1} : i - 1 \in DOMAIN pipe'
  BY PipeTaken DEF Types, ThreadTypes
<1>a. \A i \in DOMAIN pipe' : i # 0
  BY HeadTailProperties, LenProperties DEF Types, ThreadTypes
<1>. DEFINE S == Sends(x) \ {1}
            T == Sends(x)'
            f == [i \in S |-> i - 1]
<1>2. IsFiniteSet(S) /\ Cardinality(S) = IF 1 \in Sends(x) THEN Cardinality(Sends(x)) - 1
                                         ELSE Cardinality(Sends(x))
  BY CountTypes, FS_RemoveElement
<1>3. f \in Bijection(S, T)
  <2>1. ASSUME NEW i \in S PROVE i - 1 \in T /\ i \in Nat
    <3>1. /\ i \in DOMAIN pipe \ {1} /\ pipe[i].cmd = "send" /\ pipe[i].id = x
          /\ i \in Nat /\ i - 1 \in DOMAIN pipe' /\ i - 1 + 1 = i
      BY <1>1 DEF Sends
    <3>2. pipe'[i - 1] = pipe[i]
      BY <1>1, <3>1
    <3>. QED BY <3>1, <3>2 DEF Sends
  <2>2. ASSUME NEW j \in T PROVE j + 1 \in S /\ j \in Nat
    <3>1. /\ j \in DOMAIN pipe' /\ pipe'[j].cmd = "send" /\ pipe'[j].id = x
          /\ j \in Nat /\ j # 0 /\ j + 1 \in DOMAIN pipe /\ pipe'[j] = pipe[j + 1]
      BY <1>1, <1>a DEF Sends
    <3>. QED BY <3>1 DEF Sends
  <2>. HIDE DEF S, T
  <2>3. f \in [S -> T]
    BY <2>1
  <2>4. \A i, j \in S : f[i] = f[j] => i = j
    BY <2>1
  <2>5. \A j \in T : \E i \in S : f[i] = j
    <3>. TAKE j \in T
    <3>1. PICK i \in S : i = j + 1
      BY <2>2
    <3>2. i - 1 = j /\ f[i] = i - 1
      BY <2>2, <3>1
    <3>. QED BY <3>2
  <2>. HIDE DEF f
  <2>. QED BY <2>3, <2>4, <2>5 DEF Bijection, Injection, Surjection, IsInjective
<1>4. Cardinality(T) = Cardinality(S)
  <2>. HIDE DEF S, T, f
  <2>. QED BY <1>2, <1>3, FS_Bijection DEF ExistsBijection
<1>5. 1 \in Sends(x) <=> Head(pipe).cmd = "send" /\ Head(pipe).id = x
  BY <1>1 DEF Sends
<1>. QED
  BY <1>2, <1>4, <1>5

\* A command is added.
LEMMA SendsAsked ==
    ASSUME Types, NEW x, NEW c \in Cmd, pipe' = Append(pipe, c)
    PROVE  Cardinality(Sends(x)') =
             IF c.cmd = "send" /\ c.id = x
             THEN Cardinality(Sends(x)) + 1 ELSE Cardinality(Sends(x))
<1>1. PICK n : /\ DOMAIN pipe' = DOMAIN pipe \cup {n} /\ n \notin DOMAIN pipe
               /\ pipe'[n] = c /\ \A i \in DOMAIN pipe : pipe'[i] = pipe[i]
  <2>1. /\ DOMAIN pipe' = DOMAIN pipe \cup {Len(pipe) + 1}
        /\ Len(pipe) + 1 \notin DOMAIN pipe /\ pipe'[Len(pipe) + 1] = c
        /\ \A i \in DOMAIN pipe : pipe'[i] = pipe[i]
    BY PipeAsked DEF Types, ThreadTypes
  <2>. QED BY <2>1, Zenon
<1>2. n \notin Sends(x)
  BY <1>1 DEF Sends
<1>3. CASE c.cmd = "send" /\ c.id = x
  <2>1. Sends(x)' = Sends(x) \cup {n}
    BY <1>1, <1>3 DEF Sends
  <2>. QED BY <1>2, <1>3, <2>1, CountTypes, FS_AddElement
<1>4. CASE ~(c.cmd = "send" /\ c.id = x)
  <2>1. Sends(x)' = Sends(x)
    BY <1>1, <1>4 DEF Sends
  <2>. QED BY <1>4, <2>1
<1>. QED
  BY <1>3, <1>4

\* Nothing is on its way to an id that is not open.
LEMMA NothingSent ==
    ASSUME Inv, NEW x, x \notin opened
    PROVE  Cardinality(Requests(x)) = 0 /\ Cardinality(Sends(x)) = 0
<1>1. Requests(x) = {} /\ Sends(x) = {}
  BY DEF Inv, Sent, Requests, Sends
<1>. QED
  BY <1>1, FS_EmptySet

\* A step after which the same packets are on their way.
LEMMA SameCount ==
    ASSUME Inv, NEW x,
           SendersGoOn \/ UNCHANGED <<at, job>>,
           \/ pipe' = pipe
           \/ pipe # <<>> /\ pipe' = Tail(pipe) /\ Head(pipe).cmd # "send"
           \/ \E c \in Cmd : pipe' = Append(pipe, c) /\ c.cmd # "send"
    PROVE  /\ Cardinality(Requests(x)') = Cardinality(Requests(x))
           /\ Cardinality(Sends(x)') = Cardinality(Sends(x))
<1>1. Requests(x)' = Requests(x)
  BY DEF SendersGoOn, Requests
<1>2. CASE pipe' = pipe
  BY <1>1, <1>2 DEF Sends
<1>3. CASE pipe # <<>> /\ pipe' = Tail(pipe) /\ Head(pipe).cmd # "send"
  BY <1>1, <1>3, SendsTaken DEF Inv
<1>4. ASSUME NEW c \in Cmd, pipe' = Append(pipe, c), c.cmd # "send"
      PROVE  Cardinality(Sends(x)') = Cardinality(Sends(x))
  BY <1>4, SendsAsked DEF Inv
<1>. QED
  BY <1>1, <1>2, <1>3, <1>4

LEMMA CountedStep ==
    ASSUME Inv, SlotTypes', Effect
    PROVE  Counted'
<1>. DEFINE N(x) == Cardinality(Requests(x)) + Cardinality(Sends(x))
            N1(x) == Cardinality(Requests(x)') + Cardinality(Sends(x)')
<1>1. SUFFICES ASSUME NEW k \in Slot, slot'[k].protocol = "TCP", NEW x, x = slot'[k].id
               PROVE  slot'[k].sending = N1(x)
  BY DEF Counted, Requests, Sends
<1>2. \A j \in Slot : slot[j].protocol = "TCP" => slot[j].sending = N(slot[j].id)
  BY DEF Inv, Counted
<1>3. /\ Late \cap Opening = {} /\ "send" \notin Opening /\ "send" \notin Late
      /\ Types /\ GoesOn
  BY EffectGoesOn DEF Late, Control, Opening, Inv
<1>. HIDE DEF N, N1
<1>4. CASE Quiet
  <2>1. slot[k].protocol = "TCP" /\ slot[k].id = x /\ slot'[k].sending = slot[k].sending
    BY <1>1, <1>4 DEF Quiet, SlotsAlike, Alike, SameSending
  <2>2. N1(x) = N(x)
    BY <1>3, <1>4, SameCount DEF Quiet, PipeGoesOn, Takes, Asks, N, N1
  <2>. QED BY <1>2, <2>1, <2>2
<1>5. CASE Dooms
  <2>1. slot[k].protocol = "TCP" /\ slot[k].id = x /\ slot'[k].sending = slot[k].sending
    BY <1>1, <1>5 DEF Dooms, SlotsAlike, Alike, SameSending
  <2>2. N1(x) = N(x)
    BY <1>3, <1>5, SameCount DEF Dooms, SameSenders, Takes, N, N1
  <2>. QED BY <1>2, <2>1, <2>2
<1>6. ASSUME NEW h \in Slot, Elsewhere(h), h # k, N1(x) = N(x)
      PROVE  slot'[k].sending = N1(x)
  BY <1>1, <1>2, <1>6 DEF Elsewhere
<1>7. ASSUME NEW t \in Sender, NEW h \in Slot, Reserves(t, h) \/ Names(t, h)
      PROVE  slot'[k].sending = N1(x)
  <2>1. N1(x) = N(x) /\ Elsewhere(h)
    BY <1>3, <1>7, SameCount DEF Reserves, Names, N, N1
  <2>2. CASE h = k
    BY <1>1, <1>2, <1>7, <2>1, <2>2 DEF Reserves, Names
  <2>. QED BY <1>6, <2>1, <2>2
<1>14. ASSUME NEW t \in Sender, Requires(t) PROVE slot'[k].sending = N1(x)
  <2>1. N1(x) = N(x) /\ slot' = slot
    BY <1>3, <1>14, SameCount DEF Requires, N, N1
  <2>. QED BY <1>1, <1>2, <2>1
<1>8. ASSUME NEW h \in Slot, Opens(h) \/ OpenFails(h) PROVE slot'[k].sending = N1(x)
  <2>1. N1(x) = N(x) /\ Elsewhere(h) /\ Use(h) = "RESERVE" /\ slot'[h].id = slot[h].id
    BY <1>3, <1>8, SameCount DEF Opens, OpenFails, SameSenders, Takes, N, N1
  <2>2. CASE h = k
    <3>1. x \notin opened /\ slot[k].protocol = "UNKNOWN"
      BY <1>1, <2>1, <2>2 DEF Inv, Placed, SlotPlaced
    <3>2. slot'[k].sending = 0
      BY <1>1, <1>8, <2>2, <3>1 DEF Opens, OpenFails, IsNew
    <3>3. N(x) = 0
      BY <3>1, NothingSent DEF N
    <3>. QED BY <2>1, <3>2, <3>3
  <2>. QED BY <1>6, <2>1, <2>2
<1>9. ASSUME NEW h \in Slot, Accepts(h) PROVE slot'[k].sending = N1(x)
  <2>1. N1(x) = N(x)
    BY <1>9, SameCount DEF Accepts, SameSenders, N, N1
  <2>2. CASE h = k
    <3>1. x = alloc_id' /\ alloc_id' > alloc_id /\ slot'[k].sending = 0
      BY <1>1, <1>9, <2>2 DEF Accepts, IsNew
    <3>2. x \notin opened
      BY <1>3, <3>1 DEF GoesOn, Inv, Sent
    <3>3. N(x) = 0
      BY <3>2, NothingSent DEF N
    <3>. QED BY <2>1, <3>1, <3>3
  <2>. QED BY <1>6, <1>9, <2>1, <2>2 DEF Accepts
<1>10. ASSUME NEW h \in Slot, Turns(h) \/ Halves(h) \/ Ends(h) PROVE slot'[k].sending = N1(x)
  <2>1. Becomes(h)
    BY <1>10 DEF Turns, Halves, Ends
  <2>2. N1(x) = N(x) /\ Elsewhere(h)
    BY <1>3, <2>1, SameCount DEF Becomes, SameSenders, Takes, N, N1
  <2>3. CASE h = k
    BY <1>1, <1>2, <2>1, <2>2, <2>3 DEF Becomes
  <2>. QED BY <1>6, <2>2, <2>3
<1>11. ASSUME NEW t \in Sender, Incs(t) PROVE slot'[k].sending = N1(x)
  <2>1. /\ slot[k].protocol = "TCP" /\ slot[k].id = x
        /\ slot'[k].sending = IF x = job[t].id THEN slot[k].sending + 1 ELSE slot[k].sending
    BY <1>1, <1>11 DEF Incs, SlotsAlike, Alike
  <2>2. Sends(x)' = Sends(x)
    BY <1>11 DEF Incs, Sends
  <2>3. at \in [Sender -> Place] /\ at[t] = "inc" /\ job' = job
        /\ at' = [at EXCEPT ![t] = "request"]
    BY <1>3, <1>11 DEF Types, SenderTypes, Incs
  <2>4. t \notin Requests(x)
    BY <2>3 DEF Requests
  <2>5. CASE x = job[t].id
    <3>1. Requests(x)' = Requests(x) \cup {t}
      BY <2>3, <2>5 DEF Requests
    <3>2. Cardinality(Requests(x)') = Cardinality(Requests(x)) + 1
      BY <1>3, <2>4, <3>1, CountTypes, FS_AddElement
    <3>. QED BY <1>2, <1>3, <2>1, <2>2, <2>5, <3>2, CountTypes DEF N, N1
  <2>6. CASE x # job[t].id
    <3>1. Requests(x)' = Requests(x)
      BY <2>3, <2>6 DEF Requests
    <3>. QED BY <1>2, <2>1, <2>2, <2>6, <3>1 DEF N, N1
  <2>. QED BY <2>5, <2>6
<1>12. ASSUME NEW t \in Sender, Posts(t) PROVE slot'[k].sending = N1(x)
  <2>1. slot' = slot /\ slot[k].sending = N(x)
    BY <1>1, <1>2, <1>12 DEF Posts
  <2>2. /\ at \in [Sender -> Place] /\ at[t] = "request" /\ DOMAIN job = Sender
        /\ job' = [job EXCEPT ![t] = NULL] /\ at' = [at EXCEPT ![t] = "idle"]
    BY <1>3, <1>12 DEF Types, SenderTypes, Posts
  <2>3. PICK c \in Cmd : c.cmd = "send" /\ c.id = job[t].id /\ pipe' = Append(pipe, c)
    BY <1>12 DEF Posts
  <2>4. Cardinality(Sends(x)') =
            IF job[t].id = x THEN Cardinality(Sends(x)) + 1 ELSE Cardinality(Sends(x))
    BY <1>3, <2>3, SendsAsked
  <2>5. Requests(x)' = Requests(x) \ {t} /\ (t \in Requests(x) <=> job[t].id = x)
    BY <2>2 DEF Requests
  <2>6. Cardinality(Requests(x)') =
            IF job[t].id = x THEN Cardinality(Requests(x)) - 1 ELSE Cardinality(Requests(x))
    BY <1>3, <2>5, CountTypes, FS_RemoveElement
  <2>. QED BY <1>3, <2>1, <2>4, <2>6, CountTypes DEF N, N1
<1>13. CASE Delivers
  <2>1. /\ slot[k].protocol = "TCP" /\ slot[k].id = x
        /\ slot'[k].sending = IF x = Head(pipe).id THEN slot[k].sending - 1 ELSE slot[k].sending
        /\ pipe # <<>> /\ pipe' = Tail(pipe) /\ Head(pipe).cmd = "send" /\ SameSenders
    BY <1>1, <1>13 DEF Delivers, SlotsAlike, Alike, Takes
  <2>2. Requests(x)' = Requests(x)
    BY <2>1 DEF SameSenders, Requests
  <2>3. Cardinality(Sends(x)') =
            IF Head(pipe).id = x THEN Cardinality(Sends(x)) - 1 ELSE Cardinality(Sends(x))
    BY <1>3, <2>1, SendsTaken
  <2>. QED BY <1>2, <1>3, <2>1, <2>2, <2>3, CountTypes DEF N, N1
<1>. QED
  BY <1>4, <1>5, <1>7, <1>8, <1>9, <1>10, <1>11, <1>12, <1>13,
     <1>14 DEF Effect

-----------------------------------------------------------------------------
(* Types of what the effects say nothing about. *)

LEMMA ClearedEvents ==
    ASSUME ev \in Seq(Report), NEW k
    PROVE  clear_closed_event(ev, k) \in Seq(Report)
<1>1. ASSUME NEW i \in DOMAIN ev PROVE RemoveAt(ev, i) \in Seq(Report)
  <2>1. DOMAIN ev = 1..Len(ev) /\ Len(ev) \in Nat /\ i \in Int
    BY LenProperties
  <2>2. ASSUME NEW m \in 1..(Len(ev) + 1), NEW n \in 0..Len(ev)
        PROVE  SubSeq(ev, m, n) \in Seq(Report)
    <3>1. \A j \in m..n : ev[j] \in Report
      BY <2>1, ElementOfSeq
    <3>. QED BY <2>1, <3>1, SubSeqProperties
  <2>3. SubSeq(ev, 1, i - 1) \in Seq(Report) /\ SubSeq(ev, i + 1, Len(ev)) \in Seq(Report)
    BY <2>1, <2>2
  <2>. QED BY <2>3, ConcatProperties DEF RemoveAt
<1>. QED
  BY <1>1 DEF clear_closed_event

LEMMA DoomType ==
    ASSUME NEW k \in Slot, NEW r, NEW raise \in {"none", "CLOSE", "ERR"},
           NEW ctrl \in BOOLEAN, ForceClose(k, r, raise, ctrl)
    PROVE  pc' = "force" /\ doomed' \in Doom
  BY DEF ForceClose, Doom

LEMMA ThreadTypesStep ==
    ASSUME Inv, SlotTypes', Effect, Next
    PROVE  ThreadTypes'
<1>1. GoesOn /\ ThreadTypes
  BY EffectGoesOn DEF Inv, Types
<1>2. alloc_id' \in 0..MaxId /\ pipe' \in Seq(Cmd)
  BY <1>1, PipeTaken, PipeAsked DEF GoesOn
<1>. DEFINE Rest == /\ checkctrl' \in BOOLEAN /\ ev' \in Seq(Report)
                    /\ pc' \in {"poll", "event", "force"}
                    /\ pc' = "force" => doomed' \in Doom
<1>3. SUFFICES Rest
  BY <1>2 DEF ThreadTypes
<1>4. CASE UNCHANGED <<checkctrl, ev, pc, doomed>>
  BY <1>1, <1>4 DEF ThreadTypes
<1>5. ASSUME NEW t \in Sender, Service(t) PROVE Rest
  <2>1. CASE ReserveType(t) \/ ReserveId(t) \/ OpenRequest(t)
    <3>1. UNCHANGED <<checkctrl, ev, pc, doomed>>
      BY <2>1 DEF ReserveType, ReserveId, OpenRequest
    <3>. QED BY <1>4, <3>1
  <2>2. CASE StartPause(t) \/ Close(t) \/ Shutdown(t)
    <3>1. UNCHANGED <<checkctrl, ev, pc, doomed>>
      BY <2>2 DEF StartPause, Close, Shutdown
    <3>. QED BY <1>4, <3>1
  <2>3. CASE Send(t) \/ DirectWrite(t) \/ TriggerRequest(t) \/ IncSending(t) \/ SendRequest(t)
    <3>1. UNCHANGED <<checkctrl, ev, pc, doomed>>
      BY <2>3, Zenon DEF Send, DirectWrite, TriggerRequest, IncSending, SendRequest
    <3>. QED BY <1>4, <3>1
  <2>. QED BY <1>5, <2>1, <2>2, <2>3 DEF Service
<1>6. CASE OpenSocket \/ ListenSocket \/ ResumeSocket \/ PauseSocket \/ TriggerWrite \/ SendSocket
  BY <1>4, <1>6 DEF OpenSocket, ListenSocket, ResumeSocket, PauseSocket, TriggerWrite,
     SendSocket
<1>7. CASE CloseSocket
  <2>1. /\ UNCHANGED <<checkctrl, ev>>
        /\ \/ UNCHANGED <<pc, doomed>>
           \/ \E raise \in {"none", "CLOSE", "ERR"} : ForceClose(k_, slot[k_], raise, TRUE)
    BY <1>7 DEF CloseSocket
  <2>2. k_ \in Slot
    BY <1>7, CommandFacts DEF CloseSocket
  <2>3. CASE UNCHANGED <<pc, doomed>>
    BY <1>4, <2>1, <2>3
  <2>4. ASSUME NEW raise \in {"none", "CLOSE", "ERR"}, ForceClose(k_, slot[k_], raise, TRUE)
        PROVE  Rest
    <3>1. PICK k \in Slot, c \in BOOLEAN : k = k_ /\ c = TRUE
      BY <2>2
    <3>2. PICK r : r = slot[k_]
      OBVIOUS
    <3>3. ForceClose(k, r, raise, c)
      BY <2>4, <3>1, <3>2
    <3>4. pc' = "force" /\ doomed' \in Doom
      BY <3>3, DoomType
    <3>. QED BY <1>1, <2>1, <3>4 DEF ThreadTypes
  <2>. QED BY <2>1, <2>3, <2>4
<1>8. CASE ForceCloseEnd
  <2>1. /\ UNCHANGED checkctrl /\ pc' \in {"poll", "event"}
        /\ ev' = ev \/ ev' = clear_closed_event(ev, doomed.s)
    BY <1>8 DEF ForceCloseEnd
  <2>. QED BY <1>1, <2>1, ClearedEvents DEF ThreadTypes
<1>9. CASE NoCommand
  BY <1>1, <1>9 DEF NoCommand, ThreadTypes
<1>10. CASE SpWait
  <2>1. checkctrl' \in BOOLEAN /\ pc' \in {"poll", "event"}
    BY <1>10 DEF SpWait
  <2>2. ASSUME NEW k \in Slot, NEW e \in Events(k), ev' = <<e>> PROVE ev' \in Seq(Report)
    <3>1. e \in Report
      BY DEF Events, Report
    <3>. QED BY <2>2, <3>1
  <2>3. <<>> \in Seq(Report)
    BY EmptySeq
  <2>4. ev' \in Seq(Report)
    BY <1>10, <2>2, <2>3 DEF SpWait
  <2>. QED BY <2>1, <2>4
<1>11. ASSUME ev # <<>>, NEW rest \in {Tail(ev), AfterRead}, Handled(rest), UNCHANGED checkctrl
       PROVE  Rest
  <2>1. rest \in Seq(Report)
    BY <1>1, <1>11, HeadOfEvents DEF ThreadTypes
  <2>2. ev' \in Seq(Report) /\ pc' \in {"poll", "event"}
    BY <1>11, <2>1 DEF Handled
  <2>. QED BY <1>1, <1>11, <2>2 DEF ThreadTypes
<1>12. CASE EventInvalid \/ EventReserved \/ ReportAccept \/ ReadData \/ SendBuffer
  BY <1>11, <1>12 DEF EventInvalid, EventReserved, ReportAccept, ReadData, SendBuffer, Event
<1>13. ASSUME ev # <<>>, NEW rest \in {Tail(ev), AfterRead}, ev' = rest, UNCHANGED checkctrl,
              NEW raise \in {"none", "CLOSE", "ERR"}, ForceClose(s_, slot[s_], raise, FALSE)
       PROVE  Rest
  <2>1. rest \in Seq(Report) /\ s_ \in Slot
    BY <1>1, <1>13, HeadOfEvents DEF ThreadTypes
  <2>2. PICK k \in Slot, c \in BOOLEAN : k = s_ /\ c = FALSE
    BY <2>1
  <2>3. PICK r : r = slot[s_]
    OBVIOUS
  <2>4. ForceClose(k, r, raise, c)
    BY <1>13, <2>2, <2>3
  <2>5. pc' = "force" /\ doomed' \in Doom
    BY <2>4, DoomType
  <2>. QED BY <1>1, <1>13, <2>1, <2>5 DEF ThreadTypes
<1>14. CASE ReportConnect
  <2>1. /\ ev # <<>> /\ UNCHANGED checkctrl
        /\ \/ Handled(Tail(ev))
           \/ ForceClose(s_, slot[s_], "ERR", FALSE) /\ ev' = Tail(ev)
    BY <1>14 DEF ReportConnect, Event
  <2>. QED BY <1>11, <1>13, <2>1
<1>15. CASE ReadEnd
  <2>1. /\ ev # <<>> /\ UNCHANGED checkctrl
        /\ \/ Handled(Tail(ev)) \/ Handled(AfterRead)
           \/ ForceClose(s_, slot[s_], "none", FALSE) /\ ev' = AfterRead
           \/ ForceClose(s_, slot[s_], "CLOSE", FALSE) /\ ev' = Tail(ev)
    BY <1>15 DEF ReadEnd, Event
  <2>. QED BY <1>11, <1>13, <2>1
<1>16. CASE HangUp
  <2>1. /\ ev # <<>> /\ UNCHANGED checkctrl /\ ev' = Tail(ev)
        /\ \/ ForceClose(s_, slot[s_], "none", FALSE)
           \/ ForceClose(s_, slot[s_], "CLOSE", FALSE)
    BY <1>16 DEF HangUp, Event
  <2>. QED BY <1>13, <2>1
<1>. QED
  BY <1>5, <1>6, <1>7, <1>8, <1>9, <1>10, <1>12, <1>14, <1>15, <1>16
     DEF Next, SocketThread

LEMMA ClosesType ==
    ASSUME Inv, SlotTypes', Effect
    PROVE  closes' \in [Id -> Nat] /\ opened' \subseteq Id
<1>1. closes \in [Id -> Nat] /\ opened \subseteq Id
  BY DEF Inv, Types, SenderTypes
<1>2. CASE UNCHANGED <<opened, closes>>
  BY <1>1, <1>2
<1>3. ASSUME NEW k \in Slot, Use(k) # "INVALID",
             opened' = opened \/ opened' = opened \cup {slot[k].id},
             UNCHANGED closes \/ RaisesClose(k)
      PROVE  closes' \in [Id -> Nat] /\ opened' \subseteq Id
  <2>1. slot[k].id \in Id
    BY <1>3 DEF Inv, Placed, SlotPlaced
  <2>. QED BY <1>1, <1>3, <2>1 DEF RaisesClose
<1>4. ASSUME NEW k \in Slot, Turns(k) \/ Halves(k) \/ Ends(k)
      PROVE  closes' \in [Id -> Nat] /\ opened' \subseteq Id
  BY <1>3, <1>4, UseFacts DEF Turns, Halves, Ends, Becomes, Dead, Inv
<1>5. ASSUME NEW k \in Slot, Opens(k) \/ OpenFails(k) \/ Accepts(k)
      PROVE  closes' \in [Id -> Nat] /\ opened' \subseteq Id
  BY <1>2, <1>3, <1>5 DEF Opens, OpenFails, Accepts, SameIds
<1>. QED
  BY <1>2, <1>4, <1>5 DEF Effect, Quiet, Dooms, Delivers, Reserves, Names, Requires, Incs,
     Posts, SameIds

LEMMA TicketTypes ==
    ASSUME Inv, Effect
    PROVE  reserving' \in [Sender -> Ticket]
<1>1. reserving \in [Sender -> Ticket]
  BY DEF Inv, Types, SenderTypes
<1>2. ASSUME NEW t \in Sender, NEW k \in Slot, Reserves(t, k)
      PROVE  reserving' \in [Sender -> Ticket]
  <2>1. PICK id \in Id, cmd \in Opening :
          reserving' = [reserving EXCEPT ![t] = [step |-> "id", id |-> id, cmd |-> cmd]]
    BY <1>2 DEF Reserves
  <2>2. [step |-> "id", id |-> id, cmd |-> cmd] \in Ticket
    BY DEF Ticket
  <2>. QED BY <1>1, <2>1, <2>2
<1>3. ASSUME NEW t \in Sender, NEW k \in Slot, Names(t, k)
      PROVE  reserving' \in [Sender -> Ticket]
  <2>1. /\ reserving[t].step = "id"
        /\ reserving' = [reserving EXCEPT ![t] = [reserving[t] EXCEPT !.step = "open"]]
    BY <1>3 DEF Names
  <2>2. reserving[t] \in [step : {"id", "open"}, id : Id, cmd : Opening]
    BY <2>1, TicketType DEF Inv, Ticket, NotReserving
  <2>3. [reserving[t] EXCEPT !.step = "open"] \in Ticket
    BY <2>2 DEF Ticket
  <2>. QED BY <1>1, <2>1, <2>3
<1>4. ASSUME NEW t \in Sender, Requires(t) PROVE reserving' \in [Sender -> Ticket]
  BY <1>1, <1>4 DEF Requires, Ticket
<1>. QED
  BY <1>1, <1>2, <1>3, <1>4
  DEF Effect, Quiet, SendersGoOn, Dooms, Delivers, SameSenders, Opens, OpenFails,
      Accepts, Turns, Halves, Ends, Becomes, Incs, Posts

LEMMA PartsOf ==
    ASSUME NEW acc, NEW place, NEW jobs, NEW p
    PROVE  p \in (UNION {acc[i] : i \in Id})
                     \cup {jobs[t].p : t \in {u \in Sender : place[u] \in {"locked", "inc"}}}
           <=> \/ \E i \in Id : p \in acc[i]
               \/ \E u \in Sender : place[u] \in {"locked", "inc"} /\ p = jobs[u].p
<1>. DEFINE S == {u \in Sender : place[u] \in {"locked", "inc"}}
            A == UNION {acc[i] : i \in Id}
            B == {jobs[t].p : t \in S}
<1>1. p \in A <=> \E i \in Id : p \in acc[i]
  OBVIOUS
<1>2. p \in B <=> \E u \in S : p = jobs[u].p
  <2>. HIDE DEF S
  <2>. QED OBVIOUS
<1>3. (\E u \in S : p = jobs[u].p) <=>
      \E u \in Sender : place[u] \in {"locked", "inc"} /\ p = jobs[u].p
  OBVIOUS
<1>4. p \in A \cup B <=> p \in A \/ p \in B
  <2>. HIDE DEF A, B
  <2>. QED OBVIOUS
<1>. QED
  BY <1>1, <1>2, <1>3, <1>4, Zenon

LEMMA PacketsParts ==
    ASSUME NEW p
    PROVE  /\ p \in Packets <=>
                \/ \E i \in Id : p \in accepted[i]
                \/ \E u \in Sender : at[u] \in {"locked", "inc"} /\ p = job[u].p
           /\ p \in Packets' <=>
                \/ \E i \in Id : p \in accepted'[i]
                \/ \E u \in Sender : at'[u] \in {"locked", "inc"} /\ p = job'[u].p
<1>1. p \in Packets <=>
                \/ \E i \in Id : p \in accepted[i]
                \/ \E u \in Sender : at[u] \in {"locked", "inc"} /\ p = job[u].p
  BY PartsOf, Zenon DEF Packets
<1>2. p \in Packets' <=>
                \/ \E i \in Id : p \in accepted'[i]
                \/ \E u \in Sender : at'[u] \in {"locked", "inc"} /\ p = job'[u].p
  BY PartsOf, Zenon DEF Packets
<1>. QED
  BY <1>1, <1>2

LEMMA NewPacketType ==
    ASSUME Types, NEW t \in Sender, NEW high \in BOOLEAN, calls < MaxCall
    PROVE  NewPacket(t, high) \in Packet
<1>1. Cardinality(Packets) \in Nat /\ Cardinality(Packets) <= calls /\ calls \in Nat
  BY FS_CardinalityType DEF Types, Numbered, SenderTypes
<1>2. Cardinality(Packets) + 1 \in 1..MaxCall
  BY <1>1, SocketAssumption
<1>. QED
  BY <1>2 DEF NewPacket, Packet

LEMMA OneMore ==
    ASSUME NEW S, NEW x, IsFiniteSet(S)
    PROVE  /\ IsFiniteSet(S \cup {x}) /\ Cardinality(S) \in Nat
           /\ Cardinality(S \cup {x}) <= Cardinality(S) + 1
  BY FS_AddElement, FS_CardinalityType

\* No new packet.
LEMMA NumberedStays ==
    ASSUME Types, Packets' \subseteq Packets, calls \in Nat, calls' \in Nat, calls <= calls'
    PROVE  Numbered'
<1>1. IsFiniteSet(Packets) /\ Cardinality(Packets) <= calls
  BY DEF Types, Numbered
<1>2. PICK S : S = Packets'
  OBVIOUS
<1>3. IsFiniteSet(S) /\ Cardinality(S) <= Cardinality(Packets)
  BY <1>1, <1>2, FS_Subset
<1>4. Cardinality(S) \in Nat /\ Cardinality(Packets) \in Nat
  BY <1>1, <1>3, FS_CardinalityType
<1>5. Cardinality(S) <= calls'
  BY <1>1, <1>3, <1>4
<1>. QED
  BY <1>2, <1>3, <1>5 DEF Numbered

LEMMA SenderTypesStep ==
    ASSUME Inv, SlotTypes', Effect, Next
    PROVE  SenderTypes' /\ Numbered'
<1>1. /\ closes' \in [Id -> Nat] /\ opened' \subseteq Id /\ Types
      /\ reserving' \in [Sender -> Ticket]
  BY ClosesType, TicketTypes DEF Inv
<1>2. /\ at \in [Sender -> Place] /\ (\A u \in Sender : at[u] # "idle" => job[u] \in Job)
      /\ DOMAIN job = Sender /\ accepted \in [Id -> SUBSET Packet]
      /\ calls \in 0..MaxCall /\ calls \in Nat /\ MaxCall \in Nat
  BY <1>1, SocketAssumption DEF Types, SenderTypes
<1>. DEFINE Goal == SenderTypes' /\ Numbered'
<1>3. ASSUME UNCHANGED <<at, job, accepted>>, calls' \in 0..MaxCall, calls <= calls'
      PROVE  Goal
  <2>1. SenderTypes'
    BY <1>1, <1>2, <1>3 DEF SenderTypes
  <2>2. Packets' = Packets /\ calls' \in Nat
    BY <1>2, <1>3 DEF Packets
  <2>. QED BY <1>1, <1>2, <1>3, <2>1, <2>2, NumberedStays
<1>4. ASSUME SocketThread PROVE Goal
  <2>1. CASE \/ OpenSocket \/ ListenSocket \/ ResumeSocket \/ PauseSocket
             \/ TriggerWrite \/ CloseSocket \/ SendSocket
    <3>1. UNCHANGED <<at, job, accepted, calls>>
      BY <2>1, Zenon DEF OpenSocket, ListenSocket, ResumeSocket, PauseSocket,
         TriggerWrite, CloseSocket, SendSocket, sendVars, history
    <3>. QED BY <1>2, <1>3, <3>1
  <2>2. CASE \/ ForceCloseEnd \/ NoCommand \/ SpWait \/ EventInvalid \/ EventReserved
             \/ ReportConnect \/ ReportAccept \/ ReadData \/ ReadEnd \/ HangUp
             \/ SendBuffer
    <3>1. UNCHANGED <<at, job, accepted, calls>>
      BY <2>2, Zenon DEF ForceCloseEnd, NoCommand, SpWait, EventInvalid, EventReserved,
         ReportConnect, ReportAccept, ReadData, ReadEnd, HangUp, SendBuffer, sendVars,
         history
    <3>. QED BY <1>2, <1>3, <3>1
  <2>. QED BY <1>4, <2>1, <2>2 DEF SocketThread
<1>a. ASSUME NEW t \in Sender, ReserveId(t) \/ OpenRequest(t) PROVE Goal
  <2>1. UNCHANGED <<at, job, accepted, calls>>
    BY <1>a DEF ReserveId, OpenRequest, history
  <2>. QED BY <1>2, <1>3, <2>1
<1>5. ASSUME NEW t \in Sender, ReserveType(t) \/ StartPause(t) \/ Close(t) \/ Shutdown(t)
      PROVE  Goal
  <2>1. UNCHANGED <<at, job, accepted>> /\ calls' = calls + 1 /\ calls < MaxCall
    BY <1>5 DEF ReserveType, StartPause, Close, Shutdown, Call, sendVars
  <2>. QED BY <1>2, <1>3, <2>1
\* A sender goes on with the packet it has.
<1>6. ASSUME NEW t \in Sender, at[t] # "idle", UNCHANGED calls,
             NEW p \in Place, at' = [at EXCEPT ![t] = p],
             p \in {"locked", "inc"} => at[t] \in {"locked", "inc"},
             \/ job' = job
             \/ p = "idle" /\ job' = [job EXCEPT ![t] = NULL],
             \/ accepted' = accepted
             \/ /\ at[t] \in {"locked", "inc"}
                /\ accepted' = [accepted EXCEPT ![job[t].id] = @ \cup {job[t].p}]
      PROVE  Goal
  <2>1. job[t] \in Job /\ job[t].id \in Id /\ job[t].p \in Packet
    BY <1>2, <1>6 DEF Job
  <2>2. /\ at' \in [Sender -> Place] /\ DOMAIN job' = Sender
        /\ \A u \in Sender : at'[u] # "idle" => job'[u] \in Job
    <3>1. at' \in [Sender -> Place] /\ DOMAIN job' = Sender
      BY <1>2, <1>6
    <3>2. \A u \in Sender \ {t} : at'[u] = at[u] /\ job'[u] = job[u]
      BY <1>2, <1>6
    <3>3. at'[t] # "idle" => job'[t] = job[t]
      BY <1>2, <1>6
    <3>. QED BY <1>2, <2>1, <3>1, <3>2, <3>3
  <2>3. accepted' \in [Id -> SUBSET Packet]
    BY <1>2, <1>6, <2>1
  <2>4. Packets' \subseteq Packets
    <3>. SUFFICES ASSUME NEW x, x \in Packets' PROVE x \in Packets
      OBVIOUS
    <3>1. \/ \E i \in Id : x \in accepted'[i]
          \/ \E u \in Sender : at'[u] \in {"locked", "inc"} /\ x = job'[u].p
      BY PacketsParts
    <3>2. CASE \E i \in Id : x \in accepted'[i]
      <4>1. (\E i \in Id : x \in accepted[i]) \/ (at[t] \in {"locked", "inc"} /\ x = job[t].p)
        BY <1>2, <1>6, <2>1, <3>2
      <4>. QED BY <4>1, PacketsParts
    <3>3. CASE \E u \in Sender : at'[u] \in {"locked", "inc"} /\ x = job'[u].p
      <4>1. \E u \in Sender : at[u] \in {"locked", "inc"} /\ x = job[u].p
        BY <1>2, <1>6, <3>3
      <4>. QED BY <4>1, PacketsParts
    <3>. QED BY <3>1, <3>2, <3>3
  <2>5. SenderTypes'
    BY <1>1, <1>2, <1>6, <2>2, <2>3 DEF SenderTypes
  <2>. QED BY <1>1, <1>2, <1>6, <2>4, <2>5, NumberedStays
<1>7. ASSUME NEW t \in Sender, TriggerRequest(t) \/ SendRequest(t) PROVE Goal
  <2>1. /\ at[t] # "idle" /\ UNCHANGED <<calls, accepted>>
        /\ at' = [at EXCEPT ![t] = "idle"] /\ job' = [job EXCEPT ![t] = NULL]
    BY <1>7 DEF TriggerRequest, SendRequest, At, history
  <2>2. "idle" \in Place
    BY DEF Place
  <2>. HIDE DEF Goal
  <2>. QED BY <1>6, <2>1, <2>2
<1>8. ASSUME NEW t \in Sender, IncSending(t) PROVE Goal
  <2>1. /\ at[t] = "inc" /\ UNCHANGED <<calls, job>> /\ at' = [at EXCEPT ![t] = "request"]
        /\ accepted' = [accepted EXCEPT ![job[t].id] = @ \cup {job[t].p}]
    BY <1>8 DEF IncSending, At
  <2>2. "request" \in Place
    BY DEF Place
  <2>. HIDE DEF Goal
  <2>. QED BY <1>6, <2>1, <2>2
<1>9. ASSUME NEW t \in Sender, DirectWrite(t) PROVE Goal
  <2>1. at[t] = "locked" /\ UNCHANGED calls
    BY <1>9 DEF DirectWrite, At
  <2>2. PICK p \in Place :
          /\ at' = [at EXCEPT ![t] = p]
          /\ p \in {"inc", "idle", "trigger"}
          /\ job' = job \/ (p = "idle" /\ job' = [job EXCEPT ![t] = NULL])
          /\ \/ accepted' = accepted
             \/ accepted' = [accepted EXCEPT ![job[t].id] = @ \cup {job[t].p}]
    <3>1. {"inc", "idle", "trigger"} \subseteq Place
      BY DEF Place
    <3>. QED BY <1>9, <3>1 DEF DirectWrite
  <2>. HIDE DEF Goal
  <2>. QED BY <1>6, <2>1, <2>2
<1>10. ASSUME NEW t \in Sender, Send(t) PROVE Goal
  <2>1. calls' = calls + 1 /\ calls < MaxCall /\ at[t] = "idle" /\ UNCHANGED accepted
    BY <1>10 DEF Send, Call, At
  <2>2. PICK id \in 1..alloc_id, high \in BOOLEAN, p \in {"locked", "inc"} :
          /\ job' = [job EXCEPT ![t] = [id |-> id, p |-> NewPacket(t, high)]]
          /\ at' = [at EXCEPT ![t] = p]
    BY <1>10 DEF Send, Known
  <2>3. PICK q \in Packet : q = NewPacket(t, high)
    BY <1>1, <2>1, NewPacketType
  <2>4. id \in Id
    BY <1>1, SocketAssumption DEF Types, ThreadTypes, Id
  <2>5. PICK n \in Job : n = [id |-> id, p |-> q]
    BY <2>4 DEF Job
  <2>6. job' = [job EXCEPT ![t] = n] /\ n.p = q
    BY <2>2, <2>3, <2>5
  <2>7. /\ at' \in [Sender -> Place] /\ DOMAIN job' = Sender /\ job'[t] = n
        /\ \A u \in Sender \ {t} : at'[u] = at[u] /\ job'[u] = job[u]
    BY <1>2, <2>2, <2>6 DEF Place
  <2>8. SenderTypes'
    <3>1. \A u \in Sender : at'[u] # "idle" => job'[u] \in Job
      BY <1>2, <2>7
    <3>2. calls' \in 0..MaxCall
      BY <1>2, <2>1
    <3>. QED BY <1>1, <1>2, <2>1, <2>7, <3>1, <3>2 DEF SenderTypes
  <2>9. Packets' \subseteq Packets \cup {q}
    <3>. SUFFICES ASSUME NEW x, x \in Packets' PROVE x \in Packets \cup {q}
      OBVIOUS
    <3>1. \/ \E i \in Id : x \in accepted'[i]
          \/ \E u \in Sender : at'[u] \in {"locked", "inc"} /\ x = job'[u].p
      BY PacketsParts
    <3>2. \/ \E i \in Id : x \in accepted[i]
          \/ \E u \in Sender : at[u] \in {"locked", "inc"} /\ x = job[u].p
          \/ x = q
      BY <2>1, <2>6, <2>7, <3>1
    <3>. QED BY <3>2, PacketsParts
  <2>10. Numbered'
    <3>1. IsFiniteSet(Packets) /\ Cardinality(Packets) <= calls
      BY <1>1 DEF Types, Numbered
    <3>2. /\ IsFiniteSet(Packets \cup {q}) /\ Cardinality(Packets) \in Nat
          /\ Cardinality(Packets \cup {q}) <= Cardinality(Packets) + 1
      BY <3>1, OneMore
    <3>3. PICK S : S = Packets'
      OBVIOUS
    <3>4. IsFiniteSet(S) /\ Cardinality(S) <= Cardinality(Packets \cup {q})
      BY <2>9, <3>2, <3>3, FS_Subset
    <3>5. Cardinality(S) \in Nat /\ Cardinality(Packets \cup {q}) \in Nat
      BY <3>2, <3>4, FS_CardinalityType
    <3>6. Cardinality(S) <= calls'
      BY <1>2, <2>1, <3>1, <3>2, <3>4, <3>5
    <3>. QED BY <3>3, <3>4, <3>6 DEF Numbered
  <2>. QED BY <2>8, <2>10
<1>. HIDE DEF Goal
<1>11. Goal
  <2>1. ASSUME NEW t \in Sender, Service(t) PROVE Goal
    BY <1>a, <1>5, <1>7, <1>8, <1>9, <1>10, <2>1 DEF Service
  <2>. QED BY <1>4, <2>1 DEF Next
<1>. QED
  BY <1>11 DEF Goal

-----------------------------------------------------------------------------
(* Data that waits is watched: by the write event, or by a command that     *)
(* comes to enable it.                                                      *)

Pending(r) ==
    /\ r.type \notin Dead /\ r.type # "HALFCLOSE_WRITE"
    /\ ~send_buffer_empty(r) \/ r.dw_buffer # NULL

Triggered(id) ==
    \/ \E c \in ToSet(pipe) : c.cmd = "trigger" /\ c.id = id
    \/ \E t \in Sender : at[t] = "trigger" /\ job[t].id = id

\* What waits after a step waited before it, and is watched as it was.
Safe(r, s) ==
    Pending(s) => s.writing \/ (Pending(r) /\ s.id = r.id /\ (r.writing => s.writing))

\* s has the data that r has.
SameData(r, s) ==
    /\ s.id = r.id /\ s.type = r.type /\ s.high = r.high /\ s.low = r.low
    /\ s.dw_buffer = r.dw_buffer /\ (r.writing => s.writing)

LEMMA SameDataSafe ==
    ASSUME NEW r, NEW s, SameData(r, s)
    PROVE  Safe(r, s)
  BY DEF Safe, SameData, Pending, send_buffer_empty

\* The command to enable the write event is taken only by TriggerWrite.
Follows ==
    /\ \/ pipe' = pipe
       \/ pipe # <<>> /\ pipe' = Tail(pipe) /\ Head(pipe).cmd # "trigger"
       \/ \E c : pipe' = Append(pipe, c)
    /\ \A t \in Sender : at[t] = "trigger" =>
            \/ at'[t] = "trigger" /\ job'[t] = job[t]
            \/ pipe' = Append(pipe, [cmd |-> "trigger", id |-> job[t].id])

\* The commands on the pipe, as a set.
LEMMA CommandsTaken ==
    ASSUME pipe \in Seq(Cmd), pipe # <<>>, pipe' = Tail(pipe), NEW x \in ToSet(pipe)
    PROVE  x = Head(pipe) \/ x \in ToSet(pipe')
<1>1. /\ DOMAIN pipe = 1..Len(pipe) /\ Len(pipe) \in Nat /\ Head(pipe) = pipe[1]
      /\ \A i \in DOMAIN pipe' : i + 1 \in DOMAIN pipe /\ pipe'[i] = pipe[i + 1]
      /\ \A i \in DOMAIN pipe \ {1} : i - 1 \in DOMAIN pipe'
  BY PipeTaken
<1>2. PICK i \in DOMAIN pipe : x = pipe[i]
  BY DEF ToSet
<1>3. CASE i # 1
  <2>1. i - 1 \in DOMAIN pipe' /\ pipe'[i - 1] = pipe[i - 1 + 1] /\ i - 1 + 1 = i
    BY <1>1, <1>3
  <2>. QED BY <1>2, <2>1 DEF ToSet
<1>. QED
  BY <1>1, <1>2, <1>3

LEMMA CommandsAsked ==
    ASSUME pipe \in Seq(Cmd), NEW c, pipe' = Append(pipe, c)
    PROVE  c \in ToSet(pipe') /\ ToSet(pipe) \subseteq ToSet(pipe')
<1>1. /\ DOMAIN pipe' = DOMAIN pipe \cup {Len(pipe) + 1} /\ pipe'[Len(pipe) + 1] = c
      /\ \A i \in DOMAIN pipe : pipe'[i] = pipe[i]
  OBVIOUS
<1>2. PICK n : /\ DOMAIN pipe' = DOMAIN pipe \cup {n} /\ pipe'[n] = c
               /\ \A i \in DOMAIN pipe : pipe'[i] = pipe[i]
  BY <1>1, Zenon
<1>. QED
  BY <1>2 DEF ToSet

LEMMA StaysTriggered ==
    ASSUME pipe \in Seq(Cmd), Follows, NEW x, Triggered(x)
    PROVE  Triggered(x)'
<1>1. CASE \E c \in ToSet(pipe) : c.cmd = "trigger" /\ c.id = x
  <2>1. PICK c \in ToSet(pipe) : c.cmd = "trigger" /\ c.id = x
    BY <1>1
  <2>2. c \in ToSet(pipe')
    BY <2>1, CommandsTaken, CommandsAsked DEF Follows
  <2>. QED BY <2>1, <2>2 DEF Triggered
<1>2. CASE \E t \in Sender : at[t] = "trigger" /\ job[t].id = x
  <2>1. PICK t \in Sender : at[t] = "trigger" /\ job[t].id = x
    BY <1>2
  <2>2. CASE at'[t] = "trigger" /\ job'[t] = job[t]
    BY <2>1, <2>2 DEF Triggered
  <2>3. CASE pipe' = Append(pipe, [cmd |-> "trigger", id |-> job[t].id])
    <3>1. PICK c : c = [cmd |-> "trigger", id |-> job[t].id]
      OBVIOUS
    <3>2. c \in ToSet(pipe') /\ c.cmd = "trigger" /\ c.id = x
      BY <2>1, <2>3, <3>1, CommandsAsked
    <3>. QED BY <3>2 DEF Triggered
  <2>. QED BY <2>1, <2>2, <2>3 DEF Follows
<1>. QED
  BY <1>1, <1>2 DEF Triggered

\* From the slots to the ids.
LEMMA WatchedBefore ==
    ASSUME Inv, NEW k \in Slot, Pending(slot[k])
    PROVE  slot[k].writing \/ Triggered(slot[k].id)
<1>1. PICK x \in Id : x = slot[k].id /\ HASH_ID(x) = k
  BY UseFacts DEF Inv, Placed, SlotPlaced, Pending, Dead
<1>2. Live(x)
  BY <1>1 DEF Live, Pending, Dead
<1>. QED
  BY <1>1, <1>2 DEF Inv, PendingIsWatched, Pending, Triggered

LEMMA WatchedAfter ==
    ASSUME \A k \in Slot : Pending(slot'[k]) => slot'[k].writing \/ Triggered(slot[k].id)'
    PROVE  PendingIsWatched'
<1>. SUFFICES ASSUME NEW x \in Id, Live(x)',
                     slot'[HASH_ID(x)].type # "HALFCLOSE_WRITE",
                     \/ ~send_buffer_empty(slot'[HASH_ID(x)])
                     \/ slot'[HASH_ID(x)].dw_buffer # NULL
              PROVE  slot'[HASH_ID(x)].writing \/ Triggered(x)'
  BY DEF PendingIsWatched, Triggered, send_buffer_empty
<1>1. PICK k \in Slot : k = HASH_ID(x)
  BY HashType DEF Id
<1>2. slot'[k].id = x /\ Pending(slot'[k])
  BY <1>1 DEF Live, Pending, Dead
<1>. QED
  BY <1>1, <1>2 DEF Triggered

LEMMA WatchedStays ==
    ASSUME Inv, Follows, \A k \in Slot : Safe(slot[k], slot'[k])
    PROVE  PendingIsWatched'
<1>. SUFFICES ASSUME NEW k \in Slot, Pending(slot'[k]), ~slot'[k].writing
              PROVE  Triggered(slot[k].id)'
  BY WatchedAfter
<1>1. Pending(slot[k]) /\ slot'[k].id = slot[k].id /\ ~slot[k].writing
  BY DEF Safe
<1>2. PICK x : x = slot[k].id
  OBVIOUS
<1>3. Triggered(x)
  BY <1>1, <1>2, WatchedBefore
<1>4. Triggered(x)'
  BY <1>3, StaysTriggered DEF Inv, Types, ThreadTypes
<1>. QED
  BY <1>1, <1>2, <1>4 DEF Triggered

LEMMA SafeSlot ==
    ASSUME Types, NEW k \in Slot, NEW r, SetSlot(k, r), Safe(slot[k], r)
    PROVE  \A j \in Slot : Safe(slot[j], slot'[j])
<1>1. slot'[k] = r /\ \A j \in Slot \ {k} : slot'[j] = slot[j]
  BY DEF Types, SetSlot
<1>2. \A j \in Slot : Safe(slot[j], slot[j])
  BY DEF Safe
<1>. QED
  BY <1>1, <1>2

LEMMA ServiceWatched ==
    ASSUME Inv, NEW t \in Sender, Service(t)
    PROVE  PendingIsWatched'
<1>1. /\ Types /\ slot \in [Slot -> Record] /\ at \in [Sender -> Place]
      /\ DOMAIN job = Sender
      /\ \A u \in Sender : at[u] # "idle" => job[u].id \in Nat /\ HASH_ID(job[u].id) \in Slot
  <2>1. Types
    BY DEF Inv
  <2>2. /\ slot \in [Slot -> Record] /\ at \in [Sender -> Place] /\ DOMAIN job = Sender
        /\ \A u \in Sender : at[u] # "idle" => job[u] \in Job
    BY <2>1 DEF Types, SenderTypes
  <2>3. ASSUME NEW u \in Sender, at[u] # "idle"
        PROVE  job[u].id \in Nat /\ HASH_ID(job[u].id) \in Slot
    <3>1. job[u].id \in Nat
      BY <2>2, <2>3 DEF Job, Id
    <3>. QED BY <3>1, HashType
  <2>. QED BY <2>1, <2>2, <2>3
<1>2. ASSUME UNCHANGED slot, Follows PROVE PendingIsWatched'
  <2>1. \A k \in Slot : Safe(slot[k], slot'[k])
    BY <1>2 DEF Safe
  <2>. QED BY <1>2, <2>1, WatchedStays
<1>3. CASE StartPause(t) \/ Close(t) \/ Shutdown(t)
  <2>1. UNCHANGED <<slot, at, job>> /\ \E c : pipe' = Append(pipe, c)
    BY <1>3 DEF StartPause, Close, Shutdown, Request, sendVars
  <2>. QED BY <1>2, <2>1 DEF Follows
<1>4. CASE TriggerRequest(t) \/ SendRequest(t)
  <2>1. UNCHANGED slot /\ \E c : pipe' = Append(pipe, c)
    BY <1>4 DEF TriggerRequest, SendRequest, Request
  <2>2. /\ at' = [at EXCEPT ![t] = "idle"] /\ job' = [job EXCEPT ![t] = NULL]
        /\ at[t] = "trigger" => pipe' = Append(pipe, [cmd |-> "trigger", id |-> job[t].id])
    BY <1>4 DEF TriggerRequest, SendRequest, Request, At
  <2>3. Follows
    BY <1>1, <2>1, <2>2 DEF Follows
  <2>. QED BY <1>2, <2>1, <2>3
<1>5. ASSUME NEW k \in Slot, NEW r, SetSlot(k, r), r.type = "RESERVE", Follows
      PROVE  PendingIsWatched'
  <2>1. \A j \in Slot : Safe(slot[j], slot'[j])
    BY <1>1, <1>5, SafeSlot DEF Safe, Pending, Dead
  <2>. QED BY <2>1, <1>5, WatchedStays
<1>a. CASE ReserveType(t)
  <2>1. PICK id \in Id : SetSlot(HASH_ID(id), [slot[HASH_ID(id)] EXCEPT !.type = "RESERVE"])
    BY <1>a DEF ReserveType
  <2>2. PICK k \in Slot : k = HASH_ID(id)
    BY HashType DEF Id
  <2>3. PICK q \in Record : q = slot[k]
    BY <1>1
  <2>. DEFINE r == [q EXCEPT !.type = "RESERVE"]
  <2>4. r.type = "RESERVE"
    BY DEF Record
  <2>5. SetSlot(k, r)
    BY <2>1, <2>2, <2>3
  <2>. HIDE DEF r
  <2>6. Follows
    BY <1>a DEF ReserveType, Follows
  <2>. QED BY <1>5, <2>4, <2>5, <2>6
<1>b. CASE ReserveId(t)
  <2>1. PICK id \in Id : /\ id = reserving[t].id /\ slot[HASH_ID(id)].type = "RESERVE"
                         /\ HASH_ID(id) \in Slot
    BY <1>1, <1>b, TicketType DEF ReserveId, Reserving, Inv, Tickets, Ticketed
  <2>2. PICK k \in Slot : k = HASH_ID(id)
    BY <2>1
  <2>3. PICK q \in Record : q = slot[k]
    BY <1>1
  <2>. DEFINE r == [q EXCEPT !.id = id, !.protocol = "UNKNOWN"]
  <2>4. r.type = "RESERVE"
    BY <2>1, <2>2, <2>3 DEF Record
  <2>5. SetSlot(k, r)
    BY <1>b, <2>1, <2>2, <2>3 DEF ReserveId
  <2>. HIDE DEF r
  <2>6. Follows
    BY <1>b DEF ReserveId, Follows
  <2>. QED BY <1>5, <2>4, <2>5, <2>6
<1>c. CASE OpenRequest(t)
  <2>1. UNCHANGED <<slot, at, job>> /\ \E c : pipe' = Append(pipe, c)
    BY <1>c DEF OpenRequest, Request
  <2>. QED BY <1>2, <2>1 DEF Follows
<1>6. CASE Send(t)
  <2>1. UNCHANGED pipe /\ at[t] = "idle"
    BY <1>6 DEF Send, Call, At
  <2>2. PICK id \in 1..alloc_id : /\ \E p : at' = [at EXCEPT ![t] = p]
                                  /\ \E n : job' = [job EXCEPT ![t] = n]
                                  /\ \/ slot' = slot
                                     \/ slot' = [slot EXCEPT ![HASH_ID(id)].dw_lock = t]
    BY <1>6 DEF Send, Known
  <2>3. Follows
    BY <1>1, <2>1, <2>2 DEF Follows
  <2>4. CASE slot' = slot
    BY <1>2, <2>3, <2>4
  <2>5. CASE slot' = [slot EXCEPT ![HASH_ID(id)].dw_lock = t]
    <3>1. PICK k \in Slot : k = HASH_ID(id)
      BY <1>1, HashType DEF Types, ThreadTypes
    <3>2. PICK q \in Record : q = slot[k]
      BY <1>1
    <3>. DEFINE r == [q EXCEPT !.dw_lock = t]
    <3>3. SameData(q, r)
      BY DEF Record, SameData
    <3>4. SetSlot(k, r)
      BY <1>1, <2>5, <3>1, <3>2 DEF SetSlot
    <3>. HIDE DEF r
    <3>. QED BY <1>1, <2>3, <3>2, <3>3, <3>4, SafeSlot, SameDataSafe, WatchedStays
  <2>. QED BY <2>2, <2>4, <2>5
<1>7. CASE IncSending(t)
  <2>1. /\ at[t] = "inc" /\ UNCHANGED <<pipe, job>> /\ at' = [at EXCEPT ![t] = "request"]
        /\ SetSlot(HASH_ID(job[t].id), inc_sending_ref(slot[HASH_ID(job[t].id)], job[t].id))
    BY <1>7 DEF IncSending, At
  <2>2. Follows
    BY <1>1, <2>1 DEF Follows
  <2>3. PICK k \in Slot : k = HASH_ID(job[t].id)
    BY <1>1, <2>1
  <2>a. PICK id : id = job[t].id
    OBVIOUS
  <2>4. PICK q \in Record : q = slot[k]
    BY <1>1
  <2>. DEFINE r == inc_sending_ref(q, id)
  <2>5. SameData(q, r)
    BY DEF Record, SameData, inc_sending_ref
  <2>6. SetSlot(k, r)
    BY <2>1, <2>a, <2>3, <2>4
  <2>. HIDE DEF r
  <2>. QED BY <1>1, <2>2, <2>4, <2>5, <2>6, SafeSlot, SameDataSafe, WatchedStays
<1>8. CASE DirectWrite(t)
  <2>1. /\ at[t] = "locked" /\ UNCHANGED pipe
    BY <1>8 DEF DirectWrite, At
  <2>a. PICK id : id = job[t].id
    OBVIOUS
  <2>2. PICK k \in Slot : k = HASH_ID(id)
    BY <1>1, <2>1, <2>a
  <2>3. PICK q \in Record : q = slot[k]
    BY <1>1
  <2>. DEFINE r == [q EXCEPT !.dw_lock = NULL]
              w(n) == [r EXCEPT !.dw_buffer = [p |-> job[t].p, off |-> n]]
  <2>4. SameData(q, r) /\ (r.id = q.id /\ r.type = q.type)
    BY DEF Record, SameData
  <2>5. \/ SetSlot(k, r)
        \/ \E n \in 0..1 : /\ SetSlot(k, w(n)) /\ can_direct_write(r, id)
                           /\ at' = [at EXCEPT ![t] = "trigger"] /\ job' = job
    BY <1>8, <2>a, <2>2, <2>3, DirectWriteCases
  <2>6. Follows
    <3>1. (\E p : at' = [at EXCEPT ![t] = p]) /\ (job' = job \/ job' = [job EXCEPT ![t] = NULL])
      BY <1>8 DEF DirectWrite
    <3>. QED BY <1>1, <2>1, <3>1 DEF Follows
  <2>7. CASE SetSlot(k, r)
    <3>. HIDE DEF r
    <3>. QED BY <1>1, <2>3, <2>4, <2>6, <2>7, SafeSlot, SameDataSafe, WatchedStays
  <2>8. ASSUME NEW n \in 0..1, SetSlot(k, w(n)), can_direct_write(r, id),
               at' = [at EXCEPT ![t] = "trigger"], job' = job
        PROVE  PendingIsWatched'
    <3>1. w(n).id = r.id
      BY DEF Record
    <3>2. r.id = id
      BY <2>8 DEF can_direct_write
    <3>3. Triggered(id)'
      BY <1>1, <2>a, <2>8 DEF Triggered
    <3>. HIDE DEF r, w
    <3>4. slot'[k] = w(n) /\ \A j \in Slot \ {k} : slot'[j] = slot[j]
      BY <1>1, <2>8 DEF SetSlot
    <3>5. ASSUME NEW j \in Slot, Pending(slot'[j])
          PROVE  slot'[j].writing \/ Triggered(slot[j].id)'
      <4>1. CASE j = k
        <5>1. slot'[j].id = id
          BY <3>1, <3>2, <3>4, <4>1
        <5>. QED BY <3>3, <5>1 DEF Triggered
      <4>2. CASE j # k
        <5>1. slot'[j] = slot[j] /\ Pending(slot[j])
          BY <3>4, <3>5, <4>2
        <5>2. slot[j].writing \/ Triggered(slot[j].id)
          BY <5>1, WatchedBefore
        <5>3. PICK x : x = slot[j].id
          OBVIOUS
        <5>4. Triggered(x) => Triggered(x)'
          BY <1>1, <2>6, StaysTriggered DEF Types, ThreadTypes
        <5>. QED BY <5>1, <5>2, <5>3, <5>4 DEF Triggered
      <4>. QED BY <4>1, <4>2
    <3>. QED BY <3>5, WatchedAfter
  <2>. QED BY <2>5, <2>7, <2>8
<1>. QED
  BY <1>3, <1>4, <1>a, <1>b, <1>c, <1>6, <1>7, <1>8 DEF Service

LEMMA ForceCloseSafe ==
    ASSUME Types, NEW k \in Slot, NEW raise, NEW ctrl, ForceClose(k, slot[k], raise, ctrl)
    PROVE  \A j \in Slot : Safe(slot[j], slot'[j])
<1>1. PICK q \in Record : q = slot[k]
  BY DEF Types
<1>. DEFINE r == [q EXCEPT !.high = <<>>, !.low = <<>>]
<1>2. /\ r.id = q.id /\ r.type = q.type /\ r.dw_buffer = q.dw_buffer
      /\ q.writing => r.writing
      /\ r.high = <<>> /\ r.low = <<>>
  BY DEF Record
<1>3. SetSlot(k, r)
  BY <1>1 DEF ForceClose
<1>. HIDE DEF r
<1>4. Safe(q, r)
  BY <1>2 DEF Safe, Pending, send_buffer_empty
<1>. QED
  BY <1>1, <1>3, <1>4, SafeSlot

\* new_fd, on a slot whose lists are empty.
LEMMA NewFdSafe ==
    ASSUME Types, NEW k \in Slot, send_buffer_empty(slot[k]), NEW id \in Id,
           NEW type \in Type, NEW reading \in BOOLEAN, NEW writing \in BOOLEAN,
           SetSlot(k, NewFd(slot[k], id, type, reading, writing))
    PROVE  \A j \in Slot : Safe(slot[j], slot'[j])
<1>1. PICK q \in Record : q = slot[k]
  BY DEF Types
<1>2. PICK r : r = NewFd(q, id, type, reading, writing)
  OBVIOUS
<1>3. r.dw_buffer = NULL /\ r.high = q.high /\ r.low = q.low
  BY <1>2, NewFdFields
<1>4. Safe(q, r)
  BY <1>1, <1>3 DEF Safe, Pending, send_buffer_empty
<1>. QED
  BY <1>1, <1>2, <1>4, SafeSlot

LEMMA CommandWatched ==
    ASSUME Inv, ~Crosses,
                \/ OpenSocket \/ ListenSocket \/ ResumeSocket \/ PauseSocket
                \/ CloseSocket \/ SendSocket
    PROVE  PendingIsWatched'
<1>1. PICK c : Command(c) /\ c # "trigger" /\ UNCHANGED <<at, job>>
  BY DEF OpenSocket, ListenSocket, ResumeSocket, PauseSocket, CloseSocket, SendSocket,
         sendVars, history
<1>2. /\ pipe # <<>> /\ Head(pipe).cmd = c /\ pipe' = Tail(pipe)
      /\ k_ \in Slot /\ id_ \in Id
  BY <1>1, CommandFacts
<1>3. Follows
  BY <1>1, <1>2 DEF Follows
<1>4. SUFFICES \A j \in Slot : Safe(slot[j], slot'[j])
  BY <1>3, WatchedStays
<1>5. PICK k \in Slot, id \in Id : k = k_ /\ id = id_
  BY <1>2
<1>6. PICK q \in Record : q = slot[k]
  BY DEF Inv, Types
<1>7. Types
  BY DEF Inv
<1>8. ASSUME UNCHANGED slot PROVE \A j \in Slot : Safe(slot[j], slot'[j])
  BY <1>8 DEF Safe
<1>9. ASSUME NEW type \in {"CONNECTED", "CONNECTING", "PLISTEN"}, NEW reading \in BOOLEAN,
             NEW writing \in BOOLEAN, Head(pipe).cmd \in Opening,
             SetSlot(k_, NewFd(slot[k_], id_, type, reading, writing))
      PROVE  \A j \in Slot : Safe(slot[j], slot'[j])
  <2>1. send_buffer_empty(slot[k])
    BY <1>2, <1>5, <1>9, OpenFinds DEF CanOpen
  <2>2. type \in Type /\ SetSlot(k, NewFd(slot[k], id, type, reading, writing))
    BY <1>5, <1>9 DEF Type
  <2>. QED BY <1>7, <2>1, <2>2, NewFdSafe
<1>b. ASSUME SetSlot(k, [q EXCEPT !.type = "INVALID"])
      PROVE  \A j \in Slot : Safe(slot[j], slot'[j])
  <2>. DEFINE r == [q EXCEPT !.type = "INVALID"]
  <2>1. r.type = "INVALID"
    BY DEF Record
  <2>. HIDE DEF r
  <2>2. Safe(q, r) /\ SetSlot(k, r)
    BY <1>b, <2>1 DEF Safe, Pending, Dead, r
  <2>. QED BY <1>6, <1>7, <2>2, SafeSlot
<1>10. CASE OpenSocket
  <2>1. \/ SetSlot(k_, NewFd(slot[k_], id_, "CONNECTED", TRUE, FALSE))
        \/ SetSlot(k_, NewFd(slot[k_], id_, "CONNECTING", TRUE, TRUE))
        \/ SetSlot(k, [q EXCEPT !.type = "INVALID"])
    BY <1>5, <1>6, <1>10 DEF OpenSocket
  <2>2. Head(pipe).cmd \in Opening
    BY <1>10 DEF OpenSocket, Command, Opening
  <2>3. PICK yes \in BOOLEAN, no \in BOOLEAN : yes = TRUE /\ no = FALSE
    OBVIOUS
  <2>4. CASE SetSlot(k_, NewFd(slot[k_], id_, "CONNECTED", TRUE, FALSE))
    <3>1. SetSlot(k_, NewFd(slot[k_], id_, "CONNECTED", yes, no))
      BY <2>3, <2>4
    <3>. QED BY <1>9, <2>2, <3>1
  <2>5. CASE SetSlot(k_, NewFd(slot[k_], id_, "CONNECTING", TRUE, TRUE))
    <3>1. SetSlot(k_, NewFd(slot[k_], id_, "CONNECTING", yes, yes))
      BY <2>3, <2>5
    <3>. QED BY <1>9, <2>2, <3>1
  <2>. QED BY <1>9, <1>b, <2>1, <2>4, <2>5
<1>11. CASE ListenSocket
  <2>1. /\ \/ SetSlot(k_, NewFd(slot[k_], id_, "PLISTEN", FALSE, FALSE))
           \/ SetSlot(k, [q EXCEPT !.type = "INVALID"])
        /\ Head(pipe).cmd \in Opening
    BY <1>5, <1>6, <1>11 DEF ListenSocket, Command, Opening
  <2>2. PICK no \in BOOLEAN : no = FALSE
    OBVIOUS
  <2>3. CASE SetSlot(k_, NewFd(slot[k_], id_, "PLISTEN", FALSE, FALSE))
    <3>1. SetSlot(k_, NewFd(slot[k_], id_, "PLISTEN", no, no))
      BY <2>2, <2>3
    <3>. QED BY <1>9, <2>1, <3>1
  <2>. QED BY <1>b, <2>1, <2>3
<1>12. CASE ResumeSocket
  <2>. DEFINE r == [q EXCEPT !.reading = TRUE]
              s == CASE r.type = "PACCEPT" -> [r EXCEPT !.type = "CONNECTED"]
                     [] r.type = "PLISTEN" -> [r EXCEPT !.type = "LISTEN"]
                     [] OTHER -> r
  <2>1. slot' = slot \/ SetSlot(k, s)
    BY <1>5, <1>6, <1>12 DEF ResumeSocket
  <2>2. r \in Record /\ SameData(q, r)
    BY DEF Record, SameData
  <2>. HIDE DEF r
  <2>3. /\ s.id = r.id /\ s.high = r.high /\ s.low = r.low /\ s.dw_buffer = r.dw_buffer
        /\ r.writing => s.writing
        /\ \/ s.type = r.type
           \/ r.type \in {"PACCEPT", "PLISTEN"}
    <3>1. CASE r.type = "PACCEPT"
      <4>1. s = [r EXCEPT !.type = "CONNECTED"]
        BY <3>1
      <4>. QED BY <2>2, <3>1, <4>1 DEF Record
    <3>2. CASE r.type = "PLISTEN"
      <4>1. s = [r EXCEPT !.type = "LISTEN"]
        BY <3>2
      <4>. QED BY <2>2, <3>2, <4>1 DEF Record
    <3>3. CASE r.type \notin {"PACCEPT", "PLISTEN"}
      <4>1. s = r
        BY <3>3
      <4>. QED BY <4>1
    <3>. QED BY <3>1, <3>2, <3>3
  <2>. HIDE DEF s
  <2>4. Safe(q, s)
    BY <2>2, <2>3 DEF Safe, SameData, Pending, send_buffer_empty, Dead
  <2>. QED BY <1>6, <1>7, <1>8, <2>1, <2>4, SafeSlot
<1>13. CASE PauseSocket
  <2>. DEFINE r == [q EXCEPT !.reading = FALSE]
  <2>1. slot' = slot \/ SetSlot(k, r)
    BY <1>5, <1>6, <1>7, <1>13 DEF PauseSocket, SetSlot, Types
  <2>2. SameData(q, r)
    BY DEF Record, SameData
  <2>. HIDE DEF r
  <2>. QED BY <1>6, <1>7, <1>8, <2>1, <2>2, SafeSlot, SameDataSafe
<1>14. CASE CloseSocket
  <2>. DEFINE r == [CloseRead(q) EXCEPT !.closing = TRUE]
  <2>1. \/ slot' = slot
        \/ \E raise \in {"none", "CLOSE"} : ForceClose(k, slot[k], raise, TRUE)
        \/ SetSlot(k, r) /\ ~nomore_sending_data(q) /\ ~socket_invalid(k, id)
    BY <1>5, <1>6, <1>14 DEF CloseSocket
  <2>2. CASE \E raise \in {"none", "CLOSE"} : ForceClose(k, slot[k], raise, TRUE)
    <3>1. PICK raise, ctrl : ForceClose(k, slot[k], raise, ctrl)
      BY <2>2, Zenon
    <3>. QED BY <1>7, <3>1, ForceCloseSafe
  <2>3. CASE SetSlot(k, r) /\ ~nomore_sending_data(q) /\ ~socket_invalid(k, id)
    <3>1. PICK h \in Record : h = CloseRead(q)
      BY CloseReadFields
    <3>2. /\ h.id = q.id /\ h.high = q.high /\ h.low = q.low
          /\ h.dw_buffer = q.dw_buffer /\ (q.writing => h.writing)
          /\ h.type = "HALFCLOSE_READ"
      BY <3>1, CloseReadFields
    <3>3. /\ r.id = h.id /\ r.high = h.high /\ r.low = h.low
          /\ r.dw_buffer = h.dw_buffer /\ (h.writing => r.writing)
          /\ r.type = "HALFCLOSE_READ"
      BY <3>1, <3>2 DEF Record
    <3>. HIDE DEF r
    <3>4. q.type # "HALFCLOSE_WRITE" /\ q.type \notin Dead
      <4>1. q.type # "HALFCLOSE_WRITE"
        BY <2>3 DEF nomore_sending_data
      <4>2. q.type # "INVALID" /\ slot[k_].id = id_ /\ Head(pipe).cmd \notin Opening
        BY <1>5, <1>6, <1>14, <2>3 DEF socket_invalid, CloseSocket, Command, Opening
      <4>3. q.type # "RESERVE"
        BY <1>2, <1>5, <1>6, <4>2, NotReserved
      <4>. QED BY <4>1, <4>2, <4>3 DEF Dead
    <3>5. Safe(q, r)
      BY <3>2, <3>3, <3>4 DEF Safe, Pending, send_buffer_empty
    <3>. QED BY <1>6, <1>7, <2>3, <3>5, SafeSlot
  <2>. QED BY <1>8, <2>1, <2>2, <2>3
<1>15. CASE SendSocket
  <2>1. Head(pipe).p \in Packet
    BY <1>2, <1>15, HeadOfPipe DEF SendSocket, Command, Inv, Types, ThreadTypes
  <2>2. PICK p \in Packet : p = Head(pipe).p
    BY <2>1
  <2>3. PICK h : /\ h = q \/ h = Queued(q, p)
                 /\ SetSlot(k, h) \/ SetSlot(k, [h EXCEPT !.sending = @ - 1])
    BY <1>5, <1>6, <1>15, <2>2 DEF SendSocket
  <2>4. /\ h \in Record /\ h.id = q.id /\ h.type = q.type /\ h.dw_buffer = q.dw_buffer
        /\ h.writing \/ SameData(q, h) \/ ((q.writing => h.writing) /\ ~send_buffer_empty(q))
    <3>1. CASE h = q
      BY <3>1 DEF SameData
    <3>2. CASE h = Queued(q, p)
      BY <3>2, QueuedFields DEF Alike
    <3>. QED BY <2>3, <3>1, <3>2
  <2>5. Safe(q, h)
    BY <2>4, SameDataSafe DEF Safe, Pending
  <2>6. CASE SetSlot(k, h)
    BY <1>6, <1>7, <2>5, <2>6, SafeSlot
  <2>7. CASE SetSlot(k, [h EXCEPT !.sending = @ - 1])
    <3>. DEFINE r == [h EXCEPT !.sending = @ - 1]
    <3>1. SameData(h, r)
      BY <2>4 DEF Record, SameData
    <3>. HIDE DEF r
    <3>2. SetSlot(k, r)
      BY <2>7 DEF r
    <3>3. Safe(q, r)
      BY <2>5, <3>1 DEF Safe, SameData, Pending, send_buffer_empty
    <3>. QED BY <1>6, <1>7, <3>2, <3>3, SafeSlot
  <2>. QED BY <2>3, <2>6, <2>7
<1>. QED
  BY <1>10, <1>11, <1>12, <1>13, <1>14, <1>15

LEMMA TriggerWatched ==
    ASSUME Inv, TriggerWrite
    PROVE  PendingIsWatched'
<1>1. /\ pipe # <<>> /\ pipe' = Tail(pipe) /\ k_ \in Slot /\ id_ \in Id
      /\ UNCHANGED <<at, job>> /\ pipe \in Seq(Cmd)
  BY CommandFacts DEF TriggerWrite, sendVars, Inv, Types, ThreadTypes
<1>2. PICK k \in Slot, id \in Id : k = k_ /\ id = id_
  BY <1>1
<1>3. PICK q \in Record : q = slot[k]
  BY DEF Inv, Types
<1>. DEFINE r == [q EXCEPT !.writing = TRUE]
<1>4. \/ slot' = slot /\ socket_invalid(k, id)
      \/ SetSlot(k, r)
  BY <1>2, <1>3 DEF TriggerWrite, SetSlot, Inv, Types
<1>5. r.writing /\ SameData(q, r)
  BY DEF Record, SameData
<1>. HIDE DEF r
<1>6. ASSUME NEW j \in Slot, Pending(slot'[j]), ~slot'[j].writing
      PROVE  Pending(slot[j]) /\ ~slot[j].writing /\ slot'[j].id = slot[j].id /\ slot[j].id # id
  <2>1. slot'[j] = slot[j] /\ (j = k => socket_invalid(k, id))
    BY <1>3, <1>4, <1>5, <1>6 DEF SetSlot, Inv, Types
  <2>2. Pending(slot[j])
    BY <1>6, <2>1
  <2>3. j = HASH_ID(slot[j].id)
    BY <2>2 DEF Pending, Inv, Placed, SlotPlaced, Dead
  <2>4. k = HASH_ID(id)
    BY <1>2 DEF k_
  <2>5. slot[j].id # id
    BY <2>1, <2>2, <2>3, <2>4 DEF socket_invalid, Pending, Dead
  <2>. QED BY <1>6, <2>1, <2>2, <2>5
<1>7. ASSUME NEW j \in Slot, Pending(slot'[j]), ~slot'[j].writing
      PROVE  Triggered(slot[j].id)'
  <2>1. PICK x : x = slot[j].id /\ x = slot'[j].id /\ x # id
    BY <1>6, <1>7
  <2>2. Triggered(x)
    BY <1>6, <1>7, <2>1, WatchedBefore
  <2>3. Triggered(x)'
    <3>1. ASSUME NEW c \in ToSet(pipe), c.id = x PROVE c \in ToSet(pipe')
      <4>1. c # Head(pipe)
        BY <1>2, <2>1, <3>1 DEF id_
      <4>. QED BY <1>1, <4>1, CommandsTaken
    <3>. QED BY <1>1, <2>2, <3>1 DEF Triggered
  <2>. QED BY <2>1, <2>3 DEF Triggered
<1>. QED
  BY <1>7, WatchedAfter

LEMMA EventWatched ==
    ASSUME Inv, \/ ForceCloseEnd \/ NoCommand \/ SpWait \/ EventInvalid \/ EventReserved
                \/ ReportConnect \/ ReportAccept \/ ReadData \/ ReadEnd \/ HangUp
                \/ SendBuffer
    PROVE  PendingIsWatched'
<1>1. Follows
  <2>1. UNCHANGED <<pipe, at, job>>
    BY Zenon DEF ForceCloseEnd, NoCommand, SpWait, EventInvalid, EventReserved, ReportConnect,
           ReportAccept, ReadData, ReadEnd, HangUp, SendBuffer, sendVars, history
  <2>. QED BY <2>1 DEF Follows
<1>2. SUFFICES \A j \in Slot : Safe(slot[j], slot'[j])
  BY <1>1, WatchedStays
<1>3. Types /\ slot \in [Slot -> Record]
  BY DEF Inv, Types
<1>4. ASSUME UNCHANGED slot PROVE \A j \in Slot : Safe(slot[j], slot'[j])
  BY <1>4 DEF Safe
<1>5. CASE NoCommand \/ SpWait \/ EventInvalid \/ ReadData
  BY <1>4, <1>5 DEF NoCommand, SpWait, EventInvalid, ReadData
<1>6. ASSUME NEW k \in Slot, NEW r, SetSlot(k, r), r.type \in Dead \cup {"HALFCLOSE_WRITE"}
      PROVE  \A j \in Slot : Safe(slot[j], slot'[j])
  <2>1. Safe(slot[k], r)
    BY <1>6 DEF Safe, Pending
  <2>. QED BY <1>3, <1>6, <2>1, SafeSlot
<1>7. CASE ForceCloseEnd
  <2>1. PICK k \in Slot : k = doomed.s
    BY <1>7 DEF ForceCloseEnd, Thread, Inv, Types, ThreadTypes, Doom
  <2>2. PICK r : r = Closed(slot[k])
    OBVIOUS
  <2>3. r.type = "INVALID"
    BY <1>3, <2>2, ClosedFields
  <2>4. SetSlot(k, r)
    BY <1>7, <2>1, <2>2 DEF ForceCloseEnd
  <2>. QED BY <1>6, <2>3, <2>4 DEF Dead
<1>8. CASE ReportAccept
  <2>1. CASE UNCHANGED slot
    BY <1>4, <2>1
  <2>2. CASE ~UNCHANGED slot
    <3>1. PICK id \in Id :
            Reservable(id) /\ SetSlot(HASH_ID(id), NewFd(slot[HASH_ID(id)], id, "PACCEPT", FALSE, FALSE))
      BY <1>8, <2>2 DEF ReportAccept
    <3>2. PICK k \in Slot : k = HASH_ID(id)
      BY HashType DEF Id
    <3>3. PICK type \in Type : type = "PACCEPT"
      BY DEF Type
    <3>4. PICK no \in BOOLEAN : no = FALSE
      OBVIOUS
    <3>5. SetSlot(k, NewFd(slot[k], id, type, no, no))
      BY <3>1, <3>2, <3>3, <3>4
    <3>6. send_buffer_empty(slot[k])
      BY <3>1, <3>2 DEF Reservable, Inv, Placed, SlotPlaced, Dead
    <3>. QED BY <1>3, <3>5, <3>6, NewFdSafe
  <2>. QED BY <2>1, <2>2
<1>9. SUFFICES ASSUME EventReserved \/ ReportConnect \/ ReadEnd \/ HangUp \/ SendBuffer
               PROVE  \A j \in Slot : Safe(slot[j], slot'[j])
  BY <1>5, <1>7, <1>8
<1>10. s_ \in Slot
  BY <1>9, EventFacts DEF EventReserved, ReportConnect, ReadEnd, HangUp, SendBuffer
<1>11. PICK k \in Slot : k = s_
  BY <1>10
<1>12. PICK q \in Record : q = slot[k]
  BY <1>3
<1>13. CASE EventReserved
  <2>. DEFINE r == IF Head(ev).k = "w" THEN [q EXCEPT !.writing = FALSE] ELSE q
  <2>1. SetSlot(k, r) /\ q.type = "RESERVE"
    BY <1>11, <1>12, <1>13 DEF EventReserved, Event
  <2>2. r.type = q.type
    BY DEF Record
  <2>. HIDE DEF r
  <2>. QED BY <1>6, <2>1, <2>2 DEF Dead
<1>14. CASE ReportConnect
  <2>. DEFINE r == [q EXCEPT !.type = "CONNECTED"]
              s == IF nomore_sending_data(r) THEN [r EXCEPT !.writing = FALSE] ELSE r
  <2>1. /\ q.type = "CONNECTING"
        /\ SetSlot(k, s) \/ ForceClose(k, slot[k], "ERR", FALSE)
    BY <1>11, <1>12, <1>14 DEF ReportConnect, Event
  <2>2. /\ r \in Record /\ r.id = q.id /\ r.type = "CONNECTED" /\ r.high = q.high
        /\ r.low = q.low /\ r.dw_buffer = q.dw_buffer /\ (q.writing => r.writing)
    BY DEF Record, Type
  <2>. HIDE DEF r
  <2>3. Safe(q, s)
    <3>1. CASE nomore_sending_data(r)
      <4>. DEFINE w == [r EXCEPT !.writing = FALSE]
      <4>1. s = w
        BY <3>1
      <4>2. w.type = r.type /\ w.high = r.high /\ w.low = r.low /\ w.dw_buffer = r.dw_buffer
        BY <2>2 DEF Record
      <4>. HIDE DEF w, s
      <4>3. send_buffer_empty(r) /\ r.dw_buffer = NULL
        BY <2>2, <3>1 DEF nomore_sending_data
      <4>4. ~Pending(w)
        BY <4>2, <4>3 DEF Pending, send_buffer_empty
      <4>. QED BY <4>1, <4>4 DEF Safe
    <3>2. CASE ~nomore_sending_data(r)
      <4>1. s = r
        BY <3>2
      <4>. HIDE DEF s
      <4>. QED BY <2>1, <2>2, <4>1 DEF Safe, Pending, send_buffer_empty, Dead
    <3>. QED BY <3>1, <3>2
  <2>4. CASE SetSlot(k, s)
    <3>. HIDE DEF s
    <3>. QED BY <1>3, <1>12, <2>3, <2>4, SafeSlot
  <2>5. CASE ForceClose(k, slot[k], "ERR", FALSE)
    <3>1. PICK raise, ctrl : ForceClose(k, slot[k], raise, ctrl)
      BY <2>5, Zenon
    <3>. QED BY <1>3, <3>1, ForceCloseSafe
  <2>. QED BY <2>1, <2>4, <2>5
<1>15. CASE HangUp
  <2>1. \E raise, ctrl : ForceClose(k, slot[k], raise, ctrl)
    BY <1>11, <1>15 DEF HangUp
  <2>. QED BY <1>3, <2>1, ForceCloseSafe
<1>16. CASE ReadEnd
  <2>1. \/ slot' = slot
        \/ \E raise, ctrl : ForceClose(k, slot[k], raise, ctrl)
        \/ SetSlot(k, CloseRead(q)) /\ q.type \in Open \ {"HALFCLOSE_READ", "HALFCLOSE_WRITE"}
    BY <1>11, <1>12, <1>16 DEF ReadEnd, Event
  <2>2. CASE SetSlot(k, CloseRead(q)) /\ q.type \in Open \ {"HALFCLOSE_READ", "HALFCLOSE_WRITE"}
    <3>1. PICK r \in Record : r = CloseRead(q)
      BY CloseReadFields
    <3>2. /\ r.id = q.id /\ r.high = q.high /\ r.low = q.low
          /\ r.dw_buffer = q.dw_buffer /\ (q.writing => r.writing)
      BY <3>1, CloseReadFields
    <3>3. Safe(q, r)
      BY <2>2, <3>2 DEF Safe, Pending, send_buffer_empty, Open, Dead
    <3>. QED BY <1>3, <1>12, <2>2, <3>1, <3>3, SafeSlot
  <2>. QED BY <1>3, <1>4, <2>1, <2>2, ForceCloseSafe
<1>17. CASE SendBuffer
  <2>1. CASE UNCHANGED slot
    BY <1>4, <2>1
  <2>2. CASE ~UNCHANGED slot
    <3>1. PICK r \in Record : r = TakeDirect(q)
      BY TakeDirectFields
    <3>2. /\ Alike(q, r) /\ r.dw_buffer = NULL /\ (q.writing => r.writing)
          /\ send_buffer_empty(q) /\ q.dw_buffer = NULL => send_buffer_empty(r)
      BY <3>1, TakeDirectFields
    <3>3. PICK n \in 0..Len(r.high \o r.low), part \in 0..1, error \in BOOLEAN :
            /\ n = Len(r.high \o r.low) => part = 0
            /\ SetSlot(k, IF error THEN CloseWrite(Written(r, n, 0))
                          ELSE CheckClose(Written(r, n, part)))
      BY <1>11, <1>12, <1>17, <2>2, <3>1 DEF SendBuffer
    <3>4. CASE error
      <4>1. PICK none \in 0..1 : none = 0
        OBVIOUS
      <4>2. PICK y \in Record : y = Written(r, n, none)
        BY <4>1, WrittenFields
      <4>3. SetSlot(k, CloseWrite(y))
        BY <3>3, <3>4, <4>1, <4>2
      <4>4. PICK z : z = CloseWrite(y)
        OBVIOUS
      <4>5. z.type \in {"INVALID", "HALFCLOSE_WRITE"}
        BY <4>4, CloseWriteFields
      <4>. QED BY <1>6, <4>3, <4>4, <4>5 DEF Dead
    <3>5. CASE ~error
      <4>1. PICK y \in Record : y = Written(r, n, part)
        BY <3>3, WrittenFields
      <4>2. /\ Alike(r, y) /\ y.dw_buffer = r.dw_buffer /\ (r.writing => y.writing)
            /\ send_buffer_empty(r) => send_buffer_empty(y)
        BY <3>3, <4>1, WrittenFields
      <4>3. SetSlot(k, CheckClose(y))
        BY <3>3, <3>5, <4>1
      <4>4. PICK z : z = CheckClose(y)
        OBVIOUS
      <4>5. /\ z.id = y.id
            /\ \/ z.type = "INVALID"
               \/ /\ z.type = y.type /\ z.high = y.high /\ z.low = y.low
                  /\ z.dw_buffer = y.dw_buffer
                  /\ ~send_buffer_empty(y) => (y.writing => z.writing)
        BY <4>4, CheckCloseFields
      <4>6. Safe(q, z)
        <5>1. ASSUME Pending(z) PROVE Pending(q) /\ z.id = q.id /\ (q.writing => z.writing)
          <6>1. /\ z.type = y.type /\ z.high = y.high /\ z.low = y.low
                /\ z.dw_buffer = NULL /\ ~send_buffer_empty(y)
            BY <3>2, <4>2, <4>5, <5>1 DEF Pending, send_buffer_empty, Dead
          <6>2. ~send_buffer_empty(q) \/ q.dw_buffer # NULL
            BY <3>2, <4>2, <6>1
          <6>3. z.type = q.type /\ z.id = q.id
            BY <3>2, <4>2, <4>5, <6>1 DEF Alike
          <6>. QED BY <3>2, <4>2, <4>5, <5>1, <6>1, <6>2, <6>3 DEF Pending, Dead
        <5>. QED BY <5>1 DEF Safe
      <4>. QED BY <1>3, <1>12, <4>3, <4>4, <4>6, SafeSlot
    <3>. QED BY <3>4, <3>5
  <2>. QED BY <2>1, <2>2
<1>. QED
  BY <1>9, <1>13, <1>14, <1>15, <1>16, <1>17

LEMMA WatchedStep ==
    ASSUME Inv, Next, ~Crosses
    PROVE  PendingIsWatched'
  BY ServiceWatched, CommandWatched, TriggerWatched, EventWatched DEF Next, SocketThread

-----------------------------------------------------------------------------
(* The theorems. *)

LEMMA InitInv == Init => Inv
<1>. SUFFICES ASSUME Init PROVE Inv
  OBVIOUS
<1>1. Empty \in Record
  BY SocketAssumption, EmptySeq DEF Empty, Record, Type
<1>2. \A k \in Slot : /\ slot[k] = Empty /\ slot[k].id = 0 /\ slot[k].type = "INVALID"
                      /\ slot[k].protocol = "UNKNOWN" /\ send_buffer_empty(slot[k])
  BY DEF Init, Empty, send_buffer_empty
<1>3. \A id \in Id : ~Live(id)
  <2>1. \A id \in Id : HASH_ID(id) \in Slot
    BY HashType DEF Id
  <2>. QED BY <1>2, <2>1 DEF Live
<1>4. Types
  <2>1. slot \in [Slot -> Record]
    BY <1>1 DEF Init
  <2>2. ThreadTypes
    BY SocketAssumption, EmptySeq DEF Init, ThreadTypes
  <2>3. SenderTypes
    <3>1. NotReserving \in Ticket
      BY DEF Ticket
    <3>. QED BY <3>1, SocketAssumption DEF Init, SenderTypes, Place
  <2>4. Packets = {}
    <3>1. \A p : p \notin Packets
      BY PacketsParts DEF Init
    <3>. QED BY <3>1
  <2>5. Numbered
    BY <2>4, FS_EmptySet DEF Init, Numbered
  <2>. QED BY <2>1, <2>2, <2>3, <2>5 DEF Types
<1>5. Placed
  <2>1. \A k \in Slot : ~HalfReserved(k)
    BY DEF Init, NotReserving, HalfReserved
  <2>. QED BY <1>2, <2>1 DEF Placed, SlotPlaced, Use, Init, Dead
<1>6. Sent /\ OpenFirst
  BY DEF Sent, OpenFirst, Init
<1>7. Forced /\ Assertions
  BY DEF Forced, Assertions, Init
<1>8. Counted
  BY <1>2 DEF Counted
<1>9. ClosesCounted
  <2>1. \A k \in Slot : ~HalfReserved(k)
    BY DEF Init, NotReserving, HalfReserved
  <2>. QED BY <1>2, <2>1 DEF ClosesCounted, Use, Init, Dead
<1>10. PendingIsWatched
  BY <1>3 DEF PendingIsWatched
<1>11. Tickets
  BY DEF Init, NotReserving, Tickets, Ticketed
<1>. QED
  BY <1>4, <1>5, <1>6, <1>7, <1>8, <1>9, <1>10, <1>11 DEF Inv

LEMMA NextInv == Inv /\ [Next /\ ~Crosses]_vars => Inv'
<1>. SUFFICES ASSUME Inv, [Next /\ ~Crosses]_vars PROVE Inv'
  OBVIOUS
<1>1. CASE Next /\ ~Crosses
  <2>1. SlotTypes' /\ Effect /\ Assertions'
    BY <1>1, StepEffect
  <2>2. Types'
    BY <1>1, <2>1, ThreadTypesStep, SenderTypesStep DEF Types, SlotTypes
  <2>3. Placed' /\ Sent' /\ OpenFirst' /\ Forced' /\ Counted' /\ ClosesCounted'
    BY <2>1, PlacedStep, SentStep, OpenFirstStep, ForcedStep, CountedStep, ClosesStep
  <2>4. PendingIsWatched' /\ Tickets'
    BY <1>1, <2>1, WatchedStep, TicketsStep
  <2>. QED BY <2>1, <2>2, <2>3, <2>4 DEF Inv
<1>2. CASE UNCHANGED vars
  <2>1. /\ UNCHANGED <<slot, alloc_id, pipe, checkctrl, ev, pc, doomed>>
        /\ UNCHANGED <<at, job, reserving, accepted, closes, opened, calls, failed>>
    BY <1>2 DEF vars, sockVars, sendVars, history
  <2>2. Types'
    BY <2>1 DEF Inv, Types, ThreadTypes, SenderTypes, Numbered, Packets
  <2>3. Placed' /\ Sent' /\ Tickets' /\ OpenFirst'
    BY <2>1 DEF Inv, Placed, SlotPlaced, Use, HalfReserved, Awaited, Asked, Sent, Tickets,
       Ticketed, OpenFirst, send_buffer_empty
  <2>4. Forced' /\ Counted' /\ ClosesCounted'
    BY <2>1 DEF Inv, Forced, Counted, Requests, Sends, ClosesCounted, Live, Use, HalfReserved
  <2>5. PendingIsWatched' /\ Assertions'
    BY <2>1 DEF Inv, PendingIsWatched, Live, Assertions, send_buffer_empty
  <2>. QED BY <2>2, <2>3, <2>4, <2>5 DEF Inv
<1>. QED
  BY <1>1, <1>2

\* The inductive invariant.  Like the theorems below it is about the behaviours in
\* which no command with the old id of a slot is taken between the two steps in which
\* reserve_id sets the slot's type and its id (Crosses); with such a command,
\* send_socket fills the lists of a reserved slot and close_socket raises SOCKET_CLOSE
\* for it again.
THEOREM Invariant == QuietSpec => []Inv
<1>. QED
  BY InitInv, NextInv, PTL DEF QuietSpec

\* No assertion of new_fd and dec_sending_ref ever fails: the command that opens an
\* id finds its slot reserved and its lists empty, an accepted connection finds them
\* empty, and a packet that comes out of the pipe has been counted, unless a command
\* with the old id of a slot comes between the type and the id of its reservation.
THEOREM AssertionsNeverFail == QuietSpec => []AssertionsHold
<1>1. Inv => AssertionsHold
  BY DEF Inv, Assertions, AssertionsHold
<1>. QED
  BY <1>1, Invariant, PTL

\* SOCKET_CLOSE is raised at most once for an id, by close_read or at the end of
\* force_close, and exactly once for a connection that was opened and is gone, unless
\* a command with the old id of a slot comes between the type and the id of its
\* reservation.
THEOREM ClosesOnce == QuietSpec => []CloseOnce
<1>1. Inv => CloseOnce
  <2>. SUFFICES ASSUME Inv, NEW id \in Id
                PROVE  /\ closes[id] <= 1
                       /\ Live(id) => (closes[id] = 1 <=> slot[HASH_ID(id)].type = "HALFCLOSE_READ")
                       /\ id \in opened /\ ~Live(id) => closes[id] = 1
    BY DEF CloseOnce
  <2>1. HASH_ID(id) \in Slot
    BY HashType DEF Id
  <2>2. Live(id) => (closes[id] = 1 <=> slot[HASH_ID(id)].type = "HALFCLOSE_READ")
    BY <2>1 DEF Live, Inv, ClosesCounted, Dead
  <2>. QED BY <2>2 DEF Inv, ClosesCounted
<1>. QED
  BY <1>1, Invariant, PTL

\* s->sending of a live socket is the number of its packets between inc_sending_ref
\* and the end of their send command, never above its limit; fields keep their types.
\* For the behaviours of QuietSpec: no command on an old id inside reserve_id.
THEOREM SendingIsCount == QuietSpec => []SendingCounted
<1>1. Inv => TypeOK
  BY DEF Inv, Types, ThreadTypes, SenderTypes, Record, Place, TypeOK
<1>2. Inv => SendingCounted
  <2>. SUFFICES ASSUME Inv, NEW id \in Id, Live(id)
                PROVE  slot[HASH_ID(id)].sending =
                           Cardinality(Requests(id)) + Cardinality(Sends(id))
    BY <1>1 DEF SendingCounted, Requests, Sends
  <2>1. PICK k \in Slot : k = HASH_ID(id)
    BY HashType DEF Id
  <2>2. slot[k].id = id /\ slot[k].protocol = "TCP"
    BY <2>1 DEF Live, Inv, Placed, SlotPlaced, Dead
  <2>. QED BY <2>1, <2>2 DEF Inv, Counted
<1>. QED
  BY <1>2, Invariant, PTL

\* Data that waits on a live socket is watched: the write event is enabled, or the
\* trigger command of the direct write that left it is on its way.
\* For the behaviours of QuietSpec: no command on an old id inside reserve_id.
THEOREM PendingWatched == QuietSpec => []PendingIsWatched
<1>1. Inv => PendingIsWatched
  BY DEF Inv
<1>. QED
  BY <1>1, Invariant, PTL

-----------------------------------------------------------------------------
(* Lemmas about the line of packets. *)

\* A set of natural numbers that is not empty has a least element.
LEMMA LeastElement ==
    ASSUME NEW X \in SUBSET Nat, X # {}
    PROVE  \E x \in X : \A y \in X : x <= y
<1>. DEFINE T == {0..x : x \in X}
            R == StrictSubsetOrdering(Nat)
<1>1. T \subseteq FiniteSubsetsOf(Nat) /\ T # {}
  <2>1. ASSUME NEW x \in X PROVE 0..x \in SUBSET Nat /\ IsFiniteSet(0..x)
    BY FS_Interval
  <2>. QED BY <2>1 DEF FiniteSubsetsOf
<1>2. PICK t \in T : \A u \in T : <<u, t>> \notin R
  <2>1. IsWellFoundedOn(R, FiniteSubsetsOf(Nat))
    BY FS_StrictSubsetOrderingWellFounded
  <2>. HIDE DEF T, R
  <2>. QED BY <1>1, <2>1, WFMin
<1>3. PICK x \in X : t = 0..x
  BY <1>2
<1>4. ASSUME NEW y \in X, y < x PROVE FALSE
  <2>1. 0..y \in T /\ 0..y \subseteq Nat /\ 0..x \subseteq Nat
    OBVIOUS
  <2>2. x \in 0..x /\ x \notin 0..y
    BY <1>4
  <2>3. 0..y \subseteq 0..x
    BY <1>4
  <2>4. <<0..y, 0..x>> \in R
    BY <2>1, <2>2, <2>3 DEF StrictSubsetOrdering
  <2>. QED BY <1>2, <1>3, <2>1, <2>4
<1>. QED BY <1>4, SMT

\* What holds of 0, and of i when it holds of i - 1, holds along 0..L.
LEMMA Along ==
    ASSUME NEW L \in Nat, NEW X, 0 \in X, \A i \in 1..L : i - 1 \in X => i \in X
    PROVE  0..L \subseteq X
<1>1. SUFFICES ASSUME (0..L) \ X # {} PROVE FALSE
  OBVIOUS
<1>2. PICK i \in (0..L) \ X : \A j \in (0..L) \ X : i <= j
  <2>1. (0..L) \ X \in SUBSET Nat
    OBVIOUS
  <2>. QED BY <1>1, <2>1, LeastElement
<1>3. i \in 1..L /\ i - 1 \in 0..L
  BY <1>2
<1>4. i - 1 \in X
  BY <1>2, <1>3
<1>. QED BY <1>2, <1>3, <1>4

\* A function that is defined along an interval exists.
Recursive(V, base, L, step) ==
    \E G \in [0..L -> V] : G[0] = base /\ \A i \in 1..L : G[i] = step[<<G[i - 1], i>>]

\* A function that a step determines from one index to the next exists.
LEMMA Recursion ==
    ASSUME NEW V, NEW base \in V, NEW L \in Nat, NEW step,
           \A v \in V : \A i \in 1..L : step[<<v, i>>] \in V
    PROVE  Recursive(V, base, L, step)
<1>. DEFINE Upto(G, m) == \A i \in 1..m : G[i] = step[<<G[i - 1], i>>]
            X == {m \in 0..L : \E G \in [0..L -> V] : G[0] = base /\ Upto(G, m)}
<1>1. 0 \in X
  <2>1. PICK G \in [0..L -> V] : G = [i \in 0..L |-> base]
    OBVIOUS
  <2>2. G[0] = base /\ Upto(G, 0)
    BY <2>1
  <2>. HIDE DEF Upto
  <2>. QED BY <2>2
<1>2. ASSUME NEW m \in 1..L, m - 1 \in X PROVE m \in X
  <2>1. PICK G \in [0..L -> V] : G[0] = base /\ Upto(G, m - 1)
    BY <1>2
  <2>. DEFINE H == [G EXCEPT ![m] = step[<<G[m - 1], m>>]]
  <2>2. G[m - 1] \in V /\ step[<<G[m - 1], m>>] \in V
    <3>1. m - 1 \in 0..L
      OBVIOUS
    <3>. QED BY <3>1
  <2>3. H \in [0..L -> V] /\ H[0] = base
    BY <2>1, <2>2
  <2>4. ASSUME NEW i \in 1..m PROVE H[i] = step[<<H[i - 1], i>>]
    <3>1. H[i - 1] = G[i - 1]
      OBVIOUS
    <3>2. CASE i = m
      BY <3>1, <3>2
    <3>3. CASE i # m
      <4>1. i \in 1..(m - 1) /\ H[i] = G[i]
        BY <3>3
      <4>. QED BY <2>1, <3>1, <4>1
    <3>. QED BY <3>2, <3>3
  <2>5. Upto(H, m)
    BY <2>4
  <2>. HIDE DEF Upto, H
  <2>. QED BY <2>3, <2>5
<1>3. L \in X
  <2>. HIDE DEF X
  <2>. QED BY <1>1, <1>2, Along
<1>. QED BY <1>3 DEF Recursive

-----------------------------------------------------------------------------
(* Packets, what is written of them and the lists in which they wait.      *)

\* A sequence and one more element.
LEMMA AppendFacts ==
    ASSUME NEW V, NEW q \in Seq(V), NEW e \in V
    PROVE  /\ Append(q, e) \in Seq(V) /\ Len(q) \in Nat
           /\ Len(Append(q, e)) = Len(q) + 1
           /\ Append(q, e)[Len(q) + 1] = e
           /\ \A i \in 1..Len(q) : Append(q, e)[i] = q[i]
  BY AppendProperties, LenProperties

\* Even and odd numbers take turns.
LEMMA Parity ==
    ASSUME NEW n \in Nat
    PROVE  /\ n % 2 \in {0, 1}
           /\ n % 2 = 0 <=> (n + 1) % 2 = 1
           /\ n % 2 = 1 <=> (n + 1) % 2 = 0
  OBVIOUS

\* Packets and their numbers.
LEMMA PrecedesFacts ==
    ASSUME NEW p \in Packet, NEW q \in Packet
    PROVE  /\ p.no \in Int /\ q.no \in Int
           /\ Precedes(p, q) => ~Precedes(q, p) /\ p # q
  BY DEF Packet, Precedes

\* The next byte that is written: v is w and then a byte of p.
LEMMA OneMoreByte ==
    ASSUME NEW w \in Seq(Packet), NEW p \in Packet, NEW v, v = Append(w, p),
           NEW acc \in SUBSET Packet, Ordered(w, acc), p \in acc,
           (Len(w) + 1) % 2 = 0 => Len(w) > 0 /\ w[Len(w)] = p,
           (Len(w) + 1) % 2 = 1 => ~Wrote(w, p),
           \A r \in acc : Precedes(r, p) => Wrote(w, r)
    PROVE  Ordered(v, acc)
<1>. DEFINE n == Len(w)
<1>1. /\ n \in Nat /\ Len(v) = n + 1 /\ v[n + 1] = p
      /\ \A i \in 1..n : v[i] = w[i]
  BY AppendFacts
<1>2. ASSUME NEW j \in 1..(n + 1) PROVE j \in 1..n \/ j = n + 1
  BY <1>1
<1>3. \A j \in 1..(n + 1) : v[j] \in acc
  BY <1>1, <1>2 DEF Ordered
<1>4. ASSUME NEW j \in 1..(n + 1), j % 2 = 0 PROVE v[j] = v[j - 1]
  <2>1. CASE j \in 1..n
    <3>1. j - 1 \in 1..n
      BY <1>1, <1>4, <2>1
    <3>. QED BY <1>1, <1>4, <2>1, <3>1 DEF Ordered
  <2>2. CASE j = n + 1
    <3>1. n \in 1..n /\ j - 1 = n
      BY <1>1, <1>4, <2>2
    <3>. QED BY <1>1, <1>4, <2>2, <3>1
  <2>. QED BY <1>2, <2>1, <2>2
<1>5. ASSUME NEW j \in 1..(n + 1), j % 2 = 1, NEW i \in 1..(j - 1) PROVE v[i] # v[j]
  <2>1. i \in 1..n
    BY <1>1
  <2>2. CASE j \in 1..n
    BY <1>1, <1>5, <2>1, <2>2 DEF Ordered
  <2>3. CASE j = n + 1
    BY <1>1, <1>5, <2>1, <2>3 DEF Wrote
  <2>. QED BY <1>2, <2>2, <2>3
<1>6. ASSUME NEW j \in 1..(n + 1), NEW r \in acc, Precedes(r, v[j])
      PROVE  \E i \in 1..(j - 1) : v[i] = r
  <2>1. \A i \in 1..(j - 1) : i \in 1..n
    BY <1>1
  <2>2. CASE j \in 1..n
    <3>1. PICK i \in 1..(j - 1) : w[i] = r
      BY <1>1, <1>6, <2>2 DEF Ordered
    <3>. QED BY <1>1, <2>1, <3>1
  <2>3. CASE j = n + 1
    <3>1. PICK i \in 1..n : w[i] = r
      BY <1>1, <1>6, <2>3 DEF Wrote
    <3>2. i \in 1..(j - 1)
      BY <1>1, <2>3
    <3>. QED BY <1>1, <3>1, <3>2
  <2>. QED BY <1>2, <2>2, <2>3
<1>. HIDE DEF n
<1>. QED BY <1>1, <1>3, <1>4, <1>5, <1>6 DEF Ordered

\* The packets of acc, those that are written and those that wait.
InLine(w, q, acc) ==
    w \in Seq(Packet) /\ q \in Seq(Buffer) /\ Ordered(w, acc) /\ Lined(w, q, acc)

\* v begins with w.
Extends(w, v) == Len(w) <= Len(v) /\ \A i \in 1..Len(w) : v[i] = w[i]

\* Whether p is in the lists or has left them.
There(w, q, p) == Wrote(w, p) \/ Waits(q, p)

\* Something of what waits has been written.
Onward(w, q, v, s, acc) ==
    /\ InLine(v, s, acc) /\ Extends(w, v)
    /\ \A p : There(v, s, p) <=> There(w, q, p)

\* The first byte of the packet in front.
LEMMA FirstByte ==
    ASSUME NEW w, NEW q, NEW acc \in SUBSET Packet, InLine(w, q, acc),
           Len(q) > 0, q[1].off = 0,
           NEW v, v = Append(w, q[1].p), NEW s, s = [q EXCEPT ![1].off = 1]
    PROVE  Onward(w, q, v, s, acc)
<1>0. w \in Seq(Packet) /\ q \in Seq(Buffer) /\ Ordered(w, acc) /\ Lined(w, q, acc)
  BY DEF InLine
<1>. USE <1>0
<1>1. Len(w) \in Nat /\ Len(q) \in Nat /\ 1 \in 1..Len(q) /\ q[1] \in Buffer
  BY LenProperties, ElementOfSeq
<1>2. PICK b \in Buffer : b = q[1]
  BY <1>1
<1>3. PICK p \in Packet : p = b.p
  BY DEF Buffer
<1>4. PICK c \in Buffer : c = [b EXCEPT !.off = 1]
  <2>1. [b EXCEPT !.off = 1] \in Buffer
    BY DEF Buffer
  <2>. QED BY <2>1
<1>5. c.p = p /\ c.off = 1
  BY <1>3, <1>4 DEF Buffer
<1>6. /\ s \in Seq(Buffer) /\ Len(s) = Len(q) /\ s[1] = c
      /\ \A i \in 1..Len(q) : i # 1 => s[i] = q[i]
  <2>1. s = [q EXCEPT ![1] = c]
    BY <1>2, <1>4
  <2>2. /\ [q EXCEPT ![1] = c] \in Seq(Buffer) /\ Len([q EXCEPT ![1] = c]) = Len(q)
        /\ \A i \in 1..Len(q) : [q EXCEPT ![1] = c][i] = IF i = 1 THEN c ELSE q[i]
    BY <1>1, ExceptSeq
  <2>. QED BY <1>1, <2>1, <2>2
<1>7. \A i \in 1..Len(q) : s[i].p = q[i].p
  BY <1>2, <1>3, <1>5, <1>6
<1>8. /\ v \in Seq(Packet) /\ Len(v) = Len(w) + 1 /\ v[Len(w) + 1] = p
      /\ \A i \in 1..Len(w) : v[i] = w[i]
  BY <1>2, <1>3, AppendFacts
<1>9. Len(w) % 2 = 0 /\ p \in acc /\ ~Wrote(w, p)
  BY <1>1, <1>2, <1>3 DEF Lined
<1>10. \A r \in acc : Precedes(r, p) => Wrote(w, r)
  <2>. SUFFICES ASSUME NEW r \in acc, Precedes(r, p), ~Wrote(w, r) PROVE FALSE
    OBVIOUS
  <2>1. PICK i \in 1..Len(q) : q[i].p = r
    BY <1>1, <1>2, <1>3 DEF Lined, Waits
  <2>2. i # 1
    BY <1>2, <1>3, <2>1, PrecedesFacts
  <2>3. i \in 1..Len(q) /\ 1 \in 1..Len(q) /\ 1 < i
    BY <1>1, <2>1, <2>2
  <2>4. ~Precedes(q[i].p, q[1].p)
    BY <2>3 DEF Lined
  <2>. QED BY <1>2, <1>3, <2>1, <2>4
<1>11. Ordered(v, acc)
  <2>a. (Len(w) + 1) % 2 = 1
    BY <1>1, <1>9, Parity
  <2>1. (Len(w) + 1) % 2 # 0
    BY <2>a
  <2>2. v = Append(w, p)
    BY <1>2, <1>3
  <2>. QED BY <1>9, <1>10, <2>1, <2>2, OneMoreByte
<1>12. \A r : Wrote(v, r) <=> Wrote(w, r) \/ r = p
  <2>1. \A i \in 1..Len(v) : i \in 1..Len(w) \/ i = Len(w) + 1
    BY <1>1, <1>8
  <2>2. Len(w) + 1 \in 1..Len(v) /\ \A i \in 1..Len(w) : i \in 1..Len(v)
    BY <1>1, <1>8
  <2>. QED BY <1>8, <2>1, <2>2 DEF Wrote
<1>13. Lined(v, s, acc)
  <2>1. \A i \in 1..Len(s) : s[i].p \in acc /\ (i # 1 => s[i].off = 0)
    BY <1>6, <1>7 DEF Lined
  <2>2. \A i \in 1..Len(s) : s[i].off = 0 => ~Wrote(v, s[i].p)
    <3>. SUFFICES ASSUME NEW i \in 1..Len(s), s[i].off = 0 PROVE ~Wrote(v, s[i].p)
      OBVIOUS
    <3>1. i # 1 /\ q[i].off = 0
      BY <1>5, <1>6
    <3>a. i \in 1..Len(q) /\ 1 \in 1..Len(q) /\ 1 < i
      BY <1>1, <1>6, <3>1
    <3>2. q[i].p # p
      BY <1>2, <1>3, <3>a DEF Lined
    <3>3. ~Wrote(w, q[i].p)
      BY <3>1, <3>a DEF Lined
    <3>. QED BY <1>7, <1>12, <3>2, <3>3, <3>a
  <2>3. \A i, j \in 1..Len(s) : i < j => s[i].p # s[j].p /\ ~Precedes(s[j].p, s[i].p)
    BY <1>6, <1>7 DEF Lined
  <2>4. Len(s) > 0 /\ Len(v) % 2 = s[1].off /\ Len(v) > 0 /\ v[Len(v)] = s[1].p
    <3>1. (Len(w) + 1) % 2 = 1
      BY <1>1, <1>9, Parity
    <3>2. Len(v) % 2 = 1 /\ Len(v) > 0
      BY <1>1, <1>8, <3>1
    <3>. QED BY <1>1, <1>5, <1>6, <1>8, <3>2
  <2>5. \A r \in acc : \/ Wrote(v, r) \/ Waits(s, r)
                       \/ \A i \in 1..Len(s) : ~Precedes(r, s[i].p)
    BY <1>6, <1>7, <1>12 DEF Lined, Waits
  <2>6. ~(Len(s) = 0)
    BY <1>6
  <2>7. Len(s) = 0 => Len(v) % 2 = 0
    BY <2>6
  <2>. HIDE DEF Wrote, Waits, Precedes
  <2>. QED BY <2>1, <2>2, <2>3, <2>4, <2>5, <2>7 DEF Lined
<1>14. ASSUME NEW r PROVE There(v, s, r) <=> There(w, q, r)
  <2>1. Waits(s, r) <=> Waits(q, r)
    BY <1>6, <1>7 DEF Waits
  <2>2. Waits(q, p)
    BY <1>1, <1>2, <1>3 DEF Waits
  <2>. QED BY <1>12, <2>1, <2>2 DEF There
<1>15. Extends(w, v)
  BY <1>1, <1>8 DEF Extends
<1>. QED BY <1>6, <1>8, <1>11, <1>13, <1>14, <1>15 DEF Onward, InLine

\* The second byte of the packet in front.
LEMMA SecondByte ==
    ASSUME NEW w, NEW q, NEW acc \in SUBSET Packet, InLine(w, q, acc),
           Len(q) > 0, q[1].off = 1,
           NEW v, v = Append(w, q[1].p), NEW s, s = Tail(q)
    PROVE  Onward(w, q, v, s, acc)
<1>0. w \in Seq(Packet) /\ q \in Seq(Buffer) /\ Ordered(w, acc) /\ Lined(w, q, acc)
  BY DEF InLine
<1>. USE <1>0
<1>1. Len(w) \in Nat /\ Len(q) \in Nat /\ 1 \in 1..Len(q) /\ q[1] \in Buffer
  BY LenProperties, ElementOfSeq
<1>2. PICK p \in Packet : p = q[1].p
  BY <1>1 DEF Buffer
<1>3. /\ s \in Seq(Buffer) /\ Len(s) = Len(q) - 1
      /\ \A i \in 1..Len(s) : s[i] = q[i + 1] /\ i + 1 \in 1..Len(q) /\ i + 1 # 1
  BY <1>1, HeadTailProperties, EmptySeq
<1>4. /\ v \in Seq(Packet) /\ Len(v) = Len(w) + 1 /\ v[Len(w) + 1] = p
      /\ \A i \in 1..Len(w) : v[i] = w[i]
  BY <1>2, AppendFacts
<1>5. Len(w) % 2 = 1 /\ Len(w) > 0 /\ w[Len(w)] = p /\ p \in acc
  BY <1>1, <1>2 DEF Lined
<1>6. Wrote(w, p)
  BY <1>1, <1>5 DEF Wrote
<1>7. \A r \in acc : Precedes(r, p) => Wrote(w, r)
  <2>. SUFFICES ASSUME NEW r \in acc, Precedes(r, p), ~Wrote(w, r) PROVE FALSE
    OBVIOUS
  <2>1. PICK i \in 1..Len(q) : q[i].p = r
    BY <1>1, <1>2 DEF Lined, Waits
  <2>2. i # 1
    BY <1>2, <2>1, PrecedesFacts
  <2>3. i \in 1..Len(q) /\ 1 \in 1..Len(q) /\ 1 < i
    BY <1>1, <2>1, <2>2
  <2>4. ~Precedes(q[i].p, q[1].p)
    BY <2>3 DEF Lined
  <2>. QED BY <1>2, <2>1, <2>4
<1>8. Ordered(v, acc)
  <2>a. (Len(w) + 1) % 2 = 0
    BY <1>1, <1>5, Parity
  <2>1. (Len(w) + 1) % 2 # 1
    BY <2>a
  <2>2. v = Append(w, p)
    BY <1>2
  <2>. QED BY <1>5, <1>7, <2>1, <2>2, OneMoreByte
<1>9. \A r : Wrote(v, r) <=> Wrote(w, r)
  <2>1. \A i \in 1..Len(v) : i \in 1..Len(w) \/ i = Len(w) + 1
    BY <1>1, <1>4
  <2>2. \A i \in 1..Len(w) : i \in 1..Len(v)
    BY <1>1, <1>4
  <2>. QED BY <1>4, <1>6, <2>1, <2>2 DEF Wrote
<1>10. Lined(v, s, acc)
  <2>1. \A i \in 1..Len(s) : s[i].p \in acc /\ s[i].off = 0 /\ ~Wrote(v, s[i].p)
    BY <1>3, <1>9 DEF Lined
  <2>2. \A i, j \in 1..Len(s) : i < j => s[i].p # s[j].p /\ ~Precedes(s[j].p, s[i].p)
    BY <1>3 DEF Lined
  <2>3. Len(v) % 2 = 0
    BY <1>1, <1>4, <1>5, Parity
  <2>4. Len(s) > 0 => 1 \in 1..Len(s)
    BY <1>1, <1>3
  <2>5. ASSUME NEW r \in acc
        PROVE  \/ Wrote(v, r) \/ Waits(s, r)
               \/ \A i \in 1..Len(s) : ~Precedes(r, s[i].p)
    <3>1. CASE Wrote(w, r)
      BY <1>9, <3>1
    <3>2. CASE ~Wrote(w, r) /\ Waits(q, r)
      <4>1. PICK i \in 1..Len(q) : q[i].p = r
        BY <3>2 DEF Waits
      <4>2. i # 1
        BY <1>2, <1>6, <3>2, <4>1
      <4>3. i - 1 \in 1..Len(s) /\ s[i - 1] = q[i - 1 + 1] /\ i - 1 + 1 = i
        BY <1>1, <1>3, <4>1, <4>2
      <4>. QED BY <4>1, <4>3 DEF Waits
    <3>3. CASE \A i \in 1..Len(q) : ~Precedes(r, q[i].p)
      BY <1>3, <3>3
    <3>. QED BY <3>1, <3>2, <3>3 DEF Lined
  <2>. QED BY <2>1, <2>2, <2>3, <2>4, <2>5 DEF Lined
<1>11. ASSUME NEW r PROVE There(v, s, r) <=> There(w, q, r)
  <2>1. Waits(s, r) => Waits(q, r)
    BY <1>3 DEF Waits
  <2>2. ASSUME Waits(q, r), r # p PROVE Waits(s, r)
    <3>1. PICK i \in 1..Len(q) : q[i].p = r
      BY <2>2 DEF Waits
    <3>2. i # 1
      BY <1>2, <2>2, <3>1
    <3>3. i - 1 \in 1..Len(s) /\ s[i - 1] = q[i - 1 + 1] /\ i - 1 + 1 = i
      BY <1>1, <1>3, <3>1, <3>2
    <3>. QED BY <3>1, <3>3 DEF Waits
  <2>. QED BY <1>6, <1>9, <2>1, <2>2 DEF There
<1>12. Extends(w, v)
  BY <1>1, <1>4 DEF Extends
<1>. QED BY <1>3, <1>4, <1>8, <1>10, <1>11, <1>12 DEF Onward, InLine

\* Two steps onward are one.
LEMMA OnwardTwice ==
    ASSUME NEW w \in Seq(Packet), NEW q, NEW v, NEW s, NEW u, NEW r, NEW acc,
           Onward(w, q, v, s, acc), Onward(v, s, u, r, acc)
    PROVE  Onward(w, q, u, r, acc)
<1>1. Len(w) \in Nat /\ Len(v) \in Nat /\ Len(u) \in Nat
  BY LenProperties DEF Onward, InLine
<1>2. Extends(w, u)
  BY <1>1 DEF Onward, Extends
<1>. QED BY <1>2 DEF Onward

\* No step at all is one.
LEMMA OnwardNone ==
    ASSUME NEW w, NEW q, NEW acc, InLine(w, q, acc)
    PROVE  Onward(w, q, w, q, acc)
<1>1. Len(w) \in Nat
  BY LenProperties DEF InLine
<1>. QED BY <1>1 DEF Onward, Extends

\* What of the packet in front has not been written.
Rest(b) == [j \in 1..(2 - b.off) |-> b.p]

\* The bytes of a buffer that are not written yet: one or two of its packet.
LEMMA RestFacts ==
    ASSUME NEW b \in Buffer, NEW w \in Seq(Packet)
    PROVE  /\ Rest(b) \in Seq(Packet)
           /\ b.off = 0 => w \o Rest(b) = Append(Append(w, b.p), b.p)
           /\ b.off = 1 => w \o Rest(b) = Append(w, b.p)
<1>1. b.off \in {0, 1} /\ b.p \in Packet
  BY DEF Buffer
<1>2. Rest(b) = IF b.off = 0 THEN <<b.p, b.p>> ELSE <<b.p>>
  <2>1. CASE b.off = 0
    <3>1. Rest(b) = [j \in 1..2 |-> b.p]
      BY <2>1 DEF Rest
    <3>. QED BY <2>1, <3>1
  <2>2. CASE b.off = 1
    <3>1. Rest(b) = [j \in 1..1 |-> b.p]
      BY <2>2 DEF Rest
    <3>. QED BY <2>2, <3>1
  <2>. QED BY <1>1, <2>1, <2>2
<1>3. PICK p \in Packet : p = b.p
  BY <1>1
<1>4. <<p>> \in Seq(Packet) /\ <<p, p>> = <<p>> \o <<p>>
  OBVIOUS
<1>5. Append(w, p) = w \o <<p>> /\ Append(w, p) \in Seq(Packet)
  BY AppendIsConcat, AppendProperties
<1>6. Append(Append(w, p), p) = (w \o <<p>>) \o <<p>>
  BY <1>5, AppendIsConcat
<1>7. (w \o <<p>>) \o <<p>> = w \o (<<p>> \o <<p>>)
  BY <1>4, ConcatAssociative
<1>8. <<p, p>> \in Seq(Packet)
  OBVIOUS
<1>. QED BY <1>1, <1>2, <1>3, <1>4, <1>5, <1>6, <1>7, <1>8

\* A packet that is written to its end.
LEMMA Whole ==
    ASSUME NEW w, NEW q, NEW acc \in SUBSET Packet, InLine(w, q, acc), Len(q) > 0
    PROVE  Onward(w, q, w \o Rest(q[1]), Tail(q), acc)
<1>1. w \in Seq(Packet) /\ q \in Seq(Buffer) /\ Len(q) \in Nat
  BY LenProperties DEF InLine
<1>2. 1 \in 1..Len(q)
  BY <1>1
<1>3. PICK b \in Buffer : b = q[1]
  BY <1>1, <1>2, ElementOfSeq
<1>4. b.off \in {0, 1} /\ b.p \in Packet
  BY DEF Buffer
<1>5. CASE b.off = 1
  <2>1. w \o Rest(b) = Append(w, b.p)
    BY <1>1, <1>5, RestFacts
  <2>. QED BY <1>3, <1>5, <2>1, SecondByte
<1>6. CASE b.off = 0
  <2>1. PICK c : c = [b EXCEPT !.off = 1]
    OBVIOUS
  <2>2. c \in Buffer /\ c.p = b.p /\ c.off = 1
    BY <2>1 DEF Buffer
  <2>3. PICK s : s = [q EXCEPT ![1].off = 1]
    OBVIOUS
  <2>4. s = [q EXCEPT ![1] = c]
    BY <1>3, <2>1, <2>3
  <2>5. /\ s \in Seq(Buffer) /\ Len(s) = Len(q)
        /\ \A i \in 1..Len(q) : s[i] = IF i = 1 THEN c ELSE q[i]
    <3>1. /\ [q EXCEPT ![1] = c] \in Seq(Buffer) /\ Len([q EXCEPT ![1] = c]) = Len(q)
          /\ \A i \in 1..Len(q) : [q EXCEPT ![1] = c][i] = IF i = 1 THEN c ELSE q[i]
      BY <1>1, <1>2, <2>2, ExceptSeq
    <3>. QED BY <2>4, <3>1
  <2>6. Tail(s) = Tail(q)
    <3>1. q # <<>> /\ s # <<>>
      BY <1>1, <1>2, <2>5, EmptySeq
    <3>2. /\ Tail(q) \in Seq(Buffer) /\ Len(Tail(q)) = Len(q) - 1
          /\ \A i \in 1..Len(Tail(q)) : Tail(q)[i] = q[i + 1]
      BY <1>1, <3>1, HeadTailProperties
    <3>3. /\ Tail(s) \in Seq(Buffer) /\ Len(Tail(s)) = Len(q) - 1
          /\ \A i \in 1..Len(Tail(s)) : Tail(s)[i] = s[i + 1]
      BY <2>5, <3>1, HeadTailProperties
    <3>4. \A i \in 1..Len(Tail(s)) : Tail(s)[i] = Tail(q)[i]
      BY <1>1, <2>5, <3>2, <3>3
    <3>. QED BY <3>2, <3>3, <3>4, SeqEqual
  <2>7. PICK v : v = Append(w, b.p)
    OBVIOUS
  <2>8. Onward(w, q, v, s, acc)
    BY <1>1, <1>2, <1>3, <1>6, <2>3, <2>7, FirstByte
  <2>9. s[1] = c /\ Len(s) > 0
    BY <1>2, <2>5
  <2>10. Onward(v, s, Append(v, b.p), Tail(s), acc)
    BY <2>2, <2>8, <2>9, SecondByte DEF Onward
  <2>11. w \o Rest(b) = Append(v, b.p)
    BY <1>1, <1>6, <2>7, RestFacts
  <2>. QED BY <1>1, <1>3, <2>6, <2>8, <2>10, <2>11, OnwardTwice
<1>. QED BY <1>3, <1>4, <1>5, <1>6

\* Three pieces of the wire.
LEMMA ConcatBytes ==
    ASSUME NEW w \in Seq(Packet), NEW f \in Seq(Packet), NEW c \in Seq(Packet)
    PROVE  (w \o f) \o c = w \o (f \o c)
  BY ConcatAssociative

\* The first index.
LEMMA FirstIndex ==
    ASSUME NEW n \in Nat \ {0}
    PROVE  1 \in 1..n /\ 1 - 1 = 0
  OBVIOUS

\* FlattenSeq, step by step.
LEMMA FlattenSteps ==
    ASSUME NEW n \in Nat \ {0}, NEW s \in [1..n -> Seq(Packet)]
    PROVE  \E F \in [0..n -> Seq(Packet)] :
               /\ F[0] = <<>> /\ \A i \in 1..n : F[i] = F[i - 1] \o s[i]
               /\ FlattenSeq(s) = F[n]
<1>. DEFINE V == Seq(Packet)
            step == [z \in V \X (1..n) |-> z[1] \o s[z[2]]]
            Eq(G) == G = [i \in 1..n |-> IF i = 1 THEN s[i] ELSE G[i - 1] \o s[i]]
<1>1. \A v \in V : \A i \in 1..n : step[<<v, i>>] = v \o s[i] /\ v \o s[i] \in V
  <2>1. ASSUME NEW v \in V, NEW i \in 1..n PROVE step[<<v, i>>] = v \o s[i] /\ v \o s[i] \in V
    <3>1. s[i] \in V
      OBVIOUS
    <3>2. v \o s[i] \in V
      BY <3>1, ConcatProperties
    <3>3. step[<<v, i>>] = v \o s[i]
      <4>. HIDE DEF V
      <4>. QED OBVIOUS
    <3>. QED BY <3>2, <3>3
  <2>. HIDE DEF step
  <2>. QED BY <2>1
<1>2. <<>> \in V
  BY EmptySeq
<1>3. PICK F \in [0..n -> V] : F[0] = <<>> /\ \A i \in 1..n : F[i] = step[<<F[i - 1], i>>]
  <2>. HIDE DEF V, step
  <2>1. Recursive(V, <<>>, n, step)
    BY <1>1, <1>2, Recursion
  <2>. QED BY <2>1 DEF Recursive
<1>4. \A i \in 1..n : i - 1 \in 0..n /\ F[i - 1] \in V /\ F[i] = F[i - 1] \o s[i]
  <2>1. \A i \in 1..n : i - 1 \in 0..n
    OBVIOUS
  <2>. HIDE DEF V, step
  <2>. QED BY <1>1, <1>3, <2>1
<1>5. F[1] = s[1]
  <2>. HIDE DEF V, step, Eq
  <2>1. 1 \in 1..n /\ 1 - 1 = 0
    BY FirstIndex, Zenon
  <2>2. F[1] = <<>> \o s[1]
    BY <1>3, <1>4, <2>1
  <2>. QED BY <2>1, <2>2, ConcatEmptySeq
<1>6. Eq([i \in 1..n |-> F[i]])
  <2>. DEFINE G == [i \in 1..n |-> F[i]]
  <2>1. ASSUME NEW i \in 1..n PROVE F[i] = IF i = 1 THEN s[i] ELSE G[i - 1] \o s[i]
    <3>1. CASE i = 1
      BY <1>5, <3>1
    <3>2. CASE i # 1
      <4>1. i - 1 \in 1..n
        BY <3>2
      <4>2. G[i - 1] = F[i - 1]
        BY <4>1
      <4>. QED BY <1>4, <3>2, <4>2
    <3>. QED BY <3>1, <3>2
  <2>. QED BY <2>1
<1>7. PICK G : G = CHOOSE H : Eq(H)
  OBVIOUS
<1>8. Eq(G)
  <2>. HIDE DEF Eq
  <2>. QED BY <1>6, <1>7
<1>9. FlattenSeq(s) = G[n]
  <2>1. Len(s) = n
    OBVIOUS
  <2>2. n # 0
    OBVIOUS
  <2>. QED BY <1>7, <2>1, <2>2 DEF FlattenSeq
<1>10. \A i \in 1..n : G[i] = IF i = 1 THEN s[i] ELSE G[i - 1] \o s[i]
  BY <1>8
<1>11. 0..n \subseteq {i \in 0..n : i = 0 \/ G[i] = F[i]}
  <2>. DEFINE X == {i \in 0..n : i = 0 \/ G[i] = F[i]}
  <2>1. 0 \in X
    OBVIOUS
  <2>2. ASSUME NEW i \in 1..n, i - 1 \in X PROVE i \in X
    <3>1. CASE i = 1
      BY <1>5, <1>10, <3>1
    <3>2. CASE i # 1
      <4>1. G[i - 1] = F[i - 1]
        BY <2>2, <3>2
      <4>2. G[i] = F[i]
        BY <1>4, <1>10, <3>2, <4>1
      <4>. QED BY <4>2
    <3>. QED BY <3>1, <3>2
  <2>. HIDE DEF X
  <2>3. n \in Nat
    OBVIOUS
  <2>4. 0..n \subseteq X
    BY <2>1, <2>2, <2>3, Along
  <2>. QED BY <2>4 DEF X
<1>12. G[n] = F[n]
  <2>1. n \in 0..n /\ n # 0
    OBVIOUS
  <2>. QED BY <1>11, <2>1
<1>. QED BY <1>3, <1>4, <1>9, <1>12

\* Pieces put one after the other are a sequence of packets.
LEMMA FlattenType ==
    ASSUME NEW n \in Nat, NEW s \in [1..n -> Seq(Packet)]
    PROVE  FlattenSeq(s) \in Seq(Packet)
<1>1. CASE n = 0
  <2>1. s = <<>> /\ Len(s) = 0
    BY <1>1, EmptySeq
  <2>2. FlattenSeq(s) = <<>>
    BY <2>1 DEF FlattenSeq
  <2>. QED BY <2>2, EmptySeq
<1>2. CASE n # 0
  <2>1. PICK F \in [0..n -> Seq(Packet)] : FlattenSeq(s) = F[n]
    BY <1>2, FlattenSteps
  <2>2. n \in 0..n
    OBVIOUS
  <2>. QED BY <2>1, <2>2
<1>. QED BY <1>1, <1>2

\* send_list writes packets.
LEMMA BytesType ==
    ASSUME NEW q \in Seq(Buffer), NEW n \in 0..Len(q), NEW part \in 0..1,
           part = 1 => n < Len(q)
    PROVE  /\ FlattenSeq([i \in 1..n |-> [j \in 1..(2 - q[i].off) |-> q[i].p]]) \in Seq(Packet)
           /\ [j \in 1..part |-> q[n + 1].p] \in Seq(Packet)
           /\ Bytes(q, n, part) \in Seq(Packet)
<1>1. Len(q) \in Nat /\ (\A i \in 1..Len(q) : q[i] \in Buffer) /\ n \in Nat
  BY LenProperties, ElementOfSeq
<1>2. [i \in 1..n |-> [j \in 1..(2 - q[i].off) |-> q[i].p]] \in [1..n -> Seq(Packet)]
  <2>1. ASSUME NEW i \in 1..n PROVE [j \in 1..(2 - q[i].off) |-> q[i].p] \in Seq(Packet)
    <3>1. q[i].p \in Packet /\ q[i].off \in 0..1
      BY <1>1 DEF Buffer
    <3>2. 2 - q[i].off \in Nat
      BY <3>1
    <3>. QED BY <3>1, <3>2
  <2>. QED BY <2>1
<1>3. PICK f \in Seq(Packet) :
        f = FlattenSeq([i \in 1..n |-> [j \in 1..(2 - q[i].off) |-> q[i].p]])
  BY <1>1, <1>2, FlattenType
<1>4. [j \in 1..part |-> q[n + 1].p] \in Seq(Packet)
  <2>1. ASSUME part = 1 PROVE q[n + 1].p \in Packet
    <3>1. n + 1 \in 1..Len(q)
      BY <1>1, <2>1
    <3>. QED BY <1>1, <3>1 DEF Buffer
  <2>2. part \in Nat
    OBVIOUS
  <2>3. \A j \in 1..part : q[n + 1].p \in Packet
    BY <2>1
  <2>. QED BY <2>2, <2>3
<1>5. PICK g \in Seq(Packet) : g = [j \in 1..part |-> q[n + 1].p]
  BY <1>4
<1>6. Bytes(q, n, part) = f \o g
  BY <1>3, <1>5 DEF Bytes
<1>. QED BY <1>3, <1>4, <1>6, ConcatProperties

\* What is left of q after n packets.
After(q, n) == SubSeq(q, n + 1, Len(q))

\* The elements of what is left of a list after n of them.
LEMMA AfterFacts ==
    ASSUME NEW q \in Seq(Buffer), NEW n \in 0..Len(q)
    PROVE  /\ After(q, n) \in Seq(Buffer) /\ Len(After(q, n)) = Len(q) - n
           /\ \A i \in 1..(Len(q) - n) : After(q, n)[i] = q[n + i]
           /\ n = 0 => After(q, n) = q
           /\ n > 0 => Tail(After(q, n - 1)) = After(q, n)
<1>1. Len(q) \in Nat /\ n + 1 \in Int /\ \A i \in (n + 1)..Len(q) : q[i] \in Buffer
  BY LenProperties, ElementOfSeq
<1>2. /\ SubSeq(q, n + 1, Len(q)) \in Seq(Buffer)
      /\ Len(SubSeq(q, n + 1, Len(q))) = IF n + 1 <= Len(q) THEN Len(q) - (n + 1) + 1 ELSE 0
      /\ \A i \in 1..(Len(q) - (n + 1) + 1) : SubSeq(q, n + 1, Len(q))[i] = q[n + 1 + i - 1]
  BY <1>1, SubSeqProperties
<1>3. /\ After(q, n) \in Seq(Buffer) /\ Len(After(q, n)) = Len(q) - n
      /\ \A i \in 1..(Len(q) - n) : After(q, n)[i] = q[n + i]
  <2>1. Len(After(q, n)) = Len(q) - n
    BY <1>1, <1>2 DEF After
  <2>2. ASSUME NEW i \in 1..(Len(q) - n) PROVE After(q, n)[i] = q[n + i]
    <3>1. i \in 1..(Len(q) - (n + 1) + 1) /\ n + 1 + i - 1 = n + i
      BY <1>1
    <3>. QED BY <1>2, <3>1 DEF After
  <2>. QED BY <1>2, <2>1, <2>2 DEF After
<1>4. n = 0 => After(q, n) = q
  BY SubSeqFull DEF After
<1>5. ASSUME n > 0 PROVE Tail(After(q, n - 1)) = After(q, n)
  <2>1. n \in 1..Len(q) /\ Len(q) \in n..Len(q) /\ n - 1 + 1 = n
    BY <1>1, <1>5
  <2>2. Tail(SubSeq(q, n, Len(q))) = SubSeq(q, n + 1, Len(q))
    BY <2>1, HeadTailOfSubSeq
  <2>. QED BY <2>1, <2>2 DEF After
<1>. QED BY <1>3, <1>4, <1>5

\* What n packets written completely, and one byte of the next when part = 1, leave.
Left(q, n, part) ==
    IF part = 0 THEN After(q, n) ELSE [After(q, n) EXCEPT ![1].off = 1]

\* send_list that writes n packets completely goes onward.
LEMMA DrainWhole ==
    ASSUME NEW w, NEW q, NEW acc \in SUBSET Packet, InLine(w, q, acc), NEW n \in 0..Len(q)
    PROVE  Onward(w, q,
               w \o FlattenSeq([i \in 1..n |-> [j \in 1..(2 - q[i].off) |-> q[i].p]]),
               After(q, n), acc)
<1>1. w \in Seq(Packet) /\ q \in Seq(Buffer) /\ Len(q) \in Nat /\ n \in Nat
  BY LenProperties DEF InLine
<1>2. CASE n = 0
  <2>. DEFINE s == [i \in 1..n |-> [j \in 1..(2 - q[i].off) |-> q[i].p]]
  <2>1. s = <<>>
    BY <1>2
  <2>2. Len(s) = 0
    BY <2>1, EmptySeq
  <2>3. FlattenSeq(s) = <<>>
    BY <2>1, <2>2 DEF FlattenSeq
  <2>4. w \o FlattenSeq(s) = w /\ After(q, n) = q
    BY <1>1, <1>2, <2>3, ConcatEmptySeq, AfterFacts
  <2>. HIDE DEF s
  <2>. QED BY <2>4, OnwardNone DEF s
<1>3. CASE n # 0
  <2>. DEFINE s == [i \in 1..n |-> Rest(q[i])]
  <2>1. \A i \in 1..n : i \in 1..Len(q) /\ q[i] \in Buffer /\ Rest(q[i]) \in Seq(Packet)
    <3>1. \A i \in 1..n : i \in 1..Len(q) /\ q[i] \in Buffer
      BY <1>1, ElementOfSeq
    <3>. QED BY <1>1, <3>1, RestFacts
  <2>2. s \in [1..n -> Seq(Packet)]
    BY <2>1
  <2>3. \A i \in 1..n : s[i] = Rest(q[i])
    OBVIOUS
  <2>4. s = [i \in 1..n |-> [j \in 1..(2 - q[i].off) |-> q[i].p]]
    BY DEF Rest
  <2>. HIDE DEF s
  <2>5. n \in Nat \ {0}
    BY <1>1, <1>3
  <2>6. PICK F \in [0..n -> Seq(Packet)] :
            /\ F[0] = <<>> /\ \A i \in 1..n : F[i] = F[i - 1] \o s[i]
            /\ FlattenSeq(s) = F[n]
    BY <2>2, <2>5, FlattenSteps
  <2>. DEFINE Good(i) == Onward(w, q, w \o F[i], After(q, i), acc)
              X == {i \in 0..n : Good(i)}
  <2>7. 0 \in X
    <3>1. 0 \in 0..Len(q) /\ 0 \in 0..n
      BY <1>1
    <3>2. w \o F[0] = w /\ After(q, 0) = q
      BY <1>1, <2>6, <3>1, ConcatEmptySeq, AfterFacts
    <3>3. Good(0)
      BY <3>2, OnwardNone
    <3>. HIDE DEF Good
    <3>. QED BY <3>1, <3>3
  <2>8. ASSUME NEW i \in 1..n, i - 1 \in X PROVE i \in X
    <3>1. /\ i - 1 \in 0..Len(q) /\ i \in 0..Len(q) /\ i \in 0..n /\ i - 1 \in 0..n
          /\ i \in 1..Len(q) /\ i > 0 /\ i \in Nat
      BY <1>1
    <3>2. PICK v : v = w \o F[i - 1]
      OBVIOUS
    <3>3. PICK t : t = After(q, i - 1)
      OBVIOUS
    <3>4. Onward(w, q, v, t, acc)
      BY <2>8, <3>2, <3>3
    <3>5. /\ Len(t) = Len(q) - (i - 1)
          /\ \A j \in 1..(Len(q) - (i - 1)) : t[j] = q[i - 1 + j]
          /\ Tail(t) = After(q, i)
      BY <1>1, <3>1, <3>3, AfterFacts
    <3>6. Len(t) > 0 /\ t[1] = q[i]
      <4>1. 1 \in 1..(Len(q) - (i - 1)) /\ i - 1 + 1 = i
        BY <1>1, <3>1
      <4>. QED BY <1>1, <3>1, <3>5, <4>1
    <3>7. Onward(v, t, v \o Rest(q[i]), After(q, i), acc)
      <4>1. InLine(v, t, acc)
        BY <3>4 DEF Onward
      <4>2. Onward(v, t, v \o Rest(t[1]), Tail(t), acc)
        BY <3>6, <4>1, Whole
      <4>. QED BY <3>5, <3>6, <4>2
    <3>8. v \o Rest(q[i]) = w \o F[i]
      <4>1. F[i - 1] \in Seq(Packet) /\ s[i] \in Seq(Packet) /\ F[i] = F[i - 1] \o s[i]
        BY <2>2, <2>6, <3>1
      <4>2. PICK f \in Seq(Packet), c \in Seq(Packet) : f = F[i - 1] /\ c = s[i]
        BY <4>1, Zenon
      <4>3. (w \o f) \o c = w \o (f \o c)
        <5>1. w \in Seq(Packet)
          BY <1>1
        <5>. QED BY <4>2, <5>1, ConcatBytes
      <4>. QED BY <2>3, <3>2, <4>1, <4>2, <4>3
    <3>9. Good(i)
      BY <1>1, <3>4, <3>7, <3>8, OnwardTwice
    <3>. HIDE DEF Good
    <3>. QED BY <3>1, <3>9
  <2>9. n \in X
    <3>. HIDE DEF X
    <3>1. 0..n \subseteq X
      BY <1>1, <2>7, <2>8, Along
    <3>2. n \in 0..n
      BY <1>1
    <3>. QED BY <3>1, <3>2
  <2>10. Onward(w, q, w \o FlattenSeq(s), After(q, n), acc)
    BY <2>6, <2>9
  <2>. QED BY <2>4, <2>10
<1>. QED BY <1>2, <1>3

\* send_list_tcp on the high list and then on the low one.
LEMMA Drain ==
    ASSUME NEW w, NEW q, NEW acc \in SUBSET Packet, InLine(w, q, acc),
           NEW n \in 0..Len(q), NEW part \in 0..1,
           part = 1 => n < Len(q) /\ q[n + 1].off = 0
    PROVE  Onward(w, q, w \o Bytes(q, n, part), Left(q, n, part), acc)
<1>1. w \in Seq(Packet) /\ q \in Seq(Buffer) /\ Len(q) \in Nat /\ n \in Nat
  BY LenProperties DEF InLine
<1>a. w \o Bytes(q, n, part) =
        w \o FlattenSeq([i \in 1..n |-> [j \in 1..(2 - q[i].off) |-> q[i].p]])
          \o [j \in 1..part |-> q[n + 1].p]
  <2>1. PICK f \in Seq(Packet) :
          f = FlattenSeq([i \in 1..n |-> [j \in 1..(2 - q[i].off) |-> q[i].p]])
    BY <1>1, BytesType
  <2>2. PICK g \in Seq(Packet) : g = [j \in 1..part |-> q[n + 1].p]
    BY <1>1, BytesType
  <2>3. (w \o f) \o g = w \o (f \o g)
    BY <1>1, ConcatAssociative
  <2>4. Bytes(q, n, part) = f \o g
    BY <2>1, <2>2 DEF Bytes
  <2>. QED BY <2>1, <2>2, <2>3, <2>4
<1>2. PICK v : v = w \o FlattenSeq([i \in 1..n |-> [j \in 1..(2 - q[i].off) |-> q[i].p]])
  OBVIOUS
<1>3. Onward(w, q, v, After(q, n), acc)
  BY <1>2, DrainWhole
<1>4. v \in Seq(Packet)
  BY <1>3 DEF Onward, InLine
<1>5. CASE part = 0
  <2>1. [j \in 1..part |-> q[n + 1].p] = <<>>
    BY <1>5
  <2>2. v \o <<>> = v
    BY <1>4, ConcatEmptySeq
  <2>3. Left(q, n, part) = After(q, n)
    BY <1>5 DEF Left
  <2>. QED BY <1>a, <1>2, <1>3, <2>1, <2>2, <2>3
<1>6. CASE part = 1
  <2>1. n + 1 \in 1..Len(q) /\ n < Len(q) /\ q[n + 1].off = 0
    BY <1>1, <1>6
  <2>2. PICK t : t = After(q, n)
    OBVIOUS
  <2>3. Len(t) > 0 /\ t[1] = q[n + 1]
    <3>1. Len(t) = Len(q) - n /\ \A i \in 1..(Len(q) - n) : t[i] = q[n + i]
      BY <1>1, <2>2, AfterFacts
    <3>2. 1 \in 1..(Len(q) - n)
      BY <1>1, <2>1
    <3>. QED BY <1>1, <2>1, <3>1, <3>2
  <2>4. PICK p \in Packet : p = q[n + 1].p
    <3>1. q[n + 1] \in Buffer
      BY <1>1, <2>1, ElementOfSeq
    <3>. QED BY <3>1 DEF Buffer
  <2>5. v \o [j \in 1..part |-> q[n + 1].p] = Append(v, p)
    <3>1. [j \in 1..part |-> q[n + 1].p] = <<p>>
      BY <1>6, <2>4
    <3>. QED BY <1>4, <3>1, AppendIsConcat
  <2>6. Left(q, n, part) = [t EXCEPT ![1].off = 1]
    BY <1>6, <2>2 DEF Left
  <2>7. Onward(v, t, Append(v, p), [t EXCEPT ![1].off = 1], acc)
    <3>1. InLine(v, t, acc) /\ t[1].off = 0 /\ p = t[1].p
      BY <1>3, <2>1, <2>2, <2>3, <2>4 DEF Onward
    <3>. QED BY <2>3, <3>1, FirstByte
  <2>8. Onward(w, q, Append(v, p), [t EXCEPT ![1].off = 1], acc)
    BY <1>1, <1>3, <2>2, <2>7, OnwardTwice
  <2>. QED BY <1>a, <1>2, <2>5, <2>6, <2>8
<1>. QED BY <1>a, <1>5, <1>6

\* s is q with the whole packet p inserted as the m-th, behind what is written in part.
Inserted(q, s, m, p) ==
    /\ m \in 1..(Len(q) + 1)
    /\ s \in Seq(Buffer) /\ Len(s) = Len(q) + 1
    /\ s[m].p = p /\ s[m].off = 0
    /\ \A i \in 1..(m - 1) : s[i] = q[i]
    /\ \A i \in m..Len(q) : s[i + 1] = q[i] /\ q[i].off = 0 /\ ~Precedes(q[i].p, p)

\* A packet that no other one follows yet is put into the lists.
LEMMA Enqueue ==
    ASSUME NEW w, NEW q, NEW acc \in SUBSET Packet, InLine(w, q, acc),
           NEW p \in acc, ~There(w, q, p),
           \A r \in acc : Precedes(r, p) => There(w, q, r),
           NEW m, NEW s, Inserted(q, s, m, p)
    PROVE  /\ InLine(w, s, acc)
           /\ \A r : There(w, s, r) <=> There(w, q, r) \/ r = p
<1>1. w \in Seq(Packet) /\ q \in Seq(Buffer) /\ Len(q) \in Nat /\ p \in Packet
  BY LenProperties DEF InLine
<1>2. m \in 1..(Len(q) + 1) /\ Len(s) = Len(q) + 1 /\ s[m].p = p /\ s[m].off = 0
  BY DEF Inserted
<1>3. \A i \in 1..Len(s) : \/ i = m
                           \/ i < m /\ i \in 1..Len(q) /\ s[i] = q[i]
                           \/ i > m /\ i - 1 \in m..Len(q) /\ i - 1 \in 1..Len(q) /\ s[i] = q[i - 1]
  <2>. SUFFICES ASSUME NEW i \in 1..Len(s)
                PROVE  \/ i = m
                       \/ i < m /\ i \in 1..Len(q) /\ s[i] = q[i]
                       \/ i > m /\ i - 1 \in m..Len(q) /\ i - 1 \in 1..Len(q) /\ s[i] = q[i - 1]
    OBVIOUS
  <2>1. CASE i < m
    <3>1. i \in 1..(m - 1) /\ i \in 1..Len(q)
      BY <1>1, <1>2, <2>1
    <3>. QED BY <2>1, <3>1 DEF Inserted
  <2>2. CASE i > m
    <3>1. i - 1 \in m..Len(q) /\ i - 1 \in 1..Len(q) /\ i - 1 + 1 = i
      BY <1>1, <1>2, <2>2
    <3>. QED BY <2>2, <3>1 DEF Inserted
  <2>. QED BY <1>2, <2>1, <2>2
<1>4. \A i \in 1..Len(q) : \/ i < m /\ i \in 1..Len(s) /\ s[i] = q[i]
                           \/ i >= m /\ i \in m..Len(q) /\ i + 1 \in 1..Len(s) /\ s[i + 1] = q[i]
  <2>. SUFFICES ASSUME NEW i \in 1..Len(q)
                PROVE  \/ i < m /\ i \in 1..Len(s) /\ s[i] = q[i]
                       \/ i >= m /\ i \in m..Len(q) /\ i + 1 \in 1..Len(s) /\ s[i + 1] = q[i]
    OBVIOUS
  <2>1. CASE i < m
    <3>1. i \in 1..(m - 1) /\ i \in 1..Len(s)
      BY <1>1, <1>2, <2>1
    <3>. QED BY <2>1, <3>1 DEF Inserted
  <2>2. CASE i >= m
    <3>1. i \in m..Len(q) /\ i + 1 \in 1..Len(s)
      BY <1>1, <1>2, <2>2
    <3>. QED BY <2>2, <3>1 DEF Inserted
  <2>. QED BY <1>2, <2>1, <2>2
<1>5. m \in 1..Len(s)
  BY <1>1, <1>2
<1>6. \A r : Waits(s, r) <=> Waits(q, r) \/ r = p
  <2>1. ASSUME NEW r, Waits(s, r) PROVE Waits(q, r) \/ r = p
    BY <1>2, <1>3, <2>1 DEF Waits
  <2>2. ASSUME NEW r, Waits(q, r) PROVE Waits(s, r)
    BY <1>4, <2>2 DEF Waits
  <2>3. Waits(s, p)
    BY <1>2, <1>5 DEF Waits
  <2>. QED BY <2>1, <2>2, <2>3
<1>7. ~Wrote(w, p) /\ ~Waits(q, p)
  BY DEF There
<1>8. Lined(w, q, acc)
  BY DEF InLine
\* The parts of Lined.
<1>9. ASSUME NEW i \in 1..Len(s) PROVE s[i].p \in acc /\ (i # 1 => s[i].off = 0)
  <2>1. CASE i = m
    BY <1>2, <2>1
  <2>2. CASE i < m /\ i \in 1..Len(q) /\ s[i] = q[i]
    BY <1>8, <2>2 DEF Lined
  <2>3. CASE i > m /\ i - 1 \in m..Len(q) /\ i - 1 \in 1..Len(q) /\ s[i] = q[i - 1]
    BY <1>8, <2>3 DEF Lined, Inserted
  <2>. QED BY <1>3, <2>1, <2>2, <2>3
<1>10. ASSUME NEW i \in 1..Len(s), s[i].off = 0 PROVE ~Wrote(w, s[i].p)
  BY <1>2, <1>3, <1>7, <1>8, <1>10 DEF Lined
<1>11. ASSUME NEW i \in 1..Len(q) PROVE q[i].p # p /\ ~Precedes(p, q[i].p)
  <2>1. q[i].p # p
    BY <1>7 DEF Waits
  <2>2. \A j \in 1..Len(q) : ~Precedes(p, q[j].p)
    BY <1>7, <1>8 DEF Lined
  <2>. QED BY <2>1, <2>2
<1>a. ASSUME NEW i \in 1..Len(s), i # m
      PROVE  \E a \in 1..Len(q) : s[i] = q[a] /\ ((a = i /\ i < m) \/ (a = i - 1 /\ i > m))
  <2>1. CASE i < m /\ i \in 1..Len(q) /\ s[i] = q[i]
    BY <2>1
  <2>2. CASE i > m /\ i - 1 \in 1..Len(q) /\ s[i] = q[i - 1]
    <3>1. PICK a \in 1..Len(q) : a = i - 1
      BY <2>2
    <3>. QED BY <2>2, <3>1
  <2>. QED BY <1>3, <1>a, <2>1, <2>2
<1>12. ASSUME NEW i \in 1..Len(s), NEW j \in 1..Len(s), i < j
       PROVE  s[i].p # s[j].p /\ ~Precedes(s[j].p, s[i].p)
  <2>1. CASE i = m
    <3>1. j > m /\ j - 1 \in m..Len(q) /\ j - 1 \in 1..Len(q) /\ s[j] = q[j - 1]
      BY <1>2, <1>3, <1>12, <2>1
    <3>2. ~Precedes(q[j - 1].p, p)
      BY <3>1 DEF Inserted
    <3>. QED BY <1>2, <1>11, <2>1, <3>1, <3>2
  <2>2. CASE j = m
    <3>1. i \in 1..Len(q) /\ s[i] = q[i]
      BY <1>2, <1>3, <1>12, <2>2
    <3>. QED BY <1>2, <1>11, <2>2, <3>1
  <2>3. CASE i # m /\ j # m
    <3>1. PICK a \in 1..Len(q) : s[i] = q[a] /\ ((a = i /\ i < m) \/ (a = i - 1 /\ i > m))
      BY <1>a, <2>3
    <3>2. PICK b \in 1..Len(q) : s[j] = q[b] /\ ((b = j /\ j < m) \/ (b = j - 1 /\ j > m))
      BY <1>a, <2>3
    <3>3. a < b
      BY <1>2, <1>12, <3>1, <3>2
    <3>. QED BY <1>8, <3>1, <3>2, <3>3 DEF Lined
  <2>. QED BY <2>1, <2>2, <2>3
<1>13. Len(s) > 0
  BY <1>1, <1>2
<1>14. Len(w) % 2 = s[1].off /\ (s[1].off = 1 => Len(w) > 0 /\ w[Len(w)] = s[1].p)
  <2>1. CASE m = 1
    <3>1. s[1].off = 0
      BY <1>2, <2>1
    <3>2. Len(w) % 2 = 0
      <4>1. CASE Len(q) = 0
        BY <1>8, <4>1 DEF Lined
      <4>2. CASE Len(q) # 0
        <5>1. Len(q) > 0 /\ 1 \in m..Len(q)
          BY <1>1, <2>1, <4>2
        <5>2. q[1].off = 0
          BY <5>1 DEF Inserted
        <5>. QED BY <1>8, <5>1, <5>2 DEF Lined
      <4>. QED BY <4>1, <4>2
    <3>. QED BY <3>1, <3>2
  <2>2. CASE m # 1
    <3>1. 1 < m /\ 1 \in 1..Len(s) /\ Len(q) > 0
      BY <1>1, <1>2, <2>2
    <3>2. s[1] = q[1]
      BY <1>2, <1>3, <3>1
    <3>. QED BY <1>8, <3>1, <3>2 DEF Lined
  <2>. QED BY <2>1, <2>2
<1>15. ASSUME NEW r \in acc
       PROVE  Wrote(w, r) \/ Waits(s, r) \/ \A i \in 1..Len(s) : ~Precedes(r, s[i].p)
  <2>. SUFFICES ASSUME ~Wrote(w, r), ~Waits(s, r), NEW i \in 1..Len(s)
                PROVE  ~Precedes(r, s[i].p)
    OBVIOUS
  <2>1. ~Waits(q, r) /\ ~There(w, q, r)
    BY <1>6 DEF There
  <2>2. \A j \in 1..Len(q) : ~Precedes(r, q[j].p)
    BY <1>8, <2>1 DEF Lined
  <2>3. ~Precedes(r, p)
    BY <2>1
  <2>. QED BY <1>2, <1>3, <2>2, <2>3
<1>16. ~(Len(s) = 0)
  BY <1>13
<1>17. Lined(w, s, acc)
  BY <1>9, <1>10, <1>12, <1>13, <1>14, <1>15, <1>16 DEF Lined
<1>. QED BY <1>6, <1>17 DEF InLine, There, Inserted

\* A packet that no other has to wait for joins those of acc.
LEMMA AcceptOrdered ==
    ASSUME NEW w, NEW acc, Ordered(w, acc), NEW p, \A r \in acc : ~Precedes(p, r)
    PROVE  Ordered(w, acc \cup {p})
<1>1. \A j \in 1..Len(w) : w[j] \in acc
  BY DEF Ordered
<1>. QED BY <1>1 DEF Ordered

\* A packet that is neither written nor in the lists is accepted.
LEMMA Accept ==
    ASSUME NEW w, NEW q, NEW acc \in SUBSET Packet, InLine(w, q, acc),
           NEW p \in Packet, \A r \in acc : ~Precedes(p, r)
    PROVE  InLine(w, q, acc \cup {p})
<1>1. Ordered(w, acc) /\ Lined(w, q, acc)
  BY DEF InLine
<1>2. Ordered(w, acc \cup {p})
  BY <1>1, AcceptOrdered
<1>3. Lined(w, q, acc \cup {p})
  <2>1. \A i \in 1..Len(q) : q[i].p \in acc
    BY <1>1 DEF Lined
  <2>2. \A r \in acc \cup {p} : \/ Wrote(w, r) \/ Waits(q, r)
                                \/ \A i \in 1..Len(q) : ~Precedes(r, q[i].p)
    BY <1>1, <2>1 DEF Lined
  <2>. QED BY <1>1, <2>1, <2>2 DEF Lined
<1>. QED BY <1>2, <1>3 DEF InLine

\* When nothing waits, what has been written has been written to its end.
LEMMA AllDone ==
    ASSUME NEW w, NEW q, Len(q) = 0, NEW acc, InLine(w, q, acc), NEW p, There(w, q, p)
    PROVE  Done(w, p)
<1>1. Len(w) \in Nat /\ Len(w) % 2 = 0 /\ Ordered(w, acc)
  BY LenProperties DEF InLine, Lined
<1>2. PICK i \in 1..Len(w) : w[i] = p
  BY DEF There, Wrote, Waits
<1>3. CASE i % 2 = 0
  BY <1>2, <1>3 DEF Done
<1>4. CASE i % 2 = 1
  <2>1. i # Len(w)
    BY <1>1, <1>4
  <2>2. i + 1 \in 1..Len(w) /\ i \in Nat
    BY <1>1, <2>1
  <2>3. (i + 1) % 2 = 0
    BY <1>4, <2>2, Parity
  <2>4. w[i + 1] = w[i + 1 - 1] /\ i + 1 - 1 = i
    BY <1>1, <2>2, <2>3 DEF Ordered
  <2>. QED BY <1>2, <2>2, <2>3, <2>4 DEF Done
<1>. QED BY <1>1, <1>2, <1>3, <1>4, Parity

\* What waits on a slot.
LEMMA WaitingTypes ==
    ASSUME NEW r \in Record
    PROVE  /\ First(r) \in Seq(Buffer) /\ r.low \in Seq(Buffer) /\ r.high \in Seq(Buffer)
           /\ Waiting(r) \in Seq(Buffer) /\ Len(Waiting(r)) = Len(First(r)) + Len(r.low)
           /\ \A i \in 1..Len(First(r)) : Waiting(r)[i] = First(r)[i]
           /\ \A i \in 1..Len(r.low) : Waiting(r)[Len(First(r)) + i] = r.low[i]
           /\ Len(First(r)) \in Nat /\ Len(r.low) \in Nat
<1>1. r.high \in Seq(Buffer) /\ r.low \in Seq(Buffer) /\ r.dw_buffer \in Buffer \cup {NULL}
  BY DEF Record
<1>2. First(r) \in Seq(Buffer)
  <2>1. CASE r.dw_buffer = NULL
    BY <1>1, <2>1 DEF First
  <2>2. CASE r.dw_buffer # NULL
    <3>1. <<r.dw_buffer>> \in Seq(Buffer)
      BY <1>1, <2>2
    <3>. QED BY <1>1, <2>2, <3>1, ConcatProperties DEF First
  <2>. QED BY <2>1, <2>2
<1>3. PICK f \in Seq(Buffer), l \in Seq(Buffer) : f = First(r) /\ l = r.low
  BY <1>1, <1>2
<1>4. /\ f \o l \in Seq(Buffer) /\ Len(f \o l) = Len(f) + Len(l)
      /\ \A i \in 1..(Len(f) + Len(l)) :
             (f \o l)[i] = IF i <= Len(f) THEN f[i] ELSE l[i - Len(f)]
      /\ Len(f) \in Nat /\ Len(l) \in Nat
  BY ConcatProperties, LenProperties
<1>5. \A i \in 1..Len(f) : (f \o l)[i] = f[i]
  BY <1>4
<1>6. \A i \in 1..Len(l) : (f \o l)[Len(f) + i] = l[i]
  <2>. SUFFICES ASSUME NEW i \in 1..Len(l) PROVE (f \o l)[Len(f) + i] = l[i]
    OBVIOUS
  <2>1. Len(f) + i \in 1..(Len(f) + Len(l)) /\ ~(Len(f) + i <= Len(f)) /\ Len(f) + i - Len(f) = i
    BY <1>4
  <2>. QED BY <1>4, <2>1
<1>. QED BY <1>1, <1>2, <1>3, <1>4, <1>5, <1>6 DEF Waiting

\* Nothing waits.
LEMMA WaitingNone ==
    ASSUME NEW r \in Record, send_buffer_empty(r), r.dw_buffer = NULL
    PROVE  Waiting(r) = <<>>
<1>1. r.high = <<>> /\ r.low = <<>> /\ First(r) = <<>>
  BY DEF send_buffer_empty, First
<1>2. <<>> \in Seq(Buffer) /\ <<>> \o <<>> = <<>>
  BY EmptySeq, ConcatEmptySeq
<1>. QED BY <1>1, <1>2 DEF Waiting

\* send_socket puts the packet behind those that wait, a high one before the low list.
LEMMA QueuedWaiting ==
    ASSUME NEW r \in Record, LowOnly(r), NEW p \in Packet
    PROVE  /\ LowOnly(Queued(r, p))
           /\ \E m : Inserted(Waiting(r), Waiting(Queued(r, p)), m, p)
<1>1. PICK s \in Record : s = Queued(r, p)
  BY QueuedFields
<1>2. PICK b \in Buffer : b = [p |-> p, off |-> 0]
  <2>1. [p |-> p, off |-> 0] \in Buffer
    BY DEF Buffer
  <2>. QED BY <2>1
<1>3. b.p = p /\ b.off = 0
  BY <1>2
<1>4. s.dw_buffer = r.dw_buffer
  BY <1>1, QueuedFields
<1>5. s = IF send_buffer_empty(r)
          THEN [r EXCEPT !.high = Append(@, b), !.writing = TRUE]
          ELSE IF p.high THEN [r EXCEPT !.high = Append(@, b)]
                         ELSE [r EXCEPT !.low = Append(@, b)]
  BY <1>1, <1>2 DEF Queued
<1>. DEFINE f == First(r)
            q == Waiting(r)
            u == Waiting(s)
<1>6. /\ f \in Seq(Buffer) /\ r.low \in Seq(Buffer) /\ r.high \in Seq(Buffer)
      /\ q \in Seq(Buffer) /\ Len(q) = Len(f) + Len(r.low)
      /\ \A i \in 1..Len(f) : q[i] = f[i]
      /\ \A i \in 1..Len(r.low) : q[Len(f) + i] = r.low[i]
      /\ Len(f) \in Nat /\ Len(r.low) \in Nat
  BY WaitingTypes
<1>7. /\ u \in Seq(Buffer) /\ Len(u) = Len(First(s)) + Len(s.low)
      /\ \A i \in 1..Len(First(s)) : u[i] = First(s)[i]
      /\ \A i \in 1..Len(s.low) : u[Len(First(s)) + i] = s.low[i]
  BY WaitingTypes
<1>8. \A i \in 1..Len(r.low) : ~r.low[i].p.high /\ r.low[i].off = 0
  BY DEF LowOnly
<1>9. CASE send_buffer_empty(r) \/ p.high
  <2>1. s.high = Append(r.high, b) /\ s.low = r.low
    <3>1. CASE send_buffer_empty(r)
      <4>1. s = [r EXCEPT !.high = Append(r.high, b), !.writing = TRUE]
        BY <1>5, <3>1
      <4>. QED BY <4>1 DEF Record
    <3>2. CASE ~send_buffer_empty(r) /\ p.high
      <4>1. s = [r EXCEPT !.high = Append(r.high, b)]
        BY <1>5, <3>2
      <4>. QED BY <4>1 DEF Record
    <3>. QED BY <1>9, <3>1, <3>2
  <2>2. First(s) = Append(f, b)
    <3>1. CASE r.dw_buffer = NULL
      BY <1>4, <2>1, <3>1 DEF First
    <3>2. CASE r.dw_buffer # NULL
      <4>1. PICK d \in Seq(Buffer), h \in Seq(Buffer) : d = <<r.dw_buffer>> /\ h = r.high
        <5>1. r.dw_buffer \in Buffer
          BY <3>2 DEF Record
        <5>2. <<r.dw_buffer>> \in Seq(Buffer)
          BY <5>1
        <5>. QED BY <1>6, <5>2
      <4>2. f = d \o h /\ First(s) = d \o Append(h, b)
        BY <1>4, <2>1, <3>2, <4>1 DEF First
      <4>3. <<b>> \in Seq(Buffer)
        OBVIOUS
      <4>4. Append(h, b) = h \o <<b>> /\ d \o h \in Seq(Buffer)
        BY AppendIsConcat, ConcatProperties
      <4>5. (d \o h) \o <<b>> = d \o (h \o <<b>>)
        BY <4>3, ConcatAssociative
      <4>6. Append(d \o h, b) = (d \o h) \o <<b>>
        BY <4>4, AppendIsConcat
      <4>. QED BY <4>2, <4>4, <4>5, <4>6
    <3>. QED BY <3>1, <3>2
  <2>3. LowOnly(s)
    BY <2>1 DEF LowOnly
  <2>. HIDE DEF f, q, u
  <2>4. /\ Len(First(s)) = Len(f) + 1 /\ First(s)[Len(f) + 1] = b
        /\ \A i \in 1..Len(f) : First(s)[i] = f[i]
    BY <1>6, <2>2, AppendFacts
  <2>5. send_buffer_empty(r) => Len(r.low) = 0
    <3>1. Len(<<>>) = 0
      BY EmptySeq
    <3>. QED BY <3>1 DEF send_buffer_empty
  <2>6. Inserted(q, u, Len(f) + 1, p)
    <3>a. Len(u) = Len(f) + 1 + Len(r.low) /\ Len(q) = Len(f) + Len(r.low)
      BY <1>6, <1>7, <2>1, <2>4
    <3>b. PICK a \in Nat, c \in Nat : a = Len(f) /\ c = Len(r.low)
      BY <1>6
    <3>c. a + 1 \in 1..(a + c + 1) /\ a + 1 + c = a + c + 1
      OBVIOUS
    <3>1. Len(f) + 1 \in 1..(Len(q) + 1) /\ Len(u) = Len(q) + 1
      BY <3>a, <3>b, <3>c
    <3>2. u[Len(f) + 1] = b
      <4>1. Len(f) + 1 \in 1..Len(First(s))
        BY <1>6, <2>4
      <4>. QED BY <1>7, <2>4, <4>1
    <3>3. ASSUME NEW i \in 1..(Len(f) + 1 - 1) PROVE u[i] = q[i]
      <4>1. i \in 1..Len(f) /\ i \in 1..Len(First(s))
        BY <1>6, <2>4
      <4>. QED BY <1>6, <1>7, <2>4, <4>1
    <3>4. ASSUME NEW i \in (Len(f) + 1)..Len(q)
          PROVE  u[i + 1] = q[i] /\ q[i].off = 0 /\ ~Precedes(q[i].p, p)
      <4>1. PICK j \in 1..Len(r.low) : i = Len(f) + j
        <5>1. i - Len(f) \in 1..Len(r.low) /\ i = Len(f) + (i - Len(f))
          BY <1>6
        <5>. QED BY <5>1
      <4>2. q[i] = r.low[j] /\ u[i + 1] = r.low[j]
        <5>1. Len(f) + 1 + j = i + 1
          BY <1>6, <4>1
        <5>2. u[Len(f) + 1 + j] = r.low[j]
          BY <1>7, <2>1, <2>4
        <5>. QED BY <1>6, <4>1, <5>1, <5>2
      <4>3. p.high
        BY <1>6, <1>9, <2>5, <4>1
      <4>. QED BY <1>8, <4>2, <4>3 DEF Precedes
    <3>. QED BY <1>3, <1>7, <3>1, <3>2, <3>3, <3>4 DEF Inserted
  <2>. QED BY <1>1, <2>3, <2>6 DEF q, u
<1>10. CASE ~send_buffer_empty(r) /\ ~p.high
  <2>1. s.high = r.high /\ s.low = Append(r.low, b)
    <3>1. s = [r EXCEPT !.low = Append(r.low, b)]
      BY <1>5, <1>10
    <3>. QED BY <3>1 DEF Record
  <2>2. First(s) = f
    BY <1>4, <2>1 DEF First
  <2>3. /\ Len(s.low) = Len(r.low) + 1 /\ s.low[Len(r.low) + 1] = b
        /\ \A i \in 1..Len(r.low) : s.low[i] = r.low[i]
    BY <1>6, <2>1, AppendFacts
  <2>4. LowOnly(s)
    <3>1. \A i \in 1..Len(s.low) : i \in 1..Len(r.low) \/ i = Len(r.low) + 1
      BY <1>6, <2>3
    <3>. QED BY <1>3, <1>8, <1>10, <2>3, <3>1 DEF LowOnly
  <2>. HIDE DEF f, q, u
  <2>5. Inserted(q, u, Len(q) + 1, p)
    <3>1. Len(q) + 1 \in 1..(Len(q) + 1) /\ Len(u) = Len(q) + 1
      BY <1>6, <1>7, <2>2, <2>3
    <3>2. u[Len(q) + 1] = b
      <4>1. Len(r.low) + 1 \in 1..Len(s.low) /\ Len(f) + (Len(r.low) + 1) = Len(q) + 1
        BY <1>6, <2>3
      <4>2. u[Len(f) + (Len(r.low) + 1)] = s.low[Len(r.low) + 1]
        BY <1>7, <2>2, <4>1
      <4>. QED BY <2>3, <4>1, <4>2
    <3>3. ASSUME NEW i \in 1..Len(q) PROVE u[i] = q[i]
      <4>1. CASE i <= Len(f)
        <5>1. i \in 1..Len(f)
          BY <1>6, <4>1
        <5>. QED BY <1>6, <1>7, <2>2, <5>1
      <4>2. CASE ~(i <= Len(f))
        <5>1. PICK j \in 1..Len(r.low) : i = Len(f) + j
          <6>1. i - Len(f) \in 1..Len(r.low) /\ i = Len(f) + (i - Len(f))
            BY <1>6, <4>2
          <6>. QED BY <6>1
        <5>2. j \in 1..Len(s.low)
          BY <1>6, <2>3
        <5>3. u[Len(f) + j] = s.low[j]
          BY <1>7, <2>2, <5>2
        <5>. QED BY <1>6, <2>3, <5>1, <5>3
      <4>. QED BY <4>1, <4>2
    <3>4. (Len(q) + 1)..Len(q) = {} /\ Len(q) + 1 - 1 = Len(q)
      BY <1>6
    <3>. QED BY <1>3, <1>7, <3>1, <3>2, <3>3, <3>4 DEF Inserted
  <2>. QED BY <1>1, <2>4, <2>5 DEF q, u
<1>. QED BY <1>9, <1>10

\* A packet of which one byte has been written.
LEMMA Begun ==
    ASSUME NEW b \in Buffer
    PROVE  \E c \in Buffer : c = [b EXCEPT !.off = 1]
<1>1. [b EXCEPT !.off = 1] \in Buffer
  BY DEF Buffer
<1>. QED BY <1>1

\* x and y are what is left of h and l when n packets are taken off, off h first.
Taken(h, l, n, x, y) ==
    /\ h \in Seq(Buffer) /\ l \in Seq(Buffer) /\ n \in 0..(Len(h) + Len(l))
    /\ x = After(h, n)
    /\ n <= Len(h) => y = l
    /\ ~(n <= Len(h)) => y = After(l, n - Len(h))

\* What is left of the two lists are lists, and together what is left of their packets.
LEMMA AfterTwo ==
    ASSUME NEW h, NEW l, NEW n, NEW x, NEW y, Taken(h, l, n, x, y)
    PROVE  /\ x \in Seq(Buffer) /\ y \in Seq(Buffer) /\ x \o y = After(h \o l, n)
           /\ \A i \in 1..Len(y) : \E j \in 1..Len(l) : y[i] = l[j]
           /\ x # <<>> => y = l
<1>. h \in Seq(Buffer) /\ l \in Seq(Buffer) /\ n \in 0..(Len(h) + Len(l))
  BY DEF Taken
<1>. x = After(h, n) /\ (n <= Len(h) => y = l) /\ (~(n <= Len(h)) => y = After(l, n - Len(h)))
  BY DEF Taken
<1>1. Len(h) \in Nat /\ Len(l) \in Nat /\ n \in Nat
  BY LenProperties
<1>2. PICK q \in Seq(Buffer) : q = h \o l
  BY ConcatProperties
<1>3. /\ Len(q) = Len(h) + Len(l)
      /\ \A i \in 1..(Len(h) + Len(l)) : q[i] = IF i <= Len(h) THEN h[i] ELSE l[i - Len(h)]
  BY <1>2, ConcatProperties
<1>a. n \in 0..Len(q)
  BY <1>1, <1>3
<1>4. PICK t \in Seq(Buffer) : t = After(q, n)
  BY <1>a, AfterFacts
<1>5. Len(t) = Len(q) - n /\ \A i \in 1..(Len(q) - n) : t[i] = q[n + i]
  BY <1>a, <1>4, AfterFacts
<1>b. /\ Len(q) = Len(h) + Len(l) /\ Len(t) = Len(h) + Len(l) - n
      /\ n \in 0..(Len(h) + Len(l)) /\ Len(q) \in Nat
  BY <1>1, <1>3, <1>5
<1>6. CASE n <= Len(h)
  <2>1. n \in 0..Len(h) /\ y = l
    BY <1>1, <1>6
  <2>2. /\ x \in Seq(Buffer) /\ Len(x) = Len(h) - n
        /\ \A i \in 1..(Len(h) - n) : x[i] = h[n + i]
    BY <2>1, AfterFacts
  <2>3. /\ x \o y \in Seq(Buffer) /\ Len(x \o y) = Len(x) + Len(y)
        /\ \A i \in 1..(Len(x) + Len(y)) :
               (x \o y)[i] = IF i <= Len(x) THEN x[i] ELSE y[i - Len(x)]
    <3>1. x \in Seq(Buffer) /\ y \in Seq(Buffer)
      BY <2>1, <2>2
    <3>. QED BY <3>1, ConcatProperties
  <2>4. Len(x) + Len(y) = Len(t)
    BY <1>1, <1>3, <1>5, <2>1, <2>2
  <2>5. ASSUME NEW i \in 1..Len(t) PROVE (x \o y)[i] = t[i]
    <3>1. /\ i \in 1..(Len(x) + Len(y)) /\ i \in 1..(Len(q) - n)
          /\ n + i \in 1..(Len(h) + Len(l))
      <4>1. PICK a \in Nat, c \in Nat : a = Len(h) /\ c = Len(l)
        BY <1>1
      <4>2. Len(q) = a + c /\ Len(t) = a + c - n /\ n \in 0..(a + c)
        BY <1>b, <4>1
      <4>3. i \in 1..(a + c - n)
        BY <4>2
      <4>4. n + i \in 1..(a + c)
        BY <4>2, <4>3
      <4>. QED BY <2>4, <4>1, <4>2, <4>3, <4>4
    <3>2. CASE i <= Len(x)
      <4>1. i \in 1..(Len(h) - n) /\ n + i <= Len(h)
        BY <1>1, <2>2, <3>2
      <4>. QED BY <1>3, <1>5, <2>2, <2>3, <3>1, <3>2, <4>1
    <3>3. CASE ~(i <= Len(x))
      <4>a. Len(x) = Len(h) - n /\ i \in Nat
        BY <2>2
      <4>b. PICK a \in Nat : a = Len(h)
        BY <1>1
      <4>c. ~(i <= a - n) /\ n \in Nat /\ i \in Nat
        BY <1>1, <3>3, <4>a, <4>b
      <4>d. ~(n + i <= a) /\ n + i - a = i - (a - n)
        BY <4>c
      <4>1. ~(n + i <= Len(h)) /\ n + i - Len(h) = i - Len(x)
        BY <4>a, <4>b, <4>d
      <4>2. t[i] = q[n + i] /\ q[n + i] = l[n + i - Len(h)]
        BY <1>3, <1>5, <3>1, <4>1
      <4>3. (x \o y)[i] = y[i - Len(x)]
        BY <2>3, <3>1, <3>3
      <4>. QED BY <2>1, <4>1, <4>2, <4>3
    <3>. QED BY <3>2, <3>3
  <2>6. x \o y = t
    BY <2>3, <2>4, <2>5, SeqEqual
  <2>. QED BY <1>2, <1>4, <2>1, <2>2, <2>6
<1>7. CASE ~(n <= Len(h))
  <2>a. n - Len(h) \in 0..Len(l)
    BY <1>1, <1>7, <1>b
  <2>1. PICK m \in 0..Len(l) : m = n - Len(h)
    BY <2>a
  <2>2. y = After(l, m)
    BY <1>7, <2>1
  <2>3. /\ y \in Seq(Buffer) /\ Len(y) = Len(l) - m
        /\ \A i \in 1..(Len(l) - m) : y[i] = l[m + i]
    BY <2>2, AfterFacts
  <2>4. x = <<>>
    <3>1. n + 1 \in Int /\ Len(h) \in Int /\ Len(h) < n + 1
      BY <1>1, <1>7
    <3>. QED BY <3>1, SubSeqEmpty DEF After
  <2>5. x \o y = y /\ x \in Seq(Buffer)
    BY <2>3, <2>4, ConcatEmptySeq, EmptySeq
  <2>6. ASSUME NEW i \in 1..Len(t) PROVE y[i] = t[i]
    <3>1. /\ i \in 1..(Len(l) - m) /\ i \in 1..(Len(q) - n) /\ n + i \in 1..(Len(h) + Len(l))
          /\ ~(n + i <= Len(h)) /\ n + i - Len(h) = m + i
      BY <1>1, <1>7, <1>b, <2>1
    <3>2. t[i] = q[n + i] /\ q[n + i] = l[m + i]
      BY <1>3, <1>5, <3>1
    <3>3. y[i] = l[m + i]
      BY <2>3, <3>1
    <3>. QED BY <3>2, <3>3
  <2>7. Len(y) = Len(t)
    BY <1>1, <1>3, <1>5, <2>1, <2>3
  <2>8. y = t
    BY <2>3, <2>6, <2>7, SeqEqual
  <2>9. ASSUME NEW i \in 1..Len(y) PROVE \E j \in 1..Len(l) : y[i] = l[j]
    <3>1. i \in 1..(Len(l) - m) /\ m + i \in 1..Len(l)
      BY <1>1, <2>1, <2>3
    <3>. QED BY <2>3, <3>1
  <2>. QED BY <1>2, <1>4, <2>3, <2>4, <2>5, <2>8, <2>9
<1>. QED BY <1>6, <1>7

\* What send_list_tcp leaves of the two lists.
LEMMA WrittenWaiting ==
    ASSUME NEW r \in Record, LowOnly(r), r.dw_buffer = NULL,
           NEW n \in 0..Len(Waiting(r)), NEW part \in 0..1, part = 1 => n < Len(Waiting(r))
    PROVE  LowOnly(Written(r, n, part)) /\ Waiting(Written(r, n, part)) = Left(Waiting(r), n, part)
<1>1. PICK h \in Seq(Buffer), l \in Seq(Buffer) : h = r.high /\ l = r.low
  BY DEF Record
<1>2. PICK q \in Seq(Buffer) : q = Waiting(r)
  BY WaitingTypes
<1>3. q = h \o l /\ Len(q) = Len(h) + Len(l) /\ Len(h) \in Nat /\ Len(l) \in Nat
  BY <1>1, <1>2, WaitingTypes DEF Waiting, First
<1>4. n \in Nat /\ n \in 0..(Len(h) + Len(l)) /\ n \in 0..Len(q)
  BY <1>2, <1>3
<1>5. PICK x : x = SubSeq(h, n + 1, Len(h))
  OBVIOUS
<1>6. PICK y : y = IF n <= Len(h) THEN l ELSE SubSeq(l, n - Len(h) + 1, Len(l))
  OBVIOUS
<1>a. x = After(h, n) /\ (n <= Len(h) => y = l) /\ (~(n <= Len(h)) => y = After(l, n - Len(h)))
  BY <1>5, <1>6 DEF After
<1>7. Written(r, n, part) =
        IF part = 0 THEN [r EXCEPT !.high = x, !.low = y]
        ELSE IF x # <<>> THEN [r EXCEPT !.high = [x EXCEPT ![1].off = 1]]
        ELSE [r EXCEPT !.high = <<[Head(y) EXCEPT !.off = 1]>>, !.low = Tail(y)]
  BY <1>1, <1>5, <1>6 DEF Written
<1>8. /\ x \in Seq(Buffer) /\ y \in Seq(Buffer) /\ x \o y = After(q, n)
      /\ \A i \in 1..Len(y) : \E j \in 1..Len(l) : y[i] = l[j]
      /\ x # <<>> => y = l
  <2>1. After(q, n) = After(h \o l, n)
    BY <1>3
  <2>2. /\ x \in Seq(Buffer) /\ y \in Seq(Buffer) /\ x \o y = After(h \o l, n)
        /\ \A i \in 1..Len(y) : \E j \in 1..Len(l) : y[i] = l[j]
        /\ x # <<>> => y = l
    <3>1. Taken(h, l, n, x, y)
      BY <1>1, <1>4, <1>a DEF Taken
    <3>. QED BY <3>1, AfterTwo
  <2>. QED BY <2>1, <2>2
<1>9. \A i \in 1..Len(y) : ~y[i].p.high /\ y[i].off = 0
  BY <1>1, <1>8 DEF LowOnly
<1>10. PICK s : s = Written(r, n, part)
  OBVIOUS
<1>11. CASE part = 0
  <2>1. s.high = x /\ s.low = y /\ s.dw_buffer = NULL
    BY <1>7, <1>10, <1>11 DEF Record
  <2>2. Waiting(s) = After(q, n)
    BY <1>8, <2>1 DEF Waiting, First
  <2>. QED BY <1>2, <1>9, <1>10, <1>11, <2>1, <2>2 DEF Left, LowOnly
<1>12. CASE part = 1 /\ x # <<>>
  <2>1. PICK z : z = [x EXCEPT ![1].off = 1]
    OBVIOUS
  <2>2. s.high = z /\ s.low = y /\ s.dw_buffer = NULL
    BY <1>1, <1>7, <1>8, <1>10, <1>12, <2>1 DEF Record
  <2>3. 1 \in 1..Len(x) /\ Len(x) \in Nat /\ Len(y) \in Nat
    BY <1>8, <1>12, EmptySeq, LenProperties
  <2>4. PICK c \in Buffer : c = [x[1] EXCEPT !.off = 1]
    <3>1. x[1] \in Buffer
      BY <1>8, <2>3, ElementOfSeq
    <3>. QED BY <3>1, Begun
  <2>5. z = [x EXCEPT ![1] = c]
    BY <2>1, <2>4
  <2>6. z \in Seq(Buffer) /\ Len(z) = Len(x) /\ \A i \in 1..Len(x) : z[i] = IF i = 1 THEN c ELSE x[i]
    <3>1. /\ [x EXCEPT ![1] = c] \in Seq(Buffer) /\ Len([x EXCEPT ![1] = c]) = Len(x)
          /\ \A i \in 1..Len(x) : [x EXCEPT ![1] = c][i] = IF i = 1 THEN c ELSE x[i]
      BY <1>8, <2>3, ExceptSeq
    <3>. QED BY <2>5, <3>1
  <2>7. PICK t \in Seq(Buffer) : t = x \o y
    BY <1>8, ConcatProperties
  <2>8. /\ Len(t) = Len(x) + Len(y)
        /\ \A i \in 1..(Len(x) + Len(y)) : t[i] = IF i <= Len(x) THEN x[i] ELSE y[i - Len(x)]
    BY <1>8, <2>7, ConcatProperties
  <2>9. /\ z \o y \in Seq(Buffer) /\ Len(z \o y) = Len(z) + Len(y)
        /\ \A i \in 1..(Len(z) + Len(y)) : (z \o y)[i] = IF i <= Len(z) THEN z[i] ELSE y[i - Len(z)]
    BY <1>8, <2>6, ConcatProperties
  <2>10. 1 \in 1..Len(t) /\ t[1] = x[1]
    BY <2>3, <2>8
  <2>11. /\ [t EXCEPT ![1] = c] \in Seq(Buffer) /\ Len([t EXCEPT ![1] = c]) = Len(t)
         /\ \A i \in 1..Len(t) : [t EXCEPT ![1] = c][i] = IF i = 1 THEN c ELSE t[i]
    BY <2>10, ExceptSeq
  <2>12. ASSUME NEW i \in 1..Len(t) PROVE (z \o y)[i] = [t EXCEPT ![1] = c][i]
    <3>1. i \in 1..(Len(z) + Len(y)) /\ i \in 1..(Len(x) + Len(y))
      BY <2>6, <2>8
    <3>2. CASE i <= Len(x)
      <4>1. i \in 1..Len(x)
        BY <2>3, <3>2
      <4>. QED BY <2>6, <2>8, <2>9, <2>11, <3>1, <3>2, <4>1
    <3>3. CASE ~(i <= Len(x))
      <4>1. i # 1
        BY <2>3, <3>3
      <4>. QED BY <2>6, <2>8, <2>9, <2>11, <3>1, <3>3, <4>1
    <3>. QED BY <3>2, <3>3
  <2>13. z \o y = [t EXCEPT ![1] = c]
    <3>1. PICK u \in Seq(Buffer) : u = [t EXCEPT ![1] = c]
      BY <2>11
    <3>2. Len(z \o y) = Len(u) /\ \A i \in 1..Len(z \o y) : (z \o y)[i] = u[i]
      BY <2>6, <2>8, <2>9, <2>11, <2>12, <3>1
    <3>. QED BY <2>9, <3>1, <3>2, SeqEqual
  <2>14. [t EXCEPT ![1] = c] = [t EXCEPT ![1].off = 1]
    BY <2>4, <2>10
  <2>15. Waiting(s) = [After(q, n) EXCEPT ![1].off = 1]
    BY <1>8, <2>2, <2>7, <2>13, <2>14 DEF Waiting, First
  <2>. QED BY <1>2, <1>9, <1>10, <1>12, <2>2, <2>15 DEF Left, LowOnly
<1>13. CASE part = 1 /\ x = <<>>
  <2>1. PICK t \in Seq(Buffer) : t = After(q, n) /\ t = y
    BY <1>8, <1>13, ConcatEmptySeq
  <2>2. Len(t) = Len(q) - n /\ n < Len(q) /\ Len(q) \in Nat
    <3>1. Len(t) = Len(q) - n
      BY <1>4, <2>1, AfterFacts
    <3>. QED BY <1>2, <1>3, <1>13, <3>1
  <2>3. Len(t) \in Nat /\ 1 \in 1..Len(t) /\ t # <<>>
    BY <1>4, <2>2, EmptySeq
  <2>4. PICK c \in Buffer : c = [t[1] EXCEPT !.off = 1]
    <3>1. t[1] \in Buffer
      BY <2>3, ElementOfSeq
    <3>. QED BY <3>1, Begun
  <2>5. /\ Head(t) = t[1] /\ Tail(t) \in Seq(Buffer) /\ Len(Tail(t)) = Len(t) - 1
        /\ \A i \in 1..Len(Tail(t)) : Tail(t)[i] = t[i + 1]
    BY <2>3, HeadTailProperties
  <2>6. s.high = <<c>> /\ s.low = Tail(t) /\ s.dw_buffer = NULL
    <3>1. [Head(y) EXCEPT !.off = 1] = c
      <4>1. Head(y) = t[1]
        BY <2>1, <2>5
      <4>. QED BY <2>4, <4>1
    <3>a. s = [r EXCEPT !.high = <<[Head(y) EXCEPT !.off = 1]>>, !.low = Tail(y)]
      BY <1>7, <1>10, <1>13
    <3>2. s = [r EXCEPT !.high = <<c>>, !.low = Tail(t)]
      BY <2>1, <3>1, <3>a
    <3>. QED BY <3>2 DEF Record
  <2>7. PICK d \in Seq(Buffer) : d = <<c>> /\ Len(d) = 1 /\ d[1] = c
    <3>1. <<c>> \in Seq(Buffer) /\ Len(<<c>>) = 1 /\ <<c>>[1] = c
      OBVIOUS
    <3>. QED BY <3>1
  <2>8. /\ d \o Tail(t) \in Seq(Buffer) /\ Len(d \o Tail(t)) = Len(d) + Len(Tail(t))
        /\ \A i \in 1..(Len(d) + Len(Tail(t))) :
               (d \o Tail(t))[i] = IF i <= Len(d) THEN d[i] ELSE Tail(t)[i - Len(d)]
    BY <2>5, ConcatProperties
  <2>9. /\ [t EXCEPT ![1] = c] \in Seq(Buffer) /\ Len([t EXCEPT ![1] = c]) = Len(t)
        /\ \A i \in 1..Len(t) : [t EXCEPT ![1] = c][i] = IF i = 1 THEN c ELSE t[i]
    BY <2>3, ExceptSeq
  <2>10. ASSUME NEW i \in 1..Len(t) PROVE (d \o Tail(t))[i] = [t EXCEPT ![1] = c][i]
    <3>1. i \in 1..(Len(d) + Len(Tail(t)))
      BY <2>3, <2>5, <2>7
    <3>2. CASE i = 1
      <4>1. i <= Len(d)
        BY <2>7, <3>2
      <4>. QED BY <2>7, <2>8, <2>9, <3>1, <3>2, <4>1
    <3>3. CASE i # 1
      <4>1. ~(i <= Len(d)) /\ i - Len(d) \in 1..Len(Tail(t)) /\ i - Len(d) + 1 = i
        BY <2>3, <2>5, <2>7, <3>3
      <4>2. Tail(t)[i - Len(d)] = t[i]
        BY <2>5, <4>1
      <4>. QED BY <2>8, <2>9, <3>1, <3>3, <4>1, <4>2
    <3>. QED BY <3>2, <3>3
  <2>11. d \o Tail(t) = [t EXCEPT ![1] = c]
    <3>1. PICK u \in Seq(Buffer) : u = [t EXCEPT ![1] = c]
      BY <2>9
    <3>2. Len(d \o Tail(t)) = Len(u)
      BY <2>3, <2>5, <2>7, <2>8, <2>9, <3>1
    <3>3. \A i \in 1..Len(d \o Tail(t)) : (d \o Tail(t))[i] = u[i]
      BY <2>9, <2>10, <3>1, <3>2
    <3>. QED BY <2>8, <3>1, <3>2, <3>3, SeqEqual
  <2>12. [t EXCEPT ![1] = c] = [t EXCEPT ![1].off = 1]
    BY <2>3, <2>4
  <2>13. Waiting(s) = [After(q, n) EXCEPT ![1].off = 1]
    BY <2>1, <2>6, <2>7, <2>11, <2>12 DEF Waiting, First
  <2>14. LowOnly(s)
    <3>1. \A i \in 1..Len(s.low) : i + 1 \in 1..Len(y) /\ s.low[i] = y[i + 1]
      BY <2>1, <2>3, <2>5, <2>6
    <3>. QED BY <1>9, <3>1 DEF LowOnly
  <2>. QED BY <1>2, <1>10, <1>13, <2>13, <2>14 DEF Left
<1>. QED BY <1>11, <1>12, <1>13

-----------------------------------------------------------------------------
(* Steps after which the packets of an id are in order still.               *)

\* The commands and the senders that remain, for an id; d is 1 when a command has
\* been taken off the pipe.
SendsFrom(x, d) == \A i \in Sends(x)' : i \in Nat /\ i + d \in Sends(x) /\ pipe'[i].p = pipe[i + d].p
SendsOn(x, d) == \A i \in Sends(x) : i \in Nat /\ i - d \in Sends(x)' /\ pipe'[i - d].p = pipe[i].p
ClosesFrom(x, d) == \A i \in Closes(x)' : i \in Nat /\ i + d \in Closes(x)
RequestsFrom(x) == \A t \in Requests(x)' : t \in Requests(x) /\ job'[t] = job[t]
RequestsOn(x) == \A t \in Requests(x) : t \in Requests(x)' /\ job'[t] = job[t]

\* When no packet is accepted none is written, and empty lists are in line.
LEMMA NothingInLine ==
    ASSUME NEW w \in Seq(Packet), Ordered(w, {})
    PROVE  Len(w) = 0 /\ Lined(w, <<>>, {})
<1>1. Len(w) \in Nat
  BY LenProperties
<1>2. Len(w) = 0
  <2>1. ASSUME Len(w) # 0 PROVE FALSE
    <3>1. 1 \in 1..Len(w)
      BY <1>1, <2>1
    <3>. QED BY <3>1 DEF Ordered
  <2>. QED BY <2>1
<1>. QED BY <1>2 DEF Lined

\* With nothing in the lists, a packet is ahead unless it is written.
LEMMA NotWaiting ==
    ASSUME NEW p
    PROVE  ~Waits(<<>>, p)
  BY DEF Waits

\* The packets on their way stay so in a step that moves no packet of the id.
LEMMA ComingStill ==
    ASSUME NEW x \in Id, Coming(x), accepted'[x] = accepted[x],
           \A p : Ahead(x, p) => Ahead(x, p)',
           NEW d \in {0, 1}, SendsFrom(x, d), RequestsFrom(x),
           Taking(x)' => \/ accepted[x] = {}
                         \/ /\ Taking(x) /\ SendsOn(x, d) /\ RequestsOn(x)
                            /\ \A p : Ahead(x, p)' => Ahead(x, p)
    PROVE  Coming(x)'
<1>1. ASSUME NEW i \in Sends(x)'
      PROVE  pipe'[i].p \in accepted'[x] /\ Ahead(x, pipe[i].p)'
  <2>1. PICK j \in Sends(x) : pipe'[i].p = pipe[j].p
    BY DEF SendsFrom
  <2>2. PICK p : p = pipe[j].p
    OBVIOUS
  <2>3. p \in accepted[x] /\ Ahead(x, p)
    BY <2>1, <2>2 DEF Coming
  <2>4. Ahead(x, p)'
    BY <2>3
  <2>. QED BY <2>1, <2>2, <2>3, <2>4 DEF Ahead, Line, Live
<1>2. ASSUME NEW t \in Requests(x)'
      PROVE  job'[t].p \in accepted'[x] /\ Ahead(x, job[t].p)'
  <2>1. t \in Requests(x) /\ job'[t] = job[t]
    BY DEF RequestsFrom
  <2>2. PICK p : p = job[t].p
    OBVIOUS
  <2>3. p \in accepted[x] /\ Ahead(x, p)
    BY <2>1, <2>2 DEF Coming
  <2>4. Ahead(x, p)'
    BY <2>3
  <2>. QED BY <2>1, <2>2, <2>3, <2>4 DEF Ahead, Line, Live
<1>3. ASSUME NEW i \in Sends(x)', NEW j \in Sends(x)', i < j
      PROVE  pipe'[i].p # pipe'[j].p /\ ~Precedes(pipe'[j].p, pipe'[i].p)
  <2>1. /\ i \in Nat /\ j \in Nat /\ i + d \in Sends(x) /\ j + d \in Sends(x)
        /\ pipe'[i].p = pipe[i + d].p /\ pipe'[j].p = pipe[j + d].p
    BY DEF SendsFrom
  <2>2. i + d < j + d
    BY <1>3, <2>1
  <2>. QED BY <2>1, <2>2 DEF Coming
<1>4. ASSUME NEW t \in Requests(x)', NEW i \in Sends(x)'
      PROVE  pipe'[i].p # job'[t].p /\ ~Precedes(job'[t].p, pipe'[i].p)
  <2>1. t \in Requests(x) /\ job'[t] = job[t]
    BY DEF RequestsFrom
  <2>2. PICK j \in Sends(x) : pipe'[i].p = pipe[j].p
    BY DEF SendsFrom
  <2>. QED BY <2>1, <2>2 DEF Coming
<1>5. ASSUME Taking(x)', NEW p \in accepted'[x], Ahead(x, p)'
      PROVE  Sending(x, p)'
  <2>1. /\ Taking(x) /\ SendsOn(x, d) /\ RequestsOn(x) /\ p \in accepted[x] /\ Ahead(x, p)
    BY <1>5
  <2>2. Sending(x, p)
    BY <2>1 DEF Coming
  <2>3. CASE \E i \in Sends(x) : pipe[i].p = p
    <3>1. PICK i \in Sends(x) : pipe[i].p = p
      BY <2>3
    <3>2. i - d \in Sends(x)' /\ pipe'[i - d].p = p
      BY <2>1, <3>1 DEF SendsOn
    <3>. QED BY <3>2 DEF Sending
  <2>4. CASE \E t \in Requests(x) : job[t].p = p
    BY <2>1, <2>4 DEF Sending, RequestsOn
  <2>. QED BY <2>2, <2>3, <2>4 DEF Sending
<1>6. /\ \A i \in Sends(x)' : pipe'[i].p \in accepted'[x] /\ Ahead(x, pipe[i].p)'
      /\ \A t \in Requests(x)' : job'[t].p \in accepted'[x] /\ Ahead(x, job[t].p)'
      /\ \A i, j \in Sends(x)' : i < j =>
            pipe'[i].p # pipe'[j].p /\ ~Precedes(pipe'[j].p, pipe'[i].p)
      /\ \A t \in Requests(x)', i \in Sends(x)' :
            pipe'[i].p # job'[t].p /\ ~Precedes(job'[t].p, pipe'[i].p)
      /\ Taking(x)' =>
            \A p \in accepted'[x] : Ahead(x, p)' => Sending(x, p)'
  BY <1>1, <1>2, <1>3, <1>4, <1>5
<1>. QED BY <1>6 DEF Coming

\* A step that moves no packet of the id keeps them in order.
LEMMA InOrderStill ==
    ASSUME NEW x \in Id, InOrder(x), wire[x] \in Seq(Packet),
           wire'[x] = wire[x], accepted'[x] = accepted[x],
           Live(x)' => \/ Live(x) /\ Line(x)' = Line(x)
                       \/ accepted[x] = {} /\ Line(x)' = <<>>,
           NEW d \in {0, 1}, SendsFrom(x, d), RequestsFrom(x),
           Taking(x)' => \/ accepted[x] = {}
                         \/ Taking(x) /\ SendsOn(x, d) /\ RequestsOn(x)
    PROVE  InOrder(x)'
<1>1. Ordered(wire'[x], accepted'[x])
  BY DEF InOrder
<1>2. ~Live(x)' => Line(x)' = <<>>
  BY DEF Line
<1>3. Taking(x)' => Live(x)'
  BY DEF Taking
<1>4. ASSUME NEW p, Ahead(x, p) PROVE Ahead(x, p)'
  <2>1. ~Wrote(wire'[x], p)
    BY <1>4 DEF Ahead
  <2>2. ~Waits(Line(x)', p)
    BY <1>2, <1>4, NotWaiting DEF Ahead
  <2>. QED BY <2>1, <2>2 DEF Ahead
<1>5. ASSUME Taking(x)', accepted[x] # {}, NEW p, Ahead(x, p)' PROVE Ahead(x, p)
  <2>1. Line(x)' = Line(x)
    BY <1>3, <1>5
  <2>2. ~Wrote(wire'[x], p) /\ ~Waits(Line(x)', p)
    BY <1>5 DEF Ahead
  <2>. QED BY <2>1, <2>2 DEF Ahead
<1>6. Coming(x)'
  <2>1. Coming(x)
    BY DEF InOrder
  <2>. QED BY <1>4, <1>5, <2>1, ComingStill
<1>7. ASSUME Live(x)' PROVE Lined(wire'[x], Line(x)', accepted'[x])
  <2>1. CASE Live(x) /\ Line(x)' = Line(x)
    BY <2>1 DEF InOrder
  <2>2. CASE accepted[x] = {} /\ Line(x)' = <<>>
    <3>1. Ordered(wire[x], {})
      BY <2>2 DEF InOrder
    <3>. QED BY <2>2, <3>1, NothingInLine
  <2>. QED BY <1>7, <2>1, <2>2
<1>8. /\ Ordered(wire'[x], accepted'[x])
      /\ Live(x)' => Lined(wire'[x], Line(x)', accepted'[x])
      /\ Coming(x)'
  BY <1>1, <1>6, <1>7
<1>. QED BY <1>8 DEF InOrder

\* A packet that is written completely stays so.
LEMMA DoneStays ==
    ASSUME NEW w \in Seq(Packet), NEW v \in Seq(Packet), Extends(w, v), NEW p, Done(w, p)
    PROVE  Done(v, p)
<1>1. Len(w) \in Nat /\ Len(v) \in Nat
  BY LenProperties
<1>2. PICK i \in 1..Len(w) : i % 2 = 0 /\ w[i] = p
  BY DEF Done
<1>3. i \in 1..Len(v) /\ v[i] = p
  BY <1>1, <1>2 DEF Extends
<1>. QED BY <1>2, <1>3 DEF Done

\* A packet that is not behind a close command stays so.
LEMMA SettledStill ==
    ASSUME NEW x \in Id, NEW p, Settled(x, p), ~Ahead(x, p) => ~Ahead(x, p)',
           NEW d \in {0, 1}, SendsOn(x, d), ClosesFrom(x, d), Closes(x) \subseteq Nat
    PROVE  Settled(x, p)'
<1>1. CASE ~Ahead(x, p)
  BY <1>1 DEF Settled
<1>2. CASE \E i \in Sends(x) : pipe[i].p = p /\ \A j \in Closes(x) : i < j
  <2>1. PICK i \in Sends(x) : pipe[i].p = p /\ \A j \in Closes(x) : i < j
    BY <1>2
  <2>2. i \in Nat /\ i - d \in Sends(x)' /\ pipe'[i - d].p = p
    BY <2>1 DEF SendsOn
  <2>3. ASSUME NEW j \in Closes(x)' PROVE i - d < j
    <3>1. j \in Nat /\ j + d \in Closes(x)
      BY DEF ClosesFrom
    <3>2. i < j + d
      BY <2>1, <3>1
    <3>. QED BY <2>2, <3>1, <3>2
  <2>. QED BY <2>2, <2>3 DEF Settled
<1>. QED BY <1>1, <1>2 DEF Settled

\* Nothing changes in what a service has sent before it closed the connection.
SameDue(x) ==
    /\ x \in DOMAIN due' <=> x \in DOMAIN due
    /\ x \in DOMAIN due => due'[x] = due[x]

\* A step that closes nothing keeps a close waiting for what was sent before it.
LEMMA GracefulStill ==
    ASSUME NEW x \in Id, Graceful(x), SameDue(x),
           accepted[x] \subseteq accepted'[x],
           wire[x] \in Seq(Packet), wire'[x] \in Seq(Packet), Extends(wire[x], wire'[x]),
           Closes(x)' # {} => Closes(x) # {},
           Live(x)' => \/ accepted[x] = {}
                       \/ /\ Live(x)
                          /\ \A p \in accepted[x] : ~Ahead(x, p) => ~Ahead(x, p)'
                          /\ \A p \in accepted[x] : Settled(x, p) => Settled(x, p)' \/ Closing(x),
           Closing(x)' => DueThere(x),
           Ending(x)' => x \in DOMAIN due /\ \A p \in due[x] : Done(wire'[x], p)
    PROVE  Graceful(x)'
<1>1. Closes(x)' # {} => x \in DOMAIN due'
  BY DEF Graceful, SameDue
<1>2. x \in DOMAIN due' => due'[x] \subseteq accepted'[x]
  BY DEF Graceful, SameDue
<1>3. ASSUME x \in DOMAIN due', Live(x)', NEW p \in due'[x] PROVE Settled(x, p)'
  <2>1. x \in DOMAIN due /\ p \in due[x] /\ p \in accepted[x]
    BY <1>3 DEF Graceful, SameDue
  <2>2. /\ Live(x)
        /\ ~Ahead(x, p) => ~Ahead(x, p)'
        /\ Settled(x, p) => Settled(x, p)' \/ Closing(x)
    BY <1>3, <2>1
  <2>3. Settled(x, p)
    BY <2>1, <2>2 DEF Graceful
  <2>4. CASE Closing(x)
    <3>1. ~Ahead(x, p)
      BY <2>1, <2>4 DEF Graceful, DueThere
    <3>2. ~Ahead(x, p)'
      BY <2>2, <3>1
    <3>. QED BY <3>2 DEF Settled
  <2>. QED BY <2>2, <2>3, <2>4
<1>4. ASSUME Closing(x)' PROVE x \in DOMAIN due' /\ \A p \in due'[x] : ~Ahead(x, p)'
  <2>1. Live(x)'
    BY <1>4 DEF Closing
  <2>2. x \in DOMAIN due /\ \A p \in due[x] : ~Ahead(x, p) /\ p \in accepted[x]
    BY <1>4 DEF Graceful, DueThere
  <2>. QED BY <2>1, <2>2 DEF SameDue
<1>5. ASSUME Ending(x)' PROVE x \in DOMAIN due' /\ \A p \in due'[x] : Done(wire'[x], p)
  BY <1>5 DEF SameDue
<1>6. /\ Closes(x)' # {} => x \in DOMAIN due'
      /\ x \in DOMAIN due' => due'[x] \subseteq accepted'[x]
      /\ x \in DOMAIN due' /\ Live(x)' => \A p \in due'[x] : Settled(x, p)'
      /\ Closing(x)' => x \in DOMAIN due' /\ \A p \in due'[x] : ~Ahead(x, p)'
      /\ Ending(x)' => x \in DOMAIN due' /\ \A p \in due'[x] : Done(wire'[x], p)
  BY <1>1, <1>2, <1>3, <1>4, <1>5
<1>7. /\ Closing(x)' => DueThere(x)'
      /\ Ending(x)' => DueDone(x)'
  BY <1>6 DEF DueThere, DueDone
<1>. QED BY <1>6, <1>7 DEF Graceful

\* What a step does to a slot, as far as its line of packets goes.
SameLine(r, s) ==
    /\ r.type \notin Dead /\ s.type \notin Dead
    /\ s.id = r.id /\ Waiting(s) = Waiting(r) /\ (r.closing => s.closing)
    /\ s.closing => r.closing \/ DueThere(r.id)

\* A step that breaks the connection, or leaves the socket, or ends or opens one.
Calm(r, s) ==
    \/ s.id = r.id /\ s.id \in broken'
    \/ r.type \in Dead /\ s.type \in Dead
    \/ SameLine(r, s)
    \/ /\ r.type \in Dead /\ s.id \notin opened
       /\ ~s.closing /\ Waiting(s) = <<>>
    \/ r.type \notin Dead /\ s.type \in Dead /\ s.id = r.id
       /\ pc = "force" /\ slot[doomed.s].id = r.id

\* What a step does to the slot of an id that is not broken, or to another socket there.
CalmFor(x) ==
    \/ Calm(slot[HASH_ID(x)], slot'[HASH_ID(x)])
    \/ slot[HASH_ID(x)].id # x /\ slot'[HASH_ID(x)].id # x

\* After a step that is calm for an id its line is the one before, or new and empty,
\* and it is gone only where its ending was complete.
LEMMA CalmFacts ==
    ASSUME Inv, NEW x \in Id \ broken', CalmFor(x)
    PROVE  /\ Live(x)' => \/ /\ Live(x) /\ Line(x)' = Line(x) /\ (Closing(x) => Closing(x)')
                             /\ Closing(x)' => Closing(x) \/ DueThere(x)
                          \/ x \notin opened /\ Line(x)' = <<>> /\ ~Closing(x)'
           /\ Live(x) /\ ~Live(x)' => Ending(x)
<1>1. PICK k \in Slot : k = HASH_ID(x)
  BY HashType DEF Id
<1>2. PICK r, s : r = slot[k] /\ s = slot'[k]
  OBVIOUS
<1>3. /\ Live(x) <=> r.id = x /\ r.type \notin Dead
      /\ Live(x)' <=> s.id = x /\ s.type \notin Dead
  BY <1>1, <1>2 DEF Live, Dead
<1>4. /\ Live(x) => Line(x) = Waiting(r)
      /\ Live(x)' => Line(x)' = Waiting(s)
      /\ Closing(x) <=> Live(x) /\ r.closing
      /\ Closing(x)' <=> Live(x)' /\ s.closing
  BY <1>1, <1>2 DEF Line, Closing, Waiting, First
<1>5. Calm(r, s) \/ (r.id # x /\ s.id # x)
  BY <1>1, <1>2 DEF CalmFor
<1>6. /\ Live(x)' => \/ /\ Live(x) /\ Line(x)' = Line(x) /\ (Closing(x) => Closing(x)')
                        /\ Closing(x)' => Closing(x) \/ DueThere(x)
                     \/ x \notin opened /\ Line(x)' = <<>> /\ ~Closing(x)'
  BY <1>3, <1>4, <1>5 DEF Calm, SameLine
<1>7. Live(x) /\ ~Live(x)' => pc = "force" /\ slot[doomed.s].id = x
  BY <1>3, <1>5 DEF Calm, SameLine
<1>. QED BY <1>6, <1>7 DEF Ending

\* At most one command has been taken, and none of its packets or closes.
PipeFor(x) == \E d \in {0, 1} : SendsFrom(x, d) /\ SendsOn(x, d) /\ ClosesFrom(x, d)

\* What an action does to the pipe: nothing, one command taken or one put.
LEMMA PipeFlow ==
    ASSUME pipe \in Seq(Cmd), NEW x,
           \/ pipe' = pipe
           \/ pipe # <<>> /\ pipe' = Tail(pipe) /\ ~(Head(pipe).cmd = "send" /\ Head(pipe).id = x)
           \/ \E c \in Cmd : /\ pipe' = Append(pipe, c)
                             /\ ~(c.cmd \in {"send", "close"} /\ c.id = x)
    PROVE  PipeFor(x)
<1>1. DOMAIN pipe = 1..Len(pipe) /\ Len(pipe) \in Nat
  BY LenProperties
<1>2. CASE pipe' = pipe
  <2>1. \A i \in DOMAIN pipe : i \in Nat /\ i + 0 = i /\ i - 0 = i
    BY <1>1
  <2>2. SendsFrom(x, 0) /\ SendsOn(x, 0) /\ ClosesFrom(x, 0)
    BY <1>2, <2>1 DEF SendsFrom, SendsOn, ClosesFrom, Sends, Closes
  <2>. QED BY <2>2 DEF PipeFor
<1>3. CASE pipe # <<>> /\ pipe' = Tail(pipe) /\ ~(Head(pipe).cmd = "send" /\ Head(pipe).id = x)
  <2>1. /\ Head(pipe) = pipe[1]
        /\ \A i \in DOMAIN pipe' :
                i \in Nat /\ i + 1 \in DOMAIN pipe /\ pipe'[i] = pipe[i + 1]
        /\ \A i \in DOMAIN pipe \ {1} : i - 1 \in DOMAIN pipe'
    BY <1>3, PipeTaken
  <2>2. SendsFrom(x, 1) /\ ClosesFrom(x, 1)
    BY <2>1 DEF SendsFrom, ClosesFrom, Sends, Closes
  <2>3. ASSUME NEW i \in Sends(x)
        PROVE  i \in Nat /\ i - 1 \in Sends(x)' /\ pipe'[i - 1].p = pipe[i].p
    <3>a. i \in DOMAIN pipe /\ i # 1
      BY <1>3, <2>1 DEF Sends
    <3>1. i \in DOMAIN pipe /\ i \in Nat /\ i # 1 /\ i - 1 + 1 = i
      BY <1>1, <3>a
    <3>2. i - 1 \in DOMAIN pipe' /\ pipe'[i - 1] = pipe[i]
      BY <2>1, <3>1
    <3>. QED BY <3>1, <3>2 DEF Sends
  <2>4. SendsOn(x, 1)
    BY <2>3 DEF SendsOn
  <2>. QED BY <2>2, <2>4 DEF PipeFor
<1>4. ASSUME NEW c \in Cmd, pipe' = Append(pipe, c), ~(c.cmd \in {"send", "close"} /\ c.id = x)
      PROVE  PipeFor(x)
  <2>1. PICK n : /\ DOMAIN pipe' = DOMAIN pipe \cup {n} /\ pipe'[n] = c
                 /\ \A i \in DOMAIN pipe : pipe'[i] = pipe[i]
    <3>1. /\ DOMAIN pipe' = DOMAIN pipe \cup {Len(pipe) + 1} /\ pipe'[Len(pipe) + 1] = c
          /\ \A i \in DOMAIN pipe : pipe'[i] = pipe[i]
      BY <1>4, PipeAsked
    <3>. QED BY <3>1, Zenon
  <2>2. \A i \in DOMAIN pipe : i \in Nat /\ i + 0 = i /\ i - 0 = i
    BY <1>1
  <2>3. Sends(x)' = Sends(x) /\ Closes(x)' = Closes(x)
    BY <1>4, <2>1 DEF Sends, Closes
  <2>4. \A i \in Sends(x) \cup Closes(x) : i \in DOMAIN pipe
    BY DEF Sends, Closes
  <2>5. SendsFrom(x, 0) /\ SendsOn(x, 0) /\ ClosesFrom(x, 0)
    BY <2>1, <2>2, <2>3, <2>4 DEF SendsFrom, SendsOn, ClosesFrom
  <2>. QED BY <2>5 DEF PipeFor
<1>. QED BY <1>2, <1>3, <1>4

\* The same services are about to ask for a send.
SameRequests(x) == RequestsFrom(x) /\ RequestsOn(x)

\* A connection is open when it has been, or has just become so; and force_close
\* does not begin to end it.
SameLife(x) ==
    /\ x \in opened' => x \in opened \/ Live(x)'
    /\ pc' = "force" /\ slot'[doomed'.s].id = x => Ending(x) \/ DueDone(x)

\* A calm step of an id keeps its packets in order and its closes graceful.
LEMMA CalmStill ==
    ASSUME Inv, LineInv, NEW x \in Id \ (broken \cup broken'),
           wire'[x] = wire[x], accepted'[x] = accepted[x], SameDue(x),
           CalmFor(x), PipeFor(x), SameRequests(x), SameLife(x)
    PROVE  InOrder(x)' /\ Graceful(x)'
<1>1. InOrder(x) /\ Graceful(x) /\ wire[x] \in Seq(Packet)
  BY DEF LineInv, Kinds
<1>2. PICK d \in {0, 1} : SendsFrom(x, d) /\ SendsOn(x, d) /\ ClosesFrom(x, d)
  BY DEF PipeFor
<1>3. /\ Live(x)' => \/ /\ Live(x) /\ Line(x)' = Line(x) /\ (Closing(x) => Closing(x)')
                        /\ Closing(x)' => Closing(x) \/ DueThere(x)
                     \/ x \notin opened /\ Line(x)' = <<>> /\ ~Closing(x)'
      /\ Live(x) /\ ~Live(x)' => Ending(x)
  BY CalmFacts
<1>4. x \notin opened => accepted[x] = {}
  BY DEF LineInv, Kinds
<1>5. /\ Taking(x) <=> Live(x) /\ ~Closing(x)
      /\ Taking(x)' <=> Live(x)' /\ ~Closing(x)'
  BY DEF Taking, Closing, Live
<1>6. InOrder(x)'
  BY <1>1, <1>2, <1>3, <1>4, <1>5, InOrderStill DEF SameRequests
<1>7. Live(x)' => Live(x) \/ accepted[x] = {}
  BY <1>3, <1>4
<1>8. ASSUME Live(x)', accepted[x] # {}, NEW p
      PROVE  /\ ~Ahead(x, p) => ~Ahead(x, p)'
             /\ Settled(x, p) => Settled(x, p)'
  <2>1. Line(x)' = Line(x)
    BY <1>3, <1>4, <1>8
  <2>2. Ahead(x, p)' <=> Ahead(x, p)
    <3>1. Ahead(x, p)' <=> ~Wrote(wire'[x], p) /\ ~Waits(Line(x)', p)
      BY DEF Ahead
    <3>2. Ahead(x, p) <=> ~Wrote(wire[x], p) /\ ~Waits(Line(x), p)
      BY DEF Ahead
    <3>. QED BY <2>1, <3>1, <3>2
  <2>3. Closes(x) \subseteq Nat
    BY LenProperties DEF Closes, Inv, Types, ThreadTypes
  <2>. QED BY <1>2, <2>2, <2>3, SettledStill
<1>9. Closes(x)' # {} => Closes(x) # {}
  BY <1>2 DEF ClosesFrom
<1>10. Closing(x)' => DueThere(x)
  <2>1. Closing(x) => DueThere(x)
    BY <1>1 DEF Graceful
  <2>. QED BY <1>3, <2>1 DEF Closing
<1>11. Ending(x)' => Ending(x) \/ DueDone(x)
  <2>1. CASE pc' = "force" /\ slot'[doomed'.s].id = x
    BY <2>1 DEF SameLife
  <2>2. CASE x \in opened' /\ ~Live(x)'
    <3>1. x \in opened
      BY <2>2 DEF SameLife
    <3>2. CASE Live(x)
      BY <1>3, <2>2, <3>2
    <3>3. CASE ~Live(x)
      BY <3>1, <3>3 DEF Ending
    <3>. QED BY <3>2, <3>3
  <2>3. Ending(x)' => \/ pc' = "force" /\ slot'[doomed'.s].id = x
                      \/ x \in opened' /\ ~Live(x)'
    BY DEF Ending
  <2>. QED BY <2>1, <2>2, <2>3
<1>12. Extends(wire[x], wire'[x])
  <2>1. Len(wire[x]) \in Nat
    BY <1>1, LenProperties
  <2>. QED BY <2>1 DEF Extends
<1>a. Ending(x)' => x \in DOMAIN due /\ \A p \in due[x] : Done(wire'[x], p)
  BY <1>1, <1>11 DEF Graceful, DueDone
<1>13. Graceful(x)'
  BY <1>1, <1>7, <1>8, <1>9, <1>10, <1>12, <1>a, GracefulStill
<1>. QED BY <1>6, <1>13

\* What a step has to show for the second invariant, apart from the packets' numbers.
LineStep ==
    /\ \A k \in Slot : Kind(slot[k])'
    /\ \A x \in Id \ broken' : InOrder(x)' /\ Graceful(x)'

\* Nothing is written, accepted, or sent on its way.
CalmVars ==
    /\ UNCHANGED <<wire, accepted, due>> /\ broken \subseteq broken'
    /\ \/ pipe' = pipe
       \/ pipe # <<>> /\ pipe' = Tail(pipe) /\ Head(pipe).cmd # "send"
       \/ \E c \in Cmd : pipe' = Append(pipe, c) /\ c.cmd \notin {"send", "close"}
    /\ \A t \in Sender : /\ at'[t] = "request" <=> at[t] = "request"
                         /\ at[t] = "request" => job'[t] = job[t]
    /\ \/ pc' # "force" \/ UNCHANGED <<pc, doomed>>
       \/ slot'[doomed'.s].id \in broken' \/ DueDone(slot'[doomed'.s].id)

\* A step that changes one slot keeps the kinds of the others.
LEMMA KindsElsewhere ==
    ASSUME Inv, LineInv, NEW k \in Slot, Elsewhere(k), broken \subseteq broken',
           \A y \in opened' : y \in opened \/ HASH_ID(y) = k
    PROVE  \A j \in Slot \ {k} : Kind(slot[j])'
<1>. SUFFICES ASSUME NEW j \in Slot \ {k} PROVE Kind(slot[j])'
  OBVIOUS
<1>1. PICK r \in Record : r = slot[j] /\ r = slot'[j]
  BY DEF Elsewhere, Inv, Types
<1>2. Kind(r)
  BY <1>1 DEF LineInv, Kinds
<1>3. r.type \in {"PACCEPT", "PLISTEN", "LISTEN"} => HASH_ID(r.id) = j
  BY <1>1, UseFacts DEF Inv, Placed, SlotPlaced, Dead
<1>4. Kind(r)'
  BY <1>2, <1>3 DEF Kind
<1>. QED BY <1>1, <1>4 DEF Kind, LowOnly

\* Steps that leave the senders alone leave the requests.
LEMMA CalmRequests ==
    ASSUME CalmVars, NEW x
    PROVE  SameRequests(x)
  BY DEF CalmVars, SameRequests, RequestsFrom, RequestsOn, Requests

\* Steps that leave the pipe alone leave the commands.
LEMMA CalmPipe ==
    ASSUME Inv, CalmVars, NEW x
    PROVE  PipeFor(x)
  BY PipeFlow DEF CalmVars, Inv, Types, ThreadTypes

\* Steps that leave due alone leave what is due.
LEMMA CalmDue ==
    ASSUME CalmVars, NEW x
    PROVE  SameDue(x) /\ wire'[x] = wire[x] /\ accepted'[x] = accepted[x]
  BY DEF CalmVars, SameDue

\* A step that changes one slot calmly keeps LineInv.
LEMMA CalmSlot ==
    ASSUME Inv, LineInv, CalmVars, NEW k \in Slot, NEW r, SetSlot(k, r),
           Calm(slot[k], r), Kind(r)',
           \A y \in opened' : y \in opened \/ (y = r.id /\ HASH_ID(y) = k /\ r.type \notin Dead)
    PROVE  LineStep
<1>1. slot'[k] = r /\ \A j \in Slot \ {k} : slot'[j] = slot[j]
  BY DEF SetSlot, Inv, Types
<1>2. \A j \in Slot : Kind(slot[j])'
  <2>1. \A j \in Slot \ {k} : Kind(slot[j])'
    BY <1>1, KindsElsewhere DEF Elsewhere, CalmVars
  <2>2. Kind(slot[k])'
    BY <1>1 DEF Kind, LowOnly
  <2>. QED BY <2>1, <2>2
<1>3. \A j \in Slot : Calm(slot[j], slot'[j])
  BY <1>1 DEF Calm, SameLine
<1>4. ASSUME NEW x \in Id \ broken' PROVE InOrder(x)' /\ Graceful(x)'
  <2>1. HASH_ID(x) \in Slot /\ x \in Id \ (broken \cup broken')
    BY HashType DEF Id, CalmVars
  <2>2. CalmFor(x)
    BY <1>3, <2>1 DEF CalmFor
  <2>3. x \in opened' => x \in opened \/ Live(x)'
    BY <1>1 DEF Live, Dead
  <2>4. ASSUME pc' = "force", slot'[doomed'.s].id = x, ~DueDone(x) PROVE Ending(x)
    <3>1. pc = "force" /\ doomed' = doomed
      BY <2>4 DEF CalmVars, DueDone
    <3>2. PICK d \in Slot : d = doomed.s
      BY <3>1 DEF Inv, Types, ThreadTypes, Doom
    <3>3. slot[d].type \notin Dead
      BY <3>1, <3>2 DEF Inv, Forced
    <3>4. slot'[d].id = slot[d].id
      BY <1>3, <3>3 DEF Calm, SameLine
    <3>. QED BY <2>4, <3>1, <3>2, <3>4 DEF Ending
  <2>5. SameLife(x)
    BY <2>3, <2>4 DEF SameLife
  <2>. QED BY <2>1, <2>2, <2>5, CalmRequests, CalmPipe, CalmDue, CalmStill
<1>. QED BY <1>2, <1>4 DEF LineStep

\* A calm step that changes no slot keeps LineInv.
LEMMA CalmNoSlot ==
    ASSUME Inv, LineInv, CalmVars, slot' = slot, opened' = opened
    PROVE  LineStep
<1>1. 0 \in Slot
  BY SocketAssumption DEF Slot
<1>2. PICK r : r = slot[0]
  OBVIOUS
<1>3. SetSlot(0, r)
  BY <1>1, <1>2 DEF SetSlot, Inv, Types
<1>4. Calm(slot[0], r)
  BY <1>2 DEF Calm, SameLine
<1>5. Kind(r)'
  <2>1. Kind(r)
    BY <1>1, <1>2 DEF LineInv, Kinds
  <2>. QED BY <2>1 DEF Kind, CalmVars
<1>. QED BY <1>1, <1>3, <1>4, <1>5, CalmSlot

\* The same packets wait in r and in s.
SameLists(r, s) == s.high = r.high /\ s.low = r.low /\ s.dw_buffer = r.dw_buffer

\* Slots with the same lists have the same packets waiting.
LEMMA ListsWait ==
    ASSUME NEW r, NEW s, SameLists(r, s)
    PROVE  Waiting(s) = Waiting(r) /\ (LowOnly(r) => LowOnly(s))
  BY DEF SameLists, Waiting, First, LowOnly

\* A slot that stays the same socket, with the same packets.
LEMMA AlikeCalm ==
    ASSUME Inv, LineInv, NEW k \in Slot, NEW r, r = slot[k], NEW s,
           SameLists(r, s), s.id = r.id, s.type = r.type, s.closing = r.closing,
           opened' = opened, broken \subseteq broken'
    PROVE  Calm(r, s) /\ Kind(s)'
<1>1. Kind(r) /\ Waiting(s) = Waiting(r) /\ (LowOnly(r) => LowOnly(s))
  BY ListsWait DEF LineInv, Kinds
<1>. QED BY <1>1 DEF Calm, SameLine, Kind

\* start, pause and shutdown put a command on the pipe that moves no packet.
LEMMA AskLine ==
    ASSUME Inv, LineInv, NEW t \in Sender, StartPause(t) \/ Shutdown(t)
    PROVE  LineStep
<1>1. \E id \in 1..alloc_id, c \in Late \ {"close"} : pipe' = Append(pipe, [cmd |-> c, id |-> id])
  <2>. USE DEF Request, Known, Late, Control, Opening
  <2>1. CASE StartPause(t)
    BY <2>1 DEF StartPause
  <2>2. CASE Shutdown(t)
    BY <2>2 DEF Shutdown
  <2>. QED BY <2>1, <2>2
<1>2. \E c \in Cmd : pipe' = Append(pipe, c) /\ c.cmd \notin {"send", "close"}
  <2>1. PICK id \in 1..alloc_id, c \in Late \ {"close"} : pipe' = Append(pipe, [cmd |-> c, id |-> id])
    BY <1>1
  <2>2. PICK m \in Cmd : m = [cmd |-> c, id |-> id]
    BY CommandTypes DEF Inv, Types, ThreadTypes
  <2>. QED BY <2>1, <2>2 DEF Late, Control, Opening
<1>3. /\ UNCHANGED <<slot, opened, wire, accepted, due, pc, doomed, at, job>>
      /\ broken \subseteq broken'
  BY DEF StartPause, Shutdown, sendVars
<1>4. CalmVars
  BY <1>2, <1>3 DEF CalmVars
<1>. QED BY <1>3, <1>4, CalmNoSlot

\* The trigger command of a direct write moves no packet.
LEMMA TriggerRequestLine ==
    ASSUME Inv, LineInv, NEW t \in Sender, TriggerRequest(t)
    PROVE  LineStep
<1>1. /\ at[t] = "trigger" /\ UNCHANGED <<slot, opened, wire, accepted, due, broken, pc, doomed>>
      /\ pipe' = Append(pipe, [cmd |-> "trigger", id |-> job[t].id])
      /\ at' = [at EXCEPT ![t] = "idle"] /\ job' = [job EXCEPT ![t] = NULL]
  BY DEF TriggerRequest, At, Request, history
<1>2. job[t].id \in 1..alloc_id /\ "trigger" \in Late /\ alloc_id \in 0..MaxId
  <2>1. job[t].id \in opened /\ job[t].id \in Id /\ alloc_id \in 0..MaxId
    BY <1>1 DEF Inv, Types, ThreadTypes, SenderTypes, Sent
  <2>2. job[t].id <= alloc_id
    BY <2>1 DEF Inv, Sent
  <2>. QED
    BY <2>1, <2>2 DEF Id, Late, Control, Opening
<1>3. PICK m \in Cmd : m = [cmd |-> "trigger", id |-> job[t].id]
  BY <1>2, CommandTypes
<1>4. CalmVars
  BY <1>1, <1>3 DEF CalmVars, Inv, Types, SenderTypes
<1>. QED BY <1>1, <1>4, CalmNoSlot

\* reserve_id takes a free slot, whose lists are empty.
LEMMA ReserveTypeLine ==
    ASSUME Inv, LineInv, NEW t \in Sender, ReserveType(t)
    PROVE  LineStep
<1>1. PICK id \in Id :
        /\ Reservable(id)
        /\ SetSlot(HASH_ID(id), [slot[HASH_ID(id)] EXCEPT !.type = "RESERVE"])
  BY DEF ReserveType
<1>2. UNCHANGED <<pipe, opened, wire, accepted, due, broken, pc, doomed, at, job>>
  BY DEF ReserveType
<1>3. PICK k \in Slot : k = HASH_ID(id)
  BY HashType DEF Id
<1>4. PICK q \in Record : q = slot[k]
  BY DEF Inv, Types
<1>. DEFINE r == [q EXCEPT !.type = "RESERVE"]
<1>5. r.type = "RESERVE" /\ SameLists(q, r) /\ q.type = "INVALID"
  BY <1>1, <1>3, <1>4 DEF Record, SameLists, Reservable
<1>6. SetSlot(k, r)
  BY <1>1, <1>3, <1>4
<1>. HIDE DEF r
<1>7. Calm(slot[k], r) /\ Kind(r)'
  <2>1. LowOnly(r)
    BY <1>4, <1>5, ListsWait DEF LineInv, Kinds, Kind
  <2>. QED BY <1>4, <1>5, <2>1 DEF Calm, Dead, Kind
<1>8. CalmVars
  BY <1>2 DEF CalmVars
<1>. QED BY <1>2, <1>6, <1>7, <1>8, CalmSlot

\* The slot gets its new id.
LEMMA ReserveIdLine ==
    ASSUME Inv, LineInv, NEW t \in Sender, ReserveId(t)
    PROVE  LineStep
<1>1. PICK id \in Id : /\ id = reserving[t].id /\ slot[HASH_ID(id)].type = "RESERVE"
                       /\ HASH_ID(id) \in Slot
  BY TicketType DEF ReserveId, Reserving, Inv, Tickets, Ticketed
<1>2. UNCHANGED <<pipe, opened, wire, accepted, due, broken, pc, doomed, at, job>>
  BY DEF ReserveId, history
<1>3. PICK k \in Slot : k = HASH_ID(id)
  BY <1>1
<1>4. PICK q \in Record : q = slot[k]
  BY DEF Inv, Types
<1>. DEFINE r == [q EXCEPT !.id = id, !.protocol = "UNKNOWN"]
<1>5. r.type = "RESERVE" /\ SameLists(q, r) /\ q.type = "RESERVE"
  BY <1>1, <1>3, <1>4 DEF Record, SameLists
<1>6. SetSlot(k, r)
  BY <1>1, <1>3, <1>4 DEF ReserveId
<1>. HIDE DEF r
<1>7. Calm(slot[k], r) /\ Kind(r)'
  <2>1. LowOnly(r)
    BY <1>4, <1>5, ListsWait DEF LineInv, Kinds, Kind
  <2>. QED BY <1>4, <1>5, <2>1 DEF Calm, Dead, Kind
<1>8. CalmVars
  BY <1>2 DEF CalmVars
<1>. QED BY <1>2, <1>6, <1>7, <1>8, CalmSlot

\* The command that opens it goes on the pipe.
LEMMA OpenRequestLine ==
    ASSUME Inv, LineInv, NEW t \in Sender, OpenRequest(t)
    PROVE  LineStep
<1>1. PICK id \in Id, kind \in Opening : /\ id = reserving[t].id /\ kind = reserving[t].cmd
                                        /\ Request([cmd |-> kind, id |-> id])
  BY TicketType DEF OpenRequest, Reserving, Inv
<1>2. UNCHANGED <<slot, opened, wire, accepted, due, broken, pc, doomed, at, job>>
  BY DEF OpenRequest, history
<1>3. PICK c \in Cmd : c = [cmd |-> kind, id |-> id]
  <2>1. [cmd |-> kind, id |-> id] \in Cmd
    BY DEF Cmd, Control, Opening
  <2>. QED BY <2>1
<1>4. pipe' = Append(pipe, c) /\ c.cmd \notin {"send", "close"}
  BY <1>1, <1>3 DEF Request, Opening
<1>5. CalmVars
  BY <1>2, <1>4 DEF CalmVars
<1>. QED BY <1>2, <1>5, CalmNoSlot

\* A packet that a service has in its hand is not accepted yet.
LEMMA SendLine ==
    ASSUME Inv, LineInv, NEW t \in Sender, Send(t)
    PROVE  LineStep
<1>1. /\ UNCHANGED <<pipe, opened, wire, accepted, due, broken, pc, doomed>>
      /\ at[t] = "idle"
  BY DEF Send, Call, At
<1>2. PICK id \in 1..alloc_id : /\ \E p \in {"locked", "inc"} : at' = [at EXCEPT ![t] = p]
                                /\ \E n : job' = [job EXCEPT ![t] = n]
                                /\ \/ slot' = slot
                                   \/ slot' = [slot EXCEPT ![HASH_ID(id)].dw_lock = t]
  BY DEF Send, Known
<1>3. CalmVars
  BY <1>1, <1>2 DEF CalmVars, Inv, Types, SenderTypes
<1>4. CASE slot' = slot
  BY <1>1, <1>3, <1>4, CalmNoSlot
<1>5. CASE slot' = [slot EXCEPT ![HASH_ID(id)].dw_lock = t]
  <2>1. PICK k \in Slot : k = HASH_ID(id)
    BY HashType DEF Inv, Types, ThreadTypes
  <2>2. PICK q \in Record : q = slot[k]
    BY DEF Inv, Types
  <2>. DEFINE r == [q EXCEPT !.dw_lock = t]
  <2>3. SameLists(q, r) /\ r.id = q.id /\ r.type = q.type /\ r.closing = q.closing
    BY DEF Record, SameLists
  <2>4. SetSlot(k, r)
    BY <1>5, <2>1, <2>2 DEF SetSlot, Inv, Types
  <2>. HIDE DEF r
  <2>5. Calm(slot[k], r) /\ Kind(r)'
    BY <1>1, <2>2, <2>3, AlikeCalm
  <2>. QED BY <1>1, <1>3, <2>4, <2>5, CalmSlot
<1>. QED BY <1>2, <1>4, <1>5

\* new_fd makes a socket with empty lists.
LEMMA NewFdCalm ==
    ASSUME Inv, NEW k \in Slot, NEW q, q = slot[k], q.type \in Dead, NEW id \in Id \ opened,
           NEW type \in Type, NEW reading \in BOOLEAN, NEW writing \in BOOLEAN,
           NEW r, r = NewFd(q, id, type, reading, writing)
    PROVE  Calm(q, r) /\ LowOnly(r) /\ r.id = id /\ r.type = type
<1>1. q \in Record /\ send_buffer_empty(q)
  BY DEF Inv, Types, Placed, SlotPlaced
<1>2. /\ r \in Record /\ r.id = id /\ r.type = type /\ ~r.closing
      /\ r.dw_buffer = NULL /\ r.high = q.high /\ r.low = q.low
  BY <1>1, NewFdFields
<1>3. send_buffer_empty(r) /\ r.low = <<>>
  BY <1>1, <1>2 DEF send_buffer_empty
<1>4. Waiting(r) = <<>> /\ LowOnly(r)
  BY <1>2, <1>3, WaitingNone DEF LowOnly
<1>. QED BY <1>2, <1>4 DEF Calm

\* Commands that neither close a socket nor send.
LEMMA CommandCalm ==
    ASSUME Inv, NEW c, Command(c), c # "send", UNCHANGED <<wire, accepted, due, broken, pc, at, job>>
    PROVE  CalmVars
<1>1. pipe # <<>> /\ Head(pipe).cmd = c /\ pipe' = Tail(pipe) /\ pc = "poll"
  BY CommandFacts
<1>. QED BY <1>1 DEF CalmVars

\* open_socket and listen_socket.
LEMMA OpenLine ==
    ASSUME Inv, LineInv, OpenSocket \/ ListenSocket
    PROVE  LineStep
<1>1. PICK c : Command(c) /\ c \in Opening
  BY DEF OpenSocket, ListenSocket, Opening
<1>2. CalmVars
  <2>1. c # "send" /\ UNCHANGED <<wire, accepted, due, broken, pc, at, job>>
    BY <1>1 DEF Opening, OpenSocket, ListenSocket, sendVars, history
  <2>. QED BY <1>1, <2>1, CommandCalm
<1>3. pipe # <<>> /\ Head(pipe).cmd \in Opening /\ k_ \in Slot /\ id_ \in Id
  BY <1>1, CommandFacts
<1>4. PICK k \in Slot, id \in Id : k = k_ /\ id = id_
  BY <1>3
<1>5. PICK q \in Record : q = slot[k]
  BY DEF Inv, Types
<1>6. q.type = "RESERVE" /\ q.id = id /\ Use(k) = "RESERVE"
  BY <1>3, <1>4, <1>5, OpenFinds
<1>7. id \notin opened /\ HASH_ID(id) = k
  BY <1>5, <1>6 DEF Inv, Placed, SlotPlaced
<1>8. ASSUME NEW type \in {"CONNECTED", "CONNECTING", "PLISTEN"}, NEW reading \in BOOLEAN,
             NEW writing \in BOOLEAN,
             SetSlot(k_, NewFd(slot[k_], id_, type, reading, writing)),
             opened' = opened \/ (type = "CONNECTED" /\ opened' = opened \cup {id_})
      PROVE  LineStep
  <2>1. PICK r : r = NewFd(q, id, type, reading, writing)
    OBVIOUS
  <2>2. SetSlot(k, r)
    BY <1>4, <1>5, <1>8, <2>1
  <2>3. Calm(q, r) /\ LowOnly(r) /\ r.id = id /\ r.type = type
    BY <1>5, <1>6, <1>7, <2>1, NewFdCalm DEF Dead, Type
  <2>4. Kind(r)'
    BY <1>4, <1>7, <1>8, <2>3 DEF Kind
  <2>5. \A y \in opened' : y \in opened \/ (y = r.id /\ HASH_ID(y) = k /\ r.type \notin Dead)
    BY <1>4, <1>7, <1>8, <2>3 DEF Dead
  <2>. QED BY <1>2, <1>5, <2>2, <2>3, <2>4, <2>5, CalmSlot
<1>9. PICK yes \in BOOLEAN, no \in BOOLEAN : yes = TRUE /\ no = FALSE
  OBVIOUS
<1>a. ASSUME SetSlot(k, [q EXCEPT !.type = "INVALID"]), opened' = opened PROVE LineStep
  <2>. DEFINE r == [q EXCEPT !.type = "INVALID"]
  <2>1. r.type = "INVALID" /\ SameLists(q, r)
    BY DEF Record, SameLists
  <2>2. SetSlot(k, r)
    BY <1>a
  <2>. HIDE DEF r
  <2>3. Calm(q, r)
    BY <1>6, <2>1 DEF Calm, Dead
  <2>4. Kind(r)'
    BY <1>5, <2>1, ListsWait DEF Kind, LineInv, Kinds
  <2>. QED BY <1>2, <1>5, <1>a, <2>2, <2>3, <2>4, CalmSlot
<1>10. CASE OpenSocket
  <2>1. \/ /\ SetSlot(k_, NewFd(slot[k_], id_, "CONNECTED", yes, no))
           /\ opened' = opened \cup {id_}
        \/ SetSlot(k_, NewFd(slot[k_], id_, "CONNECTING", yes, yes)) /\ opened' = opened
        \/ SetSlot(k, [q EXCEPT !.type = "INVALID"]) /\ opened' = opened
    BY <1>4, <1>5, <1>9, <1>10 DEF OpenSocket
  <2>. QED BY <1>8, <1>a, <2>1
<1>11. CASE ListenSocket
  <2>1. /\ opened' = opened
        /\ \/ SetSlot(k_, NewFd(slot[k_], id_, "PLISTEN", no, no))
           \/ SetSlot(k, [q EXCEPT !.type = "INVALID"])
    BY <1>4, <1>5, <1>9, <1>11 DEF ListenSocket, history
  <2>. QED BY <1>8, <1>a, <2>1
<1>. QED BY <1>10, <1>11

\* resume_socket.
LEMMA ResumeLine ==
    ASSUME Inv, LineInv, ~Crosses, ResumeSocket
    PROVE  LineStep
<1>1. Command("start") /\ UNCHANGED <<wire, accepted, due, broken, pc, at, job>>
  BY DEF ResumeSocket, sendVars
<1>2. CalmVars
  BY <1>1, CommandCalm
<1>3. /\ k_ \in Slot /\ id_ \in Id /\ pipe # <<>> /\ pipe' = Tail(pipe)
      /\ Head(pipe).cmd \notin Opening
  BY <1>1, CommandFacts DEF Opening
<1>4. PICK k \in Slot, id \in Id : k = k_ /\ id = id_
  BY <1>3
<1>5. PICK q \in Record : q = slot[k]
  BY DEF Inv, Types
<1>. DEFINE r == [q EXCEPT !.reading = TRUE]
            s == CASE r.type = "PACCEPT" -> [r EXCEPT !.type = "CONNECTED"]
                   [] r.type = "PLISTEN" -> [r EXCEPT !.type = "LISTEN"]
                   [] OTHER -> r
<1>6. \/ UNCHANGED <<slot, opened>>
      \/ /\ SetSlot(k, s) /\ ~socket_invalid(k, id)
         /\ opened' = IF r.type \in {"PACCEPT", "CONNECTED"}
                      THEN opened \cup {id} ELSE opened
  BY <1>4, <1>5 DEF ResumeSocket
<1>7. r \in Record /\ SameLists(q, r) /\ r.type = q.type /\ r.id = q.id /\ r.closing = q.closing
  BY DEF Record, SameLists
<1>. HIDE DEF r
<1>8. /\ s.id = r.id /\ SameLists(r, s) /\ s.closing = r.closing
      /\ \/ s.type = r.type /\ r.type \notin {"PACCEPT", "PLISTEN"}
         \/ r.type = "PACCEPT" /\ s.type = "CONNECTED"
         \/ r.type = "PLISTEN" /\ s.type = "LISTEN"
  <2>1. CASE r.type = "PACCEPT"
    <3>1. s = [r EXCEPT !.type = "CONNECTED"]
      BY <2>1
    <3>. QED BY <1>7, <2>1, <3>1 DEF Record, SameLists
  <2>2. CASE r.type = "PLISTEN"
    <3>1. s = [r EXCEPT !.type = "LISTEN"]
      BY <2>2
    <3>. QED BY <1>7, <2>2, <3>1 DEF Record, SameLists
  <2>3. CASE r.type \notin {"PACCEPT", "PLISTEN"}
    <3>1. s = r
      BY <2>3
    <3>. HIDE DEF s
    <3>. QED BY <2>3, <3>1 DEF SameLists
  <2>. QED BY <2>1, <2>2, <2>3
<1>. HIDE DEF s
<1>9. CASE SetSlot(k, s) /\ ~socket_invalid(k, id)
           /\ opened' = IF r.type \in {"PACCEPT", "CONNECTED"} THEN opened \cup {id} ELSE opened
  <2>1. q.id = id /\ q.type \notin Dead /\ HASH_ID(id) = k
    <3>1. q.id = id /\ q.type # "INVALID" /\ HASH_ID(id) = k
      BY <1>4, <1>5, <1>9 DEF socket_invalid, k_
    <3>2. q.type # "RESERVE"
      BY <1>3, <1>4, <1>5, <3>1, NotReserved
    <3>. QED BY <3>1, <3>2 DEF Dead
  <2>2. SameLists(q, s) /\ s.id = id /\ s.closing = q.closing /\ s.type \notin Dead
    BY <1>7, <1>8, <2>1 DEF SameLists, Dead
  <2>3. Waiting(s) = Waiting(q) /\ (LowOnly(q) => LowOnly(s)) /\ Kind(q)
    BY <1>5, <2>2, ListsWait DEF LineInv, Kinds
  <2>4. Calm(q, s)
    BY <2>1, <2>2, <2>3 DEF Calm, SameLine
  <2>5. Kind(s)'
    <3>1. s.type \in {"PACCEPT", "PLISTEN", "LISTEN"} => s.id \notin opened'
      BY <1>7, <1>8, <1>9, <2>1, <2>2, <2>3 DEF Kind
    <3>2. s.type = "HALFCLOSE_WRITE" => s.id \in broken'
      BY <1>2, <1>7, <1>8, <2>1, <2>2, <2>3 DEF Kind, CalmVars
    <3>. QED BY <2>3, <3>1, <3>2 DEF Kind
  <2>6. \A y \in opened' : y \in opened \/ (y = s.id /\ HASH_ID(y) = k /\ s.type \notin Dead)
    BY <1>9, <2>1, <2>2
  <2>. QED BY <1>2, <1>5, <1>9, <2>4, <2>5, <2>6, CalmSlot
<1>. QED BY <1>2, <1>6, <1>9, CalmNoSlot

\* pause_socket and trigger_write.
LEMMA PauseTriggerLine ==
    ASSUME Inv, LineInv, PauseSocket \/ TriggerWrite
    PROVE  LineStep
<1>1. /\ \E c \in {"pause", "trigger"} : Command(c)
      /\ UNCHANGED <<wire, accepted, due, broken, pc, at, job, opened>>
  BY DEF PauseSocket, TriggerWrite, sendVars, history
<1>2. CalmVars /\ k_ \in Slot
  BY <1>1, CommandCalm, CommandFacts
<1>3. PICK k \in Slot : k = k_
  BY <1>2
<1>4. PICK q \in Record : q = slot[k]
  BY DEF Inv, Types
<1>5. slot' = slot \/ SetSlot(k, [q EXCEPT !.reading = FALSE]) \/ SetSlot(k, [q EXCEPT !.writing = TRUE])
  BY <1>3, <1>4 DEF PauseSocket, TriggerWrite, SetSlot, Inv, Types
<1>6. ASSUME NEW r, SetSlot(k, r), SameLists(q, r), r.id = q.id, r.type = q.type,
             r.closing = q.closing
      PROVE  LineStep
  BY <1>1, <1>2, <1>4, <1>6, AlikeCalm, CalmSlot DEF CalmVars
<1>7. CASE SetSlot(k, [q EXCEPT !.reading = FALSE])
  <2>1. PICK r : r = [q EXCEPT !.reading = FALSE]
    OBVIOUS
  <2>2. SameLists(q, r) /\ r.id = q.id /\ r.type = q.type /\ r.closing = q.closing
    BY <2>1 DEF Record, SameLists
  <2>. QED BY <1>6, <1>7, <2>1, <2>2
<1>8. CASE SetSlot(k, [q EXCEPT !.writing = TRUE])
  <2>1. PICK r : r = [q EXCEPT !.writing = TRUE]
    OBVIOUS
  <2>2. SameLists(q, r) /\ r.id = q.id /\ r.type = q.type /\ r.closing = q.closing
    BY <2>1 DEF Record, SameLists
  <2>. QED BY <1>6, <1>8, <2>1, <2>2
<1>. QED BY <1>1, <1>2, <1>5, <1>7, <1>8, CalmNoSlot

\* Events that change nothing, and those of slots that are no sockets.
LEMMA LoopLine ==
    ASSUME Inv, LineInv,
           \/ NoCommand \/ SpWait \/ EventInvalid \/ EventReserved \/ ReadData
    PROVE  LineStep
<1>1. /\ UNCHANGED <<pipe, at, job, opened, wire, accepted, due, broken>>
      /\ pc' # "force"
  BY DEF NoCommand, SpWait, EventInvalid, EventReserved, ReadData, Handled, sendVars, history
<1>2. CalmVars
  BY <1>1 DEF CalmVars
<1>3. CASE EventReserved
  <2>1. PICK k \in Slot : k = s_
    BY <1>3, EventFacts DEF EventReserved
  <2>2. PICK q \in Record : q = slot[k]
    BY DEF Inv, Types
  <2>3. PICK r : r = IF Head(ev).k = "w" THEN [q EXCEPT !.writing = FALSE] ELSE q
    OBVIOUS
  <2>4. SetSlot(k, r)
    BY <1>3, <2>1, <2>2, <2>3 DEF EventReserved
  <2>5. SameLists(q, r) /\ r.id = q.id /\ r.type = q.type /\ r.closing = q.closing
    <3>1. PICK z : z = [q EXCEPT !.writing = FALSE]
      OBVIOUS
    <3>2. SameLists(q, z) /\ z.id = q.id /\ z.type = q.type /\ z.closing = q.closing
      BY <3>1 DEF Record, SameLists
    <3>. QED BY <2>3, <3>1, <3>2 DEF SameLists
  <2>. QED BY <1>1, <1>2, <2>2, <2>4, <2>5, AlikeCalm, CalmSlot
<1>4. CASE ~EventReserved
  <2>1. slot' = slot
    BY <1>4 DEF NoCommand, SpWait, EventInvalid, ReadData
  <2>. QED BY <1>1, <1>2, <2>1, CalmNoSlot
<1>. QED BY <1>3, <1>4

\* The end of force_close.
LEMMA ForceCloseEndLine ==
    ASSUME Inv, LineInv, ForceCloseEnd
    PROVE  LineStep
<1>1. /\ UNCHANGED <<pipe, at, job, opened, wire, accepted, due, broken>>
      /\ pc' # "force" /\ pc = "force"
  BY DEF ForceCloseEnd, Thread, sendVars
<1>2. CalmVars
  BY <1>1 DEF CalmVars
<1>3. PICK k \in Slot : k = doomed.s
  BY <1>1 DEF Inv, Types, ThreadTypes, Doom
<1>4. PICK q \in Record : q = slot[k]
  BY DEF Inv, Types
<1>5. PICK r : r = Closed(q)
  OBVIOUS
<1>6. /\ r.id = q.id /\ r.type = "INVALID" /\ send_buffer_empty(r)
      /\ SetSlot(k, r)
  BY <1>3, <1>4, <1>5, ClosedFields DEF ForceCloseEnd
<1>7. q.type \notin Dead
  BY <1>1, <1>3, <1>4 DEF Inv, Forced
<1>8. Calm(slot[k], r)
  BY <1>1, <1>3, <1>4, <1>6, <1>7 DEF Calm, Dead
<1>9. Kind(r)'
  <2>1. LowOnly(r)
    BY <1>6 DEF LowOnly, send_buffer_empty
  <2>. QED BY <1>6, <2>1 DEF Kind
<1>. QED BY <1>1, <1>2, <1>6, <1>8, <1>9, CalmSlot

\* force_close, for a connection that has been broken.
LEMMA BrokenClose ==
    ASSUME Inv, LineInv, NEW k \in Slot, NEW raise, NEW ctrl,
           ForceClose(k, slot[k], raise, ctrl), slot[k].id \in broken',
           UNCHANGED <<at, job, opened, wire, accepted, due>>, broken \subseteq broken',
           pipe' = pipe \/ (pipe # <<>> /\ pipe' = Tail(pipe) /\ Head(pipe).cmd # "send")
    PROVE  LineStep
<1>1. PICK q \in Record : q = slot[k]
  BY DEF Inv, Types
<1>. DEFINE r == [q EXCEPT !.high = <<>>, !.low = <<>>]
<1>2. r.id = q.id /\ r.type = q.type /\ r.high = <<>> /\ r.low = <<>>
  BY DEF Record
<1>3. SetSlot(k, r) /\ doomed'.s = k
  BY <1>1 DEF ForceClose
<1>. HIDE DEF r
<1>4. CalmVars
  <2>1. slot'[doomed'.s].id \in broken'
    BY <1>1, <1>2, <1>3 DEF SetSlot, Inv, Types
  <2>. QED BY <2>1 DEF CalmVars
<1>5. Calm(slot[k], r)
  BY <1>1, <1>2 DEF Calm
<1>6. Kind(r)'
  <2>1. LowOnly(r)
    BY <1>2 DEF LowOnly
  <2>2. Kind(q)
    BY <1>1 DEF LineInv, Kinds
  <2>. QED BY <1>2, <2>1, <2>2 DEF Kind
<1>. QED BY <1>3, <1>4, <1>5, <1>6, CalmSlot

\* report_connect.
LEMMA ReportConnectLine ==
    ASSUME Inv, LineInv, ReportConnect
    PROVE  LineStep
<1>1. PICK k \in Slot : k = s_
  BY EventFacts DEF ReportConnect
<1>2. PICK q \in Record : q = slot[k]
  BY DEF Inv, Types
<1>3. /\ q.type = "CONNECTING" /\ UNCHANGED <<pipe, at, job, wire, accepted, due>>
  BY <1>1, <1>2 DEF ReportConnect, Event, sendVars
<1>. DEFINE r == [q EXCEPT !.type = "CONNECTED"]
            s == IF nomore_sending_data(r) THEN [r EXCEPT !.writing = FALSE] ELSE r
<1>4. \/ /\ SetSlot(k, s) /\ opened' = opened \cup {r.id} /\ broken' = broken
         /\ \E rest : Handled(rest)
      \/ /\ ForceClose(k, slot[k], "ERR", FALSE) /\ opened' = opened
         /\ broken' = broken \cup {slot[k].id}
  BY <1>1, <1>2 DEF ReportConnect
<1>5. /\ r \in Record /\ r.id = q.id /\ r.type = "CONNECTED" /\ SameLists(q, r)
      /\ r.closing = q.closing
  BY DEF Record, Type, SameLists
<1>. HIDE DEF r
<1>6. s.id = q.id /\ s.type = "CONNECTED" /\ SameLists(q, s) /\ s.closing = q.closing
  <2>1. PICK z : z = [r EXCEPT !.writing = FALSE]
    OBVIOUS
  <2>2. z.id = q.id /\ z.type = "CONNECTED" /\ SameLists(q, z) /\ z.closing = q.closing
    BY <1>5, <2>1 DEF Record, SameLists
  <2>. QED BY <1>5, <2>1, <2>2
<1>. HIDE DEF s
<1>7. CASE /\ SetSlot(k, s) /\ opened' = opened \cup {r.id} /\ broken' = broken
           /\ \E rest : Handled(rest)
  <2>1. pc' # "force"
    BY <1>7 DEF Handled
  <2>2. CalmVars
    BY <1>3, <1>7, <2>1 DEF CalmVars
  <2>3. Waiting(s) = Waiting(q) /\ (LowOnly(q) => LowOnly(s)) /\ LowOnly(q)
    BY <1>2, <1>6, ListsWait DEF LineInv, Kinds, Kind
  <2>4. Calm(q, s)
    BY <1>3, <1>6, <2>3 DEF Calm, SameLine, Dead
  <2>5. Kind(s)'
    BY <1>6, <2>3 DEF Kind
  <2>6. HASH_ID(q.id) = k
    BY <1>2, <1>3, UseFacts DEF Inv, Placed, SlotPlaced, Dead
  <2>. QED BY <1>2, <1>5, <1>6, <1>7, <2>2, <2>4, <2>5, <2>6, CalmSlot DEF Dead
<1>8. CASE /\ ForceClose(k, slot[k], "ERR", FALSE) /\ opened' = opened
           /\ broken' = broken \cup {slot[k].id}
  <2>1. PICK raise, ctrl : ForceClose(k, slot[k], raise, ctrl)
    BY <1>8, Zenon
  <2>. QED BY <1>3, <1>8, <2>1, BrokenClose
<1>. QED BY <1>4, <1>7, <1>8

\* report_accept, which makes a socket.
LEMMA ReportAcceptLine ==
    ASSUME Inv, LineInv, ReportAccept
    PROVE  LineStep
<1>1. /\ UNCHANGED <<pipe, at, job, opened, wire, accepted, due, broken>> /\ pc' # "force"
  BY DEF ReportAccept, Handled, sendVars, history
<1>2. CalmVars
  BY <1>1 DEF CalmVars
<1>3. CASE UNCHANGED slot
  BY <1>1, <1>2, <1>3, CalmNoSlot
<1>4. CASE ~UNCHANGED slot
  <2>1. PICK id \in Id :
          Reservable(id) /\ SetSlot(HASH_ID(id), NewFd(slot[HASH_ID(id)], id, "PACCEPT", FALSE, FALSE))
    BY <1>4 DEF ReportAccept
  <2>2. PICK k \in Slot : k = HASH_ID(id)
    BY HashType DEF Id
  <2>3. PICK q \in Record : q = slot[k]
    BY DEF Inv, Types
  <2>4. PICK no \in BOOLEAN : no = FALSE
    OBVIOUS
  <2>5. PICK r : r = NewFd(q, id, "PACCEPT", no, no)
    OBVIOUS
  <2>6. SetSlot(k, r)
    BY <2>1, <2>2, <2>3, <2>4, <2>5
  <2>7. q.type = "INVALID" /\ id \notin opened
    <3>1. q.type = "INVALID" /\ id > alloc_id /\ alloc_id \in Nat /\ id \in Nat
      BY <2>1, <2>2, <2>3 DEF Reservable, Inv, Types, ThreadTypes, Id
    <3>2. id \in opened => id <= alloc_id
      BY DEF Inv, Sent
    <3>. QED BY <3>1, <3>2
  <2>8. Calm(q, r) /\ LowOnly(r) /\ r.id = id /\ r.type = "PACCEPT"
    BY <2>3, <2>5, <2>7, NewFdCalm DEF Dead, Type
  <2>9. Kind(r)'
    BY <1>1, <2>7, <2>8 DEF Kind
  <2>. QED BY <1>1, <1>2, <2>3, <2>6, <2>8, <2>9, CalmSlot
<1>. QED BY <1>3, <1>4

\* The end of the file on a socket that is not closing.
LEMMA HangUpLine ==
    ASSUME Inv, LineInv, HangUp
    PROVE  LineStep
<1>1. PICK k \in Slot : k = s_
  BY EventFacts DEF HangUp
<1>2. /\ \E raise, ctrl : ForceClose(k, slot[k], raise, ctrl)
      /\ broken' = broken \cup {slot[k].id}
      /\ UNCHANGED <<pipe, at, job, opened, wire, accepted, due>>
  BY <1>1 DEF HangUp, sendVars
<1>. QED BY <1>2, BrokenClose

\* force_close, for a socket that has nothing more to send.
LEMMA QuietClose ==
    ASSUME Inv, LineInv, NEW k \in Slot, NEW raise, NEW ctrl,
           ForceClose(k, slot[k], raise, ctrl), slot[k].type \notin Dead,
           nomore_sending_data(slot[k]),
           slot[k].id \in broken \/ DueThere(slot[k].id),
           UNCHANGED <<at, job, opened, wire, accepted, due, broken>>,
           pipe' = pipe \/ (pipe # <<>> /\ pipe' = Tail(pipe) /\ Head(pipe).cmd # "send")
    PROVE  LineStep
<1>1. PICK q \in Record : q = slot[k]
  BY DEF Inv, Types
<1>2. PICK x \in Id : x = q.id /\ HASH_ID(x) = k
  BY <1>1 DEF Inv, Placed, SlotPlaced
<1>3. CASE x \in broken
  BY <1>1, <1>2, <1>3, BrokenClose
<1>4. CASE x \notin broken
  <2>1. Kind(q)
    BY <1>1 DEF LineInv, Kinds
  <2>2. q.type # "HALFCLOSE_WRITE"
    BY <1>2, <1>4, <2>1 DEF Kind
  <2>3. send_buffer_empty(q) /\ q.dw_buffer = NULL
    BY <1>1, <2>2 DEF nomore_sending_data
  <2>. DEFINE r == [q EXCEPT !.high = <<>>, !.low = <<>>]
  <2>4. r.id = q.id /\ r.type = q.type /\ SameLists(q, r) /\ r.closing = q.closing
    BY <2>3 DEF Record, SameLists, send_buffer_empty
  <2>5. SetSlot(k, r) /\ doomed'.s = k
    BY <1>1 DEF ForceClose
  <2>. HIDE DEF r
  <2>6. Live(x) /\ Line(x) = <<>>
    <3>1. Waiting(q) = <<>>
      BY <2>3, WaitingNone
    <3>. QED BY <1>1, <1>2, <3>1 DEF Live, Line, Dead
  <2>7. InLine(wire[x], <<>>, accepted[x])
    <3>1. InOrder(x) /\ wire[x] \in Seq(Packet)
      BY <1>4 DEF LineInv, Kinds
    <3>. QED BY <2>6, <3>1 DEF InOrder, InLine
  <2>8. DueDone(x)
    <3>1. DueThere(x)
      BY <1>1, <1>2, <1>4
    <3>2. ASSUME NEW p \in due[x] PROVE Done(wire[x], p)
      <4>1. There(wire[x], <<>>, p)
        BY <2>6, <3>1 DEF DueThere, Ahead, There
      <4>2. Len(<<>>) = 0
        OBVIOUS
      <4>. QED BY <2>7, <4>1, <4>2, AllDone
    <3>. QED BY <3>1, <3>2 DEF DueThere, DueDone
  <2>9. CalmVars
    <3>1. slot'[doomed'.s].id = x
      BY <1>2, <2>4, <2>5 DEF SetSlot, Inv, Types
    <3>. QED BY <2>8, <3>1 DEF CalmVars
  <2>10. Calm(slot[k], r) /\ Kind(r)'
    BY <1>1, <2>4, AlikeCalm
  <2>. QED BY <2>5, <2>9, <2>10, CalmSlot
<1>. QED BY <1>3, <1>4

\* forward_message_tcp at the end of the file.
LEMMA ReadEndLine ==
    ASSUME Inv, LineInv, ReadEnd
    PROVE  LineStep
<1>1. PICK k \in Slot : k = s_
  BY EventFacts DEF ReadEnd
<1>2. PICK q \in Record : q = slot[k]
  BY DEF Inv, Types
<1>3. /\ q.type \in Open
      /\ UNCHANGED <<pipe, at, job, opened, wire, accepted, due, broken>>
  BY <1>1, <1>2 DEF ReadEnd, Event, sendVars
<1>4. \/ /\ q.closing /\ nomore_sending_data(q)
         /\ ForceClose(k, slot[k], "none", FALSE)
      \/ /\ ~q.closing /\ q.type = "HALFCLOSE_WRITE"
         /\ ForceClose(k, slot[k], "CLOSE", FALSE)
      \/ /\ ~q.closing /\ q.type \notin {"HALFCLOSE_READ", "HALFCLOSE_WRITE"}
         /\ SetSlot(k, CloseRead(q)) /\ pc' # "force"
      \/ slot' = slot /\ pc' # "force"
  BY <1>1, <1>2 DEF ReadEnd, Handled
<1>5. q.type \notin Dead
  BY <1>3 DEF Open, Dead
<1>6. CASE q.closing /\ nomore_sending_data(q) /\ ForceClose(k, slot[k], "none", FALSE)
  <2>1. PICK x \in Id : x = q.id /\ HASH_ID(x) = k
    BY <1>2, <1>5 DEF Inv, Placed, SlotPlaced
  <2>2. x \notin broken => DueThere(x)
    <3>1. Closing(x)
      BY <1>2, <1>5, <1>6, <2>1 DEF Closing, Live, Dead
    <3>. QED BY <3>1 DEF LineInv, Graceful
  <2>3. PICK raise, ctrl : ForceClose(k, slot[k], raise, ctrl)
    BY <1>6, Zenon
  <2>. QED BY <1>2, <1>3, <1>5, <1>6, <2>1, <2>2, <2>3, QuietClose
<1>7. CASE q.type = "HALFCLOSE_WRITE" /\ ForceClose(k, slot[k], "CLOSE", FALSE)
  <2>1. q.id \in broken
    BY <1>2, <1>7 DEF LineInv, Kinds, Kind
  <2>2. PICK raise, ctrl : ForceClose(k, slot[k], raise, ctrl)
    BY <1>7, Zenon
  <2>. QED BY <1>2, <1>3, <2>1, <2>2, BrokenClose
<1>8. CASE SetSlot(k, CloseRead(q)) /\ pc' # "force"
  <2>1. PICK r : r = CloseRead(q)
    OBVIOUS
  <2>2. r.id = q.id /\ r.type = "HALFCLOSE_READ" /\ SameLists(q, r) /\ r.closing = q.closing
    <3>1. r.closing = q.closing
      BY <2>1 DEF CloseRead, Record
    <3>. QED BY <2>1, <3>1, CloseReadFields DEF SameLists
  <2>3. Kind(q) /\ Waiting(r) = Waiting(q) /\ (LowOnly(q) => LowOnly(r))
    BY <1>2, <2>2, ListsWait DEF LineInv, Kinds
  <2>4. Calm(slot[k], r)
    BY <1>2, <1>5, <2>2, <2>3 DEF Calm, SameLine, Dead
  <2>5. Kind(r)'
    BY <2>2, <2>3 DEF Kind
  <2>6. CalmVars
    BY <1>3, <1>8 DEF CalmVars
  <2>. QED BY <1>3, <1>8, <2>1, <2>4, <2>5, <2>6, CalmSlot
<1>9. CASE slot' = slot /\ pc' # "force"
  <2>1. CalmVars
    BY <1>3, <1>9 DEF CalmVars
  <2>. QED BY <1>3, <1>9, <2>1, CalmNoSlot
<1>. QED BY <1>4, <1>6, <1>7, <1>8, <1>9

\* close_socket: what was sent before the command was sent is in the lists.
LEMMA DueBefore ==
    ASSUME Inv, LineInv, pipe # <<>>, Head(pipe).cmd = "close", NEW x, x = id_,
           x \notin broken, Live(x)
    PROVE  DueThere(x)
<1>1. x \in Id /\ 1 \in DOMAIN pipe /\ Head(pipe) = pipe[1] /\ DOMAIN pipe = 1..Len(pipe)
  BY HeadOfPipe, LenProperties DEF Inv, Types, ThreadTypes
<1>2. Graceful(x)
  BY <1>1 DEF LineInv
<1>3. 1 \in Closes(x)
  BY <1>1 DEF Closes, id_
<1>4. x \in DOMAIN due /\ \A p \in due[x] : Settled(x, p)
  BY <1>2, <1>3 DEF Graceful
<1>5. ASSUME NEW p \in due[x], Ahead(x, p) PROVE FALSE
  <2>1. PICK i \in Sends(x) : \A j \in Closes(x) : i < j
    BY <1>4, <1>5 DEF Settled
  <2>2. i \in 1..Len(pipe) /\ i < 1
    BY <1>1, <1>3, <2>1 DEF Sends
  <2>. QED BY <2>2
<1>. QED BY <1>4, <1>5 DEF DueThere

\* close_socket: what is due has reached the lists when its command is handled.
LEMMA CloseSocketLine ==
    ASSUME Inv, LineInv, ~Crosses, CloseSocket
    PROVE  LineStep
<1>1. PICK c \in {"close", "shutdown"} : Command(c)
  BY DEF CloseSocket
<1>2. /\ pipe # <<>> /\ Head(pipe).cmd = c /\ pipe' = Tail(pipe) /\ pc = "poll"
      /\ k_ \in Slot /\ id_ \in Id /\ 1 \in DOMAIN pipe /\ Head(pipe) = pipe[1]
  BY <1>1, CommandFacts
<1>3. UNCHANGED <<at, job, opened, wire, accepted, due, broken>>
  BY DEF CloseSocket, sendVars
<1>4. PICK k \in Slot, x \in Id : k = k_ /\ x = id_
  BY <1>2
<1>5. PICK q \in Record : q = slot[k]
  BY DEF Inv, Types
<1>6. \/ slot' = slot /\ pc' = pc
      \/ /\ ~socket_invalid(k, x) /\ (c = "shutdown" \/ nomore_sending_data(q))
         /\ \E raise : ForceClose(k, slot[k], raise, TRUE)
      \/ /\ ~socket_invalid(k, x) /\ ~(c = "shutdown")
         /\ SetSlot(k, [CloseRead(q) EXCEPT !.closing = TRUE]) /\ pc' = pc
  BY <1>2, <1>4, <1>5 DEF CloseSocket
<1>7. CASE slot' = slot /\ pc' = pc
  <2>1. CalmVars
    BY <1>1, <1>2, <1>3, <1>7 DEF CalmVars
  <2>. QED BY <1>3, <1>7, <2>1, CalmNoSlot
<1>8. ASSUME ~socket_invalid(k, x)
      PROVE  /\ q.id = x /\ q.type \notin Dead /\ HASH_ID(x) = k
             /\ c = "shutdown" => x \in broken
             /\ c = "close" => x \in broken \/ DueThere(x)
  <2>1. q.id = x /\ q.type # "INVALID" /\ HASH_ID(x) = k
    BY <1>4, <1>5, <1>8 DEF socket_invalid, k_
  <2>2. q.type # "RESERVE"
    BY <1>1, <1>2, <1>4, <1>5, <2>1, NotReserved DEF Opening
  <2>3. Live(x)
    BY <1>5, <2>1, <2>2 DEF Live
  <2>4. c = "shutdown" => x \in broken
    BY <1>2, <1>4 DEF LineInv, Kinds, id_
  <2>5. c = "close" => x \in broken \/ DueThere(x)
    BY <1>2, <1>4, <2>3, DueBefore
  <2>. QED BY <2>1, <2>2, <2>4, <2>5 DEF Dead
<1>9. CASE /\ ~socket_invalid(k, x) /\ (c = "shutdown" \/ nomore_sending_data(q))
           /\ \E raise : ForceClose(k, slot[k], raise, TRUE)
  <2>1. PICK raise, ctrl : ForceClose(k, slot[k], raise, ctrl)
    BY <1>9, Zenon
  <2>2. pipe # <<>> /\ pipe' = Tail(pipe) /\ Head(pipe).cmd # "send"
    BY <1>1, <1>2
  <2>3. CASE x \in broken
    BY <1>3, <1>5, <1>8, <1>9, <2>1, <2>2, <2>3, BrokenClose
  <2>4. CASE x \notin broken
    <3>1. c = "close" /\ nomore_sending_data(q) /\ DueThere(x)
      BY <1>1, <1>8, <1>9, <2>4
    <3>. QED BY <1>3, <1>5, <1>8, <1>9, <2>1, <2>2, <3>1, QuietClose
  <2>. QED BY <2>3, <2>4
<1>10. CASE /\ ~socket_invalid(k, x) /\ ~(c = "shutdown")
            /\ SetSlot(k, [CloseRead(q) EXCEPT !.closing = TRUE]) /\ pc' = pc
  <2>1. PICK z \in Record : z = CloseRead(q)
    BY CloseReadFields
  <2>2. PICK r : r = [z EXCEPT !.closing = TRUE]
    OBVIOUS
  <2>3. r.id = q.id /\ r.type = "HALFCLOSE_READ" /\ SameLists(q, r) /\ r.closing
    <3>1. z.id = q.id /\ z.type = "HALFCLOSE_READ" /\ SameLists(q, z)
      BY <2>1, CloseReadFields DEF SameLists
    <3>. QED BY <2>2, <3>1 DEF Record, SameLists
  <2>4. Kind(q) /\ Waiting(r) = Waiting(q) /\ (LowOnly(q) => LowOnly(r))
    BY <1>5, <2>3, ListsWait DEF LineInv, Kinds
  <2>5. q.id \in broken \/ DueThere(q.id)
    BY <1>1, <1>8, <1>10
  <2>6. Calm(slot[k], r)
    BY <1>3, <1>5, <1>8, <1>10, <2>3, <2>4, <2>5 DEF Calm, SameLine, Dead
  <2>7. Kind(r)'
    BY <2>3, <2>4 DEF Kind
  <2>8. CalmVars
    BY <1>1, <1>2, <1>3, <1>10 DEF CalmVars
  <2>. QED BY <1>3, <1>10, <2>1, <2>2, <2>6, <2>7, <2>8, CalmSlot
<1>. QED BY <1>6, <1>7, <1>9, <1>10

-----------------------------------------------------------------------------
(* Steps that write, accept or hand over a packet of one id.                *)

\* What such a step, on the id y and the slot k, does to the others.
Aside(y, k) ==
    /\ Elsewhere(k) /\ slot'[k].id = slot[k].id
    /\ slot[k].id = y \/ Calm(slot[k], slot'[k])
    /\ broken \subseteq broken' /\ opened' = opened
    /\ pc' # "force" \/ UNCHANGED <<pc, doomed>>
    /\ \A x \in Id \ {y} : /\ wire'[x] = wire[x] /\ accepted'[x] = accepted[x]
                           /\ SameDue(x) /\ PipeFor(x) /\ SameRequests(x)

\* force_close goes on with the socket it has.
LEMMA ForceGoesOn ==
    ASSUME Inv, NEW k \in Slot, Elsewhere(k), slot'[k].id = slot[k].id,
           pc' # "force" \/ UNCHANGED <<pc, doomed>>, NEW x,
           pc' = "force", slot'[doomed'.s].id = x
    PROVE  Ending(x)
<1>1. pc = "force" /\ doomed' = doomed
  OBVIOUS
<1>2. PICK d \in Slot : d = doomed.s
  BY <1>1 DEF Inv, Types, ThreadTypes, Doom
<1>3. slot'[d].id = slot[d].id
  BY DEF Elsewhere
<1>. QED BY <1>1, <1>2, <1>3 DEF Ending

\* The packets of the other ids are in order and graceful still.
LEMMA OthersStill ==
    ASSUME Inv, LineInv, NEW y, NEW k \in Slot, Aside(y, k)
    PROVE  \A x \in Id \ (broken' \cup {y}) : InOrder(x)' /\ Graceful(x)'
<1>. SUFFICES ASSUME NEW x \in Id \ (broken' \cup {y}) PROVE InOrder(x)' /\ Graceful(x)'
  OBVIOUS
<1>1. HASH_ID(x) \in Slot
  BY HashType DEF Id
<1>2. CalmFor(x)
  <2>1. CASE HASH_ID(x) = k
    BY <2>1 DEF CalmFor, Aside
  <2>2. CASE HASH_ID(x) # k
    <3>1. slot'[HASH_ID(x)] = slot[HASH_ID(x)]
      BY <1>1, <2>2 DEF Aside, Elsewhere
    <3>. QED BY <3>1 DEF CalmFor, Calm, SameLine
  <2>. QED BY <2>1, <2>2
<1>3. SameLife(x)
  <2>1. x \in opened' => x \in opened
    BY DEF Aside
  <2>2. ASSUME pc' = "force", slot'[doomed'.s].id = x PROVE Ending(x)
    BY <2>2, ForceGoesOn DEF Aside
  <2>. QED BY <2>1, <2>2 DEF SameLife
<1>4. x \in Id \ (broken \cup broken')
  BY DEF Aside
<1>. QED BY <1>2, <1>3, <1>4, CalmStill DEF Aside

\* What ends after such a step had come to its end before, or is no longer there.
LEMMA EndedBefore ==
    ASSUME Inv, NEW k \in Slot, NEW y, Aside(y, k), NEW x, Ending(x)'
    PROVE  Ending(x) \/ (x \in opened /\ Live(x) /\ ~Live(x)')
<1>1. CASE pc' = "force" /\ slot'[doomed'.s].id = x
  BY <1>1, ForceGoesOn DEF Aside
<1>2. CASE x \in opened' /\ ~Live(x)'
  BY <1>2 DEF Ending, Aside
<1>. QED BY <1>1, <1>2 DEF Ending

\* The whole step, from what it does to the id it works on.
LEMMA OneLine ==
    ASSUME Inv, LineInv, NEW y, NEW k \in Slot, Aside(y, k), Kind(slot[k])',
           y \notin broken' => InOrder(y)' /\ Graceful(y)'
    PROVE  LineStep
<1>1. \A j \in Slot \ {k} : Kind(slot[j])'
  BY KindsElsewhere DEF Aside
<1>2. \A j \in Slot : Kind(slot[j])'
  BY <1>1
<1>3. \A x \in Id \ (broken' \cup {y}) : InOrder(x)' /\ Graceful(x)'
  BY OthersStill
<1>4. ASSUME NEW x \in Id \ broken' PROVE InOrder(x)' /\ Graceful(x)'
  <2>1. CASE x = y
    BY <2>1
  <2>2. CASE x # y
    BY <1>3, <2>2
  <2>. QED BY <2>1, <2>2
<1>. QED BY <1>2, <1>4 DEF LineStep

\* A service closes a connection: what it has sent on it is due.
LEMMA CloseLine ==
    ASSUME Inv, LineInv, NEW t \in Sender, Close(t)
    PROVE  LineStep
<1>1. PICK y \in 1..alloc_id :
        /\ Request([cmd |-> "close", id |-> y])
        /\ due' = IF y \in DOMAIN due THEN due
                  ELSE [i \in DOMAIN due \cup {y} |->
                           IF i = y THEN {p \in accepted[y] : p.by = t} ELSE due[i]]
  BY DEF Close, Known
<1>2. /\ UNCHANGED <<slot, pc, doomed, at, job, accepted, wire, broken, opened>>
      /\ at[t] = "idle"
  BY DEF Close, sendVars, Call, At
<1>3. PICK c \in Cmd : c = [cmd |-> "close", id |-> y]
  BY CommandTypes DEF Late, Control, Opening, Inv, Types, ThreadTypes
<1>4. pipe' = Append(pipe, c) /\ c.cmd = "close" /\ c.id = y
  BY <1>1, <1>3 DEF Request
<1>5. PICK n : /\ DOMAIN pipe' = DOMAIN pipe \cup {n} /\ pipe'[n] = c
               /\ \A i \in DOMAIN pipe : pipe'[i] = pipe[i] /\ i \in Nat /\ i < n
               /\ n \in Nat
  <2>1. PICK n : n = Len(pipe) + 1
    OBVIOUS
  <2>2. /\ DOMAIN pipe = 1..Len(pipe) /\ Len(pipe) \in Nat
        /\ DOMAIN pipe' = DOMAIN pipe \cup {n} /\ pipe'[n] = c
        /\ \A i \in DOMAIN pipe : pipe'[i] = pipe[i]
    BY <1>4, <2>1, PipeAsked DEF Inv, Types, ThreadTypes
  <2>. QED BY <2>1, <2>2
<1>6. \A x : Sends(x)' = Sends(x)
  BY <1>4, <1>5 DEF Sends
<1>7. Closes(y)' = Closes(y) \cup {n} /\ \A i \in Sends(y) \cup Closes(y) : i \in DOMAIN pipe
  BY <1>4, <1>5 DEF Sends, Closes
<1>8. 0 \in Slot
  BY SocketAssumption DEF Slot
<1>9. Aside(y, 0)
  <2>1. ASSUME NEW x \in Id \ {y} PROVE PipeFor(x)
    BY <1>4, <2>1, PipeFlow DEF Inv, Types, ThreadTypes
  <2>2. \A x : SameRequests(x)
    BY <1>2 DEF SameRequests, RequestsFrom, RequestsOn, Requests
  <2>3. ASSUME NEW x \in Id \ {y} PROVE SameDue(x)
    <3>1. CASE y \in DOMAIN due
      BY <1>1, <3>1 DEF SameDue
    <3>2. CASE y \notin DOMAIN due
      <4>1. due' = [i \in DOMAIN due \cup {y} |->
                       IF i = y THEN {p \in accepted[y] : p.by = t} ELSE due[i]]
        BY <1>1, <3>2
      <4>2. x \in DOMAIN due' <=> x \in DOMAIN due
        BY <4>1
      <4>3. CASE x \in DOMAIN due
        BY <4>1, <4>2, <4>3 DEF SameDue
      <4>4. CASE x \notin DOMAIN due
        BY <4>2, <4>4 DEF SameDue
      <4>. QED BY <4>3, <4>4
    <3>. QED BY <3>1, <3>2
  <2>. QED BY <1>2, <2>1, <2>2, <2>3 DEF Aside, Elsewhere, Calm, SameLine
<1>10. Kind(slot[0])'
  BY <1>2, <1>8 DEF Kind, LineInv, Kinds, LowOnly
<1>11. /\ Live(y)' <=> Live(y)
       /\ Line(y)' = Line(y)
       /\ Closing(y)' <=> Closing(y)
       /\ Taking(y)' <=> Taking(y)
       /\ Ending(y)' <=> Ending(y)
  <2>1. (Live(y)' <=> Live(y)) /\ (Closing(y)' <=> Closing(y)) /\ (Taking(y)' <=> Taking(y))
    BY <1>2 DEF Live, Closing, Taking
  <2>2. Line(y)' = Line(y)
    BY <1>2, <2>1 DEF Line, Waiting, First
  <2>. QED BY <1>2, <2>1, <2>2 DEF Ending
<1>12. \A p : Ahead(y, p)' <=> Ahead(y, p)
  BY <1>2, <1>11 DEF Ahead
<1>13. CASE y \notin broken
  <2>1. y \in Id /\ InOrder(y) /\ Graceful(y) /\ wire[y] \in Seq(Packet) /\ Fresh
    BY <1>13, SocketAssumption DEF LineInv, Kinds, Id, Inv, Types, ThreadTypes
  <2>2. SendsFrom(y, 0) /\ SendsOn(y, 0) /\ RequestsFrom(y) /\ RequestsOn(y)
    <3>1. \A i \in Sends(y) : i \in Nat /\ i + 0 = i /\ i - 0 = i /\ pipe'[i] = pipe[i]
      BY <1>5, <1>7
    <3>. QED BY <1>2, <1>6, <3>1
         DEF SendsFrom, SendsOn, RequestsFrom, RequestsOn, Requests
  <2>3. InOrder(y)'
    BY <1>2, <1>11, <2>1, <2>2, InOrderStill
  <2>4. y \in DOMAIN due' /\ due'[y] \subseteq accepted[y]
    BY <1>1, <2>1 DEF Graceful
  <2>5. ASSUME Live(y), NEW p \in due'[y], Ahead(y, p)
        PROVE  \E i \in Sends(y) : pipe[i].p = p /\ \A j \in Closes(y) : i < j
    <3>1. CASE y \in DOMAIN due
      BY <1>1, <2>1, <2>5, <3>1 DEF Graceful, Settled
    <3>2. CASE y \notin DOMAIN due
      <4>1. p \in accepted[y] /\ p.by = t
        BY <1>1, <2>5, <3>2
      <4>2. Taking(y) /\ Closes(y) = {}
        BY <2>1, <2>5, <3>2 DEF Graceful, Taking, Closing, DueThere
      <4>3. Sending(y, p)
        BY <2>1, <2>5, <4>1, <4>2 DEF InOrder, Coming
      <4>4. ASSUME NEW u \in Requests(y) PROVE job[u].p # p
        <5>1. u \in Sender /\ at[u] = "request" /\ u # t
          BY <1>2 DEF Requests
        <5>2. job[u].p.by = u
          BY <2>1, <5>1 DEF Fresh
        <5>. QED BY <4>1, <5>1, <5>2
      <4>. QED BY <4>2, <4>3, <4>4 DEF Sending
    <3>. QED BY <3>1, <3>2
  <2>6. ASSUME Live(y), NEW p \in due'[y] PROVE Settled(y, p)'
    <3>1. CASE ~Ahead(y, p)
      BY <1>12, <3>1 DEF Settled
    <3>2. CASE Ahead(y, p)
      <4>1. PICK i \in Sends(y) : pipe[i].p = p /\ \A j \in Closes(y) : i < j
        BY <2>5, <2>6, <3>2
      <4>2. i \in Sends(y)' /\ pipe'[i].p = p /\ \A j \in Closes(y)' : i < j
        BY <1>5, <1>6, <1>7, <4>1
      <4>. QED BY <4>2 DEF Settled
    <3>. QED BY <3>1, <3>2
  <2>7. Closing(y)' => DueThere(y)'
    BY <1>1, <1>11, <1>12, <2>1 DEF Graceful, DueThere
  <2>8. Ending(y)' => DueDone(y)'
    BY <1>1, <1>2, <1>11, <2>1 DEF Graceful, DueDone
  <2>9. Graceful(y)'
    <3>1. /\ Closes(y)' # {} => y \in DOMAIN due'
          /\ y \in DOMAIN due' => due'[y] \subseteq accepted'[y]
          /\ y \in DOMAIN due' /\ Live(y)' => \A p \in due'[y] : Settled(y, p)'
      BY <1>2, <1>11, <2>4, <2>6
    <3>. QED BY <2>7, <2>8, <3>1 DEF Graceful
  <2>. QED BY <1>8, <1>9, <1>10, <2>3, <2>9, OneLine
<1>14. CASE y \in broken
  BY <1>2, <1>8, <1>9, <1>10, <1>14, OneLine
<1>. QED BY <1>13, <1>14

\* n bytes of p are written after w, and s is what waits of p.
Now(w, p, n, v, s) ==
    /\ n \in 0..2 /\ v = w \o [i \in 1..n |-> p]
    /\ s = IF n = 2 THEN <<>> ELSE <<[p |-> p, off |-> n]>>

\* A direct write, when nothing waits.
LEMMA WriteNow ==
    ASSUME NEW w, NEW acc \in SUBSET Packet, InLine(w, <<>>, acc), NEW p \in acc, ~Wrote(w, p),
           \A r \in acc : Precedes(r, p) => Wrote(w, r),
           NEW n, NEW v, NEW s, Now(w, p, n, v, s)
    PROVE  /\ InLine(v, s, acc) /\ Extends(w, v)
           /\ \A r : There(v, s, r) <=> Wrote(w, r) \/ r = p
<1>1. w \in Seq(Packet) /\ Len(w) \in Nat /\ p \in Packet
  BY LenProperties DEF InLine
<1>2. PICK b \in Buffer : b = [p |-> p, off |-> 0]
  <2>1. [p |-> p, off |-> 0] \in Buffer
    BY <1>1 DEF Buffer
  <2>. QED BY <2>1
<1>3. PICK e : e = <<>> /\ e \in Seq(Buffer) /\ Len(e) = 0
  BY EmptySeq
<1>4. PICK q : q = <<b>> /\ q \in Seq(Buffer) /\ Len(q) = 1 /\ q[1] = b
  <2>1. <<b>> \in Seq(Buffer) /\ Len(<<b>>) = 1 /\ <<b>>[1] = b
    OBVIOUS
  <2>. QED BY <2>1
<1>5. \A r : There(w, e, r) <=> Wrote(w, r)
  BY <1>3 DEF There, Waits
<1>6. Inserted(e, q, 1, p)
  BY <1>2, <1>3, <1>4 DEF Inserted
<1>7. InLine(w, q, acc) /\ \A r : There(w, q, r) <=> Wrote(w, r) \/ r = p
  <2>1. /\ InLine(w, q, acc)
        /\ \A r : There(w, q, r) <=> There(w, e, r) \/ r = p
    BY <1>3, <1>5, <1>6, Enqueue
  <2>. QED BY <1>5, <2>1
<1>8. /\ n \in 0..2 /\ v = w \o [i \in 1..n |-> p]
      /\ s = IF n = 2 THEN <<>> ELSE <<[p |-> p, off |-> n]>>
  BY DEF Now
<1>9. Onward(w, q, v, s, acc)
  <2>1. CASE n = 0
    <3>1. [i \in 1..n |-> p] = <<>> /\ s = q
      BY <1>2, <1>4, <1>8, <2>1
    <3>2. v = w
      BY <1>1, <1>8, <3>1, ConcatEmptySeq
    <3>. QED BY <1>7, <3>1, <3>2, OnwardNone
  <2>2. CASE n = 1
    <3>1. v = Append(w, p)
      <4>1. [i \in 1..n |-> p] = <<p>>
        BY <2>2
      <4>. QED BY <1>1, <1>8, <4>1, AppendIsConcat
    <3>2. s = [q EXCEPT ![1].off = 1]
      <4>1. [b EXCEPT !.off = 1] = [p |-> p, off |-> 1]
        BY <1>2
      <4>2. [q EXCEPT ![1].off = 1] = <<[b EXCEPT !.off = 1]>>
        BY <1>4
      <4>. QED BY <1>8, <2>2, <4>1, <4>2
    <3>3. Len(q) > 0 /\ q[1].off = 0 /\ q[1].p = p
      BY <1>2, <1>4
    <3>. QED BY <1>7, <3>1, <3>2, <3>3, FirstByte
  <2>3. CASE n = 2
    <3>1. v = w \o Rest(q[1])
      BY <1>2, <1>4, <1>8, <2>3 DEF Rest
    <3>2. s = Tail(q) /\ Len(q) > 0
      BY <1>4, <1>8, <2>3
    <3>. QED BY <1>7, <3>1, <3>2, Whole
  <2>4. n \in 0..2
    BY <1>8
  <2>5. n = 0 \/ n = 1 \/ n = 2
    BY <2>4
  <2>. QED BY <2>1, <2>2, <2>3, <2>5
<1>. QED BY <1>7, <1>9 DEF Onward

\* A packet that a service is about to hand over is the last of those it has sent.
LEMMA LastOne ==
    ASSUME Inv, LineInv, NEW t \in Sender, at[t] \in {"locked", "inc"}, NEW x \in Id,
           NEW p, p = job[t].p
    PROVE  p \in Packet /\ p \notin accepted[x] /\ \A r \in accepted[x] : ~Precedes(p, r)
<1>1. p \in Packet /\ accepted[x] \subseteq Packet
  BY DEF Inv, Types, SenderTypes, Job
<1>2. p.by = t /\ \A r \in accepted[x] : r.by = t => r.no < p.no
  BY DEF LineInv, Fresh
<1>3. p \notin accepted[x]
  BY <1>1, <1>2, PrecedesFacts
<1>4. ASSUME NEW r \in accepted[x], Precedes(p, r) PROVE FALSE
  <2>1. r \in Packet /\ r.by = p.by /\ p.no < r.no /\ r.no < p.no
    BY <1>1, <1>2, <1>4 DEF Precedes
  <2>. QED BY <1>1, <2>1, PrecedesFacts
<1>. QED BY <1>1, <1>3, <1>4

\* The direct write of socket_server_send: nothing waits, so the packet is the next.
LEMMA DirectWriteLine ==
    ASSUME Inv, LineInv, NEW t \in Sender, DirectWrite(t)
    PROVE  LineStep
<1>1. /\ at[t] = "locked" /\ at \in [Sender -> Place] /\ DOMAIN job = Sender
      /\ UNCHANGED <<pipe, opened, due, broken, pc, doomed>>
  BY DEF DirectWrite, At, Inv, Types, SenderTypes
<1>2. PICK y \in Id, p \in Packet : y = job[t].id /\ p = job[t].p
  BY <1>1 DEF Inv, Types, SenderTypes, Job
<1>3. PICK k \in Slot : k = HASH_ID(y)
  BY HashType DEF Id
<1>4. PICK q \in Record : q = slot[k]
  BY DEF Inv, Types
<1>5. PICK r : r = [q EXCEPT !.dw_lock = NULL]
  OBVIOUS
<1>6. r \in Record /\ SameLists(q, r) /\ Alike(q, r) /\ r.sending = q.sending
  BY <1>5 DEF Record, SameLists, Alike
<1>7. \/ /\ SetSlot(k, r) /\ at' = [at EXCEPT ![t] = "inc"]
         /\ UNCHANGED <<job, accepted, wire>>
      \/ /\ can_direct_write(r, y)
         /\ \E n \in 0..2 :
              /\ wire' = [wire EXCEPT ![y] = @ \o [i \in 1..n |-> p]]
              /\ SetSlot(k, IF n = 2 THEN r
                            ELSE [r EXCEPT !.dw_buffer = [p |-> p, off |-> n]])
              /\ at' = [at EXCEPT ![t] = IF n = 2 THEN "idle" ELSE "trigger"]
              /\ job' = IF n = 2 THEN [job EXCEPT ![t] = NULL] ELSE job
              /\ accepted' = [accepted EXCEPT ![y] = @ \cup {p}]
  BY <1>2, <1>3, <1>4, <1>5, ZenonT(60) DEF DirectWrite
<1>8. CASE /\ SetSlot(k, r) /\ at' = [at EXCEPT ![t] = "inc"]
           /\ UNCHANGED <<job, accepted, wire>>
  <2>1. CalmVars
    BY <1>1, <1>8 DEF CalmVars
  <2>2. Calm(slot[k], r) /\ Kind(r)'
    BY <1>1, <1>4, <1>6, AlikeCalm DEF Alike
  <2>. QED BY <1>1, <1>8, <2>1, <2>2, CalmSlot
<1>9. ASSUME can_direct_write(r, y), NEW n \in 0..2,
             wire' = [wire EXCEPT ![y] = @ \o [i \in 1..n |-> p]],
             SetSlot(k, IF n = 2 THEN r ELSE [r EXCEPT !.dw_buffer = [p |-> p, off |-> n]]),
             at' = [at EXCEPT ![t] = IF n = 2 THEN "idle" ELSE "trigger"],
             job' = IF n = 2 THEN [job EXCEPT ![t] = NULL] ELSE job,
             accepted' = [accepted EXCEPT ![y] = @ \cup {p}]
      PROVE  LineStep
  <2>1. /\ r.id = y /\ r.type = "CONNECTED" /\ r.sending = 0
        /\ r.high = <<>> /\ r.low = <<>> /\ r.dw_buffer = NULL
    BY <1>9 DEF can_direct_write, nomore_sending_data, send_buffer_empty
  <2>2. PICK s : s = IF n = 2 THEN <<>> ELSE <<[p |-> p, off |-> n]>>
    OBVIOUS
  <2>3. PICK z : z = IF n = 2 THEN r ELSE [r EXCEPT !.dw_buffer = [p |-> p, off |-> n]]
    OBVIOUS
  <2>4. [p |-> p, off |-> n] # NULL \/ n = 2
    <3>1. n # 2 => n \in 0..1
      OBVIOUS
    <3>2. n # 2 => [p |-> p, off |-> n] \in Buffer
      BY <3>1 DEF Buffer
    <3>. QED BY <3>2, SocketAssumption
  <2>5. z.id = y /\ z.type = "CONNECTED" /\ z.low = <<>> /\ z.closing = q.closing /\ Waiting(z) = s
    <3>1. CASE n = 2
      BY <1>6, <2>1, <2>2, <2>3, <3>1, WaitingNone DEF Alike, send_buffer_empty
    <3>2. CASE n # 2
      <4>1. PICK b \in Buffer : b = [p |-> p, off |-> n]
        <5>1. n \in 0..1
          BY <3>2
        <5>2. [p |-> p, off |-> n] \in Buffer
          BY <5>1 DEF Buffer
        <5>. QED BY <5>2
      <4>2. z = [r EXCEPT !.dw_buffer = b]
        BY <2>3, <3>2, <4>1
      <4>3. z.id = y /\ z.type = "CONNECTED" /\ z.high = <<>> /\ z.low = <<>> /\ z.closing = q.closing
            /\ z.dw_buffer = b
        BY <1>6, <2>1, <4>2 DEF Record, Alike
      <4>4. <<b>> \o <<>> = <<b>> /\ s = <<b>>
        BY <2>2, <3>2, <4>1
      <4>5. b # NULL
        BY <2>4, <3>2, <4>1
      <4>. QED BY <4>3, <4>4, <4>5 DEF Waiting, First
    <3>. QED BY <3>1, <3>2
  <2>6. slot'[k] = z /\ Elsewhere(k)
    BY <1>9, <2>3 DEF SetSlot, Elsewhere, Inv, Types
  <2>7. Kind(slot[k])'
    <3>1. Kind(z)'
      <4>1. LowOnly(z)
        BY <2>5 DEF LowOnly
      <4>. QED BY <2>5, <4>1 DEF Kind
    <3>. QED BY <2>6, <3>1 DEF Kind, LowOnly
  <2>8. \A x : SameRequests(x)
    <3>1. \A u \in Sender : /\ at'[u] = "request" <=> at[u] = "request"
                            /\ at[u] = "request" => job'[u] = job[u]
      BY <1>1, <1>9
    <3>. QED BY <3>1 DEF SameRequests, RequestsFrom, RequestsOn, Requests
  <2>9. \A x : PipeFor(x)
    BY <1>1, PipeFlow DEF Inv, Types, ThreadTypes
  <2>10. Aside(y, k)
    <3>1. \A x \in Id \ {y} : wire'[x] = wire[x] /\ accepted'[x] = accepted[x]
      BY <1>9
    <3>. QED BY <1>1, <1>4, <1>6, <2>1, <2>5, <2>6, <2>8, <2>9, <3>1
         DEF Aside, SameDue, Alike
  <2>11. ASSUME y \notin broken PROVE InOrder(y)' /\ Graceful(y)'
    <3>1. q.id = y /\ q.type = "CONNECTED" /\ q.sending = 0 /\ Waiting(q) = <<>>
      <4>1. Waiting(r) = <<>>
        BY <1>6, <2>1, WaitingNone DEF send_buffer_empty
      <4>. QED BY <1>6, <2>1, <4>1, ListsWait DEF Alike
    <3>2. ~q.closing /\ q.protocol = "TCP"
      BY <1>4, <3>1 DEF Inv, ClosesCounted, Placed, SlotPlaced, Dead
    <3>3. Requests(y) = {} /\ Sends(y) = {}
      <4>1. Cardinality(Requests(y)) + Cardinality(Sends(y)) = 0
        BY <1>4, <3>1, <3>2 DEF Inv, Counted
      <4>2. /\ IsFiniteSet(Requests(y)) /\ Cardinality(Requests(y)) \in Nat
            /\ IsFiniteSet(Sends(y)) /\ Cardinality(Sends(y)) \in Nat
        BY CountTypes DEF Inv
      <4>3. Cardinality(Requests(y)) = 0 /\ Cardinality(Sends(y)) = 0
        BY <4>1, <4>2
      <4>. QED BY <4>2, <4>3, FS_EmptySet
    <3>4. Live(y) /\ Taking(y) /\ Line(y) = <<>>
      BY <1>3, <1>4, <3>1, <3>2 DEF Live, Taking, Line
    <3>5. Live(y)' /\ Line(y)' = s /\ ~Closing(y)'
      <4>1. Live(y)' /\ ~Closing(y)'
        BY <1>3, <2>5, <2>6, <3>2 DEF Live, Closing
      <4>2. Waiting(slot'[k]) = s
        BY <2>5, <2>6
      <4>. QED BY <1>3, <4>1, <4>2 DEF Line, Waiting, First
    <3>6. PICK w, acc : w = wire[y] /\ acc = accepted[y]
      OBVIOUS
    <3>7. /\ w \in Seq(Packet) /\ InOrder(y) /\ Graceful(y) /\ acc \in SUBSET Packet
          /\ wire \in [Id -> Seq(Packet)]
      BY <2>11, <3>6 DEF LineInv, Kinds, Inv, Types, SenderTypes
    <3>8. p \notin acc /\ \A a \in acc : ~Precedes(p, a)
      BY <1>1, <1>2, <3>6, LastOne
    <3>9. InLine(w, <<>>, acc)
      BY <3>4, <3>6, <3>7, EmptySeq DEF InOrder, InLine
    <3>10. \A a \in acc : Wrote(w, a)
      <4>1. \A a \in acc : ~Ahead(y, a)
        BY <3>3, <3>4, <3>6, <3>7 DEF InOrder, Coming, Sending
      <4>. QED BY <3>4, <3>6, <4>1, NotWaiting DEF Ahead
    <3>11. PICK v : v = w \o [i \in 1..n |-> p]
      OBVIOUS
    <3>12. wire'[y] = v /\ accepted'[y] = acc \cup {p}
      BY <1>9, <3>6, <3>7, <3>11 DEF Inv, Types, SenderTypes
    <3>13. InLine(v, s, acc \cup {p}) /\ Extends(w, v) /\ \A a \in acc \cup {p} : There(v, s, a)
      <4>1. InLine(w, <<>>, acc \cup {p})
        BY <3>7, <3>8, <3>9, Accept
      <4>2. ~Wrote(w, p)
        BY <3>7, <3>8, <3>9 DEF InLine, Ordered, Wrote
      <4>3. \A a \in acc \cup {p} : Precedes(a, p) => Wrote(w, a)
        BY <3>10, PrecedesFacts
      <4>4. acc \cup {p} \in SUBSET Packet /\ p \in acc \cup {p}
        BY <3>7
      <4>5. /\ InLine(v, s, acc \cup {p}) /\ Extends(w, v)
            /\ \A a : There(v, s, a) <=> Wrote(w, a) \/ a = p
        <5>1. PICK all \in SUBSET Packet : all = acc \cup {p}
          BY <4>4
        <5>2. InLine(w, <<>>, all) /\ p \in all /\ \A a \in all : Precedes(a, p) => Wrote(w, a)
          BY <4>1, <4>3, <4>4, <5>1
        <5>3. Now(w, p, n, v, s)
          BY <2>2, <3>11 DEF Now
        <5>4. /\ InLine(v, s, all) /\ Extends(w, v)
              /\ \A a : There(v, s, a) <=> Wrote(w, a) \/ a = p
          BY <4>2, <5>2, <5>3, WriteNow
        <5>. QED BY <5>1, <5>4
      <4>. QED BY <3>10, <4>5
    <3>14. \A a \in accepted'[y] : ~Ahead(y, a)'
      BY <3>5, <3>12, <3>13 DEF Ahead, There
    <3>15. Requests(y)' = {} /\ Sends(y)' = {} /\ Closes(y)' = Closes(y)
      <4>1. Requests(y)' = {}
        BY <2>8, <3>3 DEF SameRequests, RequestsFrom
      <4>. QED BY <1>1, <3>3, <4>1 DEF Sends, Closes
    <3>16. InOrder(y)'
      <4>1. Coming(y)'
        BY <3>14, <3>15 DEF Coming
      <4>. QED BY <3>5, <3>12, <3>13, <4>1 DEF InOrder, InLine
    <3>17. Graceful(y)'
      <4>1. \A a \in accepted[y] : ~Ahead(y, a)' /\ Settled(y, a)'
        BY <3>6, <3>12, <3>14 DEF Settled
      <4>2. ASSUME Ending(y)' PROVE y \in DOMAIN due /\ \A a \in due[y] : Done(wire'[y], a)
        <5>1. Ending(y)
          BY <2>10, <3>5, <4>2, EndedBefore
        <5>2. y \in DOMAIN due /\ \A a \in due[y] : Done(w, a)
          BY <3>6, <3>7, <5>1 DEF Graceful, DueDone
        <5>3. v \in Seq(Packet)
          BY <3>13 DEF InLine
        <5>. QED BY <3>7, <3>12, <3>13, <5>2, <5>3, DoneStays
      <4>3. accepted[y] \subseteq accepted'[y] /\ Extends(wire[y], wire'[y])
            /\ wire[y] \in Seq(Packet) /\ wire'[y] \in Seq(Packet)
        BY <3>6, <3>7, <3>12, <3>13 DEF InLine
      <4>4. SameDue(y)
        BY <1>1 DEF SameDue
      <4>. QED BY <3>4, <3>5, <3>7, <3>15, <4>1, <4>2, <4>3, <4>4, GracefulStill
    <3>. QED BY <3>16, <3>17
  <2>. QED BY <1>1, <2>7, <2>10, <2>11, OneLine
<1>. QED BY <1>7, <1>8, <1>9

\* A step that leaves what waits of y alone.
LEMMA GracefulAside ==
    ASSUME Inv, LineInv, NEW k \in Slot, NEW y \in Id, Aside(y, k), Graceful(y), SameDue(y),
           Live(y)' <=> Live(y), Closing(y)' <=> Closing(y), Line(y)' = Line(y),
           wire'[y] = wire[y], accepted[y] \subseteq accepted'[y],
           NEW d \in {0, 1}, ClosesFrom(y, d), Live(y) => Closing(y) \/ SendsOn(y, d)
    PROVE  Graceful(y)'
<1>1. wire[y] \in Seq(Packet) /\ Extends(wire[y], wire'[y])
  <2>1. wire[y] \in Seq(Packet)
    BY DEF LineInv, Kinds
  <2>. QED BY <2>1, LenProperties DEF Extends
<1>2. \A p : Ahead(y, p)' <=> Ahead(y, p)
  BY DEF Ahead
<1>3. Closes(y) \subseteq Nat
  BY LenProperties DEF Closes, Inv, Types, ThreadTypes
<1>4. Live(y) => \A p : Settled(y, p) => Settled(y, p)' \/ Closing(y)
  BY <1>2, <1>3, SettledStill
<1>5. Closing(y)' => DueThere(y)
  BY DEF Graceful
<1>6. Ending(y)' => y \in DOMAIN due /\ \A p \in due[y] : Done(wire'[y], p)
  BY EndedBefore DEF Graceful, DueDone
<1>7. Closes(y)' # {} => Closes(y) # {}
  BY DEF ClosesFrom
<1>. QED BY <1>1, <1>2, <1>4, <1>5, <1>6, <1>7, GracefulStill

\* inc_sending_ref: the packet is accepted.
LEMMA IncSendingLine ==
    ASSUME Inv, LineInv, NEW t \in Sender, IncSending(t)
    PROVE  LineStep
<1>1. /\ at[t] = "inc" /\ at \in [Sender -> Place]
      /\ UNCHANGED <<pipe, job, wire, opened, due, broken, pc, doomed>>
      /\ at' = [at EXCEPT ![t] = "request"]
  BY DEF IncSending, At, Inv, Types, SenderTypes
<1>2. PICK y \in Id, p \in Packet : y = job[t].id /\ p = job[t].p
  BY <1>1 DEF Inv, Types, SenderTypes, Job
<1>3. PICK k \in Slot : k = HASH_ID(y)
  BY HashType DEF Id
<1>4. PICK q \in Record : q = slot[k]
  BY DEF Inv, Types
<1>5. PICK r : r = inc_sending_ref(q, y)
  OBVIOUS
<1>6. SetSlot(k, r) /\ accepted' = [accepted EXCEPT ![y] = @ \cup {p}]
  BY <1>2, <1>3, <1>4, <1>5 DEF IncSending
<1>7. SameLists(q, r) /\ r.id = q.id /\ r.type = q.type /\ r.closing = q.closing
  <2>1. PICK z : z = [q EXCEPT !.sending = q.sending + 1]
    OBVIOUS
  <2>2. SameLists(q, z) /\ z.id = q.id /\ z.type = q.type /\ z.closing = q.closing
    BY <2>1 DEF Record, SameLists
  <2>3. r = q \/ r = z
    BY <1>5, <2>1 DEF inc_sending_ref
  <2>. QED BY <2>2, <2>3 DEF SameLists
<1>8. Calm(slot[k], r) /\ Kind(r)'
  BY <1>1, <1>4, <1>7, AlikeCalm
<1>9. slot'[k] = r /\ Elsewhere(k)
  BY <1>6 DEF SetSlot, Elsewhere, Inv, Types
<1>10. Kind(slot[k])'
  BY <1>8, <1>9 DEF Kind, LowOnly
<1>11. /\ Requests(y)' = Requests(y) \cup {t}
       /\ \A x \in Id \ {y} : Requests(x)' = Requests(x)
  BY <1>1, <1>2 DEF Requests
<1>12. \A x : PipeFor(x)
  BY <1>1, PipeFlow DEF Inv, Types, ThreadTypes
<1>13. Aside(y, k)
  <2>1. \A x \in Id \ {y} : SameRequests(x)
    BY <1>1, <1>11 DEF SameRequests, RequestsFrom, RequestsOn
  <2>. QED BY <1>1, <1>4, <1>6, <1>7, <1>8, <1>9, <1>12, <2>1 DEF Aside, SameDue
<1>14. ASSUME y \notin broken PROVE InOrder(y)' /\ Graceful(y)'
  <2>1. /\ Live(y)' <=> Live(y)
        /\ Closing(y)' <=> Closing(y)
        /\ Taking(y)' <=> Taking(y)
        /\ Line(y)' = Line(y)
    <3>1. Waiting(r) = Waiting(q)
      BY <1>7, ListsWait
    <3>2. (Live(y)' <=> Live(y)) /\ (Closing(y)' <=> Closing(y)) /\ (Taking(y)' <=> Taking(y))
      BY <1>3, <1>4, <1>7, <1>9 DEF Live, Closing, Taking
    <3>3. Waiting(slot'[k]) = Waiting(slot[k])
      BY <1>4, <1>9, <3>1
    <3>. QED BY <1>3, <3>2, <3>3 DEF Line, Waiting, First
  <2>2. InOrder(y) /\ Graceful(y) /\ wire[y] \in Seq(Packet) /\ accepted[y] \in SUBSET Packet
    BY <1>14 DEF LineInv, Kinds, Inv, Types, SenderTypes
  <2>3. accepted'[y] = accepted[y] \cup {p} /\ wire'[y] = wire[y]
    BY <1>1, <1>6 DEF Inv, Types, SenderTypes
  <2>4. p \notin accepted[y] /\ \A a \in accepted[y] : ~Precedes(p, a)
    BY <1>1, <1>2, LastOne
  <2>5. \A a : Ahead(y, a)' <=> Ahead(y, a)
    BY <2>1, <2>3 DEF Ahead
  <2>6. Ordered(wire'[y], accepted'[y])
    <3>1. PICK w, acc : w = wire[y] /\ acc = accepted[y]
      OBVIOUS
    <3>2. Ordered(w, acc \cup {p})
      BY <2>2, <2>4, <3>1, AcceptOrdered DEF InOrder
    <3>. QED BY <2>3, <3>1, <3>2
  <2>7. ASSUME Live(y) PROVE Lined(wire'[y], Line(y)', accepted'[y])
    <3>1. Line(y) \in Seq(Buffer)
      BY <1>3, <1>4, <2>7, WaitingTypes DEF Line
    <3>2. InLine(wire[y], Line(y), accepted[y])
      BY <2>2, <2>7, <3>1 DEF InOrder, InLine
    <3>3. InLine(wire[y], Line(y), accepted[y] \cup {p})
      BY <2>2, <2>4, <3>2, Accept
    <3>. QED BY <2>1, <2>3, <3>3 DEF InLine
  <2>8. Ahead(y, p)
    <3>1. ~Wrote(wire[y], p)
      BY <2>2, <2>4 DEF InOrder, Ordered, Wrote
    <3>2. ~Waits(Line(y), p)
      <4>1. CASE Live(y)
        BY <2>2, <2>4, <4>1 DEF InOrder, Lined, Waits
      <4>2. CASE ~Live(y)
        BY <4>2, NotWaiting DEF Line
      <4>. QED BY <4>1, <4>2
    <3>. QED BY <3>1, <3>2 DEF Ahead
  <2>9. Sends(y)' = Sends(y)
    BY <1>1 DEF Sends
  <2>10. Coming(y)'
    <3>1. Coming(y)
      BY <2>2 DEF InOrder
    <3>2. \A i \in Sends(y)' : pipe'[i].p \in accepted'[y] /\ Ahead(y, pipe[i].p)'
      BY <1>1, <2>3, <2>5, <2>9, <3>1 DEF Coming
    <3>3. \A u \in Requests(y)' : job'[u].p \in accepted'[y] /\ Ahead(y, job[u].p)'
      BY <1>1, <1>2, <1>11, <2>3, <2>5, <2>8, <3>1 DEF Coming
    <3>4. \A i, j \in Sends(y)' : i < j =>
              pipe'[i].p # pipe'[j].p /\ ~Precedes(pipe'[j].p, pipe'[i].p)
      BY <1>1, <2>9, <3>1 DEF Coming
    <3>5. ASSUME NEW u \in Requests(y)', NEW i \in Sends(y)'
          PROVE  pipe'[i].p # job'[u].p /\ ~Precedes(job'[u].p, pipe'[i].p)
      <4>1. i \in Sends(y) /\ pipe[i].p \in accepted[y]
        BY <2>9, <3>1 DEF Coming
      <4>2. CASE u \in Requests(y)
        BY <1>1, <3>1, <4>1, <4>2 DEF Coming
      <4>3. CASE u = t
        BY <1>1, <1>2, <2>4, <4>1, <4>3
      <4>. QED BY <1>11, <4>2, <4>3
    <3>6. ASSUME Taking(y)', NEW a \in accepted'[y], Ahead(y, a)' PROVE Sending(y, a)'
      <4>1. CASE a = p
        BY <1>1, <1>2, <1>11, <4>1 DEF Sending
      <4>2. CASE a \in accepted[y]
        <5>1. Sending(y, a)
          BY <2>1, <2>5, <3>1, <3>6, <4>2 DEF Coming
        <5>. QED BY <1>1, <1>11, <2>9, <5>1 DEF Sending
      <4>. QED BY <2>3, <3>6, <4>1, <4>2
    <3>7. /\ \A i \in Sends(y)' : Ahead(y, pipe[i].p)'
          /\ \A u \in Requests(y)' : Ahead(y, job[u].p)'
      BY <1>1, <3>2, <3>3 DEF Ahead
    <3>. QED BY <3>2, <3>3, <3>4, <3>5, <3>6, <3>7 DEF Coming
  <2>11. InOrder(y)'
    BY <2>1, <2>6, <2>7, <2>10 DEF InOrder
  <2>12. SendsOn(y, 0) /\ ClosesFrom(y, 0)
    <3>1. \A i \in DOMAIN pipe : i \in Nat /\ i + 0 = i /\ i - 0 = i
      BY LenProperties DEF Inv, Types, ThreadTypes
    <3>. QED BY <1>1, <3>1 DEF SendsOn, ClosesFrom, Sends, Closes
  <2>13. Graceful(y)'
    <3>1. SameDue(y) /\ accepted[y] \subseteq accepted'[y]
      BY <1>1, <2>3 DEF SameDue
    <3>. QED BY <1>13, <2>1, <2>2, <2>3, <2>12, <3>1, GracefulAside
  <2>. QED BY <2>11, <2>13
<1>. QED BY <1>1, <1>10, <1>13, <1>14, OneLine

\* The send command is put on the pipe, behind those of the same service.
LEMMA SendRequestLine ==
    ASSUME Inv, LineInv, NEW t \in Sender, SendRequest(t)
    PROVE  LineStep
<1>1. /\ at[t] = "request" /\ at \in [Sender -> Place] /\ DOMAIN job = Sender
      /\ UNCHANGED <<slot, accepted, wire, opened, due, broken, pc, doomed>>
      /\ at' = [at EXCEPT ![t] = "idle"] /\ job' = [job EXCEPT ![t] = NULL]
  BY DEF SendRequest, At, Inv, Types, SenderTypes, history
<1>2. PICK y \in Id, p \in Packet : y = job[t].id /\ p = job[t].p
  BY <1>1 DEF Inv, Types, SenderTypes, Job
<1>3. PICK c \in Cmd : c = [cmd |-> "send", id |-> y, p |-> p]
  BY DEF Cmd
<1>4. pipe' = Append(pipe, c) /\ c.cmd = "send" /\ c.id = y /\ c.p = p
  BY <1>2, <1>3 DEF SendRequest, Request
<1>5. PICK n : /\ DOMAIN pipe' = DOMAIN pipe \cup {n} /\ pipe'[n] = c
               /\ \A i \in DOMAIN pipe : pipe'[i] = pipe[i] /\ i \in Nat /\ i < n
               /\ n \in Nat
  <2>1. PICK n : n = Len(pipe) + 1
    OBVIOUS
  <2>2. /\ DOMAIN pipe = 1..Len(pipe) /\ Len(pipe) \in Nat
        /\ DOMAIN pipe' = DOMAIN pipe \cup {n} /\ pipe'[n] = c
        /\ \A i \in DOMAIN pipe : pipe'[i] = pipe[i]
    BY <1>4, <2>1, PipeAsked DEF Inv, Types, ThreadTypes
  <2>. QED BY <2>1, <2>2
<1>6. /\ Sends(y)' = Sends(y) \cup {n} /\ Closes(y)' = Closes(y)
      /\ Requests(y)' = Requests(y) \ {t} /\ t \in Requests(y)
      /\ \A i \in Sends(y) \cup Closes(y) : i \in DOMAIN pipe
      /\ \A u \in Requests(y) : u # t => job'[u] = job[u]
  BY <1>1, <1>2, <1>4, <1>5 DEF Sends, Closes, Requests
<1>7. 0 \in Slot
  BY SocketAssumption DEF Slot
<1>8. Aside(y, 0)
  <2>1. ASSUME NEW x \in Id \ {y} PROVE PipeFor(x)
    BY <1>4, <2>1, PipeFlow DEF Inv, Types, ThreadTypes
  <2>2. ASSUME NEW x \in Id \ {y} PROVE SameRequests(x)
    BY <1>1, <1>2 DEF SameRequests, RequestsFrom, RequestsOn, Requests
  <2>. QED BY <1>1, <2>1, <2>2 DEF Aside, Elsewhere, Calm, SameLine, SameDue
<1>9. Kind(slot[0])'
  BY <1>1, <1>7 DEF Kind, LineInv, Kinds, LowOnly
<1>10. ASSUME y \notin broken PROVE InOrder(y)' /\ Graceful(y)'
  <2>1. /\ Live(y)' <=> Live(y)
        /\ Closing(y)' <=> Closing(y)
        /\ Taking(y)' <=> Taking(y)
        /\ Line(y)' = Line(y)
    <3>1. (Live(y)' <=> Live(y)) /\ (Closing(y)' <=> Closing(y)) /\ (Taking(y)' <=> Taking(y))
      BY <1>1 DEF Live, Closing, Taking
    <3>. QED BY <1>1, <3>1 DEF Line, Waiting, First
  <2>2. InOrder(y) /\ Graceful(y) /\ Fresh
    BY <1>10 DEF LineInv
  <2>3. \A a : Ahead(y, a)' <=> Ahead(y, a)
    BY <1>1, <2>1 DEF Ahead
  <2>4. Coming(y)'
    <3>1. Coming(y)
      BY <2>2 DEF InOrder
    <3>2. p \in accepted[y] /\ Ahead(y, p)
      BY <1>2, <1>6, <3>1 DEF Coming
    <3>3. \A i \in Sends(y) : pipe'[i].p = pipe[i].p
      BY <1>5, <1>6
    <3>4. \A i \in Sends(y)' : pipe'[i].p \in accepted'[y] /\ Ahead(y, pipe[i].p)'
      <4>1. ASSUME NEW i \in Sends(y)', NEW a, a = pipe'[i].p
            PROVE  a \in accepted[y] /\ Ahead(y, a)'
        <5>1. a = p \/ (i \in Sends(y) /\ a = pipe[i].p)
          BY <1>4, <1>5, <1>6, <3>3, <4>1
        <5>2. a \in accepted[y] /\ Ahead(y, a)
          BY <3>1, <3>2, <5>1 DEF Coming
        <5>. QED BY <2>3, <5>2
      <4>. QED BY <1>1, <4>1 DEF Ahead
    <3>5. \A u \in Requests(y)' : job'[u].p \in accepted'[y] /\ Ahead(y, job[u].p)'
      <4>1. ASSUME NEW u \in Requests(y)', NEW a, a = job'[u].p
            PROVE  a \in accepted[y] /\ Ahead(y, a)'
        <5>1. u \in Requests(y) /\ a = job[u].p
          BY <1>6, <4>1
        <5>2. a \in accepted[y] /\ Ahead(y, a)
          BY <3>1, <5>1 DEF Coming
        <5>. QED BY <2>3, <5>2
      <4>. QED BY <1>1, <4>1 DEF Ahead
    <3>6. ASSUME NEW i \in Sends(y)', NEW j \in Sends(y)', i < j
          PROVE  pipe'[i].p # pipe'[j].p /\ ~Precedes(pipe'[j].p, pipe'[i].p)
      <4>1. i \in Sends(y)
        BY <1>5, <1>6, <3>6
      <4>2. CASE j \in Sends(y)
        BY <3>1, <3>3, <3>6, <4>1, <4>2 DEF Coming
      <4>3. CASE j = n
        BY <1>2, <1>4, <1>5, <1>6, <3>1, <3>3, <4>1, <4>3 DEF Coming
      <4>. QED BY <1>6, <4>2, <4>3
    <3>7. ASSUME NEW u \in Requests(y)', NEW i \in Sends(y)'
          PROVE  pipe'[i].p # job'[u].p /\ ~Precedes(job'[u].p, pipe'[i].p)
      <4>1. u \in Requests(y) /\ u # t /\ job'[u] = job[u]
        BY <1>6
      <4>2. CASE i \in Sends(y)
        BY <3>1, <3>3, <4>1, <4>2 DEF Coming
      <4>3. CASE i = n
        <5>1. job[u].p.by = u /\ p.by = t
          BY <1>1, <1>2, <2>2, <4>1 DEF Fresh, Requests
        <5>. QED BY <1>4, <1>5, <4>1, <4>3, <5>1 DEF Precedes
      <4>. QED BY <1>6, <4>2, <4>3
    <3>8. ASSUME Taking(y)', NEW a \in accepted'[y], Ahead(y, a)' PROVE Sending(y, a)'
      <4>1. Sending(y, a)
        BY <1>1, <2>1, <2>3, <3>1, <3>8 DEF Coming
      <4>2. CASE \E i \in Sends(y) : pipe[i].p = a
        BY <1>6, <3>3, <4>2 DEF Sending
      <4>3. CASE \E u \in Requests(y) : job[u].p = a
        <5>1. PICK u \in Requests(y) : job[u].p = a
          BY <4>3
        <5>2. CASE u = t
          BY <1>2, <1>4, <1>5, <1>6, <5>1, <5>2 DEF Sending
        <5>3. CASE u # t
          BY <1>6, <5>1, <5>3 DEF Sending
        <5>. QED BY <5>2, <5>3
      <4>. QED BY <4>1, <4>2, <4>3 DEF Sending
    <3>. QED BY <3>4, <3>5, <3>6, <3>7, <3>8 DEF Coming
  <2>5. InOrder(y)'
    BY <1>1, <2>1, <2>2, <2>4 DEF InOrder
  <2>6. SendsOn(y, 0) /\ ClosesFrom(y, 0)
    <3>1. \A i \in DOMAIN pipe : i \in Nat /\ i + 0 = i /\ i - 0 = i /\ pipe'[i] = pipe[i]
      BY <1>5
    <3>. QED BY <1>6, <3>1 DEF SendsOn, ClosesFrom
  <2>7. Graceful(y)'
    <3>1. SameDue(y) /\ accepted[y] \subseteq accepted'[y]
      BY <1>1 DEF SameDue
    <3>. QED BY <1>1, <1>7, <1>8, <2>1, <2>2, <2>6, <3>1, GracefulAside
  <2>. QED BY <2>5, <2>7
<1>. QED BY <1>1, <1>7, <1>8, <1>9, <1>10, OneLine

\* The pipe, without the first command, which was a packet of y.
LEMMA SendTaken ==
    ASSUME pipe \in Seq(Cmd), pipe # <<>>, pipe' = Tail(pipe), NEW y,
           Head(pipe).cmd = "send", Head(pipe).id = y
    PROVE  /\ 1 \in Sends(y) /\ Head(pipe) = pipe[1]
           /\ SendsFrom(y, 1) /\ ClosesFrom(y, 1)
           /\ \A i \in Sends(y)' : 1 < i + 1
           /\ \A i \in Sends(y) \ {1} : i - 1 \in Sends(y)' /\ pipe'[i - 1].p = pipe[i].p
           /\ \A i \in Sends(y) \cup Closes(y) : i \in Nat /\ i >= 1
<1>1. /\ DOMAIN pipe = 1..Len(pipe) /\ Len(pipe) \in Nat
      /\ Head(pipe) = pipe[1] /\ 1 \in DOMAIN pipe
      /\ \A i \in DOMAIN pipe' :
           i \in Nat /\ i + 1 \in DOMAIN pipe /\ pipe'[i] = pipe[i + 1]
      /\ \A i \in DOMAIN pipe \ {1} : i - 1 \in DOMAIN pipe'
  BY PipeTaken
<1>2. SendsFrom(y, 1) /\ ClosesFrom(y, 1)
  BY <1>1 DEF SendsFrom, ClosesFrom, Sends, Closes
<1>3. ASSUME NEW i \in Sends(y) \ {1}
      PROVE  i - 1 \in Sends(y)' /\ pipe'[i - 1].p = pipe[i].p
  <2>1. i \in DOMAIN pipe /\ i \in Nat /\ i # 1 /\ i - 1 + 1 = i
    BY <1>1 DEF Sends
  <2>2. i - 1 \in DOMAIN pipe' /\ pipe'[i - 1] = pipe[i]
    BY <1>1, <2>1
  <2>. QED BY <2>1, <2>2 DEF Sends
<1>4. ASSUME NEW i \in Sends(y)' PROVE 1 < i + 1
  <2>1. i \in DOMAIN pipe' /\ i \in Nat
    BY <1>1 DEF Sends
  <2>2. DOMAIN pipe' = 1..Len(pipe')
    BY HeadTailProperties, LenProperties
  <2>. QED BY <2>1, <2>2
<1>. QED BY <1>1, <1>2, <1>3, <1>4 DEF Sends, Closes

\* send_socket: the packet is put into one of the lists, or dropped by a closing socket.
LEMMA SendSocketLine ==
    ASSUME Inv, LineInv, ~Crosses, SendSocket
    PROVE  LineStep
<1>1. /\ pipe # <<>> /\ Head(pipe).cmd = "send" /\ pipe' = Tail(pipe) /\ pc = "poll"
      /\ k_ \in Slot /\ id_ \in Id /\ 1 \in DOMAIN pipe /\ Head(pipe) = pipe[1]
      /\ Head(pipe).p \in Packet
  BY CommandFacts, HeadOfPipe DEF SendSocket, Inv, Types, ThreadTypes
<1>2. UNCHANGED <<at, job, opened, wire, accepted, due, broken, pc, doomed>>
  BY DEF SendSocket, sendVars, history
<1>3. PICK k \in Slot, y \in Id, p \in Packet : k = k_ /\ y = id_ /\ p = Head(pipe).p /\ k = HASH_ID(y)
  BY <1>1 DEF k_
<1>4. PICK q \in Record : q = slot[k]
  BY DEF Inv, Types
<1>. DEFINE refused == \/ q.id # y \/ q.closing
                       \/ q.type \in {"INVALID", "HALFCLOSE_WRITE", "PACCEPT", "PLISTEN", "LISTEN"}
<1>5. PICK u \in Record : u = IF refused THEN q ELSE Queued(q, p)
  BY QueuedFields
<1>6. PICK z : z = slot'[k]
  OBVIOUS
<1>7. /\ Elsewhere(k)
      /\ \/ z = u
         \/ z = [u EXCEPT !.sending = @ - 1] /\ q.id = y
  BY <1>3, <1>4, <1>5, <1>6 DEF SendSocket, SetSlot, Elsewhere, Inv, Types
<1>8. u.id = q.id /\ u.type = q.type /\ u.closing = q.closing
  BY <1>5, QueuedFields DEF Alike
<1>9. SameLists(u, z) /\ z.id = q.id /\ z.type = q.type /\ z.closing = q.closing
  <2>1. PICK x : x = [u EXCEPT !.sending = u.sending - 1]
    OBVIOUS
  <2>2. SameLists(u, x) /\ x.id = u.id /\ x.type = u.type /\ x.closing = u.closing
    BY <2>1 DEF Record, SameLists
  <2>. QED BY <1>7, <1>8, <2>1, <2>2 DEF SameLists
<1>10. Kind(q)
  BY <1>4 DEF LineInv, Kinds
<1>11. Kind(slot[k])'
  <2>1. LowOnly(u)
    BY <1>5, <1>10, QueuedWaiting DEF Kind
  <2>2. LowOnly(z)
    BY <1>9, <2>1, ListsWait
  <2>3. Kind(z)'
    BY <1>2, <1>9, <1>10, <2>2 DEF Kind
  <2>. QED BY <1>6, <2>3 DEF Kind, LowOnly
<1>12. Aside(y, k)
  <2>1. \A x : SameRequests(x)
    BY <1>2 DEF SameRequests, RequestsFrom, RequestsOn, Requests
  <2>2. ASSUME NEW x \in Id \ {y} PROVE PipeFor(x)
    BY <1>1, <1>3, <2>2, PipeFlow DEF Inv, Types, ThreadTypes, id_
  <2>3. q.id = y \/ z = q
    BY <1>5, <1>7
  <2>4. q.id = y \/ Calm(q, z)
    BY <2>3 DEF Calm, SameLine
  <2>. QED BY <1>2, <1>4, <1>6, <1>7, <1>9, <2>1, <2>2, <2>4 DEF Aside, SameDue
<1>13. /\ Live(y) <=> q.id = y /\ q.type \notin Dead
       /\ Live(y)' <=> Live(y)
       /\ Closing(y) <=> Live(y) /\ q.closing
       /\ Closing(y)' <=> Closing(y)
       /\ Taking(y) <=> Live(y) /\ ~q.closing
       /\ Taking(y)' <=> Taking(y)
       /\ Live(y) => Line(y) = Waiting(q) /\ Line(y)' = Waiting(u)
       /\ ~Live(y) => Line(y) = <<>> /\ Line(y)' = <<>>
  <2>1. /\ Live(y) <=> q.id = y /\ q.type \notin Dead
        /\ Live(y)' <=> Live(y)
        /\ Closing(y) <=> Live(y) /\ q.closing
        /\ Closing(y)' <=> Closing(y)
        /\ Taking(y) <=> Live(y) /\ ~q.closing
        /\ Taking(y)' <=> Taking(y)
    BY <1>3, <1>4, <1>6, <1>9 DEF Live, Closing, Taking, Dead
  <2>2. Waiting(z) = Waiting(u)
    BY <1>9, ListsWait
  <2>3. Waiting(slot'[k]) = Waiting(u)
    BY <1>6, <2>2
  <2>. QED BY <1>3, <1>4, <2>1, <2>3 DEF Line, Waiting, First
<1>14. /\ 1 \in Sends(y) /\ pipe[1].p = p
       /\ SendsFrom(y, 1) /\ ClosesFrom(y, 1)
       /\ \A i \in Sends(y)' : 1 < i + 1
       /\ \A i \in Sends(y) \ {1} : i - 1 \in Sends(y)' /\ pipe'[i - 1].p = pipe[i].p
       /\ \A i \in Sends(y) \cup Closes(y) : i \in Nat /\ i >= 1
  BY <1>1, <1>3, SendTaken DEF Inv, Types, ThreadTypes, id_
<1>15. /\ RequestsFrom(y) /\ RequestsOn(y) /\ Requests(y)' = Requests(y) /\ SameDue(y)
  BY <1>2 DEF RequestsFrom, RequestsOn, Requests, SameDue
<1>16. ASSUME y \notin broken PROVE InOrder(y)' /\ Graceful(y)'
  <2>1. InOrder(y) /\ Graceful(y) /\ wire[y] \in Seq(Packet) /\ accepted[y] \in SUBSET Packet
    BY <1>16 DEF LineInv, Kinds, Inv, Types, SenderTypes
  <2>2. y \in opened
    BY <1>1, <1>3 DEF Inv, Sent, id_
  <2>3. refused <=> ~Taking(y)
    <3>1. q.type # "RESERVE" \/ q.id # y
      BY <1>1, <1>3, <1>4, NotReserved DEF Opening
    <3>. QED BY <1>10, <1>13, <1>16, <2>2, <3>1 DEF Kind, Dead
  <2>4. CASE ~Taking(y)
    <3>1. Line(y)' = Line(y)
      BY <1>5, <1>13, <2>3, <2>4
    <3>2. InOrder(y)'
      BY <1>2, <1>13, <1>14, <1>15, <2>1, <2>4, <3>1, InOrderStill
    <3>3. Live(y) => Closing(y)
      BY <1>13, <2>4
    <3>4. Graceful(y)'
      BY <1>2, <1>12, <1>13, <1>14, <1>15, <2>1, <3>1, <3>3, GracefulAside
    <3>. QED BY <3>2, <3>4
  <2>5. CASE Taking(y)
    <3>. DEFINE w == wire[y]
                acc == accepted[y]
                l == Line(y)
                s == Waiting(u)
    <3>1. Live(y) /\ l = Waiting(q) /\ Line(y)' = s /\ u = Queued(q, p)
      BY <1>5, <1>13, <2>3, <2>5
    <3>2. InLine(w, l, acc) /\ Coming(y)
      <4>1. Waiting(q) \in Seq(Buffer)
        BY WaitingTypes
      <4>. QED BY <2>1, <3>1, <4>1 DEF InOrder, InLine
    <3>3. p \in acc /\ ~There(w, l, p)
      BY <1>14, <3>2 DEF Coming, Ahead, There
    <3>4. ASSUME NEW r \in acc, Precedes(r, p) PROVE There(w, l, r)
      <4>1. ASSUME Ahead(y, r) PROVE FALSE
        <5>1. Sending(y, r)
          BY <2>5, <3>2, <4>1 DEF Coming
        <5>2. ASSUME NEW i \in Sends(y), pipe[i].p = r PROVE FALSE
          <6>1. r # p
            BY <2>1, <3>3, <3>4, PrecedesFacts
          <6>2. i # 1 /\ 1 < i
            BY <1>14, <5>2, <6>1
          <6>. QED BY <1>14, <3>2, <3>4, <5>2, <6>2 DEF Coming
        <5>3. ASSUME NEW t \in Requests(y), job[t].p = r PROVE FALSE
          BY <1>14, <3>2, <3>4, <5>3 DEF Coming
        <5>. QED BY <5>1, <5>2, <5>3 DEF Sending
      <4>. QED BY <4>1 DEF Ahead, There
    <3>5. InLine(w, s, acc) /\ \A r : There(w, s, r) <=> There(w, l, r) \/ r = p
      <4>1. PICK m : Inserted(Waiting(q), Waiting(u), m, p)
        BY <1>10, <3>1, QueuedWaiting DEF Kind
      <4>2. Inserted(l, s, m, p)
        BY <3>1, <4>1
      <4>. HIDE DEF w, acc, l, s
      <4>. QED BY <2>1, <3>2, <3>3, <3>4, <4>2, Enqueue DEF acc
    <3>6. \A r : Ahead(y, r)' <=> Ahead(y, r) /\ r # p
      <4>1. \A r : Ahead(y, r)' <=> ~There(w, s, r)
        BY <1>2, <3>1 DEF Ahead, There
      <4>2. \A r : Ahead(y, r) <=> ~There(w, l, r)
        BY DEF Ahead, There
      <4>. HIDE DEF w, s, l
      <4>. QED BY <3>5, <4>1, <4>2
    <3>. HIDE DEF w, acc, l, s
    <3>7. \A i \in Sends(y)' : /\ i \in Nat /\ i + 1 \in Sends(y) /\ 1 < i + 1
                               /\ pipe'[i].p = pipe[i + 1].p
      BY <1>14 DEF SendsFrom
    <3>8. Coming(y)'
      <4>1. \A i \in Sends(y)' : pipe'[i].p \in accepted'[y] /\ Ahead(y, pipe[i].p)'
        <5>1. ASSUME NEW i \in Sends(y)', NEW a, a = pipe'[i].p
              PROVE  a \in accepted[y] /\ Ahead(y, a)'
          <6>1. i + 1 \in Sends(y) /\ 1 < i + 1 /\ a = pipe[i + 1].p
            BY <3>7, <5>1
          <6>2. a \in accepted[y] /\ Ahead(y, a) /\ a # p
            BY <1>14, <3>2, <6>1 DEF Coming
          <6>. QED BY <3>6, <6>2
        <5>. QED BY <1>2, <5>1 DEF Ahead
      <4>2. \A t \in Requests(y)' : job'[t].p \in accepted'[y] /\ Ahead(y, job[t].p)'
        <5>1. ASSUME NEW t \in Requests(y)', NEW a, a = job'[t].p
              PROVE  a \in accepted[y] /\ Ahead(y, a)'
          <6>1. t \in Requests(y) /\ a = job[t].p
            BY <1>2, <1>15, <5>1
          <6>2. a \in accepted[y] /\ Ahead(y, a) /\ a # p
            BY <1>14, <3>2, <6>1 DEF Coming
          <6>. QED BY <3>6, <6>2
        <5>. QED BY <1>2, <5>1 DEF Ahead
      <4>3. ASSUME NEW i \in Sends(y)', NEW j \in Sends(y)', i < j
            PROVE  pipe'[i].p # pipe'[j].p /\ ~Precedes(pipe'[j].p, pipe'[i].p)
        <5>1. i + 1 \in Sends(y) /\ j + 1 \in Sends(y) /\ i + 1 < j + 1
              /\ pipe'[i].p = pipe[i + 1].p /\ pipe'[j].p = pipe[j + 1].p
          BY <3>7, <4>3
        <5>. QED BY <3>2, <5>1 DEF Coming
      <4>4. ASSUME NEW t \in Requests(y)', NEW i \in Sends(y)'
            PROVE  pipe'[i].p # job'[t].p /\ ~Precedes(job'[t].p, pipe'[i].p)
        <5>1. i + 1 \in Sends(y) /\ t \in Requests(y) /\ job'[t] = job[t]
              /\ pipe'[i].p = pipe[i + 1].p
          BY <1>2, <1>15, <3>7
        <5>. QED BY <3>2, <5>1 DEF Coming
      <4>5. ASSUME NEW a \in accepted'[y], Ahead(y, a)' PROVE Sending(y, a)'
        <5>1. Sending(y, a) /\ a # p
          BY <1>2, <2>5, <3>2, <3>6, <4>5 DEF Coming
        <5>2. CASE \E i \in Sends(y) : pipe[i].p = a
          <6>1. PICK i \in Sends(y) \ {1} : pipe[i].p = a
            BY <1>14, <5>1, <5>2
          <6>2. i - 1 \in Sends(y)' /\ pipe'[i - 1].p = a
            BY <1>14, <6>1
          <6>. QED BY <6>2 DEF Sending
        <5>3. CASE \E t \in Requests(y) : job[t].p = a
          BY <1>2, <1>15, <5>3 DEF Sending
        <5>. QED BY <5>1, <5>2, <5>3 DEF Sending
      <4>. QED BY <4>1, <4>2, <4>3, <4>4, <4>5 DEF Coming
    <3>9. InOrder(y)'
      BY <1>2, <3>1, <3>5, <3>8 DEF InOrder, InLine, w, acc
    <3>10. ASSUME NEW a \in accepted[y], Settled(y, a) PROVE Settled(y, a)'
      <4>1. CASE ~Ahead(y, a) \/ a = p
        BY <3>6, <4>1 DEF Settled
      <4>2. CASE Ahead(y, a) /\ a # p
        <5>1. PICK i \in Sends(y) : pipe[i].p = a /\ \A j \in Closes(y) : i < j
          BY <3>10, <4>2 DEF Settled
        <5>2. i - 1 \in Sends(y)' /\ pipe'[i - 1].p = a /\ i \in Nat
          BY <1>14, <4>2, <5>1
        <5>3. ASSUME NEW j \in Closes(y)' PROVE i - 1 < j
          <6>1. j \in Nat /\ i < j + 1
            BY <1>14, <5>1 DEF ClosesFrom
          <6>. QED BY <5>2, <6>1
        <5>. QED BY <5>2, <5>3 DEF Settled
      <4>. QED BY <4>1, <4>2
    <3>11. Graceful(y)'
      <4>1. ~Closing(y)' /\ Live(y)'
        BY <1>13, <2>5
      <4>2. Ending(y)' => y \in DOMAIN due /\ \A a \in due[y] : Done(wire'[y], a)
        BY <1>2, <1>12, <2>1, <4>1, EndedBefore DEF Graceful, DueDone
      <4>3. Extends(wire[y], wire'[y])
        BY <1>2, <2>1, LenProperties DEF Extends
      <4>4. Closes(y)' # {} => Closes(y) # {}
        BY <1>14 DEF ClosesFrom
      <4>. QED BY <1>2, <1>15, <2>1, <3>1, <3>6, <3>10, <4>1, <4>2, <4>3, <4>4, GracefulStill
    <3>. QED BY <3>9, <3>11
  <2>. QED BY <2>4, <2>5
<1>. QED BY <1>2, <1>11, <1>12, <1>16, OneLine

\* What a direct write has left goes to the front of the lists: the line is the same.
LEMMA TakeDirectWaiting ==
    ASSUME NEW q \in Record, NEW r, r = TakeDirect(q)
    PROVE  /\ r \in Record /\ r.dw_buffer = NULL /\ r.id = q.id /\ r.type = q.type
           /\ r.closing = q.closing
           /\ Waiting(r) = Waiting(q) /\ Waiting(r) = r.high \o r.low
           /\ LowOnly(q) => LowOnly(r)
<1>1. /\ r \in Record /\ r.dw_buffer = NULL /\ r.id = q.id /\ r.type = q.type
      /\ r.closing = q.closing
  BY TakeDirectFields DEF Alike
<1>2. First(r) = r.high
  BY <1>1 DEF First
<1>3. CASE q.dw_buffer = NULL
  <2>1. r = q
    BY <1>3 DEF TakeDirect
  <2>. QED BY <1>1, <1>2, <2>1 DEF Waiting
<1>4. CASE q.dw_buffer # NULL
  <2>1. r = [q EXCEPT !.high = <<q.dw_buffer>> \o q.high, !.dw_buffer = NULL]
    BY <1>4 DEF TakeDirect
  <2>2. r.high = <<q.dw_buffer>> \o q.high /\ r.low = q.low
    BY <2>1 DEF Record
  <2>3. First(q) = <<q.dw_buffer>> \o q.high
    BY <1>4 DEF First
  <2>. QED BY <1>1, <1>2, <2>2, <2>3 DEF Waiting, LowOnly
<1>. QED BY <1>3, <1>4

\* What close_write and the end of send_buffer make of the lists.
LEMMA CloseWriteLow ==
    ASSUME NEW r \in Record, LowOnly(r)
    PROVE  LowOnly(CloseWrite(r))
<1>1. CASE r.closing \/ r.type = "HALFCLOSE_READ"
  <2>1. CloseWrite(r).low = <<>>
    BY <1>1, ClosedFields DEF CloseWrite, send_buffer_empty
  <2>. QED BY <2>1 DEF LowOnly
<1>2. CASE ~(r.closing \/ r.type = "HALFCLOSE_READ")
  <2>1. PICK s : s = [r EXCEPT !.type = "HALFCLOSE_WRITE", !.writing = FALSE]
    OBVIOUS
  <2>2. s.low = r.low
    BY <2>1 DEF Record
  <2>3. CloseWrite(r) = r \/ CloseWrite(r) = s
    BY <1>2, <2>1 DEF CloseWrite
  <2>. QED BY <2>2, <2>3 DEF LowOnly
<1>. QED BY <1>1, <1>2

\* A socket that is closing is at an end when its lists are empty.
LEMMA CheckCloseLists ==
    ASSUME NEW r \in Record, LowOnly(r), r.dw_buffer = NULL, NEW s, s = CheckClose(r)
    PROVE  /\ s.id = r.id /\ LowOnly(s)
           /\ \/ s.type = r.type /\ s.closing = r.closing /\ Waiting(s) = Waiting(r)
              \/ s.type = "INVALID" /\ r.closing /\ Waiting(r) = <<>>
<1>1. /\ s.id = r.id
      /\ \/ s.type = "INVALID" /\ send_buffer_empty(s) /\ r.closing
         \/ s.type = r.type /\ s.closing = r.closing /\ SameLists(r, s)
  BY CheckCloseFields DEF SameLists
<1>2. LowOnly(s)
  BY <1>1, ListsWait DEF LowOnly, send_buffer_empty
<1>3. CASE send_buffer_empty(r)
  <2>1. Waiting(r) = <<>>
    BY <1>3, WaitingNone
  <2>. QED BY <1>1, <1>2, <2>1, ListsWait
<1>4. CASE ~send_buffer_empty(r)
  <2>1. s = r
    BY <1>4 DEF CheckClose
  <2>. QED BY <1>2, <2>1
<1>. QED BY <1>3, <1>4

\* send_list_tcp has written something of the line of y.
LEMMA WrittenLine ==
    ASSUME Inv, LineInv, NEW k \in Slot, NEW y \in Id \ broken', Aside(y, k), broken' = broken,
           Live(y), UNCHANGED <<pipe, at, job, accepted, due>>,
           NEW s, Line(y)' = s, Onward(wire[y], Line(y), wire'[y], s, accepted[y]),
           Live(y)' => (Closing(y)' <=> Closing(y)),
           ~Live(y)' => Closing(y) /\ s = <<>>
    PROVE  InOrder(y)' /\ Graceful(y)'
<1>1. InOrder(y) /\ Graceful(y) /\ wire[y] \in Seq(Packet)
  BY DEF LineInv, Kinds
<1>2. /\ InLine(wire'[y], s, accepted[y]) /\ Extends(wire[y], wire'[y])
      /\ \A p : There(wire'[y], s, p) <=> There(wire[y], Line(y), p)
      /\ wire'[y] \in Seq(Packet)
  BY DEF Onward, InLine
<1>3. \A p : Ahead(y, p)' <=> Ahead(y, p)
  BY <1>2 DEF Ahead, There
<1>4. Taking(y)' => Taking(y)
  BY DEF Taking, Closing, Live
<1>5. /\ SendsFrom(y, 0) /\ SendsOn(y, 0) /\ ClosesFrom(y, 0) /\ Closes(y) \subseteq Nat
      /\ RequestsFrom(y) /\ RequestsOn(y) /\ SameDue(y)
  <2>1. \A i \in DOMAIN pipe : i \in Nat /\ i + 0 = i /\ i - 0 = i
    BY LenProperties DEF Inv, Types, ThreadTypes
  <2>. QED BY <2>1 DEF SendsFrom, SendsOn, ClosesFrom, Sends, Closes,
       RequestsFrom, RequestsOn, Requests, SameDue
<1>6. InOrder(y)'
  <2>1. Coming(y)'
    BY <1>1, <1>3, <1>4, <1>5, ComingStill DEF InOrder
  <2>. QED BY <1>2, <2>1 DEF InOrder, InLine
<1>7. \A p : Settled(y, p) => Settled(y, p)'
  BY <1>3, <1>5, SettledStill
<1>8. Closing(y)' => DueThere(y)
  BY <1>1 DEF Graceful, Closing
<1>9. ASSUME Ending(y)' PROVE y \in DOMAIN due /\ \A p \in due[y] : Done(wire'[y], p)
  <2>1. CASE Ending(y)
    <3>1. y \in DOMAIN due /\ \A p \in due[y] : Done(wire[y], p)
      BY <1>1, <2>1 DEF Graceful, DueDone
    <3>. QED BY <1>1, <1>2, <3>1, DoneStays
  <2>2. CASE ~Live(y)'
    <3>1. y \in DOMAIN due /\ \A p \in due[y] : ~Ahead(y, p)
      BY <1>1, <2>2 DEF Graceful, DueThere
    <3>2. ASSUME NEW p \in due[y] PROVE Done(wire'[y], p)
      <4>1. There(wire'[y], s, p)
        BY <1>2, <3>1 DEF Ahead, There
      <4>2. Len(s) = 0
        BY <2>2
      <4>. QED BY <1>2, <4>1, <4>2, AllDone
    <3>. QED BY <3>1, <3>2
  <2>. QED BY <1>9, <2>1, <2>2, EndedBefore
<1>10. Graceful(y)'
  <2>1. Closes(y)' # {} => Closes(y) # {}
    BY <1>5 DEF ClosesFrom
  <2>. QED BY <1>1, <1>2, <1>3, <1>5, <1>7, <1>8, <1>9, <2>1, GracefulStill
<1>. QED BY <1>6, <1>10

\* send_buffer: what is written goes on where the written part ends.
LEMMA SendBufferLine ==
    ASSUME Inv, LineInv, SendBuffer
    PROVE  LineStep
<1>1. PICK k \in Slot : k = s_
  BY EventFacts DEF SendBuffer
<1>2. PICK q \in Record : q = slot[k]
  BY DEF Inv, Types
<1>3. /\ q.type \in Open
      /\ UNCHANGED <<pipe, at, job, opened, accepted, due>> /\ pc' # "force"
  BY <1>1, <1>2 DEF SendBuffer, Event, Handled, sendVars
<1>4. PICK r : r = TakeDirect(q)
  OBVIOUS
<1>5. /\ r \in Record /\ r.dw_buffer = NULL /\ r.id = q.id /\ r.type = q.type
      /\ r.closing = q.closing
      /\ Waiting(r) = Waiting(q) /\ Waiting(r) = r.high \o r.low
      /\ LowOnly(q) => LowOnly(r)
  BY <1>4, TakeDirectWaiting
<1>6. PICK l : l = Waiting(r)
  OBVIOUS
<1>7. \/ UNCHANGED <<slot, wire, broken>>
      \/ \E n \in 0..Len(l), part \in 0..1, error \in BOOLEAN :
            /\ n = Len(l) => part = 0 /\ ~error
            /\ part = 1 => ~error /\ l[n + 1].off = 0
            /\ wire' = [wire EXCEPT ![r.id] = @ \o Bytes(l, n, part)]
            /\ SetSlot(k, IF error THEN CloseWrite(Written(r, n, 0))
                           ELSE CheckClose(Written(r, n, part)))
            /\ broken' = IF error THEN broken \cup {r.id} ELSE broken
  <2>1. l = TakeDirect(slot[s_]).high \o TakeDirect(slot[s_]).low /\ r = TakeDirect(slot[s_])
    BY <1>1, <1>2, <1>4, <1>5, <1>6
  <2>. QED BY <1>1, <2>1 DEF SendBuffer
<1>8. CASE UNCHANGED <<slot, wire, broken>>
  <2>1. CalmVars
    BY <1>3, <1>8 DEF CalmVars
  <2>. QED BY <1>3, <1>8, <2>1, CalmNoSlot
<1>9. q.type \notin Dead
  BY <1>3 DEF Open, Dead
<1>10. PICK y \in Id : y = q.id /\ HASH_ID(y) = k
  BY <1>2, <1>9 DEF Inv, Placed, SlotPlaced
<1>11. LowOnly(r) /\ Kind(q)
  BY <1>2, <1>5 DEF LineInv, Kinds, Kind
<1>12. ASSUME NEW n \in 0..Len(l), NEW part \in 0..1, NEW error \in BOOLEAN,
              n = Len(l) => part = 0 /\ ~error,
              part = 1 => ~error /\ l[n + 1].off = 0,
              wire' = [wire EXCEPT ![r.id] = @ \o Bytes(l, n, part)],
              SetSlot(k, IF error THEN CloseWrite(Written(r, n, 0))
                           ELSE CheckClose(Written(r, n, part))),
              broken' = IF error THEN broken \cup {r.id} ELSE broken
       PROVE  LineStep
  <2>1. l \in Seq(Buffer) /\ Len(l) \in Nat /\ (part = 1 => n < Len(l))
    <3>1. l \in Seq(Buffer) /\ Len(l) \in Nat
      BY <1>5, <1>6, WaitingTypes, LenProperties
    <3>2. part = 1 => n # Len(l)
      BY <1>12
    <3>. QED BY <3>1, <3>2
  <2>2. PICK u : u = Written(r, n, part)
    OBVIOUS
  <2>3. /\ u \in Record /\ u.id = y /\ u.type = q.type /\ u.closing = q.closing /\ u.dw_buffer = NULL
        /\ LowOnly(u) /\ Waiting(u) = Left(l, n, part)
    <3>1. n \in 0..Len(r.high \o r.low) /\ (n = Len(r.high \o r.low) => part = 0)
      BY <1>5, <1>6, <1>12
    <3>2. u \in Record /\ Alike(r, u) /\ u.dw_buffer = r.dw_buffer
      BY <1>5, <2>2, <3>1, WrittenFields
    <3>3. LowOnly(u) /\ Waiting(u) = Left(l, n, part)
      BY <1>5, <1>6, <1>11, <2>1, <2>2, WrittenWaiting
    <3>. QED BY <1>5, <1>10, <3>2, <3>3 DEF Alike
  <2>4. part = 0 => u = Written(r, n, 0)
    BY <2>2
  <2>5. PICK z : z = IF error THEN CloseWrite(u) ELSE CheckClose(u)
    OBVIOUS
  <2>6. SetSlot(k, z)
    <3>1. error => part = 0
      BY <1>12
    <3>. QED BY <1>12, <2>2, <2>4, <2>5, <3>1
  <2>7. slot'[k] = z /\ Elsewhere(k)
    BY <2>6 DEF SetSlot, Elsewhere, Inv, Types
  <2>8. PICK v : v = wire[y] \o Bytes(l, n, part)
    OBVIOUS
  <2>9. /\ wire \in [Id -> Seq(Packet)]
        /\ wire'[y] = v /\ \A x \in Id \ {y} : wire'[x] = wire[x]
    <3>1. wire \in [Id -> Seq(Packet)]
      BY DEF LineInv, Kinds
    <3>. QED BY <1>5, <1>10, <1>12, <2>8, <3>1
  <2>10. z.id = y /\ LowOnly(z)
    BY <2>3, <2>5, CloseWriteFields, CloseWriteLow, CheckCloseLists
  <2>11. broken \subseteq broken' /\ (error => y \in broken') /\ (~error => broken' = broken)
    BY <1>5, <1>10, <1>12
  <2>12. Aside(y, k)
    <3>1. \A x : SameRequests(x)
      BY <1>3 DEF SameRequests, RequestsFrom, RequestsOn, Requests
    <3>2. \A x : PipeFor(x)
      BY <1>3, PipeFlow DEF Inv, Types, ThreadTypes
    <3>. QED BY <1>2, <1>3, <1>10, <2>7, <2>9, <2>10, <2>11, <3>1, <3>2 DEF Aside, SameDue
  <2>13. CASE error
    <3>1. z.type \in {"INVALID", "HALFCLOSE_WRITE"}
      BY <2>3, <2>5, <2>13, CloseWriteFields
    <3>2. Kind(z)'
      BY <2>10, <2>11, <2>13, <3>1 DEF Kind
    <3>3. Kind(slot[k])'
      BY <2>7, <3>2 DEF Kind, LowOnly
    <3>. QED BY <2>11, <2>12, <2>13, <3>3, OneLine
  <2>14. CASE ~error
    <3>1. /\ \/ z.type = q.type /\ z.closing = q.closing /\ Waiting(z) = Left(l, n, part)
             \/ z.type = "INVALID" /\ q.closing /\ Left(l, n, part) = <<>>
      BY <2>3, <2>5, <2>14, CheckCloseLists
    <3>2. Kind(slot[k])'
      <4>1. Kind(z)'
        BY <1>3, <1>10, <1>11, <2>10, <2>11, <2>14, <3>1 DEF Kind
      <4>. QED BY <2>7, <4>1 DEF Kind, LowOnly
    <3>3. PICK s : s = Left(l, n, part)
      OBVIOUS
    <3>4. ASSUME y \notin broken PROVE InOrder(y)' /\ Graceful(y)'
      <4>1. Live(y) /\ Line(y) = l /\ (Closing(y) <=> q.closing)
        BY <1>2, <1>5, <1>6, <1>9, <1>10 DEF Live, Line, Closing, Dead
      <4>2. /\ Live(y)' <=> z.type \notin Dead
            /\ Live(y)' => (Closing(y)' <=> Closing(y))
            /\ Line(y)' = s
            /\ ~Live(y)' => Closing(y) /\ s = <<>>
        <5>1. /\ Live(y)' <=> z.type \notin Dead
              /\ Live(y)' => (Closing(y)' <=> z.closing)
          BY <1>10, <2>7, <2>10 DEF Live, Closing, Dead
        <5>2. Live(y)' => Waiting(slot'[k]) = s
          BY <2>7, <3>1, <3>3, <5>1 DEF Dead
        <5>3. Live(y)' => Line(y)' = s
          BY <1>10, <5>2 DEF Line, Waiting, First
        <5>4. ~Live(y)' => Line(y)' = <<>> /\ q.closing /\ s = <<>>
          BY <1>9, <3>1, <3>3, <5>1 DEF Line
        <5>. QED BY <1>9, <3>1, <4>1, <5>1, <5>3, <5>4 DEF Dead
      <4>3. Onward(wire[y], l, v, s, accepted[y])
        <5>1. InLine(wire[y], l, accepted[y]) /\ accepted[y] \in SUBSET Packet
          BY <2>1, <2>9, <3>4, <4>1 DEF LineInv, InOrder, InLine, Inv, Types, SenderTypes
        <5>2. part = 1 => n < Len(l) /\ l[n + 1].off = 0
          BY <1>12, <2>1
        <5>. QED BY <2>8, <3>3, <5>1, <5>2, Drain
      <4>4. broken' = broken
        BY <2>11, <2>14
      <4>. QED BY <1>3, <2>9, <2>12, <3>4, <4>1, <4>2, <4>3, <4>4, WrittenLine
    <3>. QED BY <2>11, <2>12, <2>14, <3>2, <3>4, OneLine
  <2>. QED BY <2>13, <2>14
<1>. QED BY <1>7, <1>8, <1>12

\* Every action.
LEMMA LinesStep ==
    ASSUME Inv, LineInv, Next, ~Crosses
    PROVE  LineStep
<1>1. ASSUME NEW t \in Sender, Service(t) PROVE LineStep
  BY <1>1, ReserveTypeLine, ReserveIdLine, OpenRequestLine, AskLine, CloseLine, SendLine,
     DirectWriteLine, TriggerRequestLine, IncSendingLine, SendRequestLine DEF Service
<1>2. CASE SocketThread
  BY <1>2, ForceCloseEndLine, OpenLine, ResumeLine, PauseTriggerLine, CloseSocketLine,
     SendSocketLine, LoopLine, ReportConnectLine, ReportAcceptLine, ReadEndLine, HangUpLine,
     SendBufferLine DEF SocketThread
<1>. QED BY <1>1, <1>2 DEF Next

\* A step of the socket thread: the senders and what is accepted are left alone.
LEMMA FreshSame ==
    ASSUME Fresh, UNCHANGED <<at, job, accepted>>
    PROVE  Fresh'
<1>1. Packets' = Packets
  BY DEF Packets
<1>. QED BY <1>1 DEF Fresh

\* A sender goes on with the packet it has: none is new, and none is lost.
LEMMA FreshGoesOn ==
    ASSUME Inv, Fresh, NEW t \in Sender, at[t] # "idle", NEW to \in Place,
           at' = [at EXCEPT ![t] = to], to # "locked", to = "request" => at[t] = "inc",
           job' = job \/ (to = "idle" /\ job' = [job EXCEPT ![t] = NULL]),
           \/ accepted' = accepted /\ (at[t] \in {"locked", "inc"} <=> to = "inc")
           \/ /\ at[t] \in {"locked", "inc"} /\ to # "inc"
              /\ accepted' = [accepted EXCEPT ![job[t].id] = @ \cup {job[t].p}]
    PROVE  Fresh'
<1>1. /\ at \in [Sender -> Place] /\ DOMAIN job = Sender /\ accepted \in [Id -> SUBSET Packet]
      /\ job[t].id \in Id
  BY DEF Inv, Types, SenderTypes, Job
<1>2. at'[t] = to /\ \A u \in Sender \ {t} : at'[u] = at[u] /\ job'[u] = job[u]
  BY <1>1
<1>3. to # "idle" => job'[t] = job[t]
  BY <1>1
<1>4. \A x \in Id : \A p \in accepted'[x] :
          p \in accepted[x] \/ (p = job[t].p /\ at[t] \in {"locked", "inc"} /\ to # "inc")
  BY <1>1
<1>5. Packets' \subseteq Packets
  <2>. SUFFICES ASSUME NEW p, p \in Packets' PROVE p \in Packets
    OBVIOUS
  <2>1. \/ \E i \in Id : p \in accepted'[i]
        \/ \E u \in Sender : at'[u] \in {"locked", "inc"} /\ p = job'[u].p
    BY PacketsParts
  <2>2. \/ \E i \in Id : p \in accepted[i]
        \/ \E u \in Sender : at[u] \in {"locked", "inc"} /\ p = job[u].p
    <3>1. CASE \E i \in Id : p \in accepted'[i]
      BY <1>4, <3>1
    <3>2. CASE \E u \in Sender : at'[u] \in {"locked", "inc"} /\ p = job'[u].p
      <4>1. to = "inc" => at[t] \in {"locked", "inc"}
        OBVIOUS
      <4>. QED BY <1>2, <1>3, <3>2, <4>1
    <3>. QED BY <2>1, <3>1, <3>2
  <2>. QED BY <2>2, PacketsParts
<1>6. Packets \subseteq Packets'
  <2>. SUFFICES ASSUME NEW p, p \in Packets PROVE p \in Packets'
    OBVIOUS
  <2>1. \/ \E i \in Id : p \in accepted[i]
        \/ \E u \in Sender : at[u] \in {"locked", "inc"} /\ p = job[u].p
    BY PacketsParts
  <2>2. \/ \E i \in Id : p \in accepted'[i]
        \/ \E u \in Sender : at'[u] \in {"locked", "inc"} /\ p = job'[u].p
    <3>1. CASE \E i \in Id : p \in accepted[i]
      BY <1>1, <3>1
    <3>2. CASE \E u \in Sender : at[u] \in {"locked", "inc"} /\ p = job[u].p
      <4>1. PICK u \in Sender : at[u] \in {"locked", "inc"} /\ p = job[u].p
        BY <3>2
      <4>2. CASE u # t
        BY <1>2, <4>1, <4>2
      <4>3. CASE u = t
        <5>1. CASE to = "inc"
          BY <1>2, <1>3, <4>1, <4>3, <5>1
        <5>2. CASE to # "inc"
          <6>1. accepted' = [accepted EXCEPT ![job[t].id] = @ \cup {job[t].p}]
            BY <4>1, <4>3, <5>2
          <6>2. p \in accepted'[job[t].id]
            BY <1>1, <4>1, <4>3, <6>1
          <6>. QED BY <1>1, <6>2
        <5>. QED BY <5>1, <5>2
      <4>. QED BY <4>2, <4>3
    <3>. QED BY <2>1, <3>1, <3>2
  <2>. QED BY <2>2, PacketsParts
<1>7. Packets' = Packets
  BY <1>5, <1>6
<1>8. \A p \in Packets' : p.no <= Cardinality(Packets')
  BY <1>7 DEF Fresh
<1>9. \A u \in Sender : at'[u] \in {"locked", "inc", "request"} => job'[u].p.by = u
  <2>1. at'[t] \in {"locked", "inc", "request"} => job'[t] = job[t] /\ at[t] \in {"locked", "inc"}
    BY <1>2, <1>3
  <2>. QED BY <1>2, <2>1 DEF Fresh
<1>10. ASSUME NEW u \in Sender, at'[u] \in {"locked", "inc"},
              NEW x \in Id, NEW p \in accepted'[x], p.by = u
       PROVE  p.no < job'[u].p.no
  <2>1. at[u] \in {"locked", "inc"} /\ job'[u] = job[u]
    BY <1>2, <1>3, <1>10
  <2>2. p \in accepted[x]
    <3>1. CASE u = t
      BY <1>2, <1>4, <1>10, <3>1
    <3>2. CASE u # t
      <4>1. at[t] \in {"locked", "inc"} => job[t].p.by = t
        BY DEF Fresh
      <4>. QED BY <1>4, <1>10, <3>2, <4>1
    <3>. QED BY <3>1, <3>2
  <2>. QED BY <1>10, <2>1, <2>2 DEF Fresh
<1>. QED BY <1>8, <1>9, <1>10 DEF Fresh

\* A new packet has a number above those of all packets.
LEMMA FreshSend ==
    ASSUME Inv, Fresh, NEW t \in Sender, Send(t)
    PROVE  Fresh'
<1>1. calls < MaxCall /\ at[t] = "idle" /\ accepted' = accepted
  BY DEF Send, Call, At
<1>2. PICK id \in 1..alloc_id, high \in BOOLEAN, p \in {"locked", "inc"} :
          /\ job' = [job EXCEPT ![t] = [id |-> id, p |-> NewPacket(t, high)]]
          /\ at' = [at EXCEPT ![t] = p]
  BY DEF Send, Known
<1>3. PICK q \in Packet : q = NewPacket(t, high)
  BY <1>1, NewPacketType DEF Inv
<1>4. q.no = Cardinality(Packets) + 1 /\ q.by = t
  BY <1>3 DEF NewPacket
<1>5. at \in [Sender -> Place] /\ DOMAIN job = Sender /\ accepted \in [Id -> SUBSET Packet]
  BY DEF Inv, Types, SenderTypes
<1>6. /\ at'[t] = p /\ job'[t].p = q
      /\ \A u \in Sender \ {t} : at'[u] = at[u] /\ job'[u] = job[u]
  BY <1>2, <1>3, <1>5
<1>7. \A x : x \in Packets' <=> x \in Packets \/ x = q
  <2>. TAKE x
  <2>1. x \in Packets' <=> \/ \E i \in Id : x \in accepted'[i]
                           \/ \E u \in Sender : at'[u] \in {"locked", "inc"} /\ x = job'[u].p
    BY PacketsParts
  <2>2. x \in Packets <=> \/ \E i \in Id : x \in accepted[i]
                          \/ \E u \in Sender : at[u] \in {"locked", "inc"} /\ x = job[u].p
    BY PacketsParts
  <2>3. (\E u \in Sender : at'[u] \in {"locked", "inc"} /\ x = job'[u].p)
            <=> x = q \/ \E u \in Sender : at[u] \in {"locked", "inc"} /\ x = job[u].p
    <3>1. at'[t] \in {"locked", "inc"} /\ at[t] \notin {"locked", "inc"}
      BY <1>1, <1>6
    <3>. QED BY <1>6, <3>1
  <2>. QED BY <1>1, <2>1, <2>2, <2>3
<1>8. PICK S : S = Packets
  OBVIOUS
<1>9. Packets' = S \cup {q} /\ IsFiniteSet(S)
  BY <1>7, <1>8 DEF Inv, Types, Numbered
<1>10. \A x \in S : x.no <= Cardinality(S) /\ x.no \in Nat
  <2>1. \A x \in S : x \in Packet
    <3>1. ASSUME NEW x, x \in Packets PROVE x \in Packet
      <4>1. \/ \E i \in Id : x \in accepted[i]
            \/ \E u \in Sender : at[u] \in {"locked", "inc"} /\ x = job[u].p
        BY <3>1, PacketsParts
      <4>. QED BY <1>5, <4>1 DEF Inv, Types, SenderTypes, Job
    <3>. QED BY <1>8, <3>1
  <2>2. \A x \in S : x.no <= Cardinality(S)
    BY <1>8 DEF Fresh
  <2>3. \A x \in Packet : x.no \in Nat
    BY SocketAssumption DEF Packet
  <2>. QED BY <2>1, <2>2, <2>3
<1>11. Cardinality(S) \in Nat /\ q.no = Cardinality(S) + 1
  BY <1>4, <1>8, <1>9, FS_CardinalityType
<1>12. q \notin S
  BY <1>10, <1>11
<1>13. Cardinality(S \cup {q}) = Cardinality(S) + 1
  BY <1>9, <1>12, FS_AddElement
<1>14. \A x \in Packets' : x.no <= Cardinality(Packets')
  <2>1. \A x \in S \cup {q} : x.no <= Cardinality(S) + 1
    BY <1>10, <1>11
  <2>. QED BY <1>9, <1>13, <2>1
<1>15. \A u \in Sender : at'[u] \in {"locked", "inc", "request"} => job'[u].p.by = u
  BY <1>4, <1>6 DEF Fresh
<1>16. ASSUME NEW u \in Sender, at'[u] \in {"locked", "inc"},
              NEW x \in Id, NEW y \in accepted'[x], y.by = u
       PROVE  y.no < job'[u].p.no
  <2>1. y \in accepted[x]
    BY <1>1, <1>16
  <2>2. CASE u = t
    <3>1. y \in S
      BY <1>8, <2>1, PacketsParts
    <3>. QED BY <1>6, <1>10, <1>11, <2>2, <3>1
  <2>3. CASE u # t
    BY <1>6, <1>16, <2>1, <2>3 DEF Fresh
  <2>. QED BY <2>2, <2>3
<1>. QED BY <1>14, <1>15, <1>16 DEF Fresh

\* The numbers stay in the order of the calls.
LEMMA FreshStep ==
    ASSUME Inv, Fresh, Next
    PROVE  Fresh'
<1>1. CASE SocketThread
  <2>1. UNCHANGED <<at, job, accepted>>
    BY <1>1, Zenon DEF SocketThread, ForceCloseEnd, OpenSocket, ListenSocket, ResumeSocket,
       PauseSocket, TriggerWrite, CloseSocket, SendSocket, NoCommand, SpWait,
       EventInvalid, EventReserved, ReportConnect, ReportAccept, ReadData, ReadEnd,
       HangUp, SendBuffer, sendVars, history
  <2>. QED BY <2>1, FreshSame
<1>2. ASSUME NEW t \in Sender, \/ ReserveType(t) \/ ReserveId(t) \/ OpenRequest(t)
                              \/ StartPause(t) \/ Close(t) \/ Shutdown(t)
      PROVE  Fresh'
  <2>1. UNCHANGED <<at, job, accepted>>
    BY <1>2, Zenon DEF ReserveType, ReserveId, OpenRequest, StartPause, Close, Shutdown,
       sendVars, history
  <2>. QED BY <2>1, FreshSame
<1>3. ASSUME NEW t \in Sender, TriggerRequest(t) \/ SendRequest(t) PROVE Fresh'
  <2>1. /\ at[t] \in {"trigger", "request"} /\ UNCHANGED <<accepted>>
        /\ at' = [at EXCEPT ![t] = "idle"] /\ job' = [job EXCEPT ![t] = NULL]
    BY <1>3 DEF TriggerRequest, SendRequest, At, history
  <2>2. "idle" \in Place
    BY DEF Place
  <2>. QED BY <2>1, <2>2, FreshGoesOn
<1>4. ASSUME NEW t \in Sender, IncSending(t) PROVE Fresh'
  <2>1. /\ at[t] = "inc" /\ UNCHANGED <<job>> /\ at' = [at EXCEPT ![t] = "request"]
        /\ accepted' = [accepted EXCEPT ![job[t].id] = @ \cup {job[t].p}]
    BY <1>4 DEF IncSending, At
  <2>2. "request" \in Place
    BY DEF Place
  <2>. QED BY <2>1, <2>2, FreshGoesOn
<1>5. ASSUME NEW t \in Sender, DirectWrite(t) PROVE Fresh'
  <2>1. at[t] = "locked"
    BY <1>5 DEF DirectWrite, At
  <2>2. PICK to \in Place :
          /\ at' = [at EXCEPT ![t] = to]
          /\ to \in {"inc", "idle", "trigger"}
          /\ job' = job \/ (to = "idle" /\ job' = [job EXCEPT ![t] = NULL])
          /\ \/ accepted' = accepted /\ to = "inc"
             \/ accepted' = [accepted EXCEPT ![job[t].id] = @ \cup {job[t].p}] /\ to # "inc"
    <3>1. {"inc", "idle", "trigger"} \subseteq Place
      BY DEF Place
    <3>. QED BY <1>5, <3>1 DEF DirectWrite
  <2>. QED BY <2>1, <2>2, FreshGoesOn
<1>. QED BY <1>1, <1>2, <1>3, <1>4, <1>5, FreshSend DEF Next, Service

\* The wire carries packets.
LEMMA WireType ==
    ASSUME Inv, wire \in [Id -> Seq(Packet)], Next
    PROVE  wire' \in [Id -> Seq(Packet)]
<1>1. ASSUME NEW t \in Sender, DirectWrite(t) PROVE wire' \in [Id -> Seq(Packet)]
  <2>1. job[t].id \in Id /\ job[t].p \in Packet
    BY <1>1 DEF DirectWrite, At, Inv, Types, SenderTypes, Job
  <2>2. CASE wire' = wire
    BY <2>2
  <2>3. ASSUME NEW n \in 0..2,
               wire' = [wire EXCEPT ![job[t].id] = @ \o [i \in 1..n |-> job[t].p]]
        PROVE  wire' \in [Id -> Seq(Packet)]
    <3>1. n \in Nat
      OBVIOUS
    <3>2. [i \in 1..n |-> job[t].p] \in Seq(Packet)
      BY <2>1, <3>1
    <3>3. wire[job[t].id] \o [i \in 1..n |-> job[t].p] \in Seq(Packet)
      BY <2>1, <3>2, ConcatProperties
    <3>. QED BY <2>1, <2>3, <3>3
  <2>4. \/ wire' = wire
        \/ \E n \in 0..2 : wire' = [wire EXCEPT ![job[t].id] = @ \o [i \in 1..n |-> job[t].p]]
    BY <1>1, Zenon DEF DirectWrite
  <2>. QED BY <2>2, <2>3, <2>4
<1>2. ASSUME SendBuffer PROVE wire' \in [Id -> Seq(Packet)]
  <2>1. Event(Open) /\ s_ \in Slot
    BY <1>2, EventFacts DEF SendBuffer, Inv, Event
  <2>2. PICK q \in Record : q = slot[s_] /\ q.type \notin Dead
    BY <2>1 DEF Event, Open, Dead, Inv, Types
  <2>3. PICK r : r = TakeDirect(q)
    OBVIOUS
  <2>4. r \in Record /\ r.id = q.id
    BY <2>3, TakeDirectFields DEF Alike
  <2>5. PICK y \in Id : y = r.id
    BY <2>1, <2>2, <2>4, UseFacts DEF Inv, Placed, SlotPlaced, Dead
  <2>6. PICK l : l = r.high \o r.low
    OBVIOUS
  <2>7. l \in Seq(Buffer) /\ Len(l) \in Nat /\ \A i \in 1..Len(l) : l[i] \in Buffer
    <3>1. r.high \in Seq(Buffer) /\ r.low \in Seq(Buffer)
      BY <2>4 DEF Record
    <3>2. l \in Seq(Buffer)
      BY <2>6, <3>1, ConcatProperties
    <3>. QED BY <3>2, LenProperties, ElementOfSeq
  <2>8. \/ wire' = wire
        \/ \E n \in 0..Len(l), part \in 0..1 :
              /\ n = Len(l) => part = 0
              /\ wire' = [wire EXCEPT ![y] = @ \o Bytes(l, n, part)]
    <3>1. r = TakeDirect(slot[s_]) /\ r.id = y
      BY <2>2, <2>3, <2>5
    <3>2. l = TakeDirect(slot[s_]).high \o TakeDirect(slot[s_]).low
      BY <3>1, <2>6
    <3>. QED BY <1>2, <3>1, <3>2 DEF SendBuffer
  <2>9. ASSUME NEW n \in 0..Len(l), NEW part \in 0..1, n = Len(l) => part = 0,
               wire' = [wire EXCEPT ![y] = @ \o Bytes(l, n, part)]
        PROVE  wire' \in [Id -> Seq(Packet)]
    <3>1. part = 1 => n < Len(l)
      BY <2>7, <2>9
    <3>2. wire[y] \o Bytes(l, n, part) \in Seq(Packet)
      BY <2>7, <3>1, BytesType, ConcatProperties
    <3>. QED BY <2>9, <3>2
  <2>. QED BY <2>8, <2>9
<1>3. CASE UNCHANGED wire
  BY <1>3
<1>4. ASSUME NEW t \in Sender, Service(t), ~DirectWrite(t) PROVE UNCHANGED wire
  BY <1>4, Zenon DEF Service, ReserveType, ReserveId, OpenRequest, StartPause,
     Close, Shutdown, Send, TriggerRequest, IncSending, SendRequest, history
<1>5. ASSUME SocketThread, ~SendBuffer PROVE UNCHANGED wire
  BY <1>5, Zenon DEF SocketThread, ForceCloseEnd, OpenSocket, ListenSocket, ResumeSocket,
       PauseSocket, TriggerWrite, CloseSocket, SendSocket, NoCommand, SpWait,
       EventInvalid, EventReserved, ReportConnect, ReportAccept, ReadData, ReadEnd,
       HangUp, history
<1>. QED BY <1>1, <1>2, <1>3, <1>4, <1>5 DEF Next

\* A shutdown counts as a break from the call on.
LEMMA ShutdownStep ==
    ASSUME Inv, \A i \in DOMAIN pipe : pipe[i].cmd = "shutdown" => pipe[i].id \in broken, Next
    PROVE  \A i \in DOMAIN pipe' : pipe'[i].cmd = "shutdown" => pipe'[i].id \in broken'
<1>. DEFINE Goal == \A i \in DOMAIN pipe' : pipe'[i].cmd = "shutdown" => pipe'[i].id \in broken'
<1>1. pipe \in Seq(Cmd)
  BY DEF Inv, Types, ThreadTypes
<1>2. broken \subseteq broken'
  <2>1. ASSUME NEW t \in Sender, Service(t) PROVE broken \subseteq broken'
    BY <2>1, Zenon DEF Service, ReserveType, ReserveId, OpenRequest, StartPause,
       Close, Shutdown, Send, DirectWrite, TriggerRequest, IncSending, SendRequest, history
  <2>2. ASSUME SendBuffer PROVE broken \subseteq broken'
    BY <2>2 DEF SendBuffer
  <2>3. ASSUME SocketThread, ~SendBuffer PROVE broken \subseteq broken'
    BY <2>3, Zenon DEF SocketThread, ForceCloseEnd, OpenSocket, ListenSocket, ResumeSocket,
       PauseSocket, TriggerWrite, CloseSocket, SendSocket, NoCommand, SpWait,
       EventInvalid, EventReserved, ReportConnect, ReportAccept, ReadData, ReadEnd,
       HangUp, history
  <2>. QED BY <2>1, <2>2, <2>3 DEF Next
<1>3. ASSUME pipe' = pipe PROVE Goal
  BY <1>2, <1>3
<1>4. ASSUME pipe # <<>>, pipe' = Tail(pipe) PROVE Goal
  <2>1. \A i \in DOMAIN pipe' : i + 1 \in DOMAIN pipe /\ pipe'[i] = pipe[i + 1]
    BY <1>1, <1>4, PipeTaken
  <2>. QED BY <1>2, <2>1
<1>5. ASSUME NEW c \in Cmd, pipe' = Append(pipe, c), c.cmd = "shutdown" => c.id \in broken'
      PROVE  Goal
  <2>1. \A i \in DOMAIN pipe' : (i \in DOMAIN pipe /\ pipe'[i] = pipe[i]) \/ pipe'[i] = c
    BY <1>1, <1>5, AppendProperties
  <2>. QED BY <1>2, <1>5, <2>1
<1>. HIDE DEF Goal
<1>a. ASSUME NEW t \in Sender, ReserveType(t) \/ ReserveId(t) PROVE Goal
  BY <1>3, <1>a DEF ReserveType, ReserveId
<1>6. ASSUME NEW t \in Sender, OpenRequest(t) PROVE Goal
  <2>1. PICK id \in Id, kind \in {"open", "listen"} : pipe' = Append(pipe, [cmd |-> kind, id |-> id])
    BY <1>6, TicketType DEF OpenRequest, Request, Reserving, Opening, Inv
  <2>2. PICK c \in Cmd : c = [cmd |-> kind, id |-> id]
    BY DEF Cmd, Control, Opening
  <2>3. c.cmd # "shutdown"
    BY <2>2
  <2>. QED BY <1>5, <2>1, <2>2, <2>3
<1>7. ASSUME NEW t \in Sender, StartPause(t) \/ Close(t) \/ Shutdown(t) PROVE Goal
  <2>1. \E id \in 1..alloc_id, c \in Late :
            /\ pipe' = Append(pipe, [cmd |-> c, id |-> id])
            /\ c = "shutdown" => id \in broken'
    <3>. USE DEF Request, Known, Late, Control, Opening
    <3>1. CASE StartPause(t)
      BY <3>1 DEF StartPause
    <3>2. CASE Close(t)
      <4>1. PICK id \in 1..alloc_id : pipe' = Append(pipe, [cmd |-> "close", id |-> id])
        BY <3>2 DEF Close
      <4>2. "close" \in Late /\ "close" # "shutdown"
        OBVIOUS
      <4>. QED BY <4>1, <4>2
    <3>3. CASE Shutdown(t)
      BY <3>3 DEF Shutdown
    <3>. QED BY <1>7, <3>1, <3>2, <3>3
  <2>2. PICK id \in 1..alloc_id, c \in Late :
            /\ pipe' = Append(pipe, [cmd |-> c, id |-> id])
            /\ c = "shutdown" => id \in broken'
    BY <2>1
  <2>3. PICK m \in Cmd : m = [cmd |-> c, id |-> id]
    <3>1. alloc_id \in 0..MaxId
      BY DEF Inv, Types, ThreadTypes
    <3>2. [cmd |-> c, id |-> id] \in Cmd
      BY <3>1, CommandTypes
    <3>. QED BY <3>2
  <2>4. m.cmd = "shutdown" => m.id \in broken'
    BY <2>2, <2>3
  <2>. QED BY <1>5, <2>2, <2>3, <2>4
<1>8. ASSUME NEW t \in Sender, Send(t) \/ DirectWrite(t) \/ IncSending(t) PROVE Goal
  <2>1. pipe' = pipe
    BY <1>8, Zenon DEF Send, DirectWrite, IncSending
  <2>. QED BY <1>3, <2>1
<1>9. ASSUME NEW t \in Sender, TriggerRequest(t) PROVE Goal
  <2>1. /\ at[t] = "trigger" /\ pipe' = Append(pipe, [cmd |-> "trigger", id |-> job[t].id])
    BY <1>9 DEF TriggerRequest, At, Request
  <2>2. job[t].id \in Id
    BY <2>1 DEF Inv, Types, SenderTypes, Job
  <2>3. PICK m \in Cmd : m = [cmd |-> "trigger", id |-> job[t].id]
    BY <2>2 DEF Cmd, Control
  <2>4. m.cmd # "shutdown"
    BY <2>3
  <2>. QED BY <1>5, <2>1, <2>3, <2>4
<1>10. ASSUME NEW t \in Sender, SendRequest(t) PROVE Goal
  <2>1. /\ at[t] = "request"
        /\ pipe' = Append(pipe, [cmd |-> "send", id |-> job[t].id, p |-> job[t].p])
    BY <1>10 DEF SendRequest, At, Request
  <2>2. job[t].id \in Id /\ job[t].p \in Packet
    BY <2>1 DEF Inv, Types, SenderTypes, Job
  <2>3. PICK m \in Cmd : m = [cmd |-> "send", id |-> job[t].id, p |-> job[t].p]
    BY <2>2 DEF Cmd
  <2>4. m.cmd # "shutdown"
    BY <2>3
  <2>. QED BY <1>5, <2>1, <2>3, <2>4
<1>11. ASSUME SocketThread PROVE Goal
  <2>1. pipe' = pipe \/ (pipe # <<>> /\ pipe' = Tail(pipe))
    BY <1>11, Zenon DEF SocketThread, ForceCloseEnd, OpenSocket, ListenSocket, ResumeSocket,
       PauseSocket, TriggerWrite, CloseSocket, SendSocket, NoCommand, SpWait,
       EventInvalid, EventReserved, ReportConnect, ReportAccept, ReadData, ReadEnd,
       HangUp, SendBuffer, Command
  <2>. QED BY <1>3, <1>4, <2>1
<1>12. Goal
  <2>1. ASSUME NEW t \in Sender, Service(t) PROVE Goal
    BY <1>6, <1>7, <1>8, <1>9, <1>10, <1>a, <2>1 DEF Service
  <2>. QED BY <1>11, <2>1 DEF Next
<1>. QED BY <1>12 DEF Goal

\* Nothing is accepted for an id that has not been opened.
LEMMA UnopenedStep ==
    ASSUME Inv, \A x \in Id \ opened : accepted[x] = {}, Next
    PROVE  \A x \in Id \ opened' : accepted'[x] = {}
<1>1. accepted \in [Id -> SUBSET Packet]
  BY DEF Inv, Types, SenderTypes
<1>2. opened \subseteq opened'
  <2>1. ASSUME NEW t \in Sender, Service(t) PROVE opened \subseteq opened'
    BY <2>1, Zenon DEF Service, ReserveType, ReserveId, OpenRequest, StartPause,
       Close, Shutdown, Send, DirectWrite, TriggerRequest, IncSending, SendRequest, history
  <2>2. ASSUME SocketThread PROVE opened \subseteq opened'
    <3>1. CASE OpenSocket
      BY <3>1 DEF OpenSocket
    <3>2. CASE ResumeSocket
      BY <3>2 DEF ResumeSocket
    <3>3. CASE ReportConnect
      BY <3>3 DEF ReportConnect
    <3>. QED BY <2>2, <3>1, <3>2, <3>3, Zenon DEF SocketThread, ForceCloseEnd, ListenSocket,
       PauseSocket, TriggerWrite, CloseSocket, SendSocket, NoCommand, SpWait,
       EventInvalid, EventReserved, ReportAccept, ReadData, ReadEnd,
       HangUp, SendBuffer, history
  <2>. QED BY <2>1, <2>2 DEF Next
<1>3. ASSUME UNCHANGED accepted PROVE \A x \in Id \ opened' : accepted'[x] = {}
  BY <1>2, <1>3
<1>4. ASSUME NEW t \in Sender, at[t] # "idle",
             accepted' = [accepted EXCEPT ![job[t].id] = @ \cup {job[t].p}]
      PROVE  \A x \in Id \ opened' : accepted'[x] = {}
  <2>1. job[t].id \in opened'
    BY <1>2, <1>4 DEF Inv, Sent
  <2>. QED BY <1>1, <1>2, <1>4, <2>1
<1>5. ASSUME NEW t \in Sender, IncSending(t) PROVE \A x \in Id \ opened' : accepted'[x] = {}
  <2>1. at[t] = "inc" /\ accepted' = [accepted EXCEPT ![job[t].id] = @ \cup {job[t].p}]
    BY <1>5 DEF IncSending, At
  <2>. QED BY <1>4, <2>1
<1>6. ASSUME NEW t \in Sender, DirectWrite(t) PROVE \A x \in Id \ opened' : accepted'[x] = {}
  <2>1. /\ at[t] = "locked"
        /\ \/ accepted' = accepted
           \/ accepted' = [accepted EXCEPT ![job[t].id] = @ \cup {job[t].p}]
    BY <1>6 DEF DirectWrite, At
  <2>. QED BY <1>3, <1>4, <2>1
<1>7. ASSUME NEW t \in Sender, Service(t), ~DirectWrite(t), ~IncSending(t) PROVE UNCHANGED accepted
  BY <1>7, Zenon DEF Service, ReserveType, ReserveId, OpenRequest, StartPause,
     Close, Shutdown, Send, TriggerRequest, SendRequest, history
<1>8. ASSUME SocketThread PROVE UNCHANGED accepted
  BY <1>8, Zenon DEF SocketThread, ForceCloseEnd, OpenSocket, ListenSocket, ResumeSocket,
       PauseSocket, TriggerWrite, CloseSocket, SendSocket, NoCommand, SpWait,
       EventInvalid, EventReserved, ReportConnect, ReportAccept, ReadData, ReadEnd,
       HangUp, SendBuffer, history
<1>. QED BY <1>3, <1>5, <1>6, <1>7, <1>8 DEF Next

\* A service closes what has been opened.
LEMMA DueStep ==
    ASSUME Inv, DOMAIN due \subseteq Id, Next
    PROVE  DOMAIN due' \subseteq Id
<1>1. Known \subseteq Id
  BY SocketAssumption DEF Known, Id, Inv, Types, ThreadTypes
<1>2. ASSUME NEW t \in Sender, Close(t) PROVE DOMAIN due' \subseteq Id
  BY <1>1, <1>2 DEF Close
<1>3. ASSUME NEW t \in Sender, Service(t), ~Close(t) PROVE UNCHANGED due
  BY <1>3, Zenon DEF Service, ReserveType, ReserveId, OpenRequest, StartPause,
     Shutdown, Send, DirectWrite, TriggerRequest, IncSending, SendRequest, history
<1>4. ASSUME SocketThread PROVE UNCHANGED due
  BY <1>4, Zenon DEF SocketThread, ForceCloseEnd, OpenSocket, ListenSocket, ResumeSocket,
     PauseSocket, TriggerWrite, CloseSocket, SendSocket, NoCommand, SpWait,
     EventInvalid, EventReserved, ReportConnect, ReportAccept, ReadData, ReadEnd,
     HangUp, SendBuffer, history
<1>. QED BY <1>2, <1>3, <1>4 DEF Next

\* Nothing is sent at first.
LEMMA InitLines == Init => LineInv
<1>. SUFFICES ASSUME Init PROVE LineInv
  OBVIOUS
<1>1. Inv
  BY InitInv
<1>2. \A p : p \notin Packets
  BY PacketsParts DEF Init
<1>3. Fresh
  BY <1>2 DEF Fresh, Init
<1>4. /\ \A k \in Slot : slot[k] = Empty
      /\ Empty.low = <<>> /\ Empty.type = "INVALID"
  BY DEF Init, Empty
<1>5. Kinds
  <2>1. \A k \in Slot : Kind(slot[k])
    BY <1>4, EmptySeq DEF Kind, LowOnly
  <2>2. wire \in [Id -> Seq(Packet)]
    BY EmptySeq DEF Init
  <2>3. pipe = <<>> /\ DOMAIN due = {} /\ \A x \in Id : accepted[x] = {}
    BY DEF Init
  <2>. QED BY <2>1, <2>2, <2>3 DEF Kinds
<1>6. ASSUME NEW x \in Id PROVE InOrder(x) /\ Graceful(x)
  <2>1. ~Live(x)
    <3>1. HASH_ID(x) \in Slot
      BY HashType DEF Id
    <3>. QED BY <1>4, <3>1 DEF Live
  <2>2. /\ pipe = <<>> /\ accepted[x] = {} /\ wire[x] = <<>> /\ x \notin opened
        /\ x \notin DOMAIN due /\ pc = "poll" /\ \A t \in Sender : at[t] = "idle"
    BY DEF Init
  <2>3. Sends(x) = {} /\ Requests(x) = {} /\ Closes(x) = {}
    BY <2>2 DEF Sends, Requests, Closes
  <2>4. Ordered(wire[x], accepted[x])
    BY <2>2, EmptySeq DEF Ordered
  <2>5. Coming(x)
    BY <2>1, <2>3 DEF Coming, Taking
  <2>6. Graceful(x)
    BY <2>1, <2>2, <2>3 DEF Graceful, Closing, Ending
  <2>. QED BY <2>1, <2>4, <2>5, <2>6 DEF InOrder
<1>. QED BY <1>3, <1>5, <1>6 DEF LineInv

\* The second invariant is inductive, given the first.
LEMMA NextLines == Inv /\ LineInv /\ [Next /\ ~Crosses]_vars => LineInv'
<1>1. ASSUME Inv, LineInv, Next, ~Crosses PROVE LineInv'
  <2>1. Fresh'
    BY <1>1, FreshStep DEF LineInv
  <2>2. LineStep
    BY <1>1, LinesStep
  <2>3. Kinds'
    <3>1. \A k \in Slot : Kind(slot[k])'
      BY <2>2 DEF LineStep, Kind, LowOnly
    <3>2. wire' \in [Id -> Seq(Packet)]
      BY <1>1, WireType DEF LineInv, Kinds
    <3>3. \A i \in DOMAIN pipe' : pipe'[i].cmd = "shutdown" => pipe'[i].id \in broken'
      BY <1>1, ShutdownStep DEF LineInv, Kinds
    <3>4. \A x \in Id \ opened' : accepted'[x] = {}
      BY <1>1, UnopenedStep DEF LineInv, Kinds
    <3>5. DOMAIN due' \subseteq Id
      BY <1>1, DueStep DEF LineInv, Kinds
    <3>. QED BY <3>1, <3>2, <3>3, <3>4, <3>5 DEF Kinds
  <2>. QED BY <2>1, <2>2, <2>3 DEF LineInv, LineStep
<1>2. ASSUME LineInv, UNCHANGED vars PROVE LineInv'
  <2>1. UNCHANGED vars
    BY <1>2
  <2>2. Fresh' /\ Kinds'
    BY <1>2, FreshSame DEF LineInv, Kinds, Kind, LowOnly, vars, sockVars, sendVars, history
  <2>3. ASSUME NEW x \in Id \ broken' PROVE InOrder(x)' /\ Graceful(x)'
    <3>1. InOrder(x) /\ Graceful(x)
      BY <1>2, <2>3 DEF LineInv, vars, history
    <3>2. InOrder(x)'
      BY <1>2, <3>1 DEF InOrder, Coming, Ahead, Sending, Sends, Requests, Line, Live, Taking,
         vars, sockVars, sendVars, history
    <3>3. Graceful(x)'
      BY <1>2, <3>1 DEF Graceful, Closes, Settled, Ahead, Sends, Line, Live, Closing, Ending,
         DueThere, DueDone, vars, sockVars, sendVars, history
    <3>. QED BY <3>2, <3>3
  <2>. QED BY <2>2, <2>3 DEF LineInv
<1>. QED BY <1>1, <1>2

\* The inductive invariant of the lines, on top of that of the slots.
\* For the behaviours of QuietSpec: no command on an old id inside reserve_id.
THEOREM Lines == QuietSpec => []LineInv
<1>. QED
  BY Invariant, InitLines, NextLines, PTL DEF QuietSpec

\* Two different elements.
LEMMA Pair ==
    ASSUME NEW a, NEW b, a # b
    PROVE  Cardinality({a, b}) = 2
<1>1. IsFiniteSet({a}) /\ Cardinality({a}) = 1
  BY FS_Singleton
<1>2. Cardinality({a} \cup {b}) = Cardinality({a}) + 1
  BY <1>1, FS_AddElement
<1>3. {a} \cup {b} = {a, b}
  OBVIOUS
<1>. QED BY <1>1, <1>2, <1>3

\* A packet of which the second byte is written is there twice.
LEMMA Twice ==
    ASSUME NEW acc, NEW w \in Seq(Packet), Ordered(w, acc), NEW k \in 0..Len(w),
           NEW i \in 1..k, i % 2 = 1 => i + 1 <= k
    PROVE  Cardinality({j \in 1..k : w[j] = w[i]}) = 2
<1>1. Len(w) \in Nat /\ k \in Nat /\ k <= Len(w)
  BY LenProperties
<1>2. PICK a \in 1..k : a % 2 = 1 /\ a + 1 <= k /\ w[a] = w[i]
  <2>1. CASE i % 2 = 1
    BY <2>1
  <2>2. CASE i % 2 # 1
    <3>1. i % 2 = 0 /\ i \in 1..Len(w) /\ i # 1
      BY <1>1, <2>2, Parity
    <3>2. w[i] = w[i - 1]
      BY <3>1 DEF Ordered
    <3>3. i - 1 \in 1..k /\ (i - 1) % 2 = 1 /\ i - 1 + 1 <= k
      BY <1>1, <3>1, Parity
    <3>. QED BY <3>2, <3>3
  <2>. QED BY <2>1, <2>2
<1>3. a + 1 \in 1..k /\ w[a + 1] = w[a]
  <2>1. a + 1 \in 1..Len(w) /\ (a + 1) % 2 = 0 /\ a + 1 - 1 = a
    BY <1>1, <1>2, Parity
  <2>2. w[a + 1] = w[a + 1 - 1]
    BY <2>1 DEF Ordered
  <2>. QED BY <1>1, <1>2, <2>1, <2>2
<1>4. ASSUME NEW j \in 1..k, j % 2 = 1, w[j] = w[a] PROVE j = a
  <2>1. j \in 1..Len(w) /\ a \in 1..Len(w)
    BY <1>1
  <2>2. \A m \in 1..(j - 1) : w[m] # w[j]
    BY <1>4, <2>1 DEF Ordered
  <2>3. \A m \in 1..(a - 1) : w[m] # w[a]
    BY <1>2, <2>1 DEF Ordered
  <2>. QED BY <1>1, <1>4, <2>2, <2>3
<1>5. ASSUME NEW j \in 1..k, w[j] = w[a] PROVE j \in {a, a + 1}
  <2>1. CASE j % 2 = 1
    BY <1>4, <1>5, <2>1
  <2>2. CASE j % 2 # 1
    <3>1. j % 2 = 0 /\ j \in 1..Len(w) /\ j # 1
      BY <1>1, <2>2, Parity
    <3>2. w[j] = w[j - 1]
      BY <3>1 DEF Ordered
    <3>3. j - 1 \in 1..k /\ (j - 1) % 2 = 1
      BY <1>1, <3>1, Parity
    <3>4. j - 1 = a
      BY <1>4, <1>5, <3>2, <3>3
    <3>. QED BY <3>4
  <2>. QED BY <2>1, <2>2
<1>6. {j \in 1..k : w[j] = w[i]} = {a, a + 1}
  BY <1>2, <1>3, <1>5
<1>7. a # a + 1
  OBVIOUS
<1>8. Cardinality({a, a + 1}) = 2
  BY <1>7, Pair
<1>. QED BY <1>6, <1>8, Zenon

\* The bytes of a connection that has not broken are written packet by packet, each
\* after all packets of the same sender that have to come before it: what direct
\* writes, the pipe, the two lists and partial writes do to a packet keeps its place.
\* For the behaviours of QuietSpec: no command on an old id inside reserve_id.
THEOREM BytesInOrder == QuietSpec => []WriteOrder
<1>1. Inv /\ LineInv => WriteOrder
  <2>. SUFFICES ASSUME Inv, LineInv, NEW x \in Id \ broken, NEW j \in DOMAIN wire[x]
                PROVE  /\ j % 2 = 0 => wire[x][j] = wire[x][j - 1]
                       /\ j % 2 = 1 => \A i \in 1..(j - 1) : wire[x][i] # wire[x][j]
                       /\ \A p \in accepted[x] :
                            p.by = wire[x][j].by /\ p.no < wire[x][j].no
                            /\ (p.high \/ ~wire[x][j].high) =>
                                Cardinality({i \in 1..(j - 1) : wire[x][i] = p}) = 2
    BY DEF WriteOrder
  <2>1. PICK w \in Seq(Packet) : w = wire[x]
    BY DEF LineInv, Kinds
  <2>2. Ordered(w, accepted[x])
    BY <2>1 DEF LineInv, InOrder
  <2>3. Len(w) \in Nat /\ j \in 1..Len(w) /\ w[j] \in Packet
    BY <2>1, LenProperties, ElementOfSeq
  <2>4. ASSUME NEW p \in accepted[x], p.by = w[j].by, p.no < w[j].no, p.high \/ ~w[j].high
        PROVE  Cardinality({i \in 1..(j - 1) : w[i] = p}) = 2
    <3>1. PICK i \in 1..(j - 1) : w[i] = p
      BY <2>2, <2>3, <2>4 DEF Ordered, Precedes
    <3>2. p # w[j]
      <4>1. p \in Packet
        BY DEF Inv, Types, SenderTypes
      <4>2. p.no \in Int
        BY <4>1, SocketAssumption DEF Packet
      <4>. QED BY <2>4, <4>2
    <3>3. j - 1 \in 0..Len(w)
      BY <2>3
    <3>4. i % 2 = 1 => i + 1 <= j - 1
      <4>1. CASE i + 1 <= j - 1
        BY <4>1
      <4>2. CASE i = j - 1
        <5>1. ASSUME i % 2 = 1 PROVE FALSE
          <6>1. j % 2 = 0
            BY <2>3, <4>2, <5>1, Parity
          <6>2. w[j] = w[j - 1]
            BY <2>2, <2>3, <6>1 DEF Ordered
          <6>. QED BY <3>1, <3>2, <4>2, <6>2
        <5>. QED BY <5>1
      <4>. QED BY <2>3, <4>1, <4>2
    <3>. QED BY <2>2, <3>1, <3>3, <3>4, Twice
  <2>5. /\ j % 2 = 0 => w[j] = w[j - 1]
        /\ j % 2 = 1 => \A i \in 1..(j - 1) : w[i] # w[j]
    BY <2>2, <2>3 DEF Ordered
  <2>. QED BY <2>1, <2>4, <2>5
<1>. QED
  BY <1>1, Invariant, Lines, PTL

\* What a service had sent when it closed a connection that has not broken has been
\* written, all of it, when the socket is gone, whatever way the packets took.
\* For the behaviours of QuietSpec: no command on an old id inside reserve_id.
THEOREM ClosedWhenWritten == QuietSpec => []GracefulClose
<1>1. Inv /\ LineInv => GracefulClose
  <2>. SUFFICES ASSUME Inv, LineInv, NEW x \in DOMAIN due \ broken, ~Live(x), NEW p \in due[x]
                PROVE  Cardinality({i \in DOMAIN wire[x] : wire[x][i] = p}) = 2
    BY DEF GracefulClose
  <2>1. x \in Id
    BY DEF LineInv, Kinds
  <2>2. PICK w \in Seq(Packet) : w = wire[x]
    BY <2>1 DEF LineInv, Kinds
  <2>3. Ordered(w, accepted[x])
    BY <2>1, <2>2 DEF LineInv, InOrder
  <2>4. Len(w) \in Nat /\ DOMAIN w = 1..Len(w)
    BY LenProperties
  <2>5. x \in opened
    <3>1. p \in accepted[x]
      BY <2>1 DEF LineInv, Graceful
    <3>. QED BY <2>1, <3>1 DEF LineInv, Kinds
  <2>6. PICK i \in 1..Len(w) : i % 2 = 0 /\ w[i] = p
    BY <2>1, <2>2, <2>5 DEF LineInv, Graceful, Ending, DueDone, Done
  <2>7. Len(w) \in 0..Len(w) /\ (i % 2 = 1 => i + 1 <= Len(w))
    BY <2>4, <2>6
  <2>8. Cardinality({j \in 1..Len(w) : w[j] = p}) = 2
    BY <2>3, <2>6, <2>7, Twice
  <2>. QED BY <2>2, <2>4, <2>8
<1>. QED
  BY <1>1, Invariant, Lines, PTL

=============================================================================
