------------------------- MODULE MessageQueueProofs -------------------------
(***************************************************************************)
(* Proofs about the ring buffer of skynet_mq.c, for every initial size,    *)
(* every overload limit and every set of messages: its indices stay inside *)
(* the buffer, only filled cells are handed out, and the ring implements   *)
(* the first-in first-out queue of module Mailbox.                         *)
(***************************************************************************)
EXTENDS MessageQueue, SequenceTheorems, TLAPS

\* What every step keeps: the types, and that the waiting cells are filled.
Inv == TypeOK /\ NoGarbage

\* The step of head or tail of skynet_mq_pop and skynet_mq_push stays in the ring.
LEMMA WrapInRing ==
    ASSUME NEW c \in Nat \ {0}, NEW i \in 0..(c - 1)
    PROVE  /\ Wrap(i + 1, c) \in 0..(c - 1)
           /\ i + 1 < c => Wrap(i + 1, c) = i + 1
           /\ i + 1 = c => Wrap(i + 1, c) = 0
  BY DEF Wrap

\* The length that skynet_mq_length computes is less than the capacity: a full
\* ring is expanded before the push returns.
LEMMA LengthInRing ==
    ASSUME TypeOK
    PROVE  /\ Length \in 0..(cap - 1)
           /\ Length = 0 <=> head = tail
           /\ \A i \in 1..(Length + 1) : Cell(i) \in 0..(cap - 1)
           /\ Cell(Length + 1) = tail
  BY DEF TypeOK, Length, Distance, Cell

\* expand_queue reads the cells from head on, round the end of the ring.
LEMMA ExpandedCell ==
    ASSUME TypeOK, NEW i \in 1..cap
    PROVE  (head + (i - 1)) % cap = Cell(i)
<1>1. head \in 0..(cap - 1) /\ cap \in Nat \ {0}
  BY DEF TypeOK
<1>2. CASE head + i - 1 >= cap
  <2>1. head + (i - 1) = cap + (head + i - 1 - cap) /\ head + i - 1 - cap \in 0..(cap - 1)
    BY <1>1, <1>2
  <2>2. (head + (i - 1)) % cap = head + i - 1 - cap
    BY <1>1, <2>1, SMT
  <2>. QED BY <1>1, <1>2, <2>2 DEF Cell
<1>3. CASE head + i - 1 < cap
  BY <1>1, <1>3 DEF Cell
<1>. QED BY <1>1, <1>2, <1>3

-----------------------------------------------------------------------------
(* The invariant. *)

\* A new queue: skynet_mq_create.
LEMMA InitInv == Init => Inv
  BY QueueAssumption DEF Init, Inv, TypeOK, NoGarbage, Length, Distance

\* A push that leaves room.
LEMMA PushRoomInv ==
    ASSUME Inv, NEW m \in Message, head # Wrap(tail + 1, cap),
           queue' = [queue EXCEPT ![tail] = m], tail' = Wrap(tail + 1, cap),
           head' = head, cap' = cap
    PROVE  /\ tail' \in 0..(cap - 1)
           /\ queue' \in [0..(cap - 1) -> Message \cup {NoMessage}]
           /\ Length' = Length + 1
           /\ \A i \in 1..Length : Cell(i)' = Cell(i) /\ queue'[Cell(i)] = queue[Cell(i)]
           /\ Cell(Length)' = tail /\ queue'[tail] = m
<1>1. TypeOK
  BY DEF Inv
<1>2. tail' \in 0..(cap - 1)
  BY <1>1, WrapInRing DEF TypeOK
<1>3. queue' \in [0..(cap - 1) -> Message \cup {NoMessage}] /\ queue'[tail] = m
  BY <1>1 DEF TypeOK
<1>4. Length' = Length + 1
  BY <1>1 DEF TypeOK, Length, Distance, Wrap
<1>5. ASSUME NEW i \in 1..Length
      PROVE  Cell(i)' = Cell(i) /\ queue'[Cell(i)] = queue[Cell(i)]
  <2>1. Cell(i)' = Cell(i)
    BY DEF Cell
  <2>2. Cell(i) # tail /\ Cell(i) \in 0..(cap - 1)
    BY <1>1 DEF TypeOK, Length, Distance, Cell
  <2>. QED BY <1>1, <2>1, <2>2 DEF TypeOK
<1>6. Cell(Length)' = tail
  <2>1. Length \in Nat /\ Cell(Length + 1) = tail
    BY <1>1, LengthInRing
  <2>. QED BY <1>4, <2>1 DEF Cell
<1>. QED BY <1>2, <1>3, <1>4, <1>5, <1>6

\* A push that fills the last cell, and expand_queue.
LEMMA PushExpandInv ==
    ASSUME Inv, NEW m \in Message, head = Wrap(tail + 1, cap),
           queue' = Expanded([queue EXCEPT ![tail] = m]), tail' = cap,
           head' = 0, cap' = 2 * cap
    PROVE  /\ tail' \in 0..(cap' - 1) /\ cap' \in Nat \ {0}
           /\ queue' \in [0..(cap' - 1) -> Message \cup {NoMessage}]
           /\ Length = cap - 1 /\ Length' = Length + 1
           /\ \A i \in 1..Length : queue'[Cell(i)'] = queue[Cell(i)]
           /\ queue'[Cell(Length)'] = m
<1>1. TypeOK /\ cap \in Nat \ {0} /\ head \in 0..(cap - 1) /\ tail \in 0..(cap - 1)
  BY DEF Inv, TypeOK
<1>2. Length = cap - 1 /\ Length' = Length + 1
  BY <1>1 DEF Length, Distance, Wrap
<1>3. DEFINE b == [queue EXCEPT ![tail] = m]
<1>4. b \in [0..(cap - 1) -> Message \cup {NoMessage}]
  BY <1>1 DEF TypeOK
<1>5. ASSUME NEW i \in 1..cap
      PROVE  Cell(i)' = i - 1 /\ queue'[i - 1] = b[Cell(i)]
                /\ Cell(i) \in 0..(cap - 1)
  <2>1. Cell(i)' = i - 1
    BY <1>1 DEF Cell
  <2>2. queue'[i - 1] = b[(head + (i - 1)) % cap]
    BY <1>1 DEF Expanded
  <2>3. Cell(i) \in 0..(cap - 1)
    BY <1>1 DEF Cell
  <2>. QED BY <1>1, <2>1, <2>2, <2>3, ExpandedCell
<1>6. queue' \in [0..(cap' - 1) -> Message \cup {NoMessage}]
  <2>1. ASSUME NEW i \in 0..(2 * cap - 1)
        PROVE  (IF i < cap THEN b[(head + i) % cap] ELSE NoMessage)
                    \in Message \cup {NoMessage}
    <3>1. CASE i < cap
      <4>1. i + 1 \in 1..cap /\ (i + 1) - 1 = i
        BY <3>1, <1>1
      <4>2. (head + i) % cap = Cell(i + 1) /\ Cell(i + 1) \in 0..(cap - 1)
        BY <1>1, <1>5, <4>1, ExpandedCell
      <4>. QED BY <3>1, <4>2, <1>4
    <3>. QED BY <3>1
  <2>2. queue' = [i \in 0..(2 * cap - 1) |->
                     IF i < cap THEN b[(head + i) % cap] ELSE NoMessage]
    BY DEF Expanded
  <2>. HIDE DEF b
  <2>. QED BY <2>1, <2>2, <1>1
<1>7. ASSUME NEW i \in 1..Length
      PROVE  queue'[Cell(i)'] = queue[Cell(i)]
  <2>1. i \in 1..cap /\ Cell(i) # tail
    BY <1>1, <1>2 DEF Cell, Wrap
  <2>. QED BY <1>1, <1>5, <2>1 DEF TypeOK
<1>8. queue'[Cell(Length)'] = m
  <2>1. Length + 1 \in 1..cap /\ Cell(Length + 1) = tail
    BY <1>1, <1>2, LengthInRing
  <2>2. Cell(Length)' = Length
    BY <1>1, <1>2 DEF Cell
  <2>3. cap \in 1..cap /\ cap = Length + 1
    BY <1>1, <1>2
  <2>4. queue'[cap - 1] = b[Cell(cap)]
    <3>. HIDE DEF b
    <3>. QED BY <1>5, <2>3
  <2>. QED BY <1>1, <1>2, <2>1, <2>2, <2>3, <2>4 DEF TypeOK
<1>9. tail' \in 0..(cap' - 1) /\ cap' \in Nat \ {0}
  BY <1>1
<1>. QED BY <1>2, <1>6, <1>7, <1>8, <1>9

\* A pop moves head to the second of the waiting cells.
LEMMA PopCells ==
    ASSUME Inv, head # tail, head' = Wrap(head + 1, cap),
           cap' = cap, tail' = tail, queue' = queue
    PROVE  /\ head' \in 0..(cap - 1)
           /\ Distance(head', tail, cap) = Length - 1
           /\ Length' = Length - 1 /\ Length >= 1
           /\ Cell(1) = head /\ queue[head] \in Message
           /\ \A i \in 1..(Length - 1) : Cell(i)' = Cell(i + 1)
<1>1. TypeOK /\ NoGarbage
  BY DEF Inv
<1>2. head' \in 0..(cap - 1)
  BY <1>1, WrapInRing DEF TypeOK
<1>3. Length' = Length - 1 /\ Length >= 1 /\ Distance(head', tail, cap) = Length - 1
  BY <1>1 DEF TypeOK, Length, Distance, Wrap
<1>4. Cell(1) = head
  BY <1>1 DEF TypeOK, Cell
<1>5. Length \in Nat
  BY <1>1, LengthInRing
<1>6. queue[head] \in Message
  BY <1>1, <1>3, <1>4, <1>5 DEF NoGarbage
<1>7. ASSUME NEW i \in 1..(Length - 1)
      PROVE  Cell(i)' = Cell(i + 1)
  BY <1>1, <1>5, LengthInRing DEF TypeOK, Cell, Wrap
<1>. QED BY <1>2, <1>3, <1>4, <1>6, <1>7

\* The two cases of skynet_mq_push, and what each leaves of the waiting cells.
LEMMA PushCells ==
    ASSUME Inv, Push
    PROVE  \E m \in Message :
             /\ Length' = Length + 1
             /\ \A i \in 1..Length : queue'[Cell(i)'] = queue[Cell(i)]
             /\ queue'[Cell(Length)'] = m
             /\ TypeOK'
<1>1. PICK m \in Message :
        LET b == [queue EXCEPT ![tail] = m]
            t == Wrap(tail + 1, cap)
        IN  IF head = t
            THEN /\ queue' = Expanded(b)
                 /\ head' = 0
                 /\ tail' = cap
                 /\ cap' = 2 * cap
            ELSE /\ queue' = b
                 /\ tail' = t
                 /\ UNCHANGED <<head, cap>>
  BY DEF Push
<1>2. /\ in_global' \in BOOLEAN /\ overload' \in Nat /\ overload_threshold' \in Nat
      /\ result' \in Message \cup {NoMessage}
  BY DEF Push, Inv, TypeOK
<1>3. CASE head = Wrap(tail + 1, cap)
  <2>1. /\ queue' = Expanded([queue EXCEPT ![tail] = m])
        /\ head' = 0 /\ tail' = cap /\ cap' = 2 * cap
    BY <1>1, <1>3
  <2>2. /\ tail' \in 0..(cap' - 1) /\ cap' \in Nat \ {0}
        /\ queue' \in [0..(cap' - 1) -> Message \cup {NoMessage}]
        /\ Length' = Length + 1
        /\ \A i \in 1..Length : queue'[Cell(i)'] = queue[Cell(i)]
        /\ queue'[Cell(Length)'] = m
    BY <1>3, <2>1, PushExpandInv
  <2>3. head' \in 0..(cap' - 1)
    BY <2>1, <2>2
  <2>. QED BY <1>2, <2>2, <2>3 DEF TypeOK
<1>4. CASE head # Wrap(tail + 1, cap)
  <2>1. /\ queue' = [queue EXCEPT ![tail] = m] /\ tail' = Wrap(tail + 1, cap)
        /\ head' = head /\ cap' = cap
    BY <1>1, <1>4
  <2>2. /\ tail' \in 0..(cap - 1)
        /\ queue' \in [0..(cap - 1) -> Message \cup {NoMessage}]
        /\ Length' = Length + 1
        /\ \A i \in 1..Length : Cell(i)' = Cell(i) /\ queue'[Cell(i)] = queue[Cell(i)]
        /\ Cell(Length)' = tail /\ queue'[tail] = m
    BY <1>4, <2>1, PushRoomInv
  <2>3. TypeOK'
    BY <1>2, <2>1, <2>2 DEF TypeOK, Inv
  <2>. QED BY <2>2, <2>3
<1>. QED BY <1>3, <1>4

\* Every operation of the queue keeps the invariant.
LEMMA NextInv == Inv /\ [Next]_vars => Inv'
<1>. SUFFICES ASSUME Inv, [Next]_vars PROVE Inv'
  OBVIOUS
<1>. USE DEF Inv
<1>1. Length \in Nat
  BY LengthInRing
<1>2. CASE Push
  <2>1. PICK m \in Message :
             /\ Length' = Length + 1
             /\ \A i \in 1..Length : queue'[Cell(i)'] = queue[Cell(i)]
             /\ queue'[Cell(Length)'] = m
             /\ TypeOK'
    BY <1>2, PushCells
  <2>2. ASSUME NEW i \in 1..Length'
        PROVE  queue'[Cell(i)'] \in Message
    <3>1. CASE i \in 1..Length
      BY <2>1, <3>1 DEF NoGarbage
    <3>2. CASE i = Length'
      BY <2>1, <3>2
    <3>. QED BY <1>1, <2>1, <3>1, <3>2
  <2>. QED BY <2>1, <2>2 DEF NoGarbage
<1>3. CASE PopMessage
  <2>1. /\ head # tail /\ head' = Wrap(head + 1, cap)
        /\ cap' = cap /\ tail' = tail /\ queue' = queue
        /\ result' = queue[head] /\ in_global' = in_global
    BY <1>3 DEF PopMessage
  <2>2. /\ head' \in 0..(cap - 1)
        /\ Distance(head', tail, cap) = Length - 1
        /\ Length' = Length - 1 /\ Length >= 1
        /\ queue[head] \in Message
        /\ \A i \in 1..(Length - 1) : Cell(i)' = Cell(i + 1)
    BY <2>1, PopCells
  <2>3. overload' \in Nat /\ overload_threshold' \in Nat
    BY <1>1, <1>3, <2>2 DEF PopMessage, Raised, TypeOK
  <2>4. TypeOK'
    BY <2>1, <2>2, <2>3 DEF TypeOK
  <2>5. NoGarbage'
    BY <1>1, <2>1, <2>2 DEF NoGarbage
  <2>. QED BY <2>4, <2>5
<1>4. CASE PopEmpty
  BY <1>4, QueueAssumption DEF PopEmpty, TypeOK, NoGarbage, Length, Cell
<1>5. CASE TakeOverload
  BY <1>5 DEF TakeOverload, TypeOK, NoGarbage, Length, Cell
<1>6. CASE UNCHANGED vars
  BY <1>6 DEF vars, TypeOK, NoGarbage, Length, Cell
<1>. QED BY <1>2, <1>3, <1>4, <1>5, <1>6 DEF Next

\* skynet_mq_push, skynet_mq_pop and expand_queue keep every field of struct
\* message_queue in its type, and head and tail inside the buffer.
THEOREM TypeCorrect == Spec => []TypeOK
<1>1. Inv => TypeOK
  BY DEF Inv
<1>. QED BY InitInv, NextInv, <1>1, PTL DEF Spec

\* skynet_mq_pop never hands out a cell that no skynet_mq_push has filled,
\* however often head and tail go round and expand_queue moves the cells.
THEOREM RingNoGarbage == Spec => []NoGarbage
<1>1. Inv => NoGarbage
  BY DEF Inv
<1>. QED BY InitInv, NextInv, <1>1, PTL DEF Spec

\* The loop of skynet_mq_pop: a queue is reported when it passes the threshold,
\* the threshold then covers its length, and only an empty queue resets it.
THEOREM OverloadReports == Spec => OverloadOncePerDoubling
<1>1. ASSUME Inv, [Next]_vars
      PROVE  [/\ overload' > overload => overload' > overload_threshold
                                         /\ overload' <= overload_threshold'
              /\ overload_threshold' < overload_threshold => head = tail]_vars
  <2>1. TypeOK /\ Length \in Nat
    BY <1>1, LengthInRing DEF Inv
  <2>2. CASE Push
    BY <2>1, <2>2 DEF Push, TypeOK
  <2>3. CASE PopMessage
    <3>1. /\ head # tail /\ head' = Wrap(head + 1, cap)
          /\ cap' = cap /\ tail' = tail /\ queue' = queue
      BY <2>3 DEF PopMessage
    <3>2. Distance(head', tail, cap) \in Nat
      BY <1>1, <2>1, <3>1, PopCells
    <3>. QED BY <2>1, <2>3, <3>2 DEF PopMessage, Raised, TypeOK
  <2>4. CASE PopEmpty
    BY <2>1, <2>4 DEF PopEmpty, TypeOK
  <2>5. CASE TakeOverload
    BY <2>1, <2>5 DEF TakeOverload, TypeOK
  <2>. QED BY <1>1, <2>2, <2>3, <2>4, <2>5 DEF Next, vars
<1>. QED BY <1>1, InitInv, NextInv, PTL DEF Spec, OverloadOncePerDoubling

-----------------------------------------------------------------------------
(* The ring implements the first-in first-out queue. *)

\* The waiting messages, read off the ring, are a sequence of Length messages.
ContentsOK ==
    /\ Contents \in Seq(Message)
    /\ Len(Contents) = Length /\ Length \in Nat
    /\ \A i \in 1..Length : Contents[i] = queue[Cell(i)]

\* Reading the ring of a queue in a legal state gives such a sequence.
LEMMA ContentsSeq == Inv => ContentsOK
<1>. SUFFICES ASSUME Inv PROVE ContentsOK
  OBVIOUS
<1>1. Length \in Nat
  BY LengthInRing DEF Inv
<1>2. \A i \in 1..Length : queue[Cell(i)] \in Message
  BY DEF Inv, NoGarbage
<1>3. Contents \in [1..Length -> Message]
  BY <1>2 DEF Contents
<1>4. Contents \in Seq(Message)
  BY <1>1, <1>3, SeqDef
<1>5. Len(Contents) = Length
  <2>1. DOMAIN Contents = 1..Length /\ DOMAIN Contents = 1..Len(Contents) /\ Len(Contents) \in Nat
    BY <1>3, <1>4, LenProperties
  <2>. QED BY <1>1, <2>1
<1>. QED BY <1>1, <1>4, <1>5 DEF Contents, ContentsOK

\* skynet_mq_push appends at the end, whether or not it expands the ring.
LEMMA PushAppends == Inv /\ Inv' /\ Push => Fifo!Push
<1>. SUFFICES ASSUME Inv, Inv', Push PROVE Fifo!Push
  OBVIOUS
<1>1. PICK m \in Message :
        /\ Length' = Length + 1
        /\ \A i \in 1..Length : queue'[Cell(i)'] = queue[Cell(i)]
        /\ queue'[Cell(Length)'] = m
  BY PushCells
<1>2. /\ Contents \in Seq(Message) /\ Len(Contents) = Length /\ Length \in Nat
      /\ \A i \in 1..Length : Contents[i] = queue[Cell(i)]
  BY ContentsSeq DEF ContentsOK
<1>3. /\ Contents' \in Seq(Message) /\ Len(Contents') = Length'
      /\ \A i \in 1..Length' : Contents'[i] = queue'[Cell(i)']
  <2>1. ContentsOK'
    BY ContentsSeq, PTL
  <2>. QED BY <2>1 DEF ContentsOK
<1>4. Contents' = Append(Contents, m)
  <2>1. /\ Append(Contents, m) \in Seq(Message)
        /\ Len(Append(Contents, m)) = Length + 1
        /\ \A i \in 1..Length : Append(Contents, m)[i] = Contents[i]
        /\ Append(Contents, m)[Length + 1] = m
    BY <1>2, AppendProperties
  <2>2. ASSUME NEW i \in 1..Len(Contents')
        PROVE  Contents'[i] = Append(Contents, m)[i]
    <3>1. CASE i \in 1..Length
      BY <1>1, <1>2, <1>3, <2>1, <3>1
    <3>2. CASE i = Length + 1
      BY <1>1, <1>2, <1>3, <2>1, <3>2
    <3>. QED BY <1>1, <1>2, <1>3, <3>1, <3>2
  <2>. QED BY <1>1, <1>3, <2>1, <2>2, SeqEqual
<1>. QED BY <1>2, <1>4 DEF Push, Fifo!Push

\* skynet_mq_pop takes the oldest message.
LEMMA PopTakesFirst == Inv /\ Inv' /\ PopMessage => Fifo!Pop
<1>. SUFFICES ASSUME Inv, Inv', PopMessage PROVE Fifo!Pop
  OBVIOUS
<1>1. /\ head # tail /\ head' = Wrap(head + 1, cap)
      /\ cap' = cap /\ tail' = tail /\ queue' = queue
      /\ result' = queue[head] /\ in_global' = in_global
  BY DEF PopMessage
<1>2. /\ Length' = Length - 1 /\ Length >= 1
      /\ Cell(1) = head
      /\ \A i \in 1..(Length - 1) : Cell(i)' = Cell(i + 1)
  BY <1>1, PopCells
<1>3. /\ Contents \in Seq(Message) /\ Len(Contents) = Length /\ Length \in Nat
      /\ \A i \in 1..Length : Contents[i] = queue[Cell(i)]
  BY ContentsSeq DEF ContentsOK
<1>4. /\ Contents' \in Seq(Message) /\ Len(Contents') = Length'
      /\ \A i \in 1..Length' : Contents'[i] = queue'[Cell(i)']
  <2>1. ContentsOK'
    BY ContentsSeq, PTL
  <2>. QED BY <2>1 DEF ContentsOK
<1>5. Contents # <<>>
  BY <1>2, <1>3
<1>6. Contents' = Tail(Contents)
  <2>1. /\ Tail(Contents) \in Seq(Message) /\ Len(Tail(Contents)) = Length - 1
        /\ \A i \in 1..(Length - 1) : Tail(Contents)[i] = Contents[i + 1]
    BY <1>3, <1>5, HeadTailProperties
  <2>2. ASSUME NEW i \in 1..Len(Contents')
        PROVE  Contents'[i] = Tail(Contents)[i]
    <3>1. i \in 1..(Length - 1) /\ i \in 1..Length' /\ i + 1 \in 1..Length
      BY <1>2, <1>3, <1>4
    <3>. QED BY <1>1, <1>2, <1>3, <1>4, <2>1, <3>1
  <2>. QED BY <1>2, <1>4, <2>1, <2>2, SeqEqual
<1>7. result' = Head(Contents)
  <2>1. 1 \in 1..Length
    BY <1>2, <1>3
  <2>2. Contents[1] = queue[head]
    BY <1>2, <1>3, <2>1
  <2>. QED BY <1>1, <1>3, <1>5, <2>2
<1>. QED BY <1>1, <1>5, <1>6, <1>7 DEF Fifo!Pop

\* The messages that wait depend on the ring alone.
LEMMA ContentsUnchanged == UNCHANGED <<cap, head, tail, queue>> => UNCHANGED Contents
  BY DEF Contents, Length, Cell

\* The ring buffer of skynet_mq.c implements the unbounded first-in first-out
\* queue of Mailbox: pops return the pushed messages, each once, in the order of
\* the pushes, across every wrap and every expand_queue.
THEOREM RingImplementsFifo == Spec => FifoSpec
<1>1. Init => Fifo!Init
  <2>. SUFFICES ASSUME Init PROVE Fifo!Init
    OBVIOUS
  <2>1. Len(Contents) = 0 /\ Contents \in Seq(Message)
    BY InitInv, ContentsSeq DEF ContentsOK, Init, Length, Distance
  <2>. QED BY <2>1, EmptySeq DEF Init, Fifo!Init
<1>2. Inv /\ Inv' /\ [Next]_vars => [Fifo!Next]_Fifo!vars
  <2>. SUFFICES ASSUME Inv, Inv', [Next]_vars PROVE [Fifo!Next]_Fifo!vars
    OBVIOUS
  <2>1. CASE Push
    BY <2>1, PushAppends DEF Fifo!Next
  <2>2. CASE PopMessage
    BY <2>2, PopTakesFirst DEF Fifo!Next
  <2>3. CASE PopEmpty
    <3>1. Len(Contents) = 0 /\ Contents \in Seq(Message)
      BY <2>3, ContentsSeq, LengthInRing DEF ContentsOK, PopEmpty, Inv
    <3>2. Contents = <<>>
      BY <3>1, EmptySeq
    <3>3. UNCHANGED Contents
      BY <2>3, ContentsUnchanged DEF PopEmpty
    <3>. QED BY <2>3, <3>2, <3>3 DEF PopEmpty, Fifo!Next, Fifo!Pop
  <2>4. CASE TakeOverload
    BY <2>4, ContentsUnchanged DEF TakeOverload, Fifo!vars
  <2>5. CASE UNCHANGED vars
    BY <2>5, ContentsUnchanged DEF vars, Fifo!vars
  <2>. QED BY <2>1, <2>2, <2>3, <2>4, <2>5 DEF Next
<1>. QED BY <1>1, <1>2, InitInv, NextInv, PTL DEF Spec, FifoSpec, Fifo!Spec
=============================================================================
