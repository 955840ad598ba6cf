---------------------------- MODULE MessageQueue ----------------------------
(***************************************************************************)
(* The message queue of one service (skynet_mq.c): a ring buffer that      *)
(* doubles when it is full, and the overload warning.  Every operation     *)
(* holds the queue's spin lock from beginning to end, so it is one step.   *)
(***************************************************************************)
EXTENDS Integers, Sequences

CONSTANTS
    Message,             \* the messages
    NoMessage,           \* what skynet_mq_pop returns from an empty queue
    DEFAULT_QUEUE_SIZE,  \* 64 in the code
    MQ_OVERLOAD,         \* 1024 in the code
    MaxLen               \* bound on the messages that wait

ASSUME QueueAssumption ==
    /\ NoMessage \notin Message
    /\ DEFAULT_QUEUE_SIZE \in Nat \ {0}
    /\ MQ_OVERLOAD \in Nat \ {0}
    /\ MaxLen \in Nat

VARIABLES
    cap, head, tail,      \* capacity, next to pop, next to fill
    queue,                \* the cells 0 .. cap - 1
    in_global,
    overload,             \* length to be reported, 0 when there is none
    overload_threshold,
    result                \* what the last skynet_mq_pop has returned

vars == <<cap, head, tail, queue, in_global, overload, overload_threshold, result>>

\* skynet_mq_create.  The cells are uninitialised memory.
Init ==
    /\ cap = DEFAULT_QUEUE_SIZE
    /\ head = 0
    /\ tail = 0
    /\ queue = [i \in 0..(cap - 1) |-> NoMessage]
    /\ in_global = TRUE
    /\ overload = 0
    /\ overload_threshold = MQ_OVERLOAD
    /\ result = NoMessage

\* skynet_mq_length
Distance(h, t, c) == IF h <= t THEN t - h ELSE t + c - h
Length == Distance(head, tail, cap)

\* An index that has been incremented once, back inside the ring.
Wrap(i, c) == IF i >= c THEN 0 ELSE i

\* Mutant: the cells are copied from where they are, not from head on.
Expanded_unrotated(b) ==
    [i \in 0..(2 * cap - 1) |-> IF i < cap THEN b[i] ELSE NoMessage]

\* expand_queue, for a buffer whose cells are b: the same messages in the same
\* order at the start of a buffer of twice the size.
Expanded(b) ==
    [i \in 0..(2 * cap - 1) |->
        IF i < cap THEN b[(head + i) % cap] ELSE NoMessage]

\* skynet_mq_push: fill the cell at tail, and expand when that was the last one.
\* (Entering the global queue is ServiceDispatch's part.)
Push ==
    /\ Length < MaxLen
    /\ \E m \in Message :
        LET b == [queue EXCEPT ![tail] = m]
            t == Wrap(tail + 1, cap)
        IN  IF head = t
            THEN /\ queue' = Expanded(b)
                 /\ head' = 0
                 /\ tail' = cap
                 /\ cap' = 2 * cap
            ELSE /\ queue' = b
                 /\ tail' = t
                 /\ UNCHANGED <<head, cap>>
    /\ in_global' = TRUE
    /\ UNCHANGED <<overload, overload_threshold, result>>

\* Mutant: the threshold stays.
Raised_never(th, len) == {th}

\* The threshold after "while (length > threshold) threshold *= 2": the one of
\* th, 2 * th, 4 * th, ... that is at least len, and less than twice that.
Raised(th, len) ==
    {x \in th..(th + 2 * len) :
        /\ \E k \in 0..len : x = th * 2 ^ k
        /\ len <= x
        /\ x = th \/ x < 2 * len}

\* skynet_mq_pop of a queue with messages.  A queue that is longer than the
\* threshold is reported once, and the threshold doubles past its length.
PopMessage ==
    /\ head # tail
    /\ result' = queue[head]
    /\ head' = Wrap(head + 1, cap)
    /\ LET len == Distance(head', tail, cap) IN
        /\ overload' = IF len > overload_threshold THEN len ELSE overload
        /\ overload_threshold' \in Raised(overload_threshold, len)
    /\ UNCHANGED <<cap, tail, queue, in_global>>

\* skynet_mq_pop of an empty queue.
PopEmpty ==
    /\ head = tail
    /\ result' = NoMessage
    /\ in_global' = FALSE
    /\ overload_threshold' = MQ_OVERLOAD
    /\ UNCHANGED <<cap, head, tail, queue, overload>>

\* skynet_mq_overload, called by the worker after a pop.
TakeOverload ==
    /\ overload # 0
    /\ overload' = 0
    /\ UNCHANGED <<cap, head, tail, queue, in_global, overload_threshold, result>>

Next == Push \/ PopMessage \/ PopEmpty \/ TakeOverload

Spec == Init /\ [][Next]_vars

-----------------------------------------------------------------------------
(* Properties. *)

\* Every field of struct message_queue has its type, and the indices lie inside
\* the buffer.
TypeOK ==
    /\ cap \in Nat \ {0}
    /\ head \in 0..(cap - 1)
    /\ tail \in 0..(cap - 1)
    /\ queue \in [0..(cap - 1) -> Message \cup {NoMessage}]
    /\ in_global \in BOOLEAN
    /\ overload \in Nat
    /\ overload_threshold \in Nat
    /\ result \in Message \cup {NoMessage}

\* The cell that holds the i-th message that waits.
Cell(i) == IF head + i - 1 >= cap THEN head + i - 1 - cap ELSE head + i - 1

\* The messages that wait, oldest first, read off the ring.
Contents == [i \in 1..Length |-> queue[Cell(i)]]

\* The ring never hands out, or counts as waiting, a cell that no push has
\* filled: not after the wrap of head or tail, and not after expand_queue.
NoGarbage == \A i \in 1..Length : queue[Cell(i)] \in Message

\* A queue is not reported again before it has doubled: after a pop the length
\* is at most the threshold or has grown since, and the threshold moves only up
\* while messages wait (the loop of skynet_mq_pop).
OverloadOncePerDoubling ==
    [][/\ overload' > overload => overload' > overload_threshold
                                  /\ overload' <= overload_threshold'
       /\ overload_threshold' < overload_threshold => head = tail]_vars

\* The ring buffer is a first-in first-out queue.
Fifo == INSTANCE Mailbox WITH msgs <- Contents
FifoSpec == Fifo!Spec
=============================================================================
