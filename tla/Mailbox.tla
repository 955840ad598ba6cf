------------------------------ MODULE Mailbox ------------------------------
(***************************************************************************)
(* What a message queue promises to the rest of skynet (skynet_mq.h): an   *)
(* unbounded first-in first-out sequence of messages, and the flag that    *)
(* says whether some thread is going to look at the queue.  The module     *)
(* MessageQueue implements it; ServiceDispatch is written in terms of it.  *)
(***************************************************************************)
EXTENDS Naturals, Sequences

CONSTANTS
    Message,    \* the messages
    NoMessage,  \* what skynet_mq_pop returns from an empty queue
    MaxLen      \* bound on the messages that wait

VARIABLES
    msgs,       \* the messages that wait, oldest first
    in_global,  \* the queue is in the global queue, or in dispatching
    result      \* what the last skynet_mq_pop has returned

vars == <<msgs, in_global, result>>

Init ==
    /\ msgs = <<>>
    /\ in_global = TRUE
    /\ result = NoMessage

\* skynet_mq_push
Push ==
    /\ Len(msgs) < MaxLen
    /\ \E m \in Message : msgs' = Append(msgs, m)
    /\ in_global' = TRUE
    /\ UNCHANGED result

\* skynet_mq_pop
Pop ==
    IF msgs = <<>>
    THEN /\ result' = NoMessage
         /\ in_global' = FALSE
         /\ UNCHANGED msgs
    ELSE /\ result' = Head(msgs)
         /\ msgs' = Tail(msgs)
         /\ UNCHANGED in_global

Next == Push \/ Pop

Spec == Init /\ [][Next]_vars
=============================================================================
