-------------------------- MODULE SocketServerInv --------------------------
(***************************************************************************)
(* The inductive invariants of SocketServer, which SocketServerProofs      *)
(* proves.                                                                 *)
(*                                                                         *)
(* The first one, Inv, says where the ids are: which slot an id has, which *)
(* commands about it may be on the pipe, and that nothing is sent on it    *)
(* before its SOCKET_OPEN has been raised.                                 *)
(*                                                                         *)
(* The second one, LineInv, follows the packets of an id on their way:     *)
(* from the service to the pipe, to the lists of the slot, to the wire.    *)
(***************************************************************************)
EXTENDS SocketServer

-----------------------------------------------------------------------------
(* Types. *)

Record == [id : 0..MaxId, type : Type, protocol : {"UNKNOWN", "TCP"},
           reading : BOOLEAN, writing : BOOLEAN, closing : BOOLEAN, tag : Nat,
           sending : 0..MAX_SENDING, high : Seq(Buffer), low : Seq(Buffer),
           dw_buffer : Buffer \cup {NULL}, dw_lock : Sender \cup {NULL}]

Opening == {"open", "listen"}
Control == Opening \cup {"start", "pause", "close", "shutdown", "trigger"}
Cmd == [cmd : Control, id : Id] \cup [cmd : {"send"}, id : Id, p : Packet]
Job == [id : Id, p : Packet]
Doom == [s : Slot, raise : {"none", "CLOSE", "ERR"}, ctrl : BOOLEAN]
Report == [s : Slot, k : {"r", "w", "rw", "eof"}]
Place == {"idle", "locked", "trigger", "inc", "request"}
Ticket == {NotReserving} \cup [step : {"id", "open"}, id : Id, cmd : Opening]

ThreadTypes ==
    /\ alloc_id \in 0..MaxId
    /\ pipe \in Seq(Cmd)
    /\ checkctrl \in BOOLEAN
    /\ ev \in Seq(Report)
    /\ pc \in {"poll", "event", "force"}
    /\ pc = "force" => doomed \in Doom

SenderTypes ==
    /\ at \in [Sender -> Place]
    /\ \A t \in Sender : at[t] # "idle" => job[t] \in Job
    /\ DOMAIN job = Sender
    /\ reserving \in [Sender -> Ticket]
    /\ accepted \in [Id -> SUBSET Packet]
    /\ closes \in [Id -> Nat]
    /\ opened \subseteq Id
    /\ calls \in 0..MaxCall

\* Packets are numbered within the bound on the calls.
Numbered == IsFiniteSet(Packets) /\ Cardinality(Packets) <= calls

Types ==
    /\ slot \in [Slot -> Record]
    /\ ThreadTypes
    /\ SenderTypes
    /\ Numbered

Dead == {"INVALID", "RESERVE"}

\* A slot whose type reserve_id has set, and whose id it has not, is as good as free.
Use(k) == IF HalfReserved(k) THEN "INVALID" ELSE slot[k].type

\* The command that opens the id is on the pipe, or is the next that a service sends.
Asked(id)   == \E t \in Sender : reserving[t].step = "open" /\ reserving[t].id = id
Awaited(id) == \/ Asked(id)
               \/ \E i \in DOMAIN pipe : pipe[i].cmd \in Opening /\ pipe[i].id = id

\* A slot that is in use, and one that has been, belongs to the id that hashes to
\* it, and its tag is that id's.
SlotPlaced(k) ==
    /\ slot[k].id <= alloc_id
    /\ Use(k) # "INVALID" \/ slot[k].protocol = "TCP" =>
            slot[k].id \in Id /\ HASH_ID(slot[k].id) = k
    /\ slot[k].protocol = "TCP" => slot[k].tag = ID_TAG16(slot[k].id)
    /\ slot[k].type \notin Dead => slot[k].protocol = "TCP"
    /\ slot[k].type \in Dead => send_buffer_empty(slot[k])
    /\ HalfReserved(k) => slot[k].type = "RESERVE"
    /\ Use(k) = "RESERVE" =>
            /\ slot[k].protocol = "UNKNOWN"
            /\ slot[k].id \notin opened
            /\ Awaited(slot[k].id)

Placed == \A k \in Slot : SlotPlaced(k)

\* Commands and jobs are about ids that have been given out.  The command that
\* opens an id is the first about it, and nothing is sent on an id before it is open.
Sent ==
    /\ \A id \in opened : id <= alloc_id
    /\ \A i \in DOMAIN pipe :
        /\ pipe[i].id <= alloc_id
        /\ pipe[i].cmd = "send" => pipe[i].id \in opened
    /\ \A t \in Sender : at[t] # "idle" => job[t].id \in opened

\* An id that is being reserved is known to nobody else, and its slot is taken.
Ticketed(t) ==
    reserving[t].step # "none" =>
        LET k == HASH_ID(reserving[t].id) IN
        /\ reserving[t].id <= alloc_id /\ reserving[t].id \notin opened
        /\ closes[reserving[t].id] = 0
        /\ \A i \in DOMAIN pipe : pipe[i].id # reserving[t].id
        /\ slot[k].type = "RESERVE"
        /\ reserving[t].step = "open" => slot[k].id = reserving[t].id

Tickets ==
    /\ \A t \in Sender : Ticketed(t)
    /\ \A t, u \in Sender :
        reserving[t].step # "none" /\ reserving[u].step # "none" /\ t # u =>
            HASH_ID(reserving[t].id) # HASH_ID(reserving[u].id)

OpenFirst ==
    /\ \A i \in DOMAIN pipe : pipe[i].cmd \in Opening =>
        LET k == HASH_ID(pipe[i].id) IN slot[k].id = pipe[i].id /\ Use(k) = "RESERVE"
    /\ \A i, j \in DOMAIN pipe :
        pipe[j].cmd \in Opening /\ pipe[i].id = pipe[j].id => j <= i

\* force_close works on a socket that is there, and raises SOCKET_CLOSE unless
\* close_read has, or the connection never was.
Forced ==
    pc = "force" =>
        /\ slot[doomed.s].type \notin Dead
        /\ doomed.raise = "none" => slot[doomed.s].type = "HALFCLOSE_READ"
        /\ doomed.raise = "CLOSE" => slot[doomed.s].type # "HALFCLOSE_READ"
        /\ doomed.raise = "ERR" => slot[doomed.s].type = "CONNECTING"

Requests(id) == {t \in Sender : at[t] = "request" /\ job[t].id = id}
Sends(id) == {i \in DOMAIN pipe : pipe[i].cmd = "send" /\ pipe[i].id = id}

\* s->sending is right even after the socket has been closed, until the slot is
\* reserved again.
Counted ==
    \A k \in Slot : slot[k].protocol = "TCP" =>
        slot[k].sending = Cardinality(Requests(slot[k].id)) + Cardinality(Sends(slot[k].id))

\* How often SOCKET_CLOSE has been raised for an id.
ClosesCounted ==
    /\ \A k \in Slot :
        /\ slot[k].type \notin Dead =>
            /\ slot[k].closing => slot[k].type = "HALFCLOSE_READ"
            /\ slot[k].type = "CONNECTING" => slot[k].id \notin opened
            /\ closes[slot[k].id] = IF slot[k].type = "HALFCLOSE_READ" THEN 1 ELSE 0
        /\ Use(k) = "RESERVE" => closes[slot[k].id] = 0
    /\ \A id \in Id :
        /\ closes[id] <= 1
        /\ id > alloc_id => closes[id] = 0
        /\ id \in opened /\ ~Live(id) => closes[id] = 1

Assertions == failed \in {"no", "reserve"}

Inv ==
    /\ Types /\ Placed /\ Sent /\ Tickets /\ OpenFirst /\ Forced /\ Counted /\ ClosesCounted
    /\ PendingIsWatched /\ Assertions

-----------------------------------------------------------------------------
(* The packets on their way: the second invariant.                          *)

\* p has to be written before q.
Precedes(p, q) == p.by = q.by /\ p.no < q.no /\ (p.high \/ ~q.high)

\* A byte of p has been written.
Wrote(w, p) == \E i \in 1..Len(w) : w[i] = p
\* p is in the lists.
Waits(q, p) == \E i \in 1..Len(q) : q[i].p = p

\* What has been written: each packet's two bytes together, after the packets that
\* precede it.
Ordered(w, acc) ==
    /\ \A j \in 1..Len(w) : w[j] \in acc
    /\ \A j \in 1..Len(w) : j % 2 = 0 => w[j] = w[j - 1]
    /\ \A j \in 1..Len(w) : j % 2 = 1 => \A i \in 1..(j - 1) : w[i] # w[j]
    /\ \A j \in 1..Len(w) : \A p \in acc :
            Precedes(p, w[j]) => \E i \in 1..(j - 1) : w[i] = p

\* What waits goes on where the written part ends, and no packet that is not there
\* should be before it.
Lined(w, q, acc) ==
    /\ \A i \in 1..Len(q) : q[i].p \in acc /\ (i # 1 => q[i].off = 0)
    /\ \A i \in 1..Len(q) : q[i].off = 0 => ~Wrote(w, q[i].p)
    /\ \A i, j \in 1..Len(q) : i < j => q[i].p # q[j].p /\ ~Precedes(q[j].p, q[i].p)
    /\ Len(q) = 0 => Len(w) % 2 = 0
    /\ Len(q) > 0 => /\ Len(w) % 2 = q[1].off
                     /\ q[1].off = 1 => Len(w) > 0 /\ w[Len(w)] = q[1].p
    /\ \A p \in acc : \/ Wrote(w, p) \/ Waits(q, p)
                      \/ \A i \in 1..Len(q) : ~Precedes(p, q[i].p)

\* What waits on a slot: the rest of a direct write, the high list, the low one.
First(r) == IF r.dw_buffer = NULL THEN r.high ELSE <<r.dw_buffer>> \o r.high
Waiting(r) == First(r) \o r.low

\* The packets that wait for an id; whether its socket is closing, and whether it
\* still takes packets.
Line(x) == IF Live(x) THEN Waiting(slot[HASH_ID(x)]) ELSE <<>>
Closing(x) == Live(x) /\ slot[HASH_ID(x)].closing
Taking(x) == Live(x) /\ ~slot[HASH_ID(x)].closing

\* p is neither written nor in the lists.
Ahead(x, p) == ~Wrote(wire[x], p) /\ ~Waits(Line(x), p)
\* p is in a send command, or a service is about to ask for one.
Sending(x, p) == \/ \E i \in Sends(x) : pipe[i].p = p
                 \/ \E t \in Requests(x) : job[t].p = p

\* What is on its way comes in order, and is all there as long as the socket takes
\* packets.
Coming(x) ==
    /\ \A i \in Sends(x) : pipe[i].p \in accepted[x] /\ Ahead(x, pipe[i].p)
    /\ \A t \in Requests(x) : job[t].p \in accepted[x] /\ Ahead(x, job[t].p)
    /\ \A i, j \in Sends(x) : i < j =>
            pipe[i].p # pipe[j].p /\ ~Precedes(pipe[j].p, pipe[i].p)
    /\ \A t \in Requests(x), i \in Sends(x) :
            pipe[i].p # job[t].p /\ ~Precedes(job[t].p, pipe[i].p)
    /\ Taking(x) =>
            \A p \in accepted[x] : Ahead(x, p) => Sending(x, p)

\* The packets of an id: written, waiting, and on their way.
InOrder(x) ==
    /\ Ordered(wire[x], accepted[x])
    /\ Live(x) => Lined(wire[x], Line(x), accepted[x])
    /\ Coming(x)

\* The packets of a sender are numbered in the order of its calls.
Fresh ==
    /\ \A p \in Packets : p.no <= Cardinality(Packets)
    /\ \A t \in Sender : at[t] \in {"locked", "inc", "request"} => job[t].p.by = t
    /\ \A t \in Sender : at[t] \in {"locked", "inc"} =>
            \A x \in Id : \A p \in accepted[x] : p.by = t => p.no < job[t].p.no

\* Whole packets of low priority are in the low list.
LowOnly(r) == \A i \in 1..Len(r.low) : ~r.low[i].p.high /\ r.low[i].off = 0

\* Only the first buffer may be begun; an id is not sent on while its socket listens.
Kind(r) ==
    /\ LowOnly(r)
    /\ r.type \in {"PACCEPT", "PLISTEN", "LISTEN"} => r.id \notin opened
    /\ r.type = "HALFCLOSE_WRITE" => r.id \in broken

\* Types; a shutdown breaks its connection; nothing is sent before SOCKET_OPEN.
Kinds ==
    /\ wire \in [Id -> Seq(Packet)]
    /\ \A k \in Slot : Kind(slot[k])
    /\ \A i \in DOMAIN pipe : pipe[i].cmd = "shutdown" => pipe[i].id \in broken
    /\ \A x \in Id \ opened : accepted[x] = {}
    /\ DOMAIN due \subseteq Id

\* The close commands on the pipe.
Closes(x) == {i \in DOMAIN pipe : pipe[i].cmd = "close" /\ pipe[i].id = x}

\* p is not behind a close command.
Settled(x, p) ==
    \/ ~Ahead(x, p)
    \/ \E i \in Sends(x) : pipe[i].p = p /\ \A j \in Closes(x) : i < j
\* Both bytes of p have been written.
Done(w, p) == \E i \in 1..Len(w) : i % 2 = 0 /\ w[i] = p

\* The socket is being closed by force_close, or has been closed.
Ending(x) == (pc = "force" /\ slot[doomed.s].id = x) \/ (x \in opened /\ ~Live(x))

\* What was sent before the close has reached the lists, and has been written.
DueThere(x) == x \in DOMAIN due /\ \A p \in due[x] : ~Ahead(x, p)
DueDone(x) == x \in DOMAIN due /\ \A p \in due[x] : Done(wire[x], p)

\* What was sent before the close is in the lists when the close command is handled,
\* and written when the socket is at an end.
Graceful(x) ==
    /\ Closes(x) # {} => x \in DOMAIN due
    /\ x \in DOMAIN due => due[x] \subseteq accepted[x]
    /\ x \in DOMAIN due /\ Live(x) => \A p \in due[x] : Settled(x, p)
    /\ Closing(x) => DueThere(x)
    /\ Ending(x) => DueDone(x)

\* The second inductive invariant.
LineInv ==
    /\ Fresh /\ Kinds
    /\ \A x \in Id \ broken : InOrder(x) /\ Graceful(x)
=============================================================================
