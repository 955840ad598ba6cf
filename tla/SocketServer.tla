---------------------------- MODULE SocketServer ----------------------------
(***************************************************************************)
(* The TCP side of socket_server.c: the slots, the control pipe on which   *)
(* services send their commands, the socket thread that polls, and the     *)
(* direct write, by which a worker writes to a connection itself when      *)
(* nothing is waiting to be sent on it.                                    *)
(*                                                                         *)
(* The socket thread runs one command or one event at a time.  Workers see *)
(* and change a slot between any two of its steps, and in the middle of    *)
(* force_close, which has to wait for dw_lock.  System calls have every    *)
(* result they can have.  A packet has two bytes, so that a write can      *)
(* leave a part of it behind.                                              *)
(***************************************************************************)
EXTENDS Integers, Sequences, FiniteSets, SequencesExt

CONSTANTS
    Sender,       \* services that use sockets, each in a worker of its own
    MAX_SOCKET,   \* 65536 in the code
    MAX_SENDING,  \* 0xffff in the code: the limit of s->sending
    MaxId,        \* bound on the ids that are allocated
    PipeSize,     \* commands the pipe holds before a worker blocks
    MaxCall,      \* bound on the calls of socket_server_* by services
    NULL

\* A packet: its number in the order of all sends, its sender and its priority.
\* In a list it comes with the number of bytes that have been written.
Packet == [no : 1..MaxCall, by : Sender, high : BOOLEAN]
Buffer == [p : Packet, off : 0..1]

ASSUME SocketAssumption ==
    /\ MAX_SOCKET \in Nat \ {0} /\ MAX_SENDING \in Nat \ {0}
    /\ PipeSize \in Nat \ {0}
    /\ MaxId \in Nat /\ MaxCall \in Nat
    /\ IsFiniteSet(Sender) /\ NULL \notin Sender \cup Buffer

HASH_ID(id)  == id % MAX_SOCKET
ID_TAG16(id) == id \div MAX_SOCKET

Slot == 0..(MAX_SOCKET - 1)
Id   == 1..MaxId

Type == {"INVALID", "RESERVE", "PLISTEN", "LISTEN", "CONNECTING", "CONNECTED",
         "HALFCLOSE_READ", "HALFCLOSE_WRITE", "PACCEPT"}

VARIABLES
    slot,       \* ss->slot
    alloc_id,   \* ss->alloc_id
    pipe,       \* commands between sendctrl_fd and recvctrl_fd
    checkctrl,  \* ss->checkctrl
    ev,         \* the events of the last sp_wait that are still to be handled
    pc,         \* the socket thread: at the top of its loop, before an event, or
                \* in force_close, waiting for dw_lock
    doomed,     \* the slot force_close works on, and what it raises at the end
    at, job,    \* a sender's place in the code, and the id and packet it has
    reserving,  \* the id a sender is reserving, what it is for, and the next step
    \* History, for the properties:
    accepted,   \* for each id, packets that socket_server_send has taken
    wire,       \* for each id, the bytes written, as the packets they are of
    due,        \* for each id that a service closes, what this service had sent
    broken,     \* ids that were shut down, reset, or had a write error
    closes,     \* for each id, the number of SOCKET_CLOSE raised
    opened,     \* connections whose SOCKET_OPEN has been raised
    calls,      \* number of calls by services
    failed      \* the assertion that has stopped the process, or "no"

sockVars == <<slot, alloc_id, pipe, checkctrl, ev, pc, doomed>>
sendVars == <<at, job, reserving>>
history  == <<accepted, wire, due, broken, closes, opened, calls>>
vars == <<sockVars, sendVars, history, failed>>

Empty == [id |-> 0, type |-> "INVALID", protocol |-> "UNKNOWN", reading |-> FALSE,
          writing |-> FALSE, closing |-> FALSE, tag |-> 0, sending |-> 0,
          high |-> <<>>, low |-> <<>>, dw_buffer |-> NULL, dw_lock |-> NULL]

NotReserving == [step |-> "none", id |-> 0, cmd |-> "none"]

\* socket_server_create
Init ==
    /\ slot = [k \in Slot |-> Empty]
    /\ alloc_id = 0
    /\ pipe = <<>>
    /\ checkctrl = TRUE
    /\ ev = <<>>
    /\ pc = "poll"
    /\ doomed = NULL
    /\ at = [t \in Sender |-> "idle"]
    /\ job = [t \in Sender |-> NULL]
    /\ reserving = [t \in Sender |-> NotReserving]
    /\ accepted = [i \in Id |-> {}]
    /\ wire = [i \in Id |-> <<>>]
    /\ due = [i \in {} |-> {}]
    /\ broken = {}
    /\ closes = [i \in Id |-> 0]
    /\ opened = {}
    /\ calls = 0
    /\ failed = "no"

-----------------------------------------------------------------------------
(* What the code asks of a slot. *)

socket_invalid(k, id) == slot[k].id # id \/ slot[k].type = "INVALID"

send_buffer_empty(r) == r.high = <<>> /\ r.low = <<>>

\* Mutant: s->sending is not looked at.
nomore_sending_data_list(r) ==
    \/ send_buffer_empty(r) /\ r.dw_buffer = NULL
    \/ r.type = "HALFCLOSE_WRITE"

nomore_sending_data(r) ==
    \/ send_buffer_empty(r) /\ r.dw_buffer = NULL /\ r.sending = 0
    \/ r.type = "HALFCLOSE_WRITE"

can_direct_write(r, id) ==
    r.id = id /\ nomore_sending_data(r) /\ r.type = "CONNECTED"

\* new_fd: the slot of a new file descriptor.
NewFd(r, id, type, reading, writing) ==
    [r EXCEPT !.id = id, !.type = type, !.protocol = "TCP", !.reading = reading,
              !.writing = writing, !.closing = FALSE, !.tag = ID_TAG16(id),
              !.sending = 0, !.dw_buffer = NULL]

\* reserve_id tries one id after the other until the slot of one is free.
Reservable(id) ==
    /\ id \in (alloc_id + 1)..(alloc_id + MAX_SOCKET) /\ id <= MaxId
    /\ slot[HASH_ID(id)].type = "INVALID"
    /\ \A i \in (alloc_id + 1)..(id - 1) : slot[HASH_ID(i)].type # "INVALID"

\* The place of a sender and of the socket thread.  An assertion that fails ends
\* the process.
At(t, p)  == failed = "no" /\ at[t] = p
Reserving(t, p) == failed = "no" /\ reserving[t].step = p
Thread(p) == failed = "no" /\ pc = p

\* A slot whose type reserve_id has set, and whose id it has not.
HalfReserved(k) ==
    \E t \in Sender : reserving[t].step = "id" /\ HASH_ID(reserving[t].id) = k

SetSlot(k, r) == slot' = [slot EXCEPT ![k] = r]
Request(c) == Len(pipe) < PipeSize /\ pipe' = Append(pipe, c)

-----------------------------------------------------------------------------
(* Services: opening, and commands on an id they have been told.  An id is *)
(* told by the return of an open, which comes after its command, or by     *)
(* SOCKET_ACCEPT.                                                          *)

Known == {id \in 1..alloc_id : \A t \in Sender : reserving[t].id # id}

\* A service that is not in a call makes one.
Call(t) ==
    /\ At(t, "idle") /\ reserving[t].step = "none"
    /\ calls < MaxCall /\ calls' = calls + 1

\* socket_server_connect and _listen call reserve_id, which takes an id and, in an
\* atomic step, sets the type of its slot.
ReserveType(t) ==
    /\ Call(t)
    /\ \E id \in Id, cmd \in {"open", "listen"} :
        /\ Reservable(id)
        /\ alloc_id' = id
        /\ SetSlot(HASH_ID(id), [slot[HASH_ID(id)] EXCEPT !.type = "RESERVE"])
        /\ reserving' = [reserving EXCEPT ![t] = [step |-> "id", id |-> id, cmd |-> cmd]]
    /\ UNCHANGED <<pipe, checkctrl, ev, pc, doomed, at, job, accepted, wire, due, broken,
                   closes, opened, failed>>

\* Only then does reserve_id set the id of the slot, and its protocol.  These two are
\* one step: who reads the protocol alone (inc_sending_ref, an event) does not see
\* the id, and who compares the id first has another one.
ReserveId(t) ==
    /\ Reserving(t, "id")
    /\ LET id == reserving[t].id IN
        SetSlot(HASH_ID(id), [slot[HASH_ID(id)] EXCEPT !.id = id, !.protocol = "UNKNOWN"])
    /\ reserving' = [reserving EXCEPT ![t].step = "open"]
    /\ UNCHANGED <<alloc_id, pipe, checkctrl, ev, pc, doomed, at, job, history, failed>>

\* The command that opens the id ('O' or 'L').
OpenRequest(t) ==
    /\ Reserving(t, "open")
    /\ Request([cmd |-> reserving[t].cmd, id |-> reserving[t].id])
    /\ reserving' = [reserving EXCEPT ![t] = NotReserving]
    /\ UNCHANGED <<slot, alloc_id, checkctrl, ev, pc, doomed, at, job, history, failed>>

\* socket_server_start, _pause
StartPause(t) ==
    /\ Call(t)
    /\ \E id \in Known, c \in {"start", "pause"} : Request([cmd |-> c, id |-> id])
    /\ UNCHANGED <<slot, alloc_id, checkctrl, ev, pc, doomed, sendVars, accepted,
                   wire, due, broken, closes, opened, failed>>

\* socket_server_close
Close(t) ==
    /\ Call(t)
    /\ \E id \in Known :
        /\ Request([cmd |-> "close", id |-> id])
        /\ due' = IF id \in DOMAIN due THEN due
                  ELSE [i \in DOMAIN due \cup {id} |->
                           IF i = id THEN {p \in accepted[id] : p.by = t} ELSE due[i]]
    /\ UNCHANGED <<slot, alloc_id, checkctrl, ev, pc, doomed, sendVars, accepted,
                   wire, broken, closes, opened, failed>>

\* socket_server_shutdown
Shutdown(t) ==
    /\ Call(t)
    /\ \E id \in Known :
        /\ Request([cmd |-> "shutdown", id |-> id])
        /\ broken' = broken \cup {id}
    /\ UNCHANGED <<slot, alloc_id, checkctrl, ev, pc, doomed, sendVars, accepted,
                   wire, due, closes, opened, failed>>

-----------------------------------------------------------------------------
(* Services: sending. *)

Packets == (UNION {accepted[i] : i \in Id})
               \cup {job[t].p : t \in {u \in Sender : at[u] \in {"locked", "inc"}}}

NewPacket(t, high) == [no |-> Cardinality(Packets) + 1, by |-> t, high |-> high]

\* socket_server_send_lowpriority; and socket_server_send up to the lock: a
\* closed or closing socket is refused, and the lock is tried when a direct
\* write is possible.
Send(t) ==
    /\ Call(t)
    /\ \E id \in Known, high \in BOOLEAN :
        LET k == HASH_ID(id)
            r == slot[k]
            direct == high /\ can_direct_write(r, id) /\ r.dw_lock = NULL
        IN  /\ id \in opened
            /\ ~socket_invalid(k, id) /\ ~(high /\ r.closing)
            /\ job' = [job EXCEPT ![t] = [id |-> id, p |-> NewPacket(t, high)]]
            /\ at' = [at EXCEPT ![t] = IF direct THEN "locked" ELSE "inc"]
            /\ slot' = IF direct THEN [slot EXCEPT ![k].dw_lock = t] ELSE slot
    /\ UNCHANGED <<alloc_id, pipe, checkctrl, ev, pc, doomed, reserving, accepted, wire,
                   due, broken, closes, opened, failed>>

\* The second look, under the lock, and the write, which writes n bytes (0 when
\* it fails).  What is left stays in s->dw_* for the socket thread.
DirectWrite(t) ==
    /\ At(t, "locked")
    /\ LET id == job[t].id
           k  == HASH_ID(id)
           r  == [slot[k] EXCEPT !.dw_lock = NULL]
       IN  \/ /\ ~can_direct_write(r, id)
              /\ SetSlot(k, r)
              /\ at' = [at EXCEPT ![t] = "inc"]
              /\ UNCHANGED <<job, accepted, wire>>
           \/ /\ can_direct_write(r, id)
              /\ \E n \in 0..2 :
                  /\ wire' = [wire EXCEPT ![id] = @ \o [i \in 1..n |-> job[t].p]]
                  /\ SetSlot(k, IF n = 2 THEN r ELSE
                        [r EXCEPT !.dw_buffer = [p |-> job[t].p, off |-> n]])
                  /\ at' = [at EXCEPT ![t] = IF n = 2 THEN "idle" ELSE "trigger"]
                  /\ job' = IF n = 2 THEN [job EXCEPT ![t] = NULL] ELSE job
                  /\ accepted' = [accepted EXCEPT ![id] = @ \cup {job[t].p}]
    /\ UNCHANGED <<alloc_id, pipe, checkctrl, ev, pc, doomed, reserving, due, broken,
                   closes, opened, calls, failed>>

\* Let the socket thread enable the write event ('W').
TriggerRequest(t) ==
    /\ At(t, "trigger")
    /\ Request([cmd |-> "trigger", id |-> job[t].id])
    /\ at' = [at EXCEPT ![t] = "idle"]
    /\ job' = [job EXCEPT ![t] = NULL]
    /\ UNCHANGED <<slot, alloc_id, checkctrl, ev, pc, doomed, reserving, history, failed>>

\* Mutant: the tag is not compared.
inc_sending_ref_any(r, id) ==
    IF r.protocol # "TCP" THEN r ELSE [r EXCEPT !.sending = @ + 1]

\* inc_sending_ref, for the slot the id hashes to.
inc_sending_ref(r, id) ==
    IF r.protocol # "TCP" \/ r.tag # ID_TAG16(id) THEN r
    ELSE [r EXCEPT !.sending = @ + 1]

\* The worker spins while the count is at its limit.
IncSending(t) ==
    /\ At(t, "inc")
    /\ LET id == job[t].id
           r  == slot[HASH_ID(id)]
       IN  /\ r.protocol = "TCP" /\ r.tag = ID_TAG16(id) => r.sending < MAX_SENDING
           /\ SetSlot(HASH_ID(id), inc_sending_ref(r, id))
           /\ accepted' = [accepted EXCEPT ![id] = @ \cup {job[t].p}]
    /\ at' = [at EXCEPT ![t] = "request"]
    /\ UNCHANGED <<alloc_id, pipe, checkctrl, ev, pc, doomed, job, reserving, wire, due,
                   broken, closes, opened, calls, failed>>

\* The packet goes to the socket thread ('D' or 'P').
SendRequest(t) ==
    /\ At(t, "request")
    /\ Request([cmd |-> "send", id |-> job[t].id, p |-> job[t].p])
    /\ at' = [at EXCEPT ![t] = "idle"]
    /\ job' = [job EXCEPT ![t] = NULL]
    /\ UNCHANGED <<slot, alloc_id, checkctrl, ev, pc, doomed, reserving, history, failed>>

-----------------------------------------------------------------------------
(* The socket thread: what handlers do to a slot. *)

\* close_read: SOCKET_CLOSE is raised with it.
CloseRead(r) == [r EXCEPT !.type = "HALFCLOSE_READ", !.reading = FALSE]

\* Mutant: the lists are not freed.
Closed_keep(r) == [r EXCEPT !.type = "INVALID", !.dw_buffer = NULL]

\* force_close when dw_lock is held already, or has been taken.
Closed(r) == [r EXCEPT !.type = "INVALID", !.high = <<>>, !.low = <<>>,
                       !.dw_buffer = NULL]

\* force_close up to the lock: the lists are freed.  "raise" is what the caller
\* returns when it is done, and "ctrl" whether the caller is a command.
ForceClose(k, r, raise, ctrl) ==
    /\ failed' = IF r.type = "RESERVE" THEN "reserve" ELSE failed
    /\ SetSlot(k, [r EXCEPT !.high = <<>>, !.low = <<>>])
    /\ doomed' = [s |-> k, raise |-> raise, ctrl |-> ctrl]
    /\ pc' = "force"

\* The event of a socket that has been closed is not handled any more.
clear_closed_event(events, k) ==
    IF \E i \in DOMAIN events : events[i].s = k
    THEN RemoveAt(events, CHOOSE i \in DOMAIN events : events[i].s = k)
    ELSE events

\* A worker that writes directly has let go of the lock.  A command that has
\* raised SOCKET_CLOSE clears the event of the closed socket.
ForceCloseEnd ==
    /\ Thread("force")
    /\ LET k == doomed.s
           id == slot[k].id
       IN  /\ slot[k].dw_lock = NULL
           /\ SetSlot(k, Closed(slot[k]))
           /\ closes' = IF doomed.raise = "CLOSE" THEN [closes EXCEPT ![id] = @ + 1]
                        ELSE closes
           /\ ev' = IF doomed.ctrl /\ doomed.raise # "none"
                    THEN clear_closed_event(ev, k) ELSE ev
    /\ doomed' = NULL
    /\ pc' = IF checkctrl THEN "poll" ELSE "event"
    /\ UNCHANGED <<alloc_id, pipe, checkctrl, sendVars, accepted, wire, due, broken,
                   opened, calls, failed>>

-----------------------------------------------------------------------------
(* The socket thread: commands (ctrl_cmd). *)

\* The next command is c; it is taken off the pipe.
Command(c) ==
    /\ Thread("poll") /\ checkctrl /\ pipe # <<>> /\ Head(pipe).cmd = c
    /\ pipe' = Tail(pipe)

id_ == Head(pipe).id
k_  == HASH_ID(id_)

\* new_fd asserts that the slot is reserved and that nothing waits in its lists.
CanOpen == slot[k_].type = "RESERVE" /\ send_buffer_empty(slot[k_])

\* open_socket: the connection is there at once, in progress, or has failed.
OpenSocket ==
    /\ Command("open")
    /\ failed' = IF CanOpen THEN failed ELSE "new_fd"
    /\ \/ /\ SetSlot(k_, NewFd(slot[k_], id_, "CONNECTED", TRUE, FALSE))
          /\ opened' = opened \cup {id_}
       \/ /\ SetSlot(k_, NewFd(slot[k_], id_, "CONNECTING", TRUE, TRUE))
          /\ UNCHANGED opened
       \/ /\ SetSlot(k_, [slot[k_] EXCEPT !.type = "INVALID"])
          /\ UNCHANGED opened
    /\ UNCHANGED <<alloc_id, checkctrl, ev, pc, doomed, sendVars, accepted, wire, due,
                   broken, closes, calls>>

\* listen_socket: new_fd can fail.
ListenSocket ==
    /\ Command("listen")
    /\ failed' = IF CanOpen THEN failed ELSE "new_fd"
    /\ \/ SetSlot(k_, NewFd(slot[k_], id_, "PLISTEN", FALSE, FALSE))
       \/ SetSlot(k_, [slot[k_] EXCEPT !.type = "INVALID"])
    /\ UNCHANGED <<alloc_id, checkctrl, ev, pc, doomed, sendVars, history>>

\* resume_socket, when the socket can be read; otherwise it raises SOCKET_ERR.
ResumeSocket ==
    /\ Command("start")
    /\ LET r == [slot[k_] EXCEPT !.reading = TRUE] IN
        IF socket_invalid(k_, id_) \/ r.type = "HALFCLOSE_READ"
        THEN UNCHANGED <<slot, opened>>
        ELSE /\ SetSlot(k_, CASE r.type = "PACCEPT" -> [r EXCEPT !.type = "CONNECTED"]
                              [] r.type = "PLISTEN" -> [r EXCEPT !.type = "LISTEN"]
                              [] OTHER -> r)
             /\ opened' = IF r.type \in {"PACCEPT", "CONNECTED"}
                          THEN opened \cup {id_} ELSE opened
    /\ UNCHANGED <<alloc_id, checkctrl, ev, pc, doomed, sendVars, accepted, wire, due,
                   broken, closes, calls, failed>>

\* pause_socket
PauseSocket ==
    /\ Command("pause")
    /\ slot' = IF socket_invalid(k_, id_) THEN slot
               ELSE [slot EXCEPT ![k_].reading = FALSE]
    /\ UNCHANGED <<alloc_id, checkctrl, ev, pc, doomed, sendVars, history, failed>>

\* trigger_write
TriggerWrite ==
    /\ Command("trigger")
    /\ slot' = IF socket_invalid(k_, id_) THEN slot
               ELSE [slot EXCEPT ![k_].writing = TRUE]
    /\ UNCHANGED <<alloc_id, checkctrl, ev, pc, doomed, sendVars, history, failed>>

\* Mutant: a socket that was closed by its peer raises SOCKET_CLOSE again.
CloseSocket_again ==
    /\ Command("close") \/ Command("shutdown")
    /\ LET r == slot[k_]
           raise == "CLOSE"
       IN  CASE socket_invalid(k_, id_) ->
                    UNCHANGED <<slot, pc, doomed, closes, failed>>
             [] ~socket_invalid(k_, id_)
                /\ (Head(pipe).cmd = "shutdown" \/ nomore_sending_data(r)) ->
                    /\ ForceClose(k_, r, raise, TRUE)
                    /\ UNCHANGED closes
             [] OTHER ->
                    /\ SetSlot(k_, [CloseRead(r) EXCEPT !.closing = TRUE])
                    /\ closes' = [closes EXCEPT ![id_] = @ + 1]
                    /\ UNCHANGED <<pc, doomed, failed>>
    /\ UNCHANGED <<alloc_id, checkctrl, ev, sendVars, accepted, wire, due, broken,
                   opened, calls>>

\* close_socket: close at once, or when everything has been sent.
CloseSocket ==
    /\ Command("close") \/ Command("shutdown")
    /\ LET r == slot[k_]
           raise == IF r.type = "HALFCLOSE_READ" THEN "none" ELSE "CLOSE"
       IN  CASE socket_invalid(k_, id_) ->
                    UNCHANGED <<slot, pc, doomed, closes, failed>>
             [] ~socket_invalid(k_, id_)
                /\ (Head(pipe).cmd = "shutdown" \/ nomore_sending_data(r)) ->
                    /\ ForceClose(k_, r, raise, TRUE)
                    /\ UNCHANGED closes
             [] OTHER ->
                    /\ SetSlot(k_, [CloseRead(r) EXCEPT !.closing = TRUE])
                    /\ closes' = IF raise = "none" THEN closes
                                 ELSE [closes EXCEPT ![id_] = @ + 1]
                    /\ UNCHANGED <<pc, doomed, failed>>
    /\ UNCHANGED <<alloc_id, checkctrl, ev, sendVars, accepted, wire, due, broken,
                   opened, calls>>

\* Mutant: a packet does not enable the write event.
Queued_quiet(r, p) ==
    IF send_buffer_empty(r) \/ p.high
    THEN [r EXCEPT !.high = Append(@, [p |-> p, off |-> 0])]
    ELSE [r EXCEPT !.low = Append(@, [p |-> p, off |-> 0])]

\* send_socket appends a packet to the list of its priority, to the high one
\* when nothing waits, and then enables the write event.
Queued(r, p) ==
    IF send_buffer_empty(r)
    THEN [r EXCEPT !.high = Append(@, [p |-> p, off |-> 0]), !.writing = TRUE]
    ELSE IF p.high THEN [r EXCEPT !.high = Append(@, [p |-> p, off |-> 0])]
                   ELSE [r EXCEPT !.low = Append(@, [p |-> p, off |-> 0])]

\* dec_sending_ref asserts that the count is not zero.
SendSocket ==
    /\ Command("send")
    /\ LET r == slot[k_]
           refused == \/ r.id # id_ \/ r.closing
                      \/ r.type \in {"INVALID", "HALFCLOSE_WRITE", "PACCEPT",
                                    "PLISTEN", "LISTEN"}
           q == IF refused THEN r ELSE Queued(r, Head(pipe).p)
           counted == r.id = id_ /\ r.protocol = "TCP"
       IN  /\ failed' = IF counted /\ r.sending = 0 THEN "sending" ELSE failed
           /\ SetSlot(k_, IF counted /\ r.sending > 0
                          THEN [q EXCEPT !.sending = @ - 1] ELSE q)
    /\ UNCHANGED <<alloc_id, checkctrl, ev, pc, doomed, sendVars, history>>

-----------------------------------------------------------------------------
(* The socket thread: events (socket_server_poll). *)

\* has_cmd finds no command: the events of the last sp_wait come next.
NoCommand ==
    /\ Thread("poll") /\ pipe = <<>>
    /\ checkctrl' = FALSE
    /\ pc' = "event"
    /\ UNCHANGED <<slot, alloc_id, pipe, ev, doomed, sendVars, history, failed>>

\* What epoll can report of a slot: readable, writable, both, or hung up.  An
\* error alone is only passed on to the service, and changes nothing.
Events(k) ==
    LET r == slot[k] IN
    {e \in [s : {k}, k : {"r", "w", "rw", "eof"}] :
        /\ r.type \notin {"INVALID", "RESERVE"}
        /\ e.k \in {"r", "rw"} => r.reading
        /\ e.k \in {"w", "rw"} => r.writing
        /\ r.type = "CONNECTING" => e.k = "w"
        /\ r.type \in {"PLISTEN", "LISTEN"} => e.k = "r"}

\* sp_wait reports the pipe, a socket, or both (the bound here is one socket at a
\* time).  When the pipe comes first, the commands are handled before the event.
SpWait ==
    /\ Thread("event") /\ ev = <<>>
    /\ \/ \E k \in Slot : \E e \in Events(k) : ev' = <<e>>
       \/ pipe # <<>> /\ ev' = <<>>
    /\ checkctrl' = TRUE
    /\ \/ pc' = "event" /\ ev' # <<>>
       \/ pc' = "poll" /\ pipe # <<>>
    /\ UNCHANGED <<slot, alloc_id, pipe, doomed, sendVars, history, failed>>

\* The next event is about a slot of one of these types.  "rest" is what remains
\* of the events when it has been handled.
s_ == Head(ev).s
Event(types) == Thread("event") /\ ev # <<>> /\ slot[s_].type \in types
Handled(rest) ==
    /\ ev' = rest
    /\ pc' = IF checkctrl THEN "poll" ELSE "event"

Open == Type \ {"INVALID", "RESERVE", "CONNECTING", "LISTEN"}

\* The socket of the event has been closed since.
EventInvalid ==
    /\ Event({"INVALID"})
    /\ Handled(Tail(ev))
    /\ UNCHANGED <<slot, alloc_id, pipe, checkctrl, doomed, sendVars, history, failed>>

\* The slot has been reserved again since, and belongs to no file descriptor.  A
\* failed read of a protocol that is not TCP, a hang-up, and the end of a write
\* when closing is left over call force_close, which asserts that the slot is
\* not reserved.
EventReserved ==
    /\ Event({"RESERVE"})
    /\ LET r == slot[s_]
           e == Head(ev).k
           asserts == \/ e = "eof"
                      \/ e \in {"r", "rw"} /\ r.protocol # "TCP"
                      \/ e = "w" /\ r.closing
       IN  /\ failed' = IF asserts THEN "reserve" ELSE failed
           /\ SetSlot(s_, IF e = "w" THEN [r EXCEPT !.writing = FALSE] ELSE r)
    /\ Handled(Tail(ev))
    /\ UNCHANGED <<alloc_id, pipe, checkctrl, doomed, sendVars, history>>

\* report_connect
ReportConnect ==
    /\ Event({"CONNECTING"})
    /\ \/ /\ LET r == [slot[s_] EXCEPT !.type = "CONNECTED"] IN
             /\ SetSlot(s_, IF nomore_sending_data(r) THEN [r EXCEPT !.writing = FALSE]
                            ELSE r)
             /\ opened' = opened \cup {r.id}
          /\ Handled(Tail(ev))
          /\ UNCHANGED <<doomed, broken, failed>>
       \/ /\ ForceClose(s_, slot[s_], "ERR", FALSE)
          /\ ev' = Tail(ev)
          /\ broken' = broken \cup {slot[s_].id}
          /\ UNCHANGED opened
    /\ UNCHANGED <<alloc_id, pipe, checkctrl, sendVars, accepted, wire, due, closes,
                   calls>>

\* report_accept: a new connection, if there is a free slot.
ReportAccept ==
    /\ Event({"LISTEN"})
    /\ \/ \E id \in Id : LET k == HASH_ID(id) IN
             /\ Reservable(id)
             /\ alloc_id' = id
             /\ SetSlot(k, NewFd(slot[k], id, "PACCEPT", FALSE, FALSE))
             /\ failed' = IF send_buffer_empty(slot[k]) THEN failed ELSE "new_fd"
       \/ UNCHANGED <<alloc_id, slot, failed>>
    /\ Handled(Tail(ev))
    /\ UNCHANGED <<pipe, checkctrl, doomed, sendVars, history>>

\* After a read that has raised nothing, or data, the write event comes next.
AfterRead == IF Head(ev).k = "rw" THEN <<[s |-> s_, k |-> "w"]>> \o Tail(ev)
             ELSE Tail(ev)

\* forward_message_tcp reads data, or nothing, or fails: the slot stays as it is
\* (data that comes after SOCKET_CLOSE is discarded).
ReadData ==
    /\ Event(Open) /\ Head(ev).k \in {"r", "rw"}
    /\ Handled(AfterRead) \/ Handled(Tail(ev))
    /\ UNCHANGED <<slot, alloc_id, pipe, checkctrl, doomed, sendVars, history, failed>>

\* forward_message_tcp reads the end of the stream.
ReadEnd ==
    /\ Event(Open) /\ Head(ev).k \in {"r", "rw"}
    /\ LET r == slot[s_] IN
       CASE r.closing /\ nomore_sending_data(r) ->
                /\ ForceClose(s_, r, "none", FALSE)
                /\ ev' = AfterRead
                /\ UNCHANGED closes
         [] ~r.closing /\ r.type = "HALFCLOSE_WRITE" ->
                /\ ForceClose(s_, r, "CLOSE", FALSE)
                /\ ev' = Tail(ev)
                /\ UNCHANGED closes
         [] ~r.closing /\ r.type \notin {"HALFCLOSE_READ", "HALFCLOSE_WRITE"} ->
                /\ SetSlot(s_, CloseRead(r))
                /\ closes' = [closes EXCEPT ![r.id] = @ + 1]
                /\ Handled(Tail(ev))
                /\ UNCHANGED <<doomed, failed>>
         [] OTHER ->
                /\ Handled(AfterRead)
                /\ UNCHANGED <<slot, doomed, closes, failed>>
    /\ UNCHANGED <<alloc_id, pipe, checkctrl, sendVars, accepted, wire, due, broken,
                   opened, calls>>

\* The other side has hung up.
HangUp ==
    /\ Event(Open) /\ Head(ev).k = "eof"
    /\ ForceClose(s_, slot[s_],
                  IF slot[s_].type = "HALFCLOSE_READ" THEN "none" ELSE "CLOSE", FALSE)
    /\ ev' = Tail(ev)
    /\ broken' = broken \cup {slot[s_].id}
    /\ UNCHANGED <<alloc_id, pipe, checkctrl, sendVars, accepted, wire, due, closes,
                   opened, calls>>

\* send_buffer puts what a direct write has left in front of the high list.
TakeDirect(r) ==
    IF r.dw_buffer = NULL THEN r
    ELSE [r EXCEPT !.high = <<r.dw_buffer>> \o @, !.dw_buffer = NULL]

\* send_list_tcp on the high list and then on the low one: n packets are written
\* completely, and one byte of the next when part = 1.  A packet of the low
\* list that has been written in part goes to the high one (raise_uncomplete).
Written(r, n, part) ==
    LET high == SubSeq(r.high, n + 1, Len(r.high))
        low  == IF n <= Len(r.high) THEN r.low
                ELSE SubSeq(r.low, n - Len(r.high) + 1, Len(r.low))
    IN  IF part = 0 THEN [r EXCEPT !.high = high, !.low = low]
        ELSE IF high # <<>>
        THEN [r EXCEPT !.high = [high EXCEPT ![1].off = 1]]
        ELSE [r EXCEPT !.high = <<[Head(low) EXCEPT !.off = 1]>>, !.low = Tail(low)]

\* The bytes this writes, of the packets of q.
Bytes(q, n, part) ==
    FlattenSeq([i \in 1..n |-> [j \in 1..(2 - q[i].off) |-> q[i].p]])
        \o [j \in 1..part |-> q[n + 1].p]

\* close_write, after a write error.
CloseWrite(r) ==
    CASE r.closing \/ r.type = "HALFCLOSE_READ" -> Closed(r)
      [] ~r.closing /\ r.type = "HALFCLOSE_WRITE" -> r
      [] OTHER -> [r EXCEPT !.type = "HALFCLOSE_WRITE", !.writing = FALSE]

\* Mutant: the low list is not waited for.
CheckClose_high(r) ==
    IF r.closing /\ r.high = <<>> THEN Closed(r)
    ELSE IF send_buffer_empty(r) THEN [r EXCEPT !.writing = FALSE] ELSE r

\* Both lists are empty: the end of a socket that is closing.
CheckClose(r) ==
    IF ~send_buffer_empty(r) THEN r
    ELSE IF r.closing THEN Closed(r) ELSE [r EXCEPT !.writing = FALSE]

\* send_buffer: nothing if a worker holds the lock.
SendBuffer ==
    /\ Event(Open) /\ Head(ev).k = "w"
    /\ LET r == TakeDirect(slot[s_])
           q == r.high \o r.low
       IN  \/ /\ slot[s_].dw_lock # NULL
              /\ UNCHANGED <<slot, wire, broken>>
           \/ /\ slot[s_].dw_lock = NULL
              /\ \E n \in 0..Len(q), part \in 0..1, error \in BOOLEAN :
                  /\ r.type = "HALFCLOSE_WRITE" /\ q # <<>> => n = 0 /\ error
                  /\ n = Len(q) => part = 0 /\ ~error
                  /\ part = 1 => ~error /\ q[n + 1].off = 0
                  /\ wire' = [wire EXCEPT ![r.id] = @ \o Bytes(q, n, part)]
                  /\ SetSlot(s_, IF error THEN CloseWrite(Written(r, n, 0))
                                 ELSE CheckClose(Written(r, n, part)))
                  /\ broken' = IF error THEN broken \cup {r.id} ELSE broken
    /\ Handled(Tail(ev))
    /\ UNCHANGED <<alloc_id, pipe, checkctrl, doomed, sendVars, accepted, due, closes,
                   opened, calls, failed>>

-----------------------------------------------------------------------------
SocketThread ==
    \/ ForceCloseEnd
    \/ OpenSocket \/ ListenSocket \/ ResumeSocket \/ PauseSocket
    \/ TriggerWrite \/ CloseSocket \/ SendSocket
    \/ NoCommand \/ SpWait \/ EventInvalid \/ EventReserved
    \/ ReportConnect \/ ReportAccept \/ ReadData \/ ReadEnd \/ HangUp \/ SendBuffer

Service(t) ==
    \/ ReserveType(t) \/ ReserveId(t) \/ OpenRequest(t)
    \/ StartPause(t) \/ Close(t) \/ Shutdown(t)
    \/ Send(t) \/ DirectWrite(t) \/ TriggerRequest(t) \/ IncSending(t) \/ SendRequest(t)

Next == SocketThread \/ \E t \in Sender : Service(t)

Spec == Init /\ [][Next]_vars

\* The thread takes a command of a service that still has the old id of a slot, in the
\* instant in which reserve_id has set the type of the slot and not yet its id.  Then
\* close_socket and send_socket work on the reserved slot.
Crosses ==
    /\ pipe # <<>> /\ pipe' = Tail(pipe)
    /\ Head(pipe).cmd \notin {"open", "listen"}
    /\ slot[k_].id = id_ /\ HalfReserved(k_)

\* The behaviours in which this does not happen.  The code does not prevent it: then a
\* late 'D' of the old id leaves its packet in the lists of the reserved slot, where
\* new_fd's assertion finds it, and a late 'K' raises SOCKET_CLOSE of the old id once
\* more or runs into force_close's assertion.
QuietSpec == Init /\ [][Next /\ ~Crosses]_vars

-----------------------------------------------------------------------------
(* Properties.  Those about an id or a slot as a whole are stated of the   *)
(* behaviours of QuietSpec: nothing crosses the two writes of reserve_id.  *)

Live(id) == /\ slot[HASH_ID(id)].id = id
            /\ slot[HASH_ID(id)].type \notin {"INVALID", "RESERVE"}

\* Every field of struct socket has its type; sending stays below its limit.
TypeOK ==
    /\ \A k \in Slot :
        /\ slot[k].id \in 0..MaxId /\ slot[k].type \in Type
        /\ slot[k].protocol \in {"UNKNOWN", "TCP"}
        /\ slot[k].sending \in 0..MAX_SENDING
        /\ slot[k].high \in Seq(Buffer) /\ slot[k].low \in Seq(Buffer)
        /\ slot[k].dw_buffer \in Buffer \cup {NULL}
        /\ slot[k].dw_lock \in Sender \cup {NULL}
    /\ alloc_id \in 0..MaxId
    /\ pc \in {"poll", "event", "force"}
    /\ \A t \in Sender : at[t] \in {"idle", "locked", "trigger", "inc", "request"}

\* SOCKET_CLOSE is raised exactly once (comment above close_socket): not twice,
\* and a connection that has been opened is not gone without it, whether the
\* service, the other side, or a write error after either ended it.  Excluded: a
\* late close or shutdown of an old id that Crosses the reservation of its slot, for
\* which the code raises SOCKET_CLOSE a second time.
CloseOnce ==
    \A id \in Id :
        /\ closes[id] <= 1
        /\ Live(id) => (closes[id] = 1 <=> slot[HASH_ID(id)].type = "HALFCLOSE_READ")
        /\ id \in opened /\ ~Live(id) => closes[id] = 1

\* A packet's bytes come one after the other, and the packets of a service in the
\* order it sent them, except that a high one may pass low ones: with direct
\* writes, commands on the pipe, two lists and packets written in part.
WriteOrder ==
    \A id \in Id \ broken : LET w == wire[id] IN
        \A j \in DOMAIN w :
            /\ j % 2 = 0 => w[j] = w[j - 1]
            /\ j % 2 = 1 => \A i \in 1..(j - 1) : w[i] # w[j]
            /\ \A p \in accepted[id] :
                p.by = w[j].by /\ p.no < w[j].no /\ (p.high \/ ~w[j].high) =>
                    Cardinality({i \in 1..(j - 1) : w[i] = p}) = 2

\* What a service sent before it closed the connection is all written before the
\* socket is gone (close_socket waits for it), unless the connection broke.
GracefulClose ==
    \A id \in DOMAIN due \ broken : ~Live(id) =>
        \A p \in due[id] : Cardinality({i \in DOMAIN wire[id] : wire[id][i] = p}) = 2

\* Data that waits is written some day: the write event is enabled, or, after a
\* direct write that has left something, the command that enables it is on its
\* way.
PendingIsWatched ==
    \A id \in Id : LET r == slot[HASH_ID(id)] IN
        /\ Live(id) /\ r.type # "HALFCLOSE_WRITE"
        /\ ~send_buffer_empty(r) \/ r.dw_buffer # NULL
        => \/ r.writing
           \/ \E c \in ToSet(pipe) : c.cmd = "trigger" /\ c.id = id
           \/ \E t \in Sender : at[t] = "trigger" /\ job[t].id = id

\* s->sending counts the packets of this id between a worker's decision to use the
\* pipe and the command's end: nothing of the slot's earlier ids, so that
\* dec_sending_ref never finds it zero.
SendingCounted ==
    TypeOK /\ \A id \in Id : Live(id) =>
        slot[HASH_ID(id)].sending =
            Cardinality({t \in Sender : at[t] = "request" /\ job[t].id = id})
            + Cardinality({i \in DOMAIN pipe : pipe[i].cmd = "send" /\ pipe[i].id = id})

\* new_fd finds the slot reserved and its lists empty, however the slot's last socket
\* ended, and dec_sending_ref finds its packet counted.  Excluded: a late packet of
\* the old id that Crosses the reservation of the slot: it is queued there, and
\* new_fd's check_wb_list fails.
AssertionsHold == failed \notin {"new_fd", "sending"}

\* A socket that was closed by its service and is still there waits for data to be
\* written (comment in close_socket: "waiting for sending data out").
ClosingWaits ==
    \A id \in Id : LET r == slot[HASH_ID(id)] IN
        Live(id) /\ r.closing /\ pc # "force" => ~nomore_sending_data(r)
=============================================================================
