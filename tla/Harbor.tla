------------------------------- MODULE Harbor -------------------------------
(***************************************************************************)
(* Nodes of a skynet network: the harbor service of each node              *)
(* (service-src/service_harbor.c), its slave (service/cslave.lua) and the  *)
(* master they share (service/cmaster.lua).                                *)
(*                                                                         *)
(* A node joins at the master, which tells the nodes that are already      *)
(* there to connect to it; the services of the new node start when all of  *)
(* them have.  Global names are registered at the master and broadcast.    *)
(* A message to a name nobody knows yet waits in the harbor, and so does a *)
(* message to a node whose connection is not ready.                        *)
(*                                                                         *)
(* Connections deliver in order and stay up, and nodes stay alive.  A      *)
(* global name stands for one service, so its address is the node that     *)
(* registered it; whether a message carries the rest of the handle is its  *)
(* field dest.                                                             *)
(***************************************************************************)
EXTENDS Integers, Sequences, FiniteSets, Functions, FiniteSetsExt, SequencesExt

CONSTANTS
    Nodes,   \* number of nodes
    Name,    \* global names
    MaxOp,   \* bound on joins, messages, REGISTERs and QUERYNAMEs together
    NULL

ASSUME HarborAssumption ==
    /\ Nodes \in Nat /\ MaxOp \in Nat
    /\ IsFiniteSet(Name) /\ NULL \notin Nat \cup Name

Node == 1..Nodes   \* in the order they join

VARIABLES
    \* The master
    slave_node,     \* the nodes that have joined
    global_name,    \* address of each name, the first that was registered
    toSlave,        \* connection from the master to each slave
    toMaster,       \* connection from each slave to the master
    \* The slave of each node
    phase,          \* "off", "hello" until W is read, "accept" while it waits
                    \* for connections, "fork" when only ready is to run, "up"
    need,           \* number of nodes to wait for
    slaves,         \* nodes it has a connection with
    connect_queue,  \* nodes to connect to once it is ready
    connecting,     \* nodes ready has still to connect to
    globalname,     \* address of each name it knows
    queryname,      \* names with a caller of QUERYNAME that waits
    text,           \* names the harbor has asked for (its Q messages)
    \* The harbor of each node
    inbox,          \* its mailbox: commands and messages to send
    status,         \* for each other node; it has an fd unless "WAIT"
    queue,          \* for each other node the messages that wait for it
    value,          \* address of each name it knows
    name_queue,     \* messages that wait for a name
    wire,           \* wire[n][m]: what n has sent to m and m has not read
    got,            \* for each node the messages its services have received
    ops             \* joins, messages, REGISTERs and QUERYNAMEs so far

master == <<slave_node, global_name>>
slave  == <<phase, need, slaves, connect_queue, connecting, globalname, queryname>>
harbor == <<status, queue, value, name_queue>>
vars   == <<master, toSlave, toMaster, slave, text, inbox, harbor, wire, got,
            ops>>

-----------------------------------------------------------------------------
(* Messages and commands. *)

\* A message says by which name it was sent, NULL for a handle.
Msg == [src: Node, seq: 1..MaxOp, by: Name \cup {NULL}, dest: BOOLEAN]
Id == [id |-> TRUE]   \* the byte of the handshake

ToName(n, m)   == [cmd |-> "name", name |-> n, msg |-> m]
ToHandle(h, m) == [cmd |-> "handle", to |-> h, msg |-> m]
NCommand(n, h) == [cmd |-> "N", name |-> n, to |-> h]
SCommand(n)    == [cmd |-> "S", to |-> n]
ACommand(n)    == [cmd |-> "A", to |-> n]

\* The N commands for the names of g, in an order of pairs().
NCommands(g) ==
    LET known == {x \in Name : g[x] # NULL}
        order == SetToSeq(known)
    IN  [i \in 1..Len(order) |-> NCommand(order[i], g[order[i]])]

Init ==
    /\ slave_node = {} /\ global_name = [x \in Name |-> NULL]
    /\ toSlave = [n \in Node |-> <<>>] /\ toMaster = [n \in Node |-> <<>>]
    /\ phase = [n \in Node |-> "off"] /\ need = [n \in Node |-> 0]
    /\ slaves = [n \in Node |-> {}]
    /\ connect_queue = [n \in Node |-> {}] /\ connecting = [n \in Node |-> {}]
    /\ globalname = [n \in Node |-> [x \in Name |-> NULL]]
    /\ queryname = [n \in Node |-> {}]
    /\ text = [n \in Node |-> <<>>] /\ inbox = [n \in Node |-> <<>>]
    /\ status = [n \in Node |-> [m \in Node |-> "WAIT"]]
    /\ queue = [n \in Node |-> [m \in Node |-> <<>>]]
    /\ value = [n \in Node |-> [x \in Name |-> NULL]]
    /\ name_queue = [n \in Node |-> [x \in Name |-> <<>>]]
    /\ wire = [n \in Node |-> [m \in Node |-> <<>>]]
    /\ got = [n \in Node |-> <<>>]
    /\ ops = 0

Push(f, n, e) == [f EXCEPT ![n] = Append(@, e)]
Pop(f, n)     == [f EXCEPT ![n] = Tail(@)]

-----------------------------------------------------------------------------
(* The master. *)

\* handshake and report_slave: the others are told to connect to the new node,
\* which is told how many they are.
Handshake(n) ==
    /\ n = Cardinality(slave_node) + 1 /\ ops < MaxOp
    /\ ops' = ops + 1
    /\ phase' = [phase EXCEPT ![n] = "hello"]
    /\ toSlave' = [m \in Node |->
          IF m \in slave_node THEN Append(toSlave[m], [cmd |-> "C", to |-> n])
          ELSE IF m = n THEN <<[cmd |-> "W", n |-> Cardinality(slave_node)]>>
          ELSE toSlave[m]]
    /\ slave_node' = slave_node \cup {n}
    /\ UNCHANGED <<global_name, toMaster, need, slaves, connect_queue, connecting,
                   globalname, queryname, text, inbox, harbor, wire, got>>

\* dispatch_slave, R: the first address is kept, every address is broadcast.
MasterRegister(n) ==
    /\ toMaster[n] # <<>> /\ Head(toMaster[n]).cmd = "R"
    /\ LET r == Head(toMaster[n]) IN
       /\ global_name' = [global_name EXCEPT ![r.name] = IF @ = NULL THEN r.to ELSE @]
       /\ toSlave' = [m \in Node |-> IF m \in slave_node
                                     THEN Append(toSlave[m], NCommand(r.name, r.to))
                                     ELSE toSlave[m]]
    /\ toMaster' = Pop(toMaster, n)
    /\ UNCHANGED <<slave_node, slave, text, inbox, harbor, wire, got, ops>>

\* dispatch_slave, Q: no answer for a name that is not registered.
MasterQuery(n) ==
    /\ toMaster[n] # <<>> /\ Head(toMaster[n]).cmd = "Q"
    /\ LET x == Head(toMaster[n]).name IN
       toSlave' = IF global_name[x] = NULL THEN toSlave
                  ELSE Push(toSlave, n, NCommand(x, global_name[x]))
    /\ toMaster' = Pop(toMaster, n)
    /\ UNCHANGED <<master, slave, text, inbox, harbor, wire, got, ops>>

-----------------------------------------------------------------------------
(* The slave. *)

\* The start function reads W.  Connections are accepted unless the node is the
\* first; then ready is forked, after monitor_master.
ReadW(n) ==
    /\ phase[n] = "hello" /\ toSlave[n] # <<>>
    /\ LET w == Head(toSlave[n]) IN
       /\ need' = [need EXCEPT ![n] = w.n]
       /\ phase' = [phase EXCEPT ![n] = IF w.n > 0 THEN "accept" ELSE "fork"]
    /\ toSlave' = Pop(toSlave, n)
    /\ UNCHANGED <<master, toMaster, slaves, connect_queue, connecting, globalname,
                   queryname, text, inbox, harbor, wire, got, ops>>

\* ready, up to its first connect_slave that has to wait; box is the harbor's mailbox.
ready(n, box) ==
    /\ phase' = [phase EXCEPT ![n] = "up"]
    /\ connecting' = [connecting EXCEPT ![n] = connect_queue[n]]
    /\ connect_queue' = [connect_queue EXCEPT ![n] = {}]
    /\ inbox' = [inbox EXCEPT ![n] = IF connect_queue[n] = {}
                                     THEN box \o NCommands(globalname[n]) ELSE box]

Ready(n) ==
    /\ phase[n] = "fork"
    /\ ready(n, inbox[n])
    /\ UNCHANGED <<master, toSlave, toMaster, need, slaves, globalname, queryname,
                   text, harbor, wire, got, ops>>

\* Mutant: the first connection is enough.
Enough_first(n, s) == Cardinality(s) >= 1

\* The accept callback wakes up the start function when enough nodes have connected.
Enough(n, s) == Cardinality(s) >= need[n]

\* accept_slave: m has read the id of n on a connection n has opened, which it
\* gives to its harbor.
AcceptSlave(m, n) ==
    /\ phase[m] = "accept"
    /\ n \notin slaves[m] /\ wire[n][m] # <<>>
    /\ wire' = [wire EXCEPT ![n][m] = Tail(@)]
    /\ slaves' = [slaves EXCEPT ![m] = @ \cup {n}]
    /\ LET box == Append(inbox[m], ACommand(n)) IN
       IF Enough(m, slaves'[m])
       THEN ready(m, box)
       ELSE /\ inbox' = [inbox EXCEPT ![m] = box]
            /\ UNCHANGED <<phase, connecting, connect_queue>>
    /\ UNCHANGED <<master, toSlave, toMaster, need, globalname, queryname, text,
                   harbor, got, ops>>

\* connect_slave, when socket.open returns; m listens until its own start is over.
connect_slave(n, m, more) ==
    IF m \notin slaves[n] /\ phase[m] \in {"hello", "accept"}
    THEN /\ slaves' = [slaves EXCEPT ![n] = @ \cup {m}]
         /\ inbox' = [inbox EXCEPT ![n] = Append(@, SCommand(m)) \o more]
    ELSE /\ inbox' = [inbox EXCEPT ![n] = @ \o more]
         /\ UNCHANGED slaves

\* The loop of ready, in an order of pairs(); the names follow the last connection.
ReadyConnect(n, m) ==
    /\ m \in connecting[n]
    /\ connecting' = [connecting EXCEPT ![n] = @ \ {m}]
    /\ connect_slave(n, m, IF connecting[n] = {m} THEN NCommands(globalname[n]) ELSE <<>>)
    /\ UNCHANGED <<master, toSlave, toMaster, phase, need, connect_queue, globalname,
                   queryname, text, harbor, wire, got, ops>>

Monitoring(n) == phase[n] \in {"accept", "fork", "up"} /\ toSlave[n] # <<>>

\* monitor_master, C: at once, or later by ready.
MasterConnect(n) ==
    /\ Monitoring(n) /\ Head(toSlave[n]).cmd = "C"
    /\ LET m == Head(toSlave[n]).to IN
       IF phase[n] = "up"
       THEN /\ connect_slave(n, m, <<>>)
            /\ UNCHANGED connect_queue
       ELSE /\ connect_queue' = [connect_queue EXCEPT ![n] = @ \cup {m}]
            /\ UNCHANGED <<slaves, inbox>>
    /\ toSlave' = Pop(toSlave, n)
    /\ UNCHANGED <<master, toMaster, phase, need, connecting, globalname, queryname,
                   text, harbor, wire, got, ops>>

\* Mutant: the harbor is not told.
MasterName_quiet(n) ==
    /\ Monitoring(n) /\ Head(toSlave[n]).cmd = "N"
    /\ LET c == Head(toSlave[n]) IN
       /\ globalname' = [globalname EXCEPT ![n][c.name] = c.to]
       /\ queryname' = [queryname EXCEPT ![n] = @ \ {c.name}]
    /\ toSlave' = Pop(toSlave, n)
    /\ UNCHANGED <<master, toMaster, phase, need, slaves, connect_queue, connecting,
                   text, inbox, harbor, wire, got, ops>>

\* monitor_master, N; response_name answers those that wait for the name.
MasterName(n) ==
    /\ Monitoring(n) /\ Head(toSlave[n]).cmd = "N"
    /\ LET c == Head(toSlave[n]) IN
       /\ globalname' = [globalname EXCEPT ![n][c.name] = c.to]
       /\ queryname' = [queryname EXCEPT ![n] = @ \ {c.name}]
       /\ inbox' = IF phase[n] = "up" THEN Push(inbox, n, c) ELSE inbox
    /\ toSlave' = Pop(toSlave, n)
    /\ UNCHANGED <<master, toMaster, phase, need, slaves, connect_queue, connecting,
                   text, harbor, wire, got, ops>>

\* monitor_harbor, Q.
HarborQuery(n) ==
    /\ text[n] # <<>>
    /\ LET x == Head(text[n]) IN
       IF globalname[n][x] # NULL
       THEN /\ inbox' = Push(inbox, n, NCommand(x, globalname[n][x]))
            /\ UNCHANGED toMaster
       ELSE /\ toMaster' = Push(toMaster, n, [cmd |-> "Q", name |-> x])
            /\ UNCHANGED inbox
    /\ text' = Pop(text, n)
    /\ UNCHANGED <<master, toSlave, slave, harbor, wire, got, ops>>

-----------------------------------------------------------------------------
(* The services of a node, which start when the slave's start function has  *)
(* returned (service/bootstrap.lua).                                        *)

Started(n) == phase[n] \in {"fork", "up"}

\* harbor.REGISTER, for a service of n.
Register(n, x) ==
    /\ Started(n) /\ ops < MaxOp /\ globalname[n][x] = NULL
    /\ ops' = ops + 1
    /\ globalname' = [globalname EXCEPT ![n][x] = n]
    /\ queryname' = [queryname EXCEPT ![n] = @ \ {x}]
    /\ toMaster' = Push(toMaster, n, [cmd |-> "R", name |-> x, to |-> n])
    /\ inbox' = Push(inbox, n, NCommand(x, n))
    /\ UNCHANGED <<master, toSlave, phase, need, slaves, connect_queue, connecting,
                   text, harbor, wire, got>>

\* harbor.QUERYNAME of a name that is not known; only the first caller asks the master.
QueryName(n, x) ==
    /\ Started(n) /\ ops < MaxOp /\ globalname[n][x] = NULL
    /\ ops' = ops + 1
    /\ queryname' = [queryname EXCEPT ![n] = @ \cup {x}]
    /\ toMaster' = IF x \in queryname[n] THEN toMaster
                   ELSE Push(toMaster, n, [cmd |-> "Q", name |-> x])
    /\ UNCHANGED <<master, toSlave, phase, need, slaves, connect_queue, connecting,
                   globalname, text, inbox, harbor, wire, got>>

NewMsg(n, by) == [src |-> n, seq |-> ops + 1, by |-> by, dest |-> by = NULL]

\* skynet_harbor_send, to a global name ...
SendName(n, x) ==
    /\ Started(n) /\ ops < MaxOp
    /\ ops' = ops + 1
    /\ inbox' = Push(inbox, n, ToName(x, NewMsg(n, x)))
    /\ UNCHANGED <<master, toSlave, toMaster, slave, text, harbor, wire, got>>

\* ... and to a remote handle, the answer of QUERYNAME.
SendHandle(n, x) ==
    /\ Started(n) /\ ops < MaxOp
    /\ globalname[n][x] \notin {NULL, n}
    /\ ops' = ops + 1
    /\ inbox' = Push(inbox, n, ToHandle(globalname[n][x], NewMsg(n, NULL)))
    /\ UNCHANGED <<master, toSlave, toMaster, slave, text, harbor, wire, got>>

-----------------------------------------------------------------------------
(* The harbor. *)

Send(n, m, s) == wire' = [wire EXCEPT ![n][m] = @ \o s]

\* Mutant: the handle is left out.
WithHandle_missing(s) == s

\* header.destination |= handle & HANDLE_MASK
WithHandle(s) == [i \in DOMAIN s |-> [s[i] EXCEPT !.dest = TRUE]]

\* dispatch_name_queue: to a service of this node, to the queue of a node there is
\* no connection with yet, or out at once.
dispatch_name_queue(n, q, h) ==
    CASE h = n ->
           /\ got' = [got EXCEPT ![n] = @ \o WithHandle(q)]
           /\ UNCHANGED <<queue, wire>>
      [] h # n /\ status[n][h] = "WAIT" ->
           /\ queue' = [queue EXCEPT ![n][h] = @ \o q]
           /\ UNCHANGED <<wire, got>>
      [] OTHER ->
           /\ Send(n, h, WithHandle(q))
           /\ UNCHANGED <<queue, got>>

\* update_name
UpdateName(n) ==
    /\ inbox[n] # <<>> /\ Head(inbox[n]).cmd = "N"
    /\ LET c == Head(inbox[n]) IN
       /\ value' = [value EXCEPT ![n][c.name] = c.to]
       /\ name_queue' = [name_queue EXCEPT ![n][c.name] = <<>>]
       /\ dispatch_name_queue(n, name_queue[n][c.name], c.to)
    /\ inbox' = Pop(inbox, n)
    /\ UNCHANGED <<master, toSlave, toMaster, slave, text, status, ops>>

\* Mutant: the last message is popped first.
dispatch_queue_last(n, m) == Reverse(queue[n][m])

\* dispatch_queue: what is sent, in this order.
dispatch_queue(n, m) == queue[n][m]

\* harbor_command, S and A; handshake sends the id.  The queue goes out at once if
\* the other side has connected to us, else when its id has arrived.
StartConnection(n) ==
    /\ inbox[n] # <<>> /\ Head(inbox[n]).cmd \in {"S", "A"}
    /\ LET c == Head(inbox[n]) m == c.to IN
       IF status[n][m] # "WAIT" THEN UNCHANGED <<status, queue, wire>>
       ELSE IF c.cmd = "S"
       THEN /\ status' = [status EXCEPT ![n][m] = "HANDSHAKE"]
            /\ Send(n, m, <<Id>>)
            /\ UNCHANGED queue
       ELSE /\ status' = [status EXCEPT ![n][m] = "HEADER"]
            /\ Send(n, m, <<Id>> \o dispatch_queue(n, m))
            /\ queue' = [queue EXCEPT ![n][m] = <<>>]
    /\ inbox' = Pop(inbox, n)
    /\ UNCHANGED <<master, toSlave, toMaster, slave, text, value, name_queue, got, ops>>

\* remote_send_handle
remote_send_handle(n, m, h) ==
    CASE h = n ->
           /\ got' = [got EXCEPT ![n] = Append(@, [m EXCEPT !.dest = TRUE])]
           /\ UNCHANGED <<queue, wire>>
      [] h # n /\ status[n][h] \in {"WAIT", "HANDSHAKE"} ->
           /\ queue' = [queue EXCEPT ![n][h] = Append(@, [m EXCEPT !.dest = TRUE])]
           /\ UNCHANGED <<wire, got>>
      [] OTHER ->
           /\ Send(n, h, <<[m EXCEPT !.dest = TRUE]>>)
           /\ UNCHANGED <<queue, got>>

RemoteSendHandle(n) ==
    /\ inbox[n] # <<>> /\ Head(inbox[n]).cmd = "handle"
    /\ remote_send_handle(n, Head(inbox[n]).msg, Head(inbox[n]).to)
    /\ inbox' = Pop(inbox, n)
    /\ UNCHANGED <<master, toSlave, toMaster, slave, text, status, value, name_queue,
                   ops>>

\* remote_send_name: the slave is asked for a name that is not known.
RemoteSendName(n) ==
    /\ inbox[n] # <<>> /\ Head(inbox[n]).cmd = "name"
    /\ LET c == Head(inbox[n]) IN
       IF value[n][c.name] = NULL
       THEN /\ name_queue' = [name_queue EXCEPT ![n][c.name] = Append(@, c.msg)]
            /\ text' = Push(text, n, c.name)
            /\ UNCHANGED <<queue, wire, got>>
       ELSE /\ remote_send_handle(n, c.msg, value[n][c.name])
            /\ UNCHANGED <<name_queue, text>>
    /\ inbox' = Pop(inbox, n)
    /\ UNCHANGED <<master, toSlave, toMaster, slave, status, value, ops>>

\* push_socket_data at n, from m: the id ends the handshake and releases the queue,
\* a message goes to its service (forward_local_messsage).
PushSocketData(n, m) ==
    /\ status[n][m] # "WAIT" /\ wire[m][n] # <<>>
    /\ LET e == Head(wire[m][n]) rest == [wire EXCEPT ![m][n] = Tail(@)] IN
       IF status[n][m] = "HANDSHAKE"
       THEN /\ status' = [status EXCEPT ![n][m] = "HEADER"]
            /\ wire' = [rest EXCEPT ![n][m] = @ \o dispatch_queue(n, m)]
            /\ queue' = [queue EXCEPT ![n][m] = <<>>]
            /\ UNCHANGED got
       ELSE /\ got' = Push(got, n, e)
            /\ wire' = rest
            /\ UNCHANGED <<status, queue>>
    /\ UNCHANGED <<master, toSlave, toMaster, slave, text, inbox, value, name_queue,
                   ops>>

\* What arrives between socket.abandon in the slave and the harbor's
\* skynet_socket_start belongs to nobody and is dropped.
DropPackage(n, m) ==
    /\ m \in slaves[n] /\ status[n][m] = "WAIT" /\ wire[m][n] # <<>>
    /\ wire' = [wire EXCEPT ![m][n] = Tail(@)]
    /\ UNCHANGED <<master, toSlave, toMaster, slave, text, inbox, harbor, got, ops>>

Next ==
    \E n \in Node :
        \/ Handshake(n) \/ MasterRegister(n) \/ MasterQuery(n)
        \/ ReadW(n) \/ Ready(n) \/ MasterConnect(n) \/ MasterName(n) \/ HarborQuery(n)
        \/ UpdateName(n) \/ StartConnection(n) \/ RemoteSendHandle(n) \/ RemoteSendName(n)
        \/ \E m \in Node \ {n} :
              \/ AcceptSlave(n, m) \/ ReadyConnect(n, m)
              \/ PushSocketData(n, m) \/ DropPackage(n, m)
        \/ \E x \in Name :
              Register(n, x) \/ QueryName(n, x) \/ SendName(n, x) \/ SendHandle(n, x)

Spec == Init /\ [][Next]_vars

-----------------------------------------------------------------------------
Wires(n, m) == {e \in Range(wire[n][m]) : e # Id}
Commands(n, m) == {i \in DOMAIN inbox[n] : /\ inbox[n][i].cmd \in {"S", "A"}
                                           /\ inbox[n][i].to = m}

\* Every table has its type.
TypeOK ==
    /\ slave_node \subseteq Node /\ global_name \in [Name -> Node \cup {NULL}]
    /\ phase \in [Node -> {"off", "hello", "accept", "fork", "up"}]
    /\ \A n \in Node :
        /\ slaves[n] \cup connect_queue[n] \cup connecting[n] \subseteq Node \ {n}
        /\ globalname[n] \in [Name -> Node \cup {NULL}]
        /\ value[n] \in [Name -> Node \cup {NULL}]
        /\ status[n] \in [Node -> {"WAIT", "HANDSHAKE", "HEADER"}]
        /\ \A m \in Node : queue[n][m] \in Seq(Msg)
        /\ \A x \in Name : name_queue[n][x] \in Seq(Msg)

\* Two nodes whose services run have a connection, which the slave of each has
\* given to its harbor once: what the count of W and the order of C and W promise
\* (report_slave of cmaster.lua, the accept callback and ready of cslave.lua).
FullMesh ==
    TypeOK /\ \A n, m \in Node :
        n # m /\ Started(n) /\ Started(m) =>
            /\ m \in slaves[n]
            /\ Cardinality(Commands(n, m)) = IF status[n][m] = "WAIT" THEN 1 ELSE 0

\* A message that leaves the harbor, or waits for a connection, carries the handle
\* of its destination, whichever way it was addressed.  dispatch_name_queue does
\* not put it there when it moves the messages of a name to the queue of a node,
\* so this rests on a name being known only after its node is connected.
DestinationKnown ==
    \A n, m \in Node :
        /\ \A e \in Wires(n, m) \cup Range(queue[n][m]) : e \in Msg /\ e.dest
        /\ queue[n][m] # <<>> => status[n][m] \in {"WAIT", "HANDSHAKE"}

\* The messages of a node to one name, or to one handle, arrive in the order they
\* were sent and once, wherever they waited on their way: for the name, for the
\* handshake, or not at all.
InOrder ==
    \A n \in Node : \A i, j \in DOMAIN got[n] :
        /\ i < j
        /\ got[n][i].src = got[n][j].src /\ got[n][i].by = got[n][j].by
        => got[n][i].seq < got[n][j].seq

NOnTheWay(n, x) ==
    \/ \E i \in DOMAIN inbox[n] : inbox[n][i].cmd = "N" /\ inbox[n][i].name = x
    \/ \E i \in DOMAIN toSlave[n] : toSlave[n][i].cmd = "N" /\ toSlave[n][i].name = x
Asked(n, x) ==
    \/ x \in Range(text[n])
    \/ [cmd |-> "Q", name |-> x] \in Range(toMaster[n])

\* Nobody waits in vain for a name that is registered: if messages wait for it in
\* the harbor, or callers of QUERYNAME in the slave, its address or the question
\* for it is on its way, though the master answers no question that comes before
\* the registration.
AnswerComing ==
    \A n \in Node, x \in Name :
        /\ global_name[x] # NULL
        /\ name_queue[n][x] # <<>> \/ x \in queryname[n]
        => /\ NOnTheWay(n, x) \/ Asked(n, x)
           /\ name_queue[n][x] # <<>> => value[n][x] = NULL
           /\ x \in queryname[n] => globalname[n][x] = NULL
=============================================================================
