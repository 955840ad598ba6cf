---------------------------- MODULE HarborProofs ----------------------------
(***************************************************************************)
(* Proofs about the harbors: the five invariants of Harbor, for any number *)
(* of nodes, names and messages.                                           *)
(*                                                                         *)
(* They rest on one inductive invariant, Net.  Types says what every table *)
(* and queue may hold: a message is in the queues of its node and its name *)
(* only.  Joined says how far a node is when it joins: what its slave has  *)
(* been told, and that its services and harbor do nothing before it has    *)
(* started.  Links says of any two nodes that their connection is in one   *)
(* of seven states, each a state of both ends and of what one of them has  *)
(* still to be told.                                                       *)
(*                                                                         *)
(* On top of it, each inductive together with what comes before it: a name *)
(* is known only after its node has started (Known), so the command for a  *)
(* connection is before the address in the mailbox (CommandFirst); what    *)
(* leaves the harbor has its handle (Handed); messages wait only for names *)
(* whose address is still to come (Answered); and from the service of one  *)
(* node back to the mailbox of another the messages of one sender are in   *)
(* order (Lanes).                                                          *)
(***************************************************************************)
EXTENDS Harbor, TLAPS, FiniteSetTheorems, SequenceTheorems

-----------------------------------------------------------------------------
(* Queues.                                                                  *)

\* A queue holds a member of S; it holds exactly one.
Has(q, S)  == \E i \in DOMAIN q : q[i] \in S
Lone(q, S) == \E i \in DOMAIN q : q[i] \in S /\ \A j \in DOMAIN q : q[j] \in S => j = i

LEMMA TailFacts ==
    ASSUME NEW V, NEW q \in Seq(V), q # <<>>
    PROVE  /\ Tail(q) \in Seq(V) /\ Len(q) \in Nat \ {0}
           /\ DOMAIN q = 1..Len(q) /\ DOMAIN Tail(q) = 1..(Len(q) - 1)
           /\ \A i \in 1..(Len(q) - 1) : Tail(q)[i] = q[i + 1]
           /\ Head(q) = q[1] /\ Head(q) \in V
<1>1. Len(q) \in Nat \ {0} /\ DOMAIN q = 1..Len(q)
  BY EmptySeq
<1>2. Tail(q) \in Seq(V) /\ Len(Tail(q)) = Len(q) - 1 /\ Head(q) \in V
      /\ \A i \in 1..Len(Tail(q)) : Tail(q)[i] = q[i + 1]
  BY HeadTailProperties
<1>3. DOMAIN Tail(q) = 1..Len(Tail(q))
  BY <1>2, LenProperties
<1>4. Head(q) = q[1]
  OBVIOUS
<1>. QED BY <1>1, <1>2, <1>3, <1>4

LEMMA ConcatFacts ==
    ASSUME NEW V, NEW p \in Seq(V), NEW q \in Seq(V)
    PROVE  /\ p \o q \in Seq(V) /\ Len(p) \in Nat /\ Len(q) \in Nat
           /\ DOMAIN p = 1..Len(p) /\ DOMAIN q = 1..Len(q)
           /\ DOMAIN (p \o q) = 1..(Len(p) + Len(q))
           /\ \A i \in 1..Len(p) : (p \o q)[i] = p[i]
           /\ \A i \in 1..Len(q) : (p \o q)[Len(p) + i] = q[i]
           /\ \A i \in 1..(Len(p) + Len(q)) :
                 i \in 1..Len(p) \/ (i - Len(p) \in 1..Len(q) /\ i = Len(p) + (i - Len(p)))
<1>1. /\ Len(p) \in Nat /\ Len(q) \in Nat /\ DOMAIN p = 1..Len(p) /\ DOMAIN q = 1..Len(q)
  BY LenProperties
<1>2. /\ p \o q \in Seq(V) /\ Len(p \o q) = Len(p) + Len(q)
      /\ \A i \in 1..(Len(p) + Len(q)) :
           (p \o q)[i] = IF i <= Len(p) THEN p[i] ELSE q[i - Len(p)]
  BY ConcatProperties
<1>3. DOMAIN (p \o q) = 1..(Len(p) + Len(q))
  BY <1>2, LenProperties
<1>4. ASSUME NEW i \in 1..Len(q) PROVE (p \o q)[Len(p) + i] = q[i]
  <2>1. Len(p) + i \in 1..(Len(p) + Len(q)) /\ ~(Len(p) + i <= Len(p))
        /\ (Len(p) + i) - Len(p) = i
    BY <1>1
  <2>. QED BY <1>2, <2>1
<1>5. ASSUME NEW i \in 1..Len(p) PROVE (p \o q)[i] = p[i]
  <2>1. i \in 1..(Len(p) + Len(q)) /\ i <= Len(p)
    BY <1>1
  <2>. QED BY <1>2, <2>1
<1>6. ASSUME NEW i \in 1..(Len(p) + Len(q))
      PROVE  i \in 1..Len(p) \/ (i - Len(p) \in 1..Len(q) /\ i = Len(p) + (i - Len(p)))
  BY <1>1
<1>. QED BY <1>1, <1>2, <1>3, <1>4, <1>5, <1>6

LEMMA AppendOne ==
    ASSUME NEW V, NEW q \in Seq(V), NEW e \in V
    PROVE  /\ Append(q, e) = q \o <<e>> /\ <<e>> \in Seq(V)
           /\ DOMAIN <<e>> = {1} /\ <<e>>[1] = e
<1>1. Append(q, e) \in Seq(V) /\ <<e>> \in Seq(V) /\ q \o <<e>> \in Seq(V)
  OBVIOUS
<1>. QED BY <1>1

LEMMA HasTail ==
    ASSUME NEW V, NEW q \in Seq(V), q # <<>>, NEW S
    PROVE  Has(q, S) <=> Head(q) \in S \/ Has(Tail(q), S)
<1>1. /\ Len(q) \in Nat \ {0} /\ DOMAIN q = 1..Len(q) /\ DOMAIN Tail(q) = 1..(Len(q) - 1)
      /\ \A i \in 1..(Len(q) - 1) : Tail(q)[i] = q[i + 1] /\ i + 1 \in 1..Len(q)
      /\ Head(q) = q[1] /\ 1 \in 1..Len(q)
  BY TailFacts
<1>2. \A i \in 1..Len(q) : i = 1 \/ (i - 1 \in 1..(Len(q) - 1) /\ (i - 1) + 1 = i)
  BY <1>1
<1>. QED BY <1>1, <1>2, Zenon DEF Has

LEMMA HasConcat ==
    ASSUME NEW V, NEW p \in Seq(V), NEW q \in Seq(V), NEW S
    PROVE  Has(p \o q, S) <=> Has(p, S) \/ Has(q, S)
<1>1. /\ Len(p) \in Nat /\ Len(q) \in Nat
      /\ DOMAIN p = 1..Len(p) /\ DOMAIN q = 1..Len(q)
      /\ DOMAIN (p \o q) = 1..(Len(p) + Len(q))
      /\ \A i \in 1..Len(p) : (p \o q)[i] = p[i]
      /\ \A i \in 1..Len(q) : (p \o q)[Len(p) + i] = q[i]
      /\ \A i \in 1..(Len(p) + Len(q)) :
            i \in 1..Len(p) \/ (i - Len(p) \in 1..Len(q) /\ i = Len(p) + (i - Len(p)))
  BY ConcatFacts
<1>2. /\ \A i \in 1..Len(p) : i \in 1..(Len(p) + Len(q))
      /\ \A i \in 1..Len(q) : Len(p) + i \in 1..(Len(p) + Len(q))
  BY <1>1
<1>3. ASSUME Has(p \o q, S) PROVE Has(p, S) \/ Has(q, S)
  <2>1. PICK i \in 1..(Len(p) + Len(q)) : (p \o q)[i] \in S
    BY <1>1, <1>3 DEF Has
  <2>2. CASE i \in 1..Len(p)
    BY <1>1, <2>1, <2>2 DEF Has
  <2>3. CASE i - Len(p) \in 1..Len(q) /\ i = Len(p) + (i - Len(p))
    <3>1. PICK k \in 1..Len(q) : i = Len(p) + k
      BY <2>3, Zenon
    <3>2. q[k] \in S
      BY <1>1, <2>1, <3>1
    <3>. QED BY <1>1, <3>2 DEF Has
  <2>. QED BY <1>1, <2>1, <2>2, <2>3
<1>4. ASSUME Has(p, S) PROVE Has(p \o q, S)
  BY <1>1, <1>2, <1>4 DEF Has
<1>5. ASSUME Has(q, S) PROVE Has(p \o q, S)
  BY <1>1, <1>2, <1>5 DEF Has
<1>. QED BY <1>3, <1>4, <1>5

LEMMA HasOne == ASSUME NEW e, NEW S PROVE Has(<<e>>, S) <=> e \in S
<1>1. DOMAIN <<e>> = {1} /\ <<e>>[1] = e
  OBVIOUS
<1>. QED BY <1>1 DEF Has

LEMMA HasAppend ==
    ASSUME NEW V, NEW q \in Seq(V), NEW e \in V, NEW S
    PROVE  Has(Append(q, e), S) <=> Has(q, S) \/ e \in S
<1>1. Append(q, e) = q \o <<e>> /\ <<e>> \in Seq(V)
  BY AppendOne
<1>2. Has(q \o <<e>>, S) <=> Has(q, S) \/ Has(<<e>>, S)
  BY <1>1, HasConcat, Zenon
<1>. QED BY <1>1, <1>2, HasOne

LEMMA LoneHas == ASSUME NEW q, NEW S, Lone(q, S) PROVE Has(q, S)
  BY DEF Lone, Has

LEMMA LoneTail ==
    ASSUME NEW V, NEW q \in Seq(V), q # <<>>, NEW S, Lone(q, S)
    PROVE  IF Head(q) \in S THEN ~Has(Tail(q), S) ELSE Lone(Tail(q), S)
<1>1. /\ Len(q) \in Nat \ {0} /\ DOMAIN q = 1..Len(q) /\ DOMAIN Tail(q) = 1..(Len(q) - 1)
      /\ \A i \in 1..(Len(q) - 1) : Tail(q)[i] = q[i + 1] /\ i + 1 \in 1..Len(q)
      /\ Head(q) = q[1] /\ 1 \in 1..Len(q)
  BY TailFacts
<1>2. PICK i \in 1..Len(q) : q[i] \in S /\ \A j \in 1..Len(q) : q[j] \in S => j = i
  BY <1>1 DEF Lone
<1>3. CASE Head(q) \in S
  <2>1. i = 1
    BY <1>1, <1>2, <1>3
  <2>2. ASSUME NEW j \in 1..(Len(q) - 1) PROVE Tail(q)[j] \notin S
    BY <1>1, <1>2, <2>1
  <2>. QED BY <1>1, <1>3, <2>2 DEF Has
<1>4. CASE Head(q) \notin S
  <2>1. i - 1 \in 1..(Len(q) - 1) /\ (i - 1) + 1 = i
    BY <1>1, <1>2, <1>4
  <2>2. Tail(q)[i - 1] \in S
    BY <1>1, <1>2, <2>1
  <2>3. ASSUME NEW j \in 1..(Len(q) - 1), Tail(q)[j] \in S PROVE j = i - 1
    <3>1. j + 1 = i
      BY <1>1, <1>2, <2>3
    <3>. QED BY <3>1, <2>1
  <2>. QED BY <1>1, <1>4, <2>1, <2>2, <2>3, Zenon DEF Lone
<1>. QED BY <1>3, <1>4

LEMMA LoneConcat ==
    ASSUME NEW V, NEW p \in Seq(V), NEW q \in Seq(V), NEW S
    PROVE  /\ Lone(p, S) /\ ~Has(q, S) => Lone(p \o q, S)
           /\ ~Has(p, S) /\ Lone(q, S) => Lone(p \o q, S)
<1>1. /\ Len(p) \in Nat /\ Len(q) \in Nat
      /\ DOMAIN p = 1..Len(p) /\ DOMAIN q = 1..Len(q)
      /\ DOMAIN (p \o q) = 1..(Len(p) + Len(q))
      /\ \A i \in 1..Len(p) : (p \o q)[i] = p[i]
      /\ \A i \in 1..Len(q) : (p \o q)[Len(p) + i] = q[i]
      /\ \A i \in 1..(Len(p) + Len(q)) :
            i \in 1..Len(p) \/ (i - Len(p) \in 1..Len(q) /\ i = Len(p) + (i - Len(p)))
  BY ConcatFacts
<1>2. /\ \A i \in 1..Len(p) : i \in 1..(Len(p) + Len(q))
      /\ \A i \in 1..Len(q) : Len(p) + i \in 1..(Len(p) + Len(q))
  BY <1>1
<1>3. ASSUME Lone(p, S), ~Has(q, S) PROVE Lone(p \o q, S)
  <2>1. PICK i \in 1..Len(p) : p[i] \in S /\ \A j \in 1..Len(p) : p[j] \in S => j = i
    BY <1>1, <1>3 DEF Lone
  <2>2. \A j \in 1..(Len(p) + Len(q)) : (p \o q)[j] \in S => j = i
    BY <1>1, <1>2, <1>3, <2>1 DEF Has
  <2>. QED BY <1>1, <1>2, <2>1, <2>2 DEF Lone
<1>4. ASSUME ~Has(p, S), Lone(q, S) PROVE Lone(p \o q, S)
  <2>1. PICK i \in 1..Len(q) : q[i] \in S /\ \A j \in 1..Len(q) : q[j] \in S => j = i
    BY <1>1, <1>4, Zenon DEF Lone
  <2>2. \A j \in 1..(Len(p) + Len(q)) : (p \o q)[j] \in S => j = Len(p) + i
    BY <1>1, <1>2, <1>4, <2>1, Zenon DEF Has
  <2>3. (p \o q)[Len(p) + i] \in S
    BY <1>1, <2>1
  <2>. QED BY <1>1, <1>2, <2>1, <2>2, <2>3, Zenon DEF Lone
<1>. QED BY <1>3, <1>4

LEMMA LoneOne == ASSUME NEW e, NEW S, e \in S PROVE Lone(<<e>>, S)
<1>1. DOMAIN <<e>> = {1} /\ <<e>>[1] = e
  OBVIOUS
<1>. QED BY <1>1 DEF Lone

LEMMA LoneAppend ==
    ASSUME NEW V, NEW q \in Seq(V), NEW e \in V, NEW S
    PROVE  /\ Lone(q, S) /\ e \notin S => Lone(Append(q, e), S)
           /\ ~Has(q, S) /\ e \in S => Lone(Append(q, e), S)
<1>1. Append(q, e) = q \o <<e>> /\ <<e>> \in Seq(V)
  BY AppendOne
<1>2. /\ Lone(q, S) /\ ~Has(<<e>>, S) => Lone(q \o <<e>>, S)
      /\ ~Has(q, S) /\ Lone(<<e>>, S) => Lone(q \o <<e>>, S)
  BY <1>1, LoneConcat, Zenon
<1>. QED BY <1>1, <1>2, HasOne, LoneOne

LEMMA HasEmpty == ASSUME NEW S PROVE ~Has(<<>>, S)
  BY DEF Has

-----------------------------------------------------------------------------
(* What the queues hold.                                                    *)

Call(m)            == [cmd |-> "C", to |-> m]
Welcome(k)         == [cmd |-> "W", n |-> k]
Question(x)        == [cmd |-> "Q", name |-> x]
Registration(x, h) == [cmd |-> "R", name |-> x, to |-> h]

\* The command by which the slave of n gives its connection with m to its harbor:
\* the node that has joined first has opened it.
Command(n, m) == IF n < m THEN SCommand(m) ELSE ACommand(m)

\* The addresses of x, and of all names.
AddressOf(x) == {NCommand(x, h) : h \in Node}
Addresses    == UNION {AddressOf(x) : x \in Name}

\* The messages of n, and those it sends to one name (or to handles).
From(n)        == {e \in Msg : e.src = n}
NamedBy(n, by) == {e \in From(n) : e.by = by}

Orders   == [n \in Node |-> {Welcome(k) : k \in 0..Nodes} \cup Addresses
                            \cup {Call(m) : m \in (n + 1)..Nodes}]
Requests == [n \in Node |-> {Question(x) : x \in Name} \cup {Registration(x, n) : x \in Name}]
Names    == [n \in Node |-> Name]
Connects(n)    == {Command(n, m) : m \in Node \ {n}}
NameSends(n)   == UNION {{ToName(x, e) : e \in NamedBy(n, x)} : x \in Name}
HandleSends(n) == UNION {{ToHandle(h, e) : e \in NamedBy(n, NULL)} : h \in Node}
Box      == [n \in Node |-> Addresses \cup Connects(n) \cup NameSends(n) \cup HandleSends(n)]
Packages == Msg \cup {Id}
Services == [n \in Node |-> Packages]

\* For each node a queue of what S allows it.
Queues(f, S) == DOMAIN f = Node /\ \A n \in Node : f[n] \in Seq(S[n])

LEMMA NodeFacts ==
    /\ Nodes \in Nat /\ NULL \notin Node /\ NULL \notin Name
    /\ \A n \in Node : n \in Nat /\ n >= 1 /\ n <= Nodes
  BY HarborAssumption DEF Node

LEMMA QueuesPush ==
    ASSUME NEW f, NEW S, Queues(f, S), NEW n \in Node, NEW e \in S[n]
    PROVE  /\ Queues(Push(f, n, e), S)
           /\ Push(f, n, e)[n] = Append(f[n], e)
           /\ \A m \in Node \ {n} : Push(f, n, e)[m] = f[m]
<1>1. Append(f[n], e) \in Seq(S[n])
  BY DEF Queues
<1>. QED BY <1>1, Zenon DEF Queues, Push

LEMMA QueuesPop ==
    ASSUME NEW f, NEW S, Queues(f, S), NEW n \in Node, f[n] # <<>>
    PROVE  /\ Queues(Pop(f, n), S)
           /\ Pop(f, n)[n] = Tail(f[n])
           /\ \A m \in Node \ {n} : Pop(f, n)[m] = f[m]
           /\ Head(f[n]) \in S[n]
<1>1. Tail(f[n]) \in Seq(S[n]) /\ Head(f[n]) \in S[n]
  BY TailFacts DEF Queues
<1>. QED BY <1>1, Zenon DEF Queues, Pop

Put(f, n, q)     == [f EXCEPT ![n] = q]
Put2(f, n, m, q) == [f EXCEPT ![n][m] = q]

LEMMA QueuesGrow ==
    ASSUME NEW f, NEW S, Queues(f, S), NEW n \in Node, NEW q \in Seq(S[n])
    PROVE  /\ Queues(Put(f, n, q), S)
           /\ Put(f, n, q)[n] = q
           /\ \A m \in Node \ {n} : Put(f, n, q)[m] = f[m]
  BY DEF Queues, Put

\* What an element is, told by its cmd.
LEMMA OrderKinds ==
    ASSUME NEW n \in Node, NEW e \in Orders[n]
    PROVE  /\ e.cmd = "C" => \E m \in (n + 1)..Nodes : e = Call(m) /\ e.to = m
           /\ e.cmd = "N" => \E x \in Name, h \in Node :
                                e = NCommand(x, h) /\ e.name = x /\ e.to = h
           /\ e.cmd \in {"C", "N", "W"}
<1>1. CASE e \in {Welcome(k) : k \in 0..Nodes}
  <2>1. e.cmd = "W"
    BY <1>1 DEF Welcome
  <2>. QED BY <2>1
<1>2. CASE e \in {Call(m) : m \in (n + 1)..Nodes}
  <2>1. PICK m \in (n + 1)..Nodes : e = Call(m)
    BY <1>2
  <2>2. e.cmd = "C" /\ e.to = m
    BY <2>1 DEF Call
  <2>. QED BY <2>1, <2>2
<1>3. CASE e \in Addresses
  <2>1. PICK x \in Name, h \in Node : e = NCommand(x, h)
    BY <1>3 DEF Addresses, AddressOf
  <2>2. e.cmd = "N" /\ e.name = x /\ e.to = h
    BY <2>1 DEF NCommand
  <2>. QED BY <2>1, <2>2
<1>. QED BY <1>1, <1>2, <1>3 DEF Orders

LEMMA RequestKinds ==
    ASSUME NEW n \in Node, NEW e \in Requests[n]
    PROVE  /\ e.cmd = "Q" => \E x \in Name : e = Question(x) /\ e.name = x
           /\ e.cmd = "R" => \E x \in Name : e = Registration(x, n) /\ e.name = x /\ e.to = n
           /\ e.cmd \in {"Q", "R"}
<1>1. CASE e \in {Question(x) : x \in Name}
  <2>1. PICK x \in Name : e = Question(x)
    BY <1>1
  <2>2. e.cmd = "Q" /\ e.name = x
    BY <2>1 DEF Question
  <2>. QED BY <2>1, <2>2
<1>2. CASE e \in {Registration(x, n) : x \in Name}
  <2>1. PICK x \in Name : e = Registration(x, n)
    BY <1>2
  <2>2. e.cmd = "R" /\ e.name = x /\ e.to = n
    BY <2>1 DEF Registration
  <2>. QED BY <2>1, <2>2
<1>. QED BY <1>1, <1>2 DEF Requests

LEMMA BoxKinds ==
    ASSUME NEW n \in Node, NEW e \in Box[n]
    PROVE  /\ e.cmd = "N" => \E x \in Name, h \in Node :
                                e = NCommand(x, h) /\ e.name = x /\ e.to = h
           /\ e.cmd \in {"S", "A"} => \E m \in Node \ {n} :
                e = Command(n, m) /\ e.to = m /\ (e.cmd = "S" <=> n < m)
           /\ e.cmd = "name" => e.name \in Name /\ e.msg \in NamedBy(n, e.name)
           /\ e.cmd = "handle" => e.to \in Node /\ e.msg \in NamedBy(n, NULL)
           /\ e.cmd \in {"N", "S", "A", "name", "handle"}
<1>1. CASE e \in Addresses
  <2>1. PICK x \in Name, h \in Node : e = NCommand(x, h)
    BY <1>1 DEF Addresses, AddressOf
  <2>2. e.cmd = "N" /\ e.name = x /\ e.to = h
    BY <2>1 DEF NCommand
  <2>. QED BY <2>1, <2>2
<1>2. CASE e \in Connects(n)
  <2>1. PICK m \in Node \ {n} : e = Command(n, m)
    BY <1>2 DEF Connects
  <2>2. CASE n < m
    <3>1. e.cmd = "S" /\ e.to = m
      BY <2>1, <2>2 DEF Command, SCommand
    <3>. QED BY <2>1, <2>2, <3>1
  <2>3. CASE ~(n < m)
    <3>1. e.cmd = "A" /\ e.to = m
      BY <2>1, <2>3 DEF Command, ACommand
    <3>. QED BY <2>1, <2>3, <3>1
  <2>. QED BY <2>2, <2>3
<1>3. CASE e \in NameSends(n)
  <2>1. PICK x \in Name : e \in {ToName(x, f) : f \in NamedBy(n, x)}
    BY <1>3 DEF NameSends
  <2>2. PICK f \in NamedBy(n, x) : e = ToName(x, f)
    BY <2>1
  <2>3. e.cmd = "name" /\ e.name = x /\ e.msg = f
    BY <2>2 DEF ToName
  <2>. QED BY <2>2, <2>3
<1>4. CASE e \in HandleSends(n)
  <2>1. PICK h \in Node : e \in {ToHandle(h, f) : f \in NamedBy(n, NULL)}
    BY <1>4 DEF HandleSends
  <2>2. PICK f \in NamedBy(n, NULL) : e = ToHandle(h, f)
    BY <2>1
  <2>3. e.cmd = "handle" /\ e.to = h /\ e.msg = f
    BY <2>2 DEF ToHandle
  <2>. QED BY <2>2, <2>3
<1>. QED BY <1>1, <1>2, <1>3, <1>4 DEF Box

\* No command is an address, and so on.
LEMMA CommandFacts ==
    ASSUME NEW n \in Node
    PROVE  /\ \A m, k \in Node \ {n} : Command(n, m) = Command(n, k) => m = k
           /\ \A m \in Node \ {n} : Command(n, m).cmd \in {"S", "A"} /\ Command(n, m).to = m
           /\ \A m \in Node \ {n} : Command(n, m) \in Box[n]
<1>1. ASSUME NEW m \in Node \ {n} PROVE Command(n, m).cmd \in {"S", "A"} /\ Command(n, m).to = m
  BY DEF Command, SCommand, ACommand
<1>2. \A m \in Node \ {n} : Command(n, m) \in Box[n]
  BY DEF Box, Connects
<1>3. \A m, k \in Node \ {n} : Command(n, m) = Command(n, k) => m = k
  BY <1>1
<1>. QED BY <1>1, <1>2, <1>3

LEMMA AddressFacts ==
    ASSUME NEW x \in Name, NEW h \in Node
    PROVE  /\ NCommand(x, h).cmd = "N" /\ NCommand(x, h).name = x /\ NCommand(x, h).to = h
           /\ NCommand(x, h) \in AddressOf(x) /\ NCommand(x, h) \in Addresses
           /\ \A n \in Node : NCommand(x, h) \in Orders[n] /\ NCommand(x, h) \in Box[n]
<1>1. NCommand(x, h) \in AddressOf(x) /\ NCommand(x, h) \in Addresses
  BY DEF AddressOf, Addresses
<1>2. NCommand(x, h).cmd = "N" /\ NCommand(x, h).name = x /\ NCommand(x, h).to = h
  BY DEF NCommand
<1>. QED BY <1>1, <1>2 DEF Orders, Box

\* The N commands for a table of names.
LEMMA NCommandsFacts ==
    ASSUME NEW g \in [Name -> Node \cup {NULL}]
    PROVE  /\ \A n \in Node : NCommands(g) \in Seq(Box[n])
           /\ \A i \in DOMAIN NCommands(g) : \E x \in Name :
                 g[x] # NULL /\ NCommands(g)[i] = NCommand(x, g[x])
<1>. DEFINE known == {x \in Name : g[x] # NULL}
            order == SetToSeq(known)
            k == Cardinality(known)
<1>1. IsFiniteSet(known) /\ k \in Nat /\ ExistsBijection(1..k, known)
  <2>1. IsFiniteSet(known)
    BY HarborAssumption, FS_Subset
  <2>. HIDE DEF known
  <2>. QED BY <2>1, FS_CardinalityType
<1>2. order \in [1..k -> known]
  <2>. HIDE DEF known
  <2>1. Bijection(1..k, known) # {}
    BY <1>1 DEF ExistsBijection
  <2>2. PICK f : f \in [1..k -> known] /\ IsInjective(f)
    BY <2>1, Zenon DEF Bijection, Injection, IsInjective
  <2>. QED BY <2>2 DEF SetToSeq
<1>3. order \in Seq(known) /\ Len(order) = k
  <2>. HIDE DEF known, order, k
  <2>. QED BY <1>1, <1>2
<1>4. NCommands(g) = [i \in 1..k |-> NCommand(order[i], g[order[i]])]
  <2>1. NCommands(g) = [i \in 1..Len(order) |-> NCommand(order[i], g[order[i]])]
    BY DEF NCommands
  <2>. HIDE DEF known, order, k
  <2>. QED BY <1>3, <2>1
<1>5. ASSUME NEW i \in 1..k
      PROVE  order[i] \in Name /\ g[order[i]] # NULL /\ g[order[i]] \in Node
  <2>1. order[i] \in known
    <3>. HIDE DEF known, order
    <3>. QED BY <1>2
  <2>. QED BY <2>1
<1>. HIDE DEF known, order, k
<1>6. DOMAIN NCommands(g) = 1..k
      /\ \A i \in 1..k : NCommands(g)[i] = NCommand(order[i], g[order[i]])
  BY <1>4
<1>7. ASSUME NEW n \in Node PROVE NCommands(g) \in Seq(Box[n])
  <2>1. \A i \in 1..k : NCommand(order[i], g[order[i]]) \in Box[n]
    BY <1>5, AddressFacts
  <2>2. NCommands(g) \in [1..k -> Box[n]]
    BY <1>4, <2>1
  <2>. QED BY <1>1, <2>2, SeqDef
<1>. QED BY <1>5, <1>6, <1>7

-----------------------------------------------------------------------------
(* The invariant.                                                           *)

Address == Node \cup {NULL}

\* The messages that wait for a connection or are on one, and those that wait for a name.
QueueOK(q) == /\ q \in [Node -> [Node -> Seq(Msg)]]
              /\ \A n, m \in Node : q[n][m] \in Seq(From(n))
              /\ \A n \in Node : q[n][n] = <<>>
WireOK(w)  == /\ w \in [Node -> [Node -> Seq(Packages)]]
              /\ \A n, m \in Node : w[n][m] \in Seq(From(n) \cup {Id})
              /\ \A n \in Node : w[n][n] = <<>>
NameQueueOK(q) == /\ q \in [Node -> [Name -> Seq(Msg)]]
                  /\ \A n \in Node, x \in Name : q[n][x] \in Seq(NamedBy(n, x))

MasterTypes ==
    /\ slave_node \subseteq Node /\ global_name \in [Name -> Address]
    /\ Queues(toSlave, Orders) /\ Queues(toMaster, Requests)
SlaveTypes ==
    /\ phase \in [Node -> {"off", "hello", "accept", "fork", "up"}]
    /\ need \in [Node -> Int]
    /\ slaves \in [Node -> SUBSET Node]
    /\ connect_queue \in [Node -> SUBSET Node] /\ connecting \in [Node -> SUBSET Node]
    /\ \A n \in Node : /\ slaves[n] \subseteq Node \ {n}
                       /\ connect_queue[n] \subseteq (n + 1)..Nodes
                       /\ connecting[n] \subseteq (n + 1)..Nodes
    /\ globalname \in [Node -> [Name -> Address]] /\ queryname \in [Node -> SUBSET Name]
HarborTypes ==
    /\ Queues(text, Names) /\ Queues(inbox, Box) /\ Queues(got, Services)
    /\ status \in [Node -> [Node -> {"WAIT", "HANDSHAKE", "HEADER"}]]
    /\ value \in [Node -> [Name -> Address]]
    /\ QueueOK(queue) /\ NameQueueOK(name_queue) /\ WireOK(wire)
    /\ ops \in 0..MaxOp
Types == MasterTypes /\ SlaveTypes /\ HarborTypes

Welcomes == {Welcome(k) : k \in 0..Nodes}

\* Nodes join in the order of their numbers, W is the first thing a node is told, it
\* waits for the nodes before it, and its services and its harbor do nothing before
\* it is started.
Silent(n) ==
    /\ inbox[n] \in Seq(Connects(n))
    /\ text[n] = <<>> /\ queryname[n] = {} /\ toMaster[n] = <<>>
    /\ \A x \in Name : value[n][x] = NULL /\ name_queue[n][x] = <<>>

Joining(n) ==
    /\ phase[n] = "off" <=> n \notin slave_node
    /\ phase[n] = "off" => toSlave[n] = <<>>
    /\ phase[n] = "hello" => /\ toSlave[n] # <<>> /\ Head(toSlave[n]) = Welcome(n - 1)
                             /\ Lone(toSlave[n], Welcomes)
    /\ phase[n] # "hello" => ~Has(toSlave[n], Welcomes)
    /\ phase[n] = "accept" => need[n] = n - 1 /\ n > 1 /\ slaves[n] \subseteq 1..(n - 1)
    /\ phase[n] = "fork" => n = 1
    /\ phase[n] \in {"off", "hello", "fork"} => slaves[n] = {}
    /\ connecting[n] # {} => phase[n] = "up"
    /\ connect_queue[n] # {} => phase[n] \in {"accept", "fork"}
    /\ Started(n) => 1..(n - 1) \subseteq slaves[n]
    /\ ~Started(n) => Silent(n)

Joined ==
    /\ slave_node = 1..Cardinality(slave_node)
    /\ \A n \in Node : Joining(n)

\* a is to connect to b: it finds b in exactly one place.
Untold(a, b) == /\ ~Has(toSlave[a], {Call(b)})
                /\ b \notin connect_queue[a] /\ b \notin connecting[a]
Told(a, b) ==
    \/ Lone(toSlave[a], {Call(b)}) /\ b \notin connect_queue[a] /\ b \notin connecting[a]
    \/ ~Has(toSlave[a], {Call(b)}) /\ b \in connect_queue[a] /\ b \notin connecting[a]
    \/ ~Has(toSlave[a], {Call(b)}) /\ b \notin connect_queue[a] /\ b \in connecting[a]

FirstId(q) == q # <<>> /\ Head(q) = Id /\ ~Has(Tail(q), {Id})
NoId(q)    == ~Has(q, {Id})

\* n's end of its connection with m.
End(n, m, s) ==
    /\ m \in slaves[n] <=> s # "closed"
    /\ IF s = "opened" THEN Lone(inbox[n], {Command(n, m)}) ELSE ~Has(inbox[n], {Command(n, m)})
    /\ s \in {"closed", "opened"}   => status[n][m] = "WAIT" /\ wire[n][m] = <<>>
    /\ s = "asking"   => status[n][m] = "HANDSHAKE" /\ FirstId(wire[n][m])
    /\ s = "waiting"  => status[n][m] = "HANDSHAKE" /\ NoId(wire[n][m])
    /\ s = "greeting" => status[n][m] = "HEADER" /\ FirstId(wire[n][m])
    /\ s = "ready"    => status[n][m] = "HEADER" /\ NoId(wire[n][m])

\* The life of the connection that a opens and b accepts.
Ends(a, b, p, q) == End(a, b, p) /\ End(b, a, q)
Link(a, b) ==
    \/ b \notin slave_node /\ Untold(a, b) /\ Ends(a, b, "closed", "closed")
    \/ b \in slave_node /\ Told(a, b) /\ Ends(a, b, "closed", "closed")
    \/ /\ b \in slave_node /\ Untold(a, b)
       /\ \/ Ends(a, b, "opened", "closed")
          \/ Ends(a, b, "asking", "closed")
          \/ Ends(a, b, "waiting", "opened")
          \/ Ends(a, b, "waiting", "greeting")
          \/ Ends(a, b, "ready", "ready")
Links == \A a, b \in Node : a < b => Link(a, b)

Net == Types /\ Joined /\ Links

-----------------------------------------------------------------------------
(* Operators of the harbor.                                                 *)

LEMMA SeqSubset ==
    ASSUME NEW S, NEW T, S \subseteq T, NEW q \in Seq(S) PROVE q \in Seq(T)
<1>1. q \in [1..Len(q) -> S] /\ Len(q) \in Nat
  BY LenProperties
<1>2. q \in [1..Len(q) -> T]
  BY <1>1
<1>. QED BY <1>1, <1>2, SeqDef

LEMMA IdIsNoMsg == Id \notin Msg
<1>. SUFFICES ASSUME Id \in Msg PROVE FALSE
  OBVIOUS
<1>1. DOMAIN Id = {"src", "seq", "by", "dest"}
  BY DEF Msg
<1>2. DOMAIN Id = {"id"}
  BY DEF Id
<1>. QED BY <1>1, <1>2

LEMMA Update2 ==
    ASSUME NEW A, NEW B, NEW V, NEW f \in [A -> [B -> V]], NEW i \in A, NEW j \in B, NEW v \in V
    PROVE  /\ Put2(f, i, j, v) \in [A -> [B -> V]]
           /\ Put2(f, i, j, v)[i][j] = v
           /\ \A k \in A, l \in B : k # i \/ l # j => Put2(f, i, j, v)[k][l] = f[k][l]
           /\ \A k \in A \ {i} : Put2(f, i, j, v)[k] = f[k]
  BY DEF Put2

LEMMA WireUpdate ==
    ASSUME NEW w, WireOK(w), NEW n \in Node, NEW m \in Node \ {n},
           NEW s \in Seq(From(n) \cup {Id})
    PROVE  /\ WireOK(Put2(w, n, m, s))
           /\ Put2(w, n, m, s)[n][m] = s
           /\ \A k, l \in Node : k # n \/ l # m => Put2(w, n, m, s)[k][l] = w[k][l]
<1>1. s \in Seq(Packages)
  BY SeqSubset, From(n) \cup {Id} \subseteq Packages DEF From, Packages
<1>2. w \in [Node -> [Node -> Seq(Packages)]]
  BY DEF WireOK
<1>. DEFINE v == Put2(w, n, m, s)
<1>3. /\ v \in [Node -> [Node -> Seq(Packages)]] /\ v[n][m] = s
      /\ \A k, l \in Node : k # n \/ l # m => v[k][l] = w[k][l]
  BY <1>1, <1>2 DEF Put2
<1>. HIDE DEF v
<1>4. WireOK(v)
  BY <1>3, Zenon DEF WireOK
<1>. QED BY <1>3, <1>4 DEF v

LEMMA QueueUpdate ==
    ASSUME NEW w, QueueOK(w), NEW n \in Node, NEW m \in Node \ {n}, NEW s \in Seq(From(n))
    PROVE  /\ QueueOK(Put2(w, n, m, s))
           /\ Put2(w, n, m, s)[n][m] = s
           /\ \A k, l \in Node : k # n \/ l # m => Put2(w, n, m, s)[k][l] = w[k][l]
<1>1. s \in Seq(Msg)
  BY SeqSubset, From(n) \subseteq Msg DEF From
<1>2. w \in [Node -> [Node -> Seq(Msg)]]
  BY DEF QueueOK
<1>. DEFINE v == Put2(w, n, m, s)
<1>3. /\ v \in [Node -> [Node -> Seq(Msg)]] /\ v[n][m] = s
      /\ \A k, l \in Node : k # n \/ l # m => v[k][l] = w[k][l]
  BY <1>1, <1>2 DEF Put2
<1>. HIDE DEF v
<1>4. QueueOK(v)
  BY <1>3, Zenon DEF QueueOK
<1>. QED BY <1>3, <1>4 DEF v

LEMMA NameQueueUpdate ==
    ASSUME NEW w, NameQueueOK(w), NEW n \in Node, NEW x \in Name, NEW s \in Seq(NamedBy(n, x))
    PROVE  /\ NameQueueOK(Put2(w, n, x, s))
           /\ Put2(w, n, x, s)[n][x] = s
           /\ \A k \in Node, y \in Name :
                 k # n \/ y # x => Put2(w, n, x, s)[k][y] = w[k][y]
<1>1. s \in Seq(Msg)
  BY SeqSubset, NamedBy(n, x) \subseteq Msg DEF NamedBy, From
<1>2. w \in [Node -> [Name -> Seq(Msg)]]
  BY DEF NameQueueOK
<1>. DEFINE v == Put2(w, n, x, s)
<1>3. /\ v \in [Node -> [Name -> Seq(Msg)]] /\ v[n][x] = s
      /\ \A k \in Node, y \in Name : k # n \/ y # x => v[k][y] = w[k][y]
  BY <1>1, <1>2 DEF Put2
<1>. HIDE DEF v
<1>4. NameQueueOK(v)
  BY <1>3, Zenon DEF NameQueueOK
<1>. QED BY <1>3, <1>4 DEF v

\* The handle changes nothing else in a message.
Handled(e) == [e EXCEPT !.dest = TRUE]
LEMMA HandledFacts ==
    ASSUME NEW n, NEW by, NEW e \in NamedBy(n, by)
    PROVE  /\ Handled(e) \in NamedBy(n, by) /\ Handled(e) \in From(n) /\ e \in From(n)
           /\ Handled(e).seq = e.seq /\ Handled(e).by = e.by /\ Handled(e).src = e.src
           /\ Handled(e).dest
  BY Zenon DEF Handled, NamedBy, From, Msg

LEMMA WithHandleFacts ==
    ASSUME NEW n, NEW by, NEW q \in Seq(NamedBy(n, by))
    PROVE  /\ WithHandle(q) \in Seq(NamedBy(n, by)) /\ WithHandle(q) \in Seq(From(n))
           /\ q \in Seq(From(n))
           /\ DOMAIN WithHandle(q) = DOMAIN q
           /\ \A i \in DOMAIN q : q[i] \in NamedBy(n, by) /\ WithHandle(q)[i] = Handled(q[i])
<1>1. DOMAIN q = 1..Len(q) /\ Len(q) \in Nat /\ \A i \in DOMAIN q : q[i] \in NamedBy(n, by)
  BY LenProperties, ElementOfSeq
<1>2. WithHandle(q) = [i \in 1..Len(q) |-> Handled(q[i])]
  BY <1>1 DEF WithHandle, Handled
<1>3. WithHandle(q) \in [1..Len(q) -> NamedBy(n, by)]
  BY <1>1, <1>2, HandledFacts
<1>4. WithHandle(q) \in Seq(NamedBy(n, by))
  BY <1>1, <1>3, SeqDef
<1>5. NamedBy(n, by) \subseteq From(n)
  BY DEF NamedBy
<1>. QED BY <1>1, <1>2, <1>4, <1>5, SeqSubset

\* Where the harbor puts the messages of q that are for node h: they are received,
\* wait for the connection or are sent.
Moves(n, h, q) ==
    \/ h = n /\ got' = [got EXCEPT ![n] = @ \o q] /\ UNCHANGED <<queue, wire>>
    \/ /\ h # n /\ status[n][h] # "HEADER"
       /\ queue' = [queue EXCEPT ![n][h] = @ \o q] /\ UNCHANGED <<wire, got>>
    \/ /\ h # n /\ status[n][h] # "WAIT"
       /\ wire' = [wire EXCEPT ![n][h] = @ \o q] /\ UNCHANGED <<queue, got>>

LEMMA DispatchMoves ==
    ASSUME HarborTypes, NEW n \in Node, NEW h \in Node, NEW q, dispatch_name_queue(n, q, h)
    PROVE  \/ Moves(n, h, q) /\ h # n /\ status[n][h] = "WAIT"
           \/ Moves(n, h, WithHandle(q)) /\ (h = n \/ status[n][h] # "WAIT")
<1>1. CASE h = n
  BY <1>1 DEF dispatch_name_queue, Moves
<1>2. CASE h # n /\ status[n][h] = "WAIT"
  BY <1>2 DEF dispatch_name_queue, Moves
<1>3. CASE h # n /\ status[n][h] # "WAIT"
  BY <1>3 DEF dispatch_name_queue, Moves, Send
<1>. QED BY <1>1, <1>2, <1>3

LEMMA RemoteSendMoves ==
    ASSUME HarborTypes, NEW n \in Node, NEW h \in Node, NEW by, NEW e \in NamedBy(n, by),
           remote_send_handle(n, e, h)
    PROVE  Moves(n, h, <<Handled(e)>>) /\ (status[n][h] = "HANDSHAKE" => wire' = wire)
<1>0. /\ queue \in [Node -> [Node -> Seq(Msg)]] /\ Queues(got, Services)
      /\ status[n][h] \in {"WAIT", "HANDSHAKE", "HEADER"}
      /\ Handled(e) \in From(n) /\ From(n) \subseteq Msg /\ Msg \subseteq Packages
  BY HandledFacts DEF HarborTypes, QueueOK, From, Packages
<1>1. CASE h = n
  <2>1. Append(got[n], Handled(e)) = got[n] \o <<Handled(e)>>
    <3>1. got[n] \in Seq(Packages) /\ Handled(e) \in Packages
      BY <1>0 DEF Queues, Services
    <3>. QED BY <3>1, AppendOne
  <2>2. got' = [got EXCEPT ![n] = Append(got[n], Handled(e))] /\ UNCHANGED <<queue, wire>>
    BY <1>1 DEF remote_send_handle, Handled
  <2>. QED BY <1>1, <2>1, <2>2 DEF Moves
<1>2. CASE h # n /\ status[n][h] # "HEADER"
  <2>1. Append(queue[n][h], Handled(e)) = queue[n][h] \o <<Handled(e)>>
    <3>1. queue[n][h] \in Seq(Msg) /\ Handled(e) \in Msg
      BY <1>0
    <3>. QED BY <3>1, AppendOne
  <2>2. queue' = [queue EXCEPT ![n][h] = Append(queue[n][h], Handled(e))] /\ UNCHANGED <<wire, got>>
    BY <1>0, <1>2 DEF remote_send_handle, Handled
  <2>. QED BY <1>2, <2>1, <2>2 DEF Moves
<1>3. CASE h # n /\ status[n][h] = "HEADER"
  BY <1>3, Zenon DEF remote_send_handle, Moves, Send, Handled
<1>. QED BY <1>0, <1>1, <1>2, <1>3

LEMMA MovesFacts ==
    ASSUME HarborTypes, NEW n \in Node, NEW h \in Node, NEW q \in Seq(From(n)), Moves(n, h, q)
    PROVE  /\ Queues(got', Services) /\ QueueOK(queue') /\ WireOK(wire')
           /\ \A k \in Node : got'[k] = got[k] \/ (k = n /\ got'[k] = got[k] \o q)
           /\ \A k, l \in Node : queue'[k][l] = queue[k][l]
                 \/ (k = n /\ l = h /\ h # n /\ status[n][h] # "HEADER"
                     /\ queue'[k][l] = queue[k][l] \o q)
           /\ \A k, l \in Node : wire'[k][l] = wire[k][l]
                 \/ (k = n /\ l = h /\ h # n /\ status[n][h] # "WAIT"
                     /\ wire'[k][l] = wire[k][l] \o q)
<1>1. From(n) \subseteq From(n) \cup {Id} /\ From(n) \subseteq Packages
  BY DEF From, Packages
<1>2. q \in Seq(From(n) \cup {Id}) /\ q \in Seq(Packages)
  BY <1>1, SeqSubset
<1>3. CASE h = n /\ got' = [got EXCEPT ![n] = @ \o q] /\ UNCHANGED <<queue, wire>>
  <2>1. got[n] \o q \in Seq(Services[n])
    BY <1>2 DEF HarborTypes, Queues, Services
  <2>. DEFINE r == got[n] \o q
  <2>3. Queues(got, Services)
    BY DEF HarborTypes
  <2>. HIDE DEF r
  <2>4. Queues(Put(got, n, r), Services) /\ Put(got, n, r)[n] = r /\ \A k \in Node \ {n} : Put(got, n, r)[k] = got[k]
    <3>1. r \in Seq(Services[n])
      BY <2>1 DEF r
    <3>. QED BY <3>1, <2>3, QueuesGrow
  <2>5. got' = Put(got, n, r)
    BY <1>3 DEF r, Put
  <2>2. /\ Queues(got', Services) /\ got'[n] = got[n] \o q
        /\ \A k \in Node \ {n} : got'[k] = got[k]
    BY <2>4, <2>5 DEF r
  <2>. QED BY <1>3, <2>2, Zenon DEF HarborTypes
<1>4. CASE /\ h # n /\ status[n][h] # "HEADER"
           /\ queue' = [queue EXCEPT ![n][h] = @ \o q] /\ UNCHANGED <<wire, got>>
  <2>1. queue[n][h] \o q \in Seq(From(n))
    BY DEF HarborTypes, QueueOK
  <2>. DEFINE r == queue[n][h] \o q
  <2>3. QueueOK(queue) /\ h \in Node \ {n}
    BY <1>4 DEF HarborTypes
  <2>. HIDE DEF r
  <2>4. QueueOK(Put2(queue, n, h, r)) /\ Put2(queue, n, h, r)[n][h] = r /\ \A k, l \in Node : k # n \/ l # h => Put2(queue, n, h, r)[k][l] = queue[k][l]
    <3>1. r \in Seq(From(n))
      BY <2>1 DEF r
    <3>. QED BY <3>1, <2>3, QueueUpdate
  <2>5. queue' = Put2(queue, n, h, r)
    BY <1>4 DEF r, Put2
  <2>2. /\ QueueOK(queue') /\ queue'[n][h] = queue[n][h] \o q
        /\ \A k, l \in Node : k # n \/ l # h => queue'[k][l] = queue[k][l]
    BY <2>4, <2>5 DEF r
  <2>. QED BY <1>4, <2>2, Zenon DEF HarborTypes
<1>5. CASE /\ h # n /\ status[n][h] # "WAIT"
           /\ wire' = [wire EXCEPT ![n][h] = @ \o q] /\ UNCHANGED <<queue, got>>
  <2>0. wire[n][h] \in Seq(From(n) \cup {Id})
    BY Zenon DEF HarborTypes, WireOK
  <2>1. wire[n][h] \o q \in Seq(From(n) \cup {Id})
    BY <1>2, <2>0, ConcatProperties
  <2>. DEFINE r == wire[n][h] \o q
  <2>3. WireOK(wire) /\ h \in Node \ {n}
    BY <1>5 DEF HarborTypes
  <2>. HIDE DEF r
  <2>4. WireOK(Put2(wire, n, h, r)) /\ Put2(wire, n, h, r)[n][h] = r /\ \A k, l \in Node : k # n \/ l # h => Put2(wire, n, h, r)[k][l] = wire[k][l]
    <3>1. r \in Seq(From(n) \cup {Id})
      BY <2>1 DEF r
    <3>. QED BY <3>1, <2>3, WireUpdate
  <2>5. wire' = Put2(wire, n, h, r)
    BY <1>5 DEF r, Put2
  <2>2. /\ WireOK(wire') /\ wire'[n][h] = wire[n][h] \o q
        /\ \A k, l \in Node : k # n \/ l # h => wire'[k][l] = wire[k][l]
    BY <2>4, <2>5 DEF r
  <2>. QED BY <1>5, <2>2, Zenon DEF HarborTypes
<1>. QED BY <1>3, <1>4, <1>5 DEF Moves

-----------------------------------------------------------------------------
(* Every action keeps the types.                                            *)

USE DEF master, slave, harbor

LEMMA SeqFacts ==
    ASSUME NEW V, NEW e \in V
    PROVE  <<e>> \in Seq(V) /\ <<>> \in Seq(V) /\ \A q \in Seq(V) : Append(q, e) \in Seq(V)
  OBVIOUS

LEMMA SlaveNodes ==
    ASSUME Types, Joined
    PROVE  /\ Cardinality(slave_node) \in Nat /\ IsFiniteSet(slave_node)
           /\ \A m \in slave_node : m <= Cardinality(slave_node)
<1>1. IsFiniteSet(slave_node)
  <2>1. IsFiniteSet(Node) /\ slave_node \subseteq Node
    BY NodeFacts, FS_Interval DEF Types, MasterTypes, Node
  <2>. QED BY <2>1, FS_Subset
<1>2. Cardinality(slave_node) \in Nat
  BY <1>1, FS_CardinalityType
<1>3. slave_node = 1..Cardinality(slave_node)
  BY DEF Joined
<1>. HIDE DEF Joined
<1>4. ASSUME NEW m \in slave_node PROVE m <= Cardinality(slave_node)
  <2>. DEFINE c == Cardinality(slave_node)
  <2>1. m \in 1..c /\ c \in Nat
    BY <1>2, <1>3
  <2>. QED BY <2>1
<1>. QED BY <1>1, <1>2, <1>4

LEMMA HandshakeTypes ==
    ASSUME Types, Joined, NEW n \in Node, Handshake(n)
    PROVE  Types'
<1>. DEFINE c == Cardinality(slave_node)
<1>1. c \in Nat /\ n = c + 1 /\ \A m \in slave_node : m <= c
  BY SlaveNodes DEF Handshake
<1>. HIDE DEF c
<1>2. c \in 0..Nodes /\ \A m \in slave_node : m \in Node /\ n \in (m + 1)..Nodes
  BY <1>1, NodeFacts DEF Types, MasterTypes, Node
<1>3. Queues(toSlave', Orders)
  <2>1. DOMAIN toSlave' = Node
    BY DEF Handshake
  <2>2. ASSUME NEW m \in Node PROVE toSlave'[m] \in Seq(Orders[m])
    <3>0. toSlave[m] \in Seq(Orders[m])
      BY DEF Types, MasterTypes, Queues
    <3>1. CASE m \in slave_node
      <4>1. toSlave'[m] = Append(toSlave[m], Call(n))
        BY <3>1 DEF Handshake, Call
      <4>2. Call(n) \in Orders[m]
        BY <1>2, <3>1 DEF Orders
      <4>. QED BY <3>0, <4>1, <4>2, SeqFacts, Zenon
    <3>2. CASE m \notin slave_node /\ m = n
      <4>1. toSlave'[m] = <<Welcome(c)>>
        BY <3>2 DEF Handshake, Welcome, c
      <4>2. Welcome(c) \in Orders[m]
        BY <1>2 DEF Orders
      <4>. QED BY <4>1, <4>2, SeqFacts, Zenon
    <3>3. CASE m \notin slave_node /\ m # n
      <4>1. toSlave'[m] = toSlave[m]
        BY <3>3 DEF Handshake
      <4>. QED BY <3>0, <4>1
    <3>. QED BY <3>1, <3>2, <3>3
  <2>. QED BY <2>1, <2>2 DEF Queues
<1>4. MasterTypes'
  BY <1>3, Zenon DEF Types, MasterTypes, Handshake
<1>5. SlaveTypes'
  BY DEF Types, SlaveTypes, Handshake
<1>6. HarborTypes'
  <2>1. ops' \in 0..MaxOp
    BY HarborAssumption DEF Types, HarborTypes, Handshake
  <2>. QED BY <2>1 DEF Types, HarborTypes, Handshake
<1>. QED BY <1>4, <1>5, <1>6 DEF Types

LEMMA MasterRegisterTypes ==
    ASSUME Types, NEW n \in Node, MasterRegister(n)
    PROVE  Types'
<1>1. /\ Queues(toMaster', Requests) /\ Head(toMaster[n]) \in Requests[n]
  BY QueuesPop DEF Types, MasterTypes, MasterRegister
<1>2. PICK x \in Name : /\ Head(toMaster[n]).name = x /\ Head(toMaster[n]).to = n
  BY <1>1, RequestKinds DEF MasterRegister
<1>3. global_name' \in [Name -> Address]
  BY <1>2 DEF Types, MasterTypes, MasterRegister, Address
<1>4. Queues(toSlave', Orders)
  <2>1. ASSUME NEW m \in Node PROVE toSlave'[m] \in Seq(Orders[m])
    <3>1. toSlave[m] \in Seq(Orders[m]) /\ NCommand(x, n) \in Orders[m]
      BY AddressFacts DEF Types, MasterTypes, Queues
    <3>2. toSlave'[m] = toSlave[m] \/ toSlave'[m] = Append(toSlave[m], NCommand(x, n))
      BY <1>2 DEF MasterRegister
    <3>. QED BY <3>1, <3>2
  <2>. QED BY <2>1 DEF Queues, MasterRegister
<1>5. MasterTypes'
  BY <1>1, <1>3, <1>4 DEF Types, MasterTypes, MasterRegister
<1>6. SlaveTypes' /\ HarborTypes'
  BY DEF Types, SlaveTypes, HarborTypes, MasterRegister
<1>. QED BY <1>5, <1>6 DEF Types

LEMMA MasterQueryTypes ==
    ASSUME Types, NEW n \in Node, MasterQuery(n)
    PROVE  Types'
<1>1. /\ Queues(toMaster', Requests) /\ Head(toMaster[n]) \in Requests[n]
  BY QueuesPop DEF Types, MasterTypes, MasterQuery
<1>2. PICK x \in Name : Head(toMaster[n]).name = x
  BY <1>1, RequestKinds DEF MasterQuery
<1>3. Queues(toSlave', Orders)
  <2>1. CASE global_name[x] = NULL
    BY <1>2, <2>1 DEF Types, MasterTypes, MasterQuery
  <2>2. CASE global_name[x] # NULL
    <3>1. global_name[x] \in Node
      BY <2>2 DEF Types, MasterTypes, Address
    <3>2. NCommand(x, global_name[x]) \in Orders[n] /\ Queues(toSlave, Orders)
      BY <3>1, AddressFacts DEF Types, MasterTypes
    <3>3. toSlave' = Push(toSlave, n, NCommand(x, global_name[x]))
      BY <1>2, <2>2 DEF MasterQuery
    <3>. QED BY <3>2, <3>3, QueuesPush
  <2>. QED BY <2>1, <2>2
<1>4. MasterTypes'
  BY <1>1, <1>3 DEF Types, MasterTypes, MasterQuery
<1>5. SlaveTypes' /\ HarborTypes'
  BY DEF Types, SlaveTypes, HarborTypes, MasterQuery
<1>. QED BY <1>4, <1>5 DEF Types

LEMMA NoConnect ==
    ASSUME NEW n \in Node
    PROVE  /\ \A x \in Name, h \in Node : NCommand(x, h) \notin Connects(n)
           /\ \A x \in Name : \A e : ToName(x, e) \notin Connects(n)
           /\ \A h \in Node : \A e : ToHandle(h, e) \notin Connects(n)
           /\ \A g \in [Name -> Address] : ~Has(NCommands(g), Connects(n))
<1>1. \A c \in Connects(n) : c.cmd \in {"S", "A"}
  BY CommandFacts DEF Connects
<1>2. \A x \in Name, h \in Node : NCommand(x, h).cmd = "N"
  BY AddressFacts
<1>3. \A x \in Name : \A e : ToName(x, e).cmd = "name"
  BY DEF ToName
<1>4. \A h \in Node : \A e : ToHandle(h, e).cmd = "handle"
  BY DEF ToHandle
<1>5. ASSUME NEW g \in [Name -> Address] PROVE ~Has(NCommands(g), Connects(n))
  <2>1. ASSUME NEW i \in DOMAIN NCommands(g) PROVE NCommands(g)[i] \notin Connects(n)
    <3>1. PICK x \in Name : g[x] # NULL /\ NCommands(g)[i] = NCommand(x, g[x])
      BY NCommandsFacts DEF Address
    <3>2. g[x] \in Node
      BY <3>1 DEF Address
    <3>. QED BY <1>1, <1>2, <3>1, <3>2
  <2>. QED BY <2>1 DEF Has
<1>. QED BY <1>1, <1>2, <1>3, <1>4, <1>5

LEMMA MoreNames ==
    ASSUME Types, NEW n \in Node
    PROVE  /\ NCommands(globalname[n]) \in Seq(Box[n])
           /\ ~Has(NCommands(globalname[n]), Connects(n))
           /\ inbox[n] \in Seq(Box[n])
           /\ <<>> \in Seq(Box[n]) /\ ~Has(<<>>, Connects(n))
<1>1. globalname[n] \in [Name -> Address]
  BY DEF Types, SlaveTypes
<1>2. NCommands(globalname[n]) \in Seq(Box[n])
  BY <1>1, NCommandsFacts DEF Address
<1>. QED BY <1>1, <1>2, NoConnect, HasEmpty, SeqFacts DEF Types, HarborTypes, Queues

\* The mailbox of n's harbor becomes q.
Mailbox(n, q) == /\ inbox'[n] = q /\ Queues(inbox', Box)
               /\ \A m \in Node \ {n} : inbox'[m] = inbox[m]

LEMMA MailboxFacts ==
    ASSUME Types, NEW n \in Node, NEW q \in Seq(Box[n]), inbox' = [inbox EXCEPT ![n] = q]
    PROVE  Mailbox(n, q)
<1>1. inbox' = Put(inbox, n, q) /\ Queues(inbox, Box)
  BY DEF Put, Types, HarborTypes
<1>2. /\ Queues(Put(inbox, n, q), Box) /\ Put(inbox, n, q)[n] = q
      /\ \A m \in Node \ {n} : Put(inbox, n, q)[m] = inbox[m]
  BY <1>1, QueuesGrow
<1>. QED BY <1>1, <1>2, Zenon DEF Mailbox

\* What follows the connections in the mailbox.
LEMMA ReadyMail ==
    ASSUME Types, NEW n \in Node, NEW box \in Seq(Box[n]), ready(n, box)
    PROVE  \E more \in Seq(Box[n]) :
              /\ more = <<>> \/ more = NCommands(globalname[n])
              /\ ~Has(more, Connects(n)) /\ Mailbox(n, box \o more)
<1>1. CASE connect_queue[n] = {}
  <2>1. box \o NCommands(globalname[n]) \in Seq(Box[n])
    BY MoreNames, ConcatProperties, Zenon
  <2>2. inbox' = [inbox EXCEPT ![n] = box \o NCommands(globalname[n])]
    BY <1>1 DEF ready
  <2>3. Mailbox(n, box \o NCommands(globalname[n]))
    BY <2>1, <2>2, MailboxFacts, Zenon
  <2>. QED BY <2>3, MoreNames
<1>2. CASE connect_queue[n] # {}
  <2>1. inbox' = [inbox EXCEPT ![n] = box]
    BY <1>2, Zenon DEF ready
  <2>3. box \o <<>> = box
    BY ConcatEmptySeq
  <2>2. Mailbox(n, box \o <<>>)
    BY <2>1, <2>3, MailboxFacts, Zenon
  <2>. QED BY <2>2, MoreNames, Zenon
<1>. QED BY <1>1, <1>2

LEMMA ReadyTables ==
    ASSUME Types, NEW n \in Node, NEW box, ready(n, box)
    PROVE  /\ phase' \in [Node -> {"off", "hello", "accept", "fork", "up"}]
           /\ connecting' \in [Node -> SUBSET Node] /\ connect_queue' \in [Node -> SUBSET Node]
           /\ \A k \in Node : /\ connect_queue'[k] \subseteq (k + 1)..Nodes
                              /\ connecting'[k] \subseteq (k + 1)..Nodes
<1>1. connect_queue[n] \in SUBSET Node /\ connect_queue[n] \subseteq (n + 1)..Nodes
  BY DEF Types, SlaveTypes
<1>2. \A k \in Node : /\ connect_queue'[k] = IF k = n THEN {} ELSE connect_queue[k]
                      /\ connecting'[k] = IF k = n THEN connect_queue[n] ELSE connecting[k]
  BY DEF Types, SlaveTypes, ready
<1>3. /\ connect_queue' \in [Node -> SUBSET Node] /\ connecting' \in [Node -> SUBSET Node]
      /\ phase' \in [Node -> {"off", "hello", "accept", "fork", "up"}]
  BY <1>1 DEF Types, SlaveTypes, ready
<1>. QED BY <1>1, <1>2, <1>3 DEF Types, SlaveTypes

LEMMA ReadyTypes ==
    ASSUME Types, NEW n \in Node, Ready(n)
    PROVE  Types'
<1>1. ready(n, inbox[n]) /\ inbox[n] \in Seq(Box[n])
  BY DEF Ready, Types, HarborTypes, Queues
<1>2. Queues(inbox', Box)
  BY <1>1, ReadyMail DEF Mailbox
<1>3. HarborTypes'
  BY <1>2 DEF Types, HarborTypes, Ready
<1>4. SlaveTypes'
  BY <1>1, ReadyTables DEF Types, SlaveTypes, Ready
<1>5. MasterTypes'
  BY DEF Types, MasterTypes, Ready
<1>. QED BY <1>3, <1>4, <1>5 DEF Types

LEMMA ReadWTypes ==
    ASSUME Types, Joined, NEW n \in Node, ReadW(n)
    PROVE  Types'
<1>1. Head(toSlave[n]) = Welcome(n - 1)
  BY DEF Joined, Joining, ReadW
<1>2. Head(toSlave[n]).n = n - 1 /\ n - 1 \in Int
  BY <1>1, NodeFacts DEF Welcome
<1>3. need' \in [Node -> Int] /\ phase' \in [Node -> {"off", "hello", "accept", "fork", "up"}]
  BY <1>2 DEF Types, SlaveTypes, ReadW
<1>4. SlaveTypes'
  BY <1>3 DEF Types, SlaveTypes, ReadW
<1>5. MasterTypes'
  BY QueuesPop DEF Types, MasterTypes, ReadW
<1>6. HarborTypes'
  BY DEF Types, HarborTypes, ReadW
<1>. QED BY <1>4, <1>5, <1>6 DEF Types

LEMMA ConnectMail ==
    ASSUME Types, NEW n \in Node, NEW m \in (n + 1)..Nodes, NEW more \in Seq(Box[n]),
           connect_slave(n, m, more)
    PROVE  /\ m \in Node \ {n} /\ Command(n, m) = SCommand(m) /\ Command(n, m) \in Box[n]
           /\ slaves' \in [Node -> SUBSET Node]
           /\ \A k \in Node : slaves'[k] \subseteq Node \ {k}
           /\ \/ /\ m \notin slaves[n] /\ phase[m] \in {"hello", "accept"}
                 /\ slaves' = [slaves EXCEPT ![n] = @ \cup {m}]
                 /\ Mailbox(n, Append(inbox[n], Command(n, m)) \o more)
              \/ /\ m \in slaves[n] \/ phase[m] \notin {"hello", "accept"}
                 /\ slaves' = slaves
                 /\ Mailbox(n, inbox[n] \o more)
<1>1. m \in Node \ {n} /\ n < m
  BY NodeFacts DEF Node
<1>2. Command(n, m) = SCommand(m) /\ Command(n, m) \in Box[n]
  BY <1>1, CommandFacts DEF Command
<1>3. inbox[n] \in Seq(Box[n])
  BY MoreNames
<1>4. CASE m \notin slaves[n] /\ phase[m] \in {"hello", "accept"}
  <2>1. slaves' = [slaves EXCEPT ![n] = @ \cup {m}]
    BY <1>4 DEF connect_slave
  <2>2. Append(inbox[n], Command(n, m)) \o more \in Seq(Box[n])
    BY <1>2, <1>3, SeqFacts, ConcatProperties, Zenon
  <2>3. inbox' = [inbox EXCEPT ![n] = Append(inbox[n], Command(n, m)) \o more]
    BY <1>2, <1>4 DEF connect_slave, Types, HarborTypes, Queues
  <2>4. Mailbox(n, Append(inbox[n], Command(n, m)) \o more)
    BY <2>2, <2>3, MailboxFacts, Zenon
  <2>5. /\ slaves' \in [Node -> SUBSET Node]
        /\ \A k \in Node : slaves'[k] \subseteq Node \ {k}
    BY <1>1, <2>1 DEF Types, SlaveTypes
  <2>. QED BY <1>1, <1>2, <1>4, <2>1, <2>4, <2>5
<1>5. CASE ~(m \notin slaves[n] /\ phase[m] \in {"hello", "accept"})
  <2>1. slaves' = slaves /\ inbox' = [inbox EXCEPT ![n] = inbox[n] \o more]
    BY <1>5 DEF connect_slave, Types, HarborTypes, Queues
  <2>2. inbox[n] \o more \in Seq(Box[n])
    BY <1>3, ConcatProperties, Zenon
  <2>3. Mailbox(n, inbox[n] \o more)
    BY <2>1, <2>2, MailboxFacts, Zenon
  <2>4. /\ slaves' \in [Node -> SUBSET Node]
        /\ \A k \in Node : slaves'[k] \subseteq Node \ {k}
    BY <2>1 DEF Types, SlaveTypes
  <2>. QED BY <1>1, <1>2, <1>5, <2>1, <2>3, <2>4
<1>. QED BY <1>4, <1>5

LEMMA ReadyConnectTypes ==
    ASSUME Types, NEW n \in Node, NEW m \in Node \ {n}, ReadyConnect(n, m)
    PROVE  Types'
<1>. DEFINE more == IF connecting[n] = {m} THEN NCommands(globalname[n]) ELSE <<>>
<1>1. more \in Seq(Box[n]) /\ connect_slave(n, m, more) /\ m \in (n + 1)..Nodes
  BY MoreNames, Zenon DEF ReadyConnect, Types, SlaveTypes
<1>. HIDE DEF more
<1>2. /\ slaves' \in [Node -> SUBSET Node] /\ Queues(inbox', Box)
      /\ \A k \in Node : slaves'[k] \subseteq Node \ {k}
  BY <1>1, ConnectMail DEF Mailbox
<1>3. /\ connecting' \in [Node -> SUBSET Node]
      /\ \A k \in Node : connecting'[k] \subseteq (k + 1)..Nodes
  <2>1. connecting' = [connecting EXCEPT ![n] = @ \ {m}]
    BY DEF ReadyConnect
  <2>2. ASSUME NEW k \in Node PROVE connecting'[k] \subseteq connecting[k]
    BY <2>1 DEF Types, SlaveTypes
  <2>. QED BY <2>1, <2>2 DEF Types, SlaveTypes
<1>4. SlaveTypes'
  BY <1>2, <1>3 DEF Types, SlaveTypes, ReadyConnect
<1>5. HarborTypes'
  BY <1>2 DEF Types, HarborTypes, ReadyConnect
<1>6. MasterTypes'
  BY DEF Types, MasterTypes, ReadyConnect
<1>. QED BY <1>4, <1>5, <1>6 DEF Types

\* What the first order of a slave is.
LEMMA FirstOrder ==
    ASSUME Types, NEW n \in Node, toSlave[n] # <<>>
    PROVE  /\ Queues(Pop(toSlave, n), Orders) /\ Head(toSlave[n]) \in Orders[n]
           /\ Pop(toSlave, n)[n] = Tail(toSlave[n])
           /\ \A k \in Node \ {n} : Pop(toSlave, n)[k] = toSlave[k]
           /\ Head(toSlave[n]).cmd = "C" => \E m \in (n + 1)..Nodes :
                 Head(toSlave[n]) = Call(m) /\ Head(toSlave[n]).to = m
           /\ Head(toSlave[n]).cmd = "N" => \E x \in Name, h \in Node :
                 /\ Head(toSlave[n]) = NCommand(x, h)
                 /\ Head(toSlave[n]).name = x /\ Head(toSlave[n]).to = h
<1>1. Queues(toSlave, Orders)
  BY DEF Types, MasterTypes
<1>2. /\ Queues(Pop(toSlave, n), Orders) /\ Head(toSlave[n]) \in Orders[n]
      /\ Pop(toSlave, n)[n] = Tail(toSlave[n])
      /\ \A k \in Node \ {n} : Pop(toSlave, n)[k] = toSlave[k]
  BY <1>1, QueuesPop
<1>. QED BY <1>2, OrderKinds

LEMMA MasterConnectTypes ==
    ASSUME Types, NEW n \in Node, MasterConnect(n)
    PROVE  Types'
<1>1. PICK m \in (n + 1)..Nodes : Head(toSlave[n]) = Call(m) /\ Head(toSlave[n]).to = m
  BY FirstOrder DEF MasterConnect, Monitoring
<1>2. Queues(toSlave', Orders)
  BY FirstOrder DEF MasterConnect, Monitoring
<1>3. m \in Node
  BY NodeFacts DEF Node
<1>4. CASE phase[n] = "up"
  <2>1. connect_slave(n, m, <<>>) /\ UNCHANGED connect_queue
    BY <1>1, <1>4 DEF MasterConnect
  <2>2. <<>> \in Seq(Box[n])
    BY MoreNames
  <2>3. /\ slaves' \in [Node -> SUBSET Node] /\ Queues(inbox', Box)
        /\ \A k \in Node : slaves'[k] \subseteq Node \ {k}
    BY <2>1, <2>2, ConnectMail, Zenon DEF Mailbox
  <2>4. SlaveTypes'
    BY <2>1, <2>3 DEF Types, SlaveTypes, MasterConnect
  <2>5. HarborTypes'
    BY <2>3 DEF Types, HarborTypes, MasterConnect
  <2>6. MasterTypes'
    BY <1>2 DEF Types, MasterTypes, MasterConnect
  <2>. QED BY <2>4, <2>5, <2>6 DEF Types
<1>5. CASE phase[n] # "up"
  <2>1. /\ connect_queue' = [connect_queue EXCEPT ![n] = @ \cup {m}]
        /\ UNCHANGED <<slaves, inbox>>
    BY <1>1, <1>5 DEF MasterConnect
  <2>2. /\ connect_queue' \in [Node -> SUBSET Node]
        /\ \A k \in Node : connect_queue'[k] \subseteq (k + 1)..Nodes
    <3>1. ASSUME NEW k \in Node
          PROVE  connect_queue'[k] = connect_queue[k]
                 \/ (k = n /\ connect_queue'[k] = connect_queue[k] \cup {m})
      BY <2>1 DEF Types, SlaveTypes
    <3>2. DOMAIN connect_queue' = Node
      BY <2>1 DEF Types, SlaveTypes
    <3>3. connect_queue' \in [Node -> SUBSET Node]
      BY <1>3, <2>1 DEF Types, SlaveTypes
    <3>4. \A k \in Node : connect_queue[k] \subseteq (k + 1)..Nodes
      BY DEF Types, SlaveTypes
    <3>5. ASSUME NEW k \in Node PROVE connect_queue'[k] \subseteq (k + 1)..Nodes
      BY <3>1, <3>4
    <3>. QED BY <3>3, <3>5
  <2>3. SlaveTypes'
    BY <2>1, <2>2 DEF Types, SlaveTypes, MasterConnect
  <2>4. HarborTypes'
    BY <2>1 DEF Types, HarborTypes, MasterConnect
  <2>5. MasterTypes'
    BY <1>2 DEF Types, MasterTypes, MasterConnect
  <2>. QED BY <2>3, <2>4, <2>5 DEF Types
<1>. QED BY <1>4, <1>5

\* The connection a slave accepts was opened by a node before it.
LEMMA Accepting ==
    ASSUME Links, NEW m \in Node, NEW n \in Node \ {m}, AcceptSlave(m, n)
    PROVE  /\ n < m /\ m \in slave_node /\ Untold(n, m)
           /\ End(n, m, "asking") /\ End(m, n, "closed")
<1>1. n \notin slaves[m] /\ wire[n][m] # <<>> /\ (n < m \/ m < n)
  BY NodeFacts DEF AcceptSlave
<1>2. \A s \in {"opened", "asking", "waiting", "greeting", "ready"} : ~End(m, n, s)
  BY <1>1 DEF End
<1>3. ~End(n, m, "closed") /\ ~End(n, m, "opened")
  BY <1>1 DEF End
<1>4. ~(m < n)
  BY <1>2, <1>3 DEF Links, Link, Ends
<1>. QED BY <1>1, <1>2, <1>3, <1>4 DEF Links, Link, Ends

LEMMA AcceptMail ==
    ASSUME Types, Links, NEW m \in Node, NEW n \in Node \ {m}, AcceptSlave(m, n)
    PROVE  /\ WireOK(wire') /\ wire'[n][m] = Tail(wire[n][m])
           /\ \A k, l \in Node : k # n \/ l # m => wire'[k][l] = wire[k][l]
           /\ slaves' = [slaves EXCEPT ![m] = @ \cup {n}]
           /\ slaves'[m] = slaves[m] \cup {n} /\ \A k \in Node \ {m} : slaves'[k] = slaves[k]
           /\ Append(inbox[m], Command(m, n)) \in Seq(Box[m])
           /\ \/ /\ Enough(m, slaves'[m])
                 /\ ready(m, Append(inbox[m], Command(m, n)))
              \/ /\ ~Enough(m, slaves'[m])
                 /\ Mailbox(m, Append(inbox[m], Command(m, n)))
                 /\ UNCHANGED <<phase, connecting, connect_queue>>
<1>1. ACommand(n) = Command(m, n) /\ Command(m, n) \in Box[m]
  <2>1. ~(m < n)
    BY Accepting, NodeFacts
  <2>. QED BY <2>1, CommandFacts DEF Command
<1>2. Append(inbox[m], Command(m, n)) \in Seq(Box[m])
  BY <1>1, MoreNames, SeqFacts, Zenon
<1>3. /\ WireOK(wire') /\ wire'[n][m] = Tail(wire[n][m])
      /\ \A k, l \in Node : k # n \/ l # m => wire'[k][l] = wire[k][l]
  <2>1. wire[n][m] \in Seq(From(n) \cup {Id}) /\ wire[n][m] # <<>>
    BY Zenon DEF Types, HarborTypes, WireOK, AcceptSlave
  <2>. DEFINE r == Tail(wire[n][m])
  <2>2. r \in Seq(From(n) \cup {Id})
    BY <2>1, TailFacts
  <2>3. wire' = Put2(wire, n, m, r) /\ WireOK(wire)
    BY DEF Put2, AcceptSlave, Types, HarborTypes
  <2>4. n \in Node /\ m \in Node \ {n}
    OBVIOUS
  <2>. HIDE DEF r
  <2>5. /\ WireOK(Put2(wire, n, m, r)) /\ Put2(wire, n, m, r)[n][m] = r
        /\ \A k, l \in Node : k # n \/ l # m => Put2(wire, n, m, r)[k][l] = wire[k][l]
    BY <2>2, <2>3, <2>4, WireUpdate
  <2>. QED BY <2>3, <2>5 DEF r
<1>4. /\ slaves' = [slaves EXCEPT ![m] = @ \cup {n}]
      /\ slaves'[m] = slaves[m] \cup {n} /\ \A k \in Node \ {m} : slaves'[k] = slaves[k]
  BY DEF AcceptSlave, Types, SlaveTypes
<1>5. CASE Enough(m, slaves'[m])
  BY <1>1, <1>2, <1>3, <1>4, <1>5 DEF AcceptSlave
<1>6. CASE ~Enough(m, slaves'[m])
  <2>1. /\ inbox' = [inbox EXCEPT ![m] = Append(inbox[m], Command(m, n))]
        /\ UNCHANGED <<phase, connecting, connect_queue>>
    BY <1>1, <1>6 DEF AcceptSlave
  <2>2. Mailbox(m, Append(inbox[m], Command(m, n)))
    BY <1>2, <2>1, MailboxFacts, Zenon
  <2>. QED BY <1>2, <1>3, <1>4, <1>6, <2>1, <2>2
<1>. QED BY <1>5, <1>6

LEMMA AcceptSlaveTypes ==
    ASSUME Types, Links, NEW m \in Node, NEW n \in Node \ {m}, AcceptSlave(m, n)
    PROVE  Types'
<1>1. Queues(inbox', Box) /\ WireOK(wire')
  <2>1. CASE ready(m, Append(inbox[m], Command(m, n)))
    BY <2>1, AcceptMail, ReadyMail DEF Mailbox
  <2>2. CASE Mailbox(m, Append(inbox[m], Command(m, n)))
    BY <2>2, AcceptMail DEF Mailbox
  <2>. QED BY <2>1, <2>2, AcceptMail
<1>2. /\ phase' \in [Node -> {"off", "hello", "accept", "fork", "up"}]
      /\ connecting' \in [Node -> SUBSET Node] /\ connect_queue' \in [Node -> SUBSET Node]
      /\ \A k \in Node : /\ connect_queue'[k] \subseteq (k + 1)..Nodes
                         /\ connecting'[k] \subseteq (k + 1)..Nodes
  <2>1. CASE ready(m, Append(inbox[m], Command(m, n)))
    BY <2>1, ReadyTables
  <2>2. CASE UNCHANGED <<phase, connecting, connect_queue>>
    BY <2>2 DEF Types, SlaveTypes
  <2>. QED BY <2>1, <2>2, AcceptMail
<1>3. slaves' \in [Node -> SUBSET Node] /\ \A k \in Node : slaves'[k] \subseteq Node \ {k}
  BY DEF AcceptSlave, Types, SlaveTypes
<1>4. SlaveTypes'
  BY <1>2, <1>3 DEF Types, SlaveTypes, AcceptSlave
<1>5. HarborTypes'
  BY <1>1 DEF Types, HarborTypes, AcceptSlave
<1>6. MasterTypes'
  BY DEF Types, MasterTypes, AcceptSlave
<1>. QED BY <1>4, <1>5, <1>6 DEF Types

LEMMA MasterNameMail ==
    ASSUME Types, NEW n \in Node, MasterName(n)
    PROVE  \E x \in Name, h \in Node :
              /\ Head(toSlave[n]) = NCommand(x, h)
              /\ globalname' = [globalname EXCEPT ![n][x] = h]
              /\ queryname' = [queryname EXCEPT ![n] = @ \ {x}]
              /\ \/ phase[n] = "up" /\ Mailbox(n, Append(inbox[n], NCommand(x, h)))
                 \/ phase[n] # "up" /\ inbox' = inbox
<1>1. PICK x \in Name, h \in Node : /\ Head(toSlave[n]) = NCommand(x, h)
                                    /\ Head(toSlave[n]).name = x /\ Head(toSlave[n]).to = h
  BY FirstOrder DEF MasterName, Monitoring
<1>2. /\ globalname' = [globalname EXCEPT ![n][x] = h]
      /\ queryname' = [queryname EXCEPT ![n] = @ \ {x}]
  BY <1>1, Zenon DEF MasterName
<1>3. CASE phase[n] = "up"
  <2>1. inbox' = [inbox EXCEPT ![n] = Append(inbox[n], NCommand(x, h))]
    BY <1>1, <1>3, Zenon DEF MasterName, Push
  <2>2. Append(inbox[n], NCommand(x, h)) \in Seq(Box[n])
    BY AddressFacts, MoreNames, SeqFacts, Zenon
  <2>3. Mailbox(n, Append(inbox[n], NCommand(x, h)))
    BY <2>1, <2>2, MailboxFacts, Zenon
  <2>. QED BY <1>1, <1>2, <1>3, <2>3, Zenon
<1>4. CASE phase[n] # "up"
  BY <1>1, <1>2, <1>4, Zenon DEF MasterName
<1>. QED BY <1>3, <1>4

LEMMA MasterNameTypes ==
    ASSUME Types, NEW n \in Node, MasterName(n)
    PROVE  Types'
<1>1. PICK x \in Name, h \in Node :
          /\ globalname' = [globalname EXCEPT ![n][x] = h]
          /\ queryname' = [queryname EXCEPT ![n] = @ \ {x}]
          /\ \/ Mailbox(n, Append(inbox[n], NCommand(x, h)))
             \/ inbox' = inbox
  BY MasterNameMail
<1>2. globalname' \in [Node -> [Name -> Address]] /\ queryname' \in [Node -> SUBSET Name]
  BY <1>1 DEF Types, SlaveTypes, Address
<1>3. Queues(inbox', Box)
  BY <1>1 DEF Mailbox, Types, HarborTypes
<1>4. Queues(toSlave', Orders)
  BY FirstOrder DEF MasterName, Monitoring
<1>5. SlaveTypes'
  BY <1>2 DEF Types, SlaveTypes, MasterName
<1>6. HarborTypes'
  BY <1>3 DEF Types, HarborTypes, MasterName
<1>7. MasterTypes'
  BY <1>4 DEF Types, MasterTypes, MasterName
<1>. QED BY <1>5, <1>6, <1>7 DEF Types

LEMMA HarborQueryMail ==
    ASSUME Types, NEW n \in Node, HarborQuery(n)
    PROVE  \E x \in Name :
              /\ Head(text[n]) = x
              /\ Queues(text', Names) /\ text'[n] = Tail(text[n])
              /\ \A k \in Node \ {n} : text'[k] = text[k]
              /\ \/ /\ globalname[n][x] \in Node /\ toMaster' = toMaster
                    /\ Mailbox(n, Append(inbox[n], NCommand(x, globalname[n][x])))
                 \/ /\ globalname[n][x] = NULL /\ inbox' = inbox
                    /\ Queues(toMaster', Requests)
                    /\ toMaster'[n] = Append(toMaster[n], Question(x))
                    /\ \A k \in Node \ {n} : toMaster'[k] = toMaster[k]
<1>1. /\ Queues(text', Names) /\ text'[n] = Tail(text[n])
      /\ \A k \in Node \ {n} : text'[k] = text[k]
      /\ Head(text[n]) \in Names[n]
  <2>1. Queues(text, Names) /\ text[n] # <<>> /\ text' = Pop(text, n)
    BY DEF HarborQuery, Types, HarborTypes
  <2>2. /\ Queues(Pop(text, n), Names) /\ Pop(text, n)[n] = Tail(text[n])
        /\ \A k \in Node \ {n} : Pop(text, n)[k] = text[k]
        /\ Head(text[n]) \in Names[n]
    BY <2>1, QueuesPop
  <2>. QED BY <2>1, <2>2
<1>2. PICK x \in Name : Head(text[n]) = x
  BY <1>1 DEF Names
<1>3. CASE globalname[n][x] # NULL
  <2>1. globalname[n][x] \in Node
    BY <1>3 DEF Types, SlaveTypes, Address
  <2>2. inbox' = [inbox EXCEPT ![n] = Append(inbox[n], NCommand(x, globalname[n][x]))]
        /\ toMaster' = toMaster
    BY <1>2, <1>3 DEF HarborQuery, Push
  <2>3. Append(inbox[n], NCommand(x, globalname[n][x])) \in Seq(Box[n])
    BY <2>1, AddressFacts, MoreNames, SeqFacts, Zenon
  <2>4. Mailbox(n, Append(inbox[n], NCommand(x, globalname[n][x])))
    BY <2>2, <2>3, MailboxFacts, Zenon
  <2>. QED BY <1>1, <1>2, <2>1, <2>2, <2>4
<1>4. CASE globalname[n][x] = NULL
  <2>1. toMaster' = Push(toMaster, n, Question(x)) /\ inbox' = inbox
    BY <1>2, <1>4 DEF HarborQuery, Question
  <2>2. Question(x) \in Requests[n] /\ Queues(toMaster, Requests)
    BY DEF Requests, Types, MasterTypes
  <2>3. /\ Queues(Push(toMaster, n, Question(x)), Requests)
        /\ Push(toMaster, n, Question(x))[n] = Append(toMaster[n], Question(x))
        /\ \A k \in Node \ {n} : Push(toMaster, n, Question(x))[k] = toMaster[k]
    BY <2>2, QueuesPush
  <2>. QED BY <1>1, <1>2, <1>4, <2>1, <2>3
<1>. QED BY <1>3, <1>4

LEMMA HarborQueryTypes ==
    ASSUME Types, NEW n \in Node, HarborQuery(n)
    PROVE  Types'
<1>1. /\ Queues(text', Names) /\ Queues(inbox', Box) /\ Queues(toMaster', Requests)
  BY HarborQueryMail DEF Mailbox, Types, MasterTypes, HarborTypes
<1>2. MasterTypes' /\ SlaveTypes'
  BY <1>1 DEF Types, MasterTypes, SlaveTypes, HarborQuery
<1>3. HarborTypes'
  BY <1>1 DEF Types, HarborTypes, HarborQuery
<1>. QED BY <1>2, <1>3 DEF Types

LEMMA RegisterMail ==
    ASSUME Types, NEW n \in Node, NEW x \in Name, Register(n, x)
    PROVE  /\ Mailbox(n, Append(inbox[n], NCommand(x, n)))
           /\ Queues(toMaster', Requests)
           /\ toMaster'[n] = Append(toMaster[n], Registration(x, n))
           /\ \A k \in Node \ {n} : toMaster'[k] = toMaster[k]
<1>1. inbox' = [inbox EXCEPT ![n] = Append(inbox[n], NCommand(x, n))]
  BY DEF Register, Push
<1>2. Append(inbox[n], NCommand(x, n)) \in Seq(Box[n])
  BY AddressFacts, MoreNames, SeqFacts, Zenon
<1>3. Mailbox(n, Append(inbox[n], NCommand(x, n)))
  BY <1>1, <1>2, MailboxFacts, Zenon
<1>4. toMaster' = Push(toMaster, n, Registration(x, n))
  BY DEF Register, Registration
<1>5. Registration(x, n) \in Requests[n] /\ Queues(toMaster, Requests)
  BY DEF Requests, Types, MasterTypes
<1>6. /\ Queues(Push(toMaster, n, Registration(x, n)), Requests)
      /\ Push(toMaster, n, Registration(x, n))[n] = Append(toMaster[n], Registration(x, n))
      /\ \A k \in Node \ {n} : Push(toMaster, n, Registration(x, n))[k] = toMaster[k]
  BY <1>5, QueuesPush
<1>. QED BY <1>3, <1>4, <1>6

LEMMA RegisterTypes ==
    ASSUME Types, NEW n \in Node, NEW x \in Name, Register(n, x)
    PROVE  Types'
<1>1. Queues(inbox', Box) /\ Queues(toMaster', Requests)
  BY RegisterMail DEF Mailbox
<1>2. globalname' \in [Node -> [Name -> Address]] /\ queryname' \in [Node -> SUBSET Name]
  BY DEF Types, SlaveTypes, Address, Register
<1>3. ops' \in 0..MaxOp
  BY HarborAssumption DEF Types, HarborTypes, Register
<1>4. MasterTypes'
  BY <1>1 DEF Types, MasterTypes, Register
<1>5. SlaveTypes'
  BY <1>2 DEF Types, SlaveTypes, Register
<1>6. HarborTypes'
  BY <1>1, <1>3 DEF Types, HarborTypes, Register
<1>. QED BY <1>4, <1>5, <1>6 DEF Types

LEMMA QueryNameTypes ==
    ASSUME Types, NEW n \in Node, NEW x \in Name, QueryName(n, x)
    PROVE  /\ Types'
           /\ toMaster'[n] = toMaster[n] \/ toMaster'[n] = Append(toMaster[n], Question(x))
           /\ \A k \in Node \ {n} : toMaster'[k] = toMaster[k]
<1>1. /\ Queues(toMaster', Requests)
      /\ toMaster'[n] = toMaster[n] \/ toMaster'[n] = Append(toMaster[n], Question(x))
      /\ \A k \in Node \ {n} : toMaster'[k] = toMaster[k]
  <2>1. toMaster' = toMaster \/ toMaster' = Push(toMaster, n, Question(x))
    BY DEF QueryName, Question
  <2>2. Question(x) \in Requests[n] /\ Queues(toMaster, Requests)
    BY DEF Requests, Types, MasterTypes
  <2>3. /\ Queues(Push(toMaster, n, Question(x)), Requests)
        /\ Push(toMaster, n, Question(x))[n] = Append(toMaster[n], Question(x))
        /\ \A k \in Node \ {n} : Push(toMaster, n, Question(x))[k] = toMaster[k]
    BY <2>2, QueuesPush
  <2>. QED BY <2>1, <2>2, <2>3
<1>2. queryname' \in [Node -> SUBSET Name]
  BY DEF Types, SlaveTypes, QueryName
<1>3. ops' \in 0..MaxOp
  BY HarborAssumption DEF Types, HarborTypes, QueryName
<1>4. MasterTypes'
  BY <1>1 DEF Types, MasterTypes, QueryName
<1>5. SlaveTypes'
  BY <1>2 DEF Types, SlaveTypes, QueryName
<1>6. HarborTypes'
  BY <1>3 DEF Types, HarborTypes, QueryName
<1>. QED BY <1>1, <1>4, <1>5, <1>6 DEF Types

LEMMA NewMsgFacts ==
    ASSUME Types, NEW n \in Node, NEW by \in Name \cup {NULL}, ops < MaxOp
    PROVE  /\ NewMsg(n, by) \in NamedBy(n, by) /\ NewMsg(n, by).seq = ops + 1
           /\ NewMsg(n, by).src = n /\ NewMsg(n, by).by = by
           /\ ops + 1 \in 0..MaxOp
<1>1. ops + 1 \in 1..MaxOp
  BY HarborAssumption DEF Types, HarborTypes
<1>. QED BY <1>1 DEF NewMsg, NamedBy, From, Msg

LEMMA SendNameTypes ==
    ASSUME Types, NEW n \in Node, NEW x \in Name, SendName(n, x)
    PROVE  /\ Types'
           /\ Mailbox(n, Append(inbox[n], ToName(x, NewMsg(n, x))))
<1>1. NewMsg(n, x) \in NamedBy(n, x) /\ ops' \in 0..MaxOp
  BY NewMsgFacts DEF SendName
<1>2. ToName(x, NewMsg(n, x)) \in Box[n]
  BY <1>1 DEF Box, NameSends
<1>3. Append(inbox[n], ToName(x, NewMsg(n, x))) \in Seq(Box[n])
  BY <1>2, MoreNames, SeqFacts, Zenon
<1>4. inbox' = [inbox EXCEPT ![n] = Append(inbox[n], ToName(x, NewMsg(n, x)))]
  BY DEF SendName, Push
<1>5. Mailbox(n, Append(inbox[n], ToName(x, NewMsg(n, x))))
  BY <1>3, <1>4, MailboxFacts, Zenon
<1>6. MasterTypes' /\ SlaveTypes'
  BY DEF Types, MasterTypes, SlaveTypes, SendName
<1>7. HarborTypes'
  BY <1>1, <1>5 DEF Types, HarborTypes, SendName, Mailbox
<1>. QED BY <1>5, <1>6, <1>7 DEF Types

LEMMA SendHandleTypes ==
    ASSUME Types, NEW n \in Node, NEW x \in Name, SendHandle(n, x)
    PROVE  /\ Types'
           /\ globalname[n][x] \in Node
           /\ Mailbox(n, Append(inbox[n], ToHandle(globalname[n][x], NewMsg(n, NULL))))
<1>. DEFINE e == ToHandle(globalname[n][x], NewMsg(n, NULL))
<1>1. NewMsg(n, NULL) \in NamedBy(n, NULL) /\ ops' \in 0..MaxOp
  BY NewMsgFacts DEF SendHandle
<1>2. globalname[n][x] \in Node
  BY DEF SendHandle, Types, SlaveTypes, Address
<1>3. e \in Box[n]
  BY <1>1, <1>2 DEF Box, HandleSends
<1>4. inbox' = [inbox EXCEPT ![n] = Append(inbox[n], e)]
  BY DEF SendHandle, Push
<1>. HIDE DEF e
<1>5. Append(inbox[n], e) \in Seq(Box[n])
  BY <1>3, MoreNames, SeqFacts, Zenon
<1>6. Mailbox(n, Append(inbox[n], e))
  BY <1>4, <1>5, MailboxFacts, Zenon
<1>7. MasterTypes' /\ SlaveTypes'
  BY DEF Types, MasterTypes, SlaveTypes, SendHandle
<1>8. HarborTypes'
  BY <1>1, <1>6 DEF Types, HarborTypes, SendHandle, Mailbox
<1>. QED BY <1>2, <1>6, <1>7, <1>8 DEF Types, e

\* The harbor takes the first command of its mailbox.
LEMMA FirstMail ==
    ASSUME Types, NEW n \in Node, inbox[n] # <<>>, inbox' = Pop(inbox, n)
    PROVE  Mailbox(n, Tail(inbox[n])) /\ Head(inbox[n]) \in Box[n]
<1>1. Queues(inbox, Box)
  BY DEF Types, HarborTypes
<1>2. /\ Queues(Pop(inbox, n), Box) /\ Pop(inbox, n)[n] = Tail(inbox[n])
      /\ \A k \in Node \ {n} : Pop(inbox, n)[k] = inbox[k]
      /\ Head(inbox[n]) \in Box[n]
  BY <1>1, QueuesPop
<1>. QED BY <1>2 DEF Mailbox

LEMMA UpdateNameMoves ==
    ASSUME Types, NEW n \in Node, UpdateName(n)
    PROVE  \E x \in Name, h \in Node : \E q \in Seq(NamedBy(n, x)) :
              /\ Head(inbox[n]) = NCommand(x, h) /\ Mailbox(n, Tail(inbox[n]))
              /\ value' = [value EXCEPT ![n][x] = h]
              /\ name_queue' = [name_queue EXCEPT ![n][x] = <<>>]
              /\ q \in Seq(From(n)) /\ Moves(n, h, q)
              /\ DOMAIN q = DOMAIN name_queue[n][x]
              /\ \/ q = name_queue[n][x] /\ h # n /\ status[n][h] = "WAIT"
                 \/ /\ \A i \in DOMAIN q : q[i] = Handled(name_queue[n][x][i])
                    /\ h = n \/ status[n][h] # "WAIT"
<1>1. Mailbox(n, Tail(inbox[n])) /\ Head(inbox[n]) \in Box[n]
  BY FirstMail DEF UpdateName
<1>2. PICK x \in Name, h \in Node : /\ Head(inbox[n]) = NCommand(x, h)
                                    /\ Head(inbox[n]).name = x /\ Head(inbox[n]).to = h
  BY <1>1, BoxKinds DEF UpdateName
<1>. DEFINE p == name_queue[n][x]
<1>3. /\ value' = [value EXCEPT ![n][x] = h]
      /\ name_queue' = [name_queue EXCEPT ![n][x] = <<>>]
      /\ dispatch_name_queue(n, p, h)
  BY <1>2, Zenon DEF UpdateName
<1>4. p \in Seq(NamedBy(n, x)) /\ HarborTypes
  BY DEF Types, HarborTypes, NameQueueOK
<1>. HIDE DEF p
<1>5. CASE Moves(n, h, p) /\ h # n /\ status[n][h] = "WAIT"
  BY <1>1, <1>2, <1>3, <1>4, <1>5, WithHandleFacts, Zenon DEF p
<1>6. CASE Moves(n, h, WithHandle(p)) /\ (h = n \/ status[n][h] # "WAIT")
  <2>. DEFINE q == WithHandle(p)
  <2>1. /\ q \in Seq(NamedBy(n, x)) /\ q \in Seq(From(n)) /\ DOMAIN q = DOMAIN p
        /\ \A i \in DOMAIN q : q[i] = Handled(p[i])
    BY <1>4, WithHandleFacts
  <2>. HIDE DEF q
  <2>2. Moves(n, h, q) /\ (h = n \/ status[n][h] # "WAIT")
    BY <1>6 DEF q
  <2>. QED BY <1>1, <1>2, <1>3, <2>1, <2>2, Zenon DEF p
<1>. QED BY <1>3, <1>4, <1>5, <1>6, DispatchMoves, Zenon

LEMMA UpdateNameTypes ==
    ASSUME Types, NEW n \in Node, UpdateName(n)
    PROVE  Types'
<1>1. PICK x \in Name, h \in Node : \E q \in Seq(NamedBy(n, x)) :
              /\ Mailbox(n, Tail(inbox[n]))
              /\ value' = [value EXCEPT ![n][x] = h]
              /\ name_queue' = [name_queue EXCEPT ![n][x] = <<>>]
              /\ q \in Seq(From(n)) /\ Moves(n, h, q)
  BY UpdateNameMoves
<1>2. value' \in [Node -> [Name -> Address]]
  BY <1>1 DEF Types, HarborTypes, Address
<1>3. NameQueueOK(name_queue')
  <2>1. name_queue' = Put2(name_queue, n, x, <<>>) /\ NameQueueOK(name_queue)
    BY <1>1 DEF Put2, Types, HarborTypes
  <2>2. <<>> \in Seq(NamedBy(n, x))
    OBVIOUS
  <2>3. NameQueueOK(Put2(name_queue, n, x, <<>>))
    BY <2>1, <2>2, NameQueueUpdate, Zenon
  <2>. QED BY <2>1, <2>3
<1>4. Queues(got', Services) /\ QueueOK(queue') /\ WireOK(wire')
  BY <1>1, MovesFacts DEF Types
<1>5. HarborTypes'
  BY <1>1, <1>2, <1>3, <1>4 DEF Types, HarborTypes, UpdateName, Mailbox
<1>6. MasterTypes' /\ SlaveTypes'
  BY DEF Types, MasterTypes, SlaveTypes, UpdateName
<1>. QED BY <1>5, <1>6 DEF Types

LEMMA RemoteSendHandleMoves ==
    ASSUME Types, NEW n \in Node, RemoteSendHandle(n)
    PROVE  \E h \in Node, e \in NamedBy(n, NULL) :
              /\ Head(inbox[n]).cmd = "handle" /\ Head(inbox[n]).msg = e
              /\ Head(inbox[n]).to = h
              /\ Mailbox(n, Tail(inbox[n]))
              /\ <<Handled(e)>> \in Seq(From(n)) /\ Moves(n, h, <<Handled(e)>>)
              /\ status[n][h] = "HANDSHAKE" => wire' = wire
<1>1. Mailbox(n, Tail(inbox[n])) /\ Head(inbox[n]) \in Box[n]
  BY FirstMail DEF RemoteSendHandle
<1>2. Head(inbox[n]).to \in Node /\ Head(inbox[n]).msg \in NamedBy(n, NULL)
  BY <1>1, BoxKinds DEF RemoteSendHandle
<1>3. /\ Moves(n, Head(inbox[n]).to, <<Handled(Head(inbox[n]).msg)>>)
      /\ status[n][Head(inbox[n]).to] = "HANDSHAKE" => wire' = wire
  BY <1>2, RemoteSendMoves DEF RemoteSendHandle, Types
<1>4. <<Handled(Head(inbox[n]).msg)>> \in Seq(From(n))
  BY <1>2, HandledFacts, SeqFacts
<1>. QED BY <1>1, <1>2, <1>3, <1>4 DEF RemoteSendHandle

LEMMA RemoteSendHandleTypes ==
    ASSUME Types, NEW n \in Node, RemoteSendHandle(n)
    PROVE  Types'
<1>1. Queues(got', Services) /\ QueueOK(queue') /\ WireOK(wire') /\ Queues(inbox', Box)
  BY RemoteSendHandleMoves, MovesFacts, Zenon DEF Types, Mailbox
<1>2. HarborTypes'
  BY <1>1 DEF Types, HarborTypes, RemoteSendHandle
<1>3. MasterTypes' /\ SlaveTypes'
  BY DEF Types, MasterTypes, SlaveTypes, RemoteSendHandle
<1>. QED BY <1>2, <1>3 DEF Types

LEMMA RemoteSendNameMoves ==
    ASSUME Types, NEW n \in Node, RemoteSendName(n)
    PROVE  \E x \in Name : \E e \in NamedBy(n, x) :
              /\ Head(inbox[n]).cmd = "name" /\ Head(inbox[n]).msg = e
              /\ Head(inbox[n]).name = x
              /\ Mailbox(n, Tail(inbox[n]))
              /\ \/ /\ value[n][x] = NULL /\ UNCHANGED <<queue, wire, got>>
                    /\ NameQueueOK(name_queue') /\ name_queue'[n][x] = Append(name_queue[n][x], e)
                    /\ \A k \in Node, y \in Name :
                          k # n \/ y # x => name_queue'[k][y] = name_queue[k][y]
                    /\ Queues(text', Names) /\ text'[n] = Append(text[n], x)
                    /\ \A k \in Node \ {n} : text'[k] = text[k]
                 \/ /\ value[n][x] \in Node /\ UNCHANGED <<name_queue, text>>
                    /\ <<Handled(e)>> \in Seq(From(n))
                    /\ Moves(n, value[n][x], <<Handled(e)>>)
                    /\ status[n][value[n][x]] = "HANDSHAKE" => wire' = wire
<1>1. Mailbox(n, Tail(inbox[n])) /\ Head(inbox[n]) \in Box[n]
  BY FirstMail DEF RemoteSendName
<1>2. PICK x \in Name : Head(inbox[n]).name = x /\ Head(inbox[n]).msg \in NamedBy(n, x)
  BY <1>1, BoxKinds DEF RemoteSendName
<1>3. PICK e \in NamedBy(n, x) : Head(inbox[n]).msg = e
  BY <1>2
<1>4. CASE value[n][x] = NULL
  <2>1. /\ name_queue' = [name_queue EXCEPT ![n][x] = Append(@, e)]
        /\ text' = Push(text, n, x) /\ UNCHANGED <<queue, wire, got>>
    BY <1>2, <1>3, <1>4 DEF RemoteSendName
  <2>2. /\ Queues(text', Names) /\ text'[n] = Append(text[n], x)
        /\ \A k \in Node \ {n} : text'[k] = text[k]
    <3>1. Queues(text, Names) /\ x \in Names[n]
      BY DEF Names, Types, HarborTypes
    <3>2. /\ Queues(Push(text, n, x), Names) /\ Push(text, n, x)[n] = Append(text[n], x)
          /\ \A k \in Node \ {n} : Push(text, n, x)[k] = text[k]
      BY <3>1, QueuesPush
    <3>. QED BY <2>1, <3>2
  <2>3. /\ NameQueueOK(name_queue') /\ name_queue'[n][x] = Append(name_queue[n][x], e)
        /\ \A k \in Node, y \in Name :
              k # n \/ y # x => name_queue'[k][y] = name_queue[k][y]
    <3>. DEFINE r == Append(name_queue[n][x], e)
    <3>1. r \in Seq(NamedBy(n, x)) /\ NameQueueOK(name_queue)
      BY SeqFacts DEF Types, HarborTypes, NameQueueOK
    <3>2. name_queue' = Put2(name_queue, n, x, r)
      BY <2>1 DEF Put2
    <3>. HIDE DEF r
    <3>3. /\ NameQueueOK(Put2(name_queue, n, x, r)) /\ Put2(name_queue, n, x, r)[n][x] = r
          /\ \A k \in Node, y \in Name :
                k # n \/ y # x => Put2(name_queue, n, x, r)[k][y] = name_queue[k][y]
      BY <3>1, NameQueueUpdate
    <3>. QED BY <3>2, <3>3 DEF r
  <2>4. Head(inbox[n]).cmd = "name"
    BY DEF RemoteSendName
  <2>. QED BY <1>1, <1>2, <1>3, <1>4, <2>1, <2>2, <2>3, <2>4
<1>5. CASE value[n][x] # NULL
  <2>1. value[n][x] \in Node
    BY <1>5 DEF Types, HarborTypes, Address
  <2>2. remote_send_handle(n, e, value[n][x]) /\ UNCHANGED <<name_queue, text>>
        /\ Head(inbox[n]).cmd = "name"
    BY <1>2, <1>3, <1>5 DEF RemoteSendName
  <2>3. /\ Moves(n, value[n][x], <<Handled(e)>>)
        /\ status[n][value[n][x]] = "HANDSHAKE" => wire' = wire
    BY <2>1, <2>2, RemoteSendMoves DEF Types
  <2>4. <<Handled(e)>> \in Seq(From(n))
    BY HandledFacts, SeqFacts
  <2>. QED BY <1>1, <1>2, <1>3, <2>1, <2>2, <2>3, <2>4
<1>. QED BY <1>4, <1>5

LEMMA RemoteSendNameTypes ==
    ASSUME Types, NEW n \in Node, RemoteSendName(n)
    PROVE  Types'
<1>1. /\ Queues(got', Services) /\ QueueOK(queue') /\ WireOK(wire') /\ Queues(inbox', Box)
      /\ NameQueueOK(name_queue') /\ Queues(text', Names)
  <2>1. PICK x \in Name, e \in NamedBy(n, Head(inbox[n]).name) :
              /\ Mailbox(n, Tail(inbox[n]))
              /\ \/ /\ UNCHANGED <<queue, wire, got>>
                    /\ NameQueueOK(name_queue') /\ Queues(text', Names)
                 \/ /\ value[n][x] \in Node /\ UNCHANGED <<name_queue, text>>
                    /\ <<Handled(e)>> \in Seq(From(n))
                    /\ Moves(n, value[n][x], <<Handled(e)>>)
    BY RemoteSendNameMoves
  <2>2. CASE Moves(n, value[n][x], <<Handled(e)>>) /\ UNCHANGED <<name_queue, text>>
             /\ value[n][x] \in Node /\ <<Handled(e)>> \in Seq(From(n))
    BY <2>1, <2>2, MovesFacts, Zenon DEF Types, HarborTypes, Mailbox
  <2>3. CASE UNCHANGED <<queue, wire, got>> /\ NameQueueOK(name_queue') /\ Queues(text', Names)
    BY <2>1, <2>3 DEF Types, HarborTypes, Mailbox
  <2>. QED BY <2>1, <2>2, <2>3
<1>2. HarborTypes'
  BY <1>1 DEF Types, HarborTypes, RemoteSendName
<1>3. MasterTypes' /\ SlaveTypes'
  BY DEF Types, MasterTypes, SlaveTypes, RemoteSendName
<1>. QED BY <1>2, <1>3 DEF Types

\* status, wire and queue between n and m.
Statuses    == {"WAIT", "HANDSHAKE", "HEADER"}
StatusOK(s) == s \in [Node -> [Node -> Statuses]]
\* g is f, but v from n to m.
Sets(g, f, n, m, v) == /\ g[n][m] = v
                       /\ \A k, l \in Node : k # n \/ l # m => g[k][l] = f[k][l]

LEMMA StatusSets ==
    ASSUME Types, NEW n \in Node, NEW m \in Node, NEW s \in Statuses,
           status' = [status EXCEPT ![n][m] = s]
    PROVE  StatusOK(status') /\ Sets(status', status, n, m, s)
<1>1. StatusOK(status)
  BY DEF StatusOK, Statuses, Types, HarborTypes
<1>2. StatusOK(status') /\ status'[n][m] = s
  BY <1>1 DEF StatusOK
<1>3. \A k, l \in Node : k # n \/ l # m => status'[k][l] = status[k][l]
  BY <1>1 DEF StatusOK
<1>. QED BY <1>2, <1>3 DEF Sets

LEMMA QueueSets ==
    ASSUME Types, NEW n \in Node, NEW m \in Node \ {n},
           queue' = [queue EXCEPT ![n][m] = <<>>]
    PROVE  QueueOK(queue') /\ Sets(queue', queue, n, m, <<>>)
<1>. DEFINE r == <<>>
<1>1. QueueOK(queue) /\ queue' = Put2(queue, n, m, r) /\ r \in Seq(From(n))
  BY DEF Put2, Types, HarborTypes
<1>. HIDE DEF r
<1>2. /\ QueueOK(Put2(queue, n, m, r)) /\ Put2(queue, n, m, r)[n][m] = r
      /\ \A k, l \in Node : k # n \/ l # m => Put2(queue, n, m, r)[k][l] = queue[k][l]
  BY <1>1, QueueUpdate
<1>. QED BY <1>1, <1>2, Zenon DEF Sets, r

LEMMA WireSets ==
    ASSUME NEW w, WireOK(w), NEW n \in Node, NEW m \in Node \ {n},
           NEW q \in Seq(From(n) \cup {Id}), NEW v, v = [w EXCEPT ![n][m] = q]
    PROVE  WireOK(v) /\ Sets(v, w, n, m, q)
<1>1. v = Put2(w, n, m, q)
  BY DEF Put2
<1>2. /\ WireOK(Put2(w, n, m, q)) /\ Put2(w, n, m, q)[n][m] = q
      /\ \A k, l \in Node : k # n \/ l # m => Put2(w, n, m, q)[k][l] = w[k][l]
  BY WireUpdate
<1>. QED BY <1>1, <1>2, Zenon DEF Sets

LEMMA WireFacts ==
    ASSUME Types, NEW n \in Node, NEW m \in Node
    PROVE  /\ wire[n][m] \in Seq(From(n) \cup {Id}) /\ queue[n][m] \in Seq(From(n))
           /\ queue[n][m] \in Seq(From(n) \cup {Id}) /\ <<Id>> \in Seq(From(n) \cup {Id})
           /\ ~Has(queue[n][m], {Id})
<1>1. wire[n][m] \in Seq(From(n) \cup {Id}) /\ queue[n][m] \in Seq(From(n))
  BY Zenon DEF Types, HarborTypes, WireOK, QueueOK
<1>2. queue[n][m] \in Seq(From(n) \cup {Id})
  BY <1>1, SeqSubset, From(n) \subseteq From(n) \cup {Id}
<1>3. \A e \in From(n) : e # Id
  BY IdIsNoMsg DEF From
<1>4. \A i \in DOMAIN queue[n][m] : queue[n][m][i] \in From(n)
  BY <1>1, LenProperties, ElementOfSeq
<1>5. ~Has(queue[n][m], {Id})
  BY <1>3, <1>4 DEF Has
<1>. QED BY <1>1, <1>2, <1>5

LEMMA StartConnectionSets ==
    ASSUME Types, NEW n \in Node, StartConnection(n)
    PROVE  \E m \in Node \ {n} :
              /\ Head(inbox[n]) = Command(n, m) /\ Mailbox(n, Tail(inbox[n]))
              /\ \/ status[n][m] # "WAIT" /\ UNCHANGED <<status, queue, wire>>
                 \/ /\ status[n][m] = "WAIT" /\ n < m
                    /\ StatusOK(status') /\ Sets(status', status, n, m, "HANDSHAKE")
                    /\ WireOK(wire') /\ Sets(wire', wire, n, m, wire[n][m] \o <<Id>>)
                    /\ queue' = queue
                 \/ /\ status[n][m] = "WAIT" /\ ~(n < m)
                    /\ StatusOK(status') /\ Sets(status', status, n, m, "HEADER")
                    /\ WireOK(wire')
                    /\ Sets(wire', wire, n, m, wire[n][m] \o (<<Id>> \o queue[n][m]))
                    /\ QueueOK(queue') /\ Sets(queue', queue, n, m, <<>>)
<1>1. Mailbox(n, Tail(inbox[n])) /\ Head(inbox[n]) \in Box[n]
  BY FirstMail DEF StartConnection
<1>2. PICK m \in Node \ {n} : /\ Head(inbox[n]) = Command(n, m) /\ Head(inbox[n]).to = m
                              /\ Head(inbox[n]).cmd = "S" <=> n < m
  BY <1>1, BoxKinds DEF StartConnection
<1>3. CASE status[n][m] # "WAIT"
  BY <1>1, <1>2, <1>3 DEF StartConnection
<1>4. CASE status[n][m] = "WAIT" /\ n < m
  <2>1. /\ status' = [status EXCEPT ![n][m] = "HANDSHAKE"]
        /\ wire' = [wire EXCEPT ![n][m] = wire[n][m] \o <<Id>>] /\ queue' = queue
    BY <1>2, <1>4, Zenon DEF StartConnection, Send
  <2>2. StatusOK(status') /\ Sets(status', status, n, m, "HANDSHAKE")
    BY <2>1, StatusSets, Zenon DEF Statuses
  <2>3. wire[n][m] \o <<Id>> \in Seq(From(n) \cup {Id}) /\ WireOK(wire)
    BY WireFacts, ConcatProperties, Zenon DEF Types, HarborTypes
  <2>4. WireOK(wire') /\ Sets(wire', wire, n, m, wire[n][m] \o <<Id>>)
    BY <2>1, <2>3, WireSets, Zenon
  <2>. QED BY <1>1, <1>2, <1>4, <2>1, <2>2, <2>4
<1>5. CASE status[n][m] = "WAIT" /\ ~(n < m)
  <2>1. /\ status' = [status EXCEPT ![n][m] = "HEADER"]
        /\ wire' = [wire EXCEPT ![n][m] = wire[n][m] \o (<<Id>> \o queue[n][m])]
        /\ queue' = [queue EXCEPT ![n][m] = <<>>]
    BY <1>2, <1>5, Zenon DEF StartConnection, Send, dispatch_queue
  <2>2. /\ StatusOK(status') /\ Sets(status', status, n, m, "HEADER")
        /\ QueueOK(queue') /\ Sets(queue', queue, n, m, <<>>)
    BY <2>1, StatusSets, QueueSets, Zenon DEF Statuses
  <2>3. wire[n][m] \o (<<Id>> \o queue[n][m]) \in Seq(From(n) \cup {Id}) /\ WireOK(wire)
    <3>1. <<Id>> \o queue[n][m] \in Seq(From(n) \cup {Id})
      BY WireFacts, ConcatProperties
    <3>. QED BY <3>1, WireFacts, ConcatProperties, Zenon DEF Types, HarborTypes
  <2>4. WireOK(wire') /\ Sets(wire', wire, n, m, wire[n][m] \o (<<Id>> \o queue[n][m]))
    BY <2>1, <2>3, WireSets, Zenon
  <2>. QED BY <1>1, <1>2, <1>5, <2>2, <2>4
<1>. QED BY <1>3, <1>4, <1>5

LEMMA StartConnectionTypes ==
    ASSUME Types, NEW n \in Node, StartConnection(n)
    PROVE  Types'
<1>1. StatusOK(status') /\ WireOK(wire') /\ QueueOK(queue') /\ Queues(inbox', Box)
  BY StartConnectionSets DEF Mailbox, StatusOK, Statuses, Types, HarborTypes
<1>2. HarborTypes'
  BY <1>1 DEF Types, HarborTypes, StartConnection, StatusOK, Statuses
<1>3. MasterTypes' /\ SlaveTypes'
  BY DEF Types, MasterTypes, SlaveTypes, StartConnection
<1>. QED BY <1>2, <1>3 DEF Types

\* The harbor of n reads the first package of m.
LEMMA PushSocketDataSets ==
    ASSUME Types, NEW n \in Node, NEW m \in Node \ {n}, PushSocketData(n, m)
    PROVE  /\ wire[m][n] # <<>> /\ WireOK(wire') /\ wire'[m][n] = Tail(wire[m][n])
           /\ \/ /\ status[n][m] = "HANDSHAKE"
                 /\ StatusOK(status') /\ Sets(status', status, n, m, "HEADER")
                 /\ wire'[n][m] = wire[n][m] \o queue[n][m]
                 /\ QueueOK(queue') /\ Sets(queue', queue, n, m, <<>>) /\ got' = got
              \/ /\ status[n][m] = "HEADER"
                 /\ wire'[n][m] = wire[n][m]
                 /\ Queues(got', Services)
                 /\ got'[n] = Append(got[n], Head(wire[m][n]))
                 /\ \A k \in Node \ {n} : got'[k] = got[k]
                 /\ UNCHANGED <<status, queue>>
           /\ \A k, l \in Node : {k, l} # {n, m} => wire'[k][l] = wire[k][l]
<1>. DEFINE r == Tail(wire[m][n])
            rest == [wire EXCEPT ![m][n] = r]
            e == Head(wire[m][n])
<1>0. n \in Node \ {m} /\ m \in Node /\ wire[m][n] # <<>>
  BY DEF PushSocketData
<1>1. r \in Seq(From(m) \cup {Id}) /\ e \in From(m) \cup {Id} /\ WireOK(wire)
  BY <1>0, WireFacts, TailFacts, Zenon DEF Types, HarborTypes
<1>. HIDE DEF r, e
<1>2. WireOK(rest) /\ Sets(rest, wire, m, n, r)
  BY <1>0, <1>1, WireSets
<1>. HIDE DEF rest
<1>3. CASE status[n][m] = "HANDSHAKE"
  <2>1. /\ status' = [status EXCEPT ![n][m] = "HEADER"]
        /\ wire' = [rest EXCEPT ![n][m] = rest[n][m] \o queue[n][m]]
        /\ queue' = [queue EXCEPT ![n][m] = <<>>] /\ got' = got
    BY <1>3, Zenon DEF PushSocketData, dispatch_queue, rest, r
  <2>2. rest[n][m] = wire[n][m]
    BY <1>0, <1>2 DEF Sets
  <2>3. rest[n][m] \o queue[n][m] \in Seq(From(n) \cup {Id})
    BY <2>2, WireFacts, ConcatProperties, Zenon
  <2>4. WireOK(wire') /\ Sets(wire', rest, n, m, rest[n][m] \o queue[n][m])
    BY <1>2, <2>1, <2>3, WireSets, Zenon
  <2>5. /\ StatusOK(status') /\ Sets(status', status, n, m, "HEADER")
        /\ QueueOK(queue') /\ Sets(queue', queue, n, m, <<>>)
    BY <2>1, StatusSets, QueueSets, Zenon DEF Statuses
  <2>6. /\ wire'[m][n] = r /\ wire'[n][m] = wire[n][m] \o queue[n][m]
        /\ \A k, l \in Node : {k, l} # {n, m} => wire'[k][l] = wire[k][l]
    BY <1>0, <1>2, <2>2, <2>4 DEF Sets
  <2>. QED BY <1>0, <1>3, <2>1, <2>4, <2>5, <2>6, Zenon DEF r
<1>4. CASE status[n][m] # "HANDSHAKE"
  <2>1. status[n][m] = "HEADER"
    BY <1>4 DEF PushSocketData, Types, HarborTypes
  <2>2. got' = Push(got, n, e) /\ wire' = rest /\ UNCHANGED <<status, queue>>
    BY <1>4 DEF PushSocketData, rest, r, e
  <2>3. e \in Services[n] /\ Queues(got, Services)
    BY <1>1 DEF Services, Packages, From, Types, HarborTypes
  <2>4. /\ Queues(Push(got, n, e), Services) /\ Push(got, n, e)[n] = Append(got[n], e)
        /\ \A k \in Node \ {n} : Push(got, n, e)[k] = got[k]
    BY <2>3, QueuesPush
  <2>5. /\ wire'[m][n] = r /\ wire'[n][m] = wire[n][m]
        /\ \A k, l \in Node : {k, l} # {n, m} => wire'[k][l] = wire[k][l]
    BY <1>0, <1>2, <2>2 DEF Sets
  <2>. QED BY <1>0, <1>2, <2>1, <2>2, <2>4, <2>5, Zenon DEF r, e
<1>. QED BY <1>3, <1>4, Zenon

LEMMA PushSocketDataTypes ==
    ASSUME Types, NEW n \in Node, NEW m \in Node \ {n}, PushSocketData(n, m)
    PROVE  Types'
<1>1. StatusOK(status') /\ WireOK(wire') /\ QueueOK(queue') /\ Queues(got', Services)
  BY PushSocketDataSets, Zenon DEF StatusOK, Statuses, Types, HarborTypes
<1>2. HarborTypes'
  BY <1>1 DEF Types, HarborTypes, PushSocketData, StatusOK, Statuses
<1>3. MasterTypes' /\ SlaveTypes'
  BY DEF Types, MasterTypes, SlaveTypes, PushSocketData
<1>. QED BY <1>2, <1>3 DEF Types

LEMMA DropPackageSets ==
    ASSUME Types, NEW n \in Node, NEW m \in Node \ {n}, DropPackage(n, m)
    PROVE  WireOK(wire') /\ Sets(wire', wire, m, n, Tail(wire[m][n]))
<1>. DEFINE r == Tail(wire[m][n])
<1>0. n \in Node \ {m} /\ m \in Node /\ wire[m][n] # <<>>
  BY DEF DropPackage
<1>1. r \in Seq(From(m) \cup {Id}) /\ WireOK(wire)
  BY <1>0, WireFacts, TailFacts, Zenon DEF Types, HarborTypes
<1>2. wire' = [wire EXCEPT ![m][n] = r]
  BY DEF DropPackage
<1>. HIDE DEF r
<1>3. WireOK(wire') /\ Sets(wire', wire, m, n, r)
  BY <1>0, <1>1, <1>2, WireSets, Zenon
<1>. QED BY <1>3 DEF r

LEMMA DropPackageTypes ==
    ASSUME Types, NEW n \in Node, NEW m \in Node \ {n}, DropPackage(n, m)
    PROVE  Types'
<1>1. HarborTypes'
  BY DropPackageSets, Zenon DEF Types, HarborTypes, DropPackage
<1>2. MasterTypes' /\ SlaveTypes'
  BY DEF Types, MasterTypes, SlaveTypes, DropPackage
<1>. QED BY <1>1, <1>2 DEF Types

LEMMA TypesNext ==
    ASSUME Types, Joined, Links, [Next]_vars
    PROVE  Types'
<1>1. CASE UNCHANGED vars
  BY <1>1 DEF vars, Types, MasterTypes, SlaveTypes, HarborTypes
<1>2. ASSUME NEW n \in Node,
             \/ Handshake(n) \/ MasterRegister(n) \/ MasterQuery(n)
             \/ ReadW(n) \/ Ready(n) \/ MasterConnect(n) \/ MasterName(n) \/ HarborQuery(n)
             \/ UpdateName(n) \/ StartConnection(n) \/ RemoteSendHandle(n) \/ RemoteSendName(n)
      PROVE  Types'
  BY <1>2, HandshakeTypes, MasterRegisterTypes, MasterQueryTypes, ReadWTypes, ReadyTypes,
     MasterConnectTypes, MasterNameTypes, HarborQueryTypes, UpdateNameTypes,
     StartConnectionTypes, RemoteSendHandleTypes, RemoteSendNameTypes
<1>3. ASSUME NEW n \in Node, NEW m \in Node \ {n},
             \/ AcceptSlave(n, m) \/ ReadyConnect(n, m)
             \/ PushSocketData(n, m) \/ DropPackage(n, m)
      PROVE  Types'
  BY <1>3, AcceptSlaveTypes, ReadyConnectTypes, PushSocketDataTypes, DropPackageTypes
<1>4. ASSUME NEW n \in Node, NEW x \in Name,
             Register(n, x) \/ QueryName(n, x) \/ SendName(n, x) \/ SendHandle(n, x)
      PROVE  Types'
  BY <1>4, RegisterTypes, QueryNameTypes, SendNameTypes, SendHandleTypes
<1>. QED BY <1>1, <1>2, <1>3, <1>4 DEF Next

-----------------------------------------------------------------------------
(* Every action keeps what is known of the nodes that join.                 *)

LEMMA HeadAppend ==
    ASSUME NEW V, NEW q \in Seq(V), q # <<>>, NEW e \in V
    PROVE  /\ Append(q, e) # <<>> /\ Head(Append(q, e)) = Head(q)
           /\ \A S : Has(Tail(Append(q, e)), S) <=> Has(Tail(q), S) \/ e \in S
<1>1. Append(q, e) \in Seq(V) /\ Append(q, e) # <<>> /\ Head(Append(q, e)) = Head(q)
  OBVIOUS
<1>2. Tail(q) \in Seq(V) /\ Tail(Append(q, e)) = Append(Tail(q), e)
  OBVIOUS
<1>3. \A S : Has(Append(Tail(q), e), S) <=> Has(Tail(q), S) \/ e \in S
  BY <1>2, HasAppend, Zenon
<1>. QED BY <1>1, <1>2, <1>3, Zenon

LEMMA NoWelcome ==
    /\ \A m : Call(m) \notin Welcomes
    /\ \A x \in Name, h \in Node : NCommand(x, h) \notin Welcomes
    /\ \A e : e.cmd # "W" => e \notin Welcomes
<1>1. \A e \in Welcomes : e.cmd = "W"
  BY DEF Welcomes, Welcome
<1>2. \A m : Call(m).cmd = "C"
  BY DEF Call
<1>. QED BY <1>1, <1>2, AddressFacts

\* The slave of k is told no W, and reads W only when it waits for it.
OrdersQuiet(k) ==
    \/ toSlave'[k] = toSlave[k]
    \/ phase[k] # "off" /\ \E e \in Orders[k] : e \notin Welcomes /\ toSlave'[k] = Append(toSlave[k], e)
    \/ phase[k] \notin {"off", "hello"} /\ toSlave[k] # <<>> /\ toSlave'[k] = Tail(toSlave[k])

LEMMA OrdersQuietFacts ==
    ASSUME Types, Joined, NEW k \in Node, OrdersQuiet(k)
    PROVE  /\ phase[k] = "off" => toSlave'[k] = <<>>
           /\ phase[k] = "hello" => /\ toSlave'[k] # <<>> /\ Head(toSlave'[k]) = Welcome(k - 1)
                                    /\ Lone(toSlave'[k], Welcomes)
           /\ phase[k] # "hello" => ~Has(toSlave'[k], Welcomes)
<1>1. toSlave[k] \in Seq(Orders[k])
  BY DEF Types, MasterTypes, Queues
<1>2. /\ phase[k] = "off" => toSlave[k] = <<>>
      /\ phase[k] = "hello" => /\ toSlave[k] # <<>> /\ Head(toSlave[k]) = Welcome(k - 1)
                               /\ Lone(toSlave[k], Welcomes)
      /\ phase[k] # "hello" => ~Has(toSlave[k], Welcomes)
  BY DEF Joined, Joining
<1>3. CASE toSlave'[k] = toSlave[k]
  BY <1>2, <1>3
<1>4. CASE phase[k] # "off" /\ \E e \in Orders[k] : e \notin Welcomes /\ toSlave'[k] = Append(toSlave[k], e)
  <2>1. PICK e \in Orders[k] : e \notin Welcomes /\ toSlave'[k] = Append(toSlave[k], e)
    BY <1>4
  <2>2. Has(toSlave'[k], Welcomes) <=> Has(toSlave[k], Welcomes)
    BY <1>1, <2>1, HasAppend
  <2>3. Lone(toSlave[k], Welcomes) => Lone(toSlave'[k], Welcomes)
    BY <1>1, <2>1, LoneAppend
  <2>4. toSlave[k] # <<>> => toSlave'[k] # <<>> /\ Head(toSlave'[k]) = Head(toSlave[k])
    BY <1>1, <2>1, HeadAppend
  <2>. QED BY <1>2, <1>4, <2>2, <2>3, <2>4
<1>5. CASE /\ phase[k] \notin {"off", "hello"} /\ toSlave[k] # <<>>
           /\ toSlave'[k] = Tail(toSlave[k])
  <2>1. Has(toSlave[k], Welcomes) <=> Head(toSlave[k]) \in Welcomes \/ Has(toSlave'[k], Welcomes)
    BY <1>1, <1>5, HasTail
  <2>. QED BY <1>2, <1>5, <2>1
<1>. QED BY <1>3, <1>4, <1>5 DEF OrdersQuiet

\* Nothing but connections in the mailbox, and nothing else at all.
Still(k) ==
    /\ inbox'[k] \in Seq(Connects(k))
    /\ text'[k] = text[k] /\ queryname'[k] = queryname[k] /\ toMaster'[k] = toMaster[k]
    /\ value'[k] = value[k] /\ name_queue'[k] = name_queue[k]

\* What a node that is not starting may do.
Steady(k) ==
    /\ phase'[k] = phase[k] /\ need'[k] = need[k] /\ OrdersQuiet(k)
    /\ slaves'[k] = slaves[k] \/ (phase[k] = "up" /\ slaves[k] \subseteq slaves'[k])
    /\ connecting'[k] \subseteq connecting[k]
    /\ connect_queue'[k] = connect_queue[k] \/ phase[k] \in {"accept", "fork"}
    /\ Started(k) \/ Still(k)

LEMMA StillSilent ==
    ASSUME Joined, NEW k \in Node, ~Started(k), Still(k)
    PROVE  Silent(k)'
<1>1. Silent(k)
  BY DEF Joined, Joining
<1>. QED BY <1>1 DEF Silent, Still

LEMMA SteadyJoining ==
    ASSUME Types, Joined, NEW k \in Node, Steady(k), k \in slave_node' <=> k \in slave_node
    PROVE  Joining(k)'
<1>1. Joining(k) /\ (Started(k)' <=> Started(k))
  BY DEF Joined, Steady, Started
<1>2. /\ phase'[k] = "off" <=> k \notin slave_node'
      /\ phase'[k] = "off" => toSlave'[k] = <<>>
      /\ phase'[k] = "hello" => /\ toSlave'[k] # <<>> /\ Head(toSlave'[k]) = Welcome(k - 1)
                                /\ Lone(toSlave'[k], Welcomes)
      /\ phase'[k] # "hello" => ~Has(toSlave'[k], Welcomes)
  BY <1>1, OrdersQuietFacts DEF Steady, Joining
<1>3. ~Started(k) => Silent(k)'
  BY StillSilent DEF Steady
<1>4. /\ phase'[k] = "accept" => need'[k] = k - 1 /\ k > 1 /\ slaves'[k] \subseteq 1..(k - 1)
      /\ phase'[k] = "fork" => k = 1
      /\ phase'[k] \in {"off", "hello", "fork"} => slaves'[k] = {}
      /\ connecting'[k] # {} => phase'[k] = "up"
      /\ connect_queue'[k] # {} => phase'[k] \in {"accept", "fork"}
  BY <1>1 DEF Steady, Joining
<1>5. Started(k)' => 1..(k - 1) \subseteq slaves'[k]
  BY <1>1 DEF Steady, Joining
<1>. QED BY <1>1, <1>2, <1>3, <1>4, <1>5 DEF Joining

\* Nothing happens at k.
LEMMA SameSteady ==
    ASSUME Types, Joined, NEW k \in Node,
           phase'[k] = phase[k], need'[k] = need[k], OrdersQuiet(k),
           slaves'[k] = slaves[k], connecting'[k] = connecting[k],
           connect_queue'[k] = connect_queue[k],
           inbox'[k] = inbox[k], text'[k] = text[k], queryname'[k] = queryname[k],
           toMaster'[k] = toMaster[k], value'[k] = value[k], name_queue'[k] = name_queue[k]
    PROVE  Steady(k)
<1>1. Started(k) \/ inbox[k] \in Seq(Connects(k))
  BY DEF Joined, Joining, Silent
<1>. QED BY <1>1 DEF Steady, Still

LEMMA AllSteady ==
    ASSUME Types, Joined, slave_node' = slave_node, \A k \in Node : Steady(k)
    PROVE  Joined'
  BY SteadyJoining DEF Joined

\* Only a node that has started has something to do.
LEMMA Busy ==
    ASSUME Types, Joined, NEW n \in Node
    PROVE  /\ toMaster[n] # <<>> \/ text[n] # <<>> => Started(n)
           /\ connecting[n] # {} => Started(n)
           /\ inbox[n] # <<>> /\ Head(inbox[n]).cmd \notin {"S", "A"} => Started(n)
           /\ \A x \in queryname[n] : Started(n)
<1>1. Started(n) \/ Silent(n)
  BY DEF Joined, Joining
<1>2. ASSUME Silent(n), inbox[n] # <<>> PROVE Head(inbox[n]).cmd \in {"S", "A"}
  <2>1. Head(inbox[n]) \in Connects(n)
    BY <1>2, TailFacts DEF Silent
  <2>. QED BY <2>1, CommandFacts DEF Connects
<1>3. connecting[n] # {} => Started(n)
  BY DEF Joined, Joining, Started
<1>. QED BY <1>1, <1>2, <1>3 DEF Silent

LEMMA MasterRegisterJoined ==
    ASSUME Net, NEW n \in Node, MasterRegister(n)
    PROVE  Joined'
<1>1. Types /\ Joined /\ Started(n)
  BY Busy DEF Net, MasterRegister
<1>2. /\ Pop(toMaster, n)[n] = Tail(toMaster[n])
      /\ \A k \in Node \ {n} : Pop(toMaster, n)[k] = toMaster[k]
      /\ Head(toMaster[n]) \in Requests[n]
  BY <1>1, QueuesPop DEF Types, MasterTypes, MasterRegister
<1>3. PICK x \in Name : Head(toMaster[n]).name = x /\ Head(toMaster[n]).to = n
  BY <1>2, RequestKinds DEF MasterRegister
<1>4. ASSUME NEW k \in Node PROVE OrdersQuiet(k)
  <2>1. toSlave'[k] = IF k \in slave_node THEN Append(toSlave[k], NCommand(x, n)) ELSE toSlave[k]
    BY <1>3 DEF MasterRegister
  <2>2. k \in slave_node => phase[k] # "off"
    BY <1>1 DEF Joined, Joining
  <2>3. NCommand(x, n) \in Orders[k] /\ NCommand(x, n) \notin Welcomes
    BY AddressFacts, NoWelcome
  <2>. QED BY <2>1, <2>2, <2>3 DEF OrdersQuiet
<1>5. ASSUME NEW k \in Node, k # n PROVE Steady(k)
  BY <1>1, <1>2, <1>4, <1>5, SameSteady DEF MasterRegister
<1>6. Steady(n)
  BY <1>1, <1>4 DEF MasterRegister, Steady
<1>. QED BY <1>1, <1>5, <1>6, AllSteady DEF MasterRegister

LEMMA MasterQueryJoined ==
    ASSUME Net, NEW n \in Node, MasterQuery(n)
    PROVE  Joined'
<1>1. Types /\ Joined /\ Started(n)
  BY Busy DEF Net, MasterQuery
<1>2. /\ Pop(toMaster, n)[n] = Tail(toMaster[n])
      /\ \A k \in Node \ {n} : Pop(toMaster, n)[k] = toMaster[k]
      /\ Head(toMaster[n]) \in Requests[n]
  BY <1>1, QueuesPop DEF Types, MasterTypes, MasterQuery
<1>3. PICK x \in Name : Head(toMaster[n]).name = x
  BY <1>2, RequestKinds DEF MasterQuery
<1>4. ASSUME NEW k \in Node PROVE OrdersQuiet(k)
  <2>1. CASE toSlave' = toSlave
    BY <2>1 DEF OrdersQuiet
  <2>2. CASE global_name[x] # NULL /\ toSlave' = Push(toSlave, n, NCommand(x, global_name[x]))
    <3>1. global_name[x] \in Node /\ Queues(toSlave, Orders)
      BY <1>1, <2>2 DEF Types, MasterTypes, Address
    <3>2. /\ NCommand(x, global_name[x]) \in Orders[n]
          /\ NCommand(x, global_name[x]) \notin Welcomes
      BY <3>1, AddressFacts, NoWelcome
    <3>3. /\ toSlave'[n] = Append(toSlave[n], NCommand(x, global_name[x]))
          /\ \A m \in Node \ {n} : toSlave'[m] = toSlave[m]
      BY <2>2, <3>1, <3>2, QueuesPush
    <3>4. phase[n] # "off"
      BY <1>1 DEF Started
    <3>. QED BY <3>2, <3>3, <3>4 DEF OrdersQuiet
  <2>. QED BY <1>3, <2>1, <2>2 DEF MasterQuery
<1>5. ASSUME NEW k \in Node, k # n PROVE Steady(k)
  BY <1>1, <1>2, <1>4, <1>5, SameSteady DEF MasterQuery
<1>6. Steady(n)
  BY <1>1, <1>4 DEF MasterQuery, Steady
<1>. QED BY <1>1, <1>5, <1>6, AllSteady DEF MasterQuery

LEMMA ConnectOthers ==
    ASSUME Types, NEW n \in Node, NEW m \in (n + 1)..Nodes, NEW more \in Seq(Box[n]),
           connect_slave(n, m, more)
    PROVE  /\ slaves[n] \subseteq slaves'[n]
           /\ \A k \in Node \ {n} : slaves'[k] = slaves[k] /\ inbox'[k] = inbox[k]
<1>1. \/ /\ slaves' = [slaves EXCEPT ![n] = @ \cup {m}]
         /\ Mailbox(n, Append(inbox[n], Command(n, m)) \o more)
      \/ slaves' = slaves /\ Mailbox(n, inbox[n] \o more)
  BY ConnectMail
<1>. QED BY <1>1 DEF Mailbox, Types, SlaveTypes

LEMMA ReadyConnectJoined ==
    ASSUME Net, NEW n \in Node, NEW m \in Node \ {n}, ReadyConnect(n, m)
    PROVE  Joined'
<1>1. Types /\ Joined /\ phase[n] = "up" /\ Started(n)
  BY DEF Net, ReadyConnect, Joined, Joining, Started
<1>. DEFINE more == IF connecting[n] = {m} THEN NCommands(globalname[n]) ELSE <<>>
<1>2. more \in Seq(Box[n]) /\ connect_slave(n, m, more) /\ m \in (n + 1)..Nodes
  BY <1>1, MoreNames, Zenon DEF ReadyConnect, Types, SlaveTypes
<1>. HIDE DEF more
<1>3. /\ slaves[n] \subseteq slaves'[n]
      /\ \A k \in Node \ {n} : slaves'[k] = slaves[k] /\ inbox'[k] = inbox[k]
  BY <1>1, <1>2, ConnectOthers
<1>4. /\ connecting'[n] \subseteq connecting[n]
      /\ \A k \in Node \ {n} : connecting'[k] = connecting[k]
  BY <1>1 DEF ReadyConnect, Types, SlaveTypes
<1>5. ASSUME NEW k \in Node, k # n PROVE Steady(k)
  BY <1>1, <1>3, <1>4, <1>5, SameSteady DEF ReadyConnect, OrdersQuiet
<1>6. Steady(n)
  BY <1>1, <1>3, <1>4 DEF ReadyConnect, Steady, OrdersQuiet
<1>. QED BY <1>1, <1>5, <1>6, AllSteady DEF ReadyConnect

LEMMA MasterConnectJoined ==
    ASSUME Net, NEW n \in Node, MasterConnect(n)
    PROVE  Joined'
<1>1. Types /\ Joined /\ phase[n] \in {"accept", "fork", "up"} /\ toSlave[n] # <<>>
  BY DEF Net, MasterConnect, Monitoring
<1>2. PICK m \in (n + 1)..Nodes : Head(toSlave[n]) = Call(m) /\ Head(toSlave[n]).to = m
  BY <1>1, FirstOrder DEF MasterConnect
<1>3. ASSUME NEW k \in Node PROVE OrdersQuiet(k)
  BY <1>1, FirstOrder DEF MasterConnect, OrdersQuiet
<1>4. CASE phase[n] = "up"
  <2>1. connect_slave(n, m, <<>>) /\ UNCHANGED connect_queue
    BY <1>2, <1>4 DEF MasterConnect
  <2>2. <<>> \in Seq(Box[n])
    BY <1>1, MoreNames
  <2>3. /\ slaves[n] \subseteq slaves'[n]
        /\ \A k \in Node \ {n} : slaves'[k] = slaves[k] /\ inbox'[k] = inbox[k]
    BY <1>1, <2>1, <2>2, ConnectOthers, Zenon
  <2>4. ASSUME NEW k \in Node, k # n PROVE Steady(k)
    BY <1>1, <1>3, <2>1, <2>3, <2>4, SameSteady DEF MasterConnect
  <2>5. Steady(n)
    BY <1>3, <1>4, <2>1, <2>3 DEF MasterConnect, Steady, Started
  <2>. QED BY <1>1, <2>4, <2>5, AllSteady DEF MasterConnect
<1>5. CASE phase[n] # "up"
  <2>1. /\ connect_queue' = [connect_queue EXCEPT ![n] = @ \cup {m}]
        /\ UNCHANGED <<slaves, inbox>>
    BY <1>2, <1>5 DEF MasterConnect
  <2>2. ASSUME NEW k \in Node, k # n PROVE Steady(k)
    BY <1>1, <1>3, <2>1, <2>2, SameSteady DEF MasterConnect, Types, SlaveTypes
  <2>3. Started(n) \/ inbox[n] \in Seq(Connects(n))
    BY <1>1 DEF Joined, Joining, Silent
  <2>4. Steady(n)
    BY <1>1, <1>3, <1>5, <2>1, <2>3 DEF MasterConnect, Steady, Still
  <2>. QED BY <1>1, <2>2, <2>4, AllSteady DEF MasterConnect
<1>. QED BY <1>4, <1>5

LEMMA MasterNameJoined ==
    ASSUME Net, NEW n \in Node, MasterName(n)
    PROVE  Joined'
<1>1. Types /\ Joined /\ phase[n] \in {"accept", "fork", "up"} /\ toSlave[n] # <<>>
  BY DEF Net, MasterName, Monitoring
<1>2. ASSUME NEW k \in Node PROVE OrdersQuiet(k)
  BY <1>1, FirstOrder DEF MasterName, OrdersQuiet
<1>3. PICK x \in Name, h \in Node :
          /\ queryname' = [queryname EXCEPT ![n] = @ \ {x}]
          /\ \/ phase[n] = "up" /\ Mailbox(n, Append(inbox[n], NCommand(x, h)))
             \/ phase[n] # "up" /\ inbox' = inbox
  BY <1>1, MasterNameMail
<1>4. ASSUME NEW k \in Node, k # n PROVE Steady(k)
  <2>1. inbox'[k] = inbox[k] /\ queryname'[k] = queryname[k]
    BY <1>1, <1>3, <1>4 DEF Mailbox, Types, SlaveTypes
  <2>. QED BY <1>1, <1>2, <2>1, SameSteady, Zenon DEF MasterName
<1>5. Steady(n)
  <2>1. CASE Started(n)
    BY <1>2, <2>1 DEF MasterName, Steady
  <2>2. CASE ~Started(n)
    <3>1. inbox[n] \in Seq(Connects(n)) /\ queryname[n] = {}
      BY <1>1, <2>2 DEF Joined, Joining, Silent
    <3>2. inbox' = inbox
      BY <1>3, <2>2 DEF Started
    <3>3. queryname'[n] = queryname[n]
      BY <1>1, <1>3, <3>1 DEF Types, SlaveTypes
    <3>. QED BY <1>2, <3>1, <3>2, <3>3 DEF MasterName, Steady, Still
  <2>. QED BY <2>1, <2>2
<1>. QED BY <1>1, <1>4, <1>5, AllSteady DEF MasterName

LEMMA HarborQueryJoined ==
    ASSUME Net, NEW n \in Node, HarborQuery(n)
    PROVE  Joined'
<1>1. Types /\ Joined /\ Started(n)
  BY Busy DEF Net, HarborQuery
<1>2. \A k \in Node \ {n} : inbox'[k] = inbox[k] /\ text'[k] = text[k] /\ toMaster'[k] = toMaster[k]
  BY <1>1, HarborQueryMail DEF Mailbox
<1>3. ASSUME NEW k \in Node, k # n PROVE Steady(k)
  BY <1>1, <1>2, <1>3, SameSteady DEF HarborQuery, OrdersQuiet
<1>4. Steady(n)
  BY <1>1 DEF HarborQuery, Steady, OrdersQuiet
<1>. QED BY <1>1, <1>3, <1>4, AllSteady DEF HarborQuery

LEMMA ServiceJoined ==
    ASSUME Net, NEW n \in Node, NEW x \in Name,
           Register(n, x) \/ QueryName(n, x) \/ SendName(n, x) \/ SendHandle(n, x)
    PROVE  Joined'
<1>1. Types /\ Joined /\ Started(n)
  BY DEF Net, Register, QueryName, SendName, SendHandle
<1>2. \A k \in Node \ {n} : inbox'[k] = inbox[k] /\ toMaster'[k] = toMaster[k]
  <2>1. CASE Register(n, x)
    BY <1>1, <2>1, RegisterMail DEF Mailbox
  <2>2. CASE QueryName(n, x)
    BY <1>1, <2>2, QueryNameTypes, Zenon DEF QueryName
  <2>3. CASE SendName(n, x)
    BY <1>1, <2>3, SendNameTypes DEF SendName, Mailbox
  <2>4. CASE SendHandle(n, x)
    BY <1>1, <2>4, SendHandleTypes DEF SendHandle, Mailbox
  <2>. QED BY <2>1, <2>2, <2>3, <2>4
<1>3. \A k \in Node \ {n} : queryname'[k] = queryname[k]
  BY <1>1 DEF Register, QueryName, SendName, SendHandle, Types, SlaveTypes
<1>4. /\ UNCHANGED <<slave_node, toSlave, phase, need, slaves, connect_queue, connecting>>
      /\ UNCHANGED <<text, value, name_queue>>
  BY DEF Register, QueryName, SendName, SendHandle
<1>5. ASSUME NEW k \in Node, k # n PROVE Steady(k)
  BY <1>1, <1>2, <1>3, <1>4, <1>5, SameSteady DEF OrdersQuiet
<1>6. Steady(n)
  BY <1>1, <1>4 DEF Steady, OrdersQuiet
<1>. QED BY <1>1, <1>4, <1>5, <1>6, AllSteady

LEMMA HarborJoined ==
    ASSUME Net, NEW n \in Node,
           \/ UpdateName(n) \/ StartConnection(n) \/ RemoteSendHandle(n) \/ RemoteSendName(n)
    PROVE  Joined'
<1>1. Types /\ Joined
  BY DEF Net
<1>2. inbox[n] # <<>> /\ Mailbox(n, Tail(inbox[n]))
  BY <1>1, FirstMail DEF UpdateName, StartConnection, RemoteSendHandle, RemoteSendName
<1>3. UNCHANGED <<slave_node, toSlave, toMaster, phase, need, slaves, connect_queue, connecting,
                  queryname>>
  BY DEF UpdateName, StartConnection, RemoteSendHandle, RemoteSendName
<1>4. \A k \in Node \ {n} : /\ value'[k] = value[k] /\ name_queue'[k] = name_queue[k]
                            /\ text'[k] = text[k]
  <2>1. CASE UpdateName(n)
    BY <1>1, <2>1 DEF UpdateName, Types, HarborTypes, NameQueueOK
  <2>2. CASE StartConnection(n) \/ RemoteSendHandle(n)
    BY <2>2 DEF StartConnection, RemoteSendHandle
  <2>3. CASE RemoteSendName(n)
    <3>1. value' = value
      BY <2>3 DEF RemoteSendName
    <3>2. name_queue' = name_queue
          \/ name_queue' = [name_queue EXCEPT ![n][Head(inbox[n]).name] = Append(@, Head(inbox[n]).msg)]
      BY <2>3, Zenon DEF RemoteSendName
    <3>3. \A k \in Node \ {n} : name_queue'[k] = name_queue[k]
      BY <1>1, <3>2 DEF Types, HarborTypes, NameQueueOK
    <3>4. \A k \in Node \ {n} : text'[k] = text[k]
      BY <1>1, <2>3, RemoteSendNameMoves, Zenon
    <3>. QED BY <3>1, <3>3, <3>4
  <2>. QED BY <2>1, <2>2, <2>3
<1>5. ASSUME NEW k \in Node, k # n PROVE Steady(k)
  BY <1>1, <1>2, <1>3, <1>4, <1>5, SameSteady DEF OrdersQuiet, Mailbox
<1>6. Steady(n)
  <2>1. CASE Started(n)
    BY <1>3, <2>1 DEF Steady, OrdersQuiet
  <2>2. CASE ~Started(n)
    <3>1. inbox[n] \in Seq(Connects(n))
      BY <1>1, <2>2 DEF Joined, Joining, Silent
    <3>2. inbox'[n] \in Seq(Connects(n))
      BY <1>2, <3>1, TailFacts DEF Mailbox
    <3>3. StartConnection(n)
      BY <1>1, <1>2, <2>2, Busy DEF UpdateName, RemoteSendHandle, RemoteSendName
    <3>4. text'[n] = text[n] /\ value'[n] = value[n] /\ name_queue'[n] = name_queue[n]
      BY <3>3 DEF StartConnection
    <3>. QED BY <1>3, <2>2, <3>2, <3>4 DEF Steady, OrdersQuiet, Still
  <2>. QED BY <2>1, <2>2
<1>. QED BY <1>1, <1>3, <1>5, <1>6, AllSteady

LEMMA SocketJoined ==
    ASSUME Net, NEW n \in Node, NEW m \in Node \ {n}, PushSocketData(n, m) \/ DropPackage(n, m)
    PROVE  Joined'
<1>1. Types /\ Joined
  BY DEF Net
<1>2. ASSUME NEW k \in Node PROVE Steady(k)
  BY <1>1, SameSteady DEF PushSocketData, DropPackage, OrdersQuiet
<1>. QED BY <1>1, <1>2, AllSteady DEF PushSocketData, DropPackage

LEMMA HandshakeJoined ==
    ASSUME Net, NEW n \in Node, Handshake(n)
    PROVE  Joined'
<1>1. Types /\ Joined
  BY DEF Net
<1>. DEFINE c == Cardinality(slave_node)
<1>2. c \in Nat /\ n = c + 1 /\ IsFiniteSet(slave_node) /\ \A m \in slave_node : m <= c
  BY <1>1, SlaveNodes DEF Handshake
<1>3. slave_node' = slave_node \cup {n} /\ slave_node = 1..c
  BY <1>1 DEF Handshake, Joined
<1>4. n \notin slave_node
  BY <1>2
<1>5. Cardinality(slave_node') = c + 1
  BY <1>2, <1>3, <1>4, FS_AddElement, Zenon
<1>. HIDE DEF c
<1>6. slave_node' = 1..(c + 1)
  BY <1>2, <1>3
<1>7. Joining(n) /\ phase[n] = "off" /\ ~Started(n) /\ Silent(n)
  BY <1>1, <1>4 DEF Joined, Joining, Started
<1>8. ASSUME NEW k \in Node, k # n PROVE Joining(k)'
  <2>1. OrdersQuiet(k)
    <3>1. CASE k \in slave_node
      <4>1. toSlave'[k] = Append(toSlave[k], Call(n))
        BY <3>1 DEF Handshake, Call
      <4>2. n \in (k + 1)..Nodes
        BY <1>2, <3>1, NodeFacts DEF Node
      <4>3. Call(n) \in Orders[k] /\ Call(n) \notin Welcomes /\ phase[k] # "off"
        BY <1>1, <3>1, <4>2, NoWelcome DEF Orders, Joined, Joining
      <4>. QED BY <4>1, <4>3 DEF OrdersQuiet
    <3>2. CASE k \notin slave_node
      BY <1>8, <3>2 DEF Handshake, OrdersQuiet
    <3>. QED BY <3>1, <3>2
  <2>2. Steady(k)
    BY <1>1, <1>8, <2>1, SameSteady DEF Handshake
  <2>3. k \in slave_node' <=> k \in slave_node
    BY <1>3, <1>8
  <2>. QED BY <1>1, <2>2, <2>3, SteadyJoining
<1>9. Joining(n)'
  <2>1. phase'[n] = "hello" /\ n \in slave_node'
    BY <1>1, <1>3 DEF Handshake, Types, SlaveTypes
  <2>2. toSlave'[n] = <<Welcome(n - 1)>>
    <3>1. n - 1 = c
      BY <1>2
    <3>2. toSlave'[n] = <<Welcome(c)>>
      BY <1>4 DEF Handshake, Welcome, c
    <3>. QED BY <3>1, <3>2
  <2>3. Welcome(n - 1) \in Welcomes
    <3>1. n - 1 \in 0..Nodes
      BY NodeFacts
    <3>. QED BY <3>1 DEF Welcomes
  <2>4. toSlave'[n] # <<>> /\ Head(toSlave'[n]) = Welcome(n - 1) /\ Lone(toSlave'[n], Welcomes)
    BY <2>2, <2>3, LoneOne
  <2>5. slaves'[n] = {} /\ connecting'[n] = {} /\ connect_queue'[n] = {}
    BY <1>7 DEF Handshake, Joining
  <2>6. Silent(n)'
    BY <1>7 DEF Handshake, Silent
  <2>. QED BY <2>1, <2>4, <2>5, <2>6 DEF Joining, Started
<1>. QED BY <1>5, <1>6, <1>8, <1>9 DEF Joined

LEMMA ReadWJoined ==
    ASSUME Net, NEW n \in Node, ReadW(n)
    PROVE  Joined'
<1>1. Types /\ Joined
  BY DEF Net
<1>2. /\ toSlave[n] \in Seq(Orders[n]) /\ toSlave[n] # <<>>
      /\ Head(toSlave[n]) = Welcome(n - 1) /\ Lone(toSlave[n], Welcomes)
      /\ slaves[n] = {} /\ connecting[n] = {} /\ connect_queue[n] = {}
      /\ n \in slave_node /\ Silent(n)
  BY <1>1 DEF ReadW, Joined, Joining, Types, MasterTypes, Queues, Started
<1>3. /\ toSlave'[n] = Tail(toSlave[n])
      /\ \A k \in Node \ {n} : toSlave'[k] = toSlave[k]
  BY <1>1, <1>2, FirstOrder DEF ReadW
<1>4. ~Has(toSlave'[n], Welcomes)
  <2>1. Welcome(n - 1) \in Welcomes
    <3>1. n - 1 \in 0..Nodes
      BY NodeFacts
    <3>. QED BY <3>1 DEF Welcomes
  <2>. QED BY <1>2, <1>3, <2>1, LoneTail
<1>5. /\ need'[n] = n - 1
      /\ phase'[n] = IF n - 1 > 0 THEN "accept" ELSE "fork"
  <2>1. Head(toSlave[n]).n = n - 1
    BY <1>2 DEF Welcome
  <2>. QED BY <1>1, <2>1 DEF ReadW, Types, SlaveTypes
<1>6. ASSUME NEW k \in Node, k # n PROVE Joining(k)'
  <2>1. Steady(k)
    BY <1>1, <1>3, <1>6, SameSteady DEF ReadW, OrdersQuiet, Types, SlaveTypes
  <2>. QED BY <1>1, <2>1, SteadyJoining DEF ReadW
<1>7. Joining(n)'
  <2>1. n \in Nat /\ n >= 1
    BY NodeFacts
  <2>2. slaves'[n] = {} /\ connecting'[n] = {} /\ connect_queue'[n] = {} /\ n \in slave_node'
        /\ Silent(n)'
    BY <1>2 DEF ReadW, Silent
  <2>3. CASE n - 1 > 0
    <3>1. phase'[n] = "accept" /\ n > 1
      BY <1>5, <2>1, <2>3
    <3>2. {} \subseteq 1..(n - 1)
      OBVIOUS
    <3>. QED BY <1>4, <1>5, <2>2, <3>1, <3>2 DEF Joining, Started
  <2>4. CASE ~(n - 1 > 0)
    <3>1. phase'[n] = "fork" /\ n = 1
      BY <1>5, <2>1, <2>4
    <3>2. 1..(n - 1) \subseteq slaves'[n]
      BY <3>1
    <3>. QED BY <1>4, <2>2, <3>1, <3>2 DEF Joining, Started
  <2>. QED BY <2>3, <2>4
<1>. QED BY <1>1, <1>6, <1>7 DEF Joined, ReadW

LEMMA ReadyJoined ==
    ASSUME Net, NEW n \in Node, Ready(n)
    PROVE  Joined'
<1>1. Types /\ Joined /\ ready(n, inbox[n]) /\ phase[n] = "fork"
  BY DEF Net, Ready
<1>2. /\ n = 1 /\ slaves[n] = {} /\ n \in slave_node /\ ~Has(toSlave[n], Welcomes)
  BY <1>1 DEF Joined, Joining
<1>3. /\ phase'[n] = "up" /\ connect_queue'[n] = {}
      /\ \A k \in Node \ {n} : /\ phase'[k] = phase[k] /\ connect_queue'[k] = connect_queue[k]
                               /\ connecting'[k] = connecting[k]
  BY <1>1 DEF ready, Types, SlaveTypes
<1>4. \A k \in Node \ {n} : inbox'[k] = inbox[k]
  <2>1. inbox[n] \in Seq(Box[n])
    BY <1>1, MoreNames
  <2>. QED BY <1>1, <2>1, ReadyMail DEF Mailbox
<1>5. ASSUME NEW k \in Node, k # n PROVE Joining(k)'
  <2>1. Steady(k)
    BY <1>1, <1>3, <1>4, <1>5, SameSteady DEF Ready, OrdersQuiet
  <2>. QED BY <1>1, <2>1, SteadyJoining DEF Ready
<1>6. Joining(n)'
  <2>1. 1..(n - 1) \subseteq slaves'[n]
    BY <1>2
  <2>2. n \in slave_node' /\ ~Has(toSlave'[n], Welcomes)
    BY <1>2 DEF Ready
  <2>. QED BY <1>3, <2>1, <2>2 DEF Joining, Started
<1>. QED BY <1>1, <1>5, <1>6 DEF Joined, Ready

LEMMA AcceptSlaveJoined ==
    ASSUME Net, NEW m \in Node, NEW n \in Node \ {m}, AcceptSlave(m, n)
    PROVE  Joined'
<1>1. Types /\ Joined /\ Links /\ phase[m] = "accept" /\ n < m
  BY Accepting, Zenon DEF Net, AcceptSlave
<1>2. /\ m \in slave_node /\ ~Has(toSlave[m], Welcomes) /\ need[m] = m - 1 /\ m > 1
      /\ slaves[m] \subseteq 1..(m - 1) /\ Silent(m) /\ connecting[m] = {}
  BY <1>1 DEF Joined, Joining, Started
<1>3. /\ slaves'[m] = slaves[m] \cup {n} /\ \A k \in Node \ {m} : slaves'[k] = slaves[k]
  BY <1>1, AcceptMail
<1>. DEFINE box == Append(inbox[m], Command(m, n))
<1>4. /\ box \in Seq(Box[m])
      /\ \/ Enough(m, slaves'[m]) /\ ready(m, box)
         \/ ~Enough(m, slaves'[m]) /\ Mailbox(m, box) /\ UNCHANGED <<phase, connecting, connect_queue>>
  BY <1>1, AcceptMail
<1>. HIDE DEF box
<1>5. slaves'[m] \subseteq 1..(m - 1)
  BY <1>1, <1>2, <1>3, NodeFacts
<1>6. \A k \in Node \ {m} : /\ inbox'[k] = inbox[k] /\ phase'[k] = phase[k]
                            /\ connecting'[k] = connecting[k]
                            /\ connect_queue'[k] = connect_queue[k]
  <2>1. CASE ready(m, box)
    <3>1. \A k \in Node \ {m} : inbox'[k] = inbox[k]
      BY <1>1, <1>4, <2>1, ReadyMail DEF Mailbox
    <3>. QED BY <1>1, <2>1, <3>1 DEF ready, Types, SlaveTypes
  <2>2. CASE Mailbox(m, box) /\ UNCHANGED <<phase, connecting, connect_queue>>
    BY <2>2 DEF Mailbox
  <2>. QED BY <1>4, <2>1, <2>2
<1>7. ASSUME NEW k \in Node, k # m PROVE Joining(k)'
  <2>1. Steady(k)
    BY <1>1, <1>3, <1>6, <1>7, SameSteady DEF AcceptSlave, OrdersQuiet
  <2>. QED BY <1>1, <2>1, SteadyJoining DEF AcceptSlave
<1>8. Joining(m)'
  <2>0. m \in slave_node' /\ ~Has(toSlave'[m], Welcomes) /\ need'[m] = m - 1
    BY <1>2 DEF AcceptSlave
  <2>1. CASE Enough(m, slaves'[m]) /\ ready(m, box)
    <3>1. phase'[m] = "up" /\ connect_queue'[m] = {}
      BY <1>1, <2>1 DEF ready, Types, SlaveTypes
    <3>2. 1..(m - 1) \subseteq slaves'[m]
      <4>1. m \in Nat
        BY NodeFacts
      <4>2. IsFiniteSet(1..(m - 1)) /\ Cardinality(1..(m - 1)) = m - 1
        BY <1>2, <4>1, FS_Interval
      <4>3. Cardinality(slaves'[m]) >= m - 1
        BY <1>2, <2>1 DEF Enough
      <4>4. /\ IsFiniteSet(slaves'[m]) /\ Cardinality(slaves'[m]) <= m - 1
            /\ Cardinality(1..(m - 1)) = Cardinality(slaves'[m]) => 1..(m - 1) = slaves'[m]
        BY <1>5, <4>2, FS_Subset, Zenon
      <4>5. Cardinality(slaves'[m]) \in Nat
        BY <4>4, FS_CardinalityType
      <4>6. Cardinality(slaves'[m]) = m - 1
        BY <4>1, <4>3, <4>4, <4>5
      <4>. QED BY <4>2, <4>4, <4>6, Zenon
    <3>. QED BY <2>0, <3>1, <3>2 DEF Joining, Started
  <2>2. CASE Mailbox(m, box) /\ UNCHANGED <<phase, connecting, connect_queue>>
    <3>1. phase'[m] = "accept" /\ connecting'[m] = {}
      BY <1>1, <1>2, <2>2
    <3>2. Silent(m)'
      <4>1. inbox[m] \in Seq(Connects(m)) /\ Command(m, n) \in Connects(m)
        BY <1>2 DEF Silent, Connects
      <4>2. inbox'[m] \in Seq(Connects(m))
        BY <2>2, <4>1, SeqFacts DEF Mailbox, box
      <4>. QED BY <1>2, <4>2 DEF Silent, AcceptSlave
    <3>. QED BY <1>2, <1>5, <2>0, <3>1, <3>2 DEF Joining, Started
  <2>. QED BY <1>4, <2>1, <2>2
<1>. QED BY <1>1, <1>7, <1>8 DEF Joined, AcceptSlave

LEMMA JoinedNext ==
    ASSUME Net, [Next]_vars
    PROVE  Joined'
<1>1. CASE UNCHANGED vars
  <2>1. Joined
    BY DEF Net
  <2>. QED BY <1>1, <2>1 DEF vars, Joined, Joining, Started, Silent
<1>2. ASSUME NEW n \in Node,
             \/ Handshake(n) \/ MasterRegister(n) \/ MasterQuery(n)
             \/ ReadW(n) \/ Ready(n) \/ MasterConnect(n) \/ MasterName(n) \/ HarborQuery(n)
             \/ UpdateName(n) \/ StartConnection(n) \/ RemoteSendHandle(n) \/ RemoteSendName(n)
      PROVE  Joined'
  BY <1>2, HandshakeJoined, MasterRegisterJoined, MasterQueryJoined, ReadWJoined, ReadyJoined,
     MasterConnectJoined, MasterNameJoined, HarborQueryJoined, HarborJoined
<1>3. ASSUME NEW n \in Node, NEW m \in Node \ {n},
             \/ AcceptSlave(n, m) \/ ReadyConnect(n, m)
             \/ PushSocketData(n, m) \/ DropPackage(n, m)
      PROVE  Joined'
  BY <1>3, AcceptSlaveJoined, ReadyConnectJoined, SocketJoined
<1>4. ASSUME NEW n \in Node, NEW x \in Name,
             Register(n, x) \/ QueryName(n, x) \/ SendName(n, x) \/ SendHandle(n, x)
      PROVE  Joined'
  BY <1>4, ServiceJoined
<1>. QED BY <1>1, <1>2, <1>3, <1>4 DEF Next

-----------------------------------------------------------------------------
(* Every action keeps the connections in order.                             *)

LEMMA ConcatHead ==
    ASSUME NEW V, NEW p \in Seq(V), p # <<>>, NEW q \in Seq(V)
    PROVE  p \o q # <<>> /\ Head(p \o q) = Head(p) /\ Tail(p \o q) = Tail(p) \o q
  OBVIOUS

LEMMA IdFacts ==
    ASSUME NEW n \in Node, NEW w \in Seq(From(n) \cup {Id})
    PROVE  /\ ~NoId(<<Id>>) /\ FirstId(<<Id>>)
           /\ \A q \in Seq(From(n)) : NoId(q)
           /\ w # <<>> /\ NoId(w) => NoId(Tail(w)) /\ Head(w) # Id
           /\ FirstId(w) => NoId(Tail(w))
           /\ \A q \in Seq(From(n)) : /\ NoId(w) => NoId(w \o q)
                                      /\ FirstId(w) => FirstId(w \o q)
<1>1. ASSUME NEW q \in Seq(From(n)) PROVE NoId(q) /\ q \in Seq(From(n) \cup {Id})
  <2>1. \A e \in From(n) : e # Id
    BY IdIsNoMsg DEF From
  <2>2. \A i \in DOMAIN q : q[i] \in From(n)
    BY LenProperties, ElementOfSeq
  <2>3. q \in Seq(From(n) \cup {Id})
    BY SeqSubset, From(n) \subseteq From(n) \cup {Id}
  <2>. QED BY <2>1, <2>2, <2>3 DEF NoId, Has
<1>2. ~NoId(<<Id>>) /\ FirstId(<<Id>>)
  <2>1. Has(<<Id>>, {Id})
    BY HasOne
  <2>2. Tail(<<Id>>) = <<>> /\ Head(<<Id>>) = Id /\ <<Id>> # <<>>
    OBVIOUS
  <2>. QED BY <2>1, <2>2, HasEmpty DEF NoId, FirstId
<1>3. w # <<>> /\ NoId(w) => NoId(Tail(w)) /\ Head(w) # Id
  BY HasTail DEF NoId
<1>4. FirstId(w) => NoId(Tail(w))
  BY DEF FirstId, NoId
<1>5. ASSUME NEW q \in Seq(From(n))
      PROVE  (NoId(w) => NoId(w \o q)) /\ (FirstId(w) => FirstId(w \o q))
  <2>1. NoId(q) /\ q \in Seq(From(n) \cup {Id})
    BY <1>1
  <2>2. ASSUME NoId(w) PROVE NoId(w \o q)
    BY <2>1, <2>2, HasConcat DEF NoId
  <2>3. ASSUME FirstId(w) PROVE FirstId(w \o q)
    <3>1. w # <<>> /\ Head(w) = Id /\ ~Has(Tail(w), {Id})
      BY <2>3 DEF FirstId
    <3>2. w \o q # <<>> /\ Head(w \o q) = Head(w) /\ Tail(w \o q) = Tail(w) \o q
      BY <2>1, <3>1, ConcatHead, Zenon
    <3>3. Tail(w) \in Seq(From(n) \cup {Id})
      BY <3>1, TailFacts
    <3>4. ~Has(Tail(w) \o q, {Id})
      BY <2>1, <3>1, <3>3, HasConcat, Zenon DEF NoId
    <3>. QED BY <3>1, <3>2, <3>4, Zenon DEF FirstId
  <2>. QED BY <2>2, <2>3
<1>. QED BY <1>1, <1>2, <1>3, <1>4, <1>5

\* The mailbox of n's harbor keeps the command for m.
MailQuiet(n, m) ==
    /\ Has(inbox'[n], {Command(n, m)}) <=> Has(inbox[n], {Command(n, m)})
    /\ Lone(inbox[n], {Command(n, m)}) => Lone(inbox'[n], {Command(n, m)})

LEMMA MailSame ==
    ASSUME NEW n \in Node, inbox'[n] = inbox[n], NEW m \in Node PROVE MailQuiet(n, m)
  BY DEF MailQuiet

LEMMA NotCommand ==
    ASSUME NEW n \in Node, NEW m \in Node \ {n}, NEW q, ~Has(q, Connects(n))
    PROVE  ~Has(q, {Command(n, m)})
  BY DEF Has, Connects

LEMMA MailGrows ==
    ASSUME Types, NEW n \in Node, NEW more \in Seq(Box[n]), ~Has(more, Connects(n)),
           Mailbox(n, inbox[n] \o more), NEW m \in Node \ {n}
    PROVE  MailQuiet(n, m)
<1>1. inbox[n] \in Seq(Box[n]) /\ inbox'[n] = inbox[n] \o more
  BY MoreNames DEF Mailbox
<1>2. ~Has(more, {Command(n, m)})
  BY NotCommand
<1>3. Has(inbox[n] \o more, {Command(n, m)}) <=> Has(inbox[n], {Command(n, m)})
  BY <1>1, <1>2, HasConcat
<1>4. Lone(inbox[n], {Command(n, m)}) => Lone(inbox[n] \o more, {Command(n, m)})
  BY <1>1, <1>2, LoneConcat
<1>. QED BY <1>1, <1>3, <1>4 DEF MailQuiet

LEMMA MailAppends ==
    ASSUME Types, NEW n \in Node, NEW e \in Box[n], NEW m \in Node \ {n}, e # Command(n, m),
           Mailbox(n, Append(inbox[n], e))
    PROVE  MailQuiet(n, m)
<1>1. inbox[n] \in Seq(Box[n]) /\ inbox'[n] = Append(inbox[n], e)
  BY MoreNames DEF Mailbox
<1>2. Has(Append(inbox[n], e), {Command(n, m)}) <=> Has(inbox[n], {Command(n, m)})
  BY <1>1, HasAppend
<1>3. Lone(inbox[n], {Command(n, m)}) => Lone(Append(inbox[n], e), {Command(n, m)})
  BY <1>1, LoneAppend
<1>. QED BY <1>1, <1>2, <1>3 DEF MailQuiet

LEMMA MailPops ==
    ASSUME Types, NEW n \in Node, inbox[n] # <<>>, NEW m \in Node \ {n},
           Head(inbox[n]) # Command(n, m), Mailbox(n, Tail(inbox[n]))
    PROVE  MailQuiet(n, m)
<1>1. inbox[n] \in Seq(Box[n]) /\ inbox'[n] = Tail(inbox[n])
  BY MoreNames DEF Mailbox
<1>2. Has(Tail(inbox[n]), {Command(n, m)}) <=> Has(inbox[n], {Command(n, m)})
  BY <1>1, HasTail
<1>3. Lone(inbox[n], {Command(n, m)}) => Lone(Tail(inbox[n]), {Command(n, m)})
  BY <1>1, LoneTail
<1>. QED BY <1>1, <1>2, <1>3 DEF MailQuiet

\* n has something to send to m, or nothing has happened.
WireQuiet(n, m) ==
    \/ wire'[n][m] = wire[n][m]
    \/ status[n][m] # "WAIT" /\ \E q \in Seq(From(n)) : wire'[n][m] = wire[n][m] \o q

EndQuiet(n, m) ==
    /\ m \in slaves'[n] <=> m \in slaves[n]
    /\ MailQuiet(n, m) /\ status'[n][m] = status[n][m] /\ WireQuiet(n, m)

LEMMA EndKept ==
    ASSUME Types, NEW n \in Node, NEW m \in Node, EndQuiet(n, m), NEW s, End(n, m, s)
    PROVE  End(n, m, s)'
<1>1. /\ s \in {"closed", "opened"} => wire[n][m] = <<>> /\ status[n][m] = "WAIT"
      /\ s \in {"asking", "greeting"} => FirstId(wire[n][m])
      /\ s \in {"waiting", "ready"} => NoId(wire[n][m])
  BY DEF End
<1>2. /\ s \in {"closed", "opened"} => wire'[n][m] = <<>>
      /\ s \in {"asking", "greeting"} => FirstId(wire'[n][m])
      /\ s \in {"waiting", "ready"} => NoId(wire'[n][m])
  <2>1. CASE wire'[n][m] = wire[n][m]
    BY <1>1, <2>1
  <2>2. CASE status[n][m] # "WAIT" /\ \E q \in Seq(From(n)) : wire'[n][m] = wire[n][m] \o q
    <3>1. wire[n][m] \in Seq(From(n) \cup {Id})
      BY WireFacts
    <3>2. PICK q \in Seq(From(n)) : wire'[n][m] = wire[n][m] \o q
      BY <2>2
    <3>. QED BY <1>1, <2>2, <3>1, <3>2, IdFacts, Zenon
  <2>. QED BY <2>1, <2>2 DEF EndQuiet, WireQuiet
<1>3. CASE s = "opened"
  BY <1>2, <1>3 DEF End, EndQuiet, MailQuiet
<1>4. CASE s # "opened"
  BY <1>2, <1>4 DEF End, EndQuiet, MailQuiet
<1>. QED BY <1>3, <1>4

ToldQuiet(a, b) == (Untold(a, b) => Untold(a, b)') /\ (Told(a, b) => Told(a, b)')

LEMMA LinkKept ==
    ASSUME Types, NEW a \in Node, NEW b \in Node, a # b,
           Link(a, b), EndQuiet(a, b), EndQuiet(b, a), ToldQuiet(a, b),
           b \in slave_node' <=> b \in slave_node
    PROVE  Link(a, b)'
<1>1. \A s : End(a, b, s) => End(a, b, s)'
  BY EndKept
<1>2. \A s : End(b, a, s) => End(b, a, s)'
  BY EndKept
<1>3. \A p, q : Ends(a, b, p, q) => Ends(a, b, p, q)'
  BY <1>1, <1>2 DEF Ends
<1>. QED BY <1>3 DEF Link, ToldQuiet

\* No order to connect to b comes or goes.
CallQuiet(a, b) ==
    \/ toSlave'[a] = toSlave[a]
    \/ \E e \in Orders[a] : e # Call(b) /\ toSlave'[a] = Append(toSlave[a], e)
    \/ toSlave[a] # <<>> /\ Head(toSlave[a]) # Call(b) /\ toSlave'[a] = Tail(toSlave[a])

LEMMA CallKept ==
    ASSUME Types, NEW a \in Node, NEW b, CallQuiet(a, b)
    PROVE  /\ Has(toSlave'[a], {Call(b)}) <=> Has(toSlave[a], {Call(b)})
           /\ Lone(toSlave[a], {Call(b)}) => Lone(toSlave'[a], {Call(b)})
<1>1. toSlave[a] \in Seq(Orders[a])
  BY DEF Types, MasterTypes, Queues
<1>2. CASE toSlave'[a] = toSlave[a]
  BY <1>2
<1>3. ASSUME NEW e \in Orders[a], e # Call(b), toSlave'[a] = Append(toSlave[a], e)
      PROVE  /\ Has(toSlave'[a], {Call(b)}) <=> Has(toSlave[a], {Call(b)})
             /\ Lone(toSlave[a], {Call(b)}) => Lone(toSlave'[a], {Call(b)})
  <2>1. Has(Append(toSlave[a], e), {Call(b)}) <=> Has(toSlave[a], {Call(b)})
    BY <1>1, <1>3, HasAppend
  <2>2. Lone(toSlave[a], {Call(b)}) => Lone(Append(toSlave[a], e), {Call(b)})
    BY <1>1, <1>3, LoneAppend
  <2>. QED BY <1>3, <2>1, <2>2
<1>4. CASE toSlave[a] # <<>> /\ Head(toSlave[a]) # Call(b) /\ toSlave'[a] = Tail(toSlave[a])
  <2>1. Has(Tail(toSlave[a]), {Call(b)}) <=> Has(toSlave[a], {Call(b)})
    BY <1>1, <1>4, HasTail
  <2>2. Lone(toSlave[a], {Call(b)}) => Lone(Tail(toSlave[a]), {Call(b)})
    BY <1>1, <1>4, LoneTail
  <2>. QED BY <1>4, <2>1, <2>2
<1>. QED BY <1>2, <1>3, <1>4, Zenon DEF CallQuiet

LEMMA ToldKept ==
    ASSUME Types, NEW a \in Node, NEW b, CallQuiet(a, b),
           b \in connect_queue'[a] <=> b \in connect_queue[a],
           b \in connecting'[a] <=> b \in connecting[a]
    PROVE  ToldQuiet(a, b)
  BY CallKept DEF ToldQuiet, Told, Untold

\* An action that touches no connection.
LEMMA CalmLinks ==
    ASSUME Types, Links, slaves' = slaves, slave_node' = slave_node, status' = status,
           \A n \in Node : \A m \in Node \ {n} : MailQuiet(n, m) /\ WireQuiet(n, m),
           \A a, b \in Node : a < b => ToldQuiet(a, b)
    PROVE  Links'
<1>1. \A n \in Node : \A m \in Node \ {n} : EndQuiet(n, m)
  BY DEF EndQuiet
<1>2. ASSUME NEW a \in Node, NEW b \in Node, a < b PROVE Link(a, b)'
  <2>1. a # b /\ b \in Node \ {a} /\ a \in Node \ {b}
    BY <1>2, NodeFacts
  <2>2. Link(a, b) /\ ToldQuiet(a, b) /\ EndQuiet(a, b) /\ EndQuiet(b, a)
    BY <1>1, <1>2, <2>1 DEF Links
  <2>. QED BY <2>1, <2>2, LinkKept
<1>. QED BY <1>2 DEF Links

LEMMA UntouchedTold ==
    ASSUME Types, UNCHANGED <<toSlave, connect_queue, connecting>>
    PROVE  \A a, b \in Node : ToldQuiet(a, b)
  BY ToldKept DEF CallQuiet

LEMMA Unlike ==
    ASSUME NEW n \in Node, NEW m \in Node \ {n}
    PROVE  /\ Command(n, m) \in Connects(n) /\ Command(n, m).cmd \in {"S", "A"}
           /\ \A e : e.cmd \notin {"S", "A"} => e # Command(n, m)
           /\ \A k \in Node \ {n} : k # m => Command(n, k) # Command(n, m)
  BY CommandFacts DEF Connects

LEMMA HarborQueryLinks ==
    ASSUME Net, NEW n \in Node, HarborQuery(n)
    PROVE  Links'
<1>1. Types /\ Links
  BY DEF Net
<1>2. PICK x \in Name :
          \/ /\ globalname[n][x] \in Node
             /\ Mailbox(n, Append(inbox[n], NCommand(x, globalname[n][x])))
          \/ inbox' = inbox
  BY <1>1, HarborQueryMail
<1>3. ASSUME NEW k \in Node, NEW m \in Node \ {k} PROVE MailQuiet(k, m)
  <2>1. CASE inbox'[k] = inbox[k]
    BY <2>1, MailSame
  <2>2. CASE /\ k = n /\ globalname[n][x] \in Node
             /\ Mailbox(n, Append(inbox[n], NCommand(x, globalname[n][x])))
    <3>1. /\ NCommand(x, globalname[n][x]) \in Box[n]
          /\ NCommand(x, globalname[n][x]) # Command(n, m)
      BY <2>2, AddressFacts, Unlike
    <3>. QED BY <1>1, <2>2, <3>1, MailAppends
  <2>. QED BY <1>2, <2>1, <2>2 DEF Mailbox
<1>4. \A a, b \in Node : ToldQuiet(a, b)
  BY <1>1, UntouchedTold DEF HarborQuery
<1>5. /\ slaves' = slaves /\ slave_node' = slave_node /\ status' = status
      /\ \A k \in Node : \A m \in Node \ {k} : MailQuiet(k, m) /\ WireQuiet(k, m)
  BY <1>3 DEF HarborQuery, WireQuiet
<1>. QED BY <1>1, <1>4, <1>5, CalmLinks

LEMMA ServiceLinks ==
    ASSUME Net, NEW n \in Node, NEW x \in Name,
           Register(n, x) \/ QueryName(n, x) \/ SendName(n, x) \/ SendHandle(n, x)
    PROVE  Links'
<1>1. Types /\ Links
  BY DEF Net
<1>2. inbox' = inbox \/ \E e \in Box[n] : e.cmd \notin {"S", "A"} /\ Mailbox(n, Append(inbox[n], e))
  <2>1. CASE Register(n, x)
    BY <1>1, <2>1, RegisterMail, AddressFacts
  <2>2. CASE QueryName(n, x)
    BY <2>2 DEF QueryName
  <2>3. CASE SendName(n, x)
    <3>1. NewMsg(n, x) \in NamedBy(n, x)
      BY <1>1, <2>3, NewMsgFacts DEF SendName
    <3>2. ToName(x, NewMsg(n, x)) \in Box[n] /\ ToName(x, NewMsg(n, x)).cmd = "name"
      BY <3>1 DEF Box, NameSends, ToName
    <3>3. Mailbox(n, Append(inbox[n], ToName(x, NewMsg(n, x))))
      BY <1>1, <2>3, SendNameTypes
    <3>. QED BY <3>2, <3>3
  <2>4. CASE SendHandle(n, x)
    <3>. DEFINE e == ToHandle(globalname[n][x], NewMsg(n, NULL))
    <3>1. NewMsg(n, NULL) \in NamedBy(n, NULL)
      BY <1>1, <2>4, NewMsgFacts DEF SendHandle
    <3>2. globalname[n][x] \in Node /\ Mailbox(n, Append(inbox[n], e))
      BY <1>1, <2>4, SendHandleTypes
    <3>3. e \in Box[n] /\ e.cmd = "handle"
      BY <3>1, <3>2 DEF Box, HandleSends, ToHandle
    <3>. QED BY <3>2, <3>3
  <2>. QED BY <2>1, <2>2, <2>3, <2>4
<1>3. ASSUME NEW k \in Node, NEW m \in Node \ {k} PROVE MailQuiet(k, m)
  <2>1. CASE inbox'[k] = inbox[k]
    BY <2>1, MailSame
  <2>2. ASSUME NEW e \in Box[n], e.cmd \notin {"S", "A"}, Mailbox(n, Append(inbox[n], e)), k = n
        PROVE  MailQuiet(k, m)
    <3>1. e # Command(n, m)
      BY <2>2, Unlike
    <3>. QED BY <1>1, <2>2, <3>1, MailAppends
  <2>. QED BY <1>2, <2>1, <2>2 DEF Mailbox
<1>4. /\ UNCHANGED <<slaves, slave_node, status, wire>>
      /\ UNCHANGED <<toSlave, connect_queue, connecting>>
  BY DEF Register, QueryName, SendName, SendHandle
<1>5. \A a, b \in Node : ToldQuiet(a, b)
  BY <1>1, <1>4, UntouchedTold
<1>6. \A k \in Node : \A m \in Node \ {k} : MailQuiet(k, m) /\ WireQuiet(k, m)
  BY <1>3, <1>4 DEF WireQuiet
<1>. QED BY <1>1, <1>4, <1>5, <1>6, CalmLinks

\* A message is sent only on a connection there is.
LEMMA MovesQuiet ==
    ASSUME Types, NEW n \in Node, NEW h \in Node, NEW q \in Seq(From(n)), Moves(n, h, q)
    PROVE  \A k, m \in Node : WireQuiet(k, m)
<1>1. \A k, l \in Node : wire'[k][l] = wire[k][l]
                 \/ (k = n /\ l = h /\ h # n /\ status[n][h] # "WAIT"
                     /\ wire'[k][l] = wire[k][l] \o q)
  BY MovesFacts DEF Types
<1>. QED BY <1>1 DEF WireQuiet

LEMMA DeliveryLinks ==
    ASSUME Net, NEW n \in Node, UpdateName(n) \/ RemoteSendHandle(n) \/ RemoteSendName(n)
    PROVE  Links'
<1>1. Types /\ Links
  BY DEF Net
<1>2. /\ inbox[n] # <<>> /\ Mailbox(n, Tail(inbox[n])) /\ Head(inbox[n]).cmd \notin {"S", "A"}
  BY <1>1, FirstMail DEF UpdateName, RemoteSendHandle, RemoteSendName
<1>3. ASSUME NEW k \in Node, NEW m \in Node \ {k} PROVE MailQuiet(k, m)
  <2>1. CASE k # n
    BY <1>2, <2>1, MailSame DEF Mailbox
  <2>2. CASE k = n
    <3>1. Head(inbox[n]) # Command(n, m)
      BY <1>2, <2>2, Unlike
    <3>. QED BY <1>1, <1>2, <2>2, <3>1, MailPops
  <2>. QED BY <2>1, <2>2
<1>4. \A k, m \in Node : WireQuiet(k, m)
  <2>1. CASE UpdateName(n)
    <3>1. PICK x \in Name, h \in Node : \E q \in Seq(NamedBy(n, x)) :
              q \in Seq(From(n)) /\ Moves(n, h, q)
      BY <1>1, <2>1, UpdateNameMoves
    <3>. QED BY <1>1, <3>1, MovesQuiet
  <2>2. CASE RemoteSendHandle(n)
    <3>1. \E h \in Node, q \in Seq(From(n)) : Moves(n, h, q)
      BY <1>1, <2>2, RemoteSendHandleMoves, Zenon
    <3>. QED BY <1>1, <3>1, MovesQuiet
  <2>3. CASE RemoteSendName(n)
    <3>1. PICK x \in Name : \E e \in NamedBy(n, x) :
              \/ UNCHANGED <<queue, wire, got>>
              \/ /\ value[n][x] \in Node /\ <<Handled(e)>> \in Seq(From(n))
                 /\ Moves(n, value[n][x], <<Handled(e)>>)
      BY <1>1, <2>3, RemoteSendNameMoves
    <3>2. CASE UNCHANGED <<queue, wire, got>>
      BY <3>2 DEF WireQuiet
    <3>. QED BY <1>1, <3>1, <3>2, MovesQuiet, Zenon
  <2>. QED BY <2>1, <2>2, <2>3
<1>5. /\ UNCHANGED <<slaves, slave_node, status>>
      /\ UNCHANGED <<toSlave, connect_queue, connecting>>
  BY DEF UpdateName, RemoteSendHandle, RemoteSendName
<1>6. \A a, b \in Node : ToldQuiet(a, b)
  BY <1>1, <1>5, UntouchedTold
<1>. QED BY <1>1, <1>3, <1>4, <1>5, <1>6, CalmLinks

LEMMA NotCall ==
    /\ \A x \in Name, h \in Node : \A b : NCommand(x, h) # Call(b)
    /\ \A k, b : Welcome(k) # Call(b)
    /\ \A k, b : Call(k) = Call(b) => k = b
<1>1. \A b : Call(b).cmd = "C" /\ Call(b).to = b
  BY DEF Call
<1>2. \A k : Welcome(k).cmd = "W"
  BY DEF Welcome
<1>. QED BY <1>1, <1>2, AddressFacts

LEMMA MasterLinks ==
    ASSUME Net, NEW n \in Node, MasterRegister(n) \/ MasterQuery(n)
    PROVE  Links'
<1>1. Types /\ Joined /\ Links
  BY DEF Net
<1>2. ASSUME NEW a \in Node, NEW b \in Node PROVE CallQuiet(a, b)
  <2>1. toSlave'[a] = toSlave[a]
        \/ \E x \in Name, h \in Node : toSlave'[a] = Append(toSlave[a], NCommand(x, h))
    <3>0. /\ Queues(toMaster, Requests) /\ toMaster[n] # <<>> /\ Head(toMaster[n]) \in Requests[n]
      BY <1>1, QueuesPop DEF Types, MasterTypes, MasterRegister, MasterQuery
    <3>1. CASE MasterRegister(n)
      <4>1. PICK x \in Name : Head(toMaster[n]).name = x /\ Head(toMaster[n]).to = n
        BY <3>0, <3>1, RequestKinds DEF MasterRegister
      <4>2. toSlave'[a] = toSlave[a] \/ toSlave'[a] = Append(toSlave[a], NCommand(x, n))
        BY <3>1, <4>1 DEF MasterRegister
      <4>. QED BY <4>2
    <3>2. CASE MasterQuery(n)
      <4>1. PICK x \in Name : Head(toMaster[n]).name = x
        BY <3>0, <3>2, RequestKinds DEF MasterQuery
      <4>2. CASE toSlave' = toSlave
        BY <4>2
      <4>3. CASE /\ global_name[x] # NULL
                 /\ toSlave' = Push(toSlave, n, NCommand(x, global_name[x]))
        <5>1. global_name[x] \in Node /\ Queues(toSlave, Orders)
          BY <1>1, <4>3 DEF Types, MasterTypes, Address
        <5>2. NCommand(x, global_name[x]) \in Orders[n]
          BY <5>1, AddressFacts
        <5>3. /\ toSlave'[n] = Append(toSlave[n], NCommand(x, global_name[x]))
              /\ \A m \in Node \ {n} : toSlave'[m] = toSlave[m]
          BY <4>3, <5>1, <5>2, QueuesPush
        <5>. QED BY <5>1, <5>3
      <4>. QED BY <3>2, <4>1, <4>2, <4>3 DEF MasterQuery
    <3>. QED BY <3>1, <3>2
  <2>. QED BY <2>1, AddressFacts, NotCall DEF CallQuiet
<1>3. /\ UNCHANGED <<slaves, slave_node, status, inbox, wire>>
      /\ UNCHANGED <<connect_queue, connecting>>
  BY DEF MasterRegister, MasterQuery
<1>4. \A a, b \in Node : ToldQuiet(a, b)
  BY <1>1, <1>2, <1>3, ToldKept
<1>5. \A k \in Node : \A m \in Node \ {k} : MailQuiet(k, m) /\ WireQuiet(k, m)
  BY <1>3, MailSame DEF WireQuiet
<1>. QED BY <1>1, <1>3, <1>4, <1>5, CalmLinks

LEMMA ReadLinks ==
    ASSUME Net, NEW n \in Node, ReadW(n) \/ MasterName(n)
    PROVE  Links'
<1>1. Types /\ Joined /\ Links /\ toSlave[n] # <<>>
  BY DEF Net, ReadW, MasterName, Monitoring
<1>2. ASSUME NEW a \in Node, NEW b \in Node PROVE CallQuiet(a, b)
  <2>1. /\ toSlave'[n] = Tail(toSlave[n])
        /\ \A k \in Node \ {n} : toSlave'[k] = toSlave[k]
    BY <1>1, FirstOrder DEF ReadW, MasterName
  <2>2. Head(toSlave[n]) # Call(b)
    <3>1. CASE ReadW(n)
      BY <1>1, <3>1, NotCall DEF ReadW, Joined, Joining
    <3>2. CASE MasterName(n)
      BY <1>1, <3>2, FirstOrder, NotCall DEF MasterName
    <3>. QED BY <3>1, <3>2
  <2>. QED BY <1>1, <2>1, <2>2 DEF CallQuiet
<1>3. UNCHANGED <<slaves, slave_node, status, wire, connect_queue, connecting>>
  BY DEF ReadW, MasterName
<1>4. \A a, b \in Node : ToldQuiet(a, b)
  BY <1>1, <1>2, <1>3, ToldKept
<1>5. ASSUME NEW k \in Node, NEW m \in Node \ {k} PROVE MailQuiet(k, m) /\ WireQuiet(k, m)
  <2>1. CASE inbox'[k] = inbox[k]
    BY <1>3, <2>1, MailSame DEF WireQuiet
  <2>2. CASE MasterName(n) /\ k = n
    <3>1. PICK x \in Name, h \in Node :
              Mailbox(n, Append(inbox[n], NCommand(x, h))) \/ inbox' = inbox
      BY <1>1, <2>2, MasterNameMail
    <3>2. NCommand(x, h) \in Box[n] /\ NCommand(x, h) # Command(n, m)
      BY <2>2, AddressFacts, Unlike
    <3>3. MailQuiet(n, m)
      BY <1>1, <2>2, <3>1, <3>2, MailAppends, MailSame
    <3>. QED BY <1>3, <2>2, <3>3 DEF WireQuiet
  <2>3. CASE MasterName(n) /\ k # n
    <3>1. inbox'[k] = inbox[k]
      BY <1>1, <2>3, MasterNameMail DEF Mailbox
    <3>. QED BY <2>1, <3>1
  <2>4. CASE ReadW(n)
    BY <2>1, <2>4 DEF ReadW
  <2>. QED BY <2>2, <2>3, <2>4
<1>. QED BY <1>1, <1>3, <1>4, <1>5, CalmLinks

\* An action that touches one connection.
LEMMA PairLinks ==
    ASSUME Types, Links, slave_node' = slave_node, NEW n \in Node, NEW m \in Node, Link(n, m)',
           \A a, b \in Node : a < b /\ ~(a = n /\ b = m) =>
               EndQuiet(a, b) /\ EndQuiet(b, a) /\ ToldQuiet(a, b)
    PROVE  Links'
<1>1. ASSUME NEW a \in Node, NEW b \in Node, a < b, ~(a = n /\ b = m) PROVE Link(a, b)'
  <2>1. a # b
    BY <1>1, NodeFacts
  <2>2. Link(a, b) /\ ToldQuiet(a, b) /\ EndQuiet(a, b) /\ EndQuiet(b, a)
    BY <1>1 DEF Links
  <2>. QED BY <2>1, <2>2, LinkKept
<1>. QED BY <1>1 DEF Links

LEMMA HandshakeLinks ==
    ASSUME Net, NEW n \in Node, Handshake(n)
    PROVE  Links'
<1>1. Types /\ Joined /\ Links
  BY DEF Net
<1>. DEFINE c == Cardinality(slave_node)
<1>2. /\ c \in Nat /\ n = c + 1 /\ \A m \in slave_node : m <= c
      /\ slave_node = 1..c
  BY <1>1, SlaveNodes DEF Handshake, Joined
<1>3. slave_node' = slave_node \cup {n} /\ n \notin slave_node
  BY <1>2 DEF Handshake
<1>4. /\ \A a \in Node : a \in slave_node => toSlave'[a] = Append(toSlave[a], Call(n))
      /\ toSlave'[n] = <<Welcome(c)>>
      /\ \A a \in Node : a \notin slave_node /\ a # n => toSlave'[a] = toSlave[a]
  BY <1>3 DEF Handshake, Call, Welcome
<1>5. \A a, b \in Node : a # b => EndQuiet(a, b)
  BY MailSame DEF Handshake, EndQuiet, WireQuiet
<1>6. UNCHANGED <<connect_queue, connecting>>
  BY DEF Handshake
<1>7. c \in 0..Nodes
  BY <1>2, NodeFacts
<1>. HIDE DEF c
<1>8. ASSUME NEW a \in Node, NEW b \in Node, a < b PROVE Link(a, b)'
  <2>1. Link(a, b) /\ EndQuiet(a, b) /\ EndQuiet(b, a) /\ a # b
    BY <1>1, <1>5, <1>8, NodeFacts DEF Links
  <2>2. CASE b # n
    <3>1. CallQuiet(a, b)
      <4>1. CASE a \in slave_node
        <5>1. n \in (a + 1)..Nodes
          BY <1>2, <4>1, NodeFacts
        <5>2. Call(n) \in Orders[a] /\ Call(n) # Call(b)
          BY <2>2, <5>1, NotCall DEF Orders
        <5>. QED BY <1>4, <4>1, <5>2 DEF CallQuiet
      <4>2. CASE a = n
        <5>1. toSlave[n] = <<>>
          BY <1>1, <1>3 DEF Joined, Joining
        <5>2. Welcome(c) \in Orders[n] /\ Welcome(c) # Call(b)
          BY <1>7, NotCall DEF Orders
        <5>3. <<Welcome(c)>> = Append(<<>>, Welcome(c))
          OBVIOUS
        <5>. QED BY <1>4, <4>2, <5>1, <5>2, <5>3 DEF CallQuiet
      <4>3. CASE a \notin slave_node /\ a # n
        BY <1>4, <4>3 DEF CallQuiet
      <4>. QED BY <4>1, <4>2, <4>3
    <3>2. ToldQuiet(a, b)
      BY <1>1, <1>6, <3>1, ToldKept
    <3>3. b \in slave_node' <=> b \in slave_node
      BY <1>3, <2>2
    <3>. QED BY <1>1, <2>1, <3>2, <3>3, LinkKept
  <2>3. CASE b = n
    <3>1. a \in slave_node
      BY <1>2, <1>8, <2>3, NodeFacts
    <3>2. Untold(a, n) /\ End(a, n, "closed") /\ End(n, a, "closed")
      BY <1>3, <2>1, <2>3 DEF Link, Ends
    <3>3. End(a, n, "closed")' /\ End(n, a, "closed")'
      BY <1>1, <2>1, <2>3, <3>2, EndKept
    <3>4. Lone(toSlave'[a], {Call(n)})
      <4>1. n \in (a + 1)..Nodes
        BY <1>8, <2>3, NodeFacts
      <4>2. Call(n) \in Orders[a] /\ toSlave[a] \in Seq(Orders[a])
        BY <1>1, <4>1 DEF Orders, Types, MasterTypes, Queues
      <4>3. Lone(Append(toSlave[a], Call(n)), {Call(n)})
        BY <3>2, <4>2, LoneAppend DEF Untold
      <4>. QED BY <1>4, <3>1, <4>3, Zenon
    <3>5. Told(a, n)'
      BY <1>6, <3>2, <3>4 DEF Told, Untold
    <3>6. n \in slave_node'
      BY <1>3
    <3>. QED BY <2>3, <3>3, <3>5, <3>6 DEF Link, Ends
  <2>. QED BY <2>2, <2>3
<1>. QED BY <1>8 DEF Links

LEMMA ReadyTold ==
    ASSUME Types, NEW n \in Node, NEW box, ready(n, box), connecting[n] = {}, toSlave' = toSlave,
           NEW a \in Node, NEW b \in Node
    PROVE  ToldQuiet(a, b)
<1>1. CASE a # n
  <2>1. connect_queue'[a] = connect_queue[a] /\ connecting'[a] = connecting[a]
    BY <1>1 DEF ready, Types, SlaveTypes
  <2>. QED BY <2>1, ToldKept DEF CallQuiet
<1>2. CASE a = n
  <2>1. connect_queue'[n] = {} /\ connecting'[n] = connect_queue[n]
    BY DEF ready, Types, SlaveTypes
  <2>. QED BY <1>2, <2>1 DEF ToldQuiet, Told, Untold
<1>. QED BY <1>1, <1>2

LEMMA ReadyLinks ==
    ASSUME Net, NEW n \in Node, Ready(n)
    PROVE  Links'
<1>1. Types /\ Joined /\ Links /\ ready(n, inbox[n]) /\ connecting[n] = {}
  BY DEF Net, Ready, Joined, Joining
<1>2. PICK more \in Seq(Box[n]) : ~Has(more, Connects(n)) /\ Mailbox(n, inbox[n] \o more)
  BY <1>1, MoreNames, ReadyMail
<1>3. ASSUME NEW k \in Node, NEW m \in Node \ {k} PROVE MailQuiet(k, m)
  <2>1. CASE k = n
    BY <1>1, <1>2, <2>1, MailGrows
  <2>2. CASE k # n
    BY <1>2, <2>2, MailSame DEF Mailbox
  <2>. QED BY <2>1, <2>2
<1>4. UNCHANGED <<slaves, slave_node, status, wire, toSlave>>
  BY DEF Ready
<1>5. \A a, b \in Node : ToldQuiet(a, b)
  BY <1>1, <1>4, ReadyTold
<1>6. \A k \in Node : \A m \in Node \ {k} : MailQuiet(k, m) /\ WireQuiet(k, m)
  BY <1>3, <1>4 DEF WireQuiet
<1>. QED BY <1>1, <1>4, <1>5, <1>6, CalmLinks

\* The mailbox gets the command for m, then names.
LEMMA MailCommand ==
    ASSUME Types, NEW n \in Node, NEW m \in Node \ {n},
           NEW more \in Seq(Box[n]), ~Has(more, Connects(n)),
           Mailbox(n, Append(inbox[n], Command(n, m)) \o more)
    PROVE  /\ ~Has(inbox[n], {Command(n, m)}) => Lone(inbox'[n], {Command(n, m)})
           /\ \A k \in Node \ {n} : k # m => MailQuiet(n, k)
<1>. DEFINE q == Append(inbox[n], Command(n, m))
<1>1. /\ inbox[n] \in Seq(Box[n]) /\ Command(n, m) \in Box[n] /\ q \in Seq(Box[n])
      /\ inbox'[n] = q \o more
  BY MoreNames, CommandFacts, SeqFacts, Zenon DEF Mailbox
<1>2. ASSUME ~Has(inbox[n], {Command(n, m)}) PROVE Lone(inbox'[n], {Command(n, m)})
  <2>1. Lone(q, {Command(n, m)})
    BY <1>1, <1>2, LoneAppend
  <2>2. ~Has(more, {Command(n, m)})
    BY NotCommand
  <2>. HIDE DEF q
  <2>3. Lone(q \o more, {Command(n, m)})
    BY <1>1, <2>1, <2>2, LoneConcat
  <2>. QED BY <1>1, <2>3
<1>3. ASSUME NEW k \in Node \ {n}, k # m PROVE MailQuiet(n, k)
  <2>1. ~Has(more, {Command(n, k)}) /\ Command(n, m) # Command(n, k)
    BY <1>3, NotCommand, Unlike
  <2>2. /\ Has(q, {Command(n, k)}) <=> Has(inbox[n], {Command(n, k)})
        /\ Lone(inbox[n], {Command(n, k)}) => Lone(q, {Command(n, k)})
    <3>1. Has(q, {Command(n, k)}) <=> Has(inbox[n], {Command(n, k)})
      BY <1>1, <2>1, HasAppend
    <3>2. Lone(inbox[n], {Command(n, k)}) => Lone(q, {Command(n, k)})
      BY <1>1, <2>1, LoneAppend
    <3>. QED BY <3>1, <3>2
  <2>. HIDE DEF q
  <2>3. Has(q \o more, {Command(n, k)}) <=> Has(q, {Command(n, k)})
    BY <1>1, <2>1, HasConcat
  <2>4. Lone(q, {Command(n, k)}) => Lone(q \o more, {Command(n, k)})
    BY <1>1, <2>1, LoneConcat
  <2>. QED BY <1>1, <2>2, <2>3, <2>4 DEF MailQuiet
<1>. QED BY <1>2, <1>3

\* n connects to m, as it has been told.
LEMMA ConnectLinks ==
    ASSUME Net, NEW n \in Node, NEW m \in (n + 1)..Nodes, NEW more \in Seq(Box[n]),
           ~Has(more, Connects(n)), connect_slave(n, m, more),
           Told(n, m), Untold(n, m)', UNCHANGED <<slave_node, status, wire>>,
           \A a, b \in Node : a < b /\ ~(a = n /\ b = m) => ToldQuiet(a, b)
    PROVE  /\ Links' /\ slaves' = [slaves EXCEPT ![n] = @ \cup {m}]
           /\ Mailbox(n, Append(inbox[n], Command(n, m)) \o more)
<1>1. Types /\ Joined /\ Links /\ m \in Node /\ n < m /\ m # n /\ m \in Node \ {n}
  BY NodeFacts DEF Net, Node
<1>2. m \in slave_node /\ End(n, m, "closed") /\ End(m, n, "closed")
  <2>1. ~Untold(n, m)
    BY LoneHas DEF Told, Untold
  <2>. QED BY <1>1, <2>1 DEF Links, Link, Ends
<1>3. m \notin slaves[n] /\ n \notin slaves[m]
  BY <1>2 DEF End
<1>4. phase[m] \in {"hello", "accept"}
  <2>1. phase[m] # "off" /\ phase[m] \in {"off", "hello", "accept", "fork", "up"}
    BY <1>1, <1>2 DEF Joined, Joining, Types, SlaveTypes
  <2>2. n \in 1..(m - 1)
    BY <1>1, NodeFacts
  <2>3. ~Started(m)
    BY <1>1, <1>3, <2>2 DEF Joined, Joining
  <2>. QED BY <2>1, <2>3 DEF Started
<1>5. /\ slaves' = [slaves EXCEPT ![n] = @ \cup {m}]
      /\ Mailbox(n, Append(inbox[n], Command(n, m)) \o more)
  BY <1>1, <1>3, <1>4, ConnectMail
<1>6. /\ slaves'[n] = slaves[n] \cup {m} /\ \A k \in Node \ {n} : slaves'[k] = slaves[k]
  BY <1>1, <1>5 DEF Types, SlaveTypes
<1>7. /\ ~Has(inbox[n], {Command(n, m)}) => Lone(inbox'[n], {Command(n, m)})
      /\ \A k \in Node \ {n} : k # m => MailQuiet(n, k)
  BY <1>1, <1>5, MailCommand, Zenon
<1>8. \A k \in Node \ {n}, l \in Node : MailQuiet(k, l)
  BY <1>5, MailSame DEF Mailbox
<1>9. ASSUME NEW k \in Node, NEW l \in Node \ {k}, ~(k = n /\ l = m) PROVE EndQuiet(k, l)
  <2>1. MailQuiet(k, l)
    BY <1>7, <1>8, <1>9
  <2>2. l \in slaves'[k] <=> l \in slaves[k]
    BY <1>6, <1>9
  <2>. QED BY <2>1, <2>2 DEF EndQuiet, WireQuiet
<1>10. End(m, n, "closed")'
  <2>1. EndQuiet(m, n)
    BY <1>1, <1>9
  <2>. QED BY <1>1, <1>2, <2>1, EndKept
<1>11. End(n, m, "opened")'
  BY <1>2, <1>6, <1>7 DEF End
<1>12. Link(n, m)'
  BY <1>2, <1>10, <1>11 DEF Link, Ends
<1>13. ASSUME NEW a \in Node, NEW b \in Node, a < b, ~(a = n /\ b = m)
       PROVE  EndQuiet(a, b) /\ EndQuiet(b, a) /\ ToldQuiet(a, b)
  <2>1. a # b /\ ~(b = n /\ a = m)
    BY <1>1, <1>13, NodeFacts
  <2>. QED BY <1>9, <1>13, <2>1
<1>14. Links'
  BY <1>1, <1>12, <1>13, PairLinks
<1>. QED BY <1>5, <1>14

LEMMA ToldOrNot ==
    ASSUME Types, NEW a \in Node, NEW b
    PROVE  /\ ~(Told(a, b) /\ Untold(a, b))
           /\ b \in connect_queue[a] \/ b \in connecting[a] \/ Has(toSlave[a], {Call(b)})
                 => ~Untold(a, b)
  BY LoneHas DEF Told, Untold

LEMMA ReadyConnectLinks ==
    ASSUME Net, NEW n \in Node, NEW m \in Node \ {n}, ReadyConnect(n, m)
    PROVE  /\ Links'
           /\ \E more \in Seq(Box[n]) :
                 /\ more = <<>> \/ more = NCommands(globalname[n])
                 /\ ~Has(more, Connects(n))
                 /\ Mailbox(n, Append(inbox[n], Command(n, m)) \o more)
<1>1. Types /\ Joined /\ Links /\ m \in connecting[n]
  BY DEF Net, ReadyConnect
<1>. DEFINE more == IF connecting[n] = {m} THEN NCommands(globalname[n]) ELSE <<>>
<1>2. /\ more \in Seq(Box[n]) /\ ~Has(more, Connects(n)) /\ connect_slave(n, m, more)
      /\ m \in (n + 1)..Nodes /\ (more = <<>> \/ more = NCommands(globalname[n]))
  BY <1>1, MoreNames, Zenon DEF ReadyConnect, Types, SlaveTypes
<1>. HIDE DEF more
<1>3. n < m
  BY <1>2, NodeFacts
<1>4. Told(n, m)
  BY <1>1, <1>3, ToldOrNot, Zenon DEF Links, Link
<1>5. /\ UNCHANGED <<toSlave, connect_queue, slave_node, status, wire>>
      /\ connecting'[n] = connecting[n] \ {m}
      /\ \A k \in Node \ {n} : connecting'[k] = connecting[k]
  BY <1>1 DEF ReadyConnect, Types, SlaveTypes
<1>6. Untold(n, m)'
  BY <1>1, <1>4, <1>5 DEF Told, Untold
<1>7. ASSUME NEW a \in Node, NEW b \in Node, ~(a = n /\ b = m) PROVE ToldQuiet(a, b)
  <2>1. b \in connecting'[a] <=> b \in connecting[a]
    BY <1>5, <1>7
  <2>. QED BY <1>1, <1>5, <2>1, ToldKept DEF CallQuiet
<1>8. Links' /\ Mailbox(n, Append(inbox[n], Command(n, m)) \o more)
  BY <1>2, <1>4, <1>5, <1>6, <1>7, ConnectLinks
<1>. QED BY <1>2, <1>8

LEMMA MasterConnectLinks ==
    ASSUME Net, NEW n \in Node, MasterConnect(n)
    PROVE  /\ Links'
           /\ \/ inbox' = inbox
              \/ \E m \in Node \ {n} : Mailbox(n, Append(inbox[n], Command(n, m)) \o <<>>)
<1>1. Types /\ Joined /\ Links /\ toSlave[n] # <<>>
  BY DEF Net, MasterConnect, Monitoring
<1>2. PICK m \in (n + 1)..Nodes : Head(toSlave[n]) = Call(m) /\ Head(toSlave[n]).to = m
  BY <1>1, FirstOrder DEF MasterConnect
<1>3. m \in Node /\ n < m /\ m \in Node \ {n}
  BY NodeFacts DEF Node
<1>4. /\ toSlave'[n] = Tail(toSlave[n]) /\ \A k \in Node \ {n} : toSlave'[k] = toSlave[k]
      /\ toSlave[n] \in Seq(Orders[n])
  BY <1>1, FirstOrder DEF MasterConnect, Types, MasterTypes, Queues
<1>5. /\ Told(n, m) /\ Lone(toSlave[n], {Call(m)})
      /\ m \notin connect_queue[n] /\ m \notin connecting[n]
  <2>1. Has(toSlave[n], {Call(m)})
    BY <1>1, <1>2, <1>4, HasTail
  <2>2. Told(n, m)
    BY <1>1, <1>3, <2>1, ToldOrNot, Zenon DEF Links, Link
  <2>. QED BY <2>1, <2>2 DEF Told
<1>6. ~Has(toSlave'[n], {Call(m)})
  BY <1>1, <1>2, <1>4, <1>5, LoneTail
<1>7. ASSUME NEW a \in Node, NEW b \in Node, ~(a = n /\ b = m) PROVE CallQuiet(a, b)
  <2>1. CASE a = n
    <3>1. Call(m) # Call(b)
      BY <1>7, <2>1, NotCall
    <3>. QED BY <1>1, <1>2, <1>4, <2>1, <3>1 DEF CallQuiet
  <2>2. CASE a # n
    BY <1>4, <2>2 DEF CallQuiet
  <2>. QED BY <2>1, <2>2
<1>8. UNCHANGED <<slave_node, status, wire, connecting>>
  BY DEF MasterConnect
<1>9. CASE phase[n] = "up"
  <2>. DEFINE more == <<>>
  <2>1. connect_slave(n, m, more) /\ UNCHANGED connect_queue
    BY <1>2, <1>9 DEF MasterConnect
  <2>2. more \in Seq(Box[n]) /\ ~Has(more, Connects(n))
    BY <1>1, MoreNames
  <2>3. Untold(n, m)'
    BY <1>5, <1>6, <1>8, <2>1 DEF Untold
  <2>4. ASSUME NEW a \in Node, NEW b \in Node, ~(a = n /\ b = m) PROVE ToldQuiet(a, b)
    BY <1>1, <1>7, <1>8, <2>1, <2>4, ToldKept
  <2>. HIDE DEF more
  <2>5. Links' /\ Mailbox(n, Append(inbox[n], Command(n, m)) \o more)
    BY <1>5, <1>8, <2>1, <2>2, <2>3, <2>4, ConnectLinks
  <2>. QED BY <1>3, <2>5 DEF more
<1>10. CASE phase[n] # "up"
  <2>1. /\ connect_queue' = [connect_queue EXCEPT ![n] = @ \cup {m}]
        /\ UNCHANGED <<slaves, inbox>>
    BY <1>2, <1>10 DEF MasterConnect
  <2>2. /\ connect_queue'[n] = connect_queue[n] \cup {m}
        /\ \A k \in Node \ {n} : connect_queue'[k] = connect_queue[k]
    BY <1>1, <2>1 DEF Types, SlaveTypes
  <2>3. ASSUME NEW a \in Node, NEW b \in Node, ~(a = n /\ b = m) PROVE ToldQuiet(a, b)
    <3>1. b \in connect_queue'[a] <=> b \in connect_queue[a]
      BY <2>2, <2>3
    <3>2. CallQuiet(a, b)
      BY <1>7, <2>3
    <3>. QED BY <1>1, <1>8, <3>1, <3>2, ToldKept
  <2>4. ToldQuiet(n, m)
    <3>1. Told(n, m)'
      BY <1>5, <1>6, <1>8, <2>2 DEF Told
    <3>. QED BY <1>1, <1>5, <3>1, ToldOrNot, Zenon DEF ToldQuiet
  <2>5. \A a, b \in Node : ToldQuiet(a, b)
    BY <2>3, <2>4, <1>3
  <2>6. \A k \in Node : \A l \in Node \ {k} : MailQuiet(k, l) /\ WireQuiet(k, l)
    BY <1>8, <2>1, MailSame DEF WireQuiet
  <2>7. Links'
    BY <1>1, <1>8, <2>1, <2>5, <2>6, CalmLinks
  <2>. QED BY <2>1, <2>7
<1>. QED BY <1>9, <1>10

LEMMA AcceptSlaveLinks ==
    ASSUME Net, NEW m \in Node, NEW n \in Node \ {m}, AcceptSlave(m, n)
    PROVE  /\ Links'
           /\ \E more \in Seq(Box[m]) :
                 /\ more = <<>> \/ more = NCommands(globalname[m])
                 /\ ~Has(more, Connects(m))
                 /\ Mailbox(m, Append(inbox[m], Command(m, n)) \o more)
<1>1. Types /\ Joined /\ Links /\ n < m /\ m \in slave_node /\ Untold(n, m)
      /\ End(n, m, "asking") /\ End(m, n, "closed") /\ connecting[m] = {}
  BY Accepting, Zenon DEF Net, AcceptSlave, Joined, Joining
<1>. DEFINE box == Append(inbox[m], Command(m, n))
<1>2. /\ box \in Seq(Box[m]) /\ wire'[n][m] = Tail(wire[n][m])
      /\ \A k, l \in Node : k # n \/ l # m => wire'[k][l] = wire[k][l]
      /\ slaves'[m] = slaves[m] \cup {n} /\ \A k \in Node \ {m} : slaves'[k] = slaves[k]
      /\ \/ ready(m, box)
         \/ Mailbox(m, box) /\ UNCHANGED <<phase, connecting, connect_queue>>
  BY <1>1, AcceptMail
<1>3. UNCHANGED <<slave_node, status, toSlave>>
  BY DEF AcceptSlave
<1>. HIDE DEF box
<1>4. PICK more \in Seq(Box[m]) : /\ ~Has(more, Connects(m)) /\ Mailbox(m, box \o more)
                                  /\ more = <<>> \/ more = NCommands(globalname[m])
  <2>1. CASE ready(m, box)
    BY <1>1, <1>2, <2>1, ReadyMail
  <2>2. CASE Mailbox(m, box)
    <3>1. box \o <<>> = box
      BY <1>2, ConcatEmptySeq
    <3>. QED BY <1>1, <2>2, <3>1, MoreNames, Zenon
  <2>. QED BY <1>2, <2>1, <2>2
<1>5. \A a, b \in Node : ToldQuiet(a, b)
  <2>1. CASE ready(m, box)
    BY <1>1, <1>3, <2>1, ReadyTold
  <2>2. CASE UNCHANGED <<phase, connecting, connect_queue>>
    BY <1>1, <1>3, <2>2, UntouchedTold
  <2>. QED BY <1>2, <2>1, <2>2
<1>6. /\ ~Has(inbox[m], {Command(m, n)}) => Lone(inbox'[m], {Command(m, n)})
      /\ \A k \in Node \ {m} : k # n => MailQuiet(m, k)
  BY <1>1, <1>4, MailCommand, Zenon DEF box
<1>7. \A k \in Node \ {m}, l \in Node : MailQuiet(k, l)
  BY <1>4, MailSame DEF Mailbox
<1>8. ASSUME NEW k \in Node, NEW l \in Node \ {k}, ~(k = n /\ l = m), ~(k = m /\ l = n)
      PROVE  EndQuiet(k, l)
  <2>1. MailQuiet(k, l)
    BY <1>6, <1>7, <1>8
  <2>2. l \in slaves'[k] <=> l \in slaves[k]
    BY <1>2, <1>8
  <2>. QED BY <1>2, <1>3, <1>8, <2>1, <2>2 DEF EndQuiet, WireQuiet
<1>9. End(n, m, "waiting")'
  <2>1. FirstId(wire[n][m]) /\ status[n][m] = "HANDSHAKE" /\ m \in slaves[n]
        /\ ~Has(inbox[n], {Command(n, m)})
    BY <1>1 DEF End
  <2>2. NoId(wire'[n][m])
    BY <1>1, <1>2, <2>1, WireFacts, IdFacts, Zenon
  <2>3. m \in slaves'[n] /\ inbox'[n] = inbox[n]
    BY <1>2, <1>4, <2>1 DEF Mailbox
  <2>. QED BY <1>3, <2>1, <2>2, <2>3 DEF End
<1>10. End(m, n, "opened")'
  <2>1. status[m][n] = "WAIT" /\ wire[m][n] = <<>> /\ ~Has(inbox[m], {Command(m, n)})
    BY <1>1 DEF End
  <2>2. wire'[m][n] = <<>> /\ n \in slaves'[m]
    BY <1>2, <2>1
  <2>. QED BY <1>3, <1>6, <2>1, <2>2 DEF End
<1>11. Untold(n, m)' /\ m \in slave_node'
  BY <1>1, <1>3, <1>5 DEF ToldQuiet
<1>12. Link(n, m)'
  BY <1>9, <1>10, <1>11 DEF Link, Ends
<1>13. ASSUME NEW a \in Node, NEW b \in Node, a < b, ~(a = n /\ b = m)
       PROVE  EndQuiet(a, b) /\ EndQuiet(b, a) /\ ToldQuiet(a, b)
  <2>1. a # b /\ ~(b = n /\ a = m)
    BY <1>1, <1>13, NodeFacts
  <2>. QED BY <1>5, <1>8, <1>13, <2>1
<1>14. Links'
  BY <1>1, <1>3, <1>12, <1>13, PairLinks
<1>. QED BY <1>4, <1>14 DEF box

LEMMA IdThen ==
    ASSUME NEW n \in Node, NEW q \in Seq(From(n))
    PROVE  /\ FirstId(<<>> \o <<Id>>)
           /\ FirstId(<<>> \o (<<Id>> \o q))
<1>1. q \in Seq(From(n) \cup {Id}) /\ <<Id>> \in Seq(From(n) \cup {Id})
  BY SeqSubset, From(n) \subseteq From(n) \cup {Id}
<1>2. FirstId(<<Id>>) /\ FirstId(<<Id>> \o q)
  BY <1>1, IdFacts, Zenon
<1>3. <<>> \o <<Id>> = <<Id>> /\ <<>> \o (<<Id>> \o q) = <<Id>> \o q
  BY <1>1, ConcatEmptySeq, ConcatProperties
<1>. QED BY <1>2, <1>3

LEMMA StartConnectionLinks ==
    ASSUME Net, NEW n \in Node, StartConnection(n)
    PROVE  /\ Links'
           /\ \E m \in Node \ {n} : /\ Head(inbox[n]) = Command(n, m) /\ status[n][m] = "WAIT"
                                    /\ status'[n][m] # "WAIT"
                                    /\ \A k, l \in Node : k # n \/ l # m => status'[k][l] = status[k][l]
<1>1. Types /\ Joined /\ Links /\ inbox[n] # <<>>
  BY DEF Net, StartConnection
<1>2. PICK m \in Node \ {n} :
              /\ Head(inbox[n]) = Command(n, m) /\ Mailbox(n, Tail(inbox[n]))
              /\ \/ status[n][m] # "WAIT" /\ UNCHANGED <<status, queue, wire>>
                 \/ /\ status[n][m] = "WAIT" /\ n < m
                    /\ StatusOK(status') /\ Sets(status', status, n, m, "HANDSHAKE")
                    /\ WireOK(wire') /\ Sets(wire', wire, n, m, wire[n][m] \o <<Id>>)
                    /\ queue' = queue
                 \/ /\ status[n][m] = "WAIT" /\ ~(n < m)
                    /\ StatusOK(status') /\ Sets(status', status, n, m, "HEADER")
                    /\ WireOK(wire')
                    /\ Sets(wire', wire, n, m, wire[n][m] \o (<<Id>> \o queue[n][m]))
                    /\ QueueOK(queue') /\ Sets(queue', queue, n, m, <<>>)
  BY <1>1, StartConnectionSets
<1>3. UNCHANGED <<slave_node, slaves, toSlave, connect_queue, connecting>>
  BY DEF StartConnection
<1>4. inbox[n] \in Seq(Box[n]) /\ inbox'[n] = Tail(inbox[n])
  BY <1>1, <1>2, MoreNames DEF Mailbox
<1>5. Has(inbox[n], {Command(n, m)})
  BY <1>1, <1>2, <1>4, HasTail
<1>6. n < m \/ m < n
  BY NodeFacts
<1>7. \A s : End(n, m, s) => s = "opened"
  BY <1>5 DEF End
<1>8. /\ End(n, m, "opened")
      /\ n < m => m \in slave_node /\ Untold(n, m) /\ End(m, n, "closed")
      /\ m < n => n \in slave_node /\ Untold(m, n) /\ End(m, n, "waiting")
  BY <1>1, <1>6, <1>7 DEF Links, Link, Ends
<1>9. /\ status[n][m] = "WAIT" /\ wire[n][m] = <<>> /\ m \in slaves[n]
      /\ ~Has(inbox'[n], {Command(n, m)})
  <2>1. Lone(inbox[n], {Command(n, m)})
    BY <1>8 DEF End
  <2>2. ~Has(Tail(inbox[n]), {Command(n, m)})
    BY <1>1, <1>2, <1>4, <2>1, LoneTail
  <2>. QED BY <1>4, <1>8, <2>2 DEF End
<1>10. \A a, b \in Node : ToldQuiet(a, b)
  BY <1>1, <1>3, UntouchedTold
<1>11. ASSUME NEW k \in Node, NEW l \in Node \ {k}, ~(k = n /\ l = m) PROVE EndQuiet(k, l)
  <2>1. MailQuiet(k, l)
    <3>1. CASE k = n
      <4>1. Head(inbox[n]) # Command(n, l)
        BY <1>2, <1>11, <3>1, Unlike
      <4>. QED BY <1>1, <1>2, <3>1, <4>1, MailPops
    <3>2. CASE k # n
      BY <1>2, <3>2, MailSame DEF Mailbox
    <3>. QED BY <3>1, <3>2
  <2>2. status'[k][l] = status[k][l] /\ wire'[k][l] = wire[k][l]
    BY <1>2, <1>9, <1>11 DEF Sets
  <2>. QED BY <1>3, <2>1, <2>2 DEF EndQuiet, WireQuiet
<1>12. EndQuiet(m, n)
  BY <1>11
<1>13. CASE n < m
  <2>1. End(n, m, "asking")'
    <3>1. status'[n][m] = "HANDSHAKE" /\ wire'[n][m] = <<>> \o <<Id>>
      BY <1>2, <1>9, <1>13 DEF Sets
    <3>2. FirstId(wire'[n][m])
      BY <1>1, <3>1, WireFacts, IdThen, Zenon
    <3>. QED BY <1>3, <1>9, <3>1, <3>2 DEF End
  <2>2. End(m, n, "closed")'
    BY <1>1, <1>8, <1>12, <1>13, EndKept
  <2>3. Untold(n, m)' /\ m \in slave_node'
    BY <1>3, <1>8, <1>10, <1>13 DEF ToldQuiet
  <2>4. Link(n, m)'
    BY <2>1, <2>2, <2>3 DEF Link, Ends
  <2>5. ASSUME NEW a \in Node, NEW b \in Node, a < b, ~(a = n /\ b = m)
        PROVE  EndQuiet(a, b) /\ EndQuiet(b, a) /\ ToldQuiet(a, b)
    <3>1. a # b /\ ~(b = n /\ a = m)
      BY <1>13, <2>5, NodeFacts
    <3>. QED BY <1>10, <1>11, <2>5, <3>1
  <2>6. Links'
    BY <1>1, <1>3, <2>4, <2>5, PairLinks
  <2>. QED BY <1>2, <1>9, <1>13, <2>6 DEF Sets
<1>14. CASE m < n
  <2>0. ~(n < m)
    BY <1>14, NodeFacts
  <2>1. End(n, m, "greeting")'
    <3>1. status'[n][m] = "HEADER" /\ wire'[n][m] = <<>> \o (<<Id>> \o queue[n][m])
      BY <1>2, <1>9, <2>0 DEF Sets
    <3>2. FirstId(wire'[n][m])
      BY <1>1, <3>1, WireFacts, IdThen, Zenon
    <3>. QED BY <1>3, <1>9, <3>1, <3>2 DEF End
  <2>2. End(m, n, "waiting")'
    BY <1>1, <1>8, <1>12, <1>14, EndKept
  <2>3. Untold(m, n)' /\ n \in slave_node'
    BY <1>3, <1>8, <1>10, <1>14 DEF ToldQuiet
  <2>4. Link(m, n)'
    BY <2>1, <2>2, <2>3 DEF Link, Ends
  <2>5. ASSUME NEW a \in Node, NEW b \in Node, a < b, ~(a = m /\ b = n)
        PROVE  EndQuiet(a, b) /\ EndQuiet(b, a) /\ ToldQuiet(a, b)
    <3>1. a # b /\ ~(b = m /\ a = n)
      BY <1>14, <2>5, NodeFacts
    <3>. QED BY <1>10, <1>11, <2>5, <3>1
  <2>6. Links'
    BY <1>1, <1>3, <2>4, <2>5, PairLinks
  <2>. QED BY <1>2, <1>9, <2>0, <2>6 DEF Sets
<1>. QED BY <1>6, <1>13, <1>14

LEMMA EndPops ==
    ASSUME Types, NEW m \in Node, NEW n \in Node \ {m}, NEW s \in {"waiting", "ready"},
           End(m, n, s), wire[m][n] # <<>>, wire'[m][n] = Tail(wire[m][n]),
           UNCHANGED <<slaves, inbox>>, status'[m][n] = status[m][n]
    PROVE  End(m, n, s)' /\ Head(wire[m][n]) # Id
<1>1. NoId(wire[m][n]) /\ wire[m][n] \in Seq(From(m) \cup {Id})
  BY WireFacts DEF End
<1>2. NoId(wire'[m][n]) /\ Head(wire[m][n]) # Id
  BY <1>1, IdFacts
<1>. QED BY <1>2 DEF End

\* When the harbor of n reads from m: one of them waits for the other's id, or both are
\* through.
LEMMA PackageStages ==
    ASSUME Net, NEW n \in Node, NEW m \in Node \ {n}, status[n][m] # "WAIT", wire[m][n] # <<>>
    PROVE  /\ \/ n < m /\ End(n, m, "waiting") /\ End(m, n, "greeting")
              \/ m < n /\ End(n, m, "greeting") /\ End(m, n, "waiting")
              \/ End(n, m, "ready") /\ End(m, n, "ready")
           /\ n < m => m \in slave_node /\ Untold(n, m)
           /\ m < n => n \in slave_node /\ Untold(m, n)
<1>1. \A s \in {"closed", "opened"} : ~End(n, m, s) /\ ~End(m, n, s)
  BY DEF End
<1>2. ~End(m, n, "closed") /\ ~End(m, n, "opened") /\ ~End(n, m, "closed") /\ ~End(n, m, "opened")
  BY <1>1
<1>3. CASE n < m
  <2>1. Link(n, m)
    BY <1>3 DEF Net, Links
  <2>. QED BY <1>2, <1>3, <2>1, NodeFacts DEF Link, Ends
<1>4. CASE m < n
  <2>1. Link(m, n)
    BY <1>4 DEF Net, Links
  <2>. QED BY <1>2, <1>4, <2>1, NodeFacts DEF Link, Ends
<1>5. n < m \/ m < n
  BY NodeFacts
<1>. QED BY <1>3, <1>4, <1>5

\* A link between n and m, whichever was first.
LEMMA PairOfLinks ==
    ASSUME Types, Links, slave_node' = slave_node, NEW n \in Node, NEW m \in Node \ {n},
           n < m => Link(n, m)', m < n => Link(m, n)',
           \A a, b \in Node : a < b => ToldQuiet(a, b),
           \A k \in Node : \A l \in Node \ {k} : {k, l} # {n, m} => EndQuiet(k, l)
    PROVE  Links'
<1>1. n < m \/ m < n
  BY NodeFacts
<1>2. CASE n < m
  <2>1. ASSUME NEW a \in Node, NEW b \in Node, a < b, ~(a = n /\ b = m)
        PROVE  EndQuiet(a, b) /\ EndQuiet(b, a) /\ ToldQuiet(a, b)
    <3>1. a # b /\ ~(a = m /\ b = n)
      BY <1>2, <2>1, NodeFacts
    <3>2. {a, b} # {n, m} /\ {b, a} # {n, m}
      BY <2>1, <3>1
    <3>. QED BY <2>1, <3>1, <3>2
  <2>. QED BY <1>2, <2>1, PairLinks
<1>3. CASE m < n
  <2>1. ASSUME NEW a \in Node, NEW b \in Node, a < b, ~(a = m /\ b = n)
        PROVE  EndQuiet(a, b) /\ EndQuiet(b, a) /\ ToldQuiet(a, b)
    <3>1. a # b /\ ~(a = n /\ b = m)
      BY <1>3, <2>1, NodeFacts
    <3>2. {a, b} # {n, m} /\ {b, a} # {n, m}
      BY <2>1, <3>1
    <3>. QED BY <2>1, <3>1, <3>2
  <2>. QED BY <1>3, <2>1, PairLinks
<1>. QED BY <1>1, <1>2, <1>3

LEMMA PushSocketDataLinks ==
    ASSUME Net, NEW n \in Node, NEW m \in Node \ {n}, PushSocketData(n, m)
    PROVE  Links' /\ (status[n][m] = "HEADER" => Head(wire[m][n]) # Id)
<1>1. Types /\ Links
  BY DEF Net
<1>2. UNCHANGED <<slave_node, slaves, toSlave, connect_queue, connecting, inbox>>
  BY DEF PushSocketData
<1>3. /\ wire[m][n] # <<>> /\ wire'[m][n] = Tail(wire[m][n])
      /\ \/ /\ status[n][m] = "HANDSHAKE" /\ Sets(status', status, n, m, "HEADER")
            /\ wire'[n][m] = wire[n][m] \o queue[n][m]
         \/ /\ status[n][m] = "HEADER"
            /\ wire'[n][m] = wire[n][m] /\ status' = status
      /\ \A k, l \in Node : {k, l} # {n, m} => wire'[k][l] = wire[k][l]
  BY <1>1, PushSocketDataSets, Zenon
<1>4. /\ \/ n < m /\ End(n, m, "waiting") /\ End(m, n, "greeting")
         \/ m < n /\ End(n, m, "greeting") /\ End(m, n, "waiting")
         \/ End(n, m, "ready") /\ End(m, n, "ready")
      /\ n < m => m \in slave_node /\ Untold(n, m)
      /\ m < n => n \in slave_node /\ Untold(m, n)
  BY <1>3, PackageStages DEF PushSocketData
<1>5. \A a, b \in Node : ToldQuiet(a, b)
  BY <1>1, <1>2, UntouchedTold
<1>6. \A k, l \in Node : k # n \/ l # m => status'[k][l] = status[k][l]
  BY <1>3, Zenon DEF Sets
<1>7. \A k \in Node : \A l \in Node \ {k} : {k, l} # {n, m} => EndQuiet(k, l)
  <2>1. ASSUME NEW k \in Node, NEW l \in Node \ {k}, {k, l} # {n, m} PROVE EndQuiet(k, l)
    <3>1. k # n \/ l # m
      BY <2>1
    <3>. QED BY <1>2, <1>3, <1>6, <2>1, <3>1, MailSame DEF EndQuiet, WireQuiet
  <2>. QED BY <2>1
<1>8. m \in Node /\ n \in Node \ {m} /\ status'[m][n] = status[m][n]
  BY <1>6
<1>9. CASE n < m /\ End(n, m, "waiting") /\ End(m, n, "greeting")
  <2>1. status[n][m] = "HANDSHAKE" /\ status'[n][m] = "HEADER"
        /\ wire'[n][m] = wire[n][m] \o queue[n][m]
    BY <1>3, <1>9, Zenon DEF End, Sets
  <2>2. End(n, m, "ready")'
    <3>1. NoId(wire[n][m] \o queue[n][m])
      BY <1>1, <1>9, WireFacts, IdFacts, Zenon DEF End
    <3>. QED BY <1>2, <1>9, <2>1, <3>1 DEF End
  <2>3. End(m, n, "ready")'
    <3>1. FirstId(wire[m][n]) /\ wire[m][n] \in Seq(From(m) \cup {Id})
      BY <1>1, <1>9, WireFacts DEF End
    <3>2. NoId(wire'[m][n])
      BY <1>3, <3>1, IdFacts
    <3>. QED BY <1>2, <1>8, <1>9, <3>2 DEF End
  <2>4. m \in slave_node' /\ Untold(n, m)'
    BY <1>2, <1>4, <1>5, <1>9 DEF ToldQuiet
  <2>5. Link(n, m)'
    BY <2>2, <2>3, <2>4 DEF Link, Ends
  <2>6. ~(m < n)
    BY <1>9, NodeFacts
  <2>7. Links'
    BY <1>1, <1>2, <1>5, <1>7, <2>5, <2>6, PairOfLinks, Zenon
  <2>. QED BY <2>1, <2>7
<1>10. CASE m < n /\ End(n, m, "greeting") /\ End(m, n, "waiting")
  <2>1. status[n][m] = "HEADER" /\ wire'[n][m] = wire[n][m] /\ status' = status
    BY <1>3, <1>10, Zenon DEF End
  <2>2. EndQuiet(n, m)
    BY <1>2, <2>1, MailSame DEF EndQuiet, WireQuiet
  <2>3. End(n, m, "greeting")'
    BY <1>1, <1>10, <2>2, EndKept
  <2>4. End(m, n, "waiting")' /\ Head(wire[m][n]) # Id
    BY <1>1, <1>2, <1>3, <1>8, <1>10, EndPops
  <2>5. n \in slave_node' /\ Untold(m, n)'
    BY <1>2, <1>4, <1>5, <1>10 DEF ToldQuiet
  <2>6. Link(m, n)'
    BY <2>3, <2>4, <2>5 DEF Link, Ends
  <2>7. ~(n < m)
    BY <1>10, NodeFacts
  <2>8. Links'
    BY <1>1, <1>2, <1>5, <1>7, <2>6, <2>7, PairOfLinks, Zenon
  <2>. QED BY <2>4, <2>8
<1>11. CASE End(n, m, "ready") /\ End(m, n, "ready")
  <2>1. status[n][m] = "HEADER" /\ wire'[n][m] = wire[n][m] /\ status' = status
    BY <1>3, <1>11, Zenon DEF End
  <2>2. EndQuiet(n, m)
    BY <1>2, <2>1, MailSame DEF EndQuiet, WireQuiet
  <2>3. End(n, m, "ready")'
    BY <1>1, <1>11, <2>2, EndKept
  <2>4. End(m, n, "ready")' /\ Head(wire[m][n]) # Id
    BY <1>1, <1>2, <1>3, <1>8, <1>11, EndPops
  <2>5. ASSUME n < m PROVE Link(n, m)'
    <3>1. m \in slave_node' /\ Untold(n, m)'
      BY <1>2, <1>4, <1>5, <2>5 DEF ToldQuiet
    <3>. QED BY <2>3, <2>4, <3>1 DEF Link, Ends
  <2>6. ASSUME m < n PROVE Link(m, n)'
    <3>1. n \in slave_node' /\ Untold(m, n)'
      BY <1>2, <1>4, <1>5, <2>6 DEF ToldQuiet
    <3>. QED BY <2>3, <2>4, <3>1 DEF Link, Ends
  <2>7. Links'
    BY <1>1, <1>2, <1>5, <1>7, <2>5, <2>6, PairOfLinks, Zenon
  <2>. QED BY <2>4, <2>7
<1>. QED BY <1>4, <1>9, <1>10, <1>11

LEMMA DropPackageLinks ==
    ASSUME Net, NEW n \in Node, NEW m \in Node \ {n}, DropPackage(n, m)
    PROVE  Links'
<1>1. Types /\ Links
  BY DEF Net
<1>2. UNCHANGED <<slave_node, slaves, toSlave, connect_queue, connecting, inbox, status>>
  BY DEF DropPackage
<1>3. /\ m \in slaves[n] /\ status[n][m] = "WAIT" /\ wire[m][n] # <<>>
      /\ wire'[m][n] = Tail(wire[m][n])
      /\ \A k, l \in Node : k # m \/ l # n => wire'[k][l] = wire[k][l]
  BY <1>1, DropPackageSets, Zenon DEF DropPackage, Sets
<1>4. /\ ~End(m, n, "closed") /\ ~End(m, n, "opened") /\ ~End(n, m, "closed")
      /\ ~End(n, m, "asking") /\ ~End(n, m, "waiting") /\ ~End(n, m, "greeting")
      /\ ~End(n, m, "ready")
  BY <1>3 DEF End
<1>5. ~(n < m)
  <2>1. SUFFICES ASSUME n < m PROVE FALSE
    OBVIOUS
  <2>2. Link(n, m)
    BY <1>1, <2>1 DEF Links
  <2>. QED BY <1>4, <2>2 DEF Link, Ends
<1>6. m < n
  BY <1>5, NodeFacts
<1>7. n \in slave_node /\ Untold(m, n) /\ End(m, n, "waiting") /\ End(n, m, "opened")
  <2>1. Link(m, n)
    BY <1>1, <1>6 DEF Links
  <2>. QED BY <1>4, <2>1 DEF Link, Ends
<1>8. \A a, b \in Node : ToldQuiet(a, b)
  BY <1>1, <1>2, UntouchedTold
<1>9. ASSUME NEW k \in Node, NEW l \in Node \ {k}, k # m \/ l # n PROVE EndQuiet(k, l)
  BY <1>2, <1>3, <1>9, MailSame DEF EndQuiet, WireQuiet
<1>10. m \in Node /\ n \in Node \ {m} /\ n # m
  OBVIOUS
<1>11. End(n, m, "opened")'
  BY <1>1, <1>7, <1>9, <1>10, EndKept
<1>12. End(m, n, "waiting")'
  BY <1>1, <1>2, <1>3, <1>7, <1>10, EndPops
<1>13. Link(m, n)'
  BY <1>2, <1>7, <1>8, <1>11, <1>12 DEF Link, Ends, ToldQuiet
<1>14. \A k \in Node : \A l \in Node \ {k} : {k, l} # {n, m} => EndQuiet(k, l)
  <2>1. ASSUME NEW k \in Node, NEW l \in Node \ {k}, {k, l} # {n, m} PROVE EndQuiet(k, l)
    <3>1. k # m \/ l # n
      BY <2>1
    <3>. QED BY <1>9, <3>1
  <2>. QED BY <2>1
<1>. QED BY <1>1, <1>2, <1>5, <1>8, <1>13, <1>14, PairOfLinks, Zenon

LEMMA LinksNext ==
    ASSUME Net, [Next]_vars
    PROVE  Links'
<1>1. CASE UNCHANGED vars
  <2>1. UNCHANGED <<slaves, slave_node, status, inbox, wire>>
        /\ UNCHANGED <<toSlave, connect_queue, connecting>>
    BY <1>1 DEF vars
  <2>2. \A n, m \in Node : MailQuiet(n, m) /\ WireQuiet(n, m)
    BY <2>1, MailSame DEF WireQuiet
  <2>3. \A a, b \in Node : ToldQuiet(a, b)
    BY <2>1, UntouchedTold DEF Net
  <2>. QED BY <2>1, <2>2, <2>3, CalmLinks DEF Net
<1>2. ASSUME NEW n \in Node,
             \/ Handshake(n) \/ MasterRegister(n) \/ MasterQuery(n)
             \/ ReadW(n) \/ Ready(n) \/ MasterConnect(n) \/ MasterName(n) \/ HarborQuery(n)
             \/ UpdateName(n) \/ StartConnection(n) \/ RemoteSendHandle(n) \/ RemoteSendName(n)
      PROVE  Links'
  <2>1. CASE Handshake(n)
    BY <2>1, HandshakeLinks
  <2>2. CASE MasterRegister(n) \/ MasterQuery(n)
    BY <2>2, MasterLinks
  <2>3. CASE ReadW(n) \/ MasterName(n)
    BY <2>3, ReadLinks
  <2>4. CASE Ready(n)
    BY <2>4, ReadyLinks
  <2>5. CASE MasterConnect(n)
    BY <2>5, MasterConnectLinks
  <2>6. CASE HarborQuery(n)
    BY <2>6, HarborQueryLinks
  <2>7. CASE UpdateName(n) \/ RemoteSendHandle(n) \/ RemoteSendName(n)
    BY <2>7, DeliveryLinks
  <2>8. CASE StartConnection(n)
    BY <2>8, StartConnectionLinks
  <2>. QED BY <1>2, <2>1, <2>2, <2>3, <2>4, <2>5, <2>6, <2>7, <2>8
<1>3. ASSUME NEW n \in Node, NEW m \in Node \ {n},
             \/ AcceptSlave(n, m) \/ ReadyConnect(n, m)
             \/ PushSocketData(n, m) \/ DropPackage(n, m)
      PROVE  Links'
  <2>1. CASE AcceptSlave(n, m)
    <3>1. m \in Node /\ n \in Node \ {m}
      OBVIOUS
    <3>. QED BY <2>1, <3>1, AcceptSlaveLinks
  <2>2. CASE ReadyConnect(n, m)
    BY <2>2, ReadyConnectLinks
  <2>3. CASE PushSocketData(n, m)
    BY <2>3, PushSocketDataLinks
  <2>4. CASE DropPackage(n, m)
    BY <2>4, DropPackageLinks
  <2>. QED BY <1>3, <2>1, <2>2, <2>3, <2>4
<1>4. ASSUME NEW n \in Node, NEW x \in Name,
             Register(n, x) \/ QueryName(n, x) \/ SendName(n, x) \/ SendHandle(n, x)
      PROVE  Links'
  BY <1>4, ServiceLinks
<1>. QED BY <1>1, <1>2, <1>3, <1>4 DEF Next

LEMMA NetNext ==
    ASSUME Net, [Next]_vars
    PROVE  Net'
  BY TypesNext, JoinedNext, LinksNext DEF Net

LEMMA EmptyQueues ==
    ASSUME NEW f, NEW S, f = [n \in Node |-> <<>>]
    PROVE  Queues(f, S)
  BY DEF Queues

LEMMA NetInit ==
    ASSUME Init
    PROVE  Net
<1>1. Types
  <2>1. MasterTypes
    BY EmptyQueues DEF Init, MasterTypes, Address
  <2>2. SlaveTypes
    BY DEF Init, SlaveTypes, Address
  <2>3. Queues(text, Names) /\ Queues(inbox, Box) /\ Queues(got, Services)
    BY EmptyQueues DEF Init
  <2>4. QueueOK(queue)
    BY DEF Init, QueueOK
  <2>5. WireOK(wire)
    BY DEF Init, WireOK
  <2>6. NameQueueOK(name_queue)
    BY DEF Init, NameQueueOK
  <2>7. HarborTypes
    BY <2>3, <2>4, <2>5, <2>6, HarborAssumption DEF Init, HarborTypes, Address
  <2>. QED BY <2>1, <2>2, <2>7 DEF Types
<1>2. Joined
  <2>1. slave_node = 1..Cardinality(slave_node)
    <3>1. Cardinality({}) = 0 /\ 1..0 = {}
      BY FS_EmptySet
    <3>. QED BY <3>1 DEF Init
  <2>2. ASSUME NEW n \in Node PROVE Joining(n)
    <3>1. /\ phase[n] = "off" /\ toSlave[n] = <<>> /\ slave_node = {} /\ slaves[n] = {}
          /\ connect_queue[n] = {} /\ connecting[n] = {}
          /\ inbox[n] = <<>> /\ text[n] = <<>> /\ queryname[n] = {} /\ toMaster[n] = <<>>
          /\ \A x \in Name : value[n][x] = NULL /\ name_queue[n][x] = <<>>
      BY DEF Init
    <3>2. ~Has(toSlave[n], Welcomes)
      BY <3>1, HasEmpty
    <3>3. Silent(n)
      BY <3>1 DEF Silent
    <3>. QED BY <3>1, <3>2, <3>3 DEF Joining, Started
  <2>. QED BY <2>1, <2>2 DEF Joined
<1>3. Links
  <2>1. ASSUME NEW n \in Node, NEW m \in Node PROVE End(n, m, "closed")
    <3>1. slaves[n] = {} /\ inbox[n] = <<>> /\ status[n][m] = "WAIT" /\ wire[n][m] = <<>>
      BY DEF Init
    <3>. QED BY <3>1, HasEmpty DEF End
  <2>2. ASSUME NEW n \in Node, NEW m \in Node PROVE Untold(n, m)
    <3>1. toSlave[n] = <<>> /\ connect_queue[n] = {} /\ connecting[n] = {}
      BY DEF Init
    <3>. QED BY <3>1, HasEmpty DEF Untold
  <2>3. slave_node = {}
    BY DEF Init
  <2>. QED BY <2>1, <2>2, <2>3 DEF Links, Link, Ends
<1>. QED BY <1>1, <1>2, <1>3 DEF Net

\* The nodes join in order, each waits for those before it, and every connection goes
\* through its life.
LEMMA NetInvariant == Spec => []Net
<1>1. Init => Net
  BY NetInit
<1>2. Net /\ [Next]_vars => Net'
  BY NetNext
<1>. QED BY <1>1, <1>2, PTL DEF Spec

\* Every table of the master, the slaves and the harbors has its type.
THEOREM HarborTypeCorrect == Spec => []TypeOK
<1>1. Net => TypeOK
  <2>1. SUFFICES ASSUME Net PROVE TypeOK
    OBVIOUS
  <2>2. ASSUME NEW n \in Node
        PROVE  slaves[n] \cup connect_queue[n] \cup connecting[n] \subseteq Node \ {n}
    <3>1. (n + 1)..Nodes \subseteq Node \ {n}
      BY NodeFacts DEF Node
    <3>2. /\ slaves[n] \subseteq Node \ {n} /\ connect_queue[n] \subseteq (n + 1)..Nodes
          /\ connecting[n] \subseteq (n + 1)..Nodes
      BY <2>1 DEF Net, Types, SlaveTypes
    <3>. QED BY <3>1, <3>2
  <2>3. ASSUME NEW n \in Node
        PROVE  /\ globalname[n] \in [Name -> Node \cup {NULL}]
               /\ value[n] \in [Name -> Node \cup {NULL}]
               /\ status[n] \in [Node -> {"WAIT", "HANDSHAKE", "HEADER"}]
    BY <2>1 DEF Net, Types, SlaveTypes, HarborTypes, Address
  <2>4. ASSUME NEW n \in Node
        PROVE  /\ \A m \in Node : queue[n][m] \in Seq(Msg)
               /\ \A x \in Name : name_queue[n][x] \in Seq(Msg)
    BY <2>1 DEF Net, Types, HarborTypes, QueueOK, NameQueueOK
  <2>5. /\ slave_node \subseteq Node /\ global_name \in [Name -> Node \cup {NULL}]
        /\ phase \in [Node -> {"off", "hello", "accept", "fork", "up"}]
    BY <2>1 DEF Net, Types, MasterTypes, SlaveTypes, Address
  <2>. QED BY <2>2, <2>3, <2>4, <2>5 DEF TypeOK
<1>. QED BY <1>1, NetInvariant, PTL

LEMMA SetOfOne == ASSUME NEW e PROVE Cardinality({e}) = 1 /\ Cardinality({}) = 0
  BY FS_Singleton, FS_EmptySet

\* The harbor of n is told of its connection with m once.
LEMMA CommandCount ==
    ASSUME Types, NEW n \in Node, NEW m \in Node \ {n}
    PROVE  /\ Lone(inbox[n], {Command(n, m)}) => Cardinality(Commands(n, m)) = 1
           /\ ~Has(inbox[n], {Command(n, m)}) => Cardinality(Commands(n, m)) = 0
<1>1. \A i \in DOMAIN inbox[n] : inbox[n][i] \in Box[n]
  BY MoreNames, ElementOfSeq, LenProperties
<1>2. ASSUME NEW i \in DOMAIN inbox[n]
      PROVE  inbox[n][i] = Command(n, m) <=> inbox[n][i].cmd \in {"S", "A"} /\ inbox[n][i].to = m
  BY <1>1, BoxKinds, CommandFacts
<1>3. Commands(n, m) = {i \in DOMAIN inbox[n] : inbox[n][i] = Command(n, m)}
  BY <1>2 DEF Commands
<1>4. ASSUME Lone(inbox[n], {Command(n, m)}) PROVE Cardinality(Commands(n, m)) = 1
  <2>1. PICK i \in DOMAIN inbox[n] : /\ inbox[n][i] = Command(n, m)
                                     /\ \A j \in DOMAIN inbox[n] :
                                          inbox[n][j] = Command(n, m) => j = i
    BY <1>4 DEF Lone
  <2>2. Commands(n, m) = {i}
    BY <1>3, <2>1
  <2>. QED BY <2>2, SetOfOne, Zenon
<1>5. ASSUME ~Has(inbox[n], {Command(n, m)}) PROVE Cardinality(Commands(n, m)) = 0
  <2>1. Commands(n, m) = {}
    BY <1>3, <1>5 DEF Has
  <2>. QED BY <2>1, SetOfOne, Zenon
<1>. QED BY <1>4, <1>5

\* Nodes with services that run, and the harbor's part of their connection.
Meshed ==
    \A n, m \in Node : n # m /\ Started(n) /\ Started(m) =>
        /\ m \in slaves[n]
        /\ IF status[n][m] = "WAIT" THEN Lone(inbox[n], {Command(n, m)})
           ELSE ~Has(inbox[n], {Command(n, m)})

LEMMA NetMeshed == Net => Meshed
<1>1. SUFFICES ASSUME Net, NEW n \in Node, NEW m \in Node, n # m, Started(n), Started(m)
               PROVE  /\ m \in slaves[n]
                      /\ IF status[n][m] = "WAIT" THEN Lone(inbox[n], {Command(n, m)})
                         ELSE ~Has(inbox[n], {Command(n, m)})
  BY DEF Meshed
<1>2. Types /\ Links /\ Joining(n) /\ Joining(m)
  BY <1>1 DEF Net, Joined
<1>3. n < m \/ m < n
  BY <1>1, NodeFacts
<1>4. ~End(n, m, "closed")
  <2>1. CASE n < m
    <3>1. n \in slaves[m]
      BY <1>1, <1>2, <2>1, NodeFacts DEF Joining
    <3>2. ~End(m, n, "closed")
      BY <3>1 DEF End
    <3>3. Link(n, m)
      BY <1>2, <2>1 DEF Links
    <3>4. \A s : ~(End(n, m, "closed") /\ End(n, m, s) /\ s # "closed")
      BY DEF End
    <3>. QED BY <2>1, <3>2, <3>3, <3>4, NodeFacts DEF Link, Ends
  <2>2. CASE m < n
    <3>1. m \in slaves[n]
      BY <1>1, <1>2, <2>2, NodeFacts DEF Joining
    <3>. QED BY <3>1 DEF End
  <2>. QED BY <1>3, <2>1, <2>2
<1>5. \E s \in {"closed", "opened", "asking", "waiting", "greeting", "ready"} : End(n, m, s)
  BY <1>2, <1>3 DEF Links, Link, Ends
<1>6. PICK s \in {"opened", "asking", "waiting", "greeting", "ready"} : End(n, m, s)
  BY <1>4, <1>5
<1>7. CASE s = "opened"
  BY <1>6, <1>7 DEF End
<1>8. CASE s # "opened"
  BY <1>6, <1>8 DEF End
<1>. QED BY <1>7, <1>8

LEMMA NextMeshed == Net' => Meshed'
  BY NetMeshed, PTL

\* If services run on two nodes, each of the nodes has a connection with the other,
\* which its slave (report_slave of the master, connect_slave, accept_slave and ready)
\* has given to its harbor once: no services start before their network is complete.
THEOREM HarborFullMesh == Spec => []FullMesh
<1>1. Net /\ TypeOK => FullMesh
  <2>1. SUFFICES ASSUME Net, TypeOK, NEW n \in Node, NEW m \in Node, n # m, Started(n), Started(m)
                 PROVE  /\ m \in slaves[n]
                        /\ Cardinality(Commands(n, m)) = IF status[n][m] = "WAIT" THEN 1 ELSE 0
    BY DEF FullMesh
  <2>2. /\ m \in slaves[n]
        /\ IF status[n][m] = "WAIT" THEN Lone(inbox[n], {Command(n, m)})
           ELSE ~Has(inbox[n], {Command(n, m)})
    BY <2>1, NetMeshed DEF Meshed
  <2>3. Types /\ m \in Node \ {n}
    BY <2>1 DEF Net
  <2>. QED BY <2>2, <2>3, CommandCount
<1>. QED BY <1>1, NetInvariant, HarborTypeCorrect, PTL

-----------------------------------------------------------------------------
(* What an action does to the mailbox of a harbor.                          *)

\* What is new in it: addresses its slave knows, one command before them, or one
\* message of a service, the newest.
Fresh(k, more) ==
    \A i \in DOMAIN more :
        /\ more[i].cmd = "N" =>
             \E x \in Name : globalname'[k][x] \in Node /\ more[i] = NCommand(x, globalname'[k][x])
        /\ more[i].cmd \in {"S", "A"} => i = 1
        /\ more[i].cmd \in {"name", "handle"} =>
             DOMAIN more = {1} /\ more[i].msg.seq = ops + 1 /\ ops' = ops + 1

\* The node of a command that is taken out has a connection, an address is handled.
MailStep(k) ==
    \/ inbox'[k] = inbox[k]
    \/ /\ inbox[k] # <<>> /\ inbox'[k] = Tail(inbox[k])
       /\ \A m \in Node \ {k} : Head(inbox[k]) = Command(k, m) => status'[k][m] # "WAIT"
       /\ Head(inbox[k]).cmd = "N" => UpdateName(k)
    \/ \E more \in Seq(Box[k]) : inbox'[k] = inbox[k] \o more /\ Fresh(k, more)

LEMMA AppendMore ==
    ASSUME NEW V, NEW q \in Seq(V), NEW e \in V, NEW more \in Seq(V)
    PROVE  /\ Append(q, e) \o more = q \o (<<e>> \o more)
           /\ <<e>> \o more \in Seq(V)
           /\ (<<e>> \o more)[1] = e
           /\ \A i \in DOMAIN (<<e>> \o more) : i = 1 \/ \E j \in DOMAIN more :
                 i = j + 1 /\ (<<e>> \o more)[i] = more[j]
<1>1. <<e>> \in Seq(V) /\ Append(q, e) = q \o <<e>> /\ Len(<<e>>) = 1 /\ <<e>>[1] = e
  BY AppendOne
<1>2. (q \o <<e>>) \o more = q \o (<<e>> \o more)
  BY <1>1, ConcatAssociative
<1>. DEFINE p == <<e>>
<1>3. p \in Seq(V) /\ Len(p) = 1 /\ p[1] = e
  BY <1>1
<1>. HIDE DEF p
<1>6. /\ p \o more \in Seq(V) /\ DOMAIN (p \o more) = 1..(Len(p) + Len(more))
      /\ Len(more) \in Nat /\ DOMAIN more = 1..Len(more)
      /\ \A i \in 1..Len(p) : (p \o more)[i] = p[i]
      /\ \A i \in 1..Len(more) : (p \o more)[Len(p) + i] = more[i]
  BY <1>3, ConcatFacts
<1>4. /\ p \o more \in Seq(V) /\ DOMAIN (p \o more) = 1..(1 + Len(more))
      /\ Len(more) \in Nat /\ DOMAIN more = 1..Len(more) /\ (p \o more)[1] = p[1]
      /\ \A i \in 1..Len(more) : (p \o more)[1 + i] = more[i]
  BY <1>3, <1>6
<1>5. ASSUME NEW i \in DOMAIN (p \o more), i # 1
      PROVE  \E j \in DOMAIN more : i = j + 1 /\ (p \o more)[i] = more[j]
  <2>1. i - 1 \in 1..Len(more) /\ i = 1 + (i - 1) /\ i = (i - 1) + 1
    BY <1>4, <1>5
  <2>. QED BY <1>4, <2>1
<1>. QED BY <1>1, <1>2, <1>3, <1>4, <1>5 DEF p

LEMMA FreshOne ==
    ASSUME Types, NEW k \in Node, NEW e \in Box[k],
           \/ \E x \in Name : globalname'[k][x] \in Node /\ e = NCommand(x, globalname'[k][x])
           \/ /\ e.cmd \in {"name", "handle"} /\ e.msg.seq = ops + 1 /\ ops' = ops + 1,
           Mailbox(k, Append(inbox[k], e))
    PROVE  MailStep(k)
<1>1. inbox[k] \in Seq(Box[k]) /\ <<e>> \in Seq(Box[k])
  BY MoreNames, SeqFacts, Zenon
<1>2. inbox'[k] = inbox[k] \o <<e>> /\ DOMAIN <<e>> = {1} /\ <<e>>[1] = e
  BY <1>1, AppendOne DEF Mailbox
<1>3. Fresh(k, <<e>>)
  BY <1>2, AddressFacts DEF Fresh
<1>. QED BY <1>1, <1>2, <1>3, Zenon DEF MailStep

LEMMA FreshNames ==
    ASSUME Types, NEW k \in Node, globalname'[k] = globalname[k],
           NEW more \in Seq(Box[k]), more = <<>> \/ more = NCommands(globalname[k])
    PROVE  /\ Fresh(k, more)
           /\ \A m \in Node \ {k} : Fresh(k, <<Command(k, m)>> \o more)
<1>1. \A i \in DOMAIN more : \E x \in Name :
          globalname'[k][x] \in Node /\ more[i] = NCommand(x, globalname'[k][x])
  <2>1. CASE more = <<>>
    BY <2>1
  <2>2. CASE more = NCommands(globalname[k])
    <3>1. globalname[k] \in [Name -> Node \cup {NULL}]
      BY DEF Types, SlaveTypes, Address
    <3>2. \A i \in DOMAIN more : \E x \in Name :
              globalname[k][x] # NULL /\ more[i] = NCommand(x, globalname[k][x])
      BY <2>2, <3>1, NCommandsFacts
    <3>. QED BY <3>1, <3>2
  <2>. QED BY <2>1, <2>2
<1>2. Fresh(k, more)
  BY <1>1, AddressFacts DEF Fresh
<1>3. ASSUME NEW m \in Node \ {k} PROVE Fresh(k, <<Command(k, m)>> \o more)
  <2>. DEFINE c == Command(k, m)
  <2>1. c \in Box[k] /\ c.cmd \in {"S", "A"}
    BY CommandFacts
  <2>. HIDE DEF c
  <2>2. /\ (<<c>> \o more)[1] = c
        /\ \A i \in DOMAIN (<<c>> \o more) : i = 1 \/ \E j \in DOMAIN more :
                 i = j + 1 /\ (<<c>> \o more)[i] = more[j]
    BY <2>1, AppendMore
  <2>. DEFINE all == <<c>> \o more
  <2>. HIDE DEF all
  <2>3. ASSUME NEW i \in DOMAIN all
        PROVE  /\ all[i].cmd = "N" => \E x \in Name :
                    globalname'[k][x] \in Node /\ all[i] = NCommand(x, globalname'[k][x])
               /\ all[i].cmd \in {"S", "A"} => i = 1
               /\ all[i].cmd \notin {"name", "handle"}
    <3>1. CASE i = 1
      BY <2>1, <2>2, <3>1 DEF all
    <3>2. CASE \E j \in DOMAIN more : i = j + 1 /\ all[i] = more[j]
      <4>1. PICK x \in Name : globalname'[k][x] \in Node /\ all[i] = NCommand(x, globalname'[k][x])
        BY <1>1, <3>2
      <4>. QED BY <4>1, AddressFacts
    <3>. QED BY <2>2, <3>1, <3>2 DEF all
  <2>4. Fresh(k, all)
    BY <2>3 DEF Fresh
  <2>. QED BY <2>4 DEF all, c
<1>. QED BY <1>2, <1>3

\* A connection and perhaps the names.
LEMMA FreshCommand ==
    ASSUME Types, NEW k \in Node, globalname' = globalname,
           NEW more \in Seq(Box[k]), more = <<>> \/ more = NCommands(globalname[k]),
           NEW m \in Node \ {k}, Mailbox(k, Append(inbox[k], Command(k, m)) \o more)
    PROVE  \A l \in Node : MailStep(l)
<1>. DEFINE c == Command(k, m)
            box == inbox[k]
<1>1. c \in Box[k] /\ box \in Seq(Box[k])
  BY CommandFacts, MoreNames
<1>6. Append(box, c) \o more = box \o (<<c>> \o more) /\ <<c>> \o more \in Seq(Box[k])
  <2>. DEFINE V == Box[k]
  <2>1. c \in V /\ box \in Seq(V) /\ more \in Seq(V)
    BY <1>1
  <2>. HIDE DEF c, box, V
  <2>2. Append(box, c) \o more = box \o (<<c>> \o more) /\ <<c>> \o more \in Seq(V)
    BY ONLY <2>1, AppendMore
  <2>. QED BY <2>2 DEF V
<1>2. /\ Append(inbox[k], Command(k, m)) \o more = inbox[k] \o (<<Command(k, m)>> \o more)
      /\ <<Command(k, m)>> \o more \in Seq(Box[k])
  BY <1>6
<1>3. Fresh(k, <<Command(k, m)>> \o more)
  BY FreshNames
<1>4. inbox'[k] = inbox[k] \o (<<Command(k, m)>> \o more)
  BY <1>2 DEF Mailbox
<1>5. MailStep(k)
  BY <1>2, <1>3, <1>4, Zenon DEF MailStep
<1>. QED BY <1>5, Zenon DEF MailStep, Mailbox

LEMMA MailNext ==
    ASSUME Net, [Next]_vars, NEW k \in Node
    PROVE  MailStep(k)
<1>0. Types /\ Joined /\ Links
  BY DEF Net
<1>1. CASE inbox' = inbox
  BY <1>1 DEF MailStep
<1>2. ASSUME NEW n \in Node, Ready(n) PROVE MailStep(k)
  <2>1. ready(n, inbox[n]) /\ globalname' = globalname
    BY <1>2 DEF Ready
  <2>2. PICK more \in Seq(Box[n]) : /\ more = <<>> \/ more = NCommands(globalname[n])
                                    /\ Mailbox(n, inbox[n] \o more)
    BY <1>0, <2>1, ReadyMail, MoreNames
  <2>3. Fresh(n, more)
    BY <1>0, <2>1, <2>2, FreshNames
  <2>. QED BY <2>2, <2>3, Zenon DEF MailStep, Mailbox
<1>3. ASSUME NEW n \in Node, MasterConnect(n) PROVE MailStep(k)
  <2>1. CASE inbox' = inbox
    BY <1>1, <2>1
  <2>2. ASSUME NEW m \in Node \ {n}, Mailbox(n, Append(inbox[n], Command(n, m)) \o <<>>)
        PROVE  MailStep(k)
    <3>1. <<>> \in Seq(Box[n]) /\ globalname' = globalname
      BY <1>0, <1>3, MoreNames DEF MasterConnect
    <3>. QED BY <1>0, <2>2, <3>1, FreshCommand, Zenon
  <2>. QED BY <1>3, <2>1, <2>2, MasterConnectLinks
<1>4. ASSUME NEW n \in Node, MasterName(n) PROVE MailStep(k)
  <2>1. PICK x \in Name, h \in Node :
              /\ globalname' = [globalname EXCEPT ![n][x] = h]
              /\ Mailbox(n, Append(inbox[n], NCommand(x, h))) \/ inbox' = inbox
    BY <1>0, <1>4, MasterNameMail
  <2>2. globalname'[n][x] = h
    BY <1>0, <2>1 DEF Types, SlaveTypes
  <2>3. CASE Mailbox(n, Append(inbox[n], NCommand(x, h)))
    <3>1. MailStep(n)
      BY <1>0, <2>2, <2>3, AddressFacts, FreshOne
    <3>. QED BY <2>3, <3>1, Zenon DEF MailStep, Mailbox
  <2>. QED BY <1>1, <2>1, <2>3
<1>5. ASSUME NEW n \in Node, HarborQuery(n) PROVE MailStep(k)
  <2>1. PICK x \in Name :
              \/ /\ globalname[n][x] \in Node
                 /\ Mailbox(n, Append(inbox[n], NCommand(x, globalname[n][x])))
              \/ inbox' = inbox
    BY <1>0, <1>5, HarborQueryMail
  <2>2. globalname' = globalname
    BY <1>5 DEF HarborQuery
  <2>3. CASE /\ globalname[n][x] \in Node
             /\ Mailbox(n, Append(inbox[n], NCommand(x, globalname[n][x])))
    <3>1. MailStep(n)
      BY <1>0, <2>2, <2>3, AddressFacts, FreshOne
    <3>. QED BY <2>3, <3>1, Zenon DEF MailStep, Mailbox
  <2>. QED BY <1>1, <2>1, <2>3
<1>6. ASSUME NEW n \in Node, UpdateName(n) \/ RemoteSendHandle(n) \/ RemoteSendName(n)
      PROVE  MailStep(k)
  <2>1. inbox[n] # <<>> /\ Mailbox(n, Tail(inbox[n])) /\ Head(inbox[n]).cmd \notin {"S", "A"}
    BY <1>0, <1>6, FirstMail DEF UpdateName, RemoteSendHandle, RemoteSendName
  <2>2. \A m \in Node \ {n} : Head(inbox[n]) # Command(n, m)
    BY <2>1, Unlike
  <2>3. Head(inbox[n]).cmd = "N" => UpdateName(n)
    BY <1>6 DEF RemoteSendHandle, RemoteSendName
  <2>. QED BY <2>1, <2>2, <2>3 DEF MailStep, Mailbox
<1>7. ASSUME NEW n \in Node, StartConnection(n) PROVE MailStep(k)
  <2>1. inbox[n] # <<>> /\ Mailbox(n, Tail(inbox[n]))
    BY <1>0, <1>7, FirstMail DEF StartConnection
  <2>2. PICK m \in Node \ {n} : Head(inbox[n]) = Command(n, m) /\ status'[n][m] # "WAIT"
    BY <1>7, StartConnectionLinks
  <2>3. \A l \in Node \ {n} : Head(inbox[n]) = Command(n, l) => status'[n][l] # "WAIT"
    BY <2>2, Unlike
  <2>4. Head(inbox[n]).cmd # "N"
    BY <1>7 DEF StartConnection
  <2>. QED BY <2>1, <2>3, <2>4 DEF MailStep, Mailbox
<1>8. ASSUME NEW n \in Node, NEW x \in Name, Register(n, x) PROVE MailStep(k)
  <2>1. Mailbox(n, Append(inbox[n], NCommand(x, n))) /\ globalname'[n][x] = n
    BY <1>0, <1>8, RegisterMail, Zenon DEF Register, Types, SlaveTypes
  <2>2. MailStep(n)
    BY <1>0, <2>1, AddressFacts, FreshOne
  <2>. QED BY <2>1, <2>2, Zenon DEF MailStep, Mailbox
<1>9. ASSUME NEW n \in Node, NEW x \in Name, SendName(n, x) PROVE MailStep(k)
  <2>. DEFINE e == ToName(x, NewMsg(n, x))
  <2>1. NewMsg(n, x) \in NamedBy(n, x) /\ NewMsg(n, x).seq = ops + 1 /\ ops' = ops + 1
    BY <1>0, <1>9, NewMsgFacts DEF SendName
  <2>2. e \in Box[n] /\ e.cmd = "name" /\ e.msg.seq = ops + 1
    BY <2>1 DEF Box, NameSends, ToName
  <2>3. Mailbox(n, Append(inbox[n], e))
    BY <1>0, <1>9, SendNameTypes
  <2>. HIDE DEF e
  <2>4. MailStep(n)
    BY <1>0, <2>1, <2>2, <2>3, FreshOne
  <2>. QED BY <2>3, <2>4, Zenon DEF MailStep, Mailbox
<1>10. ASSUME NEW n \in Node, NEW x \in Name, SendHandle(n, x) PROVE MailStep(k)
  <2>. DEFINE e == ToHandle(globalname[n][x], NewMsg(n, NULL))
  <2>1. NewMsg(n, NULL) \in NamedBy(n, NULL) /\ NewMsg(n, NULL).seq = ops + 1 /\ ops' = ops + 1
    BY <1>0, <1>10, NewMsgFacts DEF SendHandle
  <2>2. globalname[n][x] \in Node /\ Mailbox(n, Append(inbox[n], e))
    BY <1>0, <1>10, SendHandleTypes
  <2>3. e \in Box[n] /\ e.cmd = "handle" /\ e.msg.seq = ops + 1
    BY <2>1, <2>2 DEF Box, HandleSends, ToHandle
  <2>. HIDE DEF e
  <2>4. MailStep(n)
    BY <1>0, <2>1, <2>2, <2>3, FreshOne
  <2>. QED BY <2>2, <2>4, Zenon DEF MailStep, Mailbox
<1>11. ASSUME NEW n \in Node, NEW m \in Node \ {n}, AcceptSlave(n, m) PROVE MailStep(k)
  <2>1. m \in Node /\ n \in Node \ {m}
    OBVIOUS
  <2>2. PICK more \in Seq(Box[n]) : /\ more = <<>> \/ more = NCommands(globalname[n])
                                    /\ Mailbox(n, Append(inbox[n], Command(n, m)) \o more)
    BY <1>11, AcceptSlaveLinks
  <2>3. globalname' = globalname
    BY <1>11 DEF AcceptSlave
  <2>. QED BY <1>0, <2>2, <2>3, FreshCommand
<1>12. ASSUME NEW n \in Node, NEW m \in Node \ {n}, ReadyConnect(n, m) PROVE MailStep(k)
  <2>2. PICK more \in Seq(Box[n]) : /\ more = <<>> \/ more = NCommands(globalname[n])
                                    /\ Mailbox(n, Append(inbox[n], Command(n, m)) \o more)
    BY <1>12, ReadyConnectLinks
  <2>3. globalname' = globalname
    BY <1>12 DEF ReadyConnect
  <2>. QED BY <1>0, <2>2, <2>3, FreshCommand
<1>13. CASE UNCHANGED vars
  BY <1>1, <1>13 DEF vars
<1>14. ASSUME NEW n \in Node, Handshake(n) \/ MasterRegister(n) \/ MasterQuery(n) \/ ReadW(n)
       PROVE  MailStep(k)
  BY <1>1, <1>14 DEF Handshake, MasterRegister, MasterQuery, ReadW
<1>15. ASSUME NEW n \in Node, NEW m \in Node \ {n}, PushSocketData(n, m) \/ DropPackage(n, m)
       PROVE  MailStep(k)
  BY <1>1, <1>15 DEF PushSocketData, DropPackage
<1>16. ASSUME NEW n \in Node, NEW x \in Name, QueryName(n, x) PROVE MailStep(k)
  BY <1>1, <1>16 DEF QueryName
<1>. QED BY <1>2, <1>3, <1>4, <1>5, <1>6, <1>7, <1>8, <1>9, <1>10, <1>11, <1>12, <1>13, <1>14,
            <1>15, <1>16 DEF Next

-----------------------------------------------------------------------------
(* A name is known only after the node that registered it has started.      *)

\* Services of h have started, and x has an address there.
Home(x, h) == Started(h) /\ globalname[h][x] # NULL

Known ==
    \A x \in Name, h \in Node :
        /\ global_name[x] = h => Home(x, h)
        /\ Has(toMaster[h], {Registration(x, h)}) => Home(x, h)
        /\ \A n \in Node : /\ globalname[n][x] = h => Home(x, h)
                           /\ value[n][x] = h => Home(x, h)
                           /\ Has(toSlave[n], {NCommand(x, h)}) => Home(x, h)
                           /\ Has(inbox[n], {NCommand(x, h)}) => Home(x, h)

\* Started nodes stay started and connections stay connections.
LEMMA PhaseNext ==
    ASSUME Net, [Next]_vars, NEW k \in Node, Started(k)
    PROVE  Started(k)'
<1>0. Types /\ Joined
  BY DEF Net
<1>1. CASE phase' = phase
  BY <1>1 DEF Started
<1>2. ASSUME NEW n \in Node, Handshake(n) PROVE Started(k)'
  <2>1. n \notin slave_node
    BY <1>0, <1>2, SlaveNodes DEF Handshake
  <2>2. phase[n] = "off"
    BY <1>0, <2>1 DEF Joined, Joining
  <2>. QED BY <1>0, <1>2, <2>2 DEF Started, Handshake, Types, SlaveTypes
<1>3. ASSUME NEW n \in Node, ReadW(n) PROVE Started(k)'
  BY <1>0, <1>3 DEF Started, ReadW, Types, SlaveTypes
<1>4. ASSUME NEW n \in Node, Ready(n) PROVE Started(k)'
  BY <1>0, <1>4 DEF Started, Ready, ready, Types, SlaveTypes
<1>5. ASSUME NEW n \in Node, NEW m \in Node \ {n}, AcceptSlave(n, m) PROVE Started(k)'
  <2>1. \/ phase' = [phase EXCEPT ![n] = "up"] \/ phase' = phase
    BY <1>5, Zenon DEF AcceptSlave, ready
  <2>. QED BY <1>0, <2>1 DEF Started, Types, SlaveTypes
<1>6. ASSUME NEW n \in Node,
             \/ MasterRegister(n) \/ MasterQuery(n)
             \/ MasterConnect(n) \/ MasterName(n) \/ HarborQuery(n)
             \/ UpdateName(n) \/ StartConnection(n) \/ RemoteSendHandle(n) \/ RemoteSendName(n)
      PROVE  Started(k)'
  BY <1>1, <1>6, Zenon DEF MasterRegister, MasterQuery, MasterConnect, MasterName, HarborQuery,
     UpdateName, StartConnection, RemoteSendHandle, RemoteSendName
<1>7. ASSUME NEW n \in Node, NEW m \in Node \ {n},
             ReadyConnect(n, m) \/ PushSocketData(n, m) \/ DropPackage(n, m)
      PROVE  Started(k)'
  BY <1>1, <1>7 DEF ReadyConnect, PushSocketData, DropPackage
<1>8. ASSUME NEW n \in Node, NEW x \in Name,
             Register(n, x) \/ QueryName(n, x) \/ SendName(n, x) \/ SendHandle(n, x)
      PROVE  Started(k)'
  BY <1>1, <1>8 DEF Register, QueryName, SendName, SendHandle
<1>9. CASE UNCHANGED vars
  BY <1>1, <1>9 DEF vars
<1>. QED BY <1>2, <1>3, <1>4, <1>5, <1>6, <1>7, <1>8, <1>9 DEF Next

LEMMA StatusNext ==
    ASSUME Net, [Next]_vars, NEW k \in Node, NEW l \in Node, status[k][l] # "WAIT"
    PROVE  status'[k][l] # "WAIT"
<1>0. Types
  BY DEF Net
<1>1. CASE status' = status
  BY <1>1
<1>2. ASSUME NEW n \in Node, StartConnection(n) PROVE status'[k][l] # "WAIT"
  BY <1>2, StartConnectionLinks
<1>3. ASSUME NEW n \in Node, NEW m \in Node \ {n}, PushSocketData(n, m)
      PROVE  status'[k][l] # "WAIT"
  <2>1. Sets(status', status, n, m, "HEADER") \/ status' = status
    BY <1>0, <1>3, PushSocketDataSets, Zenon
  <2>. QED BY <2>1 DEF Sets
<1>4. ASSUME NEW n \in Node,
             \/ Handshake(n) \/ MasterRegister(n) \/ MasterQuery(n)
             \/ ReadW(n) \/ Ready(n) \/ MasterConnect(n) \/ MasterName(n) \/ HarborQuery(n)
             \/ UpdateName(n) \/ RemoteSendHandle(n) \/ RemoteSendName(n)
      PROVE  status'[k][l] # "WAIT"
  BY <1>1, <1>4, Zenon DEF Handshake, MasterRegister, MasterQuery, ReadW, Ready, MasterConnect,
     MasterName, HarborQuery, UpdateName, RemoteSendHandle, RemoteSendName
<1>5. ASSUME NEW n \in Node, NEW m \in Node \ {n},
             AcceptSlave(n, m) \/ ReadyConnect(n, m) \/ DropPackage(n, m)
      PROVE  status'[k][l] # "WAIT"
  BY <1>1, <1>5 DEF AcceptSlave, ReadyConnect, DropPackage
<1>6. ASSUME NEW n \in Node, NEW x \in Name,
             Register(n, x) \/ QueryName(n, x) \/ SendName(n, x) \/ SendHandle(n, x)
      PROVE  status'[k][l] # "WAIT"
  BY <1>1, <1>6 DEF Register, QueryName, SendName, SendHandle
<1>7. CASE UNCHANGED vars
  BY <1>1, <1>7 DEF vars
<1>. QED BY <1>2, <1>3, <1>4, <1>5, <1>6, <1>7 DEF Next

\* Where an address a slave learns comes from.
LEMMA GlobalNext ==
    ASSUME Net, [Next]_vars, NEW k \in Node, NEW x \in Name
    PROVE  \/ globalname'[k][x] = globalname[k][x]
           \/ \E h \in Node : /\ globalname'[k][x] = h
                              /\ \/ Has(toSlave[k], {NCommand(x, h)})
                                 \/ h = k /\ Started(k)
<1>0. Types
  BY DEF Net
<1>1. CASE globalname' = globalname
  BY <1>1
<1>2. ASSUME NEW n \in Node, MasterName(n)
      PROVE  \/ globalname'[k][x] = globalname[k][x]
             \/ \E h \in Node : /\ globalname'[k][x] = h
                                /\ Has(toSlave[k], {NCommand(x, h)})
  <2>1. PICK y \in Name, h \in Node : /\ Head(toSlave[n]) = NCommand(y, h)
                                      /\ globalname' = [globalname EXCEPT ![n][y] = h]
    BY <1>0, <1>2, MasterNameMail
  <2>2. CASE k = n /\ x = y
    <3>1. globalname'[k][x] = h
      BY <1>0, <2>1, <2>2 DEF Types, SlaveTypes
    <3>2. toSlave[k] \in Seq(Orders[k]) /\ toSlave[k] # <<>>
      BY <1>0, <1>2, <2>2 DEF Types, MasterTypes, Queues, MasterName, Monitoring
    <3>3. Head(toSlave[k]) \in {NCommand(x, h)}
      BY <2>1, <2>2
    <3>4. Has(toSlave[k], {NCommand(x, h)})
      BY <3>2, <3>3, HasTail
    <3>. QED BY <3>1, <3>4, Zenon
  <2>3. CASE ~(k = n /\ x = y)
    BY <1>0, <2>1, <2>3 DEF Types, SlaveTypes
  <2>. QED BY <2>2, <2>3
<1>3. ASSUME NEW n \in Node, NEW y \in Name, Register(n, y)
      PROVE  \/ globalname'[k][x] = globalname[k][x]
             \/ globalname'[k][x] = k /\ Started(k)
  BY <1>0, <1>3 DEF Register, Types, SlaveTypes
<1>4. ASSUME NEW n \in Node,
             \/ Handshake(n) \/ MasterRegister(n) \/ MasterQuery(n)
             \/ ReadW(n) \/ Ready(n) \/ MasterConnect(n) \/ HarborQuery(n) \/ StartConnection(n)
             \/ UpdateName(n) \/ RemoteSendHandle(n) \/ RemoteSendName(n)
      PROVE  globalname' = globalname
  BY <1>4, Zenon DEF Handshake, MasterRegister, MasterQuery, ReadW, Ready, MasterConnect,
     HarborQuery, StartConnection, UpdateName, RemoteSendHandle, RemoteSendName
<1>5. ASSUME NEW n \in Node, NEW m \in Node \ {n},
             \/ AcceptSlave(n, m) \/ ReadyConnect(n, m)
             \/ PushSocketData(n, m) \/ DropPackage(n, m)
      PROVE  globalname' = globalname
  BY <1>5 DEF AcceptSlave, ReadyConnect, PushSocketData, DropPackage
<1>6. ASSUME NEW n \in Node, NEW y \in Name, QueryName(n, y) \/ SendName(n, y) \/ SendHandle(n, y)
      PROVE  globalname' = globalname
  BY <1>6 DEF QueryName, SendName, SendHandle
<1>7. CASE UNCHANGED vars
  BY <1>1, <1>7 DEF vars
<1>. QED BY <1>1, <1>2, <1>3, <1>4, <1>5, <1>6, <1>7 DEF Next

LEMMA HomeNext ==
    ASSUME Net, [Next]_vars, NEW h \in Node, NEW x \in Name, Home(x, h)
    PROVE  Home(x, h)'
<1>1. Started(h)'
  BY PhaseNext DEF Home
<1>2. globalname'[h][x] # NULL
  <2>1. \/ globalname'[h][x] = globalname[h][x]
        \/ \E l \in Node : globalname'[h][x] = l
    BY GlobalNext, Zenon
  <2>. QED BY <2>1, NodeFacts DEF Home
<1>. QED BY <1>1, <1>2 DEF Home

\* A mailbox gets the addresses its slave knows.
LEMMA MailAddresses ==
    ASSUME Net, [Next]_vars, NEW k \in Node, NEW x \in Name, NEW h \in Node,
           Has(inbox'[k], {NCommand(x, h)})
    PROVE  Has(inbox[k], {NCommand(x, h)}) \/ globalname'[k][x] = h
<1>1. MailStep(k) /\ inbox[k] \in Seq(Box[k])
  BY MailNext, MoreNames DEF Net
<1>2. CASE inbox[k] # <<>> /\ inbox'[k] = Tail(inbox[k])
  BY <1>1, <1>2, HasTail
<1>3. ASSUME NEW more \in Seq(Box[k]), inbox'[k] = inbox[k] \o more, Fresh(k, more)
      PROVE  Has(inbox[k], {NCommand(x, h)}) \/ globalname'[k][x] = h
  <2>1. Has(inbox[k], {NCommand(x, h)}) \/ Has(more, {NCommand(x, h)})
    BY <1>1, <1>3, HasConcat
  <2>2. ASSUME Has(more, {NCommand(x, h)}) PROVE globalname'[k][x] = h
    <3>1. PICK i \in DOMAIN more : more[i] = NCommand(x, h)
      BY <2>2 DEF Has
    <3>2. NCommand(x, h).cmd = "N" /\ NCommand(x, h).name = x /\ NCommand(x, h).to = h
      BY AddressFacts
    <3>3. PICK y \in Name : /\ globalname'[k][y] \in Node
                            /\ NCommand(x, h) = NCommand(y, globalname'[k][y])
      BY <1>3, <3>1, <3>2 DEF Fresh
    <3>4. y = x /\ globalname'[k][y] = h
      BY <3>2, <3>3, AddressFacts
    <3>. QED BY <3>4
  <2>. QED BY <2>1, <2>2
<1>. QED BY <1>1, <1>2, <1>3, Zenon DEF MailStep

LEMMA OrderAddresses ==
    ASSUME Net, [Next]_vars, NEW k \in Node, NEW x \in Name, NEW h \in Node,
           Has(toSlave'[k], {NCommand(x, h)})
    PROVE  \/ Has(toSlave[k], {NCommand(x, h)})
           \/ Has(toMaster[h], {Registration(x, h)})
           \/ global_name[x] = h
<1>0. Types /\ Joined /\ toSlave[k] \in Seq(Orders[k]) /\ Queues(toSlave, Orders)
  BY DEF Net, Types, MasterTypes, Queues
<1>1. ASSUME toSlave'[k] = toSlave[k] PROVE Has(toSlave[k], {NCommand(x, h)})
  BY <1>1
<1>2. ASSUME toSlave[k] # <<>>, toSlave'[k] = Tail(toSlave[k])
      PROVE  Has(toSlave[k], {NCommand(x, h)})
  BY <1>0, <1>2, HasTail
<1>3. ASSUME NEW e \in Orders[k], toSlave'[k] = Append(toSlave[k], e)
      PROVE  Has(toSlave[k], {NCommand(x, h)}) \/ e = NCommand(x, h)
  <2>1. Has(Append(toSlave[k], e), {NCommand(x, h)}) <=>
          Has(toSlave[k], {NCommand(x, h)}) \/ e \in {NCommand(x, h)}
    BY <1>0, HasAppend
  <2>. QED BY <1>3, <2>1
<1>4. ASSUME NEW n \in Node, Handshake(n) PROVE Has(toSlave[k], {NCommand(x, h)})
  <2>1. n \notin slave_node
    BY <1>0, <1>4, SlaveNodes DEF Handshake
  <2>2. CASE k \in slave_node
    <3>1. toSlave'[k] = Append(toSlave[k], Call(n))
      BY <1>4, <2>2 DEF Handshake, Call
    <3>2. n \in (k + 1)..Nodes
      BY <1>0, <1>4, <2>2, SlaveNodes, NodeFacts DEF Handshake
    <3>3. Call(n) \in Orders[k] /\ Call(n) # NCommand(x, h)
      BY <3>2, NotCall DEF Orders
    <3>. QED BY <1>3, <3>1, <3>3
  <2>3. CASE k \notin slave_node /\ k = n
    <3>1. toSlave'[k] = <<Welcome(Cardinality(slave_node))>>
      BY <1>4, <2>3 DEF Handshake, Welcome
    <3>2. Welcome(Cardinality(slave_node)) \in {NCommand(x, h)}
      BY <3>1, HasOne
    <3>3. Welcome(Cardinality(slave_node)).cmd = "W" /\ NCommand(x, h).cmd = "N"
      BY AddressFacts DEF Welcome
    <3>. QED BY <3>2, <3>3
  <2>4. CASE k \notin slave_node /\ k # n
    BY <1>1, <1>4, <2>4 DEF Handshake
  <2>. QED BY <2>2, <2>3, <2>4
<1>5. ASSUME NEW n \in Node, MasterRegister(n)
      PROVE  Has(toSlave[k], {NCommand(x, h)}) \/ Has(toMaster[h], {Registration(x, h)})
  <2>1. /\ toMaster[n] \in Seq(Requests[n]) /\ toMaster[n] # <<>>
        /\ Head(toMaster[n]) \in Requests[n] /\ Head(toMaster[n]).cmd = "R"
    BY <1>0, <1>5, QueuesPop DEF Types, MasterTypes, Queues, MasterRegister
  <2>2. PICK y \in Name : /\ Head(toMaster[n]) = Registration(y, n)
                          /\ Head(toMaster[n]).name = y /\ Head(toMaster[n]).to = n
    BY <2>1, RequestKinds
  <2>3. toSlave'[k] = toSlave[k] \/ toSlave'[k] = Append(toSlave[k], NCommand(y, n))
    BY <1>5, <2>2 DEF MasterRegister
  <2>4. CASE toSlave'[k] = Append(toSlave[k], NCommand(y, n)) /\ NCommand(y, n) = NCommand(x, h)
    <3>1. y = x /\ n = h
      BY <2>4, AddressFacts
    <3>2. Has(toMaster[n], {Registration(y, n)})
      <4>1. Head(toMaster[n]) \in {Registration(y, n)}
        BY <2>2
      <4>. QED BY <2>1, <4>1, HasTail
    <3>. QED BY <3>1, <3>2
  <2>5. NCommand(y, n) \in Orders[k]
    BY AddressFacts
  <2>. QED BY <1>1, <1>3, <2>3, <2>4, <2>5, Zenon
<1>6. ASSUME NEW n \in Node, MasterQuery(n)
      PROVE  Has(toSlave[k], {NCommand(x, h)}) \/ global_name[x] = h
  <2>1. Head(toMaster[n]) \in Requests[n] /\ Head(toMaster[n]).cmd = "Q"
    BY <1>0, <1>6, QueuesPop DEF Types, MasterTypes, MasterQuery
  <2>2. PICK y \in Name : Head(toMaster[n]).name = y
    BY <2>1, RequestKinds
  <2>3. CASE toSlave' = toSlave
    BY <1>1, <2>3
  <2>4. CASE global_name[y] # NULL /\ toSlave' = Push(toSlave, n, NCommand(y, global_name[y]))
    <3>. DEFINE g == global_name[y]
    <3>1. g \in Node
      BY <1>0, <2>4 DEF Types, MasterTypes, Address
    <3>2. NCommand(y, g) \in Orders[n] /\ NCommand(y, g) \in Orders[k]
      BY <3>1, AddressFacts
    <3>3. toSlave'[k] = toSlave[k] \/ toSlave'[k] = Append(toSlave[k], NCommand(y, g))
      BY <1>0, <2>4, <3>2, QueuesPush
    <3>4. CASE NCommand(y, g) = NCommand(x, h)
      <4>1. y = x /\ g = h
        BY <3>1, <3>4, AddressFacts
      <4>. QED BY <4>1
    <3>. QED BY <1>1, <1>3, <3>2, <3>3, <3>4, Zenon
  <2>. QED BY <1>6, <2>2, <2>3, <2>4 DEF MasterQuery
<1>7. ASSUME NEW n \in Node, ReadW(n) \/ MasterConnect(n) \/ MasterName(n)
      PROVE  Has(toSlave[k], {NCommand(x, h)})
  <2>1. toSlave[n] # <<>> /\ toSlave' = Pop(toSlave, n)
    BY <1>7 DEF ReadW, MasterConnect, MasterName, Monitoring
  <2>2. toSlave'[k] = toSlave[k] \/ (k = n /\ toSlave'[k] = Tail(toSlave[k]))
    BY <1>0, <2>1, FirstOrder
  <2>. QED BY <1>1, <1>2, <2>1, <2>2
<1>8. ASSUME NEW n \in Node,
             \/ Ready(n) \/ HarborQuery(n) \/ StartConnection(n)
             \/ UpdateName(n) \/ RemoteSendHandle(n) \/ RemoteSendName(n)
      PROVE  Has(toSlave[k], {NCommand(x, h)})
  BY <1>1, <1>8 DEF Ready, HarborQuery, StartConnection, UpdateName, RemoteSendHandle,
     RemoteSendName
<1>9. ASSUME NEW n \in Node, NEW m \in Node \ {n},
             \/ AcceptSlave(n, m) \/ ReadyConnect(n, m)
             \/ PushSocketData(n, m) \/ DropPackage(n, m)
      PROVE  Has(toSlave[k], {NCommand(x, h)})
  BY <1>1, <1>9 DEF AcceptSlave, ReadyConnect, PushSocketData, DropPackage
<1>10. ASSUME NEW n \in Node, NEW y \in Name,
              Register(n, y) \/ QueryName(n, y) \/ SendName(n, y) \/ SendHandle(n, y)
       PROVE  Has(toSlave[k], {NCommand(x, h)})
  BY <1>1, <1>10 DEF Register, QueryName, SendName, SendHandle
<1>11. CASE UNCHANGED vars
  BY <1>1, <1>11 DEF vars
<1>. QED BY <1>4, <1>5, <1>6, <1>7, <1>8, <1>9, <1>10, <1>11, Zenon DEF Next

LEMMA RegisteredNext ==
    ASSUME Net, [Next]_vars, NEW x \in Name
    PROVE  \/ global_name'[x] = global_name[x]
           \/ /\ global_name[x] = NULL
              /\ \E h \in Node : /\ global_name'[x] = h /\ Has(toMaster[h], {Registration(x, h)})
                                 /\ MasterRegister(h) /\ Head(toMaster[h]) = Registration(x, h)
<1>0. Types
  BY DEF Net
<1>1. CASE global_name' = global_name
  BY <1>1
<1>2. ASSUME NEW n \in Node, MasterRegister(n), global_name'[x] # global_name[x]
      PROVE  /\ global_name[x] = NULL
             /\ \E h \in Node : /\ global_name'[x] = h /\ Has(toMaster[h], {Registration(x, h)})
                                /\ MasterRegister(h) /\ Head(toMaster[h]) = Registration(x, h)
  <2>1. /\ toMaster[n] \in Seq(Requests[n]) /\ toMaster[n] # <<>>
        /\ Head(toMaster[n]) \in Requests[n] /\ Head(toMaster[n]).cmd = "R"
    BY <1>0, <1>2, QueuesPop DEF Types, MasterTypes, Queues, MasterRegister
  <2>2. PICK y \in Name : /\ Head(toMaster[n]) = Registration(y, n)
                          /\ Head(toMaster[n]).name = y /\ Head(toMaster[n]).to = n
    BY <2>1, RequestKinds
  <2>3. /\ global_name' = [global_name EXCEPT ![y] = IF global_name[y] = NULL THEN n
                                                     ELSE global_name[y]]
        /\ global_name \in [Name -> Address]
    BY <1>0, <1>2, <2>2, Zenon DEF MasterRegister, Types, MasterTypes
  <2>4. x = y /\ global_name[x] = NULL /\ global_name'[x] = n
    BY <1>2, <2>3
  <2>5. Has(toMaster[n], {Registration(y, n)})
    <3>1. Head(toMaster[n]) \in {Registration(y, n)}
      BY <2>2
    <3>. QED BY <2>1, <3>1, HasTail
  <2>. QED BY <1>2, <2>2, <2>4, <2>5, Zenon
<1>3. ASSUME NEW n \in Node,
             \/ Handshake(n) \/ MasterQuery(n)
             \/ ReadW(n) \/ Ready(n) \/ MasterConnect(n) \/ MasterName(n) \/ HarborQuery(n)
             \/ UpdateName(n) \/ StartConnection(n) \/ RemoteSendHandle(n) \/ RemoteSendName(n)
      PROVE  global_name' = global_name
  BY <1>3, Zenon DEF Handshake, MasterQuery, ReadW, Ready, MasterConnect, MasterName,
     HarborQuery,
     UpdateName, StartConnection, RemoteSendHandle, RemoteSendName
<1>4. ASSUME NEW n \in Node, NEW m \in Node \ {n},
             \/ AcceptSlave(n, m) \/ ReadyConnect(n, m)
             \/ PushSocketData(n, m) \/ DropPackage(n, m)
      PROVE  global_name' = global_name
  BY <1>4 DEF AcceptSlave, ReadyConnect, PushSocketData, DropPackage
<1>5. ASSUME NEW n \in Node, NEW y \in Name,
             Register(n, y) \/ QueryName(n, y) \/ SendName(n, y) \/ SendHandle(n, y)
      PROVE  global_name' = global_name
  BY <1>5 DEF Register, QueryName, SendName, SendHandle
<1>6. CASE UNCHANGED vars
  BY <1>6 DEF vars
<1>. QED BY <1>1, <1>2, <1>3, <1>4, <1>5, <1>6, Zenon DEF Next

LEMMA ValueNext ==
    ASSUME Net, [Next]_vars, NEW k \in Node, NEW x \in Name
    PROVE  \/ value'[k][x] = value[k][x]
           \/ \E h \in Node : /\ value'[k][x] = h /\ Has(inbox[k], {NCommand(x, h)})
                              /\ name_queue'[k][x] = <<>>
<1>0. Types
  BY DEF Net
<1>1. CASE value' = value
  BY <1>1
<1>2. ASSUME NEW n \in Node, UpdateName(n), value'[k][x] # value[k][x]
      PROVE  \E h \in Node : /\ value'[k][x] = h /\ Has(inbox[k], {NCommand(x, h)})
                             /\ name_queue'[k][x] = <<>>
  <2>1. PICK y \in Name, h \in Node : /\ Head(inbox[n]) = NCommand(y, h)
                                      /\ value' = [value EXCEPT ![n][y] = h]
                                      /\ name_queue' = [name_queue EXCEPT ![n][y] = <<>>]
    BY <1>0, <1>2, UpdateNameMoves
  <2>2. k = n /\ x = y /\ value'[k][x] = h
    BY <1>0, <1>2, <2>1 DEF Types, HarborTypes
  <2>3. name_queue'[k][x] = <<>>
    BY <1>0, <2>1, <2>2 DEF Types, HarborTypes, NameQueueOK
  <2>4. inbox[n] \in Seq(Box[n]) /\ inbox[n] # <<>> /\ Head(inbox[n]) \in {NCommand(x, h)}
    BY <1>0, <1>2, <2>1, <2>2, MoreNames DEF UpdateName
  <2>5. Has(inbox[n], {NCommand(x, h)})
    BY <2>4, HasTail
  <2>. QED BY <2>2, <2>3, <2>5, Zenon
<1>3. ASSUME NEW n \in Node,
             \/ Handshake(n) \/ MasterRegister(n) \/ MasterQuery(n)
             \/ ReadW(n) \/ Ready(n) \/ MasterConnect(n) \/ MasterName(n) \/ HarborQuery(n)
             \/ StartConnection(n) \/ RemoteSendHandle(n) \/ RemoteSendName(n)
      PROVE  value' = value
  BY <1>3, Zenon DEF Handshake, MasterRegister, MasterQuery, ReadW, Ready, MasterConnect,
     MasterName,
     HarborQuery, StartConnection, RemoteSendHandle, RemoteSendName
<1>4. ASSUME NEW n \in Node, NEW m \in Node \ {n},
             \/ AcceptSlave(n, m) \/ ReadyConnect(n, m)
             \/ PushSocketData(n, m) \/ DropPackage(n, m)
      PROVE  value' = value
  BY <1>4 DEF AcceptSlave, ReadyConnect, PushSocketData, DropPackage
<1>5. ASSUME NEW n \in Node, NEW y \in Name,
             Register(n, y) \/ QueryName(n, y) \/ SendName(n, y) \/ SendHandle(n, y)
      PROVE  value' = value
  BY <1>5 DEF Register, QueryName, SendName, SendHandle
<1>6. CASE UNCHANGED vars
  BY <1>6 DEF vars
<1>. QED BY <1>1, <1>2, <1>3, <1>4, <1>5, <1>6, Zenon DEF Next

\* What the master is asked: a question or a registration is added, or one is handled.
LEMMA RequestsNext ==
    ASSUME Net, [Next]_vars, NEW k \in Node
    PROVE  \/ toMaster'[k] = toMaster[k]
           \/ /\ toMaster[k] # <<>> /\ toMaster'[k] = Tail(toMaster[k])
              /\ MasterRegister(k) \/ MasterQuery(k)
           \/ \E x \in Name : toMaster'[k] = Append(toMaster[k], Question(x))
           \/ \E x \in Name : /\ toMaster'[k] = Append(toMaster[k], Registration(x, k))
                              /\ Started(k) /\ globalname'[k][x] = k
<1>0. Types
  BY DEF Net
<1>1. CASE toMaster' = toMaster
  BY <1>1
<1>2. ASSUME NEW n \in Node, MasterRegister(n) \/ MasterQuery(n)
      PROVE  \/ toMaster'[k] = toMaster[k]
             \/ /\ toMaster[k] # <<>> /\ toMaster'[k] = Tail(toMaster[k])
                /\ MasterRegister(k) \/ MasterQuery(k)
  <2>1. toMaster[n] # <<>> /\ toMaster' = Pop(toMaster, n) /\ Queues(toMaster, Requests)
    BY <1>0, <1>2 DEF MasterRegister, MasterQuery, Types, MasterTypes
  <2>2. Pop(toMaster, n)[n] = Tail(toMaster[n])
        /\ \A m \in Node \ {n} : Pop(toMaster, n)[m] = toMaster[m]
    BY <2>1, QueuesPop
  <2>. QED BY <1>2, <2>1, <2>2
<1>3. ASSUME NEW n \in Node, HarborQuery(n)
      PROVE  \/ toMaster'[k] = toMaster[k]
             \/ \E x \in Name : toMaster'[k] = Append(toMaster[k], Question(x))
  BY <1>0, <1>3, HarborQueryMail
<1>4. ASSUME NEW n \in Node, NEW x \in Name, Register(n, x)
      PROVE  \/ toMaster'[k] = toMaster[k]
             \/ /\ toMaster'[k] = Append(toMaster[k], Registration(x, k))
                /\ Started(k) /\ globalname'[k][x] = k
  <2>1. /\ toMaster'[n] = Append(toMaster[n], Registration(x, n))
        /\ \A m \in Node \ {n} : toMaster'[m] = toMaster[m]
    BY <1>0, <1>4, RegisterMail
  <2>2. Started(n) /\ globalname'[n][x] = n
    BY <1>0, <1>4 DEF Register, Types, SlaveTypes
  <2>. QED BY <2>1, <2>2
<1>5. ASSUME NEW n \in Node, NEW x \in Name, QueryName(n, x)
      PROVE  \/ toMaster'[k] = toMaster[k]
             \/ toMaster'[k] = Append(toMaster[k], Question(x))
  BY <1>0, <1>5, QueryNameTypes
<1>6. ASSUME NEW n \in Node,
             \/ Handshake(n) \/ ReadW(n) \/ Ready(n) \/ MasterConnect(n) \/ MasterName(n)
             \/ UpdateName(n) \/ StartConnection(n) \/ RemoteSendHandle(n) \/ RemoteSendName(n)
      PROVE  toMaster' = toMaster
  BY <1>6, Zenon DEF Handshake, ReadW, Ready, MasterConnect, MasterName, UpdateName,
     StartConnection,
     RemoteSendHandle, RemoteSendName
<1>7. ASSUME NEW n \in Node, NEW m \in Node \ {n},
             \/ AcceptSlave(n, m) \/ ReadyConnect(n, m)
             \/ PushSocketData(n, m) \/ DropPackage(n, m)
      PROVE  toMaster' = toMaster
  BY <1>7 DEF AcceptSlave, ReadyConnect, PushSocketData, DropPackage
<1>8. ASSUME NEW n \in Node, NEW x \in Name, SendName(n, x) \/ SendHandle(n, x)
      PROVE  toMaster' = toMaster
  BY <1>8 DEF SendName, SendHandle
<1>9. CASE UNCHANGED vars
  BY <1>9 DEF vars
<1>. QED BY <1>1, <1>2, <1>3, <1>4, <1>5, <1>6, <1>7, <1>8, <1>9 DEF Next

LEMMA RequestSeq ==
    ASSUME Types, NEW k \in Node, NEW x \in Name
    PROVE  /\ toMaster[k] \in Seq(Requests[k])
           /\ Question(x) \in Requests[k] /\ Registration(x, k) \in Requests[k]
           /\ \A y \in Name : /\ Question(y) # Registration(x, k)
                              /\ Registration(y, k) = Registration(x, k) => y = x
                              /\ Question(y) = Question(x) => y = x
<1>1. \A y \in Name : /\ Question(y).cmd = "Q" /\ Question(y).name = y
                      /\ Registration(y, k).cmd = "R" /\ Registration(y, k).name = y
  BY DEF Question, Registration
<1>2. Question(x) \in Requests[k] /\ Registration(x, k) \in Requests[k]
  BY DEF Requests
<1>3. toMaster[k] \in Seq(Requests[k])
  BY DEF Types, MasterTypes, Queues
<1>4. ASSUME NEW y \in Name PROVE Question(y) # Registration(x, k)
  <2>1. Question(y).cmd = "Q" /\ Registration(x, k).cmd = "R"
    BY <1>1
  <2>. QED BY <2>1
<1>. QED BY <1>1, <1>2, <1>3, <1>4

LEMMA RegistrationNext ==
    ASSUME Net, [Next]_vars, NEW k \in Node, NEW x \in Name,
           Has(toMaster'[k], {Registration(x, k)})
    PROVE  Has(toMaster[k], {Registration(x, k)}) \/ (Started(k) /\ globalname'[k][x] = k)
<1>1. /\ toMaster[k] \in Seq(Requests[k])
      /\ \A y \in Name : /\ Question(y) \in Requests[k] /\ Registration(y, k) \in Requests[k]
                         /\ Question(y) # Registration(x, k)
                         /\ Registration(y, k) = Registration(x, k) => y = x
  <2>1. Types
    BY DEF Net
  <2>2. \A y \in Name : Question(y) \in Requests[k] /\ Registration(y, k) \in Requests[k]
    BY <2>1, RequestSeq
  <2>. QED BY <2>1, <2>2, RequestSeq
<1>2. \/ toMaster'[k] = toMaster[k]
      \/ toMaster[k] # <<>> /\ toMaster'[k] = Tail(toMaster[k])
      \/ \E y \in Name : toMaster'[k] = Append(toMaster[k], Question(y))
      \/ \E y \in Name : /\ toMaster'[k] = Append(toMaster[k], Registration(y, k))
                         /\ Started(k) /\ globalname'[k][y] = k
  BY RequestsNext
<1>3. CASE toMaster[k] # <<>> /\ toMaster'[k] = Tail(toMaster[k])
  BY <1>1, <1>3, HasTail
<1>4. ASSUME NEW e \in Requests[k], toMaster'[k] = Append(toMaster[k], e)
      PROVE  Has(toMaster[k], {Registration(x, k)}) \/ e = Registration(x, k)
  <2>1. Has(Append(toMaster[k], e), {Registration(x, k)}) <=>
          Has(toMaster[k], {Registration(x, k)}) \/ e \in {Registration(x, k)}
    BY <1>1, HasAppend
  <2>. QED BY <1>4, <2>1
<1>. QED BY <1>1, <1>2, <1>3, <1>4, Zenon

LEMMA KnownNext ==
    ASSUME Net, Known, [Next]_vars
    PROVE  Known'
<1>1. ASSUME NEW x \in Name, NEW h \in Node, ~Home(x, h)'
      PROVE  /\ global_name'[x] # h
             /\ ~Has(toMaster'[h], {Registration(x, h)})
             /\ \A n \in Node : /\ globalname'[n][x] # h /\ value'[n][x] # h
                                /\ ~Has(toSlave'[n], {NCommand(x, h)})
                                /\ ~Has(inbox'[n], {NCommand(x, h)})
  <2>1. ~Home(x, h)
    BY <1>1, HomeNext
  <2>2. /\ global_name[x] # h
        /\ ~Has(toMaster[h], {Registration(x, h)})
        /\ \A n \in Node : /\ globalname[n][x] # h /\ value[n][x] # h
                           /\ ~Has(toSlave[n], {NCommand(x, h)})
                           /\ ~Has(inbox[n], {NCommand(x, h)})
    BY <2>1, Zenon DEF Known
  <2>3. global_name'[x] # h
    <3>1. \/ global_name'[x] = global_name[x]
          \/ \E l \in Node : global_name'[x] = l /\ Has(toMaster[l], {Registration(x, l)})
      BY RegisteredNext, Zenon
    <3>. QED BY <2>2, <3>1, Zenon
  <2>4. ~(Started(h) /\ globalname'[h][x] = h)
    <3>1. Started(h) => Started(h)'
      BY PhaseNext
    <3>. QED BY <1>1, <3>1, NodeFacts DEF Home
  <2>5. ~Has(toMaster'[h], {Registration(x, h)})
    BY <2>2, <2>4, RegistrationNext
  <2>6. ASSUME NEW n \in Node PROVE globalname'[n][x] # h
    <3>1. \/ globalname'[n][x] = globalname[n][x]
          \/ \E l \in Node : /\ globalname'[n][x] = l
                             /\ Has(toSlave[n], {NCommand(x, l)}) \/ (l = n /\ Started(n))
      BY GlobalNext, Zenon
    <3>. QED BY <2>2, <2>4, <3>1, Zenon
  <2>7. ASSUME NEW n \in Node PROVE value'[n][x] # h
    <3>1. \/ value'[n][x] = value[n][x]
          \/ \E l \in Node : value'[n][x] = l /\ Has(inbox[n], {NCommand(x, l)})
      BY ValueNext, Zenon
    <3>. QED BY <2>2, <3>1, Zenon
  <2>8. ASSUME NEW n \in Node PROVE ~Has(toSlave'[n], {NCommand(x, h)})
    BY <2>2, OrderAddresses
  <2>9. ASSUME NEW n \in Node PROVE ~Has(inbox'[n], {NCommand(x, h)})
    BY <2>2, <2>6, MailAddresses, Zenon
  <2>. QED BY <2>3, <2>5, <2>6, <2>7, <2>8, <2>9
<1>. QED BY <1>1, Zenon DEF Known

LEMMA KnownInit ==
    ASSUME Init
    PROVE  Known
<1>1. /\ \A x \in Name : global_name[x] = NULL
      /\ \A n \in Node : /\ toMaster[n] = <<>> /\ toSlave[n] = <<>> /\ inbox[n] = <<>>
                         /\ \A x \in Name : globalname[n][x] = NULL /\ value[n][x] = NULL
  BY DEF Init
<1>2. ASSUME NEW n \in Node, NEW S
      PROVE  ~Has(toMaster[n], S) /\ ~Has(toSlave[n], S) /\ ~Has(inbox[n], S)
  BY <1>1, HasEmpty
<1>. QED BY <1>1, <1>2, NodeFacts, Zenon DEF Known

-----------------------------------------------------------------------------
(* A name is handled in the harbor only after the connection with its node.  *)

CommandFirst ==
    \A n \in Node, h \in Node : h # n /\ status[n][h] = "WAIT" =>
        \A i \in DOMAIN inbox[n] : inbox[n][i] \in {NCommand(x, h) : x \in Name} =>
            \E j \in DOMAIN inbox[n] : j < i /\ inbox[n][j] = Command(n, h)

LEMMA CommandFirstNext ==
    ASSUME Net, Known, CommandFirst, [Next]_vars
    PROVE  CommandFirst'
<1>1. Net' /\ Known' /\ Meshed'
  BY NetNext, KnownNext, NextMeshed
<1>2. ASSUME NEW n \in Node, NEW h \in Node, h # n, status'[n][h] = "WAIT",
             NEW i \in DOMAIN inbox'[n], NEW x \in Name, inbox'[n][i] = NCommand(x, h)
      PROVE  \E j \in DOMAIN inbox'[n] : j < i /\ inbox'[n][j] = Command(n, h)
  <2>1. status[n][h] = "WAIT"
    BY <1>2, StatusNext
  <2>2. MailStep(n) /\ inbox[n] \in Seq(Box[n])
    BY MailNext, MoreNames DEF Net
  <2>3. \A k \in DOMAIN inbox[n] : inbox[n][k] = NCommand(x, h) =>
            \E j \in DOMAIN inbox[n] : j < k /\ inbox[n][j] = Command(n, h)
    BY <1>2, <2>1 DEF CommandFirst
  <2>4. CASE inbox'[n] = inbox[n]
    BY <1>2, <2>3, <2>4
  <2>5. CASE /\ inbox[n] # <<>> /\ inbox'[n] = Tail(inbox[n])
             /\ \A m \in Node \ {n} : Head(inbox[n]) = Command(n, m) => status'[n][m] # "WAIT"
    <3>1. /\ Len(inbox[n]) \in Nat \ {0} /\ DOMAIN inbox[n] = 1..Len(inbox[n])
          /\ DOMAIN inbox'[n] = 1..(Len(inbox[n]) - 1)
          /\ \A k \in 1..(Len(inbox[n]) - 1) : inbox'[n][k] = inbox[n][k + 1]
          /\ Head(inbox[n]) = inbox[n][1]
      BY <2>2, <2>5, TailFacts
    <3>2. i + 1 \in DOMAIN inbox[n] /\ inbox[n][i + 1] = NCommand(x, h) /\ i \in Nat
      BY <1>2, <3>1
    <3>3. PICK j \in DOMAIN inbox[n] : j < i + 1 /\ inbox[n][j] = Command(n, h)
      BY <2>3, <3>2
    <3>4. j # 1
      BY <1>2, <2>5, <3>1, <3>3
    <3>5. j - 1 \in DOMAIN inbox'[n] /\ j - 1 < i /\ (j - 1) + 1 = j
      BY <3>1, <3>2, <3>3, <3>4
    <3>6. inbox'[n][j - 1] = Command(n, h)
      BY <3>1, <3>3, <3>5
    <3>. QED BY <3>5, <3>6
  <2>6. ASSUME NEW more \in Seq(Box[n]), inbox'[n] = inbox[n] \o more, Fresh(n, more)
        PROVE  \E j \in DOMAIN inbox'[n] : j < i /\ inbox'[n][j] = Command(n, h)
    <3>. DEFINE l == Len(inbox[n])
    <3>1. /\ l \in Nat /\ Len(more) \in Nat /\ DOMAIN inbox[n] = 1..l
          /\ DOMAIN more = 1..Len(more) /\ DOMAIN inbox'[n] = 1..(l + Len(more))
          /\ \A k \in 1..l : inbox'[n][k] = inbox[n][k]
          /\ \A k \in 1..Len(more) : inbox'[n][l + k] = more[k]
      BY <2>2, <2>6, ConcatFacts
    <3>. HIDE DEF l
    <3>2. CASE i \in 1..l
      <4>1. PICK j \in 1..l : j < i /\ inbox[n][j] = Command(n, h)
        BY <1>2, <2>3, <3>1, <3>2, Zenon
      <4>2. j \in DOMAIN inbox'[n] /\ inbox'[n][j] = Command(n, h)
        BY <3>1, <4>1
      <4>. QED BY <4>1, <4>2
    <3>3. CASE i \notin 1..l
      <4>1. i - l \in 1..Len(more) /\ l + (i - l) = i /\ i \in Nat
        BY <1>2, <3>1, <3>3
      <4>2. more[i - l] = NCommand(x, h)
        BY <1>2, <3>1, <4>1
      <4>3. Started(h)'
        <5>1. PICK y \in Name : /\ globalname'[n][y] \in Node
                                /\ NCommand(x, h) = NCommand(y, globalname'[n][y])
          <6>1. i - l \in DOMAIN more /\ more[i - l].cmd = "N"
            BY <3>1, <4>1, <4>2, AddressFacts
          <6>2. \E y \in Name : /\ globalname'[n][y] \in Node
                               /\ more[i - l] = NCommand(y, globalname'[n][y])
            BY <2>6, <6>1 DEF Fresh
          <6>. QED BY <4>2, <6>2
        <5>2. globalname'[n][x] = h
          BY <5>1, AddressFacts
        <5>. QED BY <1>1, <5>2, Zenon DEF Known, Home
      <4>4. Started(n)'
        <5>1. SUFFICES ASSUME ~Started(n)' PROVE FALSE
          OBVIOUS
        <5>2. inbox'[n] \in Seq(Connects(n))
          BY <1>1, <5>1 DEF Net, Joined, Joining, Silent
        <5>3. inbox'[n][i] \in Connects(n)
          BY <1>2, <5>2, ElementOfSeq, LenProperties
        <5>. QED BY <1>2, <5>3, NoConnect
      <4>5. Lone(inbox'[n], {Command(n, h)})
        BY <1>1, <1>2, <4>3, <4>4, Zenon DEF Meshed
      <4>6. PICK j \in DOMAIN inbox'[n] : inbox'[n][j] = Command(n, h)
        BY <4>5 DEF Lone
      <4>7. j < i
        <5>1. CASE j \in 1..l
          BY <3>1, <3>3, <4>1, <5>1
        <5>2. CASE j \notin 1..l
          <6>1. j - l \in 1..Len(more) /\ l + (j - l) = j
            BY <3>1, <4>6, <5>2
          <6>2. more[j - l] = Command(n, h)
            BY <3>1, <4>6, <6>1
          <6>3. j - l = 1
            <7>1. j - l \in DOMAIN more /\ more[j - l].cmd \in {"S", "A"}
              BY <1>2, <3>1, <6>1, <6>2, CommandFacts
            <7>. QED BY <2>6, <7>1 DEF Fresh
          <6>4. NCommand(x, h).cmd = "N" /\ Command(n, h).cmd \in {"S", "A"}
            BY <1>2, AddressFacts, CommandFacts
          <6>5. i # j
            BY <1>2, <4>6, <6>4
          <6>. QED BY <3>1, <4>1, <6>1, <6>3, <6>5
        <5>. QED BY <5>1, <5>2
      <4>. QED BY <4>6, <4>7
    <3>. QED BY <3>2, <3>3
  <2>. QED BY <2>2, <2>4, <2>5, <2>6, Zenon DEF MailStep
<1>. QED BY <1>2 DEF CommandFirst

\* The messages of a name always get their handle.
LEMMA UpdateNameHands ==
    ASSUME Types, CommandFirst, NEW n \in Node, UpdateName(n)
    PROVE  \E x \in Name, h \in Node : \E q \in Seq(NamedBy(n, x)) :
              /\ Head(inbox[n]) = NCommand(x, h) /\ Mailbox(n, Tail(inbox[n]))
              /\ value' = [value EXCEPT ![n][x] = h]
              /\ name_queue' = [name_queue EXCEPT ![n][x] = <<>>]
              /\ q \in Seq(From(n)) /\ Moves(n, h, q)
              /\ DOMAIN q = DOMAIN name_queue[n][x]
              /\ \A i \in DOMAIN q : q[i] = Handled(name_queue[n][x][i])
<1>1. PICK x \in Name, h \in Node : \E q \in Seq(NamedBy(n, x)) :
              /\ Head(inbox[n]) = NCommand(x, h) /\ Mailbox(n, Tail(inbox[n]))
              /\ value' = [value EXCEPT ![n][x] = h]
              /\ name_queue' = [name_queue EXCEPT ![n][x] = <<>>]
              /\ q \in Seq(From(n)) /\ Moves(n, h, q)
              /\ DOMAIN q = DOMAIN name_queue[n][x]
              /\ \/ q = name_queue[n][x] /\ h # n /\ status[n][h] = "WAIT"
                 \/ /\ \A i \in DOMAIN q : q[i] = Handled(name_queue[n][x][i])
                    /\ h = n \/ status[n][h] # "WAIT"
  BY UpdateNameMoves, Zenon
<1>2. ~(h # n /\ status[n][h] = "WAIT")
  <2>1. SUFFICES ASSUME h # n, status[n][h] = "WAIT" PROVE FALSE
    OBVIOUS
  <2>2. inbox[n] \in Seq(Box[n]) /\ inbox[n] # <<>>
    BY MoreNames DEF UpdateName
  <2>3. 1 \in DOMAIN inbox[n] /\ inbox[n][1] = NCommand(x, h) /\ DOMAIN inbox[n] \subseteq Nat \ {0}
    BY <1>1, <2>2, TailFacts
  <2>4. PICK j \in DOMAIN inbox[n] : j < 1
    <3>1. inbox[n][1] \in {NCommand(y, h) : y \in Name}
      BY <2>3
    <3>. QED BY <2>1, <2>3, <3>1 DEF CommandFirst
  <2>. QED BY <2>3, <2>4
<1>3. PICK q \in Seq(NamedBy(n, x)) :
              /\ Head(inbox[n]) = NCommand(x, h) /\ Mailbox(n, Tail(inbox[n]))
              /\ value' = [value EXCEPT ![n][x] = h]
              /\ name_queue' = [name_queue EXCEPT ![n][x] = <<>>]
              /\ q \in Seq(From(n)) /\ Moves(n, h, q)
              /\ DOMAIN q = DOMAIN name_queue[n][x]
              /\ \A i \in DOMAIN q : q[i] = Handled(name_queue[n][x][i])
  BY <1>1, <1>2
<1>. QED BY <1>3, Zenon

LEMMA CommandFirstInit ==
    ASSUME Init
    PROVE  CommandFirst
<1>1. \A n \in Node : DOMAIN inbox[n] = {}
  BY DEF Init
<1>. QED BY <1>1 DEF CommandFirst

-----------------------------------------------------------------------------
(* What leaves the harbor, or waits for a connection, carries the handle.    *)

Bare == {e \in Msg : ~e.dest}

Handed ==
    \A n, m \in Node :
        /\ ~Has(queue[n][m], Bare) /\ ~Has(wire[n][m], Bare)
        /\ queue[n][m] # <<>> => status[n][m] # "HEADER"

\* Messages with a handle that are added add none without.
LEMMA NotBare ==
    ASSUME NEW V, NEW p \in Seq(V), NEW q \in Seq(V), ~Has(p, Bare), ~Has(q, Bare)
    PROVE  ~Has(p \o q, Bare)
  BY HasConcat

LEMMA IdNotBare == ~Has(<<Id>>, Bare)
  BY HasOne, IdIsNoMsg DEF Bare

\* The harbor puts messages that carry their handle where they belong.
LEMMA MovesHanded ==
    ASSUME Types, Handed, NEW n \in Node, NEW h \in Node, NEW q \in Seq(From(n)),
           Moves(n, h, q), ~Has(q, Bare), status' = status
    PROVE  Handed'
<1>1. /\ \A k, l \in Node : queue'[k][l] = queue[k][l]
            \/ (k = n /\ l = h /\ h # n /\ status[n][h] # "HEADER"
                /\ queue'[k][l] = queue[k][l] \o q)
      /\ \A k, l \in Node : wire'[k][l] = wire[k][l]
            \/ (k = n /\ l = h /\ h # n /\ status[n][h] # "WAIT"
                /\ wire'[k][l] = wire[k][l] \o q)
  BY MovesFacts DEF Types
<1>2. q \in Seq(From(n) \cup {Id})
  BY SeqSubset, From(n) \subseteq From(n) \cup {Id}
<1>3. ~Has(queue[n][h] \o q, Bare)
  BY WireFacts, NotBare, Zenon DEF Handed
<1>4. ~Has(wire[n][h] \o q, Bare)
  BY <1>2, WireFacts, NotBare DEF Handed
<1>5. ASSUME NEW k \in Node, NEW l \in Node
      PROVE  /\ ~Has(queue'[k][l], Bare) /\ ~Has(wire'[k][l], Bare)
             /\ queue'[k][l] # <<>> => status'[k][l] # "HEADER"
  <2>1. ~Has(wire'[k][l], Bare)
    <3>1. CASE wire'[k][l] = wire[k][l]
      BY <3>1 DEF Handed
    <3>2. CASE k = n /\ l = h /\ wire'[k][l] = wire[k][l] \o q
      BY <1>4, <3>2
    <3>. QED BY <1>1, <3>1, <3>2
  <2>2. ~Has(queue'[k][l], Bare) /\ (queue'[k][l] # <<>> => status'[k][l] # "HEADER")
    <3>1. CASE queue'[k][l] = queue[k][l]
      BY <3>1 DEF Handed
    <3>2. CASE /\ k = n /\ l = h /\ status[n][h] # "HEADER"
               /\ queue'[k][l] = queue[k][l] \o q
      BY <1>3, <3>2
    <3>. QED BY <1>1, <3>1, <3>2
  <2>. QED BY <2>1, <2>2
<1>. QED BY <1>5 DEF Handed

LEMMA HandledNotBare ==
    ASSUME NEW n, NEW by, NEW e \in NamedBy(n, by)
    PROVE  ~Has(<<Handled(e)>>, Bare)
<1>1. Handled(e) \notin Bare
  BY HandledFacts DEF Bare
<1>. QED BY <1>1, HasOne

LEMMA StartConnectionHanded ==
    ASSUME Types, Handed, NEW n \in Node, StartConnection(n)
    PROVE  Handed'
<1>1. PICK m \in Node \ {n} :
              \/ status[n][m] # "WAIT" /\ UNCHANGED <<status, queue, wire>>
              \/ /\ Sets(status', status, n, m, "HANDSHAKE")
                 /\ Sets(wire', wire, n, m, wire[n][m] \o <<Id>>)
                 /\ queue' = queue
              \/ /\ Sets(status', status, n, m, "HEADER")
                 /\ Sets(wire', wire, n, m, wire[n][m] \o (<<Id>> \o queue[n][m]))
                 /\ Sets(queue', queue, n, m, <<>>)
  BY StartConnectionSets
<1>2. ~Has(wire[n][m] \o <<Id>>, Bare)
  BY WireFacts, IdNotBare, NotBare, Zenon DEF Handed
<1>3. ~Has(wire[n][m] \o (<<Id>> \o queue[n][m]), Bare)
  <2>1. ~Has(<<Id>> \o queue[n][m], Bare) /\ <<Id>> \o queue[n][m] \in Seq(From(n) \cup {Id})
    BY WireFacts, IdNotBare, NotBare, ConcatProperties, Zenon DEF Handed
  <2>. QED BY <2>1, WireFacts, NotBare, Zenon DEF Handed
<1>4. CASE UNCHANGED <<status, queue, wire>>
  BY <1>4 DEF Handed
<1>5. CASE /\ Sets(status', status, n, m, "HANDSHAKE")
           /\ Sets(wire', wire, n, m, wire[n][m] \o <<Id>>)
           /\ queue' = queue
  <2>1. ASSUME NEW k \in Node, NEW l \in Node
        PROVE  /\ ~Has(queue'[k][l], Bare) /\ ~Has(wire'[k][l], Bare)
               /\ queue'[k][l] # <<>> => status'[k][l] # "HEADER"
    <3>1. CASE k = n /\ l = m
      <4>1. wire'[n][m] = wire[n][m] \o <<Id>> /\ status'[n][m] = "HANDSHAKE" /\ queue' = queue
        BY <1>5 DEF Sets
      <4>. QED BY <1>2, <3>1, <4>1 DEF Handed
    <3>2. CASE k # n \/ l # m
      <4>1. wire'[k][l] = wire[k][l] /\ status'[k][l] = status[k][l] /\ queue' = queue
        BY <1>5, <3>2 DEF Sets
      <4>. QED BY <4>1 DEF Handed
    <3>. QED BY <3>1, <3>2
  <2>. QED BY <2>1 DEF Handed
<1>6. CASE /\ Sets(status', status, n, m, "HEADER")
           /\ Sets(wire', wire, n, m, wire[n][m] \o (<<Id>> \o queue[n][m]))
           /\ Sets(queue', queue, n, m, <<>>)
  <2>1. ASSUME NEW k \in Node, NEW l \in Node
        PROVE  /\ ~Has(queue'[k][l], Bare) /\ ~Has(wire'[k][l], Bare)
               /\ queue'[k][l] # <<>> => status'[k][l] # "HEADER"
    <3>1. CASE k = n /\ l = m
      <4>1. wire'[n][m] = wire[n][m] \o (<<Id>> \o queue[n][m]) /\ queue'[n][m] = <<>>
        BY <1>6 DEF Sets
      <4>. QED BY <1>3, <3>1, <4>1, HasEmpty
    <3>2. CASE k # n \/ l # m
      <4>1. /\ wire'[k][l] = wire[k][l] /\ status'[k][l] = status[k][l]
            /\ queue'[k][l] = queue[k][l]
        BY <1>6, <3>2 DEF Sets
      <4>. QED BY <4>1 DEF Handed
    <3>. QED BY <3>1, <3>2
  <2>. QED BY <2>1 DEF Handed
<1>. QED BY <1>1, <1>4, <1>5, <1>6

\* A package is taken off a connection.
LEMMA TailNotBare ==
    ASSUME Types, Handed, NEW n \in Node, NEW m \in Node, wire[n][m] # <<>>
    PROVE  ~Has(Tail(wire[n][m]), Bare)
  BY WireFacts, HasTail, Zenon DEF Handed

LEMMA PushSocketDataHanded ==
    ASSUME Types, Handed, NEW n \in Node, NEW m \in Node \ {n}, PushSocketData(n, m)
    PROVE  Handed'
<1>1. /\ wire'[m][n] = Tail(wire[m][n]) /\ wire[m][n] # <<>>
      /\ \/ /\ Sets(status', status, n, m, "HEADER") /\ wire'[n][m] = wire[n][m] \o queue[n][m]
            /\ Sets(queue', queue, n, m, <<>>)
         \/ wire'[n][m] = wire[n][m] /\ UNCHANGED <<status, queue>>
      /\ \A k, l \in Node : {k, l} # {n, m} => wire'[k][l] = wire[k][l]
  BY PushSocketDataSets, Zenon
<1>2. ~Has(wire'[m][n], Bare)
  BY <1>1, TailNotBare
<1>3. ~Has(wire[n][m] \o queue[n][m], Bare)
  BY WireFacts, NotBare, Zenon DEF Handed
<1>4. ~Has(wire'[n][m], Bare)
  BY <1>1, <1>3, Zenon DEF Handed
<1>5. ASSUME NEW k \in Node, NEW l \in Node PROVE ~Has(wire'[k][l], Bare)
  <2>1. CASE {k, l} # {n, m}
    BY <1>1, <2>1 DEF Handed
  <2>2. CASE (k = n /\ l = m) \/ (k = m /\ l = n)
    BY <1>2, <1>4, <2>2
  <2>. QED BY <2>1, <2>2
<1>6. ASSUME NEW k \in Node, NEW l \in Node
      PROVE  ~Has(queue'[k][l], Bare) /\ (queue'[k][l] # <<>> => status'[k][l] # "HEADER")
  <2>1. CASE UNCHANGED <<status, queue>>
    BY <2>1 DEF Handed
  <2>2. CASE Sets(status', status, n, m, "HEADER") /\ Sets(queue', queue, n, m, <<>>)
    <3>1. CASE k = n /\ l = m
      BY <2>2, <3>1, HasEmpty DEF Sets
    <3>2. CASE k # n \/ l # m
      <4>1. status'[k][l] = status[k][l] /\ queue'[k][l] = queue[k][l]
        BY <2>2, <3>2 DEF Sets
      <4>. QED BY <4>1 DEF Handed
    <3>. QED BY <3>1, <3>2
  <2>. QED BY <1>1, <2>1, <2>2, Zenon
<1>. QED BY <1>5, <1>6 DEF Handed

LEMMA HandedNext ==
    ASSUME Net, CommandFirst, Handed, [Next]_vars
    PROVE  Handed'
<1>0. Types
  BY DEF Net
<1>1. CASE UNCHANGED <<status, queue, wire>>
  BY <1>1 DEF Handed
<1>2. ASSUME NEW n \in Node, UpdateName(n) PROVE Handed'
  <2>1. PICK x \in Name, h \in Node : \E q \in Seq(NamedBy(n, x)) :
              /\ Head(inbox[n]) = NCommand(x, h) /\ Mailbox(n, Tail(inbox[n]))
              /\ value' = [value EXCEPT ![n][x] = h]
              /\ name_queue' = [name_queue EXCEPT ![n][x] = <<>>]
              /\ q \in Seq(From(n)) /\ Moves(n, h, q)
              /\ DOMAIN q = DOMAIN name_queue[n][x]
              /\ \A i \in DOMAIN q : q[i] = Handled(name_queue[n][x][i])
    BY <1>0, <1>2, UpdateNameHands, Zenon
  <2>2. PICK q \in Seq(NamedBy(n, x)) :
              /\ q \in Seq(From(n)) /\ Moves(n, h, q)
              /\ DOMAIN q = DOMAIN name_queue[n][x]
              /\ \A i \in DOMAIN q : q[i] = Handled(name_queue[n][x][i])
    BY <2>1
  <2>3. name_queue[n][x] \in Seq(NamedBy(n, x))
    BY <1>0 DEF Types, HarborTypes, NameQueueOK
  <2>4. ASSUME NEW i \in DOMAIN q PROVE q[i] \notin Bare
    <3>1. name_queue[n][x][i] \in NamedBy(n, x)
      BY <2>2, <2>3, WithHandleFacts
    <3>2. Handled(name_queue[n][x][i]).dest
      BY <3>1, HandledFacts
    <3>. QED BY <2>2, <3>2 DEF Bare
  <2>5. ~Has(q, Bare) /\ status' = status
    BY <1>2, <2>4 DEF Has, UpdateName
  <2>. QED BY <1>0, <2>2, <2>5, MovesHanded
<1>3. ASSUME NEW n \in Node, RemoteSendHandle(n) PROVE Handed'
  <2>1. PICK h \in Node, e \in NamedBy(n, NULL) :
              <<Handled(e)>> \in Seq(From(n)) /\ Moves(n, h, <<Handled(e)>>)
    BY <1>0, <1>3, RemoteSendHandleMoves
  <2>2. ~Has(<<Handled(e)>>, Bare) /\ status' = status
    BY <1>3, HandledNotBare DEF RemoteSendHandle
  <2>. QED BY <1>0, <2>1, <2>2, MovesHanded
<1>4. ASSUME NEW n \in Node, RemoteSendName(n) PROVE Handed'
  <2>1. PICK x \in Name : \E e \in NamedBy(n, x) :
              \/ UNCHANGED <<queue, wire, got>>
              \/ /\ value[n][x] \in Node /\ <<Handled(e)>> \in Seq(From(n))
                 /\ Moves(n, value[n][x], <<Handled(e)>>)
    BY <1>0, <1>4, RemoteSendNameMoves
  <2>2. PICK e \in NamedBy(n, x) :
              \/ UNCHANGED <<queue, wire, got>>
              \/ /\ value[n][x] \in Node /\ <<Handled(e)>> \in Seq(From(n))
                 /\ Moves(n, value[n][x], <<Handled(e)>>)
    BY <2>1
  <2>3. ~Has(<<Handled(e)>>, Bare) /\ status' = status
    BY <1>4, HandledNotBare DEF RemoteSendName
  <2>4. CASE UNCHANGED <<queue, wire, got>>
    BY <1>1, <2>3, <2>4
  <2>5. CASE /\ value[n][x] \in Node /\ <<Handled(e)>> \in Seq(From(n))
             /\ Moves(n, value[n][x], <<Handled(e)>>)
    BY <1>0, <2>3, <2>5, MovesHanded, Zenon
  <2>. QED BY <2>2, <2>4, <2>5
<1>5. ASSUME NEW n \in Node, StartConnection(n) PROVE Handed'
  BY <1>0, <1>5, StartConnectionHanded
<1>6. ASSUME NEW n \in Node, NEW m \in Node \ {n}, PushSocketData(n, m) PROVE Handed'
  BY <1>0, <1>6, PushSocketDataHanded
<1>7. ASSUME NEW n \in Node, NEW m \in Node, wire[n][m] # <<>>, UNCHANGED <<status, queue>>,
             Sets(wire', wire, n, m, Tail(wire[n][m]))
      PROVE  Handed'
  <2>1. ASSUME NEW k \in Node, NEW l \in Node PROVE ~Has(wire'[k][l], Bare)
    <3>1. CASE k = n /\ l = m
      BY <1>0, <1>7, <3>1, TailNotBare DEF Sets
    <3>2. CASE k # n \/ l # m
      <4>1. wire'[k][l] = wire[k][l]
        BY <1>7, <3>2 DEF Sets
      <4>. QED BY <4>1 DEF Handed
    <3>. QED BY <3>1, <3>2
  <2>. QED BY <1>7, <2>1 DEF Handed
<1>8. ASSUME NEW n \in Node, NEW m \in Node \ {n}, DropPackage(n, m) PROVE Handed'
  <2>1. Sets(wire', wire, m, n, Tail(wire[m][n]))
    BY <1>0, <1>8, DropPackageSets
  <2>2. wire[m][n] # <<>> /\ UNCHANGED <<status, queue>>
    BY <1>8 DEF DropPackage
  <2>. QED BY <1>7, <2>1, <2>2
<1>9. ASSUME NEW n \in Node, NEW m \in Node \ {n}, AcceptSlave(n, m) PROVE Handed'
  <2>1. Sets(wire', wire, m, n, Tail(wire[m][n]))
    <3>1. m \in Node /\ n \in Node \ {m} /\ Links
      BY DEF Net
    <3>2. /\ wire'[m][n] = Tail(wire[m][n])
          /\ \A k, l \in Node : k # m \/ l # n => wire'[k][l] = wire[k][l]
      BY <1>0, <1>9, <3>1, AcceptMail
    <3>. QED BY <3>2 DEF Sets
  <2>2. wire[m][n] # <<>> /\ UNCHANGED <<status, queue>>
    BY <1>9 DEF AcceptSlave
  <2>. QED BY <1>7, <2>1, <2>2
<1>10. ASSUME NEW n \in Node,
             \/ Handshake(n) \/ MasterRegister(n) \/ MasterQuery(n)
             \/ ReadW(n) \/ Ready(n) \/ MasterConnect(n) \/ MasterName(n) \/ HarborQuery(n)
      PROVE  Handed'
  BY <1>1, <1>10 DEF Handshake, MasterRegister, MasterQuery, ReadW, Ready, MasterConnect,
     MasterName,
     HarborQuery
<1>11. ASSUME NEW n \in Node, NEW m \in Node \ {n}, ReadyConnect(n, m)
      PROVE  Handed'
  BY <1>1, <1>11 DEF ReadyConnect
<1>12. ASSUME NEW n \in Node, NEW y \in Name,
             Register(n, y) \/ QueryName(n, y) \/ SendName(n, y) \/ SendHandle(n, y)
      PROVE  Handed'
  BY <1>1, <1>12 DEF Register, QueryName, SendName, SendHandle
<1>13. CASE UNCHANGED vars
  BY <1>1, <1>13 DEF vars
<1>. QED BY <1>2, <1>3, <1>4, <1>5, <1>6, <1>8, <1>9, <1>10, <1>11, <1>12, <1>13 DEF Next

LEMMA HandedInit ==
    ASSUME Init
    PROVE  Handed
<1>1. \A n, m \in Node : queue[n][m] = <<>> /\ wire[n][m] = <<>>
  BY DEF Init
<1>. QED BY <1>1, HasEmpty DEF Handed

LEMMA KnownInvariant == Spec => [](Known /\ CommandFirst)
<1>1. Init => Known /\ CommandFirst
  BY KnownInit, CommandFirstInit
<1>2. Net /\ Known /\ CommandFirst /\ [Next]_vars => (Known /\ CommandFirst)'
  BY KnownNext, CommandFirstNext
<1>. QED BY <1>1, <1>2, NetInvariant, PTL DEF Spec

LEMMA HandedInvariant == Spec => []Handed
<1>1. Init => Handed
  BY HandedInit
<1>2. Net /\ Known /\ CommandFirst /\ Handed /\ [Next]_vars => Handed'
  BY HandedNext
<1>. QED BY <1>1, <1>2, NetInvariant, KnownInvariant, PTL DEF Spec

\* A message to a name or to a handle carries the handle of its destination when it
\* waits for a connection or is on one: update_name, dispatch_name_queue,
\* remote_send_name and remote_send_handle put it there, and no message is put in the
\* queue of a node after dispatch_queue has emptied it for good.
THEOREM HarborDestinationKnown == Spec => []DestinationKnown
<1>1. ASSUME Types, Handed, NEW n \in Node, NEW m \in Node
      PROVE  /\ \A e \in Wires(n, m) \cup Range(queue[n][m]) : e \in Msg /\ e.dest
             /\ queue[n][m] # <<>> => status[n][m] \in {"WAIT", "HANDSHAKE"}
  <2>1. /\ wire[n][m] \in Seq(From(n) \cup {Id}) /\ queue[n][m] \in Seq(From(n))
        /\ From(n) \subseteq Msg
    BY <1>1, WireFacts, Zenon DEF From
  <2>2. ASSUME NEW i \in DOMAIN wire[n][m], wire[n][m][i] # Id
        PROVE  wire[n][m][i] \in Msg /\ wire[n][m][i].dest
    <3>1. wire[n][m][i] \in Msg
      BY <2>1, <2>2, LenProperties, ElementOfSeq
    <3>2. wire[n][m][i] \notin Bare
      BY <1>1 DEF Handed, Has
    <3>. QED BY <3>1, <3>2 DEF Bare
  <2>3. ASSUME NEW i \in DOMAIN queue[n][m]
        PROVE  queue[n][m][i] \in Msg /\ queue[n][m][i].dest
    <3>1. queue[n][m][i] \in Msg
      BY <2>1, LenProperties, ElementOfSeq
    <3>2. queue[n][m][i] \notin Bare
      BY <1>1 DEF Handed, Has
    <3>. QED BY <3>1, <3>2 DEF Bare
  <2>4. queue[n][m] # <<>> => status[n][m] \in {"WAIT", "HANDSHAKE"}
    BY <1>1 DEF Handed, Types, HarborTypes
  <2>. QED BY <2>2, <2>3, <2>4 DEF Wires, Range
<1>2. Net /\ Handed => DestinationKnown
  BY <1>1 DEF Net, DestinationKnown
<1>. QED BY <1>2, NetInvariant, HandedInvariant, PTL

-----------------------------------------------------------------------------
(* Nobody waits in vain for a name that is registered.                       *)

\* An address or a question is on its way, or there is nothing to answer yet.
Pending(n, x) ==
    \/ global_name[x] = NULL
    \/ Has(toMaster[n], {Question(x)})
    \/ Has(toSlave[n], AddressOf(x))

Answered ==
    \A n \in Node, x \in Name :
        /\ name_queue[n][x] # <<>> =>
             /\ value[n][x] = NULL
             /\ \/ Has(text[n], {x}) \/ Has(inbox[n], AddressOf(x))
                \/ globalname[n][x] = NULL /\ Pending(n, x)
        /\ x \in queryname[n] => globalname[n][x] = NULL /\ Pending(n, x)

\* Messages are added to those that wait for a name only if it is not known.
LEMMA NameQueueNext ==
    ASSUME Net, [Next]_vars, NEW k \in Node, NEW x \in Name
    PROVE  \/ name_queue'[k][x] = name_queue[k][x]
           \/ name_queue'[k][x] = <<>>
           \/ value[k][x] = NULL /\ value' = value /\ Has(text'[k], {x})
<1>0. Types
  BY DEF Net
<1>1. CASE name_queue' = name_queue
  BY <1>1
<1>2. ASSUME NEW n \in Node, UpdateName(n)
      PROVE  name_queue'[k][x] = name_queue[k][x] \/ name_queue'[k][x] = <<>>
  <2>1. PICK y \in Name, h \in Node : name_queue' = [name_queue EXCEPT ![n][y] = <<>>]
    BY <1>0, <1>2, UpdateNameMoves
  <2>. QED BY <1>0, <2>1 DEF Types, HarborTypes, NameQueueOK
<1>3. ASSUME NEW n \in Node, RemoteSendName(n)
      PROVE  \/ name_queue'[k][x] = name_queue[k][x]
             \/ value[k][x] = NULL /\ value' = value /\ Has(text'[k], {x})
  <2>1. PICK y \in Name : \E e \in NamedBy(n, y) :
              /\ Head(inbox[n]).cmd = "name" /\ Head(inbox[n]).msg = e
              /\ Head(inbox[n]).name = y
              /\ Mailbox(n, Tail(inbox[n]))
              /\ \/ /\ value[n][y] = NULL /\ UNCHANGED <<queue, wire, got>>
                    /\ NameQueueOK(name_queue') /\ name_queue'[n][y] = Append(name_queue[n][y], e)
                    /\ \A l \in Node, z \in Name :
                          l # n \/ z # y => name_queue'[l][z] = name_queue[l][z]
                    /\ Queues(text', Names) /\ text'[n] = Append(text[n], y)
                    /\ \A l \in Node \ {n} : text'[l] = text[l]
                 \/ /\ value[n][y] \in Node /\ UNCHANGED <<name_queue, text>>
                    /\ <<Handled(e)>> \in Seq(From(n))
                    /\ Moves(n, value[n][y], <<Handled(e)>>)
                    /\ status[n][value[n][y]] = "HANDSHAKE" => wire' = wire
    BY <1>0, <1>3, RemoteSendNameMoves
  <2>2. CASE name_queue' = name_queue
    BY <2>2
  <2>3. CASE /\ value[n][y] = NULL /\ text'[n] = Append(text[n], y)
             /\ \A l \in Node, z \in Name :
                   l # n \/ z # y => name_queue'[l][z] = name_queue[l][z]
    <3>1. CASE k = n /\ x = y
      <4>1. text[n] \in Seq(Name)
        BY <1>0 DEF Types, HarborTypes, Queues, Names
      <4>2. Has(Append(text[n], y), {y})
        BY <4>1, HasAppend
      <4>3. value' = value
        BY <1>3 DEF RemoteSendName
      <4>. QED BY <2>3, <3>1, <4>2, <4>3, Zenon
    <3>2. CASE k # n \/ x # y
      BY <2>3, <3>2
    <3>. QED BY <3>1, <3>2
  <2>. QED BY <2>1, <2>2, <2>3
<1>4. ASSUME NEW n \in Node,
             \/ Handshake(n) \/ MasterRegister(n) \/ MasterQuery(n)
             \/ ReadW(n) \/ Ready(n) \/ MasterConnect(n) \/ MasterName(n) \/ HarborQuery(n)
             \/ StartConnection(n) \/ RemoteSendHandle(n)
      PROVE  name_queue' = name_queue
  BY <1>4 DEF Handshake, MasterRegister, MasterQuery, ReadW, Ready, MasterConnect, MasterName,
     HarborQuery, StartConnection, RemoteSendHandle
<1>5. ASSUME NEW n \in Node, NEW m \in Node \ {n},
             \/ AcceptSlave(n, m) \/ ReadyConnect(n, m)
             \/ PushSocketData(n, m) \/ DropPackage(n, m)
      PROVE  name_queue' = name_queue
  BY <1>5 DEF AcceptSlave, ReadyConnect, PushSocketData, DropPackage
<1>6. ASSUME NEW n \in Node, NEW y \in Name,
             Register(n, y) \/ QueryName(n, y) \/ SendName(n, y) \/ SendHandle(n, y)
      PROVE  name_queue' = name_queue
  BY <1>6 DEF Register, QueryName, SendName, SendHandle
<1>7. CASE UNCHANGED vars
  BY <1>7 DEF vars
<1>. QED BY <1>1, <1>2, <1>3, <1>4, <1>5, <1>6, <1>7, Zenon DEF Next

\* The slave handles the question of its harbor.
LEMMA TextNext ==
    ASSUME Net, [Next]_vars, NEW k \in Node, NEW x \in Name, Has(text[k], {x})
    PROVE  \/ Has(text'[k], {x})
           \/ Has(inbox'[k], AddressOf(x))
           \/ globalname'[k][x] = NULL /\ Has(toMaster'[k], {Question(x)})
<1>0. Types /\ text[k] \in Seq(Name)
  BY DEF Net, Types, HarborTypes, Queues, Names
<1>1. CASE text' = text
  BY <1>1
<1>2. ASSUME NEW n \in Node, HarborQuery(n)
      PROVE  \/ Has(text'[k], {x})
             \/ Has(inbox'[k], AddressOf(x))
             \/ globalname'[k][x] = NULL /\ Has(toMaster'[k], {Question(x)})
  <2>1. PICK y \in Name :
              /\ Head(text[n]) = y /\ text'[n] = Tail(text[n])
              /\ \A l \in Node \ {n} : text'[l] = text[l]
              /\ \/ /\ globalname[n][y] \in Node
                    /\ Mailbox(n, Append(inbox[n], NCommand(y, globalname[n][y])))
                 \/ /\ globalname[n][y] = NULL
                    /\ toMaster'[n] = Append(toMaster[n], Question(y))
    BY <1>0, <1>2, HarborQueryMail
  <2>2. CASE k # n
    BY <2>1, <2>2
  <2>3. CASE k = n /\ y # x
    <3>1. text[k] # <<>> /\ Head(text[k]) \notin {x}
      BY <1>2, <2>1, <2>3 DEF HarborQuery
    <3>2. Has(Tail(text[k]), {x})
      BY <1>0, <3>1, HasTail
    <3>. QED BY <2>1, <2>3, <3>2
  <2>4. CASE /\ k = n /\ y = x /\ globalname[n][y] \in Node
             /\ Mailbox(n, Append(inbox[n], NCommand(y, globalname[n][y])))
    <3>. DEFINE c == NCommand(x, globalname[k][x])
    <3>1. c \in AddressOf(x) /\ c \in Box[k] /\ inbox[k] \in Seq(Box[k])
      BY <1>0, <2>4, AddressFacts, MoreNames
    <3>2. inbox'[k] = Append(inbox[k], c)
      BY <2>4 DEF Mailbox
    <3>. HIDE DEF c
    <3>3. Has(Append(inbox[k], c), AddressOf(x))
      BY <3>1, HasAppend
    <3>. QED BY <3>2, <3>3
  <2>5. CASE /\ k = n /\ y = x /\ globalname[n][y] = NULL
             /\ toMaster'[n] = Append(toMaster[n], Question(y))
    <3>. DEFINE c == Question(x)
    <3>1. c \in Requests[k] /\ toMaster[k] \in Seq(Requests[k])
      BY <1>0, RequestSeq
    <3>. HIDE DEF c
    <3>2. Has(Append(toMaster[k], c), {c})
      BY <3>1, HasAppend
    <3>3. globalname' = globalname
      BY <1>2 DEF HarborQuery
    <3>. QED BY <2>5, <3>2, <3>3 DEF c
  <2>. QED BY <2>1, <2>2, <2>3, <2>4, <2>5
<1>3. ASSUME NEW n \in Node, RemoteSendName(n) PROVE Has(text'[k], {x})
  <2>1. text' = text \/ text' = Push(text, n, Head(inbox[n]).name)
    BY <1>3 DEF RemoteSendName
  <2>2. Head(inbox[n]).name \in Names[n] /\ Queues(text, Names)
    <3>1. Head(inbox[n]) \in Box[n]
      BY <1>0, <1>3, FirstMail DEF RemoteSendName
    <3>. QED BY <1>0, <1>3, <3>1, BoxKinds DEF RemoteSendName, Names, Types, HarborTypes
  <2>. DEFINE y == Head(inbox[n]).name
  <2>. HIDE DEF y
  <2>3. CASE text' = Push(text, n, y)
    <3>1. /\ Push(text, n, y)[n] = Append(text[n], y)
          /\ \A l \in Node \ {n} : Push(text, n, y)[l] = text[l]
      BY <2>2, QueuesPush DEF y
    <3>2. y \in Name
      BY <2>2 DEF y, Names
    <3>3. Has(Append(text[k], y), {x})
      BY <1>0, <3>2, HasAppend
    <3>. QED BY <2>3, <3>1, <3>3, Zenon
  <2>. QED BY <1>1, <2>1, <2>3 DEF y
<1>4. ASSUME NEW n \in Node,
             \/ Handshake(n) \/ MasterRegister(n) \/ MasterQuery(n)
             \/ ReadW(n) \/ Ready(n) \/ MasterConnect(n) \/ MasterName(n)
             \/ UpdateName(n) \/ StartConnection(n) \/ RemoteSendHandle(n)
      PROVE  text' = text
  BY <1>4 DEF Handshake, MasterRegister, MasterQuery, ReadW, Ready, MasterConnect, MasterName,
     UpdateName, StartConnection, RemoteSendHandle
<1>5. ASSUME NEW n \in Node, NEW m \in Node \ {n},
             \/ AcceptSlave(n, m) \/ ReadyConnect(n, m)
             \/ PushSocketData(n, m) \/ DropPackage(n, m)
      PROVE  text' = text
  BY <1>5 DEF AcceptSlave, ReadyConnect, PushSocketData, DropPackage
<1>6. ASSUME NEW n \in Node, NEW y \in Name,
             Register(n, y) \/ QueryName(n, y) \/ SendName(n, y) \/ SendHandle(n, y)
      PROVE  text' = text
  BY <1>6 DEF Register, QueryName, SendName, SendHandle
<1>7. CASE UNCHANGED vars
  BY <1>7 DEF vars
<1>. QED BY <1>1, <1>2, <1>3, <1>4, <1>5, <1>6, <1>7 DEF Next

\* The harbor handles the address of a name.
LEMMA AddressNext ==
    ASSUME Net, [Next]_vars, NEW k \in Node, NEW x \in Name, Has(inbox[k], AddressOf(x))
    PROVE  Has(inbox'[k], AddressOf(x)) \/ name_queue'[k][x] = <<>>
<1>0. Types /\ inbox[k] \in Seq(Box[k]) /\ MailStep(k)
  BY MailNext, MoreNames DEF Net
<1>1. CASE inbox'[k] = inbox[k]
  BY <1>1
<1>2. ASSUME NEW more \in Seq(Box[k]), inbox'[k] = inbox[k] \o more
      PROVE  Has(inbox'[k], AddressOf(x))
  BY <1>0, <1>2, HasConcat
<1>3. CASE inbox[k] # <<>> /\ inbox'[k] = Tail(inbox[k]) /\ Head(inbox[k]) \notin AddressOf(x)
  BY <1>0, <1>3, HasTail
<1>4. ASSUME inbox[k] # <<>>, Head(inbox[k]) \in AddressOf(x),
             Head(inbox[k]).cmd = "N" => UpdateName(k)
      PROVE  name_queue'[k][x] = <<>>
  <2>1. PICK h \in Node : Head(inbox[k]) = NCommand(x, h)
    BY <1>4 DEF AddressOf
  <2>2. Head(inbox[k]).cmd = "N" /\ Head(inbox[k]).name = x
    BY <2>1, AddressFacts
  <2>3. name_queue' = [name_queue EXCEPT ![k][x] = <<>>]
    BY <1>4, <2>2 DEF UpdateName
  <2>. QED BY <1>0, <2>3 DEF Types, HarborTypes, NameQueueOK
<1>. QED BY <1>0, <1>1, <1>2, <1>3, <1>4 DEF MailStep

\* A node that is alone knows no name of others.
LEMMA NoNameWhenAlone ==
    ASSUME Net, Known, NEW k \in Node, phase[k] = "fork", NEW x \in Name,
           globalname[k][x] = NULL, NEW h \in Node
    PROVE  ~Has(toSlave[k], {NCommand(x, h)})
<1>1. SUFFICES ASSUME Has(toSlave[k], {NCommand(x, h)}) PROVE FALSE
  OBVIOUS
<1>2. Started(h) /\ globalname[h][x] # NULL
  BY <1>1, Zenon DEF Known, Home
<1>3. h # k /\ Started(k)
  BY <1>2 DEF Started
<1>4. h \in slaves[k]
  BY <1>2, <1>3, NetMeshed, Zenon DEF Meshed
<1>5. slaves[k] = {}
  BY DEF Net, Joined, Joining
<1>. QED BY <1>4, <1>5

\* The slave learns a name: its harbor and its callers are told.
LEMMA LearnNext ==
    ASSUME Net, Known, [Next]_vars, NEW k \in Node, Started(k), NEW x \in Name,
           globalname[k][x] = NULL, globalname'[k][x] # NULL
    PROVE  Has(inbox'[k], AddressOf(x)) /\ x \notin queryname'[k]
<1>0. Types /\ inbox[k] \in Seq(Box[k])
  BY MoreNames DEF Net
<1>1. ASSUME NEW h \in Node, inbox'[k] = Append(inbox[k], NCommand(x, h))
      PROVE  Has(inbox'[k], AddressOf(x))
  <2>. DEFINE c == NCommand(x, h)
  <2>1. c \in Box[k] /\ c \in AddressOf(x)
    BY AddressFacts
  <2>. HIDE DEF c
  <2>2. Has(Append(inbox[k], c), AddressOf(x))
    BY <1>0, <2>1, HasAppend
  <2>. QED BY <1>1, <2>2 DEF c
<1>2. ASSUME NEW n \in Node, MasterName(n)
      PROVE  Has(inbox'[k], AddressOf(x)) /\ x \notin queryname'[k]
  <2>1. PICK y \in Name, h \in Node :
              /\ Head(toSlave[n]) = NCommand(y, h)
              /\ globalname' = [globalname EXCEPT ![n][y] = h]
              /\ queryname' = [queryname EXCEPT ![n] = @ \ {y}]
              /\ \/ phase[n] = "up" /\ Mailbox(n, Append(inbox[n], NCommand(y, h)))
                 \/ phase[n] # "up" /\ inbox' = inbox
    BY <1>0, <1>2, MasterNameMail
  <2>2. n = k /\ y = x
    BY <1>0, <2>1 DEF Types, SlaveTypes
  <2>3. x \notin queryname'[k]
    BY <1>0, <2>1, <2>2 DEF Types, SlaveTypes
  <2>4. phase[k] = "up"
    <3>1. SUFFICES ASSUME phase[k] # "up" PROVE FALSE
      OBVIOUS
    <3>2. phase[k] = "fork"
      BY <3>1 DEF Started
    <3>3. Head(toSlave[k]) \in {NCommand(x, h)} /\ toSlave[k] # <<>> /\ toSlave[k] \in Seq(Orders[k])
      BY <1>0, <1>2, <2>1, <2>2 DEF MasterName, Monitoring, Types, MasterTypes, Queues
    <3>4. Has(toSlave[k], {NCommand(x, h)})
      BY <3>3, HasTail
    <3>. QED BY <3>2, <3>4, NoNameWhenAlone
  <2>5. inbox'[k] = Append(inbox[k], NCommand(x, h))
    BY <2>1, <2>2, <2>4 DEF Mailbox
  <2>. QED BY <1>1, <2>3, <2>5
<1>3. ASSUME NEW n \in Node, NEW y \in Name, Register(n, y)
      PROVE  Has(inbox'[k], AddressOf(x)) /\ x \notin queryname'[k]
  <2>1. n = k /\ y = x
    BY <1>0, <1>3 DEF Register, Types, SlaveTypes
  <2>2. inbox'[k] = Append(inbox[k], NCommand(x, k))
    BY <1>0, <1>3, <2>1, RegisterMail DEF Mailbox
  <2>3. x \notin queryname'[k]
    BY <1>0, <1>3, <2>1 DEF Register, Types, SlaveTypes
  <2>. QED BY <1>1, <2>2, <2>3
<1>4. ASSUME NEW n \in Node,
             \/ Handshake(n) \/ MasterRegister(n) \/ MasterQuery(n)
             \/ ReadW(n) \/ Ready(n) \/ MasterConnect(n) \/ HarborQuery(n) \/ StartConnection(n)
             \/ UpdateName(n) \/ RemoteSendHandle(n) \/ RemoteSendName(n)
      PROVE  FALSE
  BY <1>4, Zenon DEF Handshake, MasterRegister, MasterQuery, ReadW, Ready, MasterConnect,
     HarborQuery, StartConnection, UpdateName, RemoteSendHandle, RemoteSendName
<1>5. ASSUME NEW n \in Node, NEW m \in Node \ {n},
             \/ AcceptSlave(n, m) \/ ReadyConnect(n, m)
             \/ PushSocketData(n, m) \/ DropPackage(n, m)
      PROVE  FALSE
  BY <1>5 DEF AcceptSlave, ReadyConnect, PushSocketData, DropPackage
<1>6. ASSUME NEW n \in Node, NEW y \in Name, QueryName(n, y) \/ SendName(n, y) \/ SendHandle(n, y)
      PROVE  FALSE
  BY <1>6 DEF QueryName, SendName, SendHandle
<1>7. CASE UNCHANGED vars
  BY <1>7 DEF vars
<1>. QED BY <1>2, <1>3, <1>4, <1>5, <1>6, <1>7 DEF Next

\* A caller of QUERYNAME waits: the master has been asked.
LEMMA QueryNext ==
    ASSUME Net, Answered, [Next]_vars, NEW k \in Node, NEW x \in Name,
           x \notin queryname[k], x \in queryname'[k]
    PROVE  globalname'[k][x] = NULL /\ Has(toMaster'[k], {Question(x)})
<1>0. Types
  BY DEF Net
<1>1. ASSUME NEW n \in Node, NEW y \in Name, QueryName(n, y)
      PROVE  globalname'[k][x] = NULL /\ Has(toMaster'[k], {Question(x)})
  <2>1. n = k /\ y = x
    BY <1>0, <1>1 DEF QueryName, Types, SlaveTypes
  <2>2. toMaster' = Push(toMaster, n, Question(y)) /\ globalname' = globalname
        /\ globalname[n][y] = NULL
    BY <1>1, <2>1 DEF QueryName, Question
  <2>3. Queues(toMaster, Requests) /\ Question(y) \in Requests[n]
    BY <1>0, RequestSeq DEF Types, MasterTypes
  <2>4. Push(toMaster, n, Question(y))[n] = Append(toMaster[n], Question(y))
    BY <2>3, QueuesPush
  <2>5. Has(Append(toMaster[n], Question(y)), {Question(y)})
    <3>. DEFINE c == Question(y)
    <3>1. c \in Requests[n] /\ toMaster[n] \in Seq(Requests[n])
      BY <2>3 DEF Queues
    <3>. HIDE DEF c
    <3>2. Has(Append(toMaster[n], c), {c})
      BY <3>1, HasAppend
    <3>. QED BY <3>2 DEF c
  <2>. QED BY <2>1, <2>2, <2>4, <2>5
<1>2. ASSUME NEW n \in Node,
             \/ Handshake(n) \/ MasterRegister(n) \/ MasterQuery(n)
             \/ ReadW(n) \/ Ready(n) \/ MasterConnect(n) \/ HarborQuery(n) \/ StartConnection(n)
             \/ UpdateName(n) \/ RemoteSendHandle(n) \/ RemoteSendName(n)
      PROVE  FALSE
  BY <1>2, Zenon DEF Handshake, MasterRegister, MasterQuery, ReadW, Ready, MasterConnect,
     HarborQuery, StartConnection, UpdateName, RemoteSendHandle, RemoteSendName
<1>3. ASSUME NEW n \in Node, NEW m \in Node \ {n},
             \/ AcceptSlave(n, m) \/ ReadyConnect(n, m)
             \/ PushSocketData(n, m) \/ DropPackage(n, m)
      PROVE  FALSE
  BY <1>3 DEF AcceptSlave, ReadyConnect, PushSocketData, DropPackage
<1>4. ASSUME NEW n \in Node, NEW y \in Name, SendName(n, y) \/ SendHandle(n, y)
      PROVE  FALSE
  BY <1>4 DEF SendName, SendHandle
<1>5. ASSUME NEW n \in Node, MasterName(n) PROVE FALSE
  <2>1. queryname' = [queryname EXCEPT ![n] = @ \ {Head(toSlave[n]).name}]
    BY <1>5 DEF MasterName
  <2>. QED BY <1>0, <2>1 DEF Types, SlaveTypes
<1>6. ASSUME NEW n \in Node, NEW y \in Name, Register(n, y) PROVE FALSE
  BY <1>0, <1>6 DEF Register, Types, SlaveTypes
<1>7. CASE UNCHANGED vars
  BY <1>7 DEF vars
<1>. QED BY <1>1, <1>2, <1>3, <1>4, <1>5, <1>6, <1>7 DEF Next

LEMMA StartedJoined ==
    ASSUME Net, NEW k \in Node, Started(k)
    PROVE  k \in slave_node
  BY DEF Net, Joined, Joining, Started

\* The master handles a question ...
LEMMA QuestionNext ==
    ASSUME Net, [Next]_vars, NEW k \in Node, NEW x \in Name, Has(toMaster[k], {Question(x)})
    PROVE  \/ Has(toMaster'[k], {Question(x)})
           \/ global_name'[x] = NULL
           \/ Has(toSlave'[k], AddressOf(x))
<1>0. Types /\ toMaster[k] \in Seq(Requests[k]) /\ toSlave[k] \in Seq(Orders[k])
  BY DEF Net, Types, MasterTypes, Queues
<1>1. CASE toMaster'[k] = toMaster[k]
  BY <1>1
<1>2. ASSUME NEW e \in Requests[k], toMaster'[k] = Append(toMaster[k], e)
      PROVE  Has(toMaster'[k], {Question(x)})
  BY <1>0, <1>2, HasAppend
<1>3. CASE toMaster[k] # <<>> /\ toMaster'[k] = Tail(toMaster[k]) /\ Head(toMaster[k]) # Question(x)
  BY <1>0, <1>3, HasTail
<1>4. CASE Head(toMaster[k]) = Question(x) /\ (MasterRegister(k) \/ MasterQuery(k))
  <2>1. Head(toMaster[k]).cmd = "Q" /\ Head(toMaster[k]).name = x
    BY <1>4 DEF Question
  <2>2. MasterQuery(k)
    BY <1>4, <2>1 DEF MasterRegister
  <2>3. CASE global_name[x] = NULL
    BY <2>2, <2>3 DEF MasterQuery
  <2>4. CASE global_name[x] # NULL
    <3>. DEFINE c == NCommand(x, global_name[x])
    <3>1. global_name[x] \in Node
      BY <1>0, <2>4 DEF Types, MasterTypes, Address
    <3>2. c \in AddressOf(x) /\ c \in Orders[k] /\ Queues(toSlave, Orders)
      BY <1>0, <3>1, AddressFacts DEF Types, MasterTypes
    <3>3. toSlave' = Push(toSlave, k, c)
      BY <2>1, <2>2, <2>4 DEF MasterQuery
    <3>. HIDE DEF c
    <3>4. Push(toSlave, k, c)[k] = Append(toSlave[k], c)
      BY <3>2, QueuesPush
    <3>5. Has(Append(toSlave[k], c), AddressOf(x))
      BY <1>0, <3>2, HasAppend
    <3>. QED BY <3>3, <3>4, <3>5
  <2>. QED BY <2>3, <2>4
<1>5. \/ toMaster'[k] = toMaster[k]
      \/ /\ toMaster[k] # <<>> /\ toMaster'[k] = Tail(toMaster[k])
         /\ MasterRegister(k) \/ MasterQuery(k)
      \/ \E e \in Requests[k] : toMaster'[k] = Append(toMaster[k], e)
  <2>1. \A y \in Name : Question(y) \in Requests[k] /\ Registration(y, k) \in Requests[k]
    BY <1>0, RequestSeq
  <2>. QED BY <2>1, RequestsNext
<1>. QED BY <1>1, <1>2, <1>3, <1>4, <1>5, Zenon

\* ... and the slave an address.
LEMMA OrderNext ==
    ASSUME Net, [Next]_vars, NEW k \in Node, Started(k), NEW x \in Name,
           Has(toSlave[k], AddressOf(x))
    PROVE  Has(toSlave'[k], AddressOf(x)) \/ globalname'[k][x] # NULL
<1>0. Types /\ toSlave[k] \in Seq(Orders[k]) /\ k \in slave_node /\ Joined
  BY StartedJoined DEF Net, Types, MasterTypes, Queues
<1>1. CASE toSlave'[k] = toSlave[k]
  BY <1>1
<1>2. ASSUME NEW e \in Orders[k], toSlave'[k] = Append(toSlave[k], e)
      PROVE  Has(toSlave'[k], AddressOf(x))
  BY <1>0, <1>2, HasAppend
<1>3. CASE toSlave[k] # <<>> /\ toSlave'[k] = Tail(toSlave[k]) /\ Head(toSlave[k]) \notin AddressOf(x)
  BY <1>0, <1>3, HasTail
<1>4. ASSUME NEW n \in Node, Handshake(n) PROVE Has(toSlave'[k], AddressOf(x))
  <2>1. toSlave'[k] = Append(toSlave[k], Call(n))
    BY <1>0, <1>4 DEF Handshake, Call
  <2>2. n \in (k + 1)..Nodes
    BY <1>0, <1>4, SlaveNodes, NodeFacts DEF Handshake
  <2>3. Call(n) \in Orders[k]
    BY <2>2 DEF Orders
  <2>. QED BY <1>2, <2>1, <2>3
<1>5. ASSUME NEW n \in Node, MasterRegister(n) PROVE Has(toSlave'[k], AddressOf(x))
  <2>1. Head(toMaster[n]) \in Requests[n] /\ Head(toMaster[n]).cmd = "R"
    BY <1>0, <1>5, QueuesPop DEF Types, MasterTypes, MasterRegister
  <2>2. PICK y \in Name : Head(toMaster[n]).name = y /\ Head(toMaster[n]).to = n
    BY <2>1, RequestKinds
  <2>3. toSlave'[k] = Append(toSlave[k], NCommand(y, n))
    BY <1>0, <1>5, <2>2 DEF MasterRegister
  <2>4. NCommand(y, n) \in Orders[k]
    BY AddressFacts
  <2>. QED BY <1>2, <2>3, <2>4
<1>6. ASSUME NEW n \in Node, MasterQuery(n) PROVE Has(toSlave'[k], AddressOf(x))
  <2>1. Head(toMaster[n]) \in Requests[n] /\ Head(toMaster[n]).cmd = "Q"
    BY <1>0, <1>6, QueuesPop DEF Types, MasterTypes, MasterQuery
  <2>2. PICK y \in Name : Head(toMaster[n]).name = y
    BY <2>1, RequestKinds
  <2>3. CASE toSlave' = toSlave
    BY <1>1, <2>3
  <2>4. CASE global_name[y] # NULL /\ toSlave' = Push(toSlave, n, NCommand(y, global_name[y]))
    <3>. DEFINE g == global_name[y]
    <3>1. g \in Node
      BY <1>0, <2>4 DEF Types, MasterTypes, Address
    <3>2. NCommand(y, g) \in Orders[n] /\ NCommand(y, g) \in Orders[k]
      BY <3>1, AddressFacts
    <3>3. toSlave'[k] = toSlave[k] \/ toSlave'[k] = Append(toSlave[k], NCommand(y, g))
      <4>1. Queues(toSlave, Orders)
        BY <1>0 DEF Types, MasterTypes
      <4>. QED BY <2>4, <3>2, <4>1, QueuesPush
    <3>. QED BY <1>1, <1>2, <3>2, <3>3
  <2>. QED BY <1>6, <2>2, <2>3, <2>4 DEF MasterQuery
<1>7. ASSUME NEW n \in Node, ReadW(n) PROVE Has(toSlave'[k], AddressOf(x))
  <2>1. n # k
    BY <1>7 DEF ReadW, Started
  <2>2. toSlave[n] # <<>> /\ toSlave' = Pop(toSlave, n)
    BY <1>7 DEF ReadW
  <2>3. toSlave'[k] = toSlave[k]
    BY <1>0, <2>1, <2>2, FirstOrder
  <2>. QED BY <2>3
<1>8. ASSUME NEW n \in Node, MasterConnect(n)
      PROVE  Has(toSlave'[k], AddressOf(x)) \/ globalname'[k][x] # NULL
  <2>1. toSlave[n] # <<>> /\ toSlave' = Pop(toSlave, n) /\ Head(toSlave[n]).cmd = "C"
    BY <1>8 DEF MasterConnect, Monitoring
  <2>2. toSlave'[k] = toSlave[k] \/ (k = n /\ toSlave'[k] = Tail(toSlave[k]))
    BY <1>0, <2>1, FirstOrder
  <2>3. Head(toSlave[n]) \notin AddressOf(x)
    BY <2>1, AddressFacts DEF AddressOf
  <2>4. CASE k = n /\ toSlave'[k] = Tail(toSlave[k])
    <3>1. toSlave[k] # <<>> /\ Head(toSlave[k]) \notin AddressOf(x)
      BY <2>1, <2>3, <2>4
    <3>. QED BY <1>3, <2>4, <3>1
  <2>. QED BY <1>1, <2>2, <2>4
<1>9. ASSUME NEW n \in Node, MasterName(n)
      PROVE  Has(toSlave'[k], AddressOf(x)) \/ globalname'[k][x] # NULL
  <2>1. toSlave[n] # <<>> /\ toSlave' = Pop(toSlave, n)
    BY <1>9 DEF MasterName, Monitoring
  <2>2. toSlave'[k] = toSlave[k] \/ (k = n /\ toSlave'[k] = Tail(toSlave[k]))
    BY <1>0, <2>1, FirstOrder
  <2>3. PICK y \in Name, h \in Node : /\ Head(toSlave[n]) = NCommand(y, h)
                                      /\ globalname' = [globalname EXCEPT ![n][y] = h]
    BY <1>0, <1>9, MasterNameMail
  <2>4. CASE k = n /\ y = x
    BY <1>0, <2>3, <2>4, NodeFacts DEF Types, SlaveTypes
  <2>5. CASE y # x
    <3>1. Head(toSlave[n]) \notin AddressOf(x)
      <4>1. NCommand(y, h).name = y /\ \A l \in Node : NCommand(x, l).name = x
        BY AddressFacts
      <4>2. \A l \in Node : NCommand(y, h) # NCommand(x, l)
        BY <2>5, <4>1
      <4>. QED BY <2>3, <4>2 DEF AddressOf
    <3>2. CASE k = n /\ toSlave'[k] = Tail(toSlave[k])
      <4>1. toSlave[k] # <<>> /\ Head(toSlave[k]) \notin AddressOf(x)
        BY <2>1, <3>1, <3>2
      <4>. QED BY <1>3, <3>2, <4>1
    <3>. QED BY <1>1, <2>2, <3>2
  <2>. QED BY <1>1, <2>2, <2>4, <2>5
<1>10. ASSUME NEW n \in Node,
             \/ Ready(n) \/ HarborQuery(n) \/ StartConnection(n)
             \/ UpdateName(n) \/ RemoteSendHandle(n) \/ RemoteSendName(n)
      PROVE  toSlave' = toSlave
  BY <1>10 DEF Ready, HarborQuery, StartConnection, UpdateName, RemoteSendHandle,
     RemoteSendName
<1>11. ASSUME NEW n \in Node, NEW m \in Node \ {n},
             \/ AcceptSlave(n, m) \/ ReadyConnect(n, m)
             \/ PushSocketData(n, m) \/ DropPackage(n, m)
      PROVE  toSlave' = toSlave
  BY <1>11 DEF AcceptSlave, ReadyConnect, PushSocketData, DropPackage
<1>12. ASSUME NEW n \in Node, NEW y \in Name,
              Register(n, y) \/ QueryName(n, y) \/ SendName(n, y) \/ SendHandle(n, y)
       PROVE  toSlave' = toSlave
  BY <1>12 DEF Register, QueryName, SendName, SendHandle
<1>13. CASE UNCHANGED vars
  BY <1>13 DEF vars
<1>. QED BY <1>1, <1>4, <1>5, <1>6, <1>7, <1>8, <1>9, <1>10, <1>11, <1>12, <1>13 DEF Next

LEMMA PendingNext ==
    ASSUME Net, [Next]_vars, NEW k \in Node, Started(k), NEW x \in Name,
           globalname'[k][x] = NULL, Pending(k, x)
    PROVE  Pending(k, x)'
<1>1. CASE global_name[x] = NULL /\ global_name'[x] # NULL
  <2>1. PICK h \in Node : MasterRegister(h) /\ Head(toMaster[h]) = Registration(x, h)
    BY <1>1, RegisteredNext, Zenon
  <2>. DEFINE c == NCommand(x, h)
  <2>2. c \in AddressOf(x) /\ c \in Orders[k] /\ toSlave[k] \in Seq(Orders[k])
    BY AddressFacts DEF Net, Types, MasterTypes, Queues
  <2>3. toSlave'[k] = Append(toSlave[k], c)
    BY <2>1, StartedJoined DEF MasterRegister, Registration
  <2>. HIDE DEF c
  <2>4. Has(Append(toSlave[k], c), AddressOf(x))
    BY <2>2, HasAppend
  <2>. QED BY <2>3, <2>4 DEF Pending
<1>. QED BY <1>1, QuestionNext, OrderNext DEF Pending

LEMMA AnsweredNext ==
    ASSUME Net, Known, Answered, [Next]_vars
    PROVE  Answered'
<1>0. Types /\ \A n \in Node : Joining(n)
  BY DEF Net, Joined
<1>1. ASSUME NEW n \in Node, NEW x \in Name, globalname'[n][x] = NULL
      PROVE  globalname[n][x] = NULL
  BY <1>1, GlobalNext, NodeFacts, Zenon
<1>2. ASSUME NEW n \in Node, NEW x \in Name, x \in queryname'[n]
      PROVE  globalname'[n][x] = NULL /\ Pending(n, x)'
  <2>1. CASE x \notin queryname[n]
    BY <1>2, <2>1, QueryNext DEF Pending
  <2>2. CASE x \in queryname[n]
    <3>1. globalname[n][x] = NULL /\ Pending(n, x)
      BY <2>2, Zenon DEF Answered
    <3>2. Started(n)
      BY <1>0, <2>2 DEF Joining, Silent
    <3>3. globalname'[n][x] = NULL
      BY <1>2, <3>1, <3>2, LearnNext
    <3>. QED BY <3>1, <3>2, <3>3, PendingNext
  <2>. QED BY <2>1, <2>2
<1>3. ASSUME NEW n \in Node, NEW x \in Name, name_queue'[n][x] # <<>>
      PROVE  /\ value'[n][x] = NULL
             /\ \/ Has(text'[n], {x}) \/ Has(inbox'[n], AddressOf(x))
                \/ globalname'[n][x] = NULL /\ Pending(n, x)'
  <2>1. CASE value[n][x] = NULL /\ value' = value /\ Has(text'[n], {x})
    BY <2>1
  <2>2. CASE name_queue'[n][x] = name_queue[n][x]
    <3>1. /\ value[n][x] = NULL
          /\ \/ Has(text[n], {x}) \/ Has(inbox[n], AddressOf(x))
             \/ globalname[n][x] = NULL /\ Pending(n, x)
      BY <1>3, <2>2 DEF Answered
    <3>2. value'[n][x] = NULL
      BY <1>3, <3>1, ValueNext, Zenon
    <3>3. Started(n)
      BY <1>0, <1>3, <2>2 DEF Joining, Silent
    <3>4. CASE Has(text[n], {x})
      <4>1. Has(toMaster'[n], {Question(x)}) => Pending(n, x)'
        BY DEF Pending
      <4>. QED BY <3>2, <3>4, <4>1, TextNext
    <3>5. CASE Has(inbox[n], AddressOf(x))
      BY <1>3, <3>2, <3>5, AddressNext
    <3>6. CASE globalname[n][x] = NULL /\ Pending(n, x)
      <4>1. CASE globalname'[n][x] = NULL
        BY <3>2, <3>3, <3>6, <4>1, PendingNext
      <4>2. CASE globalname'[n][x] # NULL
        BY <3>2, <3>3, <3>6, <4>2, LearnNext
      <4>. QED BY <4>1, <4>2
    <3>. QED BY <3>1, <3>4, <3>5, <3>6
  <2>. QED BY <1>3, <2>1, <2>2, NameQueueNext, Zenon
<1>. QED BY <1>2, <1>3, Zenon DEF Answered

LEMMA AnsweredInit ==
    ASSUME Init
    PROVE  Answered
<1>1. \A n \in Node, x \in Name : name_queue[n][x] = <<>> /\ queryname[n] = {}
  BY DEF Init
<1>. QED BY <1>1 DEF Answered

LEMMA AnsweredInvariant == Spec => []Answered
<1>1. Init => Answered
  BY AnsweredInit
<1>2. Net /\ Known /\ Answered /\ [Next]_vars => Answered'
  BY AnsweredNext
<1>. QED BY <1>1, <1>2, NetInvariant, KnownInvariant, PTL DEF Spec

\* Nobody waits in vain for a name that is registered: when messages wait for it in a
\* harbor (remote_send_name) or callers of QUERYNAME in a slave, its address or the
\* question for it is on its way, though the master gives no answer to a question that
\* comes before the registration (dispatch_slave).
THEOREM HarborAnswerComing == Spec => []AnswerComing
<1>1. ASSUME Net, Answered, NEW n \in Node, NEW x \in Name,
             global_name[x] # NULL, name_queue[n][x] # <<>> \/ x \in queryname[n]
      PROVE  /\ NOnTheWay(n, x) \/ Asked(n, x)
             /\ name_queue[n][x] # <<>> => value[n][x] = NULL
             /\ x \in queryname[n] => globalname[n][x] = NULL
  <2>1. Has(inbox[n], AddressOf(x)) \/ Has(toSlave[n], AddressOf(x)) => NOnTheWay(n, x)
    BY AddressFacts DEF Has, AddressOf, NOnTheWay
  <2>2. Has(text[n], {x}) \/ Has(toMaster[n], {Question(x)}) => Asked(n, x)
    BY DEF Has, Asked, Question, Range
  <2>. QED BY <1>1, <2>1, <2>2, Zenon DEF Answered, Pending
<1>2. Net /\ Answered => AnswerComing
  BY <1>1 DEF AnswerComing
<1>. QED BY <1>2, NetInvariant, AnsweredInvariant, PTL

-----------------------------------------------------------------------------
(* Queues that hold messages in order.                                       *)

\* The numbers of the messages of S in q; they are in order; one part holds
\* smaller numbers than another.
Nums(q, S)   == {q[i].seq : i \in {k \in DOMAIN q : q[k] \in S}}
Rising(q, S) == \A i, j \in DOMAIN q : i < j /\ q[i] \in S /\ q[j] \in S => q[i].seq < q[j].seq
Less(A, B)   == \A a \in A, b \in B : a < b

\* p holds no more messages of S than q, and in no other order.
Part(p, q, S) == Nums(p, S) \subseteq Nums(q, S) /\ (Rising(q, S) => Rising(p, S))

LEMMA NumsNone ==
    ASSUME NEW q, NEW S, ~Has(q, S)
    PROVE  Nums(q, S) = {} /\ Rising(q, S)
  BY DEF Has, Nums, Rising

LEMMA NumsOne ==
    ASSUME NEW e, NEW S
    PROVE  /\ Nums(<<e>>, S) = IF e \in S THEN {e.seq} ELSE {}
           /\ Rising(<<e>>, S)
<1>1. DOMAIN <<e>> = {1} /\ <<e>>[1] = e
  OBVIOUS
<1>2. Rising(<<e>>, S)
  BY <1>1 DEF Rising
<1>3. CASE e \in S
  <2>1. {k \in DOMAIN <<e>> : <<e>>[k] \in S} = {1}
    BY <1>1, <1>3
  <2>. QED BY <1>1, <1>2, <1>3, <2>1 DEF Nums
<1>4. CASE e \notin S
  <2>1. {k \in DOMAIN <<e>> : <<e>>[k] \in S} = {}
    BY <1>1, <1>4
  <2>. QED BY <1>2, <1>4, <2>1 DEF Nums
<1>. QED BY <1>3, <1>4

LEMMA NumsConcat ==
    ASSUME NEW V, NEW p \in Seq(V), NEW q \in Seq(V), NEW S
    PROVE  Nums(p \o q, S) = Nums(p, S) \cup Nums(q, S)
<1>1. /\ Len(p) \in Nat /\ Len(q) \in Nat
      /\ DOMAIN p = 1..Len(p) /\ DOMAIN q = 1..Len(q)
      /\ DOMAIN (p \o q) = 1..(Len(p) + Len(q))
      /\ \A i \in 1..Len(p) : (p \o q)[i] = p[i]
      /\ \A i \in 1..Len(q) : (p \o q)[Len(p) + i] = q[i]
      /\ \A i \in 1..(Len(p) + Len(q)) :
            i \in 1..Len(p) \/ (i - Len(p) \in 1..Len(q) /\ i = Len(p) + (i - Len(p)))
  BY ConcatFacts
<1>. DEFINE r == p \o q
<1>. HIDE DEF r
<1>2. ASSUME NEW a \in Nums(r, S) PROVE a \in Nums(p, S) \cup Nums(q, S)
  <2>1. PICK i \in DOMAIN r : r[i] \in S /\ a = r[i].seq
    BY DEF Nums
  <2>2. CASE i \in 1..Len(p)
    BY <1>1, <2>1, <2>2 DEF Nums, r
  <2>3. CASE i - Len(p) \in 1..Len(q) /\ i = Len(p) + (i - Len(p))
    <3>1. PICK k \in 1..Len(q) : i = Len(p) + k
      BY <2>3
    <3>2. r[i] = q[k]
      BY <1>1, <3>1 DEF r
    <3>. QED BY <1>1, <2>1, <3>2 DEF Nums
  <2>. QED BY <1>1, <2>1, <2>2, <2>3 DEF r
<1>3. ASSUME NEW a \in Nums(p, S) PROVE a \in Nums(r, S)
  <2>1. PICK i \in DOMAIN p : p[i] \in S /\ a = p[i].seq
    BY DEF Nums
  <2>2. i \in DOMAIN r /\ r[i] = p[i]
    BY <1>1, <2>1 DEF r
  <2>. QED BY <2>1, <2>2 DEF Nums
<1>4. ASSUME NEW a \in Nums(q, S) PROVE a \in Nums(r, S)
  <2>1. PICK i \in DOMAIN q : q[i] \in S /\ a = q[i].seq
    BY DEF Nums
  <2>2. Len(p) + i \in DOMAIN r /\ r[Len(p) + i] = q[i]
    BY <1>1, <2>1 DEF r
  <2>. QED BY <2>1, <2>2 DEF Nums
<1>. QED BY <1>2, <1>3, <1>4 DEF r

LEMMA RisingConcat ==
    ASSUME NEW V, NEW p \in Seq(V), NEW q \in Seq(V), NEW S,
           Rising(p, S), Rising(q, S), Less(Nums(p, S), Nums(q, S))
    PROVE  Rising(p \o q, S)
<1>1. /\ Len(p) \in Nat /\ Len(q) \in Nat
      /\ DOMAIN p = 1..Len(p) /\ DOMAIN q = 1..Len(q)
      /\ DOMAIN (p \o q) = 1..(Len(p) + Len(q))
      /\ \A i \in 1..Len(p) : (p \o q)[i] = p[i]
      /\ \A i \in 1..Len(q) : (p \o q)[Len(p) + i] = q[i]
      /\ \A i \in 1..(Len(p) + Len(q)) :
            i \in 1..Len(p) \/ (i - Len(p) \in 1..Len(q) /\ i = Len(p) + (i - Len(p)))
  BY ConcatFacts
<1>. DEFINE r == p \o q
<1>2. SUFFICES ASSUME NEW i \in DOMAIN r, NEW j \in DOMAIN r, i < j, r[i] \in S, r[j] \in S
               PROVE  r[i].seq < r[j].seq
  BY DEF Rising
<1>. HIDE DEF r
<1>3. /\ i \in 1..Len(p) \/ \E k \in 1..Len(q) : i = Len(p) + k
      /\ j \in 1..Len(p) \/ \E k \in 1..Len(q) : j = Len(p) + k
  BY <1>1, <1>2 DEF r
<1>4. CASE i \in 1..Len(p) /\ j \in 1..Len(p)
  <2>1. r[i] = p[i] /\ r[j] = p[j]
    BY <1>1, <1>4 DEF r
  <2>. QED BY <1>1, <1>2, <1>4, <2>1 DEF Rising
<1>5. CASE i \in 1..Len(p) /\ \E k \in 1..Len(q) : j = Len(p) + k
  <2>1. PICK k \in 1..Len(q) : j = Len(p) + k
    BY <1>5
  <2>2. r[i] = p[i] /\ r[j] = q[k]
    BY <1>1, <1>5, <2>1 DEF r
  <2>3. p[i].seq \in Nums(p, S) /\ q[k].seq \in Nums(q, S)
    BY <1>1, <1>2, <1>5, <2>1, <2>2, Zenon DEF Nums
  <2>. QED BY <2>2, <2>3 DEF Less
<1>6. CASE (\E k \in 1..Len(q) : i = Len(p) + k) /\ \E k \in 1..Len(q) : j = Len(p) + k
  <2>1. PICK k \in 1..Len(q) : i = Len(p) + k
    BY <1>6
  <2>2. PICK l \in 1..Len(q) : j = Len(p) + l
    BY <1>6
  <2>3. r[i] = q[k] /\ r[j] = q[l] /\ k < l
    BY <1>1, <1>2, <2>1, <2>2 DEF r
  <2>. QED BY <1>1, <1>2, <2>3 DEF Rising
<1>7. CASE (\E k \in 1..Len(q) : i = Len(p) + k) /\ j \in 1..Len(p)
  BY <1>1, <1>2, <1>7
<1>. QED BY <1>3, <1>4, <1>5, <1>6, <1>7

LEMMA TailNums ==
    ASSUME NEW V, NEW q \in Seq(V), q # <<>>, NEW S
    PROVE  /\ Part(Tail(q), q, S)
           /\ Nums(<<Head(q)>>, S) \subseteq Nums(q, S)
           /\ Rising(q, S) => Less(Nums(<<Head(q)>>, S), Nums(Tail(q), S))
<1>1. /\ Len(q) \in Nat \ {0} /\ DOMAIN q = 1..Len(q) /\ DOMAIN Tail(q) = 1..(Len(q) - 1)
      /\ \A i \in 1..(Len(q) - 1) : Tail(q)[i] = q[i + 1] /\ i + 1 \in 1..Len(q)
      /\ Head(q) = q[1] /\ 1 \in 1..Len(q)
  BY TailFacts
<1>. DEFINE r == Tail(q)
            h == Head(q)
<1>. HIDE DEF r, h
<1>2. ASSUME NEW a \in Nums(r, S)
      PROVE  \E i \in 1..(Len(q) - 1) : q[i + 1] \in S /\ a = q[i + 1].seq /\ i + 1 \in DOMAIN q
  <2>1. PICK i \in DOMAIN r : r[i] \in S /\ a = r[i].seq
    BY DEF Nums
  <2>2. i \in 1..(Len(q) - 1) /\ r[i] = q[i + 1] /\ i + 1 \in DOMAIN q
    BY <1>1, <2>1 DEF r
  <2>. QED BY <2>1, <2>2
<1>3. Nums(r, S) \subseteq Nums(q, S)
  BY <1>2, Zenon DEF Nums
<1>4. ASSUME Rising(q, S) PROVE Rising(r, S)
  <2>1. SUFFICES ASSUME NEW i \in DOMAIN r, NEW j \in DOMAIN r, i < j, r[i] \in S, r[j] \in S
                 PROVE  r[i].seq < r[j].seq
    BY DEF Rising
  <2>2. /\ r[i] = q[i + 1] /\ r[j] = q[j + 1] /\ i + 1 < j + 1
        /\ i + 1 \in DOMAIN q /\ j + 1 \in DOMAIN q
    BY <1>1, <2>1 DEF r
  <2>. QED BY <1>4, <2>1, <2>2 DEF Rising
<1>5. Nums(<<h>>, S) \subseteq {q[1].seq} /\ (Nums(<<h>>, S) # {} => q[1] \in S)
  <2>1. Nums(<<h>>, S) = IF h \in S THEN {h.seq} ELSE {}
    BY NumsOne, Zenon
  <2>2. h = q[1]
    BY <1>1 DEF h
  <2>3. CASE h \in S
    BY <2>1, <2>2, <2>3
  <2>4. CASE h \notin S
    BY <2>1, <2>4
  <2>. QED BY <2>3, <2>4
<1>6. Nums(<<h>>, S) \subseteq Nums(q, S)
  <2>1. q[1] \in S => q[1].seq \in Nums(q, S)
    BY <1>1 DEF Nums
  <2>. QED BY <1>5, <2>1
<1>7. ASSUME Rising(q, S), NEW a \in Nums(<<h>>, S), NEW b \in Nums(r, S) PROVE a < b
  <2>1. q[1] \in S /\ a = q[1].seq
    BY <1>5, <1>7
  <2>2. PICK i \in 1..(Len(q) - 1) : q[i + 1] \in S /\ b = q[i + 1].seq /\ i + 1 \in DOMAIN q
    BY <1>2, <1>7
  <2>3. 1 < i + 1 /\ 1 \in DOMAIN q
    BY <1>1
  <2>. QED BY <1>7, <2>1, <2>2, <2>3 DEF Rising
<1>. QED BY <1>3, <1>4, <1>6, <1>7 DEF r, h, Part, Less

LEMMA PartSame == ASSUME NEW q, NEW S PROVE Part(q, q, S)
  BY DEF Part

LEMMA PartNone == ASSUME NEW p, NEW q, NEW S, Nums(p, S) = {} PROVE Part(p, q, S)
<1>1. ASSUME NEW i \in DOMAIN p PROVE p[i] \notin S
  BY <1>1 DEF Nums
<1>. QED BY <1>1 DEF Part, Rising

\* What is added is none of S.
LEMMA PartMore ==
    ASSUME NEW V, NEW p \in Seq(V), NEW q \in Seq(V), NEW S, ~Has(q, S)
    PROVE  Part(p \o q, p, S)
<1>1. Nums(p \o q, S) = Nums(p, S) \cup Nums(q, S)
  BY NumsConcat
<1>2. Nums(q, S) = {} /\ Rising(q, S)
  BY NumsNone
<1>3. Less(Nums(p, S), Nums(q, S))
  BY <1>2 DEF Less
<1>4. Rising(p, S) => Rising(p \o q, S)
  BY <1>2, <1>3, RisingConcat, Zenon
<1>. QED BY <1>1, <1>2, <1>4 DEF Part


-----------------------------------------------------------------------------
(* Stages that hold messages in order: what is in one was sent before what is *)
(* in the next.                                                              *)

Stage == 0..4

InLine(L, S) ==
    /\ \A k \in Stage : Rising(L[k], S)
    /\ \A k, l \in Stage : k < l => Less(Nums(L[k], S), Nums(L[l], S))

LEMMA LineFewer ==
    ASSUME NEW L, NEW K, NEW S, InLine(L, S), \A k \in Stage : Part(K[k], L[k], S)
    PROVE  InLine(K, S)
  BY DEF InLine, Part, Less

\* q goes from stage j to the end of stage i, and there is nothing between them.
LEMMA LineMove ==
    ASSUME NEW V, NEW L, NEW K, NEW S, InLine(L, S),
           NEW i \in Stage, NEW j \in Stage, i < j,
           L[i] \in Seq(V), NEW q \in Seq(V), Rising(q, S),
           Nums(q, S) \subseteq Nums(L[j], S), Less(Nums(q, S), Nums(K[j], S)),
           Part(K[i], L[i] \o q, S), \A k \in Stage \ {i} : Part(K[k], L[k], S),
           \A k \in Stage : i < k /\ k < j => Nums(K[k], S) = {}
    PROVE  InLine(K, S)
<1>1. Rising(L[i], S) /\ Less(Nums(L[i], S), Nums(q, S))
  BY DEF InLine, Less
<1>2. Rising(K[i], S) /\ Nums(K[i], S) \subseteq Nums(L[i], S) \cup Nums(q, S)
  <2>. DEFINE p == L[i]
  <2>1. p \in Seq(V) /\ Rising(p, S) /\ Less(Nums(p, S), Nums(q, S))
    BY <1>1
  <2>. HIDE DEF p
  <2>2. Rising(p \o q, S) /\ Nums(p \o q, S) = Nums(p, S) \cup Nums(q, S)
    BY <2>1, RisingConcat, NumsConcat
  <2>3. Part(K[i], p \o q, S)
    BY DEF p
  <2>. QED BY <2>2, <2>3 DEF Part, p
<1>3. \A k \in Stage \ {i} : Rising(K[k], S) /\ Nums(K[k], S) \subseteq Nums(L[k], S)
  BY DEF InLine, Part
<1>4. \A k, l \in Stage : k < l => \A a \in Nums(L[k], S), b \in Nums(L[l], S) : a < b
  BY DEF InLine, Less
<1>5. ASSUME NEW k \in Stage, NEW l \in Stage, k < l,
             NEW a \in Nums(K[k], S), NEW b \in Nums(K[l], S)
      PROVE  a < b
  <2>1. CASE a \in Nums(L[k], S) /\ b \in Nums(L[l], S)
    BY <1>4, <1>5, <2>1
  <2>2. CASE a \in Nums(q, S) /\ k = i
    <3>1. l # i /\ b \in Nums(L[l], S)
      BY <1>3, <1>5, <2>2 DEF Stage
    <3>2. CASE l < j
      BY <1>5, <2>2, <3>2, Zenon
    <3>3. CASE l = j
      BY <1>5, <2>2, <3>3 DEF Less
    <3>4. CASE j < l
      BY <1>4, <2>2, <3>1, <3>4
    <3>. QED BY <3>2, <3>3, <3>4 DEF Stage
  <2>3. CASE b \in Nums(q, S) /\ l = i
    <3>1. k # i /\ a \in Nums(L[k], S) /\ k < j /\ b \in Nums(L[j], S)
      BY <1>3, <1>5, <2>3 DEF Stage
    <3>. QED BY <1>4, <3>1
  <2>4. a \in Nums(L[k], S) \/ (k = i /\ a \in Nums(q, S))
    BY <1>2, <1>3, <1>5
  <2>5. b \in Nums(L[l], S) \/ (l = i /\ b \in Nums(q, S))
    BY <1>2, <1>3, <1>5
  <2>. QED BY <1>5, <2>1, <2>2, <2>3, <2>4, <2>5
<1>6. \A k \in Stage : Rising(K[k], S)
  BY <1>2, <1>3
<1>. QED BY <1>5, <1>6 DEF InLine, Less

\* All numbers are less than N; the stages but i hold no more.
Below(L, S, N)     == \A k \in Stage : \A a \in Nums(L[k], S) : a < N
Others(K, L, S, i) == \A k \in Stage \ {i} : Part(K[k], L[k], S)

\* New messages enter the last stage.
LEMMA LineGrow ==
    ASSUME NEW V, NEW L, NEW K, NEW S, InLine(L, S),
           NEW p \in Seq(V), NEW q \in Seq(V), NEW N, Rising(q, S), Nums(q, S) \subseteq {N},
           Below(L, S, N), L[4] = p, K[4] = p \o q, Others(K, L, S, 4)
    PROVE  /\ InLine(K, S)
           /\ \A k \in Stage : \A a \in Nums(K[k], S) : a < N \/ (a = N /\ Nums(q, S) # {})
<1>2. 4 \in Stage /\ \A k \in Stage : k # 4 => k < 4
  BY DEF Stage
<1>3. Less(Nums(p, S), Nums(q, S)) /\ Rising(p, S) /\ K[4] = p \o q /\ p \in Seq(V)
  BY <1>2 DEF Less, InLine, Below
<1>4. Rising(p \o q, S) /\ Nums(p \o q, S) = Nums(p, S) \cup Nums(q, S)
  BY <1>3, RisingConcat, NumsConcat
<1>5. Rising(K[4], S) /\ Nums(K[4], S) = Nums(p, S) \cup Nums(q, S)
  BY <1>3, <1>4
<1>6. \A k \in Stage \ {4} : Rising(K[k], S) /\ Nums(K[k], S) \subseteq Nums(L[k], S)
  BY DEF InLine, Part, Others
<1>11. \A k \in Stage : \A a \in Nums(L[k], S) : a < N
  BY DEF Below
<1>7. \A k, l \in Stage : k < l => \A a \in Nums(L[k], S), b \in Nums(L[l], S) : a < b
  BY DEF InLine, Less
<1>8. ASSUME NEW k \in Stage, NEW l \in Stage, k < l,
             NEW a \in Nums(K[k], S), NEW b \in Nums(K[l], S)
      PROVE  a < b
  <2>0. k # 4
    BY <1>8 DEF Stage
  <2>1. k # 4 /\ a \in Nums(L[k], S)
    BY <1>6, <1>8, <2>0, Zenon
  <2>2. CASE l = 4
    <3>1. b \in Nums(L[4], S) \/ b = N
      <4>1. b \in Nums(p, S) \/ b \in Nums(q, S)
        BY <1>5, <1>8, <2>2, Zenon
      <4>. QED BY <4>1
    <3>. QED BY <1>2, <1>7, <1>8, <1>11, <2>1, <2>2, <3>1
  <2>3. CASE l # 4
    BY <1>6, <1>7, <1>8, <2>1, <2>3
  <2>. QED BY <2>2, <2>3
<1>9. ASSUME NEW k \in Stage, NEW a \in Nums(K[k], S)
      PROVE  a < N \/ (a = N /\ Nums(q, S) # {})
  <2>1. CASE k = 4
    <3>1. CASE a \in Nums(p, S)
      BY <1>2, <1>11, <3>1
    <3>2. CASE a \in Nums(q, S)
      BY <3>2
    <3>. QED BY <1>5, <1>9, <2>1, <3>1, <3>2, Zenon
  <2>2. CASE k # 4
    BY <1>6, <1>9, <1>11, <2>2
  <2>. QED BY <2>1, <2>2
<1>10. \A k \in Stage : Rising(K[k], S)
  BY <1>5, <1>6, Zenon
<1>. QED BY <1>8, <1>9, <1>10 DEF InLine, Less

-----------------------------------------------------------------------------
(* A lane: the messages of n for m that were sent by one name, or by handle. *)

By == Name \cup {NULL}

\* The stages of a lane from the service of m back to the mailbox of n's harbor; a
\* command of the mailbox that carries no message counts as Id.
LineOf(g, w, q, x, p) ==
    [k \in Stage |-> CASE k = 0 -> g [] k = 1 -> w [] k = 2 -> q [] k = 3 -> x [] k = 4 -> p]
Carried(e)    == IF e.cmd \in {"name", "handle"} THEN e.msg ELSE Id
Payload(q)    == [i \in DOMAIN q |-> Carried(q[i])]
Waiting(n, b) == IF b \in Name THEN name_queue[n][b] ELSE <<>>
Line(n, b, m) == LineOf(got[m], wire[n][m], queue[n][m], Waiting(n, b), Payload(inbox[n]))

\* The messages are in line, the next message has a greater number, and none has gone
\* past the harbor before it knows the name.
Lane(n, b, m) ==
    /\ InLine(Line(n, b, m), NamedBy(n, b))
    /\ \A k \in Stage : \A a \in Nums(Line(n, b, m)[k], NamedBy(n, b)) : a <= ops
    /\ b \in Name /\ value[n][b] = NULL =>
         \A k \in 0..2 : Nums(Line(n, b, m)[k], NamedBy(n, b)) = {}
Lanes == \A n, m \in Node, b \in By : Lane(n, b, m)

StagesOK == \A n, m \in Node, b \in By :
    /\ got[m] \in Seq(Packages) /\ wire[n][m] \in Seq(Packages)
    /\ queue[n][m] \in Seq(Packages) /\ Waiting(n, b) \in Seq(Packages)
    /\ inbox[n] \in Seq(Box[n])

LEMMA LineOfFacts ==
    ASSUME NEW g, NEW w, NEW q, NEW x, NEW p
    PROVE  /\ LineOf(g, w, q, x, p)[0] = g /\ LineOf(g, w, q, x, p)[1] = w
           /\ LineOf(g, w, q, x, p)[2] = q /\ LineOf(g, w, q, x, p)[3] = x
           /\ LineOf(g, w, q, x, p)[4] = p
  BY DEF LineOf, Stage

LEMMA NumsNat == ASSUME NEW q, NEW n, NEW b PROVE Nums(q, NamedBy(n, b)) \subseteq Nat
<1>1. \A e \in NamedBy(n, b) : e.seq \in Nat
  BY HarborAssumption DEF NamedBy, From, Msg
<1>. QED BY <1>1 DEF Nums

LEMMA StagesTyped == Types => StagesOK
<1>1. SUFFICES ASSUME Types, NEW n \in Node, NEW m \in Node, NEW b \in By
               PROVE  /\ got[m] \in Seq(Packages) /\ wire[n][m] \in Seq(Packages)
                      /\ queue[n][m] \in Seq(Packages) /\ Waiting(n, b) \in Seq(Packages)
                      /\ inbox[n] \in Seq(Box[n])
  BY DEF StagesOK
<1>2. \A q \in Seq(Msg) : q \in Seq(Packages)
  BY SeqSubset, Msg \subseteq Packages DEF Packages
<1>3. got[m] \in Seq(Packages) /\ wire[n][m] \in Seq(Packages) /\ inbox[n] \in Seq(Box[n])
  BY <1>1 DEF Types, HarborTypes, Queues, Services, WireOK
<1>4. queue[n][m] \in Seq(Msg) /\ Waiting(n, b) \in Seq(Msg)
  BY <1>1 DEF Types, HarborTypes, QueueOK, NameQueueOK, Waiting
<1>. QED BY <1>2, <1>3, <1>4

LEMMA StagesTypedNext == Types' => StagesOK'
  BY StagesTyped, PTL

LEMMA CarriedIn ==
    ASSUME NEW n \in Node, NEW e \in Box[n]
    PROVE  Carried(e) \in Packages
<1>1. CASE e.cmd \in {"name", "handle"}
  <2>1. e.msg \in Msg
    BY <1>1, BoxKinds DEF NamedBy, From
  <2>. QED BY <1>1, <2>1 DEF Carried, Packages
<1>2. CASE e.cmd \notin {"name", "handle"}
  BY <1>2 DEF Carried, Packages
<1>. QED BY <1>1, <1>2

LEMMA PayloadFacts ==
    ASSUME NEW n \in Node, NEW p \in Seq(Box[n])
    PROVE  /\ Payload(p) \in Seq(Packages) /\ DOMAIN Payload(p) = DOMAIN p
           /\ Len(Payload(p)) = Len(p)
           /\ \A i \in DOMAIN p : Payload(p)[i] = Carried(p[i])
<1>1. Len(p) \in Nat /\ DOMAIN p = 1..Len(p) /\ \A i \in 1..Len(p) : p[i] \in Box[n]
  BY LenProperties, ElementOfSeq
<1>2. Payload(p) \in [1..Len(p) -> Packages] /\ \A i \in 1..Len(p) : Payload(p)[i] = Carried(p[i])
  BY <1>1, CarriedIn DEF Payload
<1>3. Payload(p) \in Seq(Packages)
  BY <1>1, <1>2, SeqDef
<1>4. Len(Payload(p)) = Len(p)
  BY <1>1, <1>2, <1>3, LenProperties
<1>. QED BY <1>1, <1>2, <1>3, <1>4

LEMMA PayloadConcat ==
    ASSUME NEW n \in Node, NEW p \in Seq(Box[n]), NEW q \in Seq(Box[n])
    PROVE  Payload(p \o q) = Payload(p) \o Payload(q)
<1>. DEFINE r == p \o q
            pp == Payload(p)
            qq == Payload(q)
<1>1. /\ r \in Seq(Box[n]) /\ Len(p) \in Nat /\ Len(q) \in Nat
      /\ DOMAIN p = 1..Len(p) /\ DOMAIN q = 1..Len(q) /\ DOMAIN r = 1..(Len(p) + Len(q))
      /\ \A i \in 1..Len(p) : r[i] = p[i]
      /\ \A i \in 1..Len(q) : r[Len(p) + i] = q[i]
      /\ \A i \in 1..(Len(p) + Len(q)) :
            i \in 1..Len(p) \/ (i - Len(p) \in 1..Len(q) /\ i = Len(p) + (i - Len(p)))
  BY ConcatFacts
<1>. HIDE DEF r
<1>2. /\ pp \in Seq(Packages) /\ Len(pp) = Len(p) /\ \A i \in DOMAIN p : pp[i] = Carried(p[i])
      /\ qq \in Seq(Packages) /\ Len(qq) = Len(q) /\ \A i \in DOMAIN q : qq[i] = Carried(q[i])
      /\ Payload(r) \in Seq(Packages) /\ DOMAIN Payload(r) = DOMAIN r
      /\ \A i \in DOMAIN r : Payload(r)[i] = Carried(r[i])
  BY <1>1, PayloadFacts
<1>. HIDE DEF pp, qq
<1>3. /\ pp \o qq \in Seq(Packages) /\ DOMAIN (pp \o qq) = 1..(Len(p) + Len(q))
      /\ \A i \in 1..Len(p) : (pp \o qq)[i] = pp[i]
      /\ \A i \in 1..Len(q) : (pp \o qq)[Len(p) + i] = qq[i]
  <2>1. /\ pp \o qq \in Seq(Packages) /\ DOMAIN (pp \o qq) = 1..(Len(pp) + Len(qq))
        /\ \A i \in 1..Len(pp) : (pp \o qq)[i] = pp[i]
        /\ \A i \in 1..Len(qq) : (pp \o qq)[Len(pp) + i] = qq[i]
    <3>1. pp \in Seq(Packages) /\ qq \in Seq(Packages)
      BY <1>2
    <3>. QED BY ONLY <3>1, ConcatFacts
  <2>. QED BY <1>2, <2>1
<1>4. ASSUME NEW i \in 1..(Len(p) + Len(q)) PROVE Payload(r)[i] = (pp \o qq)[i]
  <2>1. CASE i \in 1..Len(p)
    BY <1>1, <1>2, <1>3, <2>1, Zenon
  <2>2. CASE i - Len(p) \in 1..Len(q) /\ i = Len(p) + (i - Len(p))
    <3>1. PICK k \in 1..Len(q) : i = Len(p) + k
      BY <2>2, Zenon
    <3>2. r[i] = q[k] /\ (pp \o qq)[i] = qq[k]
      BY <1>1, <1>3, <3>1
    <3>. QED BY <1>1, <1>2, <3>2, Zenon
  <2>. QED BY <1>1, <2>1, <2>2, Zenon
<1>5. Payload(r) = pp \o qq
  <2>. DEFINE f == Payload(r)
              g == pp \o qq
              k == Len(p) + Len(q)
  <2>1. f \in Seq(Packages) /\ g \in Seq(Packages) /\ DOMAIN f = 1..k /\ DOMAIN g = 1..k /\ k \in Nat
        /\ \A i \in 1..k : f[i] = g[i]
    BY <1>1, <1>2, <1>3, <1>4
  <2>. HIDE DEF f, g, k
  <2>2. Len(f) = k /\ Len(g) = k
    BY <2>1
  <2>3. f = g
    BY <2>1, <2>2, SeqEqual
  <2>. QED BY <2>3 DEF f, g
<1>. QED BY <1>5 DEF r, pp, qq

LEMMA PayloadTail ==
    ASSUME NEW n \in Node, NEW p \in Seq(Box[n]), p # <<>>
    PROVE  /\ Tail(p) \in Seq(Box[n]) /\ Head(p) \in Box[n] /\ Payload(p) \in Seq(Packages)
           /\ Payload(Tail(p)) = Tail(Payload(p)) /\ Payload(p) # <<>>
           /\ Head(Payload(p)) = Carried(Head(p))
<1>. DEFINE r == Tail(p)
            pp == Payload(p)
            c == Len(p) - 1
<1>1. /\ r \in Seq(Box[n]) /\ Len(p) \in Nat \ {0} /\ DOMAIN p = 1..Len(p)
      /\ DOMAIN r = 1..c /\ c \in Nat /\ 1 \in 1..Len(p)
      /\ \A i \in 1..c : r[i] = p[i + 1] /\ i + 1 \in 1..Len(p)
      /\ Head(p) = p[1] /\ Head(p) \in Box[n]
  BY TailFacts
<1>2. /\ pp \in Seq(Packages) /\ Len(pp) = Len(p) /\ \A i \in DOMAIN p : pp[i] = Carried(p[i])
      /\ Payload(r) \in Seq(Packages) /\ DOMAIN Payload(r) = DOMAIN r
      /\ \A i \in DOMAIN r : Payload(r)[i] = Carried(r[i])
  BY <1>1, PayloadFacts, Zenon
<1>. HIDE DEF r, pp
<1>3. pp # <<>>
  BY <1>1, <1>2, EmptySeq
<1>4. /\ Tail(pp) \in Seq(Packages) /\ DOMAIN Tail(pp) = 1..c
      /\ \A i \in 1..c : Tail(pp)[i] = pp[i + 1]
      /\ Head(pp) = pp[1]
  <2>1. /\ Tail(pp) \in Seq(Packages) /\ DOMAIN Tail(pp) = 1..(Len(pp) - 1)
        /\ \A i \in 1..(Len(pp) - 1) : Tail(pp)[i] = pp[i + 1]
        /\ Head(pp) = pp[1]
    BY <1>2, <1>3, TailFacts
  <2>. QED BY <1>2, <2>1
<1>. HIDE DEF c
<1>5. Payload(r) = Tail(pp)
  <2>. DEFINE f == Payload(r)
              g == Tail(pp)
  <2>1. f \in Seq(Packages) /\ g \in Seq(Packages) /\ DOMAIN f = 1..c /\ DOMAIN g = 1..c /\ c \in Nat
        /\ \A i \in 1..c : f[i] = g[i]
    BY <1>1, <1>2, <1>4, Zenon
  <2>. HIDE DEF f, g
  <2>2. Len(f) = c /\ Len(g) = c
    BY <2>1
  <2>3. f = g
    BY <2>1, <2>2, SeqEqual
  <2>. QED BY <2>3 DEF f, g
<1>. QED BY <1>1, <1>2, <1>3, <1>4, <1>5, Zenon DEF r, pp

\* The mailbox loses its first command, or at most the newest message is new in it.
LEMMA MailLine ==
    ASSUME Types, Types', NEW n \in Node, NEW b \in By, MailStep(n)
    PROVE  \/ Part(Payload(inbox'[n]), Payload(inbox[n]), NamedBy(n, b))
           \/ \E p \in Seq(Packages) :
                /\ Payload(inbox'[n]) = Payload(inbox[n]) \o p /\ Rising(p, NamedBy(n, b))
                /\ Nums(p, NamedBy(n, b)) \subseteq {ops + 1}
                /\ Nums(p, NamedBy(n, b)) # {} => ops' = ops + 1
<1>. DEFINE S == NamedBy(n, b)
<1>1. inbox[n] \in Seq(Box[n]) /\ Id \notin S
  BY StagesTyped, IdIsNoMsg DEF StagesOK, By, NamedBy, From
<1>. HIDE DEF S
<1>2. CASE inbox'[n] = inbox[n]
  BY <1>2, PartSame
<1>3. CASE inbox[n] # <<>> /\ inbox'[n] = Tail(inbox[n])
  <2>. DEFINE pp == Payload(inbox[n])
  <2>1. pp \in Seq(Packages) /\ pp # <<>> /\ Payload(inbox'[n]) = Tail(pp)
    BY <1>1, <1>3, PayloadTail
  <2>. HIDE DEF pp
  <2>2. Part(Tail(pp), pp, S)
    BY <2>1, TailNums, Zenon
  <2>. QED BY <2>1, <2>2 DEF pp, S
<1>4. ASSUME NEW more \in Seq(Box[n]), inbox'[n] = inbox[n] \o more, Fresh(n, more)
      PROVE  \E p \in Seq(Packages) :
                /\ Payload(inbox'[n]) = Payload(inbox[n]) \o p /\ Rising(p, S)
                /\ Nums(p, S) \subseteq {ops + 1} /\ (Nums(p, S) # {} => ops' = ops + 1)
  <2>. DEFINE p == Payload(more)
  <2>1. /\ p \in Seq(Packages) /\ DOMAIN p = DOMAIN more
        /\ \A i \in DOMAIN more : p[i] = Carried(more[i])
        /\ Payload(inbox'[n]) = Payload(inbox[n]) \o p
    BY <1>1, <1>4, PayloadFacts, PayloadConcat
  <2>. HIDE DEF p
  <2>2. CASE \E i \in DOMAIN more : more[i].cmd \in {"name", "handle"}
    <3>1. DOMAIN more = {1} /\ more[1].cmd \in {"name", "handle"} /\ more[1].msg.seq = ops + 1
          /\ ops' = ops + 1
      BY <1>4, <2>2 DEF Fresh
    <3>2. DOMAIN p = {1} /\ p[1].seq = ops + 1
      BY <2>1, <3>1 DEF Carried
    <3>3. Rising(p, S) /\ Nums(p, S) \subseteq {ops + 1}
      BY <3>2 DEF Rising, Nums
    <3>. QED BY <2>1, <3>1, <3>3
  <2>3. CASE \A i \in DOMAIN more : more[i].cmd \notin {"name", "handle"}
    <3>1. \A i \in DOMAIN p : p[i] = Id
      BY <2>1, <2>3 DEF Carried
    <3>2. ~Has(p, S)
      BY <1>1, <3>1 DEF Has
    <3>3. Nums(p, S) = {} /\ Rising(p, S)
      BY <3>2, NumsNone
    <3>. QED BY <2>1, <3>3
  <2>. QED BY <2>2, <2>3
<1>. QED BY <1>2, <1>3, <1>4, Zenon DEF MailStep, S

LEMMA LineStages ==
    ASSUME NEW n, NEW b, NEW m
    PROVE  /\ Line(n, b, m)[0] = got[m] /\ Line(n, b, m)[1] = wire[n][m]
           /\ Line(n, b, m)[2] = queue[n][m] /\ Line(n, b, m)[3] = Waiting(n, b)
           /\ Line(n, b, m)[4] = Payload(inbox[n])
           /\ Line(n, b, m)'[0] = got'[m] /\ Line(n, b, m)'[1] = wire'[n][m]
           /\ Line(n, b, m)'[2] = queue'[n][m] /\ Line(n, b, m)'[3] = Waiting(n, b)'
           /\ Line(n, b, m)'[4] = Payload(inbox'[n])
  BY LineOfFacts DEF Line

\* Nothing moves but in the mailbox, and messages may be lost.
LEMMA CalmLane ==
    ASSUME Types, Types', NEW n \in Node, NEW m \in Node, NEW b \in By, Lane(n, b, m), MailStep(n),
           ops' = ops \/ ops' = ops + 1,
           Part(got'[m], got[m], NamedBy(n, b)), Part(wire'[n][m], wire[n][m], NamedBy(n, b)),
           Part(queue'[n][m], queue[n][m], NamedBy(n, b)),
           Part(Waiting(n, b)', Waiting(n, b), NamedBy(n, b)),
           b \in Name /\ value'[n][b] = NULL => value[n][b] = NULL
    PROVE  Lane(n, b, m)'
<1>. DEFINE S == NamedBy(n, b)
            L == Line(n, b, m)
            K == Line(n, b, m)'
            p == Payload(inbox[n])
            pn == Payload(inbox'[n])
<1>1. /\ L[4] = p /\ K[4] = pn /\ \A k \in Stage : Nums(L[k], S) \subseteq Nat
      /\ \A k \in Stage \ {4} : Part(K[k], L[k], S)
      /\ ops \in Nat /\ p \in Seq(Packages)
  <2>1. \A k \in Stage \ {4} : Part(K[k], L[k], S)
    <3>1. Part(K[0], L[0], S) /\ Part(K[1], L[1], S) /\ Part(K[2], L[2], S) /\ Part(K[3], L[3], S)
      BY LineStages
    <3>. HIDE DEF K, L, S
    <3>. QED BY <3>1 DEF Stage
  <2>2. \A k \in Stage : Nums(L[k], S) \subseteq Nat
    BY NumsNat
  <2>3. ops \in Nat
    BY HarborAssumption DEF Types, HarborTypes
  <2>4. p \in Seq(Packages)
    BY StagesTyped, PayloadFacts DEF StagesOK
  <2>. QED BY <2>1, <2>2, <2>3, <2>4, LineStages
<1>2. /\ InLine(L, S) /\ \A k \in Stage : \A a \in Nums(L[k], S) : a <= ops
      /\ b \in Name /\ value[n][b] = NULL => \A k \in 0..2 : Nums(L[k], S) = {}
  BY DEF Lane
<1>3. b \in Name /\ value'[n][b] = NULL => \A k \in 0..2 : Nums(K[k], S) = {}
  <2>1. \A k \in 0..2 : k \in Stage \ {4}
    BY DEF Stage
  <2>2. \A k \in 0..2 : Nums(K[k], S) \subseteq Nums(L[k], S)
    BY <1>1, <2>1 DEF Part
  <2>. HIDE DEF K, L, S
  <2>. QED BY <1>2, <2>2
<1>4. Part(pn, p, S) \/ \E q \in Seq(Packages) :
          /\ pn = p \o q /\ Rising(q, S) /\ Nums(q, S) \subseteq {ops + 1}
          /\ Nums(q, S) # {} => ops' = ops + 1
  BY MailLine, Zenon
<1>. HIDE DEF S, L, K, p, pn
<1>5. CASE Part(pn, p, S)
  <2>1. \A k \in Stage : Part(K[k], L[k], S)
    BY <1>1, <1>5
  <2>2. InLine(K, S)
    BY <1>2, <2>1, LineFewer
  <2>3. ASSUME NEW k \in Stage, NEW a \in Nums(K[k], S) PROVE a <= ops'
    <3>1. Nums(K[k], S) \subseteq Nums(L[k], S)
      BY <2>1 DEF Part
    <3>2. a \in Nums(L[k], S)
      BY <2>3, <3>1
    <3>3. a \in Nat /\ a <= ops
      BY <1>1, <1>2, <3>2
    <3>. QED BY <1>1, <3>3
  <2>. QED BY <1>3, <2>2, <2>3 DEF Lane, K, S
<1>6. ASSUME NEW q \in Seq(Packages), pn = p \o q, Rising(q, S), Nums(q, S) \subseteq {ops + 1},
             Nums(q, S) # {} => ops' = ops + 1
      PROVE  Lane(n, b, m)'
  <2>. DEFINE N == ops + 1
  <2>4. ASSUME NEW k \in Stage, NEW a \in Nums(L[k], S) PROVE a < N
    <3>1. a \in Nat /\ a <= ops
      BY <1>1, <1>2, <2>4
    <3>. QED BY <1>1, <3>1
  <2>1. L[4] = p /\ p \in Seq(Packages) /\ K[4] = p \o q /\ Nums(q, S) \subseteq {N}
    BY <1>1, <1>6
  <2>. HIDE DEF N
  <2>5. /\ InLine(L, S) /\ Others(K, L, S, 4) /\ Below(L, S, N)
        /\ Rising(q, S) /\ q \in Seq(Packages)
    BY <1>1, <1>2, <1>6, <2>4 DEF Others, Below
  <2>2. /\ InLine(K, S)
        /\ \A k \in Stage : \A a \in Nums(K[k], S) : a < N \/ (a = N /\ Nums(q, S) # {})
    BY ONLY <2>1, <2>5, LineGrow
  <2>3. ASSUME NEW k \in Stage, NEW a \in Nums(K[k], S) PROVE a <= ops'
    <3>1. a \in Nat
      BY NumsNat DEF S
    <3>2. a < N \/ (a = N /\ Nums(q, S) # {})
      BY <2>2
    <3>. QED BY <1>1, <1>6, <3>1, <3>2 DEF N
  <2>. QED BY <1>3, <2>2, <2>3 DEF Lane, K, S
<1>. QED BY <1>4, <1>5, <1>6

\* In the lane the messages of q go from stage j to the end of stage i, and there is
\* nothing between.
MoveStep(n, b, m, i, j, q) ==
    LET S == NamedBy(n, b) L == Line(n, b, m) K == Line(n, b, m)' IN
    /\ Rising(q, S) /\ Nums(q, S) \subseteq Nums(L[j], S) /\ Less(Nums(q, S), Nums(K[j], S))
    /\ Part(K[i], L[i] \o q, S) /\ Others(K, L, S, i)
    /\ \A k \in Stage : i < k /\ k < j => Nums(K[k], S) = {}

LEMMA MoveLane ==
    ASSUME Types, NEW n \in Node, NEW m \in Node, NEW b \in By, Lane(n, b, m), ops' = ops,
           NEW i \in Stage, NEW j \in Stage, i < j, NEW q \in Seq(Packages),
           MoveStep(n, b, m, i, j, q),
           b \in Name /\ value'[n][b] = NULL => value[n][b] = NULL /\ (j <= 2 \/ i = 3)
    PROVE  Lane(n, b, m)'
<1>. DEFINE S == NamedBy(n, b)
            L == Line(n, b, m)
            K == Line(n, b, m)'
<1>1. L[i] \in Seq(Packages)
  <2>1. /\ L[0] \in Seq(Packages) /\ L[1] \in Seq(Packages) /\ L[2] \in Seq(Packages)
        /\ L[3] \in Seq(Packages) /\ L[4] \in Seq(Packages)
    <3>1. Payload(inbox[n]) \in Seq(Packages)
      BY StagesTyped, PayloadFacts DEF StagesOK
    <3>. QED BY <3>1, StagesTyped, LineStages DEF StagesOK
  <2>2. i = 0 \/ i = 1 \/ i = 2 \/ i = 3 \/ i = 4
    BY DEF Stage
  <2>. HIDE DEF L
  <2>. QED BY <2>1, <2>2
<1>2. /\ InLine(L, S) /\ \A k \in Stage : \A a \in Nums(L[k], S) : a <= ops
      /\ b \in Name /\ value[n][b] = NULL => \A k \in 0..2 : Nums(L[k], S) = {}
  BY DEF Lane
<1>3. /\ Rising(q, S) /\ Nums(q, S) \subseteq Nums(L[j], S) /\ Less(Nums(q, S), Nums(K[j], S))
      /\ Part(K[i], L[i] \o q, S) /\ \A k \in Stage \ {i} : Part(K[k], L[k], S)
      /\ \A k \in Stage : i < k /\ k < j => Nums(K[k], S) = {}
  BY Zenon DEF MoveStep, Others
<1>. HIDE DEF S, L, K
<1>4. InLine(K, S)
  BY <1>1, <1>2, <1>3, LineMove, Zenon
<1>5. Nums(K[i], S) \subseteq Nums(L[i], S) \cup Nums(L[j], S)
  <2>. DEFINE p == L[i]
  <2>1. p \in Seq(Packages)
    BY <1>1
  <2>. HIDE DEF p
  <2>2. Nums(p \o q, S) = Nums(p, S) \cup Nums(q, S)
    BY <2>1, NumsConcat
  <2>3. Part(K[i], p \o q, S)
    BY <1>3 DEF p
  <2>. QED BY <1>3, <2>2, <2>3 DEF Part, p
<1>6. \A k \in Stage \ {i} : Nums(K[k], S) \subseteq Nums(L[k], S)
  BY <1>3 DEF Part
<1>7. ASSUME NEW k \in Stage, NEW a \in Nums(K[k], S) PROVE a <= ops'
  <2>1. a \in Nums(L[k], S) \/ a \in Nums(L[j], S)
    <3>1. CASE k = i
      BY <1>5, <1>7, <3>1
    <3>2. CASE k # i
      BY <1>6, <1>7, <3>2
    <3>. QED BY <3>1, <3>2
  <2>. QED BY <1>2, <2>1
<1>8. ASSUME b \in Name, value'[n][b] = NULL, NEW k \in 0..2 PROVE Nums(K[k], S) = {}
  <2>1. value[n][b] = NULL /\ (j <= 2 \/ i = 3) /\ k \in Stage
    BY <1>8 DEF Stage
  <2>2. CASE k = i
    <3>1. j \in 0..2
      BY <2>1, <2>2 DEF Stage
    <3>. QED BY <1>2, <1>5, <1>8, <2>1, <2>2, <3>1
  <2>3. CASE k # i
    BY <1>2, <1>6, <1>8, <2>1, <2>3, Zenon
  <2>. QED BY <2>2, <2>3
<1>. QED BY <1>4, <1>7, <1>8 DEF Lane, K, S

LEMMA SameNums ==
    ASSUME NEW n, NEW b, NEW p \in Seq(NamedBy(n, b)), NEW q, DOMAIN q = DOMAIN p,
           \A i \in DOMAIN q : q[i] = Handled(p[i])
    PROVE  /\ Nums(q, NamedBy(n, b)) = Nums(p, NamedBy(n, b))
           /\ Rising(p, NamedBy(n, b)) => Rising(q, NamedBy(n, b))
<1>1. \A i \in DOMAIN p : p[i] \in NamedBy(n, b)
  BY LenProperties, ElementOfSeq
<1>2. \A i \in DOMAIN p : q[i] \in NamedBy(n, b) /\ q[i].seq = p[i].seq
  BY <1>1, HandledFacts
<1>3. Nums(q, NamedBy(n, b)) = Nums(p, NamedBy(n, b))
  BY <1>1, <1>2 DEF Nums
<1>4. Rising(p, NamedBy(n, b)) => Rising(q, NamedBy(n, b))
  BY <1>1, <1>2 DEF Rising
<1>. QED BY <1>3, <1>4

\* Messages of another lane.
LEMMA Foreign ==
    ASSUME NEW n, NEW b, NEW k, NEW c, NEW q \in Seq(NamedBy(k, c)), k # n \/ c # b
    PROVE  ~Has(q, NamedBy(n, b))
<1>1. \A i \in DOMAIN q : q[i] \in NamedBy(k, c)
  BY LenProperties, ElementOfSeq
<1>2. \A e \in NamedBy(k, c) : e \notin NamedBy(n, b)
  BY DEF NamedBy, From
<1>. QED BY <1>1, <1>2 DEF Has

LEMMA ForeignNode ==
    ASSUME NEW n, NEW b, NEW k, NEW q \in Seq(From(k)), k # n
    PROVE  ~Has(q, NamedBy(n, b))
<1>1. \A i \in DOMAIN q : q[i] \in From(k)
  BY LenProperties, ElementOfSeq
<1>2. \A e \in From(k) : e \notin NamedBy(n, b)
  BY DEF NamedBy, From
<1>. QED BY <1>1, <1>2 DEF Has

LEMMA PackagesOf == \A n \in Node : From(n) \subseteq Packages /\ \A b : NamedBy(n, b) \subseteq From(n)
  BY DEF From, Packages, NamedBy

\* What the harbor of k puts in the stage it has for h.
LEMMA MovesStages ==
    ASSUME Types, NEW k \in Node, NEW h \in Node, NEW q, Moves(k, h, q)
    PROVE  \E i \in 0..2 :
              /\ i = 0 => h = k
              /\ i = 1 => h # k /\ status[k][h] # "WAIT"
              /\ i # 0 => h # k
              /\ \A n, m \in Node, b \in By : \A j \in 0..2 :
                   Line(n, b, m)'[j] = IF m = h /\ j = i /\ (i = 0 \/ n = k)
                                       THEN Line(n, b, m)[j] \o q ELSE Line(n, b, m)[j]
<1>0. /\ DOMAIN got = Node
      /\ wire \in [Node -> [Node -> Seq(Packages)]] /\ queue \in [Node -> [Node -> Seq(Msg)]]
  BY DEF Types, HarborTypes, Queues, WireOK, QueueOK
<1>1. CASE h = k /\ got' = [got EXCEPT ![k] = @ \o q] /\ UNCHANGED <<queue, wire>>
  <2>1. \A m \in Node : got'[m] = IF m = h THEN got[m] \o q ELSE got[m]
    BY <1>0, <1>1
  <2>2. ASSUME NEW n \in Node, NEW m \in Node, NEW b \in By, NEW j \in 0..2
        PROVE  Line(n, b, m)'[j] = IF m = h /\ j = 0 THEN Line(n, b, m)[j] \o q ELSE Line(n, b, m)[j]
    <3>1. CASE j = 0
      BY <2>1, <3>1, LineStages
    <3>2. CASE j = 1
      BY <1>1, <3>2, LineStages
    <3>3. CASE j = 2
      BY <1>1, <3>3, LineStages
    <3>. QED BY <3>1, <3>2, <3>3
  <2>. QED BY <1>1, <2>2
<1>2. CASE h # k /\ queue' = [queue EXCEPT ![k][h] = @ \o q] /\ UNCHANGED <<wire, got>>
  <2>1. \A n, m \in Node : queue'[n][m] = IF n = k /\ m = h THEN queue[n][m] \o q ELSE queue[n][m]
    BY <1>0, <1>2, Zenon
  <2>2. ASSUME NEW n \in Node, NEW m \in Node, NEW b \in By, NEW j \in 0..2
        PROVE  Line(n, b, m)'[j] = IF m = h /\ j = 2 /\ n = k
                                   THEN Line(n, b, m)[j] \o q ELSE Line(n, b, m)[j]
    <3>1. CASE j = 0
      BY <1>2, <3>1, LineStages
    <3>2. CASE j = 1
      BY <1>2, <3>2, LineStages
    <3>3. CASE j = 2
      BY <2>1, <3>3, LineStages
    <3>. QED BY <3>1, <3>2, <3>3
  <2>. QED BY <1>2, <2>2
<1>3. CASE /\ h # k /\ status[k][h] # "WAIT"
           /\ wire' = [wire EXCEPT ![k][h] = @ \o q] /\ UNCHANGED <<queue, got>>
  <2>1. \A n, m \in Node : wire'[n][m] = IF n = k /\ m = h THEN wire[n][m] \o q ELSE wire[n][m]
    BY <1>0, <1>3, Zenon
  <2>2. ASSUME NEW n \in Node, NEW m \in Node, NEW b \in By, NEW j \in 0..2
        PROVE  Line(n, b, m)'[j] = IF m = h /\ j = 1 /\ n = k
                                   THEN Line(n, b, m)[j] \o q ELSE Line(n, b, m)[j]
    <3>1. CASE j = 0
      BY <1>3, <3>1, LineStages
    <3>2. CASE j = 1
      BY <2>1, <3>2, LineStages
    <3>3. CASE j = 2
      BY <1>3, <3>3, LineStages
    <3>. QED BY <3>1, <3>2, <3>3
  <2>. QED BY <1>3, <2>2
<1>. QED BY <1>1, <1>2, <1>3 DEF Moves

\* A lane the messages do not belong to.
LEMMA MovesForeign ==
    ASSUME Types, NEW k \in Node, NEW h \in Node, NEW q \in Seq(Packages), Moves(k, h, q),
           NEW n \in Node, NEW m \in Node, NEW b \in By,
           ~Has(q, NamedBy(n, b)) \/ (n = k /\ m # h)
    PROVE  /\ Part(got'[m], got[m], NamedBy(n, b)) /\ Part(wire'[n][m], wire[n][m], NamedBy(n, b))
           /\ Part(queue'[n][m], queue[n][m], NamedBy(n, b))
<1>. DEFINE S == NamedBy(n, b)
            L == Line(n, b, m)
            K == Line(n, b, m)'
<1>1. PICK i \in 0..2 :
              \A n_1, m_1 \in Node, b_1 \in By : \A j \in 0..2 :
                   Line(n_1, b_1, m_1)'[j] = IF m_1 = h /\ j = i /\ (i = 0 \/ n_1 = k)
                                       THEN Line(n_1, b_1, m_1)[j] \o q ELSE Line(n_1, b_1, m_1)[j]
  BY MovesStages
<1>6. \A j \in 0..2 : Line(n, b, m)'[j] = IF m = h /\ j = i /\ (i = 0 \/ n = k)
                       THEN Line(n, b, m)[j] \o q ELSE Line(n, b, m)[j]
  BY <1>1, Zenon
<1>2. ASSUME NEW j \in 0..2 PROVE K[j] = L[j] \/ (m = h /\ K[j] = L[j] \o q)
  <2>1. CASE m = h /\ j = i /\ (i = 0 \/ n = k)
    <3>1. Line(n, b, m)'[j] = Line(n, b, m)[j] \o q
      BY <1>6, <2>1, Zenon
    <3>. QED BY <2>1, <3>1
  <2>2. CASE ~(m = h /\ j = i /\ (i = 0 \/ n = k))
    <3>1. Line(n, b, m)'[j] = Line(n, b, m)[j]
      BY <1>6, <2>2, Zenon
    <3>. QED BY <3>1
  <2>. QED BY <2>1, <2>2, Zenon
<1>3. L[0] \in Seq(Packages) /\ L[1] \in Seq(Packages) /\ L[2] \in Seq(Packages)
  <2>1. got[m] \in Seq(Packages) /\ wire[n][m] \in Seq(Packages) /\ queue[n][m] \in Seq(Packages)
    BY StagesTyped DEF StagesOK
  <2>. QED BY <2>1, LineStages
<1>4. ASSUME NEW j \in 0..2 PROVE Part(K[j], L[j], S)
  <2>. DEFINE p == L[j]
              r == K[j]
  <2>1. p \in Seq(Packages)
    <3>. HIDE DEF L
    <3>. QED BY <1>3
  <2>2. r = p \/ (m = h /\ r = p \o q)
    BY <1>2, Zenon
  <2>. HIDE DEF p, r, S
  <2>3. ASSUME r = p PROVE Part(r, p, S)
    <3>1. Part(p, p, S)
      BY PartSame
    <3>. QED BY <2>3, <3>1
  <2>4. ASSUME m = h, r = p \o q PROVE Part(r, p, S)
    <3>1. ~Has(q, S)
      BY <2>4 DEF S
    <3>2. Part(p \o q, p, S)
      BY <2>1, <3>1, PartMore
    <3>. QED BY <2>4, <3>2
  <2>5. Part(r, p, S)
    BY <2>2, <2>3, <2>4
  <2>. QED BY <2>5 DEF p, r
<1>5. Part(K[0], L[0], S) /\ Part(K[1], L[1], S) /\ Part(K[2], L[2], S)
  BY <1>4
<1>. QED BY <1>5, LineStages

\* In the lane of k and b to h, q goes to the end of stage i.
OwnStep(k, b, h, q, i) ==
    /\ i = 0 => h = k
    /\ i = 1 => h # k /\ status[k][h] # "WAIT"
    /\ i # 0 => h # k
    /\ Line(k, b, h)'[i] = Line(k, b, h)[i] \o q
    /\ \A j \in 0..2 : j # i => Line(k, b, h)'[j] = Line(k, b, h)[j]

LEMMA StepOwn ==
    ASSUME Types, NEW k \in Node, NEW h \in Node, NEW q, Moves(k, h, q), NEW b \in By
    PROVE  \E i \in 0..2 : OwnStep(k, b, h, q, i)
<1>1. PICK i \in 0..2 :
              /\ i = 0 => h = k
              /\ i = 1 => h # k /\ status[k][h] # "WAIT"
              /\ i # 0 => h # k
              /\ \A n_1, m_1 \in Node, b_1 \in By : \A j \in 0..2 :
                   Line(n_1, b_1, m_1)'[j] = IF m_1 = h /\ j = i /\ (i = 0 \/ n_1 = k)
                                       THEN Line(n_1, b_1, m_1)[j] \o q ELSE Line(n_1, b_1, m_1)[j]
  BY MovesStages
<1>2. \A j \in 0..2 : Line(k, b, h)'[j] = IF h = h /\ j = i /\ (i = 0 \/ k = k)
                       THEN Line(k, b, h)[j] \o q ELSE Line(k, b, h)[j]
  BY <1>1, Zenon
<1>3. Line(k, b, h)'[i] = Line(k, b, h)[i] \o q
  BY <1>2, Zenon
<1>4. \A j \in 0..2 : j # i => Line(k, b, h)'[j] = Line(k, b, h)[j]
  BY <1>2, Zenon
<1>. QED BY <1>1, <1>3, <1>4, Zenon DEF OwnStep

\* The first command of a mailbox carries a message, and there is nothing of its lane
\* between the mailbox and where it goes.
LEMMA HeadNums ==
    ASSUME NEW k \in Node, NEW p \in Seq(Box[k]), p # <<>>, NEW S, Rising(Payload(p), S)
    PROVE  /\ Nums(<<Carried(Head(p))>>, S) \subseteq Nums(Payload(p), S)
           /\ Less(Nums(<<Carried(Head(p))>>, S), Nums(Payload(Tail(p)), S))
           /\ Part(Payload(Tail(p)), Payload(p), S)
<1>. DEFINE pp == Payload(p)
            c == Carried(Head(p))
            r == Payload(Tail(p))
<1>1. pp \in Seq(Packages) /\ pp # <<>> /\ Head(pp) = c /\ Tail(pp) = r /\ Rising(pp, S)
  BY PayloadTail
<1>. HIDE DEF pp, c, r
<1>2. /\ Part(Tail(pp), pp, S) /\ Nums(<<Head(pp)>>, S) \subseteq Nums(pp, S)
      /\ Rising(pp, S) => Less(Nums(<<Head(pp)>>, S), Nums(Tail(pp), S))
  BY <1>1, TailNums
<1>. QED BY <1>1, <1>2, Zenon DEF pp, c, r

LEMMA HandledNums ==
    ASSUME NEW n, NEW b, NEW e \in NamedBy(n, b)
    PROVE  /\ Nums(<<Handled(e)>>, NamedBy(n, b)) = Nums(<<e>>, NamedBy(n, b))
           /\ Rising(<<Handled(e)>>, NamedBy(n, b)) /\ Rising(<<e>>, NamedBy(n, b))
           /\ <<Handled(e)>> \in Seq(NamedBy(n, b)) /\ <<e>> \in Seq(NamedBy(n, b))
<1>. DEFINE f == Handled(e)
            S == NamedBy(n, b)
<1>1. f \in S /\ f.seq = e.seq /\ e \in S
  BY HandledFacts
<1>. HIDE DEF f, S
<1>2. Nums(<<f>>, S) = IF f \in S THEN {f.seq} ELSE {}
  BY NumsOne
<1>3. Nums(<<e>>, S) = IF e \in S THEN {e.seq} ELSE {}
  BY NumsOne
<1>4. Rising(<<f>>, S) /\ Rising(<<e>>, S)
  BY NumsOne, Zenon
<1>5. <<f>> \in Seq(S) /\ <<e>> \in Seq(S)
  BY <1>1, SeqFacts
<1>. QED BY <1>1, <1>2, <1>3, <1>4, <1>5 DEF f, S

\* Nothing waits where a message has been or will be overtaken.
LEMMA SendLane ==
    ASSUME Types, Types', Handed, NEW k \in Node, NEW h \in Node, NEW c \in By,
           NEW e \in NamedBy(k, c),
           inbox[k] # <<>>, inbox'[k] = Tail(inbox[k]), Carried(Head(inbox[k])) = e,
           Moves(k, h, <<Handled(e)>>), status[k][h] = "HANDSHAKE" => wire' = wire,
           Waiting(k, c) = <<>>, UNCHANGED <<name_queue, value, ops>>,
           c \in Name => value[k][c] # NULL,
           NEW n \in Node, NEW m \in Node, NEW b \in By, Lane(n, b, m), MailStep(n)
    PROVE  Lane(n, b, m)'
<1>. DEFINE q == <<Handled(e)>>
            S == NamedBy(n, b)
            L == Line(n, b, m)
            K == Line(n, b, m)'
<1>1. q \in Seq(NamedBy(k, c)) /\ q \in Seq(Packages)
  <2>1. q \in Seq(NamedBy(k, c))
    BY HandledNums, Zenon
  <2>2. NamedBy(k, c) \subseteq Packages
    BY PackagesOf
  <2>. QED BY <2>1, <2>2, SeqSubset
<1>2. Waiting(n, b)' = Waiting(n, b) /\ Part(Waiting(n, b)', Waiting(n, b), S)
  BY PartSame DEF Waiting
<1>3. b \in Name /\ value'[n][b] = NULL => value[n][b] = NULL
  OBVIOUS
<1>4. CASE n # k \/ b # c \/ m # h
  <2>1. ~Has(q, S) \/ (n = k /\ m # h)
    <3>1. CASE n # k \/ b # c
      BY <1>1, <3>1, Foreign, Zenon
    <3>. QED BY <1>4, <3>1
  <2>2. /\ Part(got'[m], got[m], S) /\ Part(wire'[n][m], wire[n][m], S)
        /\ Part(queue'[n][m], queue[n][m], S)
    BY <1>1, <2>1, MovesForeign, Zenon
  <2>. QED BY <1>2, <1>3, <2>2, CalmLane
<1>6. Moves(k, h, q)
  OBVIOUS
<1>5. CASE n = k /\ b = c /\ m = h
  <2>5. \E i \in 0..2 : OwnStep(k, c, h, q, i)
    <3>. HIDE DEF q
    <3>. QED BY <1>6, StepOwn
  <2>6. PICK i \in 0..2 : OwnStep(k, c, h, q, i)
    BY <2>5
  <2>1. /\ i = 0 => h = k
        /\ i = 1 => h # k /\ status[k][h] # "WAIT"
        /\ i # 0 => h # k
        /\ Line(k, c, h)'[i] = Line(k, c, h)[i] \o q
        /\ \A j \in 0..2 : j # i => Line(k, c, h)'[j] = Line(k, c, h)[j]
    BY <2>6 DEF OwnStep
  <2>2. /\ K[i] = L[i] \o q /\ \A j \in 0..2 : j # i => K[j] = L[j]
        /\ L[0] = got[m] /\ L[1] = wire[n][m] /\ L[2] = queue[n][m]
        /\ K[0] = got'[m] /\ K[1] = wire'[n][m] /\ K[2] = queue'[n][m]
        /\ L[3] = <<>> /\ K[3] = <<>>
        /\ L[4] = Payload(inbox[n]) /\ K[4] = Payload(inbox'[n])
    <3>1. K[i] = L[i] \o q /\ \A j \in 0..2 : j # i => K[j] = L[j]
      BY <1>5, <2>1
    <3>2. Waiting(n, b) = <<>>
      BY <1>5
    <3>. QED BY <1>2, <3>1, <3>2, LineStages
  <2>3. CASE i = 1 /\ status[k][h] = "HANDSHAKE"
    <3>1. wire'[n][m] = wire[n][m] /\ got'[m] = got[m] /\ queue'[n][m] = queue[n][m]
      <4>1. K[0] = L[0] /\ K[2] = L[2]
        BY <2>2, <2>3
      <4>2. wire' = wire
        BY <2>3
      <4>. QED BY <2>2, <4>1, <4>2
    <3>2. /\ Part(got'[m], got[m], S) /\ Part(wire'[n][m], wire[n][m], S)
          /\ Part(queue'[n][m], queue[n][m], S)
      BY <3>1, PartSame
    <3>. QED BY <1>2, <1>3, <3>2, CalmLane
  <2>4. CASE ~(i = 1 /\ status[k][h] = "HANDSHAKE")
    <3>1. /\ Rising(q, S) /\ Nums(q, S) \subseteq Nums(L[4], S) /\ Less(Nums(q, S), Nums(K[4], S))
          /\ Part(K[4], L[4], S)
      <4>. DEFINE p == inbox[k]
      <4>1. Rising(Payload(p), S) /\ p \in Seq(Box[k]) /\ p # <<>>
        <5>1. 4 \in Stage
          BY DEF Stage
        <5>2. Rising(L[4], S)
          BY <5>1 DEF Lane, InLine
        <5>. QED BY <1>5, <2>2, <5>2, StagesTyped DEF StagesOK
      <4>. HIDE DEF p
      <4>2. /\ Nums(<<Carried(Head(p))>>, S) \subseteq Nums(Payload(p), S)
            /\ Less(Nums(<<Carried(Head(p))>>, S), Nums(Payload(Tail(p)), S))
            /\ Part(Payload(Tail(p)), Payload(p), S)
        BY <4>1, HeadNums
      <4>3. Carried(Head(p)) = e /\ L[4] = Payload(p) /\ K[4] = Payload(Tail(p))
        BY <1>5, <2>2 DEF p
      <4>4. Nums(q, S) = Nums(<<e>>, S) /\ Rising(q, S)
        BY <1>5, HandledNums
      <4>. HIDE DEF q, S, L, K
      <4>. QED BY <4>2, <4>3, <4>4
    <3>2. i \in Stage /\ 4 \in Stage /\ i < 4
      BY DEF Stage
    <3>3. Others(K, L, S, i) /\ Part(K[i], L[i] \o q, S)
      <4>1. ASSUME NEW j \in Stage, j # i PROVE Part(K[j], L[j], S)
        <5>1. CASE j \in 0..2
          <6>1. K[j] = L[j]
            BY <2>2, <4>1, <5>1
          <6>2. Part(L[j], L[j], S)
            BY PartSame
          <6>. QED BY <6>1, <6>2
        <5>2. CASE j = 3
          <6>1. Part(L[3], L[3], S) /\ K[3] = L[3]
            BY <2>2, PartSame
          <6>. QED BY <5>2, <6>1
        <5>3. CASE j = 4
          BY <3>1, <5>3
        <5>4. j \in 0..2 \/ j = 3 \/ j = 4
          BY DEF Stage
        <5>. QED BY <5>1, <5>2, <5>3, <5>4
      <4>2. Part(L[i] \o q, L[i] \o q, S)
        BY PartSame
      <4>3. Part(K[i], L[i] \o q, S)
        BY <2>2, <4>2
      <4>. HIDE DEF K, L, S
      <4>. QED BY <4>1, <4>3 DEF Others
    <3>4. ASSUME NEW j \in Stage, i < j, j < 4 PROVE Nums(K[j], S) = {}
      <4>1. Nums(<<>>, S) = {}
        BY HasEmpty, NumsNone
      <4>2. CASE j = 3
        BY <2>2, <4>1, <4>2
      <4>3. CASE j = 1
        <5>1. h = k
          BY <2>1, <3>4, <4>3
        <5>2. wire'[n][m] = <<>>
          BY <1>5, <5>1 DEF Types, HarborTypes, WireOK
        <5>. QED BY <2>2, <4>1, <4>3, <5>2
      <4>4. CASE j = 2
        <5>1. queue[k][h] = <<>>
          <6>1. CASE i = 0
            BY <2>1, <6>1 DEF Types, HarborTypes, QueueOK
          <6>2. CASE i = 1
            <7>1. status[k][h] = "HEADER"
              BY <2>1, <2>4, <6>2 DEF Types, HarborTypes
            <7>. QED BY <7>1 DEF Handed
          <6>. QED BY <3>4, <4>4, <6>1, <6>2
        <5>2. K[2] = L[2]
          BY <2>2, <3>4, <4>4
        <5>. QED BY <1>5, <2>2, <4>1, <4>4, <5>1, <5>2
      <4>5. j = 1 \/ j = 2 \/ j = 3
        BY <3>4 DEF Stage
      <4>. QED BY <4>2, <4>3, <4>4, <4>5
    <3>5. MoveStep(n, b, m, i, 4, q)
      BY <3>1, <3>3, <3>4, Zenon DEF MoveStep
    <3>6. b \in Name /\ value'[n][b] = NULL => value[n][b] = NULL /\ (4 <= 2 \/ i = 3)
      BY <1>5
    <3>7. ops' = ops
      OBVIOUS
    <3>. HIDE DEF q
    <3>. QED BY <1>1, <3>2, <3>5, <3>6, <3>7, MoveLane
  <2>. QED BY <2>3, <2>4
<1>. QED BY <1>4, <1>5

-----------------------------------------------------------------------------
(* Each action leaves every lane in order.                                   *)

\* Only the mailbox moves, or a package is lost.
LEMMA StillLane ==
    ASSUME Types, Types', NEW n \in Node, NEW m \in Node, NEW b \in By, Lane(n, b, m), MailStep(n),
           ops' = ops \/ ops' = ops + 1, UNCHANGED <<got, queue, name_queue, value>>,
           Part(wire'[n][m], wire[n][m], NamedBy(n, b))
    PROVE  Lane(n, b, m)'
<1>1. /\ Part(got'[m], got[m], NamedBy(n, b)) /\ Part(queue'[n][m], queue[n][m], NamedBy(n, b))
      /\ Part(Waiting(n, b)', Waiting(n, b), NamedBy(n, b))
      /\ b \in Name /\ value'[n][b] = NULL => value[n][b] = NULL
  BY PartSame DEF Waiting
<1>. QED BY <1>1, CalmLane

LEMMA WaitingFacts ==
    ASSUME NEW n \in Node, NEW b \in By
    PROVE  /\ b \in Name => /\ Waiting(n, b) = name_queue[n][b]
                            /\ Waiting(n, b)' = name_queue'[n][b]
           /\ b \notin Name => Waiting(n, b) = <<>> /\ Waiting(n, b)' = <<>>
  BY DEF Waiting

LEMMA NoNumsOfNone == ASSUME NEW S PROVE Nums(<<>>, S) = {} /\ ~Has(<<>>, S)
  BY HasEmpty, NumsNone

\* The mailbox without its first command.
LEMMA FirstPart ==
    ASSUME Types, NEW k \in Node, inbox[k] # <<>>, inbox'[k] = Tail(inbox[k]), NEW S
    PROVE  Part(Payload(inbox'[k]), Payload(inbox[k]), S)
<1>. DEFINE pp == Payload(inbox[k])
<1>1. inbox[k] \in Seq(Box[k])
  BY StagesTyped DEF StagesOK, By
<1>2. pp \in Seq(Packages) /\ pp # <<>> /\ Payload(inbox'[k]) = Tail(pp)
  BY <1>1, PayloadTail
<1>. HIDE DEF pp
<1>3. Part(Tail(pp), pp, S)
  BY <1>2, TailNums, Zenon
<1>. QED BY <1>2, <1>3, Zenon DEF pp

\* The messages that wait for a name leave for its node.
LEMMA UpdateNameLane ==
    ASSUME Types, Types', CommandFirst, Answered, NEW k \in Node, UpdateName(k),
           NEW n \in Node, NEW m \in Node, NEW b \in By, Lane(n, b, m), MailStep(n)
    PROVE  Lane(n, b, m)'
<1>. DEFINE S == NamedBy(n, b)
            L == Line(n, b, m)
            K == Line(n, b, m)'
<1>1. PICK x \in Name, h \in Node : \E q \in Seq(NamedBy(k, x)) :
              /\ Head(inbox[k]) = NCommand(x, h) /\ Mailbox(k, Tail(inbox[k]))
              /\ value' = [value EXCEPT ![k][x] = h]
              /\ name_queue' = [name_queue EXCEPT ![k][x] = <<>>]
              /\ q \in Seq(From(k)) /\ Moves(k, h, q)
              /\ DOMAIN q = DOMAIN name_queue[k][x]
              /\ \A i \in DOMAIN q : q[i] = Handled(name_queue[k][x][i])
  BY UpdateNameHands
<1>2. PICK q \in Seq(NamedBy(k, x)) :
              /\ Mailbox(k, Tail(inbox[k])) /\ Moves(k, h, q)
              /\ value' = [value EXCEPT ![k][x] = h]
              /\ name_queue' = [name_queue EXCEPT ![k][x] = <<>>]
              /\ DOMAIN q = DOMAIN name_queue[k][x]
              /\ \A i \in DOMAIN q : q[i] = Handled(name_queue[k][x][i])
  BY <1>1
<1>3. q \in Seq(Packages)
  <2>1. NamedBy(k, x) \subseteq Packages
    BY PackagesOf
  <2>. QED BY <2>1, SeqSubset
<1>4. /\ name_queue'[k][x] = <<>> /\ value'[k][x] = h /\ h # NULL
      /\ \A l \in Node, y \in Name : l # k \/ y # x =>
            name_queue'[l][y] = name_queue[l][y] /\ value'[l][y] = value[l][y]
  BY <1>2, HarborAssumption DEF Types, HarborTypes, NameQueueOK, Node
<1>5. ops' = ops /\ inbox[k] # <<>> /\ inbox'[k] = Tail(inbox[k])
  BY <1>2 DEF UpdateName, Mailbox
<1>6. Part(Waiting(n, b)', Waiting(n, b), S)
  <2>1. CASE n = k /\ b = x
    <3>1. Waiting(n, b)' = <<>>
      BY <1>4, <2>1, WaitingFacts
    <3>. QED BY <3>1, NoNumsOfNone, PartNone
  <2>2. CASE n # k \/ b # x
    <3>1. Waiting(n, b)' = Waiting(n, b)
      BY <1>4, <2>2, WaitingFacts
    <3>. QED BY <3>1, PartSame
  <2>. QED BY <2>1, <2>2
<1>7. b \in Name /\ value'[n][b] = NULL => value[n][b] = NULL
  BY <1>4
<1>8. CASE ~Has(q, S) \/ (n = k /\ m # h)
  <2>1. /\ Part(got'[m], got[m], S) /\ Part(wire'[n][m], wire[n][m], S)
        /\ Part(queue'[n][m], queue[n][m], S)
    BY <1>2, <1>3, <1>8, MovesForeign
  <2>. QED BY <1>5, <1>6, <1>7, <2>1, CalmLane
<1>9. CASE Has(q, S) /\ n = k /\ m = h
  <2>1. b = x
    BY <1>9, Foreign
  <2>2. value[n][b] = NULL /\ b \in Name
    <3>1. name_queue[k][x] # <<>>
      BY <1>2, <1>9 DEF Has
    <3>. QED BY <1>9, <2>1, <3>1, Zenon DEF Answered
  <2>3. PICK i \in 0..2 : OwnStep(k, x, h, q, i)
    <3>1. x \in By
      BY DEF By
    <3>. QED BY <1>2, <3>1, StepOwn
  <2>4. /\ K[i] = L[i] \o q /\ \A j \in 0..2 : j # i => K[j] = L[j]
        /\ L[3] = name_queue[k][x] /\ K[3] = <<>>
        /\ L[4] = Payload(inbox[k]) /\ K[4] = Payload(inbox'[k])
    <3>1. K[i] = L[i] \o q /\ \A j \in 0..2 : j # i => K[j] = L[j]
      BY <1>9, <2>1, <2>3 DEF OwnStep
    <3>. QED BY <1>4, <1>9, <2>1, <3>1, LineStages, WaitingFacts
  <2>5. Rising(q, S) /\ Nums(q, S) \subseteq Nums(L[3], S) /\ Less(Nums(q, S), Nums(K[3], S))
    <3>. DEFINE p == name_queue[k][x]
    <3>1. p \in Seq(NamedBy(n, b))
      BY <1>9, <2>1 DEF Types, HarborTypes, NameQueueOK
    <3>2. DOMAIN q = DOMAIN p /\ \A i_1 \in DOMAIN q : q[i_1] = Handled(p[i_1])
      BY <1>2
    <3>3. L[3] = p /\ Rising(L[3], S)
      BY <2>4 DEF Lane, InLine, Stage
    <3>. HIDE DEF p
    <3>4. Nums(q, S) = Nums(p, S) /\ (Rising(p, S) => Rising(q, S))
      BY <3>1, <3>2, SameNums
    <3>5. Less(Nums(q, S), Nums(K[3], S))
      BY <2>4, NoNumsOfNone DEF Less
    <3>. HIDE DEF L, S
    <3>. QED BY <3>3, <3>4, <3>5
  <2>6. Others(K, L, S, i) /\ Part(K[i], L[i] \o q, S)
    <3>1. ASSUME NEW j \in Stage, j # i PROVE Part(K[j], L[j], S)
      <4>1. CASE j \in 0..2
        <5>1. K[j] = L[j]
          BY <2>4, <3>1, <4>1
        <5>2. Part(L[j], L[j], S)
          BY PartSame
        <5>. QED BY <5>1, <5>2
      <4>2. CASE j = 3
        <5>1. Part(K[3], L[3], S)
          <6>1. Nums(K[3], S) = {}
            BY <2>4, NoNumsOfNone
          <6>. QED BY <6>1, PartNone
        <5>. QED BY <4>2, <5>1
      <4>3. CASE j = 4
        <5>1. Part(K[4], L[4], S)
          BY <1>5, <2>4, FirstPart
        <5>. QED BY <4>3, <5>1
      <4>. QED BY <4>1, <4>2, <4>3 DEF Stage
    <3>2. Part(L[i] \o q, L[i] \o q, S)
      BY PartSame
    <3>3. Part(K[i], L[i] \o q, S)
      BY <2>4, <3>2
    <3>. HIDE DEF K, L, S
    <3>. QED BY <3>1, <3>3 DEF Others
  <2>7. ASSUME NEW j \in Stage, i < j, j < 3 PROVE Nums(K[j], S) = {}
    <3>1. j \in 0..2 /\ j # i
      BY <2>7 DEF Stage
    <3>2. Nums(L[j], S) = {}
      BY <2>2, <3>1 DEF Lane
    <3>3. K[j] = L[j]
      BY <2>4, <3>1
    <3>. QED BY <3>2, <3>3
  <2>8. i \in Stage /\ 3 \in Stage /\ i < 3
    BY DEF Stage
  <2>9. MoveStep(n, b, m, i, 3, q)
    BY <2>5, <2>6, <2>7, Zenon DEF MoveStep
  <2>10. b \in Name /\ value'[n][b] = NULL => value[n][b] = NULL /\ (3 <= 2 \/ i = 3)
    BY <1>4, <1>9, <2>1
  <2>. QED BY <1>3, <1>5, <2>8, <2>9, <2>10, MoveLane
<1>10. CASE n # k
  <2>1. ~Has(q, S)
    BY <1>10, Foreign
  <2>. QED BY <1>8, <2>1
<1>. QED BY <1>8, <1>9, <1>10

LEMMA RemoteSendHandleLane ==
    ASSUME Types, Types', Handed, NEW k \in Node, RemoteSendHandle(k),
           NEW n \in Node, NEW m \in Node, NEW b \in By, Lane(n, b, m), MailStep(n)
    PROVE  Lane(n, b, m)'
<1>1. PICK h \in Node, e \in NamedBy(k, NULL) :
              /\ Head(inbox[k]).cmd = "handle" /\ Head(inbox[k]).msg = e
              /\ Mailbox(k, Tail(inbox[k]))
              /\ Moves(k, h, <<Handled(e)>>)
              /\ status[k][h] = "HANDSHAKE" => wire' = wire
  BY RemoteSendHandleMoves
<1>. DEFINE c == NULL
<1>2. c \in By /\ c \notin Name /\ e \in NamedBy(k, c)
  BY HarborAssumption DEF By
<1>. HIDE DEF c
<1>3. /\ inbox[k] # <<>> /\ inbox'[k] = Tail(inbox[k]) /\ Carried(Head(inbox[k])) = e
      /\ UNCHANGED <<name_queue, value, ops>>
  BY <1>1 DEF RemoteSendHandle, Mailbox, Carried
<1>4. Waiting(k, c) = <<>>
  BY <1>2, WaitingFacts
<1>5. c \in Name => value[k][c] # NULL
  BY <1>2
<1>. QED BY <1>1, <1>2, <1>3, <1>4, <1>5, SendLane

\* The message waits for its name.
LEMMA WaitLane ==
    ASSUME Types, NEW k \in Node, NEW x \in Name, NEW e \in NamedBy(k, x), NEW m \in Node,
           inbox[k] # <<>>, inbox'[k] = Tail(inbox[k]), Carried(Head(inbox[k])) = e,
           UNCHANGED <<queue, wire, got, value, ops>>, value[k][x] = NULL,
           name_queue'[k][x] = Append(name_queue[k][x], e), Lane(k, x, m)
    PROVE  Lane(k, x, m)'
<1>. DEFINE S == NamedBy(k, x)
            L == Line(k, x, m)
            K == Line(k, x, m)'
            q == <<e>>
<1>1. x \in By /\ q \in Seq(Packages) /\ name_queue[k][x] \in Seq(S) /\ inbox[k] \in Seq(Box[k])
  <2>1. x \in By
    BY DEF By
  <2>2. q \in Seq(Packages)
    <3>1. e \in Packages
      BY PackagesOf
    <3>. QED BY <3>1, SeqFacts
  <2>. QED BY <2>1, <2>2, StagesTyped DEF StagesOK, Types, HarborTypes, NameQueueOK
<1>2. /\ \A j \in 0..2 : K[j] = L[j]
      /\ L[3] = name_queue[k][x] /\ K[3] = L[3] \o q
      /\ L[4] = Payload(inbox[k]) /\ K[4] = Payload(Tail(inbox[k])) /\ K[4] = Payload(inbox'[k])
  <2>1. K[0] = L[0] /\ K[1] = L[1] /\ K[2] = L[2]
    BY LineStages
  <2>2. L[3] = name_queue[k][x] /\ K[3] = name_queue'[k][x]
    BY <1>1, LineStages, WaitingFacts
  <2>3. Append(name_queue[k][x], e) = name_queue[k][x] \o q
    <3>. DEFINE p == name_queue[k][x]
    <3>1. p \in Seq(S) /\ e \in S
      BY <1>1
    <3>. HIDE DEF p, S
    <3>2. Append(p, e) = p \o <<e>>
      BY <3>1, AppendOne
    <3>. QED BY <3>2 DEF p
  <2>4. \A j \in 0..2 : j = 0 \/ j = 1 \/ j = 2
    OBVIOUS
  <2>5. L[4] = Payload(inbox[k]) /\ K[4] = Payload(inbox'[k])
    BY LineStages
  <2>. HIDE DEF K, L, q
  <2>. QED BY <2>1, <2>2, <2>3, <2>4, <2>5
<1>3. Rising(q, S) /\ Nums(q, S) \subseteq Nums(L[4], S) /\ Less(Nums(q, S), Nums(K[4], S))
  <2>. DEFINE p == inbox[k]
  <2>1. Rising(Payload(p), S)
    BY <1>2 DEF Lane, InLine, Stage
  <2>2. p \in Seq(Box[k]) /\ p # <<>> /\ Carried(Head(p)) = e
    BY <1>1
  <2>3. L[4] = Payload(p) /\ K[4] = Payload(Tail(p)) /\ Rising(q, S)
    BY <1>2, HandledNums, Zenon
  <2>. HIDE DEF p
  <2>4. /\ Nums(<<Carried(Head(p))>>, S) \subseteq Nums(Payload(p), S)
        /\ Less(Nums(<<Carried(Head(p))>>, S), Nums(Payload(Tail(p)), S))
    BY <2>1, <2>2, HeadNums
  <2>. HIDE DEF S, L, K
  <2>. QED BY <2>2, <2>3, <2>4
<1>4. Others(K, L, S, 3) /\ Part(K[3], L[3] \o q, S)
  <2>1. ASSUME NEW j \in Stage, j # 3 PROVE Part(K[j], L[j], S)
    <3>1. CASE j \in 0..2
      <4>1. K[j] = L[j]
        BY <1>2, <3>1
      <4>2. Part(L[j], L[j], S)
        BY PartSame
      <4>. QED BY <4>1, <4>2
    <3>2. CASE j = 4
      <4>1. Part(K[4], L[4], S)
        BY <1>2, FirstPart
      <4>. QED BY <3>2, <4>1
    <3>. QED BY <2>1, <3>1, <3>2 DEF Stage
  <2>2. Part(L[3] \o q, L[3] \o q, S)
    BY PartSame
  <2>3. Part(K[3], L[3] \o q, S)
    BY <1>2, <2>2
  <2>. HIDE DEF K, L, S
  <2>. QED BY <2>1, <2>3 DEF Others
<1>5. 3 \in Stage /\ 4 \in Stage /\ 3 < 4 /\ \A j \in Stage : ~(3 < j /\ j < 4)
  BY DEF Stage
<1>6. MoveStep(k, x, m, 3, 4, q)
  BY <1>3, <1>4, <1>5 DEF MoveStep
<1>7. x \in Name /\ value'[k][x] = NULL => value[k][x] = NULL /\ (4 <= 2 \/ 3 = 3)
  OBVIOUS
<1>8. ops' = ops
  OBVIOUS
<1>. HIDE DEF q
<1>. QED BY <1>1, <1>5, <1>6, <1>7, <1>8, MoveLane, Zenon

LEMMA RemoteSendNameLane ==
    ASSUME Types, Types', Handed, Answered, NEW k \in Node, RemoteSendName(k),
           NEW n \in Node, NEW m \in Node, NEW b \in By, Lane(n, b, m), MailStep(n)
    PROVE  Lane(n, b, m)'
<1>1. PICK x \in Name : \E e \in NamedBy(k, x) :
              /\ Head(inbox[k]).cmd = "name" /\ Head(inbox[k]).msg = e
              /\ Mailbox(k, Tail(inbox[k]))
              /\ \/ /\ value[k][x] = NULL /\ UNCHANGED <<queue, wire, got>>
                    /\ name_queue'[k][x] = Append(name_queue[k][x], e)
                    /\ \A l \in Node, y \in Name :
                          l # k \/ y # x => name_queue'[l][y] = name_queue[l][y]
                 \/ /\ value[k][x] \in Node /\ name_queue' = name_queue
                    /\ Moves(k, value[k][x], <<Handled(e)>>)
                    /\ status[k][value[k][x]] = "HANDSHAKE" => wire' = wire
  BY RemoteSendNameMoves
<1>2. PICK e \in NamedBy(k, x) :
              /\ Head(inbox[k]).cmd = "name" /\ Head(inbox[k]).msg = e
              /\ Mailbox(k, Tail(inbox[k]))
              /\ \/ /\ value[k][x] = NULL /\ UNCHANGED <<queue, wire, got>>
                    /\ name_queue'[k][x] = Append(name_queue[k][x], e)
                    /\ \A l \in Node, y \in Name :
                          l # k \/ y # x => name_queue'[l][y] = name_queue[l][y]
                 \/ /\ value[k][x] \in Node /\ name_queue' = name_queue
                    /\ Moves(k, value[k][x], <<Handled(e)>>)
                    /\ status[k][value[k][x]] = "HANDSHAKE" => wire' = wire
  BY <1>1
<1>3. /\ inbox[k] # <<>> /\ inbox'[k] = Tail(inbox[k]) /\ Carried(Head(inbox[k])) = e
      /\ UNCHANGED <<value, ops>> /\ x \in By
  BY <1>2 DEF RemoteSendName, Mailbox, Carried, By
<1>4. CASE /\ value[k][x] = NULL /\ UNCHANGED <<queue, wire, got>>
           /\ name_queue'[k][x] = Append(name_queue[k][x], e)
           /\ \A l \in Node, y \in Name :
                 l # k \/ y # x => name_queue'[l][y] = name_queue[l][y]
  <2>1. CASE n = k /\ b = x
    <3>1. Lane(k, x, m)
      BY <2>1
    <3>2. Lane(k, x, m)'
      BY <1>3, <1>4, <3>1, WaitLane
    <3>. QED BY <2>1, <3>2
  <2>2. CASE n # k \/ b # x
    <3>1. Waiting(n, b)' = Waiting(n, b)
      BY <1>4, <2>2, WaitingFacts
    <3>2. /\ Part(got'[m], got[m], NamedBy(n, b)) /\ Part(queue'[n][m], queue[n][m], NamedBy(n, b))
          /\ Part(wire'[n][m], wire[n][m], NamedBy(n, b))
          /\ Part(Waiting(n, b)', Waiting(n, b), NamedBy(n, b))
      BY <1>4, <3>1, PartSame
    <3>. QED BY <1>3, <3>2, CalmLane
  <2>. QED BY <2>1, <2>2
<1>5. CASE /\ value[k][x] \in Node /\ name_queue' = name_queue
           /\ Moves(k, value[k][x], <<Handled(e)>>)
           /\ status[k][value[k][x]] = "HANDSHAKE" => wire' = wire
  <2>. DEFINE h == value[k][x]
  <2>1. value[k][x] # NULL /\ name_queue[k][x] = <<>>
    <3>1. value[k][x] # NULL
      BY <1>5, NodeFacts
    <3>. QED BY <3>1, Zenon DEF Answered
  <2>2. Waiting(k, x) = <<>>
    BY <1>3, <2>1, WaitingFacts
  <2>3. h \in Node /\ Moves(k, h, <<Handled(e)>>) /\ (status[k][h] = "HANDSHAKE" => wire' = wire)
    BY <1>5
  <2>4. x \in Name => value[k][x] # NULL
    BY <2>1
  <2>. HIDE DEF h
  <2>. QED BY <1>3, <1>5, <2>2, <2>3, <2>4, SendLane
<1>. QED BY <1>2, <1>4, <1>5

LEMMA IdForeign == ASSUME NEW n, NEW b PROVE ~Has(<<Id>>, NamedBy(n, b))
<1>1. Id \notin NamedBy(n, b)
  BY IdIsNoMsg DEF NamedBy, From
<1>. QED BY <1>1, HasOne

\* The queue of a node goes out when its connection is ready.
LEMMA FlushLane ==
    ASSUME Types, NEW k \in Node, NEW h \in Node, NEW b \in By, Lane(k, b, h),
           UNCHANGED <<got, name_queue, value, ops>>,
           Part(Payload(inbox'[k]), Payload(inbox[k]), NamedBy(k, b)),
           NEW q \in Seq(Packages), wire'[k][h] = wire[k][h] \o q, queue'[k][h] = <<>>,
           Part(q, queue[k][h], NamedBy(k, b))
    PROVE  Lane(k, b, h)'
<1>. DEFINE S == NamedBy(k, b)
            L == Line(k, b, h)
            K == Line(k, b, h)'
<1>1. /\ K[0] = L[0] /\ K[1] = L[1] \o q /\ L[2] = queue[k][h] /\ K[2] = <<>> /\ K[3] = L[3]
      /\ L[4] = Payload(inbox[k]) /\ K[4] = Payload(inbox'[k])
  <2>1. Waiting(k, b)' = Waiting(k, b)
    BY DEF Waiting
  <2>2. /\ L[0] = got[h] /\ L[1] = wire[k][h] /\ L[2] = queue[k][h] /\ L[3] = Waiting(k, b)
        /\ L[4] = Payload(inbox[k])
    BY LineStages
  <2>3. /\ K[0] = got'[h] /\ K[1] = wire'[k][h] /\ K[2] = queue'[k][h] /\ K[3] = Waiting(k, b)'
        /\ K[4] = Payload(inbox'[k])
    BY LineStages
  <2>4. got'[h] = got[h]
    OBVIOUS
  <2>. HIDE DEF K, L
  <2>. QED BY <2>1, <2>2, <2>3, <2>4
<1>2. Rising(L[2], S)
  BY DEF Lane, InLine, Stage
<1>3. Rising(q, S) /\ Nums(q, S) \subseteq Nums(L[2], S) /\ Less(Nums(q, S), Nums(K[2], S))
  <2>1. Nums(q, S) \subseteq Nums(queue[k][h], S) /\ (Rising(queue[k][h], S) => Rising(q, S))
    BY DEF Part
  <2>2. Less(Nums(q, S), Nums(<<>>, S))
    BY NoNumsOfNone DEF Less
  <2>3. /\ Nums(q, S) \subseteq Nums(L[2], S) /\ (Rising(L[2], S) => Rising(q, S))
        /\ Less(Nums(q, S), Nums(K[2], S))
    BY <1>1, <2>1, <2>2
  <2>. HIDE DEF S, L, K
  <2>. QED BY <1>2, <2>3
<1>4. Others(K, L, S, 1) /\ Part(K[1], L[1] \o q, S)
  <2>1. Part(L[0], L[0], S) /\ Part(L[3], L[3], S) /\ Part(L[1] \o q, L[1] \o q, S)
    BY PartSame
  <2>2. Part(<<>>, L[2], S)
    BY NoNumsOfNone, PartNone
  <2>3. Part(K[0], L[0], S) /\ Part(K[2], L[2], S) /\ Part(K[3], L[3], S)
        /\ Part(K[1], L[1] \o q, S)
    <3>. HIDE DEF K, L, S
    <3>. QED BY <1>1, <2>1, <2>2
  <2>4. Part(K[4], L[4], S)
    BY <1>1
  <2>. HIDE DEF K, L, S
  <2>. QED BY <2>3, <2>4 DEF Others, Stage
<1>5. 1 \in Stage /\ 2 \in Stage /\ 1 < 2 /\ \A j \in Stage : ~(1 < j /\ j < 2)
  BY DEF Stage
<1>6. MoveStep(k, b, h, 1, 2, q)
  BY <1>3, <1>4, <1>5 DEF MoveStep
<1>7. b \in Name /\ value'[k][b] = NULL => value[k][b] = NULL /\ (2 <= 2 \/ 1 = 3)
  OBVIOUS
<1>8. ops' = ops
  OBVIOUS
<1>. QED BY <1>5, <1>6, <1>7, <1>8, MoveLane

LEMMA StartConnectionLane ==
    ASSUME Types, Types', NEW k \in Node, StartConnection(k),
           NEW n \in Node, NEW m \in Node, NEW b \in By, Lane(n, b, m), MailStep(n)
    PROVE  Lane(n, b, m)'
<1>. DEFINE S == NamedBy(n, b)
<1>1. PICK h \in Node \ {k} :
              /\ Mailbox(k, Tail(inbox[k]))
              /\ \/ UNCHANGED <<status, queue, wire>>
                 \/ /\ Sets(wire', wire, k, h, wire[k][h] \o <<Id>>)
                    /\ queue' = queue
                 \/ /\ Sets(wire', wire, k, h, wire[k][h] \o (<<Id>> \o queue[k][h]))
                    /\ Sets(queue', queue, k, h, <<>>)
  BY StartConnectionSets
<1>2. /\ UNCHANGED <<got, name_queue, value, ops>> /\ inbox[k] # <<>>
      /\ inbox'[k] = Tail(inbox[k])
  BY <1>1 DEF StartConnection, Mailbox
<1>3. /\ wire[n][m] \in Seq(Packages) /\ queue[n][m] \in Seq(Packages)
      /\ <<Id>> \in Seq(Packages) /\ ~Has(<<Id>>, S)
  BY StagesTyped, SeqFacts, IdForeign, Zenon DEF StagesOK, Packages
<1>4. CASE UNCHANGED <<status, queue, wire>>
  <2>1. Part(wire'[n][m], wire[n][m], S)
    BY <1>4, PartSame
  <2>. QED BY <1>2, <1>4, <2>1, StillLane
<1>5. CASE Sets(wire', wire, k, h, wire[k][h] \o <<Id>>) /\ queue' = queue
  <2>1. CASE n = k /\ m = h
    <3>1. wire'[n][m] = wire[n][m] \o <<Id>>
      BY <1>5, <2>1 DEF Sets
    <3>2. Part(wire[n][m] \o <<Id>>, wire[n][m], S)
      BY <1>3, PartMore, Zenon
    <3>. QED BY <1>2, <1>5, <3>1, <3>2, StillLane, Zenon
  <2>2. CASE n # k \/ m # h
    <3>1. wire'[n][m] = wire[n][m]
      BY <1>5, <2>2 DEF Sets
    <3>2. Part(wire'[n][m], wire[n][m], S)
      BY <3>1, PartSame
    <3>. QED BY <1>2, <1>5, <3>2, StillLane
  <2>. QED BY <2>1, <2>2
<1>6. CASE /\ Sets(wire', wire, k, h, wire[k][h] \o (<<Id>> \o queue[k][h]))
           /\ Sets(queue', queue, k, h, <<>>)
  <2>1. CASE n = k /\ m = h
    <3>. DEFINE p == queue[n][m]
                d == <<Id>>
                q == d \o p
    <3>1. wire'[n][m] = wire[n][m] \o q /\ queue'[n][m] = <<>>
      BY <1>6, <2>1, Zenon DEF Sets
    <3>2. p \in Seq(Packages) /\ d \in Seq(Packages) /\ ~Has(d, S)
      BY <1>3
    <3>. HIDE DEF p, d
    <3>3. q \in Seq(Packages)
      BY <3>2, ConcatProperties
    <3>4. Nums(q, S) = Nums(d, S) \cup Nums(p, S) /\ Nums(d, S) = {} /\ Rising(d, S)
      BY <3>2, NumsConcat, NumsNone
    <3>5. Less(Nums(d, S), Nums(p, S))
      BY <3>4 DEF Less
    <3>6. Rising(p, S) => Rising(q, S)
      BY <3>2, <3>4, <3>5, RisingConcat, Zenon
    <3>7. Part(q, queue[n][m], S)
      BY <3>4, <3>6 DEF Part, p
    <3>8. Part(Payload(inbox'[n]), Payload(inbox[n]), S)
      BY <1>2, <2>1, FirstPart
    <3>. HIDE DEF q
    <3>. QED BY <1>2, <3>1, <3>3, <3>7, <3>8, FlushLane
  <2>2. CASE n # k \/ m # h
    <3>1. wire'[n][m] = wire[n][m] /\ queue'[n][m] = queue[n][m] /\ Waiting(n, b)' = Waiting(n, b)
      BY <1>2, <1>6, <2>2 DEF Sets, Waiting
    <3>2. /\ Part(got'[m], got[m], S) /\ Part(queue'[n][m], queue[n][m], S)
          /\ Part(wire'[n][m], wire[n][m], S) /\ Part(Waiting(n, b)', Waiting(n, b), S)
      BY <1>2, <3>1, PartSame
    <3>. QED BY <1>2, <3>2, CalmLane
  <2>. QED BY <2>1, <2>2
<1>. QED BY <1>1, <1>4, <1>5, <1>6

\* A message is received.
LEMMA ReceiveLane ==
    ASSUME Types, NEW n \in Node, NEW m \in Node, NEW b \in By, Lane(n, b, m),
           UNCHANGED <<inbox, queue, name_queue, value, ops>>, wire[n][m] # <<>>,
           wire'[n][m] = Tail(wire[n][m]), got'[m] = Append(got[m], Head(wire[n][m]))
    PROVE  Lane(n, b, m)'
<1>. DEFINE S == NamedBy(n, b)
            L == Line(n, b, m)
            K == Line(n, b, m)'
            w == wire[n][m]
            e == Head(w)
            q == <<e>>
<1>1. w \in Seq(Packages) /\ w # <<>> /\ e \in Packages /\ q \in Seq(Packages)
      /\ got[m] \in Seq(Packages)
  <2>1. w \in Seq(Packages) /\ w # <<>> /\ got[m] \in Seq(Packages)
    BY StagesTyped DEF StagesOK
  <2>. HIDE DEF w
  <2>2. e \in Packages
    BY <2>1, TailFacts
  <2>. HIDE DEF e
  <2>. QED BY <2>1, <2>2, SeqFacts
<1>2. /\ K[0] = L[0] \o q /\ L[1] = w /\ K[1] = Tail(w) /\ K[2] = L[2] /\ K[3] = L[3] /\ K[4] = L[4]
  <2>1. got'[m] = got[m] \o q
    <3>. HIDE DEF e
    <3>1. got'[m] = Append(got[m], e)
      BY DEF e
    <3>2. Append(got[m], e) = got[m] \o q
      BY <1>1, AppendOne
    <3>. QED BY <3>1, <3>2
  <2>2. Waiting(n, b)' = Waiting(n, b)
    BY DEF Waiting
  <2>3. /\ L[0] = got[m] /\ L[1] = wire[n][m] /\ L[2] = queue[n][m] /\ L[3] = Waiting(n, b)
        /\ L[4] = Payload(inbox[n])
    BY LineStages
  <2>4. /\ K[0] = got'[m] /\ K[1] = wire'[n][m] /\ K[2] = queue'[n][m] /\ K[3] = Waiting(n, b)'
        /\ K[4] = Payload(inbox'[n])
    BY LineStages
  <2>5. wire'[n][m] = Tail(w) /\ wire[n][m] = w /\ queue' = queue /\ inbox' = inbox
    OBVIOUS
  <2>. HIDE DEF q, w, K, L
  <2>. QED BY <2>1, <2>2, <2>3, <2>4, <2>5
<1>3. Rising(L[1], S)
  BY DEF Lane, InLine, Stage
<1>4. /\ Part(Tail(w), w, S) /\ Nums(q, S) \subseteq Nums(w, S)
      /\ Rising(w, S) => Less(Nums(q, S), Nums(Tail(w), S))
  <2>. HIDE DEF w, S
  <2>. QED BY <1>1, TailNums
<1>5. Rising(q, S)
  BY NumsOne, Zenon
<1>. HIDE DEF w, e, q
<1>6. Rising(q, S) /\ Nums(q, S) \subseteq Nums(L[1], S) /\ Less(Nums(q, S), Nums(K[1], S))
  BY <1>2, <1>3, <1>4, <1>5
<1>7. Others(K, L, S, 0) /\ Part(K[0], L[0] \o q, S)
  <2>1. /\ Part(L[2], L[2], S) /\ Part(L[3], L[3], S) /\ Part(L[4], L[4], S)
        /\ Part(L[0] \o q, L[0] \o q, S)
    BY PartSame
  <2>. HIDE DEF K, L, S
  <2>2. /\ Part(K[1], L[1], S) /\ Part(K[2], L[2], S) /\ Part(K[3], L[3], S) /\ Part(K[4], L[4], S)
        /\ Part(K[0], L[0] \o q, S)
    BY <1>2, <1>4, <2>1
  <2>. QED BY <2>2 DEF Others, Stage
<1>8. 0 \in Stage /\ 1 \in Stage /\ 0 < 1 /\ \A j \in Stage : ~(0 < j /\ j < 1)
  BY DEF Stage
<1>9. MoveStep(n, b, m, 0, 1, q)
  BY <1>6, <1>7, <1>8 DEF MoveStep
<1>10. b \in Name /\ value'[n][b] = NULL => value[n][b] = NULL /\ (1 <= 2 \/ 0 = 3)
  OBVIOUS
<1>11. ops' = ops
  OBVIOUS
<1>. QED BY <1>1, <1>8, <1>9, <1>10, <1>11, MoveLane

LEMMA PushSocketDataLane ==
    ASSUME Types, Types', NEW k \in Node, NEW l \in Node \ {k}, PushSocketData(k, l),
           NEW n \in Node, NEW m \in Node, NEW b \in By, Lane(n, b, m), MailStep(n)
    PROVE  Lane(n, b, m)'
<1>. DEFINE S == NamedBy(n, b)
<1>1. /\ wire[l][k] # <<>> /\ wire'[l][k] = Tail(wire[l][k])
      /\ \/ /\ wire'[k][l] = wire[k][l] \o queue[k][l]
            /\ Sets(queue', queue, k, l, <<>>) /\ got' = got
         \/ /\ wire'[k][l] = wire[k][l]
            /\ got'[k] = Append(got[k], Head(wire[l][k]))
            /\ \A i \in Node \ {k} : got'[i] = got[i]
            /\ queue' = queue
      /\ \A i, j \in Node : {i, j} # {k, l} => wire'[i][j] = wire[i][j]
  BY PushSocketDataSets, Zenon
<1>2. UNCHANGED <<inbox, name_queue, value, ops>> /\ Waiting(n, b)' = Waiting(n, b)
  BY DEF PushSocketData, Waiting
<1>3. Part(Waiting(n, b)', Waiting(n, b), S)
  BY <1>2, PartSame
<1>4. n = l /\ m = k => Part(wire'[n][m], wire[n][m], S)
  <2>1. SUFFICES ASSUME n = l, m = k PROVE Part(wire'[n][m], wire[n][m], S)
    OBVIOUS
  <2>. DEFINE w == wire[l][k]
  <2>2. w \in Seq(Packages) /\ w # <<>>
    BY <1>1, StagesTyped DEF StagesOK, By
  <2>. HIDE DEF w
  <2>3. Part(Tail(w), w, S)
    BY <2>2, TailNums, Zenon
  <2>. QED BY <1>1, <2>1, <2>3 DEF w
<1>5. ASSUME ~(n = k /\ m = l), ~(n = l /\ m = k) PROVE wire'[n][m] = wire[n][m]
  BY <1>1, <1>5
<1>6. CASE /\ wire'[k][l] = wire[k][l] \o queue[k][l]
           /\ Sets(queue', queue, k, l, <<>>) /\ got' = got
  <2>1. CASE n = k /\ m = l
    <3>. DEFINE q == queue[n][m]
    <3>1. q \in Seq(Packages)
      BY StagesTyped DEF StagesOK
    <3>2. wire'[n][m] = wire[n][m] \o q /\ queue'[n][m] = <<>>
      BY <1>6, <2>1, Zenon DEF Sets
    <3>3. Part(Payload(inbox'[n]), Payload(inbox[n]), S) /\ Part(q, queue[n][m], S)
      BY <1>2, PartSame
    <3>. HIDE DEF q
    <3>. QED BY <1>2, <1>6, <3>1, <3>2, <3>3, FlushLane
  <2>2. CASE ~(n = k /\ m = l)
    <3>1. queue'[n][m] = queue[n][m]
      BY <1>6, <2>2 DEF Sets
    <3>2. Part(wire'[n][m], wire[n][m], S)
      BY <1>4, <1>5, <2>2, PartSame
    <3>3. Part(got'[m], got[m], S) /\ Part(queue'[n][m], queue[n][m], S)
      BY <1>6, <3>1, PartSame
    <3>. QED BY <1>2, <1>3, <3>2, <3>3, CalmLane
  <2>. QED BY <2>1, <2>2
<1>7. CASE /\ wire'[k][l] = wire[k][l]
           /\ got'[k] = Append(got[k], Head(wire[l][k]))
           /\ \A i \in Node \ {k} : got'[i] = got[i]
           /\ queue' = queue
  <2>1. CASE n = l /\ m = k
    BY <1>1, <1>2, <1>7, <2>1, ReceiveLane
  <2>2. CASE ~(n = l /\ m = k)
    <3>1. Part(wire'[n][m], wire[n][m], S)
      <4>1. wire'[n][m] = wire[n][m]
        BY <1>5, <1>7, <2>2
      <4>. QED BY <4>1, PartSame
    <3>2. Part(got'[m], got[m], S)
      <4>1. CASE m # k
        <5>1. got'[m] = got[m]
          BY <1>7, <4>1
        <5>. QED BY <5>1, PartSame
      <4>2. CASE m = k
        <5>. DEFINE e == Head(wire[l][k])
                    q == <<e>>
                    p == got[k]
        <5>1. e \in From(l) \cup {Id}
          BY <1>1, WireFacts, TailFacts, Zenon
        <5>2. e \notin S
          <6>1. n # l
            BY <2>2, <4>2
          <6>. QED BY <5>1, <6>1, IdIsNoMsg DEF From, NamedBy
        <5>3. e \in Packages /\ p \in Seq(Packages)
          BY <5>1, StagesTyped DEF From, Packages, StagesOK, By
        <5>4. got'[m] = Append(p, e) /\ got[m] = p
          BY <1>7, <4>2
        <5>. HIDE DEF e, S, p
        <5>5. ~Has(q, S) /\ q \in Seq(Packages) /\ Append(p, e) = p \o q
          BY <5>2, <5>3, HasOne, AppendOne
        <5>. HIDE DEF q
        <5>6. Part(p \o q, p, S)
          BY <5>3, <5>5, PartMore
        <5>. QED BY <5>4, <5>5, <5>6
      <4>. QED BY <4>1, <4>2
    <3>3. Part(queue'[n][m], queue[n][m], S)
      BY <1>7, PartSame
    <3>4. b \in Name /\ value'[n][b] = NULL => value[n][b] = NULL
      BY <1>2
    <3>. QED BY <1>2, <1>3, <3>1, <3>2, <3>3, <3>4, CalmLane
  <2>. QED BY <2>1, <2>2
<1>. QED BY <1>1, <1>6, <1>7, Zenon

\* A package is read by the slave, or dropped.
LEMMA LostLane ==
    ASSUME Types, Types', NEW k \in Node, NEW l \in Node, wire[k][l] # <<>>,
           Sets(wire', wire, k, l, Tail(wire[k][l])),
           UNCHANGED <<got, queue, name_queue, value, ops>>,
           NEW n \in Node, NEW m \in Node, NEW b \in By, Lane(n, b, m), MailStep(n)
    PROVE  Lane(n, b, m)'
<1>. DEFINE S == NamedBy(n, b)
            w == wire[k][l]
<1>1. w \in Seq(Packages) /\ w # <<>>
  BY StagesTyped DEF StagesOK
<1>2. n = k /\ m = l => wire'[n][m] = Tail(w) /\ wire[n][m] = w
  BY DEF Sets
<1>3. n # k \/ m # l => wire'[n][m] = wire[n][m]
  BY DEF Sets
<1>. HIDE DEF w
<1>4. Part(Tail(w), w, S)
  BY <1>1, TailNums, Zenon
<1>5. Part(wire'[n][m], wire[n][m], S)
  <2>1. CASE n = k /\ m = l
    BY <1>2, <1>4, <2>1, Zenon
  <2>2. CASE n # k \/ m # l
    BY <1>3, <2>2, PartSame
  <2>. QED BY <2>1, <2>2
<1>. QED BY <1>5, StillLane

LEMMA LanesNext ==
    ASSUME Net, Net', CommandFirst, Handed, Answered, Lanes, [Next]_vars
    PROVE  Lanes'
<1>0. Types /\ Types' /\ Links
  BY DEF Net
<1>. SUFFICES ASSUME NEW n \in Node, NEW m \in Node, NEW b \in By PROVE Lane(n, b, m)'
  BY DEF Lanes
<1>1. Lane(n, b, m) /\ MailStep(n)
  BY MailNext DEF Lanes
<1>2. ASSUME UNCHANGED <<got, queue, name_queue, value, wire>>, ops' = ops \/ ops' = ops + 1
      PROVE  Lane(n, b, m)'
  <2>1. Part(wire'[n][m], wire[n][m], NamedBy(n, b))
    BY <1>2, PartSame
  <2>. QED BY <1>0, <1>1, <1>2, <2>1, StillLane
<1>3. CASE UNCHANGED vars
  BY <1>2, <1>3 DEF vars
<1>4. ASSUME NEW k \in Node,
             \/ Handshake(k) \/ MasterRegister(k) \/ MasterQuery(k)
             \/ ReadW(k) \/ Ready(k) \/ MasterConnect(k) \/ MasterName(k) \/ HarborQuery(k)
      PROVE  Lane(n, b, m)'
  BY <1>2, <1>4 DEF Handshake, MasterRegister, MasterQuery, ReadW, Ready, MasterConnect,
     MasterName,
     HarborQuery
<1>5. ASSUME NEW k \in Node, NEW x \in Name,
             Register(k, x) \/ QueryName(k, x) \/ SendName(k, x) \/ SendHandle(k, x)
      PROVE  Lane(n, b, m)'
  BY <1>2, <1>5 DEF Register, QueryName, SendName, SendHandle
<1>6. ASSUME NEW k \in Node, NEW l \in Node \ {k}, ReadyConnect(k, l) PROVE Lane(n, b, m)'
  BY <1>2, <1>6 DEF ReadyConnect
<1>7. ASSUME NEW k \in Node, UpdateName(k) PROVE Lane(n, b, m)'
  BY <1>0, <1>1, <1>7, UpdateNameLane
<1>8. ASSUME NEW k \in Node, StartConnection(k) PROVE Lane(n, b, m)'
  BY <1>0, <1>1, <1>8, StartConnectionLane
<1>9. ASSUME NEW k \in Node, RemoteSendHandle(k) PROVE Lane(n, b, m)'
  BY <1>0, <1>1, <1>9, RemoteSendHandleLane
<1>10. ASSUME NEW k \in Node, RemoteSendName(k) PROVE Lane(n, b, m)'
  BY <1>0, <1>1, <1>10, RemoteSendNameLane
<1>11. ASSUME NEW k \in Node, NEW l \in Node \ {k}, PushSocketData(k, l) PROVE Lane(n, b, m)'
  BY <1>0, <1>1, <1>11, PushSocketDataLane
<1>12. ASSUME NEW k \in Node, NEW l \in Node \ {k}, DropPackage(k, l) PROVE Lane(n, b, m)'
  <2>1. Sets(wire', wire, l, k, Tail(wire[l][k]))
    BY <1>0, <1>12, DropPackageSets
  <2>2. wire[l][k] # <<>> /\ UNCHANGED <<got, queue, name_queue, value, ops>>
    BY <1>12 DEF DropPackage
  <2>. QED BY <1>0, <1>1, <2>1, <2>2, LostLane
<1>13. ASSUME NEW k \in Node, NEW l \in Node \ {k}, AcceptSlave(k, l) PROVE Lane(n, b, m)'
  <2>1. Sets(wire', wire, l, k, Tail(wire[l][k]))
    <3>1. l \in Node /\ k \in Node \ {l}
      OBVIOUS
    <3>2. /\ wire'[l][k] = Tail(wire[l][k])
          /\ \A i, j \in Node : i # l \/ j # k => wire'[i][j] = wire[i][j]
      BY <1>0, <1>13, <3>1, AcceptMail
    <3>. QED BY <3>2 DEF Sets
  <2>2. wire[l][k] # <<>> /\ UNCHANGED <<got, queue, name_queue, value, ops>>
    BY <1>13 DEF AcceptSlave
  <2>. QED BY <1>0, <1>1, <2>1, <2>2, LostLane
<1>. QED BY <1>3, <1>4, <1>5, <1>6, <1>7, <1>8, <1>9, <1>10, <1>11, <1>12, <1>13 DEF Next

LEMMA LanesInit ==
    ASSUME Init
    PROVE  Lanes
<1>1. ASSUME NEW n \in Node, NEW m \in Node, NEW b \in By PROVE Lane(n, b, m)
  <2>. DEFINE L == Line(n, b, m)
              S == NamedBy(n, b)
  <2>1. /\ got[m] = <<>> /\ wire[n][m] = <<>> /\ queue[n][m] = <<>> /\ Waiting(n, b) = <<>>
        /\ inbox[n] = <<>>
    BY DEF Init, Waiting
  <2>2. Payload(<<>>) = <<>>
    <3>1. DOMAIN <<>> = {}
      OBVIOUS
    <3>. QED BY <3>1 DEF Payload
  <2>3. L[0] = <<>> /\ L[1] = <<>> /\ L[2] = <<>> /\ L[3] = <<>> /\ L[4] = <<>>
    BY <2>1, <2>2, LineStages
  <2>4. Nums(<<>>, S) = {} /\ Rising(<<>>, S)
    BY HasEmpty, NumsNone
  <2>. HIDE DEF L, S
  <2>5. \A k \in Stage : L[k] = <<>>
    BY <2>3 DEF Stage
  <2>6. \A k \in 0..2 : k \in Stage
    BY DEF Stage
  <2>7. InLine(L, S)
    BY <2>4, <2>5 DEF InLine, Less
  <2>. QED BY <2>4, <2>5, <2>6, <2>7 DEF Lane, L, S
<1>. QED BY <1>1 DEF Lanes

LEMMA LanesInvariant == Spec => []Lanes
<1>1. Init => Lanes
  BY LanesInit
<1>2. Net /\ Net' /\ CommandFirst /\ Handed /\ Answered /\ Lanes /\ [Next]_vars => Lanes'
  BY LanesNext
<1>. QED BY <1>1, <1>2, NetInvariant, KnownInvariant, HandedInvariant, AnsweredInvariant, PTL
            DEF Spec

\* A service receives messages only, not the byte of the handshake.
Received == \A n \in Node : ~Has(got[n], {Id})

LEMMA ReceivedNext ==
    ASSUME Net, Received, [Next]_vars
    PROVE  Received'
<1>0. Types
  BY DEF Net
<1>1. CASE got' = got
  BY <1>1 DEF Received
<1>2. ASSUME NEW k \in Node, NEW h \in Node, NEW q \in Seq(From(k)), Moves(k, h, q)
      PROVE  Received'
  <2>1. \A n \in Node : got'[n] = got[n] \/ (n = k /\ got'[n] = got[n] \o q)
    BY <1>0, <1>2, MovesFacts DEF Types
  <2>2. ~Has(q, {Id}) /\ q \in Seq(Packages)
    <3>1. \A i \in DOMAIN q : q[i] \in From(k)
      BY LenProperties, ElementOfSeq
    <3>2. q \in Seq(Packages)
      BY PackagesOf, SeqSubset
    <3>. QED BY <3>1, <3>2, IdIsNoMsg DEF Has, From
  <2>3. \A n \in Node : got[n] \in Seq(Packages)
    BY <1>0, StagesTyped DEF StagesOK, By
  <2>4. ASSUME NEW n \in Node PROVE ~Has(got'[n], {Id})
    <3>1. CASE got'[n] = got[n]
      BY <3>1, Zenon DEF Received
    <3>2. CASE got'[n] = got[n] \o q
      <4>1. ~Has(got[n] \o q, {Id})
        BY <2>2, <2>3, HasConcat, Zenon DEF Received
      <4>. QED BY <3>2, <4>1
    <3>. QED BY <2>1, <3>1, <3>2
  <2>. QED BY <2>4, Zenon DEF Received
<1>3. ASSUME NEW k \in Node, UpdateName(k) PROVE Received'
  <2>1. PICK x \in Name, h \in Node : \E q \in Seq(NamedBy(k, x)) : q \in Seq(From(k)) /\ Moves(k, h, q)
    BY <1>0, <1>3, UpdateNameMoves
  <2>. QED BY <1>2, <2>1
<1>4. ASSUME NEW k \in Node, RemoteSendHandle(k) PROVE Received'
  <2>1. PICK h \in Node, e \in NamedBy(k, NULL) :
              <<Handled(e)>> \in Seq(From(k)) /\ Moves(k, h, <<Handled(e)>>)
    BY <1>0, <1>4, RemoteSendHandleMoves
  <2>. QED BY <1>2, <2>1, Zenon
<1>5. ASSUME NEW k \in Node, RemoteSendName(k) PROVE Received'
  <2>1. PICK x \in Name : \E e \in NamedBy(k, x) :
              \/ UNCHANGED <<queue, wire, got>>
              \/ /\ value[k][x] \in Node /\ <<Handled(e)>> \in Seq(From(k))
                 /\ Moves(k, value[k][x], <<Handled(e)>>)
    BY <1>0, <1>5, RemoteSendNameMoves
  <2>. QED BY <1>1, <1>2, <2>1, Zenon
<1>6. ASSUME NEW k \in Node, NEW l \in Node \ {k}, PushSocketData(k, l) PROVE Received'
  <2>1. \/ got' = got
        \/ /\ status[k][l] = "HEADER" /\ wire[l][k] # <<>>
           /\ got'[k] = Append(got[k], Head(wire[l][k]))
           /\ \A i \in Node \ {k} : got'[i] = got[i]
    BY <1>0, <1>6, PushSocketDataSets, Zenon
  <2>2. status[k][l] = "HEADER" => Head(wire[l][k]) # Id
    BY <1>6, PushSocketDataLinks
  <2>3. CASE /\ status[k][l] = "HEADER" /\ wire[l][k] # <<>>
             /\ got'[k] = Append(got[k], Head(wire[l][k]))
             /\ \A i \in Node \ {k} : got'[i] = got[i]
    <3>1. wire[l][k] \in Seq(Packages) /\ got[k] \in Seq(Packages)
      BY <1>0, StagesTyped DEF StagesOK, By
    <3>2. Head(wire[l][k]) \in Packages
      BY <2>3, <3>1, TailFacts
    <3>3. ~Has(Append(got[k], Head(wire[l][k])), {Id})
      <4>. DEFINE p == got[k]
                  e == Head(wire[l][k])
      <4>1. p \in Seq(Packages) /\ e \in Packages /\ ~Has(p, {Id}) /\ e \notin {Id}
        BY <2>2, <2>3, <3>1, <3>2, Zenon DEF Received
      <4>. HIDE DEF p, e
      <4>2. ~Has(Append(p, e), {Id})
        BY <4>1, HasAppend
      <4>. QED BY <4>2 DEF p, e
    <3>. QED BY <2>3, <3>3, Zenon DEF Received
  <2>. QED BY <1>1, <2>1, <2>3
<1>7. ASSUME NEW k \in Node,
             \/ Handshake(k) \/ MasterRegister(k) \/ MasterQuery(k) \/ StartConnection(k)
             \/ ReadW(k) \/ Ready(k) \/ MasterConnect(k) \/ MasterName(k) \/ HarborQuery(k)
      PROVE  Received'
  BY <1>1, <1>7 DEF Handshake, MasterRegister, MasterQuery, StartConnection, ReadW, Ready,
     MasterConnect, MasterName, HarborQuery
<1>8. ASSUME NEW k \in Node, NEW l \in Node \ {k},
             AcceptSlave(k, l) \/ ReadyConnect(k, l) \/ DropPackage(k, l)
      PROVE  Received'
  BY <1>1, <1>8 DEF AcceptSlave, ReadyConnect, DropPackage
<1>9. ASSUME NEW k \in Node, NEW x \in Name,
             Register(k, x) \/ QueryName(k, x) \/ SendName(k, x) \/ SendHandle(k, x)
      PROVE  Received'
  BY <1>1, <1>9 DEF Register, QueryName, SendName, SendHandle
<1>10. CASE UNCHANGED vars
  BY <1>1, <1>10 DEF vars
<1>. QED BY <1>3, <1>4, <1>5, <1>6, <1>7, <1>8, <1>9, <1>10 DEF Next

LEMMA ReceivedInvariant == Spec => []Received
<1>1. Init => Received
  <2>1. Init => \A n \in Node : got[n] = <<>>
    BY DEF Init
  <2>. QED BY <2>1, HasEmpty DEF Received
<1>2. Net /\ Received /\ [Next]_vars => Received'
  BY ReceivedNext
<1>. QED BY <1>1, <1>2, NetInvariant, PTL DEF Spec

\* The messages of a node to one name, or to one handle, are received in the order they
\* were sent and once, whether they waited for the name (dispatch_name_queue), for the
\* handshake (dispatch_queue) or not at all.
THEOREM HarborInOrder == Spec => []InOrder
<1>1. ASSUME Types, Received, Lanes, NEW m \in Node, NEW i \in DOMAIN got[m], NEW j \in DOMAIN got[m],
             i < j, got[m][i].src = got[m][j].src, got[m][i].by = got[m][j].by
      PROVE  got[m][i].seq < got[m][j].seq
  <2>1. got[m] \in Seq(Packages)
    BY <1>1, StagesTyped, Zenon DEF StagesOK, By
  <2>2. got[m][i] \in Msg /\ got[m][j] \in Msg
    <3>1. got[m][i] \in Packages /\ got[m][j] \in Packages
      BY <1>1, <2>1, LenProperties, ElementOfSeq
    <3>2. got[m][i] # Id /\ got[m][j] # Id
      BY <1>1 DEF Received, Has
    <3>. QED BY <3>1, <3>2 DEF Packages
  <2>3. PICK n \in Node, b \in By : n = got[m][i].src /\ b = got[m][i].by
    BY <2>2 DEF Msg, By
  <2>4. got[m][i] \in NamedBy(n, b) /\ got[m][j] \in NamedBy(n, b)
    BY <1>1, <2>2, <2>3 DEF NamedBy, From
  <2>5. Rising(got[m], NamedBy(n, b))
    <3>1. Rising(Line(n, b, m)[0], NamedBy(n, b))
      BY <1>1 DEF Lanes, Lane, InLine, Stage
    <3>. QED BY <3>1, LineStages
  <2>. QED BY <1>1, <2>4, <2>5 DEF Rising
<1>2. Types /\ Received /\ Lanes => InOrder
  BY <1>1 DEF InOrder
<1>3. Net => Types
  BY DEF Net
<1>. QED BY <1>2, <1>3, NetInvariant, ReceivedInvariant, LanesInvariant, PTL
=============================================================================
