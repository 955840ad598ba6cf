-------------------------- MODULE LuaServiceProofs --------------------------
(***************************************************************************)
(* Proofs about LuaService, for any number of services, coroutines,        *)
(* sessions and operations.                                                *)
(***************************************************************************)
EXTENDS LuaService, SequenceTheorems, FiniteSetTheorems, TLAPS

-----------------------------------------------------------------------------
(* Types. *)

Owed == [addr : Service, session : Session]

\* Only a timeout has no source.
Message ==
    [type : {"REQUEST", "ERROR"}, session : Session \cup {0}, source : Service]
        \cup [type : {"RESPONSE"}, session : Session, source : Service \cup {NULL}]

VM == [pc : {"idle", "run", "suspend", "fork"}, cur : Co \cup {NONE},
       waits : [Co -> Blocked \cup {NULL}],
       sid_co : [Session -> Co \cup {NONE, BREAK}],
       watching : [Session -> Service \cup {NULL}],
       co_sid : [Co -> Session \cup {NONE, 0}], co_addr : [Co -> Service \cup {NULL}],
       sleeping : [Co -> Session \cup {NONE}],
       wakeup_queue : Seq(Co), error_queue : Seq(Session),
       fork_queue : Seq(Co \cup {NOP}), unresponse : SUBSET Owed]

Types ==
    /\ alive \in [Service -> BOOLEAN]
    /\ box \in [Service -> Seq(Message)]
    /\ timers \subseteq Service \X Session
    /\ session \in [Service -> Session]
    /\ vm \in [Service -> VM]
    /\ answers \in [Service -> [Session -> Nat]]
    /\ unknown \in BOOLEAN

-----------------------------------------------------------------------------
(* The tables of one service; k is its last session. *)

\* Sessions and the coroutines that wait for them.
Sessions(v, k) ==
    /\ \A n \in Session : v.sid_co[n] \in Co =>
            v.waits[v.sid_co[n]] # NULL /\ v.waits[v.sid_co[n]].n = n
    /\ \A c \in Co : v.waits[c] # NULL /\ v.waits[c].n # NONE =>
            v.sid_co[v.waits[c].n] = c
    /\ \A n \in Session : v.sid_co[n] # NONE => n <= k

\* What it waits in decides which other tables know of it.
Kinds(v) ==
    /\ \A c \in Co : v.waits[c] # NULL =>
            (v.waits[c].n = NONE <=> v.waits[c].k \in {"run", "fork"})
    /\ \A n \in Session : v.watching[n] # NULL =>
            v.sid_co[n] \in Co /\ v.waits[v.sid_co[n]].k = "call"
    /\ \A c \in Co : v.waits[c] # NULL /\ v.waits[c].k = "call" =>
            v.watching[v.waits[c].n] # NULL
    /\ \A c \in Co : v.sleeping[c] # NONE =>
            /\ v.waits[c] # NULL /\ v.waits[c].k \in {"sleep", "wait"}
            /\ v.sleeping[c] = v.waits[c].n

Current(v) ==
    /\ v.pc = "run" <=> v.cur \in Co
    /\ v.cur \in Co => v.waits[v.cur] = Running

\* What the fork and error queues hold is there once, and waits for its turn.
Forks(v, q) ==
    /\ \A i \in DOMAIN q : q[i] # NOP => v.waits[q[i]] = Ready
    /\ \A i, j \in DOMAIN q : q[i] # NOP /\ q[i] = q[j] => i = j
Errors(v, q) ==
    /\ \A i \in DOMAIN q : v.watching[q[i]] # NULL
    /\ \A i, j \in DOMAIN q : q[i] = q[j] => i = j

\* The queues are worked off before the next message, also after an error: then
\* suspend has forked NOP.
Drained(v) ==
    /\ v.pc = "idle" => v.wakeup_queue = <<>> /\ v.error_queue = <<>> /\ v.fork_queue = <<>>
    /\ v.pc = "fork" => \/ v.wakeup_queue = <<>> /\ v.error_queue = <<>>
                        \/ \E i \in DOMAIN v.fork_queue : v.fork_queue[i] = NOP

\* A coroutine that works on a request is in use, and knows who asked.
Requests(v) ==
    /\ \A c \in Co : v.waits[c] = NULL => v.co_sid[c] = NONE
    /\ \A c \in Co : v.co_sid[c] # NONE => v.co_addr[c] \in Service

Good(v, k) ==
    /\ v \in VM
    /\ Sessions(v, k)
    /\ Kinds(v)
    /\ Current(v)
    /\ Forks(v, v.fork_queue)
    /\ Errors(v, v.error_queue)
    /\ Drained(v)
    /\ Requests(v)

Matched == \A s \in Service : Good(vm[s], session[s])

\* A service that has exited has nothing.
Gone == \A s \in Service : ~alive[s] => vm[s] = EmptyVM

-----------------------------------------------------------------------------
(* Constants, and sequences. *)

LEMMA Constants ==
    /\ MaxSession \in Nat \ {0} /\ MaxCo \in Nat \ {0}
    /\ NULL \notin Service /\ NULL \notin Blocked
    /\ Session \subseteq Nat \ {0} /\ Co \subseteq Nat \ {0}
    /\ 1 \in Session /\ 1 \in Co
    /\ NONE \notin Session /\ NONE \notin Co /\ BREAK \notin Co /\ BREAK # NONE
    /\ NOP \notin Co
<1>1. /\ MaxSession \in Nat \ {0} /\ MaxCo \in Nat \ {0}
      /\ NULL \notin Service /\ NULL \notin Blocked
  BY LuaAssumption
<1>. QED
  BY <1>1 DEF Session, Co, NONE, BREAK, NOP

LEMMA Places ==
    /\ Running \in Blocked /\ Ready \in Blocked /\ Running # NULL /\ Ready # NULL
    /\ Running # Ready /\ Running.n = NONE /\ Ready.n = NONE
    /\ Running.k = "run" /\ Ready.k = "fork"
<1>1. Running \in Blocked /\ Ready \in Blocked
  BY DEF Running, Ready, Blocked
<1>. QED
  BY <1>1, Constants DEF Running, Ready

LEMMA Head1 ==
    ASSUME NEW S, NEW q \in Seq(S), q # <<>>
    PROVE  /\ 1 \in DOMAIN q /\ Head(q) = q[1] /\ Head(q) \in S
           /\ Tail(q) \in Seq(S) /\ DOMAIN Tail(q) = 1..(Len(q) - 1)
           /\ \A i \in DOMAIN Tail(q) : i + 1 \in DOMAIN q /\ Tail(q)[i] = q[i + 1]
           /\ \A i \in DOMAIN q : i # 1 => i - 1 \in DOMAIN Tail(q) /\ Tail(q)[i - 1] = q[i]
<1>1. Len(q) \in Nat \ {0} /\ DOMAIN q = 1..Len(q)
  BY EmptySeq, LenProperties
<1>2. /\ Head(q) \in S /\ Tail(q) \in Seq(S) /\ Len(Tail(q)) = Len(q) - 1
      /\ \A i \in 1..Len(Tail(q)) : Tail(q)[i] = q[i + 1]
  BY HeadTailProperties
<1>3. DOMAIN Tail(q) = 1..Len(Tail(q))
  BY <1>2, LenProperties
<1>4. \A i \in DOMAIN Tail(q) : i + 1 \in DOMAIN q
  BY <1>1, <1>2, <1>3
<1>5. ASSUME NEW i \in DOMAIN q, i # 1
      PROVE  i - 1 \in DOMAIN Tail(q) /\ Tail(q)[i - 1] = q[i]
  <2>1. i - 1 \in 1..Len(Tail(q))
    BY <1>1, <1>2, <1>5
  <2>2. Tail(q)[i - 1] = q[(i - 1) + 1] /\ (i - 1) + 1 = i
    BY <1>1, <1>2, <2>1
  <2>. QED BY <1>3, <2>1, <2>2
<1>6. Head(q) = q[1]
  OBVIOUS
<1>. QED
  BY <1>1, <1>2, <1>3, <1>4, <1>5, <1>6

LEMMA Last1 ==
    ASSUME NEW S, NEW q \in Seq(S), NEW e \in S
    PROVE  /\ Append(q, e) \in Seq(S)
           /\ \A i \in DOMAIN q : i \in DOMAIN Append(q, e) /\ Append(q, e)[i] = q[i]
           /\ \A i \in DOMAIN Append(q, e) : i \in DOMAIN q \/ i = Len(q) + 1
           /\ Len(q) + 1 \in DOMAIN Append(q, e) /\ Append(q, e)[Len(q) + 1] = e
           /\ Len(q) + 1 \notin DOMAIN q /\ Len(q) \in Nat /\ DOMAIN q = 1..Len(q)
<1>1. Len(q) \in Nat /\ DOMAIN q = 1..Len(q)
  BY LenProperties
<1>2. /\ Append(q, e) \in Seq(S) /\ Len(Append(q, e)) = Len(q) + 1
      /\ \A i \in 1..Len(q) : Append(q, e)[i] = q[i]
      /\ Append(q, e)[Len(q) + 1] = e
  BY AppendProperties
<1>3. DOMAIN Append(q, e) = 1..(Len(q) + 1)
  BY <1>2, LenProperties
<1>. QED
  BY <1>1, <1>2, <1>3

LEMMA Listed ==
    ASSUME NEW S, IsFiniteSet(S)
    PROVE  LET q == SetToSeq(S) IN
           /\ q \in Seq(S)
           /\ \A i, j \in DOMAIN q : q[i] = q[j] => i = j
           /\ \A x \in S : \E i \in DOMAIN q : q[i] = x
<1>. DEFINE q == SetToSeq(S)
<1>1. Cardinality(S) \in Nat /\ ExistsBijection(1..Cardinality(S), S)
  BY FS_CardinalityType
<1>2. PICK f \in [1..Cardinality(S) -> S] : IsInjective(f)
  BY <1>1 DEF ExistsBijection, Bijection, Injection, IsInjective
<1>3. q \in [1..Cardinality(S) -> S] /\ IsInjective(q)
  BY <1>2 DEF SetToSeq
<1>. HIDE DEF q
<1>4. q \in Seq(S)
  BY <1>1, <1>3
<1>5. q \in Injection(1..Cardinality(S), S)
  BY <1>3 DEF Injection, IsInjective
<1>6. Cardinality(1..Cardinality(S)) = Cardinality(S)
  BY <1>1, FS_Interval
<1>7. q \in Surjection(1..Cardinality(S), S)
  BY <1>5, <1>6, FS_Injection
<1>. QED
  BY <1>3, <1>4, <1>7 DEF Surjection, IsInjective, q

-----------------------------------------------------------------------------
(* The tables after a coroutine has been resumed. *)

\* Coroutine c runs again, and the entries of the session it waited for are gone.
Resumed(v, w, c) ==
    /\ w.pc = "run" /\ w.cur = c
    /\ w.waits = [v.waits EXCEPT ![c] = Running]
    /\ \A m \in Session : m # v.waits[c].n =>
            w.sid_co[m] = v.sid_co[m] /\ w.watching[m] = v.watching[m]
    /\ v.waits[c].n \in Session =>
            w.sid_co[v.waits[c].n] \in {NONE, BREAK} /\ w.watching[v.waits[c].n] = NULL
    /\ \A d \in Co : d # c => w.sleeping[d] = v.sleeping[d]
    /\ w.sleeping[c] = NONE
    /\ w.co_sid = v.co_sid /\ w.co_addr = v.co_addr /\ w.unresponse = v.unresponse

LEMMA ResumeFields ==
    ASSUME NEW v \in VM, NEW c \in Co, v.waits[c] # NULL,
           v.waits[c].k \in {"call", "wait"} => v.waits[c].n \in Session
    PROVE  LET w == Resume(v, c)
               n == v.waits[c].n
               k == v.waits[c].k
           IN  /\ w \in VM /\ w.pc = "run" /\ w.cur = c
               /\ w.waits = [v.waits EXCEPT ![c] = Running]
               /\ w.sid_co = IF k = "wait" THEN [v.sid_co EXCEPT ![n] = NONE] ELSE v.sid_co
               /\ w.watching = IF k = "call" THEN [v.watching EXCEPT ![n] = NULL] ELSE v.watching
               /\ w.sleeping = IF k \in {"sleep", "wait"} THEN [v.sleeping EXCEPT ![c] = NONE]
                                                          ELSE v.sleeping
               /\ w.co_sid = v.co_sid /\ w.co_addr = v.co_addr
               /\ w.unresponse = v.unresponse /\ w.wakeup_queue = v.wakeup_queue
               /\ w.error_queue = v.error_queue /\ w.fork_queue = v.fork_queue
<1>. DEFINE n == v.waits[c].n
            k == v.waits[c].k
            u == [v EXCEPT !.pc = "run", !.cur = c, !.waits[c] = Running]
<1>1. u \in VM
  BY Places DEF VM
<1>2. /\ u.pc = "run" /\ u.cur = c /\ u.waits = [v.waits EXCEPT ![c] = Running]
      /\ u.sid_co = v.sid_co /\ u.watching = v.watching /\ u.sleeping = v.sleeping
      /\ u.co_sid = v.co_sid /\ u.co_addr = v.co_addr
      /\ u.unresponse = v.unresponse /\ u.wakeup_queue = v.wakeup_queue
      /\ u.error_queue = v.error_queue /\ u.fork_queue = v.fork_queue
  BY DEF VM
<1>3. Resume(v, c) = CASE k = "call"  -> [u EXCEPT !.watching[n] = NULL]
                       [] k = "sleep" -> [u EXCEPT !.sleeping[c] = NONE]
                       [] k = "wait"  -> [u EXCEPT !.sleeping[c] = NONE, !.sid_co[n] = NONE]
                       [] OTHER -> u
  BY DEF Resume
<1>. HIDE DEF u
<1>4. CASE k = "call"
  <2>. DEFINE f == [u.watching EXCEPT ![n] = NULL]
  <2>1. Resume(v, c) = [u EXCEPT !.watching = f]
    BY <1>3, <1>4
  <2>2. f \in [Session -> Service \cup {NULL}] /\ f = [v.watching EXCEPT ![n] = NULL]
    BY <1>1, <1>2 DEF VM
  <2>. HIDE DEF f
  <2>3. [u EXCEPT !.watching = f] \in VM
    BY <1>1, <2>2 DEF VM
  <2>. QED BY <1>1, <1>2, <1>4, <2>1, <2>2, <2>3 DEF VM
<1>5. CASE k = "sleep"
  <2>. DEFINE f == [u.sleeping EXCEPT ![c] = NONE]
  <2>1. Resume(v, c) = [u EXCEPT !.sleeping = f]
    BY <1>3, <1>5
  <2>2. f \in [Co -> Session \cup {NONE}] /\ f = [v.sleeping EXCEPT ![c] = NONE]
    BY <1>1, <1>2 DEF VM
  <2>. HIDE DEF f
  <2>3. [u EXCEPT !.sleeping = f] \in VM
    BY <1>1, <2>2 DEF VM
  <2>. QED BY <1>1, <1>2, <1>5, <2>1, <2>2, <2>3 DEF VM
<1>6. CASE k = "wait"
  <2>. DEFINE f == [u.sleeping EXCEPT ![c] = NONE]
              g == [u.sid_co EXCEPT ![n] = NONE]
  <2>1. Resume(v, c) = [u EXCEPT !.sleeping = f, !.sid_co = g]
    BY <1>1, <1>3, <1>6 DEF VM
  <2>2. /\ f \in [Co -> Session \cup {NONE}] /\ f = [v.sleeping EXCEPT ![c] = NONE]
        /\ g \in [Session -> Co \cup {NONE, BREAK}] /\ g = [v.sid_co EXCEPT ![n] = NONE]
    BY <1>1, <1>2 DEF VM
  <2>. HIDE DEF f, g
  <2>3. [u EXCEPT !.sleeping = f, !.sid_co = g] \in VM
    BY <1>1, <2>2 DEF VM
  <2>. QED BY <1>1, <1>2, <1>6, <2>1, <2>2, <2>3 DEF VM
<1>7. CASE k \notin {"call", "sleep", "wait"}
  <2>1. Resume(v, c) = u
    BY <1>3, <1>7
  <2>. QED BY <1>1, <1>2, <1>7, <2>1
<1>. QED
  BY <1>4, <1>5, <1>6, <1>7

LEMMA ResumedGood ==
    ASSUME NEW v, NEW k \in Session, Good(v, k), NEW w \in VM, NEW c \in Co,
           v.waits[c] # NULL, Resumed(v, w, c),
           Forks(v, w.fork_queue), Errors(v, w.error_queue),
           \A i \in DOMAIN w.fork_queue : w.fork_queue[i] # c,
           \A i \in DOMAIN w.error_queue : w.error_queue[i] # v.waits[c].n
    PROVE  Good(w, k)
<1>. DEFINE n == v.waits[c].n
<1>1. v \in VM /\ v.waits[c] \in Blocked
  BY DEF Good, VM
<1>2. /\ w.waits[c] = Running /\ DOMAIN v.waits = Co
      /\ \A d \in Co : d # c => w.waits[d] = v.waits[d]
  BY <1>1 DEF Resumed, VM
<1>3. \A m \in Session : w.sid_co[m] \in Co =>
        m # n /\ w.sid_co[m] = v.sid_co[m] /\ w.sid_co[m] # c
  BY Constants DEF Resumed, Good, Sessions
<1>4. Sessions(w, k)
  <2>1. ASSUME NEW m \in Session, w.sid_co[m] \in Co
        PROVE  w.waits[w.sid_co[m]] # NULL /\ w.waits[w.sid_co[m]].n = m
    BY <1>2, <1>3, <2>1 DEF Good, Sessions
  <2>2. ASSUME NEW d \in Co, w.waits[d] # NULL, w.waits[d].n # NONE
        PROVE  w.sid_co[w.waits[d].n] = d
    <3>1. d # c /\ w.waits[d] = v.waits[d]
      BY <1>2, <2>2, Places
    <3>2. v.sid_co[v.waits[d].n] = d /\ v.waits[d] \in Blocked
      BY <1>1, <2>2, <3>1 DEF Good, Sessions, VM
    <3>3. v.waits[d].n \in Session
      BY <2>2, <3>1, <3>2 DEF Blocked
    <3>4. v.waits[d].n # n
      BY <3>1, <3>2, <3>3, Constants DEF Good, Sessions
    <3>. QED BY <3>1, <3>2, <3>3, <3>4 DEF Resumed
  <2>3. ASSUME NEW m \in Session, w.sid_co[m] # NONE PROVE m <= k
    <3>1. CASE m = n
      BY <3>1, Constants DEF Good, Sessions
    <3>2. CASE m # n
      BY <2>3, <3>2 DEF Good, Sessions, Resumed
    <3>. QED BY <3>1, <3>2
  <2>. QED BY <2>1, <2>2, <2>3 DEF Sessions
<1>5. Kinds(w)
  <2>1. ASSUME NEW d \in Co, w.waits[d] # NULL
        PROVE  /\ w.waits[d].n = NONE <=> w.waits[d].k \in {"run", "fork"}
               /\ w.waits[d].k = "call" => w.watching[w.waits[d].n] # NULL
    <3>1. CASE d = c
      BY <1>2, <3>1, Places
    <3>2. CASE d # c
      <4>1. /\ w.waits[d] = v.waits[d] /\ v.waits[d] \in Blocked
            /\ v.waits[d].n = NONE <=> v.waits[d].k \in {"run", "fork"}
            /\ v.waits[d].k = "call" => v.watching[v.waits[d].n] # NULL
        BY <1>1, <1>2, <2>1, <3>2 DEF Good, Kinds, VM
      <4>2. ASSUME v.waits[d].k = "call" PROVE w.watching[w.waits[d].n] # NULL
        <5>1. v.waits[d].n \in Session /\ v.sid_co[v.waits[d].n] = d
          BY <2>1, <4>1, <4>2 DEF Blocked, Good, Sessions
        <5>2. v.waits[d].n # n
          BY <3>2, <5>1, Constants DEF Good, Sessions
        <5>. QED BY <4>1, <4>2, <5>1, <5>2 DEF Resumed
      <4>. QED BY <4>1, <4>2
    <3>. QED BY <3>1, <3>2
  <2>2. ASSUME NEW m \in Session, w.watching[m] # NULL
        PROVE  w.sid_co[m] \in Co /\ w.waits[w.sid_co[m]].k = "call"
    <3>1. m # n
      BY <2>2 DEF Resumed
    <3>2. v.watching[m] # NULL /\ w.sid_co[m] = v.sid_co[m]
      BY <2>2, <3>1 DEF Resumed
    <3>3. v.sid_co[m] \in Co /\ v.waits[v.sid_co[m]].k = "call"
      BY <3>2 DEF Good, Kinds
    <3>4. v.sid_co[m] # c
      BY <3>1, <3>3 DEF Good, Sessions
    <3>. QED BY <1>2, <3>2, <3>3, <3>4
  <2>3. ASSUME NEW d \in Co, w.sleeping[d] # NONE
        PROVE  /\ w.waits[d] # NULL /\ w.waits[d].k \in {"sleep", "wait"}
               /\ w.sleeping[d] = w.waits[d].n
    BY <1>2, <2>3 DEF Resumed, Good, Kinds
  <2>. QED BY <2>1, <2>2, <2>3 DEF Kinds
<1>6. Current(w)
  BY <1>2 DEF Current, Resumed
<1>7. Forks(w, w.fork_queue)
  <2>1. ASSUME NEW i \in DOMAIN w.fork_queue, w.fork_queue[i] # NOP
        PROVE  w.waits[w.fork_queue[i]] = Ready
    <3>1. w.fork_queue[i] \in Co
      BY <2>1, ElementOfSeq, LenProperties DEF VM
    <3>. QED BY <1>2, <2>1, <3>1 DEF Forks
  <2>. QED BY <2>1 DEF Forks
<1>8. Errors(w, w.error_queue)
  <2>1. ASSUME NEW i \in DOMAIN w.error_queue
        PROVE  w.watching[w.error_queue[i]] # NULL
    <3>1. w.error_queue[i] \in Session
      BY <2>1, ElementOfSeq, LenProperties DEF VM
    <3>. QED BY <2>1, <3>1 DEF Errors, Resumed
  <2>. QED BY <2>1 DEF Errors
<1>9. Drained(w)
  BY DEF Drained, Resumed
<1>10. Requests(w)
  <2>1. ASSUME NEW d \in Co, w.waits[d] = NULL PROVE w.co_sid[d] = NONE
    BY <1>2, <2>1, Places DEF Resumed, Good, Requests
  <2>. QED BY <2>1 DEF Requests, Resumed, Good
<1>. QED
  BY <1>4, <1>5, <1>6, <1>7, <1>8, <1>9, <1>10 DEF Good

-----------------------------------------------------------------------------
(* Every operation keeps the tables of its service good. *)

SameTables(v, w) ==
    /\ w.waits = v.waits /\ w.sid_co = v.sid_co /\ w.watching = v.watching
    /\ w.sleeping = v.sleeping

LEMMA TablesGood ==
    ASSUME NEW v, NEW k \in Session, Good(v, k), NEW w \in VM, SameTables(v, w)
    PROVE  /\ Sessions(w, k) /\ Kinds(w)
           /\ \A q : Forks(v, q) => Forks(w, q)
           /\ \A q : Errors(v, q) => Errors(w, q)
           /\ w.co_sid = v.co_sid /\ w.co_addr = v.co_addr => Requests(w)
<1>1. Sessions(w, k)
  BY DEF Good, Sessions, SameTables
<1>2. Kinds(w)
  BY DEF Good, Kinds, SameTables
<1>3. \A q : (Forks(v, q) => Forks(w, q)) /\ (Errors(v, q) => Errors(w, q))
  BY DEF Forks, Errors, SameTables
<1>4. w.co_sid = v.co_sid /\ w.co_addr = v.co_addr => Requests(w)
  BY DEF Good, Requests, SameTables
<1>. QED
  BY <1>1, <1>2, <1>3, <1>4

\* The tables stay, the queues and the place in the code may change.
LEMMA PlaceGood ==
    ASSUME NEW v, NEW k \in Session, Good(v, k), NEW w \in VM, SameTables(v, w),
           w.co_sid = v.co_sid, w.co_addr = v.co_addr, Current(w),
           Forks(v, w.fork_queue), Errors(v, w.error_queue), Drained(w)
    PROVE  Good(w, k)
  BY TablesGood DEF Good

LEMMA NotRunning ==
    ASSUME NEW v \in VM, Current(v), v.pc # "run"
    PROVE  v.cur = NONE
  BY DEF Current, VM

LEMMA RefusedGood ==
    ASSUME NEW v, NEW k \in Session, Good(v, k), v.pc = "idle"
    PROVE  Good([v EXCEPT !.pc = "fork"], k)
<1>. DEFINE w == [v EXCEPT !.pc = "fork"]
<1>1. v \in VM /\ Current(v) /\ Drained(v) /\ Forks(v, v.fork_queue) /\ Errors(v, v.error_queue)
  BY DEF Good
<1>2. /\ w \in VM /\ w.pc = "fork" /\ w.cur = v.cur /\ SameTables(v, w)
      /\ w.co_sid = v.co_sid /\ w.co_addr = v.co_addr
      /\ w.wakeup_queue = v.wakeup_queue /\ w.error_queue = v.error_queue
      /\ w.fork_queue = v.fork_queue
  BY <1>1 DEF VM, SameTables
<1>. HIDE DEF w
<1>3. Current(w) /\ Drained(w)
  BY <1>1, <1>2 DEF Current, Drained
<1>. QED
  BY <1>1, <1>2, <1>3, PlaceGood DEF w

LEMMA EndedGood ==
    ASSUME NEW v, NEW k \in Session, Good(v, k), v.pc = "suspend",
           v.wakeup_queue = <<>>, v.error_queue = <<>>
    PROVE  Good([v EXCEPT !.pc = "fork"], k)
<1>. DEFINE w == [v EXCEPT !.pc = "fork"]
<1>1. v \in VM /\ Current(v) /\ Forks(v, v.fork_queue) /\ Errors(v, v.error_queue)
  BY DEF Good
<1>2. /\ w \in VM /\ w.pc = "fork" /\ w.cur = v.cur /\ SameTables(v, w)
      /\ w.co_sid = v.co_sid /\ w.co_addr = v.co_addr
      /\ w.wakeup_queue = v.wakeup_queue /\ w.error_queue = v.error_queue
      /\ w.fork_queue = v.fork_queue
  BY <1>1 DEF VM, SameTables
<1>. HIDE DEF w
<1>3. Current(w) /\ Drained(w)
  BY <1>1, <1>2 DEF Current, Drained
<1>. QED
  BY <1>1, <1>2, <1>3, PlaceGood DEF w

\* A coroutine that waits waits for a session in a call and in wait.
LEMMA WaitsFor ==
    ASSUME NEW v, NEW k \in Session, Good(v, k), NEW c \in Co, v.waits[c] # NULL
    PROVE  /\ v \in VM /\ v.waits[c] \in Blocked
           /\ v.waits[c].n \in Session <=> v.waits[c].k \notin {"run", "fork"}
<1>1. v \in VM /\ v.waits[c] \in Blocked
  BY DEF Good, VM
<1>2. v.waits[c].n \in Session \cup {NONE}
  BY <1>1 DEF Blocked
<1>. QED
  BY <1>1, <1>2, Constants DEF Good, Kinds

\* The entry of the session is taken back, then the coroutine is resumed.
LEMMA TakenResumed ==
    ASSUME NEW v, NEW k \in Session, Good(v, k), NEW c \in Co, v.waits[c] # NULL,
           NEW u \in VM, u.waits = v.waits, u.watching = v.watching,
           u.sleeping = v.sleeping, u.co_sid = v.co_sid, u.co_addr = v.co_addr,
           u.unresponse = v.unresponse,
           \A m \in Session : m # v.waits[c].n => u.sid_co[m] = v.sid_co[m],
           v.waits[c].n \in Session => u.sid_co[v.waits[c].n] \in {NONE, BREAK}
    PROVE  LET w == Resume(u, c) IN
           /\ w \in VM /\ Resumed(v, w, c) /\ w.wakeup_queue = u.wakeup_queue
           /\ w.error_queue = u.error_queue /\ w.fork_queue = u.fork_queue
<1>. DEFINE n == v.waits[c].n
            w == Resume(u, c)
<1>1. /\ v \in VM /\ v.waits[c] \in Blocked
      /\ n \in Session <=> v.waits[c].k \notin {"run", "fork"}
  BY WaitsFor
<1>2. /\ w \in VM /\ w.pc = "run" /\ w.cur = c
      /\ w.waits = [v.waits EXCEPT ![c] = Running]
      /\ w.sid_co = IF v.waits[c].k = "wait" THEN [u.sid_co EXCEPT ![n] = NONE] ELSE u.sid_co
      /\ w.watching = IF v.waits[c].k = "call" THEN [v.watching EXCEPT ![n] = NULL]
                                               ELSE v.watching
      /\ w.sleeping = IF v.waits[c].k \in {"sleep", "wait"} THEN [v.sleeping EXCEPT ![c] = NONE]
                                                            ELSE v.sleeping
      /\ w.co_sid = v.co_sid /\ w.co_addr = v.co_addr
      /\ w.unresponse = v.unresponse /\ w.wakeup_queue = u.wakeup_queue
      /\ w.error_queue = u.error_queue /\ w.fork_queue = u.fork_queue
  BY <1>1, ResumeFields
<1>. HIDE DEF w
<1>3. \A m \in Session : m # n => w.sid_co[m] = v.sid_co[m] /\ w.watching[m] = v.watching[m]
  BY <1>1, <1>2 DEF VM
<1>4. ASSUME n \in Session PROVE w.sid_co[n] \in {NONE, BREAK}
  BY <1>1, <1>2, <1>4 DEF VM
<1>5. ASSUME n \in Session PROVE w.watching[n] = NULL
  <2>1. CASE v.waits[c].k = "call"
    BY <1>1, <1>2, <1>5, <2>1 DEF VM
  <2>2. CASE v.waits[c].k # "call"
    <3>1. v.sid_co[n] = c
      BY <1>1, <1>5, Constants DEF Good, Sessions
    <3>2. v.watching[n] = NULL
      BY <1>5, <2>2, <3>1 DEF Good, Kinds
    <3>. QED BY <1>2, <2>2, <3>2
  <2>. QED BY <2>1, <2>2
<1>6. /\ \A d \in Co : d # c => w.sleeping[d] = v.sleeping[d]
      /\ w.sleeping[c] = NONE
  <2>1. v.waits[c].k \notin {"sleep", "wait"} => v.sleeping[c] = NONE
    BY DEF Good, Kinds
  <2>. QED BY <1>1, <1>2, <2>1 DEF VM
<1>. QED
  BY <1>2, <1>3, <1>4, <1>5, <1>6 DEF Resumed, w

\* ResponseMessage
LEMMA ResponseGood ==
    ASSUME NEW v, NEW k \in Session, Good(v, k), v.pc = "idle", NEW n \in Session
    PROVE  LET c == v.sid_co[n]
               u == [v EXCEPT !.sid_co[n] = NONE]
           IN  /\ c \in Co => /\ Good(Resume(u, c), k) /\ Resumed(v, Resume(u, c), c)
                              /\ Resume(u, c).error_queue = <<>>
                              /\ v.waits[c] # NULL /\ v.waits[c].n = n
               /\ c \notin Co => Good([u EXCEPT !.pc = "fork"], k)
<1>. DEFINE c == v.sid_co[n]
            u == [v EXCEPT !.sid_co[n] = NONE]
<1>1. /\ v \in VM /\ Current(v) /\ v.wakeup_queue = <<>> /\ v.error_queue = <<>>
      /\ v.fork_queue = <<>>
  BY DEF Good, Drained
<1>2. /\ u \in VM /\ u.waits = v.waits /\ u.watching = v.watching
      /\ u.sleeping = v.sleeping /\ u.co_sid = v.co_sid /\ u.co_addr = v.co_addr
      /\ u.unresponse = v.unresponse /\ u.cur = v.cur
      /\ u.wakeup_queue = <<>> /\ u.error_queue = <<>> /\ u.fork_queue = <<>>
      /\ u.sid_co = [v.sid_co EXCEPT ![n] = NONE]
  BY <1>1 DEF VM
<1>. HIDE DEF u
<1>3. u.sid_co[n] = NONE /\ \A m \in Session : m # n => u.sid_co[m] = v.sid_co[m]
  BY <1>1, <1>2 DEF VM
<1>4. CASE c \in Co
  <2>1. v.waits[c] # NULL /\ v.waits[c].n = n
    BY <1>4 DEF Good, Sessions
  <2>2. PICK d \in Co : d = c
    BY <1>4
  <2>3. PICK w : w = Resume(u, d)
    OBVIOUS
  <2>4. /\ w \in VM /\ Resumed(v, w, d) /\ w.wakeup_queue = <<>>
        /\ w.error_queue = <<>> /\ w.fork_queue = <<>>
    <3>1. v.waits[d] # NULL /\ v.waits[d].n = n
      BY <2>1, <2>2
    <3>2. /\ \A m \in Session : m # v.waits[d].n => u.sid_co[m] = v.sid_co[m]
          /\ u.sid_co[v.waits[d].n] \in {NONE, BREAK}
      BY <1>3, <3>1
    <3>3. /\ u \in VM /\ u.waits = v.waits /\ u.watching = v.watching
          /\ u.sleeping = v.sleeping /\ u.co_sid = v.co_sid /\ u.co_addr = v.co_addr
          /\ u.unresponse = v.unresponse
      BY <1>2
    <3>4. /\ w \in VM /\ Resumed(v, w, d) /\ w.wakeup_queue = u.wakeup_queue
          /\ w.error_queue = u.error_queue /\ w.fork_queue = u.fork_queue
      BY <2>3, <3>1, <3>2, <3>3, TakenResumed
    <3>. QED BY <1>2, <3>4
  <2>5. Forks(v, w.fork_queue) /\ Errors(v, w.error_queue)
    BY <2>4 DEF Forks, Errors
  <2>6. Good(w, k)
    BY <2>1, <2>2, <2>4, <2>5, ResumedGood
  <2>. QED BY <1>4, <2>1, <2>2, <2>3, <2>4, <2>6 DEF u
<1>5. CASE c \notin Co
  <2>. DEFINE w == [u EXCEPT !.pc = "fork"]
  <2>1. /\ w \in VM /\ w.pc = "fork" /\ w.cur = v.cur /\ w.waits = v.waits
        /\ w.watching = v.watching /\ w.sleeping = v.sleeping /\ w.co_sid = v.co_sid
        /\ w.co_addr = v.co_addr /\ w.wakeup_queue = <<>> /\ w.error_queue = <<>>
        /\ w.fork_queue = <<>> /\ w.sid_co = u.sid_co
    BY <1>2 DEF VM
  <2>. HIDE DEF w
  <2>2. Sessions(w, k)
    <3>1. ASSUME NEW m \in Session, w.sid_co[m] # NONE
          PROVE  m # n /\ w.sid_co[m] = v.sid_co[m]
      BY <1>3, <2>1, <3>1
    <3>2. ASSUME NEW d \in Co, v.waits[d] # NULL, v.waits[d].n # NONE
          PROVE  w.sid_co[v.waits[d].n] = d
      <4>1. v.sid_co[v.waits[d].n] = d /\ v.waits[d].n \in Session
        BY <1>1, <3>2 DEF Good, Sessions, VM, Blocked
      <4>. QED BY <1>3, <1>5, <2>1, <4>1
    <3>. QED BY <2>1, <3>1, <3>2, Constants DEF Good, Sessions
  <2>3. Kinds(w)
    <3>1. ASSUME NEW m \in Session, v.watching[m] # NULL
          PROVE  w.sid_co[m] = v.sid_co[m]
      BY <1>3, <1>5, <2>1, <3>1 DEF Good, Kinds
    <3>. QED BY <2>1, <3>1 DEF Good, Kinds
  <2>4. Current(w) /\ Drained(w)
    BY <1>1, <2>1 DEF Current, Drained
  <2>5. Requests(w)
    BY <2>1 DEF Good, Requests
  <2>6. Forks(w, w.fork_queue) /\ Errors(w, w.error_queue)
    BY <2>1 DEF Forks, Errors
  <2>7. Good(w, k)
    BY <2>1, <2>2, <2>3, <2>4, <2>5, <2>6 DEF Good
  <2>. QED BY <1>5, <2>7 DEF w, u
<1>. QED
  BY <1>4, <1>5 DEF u

\* RequestMessage
LEMMA RequestGood ==
    ASSUME NEW v, NEW k \in Session, Good(v, k), v.pc = "idle", NEW c \in Co,
           v.waits[c] = NULL, NEW n \in Session \cup {0}, NEW a \in Service
    PROVE  Good([v EXCEPT !.pc = "run", !.cur = c, !.waits[c] = Running,
                          !.co_sid[c] = n, !.co_addr[c] = a], k)
<1>. DEFINE w == [v EXCEPT !.pc = "run", !.cur = c, !.waits[c] = Running,
                           !.co_sid[c] = n, !.co_addr[c] = a]
            f == [v.waits EXCEPT ![c] = Running]
            g == [v.co_sid EXCEPT ![c] = n]
            h == [v.co_addr EXCEPT ![c] = a]
<1>1. v \in VM
  BY DEF Good
<1>2. /\ f \in [Co -> Blocked \cup {NULL}] /\ g \in [Co -> Session \cup {NONE, 0}]
      /\ h \in [Co -> Service \cup {NULL}] /\ f[c] = Running /\ g[c] = n /\ h[c] = a
      /\ \A d \in Co : d # c => f[d] = v.waits[d] /\ g[d] = v.co_sid[d] /\ h[d] = v.co_addr[d]
  BY <1>1, Places DEF VM
<1>3. w = [v EXCEPT !.pc = "run", !.cur = c, !.waits = f, !.co_sid = g, !.co_addr = h]
  BY <1>1 DEF VM
<1>. HIDE DEF w, f, g, h
<1>4. w \in VM
  BY <1>1, <1>2, <1>3 DEF VM
<1>5. /\ w.pc = "run" /\ w.cur = c /\ w.waits = f /\ w.co_sid = g /\ w.co_addr = h
      /\ w.sid_co = v.sid_co /\ w.watching = v.watching /\ w.sleeping = v.sleeping
      /\ w.error_queue = v.error_queue /\ w.fork_queue = v.fork_queue
  BY <1>1, <1>3 DEF VM
<1>6. Sessions(w, k)
  BY <1>2, <1>5, Places DEF Good, Sessions
<1>7. Kinds(w)
  <2>1. \A m \in Session : v.sid_co[m] \in Co => v.sid_co[m] # c
    BY DEF Good, Sessions
  <2>2. \A d \in Co : v.sleeping[d] # NONE => d # c
    BY DEF Good, Kinds
  <2>. QED BY <1>2, <1>5, <2>1, <2>2, Places DEF Good, Kinds
<1>8. Current(w) /\ Drained(w)
  BY <1>2, <1>5 DEF Current, Drained
<1>9. Forks(w, w.fork_queue) /\ Errors(w, w.error_queue)
  <2>1. v.error_queue = <<>> /\ v.fork_queue = <<>>
    BY DEF Good, Drained
  <2>. QED BY <1>5, <2>1 DEF Forks, Errors
<1>10. Requests(w)
  BY <1>2, <1>5, Places DEF Good, Requests
<1>. QED
  BY <1>4, <1>6, <1>7, <1>8, <1>9, <1>10 DEF Good, w

\* ErrorMessage
LEMMA ErrorGood ==
    ASSUME NEW v, NEW k \in Session, Good(v, k), v.pc = "idle",
           NEW q \in Seq(Session), Errors(v, q), NEW r \in SUBSET Owed
    PROVE  LET w == [v EXCEPT !.pc = "suspend", !.error_queue = @ \o q, !.unresponse = r] IN
           Good(w, k) /\ w.error_queue = q
<1>. DEFINE w == [v EXCEPT !.pc = "suspend", !.error_queue = @ \o q, !.unresponse = r]
<1>1. v \in VM /\ Current(v) /\ v.error_queue = <<>> /\ Forks(v, v.fork_queue)
  BY DEF Good, Drained
<1>2. v.error_queue \o q = q
  BY <1>1, ConcatEmptySeq
<1>3. w = [v EXCEPT !.pc = "suspend", !.error_queue = q, !.unresponse = r]
  BY <1>1, <1>2 DEF VM
<1>. HIDE DEF w
<1>4. /\ w \in VM /\ SameTables(v, w) /\ w.co_sid = v.co_sid /\ w.co_addr = v.co_addr
      /\ w.pc = "suspend" /\ w.cur = v.cur /\ w.fork_queue = v.fork_queue
      /\ w.error_queue = q
  BY <1>1, <1>3 DEF VM, SameTables
<1>5. Current(w) /\ Drained(w)
  BY <1>1, <1>4 DEF Current, Drained
<1>. QED
  BY <1>1, <1>4, <1>5, PlaceGood DEF w

\* DispatchWakeup
LEMMA WakeupGood ==
    ASSUME NEW v, NEW k \in Session, Good(v, k), v.pc = "suspend", v.wakeup_queue # <<>>
    PROVE  LET c == Head(v.wakeup_queue)
               n == v.sleeping[c]
               u == [v EXCEPT !.wakeup_queue = Tail(@)]
               w == Resume([u EXCEPT !.sid_co[n] = BREAK], c)
           IN  /\ c \in Co
               /\ n = NONE => /\ Good(u, k) /\ SameTables(v, u) /\ u.co_sid = v.co_sid
                              /\ u.co_addr = v.co_addr /\ u.unresponse = v.unresponse
                              /\ u.error_queue = v.error_queue
               /\ n # NONE => /\ Good(w, k) /\ Resumed(v, w, c) /\ w.error_queue = v.error_queue
                              /\ v.waits[c] # NULL /\ v.waits[c].k \in {"sleep", "wait"}
                              /\ v.waits[c].n = n
                              /\ w.sid_co[n] = IF v.waits[c].k = "sleep" THEN BREAK ELSE NONE
<1>. DEFINE q == Tail(v.wakeup_queue)
            u == [v EXCEPT !.wakeup_queue = Tail(@)]
<1>1. v \in VM /\ Current(v) /\ Forks(v, v.fork_queue) /\ Errors(v, v.error_queue)
  BY DEF Good
<1>2. q \in Seq(Co) /\ Head(v.wakeup_queue) \in Co
  BY <1>1, Head1 DEF VM
<1>3. PICK c \in Co : c = Head(v.wakeup_queue)
  BY <1>2
<1>4. PICK n \in Session \cup {NONE} : n = v.sleeping[c]
  BY <1>1 DEF VM
<1>. HIDE DEF q
<1>5. u = [v EXCEPT !.wakeup_queue = q]
  BY DEF q
<1>. HIDE DEF u
<1>6. /\ u \in VM /\ SameTables(v, u) /\ u.co_sid = v.co_sid /\ u.co_addr = v.co_addr
      /\ u.pc = "suspend" /\ u.cur = v.cur /\ u.fork_queue = v.fork_queue
      /\ u.error_queue = v.error_queue /\ u.unresponse = v.unresponse
  BY <1>1, <1>2, <1>5 DEF VM, SameTables
<1>7. Good(u, k)
  <2>1. Current(u) /\ Drained(u)
    BY <1>1, <1>6 DEF Current, Drained
  <2>. QED BY <1>1, <1>6, <2>1, PlaceGood
<1>8. ASSUME n # NONE
      PROVE  LET w == Resume([u EXCEPT !.sid_co[n] = BREAK], c) IN
             /\ Good(w, k) /\ Resumed(v, w, c) /\ w.error_queue = v.error_queue
             /\ v.waits[c] # NULL /\ v.waits[c].k \in {"sleep", "wait"} /\ v.waits[c].n = n
             /\ w.sid_co[n] = IF v.waits[c].k = "sleep" THEN BREAK ELSE NONE
  <2>. DEFINE x == [u EXCEPT !.sid_co[n] = BREAK]
              f == [u.sid_co EXCEPT ![n] = BREAK]
  <2>1. v.waits[c] # NULL /\ v.waits[c].k \in {"sleep", "wait"} /\ v.waits[c].n = n
    BY <1>4, <1>8 DEF Good, Kinds
  <2>2. /\ f \in [Session -> Co \cup {NONE, BREAK}] /\ f[n] = BREAK
        /\ \A m \in Session : m # n => f[m] = v.sid_co[m]
    BY <1>1, <1>6, <1>8 DEF VM, SameTables
  <2>3. x = [u EXCEPT !.sid_co = f]
    OBVIOUS
  <2>. HIDE DEF f, x
  <2>4. /\ x \in VM /\ x.waits = v.waits /\ x.watching = v.watching
        /\ x.sleeping = v.sleeping /\ x.co_sid = v.co_sid /\ x.co_addr = v.co_addr
        /\ x.unresponse = v.unresponse /\ x.sid_co = f
        /\ x.error_queue = v.error_queue /\ x.fork_queue = v.fork_queue
    BY <1>6, <2>2, <2>3 DEF VM, SameTables
  <2>5. PICK w : w = Resume(x, c)
    OBVIOUS
  <2>6. /\ w \in VM /\ Resumed(v, w, c)
        /\ w.error_queue = v.error_queue /\ w.fork_queue = v.fork_queue
    BY <1>8, <2>1, <2>2, <2>4, <2>5, TakenResumed
  <2>7. w.sid_co[n] = IF v.waits[c].k = "sleep" THEN BREAK ELSE NONE
    <3>1. n \in Session
      BY <1>8
    <3>2. x.waits[c] # NULL /\ x.waits[c].n = n
      BY <2>1, <2>4
    <3>3. w.sid_co = IF x.waits[c].k = "wait" THEN [x.sid_co EXCEPT ![x.waits[c].n] = NONE]
                                              ELSE x.sid_co
      BY <2>4, <2>5, <3>1, <3>2, ResumeFields
    <3>. QED BY <2>1, <2>2, <2>4, <3>1, <3>2, <3>3
  <2>8. \A i \in DOMAIN w.fork_queue : w.fork_queue[i] # c
    <3>1. v.waits[c] # Ready
      BY <2>1, Places
    <3>. QED BY <1>1, <2>6, <3>1, Constants DEF Forks
  <2>9. \A i \in DOMAIN w.error_queue : w.error_queue[i] # v.waits[c].n
    <3>1. v.watching[n] = NULL
      BY <1>8, <2>1 DEF Good, Kinds, Sessions
    <3>. QED BY <1>1, <2>1, <2>6, <3>1 DEF Errors
  <2>10. Good(w, k)
    BY <1>1, <2>1, <2>6, <2>8, <2>9, ResumedGood
  <2>. QED BY <2>1, <2>5, <2>6, <2>7, <2>10 DEF x
<1>. QED
  BY <1>3, <1>4, <1>6, <1>7, <1>8 DEF u

\* DispatchError
LEMMA DispatchErrorGood ==
    ASSUME NEW v, NEW k \in Session, Good(v, k), v.pc = "suspend", v.error_queue # <<>>
    PROVE  LET n == Head(v.error_queue)
               c == v.sid_co[n]
               w == Resume([v EXCEPT !.error_queue = Tail(@), !.sid_co[n] = NONE], c)
           IN  /\ n \in Session /\ c \in Co /\ Good(w, k) /\ Resumed(v, w, c)
               /\ v.waits[c] # NULL /\ v.waits[c].n = n /\ v.waits[c].k = "call"
               /\ w.error_queue = Tail(v.error_queue)
<1>. DEFINE q == Tail(v.error_queue)
<1>1. v \in VM /\ Current(v) /\ Forks(v, v.fork_queue) /\ Errors(v, v.error_queue)
  BY DEF Good
<1>2. /\ q \in Seq(Session) /\ Head(v.error_queue) \in Session
      /\ 1 \in DOMAIN v.error_queue /\ Head(v.error_queue) = v.error_queue[1]
      /\ \A i \in DOMAIN q : i + 1 \in DOMAIN v.error_queue /\ q[i] = v.error_queue[i + 1]
      /\ DOMAIN q \subseteq Nat \ {0}
  BY <1>1, Head1 DEF VM
<1>3. PICK n \in Session : n = Head(v.error_queue)
  BY <1>2
<1>4. v.watching[n] # NULL
  BY <1>1, <1>2, <1>3 DEF Errors
<1>5. PICK c \in Co : c = v.sid_co[n]
  BY <1>4 DEF Good, Kinds
<1>6. v.waits[c] # NULL /\ v.waits[c].n = n /\ v.waits[c].k = "call"
  BY <1>4, <1>5 DEF Good, Kinds, Sessions
<1>. DEFINE u == [v EXCEPT !.error_queue = Tail(@), !.sid_co[n] = NONE]
            f == [v.sid_co EXCEPT ![n] = NONE]
<1>7. /\ f \in [Session -> Co \cup {NONE, BREAK}] /\ f[n] = NONE
      /\ \A m \in Session : m # n => f[m] = v.sid_co[m]
  BY <1>1 DEF VM
<1>8. u = [v EXCEPT !.error_queue = q, !.sid_co = f]
  BY <1>1 DEF VM
<1>. HIDE DEF q, f, u
<1>9. /\ u \in VM /\ u.waits = v.waits /\ u.watching = v.watching
      /\ u.sleeping = v.sleeping /\ u.co_sid = v.co_sid /\ u.co_addr = v.co_addr
      /\ u.unresponse = v.unresponse /\ u.sid_co = f
      /\ u.error_queue = q /\ u.fork_queue = v.fork_queue
  BY <1>1, <1>2, <1>7, <1>8 DEF VM
<1>10. PICK w : w = Resume(u, c)
  OBVIOUS
<1>11. /\ w \in VM /\ Resumed(v, w, c)
       /\ w.error_queue = q /\ w.fork_queue = v.fork_queue
  BY <1>6, <1>7, <1>9, <1>10, TakenResumed
<1>12. \A i \in DOMAIN w.fork_queue : w.fork_queue[i] # c
  <2>1. v.waits[c] # Ready
    BY <1>6, Places
  <2>. QED BY <1>1, <1>11, <2>1, Constants DEF Forks
<1>13. Errors(v, q) /\ \A i \in DOMAIN q : q[i] # n
  <2>1. \A i \in DOMAIN q : v.watching[q[i]] # NULL
    BY <1>1, <1>2 DEF Errors
  <2>2. ASSUME NEW i \in DOMAIN q, NEW j \in DOMAIN q, q[i] = q[j] PROVE i = j
    <3>1. i + 1 = j + 1
      BY <1>1, <1>2, <2>2 DEF Errors
    <3>. QED BY <1>2, <3>1
  <2>3. ASSUME NEW i \in DOMAIN q PROVE q[i] # n
    <3>1. i + 1 # 1
      BY <1>2
    <3>. QED BY <1>1, <1>2, <1>3, <3>1 DEF Errors
  <2>. QED BY <2>1, <2>2, <2>3 DEF Errors
<1>14. Good(w, k)
  BY <1>1, <1>6, <1>11, <1>12, <1>13, ResumedGood
<1>. QED
  BY <1>3, <1>5, <1>6, <1>10, <1>11, <1>14 DEF u, q

\* DispatchFork
LEMMA ForkQueueGood ==
    ASSUME NEW v, NEW k \in Session, Good(v, k), v.pc = "fork"
    PROVE  LET q == v.fork_queue
               u == [v EXCEPT !.fork_queue = Tail(@)]
           IN  /\ q = <<>> => Good([v EXCEPT !.pc = "idle"], k)
               /\ q # <<>> /\ Head(q) = NOP => Good([u EXCEPT !.pc = "suspend"], k)
               /\ q # <<>> /\ Head(q) # NOP =>
                    LET w == Resume(u, Head(q)) IN
                    /\ Head(q) \in Co /\ Good(w, k) /\ Resumed(v, w, Head(q))
                    /\ w.error_queue = v.error_queue /\ v.waits[Head(q)] = Ready
<1>1. /\ v \in VM /\ Current(v) /\ Forks(v, v.fork_queue) /\ Errors(v, v.error_queue)
      /\ Drained(v)
  BY DEF Good
<1>2. ASSUME v.fork_queue = <<>> PROVE Good([v EXCEPT !.pc = "idle"], k)
  <2>. DEFINE w == [v EXCEPT !.pc = "idle"]
  <2>1. /\ w \in VM /\ SameTables(v, w) /\ w.co_sid = v.co_sid /\ w.co_addr = v.co_addr
        /\ w.pc = "idle" /\ w.cur = v.cur /\ w.fork_queue = v.fork_queue
        /\ w.error_queue = v.error_queue /\ w.wakeup_queue = v.wakeup_queue
    BY <1>1 DEF VM, SameTables
  <2>. HIDE DEF w
  <2>2. v.wakeup_queue = <<>> /\ v.error_queue = <<>>
    BY <1>1, <1>2 DEF Drained
  <2>3. Current(w) /\ Drained(w)
    BY <1>1, <1>2, <2>1, <2>2 DEF Current, Drained
  <2>. QED BY <1>1, <2>1, <2>3, PlaceGood DEF w
<1>. DEFINE q == Tail(v.fork_queue)
            u == [v EXCEPT !.fork_queue = Tail(@)]
<1>3. ASSUME v.fork_queue # <<>>
      PROVE  /\ q \in Seq(Co \cup {NOP}) /\ Head(v.fork_queue) \in Co \cup {NOP}
             /\ 1 \in DOMAIN v.fork_queue /\ Head(v.fork_queue) = v.fork_queue[1]
             /\ \A i \in DOMAIN q : i + 1 \in DOMAIN v.fork_queue /\ q[i] = v.fork_queue[i + 1]
             /\ DOMAIN q \subseteq Nat \ {0}
  BY <1>1, <1>3, Head1 DEF VM
<1>. HIDE DEF q
<1>4. u = [v EXCEPT !.fork_queue = q]
  BY DEF q
<1>. HIDE DEF u
<1>5. ASSUME v.fork_queue # <<>>
      PROVE  /\ u \in VM /\ SameTables(v, u) /\ u.co_sid = v.co_sid /\ u.co_addr = v.co_addr
             /\ u.pc = "fork" /\ u.cur = v.cur /\ u.fork_queue = q
             /\ u.error_queue = v.error_queue /\ u.unresponse = v.unresponse
             /\ Forks(v, q)
  <2>1. u \in VM
    BY <1>1, <1>3, <1>4, <1>5 DEF VM
  <2>2. /\ SameTables(v, u) /\ u.co_sid = v.co_sid /\ u.co_addr = v.co_addr
        /\ u.pc = "fork" /\ u.cur = v.cur /\ u.fork_queue = q
        /\ u.error_queue = v.error_queue /\ u.unresponse = v.unresponse
    BY <1>1, <1>4 DEF VM, SameTables
  <2>3. \A i \in DOMAIN q : q[i] # NOP => v.waits[q[i]] = Ready
    BY <1>1, <1>3, <1>5 DEF Forks
  <2>4. ASSUME NEW i \in DOMAIN q, NEW j \in DOMAIN q, q[i] # NOP, q[i] = q[j] PROVE i = j
    <3>1. i + 1 = j + 1
      BY <1>1, <1>3, <1>5, <2>4 DEF Forks
    <3>. QED BY <1>3, <1>5, <3>1
  <2>. QED BY <2>1, <2>2, <2>3, <2>4 DEF Forks
<1>6. ASSUME v.fork_queue # <<>> PROVE Good([u EXCEPT !.pc = "suspend"], k)
  <2>. DEFINE w == [u EXCEPT !.pc = "suspend"]
  <2>1. /\ w \in VM /\ SameTables(v, w) /\ w.co_sid = v.co_sid /\ w.co_addr = v.co_addr
        /\ w.pc = "suspend" /\ w.cur = v.cur /\ w.fork_queue = q
        /\ w.error_queue = v.error_queue
    BY <1>5, <1>6 DEF VM, SameTables
  <2>. HIDE DEF w
  <2>2. Current(w) /\ Drained(w)
    BY <1>1, <2>1 DEF Current, Drained
  <2>. QED BY <1>1, <1>5, <1>6, <2>1, <2>2, PlaceGood DEF w
<1>7. ASSUME v.fork_queue # <<>>, Head(v.fork_queue) # NOP
      PROVE  LET c == Head(v.fork_queue)
                 w == Resume(u, c)
             IN  /\ c \in Co /\ Good(w, k) /\ Resumed(v, w, c)
                 /\ w.error_queue = v.error_queue /\ v.waits[c] = Ready
  <2>1. PICK c \in Co : c = Head(v.fork_queue)
    BY <1>3, <1>7
  <2>2. v.waits[c] = Ready
    BY <1>1, <1>3, <1>7, <2>1 DEF Forks
  <2>3. v.waits[c] # NULL /\ v.waits[c].n \notin Session /\ v.waits[c].n = NONE
    BY <2>2, Places, Constants
  <2>4. PICK w : w = Resume(u, c)
    OBVIOUS
  <2>5. /\ u \in VM /\ u.waits = v.waits /\ u.watching = v.watching
        /\ u.sleeping = v.sleeping /\ u.co_sid = v.co_sid /\ u.co_addr = v.co_addr
        /\ u.unresponse = v.unresponse /\ u.sid_co = v.sid_co
    BY <1>5, <1>7 DEF SameTables
  <2>6. /\ w \in VM /\ Resumed(v, w, c)
        /\ w.error_queue = u.error_queue /\ w.fork_queue = u.fork_queue
    BY <2>3, <2>4, <2>5, TakenResumed
  <2>7. w.error_queue = v.error_queue /\ w.fork_queue = q
    BY <1>5, <1>7, <2>6
  <2>8. \A i \in DOMAIN w.fork_queue : w.fork_queue[i] # c
    <3>1. ASSUME NEW i \in DOMAIN q PROVE q[i] # c
      <4>1. i + 1 # 1 /\ i + 1 \in DOMAIN v.fork_queue
        BY <1>3, <1>7
      <4>. QED BY <1>1, <1>3, <1>7, <2>1, <4>1 DEF Forks
    <3>. QED BY <2>7, <3>1
  <2>9. \A i \in DOMAIN w.error_queue : w.error_queue[i] # v.waits[c].n
    <3>1. ASSUME NEW i \in DOMAIN v.error_queue PROVE v.error_queue[i] \in Session
      BY <1>1, ElementOfSeq, LenProperties DEF VM
    <3>. QED BY <2>3, <2>7, <3>1
  <2>10. Good(w, k)
    BY <1>1, <1>5, <1>7, <2>3, <2>6, <2>7, <2>8, <2>9, ResumedGood
  <2>. QED BY <2>1, <2>2, <2>4, <2>6, <2>7, <2>10
<1>. QED
  BY <1>2, <1>3, <1>6, <1>7 DEF u

-----------------------------------------------------------------------------
(* The coroutine that runs waits for a new session. *)

\* v is the service before, w after the coroutine has yielded; kind says in what.
Blocks(v, w, kind, n) ==
    /\ w.pc = "suspend" /\ w.cur = NONE
    /\ w.waits[v.cur] = [k |-> kind, n |-> n]
    /\ \A d \in Co : d # v.cur => w.waits[d] = v.waits[d] /\ w.sleeping[d] = v.sleeping[d]
    /\ w.sid_co[n] = v.cur
    /\ \A m \in Session : m # n => w.sid_co[m] = v.sid_co[m] /\ w.watching[m] = v.watching[m]
    /\ w.watching[n] # NULL <=> kind = "call"
    /\ w.sleeping[v.cur] = IF kind = "call" THEN NONE ELSE n
    /\ w.co_sid = v.co_sid /\ w.co_addr = v.co_addr /\ w.unresponse = v.unresponse
    /\ w.error_queue = v.error_queue /\ w.fork_queue = v.fork_queue

LEMMA BlocksGood ==
    ASSUME NEW v, NEW k \in Session, Good(v, k), v.pc = "run", NEW n \in Session, n = k + 1,
           NEW kind \in {"call", "sleep", "wait"}, NEW w \in VM, Blocks(v, w, kind, n)
    PROVE  Good(w, n)
<1>1. v \in VM /\ Current(v) /\ Forks(v, v.fork_queue) /\ Errors(v, v.error_queue)
  BY DEF Good
<1>2. v.cur \in Co /\ v.waits[v.cur] = Running
  BY <1>1 DEF Current
<1>3. PICK c \in Co : c = v.cur
  BY <1>2
<1>4. PICK b : b = [k |-> kind, n |-> n]
  OBVIOUS
<1>5. b \in Blocked /\ b # NULL /\ b.k = kind /\ b.n = n /\ b # Ready /\ n # NONE
  BY <1>4, Constants, Places DEF Blocked
<1>6. /\ w.waits[c] = b /\ w.sid_co[n] = c
      /\ \A d \in Co : d # c => w.waits[d] = v.waits[d] /\ w.sleeping[d] = v.sleeping[d]
      /\ \A m \in Session : m # n => w.sid_co[m] = v.sid_co[m] /\ w.watching[m] = v.watching[m]
      /\ w.watching[n] # NULL <=> kind = "call"
      /\ w.sleeping[c] = IF kind = "call" THEN NONE ELSE n
  BY <1>3, <1>4 DEF Blocks
<1>7. v.sid_co[n] = NONE /\ k < n
  <2>1. k \in Nat
    BY Constants
  <2>2. ~(n <= k) /\ k < n
    BY <2>1
  <2>. QED BY <2>2 DEF Good, Sessions
<1>8. \A m \in Session : v.sid_co[m] # c
  BY <1>2, <1>3, Places, Constants DEF Good, Sessions
<1>9. Sessions(w, n)
  <2>1. ASSUME NEW m \in Session, w.sid_co[m] \in Co
        PROVE  w.waits[w.sid_co[m]] # NULL /\ w.waits[w.sid_co[m]].n = m
    BY <1>5, <1>6, <1>8, <2>1 DEF Good, Sessions
  <2>2. ASSUME NEW d \in Co, w.waits[d] # NULL, w.waits[d].n # NONE
        PROVE  w.sid_co[w.waits[d].n] = d
    <3>1. CASE d = c
      BY <1>5, <1>6, <3>1
    <3>2. CASE d # c
      <4>1. w.waits[d] = v.waits[d] /\ v.waits[d] \in Blocked /\ v.sid_co[v.waits[d].n] = d
        BY <1>1, <1>6, <2>2, <3>2 DEF Good, Sessions, VM
      <4>2. v.waits[d].n \in Session /\ v.waits[d].n # n
        BY <1>7, <2>2, <4>1, Constants DEF Blocked
      <4>. QED BY <1>6, <4>1, <4>2
    <3>. QED BY <3>1, <3>2
  <2>3. ASSUME NEW m \in Session, w.sid_co[m] # NONE PROVE m <= n
    <3>1. CASE m = n
      BY <3>1, Constants
    <3>2. CASE m # n
      <4>1. m <= k
        BY <1>6, <2>3, <3>2 DEF Good, Sessions
      <4>. QED BY <1>7, <4>1, Constants
    <3>. QED BY <3>1, <3>2
  <2>. QED BY <2>1, <2>2, <2>3 DEF Sessions
<1>10. Kinds(w)
  <2>1. ASSUME NEW d \in Co, w.waits[d] # NULL
        PROVE  /\ w.waits[d].n = NONE <=> w.waits[d].k \in {"run", "fork"}
               /\ w.waits[d].k = "call" => w.watching[w.waits[d].n] # NULL
    <3>1. CASE d = c
      BY <1>5, <1>6, <3>1
    <3>2. CASE d # c
      <4>1. /\ w.waits[d] = v.waits[d] /\ v.waits[d] \in Blocked
            /\ v.waits[d].n = NONE <=> v.waits[d].k \in {"run", "fork"}
            /\ v.waits[d].k = "call" => v.watching[v.waits[d].n] # NULL
        BY <1>1, <1>6, <2>1, <3>2 DEF Good, Kinds, VM
      <4>2. ASSUME v.waits[d].k = "call" PROVE w.watching[w.waits[d].n] # NULL
        <5>1. v.waits[d].n \in Session /\ v.sid_co[v.waits[d].n] = d
          BY <2>1, <4>1, <4>2 DEF Blocked, Good, Sessions
        <5>2. v.waits[d].n # n
          BY <1>7, <5>1, Constants
        <5>. QED BY <1>6, <4>1, <4>2, <5>1, <5>2
      <4>. QED BY <4>1, <4>2
    <3>. QED BY <3>1, <3>2
  <2>2. ASSUME NEW m \in Session, w.watching[m] # NULL
        PROVE  w.sid_co[m] \in Co /\ w.waits[w.sid_co[m]].k = "call"
    <3>1. CASE m = n
      BY <1>5, <1>6, <2>2, <3>1
    <3>2. CASE m # n
      <4>1. v.sid_co[m] \in Co /\ v.waits[v.sid_co[m]].k = "call" /\ w.sid_co[m] = v.sid_co[m]
        BY <1>6, <2>2, <3>2 DEF Good, Kinds
      <4>. QED BY <1>6, <1>8, <4>1
    <3>. QED BY <3>1, <3>2
  <2>3. ASSUME NEW d \in Co, w.sleeping[d] # NONE
        PROVE  /\ w.waits[d] # NULL /\ w.waits[d].k \in {"sleep", "wait"}
               /\ w.sleeping[d] = w.waits[d].n
    <3>1. CASE d = c
      BY <1>5, <1>6, <2>3, <3>1
    <3>2. CASE d # c
      BY <1>6, <2>3, <3>2 DEF Good, Kinds
    <3>. QED BY <3>1, <3>2
  <2>. QED BY <2>1, <2>2, <2>3 DEF Kinds
<1>11. Current(w) /\ Drained(w)
  BY Constants DEF Current, Drained, Blocks
<1>12. Forks(w, w.fork_queue)
  <2>1. ASSUME NEW i \in DOMAIN v.fork_queue, v.fork_queue[i] # NOP
        PROVE  w.waits[v.fork_queue[i]] = Ready
    <3>1. v.fork_queue[i] \in Co
      BY <1>1, <2>1, ElementOfSeq, LenProperties DEF VM
    <3>2. v.waits[v.fork_queue[i]] = Ready
      BY <1>1, <2>1 DEF Forks
    <3>3. v.fork_queue[i] # c
      BY <1>2, <1>3, <3>2, Places
    <3>. QED BY <1>6, <3>1, <3>2, <3>3
  <2>. QED BY <1>1, <2>1 DEF Forks, Blocks
<1>13. Errors(w, w.error_queue)
  <2>1. ASSUME NEW i \in DOMAIN v.error_queue
        PROVE  w.watching[v.error_queue[i]] # NULL
    <3>1. v.error_queue[i] \in Session /\ v.watching[v.error_queue[i]] # NULL
      BY <1>1, <2>1, ElementOfSeq, LenProperties DEF VM, Errors
    <3>2. v.error_queue[i] # n
      BY <1>7, <3>1, Constants DEF Good, Kinds
    <3>. QED BY <1>6, <3>1, <3>2
  <2>. QED BY <1>1, <2>1 DEF Errors, Blocks
<1>14. Requests(w)
  BY <1>5, <1>6 DEF Good, Requests, Blocks
<1>. QED
  BY <1>9, <1>10, <1>11, <1>12, <1>13, <1>14 DEF Good

\* Where a coroutine waits.
Place(kind, n) == [k |-> kind, n |-> n]

LEMMA WaitFields ==
    ASSUME NEW v \in VM, v.cur \in Co, NEW n \in Session,
           NEW kind \in {"call", "sleep", "wait"}, NEW w, w = Wait(v, kind, n)
    PROVE  /\ w \in VM /\ w.pc = "suspend" /\ w.cur = NONE
           /\ w.waits[v.cur] = Place(kind, n)
           /\ \A d \in Co : d # v.cur => w.waits[d] = v.waits[d]
           /\ w.sid_co[n] = v.cur
           /\ \A m \in Session : m # n => w.sid_co[m] = v.sid_co[m]
           /\ w.watching = v.watching /\ w.sleeping = v.sleeping
           /\ w.co_sid = v.co_sid /\ w.co_addr = v.co_addr /\ w.unresponse = v.unresponse
           /\ w.error_queue = v.error_queue /\ w.fork_queue = v.fork_queue
           /\ w.wakeup_queue = v.wakeup_queue
<1>. DEFINE f == [v.waits EXCEPT ![v.cur] = [k |-> kind, n |-> n]]
            g == [v.sid_co EXCEPT ![n] = v.cur]
<1>1. [k |-> kind, n |-> n] \in Blocked
  BY DEF Blocked
<1>2. f \in [Co -> Blocked \cup {NULL}] /\ g \in [Session -> Co \cup {NONE, BREAK}]
  BY <1>1 DEF VM
<1>3. Wait(v, kind, n) = [v EXCEPT !.sid_co = g, !.waits = f, !.pc = "suspend", !.cur = NONE]
  BY DEF Wait, Suspend, VM
<1>. HIDE DEF f, g
<1>. QED
  <2>1. f[v.cur] = Place(kind, n) /\ \A d \in Co : d # v.cur => f[d] = v.waits[d]
    BY DEF f, VM, Place
  <2>2. g[n] = v.cur /\ \A m \in Session : m # n => g[m] = v.sid_co[m]
    BY DEF g, VM
  <2>3. w = [v EXCEPT !.sid_co = g, !.waits = f, !.pc = "suspend", !.cur = NONE]
    BY <1>3
  <2>4. w \in VM
    BY <1>2, <2>3 DEF VM
  <2>5. w.waits = f /\ w.sid_co = g
    BY <1>2, <2>3 DEF VM
  <2>6. /\ w.pc = "suspend" /\ w.cur = NONE /\ w.watching = v.watching
        /\ w.sleeping = v.sleeping
        /\ w.co_sid = v.co_sid /\ w.co_addr = v.co_addr /\ w.unresponse = v.unresponse
        /\ w.error_queue = v.error_queue /\ w.fork_queue = v.fork_queue
        /\ w.wakeup_queue = v.wakeup_queue
    BY <2>3 DEF VM
  <2>. QED BY <2>1, <2>2, <2>4, <2>5, <2>6

\* Call
LEMMA CallGood ==
    ASSUME NEW v, NEW k \in Session, Good(v, k), v.pc = "run", NEW n \in Session, n = k + 1,
           NEW t \in Service
    PROVE  LET w == Wait([v EXCEPT !.watching[n] = t], "call", n) IN
           Good(w, n) /\ Blocks(v, w, "call", n) /\ w.watching[n] = t
<1>. DEFINE f == [v.watching EXCEPT ![n] = t]
            u == [v EXCEPT !.watching[n] = t]
            kind == "call"
<1>1. v \in VM /\ v.cur \in Co /\ v.waits[v.cur] = Running
  BY DEF Good, Current
<1>2. /\ f \in [Session -> Service \cup {NULL}] /\ f[n] = t
      /\ \A m \in Session : m # n => f[m] = v.watching[m]
  BY <1>1 DEF VM
<1>3. u = [v EXCEPT !.watching = f]
  OBVIOUS
<1>. HIDE DEF f, u
<1>4. /\ u \in VM /\ u.watching = f /\ u.cur = v.cur /\ u.waits = v.waits /\ u.sid_co = v.sid_co
      /\ u.sleeping = v.sleeping /\ u.co_sid = v.co_sid /\ u.co_addr = v.co_addr
      /\ u.unresponse = v.unresponse /\ u.error_queue = v.error_queue
      /\ u.fork_queue = v.fork_queue
  BY <1>1, <1>2, <1>3 DEF VM
<1>5. PICK w : w = Wait(u, kind, n)
  OBVIOUS
<1>6. /\ w \in VM /\ w.pc = "suspend" /\ w.cur = NONE
      /\ w.waits[v.cur] = Place(kind, n)
      /\ \A d \in Co : d # v.cur => w.waits[d] = v.waits[d]
      /\ w.sid_co[n] = v.cur
      /\ \A m \in Session : m # n => w.sid_co[m] = v.sid_co[m]
      /\ w.watching = f /\ w.sleeping = v.sleeping
      /\ w.co_sid = v.co_sid /\ w.co_addr = v.co_addr /\ w.unresponse = v.unresponse
      /\ w.error_queue = v.error_queue /\ w.fork_queue = v.fork_queue
  <2>1. u \in VM /\ u.cur \in Co
    BY <1>1, <1>4
  <2>2. /\ w \in VM /\ w.pc = "suspend" /\ w.cur = NONE
        /\ w.waits[u.cur] = Place(kind, n)
        /\ \A d \in Co : d # u.cur => w.waits[d] = u.waits[d]
        /\ w.sid_co[n] = u.cur
        /\ \A m \in Session : m # n => w.sid_co[m] = u.sid_co[m]
        /\ w.watching = u.watching /\ w.sleeping = u.sleeping
        /\ w.co_sid = u.co_sid /\ w.co_addr = u.co_addr /\ w.unresponse = u.unresponse
        /\ w.error_queue = u.error_queue /\ w.fork_queue = u.fork_queue
    BY <1>5, <2>1, WaitFields
  <2>. QED BY <1>4, <2>2
<1>7. v.sleeping[v.cur] = NONE
  BY <1>1, Places DEF Good, Kinds
<1>8. Blocks(v, w, kind, n)
  <2>1. w.watching[n] # NULL
    BY <1>2, <1>6, Constants
  <2>. QED BY <1>2, <1>6, <1>7, <2>1 DEF Blocks, Place
<1>9. Good(w, n)
  BY <1>6, <1>8, BlocksGood
<1>. QED
  BY <1>2, <1>5, <1>6, <1>8, <1>9 DEF u

\* Sleep and WaitToken
LEMMA SleepGood ==
    ASSUME NEW v, NEW k \in Session, Good(v, k), v.pc = "run", NEW n \in Session, n = k + 1,
           NEW kind \in {"sleep", "wait"}
    PROVE  LET w == Wait([v EXCEPT !.sleeping[v.cur] = n], kind, n) IN
           Good(w, n) /\ Blocks(v, w, kind, n) /\ w.watching = v.watching
<1>. DEFINE f == [v.sleeping EXCEPT ![v.cur] = n]
            u == [v EXCEPT !.sleeping[v.cur] = n]
<1>1. v \in VM /\ v.cur \in Co
  BY DEF Good, Current
<1>2. /\ f \in [Co -> Session \cup {NONE}] /\ f[v.cur] = n
      /\ \A d \in Co : d # v.cur => f[d] = v.sleeping[d]
  BY <1>1 DEF VM
<1>3. u = [v EXCEPT !.sleeping = f]
  OBVIOUS
<1>. HIDE DEF f, u
<1>4. /\ u \in VM /\ u.watching = v.watching /\ u.cur = v.cur /\ u.waits = v.waits
      /\ u.sid_co = v.sid_co /\ u.sleeping = f /\ u.co_sid = v.co_sid
      /\ u.co_addr = v.co_addr /\ u.unresponse = v.unresponse
      /\ u.error_queue = v.error_queue /\ u.fork_queue = v.fork_queue
  BY <1>1, <1>2, <1>3 DEF VM
<1>5. PICK w : w = Wait(u, kind, n)
  OBVIOUS
<1>6. /\ w \in VM /\ w.pc = "suspend" /\ w.cur = NONE
      /\ w.waits[v.cur] = Place(kind, n)
      /\ \A d \in Co : d # v.cur => w.waits[d] = v.waits[d]
      /\ w.sid_co[n] = v.cur
      /\ \A m \in Session : m # n => w.sid_co[m] = v.sid_co[m]
      /\ w.watching = v.watching /\ w.sleeping = f
      /\ w.co_sid = v.co_sid /\ w.co_addr = v.co_addr /\ w.unresponse = v.unresponse
      /\ w.error_queue = v.error_queue /\ w.fork_queue = v.fork_queue
  <2>1. u \in VM /\ u.cur \in Co /\ kind \in {"call", "sleep", "wait"}
    BY <1>1, <1>4
  <2>2. /\ w \in VM /\ w.pc = "suspend" /\ w.cur = NONE
        /\ w.waits[u.cur] = Place(kind, n)
        /\ \A d \in Co : d # u.cur => w.waits[d] = u.waits[d]
        /\ w.sid_co[n] = u.cur
        /\ \A m \in Session : m # n => w.sid_co[m] = u.sid_co[m]
        /\ w.watching = u.watching /\ w.sleeping = u.sleeping
        /\ w.co_sid = u.co_sid /\ w.co_addr = u.co_addr /\ w.unresponse = u.unresponse
        /\ w.error_queue = u.error_queue /\ w.fork_queue = u.fork_queue
    BY <1>5, <2>1, WaitFields
  <2>. QED BY <1>4, <2>2
<1>7. v.watching[n] = NULL
  <2>1. k \in Nat /\ ~(n <= k)
    BY Constants
  <2>. QED BY <2>1, Constants DEF Good, Kinds, Sessions
<1>8. Blocks(v, w, kind, n)
  BY <1>2, <1>6, <1>7 DEF Blocks, Place
<1>9. Good(w, n)
  BY <1>6, <1>8, BlocksGood
<1>. QED
  BY <1>5, <1>6, <1>8, <1>9 DEF u

-----------------------------------------------------------------------------
(* The other operations of the coroutine that runs. *)

\* Wakeup
LEMMA TokenGood ==
    ASSUME NEW v, NEW k \in Session, Good(v, k), v.pc = "run", NEW c \in Co
    PROVE  LET w == [v EXCEPT !.wakeup_queue = Append(@, c)] IN
           /\ Good(w, k) /\ SameTables(v, w) /\ w.co_sid = v.co_sid /\ w.co_addr = v.co_addr
           /\ w.unresponse = v.unresponse /\ w.error_queue = v.error_queue
<1>. DEFINE q == Append(v.wakeup_queue, c)
            w == [v EXCEPT !.wakeup_queue = Append(@, c)]
<1>1. v \in VM /\ Current(v) /\ Forks(v, v.fork_queue) /\ Errors(v, v.error_queue)
  BY DEF Good
<1>2. q \in Seq(Co)
  BY <1>1, Last1 DEF VM
<1>. HIDE DEF q
<1>3. w = [v EXCEPT !.wakeup_queue = q]
  BY DEF q
<1>. HIDE DEF w
<1>4. /\ w \in VM /\ SameTables(v, w) /\ w.co_sid = v.co_sid /\ w.co_addr = v.co_addr
      /\ w.pc = "run" /\ w.cur = v.cur /\ w.fork_queue = v.fork_queue
      /\ w.error_queue = v.error_queue /\ w.unresponse = v.unresponse
  BY <1>1, <1>2, <1>3 DEF VM, SameTables
<1>5. Current(w) /\ Drained(w)
  BY <1>1, <1>4 DEF Current, Drained, SameTables
<1>. QED
  BY <1>1, <1>4, <1>5, PlaceGood DEF w

\* Fork
LEMMA ForkGood ==
    ASSUME NEW v, NEW k \in Session, Good(v, k), v.pc = "run", NEW c \in Co, v.waits[c] = NULL
    PROVE  LET w == [v EXCEPT !.fork_queue = Append(@, c), !.waits[c] = Ready] IN
           /\ Good(w, k) /\ w.sid_co = v.sid_co /\ w.watching = v.watching
           /\ w.waits[c] = Ready /\ \A d \in Co : d # c => w.waits[d] = v.waits[d]
           /\ w.co_sid = v.co_sid /\ w.co_addr = v.co_addr
           /\ w.unresponse = v.unresponse /\ w.error_queue = v.error_queue
<1>. DEFINE q == Append(v.fork_queue, c)
            f == [v.waits EXCEPT ![c] = Ready]
            w == [v EXCEPT !.fork_queue = Append(@, c), !.waits[c] = Ready]
<1>1. v \in VM /\ Current(v) /\ Forks(v, v.fork_queue) /\ Errors(v, v.error_queue)
  BY DEF Good
<1>2. /\ q \in Seq(Co \cup {NOP})
      /\ \A i \in DOMAIN v.fork_queue : q[i] = v.fork_queue[i]
      /\ \A i \in DOMAIN q : i \in DOMAIN v.fork_queue \/ i = Len(v.fork_queue) + 1
      /\ q[Len(v.fork_queue) + 1] = c
  BY <1>1, Last1 DEF VM
<1>3. /\ f \in [Co -> Blocked \cup {NULL}] /\ f[c] = Ready
      /\ \A d \in Co : d # c => f[d] = v.waits[d]
  BY <1>1, Places DEF VM
<1>4. w = [v EXCEPT !.fork_queue = q, !.waits = f]
  BY <1>1 DEF VM
<1>. HIDE DEF q, f, w
<1>5. /\ w \in VM /\ w.waits = f /\ w.sid_co = v.sid_co /\ w.watching = v.watching
      /\ w.sleeping = v.sleeping /\ w.co_sid = v.co_sid /\ w.co_addr = v.co_addr
      /\ w.pc = "run" /\ w.cur = v.cur /\ w.fork_queue = q
      /\ w.error_queue = v.error_queue /\ w.unresponse = v.unresponse
  BY <1>1, <1>2, <1>3, <1>4 DEF VM
<1>6. Sessions(w, k)
  BY <1>3, <1>5, Places DEF Good, Sessions
<1>7. Kinds(w)
  <2>1. \A m \in Session : v.sid_co[m] \in Co => v.sid_co[m] # c
    BY DEF Good, Sessions
  <2>2. \A d \in Co : v.sleeping[d] # NONE => d # c
    BY DEF Good, Kinds
  <2>. QED BY <1>3, <1>5, <2>1, <2>2, Places DEF Good, Kinds
<1>8. Current(w) /\ Drained(w)
  <2>1. v.cur \in Co => v.cur # c
    BY <1>1, Places DEF Current
  <2>. QED BY <1>1, <1>3, <1>5, <2>1 DEF Current, Drained
<1>9. Forks(w, q)
  <2>1. ASSUME NEW i \in DOMAIN v.fork_queue, v.fork_queue[i] # NOP
        PROVE  v.fork_queue[i] # c /\ f[v.fork_queue[i]] = Ready
    <3>1. v.fork_queue[i] \in Co
      BY <1>1, <2>1, ElementOfSeq, LenProperties DEF VM
    <3>2. v.waits[v.fork_queue[i]] = Ready
      BY <1>1, <2>1 DEF Forks
    <3>. QED BY <1>3, <3>1, <3>2, Places
  <2>2. ASSUME NEW i \in DOMAIN q, q[i] # NOP PROVE f[q[i]] = Ready
    BY <1>2, <1>3, <2>1, <2>2
  <2>3. ASSUME NEW i \in DOMAIN q, NEW j \in DOMAIN q, q[i] # NOP, q[i] = q[j] PROVE i = j
    BY <1>1, <1>2, <2>1, <2>3 DEF Forks
  <2>. QED BY <1>5, <2>2, <2>3 DEF Forks
<1>10. Errors(w, w.error_queue)
  BY <1>1, <1>5 DEF Errors
<1>11. Requests(w)
  BY <1>3, <1>5, Places DEF Good, Requests
<1>. QED
  BY <1>3, <1>5, <1>6, <1>7, <1>8, <1>9, <1>10, <1>11 DEF Good, w

\* Ret and Response
LEMMA AnswerGood ==
    ASSUME NEW v, NEW k \in Session, Good(v, k), v.pc = "run", NEW c \in Co,
           NEW w \in VM, SameTables(v, w), w.co_sid[c] = NONE,
           \A d \in Co : d # c => w.co_sid[d] = v.co_sid[d],
           w.co_addr = v.co_addr, w.pc = "run", w.cur = v.cur,
           w.fork_queue = v.fork_queue, w.error_queue = v.error_queue
    PROVE  Good(w, k)
<1>1. v \in VM /\ Current(v) /\ Forks(v, v.fork_queue) /\ Errors(v, v.error_queue)
  BY DEF Good
<1>2. Current(w) /\ Drained(w)
  BY <1>1 DEF Current, Drained, SameTables
<1>3. Requests(w)
  BY DEF Good, Requests, SameTables
<1>. QED
  BY <1>1, <1>2, <1>3, TablesGood DEF Good

\* Respond
LEMMA RespondGood ==
    ASSUME NEW v, NEW k \in Session, Good(v, k), v.pc = "run", NEW r \in SUBSET Owed
    PROVE  LET w == [v EXCEPT !.unresponse = r] IN
           /\ Good(w, k) /\ SameTables(v, w) /\ w.co_addr = v.co_addr
           /\ w.co_sid = v.co_sid /\ w.unresponse = r /\ w.error_queue = v.error_queue
<1>. DEFINE w == [v EXCEPT !.unresponse = r]
<1>1. v \in VM /\ Current(v) /\ Forks(v, v.fork_queue) /\ Errors(v, v.error_queue)
  BY DEF Good
<1>2. /\ w \in VM /\ SameTables(v, w) /\ w.co_sid = v.co_sid /\ w.co_addr = v.co_addr
      /\ w.pc = "run" /\ w.cur = v.cur /\ w.fork_queue = v.fork_queue
      /\ w.error_queue = v.error_queue /\ w.unresponse = r
  BY <1>1 DEF VM, SameTables
<1>. HIDE DEF w
<1>3. Current(w) /\ Drained(w)
  BY <1>1, <1>2 DEF Current, Drained, SameTables
<1>. QED
  BY <1>1, <1>2, <1>3, PlaceGood DEF w

\* The coroutine that runs ends; its request is forgotten.
Ends(v, w) ==
    /\ w.cur = NONE /\ w.sid_co = v.sid_co /\ w.watching = v.watching /\ w.sleeping = v.sleeping
    /\ w.waits[v.cur] = NULL /\ w.co_sid[v.cur] = NONE
    /\ \A d \in Co : d # v.cur =>
            w.waits[d] = v.waits[d] /\ w.co_sid[d] = v.co_sid[d] /\ w.co_addr[d] = v.co_addr[d]
    /\ w.unresponse = v.unresponse /\ w.error_queue = v.error_queue
    /\ w.wakeup_queue = v.wakeup_queue

LEMMA EndsGood ==
    ASSUME NEW v, NEW k \in Session, Good(v, k), v.pc = "run", NEW w \in VM, Ends(v, w),
           w.pc # "run", Forks(v, w.fork_queue), Drained(w)
    PROVE  Good(w, k)
<1>1. v \in VM /\ v.cur \in Co /\ v.waits[v.cur] = Running /\ Errors(v, v.error_queue)
  BY DEF Good, Current
<1>2. PICK c \in Co : c = v.cur
  BY <1>1
<1>3. /\ v.waits[c] # NULL /\ v.waits[c].n = NONE /\ v.waits[c].k = "run"
      /\ v.waits[c] # Ready
  BY <1>1, <1>2, Places
<1>4. /\ w.waits[c] = NULL /\ w.co_sid[c] = NONE
      /\ \A d \in Co : d # c =>
            w.waits[d] = v.waits[d] /\ w.co_sid[d] = v.co_sid[d] /\ w.co_addr[d] = v.co_addr[d]
      /\ w.cur = NONE /\ w.sid_co = v.sid_co /\ w.watching = v.watching
      /\ w.sleeping = v.sleeping /\ w.error_queue = v.error_queue
  BY <1>2 DEF Ends
<1>5. \A m \in Session : v.sid_co[m] \in Co => v.sid_co[m] # c
  BY <1>3, Constants DEF Good, Sessions
<1>6. Sessions(w, k)
  <2>1. ASSUME NEW m \in Session, v.sid_co[m] \in Co
        PROVE  w.waits[v.sid_co[m]] # NULL /\ w.waits[v.sid_co[m]].n = m
    BY <1>4, <1>5, <2>1 DEF Good, Sessions
  <2>2. ASSUME NEW d \in Co, w.waits[d] # NULL, w.waits[d].n # NONE
        PROVE  v.sid_co[w.waits[d].n] = d
    BY <1>4, <2>2 DEF Good, Sessions
  <2>. QED BY <1>4, <2>1, <2>2 DEF Good, Sessions
<1>7. Kinds(w)
  <2>1. \A d \in Co : v.sleeping[d] # NONE => d # c
    BY <1>3 DEF Good, Kinds
  <2>2. ASSUME NEW m \in Session, v.watching[m] # NULL
        PROVE  v.sid_co[m] \in Co /\ w.waits[v.sid_co[m]].k = "call"
    BY <1>4, <1>5, <2>2 DEF Good, Kinds
  <2>. QED BY <1>4, <2>1, <2>2 DEF Good, Kinds
<1>8. Current(w)
  BY <1>4, Constants DEF Current
<1>9. Forks(w, w.fork_queue)
  <2>1. ASSUME NEW i \in DOMAIN w.fork_queue, w.fork_queue[i] # NOP
        PROVE  w.waits[w.fork_queue[i]] = Ready
    <3>1. w.fork_queue[i] \in Co /\ v.waits[w.fork_queue[i]] = Ready
      BY <2>1, ElementOfSeq, LenProperties DEF VM, Forks
    <3>. QED BY <1>3, <1>4, <3>1
  <2>. QED BY <2>1 DEF Forks
<1>10. Errors(w, w.error_queue)
  BY <1>1, <1>4 DEF Errors
<1>11. Requests(w)
  BY <1>3, <1>4 DEF Good, Requests
<1>. QED
  BY <1>6, <1>7, <1>8, <1>9, <1>10, <1>11 DEF Good

LEMMA ReleaseFields ==
    ASSUME NEW v \in VM, NEW c \in Co
    PROVE  LET u == Release(v, c) IN
           /\ u \in VM /\ u.waits[c] = NULL /\ u.co_sid[c] = NONE
           /\ \A d \in Co : d # c =>
                u.waits[d] = v.waits[d] /\ u.co_sid[d] = v.co_sid[d] /\ u.co_addr[d] = v.co_addr[d]
           /\ u.sid_co = v.sid_co /\ u.watching = v.watching /\ u.sleeping = v.sleeping
           /\ u.unresponse = v.unresponse /\ u.error_queue = v.error_queue
           /\ u.wakeup_queue = v.wakeup_queue /\ u.fork_queue = v.fork_queue
<1>. DEFINE f == [v.waits EXCEPT ![c] = NULL]
            g == [v.co_sid EXCEPT ![c] = NONE]
            h == [v.co_addr EXCEPT ![c] = NULL]
<1>1. /\ f \in [Co -> Blocked \cup {NULL}] /\ f[c] = NULL
      /\ g \in [Co -> Session \cup {NONE, 0}] /\ g[c] = NONE
      /\ h \in [Co -> Service \cup {NULL}]
      /\ \A d \in Co : d # c => f[d] = v.waits[d] /\ g[d] = v.co_sid[d] /\ h[d] = v.co_addr[d]
  BY DEF VM
<1>2. Release(v, c) = [v EXCEPT !.waits = f, !.co_sid = g, !.co_addr = h]
  BY DEF Release, VM
<1>. HIDE DEF f, g, h
<1>3. PICK u : u = [v EXCEPT !.waits = f, !.co_sid = g, !.co_addr = h]
  OBVIOUS
<1>4. u \in VM
  BY <1>1, <1>3 DEF VM
<1>5. /\ u.waits = f /\ u.co_sid = g /\ u.co_addr = h
      /\ u.sid_co = v.sid_co /\ u.watching = v.watching /\ u.sleeping = v.sleeping
      /\ u.unresponse = v.unresponse /\ u.error_queue = v.error_queue
      /\ u.wakeup_queue = v.wakeup_queue /\ u.fork_queue = v.fork_queue
  BY <1>3 DEF VM
<1>. QED
  BY <1>1, <1>2, <1>3, <1>4, <1>5

\* Finish
LEMMA FinishGood ==
    ASSUME NEW v, NEW k \in Session, Good(v, k), v.pc = "run"
    PROVE  LET w == Suspend(Release(v, v.cur)) IN
           Good(w, k) /\ Ends(v, w)
<1>1. v \in VM /\ v.cur \in Co /\ Forks(v, v.fork_queue)
  BY DEF Good, Current
<1>2. PICK u : u = Release(v, v.cur)
  OBVIOUS
<1>3. /\ u \in VM /\ u.waits[v.cur] = NULL /\ u.co_sid[v.cur] = NONE
      /\ \A d \in Co : d # v.cur =>
            u.waits[d] = v.waits[d] /\ u.co_sid[d] = v.co_sid[d] /\ u.co_addr[d] = v.co_addr[d]
      /\ u.sid_co = v.sid_co /\ u.watching = v.watching /\ u.sleeping = v.sleeping
      /\ u.unresponse = v.unresponse /\ u.error_queue = v.error_queue
      /\ u.wakeup_queue = v.wakeup_queue /\ u.fork_queue = v.fork_queue
  BY <1>1, <1>2, ReleaseFields
<1>4. PICK w : w = Suspend(u)
  OBVIOUS
<1>5. /\ w \in VM /\ w.pc = "suspend" /\ w.cur = NONE /\ w.waits = u.waits
      /\ w.co_sid = u.co_sid /\ w.co_addr = u.co_addr
      /\ w.sid_co = u.sid_co /\ w.watching = u.watching /\ w.sleeping = u.sleeping
      /\ w.unresponse = u.unresponse /\ w.error_queue = u.error_queue
      /\ w.wakeup_queue = u.wakeup_queue /\ w.fork_queue = u.fork_queue
  BY <1>3, <1>4 DEF Suspend, VM
<1>6. Ends(v, w)
  BY <1>3, <1>5 DEF Ends
<1>7. Drained(w) /\ Forks(v, w.fork_queue)
  BY <1>1, <1>3, <1>5 DEF Drained
<1>8. Good(w, k)
  BY <1>5, <1>6, <1>7, EndsGood
<1>. QED
  BY <1>2, <1>4, <1>6, <1>8

\* Fail
LEMMA FailGood ==
    ASSUME NEW v, NEW k \in Session, Good(v, k), v.pc = "run"
    PROVE  LET w == [Release(v, v.cur) EXCEPT !.pc = "fork", !.cur = NONE,
                                              !.fork_queue = Append(@, NOP)] IN
           Good(w, k) /\ Ends(v, w)
<1>1. v \in VM /\ v.cur \in Co /\ Forks(v, v.fork_queue)
  BY DEF Good, Current
<1>2. PICK u : u = Release(v, v.cur)
  OBVIOUS
<1>3. /\ u \in VM /\ u.waits[v.cur] = NULL /\ u.co_sid[v.cur] = NONE
      /\ \A d \in Co : d # v.cur =>
            u.waits[d] = v.waits[d] /\ u.co_sid[d] = v.co_sid[d] /\ u.co_addr[d] = v.co_addr[d]
      /\ u.sid_co = v.sid_co /\ u.watching = v.watching /\ u.sleeping = v.sleeping
      /\ u.unresponse = v.unresponse /\ u.error_queue = v.error_queue
      /\ u.wakeup_queue = v.wakeup_queue /\ u.fork_queue = v.fork_queue
  BY <1>1, <1>2, ReleaseFields
<1>. DEFINE q == Append(v.fork_queue, NOP)
            w == [Release(v, v.cur) EXCEPT !.pc = "fork", !.cur = NONE,
                                           !.fork_queue = Append(@, NOP)]
<1>4. /\ q \in Seq(Co \cup {NOP})
      /\ \A i \in DOMAIN v.fork_queue : q[i] = v.fork_queue[i]
      /\ \A i \in DOMAIN q : i \in DOMAIN v.fork_queue \/ i = Len(v.fork_queue) + 1
      /\ q[Len(v.fork_queue) + 1] = NOP /\ Len(v.fork_queue) + 1 \in DOMAIN q
  BY <1>1, Last1 DEF VM
<1>5. w = [u EXCEPT !.pc = "fork", !.cur = NONE, !.fork_queue = q]
  BY <1>2, <1>3
<1>. HIDE DEF q, w
<1>6. w \in VM
  BY <1>3, <1>4, <1>5 DEF VM
<1>7. /\ w.pc = "fork" /\ w.cur = NONE /\ w.waits = u.waits
      /\ w.co_sid = u.co_sid /\ w.co_addr = u.co_addr
      /\ w.sid_co = u.sid_co /\ w.watching = u.watching /\ w.sleeping = u.sleeping
      /\ w.unresponse = u.unresponse /\ w.error_queue = u.error_queue
      /\ w.wakeup_queue = u.wakeup_queue /\ w.fork_queue = q
  BY <1>3, <1>5 DEF VM
<1>8. Ends(v, w)
  BY <1>3, <1>7 DEF Ends
<1>9. Drained(w)
  BY <1>4, <1>7 DEF Drained
<1>10. Forks(v, q)
  BY <1>1, <1>4 DEF Forks
<1>11. Good(w, k)
  BY <1>6, <1>7, <1>8, <1>9, <1>10, EndsGood
<1>. QED
  BY <1>8, <1>11 DEF w

LEMMA EmptyFields ==
    /\ EmptyVM \in VM /\ EmptyVM.pc = "idle" /\ EmptyVM.cur = NONE
    /\ EmptyVM.wakeup_queue = <<>> /\ EmptyVM.error_queue = <<>> /\ EmptyVM.fork_queue = <<>>
    /\ EmptyVM.unresponse = {}
    /\ \A c \in Co : /\ EmptyVM.waits[c] = NULL /\ EmptyVM.co_sid[c] = NONE
                     /\ EmptyVM.sleeping[c] = NONE /\ EmptyVM.co_addr[c] = NULL
    /\ \A n \in Session : EmptyVM.sid_co[n] = NONE /\ EmptyVM.watching[n] = NULL
  BY EmptySeq DEF EmptyVM, VM

LEMMA EmptyGood ==
    ASSUME NEW k \in Session
    PROVE  Good(EmptyVM, k)
<1>1. PICK v \in VM : v = EmptyVM
  BY EmptyFields
<1>2. /\ v.pc = "idle" /\ v.cur = NONE /\ v.wakeup_queue = <<>>
      /\ v.error_queue = <<>> /\ v.fork_queue = <<>>
      /\ \A c \in Co : v.waits[c] = NULL /\ v.co_sid[c] = NONE /\ v.sleeping[c] = NONE
      /\ \A n \in Session : v.sid_co[n] = NONE /\ v.watching[n] = NULL
  BY <1>1, EmptyFields
<1>3. Sessions(v, k) /\ Kinds(v) /\ Requests(v)
  BY <1>2, Constants DEF Sessions, Kinds, Requests
<1>4. Current(v) /\ Drained(v) /\ Forks(v, v.fork_queue) /\ Errors(v, v.error_queue)
  BY <1>2, Constants DEF Current, Drained, Forks, Errors
<1>. QED
  BY <1>1, <1>3, <1>4 DEF Good

-----------------------------------------------------------------------------
(* Mailboxes.  In a step a service may take its first message, and messages are *)
(* appended: new[t] to the mailbox of t. *)

Off(s, took, t) == IF took /\ t = s THEN 1 ELSE 0
Kept(s, took, t) == Len(box[t]) - Off(s, took, t)

BoxStep(s, took, new) ==
    /\ took => box[s] # <<>>
    /\ new \in [Service -> Seq(Message)]
    /\ box' \in [Service -> Seq(Message)]
    /\ \A t \in Service : \A j \in DOMAIN box'[t] :
        \/ /\ j + Off(s, took, t) \in DOMAIN box[t] /\ j <= Kept(s, took, t)
           /\ box'[t][j] = box[t][j + Off(s, took, t)]
        \/ /\ j - Kept(s, took, t) \in DOMAIN new[t] /\ j > Kept(s, took, t)
           /\ box'[t][j] = new[t][j - Kept(s, took, t)]
    /\ \A t \in Service : \A i \in DOMAIN box[t] : i # 1 \/ Off(s, took, t) = 0 =>
        /\ i - Off(s, took, t) \in DOMAIN box'[t]
        /\ box'[t][i - Off(s, took, t)] = box[t][i]
    /\ \A t \in Service : \A i \in DOMAIN new[t] :
        /\ i + Kept(s, took, t) \in DOMAIN box'[t]
        /\ box'[t][i + Kept(s, took, t)] = new[t][i]

NoMail == [t \in Service |-> <<>>]
Mail(to, m) == [t \in Service |-> IF t = to /\ alive[to] THEN <<m>> ELSE <<>>]

LEMMA MailTypes ==
    ASSUME NEW to, NEW m \in Message
    PROVE  /\ NoMail \in [Service -> Seq(Message)] /\ Mail(to, m) \in [Service -> Seq(Message)]
           /\ \A t \in Service : DOMAIN NoMail[t] = {} /\ NoMail[t] = <<>>
           /\ \A t \in Service : \A i \in DOMAIN Mail(to, m)[t] :
                i = 1 /\ t = to /\ alive[to] /\ Mail(to, m)[t][i] = m
           /\ to \in Service /\ alive[to] => 1 \in DOMAIN Mail(to, m)[to] /\ Mail(to, m)[to][1] = m
<1>1. <<m>> \in Seq(Message) /\ <<>> \in Seq(Message)
  OBVIOUS
<1>2. DOMAIN <<m>> = {1} /\ <<m>>[1] = m
  OBVIOUS
<1>3. DOMAIN <<>> = {}
  OBVIOUS
<1>. QED
  BY <1>1, <1>2, <1>3 DEF NoMail, Mail

\* r is p and then q.
Joined(p, q, r) ==
    /\ Len(p) \in Nat
    /\ \A j \in DOMAIN r :
        \/ j \in DOMAIN p /\ j <= Len(p) /\ r[j] = p[j]
        \/ j - Len(p) \in DOMAIN q /\ j > Len(p) /\ r[j] = q[j - Len(p)]
    /\ \A i \in DOMAIN p : i \in DOMAIN r /\ r[i] = p[i]
    /\ \A i \in DOMAIN q : i + Len(p) \in DOMAIN r /\ r[i + Len(p)] = q[i]

LEMMA ConcatFacts ==
    ASSUME NEW S, NEW p \in Seq(S), NEW q \in Seq(S)
    PROVE  p \o q \in Seq(S) /\ Joined(p, q, p \o q)
<1>1. /\ Len(p) \in Nat /\ Len(q) \in Nat
      /\ DOMAIN p = 1..Len(p) /\ DOMAIN q = 1..Len(q)
  BY LenProperties
<1>2. /\ p \o q \in Seq(S) /\ Len(p \o q) = Len(p) + Len(q)
      /\ \A i \in 1..(Len(p) + Len(q)) :
            (p \o q)[i] = IF i <= Len(p) THEN p[i] ELSE q[i - Len(p)]
  BY ConcatProperties
<1>3. DOMAIN (p \o q) = 1..(Len(p) + Len(q))
  BY <1>2, LenProperties
<1>4. PICK r : r = p \o q
  OBVIOUS
<1>5. /\ DOMAIN r = 1..(Len(p) + Len(q))
      /\ \A i \in 1..(Len(p) + Len(q)) : r[i] = IF i <= Len(p) THEN p[i] ELSE q[i - Len(p)]
  BY <1>2, <1>3, <1>4
<1>6. ASSUME NEW j \in DOMAIN r
      PROVE  \/ j \in DOMAIN p /\ j <= Len(p) /\ r[j] = p[j]
             \/ j - Len(p) \in DOMAIN q /\ j > Len(p) /\ r[j] = q[j - Len(p)]
  BY <1>1, <1>5, <1>6
<1>7. ASSUME NEW i \in DOMAIN p PROVE i \in DOMAIN r /\ r[i] = p[i]
  BY <1>1, <1>5, <1>7
<1>8. ASSUME NEW i \in DOMAIN q PROVE i + Len(p) \in DOMAIN r /\ r[i + Len(p)] = q[i]
  <2>1. i + Len(p) \in 1..(Len(p) + Len(q)) /\ ~(i + Len(p) <= Len(p)) /\ i + Len(p) - Len(p) = i
    BY <1>1, <1>8
  <2>. QED BY <1>5, <2>1
<1>9. Joined(p, q, r)
  BY <1>1, <1>6, <1>7, <1>8 DEF Joined
<1>. QED
  BY <1>2, <1>4, <1>9

\* The mailboxes that a step leaves are such a step.
LEMMA BoxSteps ==
    ASSUME Types, NEW s \in Service, NEW took \in BOOLEAN, took => box[s] # <<>>,
           NEW new \in [Service -> Seq(Message)],
           box' = [t \in Service |-> (IF took /\ t = s THEN Tail(box[t]) ELSE box[t]) \o new[t]]
    PROVE  BoxStep(s, took, new)
<1>. DEFINE old(t) == IF took /\ t = s THEN Tail(box[t]) ELSE box[t]
<1>1. ASSUME NEW t \in Service
      PROVE  /\ box[t] \in Seq(Message) /\ old(t) \in Seq(Message)
             /\ Len(old(t)) = Kept(s, took, t)
             /\ \A i \in DOMAIN old(t) : /\ i + Off(s, took, t) \in DOMAIN box[t]
                                         /\ old(t)[i] = box[t][i + Off(s, took, t)]
             /\ \A i \in DOMAIN box[t] : i # 1 \/ Off(s, took, t) = 0 =>
                    /\ i - Off(s, took, t) \in DOMAIN old(t)
                    /\ old(t)[i - Off(s, took, t)] = box[t][i]
  <2>1. box[t] \in Seq(Message) /\ Len(box[t]) \in Nat /\ DOMAIN box[t] = 1..Len(box[t])
    BY LenProperties DEF Types
  <2>2. CASE took /\ t = s
    <3>1. box[t] # <<>>
      BY <2>2
    <3>2. Len(Tail(box[t])) = Len(box[t]) - 1
      BY <2>1, <3>1, HeadTailProperties
    <3>3. old(t) = Tail(box[t]) /\ Off(s, took, t) = 1
      BY <2>2 DEF Off
    <3>. HIDE DEF old
    <3>. QED BY <2>1, <3>1, <3>2, <3>3, Head1 DEF Kept
  <2>3. CASE ~(took /\ t = s)
    <3>1. old(t) = box[t] /\ Off(s, took, t) = 0
      BY <2>3 DEF Off
    <3>. HIDE DEF old
    <3>. QED BY <2>1, <3>1 DEF Kept
  <2>. QED BY <2>2, <2>3
<1>2. ASSUME NEW t \in Service PROVE box'[t] = old(t) \o new[t]
  OBVIOUS
<1>3. box' = [t \in Service |-> box'[t]]
  OBVIOUS
<1>. HIDE DEF old
<1>4. ASSUME NEW t \in Service
      PROVE  box'[t] \in Seq(Message) /\ Joined(old(t), new[t], box'[t])
  BY <1>1, <1>2, ConcatFacts
<1>5. box' \in [Service -> Seq(Message)]
  BY <1>3, <1>4
<1>6. ASSUME NEW t \in Service
      PROVE  /\ \A j \in DOMAIN box'[t] :
                  \/ /\ j + Off(s, took, t) \in DOMAIN box[t] /\ j <= Kept(s, took, t)
                     /\ box'[t][j] = box[t][j + Off(s, took, t)]
                  \/ /\ j - Kept(s, took, t) \in DOMAIN new[t] /\ j > Kept(s, took, t)
                     /\ box'[t][j] = new[t][j - Kept(s, took, t)]
             /\ \A i \in DOMAIN box[t] : i # 1 \/ Off(s, took, t) = 0 =>
                  /\ i - Off(s, took, t) \in DOMAIN box'[t]
                  /\ box'[t][i - Off(s, took, t)] = box[t][i]
             /\ \A i \in DOMAIN new[t] :
                  /\ i + Kept(s, took, t) \in DOMAIN box'[t]
                  /\ box'[t][i + Kept(s, took, t)] = new[t][i]
  <2>1. PICK p, q, r :
            p = old(t) /\ q = new[t] /\ r = box'[t] /\ Joined(p, q, r)
    BY <1>4
  <2>2. PICK o : o = Off(s, took, t)
    OBVIOUS
  <2>3. PICK b : b = box[t]
    OBVIOUS
  <2>4. /\ Len(p) = Kept(s, took, t)
        /\ \A i \in DOMAIN p : i + o \in DOMAIN b /\ p[i] = b[i + o]
        /\ \A i \in DOMAIN b : i # 1 \/ o = 0 => i - o \in DOMAIN p /\ p[i - o] = b[i]
    BY <1>1, <2>1, <2>2, <2>3
  <2>5. PICK l : l = Kept(s, took, t)
    OBVIOUS
  <2>a. Len(p) = l
    BY <2>4, <2>5
  <2>6. \A j \in DOMAIN r :
            \/ j + o \in DOMAIN b /\ j <= l /\ r[j] = b[j + o]
            \/ j - l \in DOMAIN q /\ j > l /\ r[j] = q[j - l]
    BY <2>1, <2>4, <2>a DEF Joined
  <2>7. \A i \in DOMAIN b : i # 1 \/ o = 0 => i - o \in DOMAIN r /\ r[i - o] = b[i]
    BY <2>1, <2>4 DEF Joined
  <2>8. \A i \in DOMAIN q : i + l \in DOMAIN r /\ r[i + l] = q[i]
    BY <2>1, <2>a DEF Joined
  <2>. QED BY <2>1, <2>2, <2>3, <2>5, <2>6, <2>7, <2>8
<1>. QED
  BY <1>5, <1>6 DEF BoxStep

\* c.send
LEMMA PostedBox ==
    ASSUME Types, NEW s \in Service, NEW took \in BOOLEAN, took => box[s] # <<>>,
           NEW to \in Service, NEW m \in Message,
           box' = Posted(IF took THEN Taken(s) ELSE box, to, m)
    PROVE  BoxStep(s, took, Mail(to, m))
<1>. DEFINE b == IF took THEN Taken(s) ELSE box
            old(t) == IF took /\ t = s THEN Tail(box[t]) ELSE box[t]
<1>1. box \in [Service -> Seq(Message)] /\ alive \in [Service -> BOOLEAN]
  BY DEF Types
<1>2. b = [t \in Service |-> old(t)]
  BY <1>1 DEF Taken
<1>3. \A t \in Service : old(t) \in Seq(Message)
  BY <1>1, Head1
<1>4. \A t \in Service : b[t] = old(t)
  BY <1>2
<1>. HIDE DEF old, b
<1>5. box' = [t \in Service |-> old(t) \o Mail(to, m)[t]]
  <2>1. ASSUME NEW t \in Service PROVE old(t) \o <<>> = old(t)
    BY <1>3, ConcatEmptySeq
  <2>2. ASSUME NEW t \in Service PROVE old(t) \o <<m>> = Append(old(t), m)
    BY <1>3, AppendIsConcat
  <2>3. CASE alive[to]
    <3>1. box' = [b EXCEPT ![to] = Append(b[to], m)]
      BY <2>3 DEF Posted, b
    <3>2. box' = [t \in Service |-> IF t = to THEN Append(old(to), m) ELSE old(t)]
      BY <1>2, <1>4, <3>1
    <3>3. \A t \in Service : Mail(to, m)[t] = IF t = to THEN <<m>> ELSE <<>>
      BY <2>3 DEF Mail
    <3>. QED BY <2>1, <2>2, <3>2, <3>3
  <2>4. CASE ~alive[to]
    <3>1. box' = b
      BY <2>4 DEF Posted, b
    <3>2. \A t \in Service : Mail(to, m)[t] = <<>>
      BY <2>4 DEF Mail
    <3>. QED BY <1>2, <2>1, <3>1, <3>2
  <2>. QED BY <2>3, <2>4
<1>6. Mail(to, m) \in [Service -> Seq(Message)]
  BY MailTypes
<1>. QED
  BY <1>5, <1>6, BoxSteps DEF old

LEMMA TakenBox ==
    ASSUME Types, NEW s \in Service, NEW took \in BOOLEAN, took => box[s] # <<>>,
           box' = IF took THEN Taken(s) ELSE box
    PROVE  BoxStep(s, took, NoMail)
<1>. DEFINE old(t) == IF took /\ t = s THEN Tail(box[t]) ELSE box[t]
<1>1. box \in [Service -> Seq(Message)]
  BY DEF Types
<1>2. box' = [t \in Service |-> old(t)]
  BY <1>1 DEF Taken
<1>3. \A t \in Service : old(t) \in Seq(Message)
  BY <1>1, Head1
<1>. HIDE DEF old
<1>4. \A t \in Service : old(t) \o NoMail[t] = old(t)
  BY <1>3, ConcatEmptySeq DEF NoMail
<1>5. box' = [t \in Service |-> old(t) \o NoMail[t]]
  BY <1>2, <1>4
<1>6. NoMail \in [Service -> Seq(Message)]
  BY DEF NoMail
<1>. QED
  BY <1>5, <1>6, BoxSteps DEF old

-----------------------------------------------------------------------------
(* What a step of service s does: it takes a message or not, and sends new.  *)

Frame(s, took, new) ==
    /\ BoxStep(s, took, new)
    /\ vm' \in [Service -> VM] /\ \A t \in Service : t # s => vm'[t] = vm[t]
    /\ session' \in [Service -> Session]
    /\ \A t \in Service : t # s => session'[t] = session[t]
    /\ Good(vm'[s], session'[s])
    /\ alive' \in [Service -> BOOLEAN]
    /\ \A t \in Service : t # s => alive'[t] = alive[t]
    /\ alive'[s] => alive[s]
    /\ ~alive'[s] => vm'[s] = EmptyVM
    /\ timers' \subseteq Service \X Session
    /\ answers' \in [Service -> [Session -> Nat]]
    /\ unknown' \in BOOLEAN

\* The tables of sessions.
EntrySame(v, w, n) ==
    /\ w.sid_co[n] = v.sid_co[n] /\ w.watching[n] = v.watching[n]
    /\ v.sid_co[n] \in Co => w.waits[v.sid_co[n]] = v.waits[v.sid_co[n]]

Others(v, w, n) == \A m \in Session : m # n => EntrySame(v, w, m)

Keeps(v, w) == (\A n \in Session : EntrySame(v, w, n)) /\ w.error_queue = v.error_queue

\* The response of session n has come.
Takes(v, w, n) ==
    /\ Others(v, w, n) /\ w.sid_co[n] \in {NONE, BREAK} /\ w.watching[n] = NULL
    /\ v.error_queue = <<>> /\ w.error_queue = <<>>

\* A sleep or wait is over before its time.
Wakes(v, w, n) ==
    /\ Others(v, w, n)
    /\ v.sid_co[n] \in Co /\ v.waits[v.sid_co[n]].k \in {"sleep", "wait"}
    /\ w.sid_co[n] = IF v.waits[v.sid_co[n]].k = "sleep" THEN BREAK ELSE NONE
    /\ v.watching[n] = NULL /\ w.watching[n] = NULL /\ w.error_queue = v.error_queue

\* A call fails.
Fails(v, w, n) ==
    /\ Others(v, w, n) /\ v.error_queue # <<>> /\ n = Head(v.error_queue)
    /\ w.error_queue = Tail(v.error_queue)
    /\ v.sid_co[n] \in Co /\ v.waits[v.sid_co[n]].k = "call" /\ w.watching[n] = NULL

\* A coroutine waits for the new session n.
Opens(v, w, kind, n) ==
    /\ Others(v, w, n) /\ v.sid_co[n] = NONE /\ v.watching[n] = NULL
    /\ w.sid_co[n] \in Co /\ w.waits[w.sid_co[n]].k = kind
    /\ w.watching[n] # NULL <=> kind = "call"
    /\ w.error_queue = v.error_queue

\* The message says that calls have failed.
Errs(v, w, m) ==
    /\ \A n \in Session : EntrySame(v, w, n)
    /\ v.error_queue = <<>>
    /\ \A i \in DOMAIN w.error_queue : LET n == w.error_queue[i] IN
        v.watching[n] # NULL /\ (m.session = n \/ (m.session = 0 /\ v.watching[n] = m.source))
    /\ \A n \in Session :
        v.watching[n] # NULL /\ (m.session = n \/ (m.session = 0 /\ v.watching[n] = m.source)) =>
            \E i \in DOMAIN w.error_queue : w.error_queue[i] = n

SLaw(s, took, new) ==
    \/ /\ Keeps(vm[s], vm'[s]) /\ session'[s] = session[s]
       /\ took /\ alive[s] => Head(box[s]).type = "REQUEST"
    \/ /\ took /\ alive'[s] /\ Head(box[s]).type = "RESPONSE"
       /\ Takes(vm[s], vm'[s], Head(box[s]).session) /\ session'[s] = session[s]
    \/ ~took /\ session'[s] = session[s] /\ \E n \in Session : Wakes(vm[s], vm'[s], n)
    \/ ~took /\ session'[s] = session[s] /\ \E n \in Session : Fails(vm[s], vm'[s], n)
    \/ /\ ~took /\ session'[s] = session[s] + 1
       /\ \/ \E kind \in {"sleep", "wait"} : Opens(vm[s], vm'[s], kind, session'[s])
          \/ /\ Opens(vm[s], vm'[s], "call", session'[s])
             /\ \E t \in Service : /\ vm'[s].watching[session'[s]] = t /\ alive[t]
                                   /\ new = Mail(t, Req(session'[s], s))
    \/ /\ took /\ alive'[s] /\ Head(box[s]).type = "ERROR" /\ session'[s] = session[s]
       /\ Errs(vm[s], vm'[s], Head(box[s]))
    \/ ~took /\ ~alive'[s] /\ session'[s] = session[s]

\* Requests: who has the call of session n of x.
InCo(v, c, x, n) == v.co_sid[c] = n /\ v.co_addr[c] = x
Closure(x, n) == [addr |-> x, session |-> n]
IsAnswer(m) == m.type # "REQUEST" /\ m.session # 0 /\ m.source # NULL

Shrinks(v, w) ==
    /\ \A c \in Co, x \in Service, n \in Session : InCo(w, c, x, n) => InCo(v, c, x, n)
    /\ w.unresponse \subseteq v.unresponse

NoRequest(new) ==
    \A t \in Service : \A i \in DOMAIN new[t] : new[t][i].type # "REQUEST" \/ new[t][i].session = 0
NoAnswer(new) == \A t \in Service : \A i \in DOMAIN new[t] : ~IsAnswer(new[t][i])

\* s answers the call of session n of x, which it had.
Gives(s, took, new, x, n) ==
    /\ Shrinks(vm[s], vm'[s]) /\ NoRequest(new) /\ alive[s] /\ alive'[s]
    /\ \A t \in Service : \A i \in DOMAIN new[t] :
            /\ i = 1 /\ t = x /\ new[t][i].type # "REQUEST"
            /\ new[t][i].session = n /\ new[t][i].source = s
    /\ answers' = [answers EXCEPT ![x][n] = @ + 1]
    /\ \/ took /\ Head(box[s]) = Req(n, x)
       \/ \E c \in Co : InCo(vm[s], c, x, n) /\ vm'[s].co_sid[c] = NONE
       \/ Closure(x, n) \in vm[s].unresponse \ vm'[s].unresponse

RLaw(s, took, new) ==
    \/ Shrinks(vm[s], vm'[s]) /\ NoRequest(new) /\ NoAnswer(new) /\ UNCHANGED answers
    \* Call
    \/ /\ ~took /\ session'[s] = session[s] + 1 /\ alive[s] /\ alive'[s]
       /\ \E t \in Service :
            /\ alive[t] /\ new = Mail(t, Req(session'[s], s))
            /\ vm'[s].watching[session'[s]] = t
       /\ Shrinks(vm[s], vm'[s]) /\ UNCHANGED answers
    \* RequestMessage
    \/ /\ took /\ alive[s] /\ alive'[s] /\ Head(box[s]).type = "REQUEST"
       /\ new = NoMail /\ UNCHANGED answers
       /\ vm'[s].unresponse = vm[s].unresponse
       /\ \E c \in Co :
            /\ vm[s].co_sid[c] = NONE
            /\ InCo(vm'[s], c, Head(box[s]).source, Head(box[s]).session)
            /\ \A d \in Co : d # c => /\ vm'[s].co_sid[d] = vm[s].co_sid[d]
                                      /\ vm'[s].co_addr[d] = vm[s].co_addr[d]
    \* Response
    \/ /\ ~took /\ new = NoMail /\ UNCHANGED answers /\ alive[s] /\ alive'[s]
       /\ vm'[s].co_addr = vm[s].co_addr
       /\ \E c \in Co, x \in Service, n \in Session :
            /\ InCo(vm[s], c, x, n) /\ vm'[s].co_sid[c] = NONE
            /\ \A d \in Co : d # c => vm'[s].co_sid[d] = vm[s].co_sid[d]
            /\ vm'[s].unresponse = vm[s].unresponse \cup {Closure(x, n)}
    \/ \E x \in Service, n \in Session : Gives(s, took, new, x, n)
    \* Exit
    \/ /\ ~took /\ alive[s] /\ ~alive'[s] /\ NoRequest(new)
       /\ \A x \in Service : \A i, j \in DOMAIN new[x] :
            IsAnswer(new[x][i]) =>
                /\ new[x][i].type = "ERROR" /\ new[x][i].source = s
                /\ answers'[x][new[x][i].session] = answers[x][new[x][i].session] + 1
                /\ IsAnswer(new[x][j]) /\ new[x][i].session = new[x][j].session => i = j
       /\ \A x \in Service, n \in Session :
            \/ answers'[x][n] = answers[x][n]
            \/ /\ answers'[x][n] = answers[x][n] + 1
               /\ \/ \E c \in Co : InCo(vm[s], c, x, n)
                  \/ Closure(x, n) \in vm[s].unresponse

\* Timeouts.
TLaw(s, new) ==
    \/ /\ UNCHANGED timers
       /\ \A t \in Service : \A i \in DOMAIN new[t] : new[t][i].source # NULL
    \/ /\ timers' = timers \cup {<<s, session'[s]>>} /\ new = NoMail
       /\ session'[s] = session[s] + 1
       /\ Opens(vm[s], vm'[s], "sleep", session'[s])
    \/ \E n \in Session : /\ <<s, n>> \in timers /\ timers' = timers \ {<<s, n>>}
                          /\ new = Mail(s, Resp(n, NULL))

\* Messages come from s, and only a service that has exited says so.
MLaw(s, new) ==
    \A t \in Service : \A i \in DOMAIN new[t] :
        /\ new[t][i].source \in {s, NULL}
        /\ new[t][i].type = "ERROR" /\ new[t][i].session = 0 => ~alive'[s]
        /\ new[t][i].type = "RESPONSE" => new[t][i].source = NULL \/ alive'[s]

\* A call is not lost: who has it passes it on, or tells the caller, who is alive.
Told(s, new, x, n) ==
    alive[x] => \E i \in DOMAIN new[x] : new[x][i] \in {Resp(n, s), Err(n, s), Err(0, s)}

PLaw(s, took, new) ==
    /\ forgotten \subseteq forgotten'
    /\ \A x \in Service, n \in Session :
        /\ took /\ Head(box[s]) = Req(n, x) =>
            \/ alive'[s] /\ \E c \in Co : InCo(vm'[s], c, x, n)
            \/ Told(s, new, x, n)
        /\ \A c \in Co : alive[s] /\ InCo(vm[s], c, x, n) =>
            \/ alive'[s] /\ InCo(vm'[s], c, x, n)
            \/ alive'[s] /\ Closure(x, n) \in vm'[s].unresponse
            \/ Told(s, new, x, n)
            \/ <<x, n>> \in forgotten'
        /\ alive[s] /\ Closure(x, n) \in vm[s].unresponse =>
            \/ alive'[s] /\ Closure(x, n) \in vm'[s].unresponse
            \/ Told(s, new, x, n)
            \/ took /\ Head(box[s]) = Err(0, x)
            \/ <<x, n>> \in forgotten'

\* An unknown session.
ULaw(s, took) ==
    \/ UNCHANGED unknown
    \/ /\ took /\ alive[s] /\ Head(box[s]).type = "RESPONSE"
       /\ vm[s].sid_co[Head(box[s]).session] = NONE

Effect(s, took, new) ==
    /\ Frame(s, took, new) /\ SLaw(s, took, new) /\ RLaw(s, took, new) /\ TLaw(s, new)
    /\ MLaw(s, new) /\ PLaw(s, took, new) /\ ULaw(s, took)

\* A service that has not exited has not been empty before it.
Start == Types /\ Matched /\ Gone

-----------------------------------------------------------------------------
(* What the parts of an effect follow from. *)

SameRequests(v, w) ==
    w.co_sid = v.co_sid /\ w.co_addr = v.co_addr /\ w.unresponse = v.unresponse

LEMMA FrameFacts ==
    ASSUME Start, NEW s \in Service, alive[s], NEW took \in BOOLEAN, NEW new,
           BoxStep(s, took, new), NEW w, NEW k \in Session, Good(w, k), Set(s, w),
           session' = [session EXCEPT ![s] = k], alive' = alive,
           timers' \subseteq Service \X Session,
           answers' \in [Service -> [Session -> Nat]], unknown' \in BOOLEAN
    PROVE  Frame(s, took, new) /\ vm'[s] = w /\ session'[s] = k
<1>1. vm' = [vm EXCEPT ![s] = w] /\ w \in VM
  BY DEF Set, Good
<1>2. vm \in [Service -> VM] /\ session \in [Service -> Session] /\ alive \in [Service -> BOOLEAN]
  BY DEF Start, Types
<1>3. /\ vm' \in [Service -> VM] /\ \A t \in Service : t # s => vm'[t] = vm[t]
      /\ vm'[s] = w
  BY <1>1, <1>2
<1>4. /\ session' \in [Service -> Session] /\ session'[s] = k
      /\ \A t \in Service : t # s => session'[t] = session[t]
  BY <1>2
<1>. QED
  BY <1>2, <1>3, <1>4 DEF Frame

LEMMA SameOwed ==
    ASSUME NEW s \in Service, alive' = alive, UNCHANGED forgotten,
           SameRequests(vm[s], vm'[s]), NEW took \in BOOLEAN,
           took => Head(box[s]).type # "REQUEST", NEW new
    PROVE  PLaw(s, took, new)
<1>1. ASSUME NEW x \in Service, NEW n \in Session
      PROVE  ~(took /\ Head(box[s]) = Req(n, x))
  BY DEF Req
<1>2. \A c \in Co, x \in Service, n \in Session : InCo(vm[s], c, x, n) => InCo(vm'[s], c, x, n)
  BY DEF InCo, SameRequests
<1>3. vm'[s].unresponse = vm[s].unresponse
  BY DEF SameRequests
<1>. QED
  BY <1>1, <1>2, <1>3 DEF PLaw

LEMMA QuietLaws ==
    ASSUME NEW s \in Service, alive' = alive, UNCHANGED <<answers, forgotten>>,
           SameRequests(vm[s], vm'[s]), NEW took \in BOOLEAN,
           took => Head(box[s]).type # "REQUEST",
           NEW new, NoRequest(new), NoAnswer(new)
    PROVE  RLaw(s, took, new) /\ PLaw(s, took, new)
<1>1. Shrinks(vm[s], vm'[s])
  BY DEF Shrinks, InCo, SameRequests
<1>2. RLaw(s, took, new)
  BY <1>1 DEF RLaw
<1>. QED
  BY <1>2, SameOwed

LEMMA NoMailLaws ==
    ASSUME NEW s \in Service
    PROVE  /\ NoRequest(NoMail) /\ NoAnswer(NoMail) /\ MLaw(s, NoMail)
           /\ UNCHANGED timers => TLaw(s, NoMail)
<1>1. \A t \in Service : DOMAIN NoMail[t] = {}
  BY DEF NoMail
<1>. QED
  BY <1>1 DEF NoRequest, NoAnswer, MLaw, TLaw

\* A step that sends nothing and leaves the requests alone.
LEMMA QuietEffect ==
    ASSUME Start, NEW s \in Service, alive[s], NEW took \in BOOLEAN, took => box[s] # <<>>,
           took => Head(box[s]).type # "REQUEST",
           took => box' = Taken(s), ~took => box' = box,
           NEW w, NEW k \in Session, Good(w, k), Set(s, w),
           session' = [session EXCEPT ![s] = k], SameRequests(vm[s], w),
           UNCHANGED <<alive, answers, forgotten>>,
           timers' \subseteq Service \X Session, unknown' \in BOOLEAN
    PROVE  /\ Frame(s, took, NoMail) /\ RLaw(s, took, NoMail) /\ MLaw(s, NoMail)
           /\ PLaw(s, took, NoMail) /\ (UNCHANGED timers => TLaw(s, NoMail))
           /\ vm'[s] = w /\ session'[s] = k
<1>1. BoxStep(s, took, NoMail)
  <2>1. box' = IF took THEN Taken(s) ELSE box
    OBVIOUS
  <2>. QED BY <2>1, TakenBox DEF Start
<1>2. answers' \in [Service -> [Session -> Nat]]
  BY DEF Start, Types
<1>3. Frame(s, took, NoMail) /\ vm'[s] = w /\ session'[s] = k
  BY <1>1, <1>2, FrameFacts
<1>4. /\ NoRequest(NoMail) /\ NoAnswer(NoMail) /\ MLaw(s, NoMail)
      /\ UNCHANGED timers => TLaw(s, NoMail)
  BY NoMailLaws
<1>5. RLaw(s, took, NoMail) /\ PLaw(s, took, NoMail)
  BY <1>3, <1>4, QuietLaws
<1>. QED
  BY <1>3, <1>4, <1>5

LEMMA StartFacts ==
    ASSUME Start, NEW s \in Service
    PROVE  /\ Good(vm[s], session[s]) /\ vm[s] \in VM /\ session[s] \in Session
           /\ box[s] \in Seq(Message) /\ session = [session EXCEPT ![s] = session[s]]
           /\ timers \subseteq Service \X Session /\ unknown \in BOOLEAN
           /\ answers \in [Service -> [Session -> Nat]]
  BY DEF Start, Types, Matched

LEMMA HeadMessage ==
    ASSUME Start, NEW s \in Service, box[s] # <<>>
    PROVE  /\ Head(box[s]) \in Message
           /\ Head(box[s]).type = "RESPONSE" => Head(box[s]).session \in Session
           /\ Head(box[s]).type \in {"REQUEST", "ERROR"} =>
                Head(box[s]).session \in Session \cup {0} /\ Head(box[s]).source \in Service
<1>1. box[s] \in Seq(Message)
  BY StartFacts
<1>2. Head(box[s]) \in Message
  BY <1>1, Head1
<1>. QED
  BY <1>2 DEF Message

LEMMA SameEntries ==
    ASSUME NEW v, NEW w, SameTables(v, w)
    PROVE  \A n \in Session : EntrySame(v, w, n)
  BY DEF SameTables, EntrySame

\* A coroutine that is resumed takes the entry of its session along, if it has one.
LEMMA ResumedEntries ==
    ASSUME NEW v, NEW k \in Session, Good(v, k), NEW w, NEW c \in Co, v.waits[c] # NULL,
           Resumed(v, w, c)
    PROVE  /\ v.waits[c].n \in Session => Others(v, w, v.waits[c].n)
           /\ v.waits[c].n = NONE => \A n \in Session : EntrySame(v, w, n)
           /\ SameRequests(v, w)
<1>1. v.waits \in [Co -> Blocked \cup {NULL}] /\ v.sid_co \in [Session -> Co \cup {NONE, BREAK}]
  BY DEF Good, VM
<1>2. \A m \in Session : v.sid_co[m] \in Co => v.waits[v.sid_co[m]].n = m
  BY DEF Good, Sessions
<1>3. /\ \A m \in Session : m # v.waits[c].n =>
            w.sid_co[m] = v.sid_co[m] /\ w.watching[m] = v.watching[m]
      /\ w.waits = [v.waits EXCEPT ![c] = Running]
  BY DEF Resumed
<1>4. \A m \in Session : m # v.waits[c].n => EntrySame(v, w, m)
  BY <1>1, <1>2, <1>3 DEF EntrySame
<1>5. NONE \notin Session
  BY Constants
<1>6. SameRequests(v, w)
  BY DEF Resumed, SameRequests
<1>. QED
  BY <1>4, <1>5, <1>6 DEF Others

HasEffect(s) == \E took \in BOOLEAN, new \in [Service -> Seq(Message)] : Effect(s, took, new)

LEMMA EffectOf ==
    ASSUME NEW s, NEW took \in BOOLEAN, NEW new, Effect(s, took, new)
    PROVE  HasEffect(s)
  BY DEF HasEffect, Effect, Frame, BoxStep

-----------------------------------------------------------------------------
(* The effect of each action: the messages and the queues. *)

LEMMA ResponseEffect ==
    ASSUME Start, NEW s \in Service, ResponseMessage(s)
    PROVE  HasEffect(s)
<1>. DEFINE v == vm[s]
            n == Head(box[s]).session
            c == v.sid_co[n]
            u == [v EXCEPT !.sid_co[n] = NONE]
            w == IF c \in Co THEN Resume(u, c) ELSE [u EXCEPT !.pc = "fork"]
<1>1. /\ alive[s] /\ v.pc = "idle" /\ box[s] # <<>> /\ Head(box[s]).type = "RESPONSE"
      /\ Set(s, w) /\ unknown' = (unknown \/ c = NONE) /\ box' = Taken(s)
      /\ UNCHANGED <<alive, timers, session, answers, forgotten>>
  BY DEF ResponseMessage, Receive, At, msg
<1>2. /\ Good(v, session[s]) /\ v \in VM /\ session[s] \in Session
      /\ timers \subseteq Service \X Session /\ unknown \in BOOLEAN
      /\ session = [session EXCEPT ![s] = session[s]]
  BY StartFacts
<1>3. n \in Session
  BY <1>1, HeadMessage
<1>. HIDE DEF n
<1>4. /\ c \in Co => /\ Good(Resume(u, c), session[s]) /\ Resumed(v, Resume(u, c), c)
                     /\ Resume(u, c).error_queue = <<>>
                     /\ v.waits[c] # NULL /\ v.waits[c].n = n
      /\ c \notin Co => Good([u EXCEPT !.pc = "fork"], session[s])
  BY <1>1, <1>2, <1>3, ResponseGood
<1>5. v.error_queue = <<>>
  BY <1>1, <1>2 DEF Good, Drained
<1>6. c \in Co \cup {NONE, BREAK}
  BY <1>2, <1>3 DEF VM
<1>7. Good(w, session[s]) /\ SameRequests(v, w) /\ Takes(v, w, n)
  <2>1. CASE c \in Co
    <3>1. w = Resume(u, c)
      BY <2>1
    <3>2. PICK x : x = w
      OBVIOUS
    <3>3. Good(x, session[s]) /\ Resumed(v, x, c) /\ x.error_queue = <<>>
      BY <1>4, <2>1, <3>1, <3>2
    <3>. HIDE DEF c, u, w
    <3>4. Others(v, x, n) /\ SameRequests(v, x)
      BY <1>2, <1>3, <1>4, <2>1, <3>3, ResumedEntries
    <3>5. x.sid_co[n] \in {NONE, BREAK} /\ x.watching[n] = NULL
      BY <1>3, <1>4, <2>1, <3>3 DEF Resumed
    <3>. QED BY <1>5, <3>2, <3>3, <3>4, <3>5 DEF Takes
  <2>2. CASE c \notin Co
    <3>1. /\ w.waits = v.waits /\ w.watching = v.watching /\ SameRequests(v, w)
          /\ w.sid_co = [v.sid_co EXCEPT ![n] = NONE] /\ w.error_queue = v.error_queue
      BY <1>2, <2>2 DEF VM, SameRequests
    <3>2. v.watching[n] = NULL
      BY <1>2, <1>3, <2>2 DEF Good, Kinds
    <3>3. Good(w, session[s])
      BY <1>4, <2>2
    <3>4. v.sid_co \in [Session -> Co \cup {NONE, BREAK}]
      BY <1>2 DEF VM
    <3>. HIDE DEF w
    <3>5. Others(v, w, n)
      BY <3>1, <3>4 DEF Others, EntrySame
    <3>. QED BY <1>3, <1>5, <3>1, <3>2, <3>3, <3>4, <3>5 DEF Takes
  <2>. QED BY <2>1, <2>2
<1>8. Set(s, w)
  BY <1>1
<1>. HIDE DEF u, w
<1>9. /\ Frame(s, TRUE, NoMail) /\ RLaw(s, TRUE, NoMail) /\ MLaw(s, NoMail)
      /\ PLaw(s, TRUE, NoMail) /\ TLaw(s, NoMail) /\ vm'[s] = w /\ session'[s] = session[s]
  <2>1. Head(box[s]).type # "REQUEST"
    BY <1>1
  <2>2. session' = [session EXCEPT ![s] = session[s]] /\ unknown' \in BOOLEAN
    BY <1>1, <1>2
  <2>. QED BY <1>1, <1>2, <1>7, <1>8, <2>1, <2>2, QuietEffect
<1>10. SLaw(s, TRUE, NoMail)
  BY <1>1, <1>7, <1>9 DEF SLaw, n
<1>11. ULaw(s, TRUE)
  <2>1. CASE c = NONE
    BY <1>1, <2>1 DEF ULaw, n
  <2>2. CASE c # NONE
    BY <1>1, <1>2, <2>2 DEF ULaw
  <2>. QED BY <2>1, <2>2
<1>. QED
  BY <1>9, <1>10, <1>11, EffectOf DEF Effect

\* A step of its own between two messages.
LEMMA InnerEffect ==
    ASSUME Start, NEW s \in Service, alive[s], NEW w, Good(w, session[s]), Set(s, w),
           SameRequests(vm[s], w),
           \/ Keeps(vm[s], w)
           \/ \E n \in Session : Wakes(vm[s], w, n) \/ Fails(vm[s], w, n),
           UNCHANGED <<alive, box, timers, session, answers, forgotten, unknown>>
    PROVE  HasEffect(s)
<1>1. /\ session[s] \in Session /\ session = [session EXCEPT ![s] = session[s]]
      /\ timers \subseteq Service \X Session /\ unknown \in BOOLEAN
  BY StartFacts
<1>2. /\ Frame(s, FALSE, NoMail) /\ RLaw(s, FALSE, NoMail) /\ MLaw(s, NoMail)
      /\ PLaw(s, FALSE, NoMail) /\ TLaw(s, NoMail) /\ vm'[s] = w /\ session'[s] = session[s]
  BY <1>1, QuietEffect
<1>3. SLaw(s, FALSE, NoMail)
  BY <1>2 DEF SLaw
<1>4. ULaw(s, FALSE)
  BY DEF ULaw
<1>. QED
  BY <1>2, <1>3, <1>4, EffectOf DEF Effect

LEMMA WakeupEffect ==
    ASSUME Start, NEW s \in Service, DispatchWakeup(s)
    PROVE  HasEffect(s)
<1>. DEFINE v == vm[s]
            c == Head(v.wakeup_queue)
            n == v.sleeping[c]
            u == [v EXCEPT !.wakeup_queue = Tail(@)]
            r == Resume([u EXCEPT !.sid_co[n] = BREAK], c)
<1>1. /\ alive[s] /\ v.pc = "suspend" /\ v.wakeup_queue # <<>>
      /\ Set(s, IF n = NONE THEN u ELSE r)
      /\ UNCHANGED <<alive, box, timers, session, answers, forgotten, unknown>>
  BY DEF DispatchWakeup, At
<1>2. Good(v, session[s]) /\ v \in VM /\ session[s] \in Session
  BY StartFacts
<1>3. /\ c \in Co
      /\ n = NONE => /\ Good(u, session[s]) /\ SameTables(v, u) /\ u.co_sid = v.co_sid
                     /\ u.co_addr = v.co_addr /\ u.unresponse = v.unresponse
                     /\ u.error_queue = v.error_queue
      /\ n # NONE => /\ Good(r, session[s]) /\ Resumed(v, r, c) /\ r.error_queue = v.error_queue
                     /\ v.waits[c] # NULL /\ v.waits[c].k \in {"sleep", "wait"}
                     /\ v.waits[c].n = n
                     /\ r.sid_co[n] = IF v.waits[c].k = "sleep" THEN BREAK ELSE NONE
  BY <1>1, <1>2, WakeupGood
<1>4. CASE n = NONE
  <2>1. PICK w : w = u
    OBVIOUS
  <2>2. Set(s, w) /\ Good(w, session[s])
    BY <1>1, <1>3, <1>4, <2>1
  <2>. HIDE DEF u
  <2>3. SameRequests(v, w) /\ Keeps(v, w)
    BY <1>3, <1>4, <2>1, SameEntries DEF SameRequests, Keeps
  <2>. QED BY <1>1, <2>2, <2>3, InnerEffect
<1>5. CASE n # NONE
  <2>1. PICK w : w = r
    OBVIOUS
  <2>2. /\ Set(s, w) /\ Good(w, session[s]) /\ Resumed(v, w, c) /\ w.error_queue = v.error_queue
        /\ w.sid_co[n] = IF v.waits[c].k = "sleep" THEN BREAK ELSE NONE
    BY <1>1, <1>3, <1>5, <2>1
  <2>3. v.sleeping \in [Co -> Session \cup {NONE}]
    BY <1>2 DEF VM
  <2>4. n \in Session
    BY <1>3, <1>5, <2>3
  <2>5. Others(v, w, n) /\ SameRequests(v, w)
    BY <1>2, <1>3, <1>5, <2>2, <2>4, ResumedEntries
  <2>6. v.sid_co[n] = c
    BY <1>2, <1>3, <1>5 DEF Good, Sessions
  <2>7. v.watching[n] = NULL
    BY <1>2, <1>3, <1>5, <2>4, <2>6 DEF Good, Kinds
  <2>8. w.watching[n] = NULL
    BY <1>3, <1>5, <2>2, <2>4 DEF Resumed
  <2>. HIDE DEF n, c
  <2>9. Wakes(v, w, n)
    BY <1>3, <1>5, <2>2, <2>5, <2>6, <2>7, <2>8 DEF Wakes
  <2>. QED BY <1>1, <2>2, <2>4, <2>5, <2>9, InnerEffect
<1>. QED
  BY <1>4, <1>5

LEMMA DispatchErrorEffect ==
    ASSUME Start, NEW s \in Service, DispatchError(s)
    PROVE  HasEffect(s)
<1>. DEFINE v == vm[s]
            n == Head(v.error_queue)
            c == v.sid_co[n]
            u == [v EXCEPT !.error_queue = Tail(@), !.sid_co[n] = NONE]
            r == Resume(u, c)
<1>1. /\ alive[s] /\ v.pc = "suspend" /\ v.error_queue # <<>>
      /\ Set(s, IF c \in Co THEN r ELSE [u EXCEPT !.pc = "fork"])
      /\ UNCHANGED <<alive, box, timers, session, answers, forgotten, unknown>>
  BY DEF DispatchError, At
<1>2. Good(v, session[s]) /\ v \in VM /\ session[s] \in Session
  BY StartFacts
<1>3. /\ n \in Session /\ c \in Co /\ Good(r, session[s]) /\ Resumed(v, r, c)
      /\ v.waits[c] # NULL /\ v.waits[c].n = n /\ v.waits[c].k = "call"
      /\ r.error_queue = Tail(v.error_queue)
  BY <1>1, <1>2, DispatchErrorGood
<1>4. PICK w : w = r
  OBVIOUS
<1>5. Set(s, w) /\ Good(w, session[s]) /\ Resumed(v, w, c) /\ w.error_queue = Tail(v.error_queue)
  BY <1>1, <1>3, <1>4
<1>. HIDE DEF u, r
<1>6. Others(v, w, n) /\ SameRequests(v, w)
  BY <1>2, <1>3, <1>5, ResumedEntries
<1>7. w.watching[n] = NULL
  BY <1>3, <1>5 DEF Resumed
<1>8. Fails(v, w, n)
  BY <1>1, <1>3, <1>5, <1>6, <1>7 DEF Fails
<1>. QED
  BY <1>1, <1>3, <1>5, <1>6, <1>8, InnerEffect

LEMMA SuspendEffect ==
    ASSUME Start, NEW s \in Service, SuspendReturns(s)
    PROVE  HasEffect(s)
<1>. DEFINE v == vm[s]
            w == [v EXCEPT !.pc = "fork"]
<1>1. /\ alive[s] /\ v.pc = "suspend" /\ v.wakeup_queue = <<>> /\ v.error_queue = <<>>
      /\ Set(s, w)
      /\ UNCHANGED <<alive, box, timers, session, answers, forgotten, unknown>>
  BY DEF SuspendReturns, At
<1>2. Good(v, session[s]) /\ v \in VM /\ session[s] \in Session
  BY StartFacts
<1>3. Good(w, session[s])
  BY <1>1, <1>2, EndedGood
<1>4. SameTables(v, w) /\ SameRequests(v, w) /\ w.error_queue = v.error_queue
  BY <1>2 DEF VM, SameTables, SameRequests
<1>. HIDE DEF w
<1>5. Keeps(v, w)
  BY <1>4, SameEntries DEF Keeps
<1>. QED
  BY <1>1, <1>3, <1>4, <1>5, InnerEffect

LEMMA DispatchForkEffect ==
    ASSUME Start, NEW s \in Service, DispatchFork(s)
    PROVE  HasEffect(s)
<1>. DEFINE v == vm[s]
            q == v.fork_queue
            u == [v EXCEPT !.fork_queue = Tail(@)]
            w == IF q = <<>> THEN [v EXCEPT !.pc = "idle"]
                 ELSE IF Head(q) = NOP THEN [u EXCEPT !.pc = "suspend"]
                 ELSE Resume(u, Head(q))
<1>1. /\ alive[s] /\ v.pc = "fork" /\ Set(s, w)
      /\ UNCHANGED <<alive, box, timers, session, answers, forgotten, unknown>>
  BY DEF DispatchFork, At
<1>2. Good(v, session[s]) /\ v \in VM /\ session[s] \in Session
  BY StartFacts
<1>3. /\ q = <<>> => Good([v EXCEPT !.pc = "idle"], session[s])
      /\ q # <<>> /\ Head(q) = NOP => Good([u EXCEPT !.pc = "suspend"], session[s])
      /\ q # <<>> /\ Head(q) # NOP =>
            /\ Head(q) \in Co /\ Good(Resume(u, Head(q)), session[s])
            /\ Resumed(v, Resume(u, Head(q)), Head(q))
            /\ Resume(u, Head(q)).error_queue = v.error_queue /\ v.waits[Head(q)] = Ready
  BY <1>1, <1>2, ForkQueueGood
<1>4. CASE q = <<>> \/ Head(q) = NOP
  <2>1. Good(w, session[s])
    BY <1>3, <1>4
  <2>2. SameTables(v, w) /\ SameRequests(v, w) /\ w.error_queue = v.error_queue
    BY <1>2, <1>4 DEF VM, SameTables, SameRequests
  <2>3. Set(s, w)
    BY <1>1
  <2>. HIDE DEF w
  <2>4. Keeps(v, w)
    BY <2>2, SameEntries DEF Keeps
  <2>. QED BY <1>1, <2>1, <2>2, <2>3, <2>4, InnerEffect
<1>5. CASE ~(q = <<>> \/ Head(q) = NOP)
  <2>1. PICK c : c = Head(q)
    OBVIOUS
  <2>2. PICK x : x = Resume(u, Head(q))
    OBVIOUS
  <2>3. /\ c \in Co /\ Good(x, session[s]) /\ Resumed(v, x, c)
        /\ x.error_queue = v.error_queue /\ v.waits[c] = Ready /\ Set(s, x)
    BY <1>1, <1>3, <1>5, <2>1, <2>2
  <2>. HIDE DEF u, w
  <2>4. v.waits[c] # NULL /\ v.waits[c].n = NONE
    BY <2>3, Places
  <2>5. SameRequests(v, x) /\ \A n \in Session : EntrySame(v, x, n)
    BY <1>2, <2>3, <2>4, ResumedEntries
  <2>6. Keeps(v, x)
    BY <2>3, <2>5 DEF Keeps
  <2>. QED BY <1>1, <2>3, <2>5, <2>6, InnerEffect
<1>. QED
  BY <1>4, <1>5

\* The sessions an error gives up.
Given(v, m) ==
    IF m.session = 0 THEN SetToSeq({n \in Session : v.watching[n] = m.source})
    ELSE IF v.watching[m.session] # NULL THEN <<m.session>> ELSE <<>>

LEMMA GivenFacts ==
    ASSUME NEW v \in VM, NEW m, m.session \in Session \cup {0}, m.source \in Service
    PROVE  LET q == Given(v, m) IN
           /\ q \in Seq(Session) /\ Errors(v, q)
           /\ \A i \in DOMAIN q : /\ v.watching[q[i]] # NULL
                                  /\ m.session = q[i] \/ (m.session = 0 /\ v.watching[q[i]] = m.source)
           /\ \A n \in Session :
                v.watching[n] # NULL /\ (m.session = n \/ (m.session = 0 /\ v.watching[n] = m.source)) =>
                    \E i \in DOMAIN q : q[i] = n
<1>. DEFINE D == {n \in Session : v.watching[n] = m.source}
<1>1. NULL \notin Service /\ 0 \notin Session /\ MaxSession \in Nat
  BY Constants
<1>0. PICK q : q = Given(v, m)
  OBVIOUS
<1>. SUFFICES
        /\ q \in Seq(Session) /\ Errors(v, q)
        /\ \A i \in DOMAIN q : /\ v.watching[q[i]] # NULL
                               /\ m.session = q[i] \/ (m.session = 0 /\ v.watching[q[i]] = m.source)
        /\ \A n \in Session :
             v.watching[n] # NULL /\ (m.session = n \/ (m.session = 0 /\ v.watching[n] = m.source)) =>
                 \E i \in DOMAIN q : q[i] = n
  BY <1>0
<1>2. CASE m.session = 0
  <2>1. q = SetToSeq(D)
    BY <1>0, <1>2 DEF Given
  <2>2. IsFiniteSet(1..MaxSession)
    BY <1>1, FS_Interval
  <2>3. IsFiniteSet(D)
    BY <2>2, FS_Subset DEF Session
  <2>4. PICK z : z = SetToSeq(D)
    OBVIOUS
  <2>5. /\ z \in Seq(D) /\ \A i, j \in DOMAIN z : z[i] = z[j] => i = j
        /\ \A x \in D : \E i \in DOMAIN z : z[i] = x
    <3>. HIDE DEF D
    <3>. QED BY <2>3, <2>4, Listed
  <2>6. z \in Seq(Session) /\ \A i \in DOMAIN z : z[i] \in D
    <3>1. \A i \in 1..Len(z) : z[i] \in D
      BY <2>5, ElementOfSeq
    <3>2. DOMAIN z = 1..Len(z)
      BY <2>5, LenProperties
    <3>3. Len(z) \in Nat /\ D \subseteq Session
      BY <2>5, LenProperties
    <3>4. \A i \in 1..Len(z) : z[i] \in Session
      BY <3>1, <3>3
    <3>5. z = [i \in 1..Len(z) |-> z[i]]
      BY <2>5, <3>2
    <3>6. z \in Seq(Session)
      BY <3>3, <3>4, <3>5
    <3>. QED BY <3>1, <3>2, <3>6
  <2>7. \A i \in DOMAIN z : v.watching[z[i]] = m.source
    BY <2>6
  <2>. QED BY ZenonT(40), <1>1, <1>2, <2>1, <2>4, <2>5, <2>6, <2>7 DEF Errors
<1>3. CASE m.session # 0 /\ v.watching[m.session] # NULL
  <2>1. q = <<m.session>>
    BY <1>0, <1>3 DEF Given
  <2>2. q \in Seq(Session) /\ DOMAIN q = {1} /\ q[1] = m.session
    BY <1>3, <2>1
  <2>. QED BY <1>1, <1>3, <2>2 DEF Errors
<1>4. CASE m.session # 0 /\ v.watching[m.session] = NULL
  <2>1. q = <<>>
    BY <1>0, <1>4 DEF Given
  <2>2. q \in Seq(Session) /\ DOMAIN q = {}
    BY <2>1
  <2>. QED BY <1>4, <2>2 DEF Errors
<1>. QED
  BY <1>2, <1>3, <1>4

LEMMA ErrorEffect ==
    ASSUME Start, NEW s \in Service, ErrorMessage(s)
    PROVE  HasEffect(s)
<1>. DEFINE v == vm[s]
            m == Head(box[s])
            q == Given(v, m)
            r == IF m.session # 0 THEN v.unresponse ELSE {x \in v.unresponse : x.addr # m.source}
            w == [v EXCEPT !.pc = "suspend", !.error_queue = @ \o q, !.unresponse = r]
<1>1. /\ alive[s] /\ v.pc = "idle" /\ box[s] # <<>> /\ m.type = "ERROR"
      /\ Set(s, w) /\ box' = Taken(s)
      /\ UNCHANGED <<alive, timers, session, answers, forgotten, unknown>>
  BY DEF ErrorMessage, Receive, At, msg, Given
<1>2. /\ Good(v, session[s]) /\ v \in VM /\ session[s] \in Session
      /\ timers \subseteq Service \X Session /\ unknown \in BOOLEAN
      /\ session = [session EXCEPT ![s] = session[s]]
      /\ answers \in [Service -> [Session -> Nat]]
  BY StartFacts
<1>3. m.session \in Session \cup {0} /\ m.source \in Service
  BY <1>1, HeadMessage
<1>4. PICK e : e = q
  OBVIOUS
<1>5. /\ e \in Seq(Session) /\ Errors(v, e)
      /\ \A i \in DOMAIN e : /\ v.watching[e[i]] # NULL
                             /\ m.session = e[i] \/ (m.session = 0 /\ v.watching[e[i]] = m.source)
      /\ \A n \in Session :
            v.watching[n] # NULL /\ (m.session = n \/ (m.session = 0 /\ v.watching[n] = m.source)) =>
                \E i \in DOMAIN e : e[i] = n
  <2>. HIDE DEF m
  <2>. QED BY <1>2, <1>3, <1>4, GivenFacts
<1>6. r \in SUBSET Owed /\ r \subseteq v.unresponse
  BY <1>2 DEF VM
<1>7. PICK x : x = [v EXCEPT !.pc = "suspend", !.error_queue = @ \o e, !.unresponse = r]
  OBVIOUS
<1>. HIDE DEF r, q
<1>8. Good(x, session[s]) /\ x.error_queue = e
  <2>1. /\ Good(v, session[s]) /\ v.pc = "idle" /\ session[s] \in Session
        /\ e \in Seq(Session) /\ Errors(v, e) /\ r \in SUBSET Owed
        /\ x = [v EXCEPT !.pc = "suspend", !.error_queue = @ \o e, !.unresponse = r]
    BY <1>1, <1>2, <1>5, <1>6, <1>7
  <2>. HIDE DEF v
  <2>. QED BY ZenonT(40), <2>1, ErrorGood
<1>9. Set(s, x)
  BY <1>1, <1>4, <1>7
<1>10. SameTables(v, x) /\ x.co_sid = v.co_sid /\ x.co_addr = v.co_addr /\ x.unresponse = r
  BY <1>2, <1>7 DEF VM, SameTables
<1>. HIDE DEF w
<1>11. BoxStep(s, TRUE, NoMail)
  <2>1. box' = IF TRUE THEN Taken(s) ELSE box
    BY <1>1
  <2>. QED BY <1>1, <2>1, TakenBox DEF Start
<1>12. Frame(s, TRUE, NoMail) /\ vm'[s] = x /\ session'[s] = session[s]
  BY <1>1, <1>2, <1>8, <1>9, <1>11, FrameFacts
<1>13. v.error_queue = <<>>
  BY <1>1, <1>2 DEF Good, Drained
<1>14. Errs(v, x, m)
  <2>1. \A n \in Session : EntrySame(v, x, n)
    BY <1>10, SameEntries
  <2>. HIDE DEF m, v
  <2>. QED BY <1>5, <1>8, <1>13, <2>1 DEF Errs
<1>15. SLaw(s, TRUE, NoMail)
  BY <1>1, <1>12, <1>14 DEF SLaw
<1>16. NoRequest(NoMail) /\ NoAnswer(NoMail) /\ MLaw(s, NoMail) /\ TLaw(s, NoMail)
  BY <1>1, NoMailLaws
<1>17. Shrinks(vm[s], vm'[s])
  BY <1>6, <1>10, <1>12 DEF Shrinks, InCo
<1>18. RLaw(s, TRUE, NoMail)
  BY <1>1, <1>16, <1>17 DEF RLaw
<1>19. PLaw(s, TRUE, NoMail)
  <2>1. ASSUME NEW y \in Service, NEW n \in Session
        PROVE  m # Req(n, y)
    BY <1>1 DEF Req
  <2>2. \A c \in Co, y \in Service, n \in Session : InCo(vm[s], c, y, n) => InCo(vm'[s], c, y, n)
    BY <1>10, <1>12 DEF InCo
  <2>3. ASSUME NEW y \in Service, NEW n \in Session, Closure(y, n) \in vm[s].unresponse
        PROVE  Closure(y, n) \in vm'[s].unresponse \/ m = Err(0, y)
    <3>1. CASE m.session # 0 \/ m.source # y
      <4>1. Closure(y, n).addr = y
        BY DEF Closure
      <4>2. Closure(y, n) \in r
        BY <2>3, <3>1, <4>1 DEF r
      <4>. QED BY <1>10, <1>12, <4>2
    <3>2. CASE m.session = 0 /\ m.source = y
      <4>1. m \in Message
        BY <1>1, HeadMessage
      <4>2. m = [type |-> m.type, session |-> m.session, source |-> m.source]
        <5>. HIDE DEF m
        <5>. QED BY <4>1 DEF Message
      <4>3. m = [type |-> "ERROR", session |-> 0, source |-> y]
        BY <1>1, <3>2, <4>2
      <4>. QED BY <4>3 DEF Err
    <3>. QED BY <3>1, <3>2
  <2>. QED BY <1>1, <2>1, <2>2, <2>3 DEF PLaw
<1>20. ULaw(s, TRUE)
  BY <1>1 DEF ULaw
<1>. QED
  BY <1>12, <1>15, <1>16, <1>18, <1>19, <1>20, EffectOf DEF Effect

-----------------------------------------------------------------------------
(* The effect of each action: coroutines that leave the requests alone. *)

\* A coroutine that waits has the entry of its session.
LEMMA BlocksEntries ==
    ASSUME NEW v, NEW k \in Session, Good(v, k), NEW w \in VM, v.pc = "run",
           NEW n \in Session, n = k + 1, NEW kind \in {"call", "sleep", "wait"},
           Blocks(v, w, kind, n)
    PROVE  Opens(v, w, kind, n) /\ SameRequests(v, w)
<1>1. v.cur \in Co /\ v.waits[v.cur] = Running
  BY DEF Good, Current
<1>2. /\ v.sid_co \in [Session -> Co \cup {NONE, BREAK}]
      /\ v.waits \in [Co -> Blocked \cup {NULL}]
  BY DEF Good, VM
<1>3. \A m \in Session : /\ v.sid_co[m] \in Co => v.waits[v.sid_co[m]].n = m
                         /\ v.sid_co[m] # NONE => m <= k
                         /\ v.watching[m] # NULL => v.sid_co[m] \in Co
  BY DEF Good, Sessions, Kinds
<1>4. NONE \notin Session /\ NONE \notin Co /\ k \in Nat /\ Running.n = NONE
  BY Constants, Places
<1>5. v.sid_co[n] = NONE /\ v.watching[n] = NULL
  BY <1>3, <1>4
<1>6. \A m \in Session : v.sid_co[m] # v.cur
  BY <1>1, <1>3, <1>4
<1>7. Others(v, w, n)
  <2>1. ASSUME NEW m \in Session, m # n
        PROVE  EntrySame(v, w, m)
    <3>1. w.sid_co[m] = v.sid_co[m] /\ w.watching[m] = v.watching[m]
      BY <2>1 DEF Blocks
    <3>2. v.sid_co[m] \in Co => w.waits[v.sid_co[m]] = v.waits[v.sid_co[m]]
      BY <1>6 DEF Blocks
    <3>. QED BY <3>1, <3>2 DEF EntrySame
  <2>. QED BY <2>1 DEF Others
<1>8. /\ w.sid_co[n] = v.cur /\ w.waits[v.cur] = Place(kind, n)
      /\ w.watching[n] # NULL <=> kind = "call"
      /\ w.error_queue = v.error_queue
  BY DEF Blocks, Place
<1>9. Place(kind, n).k = kind
  BY DEF Place
<1>. QED
  BY <1>1, <1>5, <1>7, <1>8, <1>9 DEF Opens, Blocks, SameRequests

LEMMA NextSession ==
    ASSUME Start, NEW s \in Service, TakeSession(s)
    PROVE  /\ session[s] + 1 \in Session
           /\ session' = [session EXCEPT ![s] = session[s] + 1]
  BY DEF TakeSession, NewSession

LEMMA PauseEffect ==
    ASSUME Start, NEW s \in Service, Sleep(s) \/ WaitToken(s)
    PROVE  HasEffect(s)
<1>. DEFINE v == vm[s]
            n == session[s] + 1
<1>1. PICK kind \in {"sleep", "wait"} :
        /\ alive[s] /\ v.pc = "run" /\ TakeSession(s)
        /\ Set(s, Wait([v EXCEPT !.sleeping[v.cur] = n], kind, n))
        /\ timers' = IF kind = "sleep" THEN timers \cup {<<s, n>>} ELSE timers
        /\ UNCHANGED <<alive, box, answers, forgotten, unknown>>
  <2>1. CASE Sleep(s)
    BY <2>1 DEF Sleep, Op, At, cur, NewSession
  <2>2. CASE WaitToken(s)
    BY <2>2 DEF WaitToken, Op, At, cur, NewSession
  <2>. QED BY <2>1, <2>2
<1>2. /\ Good(v, session[s]) /\ v \in VM /\ session[s] \in Session
      /\ timers \subseteq Service \X Session /\ unknown \in BOOLEAN
  BY StartFacts
<1>3. n \in Session /\ session' = [session EXCEPT ![s] = n]
  BY <1>1, NextSession
<1>4. PICK k : k = n
  OBVIOUS
<1>5. PICK w : w = Wait([v EXCEPT !.sleeping[v.cur] = k], kind, k)
  OBVIOUS
<1>6. Good(w, k) /\ Blocks(v, w, kind, k)
  BY <1>1, <1>2, <1>3, <1>4, <1>5, SleepGood
<1>7. Opens(v, w, kind, k) /\ SameRequests(v, w)
  <2>1. w \in VM /\ kind \in {"call", "sleep", "wait"}
    BY <1>6 DEF Good
  <2>. QED BY <1>1, <1>2, <1>3, <1>4, <1>6, <2>1, BlocksEntries
<1>8. /\ Set(s, w) /\ timers' \subseteq Service \X Session /\ unknown' \in BOOLEAN
      /\ k \in Session /\ session' = [session EXCEPT ![s] = k]
  BY <1>1, <1>2, <1>3, <1>4, <1>5
<1>9. /\ Frame(s, FALSE, NoMail) /\ RLaw(s, FALSE, NoMail) /\ MLaw(s, NoMail)
      /\ PLaw(s, FALSE, NoMail) /\ (UNCHANGED timers => TLaw(s, NoMail))
      /\ vm'[s] = w /\ session'[s] = k
  BY <1>1, <1>6, <1>7, <1>8, QuietEffect
<1>10. session'[s] = session[s] + 1
  BY <1>4, <1>9
<1>11. SLaw(s, FALSE, NoMail)
  BY <1>7, <1>9, <1>10 DEF SLaw
<1>12. TLaw(s, NoMail)
  <2>1. CASE kind = "sleep"
    BY <1>1, <1>4, <1>7, <1>9, <1>10, <2>1 DEF TLaw
  <2>2. CASE kind = "wait"
    BY <1>1, <1>9, <2>2
  <2>. QED BY <2>1, <2>2
<1>13. ULaw(s, FALSE)
  BY <1>1 DEF ULaw
<1>. QED
  BY <1>9, <1>11, <1>12, <1>13, EffectOf DEF Effect

LEMMA TokenEffect ==
    ASSUME Start, NEW s \in Service, Wakeup(s)
    PROVE  HasEffect(s)
<1>1. PICK c \in Co :
        /\ alive[s] /\ vm[s].pc = "run"
        /\ Set(s, [vm[s] EXCEPT !.wakeup_queue = Append(@, c)])
        /\ UNCHANGED <<alive, box, timers, session, answers, forgotten, unknown>>
  BY DEF Wakeup, Op, At
<1>2. Good(vm[s], session[s]) /\ session[s] \in Session
  BY StartFacts
<1>3. PICK w : w = [vm[s] EXCEPT !.wakeup_queue = Append(@, c)]
  OBVIOUS
<1>4. /\ Good(w, session[s]) /\ SameTables(vm[s], w)
      /\ w.co_sid = vm[s].co_sid /\ w.co_addr = vm[s].co_addr
      /\ w.unresponse = vm[s].unresponse /\ w.error_queue = vm[s].error_queue
  BY <1>1, <1>2, <1>3, TokenGood
<1>5. SameRequests(vm[s], w) /\ Keeps(vm[s], w)
  BY <1>4, SameEntries DEF SameRequests, Keeps
<1>6. Set(s, w)
  BY <1>1, <1>3
<1>. QED
  BY <1>1, <1>4, <1>5, <1>6, InnerEffect

LEMMA FreeCo ==
    ASSUME NEW v, Free(v) # {}
    PROVE  co_create(v) \in Co /\ v.waits[co_create(v)] = NULL
<1>1. co_create(v) \in Free(v)
  BY DEF co_create
<1>. QED
  BY <1>1 DEF Free

LEMMA ForkEffect ==
    ASSUME Start, NEW s \in Service, Fork(s)
    PROVE  HasEffect(s)
<1>1. PICK c : c = co_create(vm[s])
  OBVIOUS
<1>2. /\ alive[s] /\ vm[s].pc = "run" /\ Free(vm[s]) # {}
      /\ Set(s, [vm[s] EXCEPT !.fork_queue = Append(@, c), !.waits[c] = Ready])
      /\ UNCHANGED <<alive, box, timers, session, answers, forgotten, unknown>>
  BY <1>1 DEF Fork, Op, At
<1>3. c \in Co /\ vm[s].waits[c] = NULL
  BY <1>1, <1>2, FreeCo
<1>4. Good(vm[s], session[s]) /\ session[s] \in Session
  BY StartFacts
<1>5. PICK w : w = [vm[s] EXCEPT !.fork_queue = Append(@, c), !.waits[c] = Ready]
  OBVIOUS
<1>. DEFINE v == vm[s]
<1>6. /\ Good(w, session[s]) /\ w.sid_co = v.sid_co /\ w.watching = v.watching
      /\ \A d \in Co : d # c => w.waits[d] = v.waits[d]
      /\ w.co_sid = v.co_sid /\ w.co_addr = v.co_addr
      /\ w.unresponse = v.unresponse /\ w.error_queue = v.error_queue
  <2>1. /\ Good(v, session[s]) /\ v.pc = "run" /\ v.waits[c] = NULL
        /\ w = [v EXCEPT !.fork_queue = Append(@, c), !.waits[c] = Ready]
    BY <1>2, <1>3, <1>4, <1>5
  <2>. HIDE DEF v
  <2>. QED BY <1>3, <1>4, <2>1, ForkGood
<1>7. \A n \in Session : vm[s].sid_co[n] \in Co => vm[s].waits[vm[s].sid_co[n]] # NULL
  BY <1>4 DEF Good, Sessions
<1>8. \A n \in Session : EntrySame(vm[s], w, n)
  BY <1>3, <1>6, <1>7 DEF EntrySame
<1>9. SameRequests(vm[s], w) /\ Keeps(vm[s], w)
  BY <1>6, <1>8 DEF SameRequests, Keeps
<1>10. Set(s, w)
  BY <1>2, <1>5
<1>. QED
  BY <1>2, <1>6, <1>9, <1>10, InnerEffect

-----------------------------------------------------------------------------
(* The effect of each action: messages that are sent or dropped. *)

LEMMA FrameSame ==
    ASSUME Start, NEW s \in Service, NEW took \in BOOLEAN, NEW new, BoxStep(s, took, new),
           UNCHANGED <<vm, session, alive, answers, unknown>>,
           timers' \subseteq Service \X Session
    PROVE  Frame(s, took, new) /\ vm'[s] = vm[s] /\ SameRequests(vm[s], vm'[s])
<1>1. /\ vm \in [Service -> VM] /\ session \in [Service -> Session]
      /\ alive \in [Service -> BOOLEAN] /\ answers \in [Service -> [Session -> Nat]]
      /\ unknown \in BOOLEAN
  BY DEF Start, Types
<1>2. Good(vm[s], session[s]) /\ (~alive[s] => vm[s] = EmptyVM)
  BY DEF Start, Matched, Gone
<1>. QED
  BY <1>1, <1>2 DEF Frame, SameRequests

LEMMA KeepsSame ==
    ASSUME NEW v
    PROVE  Keeps(v, v)
  BY DEF Keeps, EntrySame

LEMMA SendEffect ==
    ASSUME Start, NEW s \in Service, Send(s)
    PROVE  HasEffect(s)
<1>1. PICK t \in Service :
        /\ alive[s] /\ box' = Posted(box, t, Req(0, s))
        /\ UNCHANGED <<alive, timers, session, vm, answers, forgotten, unknown>>
  BY DEF Send, Op, At
<1>2. PICK m : m = Req(0, s)
  OBVIOUS
<1>3. /\ m \in Message /\ m.type = "REQUEST" /\ m.session = 0 /\ m.source = s
      /\ s # NULL
  BY <1>2, Constants DEF Req, Message
<1>4. BoxStep(s, FALSE, Mail(t, m))
  <2>1. box' = Posted(IF FALSE THEN Taken(s) ELSE box, t, m)
    BY <1>1, <1>2
  <2>. QED BY <1>3, <2>1, PostedBox DEF Start
<1>5. PICK new : new = Mail(t, m)
  OBVIOUS
<1>6. \A u \in Service : \A i \in DOMAIN new[u] : new[u][i] = m
  BY <1>3, <1>5, MailTypes
<1>7. timers \subseteq Service \X Session
  BY StartFacts
<1>8. Frame(s, FALSE, new) /\ vm'[s] = vm[s] /\ SameRequests(vm[s], vm'[s])
  BY <1>1, <1>4, <1>5, <1>7, FrameSame
<1>9. NoRequest(new) /\ NoAnswer(new)
  BY <1>3, <1>6 DEF NoRequest, NoAnswer, IsAnswer
<1>10. RLaw(s, FALSE, new) /\ PLaw(s, FALSE, new)
  BY <1>1, <1>8, <1>9, QuietLaws
<1>11. MLaw(s, new) /\ TLaw(s, new)
  BY <1>1, <1>3, <1>6 DEF MLaw, TLaw
<1>12. SLaw(s, FALSE, new) /\ ULaw(s, FALSE)
  BY <1>1, <1>8, KeepsSame DEF SLaw, ULaw
<1>. QED
  BY <1>8, <1>10, <1>11, <1>12, EffectOf DEF Effect

LEMMA TimeoutEffect ==
    ASSUME Start, NEW s \in Service, Timeout(s)
    PROVE  HasEffect(s)
<1>1. PICK n \in Session :
        /\ <<s, n>> \in timers /\ timers' = timers \ {<<s, n>>}
        /\ box' = Posted(box, s, Resp(n, NULL))
        /\ UNCHANGED <<alive, session, vm, answers, forgotten, unknown>>
  BY DEF Timeout
<1>2. PICK m : m = Resp(n, NULL)
  OBVIOUS
<1>3. m \in Message /\ m.type = "RESPONSE" /\ m.source = NULL
  BY <1>2 DEF Resp, Message
<1>4. BoxStep(s, FALSE, Mail(s, m))
  <2>1. box' = Posted(IF FALSE THEN Taken(s) ELSE box, s, m)
    BY <1>1, <1>2
  <2>. QED BY <1>3, <2>1, PostedBox DEF Start
<1>5. PICK new : new = Mail(s, m)
  OBVIOUS
<1>6. \A u \in Service : \A i \in DOMAIN new[u] : new[u][i] = m
  BY <1>3, <1>5, MailTypes
<1>7. timers' \subseteq Service \X Session
  BY <1>1, StartFacts
<1>8. Frame(s, FALSE, new) /\ vm'[s] = vm[s] /\ SameRequests(vm[s], vm'[s])
  BY <1>1, <1>4, <1>5, <1>7, FrameSame
<1>9. NoRequest(new) /\ NoAnswer(new)
  BY <1>3, <1>6 DEF NoRequest, NoAnswer, IsAnswer
<1>10. RLaw(s, FALSE, new) /\ PLaw(s, FALSE, new)
  BY <1>1, <1>8, <1>9, QuietLaws
<1>11. MLaw(s, new)
  BY <1>3, <1>6 DEF MLaw
<1>12. TLaw(s, new)
  BY <1>1, <1>2, <1>5 DEF TLaw
<1>13. SLaw(s, FALSE, new) /\ ULaw(s, FALSE)
  BY <1>1, <1>8, KeepsSame DEF SLaw, ULaw
<1>. QED
  BY <1>8, <1>10, <1>11, <1>12, <1>13, EffectOf DEF Effect

LEMMA DropEffect ==
    ASSUME Start, NEW s \in Service, DropMessage(s)
    PROVE  HasEffect(s)
<1>. DEFINE x == Head(box[s]).source
            new == IF x = NULL THEN NoMail ELSE Mail(x, Err(0, s))
<1>1. /\ ~alive[s] /\ box[s] # <<>>
      /\ box' = IF x = NULL THEN Taken(s) ELSE Posted(Taken(s), x, Err(0, s))
      /\ UNCHANGED <<alive, timers, session, vm, answers, forgotten, unknown>>
  BY DEF DropMessage, msg
<1>2. Head(box[s]) \in Message
  BY <1>1, HeadMessage
<1>3. x \in Service \cup {NULL}
  BY <1>2 DEF Message
<1>. HIDE DEF x
<1>4. PICK m : m = Err(0, s)
  OBVIOUS
<1>5. m \in Message /\ m.type = "ERROR" /\ m.session = 0 /\ m.source = s /\ s # NULL
  BY <1>4, Constants DEF Err, Message
<1>6. /\ BoxStep(s, TRUE, new)
      /\ \A u \in Service : \A i \in DOMAIN new[u] : new[u][i] = m
  <2>1. CASE x = NULL
    <3>1. box' = IF TRUE THEN Taken(s) ELSE box
      BY <1>1, <2>1
    <3>2. BoxStep(s, TRUE, NoMail)
      BY <1>1, <3>1, TakenBox DEF Start
    <3>3. \A u \in Service : DOMAIN NoMail[u] = {}
      BY DEF NoMail
    <3>. QED BY <2>1, <3>2, <3>3
  <2>2. CASE x # NULL
    <3>1. box' = Posted(IF TRUE THEN Taken(s) ELSE box, x, m)
      BY <1>1, <1>4, <2>2
    <3>2. BoxStep(s, TRUE, Mail(x, m))
      BY <1>1, <1>3, <1>5, <2>2, <3>1, PostedBox DEF Start
    <3>3. \A u \in Service : \A i \in DOMAIN Mail(x, m)[u] : Mail(x, m)[u][i] = m
      BY <1>5, MailTypes
    <3>. QED BY <1>4, <2>2, <3>2, <3>3
  <2>. QED BY <2>1, <2>2
<1>7. ASSUME NEW y \in Service, NEW n \in Session, Head(box[s]) = Req(n, y)
      PROVE  Told(s, new, y, n)
  <2>1. x = y /\ x # NULL
    BY <1>7, Constants DEF x, Req
  <2>2. alive[y] => 1 \in DOMAIN new[y] /\ new[y][1] = m
    BY <1>4, <1>5, <2>1, MailTypes
  <2>. QED BY <1>4, <2>2 DEF Told
<1>. HIDE DEF new
<1>8. timers \subseteq Service \X Session
  BY StartFacts
<1>9. Frame(s, TRUE, new) /\ vm'[s] = vm[s]
  BY <1>1, <1>6, <1>8, FrameSame
<1>10. RLaw(s, TRUE, new)
  BY <1>1, <1>5, <1>6, <1>9 DEF RLaw, Shrinks, NoRequest, NoAnswer, IsAnswer
<1>11. PLaw(s, TRUE, new)
  BY <1>1, <1>7 DEF PLaw
<1>12. MLaw(s, new) /\ TLaw(s, new)
  BY <1>1, <1>5, <1>6 DEF MLaw, TLaw
<1>13. SLaw(s, TRUE, new) /\ ULaw(s, TRUE)
  BY <1>1, <1>9, KeepsSame DEF SLaw, ULaw
<1>. QED
  BY <1>9, <1>10, <1>11, <1>12, <1>13, EffectOf DEF Effect

LEMMA CallEffect ==
    ASSUME Start, NEW s \in Service, Call(s)
    PROVE  HasEffect(s)
<1>. DEFINE v == vm[s]
<1>1. PICK n : n = session[s] + 1
  OBVIOUS
<1>2. PICK t \in Service :
        /\ alive[s] /\ v.pc = "run" /\ TakeSession(s) /\ alive[t]
        /\ box' = Posted(box, t, Req(n, s))
        /\ Set(s, Wait([v EXCEPT !.watching[n] = t], "call", n))
        /\ UNCHANGED <<alive, timers, answers, forgotten, unknown>>
  BY <1>1 DEF Call, Op, At, NewSession
<1>3. /\ Good(v, session[s]) /\ v \in VM /\ session[s] \in Session
      /\ timers \subseteq Service \X Session /\ unknown \in BOOLEAN
      /\ answers \in [Service -> [Session -> Nat]]
  BY StartFacts
<1>4. n \in Session /\ session' = [session EXCEPT ![s] = n]
  BY <1>1, <1>2, NextSession
<1>5. PICK w : w = Wait([v EXCEPT !.watching[n] = t], "call", n)
  OBVIOUS
<1>6. Good(w, n) /\ Blocks(v, w, "call", n) /\ w.watching[n] = t
  <2>1. v.pc = "run"
    BY <1>2
  <2>2. session[s] \in Session /\ n = session[s] + 1 /\ n \in Session /\ Good(v, session[s])
    BY <1>1, <1>3, <1>4
  <2>. HIDE DEF v
  <2>. DEFINE z == Wait([v EXCEPT !.watching[n] = t], "call", n)
  <2>3. Good(z, n) /\ Blocks(v, z, "call", n) /\ z.watching[n] = t
    BY <2>1, <2>2, CallGood
  <2>. QED BY <1>5, <2>3
<1>7. Opens(v, w, "call", n) /\ SameRequests(v, w)
  <2>1. w \in VM
    BY <1>6 DEF Good
  <2>. QED BY <1>1, <1>2, <1>3, <1>4, <1>6, <2>1, BlocksEntries
<1>8. PICK m : m = Req(n, s)
  OBVIOUS
<1>9. m \in Message /\ m.type = "REQUEST" /\ m.source = s /\ s # NULL
  BY <1>4, <1>8, Constants DEF Req, Message
<1>10. BoxStep(s, FALSE, Mail(t, m))
  <2>1. box' = Posted(IF FALSE THEN Taken(s) ELSE box, t, m)
    BY <1>2, <1>8
  <2>. QED BY <1>9, <2>1, PostedBox DEF Start
<1>11. PICK new : new = Mail(t, m)
  OBVIOUS
<1>12. \A u \in Service : \A i \in DOMAIN new[u] : new[u][i] = m
  BY <1>9, <1>11, MailTypes
<1>13. Frame(s, FALSE, new) /\ vm'[s] = w /\ session'[s] = n
  <2>1. Set(s, w) /\ BoxStep(s, FALSE, new)
    BY <1>2, <1>5, <1>10, <1>11
  <2>. QED BY <1>2, <1>3, <1>4, <1>6, <2>1, FrameFacts
<1>14. PLaw(s, FALSE, new)
  BY <1>2, <1>7, <1>13, SameOwed
<1>15. Shrinks(vm[s], vm'[s])
  BY <1>7, <1>13 DEF Shrinks, InCo, SameRequests
<1>16. RLaw(s, FALSE, new)
  <2>1. new = Mail(t, Req(session'[s], s)) /\ vm'[s].watching[session'[s]] = t
    BY <1>6, <1>8, <1>11, <1>13
  <2>. QED BY <1>1, <1>2, <1>13, <1>15, <2>1 DEF RLaw
<1>17. MLaw(s, new) /\ TLaw(s, new)
  BY <1>2, <1>9, <1>12 DEF MLaw, TLaw
<1>18. SLaw(s, FALSE, new) /\ ULaw(s, FALSE)
  <2>1. new = Mail(t, Req(session'[s], s)) /\ vm'[s].watching[session'[s]] = t
    BY <1>6, <1>8, <1>11, <1>13
  <2>. QED BY <1>1, <1>2, <1>7, <1>13, <2>1 DEF SLaw, ULaw
<1>. QED
  BY <1>13, <1>14, <1>16, <1>17, <1>18, EffectOf DEF Effect

-----------------------------------------------------------------------------
(* The effect of each action: requests. *)

LEMMA IsRequest ==
    ASSUME NEW m \in Message, m.type = "REQUEST"
    PROVE  m = Req(m.session, m.source)
  BY DEF Message, Req

LEMMA RequestEffect ==
    ASSUME Start, NEW s \in Service, RequestMessage(s)
    PROVE  HasEffect(s)
<1>. DEFINE v == vm[s]
            m == Head(box[s])
<1>1. PICK c : c = co_create(v)
  OBVIOUS
<1>2. /\ alive[s] /\ v.pc = "idle" /\ box[s] # <<>> /\ m.type = "REQUEST" /\ Free(v) # {}
      /\ Set(s, [v EXCEPT !.pc = "run", !.cur = c, !.waits[c] = Running,
                          !.co_sid[c] = m.session, !.co_addr[c] = m.source])
      /\ box' = Taken(s)
      /\ UNCHANGED <<alive, timers, session, answers, forgotten, unknown>>
  BY <1>1 DEF RequestMessage, Receive, At, msg
<1>3. /\ Good(v, session[s]) /\ v \in VM /\ session[s] \in Session
      /\ timers \subseteq Service \X Session /\ unknown \in BOOLEAN
      /\ session = [session EXCEPT ![s] = session[s]]
      /\ answers \in [Service -> [Session -> Nat]]
  BY StartFacts
<1>4. m \in Message /\ m.session \in Session \cup {0} /\ m.source \in Service
  BY <1>2, HeadMessage
<1>5. c \in Co /\ v.waits[c] = NULL
  BY <1>1, <1>2, FreeCo
<1>6. PICK n, a : n = m.session /\ a = m.source
  OBVIOUS
<1>7. PICK w : w = [v EXCEPT !.pc = "run", !.cur = c, !.waits[c] = Running,
                             !.co_sid[c] = n, !.co_addr[c] = a]
  OBVIOUS
<1>8. Good(w, session[s])
  <2>1. v.pc = "idle" /\ n \in Session \cup {0} /\ a \in Service
    BY <1>2, <1>4, <1>6
  <2>. HIDE DEF v
  <2>. QED BY <1>3, <1>5, <1>7, <2>1, RequestGood
<1>9. /\ w.sid_co = v.sid_co /\ w.watching = v.watching /\ w.error_queue = v.error_queue
      /\ w.unresponse = v.unresponse /\ w.waits = [v.waits EXCEPT ![c] = Running]
      /\ w.co_sid = [v.co_sid EXCEPT ![c] = n] /\ w.co_addr = [v.co_addr EXCEPT ![c] = a]
  BY <1>3, <1>7 DEF VM
<1>10. v.co_sid \in [Co -> Session \cup {NONE, 0}] /\ v.co_addr \in [Co -> Service \cup {NULL}]
       /\ v.waits \in [Co -> Blocked \cup {NULL}]
  BY <1>3 DEF VM
<1>11. /\ w.co_sid[c] = n /\ w.co_addr[c] = a
       /\ \A d \in Co : d # c => /\ w.co_sid[d] = v.co_sid[d] /\ w.co_addr[d] = v.co_addr[d]
                                 /\ w.waits[d] = v.waits[d]
  BY <1>5, <1>9, <1>10
<1>12. v.co_sid[c] = NONE
  BY <1>3, <1>5 DEF Good, Requests
<1>13. Keeps(v, w)
  <2>1. \A k \in Session : v.sid_co[k] \in Co => v.sid_co[k] # c
    BY <1>3, <1>5 DEF Good, Sessions
  <2>. HIDE DEF v
  <2>. QED BY <1>9, <1>11, <2>1 DEF Keeps, EntrySame
<1>14. BoxStep(s, TRUE, NoMail)
  <2>1. box' = IF TRUE THEN Taken(s) ELSE box
    BY <1>2
  <2>. QED BY <1>2, <2>1, TakenBox DEF Start
<1>15. Frame(s, TRUE, NoMail) /\ vm'[s] = w /\ session'[s] = session[s]
  <2>1. Set(s, w)
    BY <1>2, <1>6, <1>7
  <2>. QED BY <1>2, <1>3, <1>8, <1>14, <2>1, FrameFacts
<1>16. SLaw(s, TRUE, NoMail)
  BY <1>2, <1>13, <1>15 DEF SLaw
<1>17. MLaw(s, NoMail) /\ TLaw(s, NoMail)
  BY <1>2, NoMailLaws
<1>18. RLaw(s, TRUE, NoMail)
  <2>1. /\ vm[s].co_sid[c] = NONE
        /\ InCo(vm'[s], c, m.source, m.session)
        /\ \A d \in Co : d # c => /\ vm'[s].co_sid[d] = vm[s].co_sid[d]
                                  /\ vm'[s].co_addr[d] = vm[s].co_addr[d]
    BY <1>6, <1>11, <1>12, <1>15 DEF InCo
  <2>2. vm'[s].unresponse = vm[s].unresponse
    BY <1>9, <1>15
  <2>. QED BY <1>2, <1>5, <2>1, <2>2 DEF RLaw
<1>19. PLaw(s, TRUE, NoMail)
  <2>1. ASSUME NEW x \in Service, NEW k \in Session, m = Req(k, x)
        PROVE  InCo(vm'[s], c, x, k)
    BY <1>6, <1>11, <1>15, <2>1 DEF InCo, Req
  <2>2. ASSUME NEW x \in Service, NEW k \in Session, NEW d \in Co, InCo(vm[s], d, x, k)
        PROVE  InCo(vm'[s], d, x, k)
    BY <1>11, <1>12, <1>15, <2>2, Constants DEF InCo
  <2>. QED BY <1>2, <1>5, <1>9, <1>15, <2>1, <2>2 DEF PLaw
<1>20. ULaw(s, TRUE)
  BY <1>2 DEF ULaw
<1>. QED
  BY <1>15, <1>16, <1>17, <1>18, <1>19, <1>20, EffectOf DEF Effect

\* Nobody is told.
LEMMA ForgetEffect ==
    ASSUME Start, NEW s \in Service, alive[s], NEW took \in BOOLEAN,
           took => box[s] # <<>> /\ Head(box[s]).type = "REQUEST" /\ Head(box[s]).session = 0,
           took => box' = Taken(s), ~took => box' = box,
           NEW w, Good(w, session[s]), Set(s, w), Keeps(vm[s], w), Shrinks(vm[s], w),
           forgotten \subseteq forgotten', w.unresponse = vm[s].unresponse,
           \A c \in Co, x \in Service, n \in Session :
                InCo(vm[s], c, x, n) => InCo(w, c, x, n) \/ <<x, n>> \in forgotten',
           UNCHANGED <<alive, timers, session, answers, unknown>>
    PROVE  HasEffect(s)
<1>1. /\ session[s] \in Session /\ session = [session EXCEPT ![s] = session[s]]
      /\ timers \subseteq Service \X Session /\ unknown \in BOOLEAN
      /\ answers \in [Service -> [Session -> Nat]]
  BY StartFacts
<1>2. BoxStep(s, took, NoMail)
  <2>1. box' = IF took THEN Taken(s) ELSE box
    OBVIOUS
  <2>. QED BY <2>1, TakenBox DEF Start
<1>3. Frame(s, took, NoMail) /\ vm'[s] = w /\ session'[s] = session[s]
  BY <1>1, <1>2, FrameFacts
<1>4. /\ NoRequest(NoMail) /\ NoAnswer(NoMail) /\ MLaw(s, NoMail) /\ TLaw(s, NoMail)
  BY NoMailLaws
<1>5. RLaw(s, took, NoMail)
  BY <1>3, <1>4 DEF RLaw
<1>6. SLaw(s, took, NoMail)
  BY <1>3 DEF SLaw
<1>7. PLaw(s, took, NoMail)
  <2>1. ASSUME NEW x \in Service, NEW n \in Session
        PROVE  ~(took /\ Head(box[s]) = Req(n, x))
    BY Constants DEF Req
  <2>. QED BY <1>3, <2>1 DEF PLaw
<1>8. ULaw(s, took)
  BY DEF ULaw
<1>. QED
  BY <1>3, <1>4, <1>5, <1>6, <1>7, <1>8, EffectOf DEF Effect

\* The call of session n of x is answered.
LEMMA GivesEffect ==
    ASSUME Start, NEW s \in Service, alive[s], NEW took \in BOOLEAN,
           NEW x \in Service, NEW n \in Session, NEW m \in {Resp(n, s), Err(n, s)},
           took => box[s] # <<>> /\ Head(box[s]) = Req(n, x),
           took => box' = Posted(Taken(s), x, m), ~took => box' = Posted(box, x, m),
           NEW w, Good(w, session[s]), Set(s, w), Keeps(vm[s], w), Shrinks(vm[s], w),
           \A c \in Co, y \in Service, k \in Session :
                InCo(vm[s], c, y, k) => InCo(w, c, y, k) \/ (y = x /\ k = n),
           \A y \in Service, k \in Session :
                Closure(y, k) \in vm[s].unresponse =>
                    Closure(y, k) \in w.unresponse \/ (y = x /\ k = n),
           \/ took
           \/ \E c \in Co : InCo(vm[s], c, x, n) /\ w.co_sid[c] = NONE
           \/ Closure(x, n) \in vm[s].unresponse \ w.unresponse,
           Answered(x, n), UNCHANGED <<alive, timers, session, forgotten, unknown>>
    PROVE  HasEffect(s)
<1>1. /\ session[s] \in Session /\ session = [session EXCEPT ![s] = session[s]]
      /\ timers \subseteq Service \X Session /\ unknown \in BOOLEAN
      /\ answers \in [Service -> [Session -> Nat]]
  BY StartFacts
<1>2. /\ m \in Message /\ m.type # "REQUEST" /\ m.session = n /\ m.source = s /\ s # NULL
      /\ n # 0
  BY Constants DEF Resp, Err, Message
<1>3. BoxStep(s, took, Mail(x, m))
  <2>1. box' = Posted(IF took THEN Taken(s) ELSE box, x, m)
    OBVIOUS
  <2>. QED BY <1>2, <2>1, PostedBox DEF Start
<1>4. answers' = [answers EXCEPT ![x][n] = @ + 1]
  BY DEF Answered
<1>5. answers' \in [Service -> [Session -> Nat]]
  BY <1>1, <1>4
<1>6. PICK new : new = Mail(x, m)
  OBVIOUS
<1>7. /\ \A u \in Service : \A i \in DOMAIN new[u] : i = 1 /\ u = x /\ new[u][i] = m
      /\ alive[x] => 1 \in DOMAIN new[x] /\ new[x][1] = m
  BY <1>2, <1>6, MailTypes
<1>8. Frame(s, took, new) /\ vm'[s] = w /\ session'[s] = session[s]
  BY <1>1, <1>3, <1>5, <1>6, FrameFacts
<1>9. SLaw(s, took, new)
  <2>1. took => Head(box[s]).type = "REQUEST"
    BY DEF Req
  <2>. QED BY <1>8, <2>1 DEF SLaw
<1>10. Gives(s, took, new, x, n)
  <2>1. NoRequest(new)
    BY <1>2, <1>7 DEF NoRequest
  <2>. QED BY <1>2, <1>4, <1>7, <1>8, <2>1 DEF Gives
<1>11. RLaw(s, took, new)
  BY <1>10 DEF RLaw
<1>12. MLaw(s, new) /\ TLaw(s, new)
  BY <1>2, <1>7 DEF MLaw, TLaw
<1>13. Told(s, new, x, n)
  BY <1>7 DEF Told
<1>14. PLaw(s, took, new)
  <2>1. ASSUME NEW y \in Service, NEW k \in Session, took, Head(box[s]) = Req(k, y)
        PROVE  y = x /\ k = n
    BY <2>1 DEF Req
  <2>. QED BY <1>8, <1>13, <2>1 DEF PLaw
<1>15. ULaw(s, took)
  BY DEF ULaw
<1>. QED
  BY <1>8, <1>9, <1>11, <1>12, <1>14, <1>15, EffectOf DEF Effect

LEMMA RefusedEffect ==
    ASSUME Start, NEW s \in Service, RequestRefused(s)
    PROVE  HasEffect(s)
<1>. DEFINE v == vm[s]
            m == Head(box[s])
            w == [v EXCEPT !.pc = "fork"]
<1>1. /\ alive[s] /\ v.pc = "idle" /\ box[s] # <<>> /\ m.type = "REQUEST" /\ Set(s, w)
      /\ IF m.session # 0
         THEN /\ box' = Posted(Taken(s), m.source, Err(m.session, s))
              /\ Answered(m.source, m.session)
         ELSE box' = Taken(s) /\ UNCHANGED answers
      /\ UNCHANGED <<alive, timers, session, forgotten, unknown>>
  BY DEF RequestRefused, Receive, At, msg
<1>2. Good(v, session[s]) /\ v \in VM /\ session[s] \in Session
  BY StartFacts
<1>3. m \in Message /\ m.session \in Session \cup {0} /\ m.source \in Service
  BY <1>1, HeadMessage
<1>4. Good(w, session[s])
  BY <1>1, <1>2, RefusedGood
<1>5. SameTables(v, w) /\ SameRequests(v, w) /\ w.error_queue = v.error_queue
  BY <1>2 DEF VM, SameTables, SameRequests
<1>. HIDE DEF w
<1>6. Keeps(v, w) /\ Shrinks(v, w)
  BY <1>5, SameEntries DEF Keeps, Shrinks, SameRequests, InCo
<1>7. \A c \in Co, x \in Service, n \in Session : InCo(v, c, x, n) => InCo(w, c, x, n)
  BY <1>5 DEF SameRequests, InCo
<1>8. w.unresponse = v.unresponse
  BY <1>5 DEF SameRequests
<1>9. CASE m.session = 0
  <2>1. box' = Taken(s) /\ UNCHANGED answers
    BY <1>1, <1>9
  <2>. QED BY <1>1, <1>2, <1>4, <1>6, <1>7, <1>8, <1>9, <2>1, ForgetEffect
<1>10. CASE m.session # 0
  <2>1. PICK n, x : n = m.session /\ x = m.source
    OBVIOUS
  <2>2. n \in Session /\ x \in Service /\ m = Req(n, x)
    <3>. HIDE DEF m
    <3>. QED BY <1>1, <1>3, <1>10, <2>1, IsRequest
  <2>3. box' = Posted(Taken(s), x, Err(n, s)) /\ Answered(x, n)
    BY <1>1, <1>10, <2>1
  <2>4. PICK e : e = Err(n, s)
    OBVIOUS
  <2>5. e \in {Resp(n, s), Err(n, s)} /\ box' = Posted(Taken(s), x, e)
    BY <2>3, <2>4
  <2>. QED BY <1>1, <1>2, <1>4, <1>6, <1>7, <1>8, <2>2, <2>3, <2>5, GivesEffect
<1>. QED
  BY <1>9, <1>10

\* The coroutine that runs, and the call it works on.
LEMMA CurrentFacts ==
    ASSUME Start, NEW s \in Service, vm[s].pc = "run"
    PROVE  LET v == vm[s] IN
           /\ v.cur \in Co /\ v.waits[v.cur] = Running
           /\ v.co_sid[v.cur] \in Session \cup {NONE, 0}
           /\ v.co_sid[v.cur] # NONE => v.co_addr[v.cur] \in Service
           /\ Owes(v, v.cur) => v.co_sid[v.cur] \in Session /\ v.co_addr[v.cur] \in Service
           /\ ~Owes(v, v.cur) => v.co_sid[v.cur] \notin Session
           /\ \A n \in Session : v.sid_co[n] \in Co => v.sid_co[n] # v.cur
<1>. DEFINE v == vm[s]
<1>1. Good(v, session[s]) /\ v \in VM
  BY StartFacts
<1>2. v.cur \in Co /\ v.waits[v.cur] = Running
  BY <1>1 DEF Good, Current
<1>3. v.co_sid \in [Co -> Session \cup {NONE, 0}]
  BY <1>1 DEF VM
<1>4. v.co_sid[v.cur] # NONE => v.co_addr[v.cur] \in Service
  BY <1>1, <1>2 DEF Good, Requests
<1>5. NONE \notin Session /\ 0 \notin Session /\ Running.n = NONE
  BY Constants, Places
<1>6. \A n \in Session : v.sid_co[n] \in Co => v.waits[v.sid_co[n]].n = n
  BY <1>1 DEF Good, Sessions
<1>. QED
  BY <1>2, <1>3, <1>4, <1>5, <1>6 DEF Owes

\* The coroutine c gives its request up.
Drops(v, w, c) ==
    /\ w.co_sid[c] = NONE
    /\ \A d \in Co : d # c => w.co_sid[d] = v.co_sid[d] /\ w.co_addr[d] = v.co_addr[d]

LEMMA DropsFacts ==
    ASSUME NEW v, NEW w, NEW c \in Co, Drops(v, w, c), w.unresponse \subseteq v.unresponse
    PROVE  /\ Shrinks(v, w)
           /\ \A d \in Co, x \in Service, n \in Session :
                InCo(v, d, x, n) => InCo(w, d, x, n) \/ (v.co_sid[c] = n /\ v.co_addr[c] = x)
<1>1. NONE \notin Session
  BY Constants
<1>2. \A d \in Co, x \in Service, n \in Session : InCo(w, d, x, n) => InCo(v, d, x, n)
  BY <1>1 DEF Drops, InCo
<1>. QED
  BY <1>2 DEF Drops, InCo, Shrinks

\* It has answered, or it was not a call.
LEMMA DropsEffect ==
    ASSUME Start, NEW s \in Service, alive[s], vm[s].pc = "run",
           NEW w, Good(w, session[s]), Set(s, w), Keeps(vm[s], w), Drops(vm[s], w, vm[s].cur),
           w.unresponse = vm[s].unresponse,
           NEW m,
           IF Owes(vm[s], vm[s].cur)
           THEN /\ box' = Posted(box, vm[s].co_addr[vm[s].cur], m)
                /\ Answered(vm[s].co_addr[vm[s].cur], vm[s].co_sid[vm[s].cur])
           ELSE UNCHANGED <<box, answers>>,
           m \in {Resp(vm[s].co_sid[vm[s].cur], s), Err(vm[s].co_sid[vm[s].cur], s)},
           UNCHANGED <<alive, timers, session, forgotten, unknown>>
    PROVE  HasEffect(s)
<1>. DEFINE v == vm[s]
            c == v.cur
<1>1. /\ c \in Co /\ Owes(v, c) => v.co_sid[c] \in Session /\ v.co_addr[c] \in Service
      /\ ~Owes(v, c) => v.co_sid[c] \notin Session
  BY CurrentFacts
<1>2. c \in Co
  BY CurrentFacts
<1>3. /\ Shrinks(v, w)
      /\ \A d \in Co, x \in Service, n \in Session :
            InCo(v, d, x, n) => InCo(w, d, x, n) \/ (v.co_sid[c] = n /\ v.co_addr[c] = x)
  BY <1>2, DropsFacts
<1>4. CASE ~Owes(v, c)
  <2>1. UNCHANGED <<box, answers>>
    BY <1>4
  <2>2. \A d \in Co, x \in Service, n \in Session : InCo(v, d, x, n) => InCo(w, d, x, n)
    BY <1>1, <1>3, <1>4
  <2>. QED BY <1>3, <2>1, <2>2, ForgetEffect
<1>5. CASE Owes(v, c)
  <2>1. PICK x, n : x = v.co_addr[c] /\ n = v.co_sid[c]
    OBVIOUS
  <2>2. /\ x \in Service /\ n \in Session /\ box' = Posted(box, x, m) /\ Answered(x, n)
        /\ m \in {Resp(n, s), Err(n, s)}
    BY <1>1, <1>2, <1>5, <2>1
  <2>3. InCo(v, c, x, n) /\ w.co_sid[c] = NONE
    BY <2>1 DEF InCo, Drops
  <2>4. \A d \in Co, y \in Service, k \in Session :
            InCo(v, d, y, k) => InCo(w, d, y, k) \/ (y = x /\ k = n)
    BY <1>3, <2>1
  <2>. QED BY <1>2, <1>3, <2>2, <2>3, <2>4, GivesEffect
<1>. QED
  BY <1>4, <1>5

LEMMA RetEffect ==
    ASSUME Start, NEW s \in Service, Ret(s)
    PROVE  HasEffect(s)
<1>. DEFINE v == vm[s]
            c == v.cur
            m == Resp(v.co_sid[c], s)
<1>1. /\ alive[s] /\ v.pc = "run" /\ Set(s, [v EXCEPT !.co_sid[c] = NONE])
      /\ UNCHANGED <<alive, timers, session, forgotten, unknown>>
      /\ IF Owes(v, c) THEN box' = Posted(box, v.co_addr[c], m) /\ Answered(v.co_addr[c], v.co_sid[c])
         ELSE UNCHANGED <<box, answers>>
  BY DEF Ret, At, cur
<1>2. Good(v, session[s]) /\ v \in VM /\ session[s] \in Session
  BY StartFacts
<1>3. c \in Co
  BY <1>1, CurrentFacts
<1>4. PICK w : w = [v EXCEPT !.co_sid[c] = NONE]
  OBVIOUS
<1>5. v.co_sid \in [Co -> Session \cup {NONE, 0}]
  BY <1>2 DEF VM
<1>6. PICK f : f = [v.co_sid EXCEPT ![c] = NONE]
  OBVIOUS
<1>7. f \in [Co -> Session \cup {NONE, 0}] /\ w = [v EXCEPT !.co_sid = f]
  BY <1>3, <1>4, <1>5, <1>6
<1>8. /\ w \in VM /\ SameTables(v, w) /\ w.co_sid = f /\ w.co_addr = v.co_addr
      /\ w.pc = v.pc /\ w.cur = v.cur /\ w.fork_queue = v.fork_queue
      /\ w.error_queue = v.error_queue /\ w.unresponse = v.unresponse
  BY <1>2, <1>7 DEF VM, SameTables
<1>9. Set(s, w) /\ v.pc = "run"
  BY <1>1, <1>4
<1>10. w.co_sid[c] = NONE /\ \A d \in Co : d # c => w.co_sid[d] = v.co_sid[d]
  BY <1>3, <1>5, <1>6, <1>8
<1>11. Good(w, session[s])
  BY <1>2, <1>3, <1>8, <1>9, <1>10, AnswerGood
<1>12. Keeps(v, w) /\ Drops(v, w, c) /\ w.unresponse = v.unresponse
  BY <1>8, <1>10, SameEntries DEF Keeps, Drops
<1>. QED
  BY <1>1, <1>9, <1>11, <1>12, DropsEffect

LEMMA ResponseClosureEffect ==
    ASSUME Start, NEW s \in Service, Response(s)
    PROVE  HasEffect(s)
<1>. DEFINE v == vm[s]
<1>1. PICK c, x, n : c = v.cur /\ x = v.co_addr[c] /\ n = v.co_sid[c]
  OBVIOUS
<1>2. PICK r : r = v.unresponse \cup {Closure(x, n)}
  OBVIOUS
<1>3. /\ alive[s] /\ v.pc = "run" /\ Owes(v, v.cur)
      /\ Set(s, [v EXCEPT !.co_sid[c] = NONE, !.unresponse = r])
      /\ UNCHANGED <<alive, box, timers, session, answers, forgotten, unknown>>
  BY <1>1, <1>2 DEF Response, At, cur, Closure
<1>4. /\ Good(v, session[s]) /\ v \in VM /\ session[s] \in Session
      /\ timers \subseteq Service \X Session /\ unknown \in BOOLEAN
      /\ session = [session EXCEPT ![s] = session[s]]
      /\ answers \in [Service -> [Session -> Nat]]
  BY StartFacts
<1>5. c \in Co /\ x \in Service /\ n \in Session
  BY <1>1, <1>3, CurrentFacts
<1>6. r \in SUBSET Owed
  BY <1>2, <1>4, <1>5 DEF VM, Owed, Closure
<1>7. PICK w : w = [v EXCEPT !.co_sid[c] = NONE, !.unresponse = r]
  OBVIOUS
<1>8. /\ Good(w, session[s]) /\ SameTables(v, w) /\ w.co_addr = v.co_addr
      /\ w.co_sid[c] = NONE /\ \A d \in Co : d # c => w.co_sid[d] = v.co_sid[d]
      /\ w.unresponse = r /\ w.error_queue = v.error_queue
  <2>1. v.co_sid \in [Co -> Session \cup {NONE, 0}]
    BY <1>4 DEF VM
  <2>2. PICK f : f = [v.co_sid EXCEPT ![c] = NONE]
    OBVIOUS
  <2>3. f \in [Co -> Session \cup {NONE, 0}] /\ w = [v EXCEPT !.co_sid = f, !.unresponse = r]
    BY <1>4, <1>5, <1>7, <2>1, <2>2 DEF VM
  <2>4. /\ w \in VM /\ SameTables(v, w) /\ w.co_sid = f /\ w.co_addr = v.co_addr
        /\ w.pc = v.pc /\ w.cur = v.cur /\ w.fork_queue = v.fork_queue
        /\ w.error_queue = v.error_queue /\ w.unresponse = r
    BY <1>4, <1>6, <2>3 DEF VM, SameTables
  <2>5. v.pc = "run"
    BY <1>3
  <2>6. w.co_sid[c] = NONE /\ \A d \in Co : d # c => w.co_sid[d] = v.co_sid[d]
    BY <1>5, <2>1, <2>2, <2>4
  <2>7. Good(w, session[s])
    BY <1>4, <1>5, <2>4, <2>5, <2>6, AnswerGood
  <2>. QED BY <2>4, <2>6, <2>7
<1>9. Keeps(v, w)
  BY <1>8, SameEntries DEF Keeps
<1>10. BoxStep(s, FALSE, NoMail)
  <2>1. box' = IF FALSE THEN Taken(s) ELSE box
    BY <1>3
  <2>. QED BY <2>1, TakenBox DEF Start
<1>11. Frame(s, FALSE, NoMail) /\ vm'[s] = w /\ session'[s] = session[s]
  <2>1. Set(s, w)
    BY <1>3, <1>7
  <2>. QED BY <1>3, <1>4, <1>8, <1>10, <2>1, FrameFacts
<1>12. SLaw(s, FALSE, NoMail) /\ ULaw(s, FALSE)
  BY <1>3, <1>9, <1>11 DEF SLaw, ULaw
<1>13. MLaw(s, NoMail) /\ TLaw(s, NoMail)
  BY <1>3, NoMailLaws
<1>14. InCo(vm[s], c, x, n)
  BY <1>1 DEF InCo
<1>15. RLaw(s, FALSE, NoMail)
  <2>1. /\ vm'[s].co_sid[c] = NONE /\ vm'[s].co_addr = vm[s].co_addr
        /\ \A d \in Co : d # c => vm'[s].co_sid[d] = vm[s].co_sid[d]
        /\ vm'[s].unresponse = vm[s].unresponse \cup {Closure(x, n)}
    BY <1>2, <1>8, <1>11
  <2>. QED BY <1>3, <1>5, <1>14, <2>1 DEF RLaw
<1>16. PLaw(s, FALSE, NoMail)
  <2>1. ASSUME NEW d \in Co, NEW y \in Service, NEW k \in Session, InCo(vm[s], d, y, k)
        PROVE  InCo(vm'[s], d, y, k) \/ Closure(y, k) \in vm'[s].unresponse
    BY <1>1, <1>2, <1>8, <1>11, <2>1 DEF InCo
  <2>2. vm[s].unresponse \subseteq vm'[s].unresponse
    BY <1>2, <1>8, <1>11
  <2>. QED BY <1>3, <2>1, <2>2 DEF PLaw
<1>. QED
  BY <1>11, <1>12, <1>13, <1>15, <1>16, EffectOf DEF Effect

LEMMA RespondEffect ==
    ASSUME Start, NEW s \in Service, Respond(s)
    PROVE  HasEffect(s)
<1>. DEFINE v == vm[s]
<1>1. PICK r \in v.unresponse, ok \in BOOLEAN :
        /\ alive[s] /\ v.pc = "run"
        /\ box' = Posted(box, r.addr, IF ok THEN Resp(r.session, s) ELSE Err(r.session, s))
        /\ Answered(r.addr, r.session)
        /\ Set(s, [v EXCEPT !.unresponse = @ \ {r}])
        /\ UNCHANGED <<alive, timers, session, forgotten, unknown>>
  BY DEF Respond, At
<1>2. Good(v, session[s]) /\ v \in VM /\ session[s] \in Session
  BY StartFacts
<1>3. r \in Owed
  BY <1>2 DEF VM
<1>4. PICK x, n : x = r.addr /\ n = r.session
  OBVIOUS
<1>5. x \in Service /\ n \in Session /\ r = Closure(x, n)
  BY <1>3, <1>4 DEF Owed, Closure
<1>6. PICK m : m = IF ok THEN Resp(n, s) ELSE Err(n, s)
  OBVIOUS
<1>7. m \in {Resp(n, s), Err(n, s)} /\ box' = Posted(box, x, m) /\ Answered(x, n)
  BY <1>1, <1>4, <1>6
<1>8. PICK o : o = v.unresponse \ {r}
  OBVIOUS
<1>9. PICK w : w = [v EXCEPT !.unresponse = o]
  OBVIOUS
<1>10. /\ Good(w, session[s]) /\ SameTables(v, w) /\ w.co_addr = v.co_addr
       /\ w.co_sid = v.co_sid /\ w.unresponse = o /\ w.error_queue = v.error_queue
  <2>1. v.pc = "run" /\ o \in SUBSET Owed
    BY <1>1, <1>2, <1>8 DEF VM
  <2>. HIDE DEF v
  <2>. QED BY <1>2, <1>9, <2>1, RespondGood
<1>11. Set(s, w)
  BY <1>1, <1>8, <1>9
<1>12. Keeps(v, w) /\ Shrinks(v, w)
  BY <1>8, <1>10, SameEntries DEF Keeps, Shrinks, InCo
<1>13. \A d \in Co, y \in Service, k \in Session : InCo(v, d, y, k) => InCo(w, d, y, k)
  BY <1>10 DEF InCo
<1>14. \A y \in Service, k \in Session :
            Closure(y, k) \in v.unresponse => Closure(y, k) \in w.unresponse \/ (y = x /\ k = n)
  <2>1. \A y \in Service, k \in Session : Closure(y, k) = r => y = x /\ k = n
    BY <1>4 DEF Closure
  <2>. QED BY <1>8, <1>10, <2>1
<1>15. Closure(x, n) \in v.unresponse \ w.unresponse
  BY <1>5, <1>8, <1>10
<1>. QED
  BY <1>1, <1>5, <1>7, <1>10, <1>11, <1>12, <1>13, <1>14, <1>15, GivesEffect

\* The coroutine has ended.
LEMMA EndsLaws ==
    ASSUME Start, NEW s \in Service, vm[s].pc = "run", NEW w, Ends(vm[s], w)
    PROVE  Keeps(vm[s], w) /\ Drops(vm[s], w, vm[s].cur) /\ w.unresponse = vm[s].unresponse
<1>. DEFINE v == vm[s]
<1>1. \A n \in Session : v.sid_co[n] \in Co => v.sid_co[n] # v.cur
  BY CurrentFacts
<1>. HIDE DEF v
<1>2. Ends(v, w)
  BY DEF v
<1>3. Keeps(v, w)
  BY <1>1, <1>2 DEF Keeps, EntrySame, Ends
<1>4. Drops(v, w, v.cur) /\ w.unresponse = v.unresponse
  BY <1>2 DEF Drops, Ends
<1>. QED
  BY <1>3, <1>4 DEF v

LEMMA FinishEffect ==
    ASSUME Start, NEW s \in Service, Finish(s)
    PROVE  HasEffect(s)
<1>. DEFINE v == vm[s]
            c == v.cur
<1>1. /\ alive[s] /\ v.pc = "run" /\ Set(s, Suspend(Release(v, c)))
      /\ forgotten' = IF Owes(v, c) THEN forgotten \cup {<<v.co_addr[c], v.co_sid[c]>>}
                      ELSE forgotten
      /\ UNCHANGED <<alive, box, timers, session, answers, unknown>>
  BY DEF Finish, At, cur
<1>2. Good(v, session[s]) /\ v \in VM /\ session[s] \in Session
  BY StartFacts
<1>3. PICK w : w = Suspend(Release(v, v.cur))
  OBVIOUS
<1>4. Good(w, session[s]) /\ Ends(v, w)
  BY <1>1, <1>2, <1>3, FinishGood
<1>5. Set(s, w)
  BY <1>1, <1>3
<1>6. Keeps(v, w) /\ Drops(v, w, c) /\ w.unresponse = v.unresponse
  BY <1>1, <1>4, EndsLaws
<1>7. c \in Co /\ (~Owes(v, c) => v.co_sid[c] \notin Session)
  BY <1>1, CurrentFacts
<1>8. /\ Shrinks(v, w)
      /\ \A d \in Co, x \in Service, n \in Session :
            InCo(v, d, x, n) => InCo(w, d, x, n) \/ (v.co_sid[c] = n /\ v.co_addr[c] = x)
  BY <1>6, <1>7, DropsFacts
<1>9. \A d \in Co, x \in Service, n \in Session :
            InCo(v, d, x, n) => InCo(w, d, x, n) \/ <<x, n>> \in forgotten'
  BY <1>1, <1>7, <1>8
<1>10. forgotten \subseteq forgotten'
  BY <1>1
<1>. QED
  BY <1>1, <1>4, <1>5, <1>6, <1>8, <1>9, <1>10, ForgetEffect

LEMMA FailEffect ==
    ASSUME Start, NEW s \in Service, Fail(s)
    PROVE  HasEffect(s)
<1>. DEFINE v == vm[s]
            c == v.cur
            m == Err(v.co_sid[c], s)
<1>1. /\ alive[s] /\ v.pc = "run"
      /\ Set(s, [Release(v, c) EXCEPT !.pc = "fork", !.cur = NONE,
                                      !.fork_queue = Append(@, NOP)])
      /\ UNCHANGED <<alive, timers, session, forgotten, unknown>>
      /\ IF Owes(v, c) THEN box' = Posted(box, v.co_addr[c], m) /\ Answered(v.co_addr[c], v.co_sid[c])
         ELSE UNCHANGED <<box, answers>>
  BY DEF Fail, At, cur
<1>2. Good(v, session[s]) /\ v \in VM /\ session[s] \in Session
  BY StartFacts
<1>3. PICK w : w = [Release(v, v.cur) EXCEPT !.pc = "fork", !.cur = NONE,
                                             !.fork_queue = Append(@, NOP)]
  OBVIOUS
<1>4. Good(w, session[s]) /\ Ends(v, w)
  <2>1. v.pc = "run"
    BY <1>1
  <2>. HIDE DEF v
  <2>. QED BY <1>2, <1>3, <2>1, FailGood
<1>5. Set(s, w)
  BY <1>1, <1>3
<1>6. Keeps(v, w) /\ Drops(v, w, c) /\ w.unresponse = v.unresponse
  BY <1>1, <1>4, EndsLaws
<1>. QED
  BY <1>1, <1>4, <1>5, <1>6, DropsEffect

-----------------------------------------------------------------------------
(* The effect of each action: exit. *)

LEMMA LastErrorsFacts ==
    ASSUME NEW s \in Service, NEW t, NEW owed \in SUBSET Owed
    PROVE  LET e == LastErrors(s, t, owed) IN
           /\ e \in Seq(Message)
           /\ \A i, j \in DOMAIN e : e[i] = e[j] => i = j
           /\ \A i \in DOMAIN e : \E n \in Session : e[i] = Err(n, s) /\ Closure(t, n) \in owed
           /\ \A n \in Session : Closure(t, n) \in owed => \E i \in DOMAIN e : e[i] = Err(n, s)
<1>. DEFINE E == {Err(r.session, s) : r \in {q \in owed : q.addr = t}}
            f == [n \in Session |-> Err(n, s)]
            F == {f[n] : n \in Session}
<1>1. IsFiniteSet(Session)
  <2>1. MaxSession \in Nat
    BY Constants
  <2>. QED BY <2>1, FS_Interval DEF Session
<1>2. f \in Surjection(Session, F)
  BY DEF Surjection
<1>3. IsFiniteSet(F)
  BY <1>1, <1>2, FS_Surjection
<1>4. \A r \in owed : r.session \in Session /\ r = Closure(r.addr, r.session)
  BY DEF Owed, Closure
<1>5. E \subseteq F
  BY <1>4
<1>6. IsFiniteSet(E)
  BY <1>3, <1>5, FS_Subset
<1>7. \A x \in E : x \in Message /\ \E n \in Session : x = Err(n, s) /\ Closure(t, n) \in owed
  <2>1. ASSUME NEW r \in owed, r.addr = t
        PROVE  /\ Err(r.session, s) \in Message /\ r.session \in Session
               /\ Closure(t, r.session) \in owed
    BY <1>4, <2>1 DEF Err, Message
  <2>. QED BY <2>1
<1>8. \A n \in Session : Closure(t, n) \in owed => Err(n, s) \in E
  <2>1. \A n : Closure(t, n).addr = t /\ Closure(t, n).session = n
    BY DEF Closure
  <2>. QED BY <2>1
<1>9. PICK e : e = SetToSeq(E)
  OBVIOUS
<1>10. e = LastErrors(s, t, owed)
  BY <1>9 DEF LastErrors
<1>. HIDE DEF E, F, f
<1>11. /\ e \in Seq(E) /\ \A i, j \in DOMAIN e : e[i] = e[j] => i = j
       /\ \A x \in E : \E i \in DOMAIN e : e[i] = x
  BY <1>6, <1>9, Listed
<1>12. DOMAIN e = 1..Len(e) /\ Len(e) \in Nat /\ \A i \in 1..Len(e) : e[i] \in E
  BY <1>11, LenProperties, ElementOfSeq
<1>13. e = [i \in 1..Len(e) |-> e[i]] /\ \A i \in 1..Len(e) : e[i] \in Message
  BY <1>7, <1>11, <1>12
<1>14. e \in Seq(Message)
  BY <1>12, <1>13
<1>15. \A i \in DOMAIN e : \E n \in Session : e[i] = Err(n, s) /\ Closure(t, n) \in owed
  BY <1>7, <1>12
<1>16. \A n \in Session : Closure(t, n) \in owed => \E i \in DOMAIN e : e[i] = Err(n, s)
  BY <1>8, <1>11
<1>. QED
  BY <1>10, <1>11, <1>14, <1>15, <1>16

LEMMA LastNewsFacts ==
    ASSUME NEW s \in Service, NEW t, NEW calls
    PROVE  LET l == LastNews(s, t, calls) IN
           l \in Seq(Message) /\ \A i \in DOMAIN l : l[i] = Err(0, s)
<1>1. PICK z : z = Err(0, s)
  OBVIOUS
<1>2. z \in Message
  BY <1>1 DEF Err, Message
<1>3. <<z>> \in Seq(Message) /\ DOMAIN <<z>> = {1} /\ <<z>>[1] = z
  BY <1>2
<1>4. <<>> \in Seq(Message) /\ DOMAIN <<>> = {}
  OBVIOUS
<1>. QED
  BY <1>1, <1>3, <1>4 DEF LastNews

\* What s sends to t.
LastMail(s, t, owed, calls) ==
    IF alive[t] THEN LastErrors(s, t, owed) \o LastNews(s, t, calls) ELSE <<>>

LEMMA LastMailFacts ==
    ASSUME NEW s \in Service, NEW t \in Service, NEW owed \in SUBSET Owed, NEW calls
    PROVE  LET q == LastMail(s, t, owed, calls) IN
           /\ q \in Seq(Message)
           /\ \A i \in DOMAIN q :
                \/ q[i] = Err(0, s)
                \/ \E n \in Session : q[i] = Err(n, s) /\ Closure(t, n) \in owed
           /\ \A i, j \in DOMAIN q : q[i] = q[j] /\ q[i] # Err(0, s) => i = j
           /\ \A n \in Session : alive[t] /\ Closure(t, n) \in owed =>
                \E i \in DOMAIN q : q[i] = Err(n, s)
<1>1. PICK e : e = LastErrors(s, t, owed)
  OBVIOUS
<1>2. PICK l : l = LastNews(s, t, calls)
  OBVIOUS
<1>3. PICK q : q = LastMail(s, t, owed, calls)
  OBVIOUS
<1>4. /\ e \in Seq(Message)
      /\ \A i, j \in DOMAIN e : e[i] = e[j] => i = j
      /\ \A i \in DOMAIN e : \E n \in Session : e[i] = Err(n, s) /\ Closure(t, n) \in owed
      /\ \A n \in Session : Closure(t, n) \in owed => \E i \in DOMAIN e : e[i] = Err(n, s)
  BY <1>1, LastErrorsFacts
<1>5. Err(0, s) \in Message /\ \A n \in Session : Err(n, s) # Err(0, s)
  BY Constants DEF Err, Message
<1>6. l \in Seq(Message) /\ \A i \in DOMAIN l : l[i] = Err(0, s)
  BY <1>2, LastNewsFacts
<1>7. CASE ~alive[t]
  <2>1. q = <<>>
    BY <1>3, <1>7 DEF LastMail
  <2>2. q \in Seq(Message) /\ DOMAIN q = {}
    BY <2>1
  <2>. QED BY <1>3, <1>7, <2>2
<1>8. CASE alive[t]
  <2>1. q = e \o l
    BY <1>1, <1>2, <1>3, <1>8 DEF LastMail
  <2>2. q \in Seq(Message) /\ Joined(e, l, q)
    BY <1>4, <1>6, <2>1, ConcatFacts
  <2>3. /\ \A j \in DOMAIN q : \/ j \in DOMAIN e /\ q[j] = e[j]
                               \/ q[j] = Err(0, s)
        /\ \A i \in DOMAIN e : i \in DOMAIN q /\ q[i] = e[i]
    BY <1>6, <2>2 DEF Joined
  <2>4. \A i \in DOMAIN q : \/ q[i] = Err(0, s)
                            \/ \E n \in Session : q[i] = Err(n, s) /\ Closure(t, n) \in owed
    BY <1>4, <2>3
  <2>5. \A i, j \in DOMAIN q : q[i] = q[j] /\ q[i] # Err(0, s) => i = j
    BY <1>4, <2>3
  <2>6. \A n \in Session : Closure(t, n) \in owed => \E i \in DOMAIN q : q[i] = Err(n, s)
    BY <1>4, <2>3
  <2>. QED BY <1>3, <2>2, <2>4, <2>5, <2>6
<1>. QED
  BY <1>7, <1>8

LEMMA ExitEffect ==
    ASSUME Start, NEW s \in Service, Exit(s)
    PROVE  HasEffect(s)
<1>. DEFINE v == vm[s]
            owed == v.unresponse \cup {[addr |-> v.co_addr[c], session |-> v.co_sid[c]] :
                                        c \in {d \in Co : Owes(v, d)}}
            calls == {v.watching[n] : n \in Session} \ {NULL}
            new == [t \in Service |-> LastMail(s, t, owed, calls)]
<1>1. /\ alive[s] /\ v.pc = "run"
      /\ box' = [t \in Service |-> IF ~alive[t] THEN box[t] ELSE
                        box[t] \o LastErrors(s, t, owed) \o LastNews(s, t, calls)]
      /\ answers' = [t \in Service |-> [n \in Session |-> answers[t][n] +
                    IF [addr |-> t, session |-> n] \in owed THEN 1 ELSE 0]]
      /\ alive' = [alive EXCEPT ![s] = FALSE] /\ Set(s, EmptyVM)
      /\ UNCHANGED <<timers, session, forgotten, unknown>>
  BY DEF Exit, At, Debts
<1>2. /\ Good(v, session[s]) /\ v \in VM /\ session[s] \in Session
      /\ timers \subseteq Service \X Session /\ unknown \in BOOLEAN
      /\ answers \in [Service -> [Session -> Nat]] /\ box \in [Service -> Seq(Message)]
      /\ vm \in [Service -> VM] /\ session \in [Service -> Session]
      /\ alive \in [Service -> BOOLEAN]
  BY StartFacts DEF Start, Types
<1>3. ASSUME NEW c \in Co, Owes(v, c)
      PROVE  v.co_addr[c] \in Service /\ v.co_sid[c] \in Session
  <2>1. v.co_sid \in [Co -> Session \cup {NONE, 0}]
    BY <1>2 DEF VM
  <2>. QED BY <1>2, <1>3, <2>1 DEF Owes, Good, Requests
<1>4. owed \in SUBSET Owed
  <2>1. v.unresponse \subseteq Owed
    BY <1>2 DEF VM
  <2>2. \A c \in Co : Owes(v, c) => [addr |-> v.co_addr[c], session |-> v.co_sid[c]] \in Owed
    BY <1>3 DEF Owed
  <2>. QED BY <2>1, <2>2
<1>5. \A x \in Service, n \in Session : Closure(x, n) \in owed <=>
            \/ Closure(x, n) \in v.unresponse
            \/ \E c \in Co : InCo(v, c, x, n)
  <2>1. ASSUME NEW x \in Service, NEW n \in Session, NEW c \in Co, InCo(v, c, x, n)
        PROVE  Closure(x, n) \in owed
    <3>1. Owes(v, c)
      BY <2>1, Constants DEF InCo, Owes
    <3>2. Closure(x, n) = [addr |-> v.co_addr[c], session |-> v.co_sid[c]]
      BY <2>1 DEF InCo, Closure
    <3>. QED BY <3>1, <3>2
  <2>2. ASSUME NEW x \in Service, NEW n \in Session, NEW c \in Co,
               Closure(x, n) = [addr |-> v.co_addr[c], session |-> v.co_sid[c]]
        PROVE  InCo(v, c, x, n)
    BY <2>2 DEF InCo, Closure
  <2>. QED BY <2>1, <2>2
<1>6. \A t \in Service, n \in Session :
            answers'[t][n] = answers[t][n] + IF Closure(t, n) \in owed THEN 1 ELSE 0
  BY <1>1 DEF Closure
<1>7. answers' \in [Service -> [Session -> Nat]]
  BY <1>1, <1>2
<1>. HIDE DEF owed, calls
<1>8. \A t \in Service :
        LET q == new[t] IN
        /\ q \in Seq(Message)
        /\ \A i \in DOMAIN q :
             \/ q[i] = Err(0, s)
             \/ \E n \in Session : q[i] = Err(n, s) /\ Closure(t, n) \in owed
        /\ \A i, j \in DOMAIN q : q[i] = q[j] /\ q[i] # Err(0, s) => i = j
        /\ \A n \in Session : alive[t] /\ Closure(t, n) \in owed =>
             \E i \in DOMAIN q : q[i] = Err(n, s)
  <2>1. ASSUME NEW t \in Service PROVE new[t] = LastMail(s, t, owed, calls)
    OBVIOUS
  <2>. QED BY <1>4, <2>1, LastMailFacts
<1>9. new \in [Service -> Seq(Message)]
  BY <1>8
<1>10. \A t \in Service : box'[t] = box[t] \o new[t]
  <2>1. ASSUME NEW t \in Service PROVE box'[t] = box[t] \o new[t]
    <3>1. box[t] \in Seq(Message)
      BY <1>2
    <3>2. CASE ~alive[t]
      <4>1. box'[t] = box[t] /\ new[t] = <<>>
        BY <1>1, <3>2 DEF LastMail
      <4>. QED BY <3>1, <4>1, ConcatEmptySeq
    <3>3. CASE alive[t]
      <4>1. PICK e, l : e = LastErrors(s, t, owed) /\ l = LastNews(s, t, calls)
        OBVIOUS
      <4>2. e \in Seq(Message)
        BY <1>4, <4>1, LastErrorsFacts
      <4>3. l \in Seq(Message)
        BY <4>1, LastNewsFacts
      <4>4. box'[t] = (box[t] \o e) \o l /\ new[t] = e \o l
        BY <1>1, <3>3, <4>1 DEF LastMail
      <4>5. PICK b : b = box[t]
        OBVIOUS
      <4>6. (b \o e) \o l = b \o (e \o l)
        <5>1. b \in Seq(Message)
          BY <3>1, <4>5
        <5>. QED BY <4>2, <4>3, <5>1
      <4>. QED BY <4>4, <4>5, <4>6
    <3>. QED BY <3>2, <3>3
  <2>. QED BY <2>1
<1>. HIDE DEF new
<1>11. BoxStep(s, FALSE, new)
  <2>1. box' = [t \in Service |-> box'[t]]
    BY <1>1
  <2>2. box' = [t \in Service |-> (IF FALSE /\ t = s THEN Tail(box[t]) ELSE box[t]) \o new[t]]
    BY <1>10, <2>1
  <2>. QED BY <1>9, <2>2, BoxSteps DEF Start
<1>12. Frame(s, FALSE, new) /\ vm'[s] = EmptyVM
  <2>1. Good(EmptyVM, session[s]) /\ EmptyVM \in VM
    BY <1>2, EmptyGood, EmptyFields
  <2>2. /\ vm' \in [Service -> VM] /\ vm'[s] = EmptyVM
        /\ \A t \in Service : t # s => vm'[t] = vm[t]
    BY <1>1, <1>2, <2>1 DEF Set
  <2>3. /\ alive' \in [Service -> BOOLEAN] /\ \A t \in Service : t # s => alive'[t] = alive[t]
        /\ ~alive'[s]
    BY <1>1, <1>2
  <2>. QED BY <1>1, <1>2, <1>7, <1>11, <2>1, <2>2, <2>3 DEF Frame
<1>13. ~alive'[s] /\ session'[s] = session[s]
  BY <1>1, <1>2
<1>14. SLaw(s, FALSE, new) /\ ULaw(s, FALSE)
  BY <1>1, <1>13 DEF SLaw, ULaw
<1>15. s # NULL /\ \A n : /\ Err(n, s).type = "ERROR" /\ Err(n, s).source = s
                          /\ Err(n, s).session = n
  BY Constants DEF Err
<1>16. \A t \in Service : \A i \in DOMAIN new[t] :
            new[t][i].type = "ERROR" /\ new[t][i].source = s
  BY <1>8, <1>15
<1>17. MLaw(s, new) /\ TLaw(s, new)
  BY <1>1, <1>13, <1>15, <1>16 DEF MLaw, TLaw
<1>18. ASSUME NEW x \in Service, NEW n \in Session, Closure(x, n) \in owed
       PROVE  Told(s, new, x, n)
  BY <1>8, <1>18 DEF Told
<1>19. PLaw(s, FALSE, new)
  BY <1>1, <1>5, <1>18 DEF PLaw
<1>20. RLaw(s, FALSE, new)
  <2>1. NoRequest(new)
    BY <1>16 DEF NoRequest
  <2>2. ASSUME NEW x \in Service, NEW i \in DOMAIN new[x], IsAnswer(new[x][i])
        PROVE  \E n \in Session : new[x][i] = Err(n, s) /\ Closure(x, n) \in owed
    BY <1>8, <1>15, <2>2 DEF IsAnswer
  <2>3. ASSUME NEW x \in Service, NEW i \in DOMAIN new[x], NEW j \in DOMAIN new[x],
               IsAnswer(new[x][i])
        PROVE  /\ new[x][i].type = "ERROR" /\ new[x][i].source = s
               /\ answers'[x][new[x][i].session] = answers[x][new[x][i].session] + 1
               /\ IsAnswer(new[x][j]) /\ new[x][i].session = new[x][j].session => i = j
    <3>1. PICK n \in Session : new[x][i] = Err(n, s) /\ Closure(x, n) \in owed
      BY <2>2, <2>3
    <3>2. new[x][i].session = n /\ answers'[x][n] = answers[x][n] + 1
      BY <1>6, <1>15, <3>1
    <3>3. ASSUME IsAnswer(new[x][j]), new[x][i].session = new[x][j].session PROVE i = j
      <4>1. PICK k \in Session : new[x][j] = Err(k, s)
        BY <2>2, <3>3
      <4>2. k = n /\ n # 0
        BY <1>15, <3>1, <3>3, <4>1, Constants
      <4>3. new[x][i] = new[x][j] /\ new[x][i] # Err(0, s)
        BY <1>15, <3>1, <4>1, <4>2
      <4>. QED BY <1>8, <4>3
    <3>. QED BY <1>16, <3>2, <3>3
  <2>4. ASSUME NEW x \in Service, NEW n \in Session
        PROVE  \/ answers'[x][n] = answers[x][n]
               \/ /\ answers'[x][n] = answers[x][n] + 1
                  /\ \/ \E c \in Co : InCo(vm[s], c, x, n)
                     \/ Closure(x, n) \in vm[s].unresponse
    <3>1. answers[x][n] \in Nat
      BY <1>2
    <3>2. answers'[x][n] = answers[x][n] + IF Closure(x, n) \in owed THEN 1 ELSE 0
      BY <1>6
    <3>. QED BY <1>5, <3>1, <3>2
  <2>. QED BY <1>1, <1>13, <2>1, <2>3, <2>4 DEF RLaw
<1>. QED
  BY <1>12, <1>14, <1>17, <1>19, <1>20, EffectOf DEF Effect

LEMMA KillEffect ==
    ASSUME Start, NEW s \in Service, Kill(s)
    PROVE  HasEffect(s)
<1>. DEFINE v == vm[s]
            owed == v.unresponse \cup {[addr |-> v.co_addr[c], session |-> v.co_sid[c]] :
                                        c \in {d \in Co : Owes(v, d)}}
<1>1. /\ alive[s] /\ Set(s, EmptyVM) /\ alive' = [alive EXCEPT ![s] = FALSE]
      /\ forgotten' = forgotten \cup {<<r.addr, r.session>> : r \in owed}
      /\ UNCHANGED <<box, timers, session, answers, unknown>>
  BY DEF Kill, At, Debts
<1>2. /\ session[s] \in Session /\ unknown \in BOOLEAN
      /\ timers \subseteq Service \X Session
      /\ answers \in [Service -> [Session -> Nat]]
      /\ vm \in [Service -> VM] /\ session \in [Service -> Session]
      /\ alive \in [Service -> BOOLEAN]
  BY StartFacts DEF Start, Types
<1>3. BoxStep(s, FALSE, NoMail)
  <2>1. box' = IF FALSE THEN Taken(s) ELSE box
    BY <1>1
  <2>. QED BY <2>1, TakenBox DEF Start
<1>4. /\ Frame(s, FALSE, NoMail) /\ vm'[s] = EmptyVM
      /\ ~alive'[s] /\ session'[s] = session[s]
  <2>1. Good(EmptyVM, session[s]) /\ EmptyVM \in VM
    BY <1>2, EmptyGood, EmptyFields
  <2>2. /\ vm' \in [Service -> VM] /\ vm'[s] = EmptyVM
        /\ \A t \in Service : t # s => vm'[t] = vm[t]
    BY <1>1, <1>2, <2>1 DEF Set
  <2>3. /\ alive' \in [Service -> BOOLEAN] /\ \A t \in Service : t # s => alive'[t] = alive[t]
        /\ ~alive'[s]
    BY <1>1, <1>2
  <2>. QED BY <1>1, <1>2, <1>3, <2>1, <2>2, <2>3 DEF Frame
<1>5. SLaw(s, FALSE, NoMail) /\ ULaw(s, FALSE)
  BY <1>1, <1>4 DEF SLaw, ULaw
<1>6. \A t \in Service : DOMAIN NoMail[t] = {}
  BY DEF NoMail
<1>7. MLaw(s, NoMail) /\ TLaw(s, NoMail)
  BY <1>1, <1>6 DEF MLaw, TLaw
<1>8. RLaw(s, FALSE, NoMail)
  <2>1. NoRequest(NoMail) /\ NoAnswer(NoMail)
    BY <1>6 DEF NoRequest, NoAnswer
  <2>2. Shrinks(vm[s], vm'[s])
    BY <1>4, EmptyFields, Constants DEF Shrinks, InCo
  <2>. QED BY <1>1, <2>1, <2>2 DEF RLaw
<1>9. ASSUME NEW x \in Service, NEW n \in Session,
             \/ Closure(x, n) \in v.unresponse
             \/ \E c \in Co : InCo(v, c, x, n)
      PROVE  <<x, n>> \in forgotten'
  <2>1. Closure(x, n) \in owed
    <3>1. ASSUME NEW c \in Co, InCo(v, c, x, n) PROVE Closure(x, n) \in owed
      <4>1. Owes(v, c)
        BY <3>1, Constants DEF InCo, Owes
      <4>2. Closure(x, n) = [addr |-> v.co_addr[c], session |-> v.co_sid[c]]
        BY <3>1 DEF InCo, Closure
      <4>. QED BY <4>1, <4>2
    <3>. QED BY <1>9, <3>1
  <2>2. Closure(x, n).addr = x /\ Closure(x, n).session = n
    BY DEF Closure
  <2>. QED BY <1>1, <2>1, <2>2
<1>. HIDE DEF owed
<1>10. PLaw(s, FALSE, NoMail)
  BY <1>1, <1>9 DEF PLaw
<1>. QED
  BY <1>4, <1>5, <1>7, <1>8, <1>10, EffectOf DEF Effect

LEMMA NextEffect ==
    ASSUME Start, Next
    PROVE  \E s \in Service : HasEffect(s)
<1>1. PICK s \in Service :
            Coroutine(s) \/ Dispatch(s) \/ Timeout(s) \/ DropMessage(s) \/ Kill(s)
  BY DEF Next
<1>2. CASE Coroutine(s)
  BY <1>2, CallEffect, SendEffect, PauseEffect, TokenEffect, ForkEffect, RetEffect,
     ResponseClosureEffect, RespondEffect, FinishEffect, FailEffect, ExitEffect DEF Coroutine
<1>3. CASE Dispatch(s)
  BY <1>3, ResponseEffect, RequestEffect, RefusedEffect, ErrorEffect, WakeupEffect,
     DispatchErrorEffect, SuspendEffect, DispatchForkEffect DEF Dispatch
<1>. QED
  BY <1>1, <1>2, <1>3, TimeoutEffect, DropEffect, KillEffect

-----------------------------------------------------------------------------
(* Every step keeps the tables good, and messages move from one box to the next. *)

LEMMA KeepsStart ==
    ASSUME Start, NEW a \in Service, NEW took \in BOOLEAN, NEW new, Frame(a, took, new)
    PROVE  Start'
<1>1. Types'
  BY DEF Frame, BoxStep, Types
<1>2. Matched'
  <2>1. ASSUME NEW t \in Service PROVE Good(vm'[t], session'[t])
    BY DEF Start, Matched, Frame
  <2>. QED BY <2>1 DEF Matched
<1>3. Gone'
  BY DEF Start, Gone, Frame
<1>. QED
  BY <1>1, <1>2, <1>3 DEF Start

LEMMA BoxMoves ==
    ASSUME Start, NEW a \in Service, NEW took \in BOOLEAN, NEW new, BoxStep(a, took, new)
    PROVE  /\ \A t \in Service : \A j \in DOMAIN box'[t] :
                \/ \E i \in DOMAIN box[t] : box'[t][j] = box[t][i]
                \/ \E i \in DOMAIN new[t] : box'[t][j] = new[t][i]
           /\ \A t \in Service : \A i \in DOMAIN box[t] :
                \/ \E j \in DOMAIN box'[t] : box'[t][j] = box[t][i]
                \/ took /\ t = a /\ i = 1 /\ box[t][i] = Head(box[a])
           /\ \A t \in Service : \A i \in DOMAIN new[t] :
                \E j \in DOMAIN box'[t] : box'[t][j] = new[t][i]
           /\ took => 1 \in DOMAIN box[a] /\ box[a][1] = Head(box[a])
<1>1. \A t \in Service : box[t] \in Seq(Message)
  BY DEF Start, Types
<1>2. took => 1 \in DOMAIN box[a] /\ box[a][1] = Head(box[a])
  BY <1>1, Head1 DEF BoxStep
<1>3. \A t \in Service : Off(a, took, t) = 0 \/ (took /\ t = a)
  BY DEF Off
<1>. QED
  BY <1>2, <1>3 DEF BoxStep

LEMMA InBox ==
    ASSUME NEW q, NEW m
    PROVE  m \in ToSet(q) <=> \E i \in DOMAIN q : q[i] = m
  BY DEF ToSet

-----------------------------------------------------------------------------
(* Only a service that is down says so. *)

LEMMA DownStep ==
    ASSUME Start, DownIsDown, NEW a \in Service, NEW took \in BOOLEAN, NEW new,
           Frame(a, took, new), MLaw(a, new)
    PROVE  DownIsDown'
<1>1. SUFFICES ASSUME NEW t \in Service, NEW j \in DOMAIN box'[t],
                      box'[t][j].type = "ERROR", box'[t][j].session = 0
               PROVE  ~alive'[box'[t][j].source]
  BY InBox DEF DownIsDown
<1>2. BoxStep(a, took, new) /\ box \in [Service -> Seq(Message)]
  BY DEF Frame, Start, Types
<1>3. CASE \E i \in DOMAIN box[t] : box'[t][j] = box[t][i]
  <2>1. PICK i \in DOMAIN box[t] : box'[t][j] = box[t][i]
    BY <1>3
  <2>2. PICK m : m = box[t][i]
    OBVIOUS
  <2>3. m \in Message
    BY <1>2, <2>2, ElementOfSeq, LenProperties
  <2>4. m.source \in Service
    BY <1>1, <2>1, <2>2, <2>3 DEF Message
  <2>5. ~alive[m.source]
    BY <1>1, <2>1, <2>2, InBox DEF DownIsDown
  <2>6. alive'[m.source] => alive[m.source]
    BY <2>4 DEF Frame
  <2>. QED BY <2>1, <2>2, <2>5, <2>6
<1>4. CASE \E i \in DOMAIN new[t] : box'[t][j] = new[t][i]
  <2>1. PICK i \in DOMAIN new[t] : box'[t][j] = new[t][i]
    BY <1>4
  <2>2. PICK m : m = new[t][i]
    OBVIOUS
  <2>3. m.source \in {a, NULL} /\ ~alive'[a]
    BY <1>1, <2>1, <2>2 DEF MLaw
  <2>4. m \in Message
    BY <1>2, <2>2, ElementOfSeq, LenProperties DEF BoxStep
  <2>5. m.source = a
    BY <1>1, <2>1, <2>2, <2>3, <2>4, Constants DEF Message
  <2>. QED BY <2>1, <2>2, <2>3, <2>5
<1>. QED
  BY <1>2, <1>3, <1>4, BoxMoves

-----------------------------------------------------------------------------
(* A call that is waited for is not lost. *)

\* Where the call of session n of s, which t was asked, can be.
Pending(f, al, b, v, s, n, t) ==
    \/ <<s, n>> \in f
    \/ \E i \in DOMAIN b[t] : b[t][i] = Req(n, s)
    \/ \E c \in Co : al[t] /\ InCo(v[t], c, s, n)
    \/ al[t] /\ Closure(s, n) \in v[t].unresponse
    \/ \E i \in DOMAIN b[s] : b[s][i] \in {Resp(n, t), Err(n, t), Err(0, t)}
    \/ \E i \in DOMAIN v[s].error_queue : v[s].error_queue[i] = n

LEMMA IsPending ==
    ASSUME CallPending, NEW s \in Service, NEW n \in Session, alive[s],
           NEW t, vm[s].watching[n] = t, t # NULL
    PROVE  Pending(forgotten, alive, box, vm, s, n, t)
<1>1. \/ <<s, n>> \in forgotten
      \/ \E m \in ToSet(box[t]) : m = Req(n, s)
      \/ \E c \in Co : alive[t] /\ vm[t].co_sid[c] = n /\ vm[t].co_addr[c] = s
      \/ alive[t] /\ [addr |-> s, session |-> n] \in vm[t].unresponse
      \/ \E m \in ToSet(box[s]) : m \in {Resp(n, t), Err(n, t), Err(0, t)}
      \/ n \in ToSet(vm[s].error_queue)
  BY DEF CallPending
<1>. QED
  BY <1>1, InBox DEF Pending, InCo, Closure

LEMMA StaysPending ==
    ASSUME \A s \in Service, n \in Session :
                alive'[s] /\ vm'[s].watching[n] # NULL =>
                    Pending(forgotten', alive', box', vm', s, n, vm'[s].watching[n])
    PROVE  CallPending'
<1>. SUFFICES ASSUME NEW s \in Service, NEW n \in Session, alive'[s],
                     vm'[s].watching[n] # NULL, NEW t, t = vm'[s].watching[n]
              PROVE  \/ <<s, n>> \in forgotten'
                     \/ \E m \in ToSet(box'[t]) : m = Req(n, s)
                     \/ \E c \in Co : alive'[t] /\ vm'[t].co_sid[c] = n /\ vm'[t].co_addr[c] = s
                     \/ alive'[t] /\ [addr |-> s, session |-> n] \in vm'[t].unresponse
                     \/ \E m \in ToSet(box'[s]) : m \in {Resp(n, t), Err(n, t), Err(0, t)}
                     \/ n \in ToSet(vm'[s].error_queue)
  BY DEF CallPending
<1>1. Pending(forgotten', alive', box', vm', s, n, t)
  OBVIOUS
<1>. QED
  BY <1>1, InBox DEF Pending, InCo, Closure

\* What a step does to an entry of watching.
LEMMA WatchingStep ==
    ASSUME Start, NEW a \in Service, NEW took \in BOOLEAN, NEW new, Frame(a, took, new),
           SLaw(a, took, new), NEW s \in Service, NEW n \in Session, alive'[s],
           vm'[s].watching[n] # NULL
    PROVE  LET t == vm'[s].watching[n] IN
           /\ alive[s]
           /\ \/ vm[s].watching[n] = t
              \/ s = a /\ n = session'[s] /\ t \in Service /\ alive[t] /\ new = Mail(t, Req(n, s))
<1>1. alive[s] /\ (s # a => vm'[s] = vm[s])
  BY DEF Frame
<1>2. ASSUME s = a
      PROVE  \/ vm[s].watching[n] = vm'[s].watching[n]
             \/ /\ n = session'[s] /\ vm'[s].watching[n] \in Service
                /\ alive[vm'[s].watching[n]]
                /\ new = Mail(vm'[s].watching[n], Req(n, s))
  BY <1>2 DEF SLaw, Keeps, Takes, Wakes, Fails, Opens, Errs, Others, EntrySame
<1>. QED
  BY <1>1, <1>2

LEMMA TailFacts ==
    ASSUME NEW q \in Seq(Session), q # <<>>, NEW i \in DOMAIN q, q[i] # Head(q)
    PROVE  \E j \in DOMAIN Tail(q) : Tail(q)[j] = q[i]
  BY Head1

LEMMA PendingStep ==
    ASSUME Start, DownIsDown, CallPending, NEW a \in Service, NEW took \in BOOLEAN, NEW new,
           Effect(a, took, new)
    PROVE  CallPending'
<1>0. /\ Frame(a, took, new) /\ SLaw(a, took, new) /\ PLaw(a, took, new) /\ BoxStep(a, took, new)
  BY DEF Effect, Frame
<1>. SUFFICES ASSUME NEW s \in Service, NEW n \in Session, alive'[s],
                      vm'[s].watching[n] # NULL
               PROVE  Pending(forgotten', alive', box', vm', s, n, vm'[s].watching[n])
  BY StaysPending
<1>. DEFINE t == vm'[s].watching[n]
<1>1. /\ alive[s]
      /\ \/ vm[s].watching[n] = t
         \/ s = a /\ n = session'[s] /\ t \in Service /\ alive[t] /\ new = Mail(t, Req(n, s))
  BY <1>0, WatchingStep
<1>2. t \in Service
  <2>1. vm'[s] \in VM
    BY <1>0 DEF Frame
  <2>. QED BY <2>1 DEF VM
<1>3. PICK u : u = t
  OBVIOUS
<1>. HIDE DEF t
<1>4. SUFFICES \/ <<s, n>> \in forgotten'
               \/ \E i \in DOMAIN box'[u] : box'[u][i] = Req(n, s)
               \/ \E c \in Co : alive'[u] /\ InCo(vm'[u], c, s, n)
               \/ alive'[u] /\ Closure(s, n) \in vm'[u].unresponse
               \/ \E i \in DOMAIN box'[s] : box'[s][i] \in {Resp(n, u), Err(n, u), Err(0, u)}
               \/ \E i \in DOMAIN vm'[s].error_queue : vm'[s].error_queue[i] = n
  BY <1>3 DEF t, Pending
<1>5. /\ \A x \in Service : \A i \in DOMAIN box[x] :
            \/ \E j \in DOMAIN box'[x] : box'[x][j] = box[x][i]
            \/ took /\ x = a /\ i = 1 /\ box[x][i] = Head(box[a])
      /\ \A x \in Service : \A i \in DOMAIN new[x] :
            \E j \in DOMAIN box'[x] : box'[x][j] = new[x][i]
      /\ took => 1 \in DOMAIN box[a] /\ box[a][1] = Head(box[a])
  BY <1>0, BoxMoves
<1>6. Told(a, new, s, n) /\ u = a =>
        \E i \in DOMAIN box'[s] : box'[s][i] \in {Resp(n, u), Err(n, u), Err(0, u)}
  BY <1>1, <1>5 DEF Told
<1>7. CASE vm[s].watching[n] # u
  <2>1. u \in Service /\ alive[u] /\ new = Mail(u, Req(n, s))
    BY <1>1, <1>3, <1>7
  <2>2. Req(n, s) \in Message
    BY DEF Req, Message
  <2>3. 1 \in DOMAIN new[u] /\ new[u][1] = Req(n, s)
    <3>1. PICK m : m = Req(n, s)
      OBVIOUS
    <3>. QED BY <2>1, <2>2, <3>1, MailTypes
  <2>. QED BY <1>5, <2>1, <2>3
<1>8. CASE vm[s].watching[n] = u
  <2>1. Pending(forgotten, alive, box, vm, s, n, u)
    <3>1. u # NULL
      BY <1>2, <1>3, Constants
    <3>. QED BY <1>1, <1>8, <3>1, IsPending
  <2>2. CASE <<s, n>> \in forgotten
    BY <1>0, <2>2 DEF PLaw
  <2>3. CASE \E i \in DOMAIN box[u] : box[u][i] = Req(n, s)
    <3>1. PICK i \in DOMAIN box[u] : box[u][i] = Req(n, s)
      BY <2>3
    <3>2. CASE took /\ u = a /\ Head(box[a]) = Req(n, s)
      BY <1>0, <1>6, <3>2 DEF PLaw
    <3>. QED BY <1>2, <1>3, <1>5, <3>1, <3>2
  <2>4. CASE \E c \in Co : alive[u] /\ InCo(vm[u], c, s, n)
    <3>1. CASE u = a
      BY <1>0, <1>6, <2>4, <3>1 DEF PLaw
    <3>2. CASE u # a
      BY <1>0, <1>2, <1>3, <2>4, <3>2 DEF Frame
    <3>. QED BY <3>1, <3>2
  <2>5. CASE alive[u] /\ Closure(s, n) \in vm[u].unresponse
    <3>1. CASE u = a
      <4>1. ~(took /\ Head(box[a]) = Err(0, s))
        BY <1>1, <1>5, InBox DEF DownIsDown, Err
      <4>. QED BY <1>0, <1>6, <2>5, <3>1, <4>1 DEF PLaw
    <3>2. CASE u # a
      BY <1>0, <1>2, <1>3, <2>5, <3>2 DEF Frame
    <3>. QED BY <3>1, <3>2
  <2>6. CASE \E i \in DOMAIN box[s] : box[s][i] \in {Resp(n, u), Err(n, u), Err(0, u)}
    <3>1. PICK i \in DOMAIN box[s] : box[s][i] \in {Resp(n, u), Err(n, u), Err(0, u)}
      BY <2>6
    <3>2. CASE took /\ s = a /\ box[s][i] = Head(box[a])
      <4>1. PICK m : m = Head(box[a])
        OBVIOUS
      <4>2. /\ m \in {Resp(n, u), Err(n, u), Err(0, u)} /\ m.source = u
            /\ m.type # "REQUEST" /\ (m.type = "RESPONSE" => m.session = n)
            /\ m.type = "ERROR" => m.session = n \/ m.session = 0
        BY <3>1, <3>2, <4>1 DEF Resp, Err
      <4>3. u # NULL
        BY <1>2, <1>3, Constants
      <4>4. m.type = "RESPONSE" => ~Takes(vm[s], vm'[s], m.session)
        BY <1>3, <4>2, <4>3 DEF Takes, t
      <4>5. Errs(vm[s], vm'[s], m)
        BY <1>0, <1>1, <3>2, <4>1, <4>2, <4>4 DEF SLaw
      <4>6. vm[s].watching[n] # NULL /\ (m.session = n \/ (m.session = 0 /\ vm[s].watching[n] = m.source))
        <5>1. m.type = "ERROR"
          BY <1>0, <1>1, <3>2, <4>1, <4>2, <4>4 DEF SLaw
        <5>. QED BY <1>8, <4>2, <4>3, <5>1
      <4>7. \E k \in DOMAIN vm'[s].error_queue : vm'[s].error_queue[k] = n
        BY <4>5, <4>6 DEF Errs
      <4>. QED BY <4>7
    <3>. QED BY <1>5, <3>1, <3>2
  <2>7. CASE \E i \in DOMAIN vm[s].error_queue : vm[s].error_queue[i] = n
    <3>1. PICK i \in DOMAIN vm[s].error_queue : vm[s].error_queue[i] = n
      BY <2>7
    <3>2. CASE s # a
      BY <1>0, <2>7, <3>2 DEF Frame
    <3>3. CASE s = a
      <4>1. vm[s].error_queue # <<>> /\ vm[s].error_queue \in Seq(Session)
        <5>1. vm[s] \in VM
          BY StartFacts
        <5>2. vm[s].error_queue \in Seq(Session)
          BY <5>1 DEF VM
        <5>. QED BY <3>1, <5>2
      <4>2. \/ vm'[s].error_queue = vm[s].error_queue
            \/ \E k \in Session : Fails(vm[s], vm'[s], k)
        BY <1>0, <3>3, <4>1 DEF SLaw, Keeps, Takes, Wakes, Opens, Errs
      <4>3. ASSUME NEW k \in Session, Fails(vm[s], vm'[s], k)
            PROVE  \E j \in DOMAIN vm'[s].error_queue : vm'[s].error_queue[j] = n
        <5>1. n # Head(vm[s].error_queue)
          BY <1>2, <1>3, <4>3, Constants DEF Fails, t
        <5>. QED BY <3>1, <4>1, <4>3, <5>1, TailFacts DEF Fails
      <4>. QED BY <2>7, <4>2, <4>3
    <3>. QED BY <3>2, <3>3
  <2>. QED BY <2>1, <2>2, <2>3, <2>4, <2>5, <2>6, <2>7 DEF Pending
<1>. QED
  BY <1>7, <1>8

-----------------------------------------------------------------------------
(* A call is answered at most once: who has it. *)

\* The request of session n of x is in the box of t, a coroutine of t works on it,
\* or a closure of t has it.
InMail(b, t, i, x, n) == i \in DOMAIN b[t] /\ b[t][i] = Req(n, x)
InClosure(v, t, x, n) == Closure(x, n) \in v[t].unresponse
Holds(b, v, t, x, n) ==
    \/ \E i \in DOMAIN b[t] : InMail(b, t, i, x, n)
    \/ \E c \in Co : InCo(v[t], c, x, n)
    \/ InClosure(v, t, x, n)

\* It is in one place.
OneAt(b, v, x, n) ==
    \A t, u \in Service :
        /\ \A i \in DOMAIN b[t], j \in DOMAIN b[u] :
                InMail(b, t, i, x, n) /\ InMail(b, u, j, x, n) => t = u /\ i = j
        /\ \A c, d \in Co : InCo(v[t], c, x, n) /\ InCo(v[u], d, x, n) => t = u /\ c = d
        /\ InClosure(v, t, x, n) /\ InClosure(v, u, x, n) => t = u
        /\ \A i \in DOMAIN b[t], c \in Co : ~(InMail(b, t, i, x, n) /\ InCo(v[u], c, x, n))
        /\ \A i \in DOMAIN b[t] : ~(InMail(b, t, i, x, n) /\ InClosure(v, u, x, n))
        /\ \A c \in Co : ~(InCo(v[t], c, x, n) /\ InClosure(v, u, x, n))

OneHolder == \A x \in Service, n \in Session : OneAt(box, vm, x, n)

\* It has not been answered, and the caller waits for it, unless one of them is down.
HolderOpen ==
    \A t, x \in Service, n \in Session : Holds(box, vm, t, x, n) =>
        /\ answers[x][n] = 0
        /\ n <= session[x]
        /\ alive[x] /\ alive[t] => vm[x].watching[n] = t

\* An answer is the only one.
Answers ==
    /\ \A x \in Service, n \in Session : answers[x][n] <= 1
    /\ \A x \in Service, n \in Session : answers[x][n] # 0 => n <= session[x]
    /\ \A x \in Service : \A i \in DOMAIN box[x] : IsAnswer(box[x][i]) =>
        /\ answers[x][box[x][i].session] = 1
        /\ \A j \in DOMAIN box[x] :
                IsAnswer(box[x][j]) /\ box[x][j].session = box[x][i].session => i = j
        /\ alive[x] /\ box[x][i].type = "RESPONSE" =>
                vm[x].watching[box[x][i].session] = box[x][i].source

\* The places of the call of session n of x after the step are those before it.
Shift(a, took, x, n) ==
    \A t \in Service :
        /\ \A j \in DOMAIN box'[t] : InMail(box', t, j, x, n) =>
                j + Off(a, took, t) \in DOMAIN box[t] /\ InMail(box, t, j + Off(a, took, t), x, n)
        /\ \A c \in Co : InCo(vm'[t], c, x, n) => InCo(vm[t], c, x, n)
        /\ InClosure(vm', t, x, n) => InClosure(vm, t, x, n)

LEMMA Positions ==
    ASSUME Start, NEW a \in Service, NEW took \in BOOLEAN, NEW new, BoxStep(a, took, new),
           NEW t \in Service
    PROVE  /\ DOMAIN box'[t] \subseteq Nat \ {0} /\ DOMAIN box[t] \subseteq Nat \ {0}
           /\ Off(a, took, t) \in {0, 1}
           /\ Kept(a, took, t) \in Int
<1>1. box[t] \in Seq(Message) /\ box'[t] \in Seq(Message)
  BY DEF Start, Types, BoxStep
<1>2. /\ DOMAIN box[t] = 1..Len(box[t]) /\ DOMAIN box'[t] = 1..Len(box'[t])
      /\ Len(box[t]) \in Nat /\ Len(box'[t]) \in Nat
  BY <1>1, LenProperties
<1>. QED
  BY <1>2 DEF Off, Kept

LEMMA ShiftOne ==
    ASSUME Start, NEW a \in Service, NEW took \in BOOLEAN, NEW new, BoxStep(a, took, new),
           NEW x \in Service, NEW n \in Session, OneAt(box, vm, x, n), Shift(a, took, x, n)
    PROVE  OneAt(box', vm', x, n)
<1>. SUFFICES ASSUME NEW t \in Service, NEW u \in Service
              PROVE
        /\ \A i \in DOMAIN box'[t], j \in DOMAIN box'[u] :
                InMail(box', t, i, x, n) /\ InMail(box', u, j, x, n) => t = u /\ i = j
        /\ \A c, d \in Co : InCo(vm'[t], c, x, n) /\ InCo(vm'[u], d, x, n) => t = u /\ c = d
        /\ InClosure(vm', t, x, n) /\ InClosure(vm', u, x, n) => t = u
        /\ \A i \in DOMAIN box'[t], c \in Co : ~(InMail(box', t, i, x, n) /\ InCo(vm'[u], c, x, n))
        /\ \A i \in DOMAIN box'[t] : ~(InMail(box', t, i, x, n) /\ InClosure(vm', u, x, n))
        /\ \A c \in Co : ~(InCo(vm'[t], c, x, n) /\ InClosure(vm', u, x, n))
  BY DEF OneAt
<1>1. ASSUME NEW i \in DOMAIN box'[t], NEW j \in DOMAIN box'[u],
             InMail(box', t, i, x, n), InMail(box', u, j, x, n)
      PROVE  t = u /\ i = j
  <2>1. t = u /\ i + Off(a, took, t) = j + Off(a, took, u)
    BY <1>1 DEF Shift, OneAt
  <2>. QED BY <2>1, Positions
<1>. QED
  BY <1>1 DEF Shift, OneAt

LEMMA ShrinkShift ==
    ASSUME Start, NEW a \in Service, NEW took \in BOOLEAN, NEW new, Frame(a, took, new),
           Shrinks(vm[a], vm'[a]), NEW x \in Service, NEW n \in Session,
           \A t \in Service : \A i \in DOMAIN new[t] : new[t][i] # Req(n, x)
    PROVE  Shift(a, took, x, n)
<1>. SUFFICES ASSUME NEW t \in Service
              PROVE
        /\ \A j \in DOMAIN box'[t] : InMail(box', t, j, x, n) =>
                j + Off(a, took, t) \in DOMAIN box[t] /\ InMail(box, t, j + Off(a, took, t), x, n)
        /\ \A c \in Co : InCo(vm'[t], c, x, n) => InCo(vm[t], c, x, n)
        /\ InClosure(vm', t, x, n) => InClosure(vm, t, x, n)
  BY DEF Shift
<1>1. \A j \in DOMAIN box'[t] : InMail(box', t, j, x, n) =>
        j + Off(a, took, t) \in DOMAIN box[t] /\ InMail(box, t, j + Off(a, took, t), x, n)
  BY SMTT(30) DEF Frame, BoxStep, InMail
<1>2. t # a => vm'[t] = vm[t]
  BY DEF Frame
<1>. QED
  BY <1>1, <1>2 DEF Shrinks, InClosure

LEMMA NotRequest ==
    ASSUME NEW new, NoRequest(new), NEW x, NEW n \in Session
    PROVE  \A t \in Service : \A i \in DOMAIN new[t] : new[t][i] # Req(n, x)
  BY Constants DEF NoRequest, Req

\* The first message of the box is gone after it has been taken.
LEMMA FirstGone ==
    ASSUME Start, NEW a \in Service, NEW took \in BOOLEAN, took, NEW new,
           BoxStep(a, took, new), NEW j \in DOMAIN box'[a]
    PROVE  j + Off(a, took, a) # 1
<1>1. j \in Nat /\ j # 0
  BY Positions
<1>2. Off(a, took, a) = 1
  BY DEF Off
<1>3. j + 1 # 1
  BY <1>1
<1>. QED
  BY <1>2, <1>3

\* How a step moves the call of session n of x: the places stay, or it is new, or a
\* takes it up, or a leaves it to a closure.
LEMMA HolderMoves ==
    ASSUME Start, OneHolder, HolderOpen, NEW a \in Service, NEW took \in BOOLEAN, NEW new,
           Frame(a, took, new), RLaw(a, took, new), NEW x \in Service, NEW n \in Session
    PROVE  /\ OneAt(box', vm', x, n)
           /\ \/ \A t \in Service : Holds(box', vm', t, x, n) => Holds(box, vm, t, x, n)
              \/ /\ x = a /\ n = session'[a] /\ n = session[a] + 1 /\ alive'[a] /\ UNCHANGED answers
                 /\ \A t \in Service : Holds(box', vm', t, x, n) => vm'[a].watching[n] = t
<1>0. BoxStep(a, took, new) /\ OneAt(box, vm, x, n)
  BY DEF Frame, OneHolder
<1>1. ASSUME Shift(a, took, x, n)
      PROVE  \A t \in Service : Holds(box', vm', t, x, n) => Holds(box, vm, t, x, n)
  BY <1>1 DEF Shift, Holds
<1>2. CASE Shift(a, took, x, n)
  BY <1>0, <1>1, <1>2, ShiftOne
<1>3. ASSUME Shrinks(vm[a], vm'[a]), NoRequest(new)
      PROVE  Shift(a, took, x, n)
  BY <1>3, NotRequest, ShrinkShift
<1>4. ASSUME ~took, session'[a] = session[a] + 1, alive[a], alive'[a],
             NEW t \in Service, alive[t], new = Mail(t, Req(session'[a], a)),
             vm'[a].watching[session'[a]] = t,
             Shrinks(vm[a], vm'[a]), UNCHANGED answers, ~Shift(a, took, x, n)
      PROVE  /\ OneAt(box', vm', x, n)
             /\ x = a /\ n = session'[a]
             /\ \A u \in Service : Holds(box', vm', u, x, n) => vm'[a].watching[n] = u
  <2>1. PICK m : m = Req(session'[a], a)
    OBVIOUS
  <2>2. session'[a] \in Session /\ session[a] \in Session /\ session[a] \in Nat
    BY StartFacts, Constants DEF Frame
  <2>3. m \in Message
    BY <2>1, <2>2 DEF Req, Message
  <2>4. \A u \in Service : \A i \in DOMAIN new[u] : i = 1 /\ u = t /\ new[u][i] = m
    BY <1>4, <2>1, <2>3, MailTypes
  <2>5. x = a /\ n = session'[a]
    <3>1. m = Req(n, x) => x = a /\ n = session'[a]
      BY <2>1 DEF Req
    <3>. QED BY <1>4, <2>4, <3>1, ShrinkShift
  <2>6. \A u \in Service : ~Holds(box, vm, u, x, n)
    BY <1>4, <2>2, <2>5 DEF HolderOpen
  <2>7. \A u \in Service : /\ \A c \in Co : ~InCo(vm'[u], c, x, n)
                           /\ ~InClosure(vm', u, x, n)
    BY <1>4, <2>6 DEF Shrinks, Frame, Holds, InClosure
  <2>8. \A u \in Service : \A j \in DOMAIN box'[u] :
            InMail(box', u, j, x, n) => u = t /\ j = 1 + Kept(a, took, t)
    <3>1. ASSUME NEW u \in Service, NEW j \in DOMAIN box'[u], InMail(box', u, j, x, n)
          PROVE  u = t /\ j = 1 + Kept(a, took, t)
      <4>1. ~\E i \in DOMAIN box[u] : box[u][i] = Req(n, x)
        BY <2>6 DEF Holds, InMail
      <4>2. j - Kept(a, took, u) \in DOMAIN new[u]
        <5>1. \/ /\ j + Off(a, took, u) \in DOMAIN box[u]
                 /\ box'[u][j] = box[u][j + Off(a, took, u)]
              \/ j - Kept(a, took, u) \in DOMAIN new[u]
          BY <1>0 DEF BoxStep
        <5>2. box'[u][j] = Req(n, x)
          BY <3>1 DEF InMail
        <5>. QED BY <4>1, <5>1, <5>2
      <4>3. j \in Int /\ Kept(a, took, u) \in Int
        BY <1>0, Positions
      <4>. QED BY <2>4, <4>2, <4>3
    <3>. QED BY <3>1
  <2>9. OneAt(box', vm', x, n)
    BY <2>7, <2>8 DEF OneAt
  <2>. QED BY <1>4, <2>5, <2>7, <2>8, <2>9 DEF Holds
<1>5. ASSUME took, Head(box[a]).type = "REQUEST", new = NoMail,
             vm'[a].unresponse = vm[a].unresponse,
             NEW c \in Co, vm[a].co_sid[c] = NONE,
             InCo(vm'[a], c, Head(box[a]).source, Head(box[a]).session),
             \A d \in Co : d # c => /\ vm'[a].co_sid[d] = vm[a].co_sid[d]
                                    /\ vm'[a].co_addr[d] = vm[a].co_addr[d],
             ~Shift(a, took, x, n)
      PROVE  /\ OneAt(box', vm', x, n)
             /\ \A t \in Service : Holds(box', vm', t, x, n) => Holds(box, vm, t, x, n)
  <2>1. \A u \in Service : DOMAIN new[u] = {}
    BY <1>5 DEF NoMail
  <2>2. \A u \in Service : \A j \in DOMAIN box'[u] : InMail(box', u, j, x, n) =>
            j + Off(a, took, u) \in DOMAIN box[u] /\ InMail(box, u, j + Off(a, took, u), x, n)
    BY <1>0, <2>1 DEF BoxStep, InMail
  <2>3. \A u \in Service : u # a => vm'[u] = vm[u]
    BY DEF Frame
  <2>4. \A u \in Service : InClosure(vm', u, x, n) => InClosure(vm, u, x, n)
    BY <1>5, <2>3 DEF InClosure
  <2>5. \A u \in Service, d \in Co : InCo(vm'[u], d, x, n) =>
            InCo(vm[u], d, x, n) \/ (u = a /\ d = c)
    BY <1>5, <2>3 DEF InCo
  <2>6. InCo(vm'[a], c, x, n)
    <3>1. \E u \in Service, d \in Co : InCo(vm'[u], d, x, n) /\ ~InCo(vm[u], d, x, n)
      BY <1>5, <2>2, <2>4 DEF Shift
    <3>. QED BY <2>5, <3>1
  <2>7. 1 \in DOMAIN box[a] /\ box[a][1] = Head(box[a]) /\ Head(box[a]) \in Message
    <3>1. box[a] # <<>>
      BY <1>0, <1>5 DEF BoxStep
    <3>. QED BY <1>0, <1>5, <3>1, BoxMoves, HeadMessage
  <2>8. InMail(box, a, 1, x, n)
    <3>1. Head(box[a]).source = x /\ Head(box[a]).session = n
      BY <1>5, <2>6 DEF InCo
    <3>2. Head(box[a]) = Req(n, x)
      <4>1. PICK m : m = Head(box[a])
        OBVIOUS
      <4>. QED BY <1>5, <2>7, <3>1, <4>1, IsRequest
    <3>. QED BY <2>7, <3>2 DEF InMail
  <2>9. /\ \A u \in Service : \A j \in DOMAIN box[u] : InMail(box, u, j, x, n) => u = a /\ j = 1
        /\ \A u \in Service : ~InClosure(vm, u, x, n)
        /\ \A u \in Service, d \in Co : ~InCo(vm[u], d, x, n)
    BY <1>0, <2>7, <2>8 DEF OneAt
  <2>10. \A u \in Service : \A j \in DOMAIN box'[u] : ~InMail(box', u, j, x, n)
    <3>1. ASSUME NEW j \in DOMAIN box'[a], InMail(box', a, j, x, n) PROVE FALSE
      <4>1. j + Off(a, took, a) = 1
        BY <2>2, <2>9, <3>1
      <4>. QED BY <1>0, <1>5, <4>1, FirstGone
    <3>. QED BY <2>2, <2>9, <3>1
  <2>11. \A u \in Service, d \in Co : InCo(vm'[u], d, x, n) => u = a /\ d = c
    BY <2>5, <2>9
  <2>12. \A u \in Service : ~InClosure(vm', u, x, n)
    BY <2>4, <2>9
  <2>13. OneAt(box', vm', x, n)
    BY <2>10, <2>11, <2>12 DEF OneAt
  <2>14. Holds(box, vm, a, x, n)
    BY <2>7, <2>8 DEF Holds
  <2>. QED BY <2>10, <2>11, <2>12, <2>13, <2>14 DEF Holds
<1>6. ASSUME ~took, new = NoMail, vm'[a].co_addr = vm[a].co_addr,
             NEW c \in Co, NEW y \in Service, NEW k \in Session,
             InCo(vm[a], c, y, k), vm'[a].co_sid[c] = NONE,
             \A d \in Co : d # c => vm'[a].co_sid[d] = vm[a].co_sid[d],
             vm'[a].unresponse = vm[a].unresponse \cup {Closure(y, k)}
      PROVE  /\ OneAt(box', vm', x, n)
             /\ \A t \in Service : Holds(box', vm', t, x, n) => Holds(box, vm, t, x, n)
  <2>1. \A u \in Service : DOMAIN new[u] = {}
    BY <1>6 DEF NoMail
  <2>2. \A u \in Service : \A j \in DOMAIN box'[u] : InMail(box', u, j, x, n) =>
            j + Off(a, took, u) \in DOMAIN box[u] /\ InMail(box, u, j + Off(a, took, u), x, n)
    BY <1>0, <2>1 DEF BoxStep, InMail
  <2>3. \A u \in Service : u # a => vm'[u] = vm[u]
    BY DEF Frame
  <2>4. \A u \in Service, d \in Co : InCo(vm'[u], d, x, n) =>
            InCo(vm[u], d, x, n) /\ ~(u = a /\ d = c)
    BY <1>6, <2>3, Constants DEF InCo
  <2>5. CASE x = y /\ n = k
    <3>1. /\ \A u \in Service : \A j \in DOMAIN box[u] : ~InMail(box, u, j, x, n)
          /\ \A u \in Service : ~InClosure(vm, u, x, n)
          /\ \A u \in Service, d \in Co : InCo(vm[u], d, x, n) => u = a /\ d = c
      BY <1>0, <1>6, <2>5 DEF OneAt
    <3>2. /\ \A u \in Service : \A j \in DOMAIN box'[u] : ~InMail(box', u, j, x, n)
          /\ \A u \in Service, d \in Co : ~InCo(vm'[u], d, x, n)
      BY <2>2, <2>4, <3>1
    <3>3. \A u \in Service : InClosure(vm', u, x, n) => u = a
      BY <2>3, <3>1 DEF InClosure
    <3>4. OneAt(box', vm', x, n)
      BY <3>2, <3>3 DEF OneAt
    <3>5. Holds(box, vm, a, x, n)
      BY <1>6, <2>5 DEF Holds
    <3>. QED BY <3>2, <3>3, <3>4, <3>5 DEF Holds
  <2>6. CASE ~(x = y /\ n = k)
    <3>1. Closure(x, n) # Closure(y, k)
      BY <2>6 DEF Closure
    <3>2. \A u \in Service : InClosure(vm', u, x, n) => InClosure(vm, u, x, n)
      BY <1>6, <2>3, <3>1 DEF InClosure
    <3>3. Shift(a, took, x, n)
      BY <2>2, <2>4, <3>2 DEF Shift
    <3>. QED BY <1>0, <1>1, <3>3, ShiftOne
  <2>. QED BY <2>5, <2>6
<1>7. CASE ~Shift(a, took, x, n)
  <2>1. CASE Shrinks(vm[a], vm'[a]) /\ NoRequest(new)
    BY <1>3, <1>7, <2>1
  <2>2. CASE \E y \in Service, k \in Session : Gives(a, took, new, y, k)
    BY <1>3, <1>7, <2>2 DEF Gives
  <2>3. CASE /\ ~took /\ session'[a] = session[a] + 1 /\ alive[a] /\ alive'[a]
             /\ \E t \in Service :
                  /\ alive[t] /\ new = Mail(t, Req(session'[a], a))
                  /\ vm'[a].watching[session'[a]] = t
             /\ Shrinks(vm[a], vm'[a]) /\ UNCHANGED answers
    BY <1>4, <1>7, <2>3
  <2>4. CASE /\ took /\ alive[a] /\ alive'[a] /\ Head(box[a]).type = "REQUEST"
             /\ new = NoMail /\ UNCHANGED answers
             /\ vm'[a].unresponse = vm[a].unresponse
             /\ \E c \in Co :
                  /\ vm[a].co_sid[c] = NONE
                  /\ InCo(vm'[a], c, Head(box[a]).source, Head(box[a]).session)
                  /\ \A d \in Co : d # c => /\ vm'[a].co_sid[d] = vm[a].co_sid[d]
                                            /\ vm'[a].co_addr[d] = vm[a].co_addr[d]
    BY <1>5, <1>7, <2>4
  <2>5. CASE /\ ~took /\ new = NoMail /\ UNCHANGED answers /\ alive[a] /\ alive'[a]
             /\ vm'[a].co_addr = vm[a].co_addr
             /\ \E c \in Co, y \in Service, k \in Session :
                  /\ InCo(vm[a], c, y, k) /\ vm'[a].co_sid[c] = NONE
                  /\ \A d \in Co : d # c => vm'[a].co_sid[d] = vm[a].co_sid[d]
                  /\ vm'[a].unresponse = vm[a].unresponse \cup {Closure(y, k)}
    BY <1>6, <2>5
  <2>6. CASE alive[a] /\ ~alive'[a] /\ NoRequest(new)
    <3>1. vm'[a] = EmptyVM
      BY <2>6 DEF Frame
    <3>2. Shrinks(vm[a], vm'[a])
      BY <3>1, EmptyFields, Constants DEF Shrinks, InCo
    <3>. QED BY <1>3, <1>7, <2>6, <3>2
  <2>. QED BY <2>1, <2>2, <2>3, <2>4, <2>5, <2>6 DEF RLaw
<1>. QED
  BY <1>2, <1>7

\* Who answers a call had it, and nobody has it any more.
LEMMA AnswerTakes ==
    ASSUME Start, OneHolder, NEW a \in Service, NEW took \in BOOLEAN, NEW new,
           Frame(a, took, new), RLaw(a, took, new), NEW x \in Service, NEW n \in Session,
           answers'[x][n] # answers[x][n]
    PROVE  /\ Holds(box, vm, a, x, n) /\ alive[a] /\ answers'[x][n] = answers[x][n] + 1
           /\ \A t \in Service : ~Holds(box', vm', t, x, n)
<1>0. /\ BoxStep(a, took, new) /\ OneAt(box, vm, x, n)
      /\ answers \in [Service -> [Session -> Nat]]
      /\ \A u \in Service : u # a => vm'[u] = vm[u]
  BY DEF Frame, OneHolder, Start, Types
<1>1. CASE \E y \in Service, k \in Session : Gives(a, took, new, y, k)
  <2>1. PICK y \in Service, k \in Session : Gives(a, took, new, y, k)
    BY <1>1
  <2>2. answers' = [answers EXCEPT ![y][k] = @ + 1]
    BY <2>1 DEF Gives
  <2>3. x = y /\ n = k /\ answers'[x][n] = answers[x][n] + 1
    BY <1>0, <2>2
  <2>4. Shift(a, took, x, n) /\ alive[a]
    <3>1. Shrinks(vm[a], vm'[a]) /\ NoRequest(new) /\ alive[a]
      BY <2>1 DEF Gives
    <3>. QED BY <3>1, NotRequest, ShrinkShift
  <2>5. /\ \A u \in Service : \A j \in DOMAIN box'[u] : InMail(box', u, j, x, n) =>
                j + Off(a, took, u) \in DOMAIN box[u] /\ InMail(box, u, j + Off(a, took, u), x, n)
        /\ \A u \in Service, c \in Co : InCo(vm'[u], c, x, n) => InCo(vm[u], c, x, n)
        /\ \A u \in Service : InClosure(vm', u, x, n) => InClosure(vm, u, x, n)
    BY <2>4 DEF Shift
  <2>6. CASE took /\ Head(box[a]) = Req(n, x)
    <3>1. 1 \in DOMAIN box[a] /\ InMail(box, a, 1, x, n)
      BY <1>0, <2>6, BoxMoves DEF InMail
    <3>2. /\ \A u \in Service : \A j \in DOMAIN box[u] : InMail(box, u, j, x, n) => u = a /\ j = 1
          /\ \A u \in Service : ~InClosure(vm, u, x, n)
          /\ \A u \in Service, d \in Co : ~InCo(vm[u], d, x, n)
      BY <1>0, <3>1 DEF OneAt
    <3>3. \A u \in Service : \A j \in DOMAIN box'[u] : ~InMail(box', u, j, x, n)
      <4>1. ASSUME NEW j \in DOMAIN box'[a], InMail(box', a, j, x, n) PROVE FALSE
        <5>1. j + Off(a, took, a) = 1
          BY <2>5, <3>2, <4>1
        <5>. QED BY <1>0, <2>6, <5>1, FirstGone
      <4>. QED BY <2>5, <3>2, <4>1
    <3>. QED BY <2>3, <2>4, <2>5, <3>1, <3>2, <3>3 DEF Holds
  <2>7. CASE \E c \in Co : InCo(vm[a], c, x, n) /\ vm'[a].co_sid[c] = NONE
    <3>1. PICK c \in Co : InCo(vm[a], c, x, n) /\ vm'[a].co_sid[c] = NONE
      BY <2>7
    <3>2. /\ \A u \in Service : \A j \in DOMAIN box[u] : ~InMail(box, u, j, x, n)
          /\ \A u \in Service : ~InClosure(vm, u, x, n)
          /\ \A u \in Service, d \in Co : InCo(vm[u], d, x, n) => u = a /\ d = c
      BY <1>0, <3>1 DEF OneAt
    <3>3. ~InCo(vm'[a], c, x, n)
      BY <3>1, Constants DEF InCo
    <3>. QED BY <2>3, <2>4, <2>5, <3>1, <3>2, <3>3 DEF Holds
  <2>8. CASE Closure(x, n) \in vm[a].unresponse \ vm'[a].unresponse
    <3>1. InClosure(vm, a, x, n) /\ ~InClosure(vm', a, x, n)
      BY <2>8 DEF InClosure
    <3>2. /\ \A u \in Service : \A j \in DOMAIN box[u] : ~InMail(box, u, j, x, n)
          /\ \A u \in Service : InClosure(vm, u, x, n) => u = a
          /\ \A u \in Service, d \in Co : ~InCo(vm[u], d, x, n)
      BY <1>0, <3>1 DEF OneAt
    <3>. QED BY <2>3, <2>4, <2>5, <3>1, <3>2 DEF Holds
  <2>. QED BY <2>1, <2>3, <2>6, <2>7, <2>8 DEF Gives
<1>2. CASE /\ ~took /\ alive[a] /\ ~alive'[a] /\ NoRequest(new)
           /\ answers'[x][n] = answers[x][n] + 1
           /\ \/ \E c \in Co : InCo(vm[a], c, x, n)
              \/ Closure(x, n) \in vm[a].unresponse
  <2>1. vm'[a] = EmptyVM
    BY <1>2 DEF Frame
  <2>2. /\ \A c \in Co : ~InCo(vm'[a], c, x, n)
        /\ ~InClosure(vm', a, x, n)
    BY <2>1, EmptyFields, Constants DEF InCo, InClosure
  <2>3. Shrinks(vm[a], vm'[a])
    BY <2>1, EmptyFields, Constants DEF Shrinks, InCo
  <2>4. Shift(a, took, x, n)
    BY <1>2, <2>3, NotRequest, ShrinkShift
  <2>5. /\ \A u \in Service : \A j \in DOMAIN box[u] : ~InMail(box, u, j, x, n)
        /\ \A u \in Service : InClosure(vm, u, x, n) => u = a
        /\ \A u \in Service, d \in Co : InCo(vm[u], d, x, n) => u = a
    BY <1>0, <1>2 DEF OneAt, InClosure
  <2>6. Holds(box, vm, a, x, n)
    BY <1>2 DEF Holds, InClosure
  <2>. QED BY <1>2, <2>2, <2>4, <2>5, <2>6 DEF Holds, Shift
<1>3. CASE UNCHANGED answers
  BY <1>3
<1>. QED
  BY <1>1, <1>2, <1>3 DEF RLaw

\* The answers a step sends are counted, and different.
LEMMA NewAnswer ==
    ASSUME Start, NEW a \in Service, NEW took \in BOOLEAN, NEW new,
           Frame(a, took, new), RLaw(a, took, new), NEW x \in Service,
           NEW i \in DOMAIN new[x], IsAnswer(new[x][i]), NEW n, n = new[x][i].session
    PROVE  /\ n \in Session /\ new[x][i].source = a
           /\ answers'[x][n] # answers[x][n]
           /\ \A j \in DOMAIN new[x] : IsAnswer(new[x][j]) /\ new[x][j].session = n => i = j
<1>1. /\ new[x] \in Seq(Message) /\ answers \in [Service -> [Session -> Nat]]
  BY DEF Frame, BoxStep, Start, Types
<1>2. PICK m : m = new[x][i]
  OBVIOUS
<1>3. m \in Message /\ m.type # "REQUEST" /\ m.session = n /\ n # 0
  BY <1>1, <1>2, ElementOfSeq, LenProperties DEF IsAnswer
<1>4. n \in Session
  BY <1>3 DEF Message
<1>5. ~NoAnswer(new) /\ new # NoMail
  BY <1>2 DEF NoAnswer, NoMail
<1>6. \A t \in Service : new # Mail(t, Req(session'[a], a))
  <2>1. ASSUME NEW t \in Service, new = Mail(t, Req(session'[a], a)) PROVE FALSE
    <3>1. session'[a] \in Session
      BY DEF Frame
    <3>2. PICK r : r = Req(session'[a], a)
      OBVIOUS
    <3>3. r \in Message /\ r.type = "REQUEST"
      BY <3>1, <3>2 DEF Req, Message
    <3>4. m = r
      BY <1>2, <2>1, <3>2, <3>3, MailTypes
    <3>. QED BY <1>3, <3>3, <3>4
  <2>. QED BY <2>1
<1>7. answers[x][n] \in Nat
  BY <1>1, <1>4
<1>8. CASE \E y \in Service, k \in Session : Gives(a, took, new, y, k)
  <2>1. PICK y \in Service, k \in Session : Gives(a, took, new, y, k)
    BY <1>8
  <2>2. /\ \A t \in Service : \A j \in DOMAIN new[t] :
            j = 1 /\ t = y /\ new[t][j].session = k /\ new[t][j].source = a
        /\ answers' = [answers EXCEPT ![y][k] = @ + 1]
    BY <2>1 DEF Gives
  <2>3. x = y /\ n = k /\ new[x][i].source = a
    BY <2>2
  <2>4. answers'[x][n] = answers[x][n] + 1
    BY <1>1, <1>4, <2>2, <2>3
  <2>. QED BY <1>4, <1>7, <2>2, <2>3, <2>4
<1>9. CASE \A y \in Service : \A k, j \in DOMAIN new[y] :
            IsAnswer(new[y][k]) =>
                /\ new[y][k].type = "ERROR" /\ new[y][k].source = a
                /\ answers'[y][new[y][k].session] = answers[y][new[y][k].session] + 1
                /\ IsAnswer(new[y][j]) /\ new[y][k].session = new[y][j].session => k = j
  <2>1. answers'[x][n] = answers[x][n] + 1 /\ new[x][i].source = a
    BY <1>9
  <2>2. \A j \in DOMAIN new[x] : IsAnswer(new[x][j]) /\ new[x][j].session = n => i = j
    BY <1>9
  <2>. QED BY <1>4, <1>7, <2>1, <2>2
<1>. QED
  BY <1>5, <1>6, <1>8, <1>9 DEF RLaw

-----------------------------------------------------------------------------
(* A call is answered at most once: timeouts and errors. *)

\* Session n has a timeout that is still to come.
Ticking(v, n) ==
    \/ v.sid_co[n] = BREAK
    \/ v.sid_co[n] \in Co /\ v.waits[v.sid_co[n]].k \in {"start", "sleep"}

Timeouts ==
    /\ \A s \in Service, n \in Session : <<s, n>> \in timers =>
        /\ n <= session[s]
        /\ alive[s] => Ticking(vm[s], n)
        /\ \A i \in DOMAIN box[s] : box[s][i] # Resp(n, NULL)
    /\ \A s \in Service : \A i \in DOMAIN box[s] : box[s][i].source = NULL =>
        /\ box[s][i].session <= session[s]
        /\ alive[s] => Ticking(vm[s], box[s][i].session)
        /\ \A j \in DOMAIN box[s] : box[s][i] = box[s][j] => i = j

\* Nothing comes from a service after the news that it is down.
News ==
    \A s \in Service : \A i, j \in DOMAIN box[s] :
        /\ box[s][i].type = "ERROR" /\ box[s][i].session = 0
        /\ box[s][j].type = "RESPONSE" /\ box[s][j].source = box[s][i].source
        => j < i

\* A call in error_queue gets no response: it has been answered with an error, or
\* who was asked is down.
Failing ==
    \A s \in Service : \A i \in DOMAIN vm[s].error_queue :
        LET n == vm[s].error_queue[i] IN
        /\ \A j \in DOMAIN box[s] : ~(box[s][j].type = "RESPONSE" /\ box[s][j].session = n)
        /\ answers[s][n] = 1 \/ ~alive[vm[s].watching[n]]

Once ==
    /\ Start
    /\ DownIsDown
    /\ Timeouts
    /\ OneHolder
    /\ HolderOpen
    /\ Answers
    /\ News
    /\ Failing
    /\ ~unknown

LEMMA NotTicking ==
    ASSUME NEW v, NEW k, Good(v, k), NEW n \in Session, v.watching[n] # NULL
    PROVE  ~Ticking(v, n)
  BY Constants DEF Good, Kinds, Ticking

LEMMA BoxMessage ==
    ASSUME Start, NEW s \in Service, NEW i \in DOMAIN box[s]
    PROVE  /\ box[s][i] \in Message
           /\ box[s][i].source = NULL =>
                box[s][i].type = "RESPONSE" /\ box[s][i] = Resp(box[s][i].session, NULL)
           /\ box[s][i].source # NULL => box[s][i].source \in Service
           /\ box[s][i].type = "RESPONSE" => box[s][i].session \in Session
<1>1. PICK m : m = box[s][i]
  OBVIOUS
<1>2. m \in Message
  BY <1>1, ElementOfSeq, LenProperties DEF Start, Types
<1>3. NULL \notin Service
  BY Constants
<1>. QED
  BY <1>1, <1>2, <1>3 DEF Message, Resp

\* A response in the box of a service that is alive is a timeout of a session that
\* waits for one, or the answer of a call that is waited for.
LEMMA ResponseKinds ==
    ASSUME Once, NEW s \in Service, alive[s], NEW i \in DOMAIN box[s],
           box[s][i].type = "RESPONSE", NEW n, n = box[s][i].session
    PROVE  /\ n \in Session
           /\ \/ box[s][i] = Resp(n, NULL) /\ Ticking(vm[s], n) /\ vm[s].watching[n] = NULL
              \/ /\ IsAnswer(box[s][i]) /\ box[s][i].source \in Service
                 /\ vm[s].watching[n] = box[s][i].source
                 /\ answers[s][n] = 1 /\ ~Ticking(vm[s], n)
<1>1. Start /\ Good(vm[s], session[s])
  BY StartFacts DEF Once
<1>2. n \in Session
  BY <1>1, BoxMessage
<1>3. CASE box[s][i].source = NULL
  <2>1. box[s][i] = Resp(n, NULL)
    BY <1>1, <1>3, BoxMessage
  <2>2. Ticking(vm[s], n)
    BY <1>3 DEF Once, Timeouts
  <2>3. vm[s].watching[n] = NULL
    BY <1>1, <1>2, <2>2, NotTicking
  <2>. QED BY <1>2, <2>1, <2>2, <2>3
<1>4. CASE box[s][i].source # NULL
  <2>1. n # 0
    BY <1>2, Constants
  <2>2. IsAnswer(box[s][i])
    BY <1>4, <2>1 DEF IsAnswer
  <2>3. vm[s].watching[n] = box[s][i].source /\ answers[s][n] = 1
    BY <2>2 DEF Once, Answers
  <2>4. ~Ticking(vm[s], n)
    BY <1>1, <1>2, <1>4, <2>3, NotTicking
  <2>5. box[s][i].source \in Service
    BY <1>1, <1>4, BoxMessage
  <2>. QED BY <1>2, <2>2, <2>3, <2>4, <2>5
<1>. QED
  BY <1>3, <1>4


-----------------------------------------------------------------------------
(* A call is answered at most once: what a step does to one message, one session. *)

\* Message j of the box of t was message i before the step, or message i of new.
Old(a, took, t, j, i) ==
    /\ i \in DOMAIN box[t] /\ i = j + Off(a, took, t) /\ j <= Kept(a, took, t)
    /\ box'[t][j] = box[t][i] /\ ~(took /\ t = a /\ i = 1)
Fresh(a, took, new, t, j, i) ==
    /\ i \in DOMAIN new[t] /\ i = j - Kept(a, took, t) /\ j > Kept(a, took, t)
    /\ box'[t][j] = new[t][i]

LEMMA Origins ==
    ASSUME Start, NEW a \in Service, NEW took \in BOOLEAN, NEW new, BoxStep(a, took, new),
           NEW t \in Service
    PROVE  /\ \A j \in DOMAIN box'[t] : \/ \E i \in DOMAIN box[t] : Old(a, took, t, j, i)
                                        \/ \E i \in DOMAIN new[t] : Fresh(a, took, new, t, j, i)
           /\ \A j, k \in DOMAIN box'[t] : \A i, h \in DOMAIN box[t] :
                Old(a, took, t, j, i) /\ Old(a, took, t, k, h) =>
                    (i = h => j = k) /\ (i < h => j < k)
           /\ \A j, k \in DOMAIN box'[t] : \A i, h \in DOMAIN new[t] :
                Fresh(a, took, new, t, j, i) /\ Fresh(a, took, new, t, k, h) /\ i = h => j = k
           /\ \A j, k \in DOMAIN box'[t], i \in DOMAIN box[t], h \in DOMAIN new[t] :
                Old(a, took, t, j, i) /\ Fresh(a, took, new, t, k, h) => j < k
<1>0. PICK o, l : o = Off(a, took, t) /\ l = Kept(a, took, t)
  OBVIOUS
<1>1. /\ DOMAIN box'[t] \subseteq Nat \ {0} /\ DOMAIN box[t] \subseteq Nat \ {0}
      /\ o \in Int /\ l \in Int
  BY <1>0, Positions
<1>2. ASSUME NEW j \in DOMAIN box'[t]
      PROVE  \/ \E i \in DOMAIN box[t] : Old(a, took, t, j, i)
             \/ \E i \in DOMAIN new[t] : Fresh(a, took, new, t, j, i)
  <2>1. ASSUME j + o \in DOMAIN box[t], took, t = a PROVE j + o # 1
    BY <1>0, <2>1, FirstGone
  <2>2. \/ /\ j + o \in DOMAIN box[t] /\ j <= l
           /\ box'[t][j] = box[t][j + o]
        \/ /\ j - l \in DOMAIN new[t] /\ j > l
           /\ box'[t][j] = new[t][j - l]
    BY <1>0 DEF BoxStep
  <2>. QED BY <1>0, <2>1, <2>2 DEF Old, Fresh
<1>3. ASSUME NEW j \in DOMAIN box'[t], NEW k \in DOMAIN box'[t],
             NEW i \in DOMAIN box[t], NEW h \in DOMAIN box[t],
             Old(a, took, t, j, i), Old(a, took, t, k, h)
      PROVE  (i = h => j = k) /\ (i < h => j < k)
  <2>1. i = j + o /\ h = k + o
    BY <1>0, <1>3 DEF Old
  <2>. QED BY <1>1, <2>1
<1>4. ASSUME NEW j \in DOMAIN box'[t], NEW k \in DOMAIN box'[t],
             NEW i \in DOMAIN new[t], NEW h \in DOMAIN new[t],
             Fresh(a, took, new, t, j, i), Fresh(a, took, new, t, k, h), i = h
      PROVE  j = k
  <2>1. i = j - l /\ h = k - l
    BY <1>0, <1>4 DEF Fresh
  <2>2. j \in Int /\ k \in Int
    BY <1>1
  <2>3. j - l = k - l
    BY <1>4, <2>1, Zenon
  <2>. QED BY <1>1, <2>2, <2>3
<1>5. ASSUME NEW j \in DOMAIN box'[t], NEW k \in DOMAIN box'[t],
             NEW i \in DOMAIN box[t], NEW h \in DOMAIN new[t],
             Old(a, took, t, j, i), Fresh(a, took, new, t, k, h)
      PROVE  j < k
  <2>1. j <= l /\ k > l
    BY <1>0, <1>5 DEF Old, Fresh
  <2>. QED BY <1>1, <2>1
<1>. QED
  BY <1>2, <1>3, <1>4, <1>5

\* A timeout that fires is no timer any more.
LEMMA NewTimeout ==
    ASSUME NEW a \in Service, NEW new, TLaw(a, new), NEW x \in Service,
           NEW i \in DOMAIN new[x], new[x][i].source = NULL
    PROVE  \E n \in Session :
                /\ x = a /\ i = 1 /\ new[x][i] = Resp(n, NULL)
                /\ <<a, n>> \in timers /\ timers' = timers \ {<<a, n>>}
<1>1. new # NoMail
  BY DEF NoMail
<1>2. PICK n \in Session : /\ <<a, n>> \in timers /\ timers' = timers \ {<<a, n>>}
                           /\ new = Mail(a, Resp(n, NULL))
  BY <1>1 DEF TLaw
<1>3. PICK m : m = Resp(n, NULL)
  OBVIOUS
<1>4. m \in Message
  BY <1>3 DEF Resp, Message
<1>5. x = a /\ i = 1 /\ new[x][i] = m
  BY <1>2, <1>3, <1>4, MailTypes
<1>. QED
  BY <1>2, <1>3, <1>5

LEMMA SessionGrows ==
    ASSUME Start, NEW a \in Service, NEW took \in BOOLEAN, NEW new, Frame(a, took, new),
           SLaw(a, took, new), NEW s \in Service, NEW n \in Session
    PROVE  /\ n <= session[s] => n <= session'[s]
           /\ session'[s] \in Nat /\ session[s] \in Nat /\ n \in Nat
<1>1. session[s] \in Nat /\ session'[s] \in Nat /\ n \in Nat
  BY Constants DEF Start, Types, Frame
<1>2. session'[s] = session[s] \/ session'[s] = session[s] + 1
  BY DEF SLaw, Frame
<1>. QED
  BY <1>1, <1>2

\* A step leaves the entry of session n alone, or is about it.
LEMMA EntryCases ==
    ASSUME Start, NEW a \in Service, NEW took \in BOOLEAN, NEW new, Frame(a, took, new),
           SLaw(a, took, new), alive'[a], NEW n \in Session
    PROVE  \/ EntrySame(vm[a], vm'[a], n)
           \/ /\ took /\ Head(box[a]).type = "RESPONSE" /\ Head(box[a]).session = n
              /\ Takes(vm[a], vm'[a], n)
           \/ Wakes(vm[a], vm'[a], n)
           \/ Fails(vm[a], vm'[a], n)
           \/ /\ n = session'[a] /\ session'[a] = session[a] + 1
              /\ \E kind \in {"sleep", "wait", "call"} : Opens(vm[a], vm'[a], kind, n)
<1>1. \A k \in Session : Others(vm[a], vm'[a], k) /\ k # n => EntrySame(vm[a], vm'[a], n)
  BY DEF Others
<1>2. session'[a] \in Session
  BY DEF Frame
<1>3. took /\ Head(box[a]).type = "RESPONSE" => Head(box[a]).session \in Session
  BY HeadMessage DEF Frame, BoxStep
<1>4. \A k \in Session : \/ Takes(vm[a], vm'[a], k) \/ Wakes(vm[a], vm'[a], k)
                         \/ Fails(vm[a], vm'[a], k) \/ \E kind : Opens(vm[a], vm'[a], kind, k)
                         => Others(vm[a], vm'[a], k)
  BY DEF Takes, Wakes, Fails, Opens
<1>5. Keeps(vm[a], vm'[a]) \/ (\E m : Errs(vm[a], vm'[a], m)) => EntrySame(vm[a], vm'[a], n)
  BY DEF Keeps, Errs
<1>. QED
  BY <1>1, <1>2, <1>3, <1>4, <1>5 DEF SLaw

LEMMA WatchingKept ==
    ASSUME Once, NEW a \in Service, NEW took \in BOOLEAN, NEW new, Frame(a, took, new),
           SLaw(a, took, new), NEW x \in Service, NEW n \in Session,
           vm[x].watching[n] # NULL, alive'[x],
           ~(/\ took /\ x = a /\ Head(box[a]).type = "RESPONSE" /\ Head(box[a]).session = n
             /\ IsAnswer(Head(box[a]))),
           \A i \in DOMAIN vm[x].error_queue : vm[x].error_queue[i] # n
    PROVE  vm'[x].watching[n] = vm[x].watching[n]
<1>0. /\ Start /\ BoxStep(a, took, new) /\ alive[x]
      /\ (x # a => vm'[x] = vm[x]) /\ vm[x] \in VM
  BY StartFacts DEF Once, Frame
<1>1. CASE x # a
  BY <1>0, <1>1
<1>2. CASE x = a
  <2>1. ASSUME took, Head(box[a]).type = "RESPONSE", Head(box[a]).session = n
        PROVE  FALSE
    <3>1. 1 \in DOMAIN box[a] /\ box[a][1] = Head(box[a])
      BY <1>0, <2>1, BoxMoves
    <3>. QED BY <1>0, <1>2, <2>1, <3>1, ResponseKinds
  <2>2. vm[a].error_queue # <<>> => n # Head(vm[a].error_queue)
    <3>1. vm[a].error_queue \in Seq(Session)
      BY <1>0, <1>2 DEF VM
    <3>. QED BY <1>2, <3>1, Head1
  <2>4. ~Wakes(vm[a], vm'[a], n) /\ ~Fails(vm[a], vm'[a], n)
        /\ \A kind : ~Opens(vm[a], vm'[a], kind, n)
    BY <1>2, <2>2 DEF Wakes, Fails, Opens
  <2>. QED BY <1>0, <1>2, <2>1, <2>4, EntryCases DEF EntrySame
<1>. QED
  BY <1>1, <1>2

LEMMA WatchingSame ==
    ASSUME Start, NEW a \in Service, NEW took \in BOOLEAN, NEW new, Frame(a, took, new),
           SLaw(a, took, new), NEW x \in Service, NEW n \in Session,
           vm[x].watching[n] # NULL, vm'[x].watching[n] # NULL
    PROVE  vm'[x].watching[n] = vm[x].watching[n]
<1>1. CASE x # a
  BY <1>1 DEF Frame
<1>2. CASE x = a
  <2>1. alive'[a]
    BY <1>2, EmptyFields DEF Frame
  <2>2. /\ ~Takes(vm[a], vm'[a], n) /\ ~Wakes(vm[a], vm'[a], n) /\ ~Fails(vm[a], vm'[a], n)
        /\ \A kind : ~Opens(vm[a], vm'[a], kind, n)
    BY <1>2 DEF Takes, Wakes, Fails, Opens
  <2>. QED BY <1>2, <2>1, <2>2, EntryCases DEF EntrySame
<1>. QED
  BY <1>1, <1>2

LEMMA TickingKept ==
    ASSUME Once, NEW a \in Service, NEW took \in BOOLEAN, NEW new, Frame(a, took, new),
           SLaw(a, took, new), NEW s \in Service, NEW n \in Session,
           Ticking(vm[s], n), n <= session[s], alive'[s],
           ~(took /\ s = a /\ Head(box[a]) = Resp(n, NULL))
    PROVE  Ticking(vm'[s], n)
<1>0. /\ Start /\ BoxStep(a, took, new) /\ alive[s] /\ (s # a => vm'[s] = vm[s])
      /\ session[s] \in Nat /\ n \in Nat
  BY StartFacts, Constants DEF Once, Frame
<1>1. CASE s # a
  BY <1>0, <1>1
<1>2. CASE s = a
  <2>1. ASSUME took, Head(box[a]).type = "RESPONSE", Head(box[a]).session = n
        PROVE  FALSE
    <3>1. 1 \in DOMAIN box[a] /\ box[a][1] = Head(box[a])
      BY <1>0, <2>1, BoxMoves
    <3>. QED BY <1>0, <1>2, <2>1, <3>1, ResponseKinds
  <2>2. EntrySame(vm[a], vm'[a], n) => Ticking(vm'[a], n)
    BY <1>2 DEF EntrySame, Ticking
  <2>4. ASSUME Wakes(vm[a], vm'[a], n) PROVE Ticking(vm'[a], n)
    BY <1>2, <2>4, Constants DEF Wakes, Ticking
  <2>5. ~Fails(vm[a], vm'[a], n)
    BY <1>2, Constants DEF Fails, Ticking
  <2>6. ~(n = session'[a] /\ session'[a] = session[a] + 1)
    BY <1>0, <1>2
  <2>. QED BY <1>0, <1>2, <2>1, <2>2, <2>4, <2>5, <2>6, EntryCases
<1>. QED
  BY <1>1, <1>2


-----------------------------------------------------------------------------
(* A call is answered at most once: every step keeps the parts of Once. *)

\* What an answer that is new says of the one who gives it.
LEMMA AnswerOpen ==
    ASSUME Once, NEW a \in Service, NEW took \in BOOLEAN, NEW new,
           Frame(a, took, new), RLaw(a, took, new), NEW x \in Service, NEW n \in Session,
           answers'[x][n] # answers[x][n]
    PROVE  /\ Holds(box, vm, a, x, n) /\ alive[a] /\ answers[x][n] = 0 /\ answers'[x][n] = 1
           /\ n <= session[x]
           /\ \A t \in Service : ~Holds(box', vm', t, x, n)
<1>1. Start /\ OneHolder /\ HolderOpen
  BY DEF Once
<1>2. /\ Holds(box, vm, a, x, n) /\ alive[a] /\ answers'[x][n] = answers[x][n] + 1
      /\ \A t \in Service : ~Holds(box', vm', t, x, n)
  BY <1>1, AnswerTakes
<1>3. answers[x][n] = 0 /\ n <= session[x]
  BY <1>1, <1>2 DEF HolderOpen
<1>. QED
  BY <1>2, <1>3

LEMMA AnswerStays ==
    ASSUME Once, NEW a \in Service, NEW took \in BOOLEAN, NEW new,
           Frame(a, took, new), RLaw(a, took, new), NEW x \in Service, NEW n \in Session,
           answers[x][n] = 1
    PROVE  answers'[x][n] = 1
  BY AnswerOpen

\* The caller of an open call goes on waiting for it.
LEMMA WatchingOpen ==
    ASSUME Once, NEW a \in Service, NEW took \in BOOLEAN, NEW new, Frame(a, took, new),
           SLaw(a, took, new), NEW t \in Service, NEW x \in Service, NEW n \in Session,
           Holds(box, vm, t, x, n), alive[t], alive'[x]
    PROVE  vm'[x].watching[n] = t
<1>0. Start /\ HolderOpen /\ Answers /\ Failing /\ BoxStep(a, took, new) /\ alive[x]
  BY DEF Once, Frame
<1>1. answers[x][n] = 0 /\ vm[x].watching[n] = t /\ t # NULL
  BY <1>0, Constants DEF HolderOpen
<1>2. ASSUME took, x = a, Head(box[a]).session = n, IsAnswer(Head(box[a]))
      PROVE  FALSE
  <2>1. 1 \in DOMAIN box[a] /\ box[a][1] = Head(box[a])
    BY ZenonT(40), <1>0, <1>2, BoxMoves
  <2>2. answers[a][n] = 1
    BY <1>0, <1>2, <2>1 DEF Answers
  <2>. QED BY <1>1, <1>2, <2>2
<1>3. ASSUME NEW i \in DOMAIN vm[x].error_queue, vm[x].error_queue[i] = n
      PROVE  FALSE
  BY <1>0, <1>1, <1>3 DEF Failing
<1>. QED
  BY <1>1, <1>2, <1>3, WatchingKept

LEMMA NewResponse ==
    ASSUME Once, NEW a \in Service, NEW took \in BOOLEAN, NEW new, Effect(a, took, new),
           NEW x \in Service, NEW i \in DOMAIN new[x], new[x][i].type = "RESPONSE",
           NEW n, n = new[x][i].session
    PROVE  /\ n \in Session
           /\ \/ /\ Holds(box, vm, a, x, n) /\ alive[a] /\ alive'[a] /\ answers[x][n] = 0
                 /\ new[x][i].source = a
              \/ x = a /\ <<a, n>> \in timers /\ new[x][i].source = NULL
<1>0. /\ Start /\ Frame(a, took, new) /\ RLaw(a, took, new) /\ TLaw(a, new) /\ MLaw(a, new)
      /\ new[x] \in Seq(Message)
  BY DEF Once, Effect, Frame, BoxStep
<1>1. PICK m : m = new[x][i]
  OBVIOUS
<1>2. m \in Message
  BY <1>0, <1>1, ElementOfSeq, LenProperties
<1>3. n \in Session /\ n # 0
  BY <1>1, <1>2, Constants DEF Message
<1>4. CASE m.source = NULL
  <2>1. PICK k \in Session : x = a /\ new[x][i] = Resp(k, NULL) /\ <<a, k>> \in timers
    BY <1>0, <1>1, <1>4, NewTimeout
  <2>2. n = k
    BY <1>1, <2>1 DEF Resp
  <2>. QED BY <1>1, <1>3, <1>4, <2>1, <2>2
<1>5. CASE m.source # NULL
  <2>1. IsAnswer(new[x][i])
    BY <1>1, <1>3, <1>5 DEF IsAnswer
  <2>2. answers'[x][n] # answers[x][n] /\ new[x][i].source = a
    BY <1>0, <2>1, NewAnswer
  <2>3. Holds(box, vm, a, x, n) /\ alive[a] /\ answers[x][n] = 0
    BY <1>0, <1>3, <2>2, AnswerOpen
  <2>4. alive'[a]
    BY <1>0, <1>1, <1>5 DEF MLaw
  <2>. QED BY <1>3, <2>2, <2>3, <2>4
<1>. QED
  BY <1>4, <1>5

\* No response is sent for a call that has been answered, or whose service is down.
LEMMA NoNewResponse ==
    ASSUME Once, NEW a \in Service, NEW took \in BOOLEAN, NEW new, Effect(a, took, new),
           NEW x \in Service, NEW n \in Session, alive[x], vm[x].watching[n] # NULL,
           answers[x][n] = 1 \/ ~alive[vm[x].watching[n]],
           NEW i \in DOMAIN new[x], new[x][i].type = "RESPONSE", new[x][i].session = n
    PROVE  FALSE
<1>0. HolderOpen /\ Timeouts /\ Good(vm[x], session[x])
  BY StartFacts DEF Once
<1>1. CASE Holds(box, vm, a, x, n) /\ alive[a] /\ answers[x][n] = 0
  <2>1. vm[x].watching[n] = a
    BY <1>0, <1>1 DEF HolderOpen
  <2>. QED BY <1>1, <2>1
<1>2. CASE x = a /\ <<a, n>> \in timers
  <2>1. Ticking(vm[x], n)
    BY <1>0, <1>2 DEF Timeouts
  <2>. QED BY <1>0, <2>1, NotTicking
<1>. QED
  BY <1>1, <1>2, NewResponse

LEMMA TimeoutsStep ==
    ASSUME Once, NEW a \in Service, NEW took \in BOOLEAN, NEW new, Effect(a, took, new)
    PROVE  Timeouts'
<1>0. /\ Start /\ Timeouts /\ Frame(a, took, new) /\ BoxStep(a, took, new)
      /\ SLaw(a, took, new) /\ TLaw(a, new)
  BY DEF Once, Effect, Frame
<1>1. \A n : Resp(n, NULL).source = NULL /\ Resp(n, NULL).session = n
  BY DEF Resp
<1>2. \A k, n : Resp(n, NULL) = Resp(k, NULL) => n = k
  BY <1>1
<1>3. took => 1 \in DOMAIN box[a] /\ box[a][1] = Head(box[a])
  BY <1>0, BoxMoves
<1>4. ASSUME NEW s \in Service, NEW n \in Session, <<s, n>> \in timers
      PROVE  n <= session'[s] /\ (alive'[s] => Ticking(vm'[s], n))
  <2>1. n <= session[s] /\ (alive[s] => Ticking(vm[s], n))
        /\ \A i \in DOMAIN box[s] : box[s][i] # Resp(n, NULL)
    BY <1>0, <1>4 DEF Timeouts
  <2>2. n <= session'[s]
    BY <1>0, <2>1, SessionGrows
  <2>3. ASSUME alive'[s] PROVE Ticking(vm'[s], n)
    <3>1. alive[s]
      BY <1>0, <2>3 DEF Frame
    <3>2. ~(took /\ s = a /\ Head(box[a]) = Resp(n, NULL))
      BY <1>3, <2>1
    <3>. QED BY <1>0, <2>1, <2>3, <3>1, <3>2, TickingKept
  <2>. QED BY <2>2, <2>3
<1>5. ASSUME NEW s \in Service, NEW n \in Session, <<s, n>> \in timers'
      PROVE  /\ n <= session'[s]
             /\ alive'[s] => Ticking(vm'[s], n)
             /\ \A j \in DOMAIN box'[s] : box'[s][j] # Resp(n, NULL)
  <2>1. CASE <<s, n>> \in timers
    <3>1. ASSUME NEW j \in DOMAIN box'[s], box'[s][j] = Resp(n, NULL) PROVE FALSE
      <4>1. CASE \E i \in DOMAIN box[s] : box'[s][j] = box[s][i]
        BY <1>0, <2>1, <3>1, <4>1 DEF Timeouts
      <4>2. CASE \E i \in DOMAIN new[s] : box'[s][j] = new[s][i]
        <5>1. PICK i \in DOMAIN new[s] : new[s][i] = Resp(n, NULL)
          BY <3>1, <4>2
        <5>2. new[s][i].source = NULL
          BY <1>1, <5>1
        <5>3. PICK k \in Session : /\ s = a /\ new[s][i] = Resp(k, NULL)
                                   /\ timers' = timers \ {<<a, k>>}
          BY <1>0, <5>2, NewTimeout
        <5>. QED BY <1>2, <1>5, <5>1, <5>3
      <4>. QED BY <1>0, <4>1, <4>2, BoxMoves
    <3>. QED BY <1>4, <2>1, <3>1
  <2>2. CASE <<s, n>> \notin timers
    <3>1. /\ s = a /\ n = session'[a] /\ new = NoMail /\ session'[a] = session[a] + 1
          /\ Opens(vm[a], vm'[a], "sleep", session'[a])
      <4>1. ~(\E k : timers' = timers \ {k}) /\ timers' # timers
        BY <1>5, <2>2
      <4>2. /\ timers' = timers \cup {<<a, session'[a]>>} /\ new = NoMail
            /\ session'[a] = session[a] + 1
            /\ Opens(vm[a], vm'[a], "sleep", session'[a])
        BY <1>0, <4>1, Zenon DEF TLaw
      <4>3. <<s, n>> = <<a, session'[a]>>
        BY <1>5, <2>2, <4>2
      <4>. QED BY <4>2, <4>3
    <3>2. Ticking(vm'[s], n)
      BY <3>1 DEF Opens, Ticking
    <3>3. session[a] \in Nat /\ n \in Nat
      BY <1>0, SessionGrows
    <3>4. n <= session'[s] /\ ~(n <= session[a])
      BY <3>1, <3>3
    <3>5. ASSUME NEW j \in DOMAIN box'[s], box'[s][j] = Resp(n, NULL) PROVE FALSE
      <4>1. \A u \in Service : DOMAIN new[u] = {}
        BY <3>1 DEF NoMail
      <4>2. PICK i \in DOMAIN box[s] : box[s][i] = Resp(n, NULL)
        BY <1>0, <3>5, <4>1, BoxMoves
      <4>3. box[s][i].source = NULL /\ box[s][i].session = n
        BY <1>1, <4>2
      <4>. QED BY <1>0, <3>1, <3>4, <4>3 DEF Timeouts
    <3>. QED BY <3>2, <3>4, <3>5
  <2>. QED BY <2>1, <2>2
<1>6. ASSUME NEW s \in Service, NEW j \in DOMAIN box'[s], NEW n, box'[s][j] = Resp(n, NULL),
             n \in Session
      PROVE  /\ n <= session'[s]
             /\ alive'[s] => Ticking(vm'[s], n)
             /\ \A k \in DOMAIN box'[s] : box'[s][j] = box'[s][k] => j = k
  <2>1. ASSUME NEW i \in DOMAIN new[s], NEW k \in DOMAIN box'[s], Fresh(a, took, new, s, k, i),
               box'[s][k] = Resp(n, NULL)
        PROVE  s = a /\ i = 1 /\ <<s, n>> \in timers
    <3>1. new[s][i] = Resp(n, NULL)
      BY <2>1 DEF Fresh
    <3>2. new[s][i].source = NULL
      BY <1>1, <3>1
    <3>3. PICK h \in Session : s = a /\ i = 1 /\ new[s][i] = Resp(h, NULL) /\ <<a, h>> \in timers
      BY <1>0, <3>2, NewTimeout
    <3>. QED BY <1>2, <3>1, <3>3
  <2>2. ASSUME NEW i \in DOMAIN box[s], Old(a, took, s, j, i)
        PROVE  /\ n <= session'[s]
               /\ alive'[s] => Ticking(vm'[s], n)
               /\ \A k \in DOMAIN box'[s] : box'[s][j] = box'[s][k] => j = k
    <3>1. box[s][i] = Resp(n, NULL)
      BY <1>6, <2>2 DEF Old
    <3>2. box[s][i].source = NULL /\ box[s][i].session = n
      BY <1>1, <3>1
    <3>3. /\ n <= session[s] /\ (alive[s] => Ticking(vm[s], n))
          /\ \A h \in DOMAIN box[s] : box[s][h] = Resp(n, NULL) => i = h
      BY <1>0, <3>1, <3>2 DEF Timeouts
    <3>4. n <= session'[s]
      BY <1>0, <1>6, <3>3, SessionGrows
    <3>5. ASSUME alive'[s] PROVE Ticking(vm'[s], n)
      <4>1. alive[s]
        BY <1>0, <3>5 DEF Frame
      <4>2. ~(took /\ s = a /\ Head(box[a]) = Resp(n, NULL))
        BY <1>3, <2>2, <3>3 DEF Old
      <4>. QED BY <1>0, <1>6, <3>3, <3>5, <4>1, <4>2, TickingKept
    <3>6. ASSUME NEW k \in DOMAIN box'[s], box'[s][k] = Resp(n, NULL) PROVE j = k
      <4>1. CASE \E h \in DOMAIN new[s] : Fresh(a, took, new, s, k, h)
        <5>1. <<s, n>> \in timers
          BY <2>1, <3>6, <4>1
        <5>. QED BY <1>0, <1>6, <3>1, <5>1 DEF Timeouts
      <4>2. CASE \E h \in DOMAIN box[s] : Old(a, took, s, k, h)
        <5>1. PICK h \in DOMAIN box[s] : Old(a, took, s, k, h)
          BY <4>2
        <5>2. box[s][h] = Resp(n, NULL)
          BY <3>6, <5>1 DEF Old
        <5>3. i = h
          BY <3>3, <5>2
        <5>. QED BY <1>0, <2>2, <5>1, <5>3, Origins
      <4>. QED BY <1>0, <4>1, <4>2, Origins
    <3>. QED BY <1>6, <3>4, <3>5, <3>6
  <2>3. ASSUME NEW i \in DOMAIN new[s], Fresh(a, took, new, s, j, i)
        PROVE  /\ n <= session'[s]
               /\ alive'[s] => Ticking(vm'[s], n)
               /\ \A k \in DOMAIN box'[s] : box'[s][j] = box'[s][k] => j = k
    <3>1. s = a /\ i = 1 /\ <<s, n>> \in timers
      BY <1>6, <2>1, <2>3
    <3>2. n <= session'[s] /\ (alive'[s] => Ticking(vm'[s], n))
      BY <1>4, <1>6, <3>1
    <3>3. ASSUME NEW k \in DOMAIN box'[s], box'[s][k] = Resp(n, NULL) PROVE j = k
      <4>1. CASE \E h \in DOMAIN new[s] : Fresh(a, took, new, s, k, h)
        <5>1. PICK h \in DOMAIN new[s] : Fresh(a, took, new, s, k, h)
          BY <4>1
        <5>2. h = i
          BY <2>1, <3>1, <3>3, <5>1
        <5>. QED BY <1>0, <2>3, <5>1, <5>2, Origins
      <4>2. CASE \E h \in DOMAIN box[s] : Old(a, took, s, k, h)
        <5>1. PICK h \in DOMAIN box[s] : box[s][h] = Resp(n, NULL)
          BY <3>3, <4>2 DEF Old
        <5>. QED BY <1>0, <1>6, <3>1, <5>1 DEF Timeouts
      <4>. QED BY <1>0, <4>1, <4>2, Origins
    <3>. QED BY <1>6, <3>2, <3>3
  <2>. QED BY <1>0, <2>2, <2>3, Origins
<1>7. ASSUME NEW s \in Service, NEW j \in DOMAIN box'[s], box'[s][j].source = NULL
      PROVE  /\ box'[s][j].session <= session'[s]
             /\ alive'[s] => Ticking(vm'[s], box'[s][j].session)
             /\ \A k \in DOMAIN box'[s] : box'[s][j] = box'[s][k] => j = k
  <2>1. PICK m, n : m = box'[s][j] /\ n = m.session
    OBVIOUS
  <2>2. m \in Message
    BY <1>0, <2>1, ElementOfSeq, LenProperties DEF BoxStep
  <2>3. m = Resp(n, NULL) /\ n \in Session
    BY <1>7, <2>1, <2>2, Constants DEF Message, Resp
  <2>. QED BY <1>6, <2>1, <2>3
<1>. QED
  BY <1>5, <1>7 DEF Timeouts


LEMMA HolderOpenStep ==
    ASSUME Once, NEW a \in Service, NEW took \in BOOLEAN, NEW new, Effect(a, took, new)
    PROVE  OneHolder' /\ HolderOpen'
<1>0. /\ Start /\ OneHolder /\ HolderOpen /\ Answers
      /\ Frame(a, took, new) /\ SLaw(a, took, new) /\ RLaw(a, took, new)
  BY DEF Once, Effect
<1>1. ASSUME NEW x \in Service, NEW n \in Session
      PROVE  /\ OneAt(box', vm', x, n)
             /\ \/ \A t \in Service : Holds(box', vm', t, x, n) => Holds(box, vm, t, x, n)
                \/ /\ x = a /\ n = session'[a] /\ n = session[a] + 1 /\ UNCHANGED answers
                   /\ \A t \in Service : Holds(box', vm', t, x, n) => vm'[a].watching[n] = t
  BY <1>0, HolderMoves
<1>2. ASSUME NEW t \in Service, NEW x \in Service, NEW n \in Session, Holds(box', vm', t, x, n)
      PROVE  /\ answers'[x][n] = 0 /\ n <= session'[x]
             /\ (alive'[x] /\ alive'[t] => vm'[x].watching[n] = t)
  <2>1. CASE Holds(box, vm, t, x, n)
    <3>1. answers[x][n] = 0 /\ n <= session[x]
      BY <1>0, <2>1 DEF HolderOpen
    <3>2. answers'[x][n] = answers[x][n]
      BY <1>0, <1>2, AnswerOpen
    <3>3. n <= session'[x]
      BY <1>0, <3>1, SessionGrows
    <3>4. alive'[t] => alive[t]
      BY <1>0 DEF Frame
    <3>. QED BY <1>0, <2>1, <3>1, <3>2, <3>3, <3>4, WatchingOpen
  <2>2. CASE /\ x = a /\ n = session'[a] /\ n = session[a] + 1 /\ UNCHANGED answers
             /\ \A u \in Service : Holds(box', vm', u, x, n) => vm'[a].watching[n] = u
    <3>1. session[a] \in Nat /\ n \in Nat
      BY <1>0, SessionGrows
    <3>2. ~(n <= session[a]) /\ n <= session'[a]
      BY <2>2, <3>1
    <3>3. answers[a][n] = 0
      BY <1>0, <3>2 DEF Answers
    <3>. QED BY <1>2, <2>2, <3>2, <3>3
  <2>. QED BY <1>1, <1>2, <2>1, <2>2
<1>3. OneHolder'
  BY <1>1 DEF OneHolder
<1>4. HolderOpen'
  BY <1>2 DEF HolderOpen
<1>. QED
  BY <1>3, <1>4

LEMMA AnswersStep ==
    ASSUME Once, NEW a \in Service, NEW took \in BOOLEAN, NEW new, Effect(a, took, new)
    PROVE  Answers'
<1>0. /\ Start /\ Answers /\ Failing /\ Frame(a, took, new) /\ BoxStep(a, took, new)
      /\ SLaw(a, took, new) /\ RLaw(a, took, new) /\ MLaw(a, new)
  BY DEF Once, Effect, Frame
<1>1. ASSUME NEW x \in Service, NEW n \in Session
      PROVE  answers'[x][n] <= 1 /\ (answers'[x][n] # 0 => n <= session'[x])
  <2>1. CASE answers'[x][n] = answers[x][n]
    <3>1. answers[x][n] <= 1 /\ (answers[x][n] # 0 => n <= session[x])
      BY <1>0 DEF Answers
    <3>. QED BY <1>0, <2>1, <3>1, SessionGrows
  <2>2. CASE answers'[x][n] # answers[x][n]
    <3>1. answers'[x][n] = 1 /\ n <= session[x]
      BY <1>0, <2>2, AnswerOpen
    <3>. QED BY <1>0, <3>1, SessionGrows
  <2>. QED BY <2>1, <2>2
<1>2. ASSUME NEW x \in Service, NEW i \in DOMAIN new[x], IsAnswer(new[x][i]),
             NEW n, n = new[x][i].session
      PROVE  /\ n \in Session /\ answers[x][n] = 0 /\ answers'[x][n] = 1
             /\ new[x][i].source = a /\ Holds(box, vm, a, x, n) /\ alive[a]
             /\ \A h \in DOMAIN new[x] : IsAnswer(new[x][h]) /\ new[x][h].session = n => i = h
  <2>1. /\ n \in Session /\ answers'[x][n] # answers[x][n] /\ new[x][i].source = a
        /\ \A h \in DOMAIN new[x] : IsAnswer(new[x][h]) /\ new[x][h].session = n => i = h
    BY <1>0, <1>2, NewAnswer
  <2>. QED BY <1>0, <2>1, AnswerOpen
<1>3. ASSUME NEW x \in Service, NEW i \in DOMAIN box[x], IsAnswer(box[x][i]),
             NEW n, n = box[x][i].session
      PROVE  /\ n \in Session /\ answers[x][n] = 1
             /\ \A h \in DOMAIN box[x] : IsAnswer(box[x][h]) /\ box[x][h].session = n => i = h
             /\ alive[x] /\ box[x][i].type = "RESPONSE" => vm[x].watching[n] = box[x][i].source
  <2>1. PICK m : m = box[x][i]
    OBVIOUS
  <2>2. m \in Message
    BY <1>0, <2>1, BoxMessage
  <2>3. n \in Session
    BY <1>3, <2>1, <2>2 DEF Message, IsAnswer
  <2>. QED BY <1>0, <1>3, <2>3 DEF Answers
<1>4. ASSUME NEW x \in Service, NEW j \in DOMAIN box'[x], IsAnswer(box'[x][j]),
             NEW n, n = box'[x][j].session
      PROVE  /\ answers'[x][n] = 1
             /\ \A k \in DOMAIN box'[x] : IsAnswer(box'[x][k]) /\ box'[x][k].session = n => j = k
             /\ alive'[x] /\ box'[x][j].type = "RESPONSE" =>
                    vm'[x].watching[n] = box'[x][j].source
  <2>1. ASSUME NEW i \in DOMAIN box[x], Old(a, took, x, j, i)
        PROVE  /\ answers'[x][n] = 1
               /\ \A k \in DOMAIN box'[x] : IsAnswer(box'[x][k]) /\ box'[x][k].session = n => j = k
               /\ alive'[x] /\ box'[x][j].type = "RESPONSE" =>
                    vm'[x].watching[n] = box'[x][j].source
    <3>1. box'[x][j] = box[x][i]
      BY <2>1 DEF Old
    <3>2. IsAnswer(box[x][i]) /\ n = box[x][i].session
      BY <1>4, <3>1
    <3>3. /\ n \in Session /\ answers[x][n] = 1
          /\ \A h \in DOMAIN box[x] : IsAnswer(box[x][h]) /\ box[x][h].session = n => i = h
          /\ alive[x] /\ box[x][i].type = "RESPONSE" => vm[x].watching[n] = box[x][i].source
      BY <1>3, <3>2
    <3>4. answers'[x][n] = 1
      BY <1>0, <3>3, AnswerStays
    <3>5. ASSUME NEW k \in DOMAIN box'[x], IsAnswer(box'[x][k]), box'[x][k].session = n
          PROVE  j = k
      <4>1. CASE \E h \in DOMAIN new[x] : Fresh(a, took, new, x, k, h)
        <5>1. PICK h \in DOMAIN new[x] : box'[x][k] = new[x][h]
          BY <4>1 DEF Fresh
        <5>2. IsAnswer(new[x][h]) /\ n = new[x][h].session
          BY <3>5, <5>1
        <5>3. answers[x][n] = 0
          BY <1>2, <5>2
        <5>. QED BY <3>3, <5>3
      <4>2. CASE \E h \in DOMAIN box[x] : Old(a, took, x, k, h)
        <5>1. PICK h \in DOMAIN box[x] : Old(a, took, x, k, h)
          BY <4>2
        <5>2. box'[x][k] = box[x][h]
          BY <5>1 DEF Old
        <5>3. i = h
          BY <3>3, <3>5, <5>2
        <5>. QED BY <1>0, <2>1, <5>1, <5>3, Origins
      <4>. QED BY <1>0, <4>1, <4>2, Origins
    <3>6. ASSUME alive'[x], box[x][i].type = "RESPONSE"
          PROVE  vm'[x].watching[n] = box[x][i].source
      <4>1. alive[x]
        BY <1>0, <3>6 DEF Frame
      <4>2. vm[x].watching[n] = box[x][i].source /\ box[x][i].source # NULL
        BY <3>2, <3>3, <3>6, <4>1 DEF IsAnswer
      <4>3. ~(took /\ x = a /\ Head(box[a]).session = n /\ IsAnswer(Head(box[a])))
        <5>1. took => 1 \in DOMAIN box[a] /\ box[a][1] = Head(box[a])
          BY <1>0, BoxMoves
        <5>. QED BY <2>1, <3>3, <5>1 DEF Old
      <4>4. \A h \in DOMAIN vm[x].error_queue : vm[x].error_queue[h] # n
        BY <1>0, <3>2, <3>6 DEF Failing
      <4>5. vm'[x].watching[n] = vm[x].watching[n]
        BY <1>0, <3>3, <3>6, <4>2, <4>3, <4>4, WatchingKept
      <4>. QED BY <4>2, <4>5
    <3>. QED BY <3>1, <3>4, <3>5, <3>6
  <2>2. ASSUME NEW i \in DOMAIN new[x], Fresh(a, took, new, x, j, i)
        PROVE  /\ answers'[x][n] = 1
               /\ \A k \in DOMAIN box'[x] : IsAnswer(box'[x][k]) /\ box'[x][k].session = n => j = k
               /\ alive'[x] /\ box'[x][j].type = "RESPONSE" =>
                    vm'[x].watching[n] = box'[x][j].source
    <3>1. box'[x][j] = new[x][i]
      BY <2>2 DEF Fresh
    <3>2. IsAnswer(new[x][i]) /\ n = new[x][i].session
      BY <1>4, <3>1
    <3>3. /\ n \in Session /\ answers[x][n] = 0 /\ answers'[x][n] = 1
          /\ new[x][i].source = a /\ Holds(box, vm, a, x, n) /\ alive[a]
          /\ \A h \in DOMAIN new[x] : IsAnswer(new[x][h]) /\ new[x][h].session = n => i = h
      BY <1>2, <3>2
    <3>4. ASSUME NEW k \in DOMAIN box'[x], IsAnswer(box'[x][k]), box'[x][k].session = n
          PROVE  j = k
      <4>1. CASE \E h \in DOMAIN new[x] : Fresh(a, took, new, x, k, h)
        <5>1. PICK h \in DOMAIN new[x] : Fresh(a, took, new, x, k, h)
          BY <4>1
        <5>2. box'[x][k] = new[x][h]
          BY <5>1 DEF Fresh
        <5>3. i = h
          BY <3>3, <3>4, <5>2
        <5>. QED BY <1>0, <2>2, <5>1, <5>3, Origins
      <4>2. CASE \E h \in DOMAIN box[x] : Old(a, took, x, k, h)
        <5>1. PICK h \in DOMAIN box[x] : box'[x][k] = box[x][h]
          BY <4>2 DEF Old
        <5>2. IsAnswer(box[x][h]) /\ n = box[x][h].session
          BY <3>4, <5>1
        <5>3. answers[x][n] = 1
          BY <1>3, <5>2
        <5>. QED BY <3>3, <5>3
      <4>. QED BY <1>0, <4>1, <4>2, Origins
    <3>5. alive'[x] => vm'[x].watching[n] = a
      BY <1>0, <3>3, WatchingOpen
    <3>. QED BY <3>1, <3>3, <3>4, <3>5
  <2>. QED BY <1>0, <2>1, <2>2, Origins
<1>5. \A x \in Service : \A j \in DOMAIN box'[x] : IsAnswer(box'[x][j]) =>
        /\ answers'[x][box'[x][j].session] = 1
        /\ \A k \in DOMAIN box'[x] :
                IsAnswer(box'[x][k]) /\ box'[x][k].session = box'[x][j].session => j = k
        /\ alive'[x] /\ box'[x][j].type = "RESPONSE" =>
                vm'[x].watching[box'[x][j].session] = box'[x][j].source
  BY <1>4
<1>. QED
  BY <1>1, <1>5 DEF Answers, IsAnswer

LEMMA NewsStep ==
    ASSUME Once, NEW a \in Service, NEW took \in BOOLEAN, NEW new, Effect(a, took, new)
    PROVE  News'
<1>0. /\ Start /\ News /\ DownIsDown /\ Frame(a, took, new) /\ BoxStep(a, took, new)
      /\ MLaw(a, new)
  BY DEF Once, Effect, Frame
<1>. SUFFICES ASSUME NEW s \in Service, NEW i \in DOMAIN box'[s], NEW j \in DOMAIN box'[s],
                     box'[s][i].type = "ERROR", box'[s][i].session = 0,
                     box'[s][j].type = "RESPONSE", box'[s][j].source = box'[s][i].source
              PROVE  j < i
  BY DEF News
<1>1. PICK m : m = box'[s][i]
  OBVIOUS
<1>2. m \in Message
  BY <1>0, <1>1, ElementOfSeq, LenProperties DEF BoxStep
<1>3. m.source \in Service /\ m.source # NULL
  BY <1>1, <1>2, Constants DEF Message
<1>4. ASSUME NEW h \in DOMAIN new[s], box'[s][j] = new[s][h]
      PROVE  m.source = a /\ alive'[a] /\ alive[a]
  BY <1>0, <1>1, <1>3, <1>4 DEF MLaw, Frame
<1>5. ASSUME NEW h \in DOMAIN box[s], box'[s][i] = box[s][h]
      PROVE  ~alive[m.source]
  BY <1>0, <1>1, <1>5, InBox DEF DownIsDown
<1>6. ASSUME NEW h \in DOMAIN new[s], box'[s][i] = new[s][h]
      PROVE  ~alive'[a]
  BY <1>0, <1>6 DEF MLaw
<1>7. CASE \E h \in DOMAIN new[s] : Fresh(a, took, new, s, j, h)
  <2>1. m.source = a /\ alive'[a] /\ alive[a]
    BY <1>4, <1>7 DEF Fresh
  <2>2. ~\E h \in DOMAIN box[s] : Old(a, took, s, i, h)
    BY <1>5, <2>1 DEF Old
  <2>3. ~\E h \in DOMAIN new[s] : Fresh(a, took, new, s, i, h)
    BY <1>6, <2>1 DEF Fresh
  <2>. QED BY <1>0, <2>2, <2>3, Origins
<1>8. ASSUME NEW h \in DOMAIN box[s], Old(a, took, s, j, h)
      PROVE  j < i
  <2>1. CASE \E k \in DOMAIN new[s] : Fresh(a, took, new, s, i, k)
    BY <1>0, <1>8, <2>1, Origins
  <2>2. CASE \E k \in DOMAIN box[s] : Old(a, took, s, i, k)
    <3>1. PICK k \in DOMAIN box[s] : Old(a, took, s, i, k)
      BY <2>2
    <3>2. box'[s][i] = box[s][k] /\ box'[s][j] = box[s][h]
      BY <1>8, <3>1 DEF Old
    <3>3. h < k
      BY <1>0, <3>2 DEF News
    <3>. QED BY <1>0, <1>8, <3>1, <3>3, Origins
  <2>. QED BY <1>0, <2>1, <2>2, Origins
<1>. QED
  BY <1>0, <1>7, <1>8, Origins


\* What is in error_queue after the step was there, or the message has put it there.
LEMMA ErrorQueueStep ==
    ASSUME Start, NEW a \in Service, NEW took \in BOOLEAN, NEW new, Frame(a, took, new),
           SLaw(a, took, new), NEW s \in Service, NEW i \in DOMAIN vm'[s].error_queue,
           NEW n, n = vm'[s].error_queue[i]
    PROVE  \/ \E h \in DOMAIN vm[s].error_queue : vm[s].error_queue[h] = n
           \/ /\ s = a /\ took /\ alive'[a] /\ Head(box[a]).type = "ERROR"
              /\ Errs(vm[a], vm'[a], Head(box[a]))
<1>1. CASE s # a
  <2>1. vm'[s] = vm[s]
    BY <1>1 DEF Frame
  <2>. QED BY <2>1
<1>2. CASE s = a
  <2>0. vm[a].error_queue \in Seq(Session)
    BY StartFacts DEF VM
  <2>1. ~alive'[a] => vm'[a].error_queue = <<>>
    BY EmptyFields DEF Frame
  <2>2. vm'[a].error_queue # <<>>
    BY <1>2
  <2>3. CASE vm'[a].error_queue = vm[a].error_queue
    BY <1>2, <2>3
  <2>4. CASE vm[a].error_queue # <<>> /\ vm'[a].error_queue = Tail(vm[a].error_queue)
    BY <1>2, <2>0, <2>4, Head1
  <2>5. CASE took /\ alive'[a] /\ Head(box[a]).type = "ERROR" /\ Errs(vm[a], vm'[a], Head(box[a]))
    BY <1>2, <2>5
  <2>. QED
    BY <2>1, <2>2, <2>3, <2>4, <2>5 DEF SLaw, Keeps, Takes, Wakes, Fails, Opens
<1>. QED
  BY <1>1, <1>2

\* A call that has failed stays so.
LEMMA FailedStays ==
    ASSUME Once, NEW a \in Service, NEW took \in BOOLEAN, NEW new, Effect(a, took, new),
           NEW s \in Service, NEW n \in Session, vm[s].watching[n] # NULL,
           vm'[s].watching[n] # NULL, answers[s][n] = 1 \/ ~alive[vm[s].watching[n]]
    PROVE  answers'[s][n] = 1 \/ ~alive'[vm'[s].watching[n]]
<1>0. /\ Start /\ Frame(a, took, new) /\ SLaw(a, took, new) /\ RLaw(a, took, new)
      /\ vm[s] \in VM
  BY StartFacts DEF Once, Effect
<1>1. vm'[s].watching[n] = vm[s].watching[n]
  BY <1>0, WatchingSame
<1>2. vm[s].watching[n] \in Service
  BY <1>0 DEF VM
<1>3. ~alive[vm[s].watching[n]] => ~alive'[vm[s].watching[n]]
  BY <1>0, <1>2 DEF Frame
<1>. QED
  BY <1>0, <1>1, <1>3, AnswerStays

LEMMA FailingStep ==
    ASSUME Once, NEW a \in Service, NEW took \in BOOLEAN, NEW new, Effect(a, took, new)
    PROVE  Failing'
<1>0. /\ Start /\ Failing /\ News /\ DownIsDown /\ Answers
      /\ Frame(a, took, new) /\ BoxStep(a, took, new) /\ SLaw(a, took, new)
  BY DEF Once, Effect, Frame
<1>1. ASSUME NEW s \in Service, NEW i \in DOMAIN vm'[s].error_queue,
             NEW n, n = vm'[s].error_queue[i]
      PROVE  /\ \A j \in DOMAIN box'[s] :
                    ~(box'[s][j].type = "RESPONSE" /\ box'[s][j].session = n)
             /\ answers'[s][n] = 1 \/ ~alive'[vm'[s].watching[n]]
  <2>1. /\ Good(vm'[s], session'[s]) /\ Good(vm[s], session[s]) /\ alive'[s] /\ alive[s]
    <3>1. Start'
      BY <1>0, KeepsStart
    <3>2. Good(vm'[s], session'[s])
      BY <3>1 DEF Start, Matched
    <3>3. alive'[s]
      <4>1. ~alive'[s] => vm'[s] = EmptyVM
        BY <3>1 DEF Start, Gone
      <4>2. vm'[s].error_queue # <<>>
        BY <1>1
      <4>. QED BY <4>1, <4>2, EmptyFields
    <3>. QED BY <1>0, <3>2, <3>3, StartFacts DEF Frame
  <2>2. n \in Session /\ vm'[s].watching[n] # NULL
    <3>1. vm'[s].error_queue \in Seq(Session) /\ Errors(vm'[s], vm'[s].error_queue)
      BY <2>1 DEF Good, VM
    <3>. QED BY <1>1, <3>1, ElementOfSeq, LenProperties DEF Errors
  <2>3. /\ vm[s].watching[n] # NULL
        /\ answers[s][n] = 1 \/ ~alive[vm[s].watching[n]]
        /\ \A h \in DOMAIN box[s] :
                box[s][h].type = "RESPONSE" /\ box[s][h].session = n => took /\ s = a /\ h = 1
    <3>1. CASE \E h \in DOMAIN vm[s].error_queue : vm[s].error_queue[h] = n
      <4>1. vm[s].watching[n] # NULL
        BY <2>1, <3>1 DEF Good, Errors
      <4>. QED BY <1>0, <3>1, <4>1 DEF Failing
    <3>2. CASE /\ s = a /\ took /\ Head(box[a]).type = "ERROR"
               /\ Errs(vm[a], vm'[a], Head(box[a]))
      <4>1. PICK m : m = Head(box[a])
        OBVIOUS
      <4>2. /\ 1 \in DOMAIN box[a] /\ box[a][1] = m /\ m.type = "ERROR" /\ m \in Message
            /\ box[a] # <<>>
        <5>1. box[a] # <<>>
          BY <1>0, <3>2 DEF BoxStep
        <5>. QED BY <1>0, <3>2, <4>1, <5>1, BoxMoves, HeadMessage
      <4>3. /\ vm[s].watching[n] # NULL
            /\ m.session = n \/ (m.session = 0 /\ vm[s].watching[n] = m.source)
        BY <1>1, <3>2, <4>1 DEF Errs
      <4>4. ASSUME NEW h \in DOMAIN box[s], box[s][h].type = "RESPONSE", box[s][h].session = n
            PROVE  /\ IsAnswer(box[s][h]) /\ vm[s].watching[n] = box[s][h].source
        BY <2>1, <4>3, <4>4, ResponseKinds
      <4>5. m.source \in Service /\ m.source # NULL
        BY <4>2, Constants DEF Message
      <4>6. CASE m.session = n
        <5>1. IsAnswer(m)
          BY <2>2, <4>2, <4>5, <4>6, Constants DEF IsAnswer
        <5>2. /\ answers[a][n] = 1
              /\ \A h \in DOMAIN box[a] : IsAnswer(box[a][h]) /\ box[a][h].session = n => 1 = h
          BY <1>0, <4>2, <4>6, <5>1 DEF Answers
        <5>. QED BY <3>2, <4>3, <4>4, <5>2
      <4>7. CASE m.session = 0 /\ vm[s].watching[n] = m.source
        <5>1. ~alive[m.source]
          BY <1>0, <4>2, <4>7, InBox DEF DownIsDown
        <5>2. ASSUME NEW h \in DOMAIN box[a], box[a][h].type = "RESPONSE", box[a][h].session = n
              PROVE  FALSE
          <6>1. box[a][h].source = m.source
            BY <3>2, <4>4, <4>7, <5>2
          <6>2. h < 1
            BY <1>0, <4>2, <4>7, <5>2, <6>1 DEF News
          <6>3. h \in Nat \ {0}
            BY <1>0, Positions
          <6>. QED BY <6>2, <6>3
        <5>. QED BY <3>2, <4>3, <4>7, <5>1, <5>2
      <4>. QED BY <4>3, <4>6, <4>7
    <3>. QED BY <1>0, <1>1, <3>1, <3>2, ErrorQueueStep
  <2>4. answers'[s][n] = 1 \/ ~alive'[vm'[s].watching[n]]
    BY <2>2, <2>3, FailedStays
  <2>5. ASSUME NEW j \in DOMAIN box'[s], box'[s][j].type = "RESPONSE", box'[s][j].session = n
        PROVE  FALSE
    <3>1. CASE \E h \in DOMAIN box[s] : Old(a, took, s, j, h)
      BY <2>3, <2>5, <3>1 DEF Old
    <3>2. CASE \E h \in DOMAIN new[s] : Fresh(a, took, new, s, j, h)
      <4>1. PICK h \in DOMAIN new[s] : box'[s][j] = new[s][h]
        BY <3>2 DEF Fresh
      <4>2. new[s][h].type = "RESPONSE" /\ new[s][h].session = n
        BY <2>5, <4>1
      <4>. QED BY <2>1, <2>2, <2>3, <4>2, NoNewResponse
    <3>. QED BY <1>0, <3>1, <3>2, Origins
  <2>. QED BY <2>4, <2>5
<1>. QED
  BY <1>1 DEF Failing

LEMMA UnknownStep ==
    ASSUME Once, NEW a \in Service, NEW took \in BOOLEAN, NEW new, Effect(a, took, new)
    PROVE  ~unknown'
<1>0. Start /\ ~unknown /\ BoxStep(a, took, new) /\ Good(vm[a], session[a]) /\ ULaw(a, took)
  BY StartFacts DEF Once, Effect, Frame
<1>1. ASSUME took, alive[a], Head(box[a]).type = "RESPONSE",
             vm[a].sid_co[Head(box[a]).session] = NONE
      PROVE  FALSE
  <2>1. PICK n : n = Head(box[a]).session
    OBVIOUS
  <2>2. 1 \in DOMAIN box[a] /\ box[a][1] = Head(box[a])
    BY <1>0, <1>1, BoxMoves
  <2>3. n \in Session /\ (Ticking(vm[a], n) \/ vm[a].watching[n] # NULL)
    <3>1. NULL \notin Service
      BY Constants
    <3>. QED BY <1>1, <2>1, <2>2, <3>1, ResponseKinds
  <2>4. vm[a].watching[n] # NULL => vm[a].sid_co[n] \in Co
    BY <1>0, <2>3 DEF Good, Kinds
  <2>. QED BY <1>1, <2>1, <2>3, <2>4, Constants DEF Ticking
<1>. QED
  BY <1>0, <1>1 DEF ULaw

LEMMA OnceStep ==
    ASSUME Once, NEW a \in Service, NEW took \in BOOLEAN, NEW new, Effect(a, took, new)
    PROVE  Once'
<1>1. Start /\ DownIsDown /\ Frame(a, took, new) /\ MLaw(a, new)
  BY DEF Once, Effect
<1>2. Start' /\ DownIsDown'
  BY <1>1, KeepsStart, DownStep
<1>3. /\ Timeouts' /\ OneHolder' /\ HolderOpen' /\ Answers' /\ News' /\ Failing' /\ ~unknown'
  BY TimeoutsStep, HolderOpenStep, AnswersStep, NewsStep, FailingStep, UnknownStep
<1>. QED
  BY <1>2, <1>3 DEF Once


-----------------------------------------------------------------------------
(* The initial state. *)

LEMMA ChangedAt1 ==
    ASSUME NEW S, NEW T, NEW f \in [S -> T], NEW y \in T
    PROVE  [f EXCEPT ![1] = y] \in [S -> T]
  OBVIOUS

LEMMA InitVM ==
    ASSUME NEW v,
           v = [EmptyVM EXCEPT !.sid_co[1] = 1, !.waits[1] = [k |-> "start", n |-> 1]]
    PROVE  /\ Good(v, 1) /\ Ticking(v, 1) /\ v.error_queue = <<>> /\ v.unresponse = {}
           /\ \A n \in Session : v.watching[n] = NULL
           /\ \A c \in Co : v.co_sid[c] = NONE
<1>1. PICK p : p = [k |-> "start", n |-> 1]
  OBVIOUS
<1>2. p \in Blocked /\ p # NULL /\ p.k = "start" /\ p.n = 1 /\ p # Ready
  <2>1. p \in Blocked /\ p.k = "start" /\ p.n = 1
    BY <1>1, Constants DEF Blocked
  <2>. QED BY <2>1, Places, Constants
<1>3. PICK e \in VM : e = EmptyVM
  BY EmptyFields
<1>4. v = [e EXCEPT !.sid_co = [e.sid_co EXCEPT ![1] = 1], !.waits = [e.waits EXCEPT ![1] = p]]
  BY <1>1, <1>3
<1>5. /\ v.pc = e.pc /\ v.cur = e.cur /\ v.wakeup_queue = e.wakeup_queue
      /\ v.error_queue = e.error_queue /\ v.fork_queue = e.fork_queue
      /\ v.sid_co = [e.sid_co EXCEPT ![1] = 1] /\ v.waits = [e.waits EXCEPT ![1] = p]
      /\ v.co_sid = e.co_sid /\ v.sleeping = e.sleeping /\ v.watching = e.watching
      /\ v.unresponse = e.unresponse /\ v.co_addr = e.co_addr
      /\ e.sid_co \in [Session -> Co \cup {NONE, BREAK}]
      /\ e.waits \in [Co -> Blocked \cup {NULL}]
  BY <1>4 DEF VM
<1>6. /\ v.pc = "idle" /\ v.cur = NONE /\ v.wakeup_queue = <<>>
      /\ v.error_queue = <<>> /\ v.fork_queue = <<>> /\ v.unresponse = {}
      /\ v.sid_co[1] = 1 /\ v.waits[1] = p
      /\ \A c \in Co : v.co_sid[c] = NONE /\ v.sleeping[c] = NONE /\ (c # 1 => v.waits[c] = NULL)
      /\ \A n \in Session : v.watching[n] = NULL /\ (n # 1 => v.sid_co[n] = NONE)
  BY <1>3, <1>5, EmptyFields, Constants
<1>7. v \in VM
  <2>0. 1 \in Co \cup {NONE, BREAK} /\ p \in Blocked \cup {NULL}
    BY <1>2, Constants
  <2>1. v.sid_co \in [Session -> Co \cup {NONE, BREAK}]
    <3>1. e.sid_co \in [Session -> Co \cup {NONE, BREAK}]
      BY <1>5
    <3>2. [e.sid_co EXCEPT ![1] = 1] \in [Session -> Co \cup {NONE, BREAK}]
      BY <2>0, <3>1, ChangedAt1
    <3>3. v.sid_co = [e.sid_co EXCEPT ![1] = 1]
      BY <1>5
    <3>. QED BY <3>2, <3>3
  <2>2. v.waits \in [Co -> Blocked \cup {NULL}]
    <3>1. e.waits \in [Co -> Blocked \cup {NULL}]
      BY <1>5
    <3>2. [e.waits EXCEPT ![1] = p] \in [Co -> Blocked \cup {NULL}]
      BY <2>0, <3>1, ChangedAt1
    <3>3. v.waits = [e.waits EXCEPT ![1] = p]
      BY <1>5
    <3>. QED BY <3>2, <3>3
  <2>. QED BY <1>4, <1>5, <2>1, <2>2 DEF VM
<1>8. Sessions(v, 1)
  BY <1>2, <1>6, Constants DEF Sessions
<1>9. Kinds(v) /\ Requests(v)
  BY <1>2, <1>6, Constants DEF Kinds, Requests
<1>10. Current(v) /\ Drained(v) /\ Forks(v, v.fork_queue) /\ Errors(v, v.error_queue)
  BY <1>6, Constants DEF Current, Drained, Forks, Errors
<1>11. Ticking(v, 1)
  BY <1>2, <1>6, Constants DEF Ticking
<1>. QED
  BY <1>6, <1>8, <1>9, <1>10, <1>11, <1>7 DEF Good

LEMMA InitInv ==
    ASSUME Init
    PROVE  Once /\ CallPending
<1>1. PICK v : v = [EmptyVM EXCEPT !.sid_co[1] = 1, !.waits[1] = [k |-> "start", n |-> 1]]
  OBVIOUS
<1>2. /\ alive \in [Service -> BOOLEAN] /\ box \in [Service -> Seq(Message)]
      /\ timers \subseteq Service \X Session /\ session \in [Service -> Session]
      /\ answers \in [Service -> [Session -> Nat]] /\ unknown = FALSE
      /\ vm = [s \in Service |-> v]
      /\ \A s \in Service : /\ box[s] = <<>> /\ alive[s] /\ session[s] = 1 /\ vm[s] = v
                            /\ \A n \in Session : answers[s][n] = 0 /\ (<<s, n>> \in timers => n = 1)
  BY <1>1, Constants DEF Init
<1>3. /\ Good(v, 1) /\ Ticking(v, 1) /\ v.error_queue = <<>> /\ v.unresponse = {}
      /\ \A n \in Session : v.watching[n] = NULL
      /\ \A c \in Co : v.co_sid[c] = NONE
  BY <1>1, InitVM
<1>4. Start
  <2>1. v \in VM
    BY <1>3 DEF Good
  <2>2. Types
    BY <1>2, <2>1 DEF Types
  <2>3. Matched /\ Gone
    BY <1>2, <1>3 DEF Matched, Gone
  <2>. QED BY <2>2, <2>3 DEF Start
<1>5. \A s \in Service : DOMAIN box[s] = {} /\ DOMAIN vm[s].error_queue = {}
  BY <1>2, <1>3
<1>6. DownIsDown
  BY <1>5, InBox DEF DownIsDown
<1>7. CallPending
  BY <1>2, <1>3 DEF CallPending
<1>8. Timeouts
  <2>1. ASSUME NEW s \in Service, NEW n \in Session, <<s, n>> \in timers
        PROVE  n <= session[s] /\ Ticking(vm[s], n)
    BY <1>2, <1>3, <2>1
  <2>. QED BY <1>5, <2>1 DEF Timeouts
<1>9. \A t, x \in Service, n \in Session : ~Holds(box, vm, t, x, n)
  <2>1. \A t, x \in Service, n \in Session, c \in Co : ~InCo(vm[t], c, x, n)
    BY <1>2, <1>3, Constants DEF InCo
  <2>2. \A t, x \in Service, n \in Session : ~InClosure(vm, t, x, n)
    BY <1>2, <1>3 DEF InClosure
  <2>. QED BY <1>5, <2>1, <2>2 DEF Holds
<1>10. OneHolder /\ HolderOpen
  BY <1>5, <1>9 DEF OneHolder, OneAt, HolderOpen, Holds
<1>11. Answers /\ News /\ Failing
  <2>1. \A x \in Service, n \in Session : answers[x][n] = 0
    BY DEF Init
  <2>2. \A x \in Service, n \in Session : answers[x][n] <= 1
    BY <2>1
  <2>. QED BY <1>5, <2>1, <2>2 DEF Answers, News, Failing
<1>. QED
  BY <1>2, <1>4, <1>6, <1>7, <1>8, <1>10, <1>11 DEF Once

-----------------------------------------------------------------------------
(* The theorems. *)

Inv == Once /\ CallPending

\* The inductive invariant: tables, messages and the open calls of all services.
THEOREM Invariant == Spec => []Inv
<1>1. Init => Inv
  BY InitInv DEF Inv
<1>2. ASSUME Inv, Next PROVE Inv'
  <2>1. Start /\ DownIsDown /\ Once /\ CallPending
    BY <1>2 DEF Inv, Once
  <2>2. PICK a \in Service : HasEffect(a)
    BY <1>2, <2>1, NextEffect
  <2>3. PICK took \in BOOLEAN, new \in [Service -> Seq(Message)] : Effect(a, took, new)
    BY <2>2 DEF HasEffect
  <2>4. Once'
    BY <2>1, <2>3, OnceStep
  <2>5. CallPending'
    BY <2>1, <2>3, PendingStep
  <2>. QED BY <2>4, <2>5 DEF Inv
<1>3. ASSUME Inv, UNCHANGED vars PROVE Inv'
  <2>1. UNCHANGED <<alive, box, timers, session, vm, answers, forgotten, unknown>>
    BY <1>3 DEF vars
  <2>2. Start'
    BY <1>3, <2>1 DEF Inv, Once, Start, Types, Matched, Gone
  <2>3. DownIsDown' /\ CallPending'
    BY <1>3, <2>1 DEF Inv, Once, DownIsDown, CallPending
  <2>4. Timeouts'
    BY <1>3, <2>1 DEF Inv, Once, Timeouts
  <2>5. OneHolder' /\ HolderOpen'
    BY <1>3, <2>1 DEF Inv, Once, OneHolder, HolderOpen
  <2>6. Answers' /\ News'
    BY <1>3, <2>1 DEF Inv, Once, Answers, News
  <2>7. Failing' /\ ~unknown'
    BY <1>3, <2>1 DEF Inv, Once, Failing
  <2>. QED BY <2>2, <2>3, <2>4, <2>5, <2>6, <2>7 DEF Inv, Once
<1>4. Inv /\ [Next]_vars => Inv'
  BY <1>2, <1>3
<1>. QED
  BY <1>1, <1>4, PTL DEF Spec

\* session_id_coroutine and the coroutines that are suspended always agree, in every
\* service: what a message, a wake-up or an error resumes waits for just that.
THEOREM SessionsAgree == Spec => []SessionsMatch
<1>1. ASSUME Inv PROVE SessionsMatch
  <2>1. Start
    BY <1>1 DEF Inv, Once
  <2>2. session \in [Service -> 0..MaxSession]
    BY <2>1, Constants DEF Start, Types, Session
  <2>3. ASSUME NEW s \in Service, NEW v, v = vm[s]
        PROVE  /\ v.pc \in {"idle", "run", "suspend", "fork"}
               /\ v.cur \in Co \cup {NONE} /\ (v.cur \in Co <=> v.pc = "run")
               /\ v.sid_co \in [Session -> Co \cup {NONE, BREAK}]
               /\ v.co_sid \in [Co -> Session \cup {NONE, 0}]
               /\ \A i \in DOMAIN v.error_queue : v.error_queue[i] \in Session
               /\ \A n \in Session : v.sid_co[n] \in Co =>
                    v.waits[v.sid_co[n]] # NULL /\ v.waits[v.sid_co[n]].n = n
               /\ \A c \in Co : v.waits[c] # NULL /\ v.waits[c].n # NONE =>
                    v.sid_co[v.waits[c].n] = c
               /\ \A i \in DOMAIN v.error_queue : v.sid_co[v.error_queue[i]] \in Co
    <3>1. Good(v, session[s])
      BY <2>1, <2>3, StartFacts
    <3>2. v \in VM /\ v.error_queue \in Seq(Session)
      BY <3>1 DEF Good, VM
    <3>3. \A i \in DOMAIN v.error_queue : v.error_queue[i] \in Session
      BY <3>2, ElementOfSeq, LenProperties
    <3>4. \A i \in DOMAIN v.error_queue : v.sid_co[v.error_queue[i]] \in Co
      BY <3>1, <3>3 DEF Good, Errors, Kinds
    <3>5. /\ v.pc \in {"idle", "run", "suspend", "fork"}
          /\ v.cur \in Co \cup {NONE} /\ (v.cur \in Co <=> v.pc = "run")
          /\ v.sid_co \in [Session -> Co \cup {NONE, BREAK}]
          /\ v.co_sid \in [Co -> Session \cup {NONE, 0}]
      BY <3>1, <3>2 DEF VM, Good, Current
    <3>. QED BY <3>1, <3>3, <3>4, <3>5 DEF Good, Sessions
  <2>4. TypeOK
    BY <2>2, <2>3 DEF TypeOK
  <2>. QED BY <2>3, <2>4 DEF SessionsMatch
<1>2. Inv => SessionsMatch
  BY <1>1
<1>. QED
  BY <1>2, Invariant, PTL

\* A service that waits for its next message has nothing left to resume, also after
\* coroutines that ended with errors in the middle of the queues.
THEOREM IdleIsDrained == Spec => []QueuesDrained
<1>1. Inv => QueuesDrained
  BY DEF Inv, Once, Start, Matched, Good, Drained, QueuesDrained, At
<1>. QED
  BY <1>1, Invariant, PTL

\* An error of session 0 comes only from a service that has exited.
THEOREM ErrorsOfTheDown == Spec => []DownIsDown
<1>1. Inv => DownIsDown
  BY DEF Inv, Once
<1>. QED
  BY <1>1, Invariant, PTL

\* A call is not lost: while skynet.call waits, its request, who owes the answer, the
\* answer or the news of an exit is somewhere.  Excluded are the calls whose handler
\* returned without an answer, and those a service owed when it was killed from outside
\* (skynet.kill), which it tells nobody of: these wait for ever.
THEOREM CallsPending == Spec => []CallPending
<1>1. Inv => CallPending
  BY DEF Inv
<1>. QED
  BY <1>1, Invariant, PTL

\* A call gets at most one answer, and every response finds its session: no mix of ret,
\* response, errors, exits, wake-ups and late timeouts raises "Unknown session".
THEOREM AnswersOnce == Spec => []AnsweredOnce
<1>1. Inv => AnsweredOnce
  BY DEF Inv, Once, Answers, AnsweredOnce
<1>. QED
  BY <1>1, Invariant, PTL

=============================================================================
