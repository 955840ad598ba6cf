----------------------------- MODULE LuaService -----------------------------
(***************************************************************************)
(* The runtime of a Lua service (lualib/skynet.lua): requests, responses   *)
(* and errors that are matched to coroutines by session numbers.           *)
(*                                                                         *)
(* A service takes one message at a time.  The coroutine the message       *)
(* starts or resumes runs until it yields; then suspend resumes the        *)
(* coroutines of wakeup_queue and error_queue, one after the other, and    *)
(* dispatch_message those of fork_queue.  What a coroutine does when it    *)
(* runs is up to the service: any call of the library, in any order.       *)
(*                                                                         *)
(* Mailboxes, handles and timers are the C core's, and appear as the core  *)
(* shows them to a service.                                                *)
(***************************************************************************)
EXTENDS Integers, Sequences, FiniteSets, FiniteSetsExt, SequencesExt

CONSTANTS
    Service,
    Workers,     \* worker threads: services that handle a message at the same time
    MaxSession,  \* bound on the session numbers of a service
    MaxCo,       \* bound on the coroutines of a service
    MaxOp,       \* bound on the calls, sends, sleeps, waits, wake-ups and forks
    NULL

Session == 1..MaxSession
Co == 1..MaxCo
NONE  == -1   \* no entry (nil)
BREAK == -2   \* the "BREAK" that takes a coroutine's place
NOP   == 0    \* in fork_queue: the empty function suspend forks after an error

\* What a coroutine that is in use does: it runs, is in fork_queue, or waits for a
\* session, for the first timeout, in a call, in sleep or in wait.
Blocked == [k : {"run", "fork", "start", "call", "sleep", "wait"},
            n : Session \cup {NONE}]

ASSUME LuaAssumption ==
    /\ Workers \in Nat \ {0}
    /\ MaxSession \in Nat \ {0} /\ MaxCo \in Nat \ {0}
    /\ MaxOp \in Nat
    /\ IsFiniteSet(Service)
    /\ NULL \notin Service /\ NULL \notin Blocked

VARIABLES
    alive,      \* services that have not exited
    box,        \* for each service its mailbox
    timers,     \* timeouts that have been set: service and session
    ops,        \* calls, sends, sleeps, waits, wake-ups and forks so far
    session,    \* for each service the last session number
    vm,         \* for each service the tables of skynet.lua, and:
                \*   pc   "idle" between messages, "run" when coroutine cur runs,
                \*        "suspend" after it has yielded, "fork" in
                \*        dispatch_message's loop
                \*   waits  what a suspended coroutine waits for
    \* History, for the properties:
    answers,    \* for each service and session, the answers that were sent
    forgotten,  \* calls whose handler returned without an answer, or that a
                \* service owed that was killed
    unknown     \* whether a response found no entry for its session

vars == <<alive, box, timers, ops, session, vm, answers, forgotten, unknown>>

-----------------------------------------------------------------------------
(* Messages.  A message to a service that has exited is not delivered. *)

Req(k, s)  == [type |-> "REQUEST", session |-> k, source |-> s]
Resp(k, s) == [type |-> "RESPONSE", session |-> k, source |-> s]
Err(k, s)  == [type |-> "ERROR", session |-> k, source |-> s]

\* c.send
Posted(b, to, m) == IF alive[to] THEN [b EXCEPT ![to] = Append(@, m)] ELSE b

Answered(to, k) == answers' = [answers EXCEPT ![to][k] = @ + 1]

NewSession(s) == session[s] + 1
TakeSession(s) ==
    /\ NewSession(s) \in Session
    /\ session' = [session EXCEPT ![s] = @ + 1]

-----------------------------------------------------------------------------
(* Coroutines. *)

Free(v) == {c \in Co : v.waits[c] = NULL}
co_create(v) == CHOOSE c \in Free(v) : TRUE

Running == [k |-> "run", n |-> NONE]
Ready   == [k |-> "fork", n |-> NONE]

\* The coroutine that runs yields "SUSPEND".
Suspend(v) == [v EXCEPT !.pc = "suspend", !.cur = NONE]

\* It waits for session n in a call, in sleep or in wait; sid_co finds it.
Wait(v, k, n) ==
    Suspend([v EXCEPT !.sid_co[n] = v.cur, !.waits[v.cur] = [k |-> k, n |-> n]])

\* coroutine_resume, and what the coroutine does first: yield_call, sleep and
\* wait take back the entries of its session.
Resume(v, c) ==
    LET n == v.waits[c].n
        w == [v EXCEPT !.pc = "run", !.cur = c, !.waits[c] = Running]
    IN  CASE v.waits[c].k = "call"  -> [w EXCEPT !.watching[n] = NULL]
          [] v.waits[c].k = "sleep" -> [w EXCEPT !.sleeping[c] = NONE]
          [] v.waits[c].k = "wait"  -> [w EXCEPT !.sleeping[c] = NONE, !.sid_co[n] = NONE]
          [] OTHER -> w

\* The coroutine is gone, or back in the pool, and its request forgotten.
Release(v, c) == [v EXCEPT !.waits[c] = NULL, !.co_sid[c] = NONE, !.co_addr[c] = NULL]

EmptyVM ==
    [pc |-> "idle", cur |-> NONE, waits |-> [c \in Co |-> NULL],
     sid_co |-> [n \in Session |-> NONE], watching |-> [n \in Session |-> NULL],
     co_sid |-> [c \in Co |-> NONE], co_addr |-> [c \in Co |-> NULL],
     sleeping |-> [c \in Co |-> NONE], wakeup_queue |-> <<>>,
     error_queue |-> <<>>, fork_queue |-> <<>>, unresponse |-> {}]

\* skynet.start: the main function waits for its first timeout.
Init ==
    /\ alive = [s \in Service |-> TRUE]
    /\ box = [s \in Service |-> <<>>]
    /\ timers = {<<s, 1>> : s \in Service}
    /\ ops = 0
    /\ session = [s \in Service |-> 1]
    /\ vm = [s \in Service |->
                [EmptyVM EXCEPT !.sid_co[1] = 1, !.waits[1] = [k |-> "start", n |-> 1]]]
    /\ answers = [s \in Service |-> [n \in Session |-> 0]]
    /\ forgotten = {}
    /\ unknown = FALSE

At(s, p) == alive[s] /\ vm[s].pc = p
Set(s, v) == vm' = [vm EXCEPT ![s] = v]

-----------------------------------------------------------------------------
(* dispatch_message: a message starts or resumes a coroutine. *)

\* The next message of an idle service has this type; it is taken.
Receive(s, type) ==
    /\ At(s, "idle") /\ box[s] # <<>> /\ Head(box[s]).type = type
    /\ Cardinality({t \in Service : vm[t].pc # "idle"}) < Workers

msg(s) == Head(box[s])
Taken(s) == [box EXCEPT ![s] = Tail(@)]

\* A response resumes the coroutine of its session, is ignored if "BREAK" is
\* there, and raises an error if nothing is.
ResponseMessage(s) ==
    /\ Receive(s, "RESPONSE")
    /\ LET n == msg(s).session
           c == vm[s].sid_co[n]
           v == [vm[s] EXCEPT !.sid_co[n] = NONE]
       IN  /\ Set(s, IF c \in Co THEN Resume(v, c) ELSE [v EXCEPT !.pc = "fork"])
           /\ unknown' = (unknown \/ c = NONE)
    /\ box' = Taken(s)
    /\ UNCHANGED <<alive, timers, ops, session, answers, forgotten>>

\* A request starts a coroutine for the service's dispatch function.
RequestMessage(s) ==
    /\ Receive(s, "REQUEST") /\ Free(vm[s]) # {}
    /\ LET c == co_create(vm[s]) IN
        Set(s, [vm[s] EXCEPT !.pc = "run", !.cur = c, !.waits[c] = Running,
                             !.co_sid[c] = msg(s).session, !.co_addr[c] = msg(s).source])
    /\ box' = Taken(s)
    /\ UNCHANGED <<alive, timers, ops, session, answers, forgotten, unknown>>

\* There is no dispatch function for it: a call gets an error.
RequestRefused(s) ==
    /\ Receive(s, "REQUEST")
    /\ Set(s, [vm[s] EXCEPT !.pc = "fork"])
    /\ LET m == msg(s) IN
        IF m.session # 0
        THEN /\ box' = Posted(Taken(s), m.source, Err(m.session, s))
             /\ Answered(m.source, m.session)
        ELSE box' = Taken(s) /\ UNCHANGED answers
    /\ UNCHANGED <<alive, timers, ops, session, forgotten, unknown>>

\* _error_dispatch, in a coroutine of its own that ends: the calls to fail go to
\* error_queue.  Session 0 means that the source is down.
ErrorMessage(s) ==
    /\ Receive(s, "ERROR")
    /\ LET v == vm[s]
           m == msg(s)
           failed == IF m.session = 0
                     THEN SetToSeq({n \in Session : v.watching[n] = m.source})
                     ELSE IF v.watching[m.session] # NULL THEN <<m.session>> ELSE <<>>
       IN  Set(s, [v EXCEPT !.pc = "suspend", !.error_queue = @ \o failed,
                !.unresponse = IF m.session # 0 THEN @
                               ELSE {r \in @ : r.addr # m.source}])
    /\ box' = Taken(s)
    /\ UNCHANGED <<alive, timers, ops, session, answers, forgotten, unknown>>

-----------------------------------------------------------------------------
(* suspend: the queues are worked off. *)

\* Mutant: the session of the sleep is left as it is.
DispatchWakeup_nobreak(s) ==
    /\ At(s, "suspend") /\ vm[s].wakeup_queue # <<>>
    /\ LET c == Head(vm[s].wakeup_queue)
           n == vm[s].sleeping[c]
           v == [vm[s] EXCEPT !.wakeup_queue = Tail(@)]
       IN  Set(s, IF n = NONE THEN v ELSE Resume([v EXCEPT !.sid_co[n] = NONE], c))
    /\ UNCHANGED <<alive, box, timers, ops, session, answers, forgotten, unknown>>

\* dispatch_wakeup: the next token, if it is still asleep.  "BREAK" stands for the
\* timeout that is still to come.
DispatchWakeup(s) ==
    /\ At(s, "suspend") /\ vm[s].wakeup_queue # <<>>
    /\ LET c == Head(vm[s].wakeup_queue)
           n == vm[s].sleeping[c]
           v == [vm[s] EXCEPT !.wakeup_queue = Tail(@)]
       IN  Set(s, IF n = NONE THEN v ELSE Resume([v EXCEPT !.sid_co[n] = BREAK], c))
    /\ UNCHANGED <<alive, box, timers, ops, session, answers, forgotten, unknown>>

\* Mutant: the session keeps its coroutine.
DispatchError_keep(s) ==
    /\ At(s, "suspend") /\ vm[s].wakeup_queue = <<>> /\ vm[s].error_queue # <<>>
    /\ LET c == vm[s].sid_co[Head(vm[s].error_queue)]
           v == [vm[s] EXCEPT !.error_queue = Tail(@)]
       IN  Set(s, IF c \in Co THEN Resume(v, c) ELSE [v EXCEPT !.pc = "fork"])
    /\ UNCHANGED <<alive, box, timers, ops, session, answers, forgotten, unknown>>

\* dispatch_error_queue: the next call fails.  Without a coroutine, resume raises
\* an error.
DispatchError(s) ==
    /\ At(s, "suspend") /\ vm[s].wakeup_queue = <<>> /\ vm[s].error_queue # <<>>
    /\ LET n == Head(vm[s].error_queue)
           c == vm[s].sid_co[n]
           v == [vm[s] EXCEPT !.error_queue = Tail(@), !.sid_co[n] = NONE]
       IN  Set(s, IF c \in Co THEN Resume(v, c) ELSE [v EXCEPT !.pc = "fork"])
    /\ UNCHANGED <<alive, box, timers, ops, session, answers, forgotten, unknown>>

\* Both queues are empty.
SuspendReturns(s) ==
    /\ At(s, "suspend") /\ vm[s].wakeup_queue = <<>> /\ vm[s].error_queue = <<>>
    /\ Set(s, [vm[s] EXCEPT !.pc = "fork"])
    /\ UNCHANGED <<alive, box, timers, ops, session, answers, forgotten, unknown>>

\* The loop of dispatch_message.
DispatchFork(s) ==
    /\ At(s, "fork")
    /\ LET q == vm[s].fork_queue IN
        Set(s, IF q = <<>> THEN [vm[s] EXCEPT !.pc = "idle"]
               ELSE LET v == [vm[s] EXCEPT !.fork_queue = Tail(@)] IN
                    IF Head(q) = NOP THEN [v EXCEPT !.pc = "suspend"]
                    ELSE Resume(v, Head(q)))
    /\ UNCHANGED <<alive, box, timers, ops, session, answers, forgotten, unknown>>

-----------------------------------------------------------------------------
(* What a coroutine that runs can do. *)

cur(s) == vm[s].cur

\* The request the coroutine works on, if it is a call and not answered yet.
Owes(v, c) == v.co_sid[c] \notin {NONE, 0}

\* The calls a service owes an answer: its coroutines, and the closures they left.
Debts(v) ==
    v.unresponse \cup {[addr |-> v.co_addr[c], session |-> v.co_sid[c]] :
                        c \in {d \in Co : Owes(v, d)}}

\* One more of the operations that are bounded.
Op(s) == At(s, "run") /\ ops < MaxOp /\ ops' = ops + 1

\* skynet.call, of a service that is there; it fails otherwise.
Call(s) ==
    /\ Op(s) /\ TakeSession(s)
    /\ LET n == NewSession(s) IN \E t \in Service :
        /\ alive[t]
        /\ box' = Posted(box, t, Req(n, s))
        /\ Set(s, Wait([vm[s] EXCEPT !.watching[n] = t], "call", n))
    /\ UNCHANGED <<alive, timers, answers, forgotten, unknown>>

\* skynet.send
Send(s) ==
    /\ Op(s)
    /\ \E t \in Service : box' = Posted(box, t, Req(0, s))
    /\ UNCHANGED <<alive, timers, session, vm, answers, forgotten, unknown>>

\* skynet.sleep, on the coroutine itself as the token.
Sleep(s) ==
    /\ Op(s) /\ TakeSession(s)
    /\ timers' = timers \cup {<<s, NewSession(s)>>}
    /\ Set(s, Wait([vm[s] EXCEPT !.sleeping[cur(s)] = NewSession(s)],
                   "sleep", NewSession(s)))
    /\ UNCHANGED <<alive, box, answers, forgotten, unknown>>

\* skynet.wait
WaitToken(s) ==
    /\ Op(s) /\ TakeSession(s)
    /\ Set(s, Wait([vm[s] EXCEPT !.sleeping[cur(s)] = NewSession(s)],
                   "wait", NewSession(s)))
    /\ UNCHANGED <<alive, box, timers, answers, forgotten, unknown>>

\* skynet.wakeup
Wakeup(s) ==
    /\ Op(s)
    /\ \E c \in Co : /\ vm[s].sleeping[c] # NONE
                     /\ Set(s, [vm[s] EXCEPT !.wakeup_queue = Append(@, c)])
    /\ UNCHANGED <<alive, box, timers, session, answers, forgotten, unknown>>

\* skynet.fork
Fork(s) ==
    /\ Op(s) /\ Free(vm[s]) # {}
    /\ LET c == co_create(vm[s]) IN
        Set(s, [vm[s] EXCEPT !.fork_queue = Append(@, c), !.waits[c] = Ready])
    /\ UNCHANGED <<alive, box, timers, session, answers, forgotten, unknown>>

\* skynet.ret; for a request that was sent it only takes the session back.
Ret(s) ==
    /\ At(s, "run") /\ vm[s].co_sid[cur(s)] # NONE
    /\ LET v == vm[s]
           c == cur(s)
       IN  /\ IF Owes(v, c)
              THEN /\ box' = Posted(box, v.co_addr[c], Resp(v.co_sid[c], s))
                   /\ Answered(v.co_addr[c], v.co_sid[c])
              ELSE UNCHANGED <<box, answers>>
           /\ Set(s, [v EXCEPT !.co_sid[c] = NONE])
    /\ UNCHANGED <<alive, timers, ops, session, forgotten, unknown>>

\* skynet.response: the answer is left to a closure, which unresponse remembers.
Response(s) ==
    /\ At(s, "run") /\ Owes(vm[s], cur(s))
    /\ LET v == vm[s]
           c == cur(s)
       IN  Set(s, [v EXCEPT !.co_sid[c] = NONE, !.unresponse =
                @ \cup {[addr |-> v.co_addr[c], session |-> v.co_sid[c]]}])
    /\ UNCHANGED <<alive, box, timers, ops, session, answers, forgotten, unknown>>

\* The closure is called, by any coroutine of the service.
Respond(s) ==
    /\ At(s, "run")
    /\ \E r \in vm[s].unresponse, ok \in BOOLEAN :
        /\ box' = Posted(box, r.addr, IF ok THEN Resp(r.session, s) ELSE Err(r.session, s))
        /\ Answered(r.addr, r.session)
        /\ Set(s, [vm[s] EXCEPT !.unresponse = @ \ {r}])
    /\ UNCHANGED <<alive, timers, ops, session, forgotten, unknown>>

\* The coroutine's function returns.  A call it has not answered is forgotten.
Finish(s) ==
    /\ At(s, "run")
    /\ LET v == vm[s]
           c == cur(s)
       IN  /\ Set(s, Suspend(Release(v, c)))
           /\ forgotten' = IF Owes(v, c) THEN forgotten \cup {<<v.co_addr[c], v.co_sid[c]>>}
                           ELSE forgotten
    /\ UNCHANGED <<alive, box, timers, ops, session, answers, unknown>>

\* Mutant: suspend does not fork anything.
Fail_quiet(s) ==
    /\ At(s, "run")
    /\ LET v == vm[s]
           c == cur(s)
       IN  /\ Set(s, [Release(v, c) EXCEPT !.pc = "fork", !.cur = NONE])
           /\ IF Owes(v, c)
              THEN /\ box' = Posted(box, v.co_addr[c], Err(v.co_sid[c], s))
                   /\ Answered(v.co_addr[c], v.co_sid[c])
              ELSE UNCHANGED <<box, answers>>
    /\ UNCHANGED <<alive, timers, ops, session, forgotten, unknown>>

\* Mutant: a request that was sent is answered too.
Fail_sent(s) ==
    /\ At(s, "run")
    /\ LET v == vm[s]
           c == cur(s)
       IN  /\ Set(s, [Release(v, c) EXCEPT !.pc = "fork", !.cur = NONE,
                                           !.fork_queue = Append(@, NOP)])
           /\ IF v.co_sid[c] # NONE
              THEN box' = Posted(box, v.co_addr[c], Err(v.co_sid[c], s))
              ELSE UNCHANGED box
    /\ UNCHANGED <<alive, timers, ops, session, answers, forgotten, unknown>>

\* The coroutine ends with an error: suspend answers its call with an error, and
\* forks an empty function so that the queues are worked off all the same.
Fail(s) ==
    /\ At(s, "run")
    /\ LET v == vm[s]
           c == cur(s)
       IN  /\ Set(s, [Release(v, c) EXCEPT !.pc = "fork", !.cur = NONE,
                                           !.fork_queue = Append(@, NOP)])
           /\ IF Owes(v, c)
              THEN /\ box' = Posted(box, v.co_addr[c], Err(v.co_sid[c], s))
                   /\ Answered(v.co_addr[c], v.co_sid[c])
              ELSE UNCHANGED <<box, answers>>
    /\ UNCHANGED <<alive, timers, ops, session, forgotten, unknown>>

\* What a service that exits sends to t: an error for every call of t it owes an
\* answer, and the news that it is down if it is calling t itself.
LastErrors(s, t, owed) ==
    SetToSeq({Err(r.session, s) : r \in {q \in owed : q.addr = t}})
LastNews(s, t, calls) == IF t \in calls THEN <<Err(0, s)>> ELSE <<>>

\* Mutant: the answers that closures owe are not reported.
Exit_unresponse(s) ==
    /\ At(s, "run")
    /\ LET v == vm[s]
           owed  == {[addr |-> v.co_addr[c], session |-> v.co_sid[c]] :
                        c \in {d \in Co : Owes(v, d)}}
           calls == {v.watching[n] : n \in Session} \ {NULL}
       IN  /\ box' = [t \in Service |-> IF ~alive[t] THEN box[t] ELSE
                        box[t] \o LastErrors(s, t, owed) \o LastNews(s, t, calls)]
           /\ answers' = [t \in Service |-> [n \in Session |-> answers[t][n] +
                    IF [addr |-> t, session |-> n] \in owed THEN 1 ELSE 0]]
    /\ alive' = [alive EXCEPT ![s] = FALSE]
    /\ Set(s, EmptyVM)
    /\ UNCHANGED <<timers, ops, session, forgotten, unknown>>

\* skynet.exit: those who wait for an answer get an error, and those who are called
\* are told that the service is down; then the handle is retired.
Exit(s) ==
    /\ At(s, "run")
    /\ LET v == vm[s]
           owed  == Debts(v)
           calls == {v.watching[n] : n \in Session} \ {NULL}
       IN  /\ box' = [t \in Service |-> IF ~alive[t] THEN box[t] ELSE
                        box[t] \o LastErrors(s, t, owed) \o LastNews(s, t, calls)]
           /\ answers' = [t \in Service |-> [n \in Session |-> answers[t][n] +
                    IF [addr |-> t, session |-> n] \in owed THEN 1 ELSE 0]]
    /\ alive' = [alive EXCEPT ![s] = FALSE]
    /\ Set(s, EmptyVM)
    /\ UNCHANGED <<timers, ops, session, forgotten, unknown>>

\* A coroutine that waits is killed.  What it owes is answered with an
\* error of its session, which is 0 for a request that was sent; when it has
\* been answered the session is nil, and c.send allocates one.
KillWaiting(s, c, n) ==
    LET v == vm[s]
        k == IF v.co_sid[c] = NONE THEN NewSession(s) ELSE v.co_sid[c]
    IN  /\ v.sid_co[n] = c
        /\ Set(s, [Release(v, c) EXCEPT !.sleeping[c] = NONE, !.watching[n] = NULL,
                !.sid_co[n] = IF v.watching[n] # NULL THEN BREAK ELSE NONE])
        /\ IF v.co_addr[c] = NULL THEN UNCHANGED <<box, session>>
           ELSE /\ box' = Posted(box, v.co_addr[c], Err(k, s))
                /\ IF v.co_sid[c] = NONE THEN TakeSession(s) ELSE UNCHANGED session
        /\ IF Owes(v, c) THEN Answered(v.co_addr[c], v.co_sid[c])
           ELSE UNCHANGED answers

\* skynet.killthread; a coroutine in fork_queue is only taken out.
KillThread(s) ==
    /\ At(s, "run")
    /\ \E c \in Co :
        \/ /\ c \in ToSet(vm[s].fork_queue)
           /\ Set(s, [vm[s] EXCEPT !.waits[c] = NULL,
                    !.fork_queue = SelectSeq(@, LAMBDA d : d # c)])
           /\ UNCHANGED <<box, session, answers>>
        \/ \E n \in Session : KillWaiting(s, c, n)
    /\ UNCHANGED <<alive, timers, ops, forgotten, unknown>>

-----------------------------------------------------------------------------
(* The C core. *)

\* A timeout is a response from nobody.
Timeout(s) ==
    /\ \E n \in Session :
        /\ <<s, n>> \in timers
        /\ timers' = timers \ {<<s, n>>}
        /\ box' = Posted(box, s, Resp(n, NULL))
    /\ UNCHANGED <<alive, ops, session, vm, answers, forgotten, unknown>>

\* drop_message: the source of a message left in the mailbox of a service that has
\* exited is told that the service is down.
DropMessage(s) ==
    /\ ~alive[s] /\ box[s] # <<>>
    /\ box' = IF msg(s).source = NULL THEN Taken(s)
              ELSE Posted(Taken(s), msg(s).source, Err(0, s))
    /\ UNCHANGED <<alive, timers, ops, session, vm, answers, forgotten, unknown>>

\* skynet.kill of another service: its handle is retired and it is told nothing, so
\* it tells nobody what it owes.  A message it is working on it finishes first: the
\* retirement appears here with the end of that message.
Kill(s) ==
    /\ At(s, "idle")
    /\ alive' = [alive EXCEPT ![s] = FALSE]
    /\ Set(s, EmptyVM)
    /\ forgotten' = forgotten \cup {<<r.addr, r.session>> : r \in Debts(vm[s])}
    /\ UNCHANGED <<box, timers, ops, session, answers, unknown>>

Coroutine(s) ==
    \/ Call(s) \/ Send(s) \/ Sleep(s) \/ WaitToken(s) \/ Wakeup(s) \/ Fork(s)
    \/ Ret(s) \/ Response(s) \/ Respond(s) \/ Finish(s) \/ Fail(s) \/ Exit(s)

Dispatch(s) ==
    \/ ResponseMessage(s) \/ RequestMessage(s) \/ RequestRefused(s) \/ ErrorMessage(s)
    \/ DispatchWakeup(s) \/ DispatchError(s) \/ SuspendReturns(s) \/ DispatchFork(s)

Next == \E s \in Service :
            Coroutine(s) \/ Dispatch(s) \/ Timeout(s) \/ DropMessage(s) \/ Kill(s)

Spec == Init /\ [][Next]_vars

\* The same, with killthread.
KillSpec == Init /\ [][Next \/ \E s \in Service : KillThread(s)]_vars

-----------------------------------------------------------------------------
(* Properties *)

TypeOK ==
    /\ session \in [Service -> 0..MaxSession]
    /\ \A s \in Service : LET v == vm[s] IN
        /\ v.pc \in {"idle", "run", "suspend", "fork"}
        /\ v.cur \in Co \cup {NONE} /\ (v.cur \in Co <=> v.pc = "run")
        /\ v.sid_co \in [Session -> Co \cup {NONE, BREAK}]
        /\ v.co_sid \in [Co -> Session \cup {NONE, 0}]
        /\ \A i \in DOMAIN v.error_queue : v.error_queue[i] \in Session

\* Every coroutine that is suspended is found under exactly the session it waits
\* for, and what is found under a session waits for it: no message, wake-up or
\* error resumes a coroutine that runs, has ended or waits for something else.
\* What wakeup_queue and error_queue still hold is about these.
SessionsMatch == TypeOK /\
    \A s \in Service : alive[s] => LET v == vm[s] IN
        /\ \A n \in Session : v.sid_co[n] \in Co =>
                /\ v.waits[v.sid_co[n]] # NULL
                /\ v.waits[v.sid_co[n]].n = n
        /\ \A c \in Co : v.waits[c] # NULL /\ v.waits[c].n # NONE =>
                v.sid_co[v.waits[c].n] = c
        /\ \A i \in DOMAIN v.error_queue : v.sid_co[v.error_queue[i]] \in Co

\* Between two messages nothing is left to resume: also when coroutines end with
\* errors in the middle of the queues.
QueuesDrained ==
    \A s \in Service : At(s, "idle") =>
        vm[s].wakeup_queue = <<>> /\ vm[s].error_queue = <<>> /\ vm[s].fork_queue = <<>>

\* A call is answered at most once, and a response always finds its session
\* (otherwise raw_dispatch_message raises "Unknown session"): whatever mix of
\* ret, response, errors, exits, wake-ups and late timeouts there is.
AnsweredOnce ==
    /\ ~unknown
    /\ \A s \in Service, n \in Session : answers[s][n] <= 1

\* A caller never waits in vain: as long as it waits for session n of a service,
\* the request, somebody who owes the answer, the answer, or the news that the
\* service is down is somewhere.  Two cases are excluded, in which the code lets it
\* wait for ever: a handler returned without an answer, and the service was killed
\* from outside (skynet.kill) when it owed the answer, and so told nobody.
CallPending ==
    \A s \in Service, n \in Session :
        alive[s] /\ vm[s].watching[n] # NULL =>
            LET t == vm[s].watching[n] IN
            \/ <<s, n>> \in forgotten
            \/ \E m \in ToSet(box[t]) : m = Req(n, s)
            \/ \E c \in Co : alive[t] /\ vm[t].co_sid[c] = n /\ vm[t].co_addr[c] = s
            \/ alive[t] /\ [addr |-> s, session |-> n] \in vm[t].unresponse
            \/ \E m \in ToSet(box[s]) : m \in {Resp(n, t), Err(n, t), Err(0, t)}
            \/ n \in ToSet(vm[s].error_queue)

\* An error of session 0 comes from a service that is down (comment in
\* _error_dispatch): on it all calls of that service are given up.
DownIsDown ==
    \A s \in Service : \A m \in ToSet(box[s]) :
        m.type = "ERROR" /\ m.session = 0 => ~alive[m.source]

=============================================================================
