------------------------------ MODULE Threads ------------------------------
(***************************************************************************)
(* The threads of skynet_start.c: workers that sleep on a condition when   *)
(* the global queue is empty, the timer and the socket thread that wake    *)
(* them, the monitor thread, and the shutdown when the last service is     *)
(* gone.                                                                   *)
(*                                                                         *)
(* What a worker does with a queue is ServiceDispatch; here a dispatch     *)
(* takes a queue off the global queue, may push other queues (nobody is    *)
(* woken for them: skynet_globalmq_push does not signal) and may launch or *)
(* delete a service.                                                       *)
(***************************************************************************)
EXTENDS Integers, FiniteSets

CONSTANTS
    Worker,      \* worker threads
    MaxTotal,    \* bound on the services alive at a time
    MaxPush      \* bound on the queues that are pushed in a run

ASSUME ThreadsAssumption ==
    /\ IsFiniteSet(Worker) /\ Worker # {}
    /\ MaxTotal \in Nat \ {0} /\ MaxPush \in Nat
    /\ {"timer", "socket", "monitor", "nobody"} \cap Worker = {}

Thread == Worker \cup {"timer", "socket", "monitor"}
count  == Cardinality(Worker)
Nobody == "nobody"

VARIABLES
    work,     \* length of the global queue
    pushes,   \* queues pushed so far
    total,    \* skynet_context_total()
    sleep,    \* m->sleep
    quit,     \* m->quit
    mutex,    \* the owner of m->mutex
    waiting,  \* workers blocked in pthread_cond_wait
    exitcmd,  \* skynet_socket_exit has been called
    pc

shared == <<work, pushes, total>>
vars == <<shared, sleep, quit, mutex, waiting, exitcmd, pc>>

Init ==
    /\ work = 1
    /\ pushes = 0
    /\ total \in 1..MaxTotal
    /\ sleep = 0
    /\ quit = FALSE
    /\ mutex = Nobody
    /\ waiting = {}
    /\ exitcmd = FALSE
    /\ pc = [t \in Thread |-> CASE t \in Worker -> "loop"
                                [] t = "timer" -> "update"
                                [] t = "socket" -> "poll"
                                [] OTHER -> "check"]

Goto(t, l) == pc' = [pc EXCEPT ![t] = l]

\* Push k queues, as far as the bound allows.
PushWork(left, k) ==
    /\ pushes + k <= MaxPush
    /\ pushes' = pushes + k
    /\ work' = left + k

-----------------------------------------------------------------------------
(* thread_worker *)

\* while (!m->quit), without the mutex
WorkerLoop(w) ==
    /\ pc[w] = "loop"
    /\ Goto(w, IF quit THEN "exit" ELSE "dispatch")
    /\ UNCHANGED <<shared, sleep, quit, mutex, waiting, exitcmd>>

\* skynet_context_message_dispatch handles a queue.  A callback runs only while
\* its service is alive, and only a callback launches services.
WorkerDispatch(w) ==
    /\ pc[w] = "dispatch"
    /\ work > 0
    /\ \E k \in {0, 1} : PushWork(work - 1, IF total > 0 THEN k ELSE 0)
    /\ total' \in {total} \cup (IF total > 0 THEN {total - 1, total + 1} ELSE {})
    /\ total' <= MaxTotal
    /\ Goto(w, "loop")
    /\ UNCHANGED <<sleep, quit, mutex, waiting, exitcmd>>

\* It returns NULL: the global queue is empty.
WorkerIdle(w) ==
    /\ pc[w] = "dispatch"
    /\ work = 0
    /\ Goto(w, "lock")
    /\ UNCHANGED <<shared, sleep, quit, mutex, waiting, exitcmd>>

\* pthread_mutex_lock, ++ m->sleep
WorkerLock(w) ==
    /\ pc[w] = "lock" /\ mutex = Nobody
    /\ mutex' = w
    /\ sleep' = sleep + 1
    /\ Goto(w, "asleep")
    /\ UNCHANGED <<shared, quit, waiting, exitcmd>>

\* Mutant: wait without looking at m->quit again.
WorkerWait_blind(w) ==
    /\ pc[w] = "asleep"
    /\ Goto(w, "wait")
    /\ mutex' = Nobody
    /\ waiting' = waiting \cup {w}
    /\ UNCHANGED <<shared, sleep, quit, exitcmd>>

\* if (!m->quit) pthread_cond_wait
WorkerWait(w) ==
    /\ pc[w] = "asleep"
    /\ IF quit
       THEN /\ Goto(w, "unlock")
            /\ UNCHANGED <<mutex, waiting>>
       ELSE /\ Goto(w, "wait")
            /\ mutex' = Nobody
            /\ waiting' = waiting \cup {w}
    /\ UNCHANGED <<shared, sleep, quit, exitcmd>>

\* pthread_cond_wait returns with the mutex, once w has been woken.
WorkerWoken(w) ==
    /\ pc[w] = "wait" /\ w \notin waiting /\ mutex = Nobody
    /\ mutex' = w
    /\ Goto(w, "unlock")
    /\ UNCHANGED <<shared, sleep, quit, waiting, exitcmd>>

\* A spurious wakeup.
SpuriousWakeup(w) ==
    /\ w \in waiting
    /\ waiting' = waiting \ {w}
    /\ UNCHANGED <<shared, sleep, quit, mutex, exitcmd, pc>>

\* -- m->sleep, pthread_mutex_unlock
WorkerUnlock(w) ==
    /\ pc[w] = "unlock"
    /\ sleep' = sleep - 1
    /\ mutex' = Nobody
    /\ Goto(w, "loop")
    /\ UNCHANGED <<shared, quit, waiting, exitcmd>>

-----------------------------------------------------------------------------

\* wakeup(m, busy): m->sleep is read without the mutex; pthread_cond_signal
\* wakes one of those that wait by now, if any.
Wakeup(busy) ==
    IF sleep >= count - busy /\ waiting # {}
    THEN \E w \in waiting : waiting' = waiting \ {w}
    ELSE UNCHANGED waiting

(* thread_timer *)

\* skynet_updatetime: the timers that are due push their queues.
TimerUpdate ==
    /\ pc["timer"] = "update"
    /\ \E k \in {0, 1} : PushWork(work, k)
    /\ Goto("timer", "check")
    /\ UNCHANGED <<total, sleep, quit, mutex, waiting, exitcmd>>

\* CHECK_ABORT
TimerCheck ==
    /\ pc["timer"] = "check"
    /\ Goto("timer", IF total = 0 THEN "stop" ELSE "wakeup")
    /\ UNCHANGED <<shared, sleep, quit, mutex, waiting, exitcmd>>

\* Mutant: the timer thread wakes nobody.
TimerWakeup_none ==
    /\ pc["timer"] = "wakeup"
    /\ Goto("timer", "update")
    /\ UNCHANGED <<shared, sleep, quit, mutex, waiting, exitcmd>>

\* wakeup(m, m->count - 1): wake a worker whenever one sleeps.
TimerWakeup ==
    /\ pc["timer"] = "wakeup"
    /\ Wakeup(count - 1)
    /\ Goto("timer", "update")
    /\ UNCHANGED <<shared, sleep, quit, mutex, exitcmd>>

\* Mutant: the socket thread is not told.
TimerStop_silent ==
    /\ pc["timer"] = "stop"
    /\ Goto("timer", "quit")
    /\ UNCHANGED <<shared, sleep, quit, mutex, waiting, exitcmd>>

\* skynet_socket_exit
TimerStop ==
    /\ pc["timer"] = "stop"
    /\ exitcmd' = TRUE
    /\ Goto("timer", "quit")
    /\ UNCHANGED <<shared, sleep, quit, mutex, waiting>>

\* m->quit = 1 and pthread_cond_broadcast, with the mutex held.
TimerQuit ==
    /\ pc["timer"] = "quit" /\ mutex = Nobody
    /\ quit' = TRUE
    /\ waiting' = {}
    /\ Goto("timer", "exit")
    /\ UNCHANGED <<shared, sleep, mutex, exitcmd>>

-----------------------------------------------------------------------------
(* thread_socket and thread_monitor *)

\* skynet_socket_poll handles an event and pushes a message (r > 0).
SocketEvent ==
    /\ pc["socket"] = "poll"
    /\ pushes < MaxPush
    /\ PushWork(work, 1)
    /\ Goto("socket", "wakeup")
    /\ UNCHANGED <<total, sleep, quit, mutex, waiting, exitcmd>>

\* wakeup(m, 0): wake a worker only when all of them sleep.
SocketWakeup ==
    /\ pc["socket"] = "wakeup"
    /\ Wakeup(0)
    /\ Goto("socket", "poll")
    /\ UNCHANGED <<shared, sleep, quit, mutex, exitcmd>>

\* An event that pushes nothing (r < 0): CHECK_ABORT.
SocketCheck ==
    /\ pc["socket"] = "poll"
    /\ Goto("socket", IF total = 0 THEN "exit" ELSE "poll")
    /\ UNCHANGED <<shared, sleep, quit, mutex, waiting, exitcmd>>

\* The exit command of skynet_socket_exit (r == 0).
SocketExit ==
    /\ pc["socket"] = "poll" /\ exitcmd
    /\ Goto("socket", "exit")
    /\ UNCHANGED <<shared, sleep, quit, mutex, waiting, exitcmd>>

\* CHECK_ABORT of the monitor thread, every second.
MonitorCheck ==
    /\ pc["monitor"] = "check"
    /\ Goto("monitor", IF total = 0 THEN "exit" ELSE "check")
    /\ UNCHANGED <<shared, sleep, quit, mutex, waiting, exitcmd>>

\* start() has joined every thread: the process goes on to its end.
Joined ==
    /\ \A t \in Thread : pc[t] = "exit"
    /\ UNCHANGED vars

-----------------------------------------------------------------------------

WorkerStep(w) ==
    \/ WorkerLoop(w) \/ WorkerDispatch(w) \/ WorkerIdle(w)
    \/ WorkerWait(w) \/ WorkerUnlock(w)
TimerStep == TimerUpdate \/ TimerCheck \/ TimerWakeup \/ TimerStop

Next ==
    \/ \E w \in Worker : \/ WorkerStep(w) \/ WorkerLock(w) \/ WorkerWoken(w)
                         \/ SpuriousWakeup(w)
    \/ TimerStep \/ TimerQuit
    \/ SocketEvent \/ SocketWakeup \/ SocketCheck \/ SocketExit
    \/ MonitorCheck
    \/ Joined

\* Every thread runs, and gets the mutex when it waits for it and others keep
\* giving it back.  Nothing is assumed of events or of spurious wakeups.
Fairness ==
    /\ \A w \in Worker : /\ WF_vars(WorkerStep(w))
                         /\ SF_vars(WorkerLock(w)) /\ SF_vars(WorkerWoken(w))
    /\ WF_vars(TimerStep) /\ SF_vars(TimerQuit)
    /\ WF_vars(SocketWakeup) /\ WF_vars(SocketExit)
    /\ WF_vars(MonitorCheck)

Spec == Init /\ [][Next]_vars
FairSpec == Spec /\ Fairness

-----------------------------------------------------------------------------
(* Properties. *)

\* The fields of struct monitor and the threads' positions have their types.
TypeOK ==
    /\ work \in Nat /\ pushes \in 0..MaxPush /\ total \in 0..MaxTotal
    /\ sleep \in 0..count
    /\ quit \in BOOLEAN /\ exitcmd \in BOOLEAN
    /\ mutex \in Worker \cup {Nobody}
    /\ waiting \subseteq Worker
    /\ pc \in [Thread -> {"loop", "dispatch", "lock", "asleep", "wait", "unlock",
                          "update", "check", "wakeup", "stop", "quit",
                          "poll", "exit"}]

\* After the broadcast of the timer thread nobody waits on the condition any
\* more: the test of m->quit under the mutex closes the gap between a worker's
\* last look at m->quit and its sleep.
NobodySleepsAfterQuit == TypeOK /\ (pc["timer"] = "exit" => waiting = {})

\* No queue stays in the global queue for ever although the workers sleep
\* (whoever pushes does not signal, and wakeup() can miss a worker on its way
\* to sleep), unless the process is on its way out.
WorkIsTaken == (work > 0) ~> (work = 0 \/ quit)

\* When the last service is gone all threads end, and start() returns.
Shutdown == (total = 0) ~> (\A t \in Thread : pc[t] = "exit")
=============================================================================
