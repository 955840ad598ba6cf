---------------------------- MODULE ThreadsProofs ----------------------------
(***************************************************************************)
(* Proofs about Threads, for any number of workers.                        *)
(***************************************************************************)
EXTENDS Threads, FiniteSetTheorems, TLAPS

\* The workers between ++ m->sleep and -- m->sleep.
Asleep == {"asleep", "wait", "unlock"}
Sleepers == {w \in Worker : pc[w] \in Asleep}

\* Every thread is at a place of its own function.
Places ==
    /\ \A w \in Worker : pc[w] \in {"loop", "dispatch", "lock", "asleep", "wait", "unlock", "exit"}
    /\ pc["timer"] \in {"update", "check", "wakeup", "stop", "quit", "exit"}
    /\ pc["socket"] \in {"poll", "wakeup", "exit"}
    /\ pc["monitor"] \in {"check", "exit"}

\* m->sleep counts the workers on their way through pthread_cond_wait.
SleepCounted == sleep = Cardinality(Sleepers)

\* The mutex is held by the worker that is inside, and by nobody else: at most
\* one worker is between the lock and the wait, or between the wait and the unlock.
MutexHeld == \A w \in Worker : mutex = w <=> pc[w] \in {"asleep", "unlock"}

\* Only a worker in pthread_cond_wait waits on the condition, and nobody does
\* once m->quit is set, which the timer thread does last.
WaitersWait ==
    /\ \A w \in waiting : pc[w] = "wait"
    /\ quit <=> pc["timer"] = "exit"
    /\ quit => waiting = {}

Inv == TypeOK /\ Places /\ SleepCounted /\ MutexHeld /\ WaitersWait

-----------------------------------------------------------------------------

\* The set of sleepers is finite, and no larger than the set of workers.
LEMMA SleepersFinite ==
    /\ IsFiniteSet(Sleepers) /\ Cardinality(Sleepers) \in 0..count
    /\ IsFiniteSet(Sleepers') /\ Cardinality(Sleepers') \in 0..count
<1>1. ASSUME NEW S \in SUBSET Worker
      PROVE  IsFiniteSet(S) /\ Cardinality(S) \in 0..count
  <2>1. IsFiniteSet(S) /\ Cardinality(S) <= count
    BY ThreadsAssumption, FS_Subset DEF count
  <2>2. Cardinality(S) \in Nat /\ count \in Nat
    BY <2>1, ThreadsAssumption, FS_CardinalityType DEF count
  <2>. QED BY <2>1, <2>2
<1>2. Sleepers \in SUBSET Worker /\ Sleepers' \in SUBSET Worker
  BY DEF Sleepers
<1>. QED BY <1>1, <1>2

\* The state that start() leaves.
LEMMA InitInv ==
    ASSUME Init
    PROVE  Inv
<1>. USE ThreadsAssumption DEF Init
<1>1. \A w \in Worker : pc[w] = "loop"
  BY DEF Thread
<1>2. pc["timer"] = "update" /\ pc["socket"] = "poll" /\ pc["monitor"] = "check"
  BY DEF Thread
<1>3. Sleepers = {}
  BY <1>1 DEF Sleepers, Asleep
<1>4. SleepCounted
  BY <1>3, FS_EmptySet DEF SleepCounted
<1>5. TypeOK
  <2>1. sleep \in 0..count
    BY <1>4, SleepersFinite DEF SleepCounted
  <2>2. \A t \in Thread : pc[t] \in {"loop", "update", "poll", "check"}
    BY <1>1, <1>2 DEF Thread
  <2>3. pc \in [Thread -> {"loop", "dispatch", "lock", "asleep", "wait", "unlock", "update",
                          "check", "wakeup", "stop", "quit", "poll", "exit"}]
    BY <2>2
  <2>4. work \in Nat /\ pushes \in 0..MaxPush /\ total \in 0..MaxTotal
    OBVIOUS
  <2>. QED BY <2>1, <2>3, <2>4 DEF TypeOK
<1>6. MutexHeld
  BY <1>1 DEF MutexHeld, Nobody
<1>. QED BY <1>1, <1>2, <1>4, <1>5, <1>6 DEF Inv, Places, WaitersWait

-----------------------------------------------------------------------------

Pos == {"loop", "dispatch", "lock", "asleep", "wait", "unlock", "update", "check",
        "wakeup", "stop", "quit", "poll", "exit"}

\* The type invariant without the bound of m->sleep, which follows from the count.
Fields ==
    /\ work \in Nat /\ pushes \in 0..MaxPush /\ total \in 0..MaxTotal
    /\ quit \in BOOLEAN /\ exitcmd \in BOOLEAN
    /\ mutex \in Worker \cup {Nobody}
    /\ waiting \subseteq Worker
    /\ pc \in [Thread -> Pos]

\* A step that moves worker w from where it does not count as asleep to where it
\* does changes the count by one, and so on.
LEMMA Counts ==
    ASSUME Fields, NEW w \in Worker, NEW l, pc' = [pc EXCEPT ![w] = l], sleep \in Int, SleepCounted
    PROVE  /\ pc[w] \in Asleep /\ l \in Asleep /\ sleep' = sleep => SleepCounted'
           /\ pc[w] \notin Asleep /\ l \notin Asleep /\ sleep' = sleep => SleepCounted'
           /\ pc[w] \notin Asleep /\ l \in Asleep /\ sleep' = sleep + 1 => SleepCounted'
           /\ pc[w] \in Asleep /\ l \notin Asleep /\ sleep' = sleep - 1 => SleepCounted'
<1>1. w \in Thread /\ Worker \subseteq Thread /\ IsFiniteSet(Sleepers)
  BY SleepersFinite DEF Thread
<1>2. \A u \in Worker : pc'[u] = IF u = w THEN l ELSE pc[u]
  BY <1>1 DEF Fields
<1>3. w \in Sleepers <=> pc[w] \in Asleep
  BY DEF Sleepers
<1>4. /\ l \in Asleep => Sleepers' = Sleepers \cup {w}
      /\ l \notin Asleep => Sleepers' = Sleepers \ {w}
  BY <1>2 DEF Sleepers
<1>5. /\ Cardinality(Sleepers \cup {w}) =
             IF w \in Sleepers THEN Cardinality(Sleepers) ELSE Cardinality(Sleepers) + 1
      /\ Cardinality(Sleepers \ {w}) =
             IF w \in Sleepers THEN Cardinality(Sleepers) - 1 ELSE Cardinality(Sleepers)
  BY <1>1, FS_AddElement, FS_RemoveElement
<1>. QED BY <1>3, <1>4, <1>5 DEF SleepCounted

\* A step of another thread, or of no thread, leaves the count alone.
LEMMA CountsOther ==
    ASSUME \A w \in Worker : pc'[w] = pc[w], sleep' = sleep, SleepCounted
    PROVE  SleepCounted'
<1>1. Sleepers' = Sleepers
  BY DEF Sleepers
<1>. QED BY <1>1 DEF SleepCounted

\* Every step of a worker.
LEMMA WorkerKeeps ==
    ASSUME Inv, NEW w \in Worker,
           WorkerStep(w) \/ WorkerLock(w) \/ WorkerWoken(w) \/ SpuriousWakeup(w)
    PROVE  Fields' /\ Places' /\ SleepCounted' /\ MutexHeld' /\ WaitersWait'
<1>1. /\ w \in Thread /\ Worker \subseteq Thread /\ "timer" \in Thread
      /\ "timer" \notin Worker /\ "socket" \notin Worker /\ "monitor" \notin Worker
      /\ Nobody \notin Worker
      /\ MaxTotal \in Nat /\ MaxPush \in Nat
  BY ThreadsAssumption DEF Thread, Nobody
<1>2. Fields /\ sleep \in Int /\ SleepCounted
  BY DEF Inv, TypeOK, Fields, Pos
<1>. USE <1>1, <1>2 DEF Inv, Goto, shared
<1>3. CASE WorkerLoop(w)
  <2>1. SleepCounted'
    <3>1. PICK l \in {"exit", "dispatch"} : pc' = [pc EXCEPT ![w] = l]
      BY <1>3 DEF WorkerLoop
    <3>2. pc[w] \notin Asleep /\ l \notin Asleep /\ sleep' = sleep
      BY <1>3, <3>1 DEF WorkerLoop, Asleep
    <3>. QED BY <3>1, <3>2, Counts
  <2>2. Fields' /\ Places'
    BY <1>3 DEF WorkerLoop, Fields, Places, Pos
  <2>3. MutexHeld' /\ WaitersWait'
    BY <1>3 DEF WorkerLoop, Fields, MutexHeld, WaitersWait
  <2>. QED BY <2>1, <2>2, <2>3
<1>4. CASE WorkerDispatch(w)
  <2>1. SleepCounted'
    <3>1. PICK l \in {"loop"} : pc' = [pc EXCEPT ![w] = l]
      BY <1>4 DEF WorkerDispatch
    <3>2. pc[w] \notin Asleep /\ l \notin Asleep /\ sleep' = sleep
      BY <1>4, <3>1 DEF WorkerDispatch, Asleep
    <3>. QED BY <3>1, <3>2, Counts
  <2>2. work' \in Nat /\ pushes' \in 0..MaxPush /\ total' \in 0..MaxTotal
    <3>1. PICK k \in {0, 1} : /\ pushes + k <= MaxPush /\ pushes' = pushes + k
                               /\ work' = work - 1 + k
      BY <1>4 DEF WorkerDispatch, PushWork
    <3>2. work \in Nat /\ work > 0 /\ pushes \in 0..MaxPush
      BY <1>4 DEF WorkerDispatch, Fields
    <3>3. total' \in 0..MaxTotal
      BY <1>4 DEF WorkerDispatch, Fields
    <3>. QED BY <3>1, <3>2, <3>3
  <2>3. Fields' /\ Places'
    BY <1>4, <2>2 DEF WorkerDispatch, Fields, Places, Pos
  <2>4. MutexHeld' /\ WaitersWait'
    BY <1>4 DEF WorkerDispatch, Fields, MutexHeld, WaitersWait
  <2>. QED BY <2>1, <2>3, <2>4
<1>5. CASE WorkerIdle(w)
  <2>1. SleepCounted'
    <3>1. PICK l \in {"lock"} : pc' = [pc EXCEPT ![w] = l]
      BY <1>5 DEF WorkerIdle
    <3>2. pc[w] \notin Asleep /\ l \notin Asleep /\ sleep' = sleep
      BY <1>5, <3>1 DEF WorkerIdle, Asleep
    <3>. QED BY <3>1, <3>2, Counts
  <2>2. Fields' /\ Places'
    BY <1>5 DEF WorkerIdle, Fields, Places, Pos
  <2>3. MutexHeld' /\ WaitersWait'
    BY <1>5 DEF WorkerIdle, Fields, MutexHeld, WaitersWait
  <2>. QED BY <2>1, <2>2, <2>3
<1>6. CASE WorkerWait(w)
  <2>1. SleepCounted'
    <3>1. PICK l \in {"unlock", "wait"} : pc' = [pc EXCEPT ![w] = l]
      BY <1>6 DEF WorkerWait
    <3>2. pc[w] \in Asleep /\ l \in Asleep /\ sleep' = sleep
      BY <1>6, <3>1 DEF WorkerWait, Asleep
    <3>. QED BY <3>1, <3>2, Counts
  <2>2. Fields' /\ Places'
    <3>1. PICK l \in {"unlock", "wait"} : pc' = [pc EXCEPT ![w] = l]
      BY <1>6 DEF WorkerWait
    <3>2. pc' \in [Thread -> Pos] /\ Places'
      BY <3>1 DEF Fields, Places, Pos
    <3>3. mutex' \in Worker \cup {Nobody} /\ waiting' \subseteq Worker
      BY <1>6 DEF WorkerWait, Fields
    <3>4. UNCHANGED <<work, pushes, total, quit, exitcmd>>
      BY <1>6 DEF WorkerWait
    <3>. QED BY <3>2, <3>3, <3>4 DEF Fields
  <2>3. MutexHeld'
    BY <1>6 DEF WorkerWait, Fields, MutexHeld
  <2>4. WaitersWait'
    BY <1>6 DEF WorkerWait, Fields, WaitersWait
  <2>. QED BY <2>1, <2>2, <2>3, <2>4
<1>7. CASE WorkerUnlock(w)
  <2>1. SleepCounted'
    <3>1. PICK l \in {"loop"} : pc' = [pc EXCEPT ![w] = l]
      BY <1>7 DEF WorkerUnlock
    <3>2. pc[w] \in Asleep /\ l \notin Asleep /\ sleep' = sleep - 1
      BY <1>7, <3>1 DEF WorkerUnlock, Asleep
    <3>. QED BY <3>1, <3>2, Counts
  <2>2. Fields' /\ Places'
    BY <1>7 DEF WorkerUnlock, Fields, Places, Pos
  <2>3. MutexHeld' /\ WaitersWait'
    BY <1>7 DEF WorkerUnlock, Fields, MutexHeld, WaitersWait
  <2>. QED BY <2>1, <2>2, <2>3
<1>8. CASE WorkerLock(w)
  <2>1. SleepCounted'
    <3>1. PICK l \in {"asleep"} : pc' = [pc EXCEPT ![w] = l]
      BY <1>8 DEF WorkerLock
    <3>2. pc[w] \notin Asleep /\ l \in Asleep /\ sleep' = sleep + 1
      BY <1>8, <3>1 DEF WorkerLock, Asleep
    <3>. QED BY <3>1, <3>2, Counts
  <2>2. Fields' /\ Places'
    BY <1>8 DEF WorkerLock, Fields, Places, Pos
  <2>3. MutexHeld' /\ WaitersWait'
    BY <1>8 DEF WorkerLock, Fields, MutexHeld, WaitersWait
  <2>. QED BY <2>1, <2>2, <2>3
<1>9. CASE WorkerWoken(w)
  <2>1. SleepCounted'
    <3>1. PICK l \in {"unlock"} : pc' = [pc EXCEPT ![w] = l]
      BY <1>9 DEF WorkerWoken
    <3>2. pc[w] \in Asleep /\ l \in Asleep /\ sleep' = sleep
      BY <1>9, <3>1 DEF WorkerWoken, Asleep
    <3>. QED BY <3>1, <3>2, Counts
  <2>2. Fields' /\ Places'
    BY <1>9 DEF WorkerWoken, Fields, Places, Pos
  <2>3. MutexHeld' /\ WaitersWait'
    BY <1>9 DEF WorkerWoken, Fields, MutexHeld, WaitersWait
  <2>. QED BY <2>1, <2>2, <2>3
<1>10. CASE SpuriousWakeup(w)
  <2>1. SleepCounted'
    BY <1>10, CountsOther DEF SpuriousWakeup
  <2>2. Fields' /\ Places'
    BY <1>10 DEF SpuriousWakeup, Fields, Places
  <2>3. MutexHeld' /\ WaitersWait'
    BY <1>10 DEF SpuriousWakeup, Fields, MutexHeld, WaitersWait
  <2>. QED BY <2>1, <2>2, <2>3
<1>. QED BY <1>3, <1>4, <1>5, <1>6, <1>7, <1>8, <1>9, <1>10 DEF WorkerStep

\* Every step of the timer, the socket and the monitor thread.
LEMMA OthersKeep ==
    ASSUME Inv, \/ TimerStep \/ TimerQuit
                \/ SocketEvent \/ SocketWakeup \/ SocketCheck \/ SocketExit
                \/ MonitorCheck
    PROVE  Fields' /\ Places' /\ SleepCounted' /\ MutexHeld' /\ WaitersWait'
<1>1. /\ "timer" \in Thread /\ "socket" \in Thread /\ "monitor" \in Thread /\ Worker \subseteq Thread
      /\ "timer" \notin Worker /\ "socket" \notin Worker /\ "monitor" \notin Worker
      /\ Nobody \notin Worker
      /\ MaxTotal \in Nat /\ MaxPush \in Nat
  BY ThreadsAssumption DEF Thread, Nobody
<1>2. Fields /\ SleepCounted
  BY DEF Inv, TypeOK, Fields, Pos
<1>. USE <1>1, <1>2 DEF Inv, Goto, shared
\* wakeup() only takes workers out of the set of those that wait.
<1>3. ASSUME NEW busy, Wakeup(busy)
      PROVE  waiting' \subseteq waiting
  BY <1>3 DEF Wakeup
<1>4. ASSUME NEW k \in {0, 1}, PushWork(work, k)
      PROVE  work' \in Nat /\ pushes' \in 0..MaxPush
  BY <1>4 DEF PushWork, Fields
<1>5. CASE TimerUpdate
  <2>1. (\A w \in Worker : pc'[w] = pc[w]) /\ sleep' = sleep
    BY <1>5 DEF TimerUpdate, Fields
  <2>2. Fields' /\ Places'
    BY <1>4, <1>5 DEF TimerUpdate, Fields, Places, Pos
  <2>3. MutexHeld' /\ WaitersWait'
    BY <1>5, <2>1 DEF TimerUpdate, Fields, MutexHeld, WaitersWait
  <2>. QED BY <2>1, <2>2, <2>3, CountsOther
<1>6. CASE TimerCheck
  <2>1. (\A w \in Worker : pc'[w] = pc[w]) /\ sleep' = sleep
    BY <1>6 DEF TimerCheck, Fields
  <2>2. Fields' /\ Places'
    BY <1>6 DEF TimerCheck, Fields, Places, Pos
  <2>3. MutexHeld' /\ WaitersWait'
    BY <1>6, <2>1 DEF TimerCheck, Fields, MutexHeld, WaitersWait
  <2>. QED BY <2>1, <2>2, <2>3, CountsOther
<1>7. CASE TimerWakeup
  <2>1. (\A w \in Worker : pc'[w] = pc[w]) /\ sleep' = sleep /\ waiting' \subseteq waiting
    BY <1>3, <1>7 DEF TimerWakeup, Fields
  <2>2. Fields' /\ Places'
    BY <1>7, <2>1 DEF TimerWakeup, Fields, Places, Pos
  <2>3. MutexHeld' /\ WaitersWait'
    BY <1>7, <2>1 DEF TimerWakeup, Fields, MutexHeld, WaitersWait
  <2>. QED BY <2>1, <2>2, <2>3, CountsOther
<1>8. CASE TimerStop
  <2>1. (\A w \in Worker : pc'[w] = pc[w]) /\ sleep' = sleep
    BY <1>8 DEF TimerStop, Fields
  <2>2. Fields' /\ Places'
    BY <1>8 DEF TimerStop, Fields, Places, Pos
  <2>3. MutexHeld' /\ WaitersWait'
    BY <1>8, <2>1 DEF TimerStop, Fields, MutexHeld, WaitersWait
  <2>. QED BY <2>1, <2>2, <2>3, CountsOther
<1>9. CASE TimerQuit
  <2>1. (\A w \in Worker : pc'[w] = pc[w]) /\ sleep' = sleep
    BY <1>9 DEF TimerQuit, Fields
  <2>2. Fields' /\ Places'
    BY <1>9 DEF TimerQuit, Fields, Places, Pos
  <2>3. MutexHeld' /\ WaitersWait'
    BY <1>9, <2>1 DEF TimerQuit, Fields, MutexHeld, WaitersWait
  <2>. QED BY <2>1, <2>2, <2>3, CountsOther
<1>10. CASE SocketEvent
  <2>1. (\A w \in Worker : pc'[w] = pc[w]) /\ sleep' = sleep
    BY <1>10 DEF SocketEvent, Fields
  <2>2. Fields' /\ Places'
    BY <1>4, <1>10 DEF SocketEvent, Fields, Places, Pos
  <2>3. MutexHeld' /\ WaitersWait'
    BY <1>10, <2>1 DEF SocketEvent, Fields, MutexHeld, WaitersWait
  <2>. QED BY <2>1, <2>2, <2>3, CountsOther
<1>11. CASE SocketWakeup
  <2>1. (\A w \in Worker : pc'[w] = pc[w]) /\ sleep' = sleep /\ waiting' \subseteq waiting
    BY <1>3, <1>11 DEF SocketWakeup, Fields
  <2>2. Fields' /\ Places'
    BY <1>11, <2>1 DEF SocketWakeup, Fields, Places, Pos
  <2>3. MutexHeld' /\ WaitersWait'
    BY <1>11, <2>1 DEF SocketWakeup, Fields, MutexHeld, WaitersWait
  <2>. QED BY <2>1, <2>2, <2>3, CountsOther
<1>12. CASE SocketCheck \/ SocketExit \/ MonitorCheck
  <2>1. (\A w \in Worker : pc'[w] = pc[w]) /\ sleep' = sleep
    BY <1>12 DEF SocketCheck, SocketExit, MonitorCheck, Fields
  <2>2. Fields' /\ Places'
    BY <1>12 DEF SocketCheck, SocketExit, MonitorCheck, Fields, Places, Pos
  <2>3. MutexHeld' /\ WaitersWait'
    BY <1>12, <2>1 DEF SocketCheck, SocketExit, MonitorCheck, Fields, MutexHeld, WaitersWait
  <2>. QED BY <2>1, <2>2, <2>3, CountsOther
<1>. QED BY <1>5, <1>6, <1>7, <1>8, <1>9, <1>10, <1>11, <1>12 DEF TimerStep

\* The invariant holds in every state of every behaviour.
THEOREM Invariant == Spec => []Inv
<1>1. Init => Inv
  BY InitInv
<1>2. ASSUME Inv, [Next]_vars
      PROVE  Inv'
  <2>1. ASSUME UNCHANGED vars
        PROVE  Inv'
    BY <1>2, <2>1 DEF vars, shared, Inv, TypeOK, Places, SleepCounted, Sleepers, MutexHeld, WaitersWait
  <2>2. ASSUME Fields', Places', SleepCounted', MutexHeld', WaitersWait'
        PROVE  Inv'
    <3>1. sleep' \in 0..count
      BY <2>2, SleepersFinite DEF SleepCounted
    <3>. QED BY <2>2, <3>1 DEF Inv, TypeOK, Fields, Pos
  <2>3. UNCHANGED vars \/ (Fields' /\ Places' /\ SleepCounted' /\ MutexHeld' /\ WaitersWait')
    BY <1>2, WorkerKeeps, OthersKeep DEF Next, Joined
  <2>. QED BY <2>1, <2>2, <2>3
<1>3. Inv /\ [Next]_vars => Inv'
  BY <1>2
<1>. QED BY <1>1, <1>3, PTL DEF Spec

\* After the broadcast of the timer thread no worker waits on the condition, and
\* none will: the test of m->quit under the mutex comes after the broadcast, or
\* the broadcast finds the worker waiting.
THEOREM AwakeAfterQuit == Spec => []NobodySleepsAfterQuit
<1>1. Inv => NobodySleepsAfterQuit
  BY DEF Inv, WaitersWait, NobodySleepsAfterQuit
<1>. QED BY <1>1, Invariant, PTL

\* m->sleep, which wakeup() reads without the mutex, is at every moment the number
\* of workers between their ++ and their --, and the mutex has one owner at a time.
THEOREM SleepIsCount == Spec => [](SleepCounted /\ MutexHeld)
<1>1. Inv => SleepCounted /\ MutexHeld
  BY DEF Inv
<1>. QED BY <1>1, Invariant, PTL
==============================================================================
