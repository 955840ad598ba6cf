----------------------------- MODULE TimerWheel -----------------------------
(***************************************************************************)
(* The timer of skynet_timer.c: TIME_NEAR lists for the near future and    *)
(* LEVELS levels of TIME_LEVEL lists for the rest.  Workers add timers     *)
(* under the lock while the timer thread advances the time, moves lists    *)
(* down a level, and dispatches, without the lock, the list that is due.   *)
(*                                                                         *)
(* Times are unsigned integers below TIME_NEAR * TIME_LEVEL ^ LEVELS       *)
(* (2 ^ 32 in the code: 8 + 4 * 6 bits) and wrap around.                   *)
(***************************************************************************)
EXTENDS Integers, Sequences, FiniteSets, SequencesExt

CONSTANTS
    TIME_NEAR, TIME_LEVEL, LEVELS,    \* 256, 64 and 4 in the code
    Node,                             \* timer nodes; a fired node is reused
    MaxTime,                          \* largest timeout (INT_MAX in the code)
    MaxDiff                           \* bound on the ticks between two updates

\* The ticks that one list of level l covers; the blocks that the masks of the code
\* cut a time into.  Level LEVELS ends where the word ends.
Unit[l \in 0..LEVELS] == IF l = 0 THEN TIME_NEAR ELSE Unit[l - 1] * TIME_LEVEL
Word == Unit[LEVELS]

\* A timeout is a positive int: less than half of the range of the time.
ASSUME TimerAssumption ==
    /\ TIME_NEAR \in Nat \ {0, 1} /\ TIME_LEVEL \in Nat \ {0, 1}
    /\ LEVELS \in Nat \ {0} /\ MaxDiff \in Nat \ {0}
    /\ MaxTime \in 1..(Word \div 2 - 1)

\* near[i] is <<NEAR, i>>, t[l][i] is <<l, i>>.
NEAR == -1
Cell == ({NEAR} \X (0..(TIME_NEAR - 1)))
        \cup ((0..(LEVELS - 1)) \X (0..(TIME_LEVEL - 1)))

VARIABLES
    time,     \* T->time
    wheel,    \* the list of each cell
    expire,   \* node->expire
    todo,     \* timer_update calls that skynet_updatetime still has to make
    pc,       \* the timer thread
    current,  \* the list that dispatch_list works on
    order     \* the nodes that are pending, in the order they were added

vars == <<time, wheel, expire, todo, pc, current, order>>

\* The process may have been running for any time.
Init ==
    /\ time \in 0..(Word - 1)
    /\ wheel = [c \in Cell |-> <<>>]
    /\ expire = [x \in Node |-> 0]
    /\ todo = 0
    /\ pc = "idle"
    /\ current = <<>>
    /\ order = <<>>

\* uint32_t addition
After(t, k) == (t + k) % Word

\* (a | mask) == (b | mask), for the mask of the bits below a block of level l.
SameBlock(a, b, l) == a \div Unit[l] = b \div Unit[l]

\* The list of level l that a time belongs to.
Index(e, l) == (e \div Unit[l]) % TIME_LEVEL

\* Mutant: the near lists are taken to cover two blocks.
CellOf_wide(e, now) ==
    IF e \div (2 * TIME_NEAR) = now \div (2 * TIME_NEAR) THEN <<NEAR, e % TIME_NEAR>>
    ELSE LET ok == {l \in 0..(LEVELS - 2) : SameBlock(e, now, l + 1)}
             l  == IF ok = {} THEN LEVELS - 1
                   ELSE CHOOSE i \in ok : \A j \in ok : i <= j
         IN  <<l, Index(e, l)>>

\* The list that add_node links a node to, at time now: the lowest level whose
\* block holds both the expiry and now, and the last level when there is none.
CellOf(e, now) ==
    IF SameBlock(e, now, 0) THEN <<NEAR, e % TIME_NEAR>>
    ELSE LET ok == {l \in 0..(LEVELS - 2) : SameBlock(e, now, l + 1)}
             l  == IF ok = {} THEN LEVELS - 1
                   ELSE CHOOSE i \in ok : \A j \in ok : i <= j
         IN  <<l, Index(e, l)>>

\* The timer thread holds the lock.
Locked == pc \in {"execute", "shift", "after"}

\* skynet_timeout with time > 0, and timer_add.
TimeoutAdd ==
    /\ ~Locked
    /\ \E x \in Node \ Range(order), n \in 1..MaxTime :
        LET e == After(time, n)
            c == CellOf(e, time)
        IN  /\ expire' = [expire EXCEPT ![x] = e]
            /\ wheel' = [wheel EXCEPT ![c] = Append(@, x)]
            /\ order' = Append(order, x)
    /\ UNCHANGED <<time, todo, pc, current>>

\* skynet_updatetime: the clock has advanced by some ticks since the last call.
\* (When it has gone back, only current_point changes.)
UpdateTime ==
    /\ pc = "idle" /\ todo = 0
    /\ todo' \in 1..MaxDiff
    /\ UNCHANGED <<time, wheel, expire, pc, current, order>>

\* timer_update takes the lock.
UpdateLock ==
    /\ pc = "idle" /\ todo > 0
    /\ pc' = "execute"
    /\ UNCHANGED <<time, wheel, expire, todo, current, order>>

Due == <<NEAR, time % TIME_NEAR>>

\* timer_execute: take the list that is due, and unlock; when there is none,
\* go on: "execute" is the call before the shift, "after" the one after it.
TimerExecute ==
    /\ pc \in {"execute", "after"}
    /\ IF wheel[Due] # <<>>
       THEN /\ current' = wheel[Due]
            /\ wheel' = [wheel EXCEPT ![Due] = <<>>]
            /\ pc' = IF pc = "execute" THEN "dispatch" ELSE "fire"
            /\ UNCHANGED todo
       ELSE /\ pc' = IF pc = "execute" THEN "shift" ELSE "idle"
            /\ todo' = IF pc = "execute" THEN todo ELSE todo - 1
            /\ UNCHANGED <<wheel, current>>
    /\ UNCHANGED <<time, expire, order>>

\* dispatch_list pushes the message of the first node and frees the node.
DispatchNode ==
    /\ pc \in {"dispatch", "fire"} /\ current # <<>>
    /\ current' = Tail(current)
    /\ order' = RemoveAt(order, CHOOSE i \in DOMAIN order : order[i] = Head(current))
    /\ UNCHANGED <<time, wheel, expire, todo, pc>>

\* The list is done: lock again, and look at the same list again.
DispatchEnd ==
    /\ pc \in {"dispatch", "fire"} /\ current = <<>>
    /\ pc' = IF pc = "dispatch" THEN "execute" ELSE "after"
    /\ UNCHANGED <<time, wheel, expire, todo, current, order>>

\* Mutant: nothing is moved when the time wraps to 0.
Moved_notatzero(ct) ==
    IF ct % TIME_NEAR # 0 \/ ct = 0 THEN {}
    ELSE LET l == CHOOSE i \in 0..(LEVELS - 1) :
                    Index(ct, i) # 0 /\ \A j \in 0..(i - 1) : Index(ct, j) = 0
         IN  {<<l, Index(ct, l)>>}

\* The cell that timer_shift moves at time ct: none inside a near block, else
\* that of the lowest level whose index is not 0.
Moved(ct) ==
    IF ct = 0 THEN {<<LEVELS - 1, 0>>}
    ELSE IF ct % TIME_NEAR # 0 THEN {}
    ELSE LET l == CHOOSE i \in 0..(LEVELS - 1) :
                    Index(ct, i) # 0 /\ \A j \in 0..(i - 1) : Index(ct, j) = 0
         IN  {<<l, Index(ct, l)>>}

\* Mutant: the nodes are linked in at the front of their new lists.
MoveList_reversed(c, now) ==
    LET add[i \in 0..Len(wheel[c])] ==
          IF i = 0 THEN [wheel EXCEPT ![c] = <<>>]
          ELSE [add[i - 1] EXCEPT ![CellOf(expire[wheel[c][i]], now)] =
                   <<wheel[c][i]>> \o @]
    IN  add[Len(wheel[c])]

\* move_list: clear the list and add its nodes again, one after the other (add_node).
MoveList(c, now) ==
    LET add[i \in 0..Len(wheel[c])] ==
          IF i = 0 THEN [wheel EXCEPT ![c] = <<>>]
          ELSE [add[i - 1] EXCEPT ![CellOf(expire[wheel[c][i]], now)] =
                   Append(@, wheel[c][i])]
    IN  add[Len(wheel[c])]

TimerShift ==
    /\ pc = "shift"
    /\ LET ct == After(time, 1) IN
        /\ time' = ct
        /\ wheel' = IF Moved(ct) = {} THEN wheel
                    ELSE MoveList(CHOOSE c \in Moved(ct) : TRUE, ct)
    /\ pc' = "after"
    /\ UNCHANGED <<expire, todo, current, order>>

Next ==
    \/ TimeoutAdd \/ UpdateTime \/ UpdateLock \/ TimerExecute \/ DispatchNode
    \/ DispatchEnd \/ TimerShift

\* The timer thread runs, and the clock advances.
Fairness == WF_vars(UpdateTime \/ UpdateLock \/ TimerExecute \/ DispatchNode
                    \/ DispatchEnd \/ TimerShift)

Spec == Init /\ [][Next]_vars
FairSpec == Spec /\ Fairness

-----------------------------------------------------------------------------
(* Properties. *)

\* Every field of struct timer has its type.
TypeOK ==
    /\ time \in 0..(Word - 1)
    /\ DOMAIN wheel = Cell /\ \A c \in Cell : Range(wheel[c]) \subseteq Node
    /\ expire \in [Node -> 0..(Word - 1)]
    /\ todo \in 0..MaxDiff
    /\ pc \in {"idle", "execute", "dispatch", "shift", "after", "fire"}
    /\ Range(current) \subseteq Node /\ Range(order) \subseteq Node

\* A timer is dispatched in exactly the tick it was set for: not a tick early
\* or late, at any distance, across every level and across the wrap of the time.
FiresOnTime == \A i \in DOMAIN current : expire[current[i]] = time

\* Whenever the lock is free every pending timer is in the list that add_node
\* would choose for it now (a list of timers that are due is being dispatched),
\* so timer_shift moves every list in the one tick in which it has to.
InItsCell ==
    TypeOK /\ (~Locked =>
      \A x \in Range(order) :
        \/ x \in Range(current)
        \/ x \in Range(wheel[CellOf(expire[x], time)]))

\* Timers of the same tick fire in the order they were added, also when they
\* were added at different times into different levels.
SameTickInOrder ==
    current # <<>> =>
        \A i, j \in DOMAIN order :
            (i < j /\ order[j] = Head(current)) => expire[order[i]] # expire[order[j]]

\* Every timer fires.
Fires == \A x \in Node : (x \in Range(order)) ~> (x \notin Range(order))
=============================================================================
