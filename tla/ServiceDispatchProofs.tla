------------------------ MODULE ServiceDispatchProofs ------------------------
(***************************************************************************)
(* Proofs about ServiceDispatch, for every number of services, workers and *)
(* outside threads, and for any number of messages.  First the inductive   *)
(* invariant and what follows from it for queues, references and memory;   *)
(* then, on top of it: no message queue is lost, no callback runs before   *)
(* its service is initialised, G_NODE.total counts the services, and the   *)
(* messages of one service to another are dispatched in the order in which *)
(* they were sent.                                                         *)
(***************************************************************************)
EXTENDS ServiceDispatch, FiniteSetTheorems, SequenceTheorems, TLAPS

-----------------------------------------------------------------------------
(* The invariant, in parts. *)

\* Thread t is at a location of S, or is going to return to one.
At(t, S) == pc[t] \in S \/ sret[t] \in S \/ pret[t] \in S \/ dret[t] \in S

InSend(t)    == pc[t] \in {"send", "push", "sendrel"}
InRetire(t)  == pc[t] \in {"retire", "retrel"} \/ sret[t] = "retire" \/ dret[t] = "retire"
InLaunch(t)  == At(t, {"create", "init", "linit", "lpush"})
InRelease(t) == At(t, {"mqrel", "drop"})

\* The locals of a thread belong to the function it is in: which of them are
\* set, and where the functions it has called return to.
Control(t) ==
    /\ InSend(t) => /\ sret[t] \in {"cb", "init", "out", "retire", "drop"}
                    /\ dst[t] \in Svc
                    /\ msg[t] \in Message
    /\ ~InSend(t) => sret[t] = NULL
    /\ pc[t] = "delete" => /\ dret[t] \in {"pop", "grab", "cb", "init", "out",
                                "retire", "drop", "lpush", "abort", "mqrel"}
                           /\ gone[t] \in Svc
    /\ pc[t] # "delete" => dret[t] = NULL
    /\ InRetire(t) => pret[t] \in {"cb", "mqrel", "abort"} /\ prey[t] \in Svc
    /\ ~InRetire(t) => pret[t] = NULL
    /\ born[t] # NULL <=> InLaunch(t)
    /\ dq[t] # NULL <=> InRelease(t)
    /\ nq[t] # NULL <=> pc[t] = "back"
    /\ pc[t] = "more" => left[t] > 0
    /\ pc[t] = "len" => t \in Worker /\ Weight[t] >= 0

\* Which queue a worker has, and which context its dispatch holds.
Dispatching(t) ==
    /\ At(t, {"out"}) <=> t \in Outside
    /\ t \in Outside => q[t] = NULL /\ held[t] = NULL
    /\ held[t] = NULL <=> \/ At(t, {"out", "pop", "grab"})
                          \/ InRelease(t) /\ dq[t] = q[t]
    /\ At(t, {"pop"}) => q[t] = NULL
    /\ At(t, {"grab"}) => q[t] # NULL
    /\ held[t] # NULL /\ pc[t] # "rel" => q[t] = held[t]
    /\ born[t] # NULL => born[t] # q[t]

ControlOK == \A t \in Thread : Control(t) /\ Dispatching(t)

\* The queue of s is in the global queue, or some thread has it.
Queued(s) == \E i \in DOMAIN globalmq : globalmq[i] = s
Known(s) == Queued(s) \/ \E t \in Thread : s \in Owned(t)

\* skynet_context_new has stored the handle of s and not created its queue yet.
Begun(s) == \E t \in Thread : pc[t] = "create" /\ born[t] = s

\* A queue that somebody has is marked in_global, or its context is deleted and
\* nobody can push, or it is still being created.
Marked ==
    \A s \in Svc : Known(s) => in_global[s] \/ release[s] \/ Begun(s)

\* A queue that somebody has belongs to a context that has been created.
Existing == \A s \in Svc : Known(s) => ctx[s] # "none"

\* The phases of a context and of its queue.
Phases ==
    \A s \in Svc :
        /\ ctx[s] = "none" => mqmem[s] = "none"
        /\ mqmem[s] = "none" /\ ctx[s] # "none" <=> Begun(s)
        /\ ctx[s] = "live" => mqmem[s] # "freed"
        /\ release[s] <=> ctx[s] = "freed"
        /\ Known(s) => mqmem[s] # "freed"

\* ctx->ref is the number of references, and a context that is not live has none.
Counted ==
    \A s \in Svc :
        /\ ref[s] = Cardinality(Owners(s))
        /\ ctx[s] # "live" => Owners(s) = {}

\* delete_context is running for a context that is live, without references,
\* and in one thread only.
Deleting ==
    \A t \in Thread : pc[t] = "delete" =>
        /\ ctx[gone[t]] = "live"
        /\ Owners(gone[t]) = {}
        /\ \A u \in Thread : pc[u] = "delete" /\ gone[u] = gone[t] => u = t

\* Whatever can be sent to, or reported to, has a message queue.
Addressed ==
    /\ monitor_exit # NULL => mqmem[monitor_exit] # "none"
    /\ \A t \in Thread :
         /\ InSend(t) => mqmem[dst[t]] # "none"
         /\ InSend(t) /\ msg[t].src # NULL => mqmem[msg[t].src] # "none"
         /\ pc[t] = "drop" \/ sret[t] = "drop" \/ dret[t] = "drop" => release[dq[t]]
    /\ \A s \in Svc : \A i \in DOMAIN mq[s] :
         mq[s][i].src # NULL => mqmem[mq[s][i].src] # "none"

Inv ==
    /\ TypeOK
    /\ ControlOK
    /\ Existing
    /\ QueueExclusive
    /\ Marked
    /\ Phases
    /\ Counted
    /\ Deleting
    /\ Addressed

-----------------------------------------------------------------------------
(* Types. *)

\* A step of thread t.
Step(t) == Continue(t) \/ Choose(t) \/ CallbackReturn(t) \/ InitEnds(t)

\* The locations, one by one.
LEMMA Locations ==
    /\ "pop" \in PC /\ "grab" \in PC /\ "first" \in PC /\ "len" \in PC
    /\ "more" \in PC /\ "cb" \in PC /\ "next" \in PC /\ "back" \in PC
    /\ "rel" \in PC /\ "send" \in PC /\ "push" \in PC /\ "sendrel" \in PC
    /\ "delete" \in PC /\ "create" \in PC /\ "init" \in PC /\ "linit" \in PC
    /\ "lpush" \in PC /\ "retire" \in PC /\ "retrel" \in PC /\ "abort" \in PC
    /\ "mqrel" \in PC /\ "drop" \in PC /\ "out" \in PC
  BY DEF PC

\* The locals that a thread uses at its current location are set.
LocalsOK(t) ==
    /\ pc[t] \in {"first", "len", "more", "cb", "next", "back", "rel"} => held[t] \in Svc
    /\ pc[t] \in {"grab", "first", "len", "more", "cb", "next", "back"} => q[t] \in Svc
    /\ pc[t] = "back" => nq[t] \in Svc
    /\ pc[t] \in {"send", "push", "sendrel"} =>
         dst[t] \in Svc /\ msg[t] \in Message /\ sret[t] \in PC
    /\ pc[t] \in {"create", "init", "linit", "lpush"} => born[t] \in Svc
    /\ pc[t] \in {"mqrel", "drop"} => dq[t] \in Svc
    /\ pc[t] \in {"retire", "retrel"} => prey[t] \in Svc /\ pret[t] \in PC
    /\ pc[t] = "delete" => gone[t] \in Svc /\ dret[t] \in PC
    /\ pc[t] = "more" => left[t] > 0
    /\ pc[t] = "len" => t \in Worker /\ Weight[t] \in 0..3

\* This follows from what the invariant says of the thread.
LEMMA Locals ==
    ASSUME TypeOK, ControlOK, NEW t \in Thread
    PROVE  LocalsOK(t)
<1>. Control(t) /\ Dispatching(t)
  BY DEF ControlOK
<1>1. /\ q[t] \in Svc \cup {NULL} /\ nq[t] \in Svc \cup {NULL} /\ held[t] \in Svc \cup {NULL}
      /\ born[t] \in Svc \cup {NULL} /\ dq[t] \in Svc \cup {NULL}
  BY DEF TypeOK
<1>2. t \in Worker => Weight[t] \in -1..3
  BY ConstantsAssumption
<1>. QED
  BY <1>1, <1>2, ConstantsAssumption
     DEF LocalsOK, Control, Dispatching, InSend, InRetire, InLaunch, InRelease, At, PC

\* The types of the contexts, the queues, the node, the dispatch and the calls.
ContextTypes ==
    /\ slot \subseteq Svc
    /\ ctx \in [Svc -> {"none", "live", "freed"}]
    /\ ref \in [Svc -> Int]
    /\ inited \in [Svc -> BOOLEAN]

QueueTypes ==
    /\ mqmem \in [Svc -> {"none", "live", "freed"}]
    /\ mq \in [Svc -> Seq(Message)]
    /\ in_global \in [Svc -> BOOLEAN]
    /\ release \in [Svc -> BOOLEAN]
    /\ globalmq \in Seq(Svc)

NodeTypes ==
    /\ total \in Int
    /\ monitor_exit \in Svc \cup {NULL}
    /\ reserved \subseteq Svc
    /\ sent \in Nat
    /\ last \in [Svc -> [Svc -> Nat]]

DispatchTypes ==
    /\ pc \in [Thread -> PC]
    /\ q \in [Thread -> Svc \cup {NULL}]
    /\ nq \in [Thread -> Svc \cup {NULL}]
    /\ held \in [Thread -> Svc \cup {NULL}]
    /\ left \in [Thread -> Nat]
    /\ born \in [Thread -> Svc \cup {NULL}]
    /\ dq \in [Thread -> Svc \cup {NULL}]

CallTypes ==
    /\ dst \in [Thread -> Svc \cup {NULL}]
    /\ msg \in [Thread -> Message \cup {NULL}]
    /\ sret \in [Thread -> PC \cup {NULL}]
    /\ prey \in [Thread -> Svc \cup {NULL}]
    /\ pret \in [Thread -> PC \cup {NULL}]
    /\ gone \in [Thread -> Svc \cup {NULL}]
    /\ dret \in [Thread -> PC \cup {NULL}]
    /\ scan \in [Thread -> SUBSET Svc]
    /\ found \in [Thread -> BOOLEAN]

Types == ContextTypes /\ QueueTypes /\ NodeTypes /\ DispatchTypes /\ CallTypes

\* Together they are the type invariant.
LEMMA TypeParts == TypeOK <=> Types
  BY DEF TypeOK, Types, ContextTypes, QueueTypes, NodeTypes, DispatchTypes, CallTypes

SendTypes ==
    /\ dst \in [Thread -> Svc \cup {NULL}]
    /\ msg \in [Thread -> Message \cup {NULL}]
    /\ sret \in [Thread -> PC \cup {NULL}]

\* The call of skynet_send is well typed.
LEMMA SendToTypes ==
    ASSUME SendTypes, sent \in Nat, NEW t \in Thread, NEW s \in Svc \cup {NULL},
           NEW d \in Svc, NEW k \in Kind, NEW l \in PC, SendTo(t, s, d, k, l)
    PROVE  SendTypes'
<1>1. [src |-> s, no |-> sent + 1, kind |-> k] \in Message
  BY DEF Message
<1>. QED BY <1>1 DEF SendTo, SendTypes

\* Every step of every thread keeps the types.
LEMMA TypeStep ==
    ASSUME Types, ControlOK, NEW t \in Thread,
           Step(t)
    PROVE  Types'
<1>0. LocalsOK(t)
  BY Locals, TypeParts
<1>. USE ConstantsAssumption, Locations
     DEF Types, Goto, ctxVars, mqVars, nodeVars, shared, dispVars, sendVars, killVars,
         delVars, local, history
<1>1. CASE GlobalPop(t)
  <2>1. QueueTypes'
    BY <1>1, HeadTailProperties, <1>0 DEF LocalsOK, GlobalPop, QueueTypes
  <2>2. DispatchTypes'
    <3>1. Head(globalmq) \in Svc
      BY <1>1, HeadTailProperties DEF GlobalPop, QueueTypes
    <3>. QED BY <1>1, <3>1 DEF GlobalPop, DispatchTypes
  <2>3. ContextTypes' /\ NodeTypes' /\ CallTypes'
    BY <1>1 DEF GlobalPop, ContextTypes, NodeTypes, CallTypes
  <2>. QED BY <2>1, <2>2, <2>3
<1>2. CASE DispatchGrab(t)
  <2>1. ContextTypes'
    BY <1>2, <1>0 DEF LocalsOK, DispatchGrab, ContextTypes
  <2>2. DispatchTypes'
    BY <1>2, <1>0 DEF LocalsOK, DispatchGrab, DispatchTypes
  <2>3. QueueTypes' /\ NodeTypes' /\ CallTypes'
    BY <1>2 DEF DispatchGrab, QueueTypes, NodeTypes, CallTypes
  <2>. QED BY <2>1, <2>2, <2>3
<1>3. CASE DispatchEmpty(t)
  <2>1. QueueTypes'
    BY <1>3, <1>0 DEF LocalsOK, DispatchEmpty, QueueTypes
  <2>2. DispatchTypes'
    BY <1>3, <1>0 DEF LocalsOK, DispatchEmpty, DispatchTypes
  <2>3. ContextTypes' /\ NodeTypes' /\ CallTypes'
    BY <1>3 DEF DispatchEmpty, ContextTypes, NodeTypes, CallTypes
  <2>. QED BY <2>1, <2>2, <2>3
<1>4. CASE DispatchMessage(t)
  <2>1. QueueTypes'
    BY <1>4, <1>0 DEF LocalsOK, DispatchMessage, QueueTypes
  <2>2. NodeTypes'
    <3>1. q[t] \in Svc /\ Head(mq[q[t]]) \in Message
      BY <1>0, <1>4, HeadTailProperties DEF LocalsOK, DispatchMessage, QueueTypes
    <3>2. DEFINE m == Head(mq[q[t]])
    <3>3. m.src \in Svc \cup {NULL} /\ m.no \in Nat
      BY <3>1 DEF Message
    <3>4. last' = IF m.src # NULL /\ m.kind # "exit"
                  THEN [last EXCEPT ![q[t]][m.src] = m.no]
                  ELSE last
      BY <1>4, Zenon DEF DispatchMessage
    <3>5. last' \in [Svc -> [Svc -> Nat]]
      <4>. HIDE DEF m
      <4>1. CASE m.src # NULL /\ m.kind # "exit"
        <5>1. last' = [last EXCEPT ![q[t]] = [@ EXCEPT ![m.src] = m.no]]
          BY <3>4, <4>1
        <5>2. [last[q[t]] EXCEPT ![m.src] = m.no] \in [Svc -> Nat]
          BY <3>1, <3>3, <4>1 DEF NodeTypes
        <5>. QED BY <3>1, <5>1, <5>2 DEF NodeTypes
      <4>. QED BY <3>4, <4>1 DEF NodeTypes
    <3>. QED BY <1>4, <3>5 DEF DispatchMessage, NodeTypes
  <2>3. DispatchTypes'
    <3>1. left' \in [Thread -> Nat]
      BY <1>0, <1>4 DEF LocalsOK, DispatchMessage, DispatchTypes
    <3>. QED BY <1>4, <3>1 DEF DispatchMessage, DispatchTypes
  <2>4. ContextTypes' /\ CallTypes'
    BY <1>4 DEF DispatchMessage, ContextTypes, CallTypes
  <2>. QED BY <2>1, <2>2, <2>3, <2>4
<1>5. CASE DispatchLength(t)
  <2>1. DispatchTypes'
    <3>1. q[t] \in Svc /\ Weight[t] \in 0..3
      BY <1>0, <1>5 DEF LocalsOK, DispatchLength
    <3>2. 2 ^ Weight[t] \in Nat \ {0}
      <4>1. 2 ^ 0 = 1 /\ 2 ^ 1 = 2 /\ 2 ^ 2 = 4 /\ 2 ^ 3 = 8
        OBVIOUS
      <4>2. Weight[t] = 0 \/ Weight[t] = 1 \/ Weight[t] = 2 \/ Weight[t] = 3
        BY <3>1
      <4>3. \/ 2 ^ Weight[t] = 2 ^ 0 \/ 2 ^ Weight[t] = 2 ^ 1
            \/ 2 ^ Weight[t] = 2 ^ 2 \/ 2 ^ Weight[t] = 2 ^ 3
        BY <4>2, Zenon
      <4>. QED BY <4>1, <4>3
    <3>3. Len(mq[q[t]]) \in Nat
      BY <3>1, LenProperties DEF QueueTypes
    <3>4. DEFINE n == Len(mq[q[t]]) \div (2 ^ Weight[t])
    <3>5. n \in Nat
      BY <3>2, <3>3
    <3>6. left' = [left EXCEPT ![t] = IF n > 1 THEN n - 1 ELSE 0]
      BY <1>5 DEF DispatchLength
    <3>7. left' \in [Thread -> Nat]
      <4>. HIDE DEF n
      <4>. QED BY <3>5, <3>6 DEF DispatchTypes
    <3>. QED BY <1>5, <3>7 DEF DispatchLength, DispatchTypes
  <2>2. ContextTypes' /\ QueueTypes' /\ NodeTypes' /\ CallTypes'
    BY <1>5 DEF DispatchLength, ContextTypes, QueueTypes, NodeTypes, CallTypes
  <2>. QED BY <2>1, <2>2
<1>6. CASE DispatchNext(t)
  <2>0. globalmq # <<>> => Head(globalmq) \in Svc /\ Tail(globalmq) \in Seq(Svc)
    BY HeadTailProperties DEF QueueTypes
  <2>1. QueueTypes'
    BY <1>6, <2>0 DEF DispatchNext, QueueTypes
  <2>2. DispatchTypes'
    <3>1. pc' \in [Thread -> PC] /\ nq' \in [Thread -> Svc \cup {NULL}]
      BY ZenonT(40), <1>6, <2>0 DEF DispatchNext, DispatchTypes
    <3>. QED BY <1>6, <3>1 DEF DispatchNext, DispatchTypes
  <2>3. ContextTypes' /\ NodeTypes' /\ CallTypes'
    BY <1>6 DEF DispatchNext, ContextTypes, NodeTypes, CallTypes
  <2>. QED BY <2>1, <2>2, <2>3
<1>7. CASE DispatchBack(t)
  <2>1. QueueTypes'
    BY <1>7, <1>0 DEF LocalsOK, DispatchBack, QueueTypes
  <2>2. DispatchTypes'
    BY <1>7, <1>0 DEF LocalsOK, DispatchBack, DispatchTypes
  <2>3. ContextTypes' /\ NodeTypes' /\ CallTypes'
    BY <1>7 DEF DispatchBack, ContextTypes, NodeTypes, CallTypes
  <2>. QED BY <2>1, <2>2, <2>3
<1>8. CASE DispatchRelease(t)
  <2>1. ContextTypes'
    BY <1>8, <1>0 DEF LocalsOK, DispatchRelease, ContextRelease, ContextTypes
  <2>2. DispatchTypes'
    BY <1>8, <1>0 DEF LocalsOK, DispatchRelease, ContextRelease, DispatchTypes
  <2>3. CallTypes'
    BY <1>8, <1>0 DEF LocalsOK, DispatchRelease, ContextRelease, CallTypes
  <2>4. QueueTypes' /\ NodeTypes'
    BY <1>8 DEF DispatchRelease, ContextRelease, QueueTypes, NodeTypes
  <2>. QED BY <2>1, <2>2, <2>3, <2>4
<1>9. CASE SendGrab(t)
  <2>1. ContextTypes'
    BY <1>9, <1>0 DEF LocalsOK, SendGrab, SendReturn, ContextTypes
  <2>2. DispatchTypes'
    BY <1>9, <1>0 DEF LocalsOK, SendGrab, SendReturn, DispatchTypes
  <2>3. CallTypes'
    BY <1>9, <1>0 DEF LocalsOK, SendGrab, SendReturn, CallTypes
  <2>4. QueueTypes' /\ NodeTypes'
    BY <1>9 DEF SendGrab, SendReturn, QueueTypes, NodeTypes
  <2>. QED BY <2>1, <2>2, <2>3, <2>4
<1>10. CASE MqPush(t)
  <2>1. QueueTypes'
    BY <1>10, <1>0 DEF LocalsOK, MqPush, QueueTypes
  <2>2. DispatchTypes'
    BY <1>10, <1>0 DEF LocalsOK, MqPush, DispatchTypes
  <2>3. ContextTypes' /\ NodeTypes' /\ CallTypes'
    BY <1>10 DEF MqPush, ContextTypes, NodeTypes, CallTypes
  <2>. QED BY <2>1, <2>2, <2>3
<1>11. CASE SendRelease(t)
  <2>1. ContextTypes'
    BY <1>11, <1>0 DEF LocalsOK, SendRelease, ContextRelease, SendReturn, ContextTypes
  <2>2. DispatchTypes'
    BY <1>11, <1>0 DEF LocalsOK, SendRelease, ContextRelease, SendReturn, DispatchTypes
  <2>3. CallTypes'
    BY <1>11, <1>0 DEF LocalsOK, SendRelease, ContextRelease, SendReturn, CallTypes
  <2>4. QueueTypes' /\ NodeTypes'
    BY <1>11 DEF SendRelease, ContextRelease, SendReturn, QueueTypes, NodeTypes
  <2>. QED BY <2>1, <2>2, <2>3, <2>4
<1>12. CASE MqCreate(t)
  <2>1. QueueTypes'
    BY <1>12, <1>0 DEF LocalsOK, MqCreate, QueueTypes
  <2>2. NodeTypes'
    BY <1>12, <1>0 DEF LocalsOK, MqCreate, NodeTypes
  <2>3. DispatchTypes'
    BY <1>12, <1>0 DEF LocalsOK, MqCreate, DispatchTypes
  <2>4. ContextTypes' /\ CallTypes'
    BY <1>12 DEF MqCreate, ContextTypes, CallTypes
  <2>. QED BY <2>1, <2>2, <2>3, <2>4
<1>13. CASE SetInit(t)
  <2>1. ContextTypes'
    BY <1>13, <1>0 DEF LocalsOK, SetInit, ContextTypes
  <2>2. DispatchTypes'
    BY <1>13, <1>0 DEF LocalsOK, SetInit, DispatchTypes
  <2>3. QueueTypes' /\ NodeTypes' /\ CallTypes'
    BY <1>13 DEF SetInit, QueueTypes, NodeTypes, CallTypes
  <2>. QED BY <2>1, <2>2, <2>3
<1>14. CASE LaunchPush(t)
  <2>1. QueueTypes'
    BY <1>14, <1>0 DEF LocalsOK, LaunchPush, QueueTypes
  <2>2. DispatchTypes'
    BY <1>14, <1>0 DEF LocalsOK, LaunchPush, DispatchTypes
  <2>3. ContextTypes' /\ NodeTypes' /\ CallTypes'
    BY <1>14 DEF LaunchPush, ContextTypes, NodeTypes, CallTypes
  <2>. QED BY <2>1, <2>2, <2>3
<1>15. CASE Retire(t)
  <2>1. ContextTypes'
    BY <1>15, <1>0 DEF LocalsOK, Retire, ContextTypes
  <2>2. DispatchTypes'
    BY <1>15, <1>0 DEF LocalsOK, Retire, DispatchTypes
  <2>3. CallTypes'
    BY <1>15, <1>0 DEF LocalsOK, Retire, CallTypes
  <2>4. QueueTypes' /\ NodeTypes'
    BY <1>15 DEF Retire, QueueTypes, NodeTypes
  <2>. QED BY <2>1, <2>2, <2>3, <2>4
<1>16. CASE RetireRelease(t)
  <2>1. ContextTypes'
    BY <1>16, <1>0 DEF LocalsOK, RetireRelease, ContextRelease, ContextTypes
  <2>2. DispatchTypes'
    BY <1>16, <1>0 DEF LocalsOK, RetireRelease, ContextRelease, DispatchTypes
  <2>3. CallTypes'
    BY <1>16, <1>0 DEF LocalsOK, RetireRelease, ContextRelease, CallTypes
  <2>4. QueueTypes' /\ NodeTypes'
    BY <1>16 DEF RetireRelease, ContextRelease, QueueTypes, NodeTypes
  <2>. QED BY <2>1, <2>2, <2>3, <2>4
<1>17. CASE AbortStep(t)
  <2>1. DispatchTypes'
    BY <1>17, <1>0 DEF LocalsOK, AbortStep, DispatchTypes
  <2>2. CallTypes'
    BY <1>17, <1>0 DEF LocalsOK, AbortStep, CallTypes
  <2>3. ContextTypes' /\ QueueTypes' /\ NodeTypes'
    BY <1>17 DEF AbortStep, ContextTypes, QueueTypes, NodeTypes
  <2>. QED BY <2>1, <2>2, <2>3
<1>18. CASE AbortPass(t)
  <2>1. DispatchTypes'
    BY <1>18, <1>0 DEF LocalsOK, AbortPass, DispatchTypes
  <2>2. CallTypes'
    <3>1. scan' \in [Thread -> SUBSET Svc] /\ found' \in [Thread -> BOOLEAN]
      <4>1. CASE found[t]
        <5>1. scan' = [scan EXCEPT ![t] = Svc] /\ found' = [found EXCEPT ![t] = FALSE]
          BY <1>18, <4>1 DEF AbortPass
        <5>2. Svc \in SUBSET Svc /\ scan \in [Thread -> SUBSET Svc]
              /\ found \in [Thread -> BOOLEAN]
          BY DEF CallTypes
        <5>. HIDE DEF Types, ctxVars, mqVars, local
        <5>. QED BY <5>1, <5>2
      <4>2. CASE ~found[t]
        BY <1>18, <4>2 DEF AbortPass, CallTypes
      <4>. QED BY <4>1, <4>2
    <3>. QED BY <1>18, <3>1 DEF AbortPass, CallTypes
  <2>3. ContextTypes' /\ QueueTypes' /\ NodeTypes'
    BY <1>18 DEF AbortPass, ContextTypes, QueueTypes, NodeTypes
  <2>. QED BY <2>1, <2>2, <2>3
<1>19. CASE MqRelease(t)
  <2>1. QueueTypes'
    <3>0. dq[t] \in Svc /\ globalmq \in Seq(Svc)
      BY <1>0, <1>19 DEF LocalsOK, MqRelease, QueueTypes
    <3>1. globalmq' \in Seq(Svc)
      <4>1. CASE release[dq[t]]
        BY <1>19, <3>0, <4>1 DEF MqRelease
      <4>2. CASE ~release[dq[t]]
        BY <1>19, <3>0, <4>2 DEF MqRelease
      <4>. QED BY <4>1, <4>2
    <3>. QED BY <1>19, <3>1 DEF MqRelease, QueueTypes
  <2>2. DispatchTypes'
    BY ZenonT(40), <1>19, <1>0 DEF LocalsOK, MqRelease, ReleaseReturn, DispatchTypes
  <2>3. ContextTypes' /\ NodeTypes' /\ CallTypes'
    BY <1>19 DEF MqRelease, ReleaseReturn, ContextTypes, NodeTypes, CallTypes
  <2>. QED BY <2>1, <2>2, <2>3
<1>20. CASE DropMessage(t)
  <2>1. QueueTypes'
    BY <1>20, <1>0 DEF LocalsOK, DropMessage, SendTo, QueueTypes
  <2>2. NodeTypes'
    BY <1>20, <1>0 DEF LocalsOK, DropMessage, SendTo, NodeTypes
  <2>3. DispatchTypes'
    BY <1>20, <1>0 DEF LocalsOK, DropMessage, SendTo, DispatchTypes
  <2>4. CallTypes'
    <3>1. dq[t] \in Svc /\ Head(mq[dq[t]]) \in Message
      BY <1>0, <1>20, HeadTailProperties DEF LocalsOK, DropMessage, QueueTypes
    <3>2. DEFINE m == Head(mq[dq[t]])
    <3>3. CASE m.src = NULL
      BY <1>20, <3>3 DEF DropMessage, CallTypes
    <3>4. CASE m.src # NULL
      <4>1. SendTo(t, dq[t], m.src, "err", "drop") /\ m.src \in Svc
        BY <1>20, <3>1, <3>4 DEF DropMessage, Message
      <4>2. SendTypes'
        <5>. HIDE DEF m
        <5>. QED BY <3>1, <4>1, SendToTypes DEF NodeTypes, CallTypes, SendTypes, Kind
      <4>. QED BY <1>20, <4>2 DEF DropMessage, CallTypes, SendTypes
    <3>. QED BY <3>3, <3>4
  <2>5. ContextTypes'
    BY <1>20 DEF DropMessage, SendTo, ContextTypes
  <2>. QED BY <2>1, <2>2, <2>3, <2>4, <2>5
<1>21. CASE DropEnd(t)
  <2>1. QueueTypes'
    BY <1>21, <1>0 DEF LocalsOK, DropEnd, ReleaseReturn, QueueTypes
  <2>2. DispatchTypes'
    BY ZenonT(40), <1>21, <1>0 DEF LocalsOK, DropEnd, ReleaseReturn, DispatchTypes
  <2>3. ContextTypes' /\ NodeTypes' /\ CallTypes'
    BY <1>21 DEF DropEnd, ReleaseReturn, ContextTypes, NodeTypes, CallTypes
  <2>. QED BY <2>1, <2>2, <2>3
<1>22. CASE DeleteContext(t)
  <2>1. ContextTypes'
    BY <1>22, <1>0 DEF LocalsOK, DeleteContext, MarkRelease, ContextTypes
  <2>2. QueueTypes'
    BY <1>22, <1>0 DEF LocalsOK, DeleteContext, MarkRelease, QueueTypes
  <2>3. NodeTypes'
    BY <1>22, <1>0 DEF LocalsOK, DeleteContext, MarkRelease, NodeTypes
  <2>4. DispatchTypes'
    BY <1>22, <1>0 DEF LocalsOK, DeleteContext, MarkRelease, DispatchTypes
  <2>5. CallTypes'
    BY <1>22, <1>0 DEF LocalsOK, DeleteContext, MarkRelease, CallTypes
  <2>. QED BY <2>1, <2>2, <2>3, <2>4, <2>5
<1>23. CASE Send(t)
  <2>1. NodeTypes'
    BY <1>23, <1>0 DEF LocalsOK, Send, SendTo, NodeTypes
  <2>2. DispatchTypes'
    BY <1>23, <1>0 DEF LocalsOK, Send, SendTo, DispatchTypes
  <2>3. CallTypes'
    <3>1. PICK d \in Svc : SendTo(t, CASE pc[t] = "cb" -> held[t]
                                       [] pc[t] = "init" -> born[t]
                                       [] OTHER -> NULL,
                                  d, "msg", pc[t])
      BY <1>23 DEF Send
    <3>2. DEFINE src == CASE pc[t] = "cb" -> held[t]
                          [] pc[t] = "init" -> born[t]
                          [] OTHER -> NULL
    <3>3. src \in Svc \cup {NULL} /\ pc[t] \in PC
      BY DEF DispatchTypes
    <3>4. SendTypes'
      <4>. HIDE DEF src
      <4>1. SendTo(t, src, d, "msg", pc[t])
        BY <3>1 DEF src
      <4>. QED BY <3>3, <4>1, SendToTypes DEF NodeTypes, CallTypes, SendTypes, Kind
    <3>. QED BY <1>23, <3>4 DEF Send, CallTypes, SendTypes
  <2>4. ContextTypes' /\ QueueTypes'
    BY <1>23 DEF Send, SendTo, ContextTypes, QueueTypes
  <2>. QED BY <2>1, <2>2, <2>3, <2>4
<1>24. CASE Launch(t)
  <2>1. ContextTypes'
    BY <1>24, <1>0 DEF LocalsOK, Launch, ContextTypes
  <2>2. DispatchTypes'
    BY <1>24, <1>0 DEF LocalsOK, Launch, DispatchTypes
  <2>3. QueueTypes' /\ NodeTypes' /\ CallTypes'
    BY <1>24 DEF Launch, QueueTypes, NodeTypes, CallTypes
  <2>. QED BY <2>1, <2>2, <2>3
<1>25. CASE Reserve(t)
  <2>1. ContextTypes'
    BY <1>25, <1>0 DEF LocalsOK, Reserve, ContextTypes
  <2>2. NodeTypes'
    BY <1>25, <1>0 DEF LocalsOK, Reserve, NodeTypes
  <2>3. QueueTypes' /\ DispatchTypes' /\ CallTypes'
    BY <1>25 DEF Reserve, QueueTypes, DispatchTypes, CallTypes
  <2>. QED BY <2>1, <2>2, <2>3
<1>26. CASE Kill(t)
  <2>1. NodeTypes'
    BY <1>26, <1>0 DEF LocalsOK, Kill, SendTo, NodeTypes
  <2>2. DispatchTypes'
    BY <1>26, <1>0 DEF LocalsOK, Kill, SendTo, DispatchTypes
  <2>3. CallTypes'
    <3>1. PICK s \in Svc :
            /\ prey' = [prey EXCEPT ![t] = s]
            /\ pret' = [pret EXCEPT ![t] = "cb"]
            /\ IF monitor_exit = NULL
               THEN UNCHANGED sendVars
               ELSE SendTo(t, s, monitor_exit, "exit", "retire")
      BY <1>26 DEF Kill
    <3>2. SendTypes'
      <4>1. CASE monitor_exit = NULL
        BY <3>1, <4>1 DEF CallTypes, SendTypes
      <4>2. CASE monitor_exit # NULL
        BY <3>1, <4>2, SendToTypes DEF NodeTypes, CallTypes, SendTypes, Kind
      <4>. QED BY <4>1, <4>2
    <3>. QED BY <1>26, <3>1, <3>2 DEF Kill, CallTypes, SendTypes
  <2>4. ContextTypes' /\ QueueTypes'
    BY <1>26 DEF Kill, SendTo, ContextTypes, QueueTypes
  <2>. QED BY <2>1, <2>2, <2>3, <2>4
<1>27. CASE Monitor(t)
  <2>1. NodeTypes'
    BY <1>27, <1>0 DEF LocalsOK, Monitor, NodeTypes
  <2>2. ContextTypes' /\ QueueTypes' /\ DispatchTypes' /\ CallTypes'
    BY <1>27 DEF Monitor, ContextTypes, QueueTypes, DispatchTypes, CallTypes
  <2>. QED BY <2>1, <2>2
<1>28. CASE Abort(t)
  <2>1. DispatchTypes'
    BY <1>28, <1>0 DEF LocalsOK, Abort, DispatchTypes
  <2>2. CallTypes'
    BY <1>28, <1>0 DEF LocalsOK, Abort, CallTypes
  <2>3. ContextTypes' /\ QueueTypes' /\ NodeTypes'
    BY <1>28 DEF Abort, ContextTypes, QueueTypes, NodeTypes
  <2>. QED BY <2>1, <2>2, <2>3
<1>29. CASE CallbackReturn(t)
  <2>1. DispatchTypes'
    BY <1>29, <1>0 DEF LocalsOK, CallbackReturn, DispatchTypes
  <2>2. ContextTypes' /\ QueueTypes' /\ NodeTypes' /\ CallTypes'
    BY <1>29 DEF CallbackReturn, ContextTypes, QueueTypes, NodeTypes, CallTypes
  <2>. QED BY <2>1, <2>2
<1>30. CASE InitSucceeds(t)
  <2>1. ContextTypes'
    BY <1>30, <1>0 DEF LocalsOK, InitSucceeds, ContextRelease, ContextTypes
  <2>2. DispatchTypes'
    BY <1>30, <1>0 DEF LocalsOK, InitSucceeds, ContextRelease, DispatchTypes
  <2>3. CallTypes'
    BY <1>30, <1>0 DEF LocalsOK, InitSucceeds, ContextRelease, CallTypes
  <2>4. QueueTypes' /\ NodeTypes'
    BY <1>30 DEF InitSucceeds, ContextRelease, QueueTypes, NodeTypes
  <2>. QED BY <2>1, <2>2, <2>3, <2>4
<1>31. CASE InitFails(t)
  <2>1. ContextTypes'
    BY <1>31, <1>0 DEF LocalsOK, InitFails, ContextRelease, ContextTypes
  <2>2. DispatchTypes'
    BY <1>31, <1>0 DEF LocalsOK, InitFails, ContextRelease, DispatchTypes
  <2>3. CallTypes'
    BY <1>31, <1>0 DEF LocalsOK, InitFails, ContextRelease, CallTypes
  <2>4. QueueTypes' /\ NodeTypes'
    BY <1>31 DEF InitFails, ContextRelease, QueueTypes, NodeTypes
  <2>. QED BY <2>1, <2>2, <2>3, <2>4
<1>. QED
  <2>. HIDE DEF Types
  <2>. QED BY <1>1, <1>2, <1>3, <1>4, <1>5, <1>6, <1>7, <1>8, <1>9, <1>10, <1>11, <1>12, <1>13, <1>14, <1>15, <1>16, <1>17, <1>18, <1>19, <1>20, <1>21, <1>22, <1>23, <1>24, <1>25, <1>26, <1>27, <1>28, <1>29, <1>30, <1>31
           DEF Step, Continue, Choose, InitEnds

-----------------------------------------------------------------------------
(* Control. *)

\* The locals of thread u stay as they are.
SameLocals(u) ==
    /\ pc'[u] = pc[u] /\ q'[u] = q[u] /\ nq'[u] = nq[u] /\ held'[u] = held[u]
    /\ left'[u] = left[u] /\ born'[u] = born[u] /\ dq'[u] = dq[u]
    /\ dst'[u] = dst[u] /\ msg'[u] = msg[u] /\ sret'[u] = sret[u]
    /\ prey'[u] = prey[u] /\ pret'[u] = pret[u]
    /\ gone'[u] = gone[u] /\ dret'[u] = dret[u]

\* A thread changes its own locals only.
LEMMA OthersKeep ==
    ASSUME Types, NEW t \in Thread, NEW u \in Thread, u # t, Step(t)
    PROVE  SameLocals(u)
<1>. USE DEF SameLocals, Types, DispatchTypes, CallTypes, Goto, shared, dispVars, sendVars,
             killVars, delVars, local
<1>1. CASE GlobalPop(t)
  BY <1>1 DEF GlobalPop
<1>2. CASE DispatchGrab(t)
  BY <1>2 DEF DispatchGrab
<1>3. CASE DispatchEmpty(t)
  BY <1>3 DEF DispatchEmpty
<1>4. CASE DispatchMessage(t)
  BY <1>4 DEF DispatchMessage
<1>5. CASE DispatchLength(t)
  BY <1>5 DEF DispatchLength
<1>6. CASE DispatchNext(t)
  BY <1>6 DEF DispatchNext
<1>7. CASE DispatchBack(t)
  BY <1>7 DEF DispatchBack
<1>8. CASE DispatchRelease(t)
  BY <1>8 DEF DispatchRelease, ContextRelease
<1>9. CASE SendGrab(t)
  BY <1>9 DEF SendGrab, SendReturn
<1>10. CASE MqPush(t)
  BY <1>10 DEF MqPush
<1>11. CASE SendRelease(t)
  BY <1>11 DEF SendRelease, ContextRelease, SendReturn
<1>12. CASE MqCreate(t)
  BY <1>12 DEF MqCreate
<1>13. CASE SetInit(t)
  BY <1>13 DEF SetInit
<1>14. CASE LaunchPush(t)
  BY <1>14 DEF LaunchPush
<1>15. CASE Retire(t)
  BY <1>15 DEF Retire
<1>16. CASE RetireRelease(t)
  BY <1>16 DEF RetireRelease, ContextRelease
<1>17. CASE AbortStep(t)
  BY <1>17 DEF AbortStep
<1>18. CASE AbortPass(t)
  BY <1>18 DEF AbortPass
<1>19. CASE MqRelease(t)
  BY <1>19 DEF MqRelease, ReleaseReturn
<1>20. CASE DropMessage(t)
  BY <1>20 DEF DropMessage, SendTo
<1>21. CASE DropEnd(t)
  BY <1>21 DEF DropEnd, ReleaseReturn
<1>22. CASE DeleteContext(t)
  BY <1>22 DEF DeleteContext, MarkRelease
<1>23. CASE Send(t)
  BY <1>23 DEF Send, SendTo
<1>24. CASE Launch(t)
  BY <1>24 DEF Launch
<1>25. CASE Reserve(t)
  BY <1>25 DEF Reserve
<1>26. CASE Kill(t)
  BY <1>26 DEF Kill, SendTo
<1>27. CASE Monitor(t)
  BY <1>27 DEF Monitor
<1>28. CASE Abort(t)
  BY <1>28 DEF Abort
<1>29. CASE CallbackReturn(t)
  BY <1>29 DEF CallbackReturn
<1>30. CASE InitSucceeds(t)
  BY <1>30 DEF InitSucceeds, ContextRelease
<1>31. CASE InitFails(t)
  BY <1>31 DEF InitFails, ContextRelease
<1>. QED BY <1>1, <1>2, <1>3, <1>4, <1>5, <1>6, <1>7, <1>8, <1>9, <1>10, <1>11, <1>12, <1>13, <1>14, <1>15, <1>16, <1>17, <1>18, <1>19, <1>20, <1>21, <1>22, <1>23, <1>24, <1>25, <1>26, <1>27, <1>28, <1>29, <1>30, <1>31
         DEF Step, Continue, Choose, InitEnds

\* A thread that keeps its locals keeps its part of the invariant.
LEMMA SameControl ==
    ASSUME NEW u \in Thread, SameLocals(u), Control(u), Dispatching(u)
    PROVE  Control(u)' /\ Dispatching(u)'
  BY DEF SameLocals, Control, Dispatching, InSend, InRetire, InLaunch, InRelease, At

\* Every step keeps the locals and the location of its thread in accord.
LEMMA ControlStep ==
    ASSUME Types, ControlOK, NEW t \in Thread, Step(t)
    PROVE  Control(t)'
<1>0. LocalsOK(t) /\ Control(t) /\ Dispatching(t)
  BY Locals, TypeParts DEF ControlOK
<1>. USE <1>0, ConstantsAssumption, Locations
     DEF Control, LocalsOK, InSend, InRetire, InLaunch, InRelease, At,
         Types, DispatchTypes, CallTypes, Goto, shared, dispVars, sendVars,
         killVars, delVars, local
<1>1. CASE GlobalPop(t)
  BY <1>1 DEF GlobalPop
<1>2. CASE DispatchGrab(t)
  BY <1>2 DEF DispatchGrab
<1>3. CASE DispatchEmpty(t)
  BY <1>3 DEF DispatchEmpty
<1>4. CASE DispatchMessage(t)
  <2>1. q[t] \in Svc /\ t \notin Outside
    BY <1>4 DEF DispatchMessage, Dispatching
  <2>2. t \in Worker /\ Weight[t] \in -1..3
    BY <2>1 DEF Thread
  <2>. QED BY <1>4, <2>1, <2>2 DEF DispatchMessage
<1>5. CASE DispatchLength(t)
  BY <1>5 DEF DispatchLength
<1>6. CASE DispatchNext(t)
  <2>1. globalmq # <<>> => Head(globalmq) \in Svc
    BY HeadTailProperties DEF QueueTypes
  <2>. QED BY <1>6, <2>1 DEF DispatchNext
<1>7. CASE DispatchBack(t)
  BY <1>7 DEF DispatchBack
<1>8. CASE DispatchRelease(t)
  BY <1>8 DEF DispatchRelease, ContextRelease
<1>9. CASE SendGrab(t)
  BY <1>9 DEF SendGrab, SendReturn
<1>10. CASE MqPush(t)
  BY <1>10 DEF MqPush
<1>11. CASE SendRelease(t)
  BY <1>11 DEF SendRelease, ContextRelease, SendReturn
<1>12. CASE MqCreate(t)
  BY <1>12 DEF MqCreate
<1>13. CASE SetInit(t)
  BY <1>13 DEF SetInit
<1>14. CASE LaunchPush(t)
  BY <1>14 DEF LaunchPush
<1>15. CASE Retire(t)
  BY <1>15 DEF Retire
<1>16. CASE RetireRelease(t)
  BY <1>16 DEF RetireRelease, ContextRelease
<1>17. CASE AbortStep(t)
  BY <1>17 DEF AbortStep
<1>18. CASE AbortPass(t)
  BY <1>18 DEF AbortPass
<1>19. CASE MqRelease(t)
  BY <1>19 DEF MqRelease, ReleaseReturn
<1>20. CASE DropMessage(t)
  <2>1. dq[t] \in Svc /\ Head(mq[dq[t]]) \in Message
    BY <1>20, HeadTailProperties DEF DropMessage, QueueTypes
  <2>2. DEFINE m == Head(mq[dq[t]])
  <2>3. CASE m.src = NULL
    BY <1>20, <2>3 DEF DropMessage
  <2>4. CASE m.src # NULL
    <3>1. SendTo(t, dq[t], m.src, "err", "drop") /\ m.src \in Svc
      BY <1>20, <2>1, <2>4 DEF DropMessage, Message
    <3>2. [src |-> dq[t], no |-> sent + 1, kind |-> "err"] \in Message
      BY <2>1 DEF Message, Kind, NodeTypes
    <3>. HIDE DEF m
    <3>. QED BY <1>20, <3>1, <3>2 DEF DropMessage, SendTo
  <2>. QED BY <2>3, <2>4
<1>21. CASE DropEnd(t)
  BY <1>21 DEF DropEnd, ReleaseReturn
<1>22. CASE DeleteContext(t)
  BY <1>22 DEF DeleteContext, MarkRelease
<1>23. CASE Send(t)
  <2>1. DEFINE src == CASE pc[t] = "cb" -> held[t]
                        [] pc[t] = "init" -> born[t]
                        [] OTHER -> NULL
  <2>2. PICK d \in Svc : SendTo(t, src, d, "msg", pc[t])
    BY <1>23 DEF Send
  <2>3. [src |-> src, no |-> sent + 1, kind |-> "msg"] \in Message
    <3>1. src \in Svc \cup {NULL}
      OBVIOUS
    <3>. HIDE DEF src
    <3>. QED BY <3>1 DEF Message, Kind, NodeTypes
  <2>. HIDE DEF src
  <2>. QED BY <1>23, <2>2, <2>3 DEF Send, SendTo
<1>24. CASE Launch(t)
  BY <1>24 DEF Launch
<1>25. CASE Reserve(t)
  BY <1>25 DEF Reserve
<1>26. CASE Kill(t)
  <2>1. PICK s \in Svc :
          /\ prey' = [prey EXCEPT ![t] = s]
          /\ pret' = [pret EXCEPT ![t] = "cb"]
          /\ IF monitor_exit = NULL
             THEN Goto(t, "retire") /\ UNCHANGED <<sendVars, sent>>
             ELSE SendTo(t, s, monitor_exit, "exit", "retire")
    BY <1>26 DEF Kill
  <2>2. monitor_exit # NULL => monitor_exit \in Svc
    BY DEF NodeTypes
  <2>3. [src |-> s, no |-> sent + 1, kind |-> "exit"] \in Message
    BY DEF Message, Kind, NodeTypes
  <2>4. CASE monitor_exit = NULL
    BY <1>26, <2>1, <2>4 DEF Kill
  <2>5. CASE monitor_exit # NULL
    BY <1>26, <2>1, <2>2, <2>3, <2>5 DEF Kill, SendTo
  <2>. QED BY <2>4, <2>5
<1>27. CASE Monitor(t)
  BY <1>27 DEF Monitor
<1>28. CASE Abort(t)
  BY <1>28 DEF Abort
<1>29. CASE CallbackReturn(t)
  BY <1>29 DEF CallbackReturn
<1>30. CASE InitSucceeds(t)
  BY <1>30 DEF InitSucceeds, ContextRelease
<1>31. CASE InitFails(t)
  BY <1>31 DEF InitFails, ContextRelease
<1>. QED BY <1>1, <1>2, <1>3, <1>4, <1>5, <1>6, <1>7, <1>8, <1>9, <1>10, <1>11, <1>12, <1>13, <1>14, <1>15, <1>16, <1>17, <1>18, <1>19, <1>20, <1>21, <1>22, <1>23, <1>24, <1>25, <1>26, <1>27, <1>28, <1>29, <1>30, <1>31
         DEF Step, Continue, Choose, InitEnds

\* Every step keeps the thread's queue and the context it holds in accord.
LEMMA DispatchingStep ==
    ASSUME Types, ControlOK, Existing, NEW t \in Thread, Step(t)
    PROVE  Dispatching(t)'
<1>0. LocalsOK(t) /\ Control(t) /\ Dispatching(t)
  BY Locals, TypeParts DEF ControlOK
<1>. USE <1>0, ConstantsAssumption, Locations
     DEF Control, Dispatching, LocalsOK, InSend, InRetire, InLaunch, InRelease, At,
         Types, DispatchTypes, CallTypes, Goto, shared, dispVars, sendVars,
         killVars, delVars, local
<1>1. CASE GlobalPop(t)
  <2>1. Head(globalmq) \in Svc
    BY <1>1, HeadTailProperties DEF GlobalPop, QueueTypes
  <2>. QED BY <1>1, <2>1 DEF GlobalPop
<1>2. CASE DispatchGrab(t)
  BY <1>2 DEF DispatchGrab
<1>3. CASE DispatchEmpty(t)
  BY <1>3 DEF DispatchEmpty
<1>4. CASE DispatchMessage(t)
  BY <1>4 DEF DispatchMessage
<1>5. CASE DispatchLength(t)
  BY <1>5 DEF DispatchLength
<1>6. CASE DispatchNext(t)
  BY <1>6 DEF DispatchNext
<1>7. CASE DispatchBack(t)
  BY <1>7 DEF DispatchBack
<1>8. CASE DispatchRelease(t)
  BY <1>8 DEF DispatchRelease, ContextRelease
<1>9. CASE SendGrab(t)
  BY <1>9 DEF SendGrab, SendReturn
<1>10. CASE MqPush(t)
  BY <1>10 DEF MqPush
<1>11. CASE SendRelease(t)
  BY <1>11 DEF SendRelease, ContextRelease, SendReturn
<1>12. CASE MqCreate(t)
  BY <1>12 DEF MqCreate
<1>13. CASE SetInit(t)
  BY <1>13 DEF SetInit
<1>14. CASE LaunchPush(t)
  BY <1>14 DEF LaunchPush
<1>15. CASE Retire(t)
  BY <1>15 DEF Retire
<1>16. CASE RetireRelease(t)
  BY <1>16 DEF RetireRelease, ContextRelease
<1>17. CASE AbortStep(t)
  BY <1>17 DEF AbortStep
<1>18. CASE AbortPass(t)
  BY <1>18 DEF AbortPass
<1>19. CASE MqRelease(t)
  BY <1>19 DEF MqRelease, ReleaseReturn
<1>20. CASE DropMessage(t)
  BY <1>20 DEF DropMessage, SendTo
<1>21. CASE DropEnd(t)
  BY <1>21 DEF DropEnd, ReleaseReturn
<1>22. CASE DeleteContext(t)
  BY <1>22 DEF DeleteContext, MarkRelease
<1>23. CASE Send(t)
  BY <1>23 DEF Send, SendTo
<1>24. CASE Launch(t)
  <2>1. PICK s \in Svc : ctx[s] = "none" /\ born' = [born EXCEPT ![t] = s]
    BY <1>24 DEF Launch
  <2>2. q[t] \in Svc => ctx[q[t]] # "none"
    BY DEF Existing, Known, Owned
  <2>. QED BY <1>24, <2>1, <2>2 DEF Launch
<1>25. CASE Reserve(t)
  BY <1>25 DEF Reserve
<1>26. CASE Kill(t)
  BY <1>26 DEF Kill, SendTo
<1>27. CASE Monitor(t)
  BY <1>27 DEF Monitor
<1>28. CASE Abort(t)
  BY <1>28 DEF Abort
<1>29. CASE CallbackReturn(t)
  BY <1>29 DEF CallbackReturn
<1>30. CASE InitSucceeds(t)
  BY <1>30 DEF InitSucceeds, ContextRelease
<1>31. CASE InitFails(t)
  BY <1>31 DEF InitFails, ContextRelease
<1>. QED BY <1>1, <1>2, <1>3, <1>4, <1>5, <1>6, <1>7, <1>8, <1>9, <1>10, <1>11, <1>12, <1>13, <1>14, <1>15, <1>16, <1>17, <1>18, <1>19, <1>20, <1>21, <1>22, <1>23, <1>24, <1>25, <1>26, <1>27, <1>28, <1>29, <1>30, <1>31
         DEF Step, Continue, Choose, InitEnds

-----------------------------------------------------------------------------
(* How queues move between the global queue and the threads. *)

\* Nothing moves.
Keeps(t) == globalmq' = globalmq /\ Owned(t)' = Owned(t)

\* skynet_globalmq_pop
Takes(t) ==
    /\ globalmq # <<>>
    /\ globalmq' = Tail(globalmq)
    /\ Owned(t)' = Owned(t) \cup {Head(globalmq)}

\* skynet_globalmq_push of a queue the thread has
Gives(t, s) ==
    /\ s \in Owned(t)
    /\ globalmq' = Append(globalmq, s)
    /\ Owned(t)' = Owned(t) \ {s}

\* The thread lets go of the queue.
Drops(t, s) ==
    /\ s \in Owned(t)
    /\ globalmq' = globalmq
    /\ Owned(t)' = Owned(t) \ {s}

\* skynet_globalmq_push of a queue that is not marked in_global
Enters(t, s) ==
    /\ ~in_global[s]
    /\ globalmq' = Append(globalmq, s)
    /\ Owned(t)' = Owned(t)

\* A handle is used for the first time.
Creates(t, s) ==
    /\ ctx[s] = "none"
    /\ globalmq' = globalmq
    /\ Owned(t)' = Owned(t) \cup {s}

\* Which queues a thread has, by its location.
QueuesAt(t) ==
    /\ pc[t] = "pop" => q[t] = NULL /\ nq[t] = NULL /\ dq[t] = NULL /\ born[t] = NULL
    /\ pc[t] \in {"grab", "first", "len", "more", "cb", "next"} =>
         q[t] \in Svc /\ nq[t] = NULL /\ dq[t] = NULL /\ born[t] = NULL
    /\ pc[t] = "back" => q[t] \in Svc /\ nq[t] \in Svc /\ dq[t] = NULL /\ born[t] = NULL
    /\ pc[t] \in {"create", "init", "linit", "lpush"} =>
         q[t] \in Svc /\ nq[t] = NULL /\ dq[t] = NULL /\ born[t] \in Svc /\ born[t] # q[t]
    /\ pc[t] \in {"mqrel", "drop"} =>
         q[t] \in Svc /\ nq[t] = NULL /\ dq[t] \in Svc /\ born[t] = NULL

\* This follows from what the invariant says of the thread.
LEMMA QueuesAtLocation ==
    ASSUME Types, ControlOK, NEW t \in Thread
    PROVE  QueuesAt(t)
<1>1. Control(t) /\ Dispatching(t)
  BY DEF ControlOK
<1>2. /\ q[t] \in Svc \cup {NULL} /\ nq[t] \in Svc \cup {NULL} /\ held[t] \in Svc \cup {NULL}
      /\ born[t] \in Svc \cup {NULL} /\ dq[t] \in Svc \cup {NULL}
  BY DEF Types, DispatchTypes
<1>. QED
  BY <1>1, <1>2, ConstantsAssumption
     DEF QueuesAt, Control, Dispatching, InSend, InRetire, InLaunch, InRelease, At, PC

\* What each action does to the global queue and to the queues of its thread.
Moves(t) ==
    /\ GlobalPop(t) => Takes(t)
    /\ DispatchGrab(t) => Keeps(t)
    /\ DispatchEmpty(t) => Drops(t, q[t])
    /\ DispatchMessage(t) => Keeps(t)
    /\ DispatchLength(t) => Keeps(t)
    /\ DispatchNext(t) => Keeps(t) \/ Takes(t)
    /\ DispatchBack(t) => Gives(t, q[t])
    /\ DispatchRelease(t) => Keeps(t)
    /\ SendGrab(t) => Keeps(t)
    /\ MqPush(t) => Keeps(t) \/ Enters(t, dst[t])
    /\ SendRelease(t) => Keeps(t)
    /\ MqCreate(t) => Keeps(t)
    /\ SetInit(t) => Keeps(t)
    /\ LaunchPush(t) => Gives(t, born[t])
    /\ Retire(t) => Keeps(t)
    /\ RetireRelease(t) => Keeps(t)
    /\ AbortStep(t) => Keeps(t)
    /\ AbortPass(t) => Keeps(t)
    /\ MqRelease(t) => Keeps(t) \/ Gives(t, dq[t])
    /\ DropMessage(t) => Keeps(t)
    /\ DropEnd(t) => Drops(t, dq[t])
    /\ DeleteContext(t) => Keeps(t) \/ Enters(t, gone[t])
    /\ Send(t) => Keeps(t)
    /\ Launch(t) => \E s \in Svc : Creates(t, s)
    /\ Reserve(t) => Keeps(t)
    /\ Kill(t) => Keeps(t)
    /\ Monitor(t) => Keeps(t)
    /\ Abort(t) => Keeps(t)
    /\ CallbackReturn(t) => Keeps(t)
    /\ InitSucceeds(t) => Keeps(t)
    /\ InitFails(t) => Keeps(t)

\* The actions move queues in no other way.
LEMMA StepMoves ==
    ASSUME Types, ControlOK, QueueExclusive, NEW t \in Thread, Step(t)
    PROVE  Moves(t)
<1>0. QueuesAt(t)
  BY QueuesAtLocation
<1>. NULL \notin Svc
  BY ConstantsAssumption
<1>. USE <1>0 DEF QueuesAt, Types, DispatchTypes, shared, dispVars, local, Owned,
                  Keeps, Takes, Gives, Drops, Enters, Creates
<1>1. GlobalPop(t) => Takes(t)
  <2>1. GlobalPop(t) => Head(globalmq) \in Svc
    BY HeadTailProperties DEF GlobalPop, QueueTypes
  <2>. QED BY <2>1 DEF GlobalPop
<1>2. DispatchGrab(t) => Keeps(t)
  BY DEF DispatchGrab
<1>3. DispatchEmpty(t) => Drops(t, q[t])
  BY DEF DispatchEmpty
<1>4. DispatchMessage(t) => Keeps(t)
  BY DEF DispatchMessage
<1>5. DispatchLength(t) => Keeps(t)
  BY DEF DispatchLength
<1>6. DispatchNext(t) => Keeps(t) \/ Takes(t)
  <2>1. globalmq # <<>> => Head(globalmq) \in Svc
    BY HeadTailProperties DEF QueueTypes
  <2>. QED BY <2>1 DEF DispatchNext
<1>7. DispatchBack(t) => Gives(t, q[t])
  BY DEF DispatchBack, QueueExclusive
<1>8. DispatchRelease(t) => Keeps(t)
  BY DEF DispatchRelease, ContextRelease
<1>9. SendGrab(t) => Keeps(t)
  BY DEF SendGrab, SendReturn
<1>10. MqPush(t) => Keeps(t) \/ Enters(t, dst[t])
  BY DEF MqPush
<1>11. SendRelease(t) => Keeps(t)
  BY DEF SendRelease, ContextRelease, SendReturn
<1>12. MqCreate(t) => Keeps(t)
  BY DEF MqCreate
<1>13. SetInit(t) => Keeps(t)
  BY DEF SetInit
<1>14. LaunchPush(t) => Gives(t, born[t])
  BY DEF LaunchPush
<1>15. Retire(t) => Keeps(t)
  BY DEF Retire
<1>16. RetireRelease(t) => Keeps(t)
  BY DEF RetireRelease, ContextRelease
<1>17. AbortStep(t) => Keeps(t)
  BY DEF AbortStep
<1>18. AbortPass(t) => Keeps(t)
  BY DEF AbortPass
<1>19. MqRelease(t) => Keeps(t) \/ Gives(t, dq[t])
  BY DEF MqRelease, ReleaseReturn
<1>20. DropMessage(t) => Keeps(t)
  BY DEF DropMessage, SendTo
<1>21. DropEnd(t) => Drops(t, dq[t])
  BY DEF DropEnd, ReleaseReturn
<1>22. DeleteContext(t) => Keeps(t) \/ Enters(t, gone[t])
  BY DEF DeleteContext, MarkRelease
<1>23. Send(t) => Keeps(t)
  BY DEF Send, SendTo
<1>24. Launch(t) => \E s \in Svc : Creates(t, s)
  BY DEF Launch
<1>25. Reserve(t) => Keeps(t)
  BY DEF Reserve
<1>26. Kill(t) => Keeps(t)
  BY DEF Kill, SendTo
<1>27. Monitor(t) => Keeps(t)
  BY DEF Monitor
<1>28. Abort(t) => Keeps(t)
  BY DEF Abort
<1>29. CallbackReturn(t) => Keeps(t)
  BY DEF CallbackReturn
<1>30. InitSucceeds(t) => Keeps(t)
  BY DEF InitSucceeds, ContextRelease
<1>31. InitFails(t) => Keeps(t)
  BY DEF InitFails, ContextRelease
<1>. QED BY <1>1, <1>2, <1>3, <1>4, <1>5, <1>6, <1>7, <1>8, <1>9, <1>10, <1>11, <1>12, <1>13, <1>14, <1>15, <1>16, <1>17, <1>18, <1>19, <1>20, <1>21, <1>22, <1>23, <1>24, <1>25, <1>26, <1>27, <1>28, <1>29, <1>30, <1>31 DEF Moves

\* The global queue holds no queue twice.
NoDup == \A i, j \in DOMAIN globalmq : globalmq[i] = globalmq[j] => i = j

\* The part of QueueExclusive that is about the global queue and the threads.
Exclusive ==
    /\ NoDup
    /\ \A t \in Thread : \A s \in Owned(t) : ~Queued(s)
    /\ \A t, u \in Thread : t # u => Owned(t) \cap Owned(u) = {}

\* QueueExclusive also says that the two queues of one worker differ.
LEMMA ExclusiveParts ==
    QueueExclusive <=> Exclusive /\ \A t \in Thread : q[t] # NULL => q[t] # nq[t]
  BY DEF QueueExclusive, Exclusive, NoDup, Queued

\* What skynet_globalmq_push does to the set of waiting queues.
LEMMA QueuedAppend ==
    ASSUME globalmq \in Seq(Svc), NEW x \in Svc, globalmq' = Append(globalmq, x)
    PROVE  /\ \A s \in Svc : Queued(s)' <=> Queued(s) \/ s = x
           /\ NoDup /\ ~Queued(x) => NoDup'
<1>1. /\ Len(globalmq) \in Nat /\ DOMAIN globalmq = 1..Len(globalmq)
      /\ DOMAIN globalmq' = 1..(Len(globalmq) + 1)
      /\ \A i \in 1..Len(globalmq) : globalmq'[i] = globalmq[i]
      /\ globalmq'[Len(globalmq) + 1] = x
  BY AppendProperties, LenProperties
<1>2. ASSUME NEW s \in Svc
      PROVE  Queued(s)' <=> Queued(s) \/ s = x
  BY <1>1 DEF Queued
<1>3. ASSUME NoDup, ~Queued(x)
      PROVE  NoDup'
  BY <1>1, <1>3 DEF NoDup, Queued
<1>. QED BY <1>2, <1>3

\* What skynet_globalmq_pop does to it.
LEMMA QueuedTail ==
    ASSUME globalmq \in Seq(Svc), globalmq # <<>>, globalmq' = Tail(globalmq),
           NEW x, x = Head(globalmq)
    PROVE  /\ x \in Svc /\ Queued(x)
           /\ \A s \in Svc : Queued(s)' => Queued(s)
           /\ \A s \in Svc : Queued(s) => Queued(s)' \/ s = x
           /\ NoDup => NoDup' /\ ~Queued(x)'
<1>1. /\ Len(globalmq) \in Nat \ {0} /\ DOMAIN globalmq = 1..Len(globalmq)
      /\ DOMAIN globalmq' = 1..(Len(globalmq) - 1)
      /\ \A i \in 1..(Len(globalmq) - 1) : globalmq'[i] = globalmq[i + 1]
      /\ globalmq[1] = x /\ x \in Svc
  BY HeadTailProperties, LenProperties, EmptySeq
<1>2. Queued(x)
  BY <1>1 DEF Queued
<1>3. ASSUME NEW s \in Svc, Queued(s)'
      PROVE  Queued(s)
  <2>1. PICK i \in 1..(Len(globalmq) - 1) : globalmq'[i] = s
    BY <1>1, <1>3 DEF Queued
  <2>2. i + 1 \in 1..Len(globalmq) /\ globalmq[i + 1] = s
    BY <1>1, <2>1
  <2>. QED BY <1>1, <2>2 DEF Queued
<1>4. ASSUME NEW s \in Svc, Queued(s), s # x
      PROVE  Queued(s)'
  <2>1. PICK i \in 1..Len(globalmq) : globalmq[i] = s
    BY <1>1, <1>4 DEF Queued
  <2>2. i - 1 \in 1..(Len(globalmq) - 1) /\ (i - 1) + 1 = i
    BY <1>1, <1>4, <2>1
  <2>3. globalmq'[i - 1] = s
    BY <1>1, <2>1, <2>2
  <2>. QED BY <1>1, <2>2, <2>3 DEF Queued
<1>5. ASSUME NoDup
      PROVE  NoDup' /\ ~Queued(x)'
  <2>1. ASSUME NEW i \in 1..(Len(globalmq) - 1), NEW j \in 1..(Len(globalmq) - 1),
               globalmq'[i] = globalmq'[j]
        PROVE  i = j
    <3>1. i + 1 \in 1..Len(globalmq) /\ j + 1 \in 1..Len(globalmq)
          /\ globalmq[i + 1] = globalmq[j + 1]
      BY <1>1, <2>1
    <3>2. i + 1 = j + 1
      BY <1>1, <1>5, <3>1 DEF NoDup
    <3>. QED BY <3>2
  <2>2. ASSUME NEW i \in 1..(Len(globalmq) - 1), globalmq'[i] = x
        PROVE  FALSE
    <3>1. i + 1 \in 1..Len(globalmq) /\ 1 \in 1..Len(globalmq)
          /\ globalmq[i + 1] = globalmq[1]
      BY <1>1, <2>2
    <3>2. i + 1 = 1
      BY <1>1, <1>5, <3>1 DEF NoDup
    <3>. QED BY <3>2
  <2>. QED BY <1>1, <2>1, <2>2 DEF NoDup, Queued
<1>. QED BY <1>1, <1>2, <1>3, <1>4, <1>5

\* A thread owns handles only.
LEMMA OwnedType ==
    ASSUME Types, NEW t \in Thread
    PROVE  Owned(t) \subseteq Svc
  BY DEF Types, DispatchTypes, Owned

\* A queue nobody has seen may enter the global queue, or become the thread's.
Moved(t) ==
    \/ Keeps(t)
    \/ Takes(t)
    \/ \E x \in Svc : Gives(t, x) \/ Drops(t, x)
    \/ \E x \in Svc : ~Known(x) /\ (Enters(t, x) \/ Creates(t, x))

\* Such moves keep the queues apart, and make no other queue known.
LEMMA ExclusiveMove ==
    ASSUME Types, Exclusive, NEW t \in Thread, Moved(t),
           \A u \in Thread \ {t} : Owned(u)' = Owned(u)
    PROVE  /\ Exclusive'
           /\ \A s \in Svc : Known(s)' => Known(s) \/ Enters(t, s) \/ Creates(t, s)
           /\ \A s \in Svc : Drops(t, s) => ~Known(s)'
<1>. globalmq \in Seq(Svc) /\ \A u \in Thread : Owned(u) \subseteq Svc
  BY OwnedType DEF Types, QueueTypes
<1>1. CASE Keeps(t)
  BY <1>1 DEF Keeps, Drops, Exclusive, NoDup, Queued, Known
<1>2. CASE Takes(t)
  <2>1. DEFINE h == Head(globalmq)
  <2>2. PICK x \in Svc : x = h
    BY <1>2, HeadTailProperties DEF Takes
  <2>3. globalmq # <<>> /\ globalmq' = Tail(globalmq) /\ Owned(t)' = Owned(t) \cup {x}
    BY <1>2, <2>2 DEF Takes
  <2>4. /\ Queued(x)
        /\ \A s \in Svc : Queued(s)' => Queued(s)
        /\ NoDup' /\ ~Queued(x)'
    BY <2>2, <2>3, QueuedTail DEF Exclusive
  <2>5. \A u \in Thread : x \notin Owned(u)
    BY <2>4 DEF Exclusive
  <2>6. Exclusive'
    BY <2>3, <2>4, <2>5 DEF Exclusive
  <2>7. \A s \in Svc : Known(s)' => Known(s)
    BY <2>3, <2>4 DEF Known
  <2>8. \A s \in Svc : ~Drops(t, s)
    BY <2>3, <2>4, <2>5 DEF Drops
  <2>. QED BY <2>6, <2>7, <2>8
<1>3. ASSUME NEW x \in Svc, Gives(t, x)
      PROVE  /\ Exclusive'
             /\ \A s \in Svc : Known(s)' => Known(s)
             /\ \A s \in Svc : ~Drops(t, s)
  <2>1. x \in Owned(t) /\ globalmq' = Append(globalmq, x) /\ Owned(t)' = Owned(t) \ {x}
    BY <1>3 DEF Gives
  <2>2. ~Queued(x)
    BY <2>1 DEF Exclusive
  <2>3. NoDup' /\ \A s \in Svc : Queued(s)' <=> Queued(s) \/ s = x
    BY <2>1, <2>2, QueuedAppend DEF Exclusive
  <2>4. Exclusive'
    BY <2>1, <2>3 DEF Exclusive
  <2>5. \A s \in Svc : Known(s)' => Known(s)
    BY <2>1, <2>3 DEF Known
  <2>6. globalmq' # globalmq
    BY <2>2, <2>3 DEF Queued
  <2>. QED BY <2>4, <2>5, <2>6 DEF Drops
<1>4. ASSUME NEW x \in Svc, Drops(t, x)
      PROVE  /\ Exclusive'
             /\ \A s \in Svc : Known(s)' => Known(s)
             /\ \A s \in Svc : Drops(t, s) => ~Known(s)'
  <2>1. x \in Owned(t) /\ globalmq' = globalmq /\ Owned(t)' = Owned(t) \ {x}
    BY <1>4 DEF Drops
  <2>2. \A s \in Svc : Queued(s)' <=> Queued(s)
    BY <2>1 DEF Queued
  <2>3. NoDup'
    BY <2>1 DEF NoDup, Exclusive
  <2>4. Exclusive'
    BY <2>1, <2>2, <2>3 DEF Exclusive
  <2>5. \A s \in Svc : Known(s)' => Known(s)
    BY <2>1, <2>2 DEF Known
  <2>6. \A s \in Svc : Drops(t, s) => ~Known(s)'
    BY <2>2 DEF Drops, Known, Exclusive
  <2>. QED BY <2>4, <2>5, <2>6
<1>5. ASSUME NEW x \in Svc, ~Known(x), Enters(t, x)
      PROVE  /\ Exclusive'
             /\ \A s \in Svc : Known(s)' => Known(s) \/ Enters(t, s)
             /\ \A s \in Svc : ~Drops(t, s)
  <2>1. globalmq' = Append(globalmq, x) /\ Owned(t)' = Owned(t)
    BY <1>5 DEF Enters
  <2>2. ~Queued(x) /\ \A u \in Thread : x \notin Owned(u)
    BY <1>5 DEF Known
  <2>3. NoDup' /\ \A s \in Svc : Queued(s)' <=> Queued(s) \/ s = x
    BY <2>1, <2>2, QueuedAppend DEF Exclusive
  <2>4. Exclusive'
    BY <2>1, <2>2, <2>3 DEF Exclusive
  <2>5. \A s \in Svc : Known(s)' => Known(s) \/ s = x
    BY <2>1, <2>3 DEF Known
  <2>6. globalmq' # globalmq
    BY <2>2, <2>3 DEF Queued
  <2>. QED BY <1>5, <2>4, <2>5, <2>6 DEF Drops
<1>6. ASSUME NEW x \in Svc, ~Known(x), Creates(t, x)
      PROVE  /\ Exclusive'
             /\ \A s \in Svc : Known(s)' => Known(s) \/ Creates(t, s)
             /\ \A s \in Svc : ~Drops(t, s)
  <2>1. globalmq' = globalmq /\ Owned(t)' = Owned(t) \cup {x}
    BY <1>6 DEF Creates
  <2>2. ~Queued(x) /\ \A u \in Thread : x \notin Owned(u)
    BY <1>6 DEF Known
  <2>3. NoDup' /\ \A s \in Svc : Queued(s)' <=> Queued(s)
    BY <2>1 DEF NoDup, Exclusive, Queued
  <2>4. Exclusive'
    BY <2>1, <2>2, <2>3 DEF Exclusive
  <2>5. \A s \in Svc : Known(s)' => Known(s) \/ s = x
    BY <2>1, <2>3 DEF Known
  <2>. QED BY <1>6, <2>1, <2>2, <2>4, <2>5 DEF Drops
<1>. QED BY <1>1, <1>2, <1>3, <1>4, <1>5, <1>6 DEF Moved

-----------------------------------------------------------------------------
(* How references on a context come and go. *)

\* Nothing changes for s.
SameRefs(s) ==
    /\ ref'[s] = ref[s]
    /\ \A k \in RefKind, u \in Thread \cup {NULL} : Holds(k, u, s)' <=> Holds(k, u, s)

\* One reference more, taken by l for the thread or the storage v.
Grabs(s, l, v) ==
    /\ ref'[s] = ref[s] + 1
    /\ ~Holds(l, v, s)
    /\ \A k \in RefKind, u \in Thread \cup {NULL} :
         Holds(k, u, s)' <=> Holds(k, u, s) \/ (k = l /\ u = v)

\* skynet_context_release: one reference less, and the last one deletes.
Releases(t, s, l) ==
    /\ ref'[s] = ref[s] - 1
    /\ Holds(l, t, s)
    /\ \A k \in RefKind, u \in Thread \cup {NULL} :
         Holds(k, u, s)' <=> Holds(k, u, s) /\ ~(k = l /\ u = t)
    /\ ref[s] = 1 => pc'[t] = "delete" /\ gone'[t] = s
    /\ ref[s] # 1 => pc'[t] # "delete"

\* skynet_handle_retire takes over the reference of the slot.
HandsOver(t, s) ==
    /\ ref'[s] = ref[s]
    /\ Holds("slot", NULL, s) /\ ~Holds("prey", t, s)
    /\ \A k \in RefKind, u \in Thread \cup {NULL} :
         Holds(k, u, s)' <=> \/ Holds(k, u, s) /\ ~(k = "slot" /\ u = NULL)
                             \/ k = "prey" /\ u = t

\* skynet_context_new: the references of the creator and of the slot.
FirstRefs(t, s) ==
    /\ ctx[s] = "none" /\ ctx'[s] = "live"
    /\ ref'[s] = 2
    /\ \A k \in RefKind, u \in Thread \cup {NULL} :
         Holds(k, u, s)' <=> \/ Holds(k, u, s)
                             \/ k = "slot" /\ u = NULL
                             \/ k = "born" /\ u = t

\* What each action does to the references on s.
RefMoves(t, s) ==
    /\ GlobalPop(t) => SameRefs(s)
    /\ DispatchGrab(t) => SameRefs(s) \/ (s = q[t] /\ s \in slot /\ Grabs(s, "held", t))
    /\ DispatchEmpty(t) => SameRefs(s)
    /\ DispatchMessage(t) => SameRefs(s)
    /\ DispatchLength(t) => SameRefs(s)
    /\ DispatchNext(t) => SameRefs(s)
    /\ DispatchBack(t) => SameRefs(s)
    /\ DispatchRelease(t) => SameRefs(s) \/ (s = held[t] /\ Releases(t, s, "held"))
    /\ SendGrab(t) => SameRefs(s) \/ (s = dst[t] /\ s \in slot /\ Grabs(s, "dst", t))
    /\ MqPush(t) => SameRefs(s)
    /\ SendRelease(t) => SameRefs(s) \/ (s = dst[t] /\ Releases(t, s, "dst"))
    /\ MqCreate(t) => SameRefs(s)
    /\ SetInit(t) => SameRefs(s)
    /\ LaunchPush(t) => SameRefs(s)
    /\ Retire(t) => SameRefs(s) \/ HandsOver(t, s)
    /\ RetireRelease(t) => SameRefs(s) \/ (s = prey[t] /\ Releases(t, s, "prey"))
    /\ AbortStep(t) => SameRefs(s)
    /\ AbortPass(t) => SameRefs(s)
    /\ MqRelease(t) => SameRefs(s)
    /\ DropMessage(t) => SameRefs(s)
    /\ DropEnd(t) => SameRefs(s)
    /\ DeleteContext(t) => SameRefs(s)
    /\ Send(t) => SameRefs(s)
    /\ Launch(t) => SameRefs(s) \/ FirstRefs(t, s)
    /\ Reserve(t) => SameRefs(s) \/ (s = born[t] /\ Holds("born", t, s) /\ Grabs(s, "reserve", NULL))
    /\ Kill(t) => SameRefs(s)
    /\ Monitor(t) => SameRefs(s)
    /\ Abort(t) => SameRefs(s)
    /\ CallbackReturn(t) => SameRefs(s)
    /\ InitSucceeds(t) => SameRefs(s) \/ (s = born[t] /\ Releases(t, s, "born"))
    /\ InitFails(t) => SameRefs(s) \/ (s = born[t] /\ Releases(t, s, "born"))

\* The actions change references in no other way.
LEMMA StepRefs ==
    ASSUME Types, ControlOK, NEW t \in Thread, Step(t), NEW s \in Svc
    PROVE  RefMoves(t, s)
<1>0. LocalsOK(t) /\ Control(t) /\ (pc[t] = "grab" => held[t] = NULL)
  BY Locals, TypeParts DEF ControlOK, Dispatching, At
<1>. \A u \in Thread \ {t} : SameLocals(u)
  BY OthersKeep
<1>. NULL \notin Svc /\ NULL # "lpush"
  BY ConstantsAssumption DEF PC
<1>. USE <1>0 DEF LocalsOK, Control, InSend, InRetire, InLaunch, InRelease, At, SameLocals,
                  Types, ContextTypes, DispatchTypes, CallTypes, Goto,
                  shared, ctxVars, nodeVars, dispVars, sendVars, killVars, delVars, local,
                  SameRefs, Grabs, Releases, HandsOver, FirstRefs, Holds, Creating, RefKind
<1>1. GlobalPop(t) => SameRefs(s)
  BY DEF GlobalPop
<1>2. DispatchGrab(t) => SameRefs(s) \/ (s = q[t] /\ s \in slot /\ Grabs(s, "held", t))
  BY DEF DispatchGrab
<1>3. DispatchEmpty(t) => SameRefs(s)
  BY DEF DispatchEmpty
<1>4. DispatchMessage(t) => SameRefs(s)
  BY DEF DispatchMessage
<1>5. DispatchLength(t) => SameRefs(s)
  BY DEF DispatchLength
<1>6. DispatchNext(t) => SameRefs(s)
  BY DEF DispatchNext
<1>7. DispatchBack(t) => SameRefs(s)
  BY DEF DispatchBack
<1>8. DispatchRelease(t) => SameRefs(s) \/ (s = held[t] /\ Releases(t, s, "held"))
  BY DEF DispatchRelease, ContextRelease
<1>9. SendGrab(t) => SameRefs(s) \/ (s = dst[t] /\ s \in slot /\ Grabs(s, "dst", t))
  BY DEF SendGrab, SendReturn
<1>10. MqPush(t) => SameRefs(s)
  BY DEF MqPush
<1>11. SendRelease(t) => SameRefs(s) \/ (s = dst[t] /\ Releases(t, s, "dst"))
  BY DEF SendRelease, ContextRelease, SendReturn
<1>12. MqCreate(t) => SameRefs(s)
  BY DEF MqCreate
<1>13. SetInit(t) => SameRefs(s)
  BY DEF SetInit
<1>14. LaunchPush(t) => SameRefs(s)
  BY DEF LaunchPush
<1>15. Retire(t) => SameRefs(s) \/ HandsOver(t, s)
  BY DEF Retire
<1>16. RetireRelease(t) => SameRefs(s) \/ (s = prey[t] /\ Releases(t, s, "prey"))
  BY DEF RetireRelease, ContextRelease
<1>17. AbortStep(t) => SameRefs(s)
  BY DEF AbortStep
<1>18. AbortPass(t) => SameRefs(s)
  BY DEF AbortPass
<1>19. MqRelease(t) => SameRefs(s)
  BY DEF MqRelease, ReleaseReturn
<1>20. DropMessage(t) => SameRefs(s)
  BY DEF DropMessage, SendTo
<1>21. DropEnd(t) => SameRefs(s)
  BY DEF DropEnd, ReleaseReturn
<1>22. DeleteContext(t) => SameRefs(s)
  BY DEF DeleteContext, MarkRelease
<1>23. Send(t) => SameRefs(s)
  BY DEF Send, SendTo
<1>24. Launch(t) => SameRefs(s) \/ FirstRefs(t, s)
  <2>. SUFFICES ASSUME Launch(t) PROVE SameRefs(s) \/ FirstRefs(t, s)
    OBVIOUS
  <2>1. pc[t] = "cb" /\ born[t] = NULL /\ dret[t] = NULL
    BY QueuesAtLocation DEF Launch, QueuesAt
  <2>2. PICK x \in Svc : /\ ctx[x] = "none" /\ ctx' = [ctx EXCEPT ![x] = "live"]
                         /\ ref' = [ref EXCEPT ![x] = 2]
                         /\ slot' = slot \cup {x}
                         /\ born' = [born EXCEPT ![t] = x]
    BY DEF Launch
  <2>3. CASE s = x
    BY <2>1, <2>2, <2>3 DEF Launch
  <2>4. CASE s # x
    BY <2>1, <2>2, <2>4 DEF Launch
  <2>. QED BY <2>3, <2>4
<1>25. Reserve(t) => SameRefs(s) \/ (s = born[t] /\ Holds("born", t, s) /\ Grabs(s, "reserve", NULL))
  BY DEF Reserve
<1>26. Kill(t) => SameRefs(s)
  BY DEF Kill, SendTo
<1>27. Monitor(t) => SameRefs(s)
  BY DEF Monitor
<1>28. Abort(t) => SameRefs(s)
  BY DEF Abort
<1>29. CallbackReturn(t) => SameRefs(s)
  BY DEF CallbackReturn
<1>30. InitSucceeds(t) => SameRefs(s) \/ (s = born[t] /\ Releases(t, s, "born"))
  BY DEF InitSucceeds, ContextRelease
<1>31. InitFails(t) => SameRefs(s) \/ (s = born[t] /\ Releases(t, s, "born"))
  BY DEF InitFails, ContextRelease
<1>. QED BY <1>1, <1>2, <1>3, <1>4, <1>5, <1>6, <1>7, <1>8, <1>9, <1>10, <1>11, <1>12, <1>13, <1>14, <1>15, <1>16, <1>17, <1>18, <1>19, <1>20, <1>21, <1>22, <1>23, <1>24, <1>25, <1>26, <1>27, <1>28, <1>29, <1>30, <1>31 DEF RefMoves

\* There are finitely many places for a reference.
LEMMA OwnersFinite ==
    ASSUME NEW s
    PROVE  IsFiniteSet(Owners(s)) /\ IsFiniteSet(Owners(s)')
<1>1. IsFiniteSet(Thread \cup {NULL})
  BY ConstantsAssumption, FS_Union, FS_Singleton DEF Thread
<1>2. IsFiniteSet(RefKind)
  <2>1. IsFiniteSet({"slot"}) /\ IsFiniteSet({"reserve"}) /\ IsFiniteSet({"born"})
        /\ IsFiniteSet({"held"}) /\ IsFiniteSet({"dst"}) /\ IsFiniteSet({"prey"})
    BY FS_Singleton
  <2>2. IsFiniteSet({"slot"} \cup {"reserve"}) /\ IsFiniteSet({"born"} \cup {"held"})
        /\ IsFiniteSet({"dst"} \cup {"prey"})
    BY <2>1, FS_Union
  <2>3. IsFiniteSet(({"slot"} \cup {"reserve"}) \cup ({"born"} \cup {"held"}))
    BY <2>2, FS_Union
  <2>4. IsFiniteSet((({"slot"} \cup {"reserve"}) \cup ({"born"} \cup {"held"}))
                       \cup ({"dst"} \cup {"prey"}))
    BY <2>2, <2>3, FS_Union
  <2>5. RefKind = (({"slot"} \cup {"reserve"}) \cup ({"born"} \cup {"held"}))
                     \cup ({"dst"} \cup {"prey"})
    BY DEF RefKind
  <2>. QED BY <2>4, <2>5
<1>3. IsFiniteSet(RefKind \X (Thread \cup {NULL}))
  BY <1>1, <1>2, FS_Product
<1>4. /\ Owners(s) \in SUBSET (RefKind \X (Thread \cup {NULL}))
      /\ Owners(s)' \in SUBSET (RefKind \X (Thread \cup {NULL}))
  BY DEF Owners
<1>. QED BY <1>3, <1>4, FS_Subset

\* The set of references, before and after a step that changes them.
LEMMA OwnersChange ==
    ASSUME NEW s, NEW t \in Thread
    PROVE  /\ SameRefs(s) => Owners(s)' = Owners(s)
           /\ \A l \in RefKind, v \in Thread \cup {NULL} : Grabs(s, l, v) =>
                <<l, v>> \notin Owners(s) /\ Owners(s)' = Owners(s) \cup {<<l, v>>}
           /\ \A l \in RefKind : Releases(t, s, l) =>
                <<l, t>> \in Owners(s) /\ Owners(s)' = Owners(s) \ {<<l, t>>}
           /\ HandsOver(t, s) =>
                /\ <<"slot", NULL>> \in Owners(s) /\ <<"prey", t>> \notin Owners(s)
                /\ Owners(s)' = (Owners(s) \ {<<"slot", NULL>>}) \cup {<<"prey", t>>}
           /\ FirstRefs(t, s) /\ Owners(s) = {} =>
                Owners(s)' = {<<"slot", NULL>>} \cup {<<"born", t>>}
<1>1. SameRefs(s) => Owners(s)' = Owners(s)
  BY DEF SameRefs, Owners
<1>2. ASSUME NEW l \in RefKind, NEW v \in Thread \cup {NULL}, Grabs(s, l, v)
      PROVE  <<l, v>> \notin Owners(s) /\ Owners(s)' = Owners(s) \cup {<<l, v>>}
  BY <1>2 DEF Grabs, Owners
<1>3. ASSUME NEW l \in RefKind, Releases(t, s, l)
      PROVE  <<l, t>> \in Owners(s) /\ Owners(s)' = Owners(s) \ {<<l, t>>}
  BY <1>3 DEF Releases, Owners
<1>4. HandsOver(t, s) =>
        /\ <<"slot", NULL>> \in Owners(s) /\ <<"prey", t>> \notin Owners(s)
        /\ Owners(s)' = (Owners(s) \ {<<"slot", NULL>>}) \cup {<<"prey", t>>}
  <2>1. "slot" \in RefKind /\ "prey" \in RefKind
    BY DEF RefKind
  <2>. QED BY <2>1 DEF HandsOver, Owners
<1>5. FirstRefs(t, s) /\ Owners(s) = {} =>
        Owners(s)' = {<<"slot", NULL>>} \cup {<<"born", t>>}
  <2>1. "slot" \in RefKind /\ "born" \in RefKind
    BY DEF RefKind
  <2>. QED BY <2>1 DEF FirstRefs, Owners
<1>. QED BY <1>1, <1>2, <1>3, <1>4, <1>5

\* Every step changes the count with the set.
LEMMA CountStep ==
    ASSUME Types, NEW t \in Thread, NEW s \in Svc,
           ref[s] = Cardinality(Owners(s)), ctx[s] # "live" => Owners(s) = {},
           \/ SameRefs(s)
           \/ \E l \in RefKind, v \in Thread \cup {NULL} : Grabs(s, l, v)
           \/ \E l \in RefKind : Releases(t, s, l)
           \/ HandsOver(t, s)
           \/ FirstRefs(t, s)
    PROVE  ref'[s] = Cardinality(Owners(s)')
<1>1. IsFiniteSet(Owners(s)) /\ Cardinality(Owners(s)) \in Nat
  BY OwnersFinite, FS_CardinalityType
<1>2. CASE SameRefs(s)
  BY <1>2, OwnersChange DEF SameRefs
<1>3. ASSUME NEW l \in RefKind, NEW v \in Thread \cup {NULL}, Grabs(s, l, v)
      PROVE  ref'[s] = Cardinality(Owners(s)')
  <2>1. <<l, v>> \notin Owners(s) /\ Owners(s)' = Owners(s) \cup {<<l, v>>}
    BY <1>3, OwnersChange
  <2>2. Cardinality(Owners(s) \cup {<<l, v>>}) = Cardinality(Owners(s)) + 1
    BY <1>1, <2>1, FS_AddElement
  <2>. QED BY <1>3, <2>1, <2>2 DEF Grabs
<1>4. ASSUME NEW l \in RefKind, Releases(t, s, l)
      PROVE  ref'[s] = Cardinality(Owners(s)')
  <2>1. <<l, t>> \in Owners(s) /\ Owners(s)' = Owners(s) \ {<<l, t>>}
    BY <1>4, OwnersChange
  <2>2. Cardinality(Owners(s) \ {<<l, t>>}) = Cardinality(Owners(s)) - 1
    BY <1>1, <2>1, FS_RemoveElement
  <2>. QED BY <1>4, <2>1, <2>2 DEF Releases
<1>5. CASE HandsOver(t, s)
  <2>1. DEFINE R == Owners(s) \ {<<"slot", NULL>>}
  <2>2. /\ <<"slot", NULL>> \in Owners(s) /\ <<"prey", t>> \notin Owners(s)
        /\ Owners(s)' = R \cup {<<"prey", t>>}
    BY <1>5, OwnersChange
  <2>3. IsFiniteSet(R) /\ Cardinality(R) = Cardinality(Owners(s)) - 1
    BY <1>1, <2>2, FS_RemoveElement
  <2>4. <<"prey", t>> \notin R
    BY <2>2
  <2>5. Cardinality(R \cup {<<"prey", t>>}) = Cardinality(R) + 1
    <3>. HIDE DEF R
    <3>. QED BY <2>3, <2>4, FS_AddElement
  <2>. QED BY <1>1, <1>5, <2>2, <2>3, <2>5 DEF HandsOver
<1>6. CASE FirstRefs(t, s)
  <2>1. Owners(s)' = {<<"slot", NULL>>} \cup {<<"born", t>>}
    BY <1>6, OwnersChange DEF FirstRefs
  <2>2. <<"born", t>> \notin {<<"slot", NULL>>}
    OBVIOUS
  <2>3. Cardinality({<<"slot", NULL>>}) = 1 /\ IsFiniteSet({<<"slot", NULL>>})
    BY FS_Singleton
  <2>4. ASSUME NEW R, R = {<<"slot", NULL>>}
        PROVE  Cardinality(R \cup {<<"born", t>>}) = Cardinality(R) + 1
    BY <2>2, <2>3, <2>4, FS_AddElement
  <2>. QED BY <1>6, <2>1, <2>3, <2>4 DEF FirstRefs
<1>. QED BY <1>2, <1>3, <1>4, <1>5, <1>6

\* Every step is one of these changes to the references on s; a reference is
\* added only to a context that has one, or that is new.
LEMMA RefCases ==
    ASSUME Types, ControlOK, NEW t \in Thread, Step(t), NEW s \in Svc
    PROVE  \/ SameRefs(s)
           \/ /\ Owners(s) # {}
              /\ \E l \in RefKind, v \in Thread \cup {NULL} : Grabs(s, l, v)
           \/ \E l \in RefKind : Releases(t, s, l)
           \/ HandsOver(t, s)
           \/ FirstRefs(t, s)
<1>1. RefMoves(t, s)
  BY StepRefs
<1>2. s \in slot => Owners(s) # {}
  <2>1. s \in slot => <<"slot", NULL>> \in Owners(s)
    BY DEF Owners, Holds, RefKind
  <2>. QED BY <2>1
<1>3. Holds("born", t, s) => Owners(s) # {}
  <2>1. Holds("born", t, s) => <<"born", t>> \in Owners(s)
    BY DEF Owners, RefKind
  <2>. QED BY <2>1
<1>4. {"slot", "reserve", "born", "held", "dst", "prey"} = RefKind
  BY DEF RefKind
<1>. HIDE DEF SameRefs, Grabs, Releases, HandsOver, FirstRefs
<1>. QED BY <1>1, <1>2, <1>3, <1>4, Zenon DEF RefMoves, Step, Continue, Choose, InitEnds

-----------------------------------------------------------------------------
(* How the memory and the flags change. *)

\* The memory and the flags of every context and queue stay as they are.
SameMemory == ctx' = ctx /\ release' = release /\ mqmem' = mqmem /\ in_global' = in_global

\* The actions that change them.
Special(t) ==
    \/ DispatchEmpty(t) \/ MqPush(t) \/ MqCreate(t) \/ DropEnd(t) \/ DeleteContext(t)
    \/ Launch(t)

\* The others leave them alone, and are not about a queue that is being created.
LEMMA PlainStep ==
    ASSUME Types, ControlOK, NEW t \in Thread, Step(t), ~Special(t)
    PROVE  SameMemory /\ pc[t] # "create" /\ pc'[t] # "create"
<1>0. LocalsOK(t) /\ Control(t)
  BY Locals, TypeParts DEF ControlOK
<1>. USE <1>0 DEF SameMemory, LocalsOK, Control, InSend, InRetire, Types, DispatchTypes, Goto,
                  shared, ctxVars, mqVars, local
<1>1. CASE GlobalPop(t)
  BY <1>1 DEF GlobalPop
<1>2. CASE DispatchGrab(t)
  BY <1>2 DEF DispatchGrab
<1>3. CASE DispatchMessage(t)
  BY <1>3 DEF DispatchMessage
<1>4. CASE DispatchLength(t)
  BY <1>4 DEF DispatchLength
<1>5. CASE DispatchNext(t)
  BY <1>5 DEF DispatchNext
<1>6. CASE DispatchBack(t)
  BY <1>6 DEF DispatchBack
<1>7. CASE DispatchRelease(t)
  BY <1>7 DEF DispatchRelease, ContextRelease
<1>8. CASE SendGrab(t)
  BY <1>8 DEF SendGrab, SendReturn
<1>9. CASE SendRelease(t)
  BY <1>9 DEF SendRelease, ContextRelease, SendReturn
<1>10. CASE SetInit(t)
  BY <1>10 DEF SetInit
<1>11. CASE LaunchPush(t)
  BY <1>11 DEF LaunchPush
<1>12. CASE Retire(t)
  BY <1>12 DEF Retire
<1>13. CASE RetireRelease(t)
  BY <1>13 DEF RetireRelease, ContextRelease
<1>14. CASE AbortStep(t)
  BY <1>14 DEF AbortStep
<1>15. CASE AbortPass(t)
  BY <1>15 DEF AbortPass
<1>16. CASE MqRelease(t)
  BY <1>16 DEF MqRelease, ReleaseReturn
<1>17. CASE DropMessage(t)
  BY <1>17 DEF DropMessage, SendTo
<1>18. CASE Send(t)
  BY <1>18 DEF Send, SendTo
<1>19. CASE Reserve(t)
  BY <1>19 DEF Reserve
<1>20. CASE Kill(t)
  BY <1>20 DEF Kill, SendTo
<1>21. CASE Monitor(t)
  BY <1>21 DEF Monitor
<1>22. CASE Abort(t)
  BY <1>22 DEF Abort
<1>23. CASE CallbackReturn(t)
  BY <1>23 DEF CallbackReturn
<1>24. CASE InitSucceeds(t)
  BY <1>24 DEF InitSucceeds, ContextRelease
<1>25. CASE InitFails(t)
  BY <1>25 DEF InitFails, ContextRelease
<1>. QED BY <1>1, <1>2, <1>3, <1>4, <1>5, <1>6, <1>7, <1>8, <1>9, <1>10, <1>11, <1>12, <1>13, <1>14, <1>15, <1>16, <1>17, <1>18, <1>19, <1>20, <1>21, <1>22, <1>23, <1>24, <1>25
         DEF Special, Step, Continue, Choose, InitEnds

\* They move queues within the known ones.
LEMMA PlainMove ==
    ASSUME Types, ControlOK, QueueExclusive, NEW t \in Thread, Step(t), ~Special(t)
    PROVE  Keeps(t) \/ Takes(t) \/ \E x \in Svc : Gives(t, x)
<1>1. LocalsOK(t) /\ Moves(t)
  BY Locals, TypeParts, StepMoves
<1>2. DispatchBack(t) => q[t] \in Svc
  BY <1>1 DEF LocalsOK, DispatchBack
<1>3. LaunchPush(t) => born[t] \in Svc
  BY <1>1 DEF LocalsOK, LaunchPush
<1>4. MqRelease(t) => dq[t] \in Svc
  BY <1>1 DEF LocalsOK, MqRelease
<1>. QED
  BY <1>1, <1>2, <1>3, <1>4, Zenon DEF Moves, Special, Step, Continue, Choose, InitEnds

\* A thread enters delete_context when it has dropped the last reference.
LEMMA DeleteEntry ==
    ASSUME Types, ControlOK, NEW t \in Thread, Step(t), pc'[t] = "delete"
    PROVE  \E s \in Svc, l \in RefKind : gone'[t] = s /\ ref[s] = 1 /\ Releases(t, s, l)
<1>0. LocalsOK(t) /\ Control(t)
  BY Locals, TypeParts DEF ControlOK
<1>1. \/ DispatchRelease(t) \/ SendRelease(t) \/ RetireRelease(t)
      \/ InitSucceeds(t) \/ InitFails(t)
  <2>. USE <1>0 DEF LocalsOK, Control, InSend, InRetire, Types, DispatchTypes, Goto,
                    shared, local
  <2>1. ~GlobalPop(t)
    BY DEF GlobalPop
  <2>2. ~DispatchGrab(t)
    BY DEF DispatchGrab
  <2>3. ~DispatchEmpty(t)
    BY DEF DispatchEmpty
  <2>4. ~DispatchMessage(t)
    BY DEF DispatchMessage
  <2>5. ~DispatchLength(t)
    BY DEF DispatchLength
  <2>6. ~DispatchNext(t)
    BY DEF DispatchNext
  <2>7. ~DispatchBack(t)
    BY DEF DispatchBack
  <2>8. ~SendGrab(t)
    BY DEF SendGrab, SendReturn
  <2>9. ~MqPush(t)
    BY DEF MqPush
  <2>10. ~MqCreate(t)
    BY DEF MqCreate
  <2>11. ~SetInit(t)
    BY DEF SetInit
  <2>12. ~LaunchPush(t)
    BY DEF LaunchPush
  <2>13. ~Retire(t)
    BY DEF Retire
  <2>14. ~AbortStep(t)
    BY DEF AbortStep
  <2>15. ~AbortPass(t)
    BY DEF AbortPass
  <2>16. ~MqRelease(t)
    BY DEF MqRelease, ReleaseReturn
  <2>17. ~DropMessage(t)
    BY DEF DropMessage, SendTo
  <2>18. ~DropEnd(t)
    BY DEF DropEnd, ReleaseReturn
  <2>19. ~DeleteContext(t)
    BY DEF DeleteContext, MarkRelease
  <2>20. ~Send(t)
    BY DEF Send, SendTo
  <2>21. ~Launch(t)
    BY DEF Launch
  <2>22. ~Reserve(t)
    BY DEF Reserve
  <2>23. ~Kill(t)
    BY DEF Kill, SendTo
  <2>24. ~Monitor(t)
    BY DEF Monitor
  <2>25. ~Abort(t)
    BY DEF Abort
  <2>26. ~CallbackReturn(t)
    BY DEF CallbackReturn
  <2>. QED BY <2>1, <2>2, <2>3, <2>4, <2>5, <2>6, <2>7, <2>8, <2>9, <2>10, <2>11, <2>12, <2>13, <2>14, <2>15, <2>16, <2>17, <2>18, <2>19, <2>20, <2>21, <2>22, <2>23, <2>24, <2>25, <2>26, Zenon
           DEF Step, Continue, Choose, InitEnds
<1>2. CASE DispatchRelease(t)
  <2>1. PICK s \in Svc : s = held[t]
    BY <1>0, <1>2 DEF LocalsOK, DispatchRelease
  <2>2. ref'[s] # ref[s] /\ ref[s] = 1 /\ gone'[t] = s
    BY <1>0, <1>2, <2>1 DEF LocalsOK, DispatchRelease, ContextRelease, Types, ContextTypes, DispatchTypes, CallTypes, Goto
  <2>3. Releases(t, s, "held")
    BY <1>2, <2>2, StepRefs DEF RefMoves, SameRefs
  <2>. QED BY <2>2, <2>3 DEF RefKind
<1>3. CASE SendRelease(t)
  <2>1. PICK s \in Svc : s = dst[t]
    BY <1>0, <1>3 DEF LocalsOK, SendRelease
  <2>2. ref'[s] # ref[s] /\ ref[s] = 1 /\ gone'[t] = s
    BY <1>0, <1>3, <2>1 DEF Control, InSend, LocalsOK, SendRelease, ContextRelease, SendReturn, Types, ContextTypes, DispatchTypes, CallTypes, Goto
  <2>3. Releases(t, s, "dst")
    BY <1>3, <2>2, StepRefs DEF RefMoves, SameRefs
  <2>. QED BY <2>2, <2>3 DEF RefKind
<1>4. CASE RetireRelease(t)
  <2>1. PICK s \in Svc : s = prey[t]
    BY <1>0, <1>4 DEF LocalsOK, RetireRelease
  <2>2. ref'[s] # ref[s] /\ ref[s] = 1 /\ gone'[t] = s
    BY <1>0, <1>4, <2>1 DEF Control, InRetire, LocalsOK, RetireRelease, ContextRelease, Types, ContextTypes, DispatchTypes, CallTypes, Goto
  <2>3. Releases(t, s, "prey")
    BY <1>4, <2>2, StepRefs DEF RefMoves, SameRefs
  <2>. QED BY <2>2, <2>3 DEF RefKind
<1>5. CASE InitSucceeds(t)
  <2>1. PICK s \in Svc : s = born[t]
    BY <1>0, <1>5 DEF LocalsOK, InitSucceeds
  <2>2. ref'[s] # ref[s] /\ ref[s] = 1 /\ gone'[t] = s
    BY <1>0, <1>5, <2>1 DEF LocalsOK, InitSucceeds, ContextRelease, Types, ContextTypes, DispatchTypes, CallTypes, Goto
  <2>3. Releases(t, s, "born")
    BY <1>5, <2>2, StepRefs DEF RefMoves, SameRefs
  <2>. QED BY <2>2, <2>3 DEF RefKind
<1>6. CASE InitFails(t)
  <2>1. PICK s \in Svc : s = born[t]
    BY <1>0, <1>6 DEF LocalsOK, InitFails
  <2>2. ref'[s] # ref[s] /\ ref[s] = 1 /\ gone'[t] = s
    BY <1>0, <1>6, <2>1 DEF LocalsOK, InitFails, ContextRelease, Types, ContextTypes, DispatchTypes, CallTypes, Goto
  <2>3. Releases(t, s, "born")
    BY <1>6, <2>2, StepRefs DEF RefMoves, SameRefs
  <2>. QED BY <2>2, <2>3 DEF RefKind
<1>. QED BY <1>1, <1>2, <1>3, <1>4, <1>5, <1>6

\* No other queue becomes known.
LEMMA KnownMove ==
    ASSUME Types, NEW t \in Thread, \A u \in Thread \ {t} : Owned(u)' = Owned(u)
    PROVE  /\ (Keeps(t) \/ Takes(t) \/ \E x \in Svc : Gives(t, x) \/ Drops(t, x))
                => \A s \in Svc : Known(s)' => Known(s)
           /\ \A x \in Svc : Enters(t, x) \/ Creates(t, x)
                => \A s \in Svc : Known(s)' => Known(s) \/ s = x
<1>. globalmq \in Seq(Svc) /\ \A u \in Thread : Owned(u) \subseteq Svc
  BY OwnedType DEF Types, QueueTypes
<1>2. ASSUME Takes(t)
      PROVE  \A s \in Svc : Known(s)' => Known(s)
  <2>1. PICK x \in Svc : x = Head(globalmq)
    BY <1>2, HeadTailProperties DEF Takes
  <2>2. Queued(x) /\ Owned(t)' = Owned(t) \cup {x} /\ \A s \in Svc : Queued(s)' => Queued(s)
    BY <1>2, <2>1, QueuedTail DEF Takes
  <2>. QED BY <2>2 DEF Known
<1>3. ASSUME NEW x \in Svc, Gives(t, x)
      PROVE  \A s \in Svc : Known(s)' => Known(s)
  <2>1. \A s \in Svc : Queued(s)' <=> Queued(s) \/ s = x
    BY <1>3, QueuedAppend DEF Gives
  <2>. QED BY <1>3, <2>1 DEF Gives, Known
<1>4. ASSUME NEW x \in Svc, Drops(t, x)
      PROVE  \A s \in Svc : Known(s)' => Known(s)
  BY <1>4 DEF Drops, Queued, Known
<1>5. ASSUME NEW x \in Svc, Enters(t, x)
      PROVE  \A s \in Svc : Known(s)' => Known(s) \/ s = x
  <2>1. \A s \in Svc : Queued(s)' <=> Queued(s) \/ s = x
    BY <1>5, QueuedAppend DEF Enters
  <2>. QED BY <1>5, <2>1 DEF Enters, Known
<1>6. ASSUME NEW x \in Svc, Creates(t, x)
      PROVE  \A s \in Svc : Known(s)' => Known(s) \/ s = x
  BY <1>6 DEF Creates, Queued, Known
<1>7. Keeps(t) => \A s \in Svc : Known(s)' => Known(s)
  BY DEF Keeps, Queued, Known
<1>. QED BY <1>2, <1>3, <1>4, <1>5, <1>6, <1>7

-----------------------------------------------------------------------------
(* The invariant: references and deletion. *)

\* A reference keeps the context alive, and its queue from being dropped.
LEMMA Alive ==
    ASSUME Inv, NEW s \in Svc, Owners(s) # {}
    PROVE  ctx[s] = "live" /\ ~release[s] /\ mqmem[s] # "freed"
  BY DEF Inv, Counted, Phases

\* A creator that has not released its reference is among the owners.
LEMMA BegunOwned ==
    ASSUME Inv, NEW s \in Svc, Begun(s)
    PROVE  Owners(s) # {}
<1>1. PICK u \in Thread : pc[u] = "create" /\ born[u] = s
  BY DEF Begun
<1>2. dret[u] = NULL
  BY <1>1 DEF Inv, ControlOK, Control
<1>3. Holds("born", u, s)
  BY <1>1, <1>2, ConstantsAssumption, Locations DEF Holds, Creating
<1>4. <<"born", u>> \in Owners(s)
  BY <1>3 DEF Owners, RefKind
<1>. QED BY <1>4

\* The destination of a push is alive, and if it is not marked, nobody has it.
LEMMA PushTarget ==
    ASSUME Inv, NEW t \in Thread, pc[t] = "push"
    PROVE  /\ dst[t] \in Svc /\ ctx[dst[t]] = "live" /\ mqmem[dst[t]] = "live"
           /\ ~release[dst[t]] /\ ~Begun(dst[t])
           /\ ~in_global[dst[t]] => ~Known(dst[t])
<1>1. dst[t] \in Svc /\ Holds("dst", t, dst[t])
  BY DEF Inv, ControlOK, Control, InSend, Holds
<1>2. <<"dst", t>> \in Owners(dst[t])
  BY <1>1 DEF Owners, RefKind
<1>3. ctx[dst[t]] = "live" /\ ~release[dst[t]] /\ mqmem[dst[t]] # "freed"
  BY <1>1, <1>2, Alive
<1>4. mqmem[dst[t]] # "none"
  BY DEF Inv, Addressed, InSend
<1>5. ~Begun(dst[t])
  BY <1>1, <1>4 DEF Inv, Phases
<1>6. mqmem[dst[t]] = "live"
  BY <1>1, <1>3, <1>4 DEF Inv, TypeOK
<1>. QED BY <1>1, <1>3, <1>5, <1>6 DEF Inv, Marked

\* The same of the context that a thread is about to delete.
LEMMA DeleteTarget ==
    ASSUME Inv, NEW t \in Thread, pc[t] = "delete"
    PROVE  /\ gone[t] \in Svc /\ ctx[gone[t]] = "live" /\ mqmem[gone[t]] = "live"
           /\ ~release[gone[t]] /\ Owners(gone[t]) = {} /\ ~Begun(gone[t])
           /\ ~in_global[gone[t]] => ~Known(gone[t])
<1>1. gone[t] \in Svc /\ ctx[gone[t]] = "live" /\ Owners(gone[t]) = {}
  BY DEF Inv, ControlOK, Control, Deleting
<1>2. ~release[gone[t]]
  BY <1>1 DEF Inv, Phases
<1>3. ~Begun(gone[t])
  BY <1>1, BegunOwned
<1>4. mqmem[gone[t]] = "live"
  BY <1>1, <1>3 DEF Inv, Phases, TypeOK
<1>. QED BY <1>1, <1>2, <1>3, <1>4 DEF Inv, Marked

\* A step deletes no context that has a reference.
LEMMA StaysAlive ==
    ASSUME Inv, NEW t \in Thread, Step(t), NEW s \in Svc, Owners(s) # {}
    PROVE  ctx'[s] = "live"
<1>1. ctx[s] = "live" /\ Types /\ ControlOK
  BY Alive, TypeParts DEF Inv
<1>2. CASE ~Special(t)
  BY <1>1, <1>2, PlainStep DEF SameMemory
<1>3. CASE DeleteContext(t)
  <2>1. s # gone[t]
    BY <1>3, DeleteTarget DEF DeleteContext
  <2>. QED BY <1>1, <1>3, <2>1 DEF DeleteContext, Types, ContextTypes
<1>4. CASE Launch(t)
  BY <1>1, <1>4 DEF Launch, Types, ContextTypes
<1>5. CASE DispatchEmpty(t) \/ MqPush(t) \/ MqCreate(t) \/ DropEnd(t)
  BY <1>1, <1>5 DEF DispatchEmpty, MqPush, MqCreate, DropEnd, ctxVars
<1>. QED BY <1>2, <1>3, <1>4, <1>5 DEF Special

\* A step gives no reference to a context that has none, unless it is new.
LEMMA StaysUnowned ==
    ASSUME Inv, NEW t \in Thread, Step(t), NEW s \in Svc, Owners(s) = {}, ctx[s] # "none"
    PROVE  Owners(s)' = {}
<1>1. Types /\ ControlOK
  BY TypeParts DEF Inv
<1>2. ~FirstRefs(t, s)
  BY DEF FirstRefs
<1>. QED BY <1>1, <1>2, RefCases, OwnersChange

\* ctx->ref follows the references.
LEMMA CountedStep ==
    ASSUME Inv, NEW t \in Thread, Step(t)
    PROVE  Counted'
<1>1. Types /\ ControlOK
  BY TypeParts DEF Inv
<1>2. ASSUME NEW s \in Svc
      PROVE  ref'[s] = Cardinality(Owners(s)')
  <2>1. ref[s] = Cardinality(Owners(s)) /\ (ctx[s] # "live" => Owners(s) = {})
    BY DEF Inv, Counted
  <2>2. \/ SameRefs(s)
        \/ \E l \in RefKind, v \in Thread \cup {NULL} : Grabs(s, l, v)
        \/ \E l \in RefKind : Releases(t, s, l)
        \/ HandsOver(t, s)
        \/ FirstRefs(t, s)
    BY <1>1, RefCases
  <2>. QED BY <1>1, <2>1, <2>2, CountStep
<1>3. ASSUME NEW s \in Svc, ctx'[s] # "live"
      PROVE  Owners(s)' = {}
  <2>1. Owners(s) = {}
    BY <1>3, StaysAlive
  <2>2. ~FirstRefs(t, s)
    BY <1>3 DEF FirstRefs
  <2>. QED BY <1>1, <2>1, <2>2, RefCases, OwnersChange
<1>. QED BY <1>2, <1>3 DEF Counted

\* One thread deletes a context, and it does so when no reference is left.
LEMMA DeletingStep ==
    ASSUME Inv, NEW t \in Thread, Step(t)
    PROVE  Deleting'
<1>1. Types /\ ControlOK /\ Deleting
  BY TypeParts DEF Inv
<1>2. \A u \in Thread \ {t} : SameLocals(u)
  BY <1>1, OthersKeep
<1>3. ASSUME pc'[t] = "delete"
      PROVE  /\ ctx'[gone'[t]] = "live" /\ Owners(gone[t])' = {}
             /\ Owners(gone'[t]) # {}
  <2>1. PICK s \in Svc, l \in RefKind : gone'[t] = s /\ ref[s] = 1 /\ Releases(t, s, l)
    BY <1>1, <1>3, DeleteEntry
  <2>2. Owners(s) # {}
    BY <2>1, OwnersChange
  <2>3. ctx'[s] = "live"
    BY <2>2, StaysAlive
  <2>4. ref'[s] = Cardinality(Owners(s)') /\ ref'[s] = 0
    BY <2>1, CountedStep DEF Counted, Releases
  <2>5. Owners(s)' = {}
    BY <2>4, OwnersFinite, FS_EmptySet
  <2>. QED BY <2>1, <2>2, <2>3, <2>5 DEF Owners, Holds, Creating
<1>4. ASSUME NEW u \in Thread \ {t}, pc'[u] = "delete"
      PROVE  /\ pc[u] = "delete" /\ gone'[u] = gone[u]
             /\ ctx'[gone'[u]] = "live" /\ Owners(gone[u])' = {}
  <2>1. pc[u] = "delete" /\ gone'[u] = gone[u]
    BY <1>2, <1>4 DEF SameLocals
  <2>2. PICK s \in Svc : s = gone[u]
    BY <2>1, DeleteTarget
  <2>3. ctx[s] = "live" /\ Owners(s) = {}
    BY <2>1, <2>2, DeleteTarget
  <2>4. Owners(s)' = {}
    BY <2>3, StaysUnowned
  <2>5. ctx'[s] = "live"
    <3>1. CASE ~Special(t)
      BY <1>1, <2>3, <3>1, PlainStep DEF SameMemory
    <3>2. CASE DeleteContext(t)
      <4>1. s # gone[t]
        BY <1>1, <2>1, <2>2, <3>2 DEF Deleting, DeleteContext
      <4>. QED BY <1>1, <2>3, <3>2, <4>1 DEF DeleteContext, Types, ContextTypes
    <3>3. CASE Launch(t)
      BY <1>1, <2>3, <3>3 DEF Launch, Types, ContextTypes
    <3>4. CASE DispatchEmpty(t) \/ MqPush(t) \/ MqCreate(t) \/ DropEnd(t)
      BY <2>3, <3>4 DEF DispatchEmpty, MqPush, MqCreate, DropEnd, ctxVars
    <3>. QED BY <3>1, <3>2, <3>3, <3>4 DEF Special
  <2>. QED BY <2>1, <2>2, <2>4, <2>5 DEF Owners, Holds, Creating
<1>5. ASSUME NEW u \in Thread, NEW v \in Thread,
             pc'[u] = "delete", pc'[v] = "delete", gone'[v] = gone'[u]
      PROVE  v = u
  BY <1>1, <1>3, <1>4, <1>5 DEF Deleting
<1>. QED BY <1>3, <1>4, <1>5 DEF Deleting

-----------------------------------------------------------------------------
(* The invariant: queues. *)

\* Every step moves queues in one of the ways that keep them apart.
LEMMA StepMoved ==
    ASSUME Inv, NEW t \in Thread, Step(t)
    PROVE  Moved(t)
<1>1. Types /\ ControlOK /\ QueueExclusive /\ Existing /\ LocalsOK(t)
  BY TypeParts, Locals DEF Inv
<1>2. Moves(t)
  BY <1>1, StepMoves
<1>3. CASE ~Special(t)
  BY <1>1, <1>3, PlainMove DEF Moved
<1>4. CASE DispatchEmpty(t)
  <2>1. Drops(t, q[t]) /\ q[t] \in Svc
    BY <1>1, <1>2, <1>4 DEF Moves, DispatchEmpty, LocalsOK
  <2>. QED BY <2>1 DEF Moved
<1>5. CASE MqPush(t)
  <2>1. Keeps(t) \/ Enters(t, dst[t])
    BY <1>2, <1>5 DEF Moves
  <2>2. dst[t] \in Svc /\ (~in_global[dst[t]] => ~Known(dst[t]))
    BY <1>5, PushTarget DEF MqPush
  <2>. QED BY <2>1, <2>2 DEF Moved, Enters
<1>6. CASE MqCreate(t)
  BY <1>2, <1>6 DEF Moves, Moved
<1>7. CASE DropEnd(t)
  <2>1. Drops(t, dq[t]) /\ dq[t] \in Svc
    BY <1>1, <1>2, <1>7 DEF Moves, DropEnd, LocalsOK
  <2>. QED BY <2>1 DEF Moved
<1>8. CASE DeleteContext(t)
  <2>1. Keeps(t) \/ Enters(t, gone[t])
    BY <1>2, <1>8 DEF Moves
  <2>2. gone[t] \in Svc /\ (~in_global[gone[t]] => ~Known(gone[t]))
    BY <1>8, DeleteTarget DEF DeleteContext
  <2>. QED BY <2>1, <2>2 DEF Moved, Enters
<1>9. CASE Launch(t)
  <2>1. PICK s \in Svc : Creates(t, s)
    BY <1>2, <1>9 DEF Moves
  <2>2. ~Known(s)
    BY <1>1, <2>1 DEF Existing, Creates
  <2>. QED BY <2>1, <2>2 DEF Moved
<1>. QED BY <1>3, <1>4, <1>5, <1>6, <1>7, <1>8, <1>9 DEF Special

\* The others own what they owned.
LEMMA OthersOwn ==
    ASSUME Types, NEW t \in Thread, Step(t)
    PROVE  \A u \in Thread \ {t} : Owned(u)' = Owned(u)
  BY OthersKeep DEF SameLocals, Owned

\* A worker has a second queue when skynet_globalmq_pop has returned one.
LEMMA BackEntry ==
    ASSUME Types, ControlOK, NEW t \in Thread, Step(t), pc'[t] = "back"
    PROVE  DispatchNext(t) /\ globalmq # <<>>
<1>0. LocalsOK(t) /\ Control(t)
  BY Locals, TypeParts DEF ControlOK
<1>. USE <1>0 DEF LocalsOK, Control, InSend, InRetire, Types, DispatchTypes, Goto, shared,
                  local
<1>1. ~GlobalPop(t)
  BY DEF GlobalPop
<1>2. ~DispatchGrab(t)
  BY DEF DispatchGrab
<1>3. ~DispatchEmpty(t)
  BY DEF DispatchEmpty
<1>4. ~DispatchMessage(t)
  BY DEF DispatchMessage
<1>5. ~DispatchLength(t)
  BY DEF DispatchLength
<1>6. ~DispatchBack(t)
  BY DEF DispatchBack
<1>7. ~DispatchRelease(t)
  BY DEF DispatchRelease, ContextRelease
<1>8. ~SendGrab(t)
  BY DEF SendGrab, SendReturn
<1>9. ~MqPush(t)
  BY DEF MqPush
<1>10. ~SendRelease(t)
  BY DEF SendRelease, ContextRelease, SendReturn
<1>11. ~MqCreate(t)
  BY DEF MqCreate
<1>12. ~SetInit(t)
  BY DEF SetInit
<1>13. ~LaunchPush(t)
  BY DEF LaunchPush
<1>14. ~Retire(t)
  BY DEF Retire
<1>15. ~RetireRelease(t)
  BY DEF RetireRelease, ContextRelease
<1>16. ~AbortStep(t)
  BY DEF AbortStep
<1>17. ~AbortPass(t)
  BY DEF AbortPass
<1>18. ~MqRelease(t)
  BY DEF MqRelease, ReleaseReturn
<1>19. ~DropMessage(t)
  BY DEF DropMessage, SendTo
<1>20. ~DropEnd(t)
  BY DEF DropEnd, ReleaseReturn
<1>21. ~DeleteContext(t)
  BY DEF DeleteContext, MarkRelease
<1>22. ~Send(t)
  BY DEF Send, SendTo
<1>23. ~Launch(t)
  BY DEF Launch
<1>24. ~Reserve(t)
  BY DEF Reserve
<1>25. ~Kill(t)
  BY DEF Kill, SendTo
<1>26. ~Monitor(t)
  BY DEF Monitor
<1>27. ~Abort(t)
  BY DEF Abort
<1>28. ~CallbackReturn(t)
  BY DEF CallbackReturn
<1>29. ~InitSucceeds(t)
  BY DEF InitSucceeds, ContextRelease
<1>30. ~InitFails(t)
  BY DEF InitFails, ContextRelease
<1>31. DispatchNext(t)
  BY <1>1, <1>2, <1>3, <1>4, <1>5, <1>6, <1>7, <1>8, <1>9, <1>10, <1>11, <1>12, <1>13, <1>14, <1>15, <1>16, <1>17, <1>18, <1>19, <1>20, <1>21, <1>22, <1>23, <1>24, <1>25, <1>26, <1>27, <1>28, <1>29, <1>30, Zenon
     DEF Step, Continue, Choose, InitEnds
<1>. QED BY <1>31 DEF DispatchNext

\* Queues stay apart.
LEMMA ExclusiveStep ==
    ASSUME Inv, NEW t \in Thread, Step(t)
    PROVE  QueueExclusive'
<1>1. Types /\ ControlOK /\ QueueExclusive /\ Exclusive /\ Existing
  BY TypeParts, ExclusiveParts DEF Inv
<1>2. Moved(t) /\ \A u \in Thread \ {t} : Owned(u)' = Owned(u) /\ SameLocals(u)
  BY <1>1, StepMoved, OthersOwn, OthersKeep
<1>3. Exclusive'
  BY <1>1, <1>2, ExclusiveMove
<1>4. ASSUME NEW u \in Thread, q'[u] # NULL
      PROVE  q'[u] # nq'[u]
  <2>1. CASE u # t
    BY <1>1, <1>2, <1>4, <2>1 DEF SameLocals, QueueExclusive
  <2>2. CASE u = t /\ DispatchNext(t) /\ globalmq # <<>>
    <3>1. PICK x \in Svc : x = Head(globalmq)
      BY <1>1, <2>2, HeadTailProperties DEF Types, QueueTypes
    <3>2. Queued(x)
      BY <1>1, <2>2, <3>1, QueuedTail DEF Types, QueueTypes, DispatchNext
    <3>3. q'[t] = q[t] /\ nq'[t] = x
      BY <1>1, <2>2, <3>1 DEF DispatchNext, Types, DispatchTypes
    <3>4. q[t] \in Owned(t)
      BY <1>4, <2>2, <3>3 DEF Owned
    <3>. QED BY <1>1, <2>2, <3>2, <3>3, <3>4 DEF Exclusive
  <2>3. CASE u = t /\ ~(DispatchNext(t) /\ globalmq # <<>>)
    <3>1. Control(t)'
      BY <1>1, ControlStep
    <3>2. pc'[t] # "back"
      BY <1>1, <2>3, BackEntry
    <3>. QED BY <1>4, <2>3, <3>1, <3>2 DEF Control
  <2>. QED BY <2>1, <2>2, <2>3
<1>. QED BY <1>3, <1>4 DEF QueueExclusive, Exclusive, NoDup, Queued

-----------------------------------------------------------------------------
(* The invariant: memory and flags. *)

\* Existing, Marked and Phases, for one service.
Memory(s) ==
    /\ Known(s) => /\ ctx[s] # "none" /\ mqmem[s] # "freed"
                   /\ in_global[s] \/ release[s] \/ Begun(s)
    /\ ctx[s] = "none" => mqmem[s] = "none"
    /\ mqmem[s] = "none" /\ ctx[s] # "none" <=> Begun(s)
    /\ ctx[s] = "live" => mqmem[s] # "freed"
    /\ release[s] <=> ctx[s] = "freed"

\* The three parts are this, for all services.
LEMMA MemoryParts == (\A s \in Svc : Memory(s)) <=> Existing /\ Marked /\ Phases
  BY DEF Memory, Existing, Marked, Phases

\* A step to and from other places than "create" begins no context.
LEMMA BegunSame ==
    ASSUME NEW t \in Thread, \A u \in Thread \ {t} : SameLocals(u),
           pc[t] # "create", pc'[t] # "create", NEW s
    PROVE  Begun(s)' <=> Begun(s)
  BY DEF Begun, SameLocals

\* One thread creates the queue of a context.
LEMMA BegunOnce ==
    ASSUME QueueExclusive, NULL \notin Svc, NEW t \in Thread, NEW u \in Thread,
           born[t] \in Svc, born[u] = born[t]
    PROVE  u = t
  BY DEF QueueExclusive, Owned

\* Every step keeps the memory and the flags in accord.
LEMMA MemoryStep ==
    ASSUME Inv, NEW t \in Thread, Step(t)
    PROVE  (Existing /\ Marked /\ Phases)'
<1>1. Types /\ ControlOK /\ QueueExclusive /\ Exclusive /\ LocalsOK(t)
  BY TypeParts, ExclusiveParts, Locals DEF Inv
<1>2. \A s \in Svc : Memory(s)
  BY MemoryParts DEF Inv
<1>3. /\ Moves(t) /\ Moved(t)
      /\ \A u \in Thread \ {t} : SameLocals(u)
      /\ \A u \in Thread \ {t} : Owned(u)' = Owned(u)
  BY <1>1, StepMoves, StepMoved, OthersOwn, OthersKeep
<1>4. /\ (Keeps(t) \/ Takes(t) \/ \E x \in Svc : Gives(t, x) \/ Drops(t, x))
           => \A s \in Svc : Known(s)' => Known(s)
      /\ \A x \in Svc : Enters(t, x) \/ Creates(t, x)
           => \A s \in Svc : Known(s)' => Known(s) \/ s = x
      /\ \A s \in Svc : Drops(t, s) => ~Known(s)'
  BY <1>1, <1>3, KnownMove, ExclusiveMove
<1>. SUFFICES ASSUME NEW s \in Svc
              PROVE  Memory(s)'
  <2>1. (\A s \in Svc : Memory(s)') => (Existing /\ Marked /\ Phases)'
    BY DEF Memory, Existing, Marked, Phases
  <2>. QED BY <2>1
<1>. USE DEF Types, ContextTypes, QueueTypes, ctxVars, mqVars
<1>5. CASE ~Special(t)
  <2>1. SameMemory /\ (Begun(s)' <=> Begun(s))
    BY <1>1, <1>3, <1>5, PlainStep, BegunSame
  <2>2. Known(s)' => Known(s)
    BY <1>1, <1>4, <1>5, PlainMove
  <2>. QED BY <1>2, <2>1, <2>2 DEF Memory, SameMemory
<1>6. CASE DispatchEmpty(t)
  <2>1. PICK x \in Svc : x = q[t] /\ Drops(t, x)
    BY <1>1, <1>3, <1>6 DEF DispatchEmpty, LocalsOK, Moves
  <2>2. ~Known(x)' /\ (Known(s)' => Known(s))
    BY <1>4, <2>1
  <2>3. Begun(s)' <=> Begun(s)
    BY <1>1, <1>3, <1>6, BegunSame DEF DispatchEmpty, Goto, DispatchTypes
  <2>. QED BY <1>1, <1>2, <1>6, <2>1, <2>2, <2>3 DEF Memory, DispatchEmpty
<1>7. CASE MqPush(t)
  <2>1. /\ dst[t] \in Svc /\ ctx[dst[t]] = "live" /\ mqmem[dst[t]] = "live"
    BY <1>7, PushTarget DEF MqPush
  <2>2. Known(s)' => Known(s) \/ s = dst[t]
    BY <1>3, <1>4, <1>7, <2>1 DEF Moves
  <2>3. Begun(s)' <=> Begun(s)
    BY <1>1, <1>3, <1>7, BegunSame DEF MqPush, Goto, DispatchTypes
  <2>. QED BY <1>1, <1>2, <1>7, <2>1, <2>2, <2>3 DEF Memory, MqPush
<1>8. CASE MqCreate(t)
  <2>1. pc[t] = "create" /\ born[t] \in Svc /\ Begun(born[t])
    BY <1>1, <1>8 DEF MqCreate, LocalsOK, Begun
  <2>2. ctx[born[t]] = "live" /\ ~release[born[t]]
    BY <2>1, BegunOwned, Alive
  <2>3. Known(s)' => Known(s)
    BY <1>3, <1>4, <1>8 DEF Moves
  <2>4. pc'[t] = "init" /\ born'[t] = born[t]
    BY <1>1, <1>8 DEF MqCreate, Goto, DispatchTypes, local
  <2>5. Begun(s)' <=> Begun(s) /\ s # born[t]
    <3>1. \A u \in Thread : born[u] = born[t] => u = t
      BY <1>1, <2>1, ConstantsAssumption, BegunOnce
    <3>. QED BY <1>3, <2>1, <2>4, <3>1 DEF Begun, SameLocals
  <2>. QED BY <1>1, <1>2, <1>8, <2>1, <2>2, <2>3, <2>5 DEF Memory, MqCreate
<1>9. CASE DropEnd(t)
  <2>1. PICK x \in Svc : x = dq[t] /\ Drops(t, x)
    BY <1>1, <1>3, <1>9 DEF DropEnd, LocalsOK, Moves
  <2>2. ~Known(x)' /\ (Known(s)' => Known(s))
    BY <1>4, <2>1
  <2>3. release[dq[t]]
    BY <1>9 DEF Inv, Addressed, DropEnd
  <2>4. ctx[dq[t]] = "freed" /\ ~Begun(dq[t])
    BY <1>2, <2>1, <2>3, BegunOwned, Alive DEF Memory
  <2>5. Begun(s)' <=> Begun(s)
    BY <1>1, <1>3, <1>9, BegunSame DEF DropEnd, ReleaseReturn, Goto, DispatchTypes
  <2>. QED BY <1>1, <1>2, <1>9, <2>1, <2>2, <2>4, <2>5 DEF Memory, DropEnd
<1>10. CASE DeleteContext(t)
  <2>1. /\ gone[t] \in Svc /\ mqmem[gone[t]] = "live" /\ ~Begun(gone[t])
    BY <1>10, DeleteTarget DEF DeleteContext
  <2>2. Known(s)' => Known(s) \/ s = gone[t]
    BY <1>3, <1>4, <1>10, <2>1 DEF Moves
  <2>3. pc[t] # "create" /\ pc'[t] # "create"
    BY <1>1, <1>10 DEF DeleteContext, Goto, DispatchTypes, ControlOK, Control
  <2>4. Begun(s)' <=> Begun(s)
    BY <1>3, <2>3, BegunSame
  <2>. QED BY <1>1, <1>2, <1>10, <2>1, <2>2, <2>4 DEF Memory, DeleteContext, MarkRelease
<1>11. CASE Launch(t)
  <2>1. PICK x \in Svc : /\ ctx[x] = "none" /\ ctx' = [ctx EXCEPT ![x] = "live"]
                         /\ born' = [born EXCEPT ![t] = x]
    BY <1>11 DEF Launch
  <2>2. Known(s)' => Known(s) \/ s = x
    <3>1. Owned(t)' \subseteq Owned(t) \cup {x} /\ globalmq' = globalmq
      BY <1>1, <1>11, <2>1 DEF Launch, Owned, dispVars, DispatchTypes
    <3>. QED BY <1>3, <3>1 DEF Known, Queued
  <2>3. Begun(s)' <=> Begun(s) \/ s = x
    <3>1. pc[t] = "cb" /\ pc'[t] = "create" /\ born'[t] = x
      BY <1>1, <1>11, <2>1 DEF Launch, Goto, DispatchTypes
    <3>. QED BY <1>3, <3>1 DEF Begun, SameLocals
  <2>4. mqmem' = mqmem /\ release' = release /\ in_global' = in_global
    BY <1>11 DEF Launch
  <2>. QED BY <1>1, <1>2, <2>1, <2>2, <2>3, <2>4 DEF Memory
<1>. QED BY <1>5, <1>6, <1>7, <1>8, <1>9, <1>10, <1>11 DEF Special

-----------------------------------------------------------------------------
(* The invariant: addresses. *)

\* Thread t drops the messages of a queue, or is going to go on with it.
Dropping(t) == pc[t] = "drop" \/ sret[t] = "drop" \/ dret[t] = "drop"

\* What the actions do to the messages, and to the thread's send and drop.
Delivers(t) ==
    /\ ~Monitor(t) => monitor_exit' = monitor_exit
    /\ ~MqPush(t) /\ ~DispatchMessage(t) /\ ~DropMessage(t) => mq' = mq
    /\ InSend(t)' => \/ Send(t) \/ Kill(t) \/ DropMessage(t)
                     \/ InSend(t) /\ dst'[t] = dst[t] /\ msg'[t] = msg[t]
    /\ Dropping(t)' => dq'[t] = dq[t] /\ (Dropping(t) \/ release[dq[t]])

\* The actions do nothing else to them.
LEMMA StepDelivers ==
    ASSUME Types, ControlOK, NEW t \in Thread, Step(t)
    PROVE  Delivers(t)
<1>0. LocalsOK(t) /\ Control(t)
  BY Locals, TypeParts DEF ControlOK
<1>. USE <1>0, ConstantsAssumption, Locations
     DEF Delivers, Dropping, LocalsOK, Control, InSend, InRetire, Types, DispatchTypes, CallTypes, Goto,
         shared, mqVars, nodeVars, dispVars, sendVars, killVars, delVars, local
<1>1. CASE GlobalPop(t)
  BY <1>1 DEF GlobalPop
<1>2. CASE DispatchGrab(t)
  BY <1>2 DEF DispatchGrab
<1>3. CASE DispatchEmpty(t)
  BY <1>3 DEF DispatchEmpty
<1>4. CASE DispatchMessage(t)
  BY <1>4 DEF DispatchMessage
<1>5. CASE DispatchLength(t)
  BY <1>5 DEF DispatchLength
<1>6. CASE DispatchNext(t)
  BY <1>6 DEF DispatchNext
<1>7. CASE DispatchBack(t)
  BY <1>7 DEF DispatchBack
<1>8. CASE DispatchRelease(t)
  BY <1>8 DEF DispatchRelease, ContextRelease
<1>9. CASE SendGrab(t)
  BY <1>9 DEF SendGrab, SendReturn
<1>10. CASE MqPush(t)
  BY <1>10 DEF MqPush
<1>11. CASE SendRelease(t)
  BY <1>11 DEF SendRelease, ContextRelease, SendReturn
<1>12. CASE MqCreate(t)
  BY <1>12 DEF MqCreate
<1>13. CASE SetInit(t)
  BY <1>13 DEF SetInit
<1>14. CASE LaunchPush(t)
  BY <1>14 DEF LaunchPush
<1>15. CASE Retire(t)
  BY <1>15 DEF Retire
<1>16. CASE RetireRelease(t)
  BY <1>16 DEF RetireRelease, ContextRelease
<1>17. CASE AbortStep(t)
  BY <1>17 DEF AbortStep
<1>18. CASE AbortPass(t)
  BY <1>18 DEF AbortPass
<1>19. CASE MqRelease(t)
  BY <1>19 DEF MqRelease, ReleaseReturn
<1>20. CASE DropMessage(t)
  BY <1>20 DEF DropMessage, SendTo
<1>21. CASE DropEnd(t)
  BY <1>21 DEF DropEnd, ReleaseReturn
<1>22. CASE DeleteContext(t)
  BY <1>22 DEF DeleteContext, MarkRelease
<1>23. CASE Send(t)
  BY <1>23 DEF Send, SendTo
<1>24. CASE Launch(t)
  BY <1>24 DEF Launch
<1>25. CASE Reserve(t)
  BY <1>25 DEF Reserve
<1>26. CASE Kill(t)
  <2>1. monitor_exit' = monitor_exit /\ mq' = mq
    BY <1>26 DEF Kill
  <2>2. pc'[t] \in {"retire", "send"} /\ dret'[t] = NULL
    BY <1>26 DEF Kill, SendTo
  <2>3. sret'[t] # "drop"
    BY <1>26 DEF Kill, SendTo
  <2>. QED BY <1>26, <2>1, <2>2, <2>3
<1>27. CASE Monitor(t)
  BY <1>27 DEF Monitor
<1>28. CASE Abort(t)
  BY <1>28 DEF Abort
<1>29. CASE CallbackReturn(t)
  BY <1>29 DEF CallbackReturn
<1>30. CASE InitSucceeds(t)
  BY <1>30 DEF InitSucceeds, ContextRelease
<1>31. CASE InitFails(t)
  BY <1>31 DEF InitFails, ContextRelease
<1>. QED BY <1>1, <1>2, <1>3, <1>4, <1>5, <1>6, <1>7, <1>8, <1>9, <1>10, <1>11, <1>12, <1>13, <1>14, <1>15, <1>16, <1>17, <1>18, <1>19, <1>20, <1>21, <1>22, <1>23, <1>24, <1>25, <1>26, <1>27, <1>28, <1>29, <1>30, <1>31
         DEF Step, Continue, Choose, InitEnds

\* A queue, once created, stays created, and a deleted context stays deleted.
LEMMA MemoryGrows ==
    ASSUME Types, ControlOK, NEW t \in Thread, Step(t), NEW s \in Svc
    PROVE  /\ mqmem[s] # "none" => mqmem'[s] # "none"
           /\ release[s] => release'[s]
<1>. USE DEF Types, QueueTypes, mqVars
<1>1. CASE ~Special(t)
  BY <1>1, PlainStep DEF SameMemory
<1>2. CASE DispatchEmpty(t)
  BY <1>2 DEF DispatchEmpty
<1>3. CASE MqPush(t)
  BY <1>3 DEF MqPush
<1>4. CASE MqCreate(t)
  BY <1>4 DEF MqCreate
<1>5. CASE DropEnd(t)
  BY <1>5 DEF DropEnd
<1>6. CASE DeleteContext(t)
  BY <1>6 DEF DeleteContext, MarkRelease
<1>7. CASE Launch(t)
  BY <1>7 DEF Launch
<1>. QED BY <1>1, <1>2, <1>3, <1>4, <1>5, <1>6, <1>7 DEF Special

\* A queue that a thread has exists, unless the thread is about to create it.
LEMMA OwnedExists ==
    ASSUME Inv, NEW t \in Thread, NEW s \in Owned(t), pc[t] # "create"
    PROVE  s \in Svc /\ mqmem[s] # "none"
<1>1. s \in Svc /\ Known(s)
  BY OwnedType, TypeParts DEF Inv, Known
<1>2. ctx[s] # "none"
  BY <1>1 DEF Inv, Existing
<1>3. ~Begun(s)
  <2>. SUFFICES ASSUME NEW u \in Thread, pc[u] = "create", born[u] = s
                PROVE  FALSE
    BY DEF Begun
  <2>1. s \in Owned(u)
    BY <1>1, ConstantsAssumption DEF Owned
  <2>. QED BY <2>1 DEF Inv, QueueExclusive
<1>. QED BY <1>1, <1>2, <1>3 DEF Inv, Phases

\* The messages of a queue after a step: those it had, and the one pushed.
LEMMA QueueStep ==
    ASSUME Types, ControlOK, NEW t \in Thread, Step(t), NEW s \in Svc,
           NEW i \in DOMAIN mq'[s]
    PROVE  \/ \E j \in DOMAIN mq[s] : mq'[s][i] = mq[s][j]
           \/ MqPush(t) /\ s = dst[t] /\ mq'[s][i] = msg[t]
<1>1. LocalsOK(t) /\ Delivers(t) /\ mq \in [Svc -> Seq(Message)]
  BY Locals, TypeParts, StepDelivers DEF Types, QueueTypes
<1>2. ASSUME mq[s] # <<>>, mq'[s] = Tail(mq[s])
      PROVE  \E j \in DOMAIN mq[s] : mq'[s][i] = mq[s][j]
  <2>1. mq[s] \in Seq(Message)
    BY <1>1
  <2>2. /\ Len(mq[s]) \in Nat \ {0} /\ DOMAIN mq[s] = 1..Len(mq[s])
        /\ DOMAIN mq'[s] = 1..(Len(mq[s]) - 1)
        /\ \A k \in 1..(Len(mq[s]) - 1) : mq'[s][k] = mq[s][k + 1]
    BY <1>2, <2>1, HeadTailProperties, LenProperties, EmptySeq
  <2>3. i + 1 \in 1..Len(mq[s])
    BY <2>2
  <2>. QED BY <2>2, <2>3
<1>3. CASE DispatchMessage(t)
  <2>1. q[t] \in Svc /\ mq[q[t]] # <<>> /\ mq' = [mq EXCEPT ![q[t]] = Tail(@)]
    BY <1>1, <1>3 DEF DispatchMessage, LocalsOK
  <2>2. CASE s = q[t]
    BY <1>1, <1>2, <2>1, <2>2
  <2>3. CASE s # q[t]
    BY <1>1, <2>1, <2>3
  <2>. QED BY <2>2, <2>3
<1>4. CASE DropMessage(t)
  <2>1. dq[t] \in Svc /\ mq[dq[t]] # <<>> /\ mq' = [mq EXCEPT ![dq[t]] = Tail(@)]
    BY <1>1, <1>4 DEF DropMessage, LocalsOK
  <2>2. CASE s = dq[t]
    BY <1>1, <1>2, <2>1, <2>2
  <2>3. CASE s # dq[t]
    BY <1>1, <2>1, <2>3
  <2>. QED BY <2>2, <2>3
<1>5. CASE MqPush(t)
  <2>1. dst[t] \in Svc /\ msg[t] \in Message /\ mq' = [mq EXCEPT ![dst[t]] = Append(@, msg[t])]
    BY <1>1, <1>5 DEF MqPush, LocalsOK
  <2>2. CASE s = dst[t]
    <3>1. mq[s] \in Seq(Message) /\ mq'[s] = Append(mq[s], msg[t])
      BY <1>1, <2>1, <2>2
    <3>2. /\ Len(mq[s]) \in Nat /\ DOMAIN mq[s] = 1..Len(mq[s])
          /\ DOMAIN mq'[s] = 1..(Len(mq[s]) + 1)
          /\ \A k \in 1..Len(mq[s]) : mq'[s][k] = mq[s][k]
          /\ mq'[s][Len(mq[s]) + 1] = msg[t]
      BY <2>1, <3>1, AppendProperties, LenProperties
    <3>. QED BY <1>5, <2>2, <3>2
  <2>3. CASE s # dst[t]
    BY <1>1, <2>1, <2>3
  <2>. QED BY <2>2, <2>3
<1>6. CASE ~MqPush(t) /\ ~DispatchMessage(t) /\ ~DropMessage(t)
  BY <1>1, <1>6 DEF Delivers
<1>. QED BY <1>3, <1>4, <1>5, <1>6

\* A new message has a source and a destination that exist.
LEMMA SendExists ==
    ASSUME Inv, NEW t \in Thread, Step(t), Send(t) \/ Kill(t) \/ DropMessage(t),
           InSend(t)', ~InSend(t)
    PROVE  /\ dst'[t] \in Svc /\ mqmem[dst'[t]] # "none"
           /\ msg'[t].src # NULL => msg'[t].src \in Svc /\ mqmem[msg'[t].src] # "none"
<1>1. Types /\ ControlOK /\ LocalsOK(t) /\ Dispatching(t) /\ NULL \notin Svc
  BY TypeParts, Locals, ConstantsAssumption DEF Inv, ControlOK
<1>. USE DEF Types, CallTypes, DispatchTypes
<1>2. ASSUME NEW a, NEW d \in Svc, NEW k, NEW l, SendTo(t, a, d, k, l)
      PROVE  dst'[t] = d /\ msg'[t].src = a
  BY <1>1, <1>2 DEF SendTo
<1>3. CASE Send(t)
  <2>1. PICK d \in Svc :
          /\ mqmem[d] # "none"
          /\ SendTo(t, CASE pc[t] = "cb" -> held[t]
                         [] pc[t] = "init" -> born[t]
                         [] OTHER -> NULL,
                    d, "msg", pc[t])
    BY <1>3 DEF Send
  <2>2. dst'[t] = d /\ msg'[t].src = CASE pc[t] = "cb" -> held[t]
                         [] pc[t] = "init" -> born[t]
                         [] OTHER -> NULL
    BY <1>2, <2>1
  <2>3. pc[t] = "cb" => held[t] \in Owned(t)
    BY <1>1 DEF Owned, LocalsOK, Dispatching
  <2>4. pc[t] = "init" => born[t] \in Owned(t)
    BY <1>1 DEF Owned, LocalsOK
  <2>5. \/ pc[t] = "cb" /\ msg'[t].src = held[t]
        \/ pc[t] = "init" /\ msg'[t].src = born[t]
        \/ msg'[t].src = NULL
    BY <2>2
  <2>6. pc[t] = "cb" => held[t] \in Svc /\ mqmem[held[t]] # "none"
    BY <2>3, OwnedExists
  <2>7. pc[t] = "init" => born[t] \in Svc /\ mqmem[born[t]] # "none"
    BY <2>4, OwnedExists
  <2>. QED BY <2>1, <2>2, <2>5, <2>6, <2>7
<1>4. CASE Kill(t)
  <2>1. PICK s \in Svc :
          /\ mqmem[s] # "none"
          /\ \/ monitor_exit # NULL /\ SendTo(t, s, monitor_exit, "exit", "retire")
             \/ Goto(t, "retire")
    BY <1>4 DEF Kill
  <2>2. ~Goto(t, "retire")
    BY <1>1 DEF Goto, InSend
  <2>3. monitor_exit \in Svc /\ mqmem[monitor_exit] # "none"
    BY <1>1, <2>1, <2>2 DEF Inv, Addressed, NodeTypes
  <2>. QED BY <1>2, <2>1, <2>2, <2>3
<1>5. CASE DropMessage(t)
  <2>1. DEFINE m == Head(mq[dq[t]])
  <2>2. dq[t] \in Svc /\ pc[t] = "drop" /\ mq[dq[t]] # <<>> /\ mq[dq[t]] \in Seq(Message)
    BY <1>1, <1>5 DEF DropMessage, LocalsOK, QueueTypes
  <2>3. m \in Message /\ m = mq[dq[t]][1] /\ 1 \in DOMAIN mq[dq[t]]
    BY <2>2, HeadTailProperties, LenProperties, EmptySeq
  <2>4. m.src # NULL => m.src \in Svc /\ mqmem[m.src] # "none"
    BY <2>2, <2>3 DEF Message, Inv, Addressed
  <2>5. \/ m.src = NULL /\ pc' = pc
        \/ m.src # NULL /\ SendTo(t, dq[t], m.src, "err", "drop")
    BY <1>5 DEF DropMessage
  <2>6. pc' # pc
    BY DEF InSend
  <2>7. mqmem[dq[t]] # "none"
    BY <1>1, <2>2, OwnedExists DEF Owned
  <2>. HIDE DEF m
  <2>. QED BY <1>2, <2>2, <2>4, <2>5, <2>6, <2>7
<1>. QED BY <1>3, <1>4, <1>5

\* Whatever can be addressed after a step exists.
LEMMA AddressedStep ==
    ASSUME Inv, NEW t \in Thread, Step(t)
    PROVE  Addressed'
<1>1. Types /\ ControlOK /\ LocalsOK(t) /\ Control(t) /\ Addressed /\ Delivers(t)
      /\ NULL \notin Svc
  BY TypeParts, Locals, StepDelivers, ConstantsAssumption DEF Inv, ControlOK
<1>2. \A s \in Svc : /\ mqmem[s] # "none" => mqmem'[s] # "none"
                     /\ release[s] => release'[s]
  BY <1>1, MemoryGrows
<1>3. \A u \in Thread \ {t} : SameLocals(u)
  BY <1>1, OthersKeep
<1>4. monitor_exit' # NULL => mqmem'[monitor_exit'] # "none"
  <2>1. CASE Monitor(t)
    <3>1. monitor_exit' \in Svc /\ mqmem[monitor_exit'] # "none"
      BY <2>1 DEF Monitor
    <3>. QED BY <1>2, <3>1
  <2>2. CASE ~Monitor(t)
    BY <1>1, <1>2, <2>2 DEF Delivers, Addressed, Types, NodeTypes
  <2>. QED BY <2>1, <2>2
<1>5. ASSUME NEW u \in Thread, InSend(u)
      PROVE  /\ mqmem'[dst[u]] # "none"
             /\ msg[u].src # NULL => mqmem'[msg[u].src] # "none"
  <2>1. dst[u] \in Svc /\ msg[u] \in Message
    BY <1>1, <1>5 DEF ControlOK, Control
  <2>2. msg[u].src # NULL => msg[u].src \in Svc
    BY <2>1 DEF Message
  <2>. QED BY <1>1, <1>2, <1>5, <2>1, <2>2 DEF Addressed
<1>6. ASSUME NEW u \in Thread, InSend(u)'
      PROVE  /\ mqmem'[dst'[u]] # "none"
             /\ msg'[u].src # NULL => mqmem'[msg'[u].src] # "none"
  <2>1. CASE u # t
    <3>1. InSend(u) /\ dst'[u] = dst[u] /\ msg'[u] = msg[u]
      BY <1>3, <1>6, <2>1 DEF SameLocals, InSend
    <3>. QED BY <1>5, <3>1
  <2>2. CASE u = t /\ InSend(t) /\ dst'[t] = dst[t] /\ msg'[t] = msg[t]
    BY <1>5, <2>2
  <2>3. CASE u = t /\ (Send(t) \/ Kill(t) \/ DropMessage(t))
    <3>1. ~InSend(t)
      BY <2>3 DEF InSend, Send, Kill, DropMessage
    <3>. QED BY <1>2, <1>6, <2>3, <3>1, SendExists
  <2>. QED BY <1>1, <1>6, <2>1, <2>2, <2>3 DEF Delivers
<1>7. ASSUME NEW u \in Thread, Dropping(u)'
      PROVE  release'[dq'[u]]
  <2>1. CASE u # t
    <3>1. Dropping(u) /\ dq'[u] = dq[u]
      BY <1>3, <1>7, <2>1 DEF SameLocals, Dropping
    <3>2. dq[u] \in Svc /\ release[dq[u]]
      <4>1. dq[u] # NULL
        BY <1>1, <3>1 DEF Dropping, ControlOK, Control, InRelease, At
      <4>. QED BY <1>1, <3>1, <4>1 DEF Types, DispatchTypes, Addressed, Dropping
    <3>. QED BY <1>2, <3>1, <3>2
  <2>2. CASE u = t
    <3>1. dq'[t] = dq[t] /\ release[dq[t]]
      BY <1>1, <1>7, <2>2 DEF Delivers, Addressed, Dropping
    <3>2. Control(t)'
      BY <1>1, ControlStep
    <3>3. dq'[t] # NULL
      BY <1>7, <2>2, <3>2 DEF Dropping, Control, InRelease, At
    <3>. QED BY <1>1, <1>2, <2>2, <3>1, <3>3 DEF Types, DispatchTypes
  <2>. QED BY <2>1, <2>2
<1>8. ASSUME NEW s \in Svc, NEW i \in DOMAIN mq'[s], mq'[s][i].src # NULL
      PROVE  mqmem'[mq'[s][i].src] # "none"
  <2>1. ASSUME NEW j \in DOMAIN mq[s], mq'[s][i] = mq[s][j]
        PROVE  mqmem'[mq'[s][i].src] # "none"
    <3>1. mq[s][j] \in Message
      <4>1. mq[s] \in Seq(Message)
        BY <1>1 DEF Types, QueueTypes
      <4>. QED BY <4>1, LenProperties, ElementOfSeq
    <3>2. mq[s][j].src \in Svc
      BY <1>8, <2>1, <3>1 DEF Message
    <3>. QED BY <1>1, <1>2, <1>8, <2>1, <3>2 DEF Addressed
  <2>2. ASSUME MqPush(t), mq'[s][i] = msg[t]
        PROVE  mqmem'[mq'[s][i].src] # "none"
    BY <1>5, <1>8, <2>2 DEF MqPush, InSend
  <2>. QED BY <1>1, <2>1, <2>2, QueueStep
<1>. QED BY <1>4, <1>6, <1>7, <1>8 DEF Addressed, Dropping

-----------------------------------------------------------------------------
(* The invariant. *)

\* In the first state a booted context has the reference of its slot.
LEMMA InitOwners ==
    ASSUME Init, NEW s \in Svc
    PROVE  /\ s \in Boot => Owners(s) = {<<"slot", NULL>>}
           /\ s \notin Boot => Owners(s) = {}
<1>1. \A t \in Thread : born[t] = NULL /\ held[t] = NULL /\ dst[t] = NULL /\ prey[t] = NULL
  BY DEF Init
<1>2. s # NULL /\ slot = Boot /\ reserved = {}
  BY ConstantsAssumption DEF Init
<1>3. \A k \in RefKind, t \in Thread \cup {NULL} :
         Holds(k, t, s) <=> k = "slot" /\ t = NULL /\ s \in Boot
  BY <1>1, <1>2 DEF Holds
<1>. QED BY <1>3 DEF Owners, RefKind

\* The state that skynet_start leaves has the types.
LEMMA InitTypes ==
    ASSUME Init
    PROVE  TypeOK
<1>. USE DEF Types, Init
<1>0. Boot \subseteq Svc /\ IsFiniteSet(Boot) /\ Cardinality(Boot) \in Nat
  BY ConstantsAssumption, FS_Subset, FS_CardinalityType
<1>1. ContextTypes
  BY <1>0 DEF ContextTypes
<1>2. QueueTypes
  <2>1. globalmq \in Seq(Svc)
    <3>1. globalmq \in [1..Cardinality(Boot) -> Svc]
      BY <1>0
    <3>. QED BY SMTT(30), <1>0, <3>1, SeqDef
  <2>2. mq \in [Svc -> Seq(Message)]
    <3>1. ASSUME NEW s \in Svc
          PROVE  <<[src |-> s, no |-> 1, kind |-> "msg"]>> \in Seq(Message)
      <4>1. [src |-> s, no |-> 1, kind |-> "msg"] \in Message
        BY DEF Message, Kind
      <4>. QED BY <4>1
    <3>2. <<>> \in Seq(Message)
      OBVIOUS
    <3>. QED BY <3>1, <3>2
  <2>. QED BY <2>1, <2>2 DEF QueueTypes
<1>3. NodeTypes
  BY <1>0 DEF NodeTypes
<1>4. DispatchTypes
  BY Locations DEF DispatchTypes
<1>5. CallTypes
  BY DEF CallTypes
<1>. QED BY <1>1, <1>2, <1>3, <1>4, <1>5, TypeParts

\* It satisfies the invariant.
LEMMA InitInv ==
    ASSUME Init
    PROVE  Inv
<1>. NULL \notin Svc /\ NULL \notin PC /\ Boot \subseteq Svc /\ Worker \cap Outside = {}
  BY ConstantsAssumption
<1>1. TypeOK
  BY InitTypes
<1>2. \A t \in Thread : /\ q[t] = NULL /\ nq[t] = NULL /\ dq[t] = NULL /\ born[t] = NULL
                        /\ held[t] = NULL /\ sret[t] = NULL /\ pret[t] = NULL /\ dret[t] = NULL
                        /\ pc[t] = IF t \in Worker THEN "pop" ELSE "out"
  BY DEF Init
<1>3. ControlOK
  BY <1>2, Locations
     DEF ControlOK, Control, Dispatching, InSend, InRetire, InLaunch, InRelease, At, Thread
<1>4. \A t \in Thread : Owned(t) = {} /\ pc[t] \in {"pop", "out"}
  BY <1>2 DEF Owned
<1>5. \A s \in Svc : Known(s) => s \in Boot
  BY <1>4 DEF Known, Queued, Init
<1>6. \A s \in Svc : ~Begun(s)
  BY <1>4 DEF Begun
<1>7. QueueExclusive
  BY <1>2, <1>4 DEF QueueExclusive, Init
<1>8. Existing /\ Marked /\ Phases
  BY <1>5, <1>6 DEF Existing, Marked, Phases, Init
<1>9. Counted
  <2>. SUFFICES ASSUME NEW s \in Svc
                PROVE  /\ ref[s] = Cardinality(Owners(s))
                       /\ ctx[s] # "live" => Owners(s) = {}
    BY DEF Counted
  <2>1. CASE s \in Boot
    <3>1. Cardinality(Owners(s)) = 1
      BY <2>1, InitOwners, FS_Singleton
    <3>. QED BY <2>1, <3>1 DEF Init
  <2>2. CASE s \notin Boot
    BY <2>2, InitOwners, FS_EmptySet DEF Init
  <2>. QED BY <2>1, <2>2
<1>10. Deleting
  BY <1>4 DEF Deleting
<1>11. Addressed
  <2>1. \A t \in Thread : ~InSend(t) /\ ~Dropping(t)
    BY <1>2, <1>4, Locations DEF InSend, Dropping
  <2>2. ASSUME NEW s \in Svc, NEW i \in DOMAIN mq[s], mq[s][i].src # NULL
        PROVE  mqmem[mq[s][i].src] # "none"
    <3>1. CASE s \in Boot
      <4>1. mq[s] = <<[src |-> s, no |-> 1, kind |-> "msg"]>>
        BY <3>1 DEF Init
      <4>2. i = 1
        BY <2>2, <4>1
      <4>3. mq[s][i].src = s
        BY <4>1, <4>2
      <4>. QED BY <3>1, <4>3 DEF Init
    <3>2. CASE s \notin Boot
      <4>1. mq[s] = <<>>
        BY <3>2 DEF Init
      <4>. QED BY <2>2, <4>1
    <3>. QED BY <3>1, <3>2
  <2>3. monitor_exit = NULL
    BY DEF Init
  <2>. QED BY <2>1, <2>2, <2>3 DEF Addressed, Dropping
<1>. QED BY <1>1, <1>3, <1>7, <1>8, <1>9, <1>10, <1>11 DEF Inv

\* Every step of every thread keeps it.
LEMMA NextInv ==
    ASSUME Inv, [Next]_vars
    PROVE  Inv'
<1>1. ASSUME NEW t \in Thread, Step(t)
      PROVE  Inv'
  <2>1. Types /\ ControlOK /\ Existing
    BY TypeParts DEF Inv
  <2>2. TypeOK'
    <3>1. Types'
      BY <1>1, <2>1, TypeStep
    <3>. QED BY <3>1 DEF TypeOK, Types, ContextTypes, QueueTypes, NodeTypes, DispatchTypes,
                         CallTypes
  <2>3. ControlOK'
    <3>1. Control(t)' /\ Dispatching(t)'
      BY <1>1, <2>1, ControlStep, DispatchingStep
    <3>2. ASSUME NEW u \in Thread \ {t}
          PROVE  Control(u)' /\ Dispatching(u)'
      BY <1>1, <2>1, OthersKeep, SameControl DEF ControlOK
    <3>. QED BY <3>1, <3>2 DEF ControlOK
  <2>. QED BY <1>1, <2>2, <2>3, MemoryStep, ExclusiveStep, CountedStep, DeletingStep,
              AddressedStep DEF Inv
<1>2. ASSUME UNCHANGED vars
      PROVE  Inv'
  <2>. USE <1>2 DEF vars, shared, ctxVars, mqVars, nodeVars, local, dispVars, sendVars,
                    killVars, delVars, history
  <2>1. TypeOK'
    BY DEF Inv, TypeOK
  <2>2. ControlOK'
    BY DEF Inv, ControlOK, Control, Dispatching, InSend, InRetire, InLaunch, InRelease, At
  <2>3. \A s \in Svc : (Known(s)' <=> Known(s)) /\ (Begun(s)' <=> Begun(s))
    BY DEF Known, Queued, Owned, Begun
  <2>4. (Existing /\ Marked /\ Phases)'
    BY <2>3 DEF Inv, Existing, Marked, Phases
  <2>5. QueueExclusive'
    BY DEF Inv, QueueExclusive, Owned
  <2>6. ASSUME NEW s PROVE Owners(s)' = Owners(s)
    BY DEF Owners, Holds, Creating
  <2>7. Counted'
    BY <2>6 DEF Inv, Counted
  <2>8. Deleting'
    BY <2>6 DEF Inv, Deleting, Owners, Holds, Creating
  <2>9. Addressed'
    BY DEF Inv, Addressed, InSend
  <2>. QED BY <2>1, <2>2, <2>4, <2>5, <2>7, <2>8, <2>9 DEF Inv
<1>. QED BY <1>1, <1>2 DEF Next, Step

\* The invariant holds in every state of every behaviour.
THEOREM Invariant == Spec => []Inv
<1>1. Init => Inv
  BY InitInv
<1>2. Inv /\ [Next]_vars => Inv'
  BY NextInv
<1>. QED BY <1>1, <1>2, PTL DEF Spec

-----------------------------------------------------------------------------
(* What it means for the services. *)

\* All variables keep their types: the locals of the C functions are those that
\* their control flow leaves, for any number of services and threads.
THEOREM TypeCorrect == Spec => []TypeOK
<1>1. Inv => TypeOK
  BY DEF Inv
<1>. QED BY <1>1, Invariant, PTL

\* No push ever finds its queue in the global queue or in the hands of another
\* thread: assert(queue->next == NULL) of skynet_globalmq_push cannot fail.
THEOREM QueuesExclusive == Spec => []QueueExclusive
<1>1. Inv => QueueExclusive
  BY DEF Inv
<1>. QED BY <1>1, Invariant, PTL

\* Two workers are never inside the callback of the same service, whatever the
\* callbacks do and however many workers there are.
THEOREM DispatchIsSerial == Spec => []SerialDispatch
<1>1. ASSUME Inv PROVE SerialDispatch
  <2>. SUFFICES ASSUME NEW t \in Worker, NEW u \in Worker,
                       InCallback(t), InCallback(u), held[t] = held[u]
                PROVE  t = u
    BY DEF SerialDispatch
  <2>1. \A w \in Worker : InCallback(w) => held[w] # NULL /\ q[w] = held[w]
    BY <1>1 DEF Inv, ControlOK, Dispatching, InCallback, Thread
  <2>2. held[t] \in Owned(t) /\ held[t] \in Owned(u)
    BY <2>1 DEF Owned
  <2>. QED BY <1>1, <2>2 DEF Inv, QueueExclusive, Thread
<1>. QED BY <1>1, Invariant, PTL

\* ctx->ref is the number of references that exist: no path through launch,
\* send, dispatch, kill and abort leaks one or drops one twice.
THEOREM ReferencesCounted == Spec => []RefCounted
<1>1. Inv => RefCounted
  BY DEF Inv, Counted, RefCounted
<1>. QED BY <1>1, Invariant, PTL

\* No thread has a reference on a freed context, or a queue that is freed.
THEOREM NothingDangles == Spec => []NoDangling
<1>1. ASSUME Inv PROVE NoDangling
  <2>1. Types /\ ControlOK /\ Exclusive /\ NULL \notin Svc
    BY <1>1, TypeParts, ExclusiveParts, ConstantsAssumption DEF Inv
  <2>2. ASSUME NEW s \in Svc, Known(s), ~Begun(s)
        PROVE  mqmem[s] = "live"
    BY <1>1, <2>1, <2>2 DEF Inv, Existing, Phases, Types, QueueTypes
  <2>3. \A s \in Svc : ctx[s] # "live" => Owners(s) = {}
    BY <1>1 DEF Inv, Counted
  <2>4. ASSUME NEW t \in Thread, NEW s \in {q[t], nq[t], dq[t]} \ {NULL}
        PROVE  mqmem[s] = "live"
    <3>1. s \in Owned(t) /\ s \in Svc
      BY <2>1, <2>4, OwnedType DEF Owned
    <3>2. ~Begun(s)
      <4>. SUFFICES ASSUME NEW u \in Thread, pc[u] = "create", born[u] = s
                    PROVE  FALSE
        BY DEF Begun
      <4>1. s \in Owned(u)
        BY <3>1, <2>1 DEF Owned
      <4>2. u = t
        BY <2>1, <3>1, <4>1 DEF Exclusive
      <4>. QED BY <2>1, <2>4, <4>2, QueuesAtLocation DEF QueuesAt
    <3>. QED BY <2>2, <3>1, <3>2 DEF Known
  <2>5. \A t \in Thread : pc[t] = "push" => mqmem[dst[t]] = "live"
    BY <1>1, PushTarget
  <2>6. ASSUME NEW i \in DOMAIN globalmq
        PROVE  mqmem[globalmq[i]] = "live"
    <3>1. globalmq[i] \in Svc /\ Queued(globalmq[i])
      BY <2>1, LenProperties, ElementOfSeq DEF Types, QueueTypes, Queued
    <3>2. ~Begun(globalmq[i])
      BY <2>1, <3>1 DEF Begun, Exclusive, Owned
    <3>. QED BY <2>2, <3>1, <3>2 DEF Known
  <2>. QED BY <2>3, <2>4, <2>5, <2>6 DEF NoDangling
<1>. QED BY <1>1, Invariant, PTL

\* delete_context runs once for a context, when its count is zero and its queue
\* is there: assert(q->release == 0) of skynet_mq_mark_release cannot fail.
THEOREM ContextsDeletedOnce == Spec => []DeletedOnce
<1>1. ASSUME Inv PROVE DeletedOnce
  <2>. SUFFICES ASSUME NEW t \in Thread, pc[t] = "delete"
                PROVE  /\ ~release[gone[t]]
                       /\ ctx[gone[t]] = "live" /\ ref[gone[t]] = 0
                       /\ mqmem[gone[t]] = "live"
    BY DEF DeletedOnce
  <2>1. /\ gone[t] \in Svc /\ ctx[gone[t]] = "live" /\ mqmem[gone[t]] = "live"
        /\ ~release[gone[t]] /\ Owners(gone[t]) = {}
    BY <1>1, DeleteTarget
  <2>2. ref[gone[t]] = 0
    BY <1>1, <2>1, FS_EmptySet DEF Inv, Counted
  <2>. QED BY <2>1, <2>2
<1>. QED BY <1>1, Invariant, PTL


-----------------------------------------------------------------------------
(* What the inductive invariants say. *)

\* The service s has been initialised, or skynet_handle_grab does not find it.
Ready(s) == inited[s] \/ s \notin slot

\* Thread t releases the queue of a launch that has failed, and has not cleared
\* the service's slot yet.
RetiresFirst(t) == InRetire(t) /\ pc[t] # "retrel" /\ prey[t] = dq[t]

\* Thread t handles the queues of services that are ready, and runs the callback
\* of one that is initialised.  A queue that a failed launch releases is no longer
\* found, or its handle is just being retired.
HandlesReady(t) ==
    /\ q[t] # NULL => Ready(q[t])
    /\ nq[t] # NULL => Ready(nq[t])
    /\ held[t] # NULL => inited[held[t]]
    /\ pc[t] = "lpush" \/ dret[t] = "lpush" => Ready(born[t])
    /\ dq[t] # NULL => dq[t] \notin slot \/ RetiresFirst(t)

\* Only the queue of a service that is ready can be popped, or pushed.
Initialised ==
    /\ \A s \in Svc : Queued(s) => Ready(s)
    /\ \A s \in Svc : mqmem[s] # "none" /\ ~in_global[s] => Ready(s)
    /\ \A t \in Thread : HandlesReady(t)

\* A message that counts for the order between two services: it has a source,
\* and is not the notice that handle_exit sends in the name of another service.
Ordinary(m) == m.src # NULL /\ m.kind # "exit"

\* Thread t has a message for d that is not in d's queue yet.
OnItsWay(t, d) == pc[t] \in {"send", "push"} /\ dst[t] = d /\ Ordinary(msg[t])

\* A thread sends in the name of a service only while it has that service's
\* queue: in its callback, in its init function, or when it drops the queue.
SendsAsOwner ==
    \A t \in Thread : InSend(t) /\ Ordinary(msg[t]) => msg[t].src \in Owned(t)

\* All numbers that have been given are at most sent.
Numbered ==
    /\ \A t \in Thread : InSend(t) => msg[t].no <= sent
    /\ \A d \in Svc : \A i \in DOMAIN mq[d] : mq[d][i].no <= sent
    /\ \A d, s \in Svc : last[d][s] <= sent

\* Of the messages from s to d, those dispatched come before those in the queue,
\* which are in order and come before the one that is on its way.
InOrder(d) ==
    /\ \A i \in DOMAIN mq[d] : Ordinary(mq[d][i]) => last[d][mq[d][i].src] < mq[d][i].no
    /\ \A i, j \in DOMAIN mq[d] :
         i < j /\ Ordinary(mq[d][i]) /\ Ordinary(mq[d][j]) /\ mq[d][i].src = mq[d][j].src
            => mq[d][i].no < mq[d][j].no
    /\ \A t \in Thread : OnItsWay(t, d) =>
         /\ last[d][msg[t].src] < msg[t].no
         /\ \A i \in DOMAIN mq[d] :
              Ordinary(mq[d][i]) /\ mq[d][i].src = msg[t].src => mq[d][i].no < msg[t].no

Ordered == SendsAsOwner /\ Numbered /\ \A d \in Svc : InOrder(d)

-----------------------------------------------------------------------------
(* No queue is lost. *)

\* A step forgets no queue that somebody has, but the one it drops; and a queue
\* that enters the global queue, or is created, is one that somebody has.
LEMMA KnownStays ==
    ASSUME Types, NEW t \in Thread, \A u \in Thread \ {t} : Owned(u)' = Owned(u)
    PROVE  /\ (Keeps(t) \/ Takes(t) \/ \E x \in Svc : Gives(t, x))
                => \A s \in Svc : Known(s) => Known(s)'
           /\ \A x \in Svc : Drops(t, x)
                => \A s \in Svc : Known(s) => Known(s)' \/ s = x
           /\ \A x \in Svc : Enters(t, x) \/ Creates(t, x)
                => Known(x)' /\ \A s \in Svc : Known(s) => Known(s)'
<1>. globalmq \in Seq(Svc)
  BY DEF Types, QueueTypes
<1>1. Keeps(t) => \A s \in Svc : Known(s) => Known(s)'
  BY DEF Keeps, Queued, Known
<1>2. ASSUME Takes(t)
      PROVE  \A s \in Svc : Known(s) => Known(s)'
  <2>1. PICK x \in Svc : x = Head(globalmq)
    BY <1>2, HeadTailProperties DEF Takes
  <2>2. /\ Owned(t)' = Owned(t) \cup {x}
        /\ \A s \in Svc : Queued(s) => Queued(s)' \/ s = x
    BY <1>2, <2>1, QueuedTail DEF Takes
  <2>. QED BY <2>2 DEF Known
<1>3. ASSUME NEW x \in Svc, Gives(t, x)
      PROVE  \A s \in Svc : Known(s) => Known(s)'
  <2>1. \A s \in Svc : Queued(s)' <=> Queued(s) \/ s = x
    BY <1>3, QueuedAppend DEF Gives
  <2>. QED BY <1>3, <2>1 DEF Gives, Known
<1>4. ASSUME NEW x \in Svc, Drops(t, x)
      PROVE  \A s \in Svc : Known(s) => Known(s)' \/ s = x
  BY <1>4 DEF Drops, Queued, Known
<1>5. ASSUME NEW x \in Svc, Enters(t, x)
      PROVE  Known(x)' /\ \A s \in Svc : Known(s) => Known(s)'
  <2>1. \A s \in Svc : Queued(s)' <=> Queued(s) \/ s = x
    BY <1>5, QueuedAppend DEF Enters
  <2>. QED BY <1>5, <2>1 DEF Enters, Known
<1>6. ASSUME NEW x \in Svc, Creates(t, x)
      PROVE  Known(x)' /\ \A s \in Svc : Known(s) => Known(s)'
  BY <1>6 DEF Creates, Queued, Known
<1>. QED BY <1>1, <1>2, <1>3, <1>4, <1>5, <1>6

\* A queue of which QueueNotLost speaks: it exists, and holds messages, or is
\* marked as in the global queue, or waits to be dropped.
Wanted(s) == mqmem[s] = "live" /\ (mq[s] # <<>> \/ in_global[s] \/ release[s])

\* QueueNotLost, in terms of Known.
LEMMA NotLostParts == QueueNotLost <=> \A s \in Svc : Wanted(s) => Known(s)
  BY DEF QueueNotLost, Wanted, Known, Queued

\* No step loses a queue.
LEMMA NotLostStep ==
    ASSUME Inv, QueueNotLost, NEW t \in Thread, Step(t)
    PROVE  QueueNotLost'
<1>1. Types /\ ControlOK /\ QueueExclusive /\ LocalsOK(t) /\ NULL \notin Svc
  BY TypeParts, Locals, ConstantsAssumption DEF Inv
<1>2. /\ Moves(t) /\ Delivers(t)
      /\ \A u \in Thread \ {t} : Owned(u)' = Owned(u)
  BY <1>1, StepMoves, StepDelivers, OthersOwn
<1>3. /\ (Keeps(t) \/ Takes(t) \/ \E x \in Svc : Gives(t, x))
           => \A s \in Svc : Known(s) => Known(s)'
      /\ \A x \in Svc : Drops(t, x)
           => \A s \in Svc : Known(s) => Known(s)' \/ s = x
      /\ \A x \in Svc : Enters(t, x) \/ Creates(t, x)
           => Known(x)' /\ \A s \in Svc : Known(s) => Known(s)'
  BY <1>1, <1>2, KnownStays
<1>4. \A s \in Svc : Wanted(s) => Known(s)
  BY NotLostParts
<1>. SUFFICES ASSUME NEW s \in Svc, Wanted(s)'
              PROVE  Known(s)'
  <2>1. (\A s \in Svc : Wanted(s)' => Known(s)') => QueueNotLost'
    BY DEF QueueNotLost, Wanted, Known, Queued
  <2>. QED BY <2>1
<1>. USE DEF Types, QueueTypes, mqVars
\* A step never fills an empty queue, except by a push.
<1>5. ~MqPush(t) /\ mq'[s] # <<>> => mq[s] # <<>>
  <2>1. CASE DispatchMessage(t)
    BY <1>1, <2>1 DEF DispatchMessage, LocalsOK
  <2>2. CASE DropMessage(t)
    BY <1>1, <2>2 DEF DropMessage, LocalsOK
  <2>. QED BY <1>2, <2>1, <2>2 DEF Delivers
<1>6. CASE ~Special(t)
  <2>1. SameMemory
    BY <1>1, <1>6, PlainStep
  <2>2. Wanted(s)
    BY <1>5, <1>6, <2>1 DEF Wanted, SameMemory, Special
  <2>. QED BY <1>1, <1>3, <1>4, <1>6, <2>2, PlainMove
<1>7. CASE DispatchEmpty(t)
  <2>1. PICK x \in Svc : x = q[t] /\ Drops(t, x)
    BY <1>1, <1>2, <1>7 DEF DispatchEmpty, LocalsOK, Moves
  <2>2. s # x
    <3>1. held[t] = x
      BY <1>1, <1>7, <2>1 DEF DispatchEmpty, LocalsOK, ControlOK, Dispatching
    <3>2. <<"held", t>> \in Owners(x)
      BY <3>1 DEF Owners, Holds, RefKind
    <3>3. ~release[x]
      BY <3>2, Alive
    <3>. QED BY <1>1, <1>7, <2>1, <3>3 DEF DispatchEmpty, Wanted
  <2>3. Wanted(s)
    BY <1>1, <1>7, <2>1, <2>2 DEF DispatchEmpty, Wanted
  <2>. QED BY <1>3, <1>4, <2>1, <2>2, <2>3
<1>8. CASE MqPush(t)
  <2>1. dst[t] \in Svc /\ mqmem[dst[t]] = "live"
    BY <1>8, PushTarget DEF MqPush
  <2>2. CASE s = dst[t]
    <3>1. CASE in_global[s]
      <4>1. globalmq' = globalmq /\ Owned(t)' = Owned(t)
        BY <1>8, <2>2, <3>1 DEF MqPush, local, dispVars, Owned
      <4>2. Wanted(s)
        BY <2>1, <2>2, <3>1 DEF Wanted
      <4>. QED BY <1>3, <1>4, <4>1, <4>2 DEF Keeps
    <3>2. CASE ~in_global[s]
      <4>1. Enters(t, s)
        BY <1>8, <2>2, <3>2 DEF MqPush, Enters, local, dispVars, Owned
      <4>. QED BY <1>3, <4>1
    <3>. QED BY <3>1, <3>2
  <2>3. CASE s # dst[t]
    <3>1. Wanted(s)
      BY <1>1, <1>8, <2>1, <2>3 DEF MqPush, Wanted
    <3>. QED BY <1>2, <1>3, <1>4, <1>8, <2>1, <3>1 DEF Moves
  <2>. QED BY <2>2, <2>3
<1>9. CASE MqCreate(t)
  <2>1. born[t] \in Svc /\ Known(born[t])
    BY <1>1, <1>9 DEF MqCreate, LocalsOK, Known, Owned
  <2>2. s # born[t] => Wanted(s)
    BY <1>1, <1>9, <2>1 DEF MqCreate, Wanted
  <2>. QED BY <1>2, <1>3, <1>4, <1>9, <2>1, <2>2 DEF Moves
<1>10. CASE DropEnd(t)
  <2>1. PICK x \in Svc : x = dq[t] /\ Drops(t, x)
    BY <1>1, <1>2, <1>10 DEF DropEnd, LocalsOK, Moves
  <2>2. s # x /\ Wanted(s)
    BY <1>1, <1>10, <2>1 DEF DropEnd, Wanted
  <2>. QED BY <1>3, <1>4, <2>1, <2>2
<1>11. CASE DeleteContext(t)
  <2>1. gone[t] \in Svc /\ mqmem[gone[t]] = "live"
    BY <1>11, DeleteTarget DEF DeleteContext
  <2>2. CASE s = gone[t]
    <3>1. CASE in_global[s]
      <4>1. globalmq' = globalmq /\ Owned(t)' = Owned(t)
        BY <1>11, <2>2, <3>1 DEF DeleteContext, MarkRelease, dispVars, Owned
      <4>2. Wanted(s)
        BY <2>1, <2>2, <3>1 DEF Wanted
      <4>. QED BY <1>3, <1>4, <4>1, <4>2 DEF Keeps
    <3>2. CASE ~in_global[s]
      <4>1. Enters(t, s)
        BY <1>11, <2>2, <3>2 DEF DeleteContext, MarkRelease, Enters, dispVars, Owned
      <4>. QED BY <1>3, <4>1
    <3>. QED BY <3>1, <3>2
  <2>3. CASE s # gone[t]
    <3>1. Wanted(s)
      BY <1>1, <1>11, <2>1, <2>3 DEF DeleteContext, MarkRelease, Wanted
    <3>. QED BY <1>2, <1>3, <1>4, <1>11, <2>1, <3>1 DEF Moves
  <2>. QED BY <2>2, <2>3
<1>12. CASE Launch(t)
  <2>1. Wanted(s)
    BY <1>12 DEF Launch, Wanted
  <2>. QED BY <1>2, <1>3, <1>4, <1>12, <2>1 DEF Moves
<1>. QED BY <1>6, <1>7, <1>8, <1>9, <1>10, <1>11, <1>12 DEF Special

\* In the first state the queue of every booted service is in the global queue.
LEMMA BootQueued ==
    ASSUME Init, NEW s \in Boot
    PROVE  \E i \in DOMAIN globalmq : globalmq[i] = s
<1>. DEFINE n == Cardinality(Boot)
<1>1. IsFiniteSet(Boot) /\ n \in Nat
  BY ConstantsAssumption, FS_Subset, FS_CardinalityType
<1>2. /\ globalmq \in [1..n -> Boot]
      /\ \A i, j \in 1..n : globalmq[i] = globalmq[j] => i = j
  BY DEF Init
<1>3. IsFiniteSet(1..n) /\ Cardinality(1..n) = n
  BY <1>1, FS_Interval
<1>4. IsFiniteSet(Boot \ {s}) /\ Cardinality(Boot \ {s}) = n - 1
  BY <1>1, FS_RemoveElement
<1>. SUFFICES ASSUME \A i \in 1..n : globalmq[i] # s
              PROVE  FALSE
  BY <1>2
<1>5. globalmq \in [1..n -> Boot \ {s}]
  BY <1>2
<1>. HIDE DEF n
<1>6. \E i, j \in 1..n : i # j /\ globalmq[i] = globalmq[j]
  BY <1>1, <1>3, <1>4, <1>5, FS_PigeonHole
<1>. QED BY <1>2, <1>6

\* No queue is lost in any step.
LEMMA NotLostNext ==
    ASSUME Inv, QueueNotLost, [Next]_vars
    PROVE  QueueNotLost'
<1>1. ASSUME UNCHANGED vars
      PROVE  QueueNotLost'
  BY <1>1 DEF vars, shared, ctxVars, mqVars, local, dispVars, QueueNotLost, Owned
<1>. QED BY <1>1, NotLostStep DEF Next, Step

\* A queue that holds messages, or whose service has been deleted, is in the
\* global queue or with a thread that goes on with it: whatever the interleaving
\* of pushes, dispatches, launches and deletes, skynet_mq_push, mark_release and
\* _drop_queue leave no queue that nobody looks at again.
THEOREM NoQueueLost == Spec => []QueueNotLost
<1>1. Init => QueueNotLost
  <2>. SUFFICES ASSUME Init
                PROVE  QueueNotLost
    OBVIOUS
  <2>1. ASSUME NEW s \in Svc, Wanted(s)
        PROVE  \E i \in DOMAIN globalmq : globalmq[i] = s
    <3>1. s \in Boot
      BY <2>1 DEF Wanted, Init
    <3>. QED BY <3>1, BootQueued
  <2>. QED BY <2>1 DEF QueueNotLost, Wanted
<1>2. Inv /\ QueueNotLost /\ [Next]_vars => QueueNotLost'
  BY NotLostNext
<1>. QED BY <1>1, <1>2, Invariant, PTL DEF Spec

-----------------------------------------------------------------------------
(* What the actions do to the slots, the counters and the history. *)

Effects(t) ==
    /\ ~Launch(t) /\ ~Retire(t) => slot' = slot
    /\ ~SetInit(t) => inited' = inited
    /\ ~MqCreate(t) /\ ~DeleteContext(t) /\ ~Reserve(t) => total' = total
    /\ ~Reserve(t) => reserved' = reserved
    /\ ~Send(t) /\ ~Kill(t) /\ ~DropMessage(t) => sent' = sent
    /\ ~DispatchMessage(t) => last' = last

\* The actions do nothing else to them.
LEMMA StepEffects ==
    ASSUME NEW t \in Thread, Step(t)
    PROVE  Effects(t)
<1>. USE DEF Effects, shared, ctxVars, nodeVars, history
<1>1. CASE GlobalPop(t)
  BY <1>1 DEF GlobalPop
<1>2. CASE DispatchGrab(t)
  BY <1>2 DEF DispatchGrab
<1>3. CASE DispatchEmpty(t)
  BY <1>3 DEF DispatchEmpty
<1>4. CASE DispatchMessage(t)
  BY <1>4 DEF DispatchMessage
<1>5. CASE DispatchLength(t)
  BY <1>5 DEF DispatchLength
<1>6. CASE DispatchNext(t)
  BY <1>6 DEF DispatchNext
<1>7. CASE DispatchBack(t)
  BY <1>7 DEF DispatchBack
<1>8. CASE DispatchRelease(t)
  BY <1>8 DEF DispatchRelease
<1>9. CASE SendGrab(t)
  BY <1>9 DEF SendGrab
<1>10. CASE MqPush(t)
  BY <1>10 DEF MqPush
<1>11. CASE SendRelease(t)
  BY <1>11 DEF SendRelease
<1>12. CASE MqCreate(t)
  BY <1>12 DEF MqCreate
<1>13. CASE SetInit(t)
  BY <1>13 DEF SetInit
<1>14. CASE LaunchPush(t)
  BY <1>14 DEF LaunchPush
<1>15. CASE Retire(t)
  BY <1>15 DEF Retire
<1>16. CASE RetireRelease(t)
  BY <1>16 DEF RetireRelease
<1>17. CASE AbortStep(t)
  BY <1>17 DEF AbortStep
<1>18. CASE AbortPass(t)
  BY <1>18 DEF AbortPass
<1>19. CASE MqRelease(t)
  BY <1>19 DEF MqRelease
<1>20. CASE DropMessage(t)
  BY <1>20 DEF DropMessage, SendTo
<1>21. CASE DropEnd(t)
  BY <1>21 DEF DropEnd
<1>22. CASE DeleteContext(t)
  BY <1>22 DEF DeleteContext
<1>23. CASE Send(t)
  BY <1>23 DEF Send, SendTo
<1>24. CASE Launch(t)
  BY <1>24 DEF Launch
<1>25. CASE Reserve(t)
  BY <1>25 DEF Reserve
<1>26. CASE Kill(t)
  BY <1>26 DEF Kill, SendTo
<1>27. CASE Monitor(t)
  BY <1>27 DEF Monitor
<1>28. CASE Abort(t)
  BY <1>28 DEF Abort
<1>29. CASE CallbackReturn(t)
  BY <1>29 DEF CallbackReturn
<1>30. CASE InitSucceeds(t)
  BY <1>30 DEF InitSucceeds
<1>31. CASE InitFails(t)
  BY <1>31 DEF InitFails
<1>. QED BY <1>1, <1>2, <1>3, <1>4, <1>5, <1>6, <1>7, <1>8, <1>9, <1>10, <1>11, <1>12, <1>13, <1>14, <1>15, <1>16, <1>17, <1>18, <1>19, <1>20, <1>21, <1>22, <1>23, <1>24, <1>25, <1>26, <1>27, <1>28, <1>29, <1>30, <1>31
         DEF Step, Continue, Choose, InitEnds

-----------------------------------------------------------------------------
(* The number of services. *)

\* The services whose context lives and has been counted by context_inc.
Running == {s \in Svc : ctx[s] = "live" /\ mqmem[s] # "none"}

\* A step that changes this set creates a queue or deletes a context.
LEMMA RunningStep ==
    ASSUME Inv, NEW t \in Thread, Step(t)
    PROVE  /\ MqCreate(t) => born[t] \notin Running /\ Running' = Running \cup {born[t]}
           /\ DeleteContext(t) => gone[t] \in Running /\ Running' = Running \ {gone[t]}
           /\ ~MqCreate(t) /\ ~DeleteContext(t) => Running' = Running
<1>1. Types /\ ControlOK /\ LocalsOK(t)
  BY TypeParts, Locals DEF Inv
<1>. USE DEF Running, Types, ContextTypes, QueueTypes, ctxVars, mqVars
<1>2. CASE ~Special(t)
  <2>1. ctx' = ctx /\ mqmem' = mqmem
    BY <1>1, <1>2, PlainStep DEF SameMemory
  <2>. QED BY <1>2, <2>1 DEF Special
<1>3. CASE DispatchEmpty(t) \/ MqPush(t)
  <2>1. ctx' = ctx /\ mqmem' = mqmem /\ ~MqCreate(t) /\ ~DeleteContext(t)
    BY <1>3 DEF DispatchEmpty, MqPush, MqCreate, DeleteContext
  <2>. QED BY <2>1
<1>4. CASE MqCreate(t)
  <2>1. born[t] \in Svc /\ Begun(born[t]) /\ ~DeleteContext(t)
    BY <1>1, <1>4 DEF MqCreate, DeleteContext, LocalsOK, Begun
  <2>2. ctx[born[t]] = "live" /\ mqmem[born[t]] = "none"
    BY <2>1, BegunOwned, Alive DEF Inv, Phases
  <2>. QED BY <1>1, <1>4, <2>1, <2>2 DEF MqCreate
<1>5. CASE DropEnd(t)
  <2>1. dq[t] \in Svc /\ release[dq[t]] /\ ~MqCreate(t) /\ ~DeleteContext(t)
    BY <1>1, <1>5 DEF DropEnd, MqCreate, DeleteContext, LocalsOK, Inv, Addressed
  <2>2. ctx[dq[t]] = "freed"
    BY <2>1 DEF Inv, Phases
  <2>. QED BY <1>1, <1>5, <2>1, <2>2 DEF DropEnd
<1>6. CASE DeleteContext(t)
  <2>1. gone[t] \in Svc /\ ctx[gone[t]] = "live" /\ mqmem[gone[t]] = "live" /\ ~MqCreate(t)
    BY <1>6, DeleteTarget DEF DeleteContext, MqCreate
  <2>. QED BY <1>1, <1>6, <2>1 DEF DeleteContext
<1>7. CASE Launch(t)
  <2>1. PICK x \in Svc : ctx[x] = "none" /\ ctx' = [ctx EXCEPT ![x] = "live"]
    BY <1>7 DEF Launch
  <2>2. mqmem[x] = "none" /\ mqmem' = mqmem /\ ~MqCreate(t) /\ ~DeleteContext(t)
    BY <1>7, <2>1 DEF Inv, Phases, Launch, MqCreate, DeleteContext
  <2>. QED BY <1>1, <2>1, <2>2
<1>. QED BY <1>2, <1>3, <1>4, <1>5, <1>6, <1>7 DEF Special

\* context_inc, context_dec and the reservation keep the count.
LEMMA TotalNext ==
    ASSUME Inv, TotalCounts, [Next]_vars
    PROVE  TotalCounts'
<1>1. IsFiniteSet(Running) /\ IsFiniteSet(reserved) /\ total \in Int
  BY ConstantsAssumption, FS_Subset DEF Running, Inv, TypeOK
<1>2. Cardinality(Running) \in Nat /\ Cardinality(reserved) \in Nat
  BY <1>1, FS_CardinalityType
<1>3. total = Cardinality(Running) - Cardinality(reserved)
  BY DEF TotalCounts, Running
<1>. SUFFICES total' = Cardinality(Running') - Cardinality(reserved')
  BY DEF TotalCounts, Running
<1>4. ASSUME NEW t \in Thread, Step(t)
      PROVE  total' = Cardinality(Running') - Cardinality(reserved')
  <2>1. Effects(t)
    BY <1>4, StepEffects
  <2>2. /\ MqCreate(t) => born[t] \notin Running /\ Running' = Running \cup {born[t]}
        /\ DeleteContext(t) => gone[t] \in Running /\ Running' = Running \ {gone[t]}
        /\ ~MqCreate(t) /\ ~DeleteContext(t) => Running' = Running
    BY <1>4, RunningStep
  <2>3. CASE MqCreate(t)
    <3>1. total' = total + 1 /\ reserved' = reserved
      BY <2>3 DEF MqCreate
    <3>2. Cardinality(Running') = Cardinality(Running) + 1
      BY <1>1, <2>2, <2>3, FS_AddElement
    <3>. QED BY <1>1, <1>2, <1>3, <3>1, <3>2
  <2>4. CASE DeleteContext(t)
    <3>1. total' = total - 1 /\ reserved' = reserved
      BY <2>4 DEF DeleteContext
    <3>2. Cardinality(Running') = Cardinality(Running) - 1
      BY <1>1, <2>2, <2>4, FS_RemoveElement
    <3>. QED BY <1>1, <1>2, <1>3, <3>1, <3>2
  <2>5. CASE Reserve(t)
    <3>1. total' = total - 1 /\ reserved = {} /\ reserved' = {born[t]}
      BY <2>5 DEF Reserve
    <3>2. Cardinality(reserved) = 0 /\ Cardinality(reserved') = 1
      BY <3>1, FS_EmptySet, FS_Singleton
    <3>3. Running' = Running
      BY <2>2, <2>5 DEF Reserve, MqCreate, DeleteContext
    <3>. QED BY <1>1, <1>2, <1>3, <3>1, <3>2, <3>3
  <2>6. CASE ~MqCreate(t) /\ ~DeleteContext(t) /\ ~Reserve(t)
    BY <1>3, <2>1, <2>2, <2>6 DEF Effects
  <2>. QED BY <2>3, <2>4, <2>5, <2>6
<1>5. ASSUME UNCHANGED vars
      PROVE  total' = Cardinality(Running') - Cardinality(reserved')
  BY <1>3, <1>5 DEF vars, shared, ctxVars, mqVars, nodeVars, Running
<1>. QED BY <1>4, <1>5 DEF Next, Step

\* G_NODE.total is the number of services that have been created, not deleted
\* and not reserved, so that CHECK_ABORT ends the threads when no service is
\* left and not before, however launches, kills and failures interleave.
THEOREM TotalIsCount == Spec => []TotalCounts
<1>1. ASSUME Init PROVE TotalCounts
  <2>1. Running = Boot /\ reserved = {} /\ total = Cardinality(Boot)
    BY <1>1, ConstantsAssumption DEF Running, Init
  <2>2. Cardinality(Boot) \in Nat /\ Cardinality(reserved) = 0
    BY <2>1, ConstantsAssumption, FS_Subset, FS_CardinalityType, FS_EmptySet
  <2>3. total = Cardinality(Running) - Cardinality(reserved)
    BY <2>1, <2>2
  <2>. QED BY <2>3 DEF TotalCounts, Running
<1>2. Inv /\ TotalCounts /\ [Next]_vars => TotalCounts'
  BY TotalNext
<1>. QED BY <1>1, <1>2, Invariant, PTL DEF Spec

-----------------------------------------------------------------------------
(* No callback before the service is initialised. *)

\* Where the queues and the context of a dispatch come from in a step.
Origins(t) ==
    /\ q'[t] # NULL => \/ q'[t] = q[t] \/ q'[t] = nq[t]
                       \/ globalmq # <<>> /\ q'[t] = Head(globalmq)
    /\ nq'[t] # NULL => \/ nq'[t] = nq[t]
                        \/ globalmq # <<>> /\ nq'[t] = Head(globalmq)
    /\ held'[t] # NULL => \/ held'[t] = held[t]
                          \/ held'[t] = q[t] /\ q[t] \in slot

\* No action takes them from anywhere else.
LEMMA StepOrigins ==
    ASSUME Types, NEW t \in Thread, Step(t)
    PROVE  Origins(t)
<1>. USE DEF Origins, Types, DispatchTypes, dispVars, local
<1>1. CASE GlobalPop(t)
  BY <1>1 DEF GlobalPop
<1>2. CASE DispatchGrab(t)
  BY <1>2 DEF DispatchGrab
<1>3. CASE DispatchEmpty(t)
  BY <1>3 DEF DispatchEmpty
<1>4. CASE DispatchMessage(t)
  BY <1>4 DEF DispatchMessage
<1>5. CASE DispatchLength(t)
  BY <1>5 DEF DispatchLength
<1>6. CASE DispatchNext(t)
  BY <1>6 DEF DispatchNext
<1>7. CASE DispatchBack(t)
  BY <1>7 DEF DispatchBack
<1>8. CASE DispatchRelease(t)
  BY <1>8 DEF DispatchRelease, ContextRelease
<1>9. CASE SendGrab(t)
  BY <1>9 DEF SendGrab, SendReturn
<1>10. CASE MqPush(t)
  BY <1>10 DEF MqPush
<1>11. CASE SendRelease(t)
  BY <1>11 DEF SendRelease, ContextRelease, SendReturn
<1>12. CASE MqCreate(t)
  BY <1>12 DEF MqCreate
<1>13. CASE SetInit(t)
  BY <1>13 DEF SetInit
<1>14. CASE LaunchPush(t)
  BY <1>14 DEF LaunchPush
<1>15. CASE Retire(t)
  BY <1>15 DEF Retire
<1>16. CASE RetireRelease(t)
  BY <1>16 DEF RetireRelease, ContextRelease
<1>17. CASE AbortStep(t)
  BY <1>17 DEF AbortStep
<1>18. CASE AbortPass(t)
  BY <1>18 DEF AbortPass
<1>19. CASE MqRelease(t)
  BY <1>19 DEF MqRelease, ReleaseReturn
<1>20. CASE DropMessage(t)
  BY <1>20 DEF DropMessage, SendTo
<1>21. CASE DropEnd(t)
  BY <1>21 DEF DropEnd, ReleaseReturn
<1>22. CASE DeleteContext(t)
  BY <1>22 DEF DeleteContext, MarkRelease
<1>23. CASE Send(t)
  BY <1>23 DEF Send, SendTo
<1>24. CASE Launch(t)
  BY <1>24 DEF Launch
<1>25. CASE Reserve(t)
  BY <1>25 DEF Reserve
<1>26. CASE Kill(t)
  BY <1>26 DEF Kill, SendTo
<1>27. CASE Monitor(t)
  BY <1>27 DEF Monitor
<1>28. CASE Abort(t)
  BY <1>28 DEF Abort
<1>29. CASE CallbackReturn(t)
  BY <1>29 DEF CallbackReturn
<1>30. CASE InitSucceeds(t)
  BY <1>30 DEF InitSucceeds, ContextRelease
<1>31. CASE InitFails(t)
  BY <1>31 DEF InitFails, ContextRelease
<1>. QED BY <1>1, <1>2, <1>3, <1>4, <1>5, <1>6, <1>7, <1>8, <1>9, <1>10, <1>11, <1>12, <1>13, <1>14, <1>15, <1>16, <1>17, <1>18, <1>19, <1>20, <1>21, <1>22, <1>23, <1>24, <1>25, <1>26, <1>27, <1>28, <1>29, <1>30, <1>31
         DEF Step, Continue, Choose, InitEnds

\* When the queue of a launch is ready to be pushed: it is initialised, or the
\* creator had the last reference and is going to delete it.
Completes(t) ==
    pc'[t] = "lpush" \/ dret'[t] = "lpush" =>
        /\ born'[t] = born[t]
        /\ \/ pc[t] = "lpush" \/ dret[t] = "lpush"
           \/ inited'[born[t]]
           \/ pc'[t] = "delete" /\ gone'[t] = born[t]

\* No action pushes it earlier.
LEMMA StepCompletes ==
    ASSUME Types, ControlOK, NEW t \in Thread, Step(t)
    PROVE  Completes(t)
<1>0. LocalsOK(t) /\ Control(t)
  BY Locals, TypeParts DEF ControlOK
<1>. USE <1>0, ConstantsAssumption, Locations
     DEF Completes, LocalsOK, Control, InSend, InRetire,
         Types, ContextTypes, DispatchTypes, CallTypes, Goto, delVars, local
<1>1. CASE GlobalPop(t)
  BY <1>1 DEF GlobalPop
<1>2. CASE DispatchGrab(t)
  BY <1>2 DEF DispatchGrab
<1>3. CASE DispatchEmpty(t)
  BY <1>3 DEF DispatchEmpty
<1>4. CASE DispatchMessage(t)
  BY <1>4 DEF DispatchMessage
<1>5. CASE DispatchLength(t)
  BY <1>5 DEF DispatchLength
<1>6. CASE DispatchNext(t)
  BY <1>6 DEF DispatchNext
<1>7. CASE DispatchBack(t)
  BY <1>7 DEF DispatchBack
<1>8. CASE DispatchRelease(t)
  BY <1>8 DEF DispatchRelease, ContextRelease
<1>9. CASE SendGrab(t)
  BY <1>9 DEF SendGrab, SendReturn
<1>10. CASE MqPush(t)
  BY <1>10 DEF MqPush
<1>11. CASE SendRelease(t)
  BY <1>11 DEF SendRelease, ContextRelease, SendReturn
<1>12. CASE MqCreate(t)
  BY <1>12 DEF MqCreate
<1>13. CASE SetInit(t)
  BY <1>13 DEF SetInit
<1>14. CASE LaunchPush(t)
  BY <1>14 DEF LaunchPush
<1>15. CASE Retire(t)
  BY <1>15 DEF Retire
<1>16. CASE RetireRelease(t)
  BY <1>16 DEF RetireRelease, ContextRelease
<1>17. CASE AbortStep(t)
  BY <1>17 DEF AbortStep
<1>18. CASE AbortPass(t)
  BY <1>18 DEF AbortPass
<1>19. CASE MqRelease(t)
  BY <1>19 DEF MqRelease, ReleaseReturn
<1>20. CASE DropMessage(t)
  BY <1>20 DEF DropMessage, SendTo
<1>21. CASE DropEnd(t)
  BY <1>21 DEF DropEnd, ReleaseReturn
<1>22. CASE DeleteContext(t)
  BY <1>22 DEF DeleteContext, MarkRelease
<1>23. CASE Send(t)
  BY <1>23 DEF Send, SendTo
<1>24. CASE Launch(t)
  BY <1>24 DEF Launch
<1>25. CASE Reserve(t)
  BY <1>25 DEF Reserve
<1>26. CASE Kill(t)
  BY <1>26 DEF Kill, SendTo
<1>27. CASE Monitor(t)
  BY <1>27 DEF Monitor
<1>28. CASE Abort(t)
  BY <1>28 DEF Abort
<1>29. CASE CallbackReturn(t)
  BY <1>29 DEF CallbackReturn
<1>30. CASE InitSucceeds(t)
  BY <1>30 DEF InitSucceeds, ContextRelease
<1>31. CASE InitFails(t)
  BY <1>31 DEF InitFails, ContextRelease
<1>. QED BY <1>1, <1>2, <1>3, <1>4, <1>5, <1>6, <1>7, <1>8, <1>9, <1>10, <1>11, <1>12, <1>13, <1>14, <1>15, <1>16, <1>17, <1>18, <1>19, <1>20, <1>21, <1>22, <1>23, <1>24, <1>25, <1>26, <1>27, <1>28, <1>29, <1>30, <1>31
         DEF Step, Continue, Choose, InitEnds

\* The queue that a thread releases is one whose service is not found, or it
\* has just been taken over from a failed launch, whose slot is cleared first.
Abandons(t) ==
    dq'[t] # NULL =>
        \/ dq'[t] = q[t] /\ q[t] \notin slot
        \/ RetiresFirst(t)'
        \/ dq'[t] = dq[t] /\ (RetiresFirst(t) => dq[t] \notin slot')

\* No action releases another queue.
LEMMA StepAbandons ==
    ASSUME Types, ControlOK, NEW t \in Thread, Step(t)
    PROVE  Abandons(t)
<1>0. LocalsOK(t) /\ Control(t)
  BY Locals, TypeParts DEF ControlOK
<1>. USE <1>0, ConstantsAssumption, Locations
     DEF Abandons, RetiresFirst, LocalsOK, Control, InSend, InRetire,
         Types, ContextTypes, DispatchTypes, CallTypes, Goto,
         dispVars, sendVars, killVars, delVars, local
<1>1. CASE GlobalPop(t)
  BY <1>1 DEF GlobalPop
<1>2. CASE DispatchGrab(t)
  BY <1>2 DEF DispatchGrab
<1>3. CASE DispatchEmpty(t)
  BY <1>3 DEF DispatchEmpty
<1>4. CASE DispatchMessage(t)
  BY <1>4 DEF DispatchMessage
<1>5. CASE DispatchLength(t)
  BY <1>5 DEF DispatchLength
<1>6. CASE DispatchNext(t)
  BY <1>6 DEF DispatchNext
<1>7. CASE DispatchBack(t)
  BY <1>7 DEF DispatchBack
<1>8. CASE DispatchRelease(t)
  BY <1>8 DEF DispatchRelease, ContextRelease
<1>9. CASE SendGrab(t)
  BY <1>9 DEF SendGrab, SendReturn
<1>10. CASE MqPush(t)
  BY <1>10 DEF MqPush
<1>11. CASE SendRelease(t)
  BY <1>11 DEF SendRelease, ContextRelease, SendReturn
<1>12. CASE MqCreate(t)
  BY <1>12 DEF MqCreate
<1>13. CASE SetInit(t)
  BY <1>13 DEF SetInit
<1>14. CASE LaunchPush(t)
  BY <1>14 DEF LaunchPush
<1>15. CASE Retire(t)
  BY <1>15 DEF Retire
<1>16. CASE RetireRelease(t)
  BY <1>16 DEF RetireRelease, ContextRelease
<1>17. CASE AbortStep(t)
  BY <1>17 DEF AbortStep
<1>18. CASE AbortPass(t)
  BY <1>18 DEF AbortPass
<1>19. CASE MqRelease(t)
  BY <1>19 DEF MqRelease, ReleaseReturn
<1>20. CASE DropMessage(t)
  BY <1>20 DEF DropMessage, SendTo
<1>21. CASE DropEnd(t)
  BY <1>21 DEF DropEnd, ReleaseReturn
<1>22. CASE DeleteContext(t)
  BY <1>22 DEF DeleteContext, MarkRelease
<1>23. CASE Send(t)
  BY <1>23 DEF Send, SendTo
<1>24. CASE Launch(t)
  BY <1>24 DEF Launch
<1>25. CASE Reserve(t)
  BY <1>25 DEF Reserve
<1>26. CASE Kill(t)
  BY <1>26 DEF Kill, SendTo
<1>27. CASE Monitor(t)
  BY <1>27 DEF Monitor
<1>28. CASE Abort(t)
  BY <1>28 DEF Abort
<1>29. CASE CallbackReturn(t)
  BY <1>29 DEF CallbackReturn
<1>30. CASE InitSucceeds(t)
  BY <1>30 DEF InitSucceeds, ContextRelease
<1>31. CASE InitFails(t)
  BY <1>31 DEF InitFails, ContextRelease
<1>. QED BY <1>1, <1>2, <1>3, <1>4, <1>5, <1>6, <1>7, <1>8, <1>9, <1>10, <1>11, <1>12, <1>13, <1>14, <1>15, <1>16, <1>17, <1>18, <1>19, <1>20, <1>21, <1>22, <1>23, <1>24, <1>25, <1>26, <1>27, <1>28, <1>29, <1>30, <1>31
         DEF Step, Continue, Choose, InitEnds

\* The slot of a service that exists is not filled again, and ctx->init is never
\* reset: what is ready stays ready.
LEMMA ReadyStays ==
    ASSUME Types, NEW t \in Thread, Step(t), NEW s \in Svc
    PROVE  /\ inited[s] => inited'[s]
           /\ ctx[s] # "none" /\ s \notin slot => s \notin slot'
           /\ ctx[s] # "none" /\ Ready(s) => Ready(s)'
<1>1. Effects(t)
  BY StepEffects
<1>2. inited[s] => inited'[s]
  BY <1>1 DEF Effects, SetInit, Types, ContextTypes
<1>3. ctx[s] # "none" /\ s \notin slot => s \notin slot'
  BY <1>1 DEF Effects, Launch, Retire
<1>. QED BY <1>2, <1>3 DEF Ready

\* The queues in the global queue after a step: those it had, and the one that
\* the step pushes.
LEMMA QueuedStep ==
    ASSUME Types, ControlOK, QueueExclusive, NEW t \in Thread, Step(t),
           NEW s \in Svc, Queued(s)'
    PROVE  \/ Queued(s)
           \/ DispatchBack(t) /\ s = q[t]
           \/ LaunchPush(t) /\ s = born[t]
           \/ MqRelease(t) /\ s = dq[t]
           \/ MqPush(t) /\ s = dst[t] /\ ~in_global[s]
           \/ DeleteContext(t) /\ s = gone[t] /\ ~in_global[s]
<1>1. globalmq \in Seq(Svc) /\ Moves(t) /\ LocalsOK(t)
  BY StepMoves, Locals, TypeParts DEF Types, QueueTypes
<1>2. ASSUME globalmq' = globalmq
      PROVE  Queued(s)
  BY <1>2 DEF Queued
<1>3. ASSUME Takes(t)
      PROVE  Queued(s)
  BY <1>1, <1>3, QueuedTail DEF Takes
<1>4. ASSUME NEW x \in Svc, globalmq' = Append(globalmq, x)
      PROVE  Queued(s) \/ s = x
  BY <1>1, <1>4, QueuedAppend
<1>5. CASE DispatchBack(t)
  BY <1>1, <1>4, <1>5 DEF DispatchBack, LocalsOK
<1>6. CASE LaunchPush(t)
  BY <1>1, <1>4, <1>6 DEF LaunchPush, LocalsOK
<1>7. CASE MqRelease(t)
  BY <1>1, <1>2, <1>4, <1>7 DEF MqRelease, LocalsOK
<1>8. CASE MqPush(t)
  BY <1>1, <1>2, <1>4, <1>8 DEF MqPush, LocalsOK
<1>9. CASE DeleteContext(t)
  BY <1>1, <1>2, <1>4, <1>9 DEF DeleteContext, MarkRelease, LocalsOK
<1>10. CASE ~DispatchBack(t) /\ ~LaunchPush(t) /\ ~MqRelease(t) /\ ~MqPush(t) /\ ~DeleteContext(t)
  <2>1. Keeps(t) \/ Takes(t) \/ (\E x \in Svc : Creates(t, x)) \/ \E x : Drops(t, x)
    BY <1>1, <1>10, Zenon DEF Moves, Step, Continue, Choose, InitEnds
  <2>. QED BY <1>2, <1>3, <2>1 DEF Keeps, Creates, Drops
<1>. QED BY <1>5, <1>6, <1>7, <1>8, <1>9, <1>10

\* A service without references has no slot, and is ready in this sense.
LEMMA UnownedReady ==
    ASSUME NEW s \in Svc, Owners(s) = {}
    PROVE  s \notin slot
<1>1. s \in slot => <<"slot", NULL>> \in Owners(s)
  BY DEF Owners, Holds, RefKind
<1>. QED BY <1>1

\* Every step keeps it that only queues of services that are ready are handed
\* around.
LEMMA InitialisedStep ==
    ASSUME Inv, Inv', Initialised, NEW t \in Thread, Step(t)
    PROVE  Initialised'
<1>1. Types /\ ControlOK /\ QueueExclusive /\ LocalsOK(t) /\ NULL \notin Svc
  BY TypeParts, Locals, ConstantsAssumption DEF Inv
<1>2. \A u \in Thread : /\ q[u] # NULL => Known(q[u]) /\ q[u] \in Svc
                        /\ nq[u] # NULL => Known(nq[u]) /\ nq[u] \in Svc
                        /\ dq[u] # NULL => Known(dq[u]) /\ dq[u] \in Svc
                        /\ born[u] # NULL => Known(born[u]) /\ born[u] \in Svc
                        /\ held[u] # NULL => held[u] \in Svc
  BY <1>1 DEF Known, Owned, Types, DispatchTypes
<1>3. \A s \in Svc : Known(s) => ctx[s] # "none"
  BY DEF Inv, Existing
<1>4. \A s \in Svc : /\ inited[s] => inited'[s]
                     /\ ctx[s] # "none" /\ s \notin slot => s \notin slot'
                     /\ ctx[s] # "none" /\ Ready(s) => Ready(s)'
  BY <1>1, ReadyStays
<1>5. \A s \in Svc : Queued(s) => Known(s)
  BY DEF Known
<1>6. ASSUME NEW s \in Svc, Queued(s)'
      PROVE  Ready(s)'
  <2>1. CASE Queued(s)
    BY <1>3, <1>4, <1>5, <2>1 DEF Initialised
  <2>2. CASE DispatchBack(t) /\ s = q[t]
    BY <1>1, <1>2, <1>3, <1>4, <2>2 DEF Initialised, HandlesReady, DispatchBack, LocalsOK
  <2>3. CASE LaunchPush(t) /\ s = born[t]
    BY <1>1, <1>2, <1>3, <1>4, <2>3 DEF Initialised, HandlesReady, LaunchPush, LocalsOK
  <2>4. CASE MqRelease(t) /\ s = dq[t]
    <3>1. pc[t] = "mqrel" /\ sret[t] = NULL /\ dret[t] = NULL /\ NULL # "retire"
      BY <1>1, <2>4, ConstantsAssumption, Locations DEF MqRelease, ControlOK, Control, InSend
    <3>2. ~RetiresFirst(t)
      BY <3>1 DEF RetiresFirst, InRetire
    <3>3. s \notin slot
      BY <1>1, <2>4, <3>2 DEF Initialised, HandlesReady, MqRelease, LocalsOK
    <3>. QED BY <1>1, <1>2, <1>3, <1>4, <2>4, <3>3 DEF Ready
  <2>5. CASE MqPush(t) /\ s = dst[t] /\ ~in_global[s]
    <3>1. ctx[s] = "live" /\ mqmem[s] = "live"
      BY <2>5, PushTarget DEF MqPush
    <3>. QED BY <1>4, <2>5, <3>1 DEF Initialised
  <2>6. CASE DeleteContext(t) /\ s = gone[t] /\ ~in_global[s]
    <3>1. ctx[s] = "live" /\ Owners(s) = {}
      BY <2>6, DeleteTarget DEF DeleteContext
    <3>. QED BY <1>4, <3>1, UnownedReady DEF Ready
  <2>. QED BY <1>1, <1>6, <2>1, <2>2, <2>3, <2>4, <2>5, <2>6, QueuedStep
<1>7. ASSUME NEW s \in Svc, mqmem'[s] # "none", ~in_global'[s]
      PROVE  Ready(s)'
  <2>. USE DEF Types, QueueTypes, mqVars
  <2>1. mqmem[s] # "none" => ctx[s] # "none"
    BY DEF Inv, Phases
  <2>2. CASE mqmem[s] # "none" /\ ~in_global[s]
    BY <1>4, <2>1, <2>2 DEF Initialised
  <2>3. CASE DispatchEmpty(t) /\ s = q[t]
    BY <1>1, <1>2, <1>3, <1>4, <2>3 DEF Initialised, HandlesReady, DispatchEmpty, LocalsOK
  <2>4. CASE DropEnd(t) /\ s = dq[t]
    <3>1. release[s]
      BY <2>4 DEF Inv, Addressed, DropEnd
    <3>2. ctx[s] = "freed" /\ Owners(s) = {}
      BY <3>1 DEF Inv, Phases, Counted
    <3>. QED BY <1>4, <3>2, UnownedReady DEF Ready
  <2>5. \/ mqmem[s] # "none" /\ ~in_global[s]
        \/ DispatchEmpty(t) /\ s = q[t]
        \/ DropEnd(t) /\ s = dq[t]
    <3>1. CASE ~Special(t)
      BY <1>1, <1>7, <3>1, PlainStep DEF SameMemory
    <3>2. CASE DispatchEmpty(t)
      BY <1>1, <1>7, <3>2 DEF DispatchEmpty, LocalsOK
    <3>3. CASE MqPush(t)
      BY <1>1, <1>7, <3>3 DEF MqPush, LocalsOK
    <3>4. CASE MqCreate(t)
      BY <1>1, <1>7, <3>4 DEF MqCreate, LocalsOK
    <3>5. CASE DropEnd(t)
      BY <1>1, <1>7, <3>5 DEF DropEnd, LocalsOK
    <3>6. CASE DeleteContext(t)
      BY <1>1, <1>7, <3>6 DEF DeleteContext, MarkRelease
    <3>7. CASE Launch(t)
      BY <1>1, <1>7, <3>7 DEF Launch
    <3>. QED BY <3>1, <3>2, <3>3, <3>4, <3>5, <3>6, <3>7 DEF Special
  <2>. QED BY <2>2, <2>3, <2>4, <2>5
<1>8. \A s \in Svc : Known(s) /\ Ready(s) => inited'[s] \/ s \notin slot'
  BY <1>3, <1>4 DEF Ready
<1>9. ASSUME NEW u \in Thread \ {t}
      PROVE  HandlesReady(u)'
  <2>1. SameLocals(u) /\ HandlesReady(u)
    BY <1>1, OthersKeep DEF Initialised
  <2>2. pc[u] = "lpush" \/ dret[u] = "lpush" => born[u] # NULL
    BY <1>1 DEF ControlOK, Control, InLaunch, At
  <2>3. RetiresFirst(u)' <=> RetiresFirst(u)
    BY <2>1 DEF RetiresFirst, InRetire, SameLocals
  <2>4. dq[u] # NULL /\ dq[u] \notin slot => dq[u] \notin slot'
    BY <1>2, <1>3, <1>4
  <2>5. /\ q[u] # NULL => inited'[q[u]] \/ q[u] \notin slot'
        /\ nq[u] # NULL => inited'[nq[u]] \/ nq[u] \notin slot'
        /\ pc[u] = "lpush" \/ dret[u] = "lpush" => inited'[born[u]] \/ born[u] \notin slot'
        /\ held[u] # NULL => inited'[held[u]]
    BY <1>2, <1>4, <1>8, <2>1, <2>2 DEF HandlesReady
  <2>. QED BY <2>1, <2>3, <2>4, <2>5 DEF HandlesReady, Ready, SameLocals
<1>10. HandlesReady(t)'
  <2>1. HandlesReady(t) /\ Origins(t) /\ Completes(t) /\ Abandons(t)
    BY <1>1, StepOrigins, StepCompletes, StepAbandons DEF Initialised
  <2>2. globalmq # <<>> => /\ Head(globalmq) \in Svc
                           /\ inited'[Head(globalmq)] \/ Head(globalmq) \notin slot'
    <3>. SUFFICES ASSUME globalmq # <<>>
                  PROVE  /\ Head(globalmq) \in Svc
                         /\ inited'[Head(globalmq)] \/ Head(globalmq) \notin slot'
      OBVIOUS
    <3>1. globalmq \in Seq(Svc)
      BY <1>1 DEF Types, QueueTypes
    <3>2. Head(globalmq) = globalmq[1] /\ 1 \in DOMAIN globalmq /\ Head(globalmq) \in Svc
      BY <3>1, HeadTailProperties, LenProperties, EmptySeq
    <3>3. Queued(Head(globalmq))
      BY <3>2 DEF Queued
    <3>. QED BY <1>5, <1>8, <3>2, <3>3 DEF Initialised
  <2>3. /\ q[t] # NULL => inited'[q[t]] \/ q[t] \notin slot'
        /\ nq[t] # NULL => inited'[nq[t]] \/ nq[t] \notin slot'
    BY <1>2, <1>8, <2>1 DEF HandlesReady
  <2>4. q'[t] # NULL => Ready(q[t])'
    BY <2>1, <2>2, <2>3 DEF Origins, Ready
  <2>5. nq'[t] # NULL => Ready(nq[t])'
    BY <2>1, <2>2, <2>3 DEF Origins, Ready
  <2>6. held'[t] # NULL => inited'[held'[t]]
    <3>1. held[t] # NULL => inited'[held[t]]
      BY <1>2, <1>4, <2>1 DEF HandlesReady
    <3>2. q[t] # NULL /\ q[t] \in slot => inited'[q[t]]
      BY <1>2, <1>4, <2>1 DEF HandlesReady, Ready
    <3>. QED BY <2>1, <3>1, <3>2 DEF Origins
  <2>7. ASSUME pc'[t] = "lpush" \/ dret'[t] = "lpush"
        PROVE  Ready(born[t])'
    <3>1. born'[t] = born[t]
      BY <2>1, <2>7 DEF Completes
    <3>2. CASE pc[t] = "lpush" \/ dret[t] = "lpush"
      <4>1. born[t] # NULL
        BY <1>1, <3>2 DEF ControlOK, Control, InLaunch, At
      <4>. QED BY <1>2, <1>8, <2>1, <3>1, <3>2, <4>1 DEF HandlesReady, Ready
    <3>3. CASE inited'[born[t]]
      BY <3>1, <3>3 DEF Ready
    <3>4. CASE pc'[t] = "delete" /\ gone'[t] = born[t]
      <4>1. gone'[t] \in Svc /\ (Owners(gone[t]) = {})'
        BY <3>4 DEF Inv, ControlOK, Control, Deleting
      <4>2. gone'[t] \in slot' => <<"slot", NULL>> \in Owners(gone[t])'
        BY <4>1 DEF Owners, Holds, RefKind
      <4>. QED BY <3>1, <3>4, <4>1, <4>2 DEF Ready
    <3>. QED BY <2>1, <2>7, <3>2, <3>3, <3>4 DEF Completes
  <2>8. dq'[t] # NULL => dq'[t] \notin slot' \/ RetiresFirst(t)'
    <3>1. q[t] # NULL /\ q[t] \notin slot => q[t] \notin slot'
      BY <1>2, <1>3, <1>4
    <3>2. dq[t] # NULL /\ dq[t] \notin slot => dq[t] \notin slot'
      BY <1>2, <1>3, <1>4
    <3>. QED BY <2>1, <3>1, <3>2 DEF Abandons, HandlesReady
  <2>. QED BY <2>4, <2>5, <2>6, <2>7, <2>8 DEF HandlesReady
<1>. QED BY <1>6, <1>7, <1>9, <1>10 DEF Initialised

\* The whole of it is an invariant.
LEMMA AlwaysInitialised == Spec => [](Inv /\ Initialised)
<1>1. ASSUME Init PROVE Initialised
  <2>1. \A t \in Thread : /\ q[t] = NULL /\ nq[t] = NULL /\ held[t] = NULL /\ dq[t] = NULL
                          /\ pc[t] # "lpush" /\ dret[t] # "lpush"
    BY <1>1, ConstantsAssumption, Locations DEF Init
  <2>2. \A t \in Thread : HandlesReady(t)
    BY <2>1 DEF HandlesReady
  <2>3. \A s \in Svc : Ready(s)
    BY <1>1 DEF Ready, Init
  <2>. QED BY <2>2, <2>3 DEF Initialised
<1>2. ASSUME Inv, Inv', Initialised, [Next]_vars
      PROVE  Initialised'
  <2>1. ASSUME UNCHANGED vars
        PROVE  Initialised'
    BY <1>2, <2>1 DEF vars, shared, ctxVars, mqVars, local, dispVars, sendVars, killVars, delVars,
        Initialised, HandlesReady, Ready, RetiresFirst, InRetire, Queued
  <2>. QED BY <1>2, <2>1, InitialisedStep DEF Next, Step
<1>3. Inv /\ Inv' /\ Initialised /\ [Next]_vars => Initialised'
  BY <1>2
<1>. QED BY <1>1, <1>3, Invariant, PTL DEF Spec

\* No message is dispatched to a service before its init function has succeeded,
\* although it can be sent to, killed and retired before: assert(ctx->init) of
\* dispatch_message cannot fail.
THEOREM DispatchesInited == Spec => []DispatchInited
<1>1. ASSUME Inv, Initialised PROVE DispatchInited
  <2>. SUFFICES ASSUME NEW t \in Worker, pc[t] = "cb"
                PROVE  inited[held[t]]
    BY DEF DispatchInited
  <2>1. t \in Thread /\ held[t] \in Svc
    BY <1>1, Locals DEF Inv, LocalsOK, Thread
  <2>. QED BY <1>1, <2>1, ConstantsAssumption DEF Initialised, HandlesReady
<1>. QED BY <1>1, AlwaysInitialised, PTL

-----------------------------------------------------------------------------
(* The order of the messages from one service to another. *)

\* The fields of the messages in queues and of those being sent.
LEMMA MessageTypes ==
    ASSUME Types, ControlOK
    PROVE  /\ \A d \in Svc : \A i \in DOMAIN mq[d] :
                mq[d][i].no \in Nat /\ mq[d][i].src \in Svc \cup {NULL}
           /\ \A d \in Svc : /\ Len(mq[d]) \in Nat /\ DOMAIN mq[d] = 1..Len(mq[d])
                             /\ mq[d] \in Seq(Message)
           /\ \A t \in Thread : InSend(t) =>
                /\ dst[t] \in Svc /\ msg[t] \in Message
                /\ msg[t].no \in Nat /\ msg[t].src \in Svc \cup {NULL}
<1>1. \A d \in Svc : mq[d] \in Seq(Message)
  BY DEF Types, QueueTypes
<1>2. \A d \in Svc : Len(mq[d]) \in Nat /\ DOMAIN mq[d] = 1..Len(mq[d])
  BY <1>1, LenProperties
<1>3. \A d \in Svc : \A i \in DOMAIN mq[d] : mq[d][i] \in Message
  BY <1>1, <1>2, ElementOfSeq
<1>4. \A t \in Thread : InSend(t) => dst[t] \in Svc /\ msg[t] \in Message
  BY DEF ControlOK, Control
<1>5. \A m \in Message : m.no \in Nat /\ m.src \in Svc \cup {NULL}
  BY DEF Message
<1>. QED BY <1>1, <1>2, <1>3, <1>4, <1>5

\* Where a thread is in skynet_send after a step.
Sends(t) ==
    /\ pc'[t] \in {"send", "push"} =>
         \/ Send(t) \/ Kill(t) \/ DropMessage(t)
         \/ pc[t] \in {"send", "push"} /\ dst'[t] = dst[t] /\ msg'[t] = msg[t]
    /\ InSend(t) => Owned(t)' = Owned(t)

\* No action goes on to the push with another message.
LEMMA StepSends ==
    ASSUME Types, ControlOK, NEW t \in Thread, Step(t)
    PROVE  Sends(t)
<1>0. LocalsOK(t) /\ Control(t)
  BY Locals, TypeParts DEF ControlOK
<1>. USE <1>0, ConstantsAssumption, Locations
     DEF Sends, LocalsOK, Control, InSend, InRetire, Types, DispatchTypes, CallTypes, Goto,
         dispVars, sendVars, local, Owned
<1>1. CASE GlobalPop(t)
  BY <1>1 DEF GlobalPop
<1>2. CASE DispatchGrab(t)
  BY <1>2 DEF DispatchGrab
<1>3. CASE DispatchEmpty(t)
  BY <1>3 DEF DispatchEmpty
<1>4. CASE DispatchMessage(t)
  BY <1>4 DEF DispatchMessage
<1>5. CASE DispatchLength(t)
  BY <1>5 DEF DispatchLength
<1>6. CASE DispatchNext(t)
  BY <1>6 DEF DispatchNext
<1>7. CASE DispatchBack(t)
  BY <1>7 DEF DispatchBack
<1>8. CASE DispatchRelease(t)
  BY <1>8 DEF DispatchRelease, ContextRelease
<1>9. CASE SendGrab(t)
  BY <1>9 DEF SendGrab, SendReturn
<1>10. CASE MqPush(t)
  BY <1>10 DEF MqPush
<1>11. CASE SendRelease(t)
  BY <1>11 DEF SendRelease, ContextRelease, SendReturn
<1>12. CASE MqCreate(t)
  BY <1>12 DEF MqCreate
<1>13. CASE SetInit(t)
  BY <1>13 DEF SetInit
<1>14. CASE LaunchPush(t)
  BY <1>14 DEF LaunchPush
<1>15. CASE Retire(t)
  BY <1>15 DEF Retire
<1>16. CASE RetireRelease(t)
  BY <1>16 DEF RetireRelease, ContextRelease
<1>17. CASE AbortStep(t)
  BY <1>17 DEF AbortStep
<1>18. CASE AbortPass(t)
  BY <1>18 DEF AbortPass
<1>19. CASE MqRelease(t)
  BY <1>19 DEF MqRelease, ReleaseReturn
<1>20. CASE DropMessage(t)
  BY <1>20 DEF DropMessage, SendTo
<1>21. CASE DropEnd(t)
  BY <1>21 DEF DropEnd, ReleaseReturn
<1>22. CASE DeleteContext(t)
  BY <1>22 DEF DeleteContext, MarkRelease
<1>23. CASE Send(t)
  BY <1>23 DEF Send, SendTo
<1>24. CASE Launch(t)
  BY <1>24 DEF Launch
<1>25. CASE Reserve(t)
  BY <1>25 DEF Reserve
<1>26. CASE Kill(t)
  BY <1>26 DEF Kill, SendTo
<1>27. CASE Monitor(t)
  BY <1>27 DEF Monitor
<1>28. CASE Abort(t)
  BY <1>28 DEF Abort
<1>29. CASE CallbackReturn(t)
  BY <1>29 DEF CallbackReturn
<1>30. CASE InitSucceeds(t)
  BY <1>30 DEF InitSucceeds, ContextRelease
<1>31. CASE InitFails(t)
  BY <1>31 DEF InitFails, ContextRelease
<1>. QED BY <1>1, <1>2, <1>3, <1>4, <1>5, <1>6, <1>7, <1>8, <1>9, <1>10, <1>11, <1>12, <1>13, <1>14, <1>15, <1>16, <1>17, <1>18, <1>19, <1>20, <1>21, <1>22, <1>23, <1>24, <1>25, <1>26, <1>27, <1>28, <1>29, <1>30, <1>31
         DEF Step, Continue, Choose, InitEnds

\* A new message has a new number, and comes from a service whose queue the
\* sender has, unless it is the notice of handle_exit.
LEMMA NewMessage ==
    ASSUME Inv, NEW t \in Thread, Step(t), Send(t) \/ Kill(t) \/ DropMessage(t), InSend(t)'
    PROVE  /\ sent' = sent + 1 /\ msg'[t].no = sent + 1
           /\ Ordinary(msg[t])' => msg'[t].src \in Owned(t)'
<1>1. Types /\ ControlOK /\ LocalsOK(t) /\ Dispatching(t) /\ Control(t)
  BY TypeParts, Locals DEF Inv, ControlOK
<1>2. NULL \notin Svc /\ msg \in [Thread -> Message \cup {NULL}]
  BY <1>1, ConstantsAssumption DEF Types, CallTypes
<1>3. CASE Send(t)
  <2>1. PICK d \in Svc : SendTo(t, CASE pc[t] = "cb" -> held[t]
                                    [] pc[t] = "init" -> born[t]
                                    [] OTHER -> NULL, d, "msg", pc[t])
    BY <1>3 DEF Send
  <2>2. Owned(t)' = Owned(t) /\ pc[t] \in {"cb", "init", "out"}
    BY <1>3 DEF Send, dispVars, Owned
  <2>3. DEFINE s == CASE pc[t] = "cb" -> held[t]
                      [] pc[t] = "init" -> born[t]
                      [] OTHER -> NULL
  <2>4. msg'[t] = [src |-> s, no |-> sent + 1, kind |-> "msg"] /\ sent' = sent + 1
    BY <1>2, <2>1 DEF SendTo
  <2>5. s # NULL => s \in Owned(t)
    <3>1. CASE pc[t] = "cb"
      BY <1>1, <1>2, <3>1 DEF LocalsOK, Dispatching, Owned
    <3>2. CASE pc[t] = "init"
      BY <1>1, <1>2, <3>2 DEF LocalsOK, Owned
    <3>3. CASE pc[t] = "out"
      BY <3>3
    <3>. QED BY <2>2, <3>1, <3>2, <3>3
  <2>. HIDE DEF s
  <2>. QED BY <2>2, <2>4, <2>5 DEF Ordinary
<1>4. CASE Kill(t)
  <2>1. PICK s \in Svc : \/ pc'[t] = "retire"
                         \/ SendTo(t, s, monitor_exit, "exit", "retire")
    BY <1>1, <1>4 DEF Kill, Goto, Types, DispatchTypes
  <2>2. pc'[t] # "retire"
    BY DEF InSend
  <2>. QED BY <1>2, <2>1, <2>2 DEF SendTo, Ordinary
<1>5. CASE DropMessage(t)
  <2>1. pc[t] = "drop" /\ dq[t] \in Svc /\ Owned(t)' = Owned(t)
    BY <1>1, <1>5 DEF DropMessage, LocalsOK, dispVars, Owned
  <2>2. PICK d : SendTo(t, dq[t], d, "err", "drop")
    BY <1>5, <2>1 DEF DropMessage, InSend
  <2>3. dq[t] \in Owned(t)
    BY <1>2, <2>1 DEF Owned
  <2>. QED BY <1>2, <2>1, <2>2, <2>3 DEF SendTo, Ordinary
<1>. QED BY <1>3, <1>4, <1>5

\* After a step that pushes nothing into it, a queue is what it was, or what it
\* was without its first message; Shifts(d, k) says that k messages are gone.
Shifts(d, k) ==
    \A i \in DOMAIN mq'[d] : i + k \in DOMAIN mq[d] /\ mq'[d][i] = mq[d][i + k]

\* Only a dispatch or a drop takes a message, and it takes the first one.
LEMMA QueueShifts ==
    ASSUME Types, ControlOK, NEW t \in Thread, Step(t), NEW d \in Svc,
           ~(MqPush(t) /\ d = dst[t])
    PROVE  IF (DispatchMessage(t) /\ d = q[t]) \/ (DropMessage(t) /\ d = dq[t])
           THEN mq[d] # <<>> /\ Shifts(d, 1)
           ELSE Shifts(d, 0)
<1>1. LocalsOK(t) /\ Delivers(t) /\ mq \in [Svc -> Seq(Message)]
  BY Locals, TypeParts, StepDelivers DEF Types, QueueTypes
<1>2. mq[d] \in Seq(Message) /\ Len(mq[d]) \in Nat /\ DOMAIN mq[d] = 1..Len(mq[d])
  BY MessageTypes
<1>3. ASSUME mq'[d] = mq[d]
      PROVE  Shifts(d, 0)
  BY <1>2, <1>3 DEF Shifts
<1>4. ASSUME mq[d] # <<>>, mq'[d] = Tail(mq[d])
      PROVE  Shifts(d, 1)
  <2>1. /\ Len(mq[d]) \in Nat \ {0}
        /\ DOMAIN mq'[d] = 1..(Len(mq[d]) - 1)
        /\ \A k \in 1..(Len(mq[d]) - 1) : mq'[d][k] = mq[d][k + 1]
    BY <1>2, <1>4, HeadTailProperties, LenProperties, EmptySeq
  <2>. QED BY <1>2, <2>1 DEF Shifts
<1>5. CASE DispatchMessage(t)
  <2>1. q[t] \in Svc /\ mq[q[t]] # <<>> /\ mq' = [mq EXCEPT ![q[t]] = Tail(@)] /\ ~DropMessage(t)
    BY <1>1, <1>5 DEF DispatchMessage, DropMessage, LocalsOK
  <2>. QED BY <1>1, <1>3, <1>4, <1>5, <2>1
<1>6. CASE DropMessage(t)
  <2>1. dq[t] \in Svc /\ mq[dq[t]] # <<>> /\ mq' = [mq EXCEPT ![dq[t]] = Tail(@)] /\ ~DispatchMessage(t)
    BY <1>1, <1>6 DEF DispatchMessage, DropMessage, LocalsOK
  <2>. QED BY <1>1, <1>3, <1>4, <1>6, <2>1
<1>7. CASE MqPush(t)
  <2>1. mq'[d] = mq[d] /\ ~DropMessage(t) /\ ~DispatchMessage(t)
    BY <1>1, <1>7 DEF MqPush, LocalsOK, DispatchMessage, DropMessage
  <2>. QED BY <1>3, <2>1
<1>8. CASE ~MqPush(t) /\ ~DispatchMessage(t) /\ ~DropMessage(t)
  BY <1>1, <1>3, <1>8 DEF Delivers
<1>. QED BY <1>5, <1>6, <1>7, <1>8

\* last changes for the message that is dispatched, and for no other.
LEMMA LastStep ==
    ASSUME Types, ControlOK, NEW t \in Thread, Step(t), NEW d \in Svc, NEW s \in Svc
    PROVE  \/ last'[d][s] = last[d][s] /\ ~(/\ DispatchMessage(t) /\ d = q[t]
                                            /\ Ordinary(mq[d][1]) /\ mq[d][1].src = s)
           \/ /\ DispatchMessage(t) /\ d = q[t] /\ 1 \in DOMAIN mq[d]
              /\ Ordinary(mq[d][1]) /\ mq[d][1].src = s
              /\ last'[d][s] = mq[d][1].no
<1>1. Effects(t) /\ LocalsOK(t) /\ last \in [Svc -> [Svc -> Nat]]
  BY StepEffects, Locals, TypeParts DEF Types, NodeTypes
<1>2. CASE DispatchMessage(t)
  <2>1. q[t] \in Svc /\ mq[q[t]] # <<>>
    BY <1>1, <1>2 DEF DispatchMessage, LocalsOK
  <2>2. mq[q[t]] \in Seq(Message) /\ Len(mq[q[t]]) \in Nat /\ DOMAIN mq[q[t]] = 1..Len(mq[q[t]])
    BY <2>1, MessageTypes
  <2>3. Head(mq[q[t]]) = mq[q[t]][1] /\ 1 \in DOMAIN mq[q[t]]
    BY <2>1, <2>2, HeadTailProperties, EmptySeq
  <2>4. DEFINE m == mq[q[t]][1]
  <2>5. last' = IF m.src # NULL /\ m.kind # "exit"
                THEN [last EXCEPT ![q[t]][m.src] = m.no]
                ELSE last
    BY <1>2, <2>3, Zenon DEF DispatchMessage
  <2>6. m.src \in Svc \cup {NULL}
    BY <2>1, <2>3, MessageTypes
  <2>. HIDE DEF m
  <2>7. CASE Ordinary(m)
    <3>1. last' = [last EXCEPT ![q[t]] = [@ EXCEPT ![m.src] = m.no]] /\ m.src \in Svc
      BY <2>5, <2>6, <2>7 DEF Ordinary
    <3>2. last'[q[t]] = [last[q[t]] EXCEPT ![m.src] = m.no] /\ (d # q[t] => last'[d] = last[d])
      BY <1>1, <2>1, <3>1
    <3>3. last[q[t]] \in [Svc -> Nat]
      BY <1>1, <2>1
    <3>4. \A r \in Svc : last'[q[t]][r] = IF r = m.src THEN m.no ELSE last[q[t]][r]
      BY <3>2, <3>3
    <3>. QED BY <1>2, <2>3, <2>7, <3>2, <3>4 DEF m
  <2>8. CASE ~Ordinary(m)
    BY <2>5, <2>8 DEF Ordinary, m
  <2>. QED BY <2>7, <2>8
<1>3. CASE ~DispatchMessage(t)
  BY <1>1, <1>3 DEF Effects
<1>. QED BY <1>2, <1>3

\* What a thread other than t has on its way it had before; what t has, too, or
\* it has just given it the highest number.
LEMMA WayStep ==
    ASSUME Inv, NEW t \in Thread, Step(t), NEW u \in Thread, NEW d, OnItsWay(u, d)'
    PROVE  \/ OnItsWay(u, d) /\ msg'[u] = msg[u]
           \/ msg'[u].no = sent + 1
<1>1. Types /\ ControlOK
  BY TypeParts DEF Inv
<1>2. CASE u = t
  <2>1. Sends(t) /\ pc'[t] \in {"send", "push"}
    BY <1>1, <1>2, StepSends DEF OnItsWay
  <2>2. InSend(t)'
    BY <2>1 DEF InSend
  <2>. QED BY <1>2, <2>1, <2>2, NewMessage DEF Sends, OnItsWay, Ordinary
<1>3. CASE u # t
  <2>1. SameLocals(u)
    BY <1>1, <1>3, OthersKeep
  <2>. QED BY <2>1 DEF SameLocals, OnItsWay, Ordinary
<1>. QED BY <1>2, <1>3

\* Two threads never send in the name of the same service.
LEMMA OneSender ==
    ASSUME Inv, SendsAsOwner, NEW t \in Thread, NEW u \in Thread, InSend(t), InSend(u),
           Ordinary(msg[t]), Ordinary(msg[u]), msg[t].src = msg[u].src
    PROVE  t = u
  BY DEF Inv, SendsAsOwner, QueueExclusive

\* A step that pushes nothing into the queue of d keeps the order.
LEMMA OrderKept ==
    ASSUME Inv, Ordered, NEW t \in Thread, Step(t), NEW d \in Svc,
           ~(MqPush(t) /\ d = dst[t])
    PROVE  InOrder(d)'
<1>1. Types /\ ControlOK /\ InOrder(d)
  BY TypeParts DEF Inv, Ordered
<1>2. /\ \A i \in DOMAIN mq[d] : mq[d][i].no \in Nat /\ mq[d][i].src \in Svc \cup {NULL}
      /\ Len(mq[d]) \in Nat /\ DOMAIN mq[d] = 1..Len(mq[d])
  BY <1>1, MessageTypes
<1>3. /\ sent \in Nat /\ last \in [Svc -> [Svc -> Nat]]
      /\ \A i \in DOMAIN mq[d] : mq[d][i].no <= sent
      /\ \A s \in Svc : last[d][s] <= sent /\ last[d][s] \in Nat
  BY <1>1 DEF Types, NodeTypes, Ordered, Numbered
<1>4. PICK k \in {0, 1} : /\ Shifts(d, k)
                          /\ DispatchMessage(t) /\ d = q[t] => k = 1
  BY <1>1, QueueShifts
<1>5. \A s \in Svc : \/ last'[d][s] = last[d][s]
                     \/ /\ k = 1 /\ 1 \in DOMAIN mq[d] /\ Ordinary(mq[d][1])
                        /\ mq[d][1].src = s /\ last'[d][s] = mq[d][1].no
  BY <1>1, <1>4, LastStep
<1>6. \A i \in DOMAIN mq'[d] : /\ i \in Nat \ {0} /\ i + k \in DOMAIN mq[d]
                               /\ mq'[d][i] = mq[d][i + k]
  <2>1. (Types /\ ControlOK)'
    <3>1. Inv'
      BY NextInv DEF Next, Step
    <3>2. ControlOK'
      BY <3>1 DEF Inv
    <3>3. Types'
      BY <3>1 DEF Inv, TypeOK, Types, ContextTypes, QueueTypes, NodeTypes, DispatchTypes, CallTypes
    <3>. QED BY <3>2, <3>3
  <2>2. mq'[d] \in Seq(Message)
    BY <2>1 DEF Types, QueueTypes
  <2>3. \A i \in DOMAIN mq'[d] : i \in Nat \ {0}
    BY <2>2, LenProperties
  <2>. QED BY <1>4, <2>3 DEF Shifts
<1>7. ASSUME NEW i \in DOMAIN mq'[d], Ordinary(mq[d][i])'
      PROVE  last'[d][mq'[d][i].src] < mq'[d][i].no
  <2>1. i + k \in DOMAIN mq[d] /\ mq'[d][i] = mq[d][i + k] /\ Ordinary(mq[d][i + k])
    BY <1>6, <1>7 DEF Ordinary
  <2>2. DEFINE s == mq[d][i + k].src
  <2>3. s \in Svc /\ last[d][s] < mq[d][i + k].no
    BY <1>1, <1>2, <2>1 DEF InOrder, Ordinary
  <2>. HIDE DEF s
  <2>4. CASE last'[d][s] = last[d][s]
    BY <2>1, <2>3, <2>4 DEF s
  <2>5. CASE /\ k = 1 /\ 1 \in DOMAIN mq[d] /\ Ordinary(mq[d][1])
             /\ mq[d][1].src = s /\ last'[d][s] = mq[d][1].no
    <3>1. 1 < i + k
      BY <1>6, <2>5
    <3>2. mq[d][1].no < mq[d][i + k].no
      BY <1>1, <2>1, <2>5, <3>1 DEF InOrder, s
    <3>. QED BY <2>1, <2>5, <3>2 DEF s
  <2>. QED BY <1>5, <2>3, <2>4, <2>5
<1>8. ASSUME NEW i \in DOMAIN mq'[d], NEW j \in DOMAIN mq'[d], i < j,
             Ordinary(mq[d][i])', Ordinary(mq[d][j])', mq'[d][i].src = mq'[d][j].src
      PROVE  mq'[d][i].no < mq'[d][j].no
  <2>1. /\ i + k \in DOMAIN mq[d] /\ mq'[d][i] = mq[d][i + k] /\ Ordinary(mq[d][i + k])
        /\ j + k \in DOMAIN mq[d] /\ mq'[d][j] = mq[d][j + k] /\ Ordinary(mq[d][j + k])
    BY <1>6, <1>8 DEF Ordinary
  <2>2. i + k < j + k
    BY <1>6, <1>8
  <2>. QED BY <1>1, <1>8, <2>1, <2>2 DEF InOrder
<1>9. ASSUME NEW u \in Thread, OnItsWay(u, d)'
      PROVE  /\ last'[d][msg'[u].src] < msg'[u].no
             /\ \A i \in DOMAIN mq'[d] :
                  Ordinary(mq[d][i])' /\ mq'[d][i].src = msg'[u].src => mq'[d][i].no < msg'[u].no
  <2>0. msg'[u].src \in Svc
    <3>1. (ControlOK /\ InSend(u))'
      BY <1>9, NextInv DEF Inv, Next, Step, OnItsWay, InSend
    <3>2. msg'[u] \in Message
      BY <3>1 DEF ControlOK, Control
    <3>. QED BY <1>9, <3>2 DEF Message, OnItsWay, Ordinary
  <2>1. CASE OnItsWay(u, d) /\ msg'[u] = msg[u]
    <3>1. /\ last[d][msg[u].src] < msg[u].no
          /\ \A i \in DOMAIN mq[d] :
               Ordinary(mq[d][i]) /\ mq[d][i].src = msg[u].src => mq[d][i].no < msg[u].no
      BY <1>1, <2>1 DEF InOrder
    <3>2. last'[d][msg'[u].src] < msg'[u].no
      BY <1>5, <2>0, <2>1, <3>1
    <3>3. ASSUME NEW i \in DOMAIN mq'[d], Ordinary(mq[d][i])', mq'[d][i].src = msg'[u].src
          PROVE  mq'[d][i].no < msg'[u].no
      <4>1. i + k \in DOMAIN mq[d] /\ mq'[d][i] = mq[d][i + k] /\ Ordinary(mq[d][i + k])
        BY <1>6, <3>3 DEF Ordinary
      <4>. QED BY <2>1, <3>1, <3>3, <4>1
    <3>. QED BY <3>2, <3>3
  <2>2. CASE msg'[u].no = sent + 1
    <3>1. \A s \in Svc : last'[d][s] <= sent /\ last'[d][s] \in Nat
      BY <1>2, <1>3, <1>5
    <3>3. last'[d][msg'[u].src] < msg'[u].no
      BY <1>3, <2>0, <2>2, <3>1
    <3>2. ASSUME NEW i \in DOMAIN mq'[d]
          PROVE  mq'[d][i].no < msg'[u].no
      <4>1. i + k \in DOMAIN mq[d] /\ mq'[d][i] = mq[d][i + k]
        BY <1>6
      <4>. QED BY <1>2, <1>3, <2>2, <4>1
    <3>. QED BY <3>2, <3>3
  <2>. QED BY <1>9, <2>1, <2>2, WayStep
<1>. QED BY <1>7, <1>8, <1>9 DEF InOrder

\* The push keeps the order: the message it appends is the latest of its source,
\* and no other thread has one of the same source on its way.
LEMMA PushOrder ==
    ASSUME Inv, Ordered, NEW t \in Thread, MqPush(t), NEW d, d = dst[t]
    PROVE  InOrder(d)'
<1>0. Step(t) /\ InSend(t)
  BY DEF Step, Continue, MqPush, InSend
<1>1. Types /\ ControlOK /\ LocalsOK(t) /\ d \in Svc /\ msg[t] \in Message
  BY TypeParts, Locals DEF Inv, LocalsOK, MqPush
<1>2. /\ \A i \in DOMAIN mq[d] : mq[d][i].no \in Nat /\ mq[d][i].src \in Svc \cup {NULL}
      /\ Len(mq[d]) \in Nat /\ DOMAIN mq[d] = 1..Len(mq[d])
      /\ mq[d] \in Seq(Message)
  BY <1>1, MessageTypes
<1>3. InOrder(d)
  BY <1>1 DEF Ordered
<1>4. DEFINE n == Len(mq[d]) + 1
<1>5. /\ DOMAIN mq'[d] = 1..n
      /\ \A i \in 1..Len(mq[d]) : mq'[d][i] = mq[d][i]
      /\ mq'[d][n] = msg[t]
  <2>1. mq'[d] = Append(mq[d], msg[t])
    BY <1>1 DEF MqPush, Types, QueueTypes
  <2>. QED BY <1>1, <1>2, <2>1, AppendProperties, LenProperties
<1>6. last' = last /\ pc'[t] = "sendrel"
  BY <1>1 DEF MqPush, history, Goto, Types, DispatchTypes
<1>7. \A i \in 1..n : i # n => i \in DOMAIN mq[d]
  BY <1>2
<1>8. Ordinary(msg[t]) => OnItsWay(t, d)
  BY DEF OnItsWay, MqPush
<1>. n \in Nat
  BY <1>2
<1>. HIDE DEF n
<1>9. ASSUME NEW i \in DOMAIN mq'[d], Ordinary(mq[d][i])'
      PROVE  last'[d][mq'[d][i].src] < mq'[d][i].no
  <2>1. CASE i = n
    <3>1. mq'[d][i] = msg[t] /\ Ordinary(msg[t])
      BY <1>5, <1>9, <2>1 DEF Ordinary
    <3>. QED BY <1>3, <1>6, <1>8, <3>1 DEF InOrder
  <2>2. CASE i # n
    <3>1. i \in DOMAIN mq[d] /\ mq'[d][i] = mq[d][i] /\ Ordinary(mq[d][i])
      BY <1>2, <1>5, <1>7, <1>9, <2>2 DEF Ordinary
    <3>. QED BY <1>3, <1>6, <3>1 DEF InOrder
  <2>. QED BY <2>1, <2>2
<1>10. ASSUME NEW i \in DOMAIN mq'[d], NEW j \in DOMAIN mq'[d], i < j,
              Ordinary(mq[d][i])', Ordinary(mq[d][j])', mq'[d][i].src = mq'[d][j].src
       PROVE  mq'[d][i].no < mq'[d][j].no
  <2>1. i \in 1..n /\ j \in 1..n /\ i # n
    BY <1>5, <1>10
  <2>2. i \in DOMAIN mq[d] /\ mq'[d][i] = mq[d][i] /\ Ordinary(mq[d][i])
    BY <1>2, <1>5, <1>7, <1>10, <2>1 DEF Ordinary
  <2>3. CASE j = n
    <3>1. mq'[d][j] = msg[t] /\ Ordinary(msg[t])
      BY <1>5, <1>10, <2>3 DEF Ordinary
    <3>. QED BY <1>3, <1>8, <1>10, <2>2, <3>1 DEF InOrder
  <2>4. CASE j # n
    <3>1. j \in DOMAIN mq[d] /\ mq'[d][j] = mq[d][j] /\ Ordinary(mq[d][j])
      BY <1>2, <1>5, <1>7, <1>10, <2>1, <2>4 DEF Ordinary
    <3>. QED BY <1>3, <1>10, <2>2, <3>1 DEF InOrder
  <2>. QED BY <2>3, <2>4
<1>11. ASSUME NEW u \in Thread, OnItsWay(u, d)'
       PROVE  /\ last'[d][msg'[u].src] < msg'[u].no
              /\ \A i \in DOMAIN mq'[d] :
                   Ordinary(mq[d][i])' /\ mq'[d][i].src = msg'[u].src => mq'[d][i].no < msg'[u].no
  <2>1. u # t
    BY <1>6, <1>11 DEF OnItsWay
  <2>2. OnItsWay(u, d) /\ msg'[u] = msg[u] /\ InSend(u)
    <3>1. SameLocals(u)
      BY <1>0, <1>1, <1>11, <2>1, OthersKeep
    <3>. QED BY <1>11, <3>1 DEF SameLocals, OnItsWay, Ordinary, InSend
  <2>3. /\ last[d][msg[u].src] < msg[u].no
        /\ \A i \in DOMAIN mq[d] :
             Ordinary(mq[d][i]) /\ mq[d][i].src = msg[u].src => mq[d][i].no < msg[u].no
    BY <1>3, <2>2 DEF InOrder
  <2>4. ASSUME NEW i \in DOMAIN mq'[d], Ordinary(mq[d][i])', mq'[d][i].src = msg'[u].src
        PROVE  mq'[d][i].no < msg'[u].no
    <3>1. i # n
      <4>. SUFFICES ASSUME i = n
                    PROVE  FALSE
        OBVIOUS
      <4>1. Ordinary(msg[t]) /\ msg[t].src = msg[u].src
        BY <1>5, <2>2, <2>4 DEF Ordinary
      <4>2. Ordinary(msg[u]) /\ SendsAsOwner
        BY <2>2 DEF OnItsWay, Ordered
      <4>. QED BY <1>0, <2>1, <2>2, <4>1, <4>2, OneSender
    <3>2. i \in DOMAIN mq[d] /\ mq'[d][i] = mq[d][i] /\ Ordinary(mq[d][i])
      BY <1>2, <1>5, <1>7, <2>4, <3>1 DEF Ordinary
    <3>. QED BY <2>2, <2>3, <2>4, <3>2
  <2>. QED BY <1>6, <2>2, <2>3, <2>4
<1>. QED BY <1>9, <1>10, <1>11 DEF InOrder

\* Every step keeps the order.
LEMMA OrderedStep ==
    ASSUME Inv, Ordered, NEW t \in Thread, Step(t)
    PROVE  Ordered'
<1>1. Types /\ ControlOK /\ Effects(t) /\ Sends(t) /\ Delivers(t)
  BY TypeParts, StepEffects, StepSends, StepDelivers DEF Inv
<1>2. Inv'
  BY NextInv DEF Next, Step
<1>3. sent \in Nat /\ sent' \in Nat /\ sent <= sent'
  <2>1. sent \in Nat /\ sent' \in Nat
    BY <1>2 DEF Inv, TypeOK
  <2>2. sent' = sent \/ sent' = sent + 1
    BY <1>1 DEF Effects, Send, Kill, DropMessage, SendTo
  <2>. QED BY <2>1, <2>2
<1>4. \A u \in Thread : InSend(u)' =>
         \/ /\ InSend(u) /\ msg'[u] = msg[u]
            /\ Owned(u)' = Owned(u)
         \/ /\ msg'[u].no = sent'
            /\ Ordinary(msg[u])' => msg'[u].src \in Owned(u)'
  <2>. SUFFICES ASSUME NEW u \in Thread, InSend(u)'
                PROVE  \/ InSend(u) /\ msg'[u] = msg[u] /\ Owned(u)' = Owned(u)
                       \/ /\ msg'[u].no = sent'
                          /\ Ordinary(msg[u])' => msg'[u].src \in Owned(u)'
    BY Zenon
  <2>1. CASE u = t
    BY <1>1, <2>1, NewMessage DEF Delivers, Sends
  <2>2. CASE u # t
    <3>1. SameLocals(u) /\ Owned(u)' = Owned(u)
      BY <1>1, <2>2, OthersKeep, OthersOwn
    <3>. QED BY <3>1 DEF SameLocals, InSend
  <2>. QED BY <2>1, <2>2
<1>5. SendsAsOwner'
  BY <1>4 DEF Ordered, SendsAsOwner, Ordinary
<1>6. Numbered'
  <2>1. /\ \A u \in Thread : InSend(u) => msg[u].no \in Nat /\ msg[u].no <= sent
        /\ \A d \in Svc : \A i \in DOMAIN mq[d] : mq[d][i].no \in Nat /\ mq[d][i].no <= sent
        /\ \A d, s \in Svc : last[d][s] \in Nat /\ last[d][s] <= sent
    BY <1>1, MessageTypes DEF Ordered, Numbered, Types, NodeTypes
  <2>2. \A u \in Thread : InSend(u)' => msg'[u].no <= sent'
    BY <1>3, <1>4, <2>1
  <2>3. ASSUME NEW d \in Svc, NEW i \in DOMAIN mq'[d]
        PROVE  mq'[d][i].no <= sent'
    <3>1. \/ \E j \in DOMAIN mq[d] : mq'[d][i] = mq[d][j]
          \/ MqPush(t) /\ d = dst[t] /\ mq'[d][i] = msg[t]
      BY <1>1, QueueStep
    <3>2. MqPush(t) => InSend(t)
      BY DEF MqPush, InSend
    <3>. QED BY <1>3, <2>1, <3>1, <3>2
  <2>4. ASSUME NEW d \in Svc, NEW s \in Svc
        PROVE  last'[d][s] <= sent'
    <3>1. last'[d][s] = last[d][s] \/ (1 \in DOMAIN mq[d] /\ last'[d][s] = mq[d][1].no)
      BY <1>1, LastStep
    <3>. QED BY <1>3, <2>1, <3>1
  <2>. QED BY <2>2, <2>3, <2>4 DEF Numbered
<1>7. ASSUME NEW d \in Svc
      PROVE  InOrder(d)'
  BY OrderKept, PushOrder
<1>. QED BY <1>5, <1>6, <1>7 DEF Ordered

\* The order is an invariant.
LEMMA AlwaysOrdered == Spec => [](Inv /\ Ordered)
<1>1. ASSUME Init PROVE Ordered
  <2>1. \A t \in Thread : ~InSend(t)
    BY <1>1 DEF Init, InSend
  <2>2. \A d \in Svc : \A s \in Svc : last[d][s] = 0
    BY <1>1 DEF Init
  <2>3. ASSUME NEW d \in Svc, NEW i \in DOMAIN mq[d]
        PROVE  i = 1 /\ mq[d][i].no = 1 /\ mq[d][i].src = d
    <3>1. CASE d \in Boot
      <4>1. mq[d] = <<[src |-> d, no |-> 1, kind |-> "msg"]>>
        BY <1>1, <3>1 DEF Init
      <4>2. i = 1
        BY <2>3, <4>1
      <4>. QED BY <4>1, <4>2
    <3>2. CASE d \notin Boot
      <4>1. mq[d] = <<>>
        BY <1>1, <3>2 DEF Init
      <4>. QED BY <2>3, <4>1
    <3>. QED BY <3>1, <3>2
  <2>4. sent = 1
    BY <1>1 DEF Init
  <2>5. SendsAsOwner /\ Numbered
    BY <2>1, <2>2, <2>3, <2>4 DEF SendsAsOwner, Numbered
  <2>6. ASSUME NEW d \in Svc
        PROVE  InOrder(d)
    <3>1. \A t \in Thread : ~OnItsWay(t, d)
      BY <2>1 DEF OnItsWay, InSend
    <3>. QED BY <2>2, <2>3, <3>1 DEF InOrder
  <2>. QED BY <2>5, <2>6 DEF Ordered
<1>2. ASSUME Inv, Ordered, [Next]_vars
      PROVE  Ordered'
  <2>1. ASSUME UNCHANGED vars
        PROVE  Ordered'
    BY <1>2, <2>1 DEF vars, shared, mqVars, local, dispVars, sendVars, history,
        Ordered, SendsAsOwner, Numbered, InOrder, OnItsWay, Ordinary, InSend, Owned
  <2>. QED BY <1>2, <2>1, OrderedStep DEF Next, Step
<1>3. Inv /\ Ordered /\ [Next]_vars => Ordered'
  BY <1>2
<1>. QED BY <1>1, <1>3, Invariant, PTL DEF Spec

\* Messages from one service to another are dispatched in the order in which
\* they were sent and none of them twice, with any number of workers and however
\* often the destination's queue changes hands; a PTYPE_ERROR that reports a
\* dropped message comes after what the dead service has sent itself.
THEOREM SourceOrder == Spec => FifoPerSource
<1>. DEFINE Later(w) == LET d == q[w]
                             m == Head(mq[d])
                         IN  m.src # NULL /\ m.kind # "exit" => last[d][m.src] < m.no
<1>1. ASSUME Inv, Ordered, NEW w \in Worker, DispatchMessage(w)
      PROVE  Later(w)
  <2>1. Types /\ ControlOK /\ w \in Thread
    BY <1>1, TypeParts DEF Inv, Thread
  <2>2. q[w] \in Svc /\ mq[q[w]] # <<>>
    <3>1. LocalsOK(w)
      BY <1>1, <2>1, Locals DEF Inv
    <3>. QED BY <1>1, <3>1 DEF DispatchMessage, LocalsOK
  <2>3. PICK d \in Svc : d = q[w]
    BY <2>2
  <2>4. mq[d] \in Seq(Message) /\ mq[d] # <<>>
    BY <2>1, <2>2, <2>3, MessageTypes
  <2>5. Head(mq[d]) = mq[d][1] /\ 1 \in DOMAIN mq[d]
    BY <2>4, HeadTailProperties, LenProperties, EmptySeq
  <2>6. PICK m : m = mq[d][1]
    OBVIOUS
  <2>7. m.src \in Svc \cup {NULL}
    BY <2>1, <2>5, <2>6, MessageTypes
  <2>8. ASSUME m.src # NULL, m.kind # "exit"
        PROVE  last[d][m.src] < m.no
    <3>1. Ordinary(mq[d][1])
      BY <2>6, <2>7, <2>8 DEF Ordinary
    <3>. QED BY <1>1, <2>5, <2>6, <3>1 DEF Ordered, InOrder
  <2>. QED BY <2>3, <2>5, <2>6, <2>8
<1>. HIDE DEF Later
<1>2. Inv /\ Ordered /\ [Next]_vars
        => [\A w \in Worker : DispatchMessage(w) => Later(w)]_vars
  BY <1>1
<1>3. FifoPerSource <=> [][\A w \in Worker : DispatchMessage(w) => Later(w)]_vars
  BY DEF FifoPerSource, Later
<1>. QED BY <1>2, <1>3, AlwaysOrdered, PTL DEF Spec
=============================================================================
