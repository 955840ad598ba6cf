--------------------------- MODULE ServiceDispatch ---------------------------
(***************************************************************************)
(* The life of a service and of its message queue in one skynet process:   *)
(* skynet_server.c (contexts, launch, send, kill, dispatch), the parts of  *)
(* skynet_mq.c that several threads share (the global queue, in_global,    *)
(* release) and skynet_handle.c as the set of handles that resolve.        *)
(*                                                                         *)
(* A service is named by its handle.  A handle is used once here: the      *)
(* module HandleStorage is about how handles are allocated.  The ring      *)
(* buffer behind a queue is the module MessageQueue; here it is the        *)
(* sequence that module implements.                                        *)
(*                                                                         *)
(* Every step is what one thread does under one lock, or one atomic        *)
(* operation on a reference count; everything between two such steps may   *)
(* interleave with the other threads.                                      *)
(***************************************************************************)
EXTENDS Integers, Sequences, FiniteSets

CONSTANTS
    Svc,          \* the handles the process may use
    Worker,       \* worker threads (thread_worker)
    Outside,      \* the timer and socket threads, which only push messages
    Boot,         \* services running before the workers start
    Weight,       \* Weight[w]: how much of a queue worker w takes at a time
    MaxSend,      \* bound on the messages that are sent
    NULL

Thread == Worker \cup Outside

\* A message: its source (NULL for the timer and the socket thread), its place
\* in the order of all sends, and its kind: "msg", the PTYPE_ERROR of
\* drop_message, or the PTYPE_CLIENT notice of handle_exit.
Kind == {"msg", "err", "exit"}
Message == [src : Svc \cup {NULL}, no : Nat, kind : Kind]

\* Where a thread is.  "pop" to "rel" are skynet_context_message_dispatch, "cb"
\* the running callback, "send" to "sendrel" skynet_send, "create" to "lpush"
\* skynet_context_new, "retire" and "retrel" skynet_handle_retire, "mqrel" and
\* "drop" skynet_mq_release, "delete" delete_context, "out" an outside thread
\* between two pushes.
PC == {"pop", "grab", "first", "len", "more", "cb", "next", "back", "rel",
       "send", "push", "sendrel", "delete", "create", "init", "linit", "lpush",
       "retire", "retrel", "abort", "mqrel", "drop", "out"}

ASSUME ConstantsAssumption ==
    /\ IsFiniteSet(Svc) /\ IsFiniteSet(Worker) /\ IsFiniteSet(Outside)
    /\ Worker \cap Outside = {}
    /\ Boot \subseteq Svc
    /\ Weight \in [Worker -> -1..3]
    /\ NULL \notin Svc \cup PC
    /\ MaxSend \in Nat

VARIABLES
    slot,       \* handles that skynet_handle_grab resolves
    ctx,        \* "none", "live" or "freed": the memory of the context
    ref,        \* ctx->ref
    inited,     \* ctx->init
    mqmem,      \* "none", "live" or "freed": the memory of the message queue
    mq,         \* the messages in the queue
    in_global,  \* q->in_global
    release,    \* q->release
    globalmq,   \* the global queue, a list of message queues
    total,      \* G_NODE.total
    monitor_exit,  \* G_NODE.monitor_exit: the service told of every kill
    reserved,   \* the context kept by skynet_context_reserve (the harbor)
    pc,
    q,          \* the worker's current queue
    nq,         \* the queue popped while q is still to be pushed back
    held,       \* the context a dispatch has grabbed
    left,       \* messages this dispatch may still take
    born,       \* the context skynet_context_new is building
    dst,        \* destination of the current skynet_send
    msg,        \* its message
    sret,       \* where the current skynet_send returns to
    prey,       \* the handle being retired
    pret,       \* where the current skynet_handle_retire returns to
    gone,       \* the context being deleted
    dret,       \* where the current delete_context returns to
    dq,         \* the queue skynet_mq_release works on
    scan,       \* slots this pass of skynet_handle_retireall has not read yet
    found,      \* whether this pass has retired a service
    sent,       \* messages sent so far
    last        \* last[d][s]: number of the latest message of s dispatched by d

ctxVars  == <<ctx, ref, inited>>
mqVars   == <<mqmem, mq, in_global, release>>
nodeVars == <<total, monitor_exit, reserved>>
shared   == <<slot, ctxVars, mqVars, globalmq, nodeVars>>
dispVars == <<q, nq, held, left>>
sendVars == <<dst, msg, sret>>
killVars == <<prey, pret, scan, found>>
delVars  == <<gone, dret>>
local    == <<dispVars, sendVars, killVars, delVars, born, dq>>
history  == <<sent, last>>
vars == <<shared, pc, local, history>>

\* The process once skynet_start has launched the first services: each has its
\* handle's reference, its queue is in the global queue, and snlua's init has
\* sent the service its own start message.
Init ==
    /\ slot = Boot
    /\ ctx = [s \in Svc |-> IF s \in Boot THEN "live" ELSE "none"]
    /\ ref = [s \in Svc |-> IF s \in Boot THEN 1 ELSE 0]
    /\ inited = [s \in Svc |-> s \in Boot]
    /\ mqmem = [s \in Svc |-> IF s \in Boot THEN "live" ELSE "none"]
    /\ mq = [s \in Svc |-> IF s \in Boot
                           THEN <<[src |-> s, no |-> 1, kind |-> "msg"]>>
                           ELSE <<>>]
    /\ in_global = [s \in Svc |-> s \in Boot]
    /\ release = [s \in Svc |-> FALSE]
    /\ globalmq \in {g \in [1..Cardinality(Boot) -> Boot] :
                        \A i, j \in DOMAIN g : g[i] = g[j] => i = j}
    /\ total = Cardinality(Boot)
    /\ monitor_exit = NULL
    /\ reserved = {}
    /\ pc = [t \in Thread |-> IF t \in Worker THEN "pop" ELSE "out"]
    /\ q = [t \in Thread |-> NULL]
    /\ nq = [t \in Thread |-> NULL]
    /\ held = [t \in Thread |-> NULL]
    /\ left = [t \in Thread |-> 0]
    /\ born = [t \in Thread |-> NULL]
    /\ dst = [t \in Thread |-> NULL]
    /\ msg = [t \in Thread |-> NULL]
    /\ sret = [t \in Thread |-> NULL]
    /\ prey = [t \in Thread |-> NULL]
    /\ pret = [t \in Thread |-> NULL]
    /\ gone = [t \in Thread |-> NULL]
    /\ dret = [t \in Thread |-> NULL]
    /\ dq = [t \in Thread |-> NULL]
    /\ scan = [t \in Thread |-> {}]
    /\ found = [t \in Thread |-> FALSE]
    /\ sent = 1
    /\ last = [d \in Svc |-> [s \in Svc |-> 0]]

Goto(t, l) == pc' = [pc EXCEPT ![t] = l]

-----------------------------------------------------------------------------
(* Building blocks: what several operations share. *)

\* Mutant: delete_context when one reference is left, instead of none.
ContextRelease_early(t, s, l) ==
    /\ ref' = [ref EXCEPT ![s] = @ - 1]
    /\ IF ref[s] = 2
       THEN /\ gone' = [gone EXCEPT ![t] = s]
            /\ dret' = [dret EXCEPT ![t] = l]
            /\ Goto(t, "delete")
       ELSE /\ Goto(t, l)
            /\ UNCHANGED delVars

\* skynet_context_release: drop one reference; the thread that drops the last
\* one goes on to delete_context, the others continue at l.
ContextRelease(t, s, l) ==
    /\ ref' = [ref EXCEPT ![s] = @ - 1]
    /\ IF ref[s] = 1
       THEN /\ gone' = [gone EXCEPT ![t] = s]
            /\ dret' = [dret EXCEPT ![t] = l]
            /\ Goto(t, "delete")
       ELSE /\ Goto(t, l)
            /\ UNCHANGED delVars

\* Mutant: skynet_mq_mark_release only sets the flag.
MarkRelease_nopush(s) ==
    /\ release' = [release EXCEPT ![s] = TRUE]
    /\ UNCHANGED globalmq

\* skynet_mq_mark_release puts a queue that nobody is going to look at into the
\* global queue, so that a worker finds and drops it.
MarkRelease(s) ==
    /\ release' = [release EXCEPT ![s] = TRUE]
    /\ globalmq' = IF in_global[s] THEN globalmq ELSE Append(globalmq, s)

\* delete_context
DeleteContext(t) ==
    /\ pc[t] = "delete"
    /\ MarkRelease(gone[t])
    /\ ctx' = [ctx EXCEPT ![gone[t]] = "freed"]
    /\ total' = total - 1
    /\ gone' = [gone EXCEPT ![t] = NULL]
    /\ dret' = [dret EXCEPT ![t] = NULL]
    /\ Goto(t, dret[t])
    /\ UNCHANGED <<slot, ref, inited, mqmem, mq, in_global, monitor_exit,
                   reserved, dispVars, sendVars, killVars, born, dq, history>>

\* The start of skynet_send(source, destination): a new message for d, after
\* which the thread continues at l.
SendTo(t, s, d, k, l) ==
    /\ dst' = [dst EXCEPT ![t] = d]
    /\ msg' = [msg EXCEPT ![t] = [src |-> s, no |-> sent + 1, kind |-> k]]
    /\ sret' = [sret EXCEPT ![t] = l]
    /\ sent' = sent + 1
    /\ Goto(t, "send")

\* The end of skynet_send: nothing is pending, continue where it was called.
SendReturn(t) ==
    /\ dst' = [dst EXCEPT ![t] = NULL]
    /\ msg' = [msg EXCEPT ![t] = NULL]
    /\ sret' = [sret EXCEPT ![t] = NULL]

-----------------------------------------------------------------------------
(* skynet_context_message_dispatch: the worker's loop. *)

\* q == NULL: take the first queue of the global queue.
GlobalPop(w) ==
    /\ pc[w] = "pop"
    /\ globalmq # <<>>
    /\ q' = [q EXCEPT ![w] = Head(globalmq)]
    /\ globalmq' = Tail(globalmq)
    /\ Goto(w, "grab")
    /\ UNCHANGED <<slot, ctxVars, mqVars, nodeVars, nq, held, left, sendVars,
                   killVars, delVars, born, dq, history>>

\* skynet_handle_grab of the queue's handle; a queue whose service is gone goes
\* to skynet_mq_release.
DispatchGrab(w) ==
    /\ pc[w] = "grab"
    /\ IF q[w] \in slot
       THEN /\ ref' = [ref EXCEPT ![q[w]] = @ + 1]
            /\ held' = [held EXCEPT ![w] = q[w]]
            /\ Goto(w, "first")
            /\ UNCHANGED dq
       ELSE /\ dq' = [dq EXCEPT ![w] = q[w]]
            /\ Goto(w, "mqrel")
            /\ UNCHANGED <<ref, held>>
    /\ UNCHANGED <<slot, ctx, inited, mqVars, globalmq, nodeVars, q, nq, left,
                   sendVars, killVars, delVars, born, history>>

\* Mutant: skynet_mq_pop leaves in_global set.
DispatchEmpty_keepflag(w) ==
    /\ pc[w] \in {"first", "more"}
    /\ mq[q[w]] = <<>>
    /\ q' = [q EXCEPT ![w] = NULL]
    /\ left' = [left EXCEPT ![w] = 0]
    /\ Goto(w, "rel")
    /\ UNCHANGED <<slot, ctxVars, mqVars, globalmq, nodeVars, nq, held, sendVars,
                   killVars, delVars, born, dq, history>>

\* skynet_mq_pop finds the queue empty: the queue leaves the worker, and the
\* next skynet_mq_push puts it back into the global queue.
DispatchEmpty(w) ==
    /\ pc[w] \in {"first", "more"}
    /\ mq[q[w]] = <<>>
    /\ in_global' = [in_global EXCEPT ![q[w]] = FALSE]
    /\ q' = [q EXCEPT ![w] = NULL]
    /\ left' = [left EXCEPT ![w] = 0]
    /\ Goto(w, "rel")
    /\ UNCHANGED <<slot, ctxVars, mqmem, mq, release, globalmq, nodeVars, nq, held,
                   sendVars, killVars, delVars, born, dq, history>>

\* Mutant: skynet_mq_pop does not move head on.
DispatchMessage_again(w) ==
    /\ pc[w] \in {"first", "more"}
    /\ mq[q[w]] # <<>>
    /\ LET m == Head(mq[q[w]]) IN
        last' = IF m.src # NULL /\ m.kind # "exit"
                THEN [last EXCEPT ![q[w]][m.src] = m.no]
                ELSE last
    /\ left' = [left EXCEPT ![w] = IF pc[w] = "first" THEN 0 ELSE @ - 1]
    /\ Goto(w, IF pc[w] = "first" /\ Weight[w] >= 0 THEN "len" ELSE "cb")
    /\ UNCHANGED <<slot, ctxVars, mqVars, globalmq, nodeVars, q,
                   nq, held, sendVars, killVars, delVars, born, dq, sent>>

\* skynet_mq_pop returns a message and dispatch_message calls the callback.
DispatchMessage(w) ==
    /\ pc[w] \in {"first", "more"}
    /\ mq[q[w]] # <<>>
    /\ LET m == Head(mq[q[w]]) IN
        last' = IF m.src # NULL /\ m.kind # "exit"
                THEN [last EXCEPT ![q[w]][m.src] = m.no]
                ELSE last
    /\ mq' = [mq EXCEPT ![q[w]] = Tail(@)]
    /\ left' = [left EXCEPT ![w] = IF pc[w] = "first" THEN 0 ELSE @ - 1]
    /\ Goto(w, IF pc[w] = "first" /\ Weight[w] >= 0 THEN "len" ELSE "cb")
    /\ UNCHANGED <<slot, ctxVars, mqmem, in_global, release, globalmq, nodeVars, q,
                   nq, held, sendVars, killVars, delVars, born, dq, sent>>

\* Mutant: the count of messages still to take goes below zero.
DispatchLength_negative(w) ==
    /\ pc[w] = "len"
    /\ left' = [left EXCEPT ![w] = Len(mq[q[w]]) \div (2 ^ Weight[w]) - 1]
    /\ Goto(w, "cb")
    /\ UNCHANGED <<shared, q, nq, held, sendVars, killVars, delVars, born, dq,
                   history>>

\* After the first message a worker of weight >= 0 decides how many messages
\* this dispatch handles: length >> weight, the first one included.
DispatchLength(w) ==
    /\ pc[w] = "len"
    /\ LET n == Len(mq[q[w]]) \div (2 ^ Weight[w]) IN
        left' = [left EXCEPT ![w] = IF n > 1 THEN n - 1 ELSE 0]
    /\ Goto(w, "cb")
    /\ UNCHANGED <<shared, q, nq, held, sendVars, killVars, delVars, born, dq,
                   history>>

\* The callback returns.
CallbackReturn(w) ==
    /\ pc[w] = "cb"
    /\ Goto(w, IF left[w] > 0 THEN "more" ELSE "next")
    /\ UNCHANGED <<shared, local, history>>

\* All messages of this dispatch are done: keep q when no other queue waits.
DispatchNext(w) ==
    /\ pc[w] = "next"
    /\ IF globalmq = <<>>
       THEN /\ Goto(w, "rel")
            /\ UNCHANGED <<globalmq, nq>>
       ELSE /\ nq' = [nq EXCEPT ![w] = Head(globalmq)]
            /\ globalmq' = Tail(globalmq)
            /\ Goto(w, "back")
    /\ UNCHANGED <<slot, ctxVars, mqVars, nodeVars, q, held, left, sendVars,
                   killVars, delVars, born, dq, history>>

\* Push q back behind the others and go on with nq.
DispatchBack(w) ==
    /\ pc[w] = "back"
    /\ globalmq' = Append(globalmq, q[w])
    /\ q' = [q EXCEPT ![w] = nq[w]]
    /\ nq' = [nq EXCEPT ![w] = NULL]
    /\ Goto(w, "rel")
    /\ UNCHANGED <<slot, ctxVars, mqVars, nodeVars, held, left, sendVars, killVars,
                   delVars, born, dq, history>>

\* Release the context of this dispatch, and start the next dispatch.
DispatchRelease(w) ==
    /\ pc[w] = "rel"
    /\ ContextRelease(w, held[w], IF q[w] = NULL THEN "pop" ELSE "grab")
    /\ held' = [held EXCEPT ![w] = NULL]
    /\ UNCHANGED <<slot, ctx, inited, mqVars, globalmq, nodeVars, q, nq, left,
                   sendVars, killVars, born, dq, history>>

-----------------------------------------------------------------------------
(* skynet_send and skynet_context_push. *)

\* A callback, an init function or an outside thread sends to a service it has
\* heard of.
Send(t) ==
    /\ pc[t] \in {"cb", "init", "out"}
    /\ sent < MaxSend
    /\ \E d \in {s \in Svc : mqmem[s] # "none"} :
         SendTo(t, CASE pc[t] = "cb" -> held[t]
                     [] pc[t] = "init" -> born[t]
                     [] OTHER -> NULL,
                d, "msg", pc[t])
    /\ UNCHANGED <<shared, dispVars, killVars, delVars, born, dq, last>>

\* Mutant: skynet_handle_grab returns the context without a reference.
SendGrab_noref(t) ==
    /\ pc[t] = "send"
    /\ IF dst[t] \in slot
       THEN Goto(t, "push") /\ UNCHANGED sendVars
       ELSE Goto(t, sret[t]) /\ SendReturn(t)
    /\ UNCHANGED <<slot, ctxVars, mqVars, globalmq, nodeVars, dispVars,
                   killVars, delVars, born, dq, history>>

\* skynet_handle_grab of the destination; a message to a service that is gone
\* is freed.
SendGrab(t) ==
    /\ pc[t] = "send"
    /\ IF dst[t] \in slot
       THEN /\ ref' = [ref EXCEPT ![dst[t]] = @ + 1]
            /\ Goto(t, "push")
            /\ UNCHANGED sendVars
       ELSE /\ Goto(t, sret[t])
            /\ SendReturn(t)
            /\ UNCHANGED ref
    /\ UNCHANGED <<slot, ctx, inited, mqVars, globalmq, nodeVars, dispVars,
                   killVars, delVars, born, dq, history>>

\* Mutant: skynet_mq_push does not look at in_global.
MqPush_always(t) ==
    /\ pc[t] = "push"
    /\ mq' = [mq EXCEPT ![dst[t]] = Append(@, msg[t])]
    /\ in_global' = [in_global EXCEPT ![dst[t]] = TRUE]
    /\ globalmq' = Append(globalmq, dst[t])
    /\ Goto(t, "sendrel")
    /\ UNCHANGED <<slot, ctxVars, mqmem, release, nodeVars, local, history>>

\* skynet_mq_push: a queue that was idle enters the global queue.
MqPush(t) ==
    /\ pc[t] = "push"
    /\ LET d == dst[t] IN
        /\ mq' = [mq EXCEPT ![d] = Append(@, msg[t])]
        /\ in_global' = [in_global EXCEPT ![d] = TRUE]
        /\ globalmq' = IF in_global[d] THEN globalmq ELSE Append(globalmq, d)
    /\ Goto(t, "sendrel")
    /\ UNCHANGED <<slot, ctxVars, mqmem, release, nodeVars, local, history>>

SendRelease(t) ==
    /\ pc[t] = "sendrel"
    /\ ContextRelease(t, dst[t], sret[t])
    /\ SendReturn(t)
    /\ UNCHANGED <<slot, ctx, inited, mqVars, globalmq, nodeVars, dispVars,
                   killVars, born, dq, history>>

-----------------------------------------------------------------------------
(* skynet_context_new, called by a callback (cmd_launch). *)

\* skynet_handle_register: the context has two references, the handle's and
\* the creator's.
Launch(w) ==
    /\ pc[w] = "cb"
    /\ \E s \in {x \in Svc : ctx[x] = "none"} :
        /\ ctx' = [ctx EXCEPT ![s] = "live"]
        /\ ref' = [ref EXCEPT ![s] = 2]
        /\ slot' = slot \cup {s}
        /\ born' = [born EXCEPT ![w] = s]
    /\ Goto(w, "create")
    /\ UNCHANGED <<inited, mqVars, globalmq, nodeVars, dispVars, sendVars, killVars,
                   delVars, dq, history>>

\* Mutant: a new queue is not marked as in the global queue.
MqCreate_idle(w) ==
    /\ pc[w] = "create"
    /\ mqmem' = [mqmem EXCEPT ![born[w]] = "live"]
    /\ total' = total + 1
    /\ Goto(w, "init")
    /\ UNCHANGED <<slot, ctxVars, mq, in_global, release, globalmq, monitor_exit,
                   reserved, local, history>>

\* skynet_mq_create: in_global is set although the queue is not there yet, so
\* that no push puts it there before the service has been initialised.
MqCreate(w) ==
    /\ pc[w] = "create"
    /\ mqmem' = [mqmem EXCEPT ![born[w]] = "live"]
    /\ in_global' = [in_global EXCEPT ![born[w]] = TRUE]
    /\ total' = total + 1
    /\ Goto(w, "init")
    /\ UNCHANGED <<slot, ctxVars, mq, release, globalmq, monitor_exit, reserved,
                   local, history>>

\* Mutant: skynet_context_reserve without context_dec.
Reserve_counted(w) ==
    /\ pc[w] = "init"
    /\ reserved = {}
    /\ reserved' = {born[w]}
    /\ ref' = [ref EXCEPT ![born[w]] = @ + 1]
    /\ UNCHANGED <<slot, ctx, inited, mqVars, globalmq, total, monitor_exit, pc,
                   local, history>>

\* skynet_context_reserve, called once by the init function of the harbor: a
\* reference that is dropped after the workers have ended, and a context that
\* G_NODE.total does not count.
Reserve(w) ==
    /\ pc[w] = "init"
    /\ reserved = {}
    /\ reserved' = {born[w]}
    /\ ref' = [ref EXCEPT ![born[w]] = @ + 1]
    /\ total' = total - 1
    /\ UNCHANGED <<slot, ctx, inited, mqVars, globalmq, monitor_exit, pc, local,
                   history>>

\* Mutant: the queue is pushed without ctx->init = true.
InitSucceeds_noflag(w) ==
    /\ pc[w] = "init"
    /\ ContextRelease(w, born[w], "lpush")
    /\ UNCHANGED <<slot, ctx, inited, mqVars, globalmq, nodeVars, dispVars,
                   sendVars, killVars, born, dq, history>>

\* skynet_module_instance_init succeeds: the creator's reference goes, and if
\* it was not the last one the service may run.
InitSucceeds(w) ==
    /\ pc[w] = "init"
    /\ ContextRelease(w, born[w], IF ref[born[w]] = 1 THEN "lpush" ELSE "linit")
    /\ UNCHANGED <<slot, ctx, inited, mqVars, globalmq, nodeVars, dispVars,
                   sendVars, killVars, born, dq, history>>

\* ctx->init = true, without a reference: the context may have been freed since.
SetInit(w) ==
    /\ pc[w] = "linit"
    /\ inited' = [inited EXCEPT ![born[w]] = TRUE]
    /\ Goto(w, "lpush")
    /\ UNCHANGED <<slot, ctx, ref, mqVars, globalmq, nodeVars, local, history>>

\* skynet_globalmq_push: whether or not the service is still alive, its queue
\* has to be found by a worker.
LaunchPush(w) ==
    /\ pc[w] = "lpush"
    /\ globalmq' = Append(globalmq, born[w])
    /\ born' = [born EXCEPT ![w] = NULL]
    /\ Goto(w, "cb")
    /\ UNCHANGED <<slot, ctxVars, mqVars, nodeVars, dispVars, sendVars, killVars,
                   delVars, dq, history>>

\* skynet_module_instance_init fails: release the context, retire the handle
\* and release the queue.
InitFails(w) ==
    /\ pc[w] = "init"
    /\ ContextRelease(w, born[w], "retire")
    /\ prey' = [prey EXCEPT ![w] = born[w]]
    /\ pret' = [pret EXCEPT ![w] = "mqrel"]
    /\ dq' = [dq EXCEPT ![w] = born[w]]
    /\ born' = [born EXCEPT ![w] = NULL]
    /\ UNCHANGED <<slot, ctx, inited, mqVars, globalmq, nodeVars, dispVars,
                   sendVars, scan, found, history>>

-----------------------------------------------------------------------------
(* handle_exit (EXIT, KILL), skynet_handle_retire, retireall (ABORT). *)

\* cmd_exit and cmd_kill: tell the monitor service, then retire the handle.
Kill(w) ==
    /\ pc[w] = "cb"
    /\ \E s \in {x \in Svc : mqmem[x] # "none"} :
        /\ prey' = [prey EXCEPT ![w] = s]
        /\ pret' = [pret EXCEPT ![w] = "cb"]
        /\ IF monitor_exit = NULL
           THEN /\ Goto(w, "retire")
                /\ UNCHANGED <<sendVars, sent>>
           ELSE /\ sent < MaxSend
                /\ SendTo(w, s, monitor_exit, "exit", "retire")
    /\ UNCHANGED <<shared, dispVars, scan, found, delVars, born, dq, last>>

\* cmd_monitor names the service to be told.
Monitor(w) ==
    /\ pc[w] = "cb"
    /\ monitor_exit' \in {x \in Svc : mqmem[x] # "none"}
    /\ UNCHANGED <<slot, ctxVars, mqVars, globalmq, total, reserved, pc, local,
                   history>>

\* Under the write lock the slot is cleared; the handle's reference is
\* released after the unlock.
Retire(t) ==
    /\ pc[t] = "retire"
    /\ IF prey[t] \in slot
       THEN /\ slot' = slot \ {prey[t]}
            /\ found' = [found EXCEPT ![t] = pret[t] = "abort"]
            /\ Goto(t, "retrel")
            /\ UNCHANGED <<prey, pret>>
       ELSE /\ Goto(t, pret[t])
            /\ prey' = [prey EXCEPT ![t] = NULL]
            /\ pret' = [pret EXCEPT ![t] = NULL]
            /\ UNCHANGED <<slot, found>>
    /\ UNCHANGED <<ctxVars, mqVars, globalmq, nodeVars, dispVars, sendVars, scan,
                   delVars, born, dq, history>>

RetireRelease(t) ==
    /\ pc[t] = "retrel"
    /\ ContextRelease(t, prey[t], pret[t])
    /\ prey' = [prey EXCEPT ![t] = NULL]
    /\ pret' = [pret EXCEPT ![t] = NULL]
    /\ UNCHANGED <<slot, ctx, inited, mqVars, globalmq, nodeVars, dispVars,
                   sendVars, scan, found, born, dq, history>>

\* cmd_abort: skynet_handle_retireall starts a pass over all slots.
Abort(w) ==
    /\ pc[w] = "cb"
    /\ scan' = [scan EXCEPT ![w] = Svc]
    /\ found' = [found EXCEPT ![w] = FALSE]
    /\ Goto(w, "abort")
    /\ UNCHANGED <<shared, dispVars, sendVars, prey, pret, delVars, born, dq,
                   history>>

\* One iteration of the pass: read a slot under the read lock, and retire the
\* service that was there after the lock is released.
AbortStep(w) ==
    /\ pc[w] = "abort"
    /\ \E s \in scan[w] :
        /\ scan' = [scan EXCEPT ![w] = @ \ {s}]
        /\ IF s \in slot
           THEN /\ prey' = [prey EXCEPT ![w] = s]
                /\ pret' = [pret EXCEPT ![w] = "abort"]
                /\ Goto(w, "retire")
           ELSE UNCHANGED <<prey, pret, pc>>
    /\ UNCHANGED <<shared, dispVars, sendVars, found, delVars, born, dq, history>>

\* The pass is over: another one follows unless this one retired nothing.
AbortPass(w) ==
    /\ pc[w] = "abort"
    /\ scan[w] = {}
    /\ IF found[w]
       THEN /\ scan' = [scan EXCEPT ![w] = Svc]
            /\ found' = [found EXCEPT ![w] = FALSE]
            /\ UNCHANGED pc
       ELSE /\ Goto(w, "cb")
            /\ UNCHANGED <<scan, found>>
    /\ UNCHANGED <<shared, dispVars, sendVars, prey, pret, delVars, born, dq,
                   history>>

-----------------------------------------------------------------------------
(* skynet_mq_release and _drop_queue. *)

\* skynet_mq_release was called by the dispatch of q, or by a failed launch.
ReleaseReturn(t) ==
    /\ dq' = [dq EXCEPT ![t] = NULL]
    /\ IF dq[t] = q[t]
       THEN q' = [q EXCEPT ![t] = NULL] /\ Goto(t, "pop")
       ELSE UNCHANGED q /\ Goto(t, "cb")

\* Mutant: skynet_mq_release drops a queue whose context is still alive.
MqRelease_drop(t) ==
    /\ pc[t] = "mqrel"
    /\ Goto(t, "drop")
    /\ UNCHANGED <<shared, local, history>>

\* Mutant: skynet_mq_release forgets a queue whose context is still alive.
MqRelease_forget(t) ==
    /\ pc[t] = "mqrel"
    /\ IF release[dq[t]] THEN Goto(t, "drop") /\ UNCHANGED <<q, dq>>
                         ELSE ReleaseReturn(t)
    /\ UNCHANGED <<shared, nq, held, left, sendVars, killVars, delVars, born,
                   history>>

\* A queue whose context is not deleted yet goes back to the global queue.
MqRelease(t) ==
    /\ pc[t] = "mqrel"
    /\ IF release[dq[t]]
       THEN /\ Goto(t, "drop")
            /\ UNCHANGED <<globalmq, q, dq>>
       ELSE /\ globalmq' = Append(globalmq, dq[t])
            /\ ReleaseReturn(t)
    /\ UNCHANGED <<slot, ctxVars, mqVars, nodeVars, nq, held, left, sendVars,
                   killVars, delVars, born, history>>

\* drop_message: report PTYPE_ERROR, in the name of the dead service, to the
\* source of the message.  (skynet_send to handle 0 does nothing.)
DropMessage(t) ==
    /\ pc[t] = "drop"
    /\ mq[dq[t]] # <<>>
    /\ mq' = [mq EXCEPT ![dq[t]] = Tail(@)]
    /\ LET m == Head(mq[dq[t]]) IN
        IF m.src = NULL
        THEN UNCHANGED <<pc, sendVars, sent>>
        ELSE SendTo(t, dq[t], m.src, "err", "drop")
    /\ UNCHANGED <<slot, ctxVars, mqmem, in_global, release, globalmq, nodeVars,
                   dispVars, killVars, delVars, born, dq, last>>

\* The queue is empty: _release frees it.
DropEnd(t) ==
    /\ pc[t] = "drop"
    /\ mq[dq[t]] = <<>>
    /\ in_global' = [in_global EXCEPT ![dq[t]] = FALSE]
    /\ mqmem' = [mqmem EXCEPT ![dq[t]] = "freed"]
    /\ ReleaseReturn(t)
    /\ UNCHANGED <<slot, ctxVars, mq, release, globalmq, nodeVars, nq, held, left,
                   sendVars, killVars, delVars, born, history>>

-----------------------------------------------------------------------------

\* What a thread does once it has begun something.
Continue(t) ==
    \/ GlobalPop(t) \/ DispatchGrab(t) \/ DispatchEmpty(t) \/ DispatchMessage(t)
    \/ DispatchLength(t) \/ DispatchNext(t) \/ DispatchBack(t)
    \/ DispatchRelease(t) \/ SendGrab(t) \/ MqPush(t) \/ SendRelease(t)
    \/ MqCreate(t) \/ SetInit(t) \/ LaunchPush(t) \/ Retire(t)
    \/ RetireRelease(t) \/ AbortStep(t) \/ AbortPass(t) \/ MqRelease(t)
    \/ DropMessage(t) \/ DropEnd(t) \/ DeleteContext(t)

\* What callbacks, init functions and outside threads choose to do.
Choose(t) ==
    Send(t) \/ Launch(t) \/ Reserve(t) \/ Kill(t) \/ Monitor(t) \/ Abort(t)

InitEnds(t) == InitSucceeds(t) \/ InitFails(t)

Next == \E t \in Thread : \/ Continue(t) \/ Choose(t)
                          \/ CallbackReturn(t) \/ InitEnds(t)

\* Threads keep running, and callbacks and init functions return.
Fairness == \A t \in Thread : /\ WF_vars(Continue(t))
                              /\ SF_vars(CallbackReturn(t))
                              /\ SF_vars(InitEnds(t))

Spec == Init /\ [][Next]_vars
FairSpec == Spec /\ Fairness

-----------------------------------------------------------------------------
(* Properties. *)

\* Every variable has its type (struct skynet_context, struct message_queue and
\* the locals of the functions above).
TypeOK ==
    /\ slot \subseteq Svc
    /\ ctx \in [Svc -> {"none", "live", "freed"}]
    /\ ref \in [Svc -> Int]
    /\ inited \in [Svc -> BOOLEAN]
    /\ mqmem \in [Svc -> {"none", "live", "freed"}]
    /\ mq \in [Svc -> Seq(Message)]
    /\ in_global \in [Svc -> BOOLEAN]
    /\ release \in [Svc -> BOOLEAN]
    /\ globalmq \in Seq(Svc)
    /\ total \in Int
    /\ monitor_exit \in Svc \cup {NULL}
    /\ reserved \subseteq Svc
    /\ pc \in [Thread -> PC]
    /\ q \in [Thread -> Svc \cup {NULL}]
    /\ nq \in [Thread -> Svc \cup {NULL}]
    /\ held \in [Thread -> Svc \cup {NULL}]
    /\ left \in [Thread -> Nat]
    /\ born \in [Thread -> Svc \cup {NULL}]
    /\ dst \in [Thread -> Svc \cup {NULL}]
    /\ msg \in [Thread -> Message \cup {NULL}]
    /\ sret \in [Thread -> PC \cup {NULL}]
    /\ prey \in [Thread -> Svc \cup {NULL}]
    /\ pret \in [Thread -> PC \cup {NULL}]
    /\ gone \in [Thread -> Svc \cup {NULL}]
    /\ dret \in [Thread -> PC \cup {NULL}]
    /\ dq \in [Thread -> Svc \cup {NULL}]
    /\ scan \in [Thread -> SUBSET Svc]
    /\ found \in [Thread -> BOOLEAN]
    /\ sent \in Nat
    /\ last \in [Svc -> [Svc -> Nat]]

\* The queues only thread t may touch the list links of: the one it dispatches,
\* the next one, the one it releases, and the one it is launching.
Owned(t) == {q[t], nq[t], dq[t], born[t]} \ {NULL}

\* A message queue is in the global queue at most once, and not at all while a
\* thread owns it, and no two threads own the same queue.  This is what makes
\* assert(queue->next == NULL) of skynet_globalmq_push hold, for every push of
\* skynet_mq_push, mark_release, mq_release, context_new and message_dispatch.
QueueExclusive ==
    /\ \A i, j \in DOMAIN globalmq : globalmq[i] = globalmq[j] => i = j
    /\ \A t \in Thread, i \in DOMAIN globalmq : globalmq[i] \notin Owned(t)
    /\ \A t, u \in Thread : t # u => Owned(t) \cap Owned(u) = {}
    /\ \A t \in Thread : q[t] # NULL => q[t] # nq[t]

\* No queue is lost: a queue that holds messages, or whose service has been
\* deleted, is in the global queue or owned by a thread, until it is freed.
QueueNotLost ==
    \A s \in Svc :
        /\ mqmem[s] = "live"
        /\ mq[s] # <<>> \/ in_global[s] \/ release[s]
        => \/ \E i \in DOMAIN globalmq : globalmq[i] = s
           \/ \E t \in Thread : s \in Owned(t)

\* The worker is inside the callback of the service held[w], or inside a send,
\* a launch, a kill or an abort that the callback has called.
InCallback(w) ==
    held[w] # NULL /\ pc[w] \notin {"first", "len", "more", "next", "back", "rel"}

\* The callback of a service runs in one worker at a time (the promise every
\* service is written against), whatever the callback is in the middle of.
SerialDispatch ==
    \A t, u \in Worker :
        (InCallback(t) /\ InCallback(u) /\ held[t] = held[u]) => t = u

\* skynet_context_new has not released the creator's reference yet.
Creating(t) == pc[t] \notin {"linit", "lpush"} /\ dret[t] # "lpush"

\* A reference on the context of s is held by its slot in the handle storage,
\* by the reservation, by the thread t that creates s, or by a thread t between
\* a grab and a release: of its dispatch, of its send, of its retire.
RefKind == {"slot", "reserve", "born", "held", "dst", "prey"}

Holds(k, t, s) ==
    \/ k = "slot" /\ t = NULL /\ s \in slot
    \/ k = "reserve" /\ t = NULL /\ s \in reserved
    \/ /\ t \in Thread
       /\ \/ k = "born" /\ born[t] = s /\ Creating(t)
          \/ k = "held" /\ held[t] = s
          \/ k = "dst" /\ dst[t] = s /\ pc[t] \in {"push", "sendrel"}
          \/ k = "prey" /\ prey[t] = s /\ pc[t] = "retrel"

Owners(s) == {o \in RefKind \X (Thread \cup {NULL}) : Holds(o[1], o[2], s)}

\* ctx->ref counts the references that exist, so that delete_context runs when
\* the last one goes, and not before: nobody leaks or doubly drops a reference
\* on any path through launch, send, dispatch, kill and abort.
RefCounted ==
    \A s \in Svc : ctx[s] = "live" => ref[s] = Cardinality(Owners(s))

\* No reference is held on a context whose memory is gone, and a thread reaches
\* a queue only while its memory is there.  (skynet_context_new uses the context
\* after it has released it, SetInit: that access rests on no reference.)
NoDangling ==
    /\ \A s \in Svc : ctx[s] # "live" => Owners(s) = {}
    /\ \A t \in Thread : \A s \in {q[t], nq[t], dq[t]} \ {NULL} : mqmem[s] = "live"
    /\ \A t \in Thread : pc[t] = "push" => mqmem[dst[t]] = "live"
    /\ \A i \in DOMAIN globalmq : mqmem[globalmq[i]] = "live"

\* assert(ctx->init) in dispatch_message: no message is dispatched to a service
\* before its launch has completed.
DispatchInited == \A t \in Worker : pc[t] = "cb" => inited[held[t]]

\* assert(q->release == 0) in skynet_mq_mark_release: a context is deleted once,
\* and its queue is still there to be marked.
DeletedOnce ==
    \A t \in Thread : pc[t] = "delete" =>
        /\ ~release[gone[t]]
        /\ ctx[gone[t]] = "live" /\ ref[gone[t]] = 0
        /\ mqmem[gone[t]] = "live"

\* G_NODE.total counts the contexts that are not reserved: CHECK_ABORT stops the
\* threads (total is 0) only when no such service is left.
TotalCounts ==
    total = Cardinality({s \in Svc : ctx[s] = "live" /\ mqmem[s] # "none"})
            - Cardinality(reserved)

\* A message that is taken to be dispatched was sent after every message of the same
\* service that was dispatched here before: messages from one service to another
\* are dispatched in the order of their sends, and none of them twice, the
\* PTYPE_ERROR of a dropped message included.  The exit message for the monitor is
\* not: the thread that retires a service sends it, while the service may still run.
FifoPerSource ==
    [][\A w \in Worker : DispatchMessage(w) =>
          LET d == q[w]
              m == Head(mq[d])
          IN  m.src # NULL /\ m.kind # "exit" => last[d][m.src] < m.no]_vars

\* Every queue is drained again and again: no message waits for ever while the
\* workers run, not even one that was sent to a service on its way out.  (The
\* queue of the reserved harbor is given back until the process ends.)
MessagesDrained ==
    \A s \in Svc : []<>(mq[s] = <<>> \/ s \in reserved \ slot)

\* A service that has been retired is deleted and its queue is freed, unless
\* it is reserved: whoever drops the last reference, some worker gets the queue.
RetiredReclaimed ==
    \A s \in Svc :
        (ctx[s] # "none" /\ s \notin slot)
            ~> ((ctx[s] = "freed" /\ mqmem[s] = "freed") \/ s \in reserved)
=============================================================================
