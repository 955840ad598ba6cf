---------------------------- MODULE HandleStorage ----------------------------
(***************************************************************************)
(* The handle storage H of skynet_handle.c: the hash table from handles to *)
(* contexts, and the sorted array of local names.  Every operation runs    *)
(* under the storage's read/write lock and is one step; what a thread does *)
(* with the result comes after the unlock.  Two windows matter:            *)
(*   - skynet_context_new stores the handle in the context after           *)
(*     skynet_handle_register has returned (skynet_server.c:155);          *)
(*   - skynet_handle_retireall reads a slot and retires the handle it has  *)
(*     seen after it has released the lock.                                *)
(* A context that has been retired may be launched again: it stands for a  *)
(* new context.                                                            *)
(***************************************************************************)
EXTENDS Integers, Sequences, FiniteSets, SequencesExt

CONSTANTS
    Ctx,                \* contexts
    Launcher,           \* threads that launch services
    Aborter,            \* threads that run skynet_handle_retireall
    Name,               \* names, as integers ordered like strcmp
    HANDLE_MASK,        \* 0xffffff in the code
    DEFAULT_SLOT_SIZE,  \* 4 in the code
    Harbor,             \* the harbor id in the high bits of every handle
    NULL

\* HANDLE_MASK + 1 is a power of two (twice a proper divisor of it divides it too),
\* and so is every size of the table.
ASSUME StorageAssumption ==
    /\ HANDLE_MASK \in Nat \ {0} /\ DEFAULT_SLOT_SIZE \in 2..(HANDLE_MASK + 1)
    /\ \A s \in 1..HANDLE_MASK :
          (HANDLE_MASK + 1) % s = 0 => (HANDLE_MASK + 1) % (2 * s) = 0
    /\ (HANDLE_MASK + 1) % DEFAULT_SLOT_SIZE = 0
    /\ Harbor \in Nat /\ Harbor % (HANDLE_MASK + 1) = 0
    /\ Name \subseteq Int
    /\ Launcher \cap Aborter = {}
    /\ NULL \notin Ctx \cup [c : Ctx, h : Nat]

Thread == Launcher \cup Aborter

VARIABLES
    slot_size,
    slot,          \* [0 .. slot_size - 1 -> Ctx or NULL]
    handle_index,
    handle,        \* ctx->handle, 0 until skynet_context_new stores it
    name,          \* sorted array of [name, handle]
    failed,        \* how the process has aborted, "no" while it runs
    pc,
    reg,           \* what skynet_handle_register gave this launcher: [c, h]
    seen,          \* the handle skynet_handle_retireall has read
    index,         \* the slot it reads next
    n,             \* the number of services this pass has retired
    late           \* contexts that this pass of retireall may miss

store == <<slot_size, slot, handle_index, handle, name, failed>>
pass  == <<seen, index, n, late>>
vars  == <<store, pc, reg, pass>>

\* skynet_handle_init
Init ==
    /\ slot_size = DEFAULT_SLOT_SIZE
    /\ slot = [i \in 0..(slot_size - 1) |-> NULL]
    /\ handle_index = 1
    /\ handle = [c \in Ctx |-> 0]
    /\ name = <<>>
    /\ failed = "no"
    /\ pc = [t \in Thread |-> "idle"]
    /\ reg = [t \in Launcher |-> NULL]
    /\ seen = [t \in Aborter |-> 0]
    /\ index = [t \in Aborter |-> 0]
    /\ n = [t \in Aborter |-> 0]
    /\ late = [t \in Aborter |-> {}]

Registered == {slot[i] : i \in DOMAIN slot} \ {NULL}

\* Contexts that skynet_context_new has not stored the handle of yet.
InWindow == {reg[t].c : t \in {u \in Launcher : reg[u] # NULL}}

Hash(h, size) == h % size

\* The handle that the i-th iteration of the register loop tries: 0 is reserved.
Candidate(i) == ((handle_index + i - 1) % HANDLE_MASK) + 1

\* Mutant: the loop stops one slot short.
FreeAt_short(sl, size) ==
    {i \in 0..(size - 2) : sl[Hash(Candidate(i), size)] = NULL}

FreeAt(sl, size) ==
    {i \in 0..(size - 1) : sl[Hash(Candidate(i), size)] = NULL}

\* Where the context in slot i goes when the table doubles.
NewHash(i) == Hash(handle[slot[i]], 2 * slot_size)

\* Mutant: the contexts stay at their old indices.
Rehashed_inplace ==
    [j \in 0..(2 * slot_size - 1) |-> IF j < slot_size THEN slot[j] ELSE NULL]

\* The table of twice the size, every context in the slot of its handle.
Rehashed ==
    [j \in 0..(2 * slot_size - 1) |->
        LET here == {i \in DOMAIN slot : NewHash(i) = j}
        IN  IF here = {} THEN NULL ELSE slot[CHOOSE i \in here : TRUE]]

\* The slots at which the copying loop stops the process: an empty slot, whose
\* context's handle it reads, or a context whose new slot is taken.
Bad(i) == \/ slot[i] = NULL
          \/ \E j \in 0..(i - 1) : slot[j] # NULL /\ NewHash(j) = NewHash(i)
FirstBad ==
    {i \in DOMAIN slot : Bad(i) /\ \A j \in 0..(i - 1) : ~Bad(j)}

\* How RegisterExpand fails: the two assertions and the read of an empty slot.
Failure ==
    IF 2 * slot_size - 1 > HANDLE_MASK THEN "limit"
    ELSE IF FirstBad = {} THEN "no"
    ELSE IF \E i \in FirstBad : slot[i] = NULL THEN "empty"
    ELSE "collision"

\* Put c into the first free slot of table sl, whose handle the caller gets.
Place(t, c, sl, size) ==
    LET free == FreeAt(sl, size)
        i == CHOOSE k \in free : \A j \in free : k <= j
        h == Candidate(i)
    IN  /\ slot' = [sl EXCEPT ![Hash(h, size)] = c]
        /\ handle_index' = h + 1
        /\ reg' = [reg EXCEPT ![t] = [c |-> c, h |-> h + Harbor]]

\* A new context may be missed by every pass of retireall that is under way.
MayMiss(c) == late' = [k \in Aborter |-> IF pc[k] = "idle" THEN late[k]
                                        ELSE late[k] \cup {c}]

\* skynet_handle_register when a slot is free.
Register(t) ==
    /\ pc[t] = "idle" /\ failed = "no"
    /\ FreeAt(slot, slot_size) # {}
    /\ \E c \in Ctx \ (Registered \cup InWindow) :
        /\ handle' = [handle EXCEPT ![c] = 0]
        /\ Place(t, c, slot, slot_size)
        /\ MayMiss(c)
    /\ pc' = [pc EXCEPT ![t] = "store"]
    /\ UNCHANGED <<slot_size, name, failed, seen, index, n>>

\* skynet_handle_register when the loop finds no free slot: double the table and
\* try again.
RegisterExpand(t) ==
    /\ pc[t] = "idle" /\ failed = "no"
    /\ FreeAt(slot, slot_size) = {}
    /\ \E c \in Ctx \ (Registered \cup InWindow) :
        IF Failure # "no"
        THEN /\ failed' = Failure
             /\ UNCHANGED <<slot_size, slot, handle_index, handle, reg, pc, late>>
        ELSE /\ slot_size' = 2 * slot_size
             /\ handle' = [handle EXCEPT ![c] = 0]
             /\ Place(t, c, Rehashed, 2 * slot_size)
             /\ MayMiss(c)
             /\ pc' = [pc EXCEPT ![t] = "store"]
             /\ UNCHANGED failed
    /\ UNCHANGED <<name, seen, index, n>>

\* ctx->handle = skynet_handle_register(ctx)
StoreHandle(t) ==
    /\ pc[t] = "store" /\ failed = "no"
    /\ handle' = [handle EXCEPT ![reg[t].c] = reg[t].h]
    /\ reg' = [reg EXCEPT ![t] = NULL]
    /\ pc' = [pc EXCEPT ![t] = "idle"]
    /\ UNCHANGED <<slot_size, slot, handle_index, name, failed, pass>>

-----------------------------------------------------------------------------

\* skynet_handle_grab, without the reference it takes.
Grab(h) ==
    LET c == slot[Hash(h, slot_size)]
    IN  IF c # NULL /\ handle[c] = h THEN c ELSE NULL

\* The loop of skynet_handle_retire over the name array: entry by entry, what it keeps.
NamesWithout(h) ==
    LET keep[i \in 0..Len(name)] ==
          IF i = 0 THEN <<>>
          ELSE IF name[i].handle = h THEN keep[i - 1]
          ELSE Append(keep[i - 1], name[i])
    IN  keep[Len(name)]

\* skynet_handle_retire: clear the slot and close the gaps in the name array.
RetireHandle(h) ==
    IF h # 0 /\ Grab(h) # NULL
    THEN /\ slot' = [slot EXCEPT ![Hash(h, slot_size)] = NULL]
         /\ name' = NamesWithout(h)
    ELSE UNCHANGED <<slot, name>>

\* The handles that services have been told.
Known == {handle[c] : c \in Ctx} \ {0}

\* cmd_kill and cmd_exit, in any thread
Retire ==
    /\ failed = "no"
    /\ \E h \in Known : RetireHandle(h)
    /\ UNCHANGED <<slot_size, handle_index, handle, failed, pc, reg, pass>>

\* Mutant: the first pass starts at slot 1.
RetireAll_from1(k) ==
    /\ pc[k] = "idle" /\ failed = "no"
    /\ index' = [index EXCEPT ![k] = 1]
    /\ n' = [n EXCEPT ![k] = 0]
    /\ late' = [late EXCEPT ![k] = InWindow]
    /\ pc' = [pc EXCEPT ![k] = "scan"]
    /\ UNCHANGED <<store, reg, seen>>

\* skynet_handle_retireall, called by cmd_abort.  A context in the window of
\* skynet_context_new has no handle to retire it by.
RetireAll(k) ==
    /\ pc[k] = "idle" /\ failed = "no"
    /\ index' = [index EXCEPT ![k] = 0]
    /\ n' = [n EXCEPT ![k] = 0]
    /\ late' = [late EXCEPT ![k] = InWindow]
    /\ pc' = [pc EXCEPT ![k] = "scan"]
    /\ UNCHANGED <<store, reg, seen>>

\* Read one slot under the read lock.
ScanSlot(k) ==
    /\ pc[k] = "scan" /\ failed = "no"
    /\ index[k] < slot_size
    /\ LET c == slot[index[k]] IN
        IF c # NULL /\ handle[c] # 0
        THEN /\ seen' = [seen EXCEPT ![k] = handle[c]]
             /\ pc' = [pc EXCEPT ![k] = "seen"]
        ELSE UNCHANGED <<seen, pc>>
    /\ index' = [index EXCEPT ![k] = @ + 1]
    /\ UNCHANGED <<store, reg, n, late>>

\* Retire the handle that was read.
RetireSeen(k) ==
    /\ pc[k] = "seen" /\ failed = "no"
    /\ RetireHandle(seen[k])
    /\ n' = [n EXCEPT ![k] = IF Grab(seen[k]) # NULL THEN 1 ELSE @]
    /\ seen' = [seen EXCEPT ![k] = 0]
    /\ pc' = [pc EXCEPT ![k] = "scan"]
    /\ UNCHANGED <<slot_size, handle_index, handle, failed, reg, index, late>>

\* The end of a pass: start another one unless this one has retired nothing.
PassEnd(k) ==
    /\ pc[k] = "scan" /\ failed = "no"
    /\ index[k] >= slot_size
    /\ index' = [index EXCEPT ![k] = 0]
    /\ n' = [n EXCEPT ![k] = 0]
    /\ IF n[k] > 0
       THEN /\ late' = [late EXCEPT ![k] = InWindow]
            /\ UNCHANGED pc
       ELSE /\ pc' = [pc EXCEPT ![k] = "done"]
            /\ UNCHANGED late
    /\ UNCHANGED <<store, reg, seen>>

\* retireall returns to cmd_abort.
RetireAllReturn(k) ==
    /\ pc[k] = "done" /\ failed = "no"
    /\ pc' = [pc EXCEPT ![k] = "idle"]
    /\ late' = [late EXCEPT ![k] = {}]
    /\ UNCHANGED <<store, reg, seen, index, n>>

-----------------------------------------------------------------------------
(* Names. *)

\* Mutant: the loop ends one turn early (begin < end).
BinarySearch_strict(x) ==
    LET look[k \in 0..Len(name)] ==
          IF k = 0 THEN [begin |-> 0, end |-> Len(name) - 1, found |-> FALSE]
          ELSE LET r == look[k - 1]
                   mid == (r.begin + r.end) \div 2
               IN  IF r.found \/ r.begin >= r.end THEN r
                   ELSE IF name[mid + 1].name = x
                        THEN [begin |-> mid, end |-> r.end, found |-> TRUE]
                   ELSE IF name[mid + 1].name < x
                        THEN [begin |-> mid + 1, end |-> r.end, found |-> FALSE]
                   ELSE [begin |-> r.begin, end |-> mid - 1, found |-> FALSE]
    IN  look[Len(name)]

\* The binary search of skynet_handle_findname and _insert_name over the array
\* from begin to end: [at, found], at the index (from 0) where x is or belongs.
\* Each turn of the loop halves the range, so Len(name) turns are more than enough.
BinarySearch(x) ==
    LET look[k \in 0..Len(name)] ==
          \* the state of the loop after k turns
          IF k = 0 THEN [begin |-> 0, end |-> Len(name) - 1, found |-> FALSE]
          ELSE LET r == look[k - 1]
                   mid == (r.begin + r.end) \div 2
               IN  IF r.found \/ r.begin > r.end THEN r
                   ELSE IF name[mid + 1].name = x
                        THEN [begin |-> mid, end |-> r.end, found |-> TRUE]
                   ELSE IF name[mid + 1].name < x
                        THEN [begin |-> mid + 1, end |-> r.end, found |-> FALSE]
                   ELSE [begin |-> r.begin, end |-> mid - 1, found |-> FALSE]
    IN  look[Len(name)]

\* skynet_handle_findname
FindName(x) ==
    LET r == BinarySearch(x)
    IN  IF r.found THEN name[r.begin + 1].handle ELSE 0

\* skynet_handle_namehandle (REG and NAME): a name that is taken stays as it is.
\* The handle is not looked up: it may be that of a service that is gone.
NameHandle ==
    /\ failed = "no"
    /\ \E x \in Name, h \in Known :
        LET r == BinarySearch(x)
        IN  name' = IF r.found THEN name
                    ELSE InsertAt(name, r.begin + 1, [name |-> x, handle |-> h])
    /\ UNCHANGED <<slot_size, slot, handle_index, handle, failed, pc, reg, pass>>

-----------------------------------------------------------------------------

Next ==
    \/ \E t \in Launcher : Register(t) \/ RegisterExpand(t) \/ StoreHandle(t)
    \/ \E k \in Aborter : \/ RetireAll(k) \/ ScanSlot(k) \/ RetireSeen(k)
                          \/ PassEnd(k) \/ RetireAllReturn(k)
    \/ Retire \/ NameHandle

Spec == Init /\ [][Next]_vars

-----------------------------------------------------------------------------
(* Properties. *)

\* Every field of struct handle_storage has its type.
TypeOK ==
    /\ slot_size \in 1..(HANDLE_MASK + 1)
    /\ slot \in [0..(slot_size - 1) -> Ctx \cup {NULL}]
    /\ handle_index \in 1..(HANDLE_MASK + 1)
    /\ handle \in [Ctx -> {0} \cup {h + Harbor : h \in 1..HANDLE_MASK}]
    /\ \A i \in DOMAIN name : name[i].name \in Name /\ name[i].handle \in Nat
    /\ failed \in {"no", "limit", "empty", "collision"}
    /\ pc \in [Thread -> {"idle", "store", "scan", "seen", "done"}]

\* A service that is registered and knows its handle is found under it: neither
\* the wrap of handle_index nor the doubling of the table hides a service or
\* gives two services the same handle.
Resolvable ==
    TypeOK /\ \A c \in Registered : handle[c] # 0 => Grab(handle[c]) = c

\* The name array is strictly sorted, so that the binary search finds every
\* name that is there and no other, after any mix of inserts and of the
\* compaction in skynet_handle_retire.
NamesFound ==
    /\ \A i, j \in DOMAIN name : i < j => name[i].name < name[j].name
    /\ \A i \in DOMAIN name : FindName(name[i].name) = name[i].handle
    /\ \A x \in Name : (\A i \in DOMAIN name : name[i].name # x) => FindName(x) = 0

\* When skynet_handle_retireall returns, every service that is still registered
\* was registered, or had not stored its handle, while its last pass ran.
RetireAllComplete ==
    \A k \in Aborter : pc[k] = "done" => Registered \subseteq late[k]

\* Registering stops the process only where the limit of the handle space has
\* been reached, or where the loop steps over handle 0 (the wrap at HANDLE_MASK)
\* and so takes a table for full that is not.
FailsOnlyAtLimits ==
    failed # "no" => \/ failed = "limit"
                     \/ failed = "empty" /\ handle_index + slot_size - 1 > HANDLE_MASK

\* assert(new_slot[hash] == NULL) in skynet_handle_register: doubling the table
\* never moves two contexts into one slot.
RehashAssertion == failed # "collision"
=============================================================================
