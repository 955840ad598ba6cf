------------------------ MODULE HandleStorageProofs ------------------------
(***************************************************************************)
(* Proofs about the handle storage.                                        *)
(***************************************************************************)
EXTENDS HandleStorage, TLAPS, FiniteSetTheorems, SequenceTheorems

-----------------------------------------------------------------------------
(* Numbers. *)

\* A set of natural numbers that is not empty has a least element.
LEMMA Least ==
    ASSUME NEW X \in SUBSET Nat, X # {}
    PROVE  \E x \in X : \A y \in X : x <= y
<1>. DEFINE T == {0..x : x \in X}
            R == StrictSubsetOrdering(Nat)
<1>1. T \subseteq FiniteSubsetsOf(Nat)
  <2>1. ASSUME NEW x \in X PROVE 0..x \in SUBSET Nat /\ IsFiniteSet(0..x)
    BY FS_Interval
  <2>. QED BY <2>1 DEF FiniteSubsetsOf
<1>2. IsWellFoundedOn(R, FiniteSubsetsOf(Nat))
  BY FS_StrictSubsetOrderingWellFounded
<1>3. PICK t \in T : \A u \in T : <<u, t>> \notin R
  <2>1. T # {}
    OBVIOUS
  <2>. HIDE DEF T, R
  <2>. QED BY <1>1, <1>2, <2>1, WFMin
<1>4. PICK x \in X : t = 0..x
  BY <1>3
<1>5. ASSUME NEW y \in X PROVE x <= y
  <2>1. SUFFICES ASSUME y < x PROVE FALSE
    BY SMT
  <2>2. 0..y \in T
    OBVIOUS
  <2>3. 0..y \subseteq 0..x /\ 0..y # 0..x
    <3>1. x \in 0..x /\ x \notin 0..y
      BY <2>1
    <3>2. 0..y \subseteq 0..x
      BY <2>1
    <3>. QED BY <3>1, <3>2
  <2>4. 0..y \subseteq Nat /\ 0..x \subseteq Nat
    OBVIOUS
  <2>5. <<0..y, 0..x>> \in R
    BY <2>3, <2>4 DEF StrictSubsetOrdering
  <2>. QED BY <1>3, <1>4, <2>2, <2>5
<1>. QED BY <1>5

\* Division with remainder.
LEMMA Euclid ==
    ASSUME NEW h \in Nat, NEW s \in Nat \ {0}
    PROVE  \E q \in Nat, r \in 0..(s - 1) : h = s * q + r /\ h % s = r
<1>1. h = (s * (h \div s)) + (h % s) /\ h \div s \in Nat /\ (h % s) \in 0..(s - 1)
  OBVIOUS
<1>. QED BY <1>1

LEMMA Remainder ==
    ASSUME NEW s \in Nat \ {0}, NEW q \in Int, NEW r \in 0..(s - 1)
    PROVE  (s * q + r) % s = r
  OBVIOUS

LEMMA Divides ==
    ASSUME NEW h \in Nat, NEW s \in Nat \ {0}, h % s = 0
    PROVE  \E q \in Nat : h = s * q
<1>1. PICK q \in Nat, r \in 0..(s - 1) : h = s * q + r /\ h % s = r
  BY Euclid
<1>2. r = 0
  BY <1>1
<1>. QED BY <1>1, <1>2

LEMMA HashRange ==
    ASSUME NEW h \in Nat, NEW s \in Nat \ {0}
    PROVE  Hash(h, s) \in 0..(s - 1)
  BY DEF Hash

\* Where a handle goes when the table doubles.
LEMMA HashDouble ==
    ASSUME NEW h \in Nat, NEW s \in Nat \ {0}
    PROVE  Hash(h, 2 * s) \in {Hash(h, s), Hash(h, s) + s}
<1>1. 2 * s \in Nat \ {0}
  OBVIOUS
<1>2. PICK q \in Nat, r \in 0..(2 * s - 1) : h = (2 * s) * q + r /\ h % (2 * s) = r
  BY <1>1, Euclid
<1>3. CASE r < s
  <2>1. h = s * (2 * q) + r
    BY <1>2
  <2>2. (s * (2 * q) + r) % s = r
    BY <1>3, Remainder
  <2>. QED BY <1>2, <2>1, <2>2 DEF Hash
<1>4. CASE r >= s
  <2>. DEFINE p == 2 * q + 1
              o == r - s
  <2>1. p \in Int /\ o \in 0..(s - 1)
    BY <1>4
  <2>2. h = s * p + o
    BY <1>2
  <2>3. r = o + s
    OBVIOUS
  <2>. HIDE DEF p, o
  <2>4. (s * p + o) % s = o
    BY <2>1, Remainder
  <2>. QED BY <1>2, <2>2, <2>3, <2>4 DEF Hash
<1>. QED BY <1>3, <1>4

\* The harbor's bits do not change the slot of a handle.
LEMMA HashHarbor ==
    ASSUME NEW h \in Nat, NEW s \in Nat \ {0}, (HANDLE_MASK + 1) % s = 0
    PROVE  Hash(h + Harbor, s) = Hash(h, s)
<1>1. HANDLE_MASK + 1 \in Nat \ {0} /\ Harbor \in Nat /\ Harbor % (HANDLE_MASK + 1) = 0
  BY StorageAssumption
<1>2. PICK a \in Nat : Harbor = (HANDLE_MASK + 1) * a
  BY <1>1, Divides
<1>3. PICK p \in Nat : HANDLE_MASK + 1 = s * p
  BY <1>1, Divides
<1>4. PICK q \in Nat, r \in 0..(s - 1) : h = s * q + r /\ h % s = r
  BY Euclid
<1>5. h + Harbor = s * (q + p * a) + r
  <2>1. Harbor = s * (p * a)
    BY <1>2, <1>3
  <2>2. p * a \in Nat
    OBVIOUS
  <2>. QED BY <1>4, <2>1, <2>2
<1>6. (s * (q + p * a) + r) % s = r
  <2>1. q + p * a \in Int
    OBVIOUS
  <2>. QED BY <2>1, Remainder
<1>. QED BY <1>4, <1>5, <1>6 DEF Hash

\* The candidates of the register loop reach every slot if it does not wrap ...
LEMMA ReachesAll ==
    ASSUME handle_index \in 1..(HANDLE_MASK + 1), NEW s \in Nat \ {0},
           handle_index + s - 1 <= HANDLE_MASK, NEW j \in 0..(s - 1)
    PROVE  \E i \in 0..(s - 1) : Hash(Candidate(i), s) = j
<1>0. HANDLE_MASK \in Nat \ {0}
  BY StorageAssumption
<1>1. PICK q \in Nat, r \in 0..(s - 1) : handle_index = s * q + r
  <2>1. handle_index \in Nat
    OBVIOUS
  <2>. QED BY <2>1, Euclid
<1>2. ASSUME NEW i \in 0..(s - 1) PROVE Candidate(i) = handle_index + i
  <2>. DEFINE o == handle_index + i - 1
  <2>1. o \in 0..(HANDLE_MASK - 1)
    BY <1>0
  <2>2. o % HANDLE_MASK = o
    <3>. HIDE DEF o
    <3>1. (HANDLE_MASK * 0 + o) % HANDLE_MASK = o
      BY <1>0, <2>1, Remainder
    <3>. QED BY <1>0, <2>1, <3>1
  <2>. QED BY <2>2 DEF Candidate
<1>3. CASE j >= r
  <2>1. j - r \in 0..(s - 1) /\ handle_index + (j - r) = s * q + j
    BY <1>1, <1>3
  <2>2. (s * q + j) % s = j
    BY Remainder
  <2>. QED BY <1>2, <2>1, <2>2 DEF Hash
<1>4. CASE j < r
  <2>. DEFINE i == j - r + s
              p == q + 1
  <2>1. i \in 0..(s - 1) /\ handle_index + i = s * p + j /\ p \in Int
    BY <1>1, <1>4
  <2>. HIDE DEF i, p
  <2>2. (s * p + j) % s = j
    BY <2>1, Remainder
  <2>. QED BY <1>2, <2>1, <2>2 DEF Hash
<1>. QED BY <1>3, <1>4

\* ... and every slot but that of handle 0 if it does.
LEMMA ReachesMost ==
    ASSUME handle_index \in 1..(HANDLE_MASK + 1), NEW s \in 1..(HANDLE_MASK + 1),
           (HANDLE_MASK + 1) % s = 0, NEW j \in 1..(s - 1)
    PROVE  \E i \in 0..(s - 1) : Hash(Candidate(i), s) = j
<1>0. HANDLE_MASK \in Nat \ {0} /\ s \in Nat \ {0}
  BY StorageAssumption
<1>1. CASE handle_index + s - 1 <= HANDLE_MASK
  BY <1>0, <1>1, ReachesAll
<1>2. CASE handle_index + s - 1 > HANDLE_MASK
  <2>. DEFINE k == HANDLE_MASK + 1 - handle_index
  <2>1. k \in 0..(s - 1)
    BY <1>0, <1>2
  <2>2. PICK p \in Nat : HANDLE_MASK + 1 = s * p
    <3>1. HANDLE_MASK + 1 \in Nat
      BY <1>0
    <3>. QED BY <1>0, <3>1, Divides
  <2>3. CASE j >= s - k
    <3>. DEFINE i == j - (s - k)
                o == handle_index + i - 1
                m == p - 1
    <3>1. i \in 0..(s - 1) /\ o \in 0..(HANDLE_MASK - 1) /\ m \in Int
      BY <1>0, <2>1, <2>3
    <3>2. o + 1 = HANDLE_MASK + 1 - s + j
      BY <1>0
    <3>3. HANDLE_MASK + 1 - s = s * m
      BY <1>0, <2>2
    <3>4. o + 1 = s * m + j /\ Candidate(i) = (o % HANDLE_MASK) + 1
      BY <3>1, <3>2, <3>3 DEF Candidate
    <3>. HIDE DEF i, o, m
    <3>5. (HANDLE_MASK * 0 + o) % HANDLE_MASK = o
      BY <1>0, <3>1, Remainder
    <3>6. Candidate(i) = o + 1
      BY <1>0, <3>1, <3>4, <3>5
    <3>7. (s * m + j) % s = j
      BY <1>0, <3>1, Remainder
    <3>. QED BY <3>1, <3>4, <3>6, <3>7 DEF Hash
  <2>4. CASE j < s - k
    <3>. DEFINE i == k + (j - 1)
                o == j - 1
    <3>1. i \in 0..(s - 1) /\ o \in 0..(HANDLE_MASK - 1) /\ o + 1 = j
      BY <1>0, <2>1, <2>4
    <3>2. handle_index + i - 1 = HANDLE_MASK * 1 + o
      BY <1>0
    <3>3. Candidate(i) = ((HANDLE_MASK * 1 + o) % HANDLE_MASK) + 1
      BY <3>2 DEF Candidate
    <3>. HIDE DEF i, o
    <3>4. Candidate(i) = j
      BY <1>0, <3>1, <3>3, Remainder
    <3>5. (s * 0 + j) % s = j
      BY <1>0, Remainder
    <3>. QED BY <1>0, <3>1, <3>4, <3>5 DEF Hash
  <2>. QED BY <1>0, <2>1, <2>3, <2>4
<1>. QED BY <1>0, <1>1, <1>2

-----------------------------------------------------------------------------
(* Types. *)

Handle == {h + Harbor : h \in 1..HANDLE_MASK}
Entry  == [name : Name, handle : Nat]

Table(sl, size) == sl \in [0..(size - 1) -> Ctx \cup {NULL}]

SizeOK(size) ==
    /\ size \in 2..(HANDLE_MASK + 1)
    /\ (HANDLE_MASK + 1) % size = 0

StoreTypes ==
    /\ SizeOK(slot_size) /\ Table(slot, slot_size)
    /\ handle_index \in 1..(HANDLE_MASK + 1)
    /\ handle \in [Ctx -> {0} \cup Handle]
    /\ failed \in {"no", "limit", "empty", "collision"}

\* A launcher has a handle to store, and a context to store it in, until it has.
LauncherTypes ==
    /\ reg \in [Launcher -> {NULL} \cup [c : Ctx, h : Handle]]
    /\ pc \in [Thread -> {"idle", "store", "scan", "seen", "done"}]
    /\ \A t \in Launcher : pc[t] = IF reg[t] = NULL THEN "idle" ELSE "store"

AborterTypes ==
    /\ \A k \in Aborter : pc[k] # "store"
    /\ seen \in [Aborter -> {0} \cup Handle]
    /\ index \in [Aborter -> Nat]
    /\ n \in [Aborter -> {0, 1}]
    /\ late \in [Aborter -> SUBSET Ctx]

Types == StoreTypes /\ LauncherTypes /\ AborterTypes

LEMMA HandleTypes == Handle \subseteq Nat \ {0}
  BY StorageAssumption DEF Handle

LEMMA NullTypes == NULL \notin Ctx /\ NULL \notin [c : Ctx, h : Handle]
  BY HandleTypes, StorageAssumption

LEMMA Sizes == ASSUME NEW size, SizeOK(size) PROVE size \in Nat \ {0}
  BY StorageAssumption DEF SizeOK

LEMMA Candidates ==
    ASSUME handle_index \in 1..(HANDLE_MASK + 1), NEW i \in Nat
    PROVE  Candidate(i) \in 1..HANDLE_MASK
<1>1. HANDLE_MASK \in Nat \ {0} /\ handle_index + i - 1 \in Nat
  BY StorageAssumption
<1>. DEFINE o == handle_index + i - 1
<1>2. o \in Nat
  BY <1>1
<1>. HIDE DEF o
<1>3. (o % HANDLE_MASK) \in 0..(HANDLE_MASK - 1)
  BY <1>1, <1>2
<1>. QED BY <1>1, <1>3 DEF Candidate, o

\* What Place does: it finds the first free slot.
LEMMA Placement ==
    ASSUME NEW t \in Launcher, NEW c \in Ctx, NEW sl, NEW size,
           SizeOK(size), Table(sl, size), handle_index \in 1..(HANDLE_MASK + 1),
           FreeAt(sl, size) # {}, Place(t, c, sl, size)
    PROVE  \E h \in 1..HANDLE_MASK :
              /\ Hash(h, size) \in 0..(size - 1) /\ sl[Hash(h, size)] = NULL
              /\ slot' = [sl EXCEPT ![Hash(h, size)] = c]
              /\ handle_index' = h + 1
              /\ reg' = [reg EXCEPT ![t] = [c |-> c, h |-> h + Harbor]]
              /\ Hash(h + Harbor, size) = Hash(h, size)
<1>1. size \in Nat \ {0} /\ (HANDLE_MASK + 1) % size = 0 /\ HANDLE_MASK \in Nat
  BY Sizes, StorageAssumption DEF SizeOK
<1>. DEFINE free == FreeAt(sl, size)
            i == CHOOSE k \in free : \A j \in free : k <= j
<1>2. free \in SUBSET Nat /\ free \subseteq 0..(size - 1)
  BY <1>1 DEF FreeAt
<1>3. \E k \in free : \A j \in free : k <= j
  <2>1. free # {}
    OBVIOUS
  <2>. HIDE DEF free
  <2>. QED BY <1>2, <2>1, Least
<1>4. i \in free
  <2>. HIDE DEF free
  <2>. QED BY <1>3
<1>5. PICK h : h = Candidate(i)
  OBVIOUS
<1>6. /\ slot' = [sl EXCEPT ![Hash(h, size)] = c]
      /\ handle_index' = h + 1
      /\ reg' = [reg EXCEPT ![t] = [c |-> c, h |-> h + Harbor]]
  BY <1>5 DEF Place
<1>7. i \in Nat /\ sl[Hash(h, size)] = NULL
  BY <1>2, <1>4, <1>5 DEF FreeAt
<1>. HIDE DEF i, free
<1>8. h \in 1..HANDLE_MASK
  BY <1>5, <1>7, Candidates
<1>9. h \in Nat
  BY <1>1, <1>8
<1>. QED BY <1>1, <1>6, <1>7, <1>8, <1>9, HashRange, HashHarbor

\* The sizes of the table.
LEMMA Doubled ==
    ASSUME SizeOK(slot_size), 2 * slot_size - 1 <= HANDLE_MASK
    PROVE  SizeOK(2 * slot_size)
<1>1. HANDLE_MASK \in Nat /\ slot_size \in 1..HANDLE_MASK
  BY StorageAssumption DEF SizeOK
<1>2. (HANDLE_MASK + 1) % (2 * slot_size) = 0
  BY <1>1, StorageAssumption DEF SizeOK
<1>3. 2 * slot_size \in 2..(HANDLE_MASK + 1)
  BY <1>1
<1>. QED BY <1>2, <1>3 DEF SizeOK

\* The copying loop has not stopped: every slot is taken, and no two contexts
\* go to one slot.
LEMMA NoBad ==
    ASSUME SizeOK(slot_size), Table(slot, slot_size), FirstBad = {}
    PROVE  \A i \in DOMAIN slot : ~Bad(i)
<1>. DEFINE X == {i \in DOMAIN slot : Bad(i)}
<1>1. DOMAIN slot = 0..(slot_size - 1) /\ slot_size \in Nat \ {0}
  BY Sizes DEF Table
<1>2. ASSUME X # {} PROVE FALSE
  <2>1. X \in SUBSET Nat
    BY <1>1
  <2>2. PICK i \in X : \A j \in X : i <= j
    <3>. HIDE DEF X
    <3>. QED BY <1>2, <2>1, Least
  <2>3. i \in DOMAIN slot /\ Bad(i)
    OBVIOUS
  <2>4. ASSUME NEW j \in 0..(i - 1) PROVE ~Bad(j)
    <3>1. j \in DOMAIN slot /\ j < i
      BY <1>1, <2>3
    <3>2. Bad(j) => i <= j
      BY <2>2, <3>1
    <3>. QED BY <1>1, <2>3, <3>1, <3>2
  <2>5. i \in FirstBad
    BY <2>3, <2>4 DEF FirstBad
  <2>. QED BY <2>5
<1>. QED BY <1>2

LEMMA Copied ==
    ASSUME SizeOK(slot_size), Table(slot, slot_size), FirstBad = {}
    PROVE  /\ \A i \in DOMAIN slot : slot[i] # NULL
           /\ \A i, j \in DOMAIN slot : NewHash(i) = NewHash(j) => i = j
<1>1. DOMAIN slot = 0..(slot_size - 1) /\ slot_size \in Nat \ {0}
  BY Sizes DEF Table
<1>2. \A i \in DOMAIN slot : ~Bad(i)
  BY NoBad
<1>3. \A i \in DOMAIN slot : slot[i] # NULL
  BY <1>2 DEF Bad
<1>4. ASSUME NEW i \in DOMAIN slot, NEW j \in DOMAIN slot, j < i
      PROVE  NewHash(i) # NewHash(j)
  <2>1. j \in 0..(i - 1)
    BY <1>1, <1>4
  <2>. QED BY <1>2, <1>3, <2>1 DEF Bad
<1>5. \A i, j \in DOMAIN slot : i < j \/ i = j \/ j < i
  BY <1>1
<1>. QED BY <1>3, <1>4, <1>5

\* The copied table: it holds the contexts of the old one at their new places, and
\* half of its slots at least are free, one of them not the slot of handle 0.
LEMMA RehashedTable ==
    ASSUME StoreTypes, FirstBad = {}
    PROVE  /\ Table(Rehashed, 2 * slot_size)
           /\ \A j \in 0..(2 * slot_size - 1) : Rehashed[j] # NULL =>
                \E i \in DOMAIN slot : slot[i] = Rehashed[j] /\ NewHash(i) = j
<1>1. Rehashed = [j \in 0..(2 * slot_size - 1) |-> Rehashed[j]]
  BY DEF Rehashed
<1>2. ASSUME NEW j \in 0..(2 * slot_size - 1)
      PROVE  \/ Rehashed[j] = NULL
             \/ \E i \in DOMAIN slot : slot[i] = Rehashed[j] /\ NewHash(i) = j
  <2>. DEFINE here == {i \in DOMAIN slot : NewHash(i) = j}
  <2>1. Rehashed[j] = IF here = {} THEN NULL ELSE slot[CHOOSE i \in here : TRUE]
    BY DEF Rehashed
  <2>2. here = {} \/ \E i \in here : i = CHOOSE k \in here : TRUE
    OBVIOUS
  <2>. QED BY <2>1, <2>2
<1>3. \A i \in DOMAIN slot : slot[i] \in Ctx \cup {NULL}
  BY DEF StoreTypes, Table
<1>4. \A j \in 0..(2 * slot_size - 1) : Rehashed[j] \in Ctx \cup {NULL}
  BY <1>2, <1>3
<1>. QED BY <1>1, <1>2, <1>4 DEF Table

LEMMA RehashedFree ==
    ASSUME StoreTypes, FirstBad = {}, SizeOK(2 * slot_size)
    PROVE  FreeAt(Rehashed, 2 * slot_size) # {}
<1>. DEFINE s == slot_size
<1>0. s \in Nat /\ s >= 2 /\ DOMAIN slot = 0..(s - 1) /\ HANDLE_MASK \in Nat
  BY StorageAssumption DEF StoreTypes, SizeOK, Table
<1>1. \E j \in 1..(2 * s - 1) : Rehashed[j] = NULL
  <2>1. SUFFICES ASSUME \A j \in 1..(2 * s - 1) : Rehashed[j] # NULL PROVE FALSE
    OBVIOUS
  <2>2. \A j \in 1..(2 * s - 1) : \E i \in 0..(s - 1) : NewHash(i) = j
    BY <1>0, <2>1, RehashedTable
  <2>. DEFINE f == [j \in 1..(2 * s - 1) |-> CHOOSE i \in 0..(s - 1) : NewHash(i) = j]
  <2>3. \A j \in 1..(2 * s - 1) : f[j] \in 0..(s - 1) /\ NewHash(f[j]) = j
    BY <2>2
  <2>4. f \in [1..(2 * s - 1) -> 0..(s - 1)]
    BY <2>3
  <2>. HIDE DEF f
  <2>5. /\ IsFiniteSet(0..(s - 1)) /\ Cardinality(0..(s - 1)) = s
        /\ IsFiniteSet(1..(2 * s - 1)) /\ Cardinality(1..(2 * s - 1)) = 2 * s - 1
    BY <1>0, FS_Interval
  <2>6. Cardinality(0..(s - 1)) < Cardinality(1..(2 * s - 1))
    BY <1>0, <2>5
  <2>7. \E x, y \in 1..(2 * s - 1) : x # y /\ f[x] = f[y]
    BY <2>4, <2>5, <2>6, FS_PigeonHole
  <2>. QED BY <2>3, <2>7
<1>2. PICK j \in 1..(2 * s - 1) : Rehashed[j] = NULL
  BY <1>1
<1>3. 2 * s \in 1..(HANDLE_MASK + 1) /\ (HANDLE_MASK + 1) % (2 * s) = 0
  BY <1>0 DEF SizeOK
<1>4. PICK z : z = 2 * s
  OBVIOUS
<1>. HIDE DEF s
<1>5. \E i \in 0..(z - 1) : Hash(Candidate(i), z) = j
  BY <1>2, <1>3, <1>4, ReachesMost DEF StoreTypes
<1>. QED BY <1>2, <1>4, <1>5 DEF FreeAt, s

\* Registering places the context in a table that has a slot for it: the old one
\* or its copy of twice the size.
Placing(t, c, sl, size) ==
    /\ pc[t] = "idle" /\ failed = "no"
    /\ c \in Ctx \ (Registered \cup InWindow)
    /\ SizeOK(size) /\ Table(sl, size) /\ FreeAt(sl, size) # {}
    /\ slot_size' = size
    /\ handle' = [handle EXCEPT ![c] = 0]
    /\ Place(t, c, sl, size)
    /\ MayMiss(c)
    /\ pc' = [pc EXCEPT ![t] = "store"]
    /\ UNCHANGED <<name, failed, seen, index, n>>

LEMMA RegisterPlaces ==
    ASSUME Types, NEW t \in Launcher, Register(t)
    PROVE  \E c \in Ctx : Placing(t, c, slot, slot_size)
<1>. QED BY DEF Types, StoreTypes, Register, Placing

\* If it does not, the process stops.
Stops(t) ==
    /\ failed = "no" /\ FreeAt(slot, slot_size) = {}
    /\ Failure # "no" /\ failed' = Failure
    /\ UNCHANGED <<slot_size, slot, handle_index, handle, reg, pc, late, name, seen,
                   index, n>>

LEMMA ExpandPlaces ==
    ASSUME Types, NEW t \in Launcher, RegisterExpand(t)
    PROVE  \/ Stops(t)
           \/ /\ FirstBad = {}
              /\ \E c \in Ctx : Placing(t, c, Rehashed, 2 * slot_size)
<1>1. PICK c \in Ctx \ (Registered \cup InWindow) :
        IF Failure # "no"
        THEN /\ failed' = Failure
             /\ UNCHANGED <<slot_size, slot, handle_index, handle, reg, pc, late>>
        ELSE /\ slot_size' = 2 * slot_size
             /\ handle' = [handle EXCEPT ![c] = 0]
             /\ Place(t, c, Rehashed, 2 * slot_size)
             /\ MayMiss(c)
             /\ pc' = [pc EXCEPT ![t] = "store"]
             /\ UNCHANGED failed
  BY DEF RegisterExpand
<1>2. /\ pc[t] = "idle" /\ failed = "no" /\ FreeAt(slot, slot_size) = {}
      /\ UNCHANGED <<name, seen, index, n>>
  BY DEF RegisterExpand
<1>3. CASE Failure # "no"
  BY <1>1, <1>2, <1>3 DEF Stops
<1>4. CASE Failure = "no"
  <2>1. ~(2 * slot_size - 1 > HANDLE_MASK) /\ FirstBad = {}
    BY <1>4 DEF Failure
  <2>2. 2 * slot_size - 1 <= HANDLE_MASK
    BY <2>1, StorageAssumption DEF Types, StoreTypes, SizeOK
  <2>3. SizeOK(2 * slot_size)
    BY <2>2, Doubled DEF Types, StoreTypes
  <2>4. FreeAt(Rehashed, 2 * slot_size) # {} /\ Table(Rehashed, 2 * slot_size)
    BY <2>1, <2>3, RehashedFree, RehashedTable DEF Types
  <2>. QED BY <1>1, <1>2, <1>4, <2>1, <2>3, <2>4 DEF Placing
<1>. QED BY <1>3, <1>4

-----------------------------------------------------------------------------
(* Recursion.  A function that is defined along an interval exists, and what *)
(* holds at its start and is handed on holds at its end.                     *)

LEMMA Induction ==
    ASSUME NEW L \in Nat, NEW X, 0 \in X, \A i \in 1..L : i - 1 \in X => i \in X
    PROVE  0..L \subseteq X
<1>1. SUFFICES ASSUME (0..L) \ X # {} PROVE FALSE
  OBVIOUS
<1>2. PICK i \in (0..L) \ X : \A j \in (0..L) \ X : i <= j
  <2>1. (0..L) \ X \in SUBSET Nat
    OBVIOUS
  <2>. QED BY <1>1, <2>1, Least
<1>3. i \in 1..L /\ i - 1 \in 0..L
  BY <1>2
<1>4. i - 1 \in X
  BY <1>2, <1>3
<1>. QED BY <1>2, <1>3, <1>4

Recursive(V, base, L, step) ==
    \E G \in [0..L -> V] : G[0] = base /\ \A i \in 1..L : G[i] = step[<<G[i - 1], i>>]

LEMMA Recursion ==
    ASSUME NEW V, NEW base \in V, NEW L \in Nat, NEW step,
           \A v \in V : \A i \in 1..L : step[<<v, i>>] \in V
    PROVE  Recursive(V, base, L, step)
<1>. DEFINE Upto(G, m) == \A i \in 1..m : G[i] = step[<<G[i - 1], i>>]
            X == {m \in 0..L : \E G \in [0..L -> V] : G[0] = base /\ Upto(G, m)}
<1>1. 0 \in X
  <2>1. PICK G \in [0..L -> V] : G = [i \in 0..L |-> base]
    OBVIOUS
  <2>2. G[0] = base /\ Upto(G, 0)
    BY <2>1
  <2>. HIDE DEF Upto
  <2>. QED BY <2>2
<1>2. ASSUME NEW m \in 1..L, m - 1 \in X PROVE m \in X
  <2>1. PICK G \in [0..L -> V] : G[0] = base /\ Upto(G, m - 1)
    BY <1>2
  <2>. DEFINE H == [G EXCEPT ![m] = step[<<G[m - 1], m>>]]
  <2>2. G[m - 1] \in V /\ step[<<G[m - 1], m>>] \in V
    <3>1. m - 1 \in 0..L
      OBVIOUS
    <3>. QED BY <3>1
  <2>3. H \in [0..L -> V] /\ H[0] = base
    BY <2>1, <2>2
  <2>4. ASSUME NEW i \in 1..m PROVE H[i] = step[<<H[i - 1], i>>]
    <3>1. H[i - 1] = G[i - 1]
      OBVIOUS
    <3>2. CASE i = m
      BY <3>1, <3>2
    <3>3. CASE i # m
      <4>1. i \in 1..(m - 1) /\ H[i] = G[i]
        BY <3>3
      <4>. QED BY <2>1, <3>1, <4>1
    <3>. QED BY <3>2, <3>3
  <2>5. Upto(H, m)
    BY <2>4
  <2>. HIDE DEF Upto, H
  <2>. QED BY <2>3, <2>5
<1>3. L \in X
  <2>. HIDE DEF X
  <2>. QED BY <1>1, <1>2, Induction
<1>. QED BY <1>3 DEF Recursive

-----------------------------------------------------------------------------
(* Names. *)

Sorted(q) == \A i, j \in DOMAIN q : i < j => q[i].name < q[j].name

NamesSorted == name \in Seq(Entry) /\ Sorted(name)

\* What the binary search knows of its range: x is nowhere else.
Bounds(r) ==
    /\ r \in [begin : Nat, end : Int, found : BOOLEAN]
    /\ r.found => r.begin < Len(name)
    /\ ~r.found => r.begin <= r.end + 1 /\ r.end < Len(name)

Searching(x, r, k) ==
    /\ Bounds(r)
    /\ r.found => name[r.begin + 1].name = x
    /\ ~r.found =>
        /\ \A i \in DOMAIN name : i <= r.begin => name[i].name < x
        /\ \A i \in DOMAIN name : i > r.end + 1 => x < name[i].name
        /\ r.begin > r.end \/ r.end - r.begin + 1 <= Len(name) - k

\* One turn of the loop.
Turn(x, r) ==
    LET mid == (r.begin + r.end) \div 2
    IN  IF r.found \/ r.begin > r.end THEN r
        ELSE IF name[mid + 1].name = x
             THEN [begin |-> mid, end |-> r.end, found |-> TRUE]
        ELSE IF name[mid + 1].name < x
             THEN [begin |-> mid + 1, end |-> r.end, found |-> FALSE]
        ELSE [begin |-> r.begin, end |-> mid - 1, found |-> FALSE]

LEMMA TurnSearches ==
    ASSUME name \in Seq(Entry), Sorted(name), NEW x \in Name,
           NEW k \in 1..Len(name), NEW r, Searching(x, r, k - 1)
    PROVE  Searching(x, Turn(x, r), k)
<1>. DEFINE mid == (r.begin + r.end) \div 2
            l == Len(name)
<1>0. /\ l \in Nat /\ DOMAIN name = 1..l /\ x \in Int /\ Name \subseteq Int
      /\ \A i \in 1..l : name[i] \in Entry /\ name[i].name \in Int
  <2>1. l \in Nat /\ DOMAIN name = 1..l /\ \A i \in 1..l : name[i] \in Entry
    OBVIOUS
  <2>. QED BY <2>1, StorageAssumption DEF Entry
<1>1. r.begin \in Nat /\ r.end \in Int /\ r.found \in BOOLEAN
  BY DEF Searching, Bounds
<1>2. CASE r.found \/ r.begin > r.end
  <2>1. Turn(x, r) = r
    BY <1>2 DEF Turn
  <2>. QED BY <1>0, <1>1, <1>2, <2>1 DEF Searching, Bounds
<1>3. CASE ~r.found /\ r.begin <= r.end
  <2>1. mid \in r.begin..r.end /\ mid \in Nat /\ mid + 1 \in 1..l
    BY <1>0, <1>1, <1>3 DEF Searching, Bounds
  <2>2. PICK v \in Int : v = name[mid + 1].name
    BY <1>0, <2>1
  <2>3. Turn(x, r) = IF v = x THEN [begin |-> mid, end |-> r.end, found |-> TRUE]
                     ELSE IF v < x THEN [begin |-> mid + 1, end |-> r.end, found |-> FALSE]
                     ELSE [begin |-> r.begin, end |-> mid - 1, found |-> FALSE]
    BY <1>1, <1>3, <2>2 DEF Turn
  <2>4. /\ \A i \in 1..l : i < mid + 1 => name[i].name < v
        /\ \A i \in 1..l : mid + 1 < i => v < name[i].name
    BY <1>0, <2>1, <2>2 DEF Sorted
  <2>5. /\ \A i \in 1..l : i <= r.begin => name[i].name < x
        /\ \A i \in 1..l : i > r.end + 1 => x < name[i].name
        /\ r.end - r.begin + 1 <= l - (k - 1)
        /\ r.end < l
    <3>1. Searching(x, r, k - 1) /\ ~r.found /\ ~(r.begin > r.end)
      BY <1>1, <1>3
    <3>. QED BY <1>0, <3>1 DEF Searching, Bounds
  <2>6. CASE v = x
    <3>1. PICK z : z = Turn(x, r) /\ z = [begin |-> mid, end |-> r.end, found |-> TRUE]
      BY <2>3, <2>6
    <3>. HIDE DEF mid
    <3>2. Bounds(z)
      BY <1>0, <1>1, <2>1, <3>1 DEF Bounds
    <3>3. z.found = TRUE /\ z.begin = mid
      BY <3>1
    <3>. QED BY <2>2, <2>6, <3>1, <3>2, <3>3 DEF Searching
  <2>7. CASE v < x
    <3>1. PICK z : z = Turn(x, r)
      OBVIOUS
    <3>2. z = [begin |-> mid + 1, end |-> r.end, found |-> FALSE]
      BY <2>2, <2>3, <2>7, <3>1, <1>0
    <3>3. Bounds(z)
      <4>. HIDE DEF mid
      <4>. QED BY <1>0, <1>1, <2>1, <2>5, <3>2 DEF Bounds
    <3>4. ASSUME NEW i \in 1..l, i <= mid + 1 PROVE name[i].name < x
      <4>1. i = mid + 1 \/ i < mid + 1
        BY <2>1, <3>4
      <4>2. PICK w \in Int : w = name[i].name
        BY <1>0
      <4>3. w < v \/ w = v
        BY <2>2, <2>4, <4>1, <4>2
      <4>. QED BY <1>0, <2>2, <2>7, <4>2, <4>3
    <3>5. r.end - (mid + 1) + 1 <= l - k
      <4>. HIDE DEF mid
      <4>. QED BY <1>0, <1>1, <2>1, <2>5
    <3>. HIDE DEF mid
    <3>6. z.begin = mid + 1 /\ z.end = r.end /\ z.found = FALSE
      BY <3>2
    <3>. QED BY <1>0, <2>5, <3>1, <3>3, <3>4, <3>5, <3>6 DEF Searching
  <2>8. CASE v > x
    <3>1. PICK z : z = Turn(x, r)
      OBVIOUS
    <3>2. z = [begin |-> r.begin, end |-> mid - 1, found |-> FALSE]
      BY <2>2, <2>3, <2>8, <3>1, <1>0
    <3>3. Bounds(z)
      <4>. HIDE DEF mid
      <4>. QED BY <1>0, <1>1, <2>1, <2>5, <3>2 DEF Bounds
    <3>4. ASSUME NEW i \in 1..l, i > (mid - 1) + 1 PROVE x < name[i].name
      <4>1. i = mid + 1 \/ mid + 1 < i
        BY <2>1, <3>4
      <4>2. PICK w \in Int : w = name[i].name
        BY <1>0
      <4>3. v < w \/ w = v
        BY <2>2, <2>4, <4>1, <4>2
      <4>. QED BY <1>0, <2>2, <2>8, <4>2, <4>3
    <3>5. (mid - 1) - r.begin + 1 <= l - k
      <4>. HIDE DEF mid
      <4>. QED BY <1>0, <1>1, <2>1, <2>5
    <3>. HIDE DEF mid
    <3>6. z.begin = r.begin /\ z.end = mid - 1 /\ z.found = FALSE
      BY <3>2
    <3>. QED BY <1>0, <2>5, <3>1, <3>3, <3>4, <3>5, <3>6 DEF Searching
  <2>. QED BY <1>0, <2>2, <2>6, <2>7, <2>8
<1>. QED BY <1>1, <1>2, <1>3

\* The search ends at x, or at the place where x belongs.
LEMMA SearchEnds ==
    ASSUME name \in Seq(Entry), Sorted(name), NEW x \in Name
    PROVE  LET r == BinarySearch(x) IN
           /\ r.begin \in Nat /\ r.found \in BOOLEAN
           /\ r.found => r.begin + 1 \in DOMAIN name /\ name[r.begin + 1].name = x
           /\ ~r.found => /\ r.begin <= Len(name)
                          /\ \A i \in DOMAIN name :
                                IF i <= r.begin THEN name[i].name < x ELSE x < name[i].name
<1>. DEFINE l == Len(name)
            V == [begin : Int, end : Int, found : BOOLEAN]
            base == [begin |-> 0, end |-> Len(name) - 1, found |-> FALSE]
            step == [a \in V \X (1..l) |-> Turn(x, a[1])]
            Eq(F) == F = [k \in 0..l |-> IF k = 0 THEN base ELSE Turn(x, F[k - 1])]
            c == CHOOSE F : Eq(F)
<1>0. l \in Nat
  OBVIOUS
<1>1. ASSUME NEW r \in V PROVE Turn(x, r) \in V
  BY DEF Turn
<1>2. base \in V
  BY <1>0
<1>3. \A r \in V : \A k \in 1..l : step[<<r, k>>] = Turn(x, r) /\ step[<<r, k>>] \in V
  BY <1>1
<1>4. PICK G \in [0..l -> V] :
        G[0] = base /\ \A k \in 1..l : G[k] = step[<<G[k - 1], k>>]
  <2>. HIDE DEF l, V, base, step
  <2>1. Recursive(V, base, l, step)
    BY <1>0, <1>2, <1>3, Recursion
  <2>. QED BY <2>1 DEF Recursive
<1>5. Eq(G)
  <2>1. ASSUME NEW k \in 0..l PROVE G[k] = IF k = 0 THEN base ELSE Turn(x, G[k - 1])
    <3>1. k = 0 \/ (k \in 1..l /\ k - 1 \in 0..l)
      BY <1>0
    <3>2. G[k - 1] \in V \/ k = 0
      BY <3>1
    <3>. HIDE DEF l, V, base, step
    <3>. QED BY <1>3, <1>4, <3>1, <3>2
  <2>2. G = [k \in 0..l |-> G[k]]
    OBVIOUS
  <2>. HIDE DEF l, V, base, step
  <2>. QED BY <2>1, <2>2
<1>6. Eq(c)
  <2>. HIDE DEF Eq
  <2>. QED BY <1>5
<1>7. BinarySearch(x) = c[l]
  BY DEF BinarySearch, Turn
<1>. HIDE DEF c
<1>8. c[0] = base /\ \A k \in 1..l : c[k] = Turn(x, c[k - 1])
  <2>. HIDE DEF l, V, base, step
  <2>1. c = [k \in 0..l |-> IF k = 0 THEN base ELSE Turn(x, c[k - 1])]
    BY <1>6
  <2>2. 0 \in 0..l /\ \A k \in 1..l : k \in 0..l /\ k # 0
    BY <1>0
  <2>. QED BY <2>1, <2>2
<1>. DEFINE X == {k \in 0..l : Searching(x, c[k], k)}
<1>9. 0 \in X
  <2>1. Bounds(base)
    BY <1>0 DEF Bounds
  <2>2. base.begin = 0 /\ base.end = l - 1 /\ base.found = FALSE
    OBVIOUS
  <2>3. Searching(x, base, 0)
    <3>. HIDE DEF base
    <3>. QED BY <1>0, <2>1, <2>2 DEF Searching
  <2>. QED BY <1>0, <1>8, <2>3
<1>10. ASSUME NEW k \in 1..l, k - 1 \in X PROVE k \in X
  <2>1. Searching(x, Turn(x, c[k - 1]), k)
    BY <1>10, TurnSearches
  <2>2. k \in 0..l
    BY <1>0
  <2>. QED BY <1>8, <2>1, <2>2
<1>11. l \in X
  <2>1. 0..l \subseteq X
    <3>. HIDE DEF X, l
    <3>. QED BY <1>0, <1>9, <1>10, Induction
  <2>2. l \in 0..l
    BY <1>0
  <2>. QED BY <2>1, <2>2
<1>12. PICK r : r = BinarySearch(x) /\ Searching(x, r, l)
  BY <1>7, <1>11
<1>13. /\ r.begin \in Nat /\ r.end \in Int /\ r.found \in BOOLEAN
       /\ DOMAIN name = 1..l
  BY <1>12 DEF Searching, Bounds
<1>14. CASE r.found
  BY <1>0, <1>12, <1>13, <1>14 DEF Searching, Bounds
<1>15. CASE ~r.found
  <2>1. r.begin = r.end + 1 /\ r.begin <= l
    BY <1>0, <1>12, <1>13, <1>15 DEF Searching, Bounds
  <2>2. ASSUME NEW i \in DOMAIN name
        PROVE  IF i <= r.begin THEN name[i].name < x ELSE x < name[i].name
    BY <1>12, <1>13, <1>15, <2>1 DEF Searching
  <2>. QED BY <1>12, <1>13, <1>15, <2>1, <2>2
<1>. QED BY <1>13, <1>14, <1>15

\* The names kept by skynet_handle_retire: those of other handles, in order.
Kept(q, h, m) ==
    /\ q \in Seq(Entry) /\ Sorted(q)
    /\ \A a \in DOMAIN q : \E b \in 1..m : q[a] = name[b] /\ name[b].handle # h
    /\ \A b \in 1..m : name[b].handle # h => \E a \in DOMAIN q : q[a] = name[b]

LEMMA KeptNext ==
    ASSUME name \in Seq(Entry), Sorted(name), NEW h, NEW m \in 1..Len(name), NEW q,
           Kept(q, h, m - 1)
    PROVE  Kept(IF name[m].handle = h THEN q ELSE Append(q, name[m]), h, m)
<1>0. /\ DOMAIN name = 1..Len(name) /\ name[m] \in Entry
      /\ \A b \in 1..m : b = m \/ b \in 1..(m - 1)
      /\ \A b \in 1..(m - 1) : b \in 1..m /\ b < m /\ b \in DOMAIN name
  OBVIOUS
<1>1. CASE name[m].handle = h
  BY <1>0, <1>1 DEF Kept
<1>2. CASE name[m].handle # h
  <2>. DEFINE p == Append(q, name[m])
              l == Len(q)
  <2>1. /\ q \in Seq(Entry) /\ l \in Nat /\ DOMAIN q = 1..l
        /\ p \in Seq(Entry) /\ DOMAIN p = 1..(l + 1)
        /\ p[l + 1] = name[m] /\ \A a \in 1..l : p[a] = q[a]
    BY <1>0, AppendProperties DEF Kept
  <2>2. \A a \in 1..(l + 1) : a = l + 1 \/ a \in 1..l
    BY <2>1
  <2>3. ASSUME NEW a \in 1..l PROVE q[a].name < name[m].name
    <3>1. PICK b \in 1..(m - 1) : q[a] = name[b]
      BY <2>1 DEF Kept
    <3>2. b \in DOMAIN name /\ m \in DOMAIN name /\ b < m
      BY <1>0, <3>1
    <3>. QED BY <3>1, <3>2 DEF Sorted
  <2>4. Sorted(p)
    <3>1. SUFFICES ASSUME NEW a \in 1..(l + 1), NEW b \in 1..(l + 1), a < b
                   PROVE  p[a].name < p[b].name
      BY <2>1 DEF Sorted
    <3>2. a \in 1..l
      BY <2>1, <3>1
    <3>3. CASE b = l + 1
      BY <2>1, <2>3, <3>2, <3>3
    <3>4. CASE b \in 1..l
      BY <2>1, <3>1, <3>2, <3>4 DEF Kept, Sorted
    <3>. QED BY <2>2, <3>3, <3>4
  <2>5. \A a \in 1..(l + 1) : \E b \in 1..m : p[a] = name[b] /\ name[b].handle # h
    BY <1>0, <1>2, <2>1, <2>2 DEF Kept
  <2>6. ASSUME NEW b \in 1..m, name[b].handle # h
        PROVE  \E a \in 1..(l + 1) : p[a] = name[b]
    <3>1. CASE b = m
      BY <2>1, <3>1
    <3>2. CASE b \in 1..(m - 1)
      <4>1. PICK a \in 1..l : q[a] = name[b]
        BY <2>1, <2>6, <3>2 DEF Kept
      <4>2. a \in 1..(l + 1)
        BY <2>1
      <4>. QED BY <2>1, <4>1, <4>2
    <3>. QED BY <1>0, <3>1, <3>2
  <2>. HIDE DEF p, l
  <2>7. Kept(p, h, m)
    BY <2>1, <2>4, <2>5, <2>6 DEF Kept
  <2>. QED BY <1>2, <2>7 DEF p
<1>. QED BY <1>1, <1>2

LEMMA KeptNames ==
    ASSUME name \in Seq(Entry), Sorted(name), NEW h
    PROVE  Kept(NamesWithout(h), h, Len(name))
<1>. DEFINE l == Len(name)
            V == Seq(Entry)
            Turned(q, i) == IF name[i].handle = h THEN q ELSE Append(q, name[i])
            step == [a \in V \X (1..l) |-> Turned(a[1], a[2])]
            Eq(F) == F = [i \in 0..l |->
                            IF i = 0 THEN <<>> ELSE IF name[i].handle = h THEN F[i - 1]
                            ELSE Append(F[i - 1], name[i])]
            c == CHOOSE F : Eq(F)
<1>0. l \in Nat /\ \A i \in 1..l : name[i] \in Entry
  OBVIOUS
<1>1. ASSUME NEW q \in V, NEW i \in 1..l PROVE Turned(q, i) \in V
  BY <1>0, AppendProperties
<1>2. <<>> \in V
  OBVIOUS
<1>3. \A q \in V : \A i \in 1..l : step[<<q, i>>] = Turned(q, i) /\ step[<<q, i>>] \in V
  <2>1. \A q \in V : \A i \in 1..l : step[<<q, i>>] = Turned(q, i)
    <3>. HIDE DEF Turned, V
    <3>. QED OBVIOUS
  <2>. HIDE DEF step, Turned, V
  <2>. QED BY <1>1, <2>1
<1>4. PICK G \in [0..l -> V] :
        G[0] = <<>> /\ \A i \in 1..l : G[i] = step[<<G[i - 1], i>>]
  <2>. HIDE DEF l, V, step, Turned
  <2>1. Recursive(V, <<>>, l, step)
    BY <1>0, <1>2, <1>3, Recursion
  <2>. QED BY <2>1 DEF Recursive
<1>5. Eq(G)
  <2>1. ASSUME NEW i \in 0..l PROVE G[i] = IF i = 0 THEN <<>> ELSE Turned(G[i - 1], i)
    <3>1. i = 0 \/ (i \in 1..l /\ i - 1 \in 0..l)
      BY <1>0
    <3>2. G[i - 1] \in V \/ i = 0
      BY <3>1
    <3>. HIDE DEF l, V, Turned, step
    <3>. QED BY <1>3, <1>4, <3>1, <3>2
  <2>2. G = [i \in 0..l |-> G[i]]
    OBVIOUS
  <2>. HIDE DEF l, V, step
  <2>. QED BY <2>1, <2>2
<1>6. Eq(c)
  <2>. HIDE DEF Eq
  <2>. QED BY <1>5
<1>7. NamesWithout(h) = c[l]
  BY DEF NamesWithout
<1>. HIDE DEF c
<1>8. c[0] = <<>> /\ \A i \in 1..l : c[i] = Turned(c[i - 1], i)
  <2>. HIDE DEF l, V, step
  <2>1. c = [i \in 0..l |-> IF i = 0 THEN <<>> ELSE Turned(c[i - 1], i)]
    BY <1>6
  <2>. HIDE DEF Turned
  <2>2. 0 \in 0..l /\ \A i \in 1..l : i \in 0..l /\ i # 0
    BY <1>0
  <2>. QED BY <2>1, <2>2
<1>. DEFINE X == {i \in 0..l : Kept(c[i], h, i)}
<1>9. 0 \in X
  <2>1. Kept(<<>>, h, 0)
    BY DEF Kept, Sorted
  <2>. QED BY <1>0, <1>8, <2>1
<1>10. ASSUME NEW i \in 1..l, i - 1 \in X PROVE i \in X
  <2>1. Kept(Turned(c[i - 1], i), h, i)
    BY <1>10, KeptNext
  <2>2. i \in 0..l
    BY <1>0
  <2>. QED BY <1>8, <2>1, <2>2
<1>11. 0..l \subseteq X
  <2>. HIDE DEF X, l
  <2>. QED BY <1>0, <1>9, <1>10, Induction
<1>12. l \in X
  BY <1>0, <1>11
<1>. QED BY <1>7, <1>12

\* The names stay sorted when one is inserted where the search has ended.
LEMMA InsertedSorted ==
    ASSUME name \in Seq(Entry), Sorted(name), NEW e \in Entry, NEW b \in 0..Len(name),
           \A i \in DOMAIN name : IF i <= b THEN name[i].name < e.name
                                  ELSE e.name < name[i].name
    PROVE  InsertAt(name, b + 1, e) \in Seq(Entry) /\ Sorted(InsertAt(name, b + 1, e))
<1>. DEFINE l == Len(name)
            p == SubSeq(name, 1, b)
            q == SubSeq(name, b + 1, l)
            z == InsertAt(name, b + 1, e)
<1>0. l \in Nat /\ DOMAIN name = 1..l /\ \A i \in 1..l : name[i] \in Entry
  OBVIOUS
<1>1. z = p \o <<e>> \o q
  <2>1. PICK i : i = b + 1 /\ i - 1 = b
    BY <1>0
  <2>2. InsertAt(name, i, e) = SubSeq(name, 1, i - 1) \o <<e>> \o SubSeq(name, i, Len(name))
    BY DEF InsertAt
  <2>. QED BY <2>1, <2>2
<1>2. p \in Seq(Entry) /\ Len(p) = b /\ \A i \in 1..b : p[i] = name[i]
  <2>1. \A i \in 1..b : name[i] \in Entry
    BY <1>0
  <2>. QED BY <2>1, <1>0, SubSeqProperties
<1>3. q \in Seq(Entry) /\ Len(q) = l - b /\ \A i \in 1..(l - b) : q[i] = name[b + i]
  <2>1. \A i \in (b + 1)..l : name[i] \in Entry
    BY <1>0
  <2>2. b + 1 \in Int /\ l \in Int
    BY <1>0
  <2>. HIDE DEF l
  <2>3. /\ q \in Seq(Entry) /\ Len(q) = IF b + 1 <= l THEN l - (b + 1) + 1 ELSE 0
        /\ \A i \in 1..(l - (b + 1) + 1) : q[i] = name[(b + 1) + i - 1]
    BY <2>1, <2>2, SubSeqProperties
  <2>. HIDE DEF q
  <2>4. l - (b + 1) + 1 = l - b /\ \A i \in Int : (b + 1) + i - 1 = b + i
    BY <2>2
  <2>5. Len(q) = l - b
    BY <1>0, <2>3
  <2>6. ASSUME NEW i \in 1..(l - b) PROVE q[i] = name[b + i]
    BY <1>0, <2>3, <2>4
  <2>. QED BY <2>3, <2>5, <2>6
<1>. HIDE DEF p, q, z
<1>4. /\ z \in Seq(Entry) /\ Len(z) = l + 1
      /\ \A i \in 1..b : z[i] = name[i]
      /\ z[b + 1] = e
      /\ \A i \in (b + 2)..(l + 1) : z[i] = name[i - 1]
  <2>1. <<e>> \in Seq(Entry) /\ Len(<<e>>) = 1 /\ <<e>>[1] = e
    OBVIOUS
  <2>2. PICK m : m = p \o <<e>>
    OBVIOUS
  <2>3. m \in Seq(Entry) /\ Len(m) = b + 1 /\ m[b + 1] = e /\ \A i \in 1..b : m[i] = name[i]
    BY <1>2, <2>1, <2>2
  <2>4. z = m \o q
    BY <1>1, <2>2
  <2>. HIDE DEF l
  <2>5. z \in Seq(Entry) /\ Len(z) = l + 1 /\ \A i \in 1..(b + 1) : z[i] = m[i]
    BY <1>0, <1>3, <2>3, <2>4
  <2>6. ASSUME NEW i \in (b + 2)..(l + 1) PROVE z[i] = name[i - 1]
    <3>1. i - (b + 1) \in 1..(l - b) /\ b + (i - (b + 1)) = i - 1
      BY <1>0
    <3>2. z[i] = q[i - (b + 1)]
      BY <1>0, <1>3, <2>3, <2>4
    <3>. QED BY <1>3, <3>1, <3>2
  <2>. QED BY <2>3, <2>5, <2>6
<1>5. Sorted(z)
  <2>1. SUFFICES ASSUME NEW i \in 1..(l + 1), NEW j \in 1..(l + 1), i < j
                 PROVE  z[i].name < z[j].name
    BY <1>4 DEF Sorted
  <2>2. \A k \in 1..l : name[k].name \in Int
    BY <1>0, StorageAssumption DEF Entry
  <2>. HIDE DEF l
  <2>a. ASSUME NEW k \in 1..l, NEW m \in 1..l, k < m PROVE name[k].name < name[m].name
    BY <1>0, <2>a DEF Sorted
  <2>b. \A k \in 1..l : IF k <= b THEN name[k].name < e.name ELSE e.name < name[k].name
    BY <1>0
  <2>3. CASE j <= b
    <3>1. i \in 1..b /\ j \in 1..b /\ i \in 1..l /\ j \in 1..l
      BY <1>0, <2>1, <2>3
    <3>. QED BY <1>4, <2>1, <2>a, <3>1
  <2>4. CASE j = b + 1
    <3>1. i \in 1..b /\ i \in 1..l
      BY <1>0, <2>1, <2>4
    <3>. QED BY <1>4, <2>b, <2>4, <3>1
  <2>5. CASE j > b + 1
    <3>1. j \in (b + 2)..(l + 1) /\ j - 1 \in 1..l /\ ~(j - 1 <= b)
      BY <1>0, <2>5
    <3>2. z[j] = name[j - 1] /\ e.name < name[j - 1].name
      BY <1>4, <2>b, <3>1
    <3>3. CASE i <= b
      <4>1. i \in 1..b /\ i \in 1..l /\ i < j - 1
        BY <1>0, <3>1, <3>3
      <4>. QED BY <1>4, <2>a, <3>1, <3>2, <4>1
    <3>4. CASE i = b + 1
      BY <1>4, <3>2, <3>4
    <3>5. CASE i > b + 1
      <4>1. i \in (b + 2)..(l + 1) /\ i - 1 \in 1..l /\ i - 1 < j - 1
        BY <1>0, <2>1, <3>5
      <4>. QED BY <1>4, <2>a, <3>1, <3>2, <4>1
    <3>. QED BY <3>3, <3>4, <3>5
  <2>. QED BY <1>0, <2>3, <2>4, <2>5
<1>. QED BY <1>4, <1>5 DEF z

-----------------------------------------------------------------------------
(* The types are inductive, for any number of launchers. *)

\* What skynet_handle_retire does.
LEMMA RetireEffect ==
    ASSUME Types, NEW h \in {0} \cup Handle, RetireHandle(h)
    PROVE  \/ (h = 0 \/ Grab(h) = NULL) /\ UNCHANGED <<slot, name>>
           \/ /\ h # 0 /\ Grab(h) # NULL
              /\ \E x \in DOMAIN slot :
                    /\ slot[x] # NULL /\ handle[slot[x]] = h /\ Hash(h, slot_size) = x
                    /\ slot' = [slot EXCEPT ![x] = NULL]
              /\ name' = NamesWithout(h)
<1>1. CASE h = 0 \/ Grab(h) = NULL
  BY <1>1 DEF RetireHandle
<1>2. CASE h # 0 /\ Grab(h) # NULL
  <2>1. h \in Nat /\ slot_size \in Nat \ {0} /\ DOMAIN slot = 0..(slot_size - 1)
    BY HandleTypes, Sizes DEF Types, StoreTypes, Table
  <2>2. PICK x : x = Hash(h, slot_size)
    OBVIOUS
  <2>3. x \in DOMAIN slot
    BY <2>1, <2>2, HashRange
  <2>4. slot' = [slot EXCEPT ![x] = NULL] /\ name' = NamesWithout(h)
    BY <1>2, <2>2 DEF RetireHandle
  <2>5. slot[x] # NULL /\ handle[slot[x]] = h
    BY <1>2, <2>2 DEF Grab
  <2>. QED BY <1>2, <2>2, <2>3, <2>4, <2>5
<1>. QED BY <1>1, <1>2

LEMMA RetireTypes ==
    ASSUME Types, NEW h \in {0} \cup Handle, RetireHandle(h)
    PROVE  Table(slot', slot_size)
  BY RetireEffect DEF Types, StoreTypes, Table

LEMMA KnownHandles ==
    ASSUME Types PROVE Known \subseteq Handle
  BY DEF Types, StoreTypes, Known

LEMMA PlacingTypes ==
    ASSUME Types, NEW t \in Launcher, NEW c \in Ctx, NEW sl, NEW size,
           Placing(t, c, sl, size)
    PROVE  Types'
<1>1. PICK h \in 1..HANDLE_MASK :
              /\ Hash(h, size) \in 0..(size - 1) /\ sl[Hash(h, size)] = NULL
              /\ slot' = [sl EXCEPT ![Hash(h, size)] = c]
              /\ handle_index' = h + 1
              /\ reg' = [reg EXCEPT ![t] = [c |-> c, h |-> h + Harbor]]
  BY Placement DEF Placing, Types, StoreTypes
<1>2. StoreTypes'
  <2>1. Table(slot', size)
    BY <1>1 DEF Placing, Table
  <2>2. handle' \in [Ctx -> {0} \cup Handle]
    BY DEF Placing, Types, StoreTypes
  <2>3. handle_index' \in 1..(HANDLE_MASK + 1)
    BY <1>1, StorageAssumption
  <2>. QED BY <2>1, <2>2, <2>3 DEF Placing, Types, StoreTypes
<1>3. LauncherTypes'
  <2>1. h + Harbor \in Handle
    BY <1>1 DEF Handle
  <2>2. [c |-> c, h |-> h + Harbor] \in [c : Ctx, h : Handle]
    BY <2>1
  <2>3. reg' \in [Launcher -> {NULL} \cup [c : Ctx, h : Handle]]
    BY <1>1, <2>2 DEF Types, LauncherTypes
  <2>4. reg'[t] # NULL /\ \A u \in Launcher \ {t} : reg'[u] = reg[u]
    BY <1>1, <2>2, NullTypes DEF Types, LauncherTypes
  <2>. QED BY <2>3, <2>4 DEF Placing, Types, LauncherTypes, Thread
<1>4. AborterTypes'
  <2>1. late' \in [Aborter -> SUBSET Ctx]
    BY DEF Placing, MayMiss, Types, AborterTypes
  <2>2. \A k \in Aborter : pc'[k] = pc[k]
    BY StorageAssumption DEF Placing, Types, LauncherTypes, Thread
  <2>. QED BY <2>1, <2>2 DEF Placing, Types, AborterTypes
<1>. QED BY <1>2, <1>3, <1>4 DEF Types

LEMMA WindowTypes ==
    ASSUME Types PROVE InWindow \subseteq Ctx
  BY NullTypes DEF Types, LauncherTypes, InWindow

LEMMA TypesNext ==
    ASSUME Types, [Next]_vars PROVE Types'
<1>. USE DEF Types
<1>0. Launcher \cap Aborter = {} /\ Launcher \subseteq Thread /\ Aborter \subseteq Thread
  BY StorageAssumption DEF Thread
<1>1. ASSUME NEW t \in Launcher, Register(t) PROVE Types'
  BY <1>1, RegisterPlaces, PlacingTypes
<1>2. ASSUME NEW t \in Launcher, RegisterExpand(t) PROVE Types'
  <2>1. CASE Stops(t)
    <3>1. failed' \in {"limit", "empty", "collision"}
      BY <2>1 DEF Stops, Failure
    <3>. QED BY <2>1, <3>1 DEF Stops, StoreTypes, LauncherTypes, AborterTypes
  <2>2. ASSUME NEW c \in Ctx, Placing(t, c, Rehashed, 2 * slot_size) PROVE Types'
    BY <2>2, PlacingTypes
  <2>. QED BY <1>2, <2>1, <2>2, ExpandPlaces
<1>3. ASSUME NEW t \in Launcher, StoreHandle(t) PROVE Types'
  <2>1. reg[t] \in [c : Ctx, h : Handle]
    BY <1>3 DEF StoreHandle, LauncherTypes
  <2>2. StoreTypes'
    BY <1>3, <2>1 DEF StoreHandle, StoreTypes
  <2>3. LauncherTypes'
    BY <1>0, <1>3 DEF StoreHandle, LauncherTypes
  <2>4. AborterTypes'
    BY <1>0, <1>3 DEF StoreHandle, LauncherTypes, AborterTypes, pass
  <2>. QED BY <2>2, <2>3, <2>4
<1>4. ASSUME NEW k \in Aborter, RetireAll(k) PROVE Types'
  <2>1. StoreTypes'
    BY <1>4 DEF RetireAll, StoreTypes, store
  <2>2. LauncherTypes'
    BY <1>0, <1>4 DEF RetireAll, LauncherTypes
  <2>3. AborterTypes'
    BY <1>0, <1>4, WindowTypes DEF RetireAll, LauncherTypes, AborterTypes
  <2>. QED BY <2>1, <2>2, <2>3
<1>5. ASSUME NEW k \in Aborter, ScanSlot(k) PROVE Types'
  <2>1. StoreTypes'
    BY <1>5 DEF ScanSlot, StoreTypes, store
  <2>2. pc' = pc \/ pc' = [pc EXCEPT ![k] = "seen"]
    BY <1>5 DEF ScanSlot
  <2>3. LauncherTypes'
    BY <1>0, <1>5, <2>2 DEF ScanSlot, LauncherTypes
  <2>4. slot_size \in Nat /\ DOMAIN slot = 0..(slot_size - 1) /\ index[k] \in Nat
        /\ index[k] < slot_size /\ index' = [index EXCEPT ![k] = @ + 1]
    BY <1>5, Sizes DEF ScanSlot, StoreTypes, Table, AborterTypes
  <2>5. slot[index[k]] \in Ctx \cup {NULL}
    BY <2>4 DEF StoreTypes, Table
  <2>6. seen' \in [Aborter -> {0} \cup Handle]
    <3>1. seen' = seen \/ (slot[index[k]] # NULL /\ seen' = [seen EXCEPT ![k] = handle[slot[index[k]]]])
      BY <1>5 DEF ScanSlot
    <3>. QED BY <2>5, <3>1 DEF AborterTypes, StoreTypes
  <2>7. AborterTypes'
    <3>1. index' \in [Aborter -> Nat]
      BY <2>4 DEF AborterTypes
    <3>2. \A u \in Aborter : pc'[u] # "store"
      BY <1>0, <2>2 DEF LauncherTypes, AborterTypes
    <3>. QED BY <1>5, <2>6, <3>1, <3>2 DEF ScanSlot, AborterTypes
  <2>. QED BY <2>1, <2>3, <2>7
<1>6. ASSUME NEW k \in Aborter, RetireSeen(k) PROVE Types'
  <2>1. StoreTypes'
    <3>1. Table(slot', slot_size)
      BY <1>6, RetireTypes DEF RetireSeen, AborterTypes
    <3>. QED BY <1>6, <3>1 DEF RetireSeen, StoreTypes
  <2>2. LauncherTypes'
    BY <1>0, <1>6 DEF RetireSeen, LauncherTypes
  <2>3. AborterTypes'
    <3>1. n' \in [Aborter -> {0, 1}]
      BY <1>6 DEF RetireSeen, AborterTypes
    <3>. QED BY <1>0, <1>6, <3>1 DEF RetireSeen, LauncherTypes, AborterTypes
  <2>. QED BY <2>1, <2>2, <2>3
<1>7. ASSUME NEW k \in Aborter, PassEnd(k) PROVE Types'
  <2>1. StoreTypes'
    BY <1>7 DEF PassEnd, StoreTypes, store
  <2>2. pc' = pc \/ pc' = [pc EXCEPT ![k] = "done"]
    BY <1>7 DEF PassEnd
  <2>3. LauncherTypes'
    BY <1>0, <1>7, <2>2 DEF PassEnd, LauncherTypes
  <2>4. late' \in [Aborter -> SUBSET Ctx]
    BY <1>7, WindowTypes DEF PassEnd, AborterTypes
  <2>5. AborterTypes'
    BY <1>0, <1>7, <2>2, <2>4 DEF PassEnd, LauncherTypes, AborterTypes
  <2>. QED BY <2>1, <2>3, <2>5
<1>8. ASSUME NEW k \in Aborter, RetireAllReturn(k) PROVE Types'
  <2>1. StoreTypes'
    BY <1>8 DEF RetireAllReturn, StoreTypes, store
  <2>2. LauncherTypes'
    BY <1>0, <1>8 DEF RetireAllReturn, LauncherTypes
  <2>3. AborterTypes'
    BY <1>0, <1>8 DEF RetireAllReturn, LauncherTypes, AborterTypes
  <2>. QED BY <2>1, <2>2, <2>3
<1>9. CASE Retire
  <2>1. PICK h \in Known : RetireHandle(h)
    BY <1>9 DEF Retire
  <2>2. Table(slot', slot_size)
    BY <2>1, KnownHandles, RetireTypes
  <2>. QED BY <1>9, <2>2 DEF Retire, StoreTypes, LauncherTypes, AborterTypes, pass
<1>10. CASE NameHandle
  BY <1>10 DEF NameHandle, StoreTypes, LauncherTypes, AborterTypes, pass
<1>11. CASE UNCHANGED vars
  BY <1>11 DEF vars, store, pass, StoreTypes, LauncherTypes, AborterTypes
<1>. QED BY <1>1, <1>2, <1>3, <1>4, <1>5, <1>6, <1>7, <1>8, <1>9, <1>10, <1>11 DEF Next

LEMMA TypesInit ==
    ASSUME Init PROVE Types
<1>1. DEFAULT_SLOT_SIZE \in 2..(HANDLE_MASK + 1) /\ HANDLE_MASK \in Nat \ {0}
  BY StorageAssumption
<1>2. StoreTypes
  <2>1. SizeOK(slot_size)
    BY StorageAssumption DEF Init, SizeOK
  <2>2. handle_index \in 1..(HANDLE_MASK + 1)
    BY <1>1 DEF Init
  <2>. QED BY <2>1, <2>2 DEF Init, StoreTypes, Table
<1>3. LauncherTypes
  BY DEF Init, LauncherTypes, Thread
<1>4. AborterTypes
  BY DEF Init, AborterTypes, Thread
<1>. QED BY <1>2, <1>3, <1>4 DEF Types

-----------------------------------------------------------------------------
(* The names are sorted, for any number of launchers.                      *)

LEMMA RetireNames ==
    ASSUME Types, NamesSorted, NEW h \in {0} \cup Handle, RetireHandle(h)
    PROVE  NamesSorted'
<1>1. CASE UNCHANGED name
  BY <1>1 DEF NamesSorted, Sorted
<1>2. CASE name' = NamesWithout(h)
  BY <1>2, KeptNames DEF NamesSorted, Kept, Sorted
<1>. QED BY <1>1, <1>2, RetireEffect

LEMMA NameHandleNames ==
    ASSUME Types, NamesSorted, NameHandle
    PROVE  NamesSorted'
<1>1. PICK x \in Name, h \in Known :
        LET r == BinarySearch(x)
        IN  name' = IF r.found THEN name
                    ELSE InsertAt(name, r.begin + 1, [name |-> x, handle |-> h])
  BY DEF NameHandle
<1>2. PICK r : r = BinarySearch(x)
  OBVIOUS
<1>3. /\ r.begin \in Nat /\ r.found \in BOOLEAN
      /\ ~r.found => /\ r.begin <= Len(name)
                     /\ \A i \in DOMAIN name :
                           IF i <= r.begin THEN name[i].name < x ELSE x < name[i].name
  BY <1>2, SearchEnds DEF NamesSorted
<1>4. CASE r.found
  BY <1>1, <1>2, <1>4 DEF NamesSorted, Sorted
<1>5. CASE ~r.found
  <2>1. PICK e : e = [name |-> x, handle |-> h]
    OBVIOUS
  <2>2. e \in Entry /\ e.name = x
    BY <2>1, KnownHandles, HandleTypes DEF Entry
  <2>3. r.begin \in 0..Len(name)
    BY <1>3, <1>5 DEF NamesSorted
  <2>4. \A i \in DOMAIN name : IF i <= r.begin THEN name[i].name < e.name
                                ELSE e.name < name[i].name
    BY <1>3, <1>5, <2>2
  <2>5. name' = InsertAt(name, r.begin + 1, e)
    BY <1>1, <1>2, <1>5, <2>1
  <2>. QED BY <2>2, <2>3, <2>4, <2>5, InsertedSorted DEF NamesSorted, Sorted
<1>. QED BY <1>3, <1>4, <1>5

LEMMA NamesNext ==
    ASSUME Types, NamesSorted, [Next]_vars PROVE NamesSorted'
<1>1. ASSUME UNCHANGED name PROVE NamesSorted'
  BY <1>1 DEF NamesSorted, Sorted
<1>2. ASSUME NEW t \in Launcher, Register(t) \/ RegisterExpand(t) \/ StoreHandle(t)
      PROVE  NamesSorted'
  BY <1>1, <1>2 DEF Register, RegisterExpand, StoreHandle
<1>3. ASSUME NEW k \in Aborter, RetireAll(k) \/ ScanSlot(k) \/ PassEnd(k) \/ RetireAllReturn(k)
      PROVE  NamesSorted'
  BY <1>1, <1>3 DEF RetireAll, ScanSlot, PassEnd, RetireAllReturn, store
<1>4. ASSUME NEW k \in Aborter, RetireSeen(k) PROVE NamesSorted'
  BY <1>4, RetireNames DEF RetireSeen, Types, AborterTypes
<1>5. CASE Retire
  BY <1>5, RetireNames, KnownHandles DEF Retire
<1>6. CASE NameHandle
  BY <1>6, NameHandleNames
<1>7. CASE UNCHANGED vars
  BY <1>1, <1>7 DEF vars, store
<1>. QED BY <1>2, <1>3, <1>4, <1>5, <1>6, <1>7 DEF Next

\* In a sorted array the search finds every name that is there and no other.
LEMMA SortedFound ==
    ASSUME NamesSorted PROVE NamesFound
<1>1. DOMAIN name = 1..Len(name) /\ Len(name) \in Nat /\ \A i \in DOMAIN name : name[i] \in Entry
  BY DEF NamesSorted
<1>2. \A i \in DOMAIN name : name[i].name \in Name /\ name[i].name \in Int
  BY <1>1, StorageAssumption DEF Entry
<1>3. \A i, j \in DOMAIN name : i < j => name[i].name < name[j].name
  BY DEF NamesSorted, Sorted
<1>4. ASSUME NEW i \in DOMAIN name, NEW j \in DOMAIN name, name[i].name = name[j].name
      PROVE  i = j
  <2>1. i < j \/ i = j \/ j < i
    BY <1>1
  <2>2. PICK v \in Int : v = name[i].name
    BY <1>2
  <2>3. ~(i < j) /\ ~(j < i)
    BY <1>3, <1>4, <2>2
  <2>. QED BY <2>1, <2>3
<1>5. ASSUME NEW x \in Name, NEW i \in DOMAIN name, name[i].name = x
      PROVE  FindName(x) = name[i].handle
  <2>1. PICK r : r = BinarySearch(x)
    OBVIOUS
  <2>2. /\ r.begin \in Nat /\ r.found \in BOOLEAN
        /\ r.found => r.begin + 1 \in DOMAIN name /\ name[r.begin + 1].name = x
        /\ ~r.found => \A j \in DOMAIN name :
                         IF j <= r.begin THEN name[j].name < x ELSE x < name[j].name
    BY <2>1, SearchEnds DEF NamesSorted
  <2>3. x \in Int
    BY <1>2, <1>5
  <2>4. r.found
    BY <1>5, <2>2, <2>3
  <2>5. r.begin + 1 = i
    BY <1>4, <1>5, <2>2, <2>4
  <2>. QED BY <2>1, <2>4, <2>5 DEF FindName
<1>6. ASSUME NEW x \in Name, \A i \in DOMAIN name : name[i].name # x
      PROVE  FindName(x) = 0
  <2>1. PICK r : r = BinarySearch(x)
    OBVIOUS
  <2>2. r.found => r.begin + 1 \in DOMAIN name /\ name[r.begin + 1].name = x
    BY <2>1, SearchEnds DEF NamesSorted
  <2>3. ~r.found
    BY <1>6, <2>2
  <2>. QED BY <2>1, <2>3 DEF FindName
<1>. QED BY <1>2, <1>3, <1>5, <1>6 DEF NamesFound

LEMMA TypesOK == ASSUME Types, NamesSorted PROVE TypeOK
<1>1. slot_size \in 1..(HANDLE_MASK + 1)
  BY StorageAssumption DEF Types, StoreTypes, SizeOK
<1>2. \A i \in DOMAIN name : name[i].name \in Name /\ name[i].handle \in Nat
  <2>1. \A i \in DOMAIN name : name[i] \in Entry
    BY DEF NamesSorted
  <2>. QED BY <2>1 DEF Entry
<1>. QED BY <1>1, <1>2 DEF Types, StoreTypes, LauncherTypes, Table, Handle, TypeOK

LEMMA TypesInvariant == Spec => [](Types /\ NamesSorted)
<1>1. Init => Types /\ NamesSorted
  <2>1. Init => NamesSorted
    BY DEF Init, NamesSorted, Sorted
  <2>. QED BY <2>1, TypesInit
<1>2. Types /\ NamesSorted /\ [Next]_vars => (Types /\ NamesSorted)'
  BY TypesNext, NamesNext
<1>. QED BY <1>1, <1>2, PTL DEF Spec

\* The fields of struct handle_storage keep their types, however many threads
\* launch services: the size of the table divides HANDLE_MASK + 1, and every
\* handle lies between 1 and HANDLE_MASK under the bits of the harbor
\* (skynet_handle_register's doubling, and its wrap past handle 0).
THEOREM HandleTypeCorrect == Spec => []TypeOK
<1>1. Types /\ NamesSorted => TypeOK
  BY TypesOK
<1>. QED BY <1>1, TypesInvariant, PTL

\* The name array stays strictly sorted through every insert (_insert_name) and
\* every compaction (skynet_handle_retire), however many threads run them, and the
\* binary search of skynet_handle_findname finds in it every name that is there,
\* with its handle, and no other: for arrays and names of every size.
THEOREM NamesAlwaysFound == Spec => []NamesFound
<1>1. NamesSorted => NamesFound
  BY SortedFound
<1>. QED BY <1>1, TypesInvariant, PTL

-----------------------------------------------------------------------------
(* The table stays consistent if it is never doubled while a context waits   *)
(* for its handle (the window of skynet_context_new): the copying loop would *)
(* take that context's handle for 0.                                        *)

\* No context is in the window at a step that doubles the table or fails to.
QuietExpansion ==
    slot_size' # slot_size \/ failed' # failed => InWindow = {}

\* No two launchers launch one context.
Distinct ==
    \A t, u \in Launcher :
        reg[t] # NULL /\ reg[u] # NULL /\ reg[t].c = reg[u].c => t = u

\* A context whose handle is not stored yet is in the slot of that handle.
Window ==
    \A t \in Launcher : reg[t] # NULL =>
        handle[reg[t].c] = 0 /\ slot[Hash(reg[t].h, slot_size)] = reg[t].c

\* Every other registered context is in the slot of the handle it has.
Placed ==
    \A i \in DOMAIN slot : slot[i] # NULL =>
        \/ handle[slot[i]] # 0 /\ Hash(handle[slot[i]], slot_size) = i
        \/ \E t \in Launcher : /\ reg[t] # NULL /\ reg[t].c = slot[i]
                               /\ Hash(reg[t].h, slot_size) = i

\* What a pass of skynet_handle_retireall that has retired nothing so far knows
\* of the slots it has read.
Swept(k) ==
    /\ pc[k] \in {"scan", "seen"} =>
        /\ InWindow \subseteq late[k]
        /\ n[k] = 0 => \A i \in DOMAIN slot : i < index[k] /\ slot[i] # NULL =>
                \/ slot[i] \in late[k]
                \/ pc[k] = "seen" /\ handle[slot[i]] = seen[k]
    /\ pc[k] = "done" => Registered \subseteq late[k]
    /\ pc[k] = "seen" => seen[k] # 0

AllSwept == \A k \in Aborter : Swept(k)

HInv == Distinct /\ Window /\ Placed /\ AllSwept /\ FailsOnlyAtLimits

LEMMA PlacedFound ==
    ASSUME Types, Window, Placed, NEW i \in DOMAIN slot, slot[i] # NULL,
           handle[slot[i]] # 0
    PROVE  Hash(handle[slot[i]], slot_size) = i /\ Grab(handle[slot[i]]) = slot[i]
<1>1. ASSUME NEW t \in Launcher, reg[t] # NULL PROVE reg[t].c # slot[i]
  BY <1>1 DEF Window
<1>2. Hash(handle[slot[i]], slot_size) = i
  BY <1>1 DEF Placed
<1>. QED BY <1>2 DEF Grab

\* While no launcher has a handle to store, every context has its handle.
LEMMA QuietPlaced ==
    ASSUME Placed, InWindow = {}
    PROVE  /\ \A u \in Launcher : reg[u] = NULL
           /\ \A i \in DOMAIN slot : slot[i] # NULL =>
                 handle[slot[i]] # 0 /\ Hash(handle[slot[i]], slot_size) = i
<1>1. \A u \in Launcher : reg[u] = NULL
  BY DEF InWindow
<1>. QED BY <1>1 DEF Placed

\* A table in which every context is where it can be found, now or when its handle
\* is stored, and has come from the old table, from the same index or one before.
Source(sl, size) ==
    /\ \A j \in 0..(size - 1) : sl[j] # NULL =>
        /\ \/ handle[sl[j]] # 0 /\ Hash(handle[sl[j]], size) = j
           \/ \E u \in Launcher : reg[u] # NULL /\ reg[u].c = sl[j] /\ Hash(reg[u].h, size) = j
        /\ \E i \in DOMAIN slot : i <= j /\ slot[i] = sl[j]
    /\ \A u \in Launcher : reg[u] # NULL => sl[Hash(reg[u].h, size)] = reg[u].c

LEMMA SlotSource ==
    ASSUME Types, Window, Placed
    PROVE  Source(slot, slot_size)
<1>1. DOMAIN slot = 0..(slot_size - 1) /\ \A i \in DOMAIN slot : i <= i
  BY Sizes DEF Types, StoreTypes, Table
<1>. QED BY <1>1 DEF Source, Window, Placed

LEMMA RehashedSource ==
    ASSUME Types, Placed, InWindow = {}, FirstBad = {}
    PROVE  Source(Rehashed, 2 * slot_size)
<1>1. /\ slot_size \in Nat \ {0} /\ DOMAIN slot = 0..(slot_size - 1)
      /\ \A i \in DOMAIN slot : slot[i] \in Ctx \cup {NULL}
      /\ \A d \in Ctx : handle[d] \in {0} \cup Handle
  BY Sizes DEF Types, StoreTypes, Table
<1>2. SUFFICES ASSUME NEW j \in 0..(2 * slot_size - 1), Rehashed[j] # NULL
               PROVE  /\ handle[Rehashed[j]] # 0
                      /\ Hash(handle[Rehashed[j]], 2 * slot_size) = j
                      /\ \E i \in DOMAIN slot : i <= j /\ slot[i] = Rehashed[j]
  BY QuietPlaced DEF Source
<1>3. PICK i \in DOMAIN slot : slot[i] = Rehashed[j] /\ NewHash(i) = j
  BY <1>2, RehashedTable DEF Types
<1>4. handle[slot[i]] # 0 /\ Hash(handle[slot[i]], slot_size) = i
  BY <1>2, <1>3, QuietPlaced
<1>5. handle[slot[i]] \in Nat
  <2>1. slot[i] \in Ctx
    BY <1>1, <1>2, <1>3
  <2>2. handle[slot[i]] = 0 \/ handle[slot[i]] \in Handle
    BY <1>1, <2>1
  <2>3. 0 \in Nat /\ Handle \subseteq Nat
    BY HandleTypes
  <2>. QED BY <2>2, <2>3
<1>6. Hash(handle[slot[i]], 2 * slot_size) \in {i, i + slot_size}
  BY <1>1, <1>4, <1>5, HashDouble
<1>7. i <= j
  BY <1>1, <1>3, <1>6 DEF NewHash
<1>. QED BY <1>3, <1>4, <1>7 DEF NewHash

LEMMA PlacingInv ==
    ASSUME Types, HInv, NEW t \in Launcher, NEW c \in Ctx, NEW sl, NEW size,
           Placing(t, c, sl, size), Source(sl, size)
    PROVE  HInv'
<1>1. PICK h \in 1..HANDLE_MASK :
              /\ Hash(h, size) \in 0..(size - 1) /\ sl[Hash(h, size)] = NULL
              /\ slot' = [sl EXCEPT ![Hash(h, size)] = c]
              /\ handle_index' = h + 1
              /\ reg' = [reg EXCEPT ![t] = [c |-> c, h |-> h + Harbor]]
              /\ Hash(h + Harbor, size) = Hash(h, size)
  BY Placement DEF Placing, Types, StoreTypes
<1>2. PICK x \in 0..(size - 1) : x = Hash(h, size)
  BY <1>1
<1>3. PICK r : r = [c |-> c, h |-> h + Harbor]
  OBVIOUS
<1>4. /\ r # NULL /\ r.c = c /\ Hash(r.h, size) = x
  <2>1. h + Harbor \in Handle
    BY DEF Handle
  <2>2. r \in [c : Ctx, h : Handle]
    BY <1>3, <2>1
  <2>. QED BY <1>1, <1>2, <1>3, <2>2, NullTypes
<1>5. /\ Table(sl, size) /\ DOMAIN slot' = 0..(size - 1) /\ slot_size' = size
      /\ slot'[x] = c /\ \A i \in 0..(size - 1) : i # x => slot'[i] = sl[i]
  BY <1>1, <1>2 DEF Placing, Table
<1>6. /\ reg'[t] = r /\ reg[t] = NULL
      /\ \A u \in Launcher : u # t => reg'[u] = reg[u]
  BY <1>1, <1>3 DEF Placing, Types, LauncherTypes
<1>7. handle'[c] = 0 /\ \A d \in Ctx : d # c => handle'[d] = handle[d]
  BY DEF Placing, Types, StoreTypes
<1>8. \A i \in 0..(size - 1) : sl[i] # NULL => sl[i] \in Registered /\ sl[i] \in Ctx /\ sl[i] # c
  BY <1>5 DEF Source, Registered, Placing, Table
<1>b. ASSUME NEW u \in Launcher, reg[u] # NULL
      PROVE  /\ u # t /\ reg'[u] = reg[u] /\ reg[u].c # c /\ reg[u].c \in Ctx
             /\ sl[Hash(reg[u].h, size)] = reg[u].c
             /\ Hash(reg[u].h, size) \in (0..(size - 1)) \ {x}
  <2>1. reg[u].c \in InWindow /\ reg[u].c \in Ctx /\ reg[u].h \in Handle
    BY <1>b DEF InWindow, Types, LauncherTypes
  <2>2. sl[Hash(reg[u].h, size)] = reg[u].c
    BY <1>b DEF Source
  <2>3. reg[u].c # NULL
    BY <2>1, NullTypes
  <2>4. Hash(reg[u].h, size) \in 0..(size - 1)
    <3>1. reg[u].h \in Nat /\ size \in Nat \ {0}
      BY <2>1, HandleTypes, Sizes DEF Placing
    <3>. QED BY <3>1, HashRange
  <2>. QED BY <1>1, <1>2, <1>6, <1>b, <2>1, <2>2, <2>3, <2>4 DEF Placing
<1>9. Window'
  <2>1. ASSUME NEW u \in Launcher, reg'[u] # NULL
        PROVE  handle'[reg'[u].c] = 0 /\ slot'[Hash(reg'[u].h, size)] = reg'[u].c
    <3>1. CASE u = t
      BY <1>2, <1>4, <1>5, <1>6, <1>7, <3>1
    <3>2. CASE u # t
      <4>1. reg'[u] = reg[u] /\ reg[u] # NULL
        BY <1>6, <2>1, <3>2
      <4>2. handle[reg[u].c] = 0
        BY <4>1 DEF HInv, Window
      <4>. QED BY <1>5, <1>7, <1>b, <4>1, <4>2
    <3>. QED BY <3>1, <3>2
  <2>. QED BY <1>5, <2>1 DEF Window
<1>c. Distinct'
  <2>1. ASSUME NEW u \in Launcher, NEW v \in Launcher, reg'[u] # NULL, reg'[v] # NULL,
               reg'[u].c = reg'[v].c
        PROVE  u = v
    <3>1. CASE u = t \/ v = t
      BY <1>4, <1>6, <1>b, <2>1, <3>1
    <3>2. CASE u # t /\ v # t
      BY <1>6, <2>1, <3>2 DEF HInv, Distinct
    <3>. QED BY <3>1, <3>2
  <2>. QED BY <2>1 DEF Distinct
<1>10. Placed'
  <2>1. ASSUME NEW i \in 0..(size - 1), slot'[i] # NULL
        PROVE  \/ handle'[slot'[i]] # 0 /\ Hash(handle'[slot'[i]], size) = i
               \/ \E u \in Launcher : /\ reg'[u] # NULL /\ reg'[u].c = slot'[i]
                                      /\ Hash(reg'[u].h, size) = i
    <3>1. CASE i = x
      BY <1>4, <1>5, <1>6, <3>1
    <3>2. CASE i # x
      <4>1. slot'[i] = sl[i] /\ sl[i] # NULL /\ handle'[sl[i]] = handle[sl[i]]
        BY <1>5, <1>7, <1>8, <2>1, <3>2
      <4>2. CASE handle[sl[i]] # 0 /\ Hash(handle[sl[i]], size) = i
        BY <4>1, <4>2
      <4>3. ASSUME NEW u \in Launcher, reg[u] # NULL, reg[u].c = sl[i],
                   Hash(reg[u].h, size) = i
            PROVE  reg'[u] # NULL /\ reg'[u].c = slot'[i] /\ Hash(reg'[u].h, size) = i
        BY <1>b, <4>1, <4>3
      <4>. QED BY <4>1, <4>2, <4>3 DEF Source
    <3>. QED BY <3>1, <3>2
  <2>. QED BY <1>5, <2>1 DEF Placed
<1>11. InWindow' \subseteq InWindow \cup {c} /\ Registered' \subseteq Registered \cup {c}
  <2>1. InWindow' \subseteq InWindow \cup {c}
    BY <1>4, <1>6 DEF InWindow
  <2>2. Registered' \subseteq Registered \cup {c}
    BY <1>5, <1>8 DEF Registered
  <2>. QED BY <2>1, <2>2
<1>12. ASSUME NEW k \in Aborter PROVE Swept(k)'
  <2>1. pc'[k] = pc[k] /\ seen'[k] = seen[k] /\ n'[k] = n[k] /\ index'[k] = index[k]
    BY StorageAssumption DEF Placing, Types, LauncherTypes, Thread
  <2>2. late'[k] = IF pc[k] = "idle" THEN late[k] ELSE late[k] \cup {c}
    BY DEF Placing, MayMiss
  <2>3. Swept(k)
    BY DEF HInv, AllSwept
  <2>4. index[k] \in Nat /\ size \in Nat
    BY Sizes DEF Types, AborterTypes, Placing
  <2>5. ASSUME pc[k] \in {"scan", "seen"}, n[k] = 0, NEW i \in 0..(size - 1),
               i < index[k], slot'[i] # NULL
        PROVE  \/ slot'[i] \in late'[k]
               \/ pc[k] = "seen" /\ handle'[slot'[i]] = seen[k]
    <3>1. CASE i = x
      BY <1>5, <2>2, <2>5, <3>1
    <3>2. CASE i # x
      <4>1. sl[i] # NULL /\ slot'[i] = sl[i] /\ handle'[sl[i]] = handle[sl[i]]
        BY <1>5, <1>7, <1>8, <2>5, <3>2
      <4>2. PICK j \in DOMAIN slot : j <= i /\ slot[j] = sl[i]
        BY <4>1 DEF Source
      <4>3. j < index[k] /\ slot[j] # NULL
        <5>1. j \in Nat
          BY Sizes DEF Types, StoreTypes, Table
        <5>. QED BY <2>4, <2>5, <4>1, <4>2, <5>1
      <4>4. slot[j] \in late[k] \/ (pc[k] = "seen" /\ handle[slot[j]] = seen[k])
        BY <2>3, <2>5, <4>3 DEF Swept
      <4>5. slot'[i] = slot[j] /\ handle'[slot'[i]] = handle[slot[j]]
        BY <4>1, <4>2
      <4>6. slot[j] \in late[k] => slot'[i] \in late'[k]
        BY <2>2, <2>5, <4>5
      <4>. QED BY <4>4, <4>5, <4>6
    <3>. QED BY <3>1, <3>2
  <2>6. pc[k] \in {"scan", "seen"} => InWindow' \subseteq late'[k]
    BY <1>11, <2>2, <2>3 DEF Swept
  <2>7. pc[k] = "done" => Registered' \subseteq late'[k]
    BY <1>11, <2>2, <2>3 DEF Swept
  <2>. QED BY <1>5, <2>1, <2>3, <2>5, <2>6, <2>7 DEF Swept
<1>13. FailsOnlyAtLimits'
  BY DEF Placing, FailsOnlyAtLimits
<1>. QED BY <1>9, <1>c, <1>10, <1>12, <1>13 DEF HInv, AllSwept

\* Doubling the table never moves two contexts into one slot, and the loop that
\* finds no free slot without wrapping has seen them all taken.
LEMMA StopsAtLimit ==
    ASSUME Types, Placed, InWindow = {}, NEW t \in Launcher, Stops(t)
    PROVE  FailsOnlyAtLimits'
<1>1. /\ slot_size \in Nat \ {0} /\ DOMAIN slot = 0..(slot_size - 1)
      /\ \A i \in DOMAIN slot : slot[i] \in Ctx \cup {NULL}
      /\ \A d \in Ctx : handle[d] \in {0} \cup Handle
      /\ handle_index \in 1..(HANDLE_MASK + 1) /\ HANDLE_MASK \in Nat
  BY Sizes, StorageAssumption DEF Types, StoreTypes, Table
<1>2. failed' = Failure /\ UNCHANGED <<slot_size, handle_index>>
  BY DEF Stops
<1>3. CASE Failure = "empty"
  <2>1. PICK i \in FirstBad : slot[i] = NULL
    BY <1>3 DEF Failure
  <2>2. i \in 0..(slot_size - 1)
    BY <1>1 DEF FirstBad
  <2>3. ASSUME handle_index + slot_size - 1 <= HANDLE_MASK PROVE FALSE
    <3>1. PICK k \in 0..(slot_size - 1) : Hash(Candidate(k), slot_size) = i
      BY <1>1, <2>2, <2>3, ReachesAll
    <3>2. k \in FreeAt(slot, slot_size)
      BY <2>1, <3>1 DEF FreeAt
    <3>. QED BY <3>2 DEF Stops
  <2>4. handle_index + slot_size - 1 > HANDLE_MASK
    BY <1>1, <2>3
  <2>. QED BY <1>2, <1>3, <2>4 DEF FailsOnlyAtLimits
<1>4. Failure # "collision"
  <2>1. SUFFICES ASSUME Failure = "collision" PROVE FALSE
    OBVIOUS
  <2>2. FirstBad # {} /\ \A i \in FirstBad : slot[i] # NULL
    BY <2>1 DEF Failure
  <2>3. PICK i \in FirstBad : Bad(i) /\ i \in DOMAIN slot /\ slot[i] # NULL
    BY <2>2 DEF FirstBad
  <2>4. PICK j \in 0..(i - 1) : slot[j] # NULL /\ NewHash(j) = NewHash(i)
    BY <2>3 DEF Bad
  <2>5. j \in DOMAIN slot /\ j < i /\ i \in Nat /\ i < slot_size
    BY <1>1, <2>3
  <2>6. ASSUME NEW k \in DOMAIN slot, slot[k] # NULL
        PROVE  NewHash(k) \in {k, k + slot_size}
    <3>1. Hash(handle[slot[k]], slot_size) = k
      BY <2>6, QuietPlaced
    <3>2. handle[slot[k]] \in Nat
      <4>1. slot[k] \in Ctx
        BY <1>1, <2>6
      <4>2. handle[slot[k]] = 0 \/ handle[slot[k]] \in Handle
        BY <1>1, <4>1
      <4>3. 0 \in Nat /\ Handle \subseteq Nat
        BY HandleTypes
      <4>. QED BY <4>2, <4>3
    <3>. QED BY <1>1, <3>1, <3>2, HashDouble DEF NewHash
  <2>7. NewHash(j) \in {j, j + slot_size} /\ NewHash(i) \in {i, i + slot_size}
    BY <2>3, <2>4, <2>5, <2>6
  <2>. QED BY <1>1, <2>4, <2>5, <2>7
<1>5. Failure \in {"limit", "no", "empty", "collision"}
  BY DEF Failure
<1>6. CASE Failure = "limit"
  BY <1>2, <1>6 DEF FailsOnlyAtLimits
<1>. QED BY <1>3, <1>4, <1>5, <1>6 DEF Stops

LEMMA InitInv == ASSUME Init PROVE HInv
<1>1. Window /\ Placed /\ Distinct
  BY DEF Init, Window, Placed, Distinct
<1>2. AllSwept
  BY DEF Init, AllSwept, Swept, Thread
<1>. QED BY <1>1, <1>2 DEF HInv, Init, FailsOnlyAtLimits

\* Retiring a handle empties one slot, of a context that has its handle.
LEMMA RetireInv ==
    ASSUME Types, HInv, NEW h \in {0} \cup Handle, RetireHandle(h),
           UNCHANGED <<slot_size, handle, handle_index, failed, reg>>
    PROVE  /\ Distinct' /\ Window' /\ Placed' /\ FailsOnlyAtLimits'
           /\ InWindow' = InWindow /\ Registered' \subseteq Registered
           /\ DOMAIN slot' = DOMAIN slot
           /\ \A i \in DOMAIN slot : slot'[i] # NULL => slot'[i] = slot[i]
<1>1. /\ DOMAIN slot' = DOMAIN slot
      /\ \A i \in DOMAIN slot : slot'[i] # NULL => slot'[i] = slot[i]
      /\ \A i \in DOMAIN slot : slot[i] # NULL /\ handle[slot[i]] = 0 => slot'[i] = slot[i]
  <2>1. CASE UNCHANGED slot
    BY <2>1
  <2>2. ASSUME h # 0, NEW x \in DOMAIN slot, handle[slot[x]] = h,
               slot' = [slot EXCEPT ![x] = NULL]
        PROVE  /\ DOMAIN slot' = DOMAIN slot
               /\ \A i \in DOMAIN slot : slot'[i] # NULL => slot'[i] = slot[i]
               /\ \A i \in DOMAIN slot :
                    slot[i] # NULL /\ handle[slot[i]] = 0 => slot'[i] = slot[i]
    BY <2>2 DEF Types, StoreTypes, Table
  <2>. QED BY <2>1, <2>2, RetireEffect
<1>2. Window'
  <2>1. ASSUME NEW t \in Launcher, reg[t] # NULL
        PROVE  handle[reg[t].c] = 0 /\ slot'[Hash(reg[t].h, slot_size)] = reg[t].c
    <3>1. handle[reg[t].c] = 0 /\ slot[Hash(reg[t].h, slot_size)] = reg[t].c
      BY <2>1 DEF HInv, Window
    <3>2. reg[t].c \in Ctx /\ reg[t].h \in Handle
      BY <2>1 DEF Types, LauncherTypes
    <3>3. reg[t].c # NULL
      BY <3>2, NullTypes
    <3>4. Hash(reg[t].h, slot_size) \in DOMAIN slot
      <4>1. reg[t].h \in Nat /\ slot_size \in Nat \ {0}
        BY <3>2, HandleTypes, Sizes DEF Types, StoreTypes
      <4>. QED BY <4>1, HashRange DEF Types, StoreTypes, Table
    <3>. QED BY <1>1, <3>1, <3>3, <3>4
  <2>. QED BY <2>1 DEF Window
<1>3. Placed'
  BY <1>1 DEF HInv, Placed
<1>4. Registered' \subseteq Registered
  BY <1>1 DEF Registered
<1>. QED BY <1>1, <1>2, <1>3, <1>4 DEF HInv, Distinct, FailsOnlyAtLimits, InWindow

\* ... and so it spoils no pass of skynet_handle_retireall that goes on meanwhile.
LEMMA RetireSwept ==
    ASSUME NEW k \in Aborter, Swept(k), InWindow' = InWindow,
           Registered' \subseteq Registered, DOMAIN slot' = DOMAIN slot,
           \A i \in DOMAIN slot : slot'[i] # NULL => slot'[i] = slot[i],
           UNCHANGED <<handle, pc[k], seen[k], index[k], n[k], late[k]>>
    PROVE  Swept(k)'
<1>1. ASSUME pc[k] \in {"scan", "seen"}, n[k] = 0, NEW i \in DOMAIN slot, i < index[k],
             slot'[i] # NULL
      PROVE  slot'[i] \in late[k] \/ (pc[k] = "seen" /\ handle[slot'[i]] = seen[k])
  <2>1. slot'[i] = slot[i] /\ slot[i] # NULL
    BY <1>1
  <2>2. slot[i] \in late[k] \/ (pc[k] = "seen" /\ handle[slot[i]] = seen[k])
    BY <1>1, <2>1 DEF Swept
  <2>. QED BY <2>1, <2>2
<1>2. pc[k] = "done" => Registered' \subseteq late[k]
  BY DEF Swept
<1>3. pc[k] \in {"scan", "seen"} => InWindow' \subseteq late[k]
  BY DEF Swept
<1>. QED BY <1>1, <1>2, <1>3 DEF Swept

\* Steps that leave the table and the handles alone.
LEMMA StoreInv ==
    ASSUME HInv, UNCHANGED <<slot_size, slot, handle_index, handle, failed, reg>>
    PROVE  /\ Distinct' /\ Window' /\ Placed' /\ FailsOnlyAtLimits'
           /\ InWindow' = InWindow /\ Registered' = Registered
  BY DEF HInv, Distinct, Window, Placed, FailsOnlyAtLimits, InWindow, Registered

LEMMA SameSwept ==
    ASSUME NEW k \in Aborter, Swept(k), InWindow' = InWindow, Registered' = Registered,
           UNCHANGED <<slot, handle, pc[k], seen[k], index[k], n[k], late[k]>>
    PROVE  Swept(k)'
  BY DEF Swept

LEMMA StoreHandleInv ==
    ASSUME Types, HInv, NEW t \in Launcher, StoreHandle(t)
    PROVE  HInv'
<1>1. reg[t] # NULL /\ reg[t].c \in Ctx /\ reg[t].h \in Handle
  BY DEF StoreHandle, Types, LauncherTypes
<1>2. PICK c \in Ctx, h \in Handle : c = reg[t].c /\ h = reg[t].h
  BY <1>1
<1>3. /\ handle'[c] = h /\ \A d \in Ctx : d # c => handle'[d] = handle[d]
      /\ reg'[t] = NULL /\ \A u \in Launcher : u # t => reg'[u] = reg[u]
      /\ UNCHANGED <<slot_size, slot, handle_index, failed, pass>>
  BY <1>2 DEF StoreHandle, Types, StoreTypes, LauncherTypes
<1>4. h # 0 /\ handle[c] = 0
  BY <1>1, <1>2, HandleTypes DEF HInv, Window
<1>5. \A i \in DOMAIN slot : slot[i] \in Ctx \cup {NULL}
  BY DEF Types, StoreTypes, Table
<1>b. ASSUME NEW u \in Launcher, u # t, reg[u] # NULL
      PROVE  reg'[u] = reg[u] /\ reg[u].c \in Ctx /\ reg[u].c # c
  BY <1>1, <1>2, <1>3, <1>b DEF HInv, Distinct, Types, LauncherTypes
<1>6. Window' /\ Distinct'
  <2>1. ASSUME NEW u \in Launcher, reg'[u] # NULL
        PROVE  u # t /\ reg[u] # NULL /\ reg'[u] = reg[u]
    BY <1>3, <2>1
  <2>2. Distinct'
    BY <2>1 DEF HInv, Distinct
  <2>3. Window'
    BY <1>3, <1>b, <2>1 DEF HInv, Window
  <2>. QED BY <2>2, <2>3
<1>7. Placed'
  <2>1. ASSUME NEW i \in DOMAIN slot, slot[i] # NULL
        PROVE  \/ handle'[slot[i]] # 0 /\ Hash(handle'[slot[i]], slot_size) = i
               \/ \E u \in Launcher : /\ reg'[u] # NULL /\ reg'[u].c = slot[i]
                                      /\ Hash(reg'[u].h, slot_size) = i
    <3>1. CASE slot[i] = c
      <4>1. \E u \in Launcher : reg[u] # NULL /\ reg[u].c = c /\ Hash(reg[u].h, slot_size) = i
        BY <1>4, <2>1, <3>1 DEF HInv, Placed
      <4>2. Hash(h, slot_size) = i
        BY <1>2, <1>b, <4>1
      <4>. QED BY <1>3, <1>4, <3>1, <4>2
    <3>2. CASE slot[i] # c
      <4>1. handle'[slot[i]] = handle[slot[i]]
        BY <1>3, <1>5, <2>1, <3>2
      <4>2. ASSUME NEW u \in Launcher, reg[u] # NULL, reg[u].c = slot[i]
            PROVE  reg'[u] = reg[u]
        BY <1>2, <1>3, <3>2, <4>2
      <4>. QED BY <2>1, <4>1, <4>2 DEF HInv, Placed
    <3>. QED BY <3>1, <3>2
  <2>. QED BY <1>3, <2>1 DEF Placed
<1>8. ASSUME NEW k \in Aborter PROVE Swept(k)'
  <2>1. /\ Swept(k) /\ InWindow' \subseteq InWindow /\ Registered' = Registered
    BY <1>3 DEF HInv, AllSwept, InWindow, Registered
  <2>2. pc'[k] = pc[k] /\ UNCHANGED <<seen, index, n, late>>
    BY <1>3, StorageAssumption DEF StoreHandle, Types, LauncherTypes, Thread, pass
  <2>3. ASSUME pc[k] \in {"scan", "seen"}, n[k] = 0, NEW i \in DOMAIN slot, i < index[k],
               slot[i] # NULL
        PROVE  slot[i] \in late[k] \/ (pc[k] = "seen" /\ handle'[slot[i]] = seen[k])
    <3>1. slot[i] \in late[k] \/ (pc[k] = "seen" /\ handle[slot[i]] = seen[k])
      BY <2>1, <2>3 DEF Swept
    <3>2. CASE pc[k] = "seen" /\ handle[slot[i]] = seen[k]
      <4>1. seen[k] # 0
        BY <2>1, <3>2 DEF Swept
      <4>2. slot[i] # c /\ slot[i] \in Ctx
        BY <1>4, <1>5, <2>3, <3>2, <4>1
      <4>. QED BY <1>3, <3>2, <4>2
    <3>. QED BY <3>1, <3>2
  <2>. QED BY <1>3, <2>1, <2>2, <2>3 DEF Swept
<1>9. FailsOnlyAtLimits'
  BY <1>3 DEF HInv, FailsOnlyAtLimits
<1>. QED BY <1>6, <1>7, <1>8, <1>9 DEF HInv, AllSwept

LEMMA ScanSlotSwept ==
    ASSUME Types, HInv, NEW k \in Aborter, ScanSlot(k)
    PROVE  Swept(k)'
<1>1. /\ pc[k] = "scan" /\ index[k] \in Nat /\ index'[k] = index[k] + 1
      /\ UNCHANGED <<store, reg, n, late>> /\ Swept(k)
      /\ index[k] \in DOMAIN slot /\ DOMAIN slot \subseteq Nat
  <2>1. slot_size \in Nat /\ DOMAIN slot = 0..(slot_size - 1) /\ index[k] \in Nat
    BY Sizes DEF Types, StoreTypes, Table, AborterTypes
  <2>. QED BY <2>1 DEF ScanSlot, Types, AborterTypes, HInv, AllSwept
<1>2. InWindow' = InWindow /\ Registered' = Registered
  BY <1>1, StoreInv DEF store
<1>3. PICK c : c = slot[index[k]]
  OBVIOUS
<1>4. InWindow \subseteq late[k] /\ (n[k] = 0 => \A i \in DOMAIN slot :
         i < index[k] /\ slot[i] # NULL => slot[i] \in late[k])
  BY <1>1 DEF Swept
<1>5. \A i \in DOMAIN slot : i < index[k] + 1 => i < index[k] \/ i = index[k]
  BY <1>1
<1>6. UNCHANGED <<slot, handle>>
  BY <1>1 DEF store
<1>7. CASE c # NULL /\ handle[c] # 0
  <2>1. seen'[k] = handle[c] /\ pc'[k] = "seen"
    BY <1>3, <1>7, StorageAssumption DEF ScanSlot, Types, AborterTypes, LauncherTypes, Thread
  <2>2. ASSUME n[k] = 0, NEW i \in DOMAIN slot, i < index[k] + 1, slot[i] # NULL
        PROVE  slot[i] \in late[k] \/ handle[slot[i]] = seen'[k]
    BY <1>3, <1>4, <1>5, <2>1, <2>2
  <2>. QED BY <1>1, <1>2, <1>4, <1>6, <1>7, <2>1, <2>2 DEF Swept
<1>8. CASE ~(c # NULL /\ handle[c] # 0)
  <2>1. pc'[k] = "scan"
    BY <1>1, <1>3, <1>8 DEF ScanSlot
  <2>2. c # NULL => c \in late[k]
    <3>1. SUFFICES ASSUME c # NULL PROVE c \in late[k]
      OBVIOUS
    <3>2. handle[c] = 0
      BY <1>8, <3>1
    <3>3. PICK t \in Launcher : reg[t] # NULL /\ reg[t].c = c
      BY <1>1, <1>3, <3>1, <3>2 DEF HInv, Placed
    <3>4. c \in InWindow
      BY <3>3 DEF InWindow
    <3>. QED BY <1>4, <3>4
  <2>3. ASSUME n[k] = 0, NEW i \in DOMAIN slot, i < index[k] + 1, slot[i] # NULL
        PROVE  slot[i] \in late[k]
    BY <1>3, <1>4, <1>5, <2>2, <2>3
  <2>. QED BY <1>1, <1>2, <1>4, <1>6, <2>1, <2>3 DEF Swept
<1>. QED BY <1>7, <1>8

LEMMA RetireSeenSwept ==
    ASSUME Types, HInv, NEW k \in Aborter, RetireSeen(k)
    PROVE  Swept(k)'
<1>1. /\ pc[k] = "seen" /\ pc'[k] = "scan" /\ Swept(k)
      /\ n'[k] = IF Grab(seen[k]) # NULL THEN 1 ELSE n[k]
      /\ seen[k] \in {0} \cup Handle /\ RetireHandle(seen[k])
      /\ UNCHANGED <<slot_size, handle, handle_index, failed, reg, index, late>>
  BY StorageAssumption DEF RetireSeen, Types, AborterTypes, LauncherTypes, Thread, HInv, AllSwept
<1>2. /\ InWindow' = InWindow /\ DOMAIN slot' = DOMAIN slot
      /\ \A i \in DOMAIN slot : slot'[i] # NULL => slot'[i] = slot[i]
  BY <1>1, RetireInv
<1>3. InWindow' \subseteq late'[k]
  BY <1>1, <1>2 DEF Swept
<1>4. ASSUME n'[k] = 0, NEW i \in DOMAIN slot, i < index[k], slot'[i] # NULL
      PROVE  slot'[i] \in late[k]
  <2>1. Grab(seen[k]) = NULL /\ n[k] = 0
    BY <1>1, <1>4
  <2>2. slot'[i] = slot[i] /\ slot[i] # NULL
    BY <1>2, <1>4
  <2>3. slot[i] \in late[k] \/ handle[slot[i]] = seen[k]
    BY <1>1, <1>4, <2>1, <2>2 DEF Swept
  <2>4. ASSUME handle[slot[i]] = seen[k] PROVE FALSE
    <3>1. seen[k] # 0
      BY <1>1 DEF Swept
    <3>2. Grab(seen[k]) = slot[i]
      BY <2>2, <2>4, <3>1, PlacedFound DEF HInv
    <3>. QED BY <2>1, <2>2, <3>2
  <2>. QED BY <2>2, <2>3, <2>4
<1>. QED BY <1>1, <1>2, <1>3, <1>4 DEF Swept

LEMMA PassEndSwept ==
    ASSUME Types, HInv, NEW k \in Aborter, PassEnd(k)
    PROVE  Swept(k)'
<1>1. /\ pc[k] = "scan" /\ index[k] >= slot_size /\ index'[k] = 0 /\ Swept(k)
      /\ n[k] \in {0, 1} /\ UNCHANGED <<store, reg, seen>>
  BY DEF PassEnd, Types, AborterTypes, HInv, AllSwept
<1>2. InWindow' = InWindow /\ Registered' = Registered
  BY <1>1, StoreInv DEF store
<1>3. \A i \in DOMAIN slot : i < index[k] /\ ~(i < 0)
  <2>1. slot_size \in Nat /\ DOMAIN slot = 0..(slot_size - 1) /\ index[k] \in Nat
    BY Sizes DEF Types, StoreTypes, Table, AborterTypes
  <2>. QED BY <1>1, <2>1
<1>4. CASE n[k] > 0
  <2>1. late'[k] = InWindow /\ pc'[k] = "scan"
    BY <1>1, <1>4 DEF PassEnd, Types, AborterTypes
  <2>. QED BY <1>1, <1>2, <1>3, <2>1 DEF Swept, store
<1>5. CASE ~(n[k] > 0)
  <2>1. pc'[k] = "done" /\ late' = late /\ n[k] = 0
    BY <1>1, <1>5, StorageAssumption DEF PassEnd, Types, LauncherTypes, Thread
  <2>2. \A i \in DOMAIN slot : slot[i] # NULL => slot[i] \in late[k]
    BY <1>1, <1>3, <2>1 DEF Swept
  <2>3. Registered \subseteq late[k]
    BY <2>2 DEF Registered
  <2>. QED BY <1>2, <2>1, <2>3 DEF Swept
<1>. QED BY <1>4, <1>5

\* A pass that begins: nothing has been read yet.
LEMMA RetireAllSwept ==
    ASSUME Types, HInv, NEW k \in Aborter, RetireAll(k)
    PROVE  Swept(k)'
<1>1. /\ pc'[k] = "scan" /\ index'[k] = 0 /\ late'[k] = InWindow
      /\ UNCHANGED <<store, reg, seen>>
  BY StorageAssumption DEF RetireAll, Types, AborterTypes, LauncherTypes, Thread
<1>2. InWindow' = InWindow /\ Registered' = Registered
  BY <1>1, StoreInv DEF store
<1>3. \A i \in DOMAIN slot : ~(i < 0)
  BY Sizes DEF Types, StoreTypes, Table
<1>. QED BY <1>1, <1>2, <1>3 DEF Swept, store

LEMMA HInvNext ==
    ASSUME Types, HInv, [Next]_vars, [QuietExpansion]_vars
    PROVE  HInv'
<1>. USE DEF HInv
<1>0. Launcher \cap Aborter = {} /\ Launcher \subseteq Thread /\ Aborter \subseteq Thread
      /\ DOMAIN pc = Thread
  BY StorageAssumption DEF Thread, Types, LauncherTypes
<1>1. ASSUME NEW t \in Launcher, Register(t) PROVE HInv'
  BY <1>1, RegisterPlaces, SlotSource, PlacingInv
<1>2. ASSUME NEW t \in Launcher, RegisterExpand(t) PROVE HInv'
  <2>1. InWindow = {}
    <3>1. slot_size' # slot_size \/ failed' # failed
      <4>1. CASE Stops(t)
        BY <4>1 DEF Stops
      <4>2. ASSUME NEW c \in Ctx, Placing(t, c, Rehashed, 2 * slot_size)
            PROVE  slot_size' # slot_size
        BY <4>2, Sizes DEF Placing, Types, StoreTypes
      <4>. QED BY <1>2, <4>1, <4>2, ExpandPlaces
    <3>. QED BY <3>1 DEF QuietExpansion, vars, store
  <2>2. CASE Stops(t)
    <3>1. FailsOnlyAtLimits'
      BY <2>1, <2>2, StopsAtLimit
    <3>2. Distinct' /\ Window' /\ Placed'
      BY <2>2 DEF Stops, Distinct, Window, Placed
    <3>3. AllSwept'
      <4>1. SUFFICES ASSUME NEW k \in Aborter PROVE Swept(k)'
        BY DEF AllSwept
      <4>2. Swept(k) /\ InWindow' = InWindow /\ Registered' = Registered
        BY <2>2 DEF Stops, AllSwept, InWindow, Registered
      <4>. QED BY <2>2, <4>2, SameSwept DEF Stops
    <3>. QED BY <3>1, <3>2, <3>3
  <2>3. ASSUME FirstBad = {}, NEW c \in Ctx, Placing(t, c, Rehashed, 2 * slot_size)
        PROVE  HInv'
    BY <2>1, <2>3, RehashedSource, PlacingInv
  <2>. QED BY <1>2, <2>2, <2>3, ExpandPlaces
<1>3. ASSUME NEW t \in Launcher, StoreHandle(t) PROVE HInv'
  BY <1>3, StoreHandleInv
\* The steps of one pass of retireall leave the others alone.
<1>a. ASSUME NEW k \in Aborter, Swept(k)', NEW ps, pc' = [pc EXCEPT ![k] = ps],
             UNCHANGED <<store, reg>>,
             \A j \in Aborter \ {k} : /\ seen'[j] = seen[j] /\ index'[j] = index[j]
                                      /\ n'[j] = n[j] /\ late'[j] = late[j]
      PROVE  HInv'
  <2>1. /\ Distinct' /\ Window' /\ Placed' /\ FailsOnlyAtLimits'
        /\ InWindow' = InWindow /\ Registered' = Registered
    BY <1>a, StoreInv DEF store
  <2>2. ASSUME NEW j \in Aborter PROVE Swept(j)'
    <3>1. CASE j = k
      BY <1>a, <3>1
    <3>2. CASE j # k
      <4>1. pc'[j] = pc[j] /\ UNCHANGED <<slot, handle>> /\ Swept(j)
        BY <1>0, <1>a, <3>2 DEF store, AllSwept
      <4>. QED BY <1>a, <2>1, <3>2, <4>1, SameSwept
    <3>. QED BY <3>1, <3>2
  <2>. QED BY <2>1, <2>2 DEF AllSwept
<1>4. ASSUME NEW k \in Aborter, RetireAll(k) PROVE HInv'
  BY <1>4, <1>a, RetireAllSwept DEF RetireAll, Types, AborterTypes
<1>5. ASSUME NEW k \in Aborter, ScanSlot(k) PROVE HInv'
  <2>1. pc' = [pc EXCEPT ![k] = pc'[k]]
    <3>1. pc' = pc \/ pc' = [pc EXCEPT ![k] = "seen"]
      BY <1>5 DEF ScanSlot
    <3>. QED BY <1>0, <3>1 DEF Types, LauncherTypes
  <2>2. \A j \in Aborter \ {k} : seen'[j] = seen[j]
    BY <1>5 DEF ScanSlot, Types, AborterTypes
  <2>. QED BY <1>5, <1>a, <2>1, <2>2, ScanSlotSwept DEF ScanSlot, Types, AborterTypes
<1>6. ASSUME NEW k \in Aborter, RetireSeen(k) PROVE HInv'
  <2>1. /\ RetireHandle(seen[k]) /\ seen[k] \in {0} \cup Handle
        /\ UNCHANGED <<slot_size, handle_index, handle, failed, reg, index, late>>
    BY <1>6 DEF RetireSeen, Types, AborterTypes
  <2>2. /\ Distinct' /\ Window' /\ Placed' /\ FailsOnlyAtLimits'
        /\ InWindow' = InWindow /\ Registered' \subseteq Registered
        /\ DOMAIN slot' = DOMAIN slot
        /\ \A i \in DOMAIN slot : slot'[i] # NULL => slot'[i] = slot[i]
    BY <2>1, RetireInv
  <2>3. ASSUME NEW j \in Aborter PROVE Swept(j)'
    <3>1. CASE j = k
      BY <1>6, <3>1, RetireSeenSwept
    <3>2. CASE j # k
      <4>1. UNCHANGED <<pc[j], seen[j], n[j], index[j], late[j]>> /\ Swept(j)
        BY <1>0, <1>6, <3>2 DEF RetireSeen, Types, AborterTypes, AllSwept
      <4>. QED BY <2>1, <2>2, <4>1, RetireSwept
    <3>. QED BY <3>1, <3>2
  <2>. QED BY <2>2, <2>3 DEF AllSwept
<1>7. ASSUME NEW k \in Aborter, PassEnd(k) PROVE HInv'
  <2>1. pc' = [pc EXCEPT ![k] = pc'[k]]
    <3>1. pc' = pc \/ pc' = [pc EXCEPT ![k] = "done"]
      BY <1>7 DEF PassEnd
    <3>. QED BY <1>0, <3>1 DEF Types, LauncherTypes
  <2>2. \A j \in Aborter \ {k} : late'[j] = late[j]
    BY <1>7 DEF PassEnd, Types, AborterTypes
  <2>. QED BY <1>7, <1>a, <2>1, <2>2, PassEndSwept DEF PassEnd, Types, AborterTypes
<1>8. ASSUME NEW k \in Aborter, RetireAllReturn(k) PROVE HInv'
  <2>1. pc'[k] = "idle"
    BY <1>0, <1>8 DEF RetireAllReturn
  <2>2. Swept(k)'
    BY <2>1 DEF Swept
  <2>. QED BY <1>8, <1>a, <2>2 DEF RetireAllReturn, Types, AborterTypes
<1>9. CASE Retire
  <2>1. PICK h \in Known : RetireHandle(h)
    BY <1>9 DEF Retire
  <2>2. h \in {0} \cup Handle
    BY KnownHandles
  <2>3. UNCHANGED <<slot_size, handle_index, handle, failed, pc, reg, pass>>
    BY <1>9 DEF Retire
  <2>4. /\ Distinct' /\ Window' /\ Placed' /\ FailsOnlyAtLimits'
        /\ InWindow' = InWindow /\ Registered' \subseteq Registered
        /\ DOMAIN slot' = DOMAIN slot
        /\ \A i \in DOMAIN slot : slot'[i] # NULL => slot'[i] = slot[i]
    BY <2>1, <2>2, <2>3, RetireInv
  <2>5. ASSUME NEW j \in Aborter PROVE Swept(j)'
    BY <2>3, <2>4, RetireSwept DEF pass, AllSwept
  <2>. QED BY <2>4, <2>5 DEF AllSwept
<1>10. ASSUME UNCHANGED <<slot_size, slot, handle_index, handle, failed, pc, reg, pass>>
       PROVE  HInv'
  <2>1. /\ Distinct' /\ Window' /\ Placed' /\ FailsOnlyAtLimits'
        /\ InWindow' = InWindow /\ Registered' = Registered
    BY <1>10, StoreInv
  <2>2. ASSUME NEW j \in Aborter PROVE Swept(j)'
    BY <1>10, <2>1, SameSwept DEF pass, AllSwept
  <2>. QED BY <2>1, <2>2 DEF AllSwept
<1>11. CASE NameHandle
  BY <1>10, <1>11 DEF NameHandle
<1>12. CASE UNCHANGED vars
  BY <1>10, <1>12 DEF vars, store
<1>. QED BY <1>1, <1>2, <1>3, <1>4, <1>5, <1>6, <1>7, <1>8, <1>9, <1>11, <1>12 DEF Next

LEMMA QuietInvariant ==
    Spec /\ [][QuietExpansion]_vars => [](Types /\ NamesSorted /\ HInv)
<1>1. Init => HInv
  BY InitInv
<1>2. Types /\ HInv /\ [Next]_vars /\ [QuietExpansion]_vars => HInv'
  BY HInvNext
<1>. QED BY <1>1, <1>2, TypesInvariant, PTL DEF Spec

\* However many threads launch services: unless skynet_handle_register doubles the
\* table (or gives up) between another thread's skynet_handle_register and the store
\* of its result in skynet_context_new, every service that knows its handle is found
\* under it, a call of skynet_handle_retireall misses no service that was there, and
\* the process stops only at the limits.  That step is the only one that goes wrong
\* in the run handle_race.
THEOREM QuietCorrect ==
    Spec /\ [][QuietExpansion]_vars => [](Resolvable /\ RetireAllComplete /\ FailsOnlyAtLimits)
<1>1. Types /\ NamesSorted /\ HInv => Resolvable
  <2>1. SUFFICES ASSUME Types, NamesSorted, HInv PROVE Resolvable
    OBVIOUS
  <2>2. ASSUME NEW c \in Registered, handle[c] # 0 PROVE Grab(handle[c]) = c
    <3>1. PICK i \in DOMAIN slot : slot[i] = c /\ c # NULL
      BY DEF Registered
    <3>. QED BY <2>1, <2>2, <3>1, PlacedFound DEF HInv
  <2>. QED BY <2>1, <2>2, TypesOK DEF Resolvable
<1>2. HInv => RetireAllComplete /\ FailsOnlyAtLimits
  BY DEF HInv, AllSwept, Swept, RetireAllComplete
<1>. QED BY <1>1, <1>2, QuietInvariant, PTL

-----------------------------------------------------------------------------
(* One launching thread: the launcher service launches one service after the *)
(* other.                                                                    *)

OneLauncher == \A t, u \in Launcher : t = u

LEMMA OneLauncherStep ==
    ASSUME OneLauncher, Types, [Next]_vars PROVE [QuietExpansion]_vars
<1>1. ASSUME NEW t \in Launcher, pc[t] = "idle" PROVE InWindow = {}
  <2>1. reg[t] = NULL
    BY <1>1 DEF Types, LauncherTypes
  <2>2. \A u \in Launcher : u = t
    BY DEF OneLauncher
  <2>. QED BY <2>1, <2>2 DEF InWindow
<1>2. ASSUME NEW t \in Launcher, RegisterExpand(t) PROVE QuietExpansion
  BY <1>1, <1>2 DEF RegisterExpand, QuietExpansion
<1>3. ASSUME UNCHANGED <<slot_size, failed>> PROVE QuietExpansion
  BY <1>3 DEF QuietExpansion
<1>4. ASSUME NEW t \in Launcher, Register(t) \/ StoreHandle(t) PROVE QuietExpansion
  BY <1>3, <1>4 DEF Register, StoreHandle
<1>5. ASSUME NEW k \in Aborter, RetireAll(k) \/ ScanSlot(k) \/ RetireSeen(k) \/ PassEnd(k)
                                \/ RetireAllReturn(k)
      PROVE  QuietExpansion
  BY <1>3, <1>5 DEF RetireAll, ScanSlot, RetireSeen, PassEnd, RetireAllReturn, store
<1>6. CASE Retire \/ NameHandle
  BY <1>3, <1>6 DEF Retire, NameHandle
<1>. QED BY <1>2, <1>4, <1>5, <1>6 DEF Next

LEMMA OneLauncherQuiet ==
    ASSUME OneLauncher PROVE Spec => [][QuietExpansion]_vars
<1>1. Types /\ [Next]_vars => [QuietExpansion]_vars
  BY OneLauncherStep
<1>. QED BY <1>1, TypesInvariant, PTL DEF Spec

\* With one thread that launches services, a service that knows its handle is found
\* under it by skynet_handle_grab, for every size of the handle space and of the
\* table, through every wrap of handle_index, every doubling of the table in
\* skynet_handle_register and every retirement.
THEOREM AlwaysResolvable ==
    ASSUME OneLauncher PROVE Spec => []Resolvable
BY OneLauncherQuiet, QuietCorrect, PTL

\* When skynet_handle_retireall returns, every service still registered came, or
\* stored its handle, after its last pass began, although the lock is released
\* between the read of a slot and the retirement, the table may double under the
\* scan, and other threads register and retire meanwhile.
THEOREM RetireAllCompletes ==
    ASSUME OneLauncher PROVE Spec => []RetireAllComplete
BY OneLauncherQuiet, QuietCorrect, PTL

\* With one launching thread, skynet_handle_register stops the process only at the
\* limit of the handle space, or where its loop steps over handle 0.
THEOREM FailsAtLimits ==
    ASSUME OneLauncher PROVE Spec => []FailsOnlyAtLimits
BY OneLauncherQuiet, QuietCorrect, PTL

\* With one launching thread, the assertion of the copying loop holds: doubling the
\* table never moves two contexts into one slot.  (With two, the run
\* handle_race violates it.)
THEOREM RehashAsserted ==
    ASSUME OneLauncher PROVE Spec => []RehashAssertion
<1>1. FailsOnlyAtLimits => RehashAssertion
  BY DEF FailsOnlyAtLimits, RehashAssertion
<1>. QED BY <1>1, FailsAtLimits, PTL
=============================================================================
