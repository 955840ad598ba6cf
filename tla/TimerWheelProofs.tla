-------------------------- MODULE TimerWheelProofs --------------------------
(***************************************************************************)
(* Proofs about the timer wheel, for any number and size of the levels.    *)
(***************************************************************************)
EXTENDS TimerWheel, TLAPS, FiniteSetTheorems, SequenceTheorems

-----------------------------------------------------------------------------
(* Induction along an interval.                                             *)

\* A set of natural numbers that is not empty has a least element.
LEMMA LeastElement ==
    ASSUME NEW X \in SUBSET Nat, X # {}
    PROVE  \E x \in X : \A y \in X : x <= y
<1>. DEFINE T == {0..x : x \in X}
            R == StrictSubsetOrdering(Nat)
<1>1. T \subseteq FiniteSubsetsOf(Nat) /\ T # {}
  <2>1. ASSUME NEW x \in X PROVE 0..x \in SUBSET Nat /\ IsFiniteSet(0..x)
    BY FS_Interval
  <2>. QED BY <2>1 DEF FiniteSubsetsOf
<1>2. PICK t \in T : \A u \in T : <<u, t>> \notin R
  <2>1. IsWellFoundedOn(R, FiniteSubsetsOf(Nat))
    BY FS_StrictSubsetOrderingWellFounded
  <2>. HIDE DEF T, R
  <2>. QED BY <1>1, <2>1, WFMin
<1>3. PICK x \in X : t = 0..x
  BY <1>2
<1>4. ASSUME NEW y \in X, y < x PROVE FALSE
  <2>1. 0..y \in T /\ 0..y \subseteq Nat /\ 0..x \subseteq Nat
    OBVIOUS
  <2>2. x \in 0..x /\ x \notin 0..y
    BY <1>4
  <2>3. 0..y \subseteq 0..x
    BY <1>4
  <2>4. <<0..y, 0..x>> \in R
    BY <2>1, <2>2, <2>3 DEF StrictSubsetOrdering
  <2>. QED BY <1>2, <1>3, <2>1, <2>4
<1>. QED BY <1>4, SMT

LEMMA Along ==
    ASSUME NEW L \in Nat, NEW X, 0 \in X, \A i \in 1..L : i - 1 \in X => i \in X
    PROVE  0..L \subseteq X
<1>1. SUFFICES ASSUME (0..L) \ X # {} PROVE FALSE
  OBVIOUS
<1>2. PICK i \in (0..L) \ X : \A j \in (0..L) \ X : i <= j
  <2>1. (0..L) \ X \in SUBSET Nat
    OBVIOUS
  <2>. QED BY <1>1, <2>1, LeastElement
<1>3. i \in 1..L /\ i - 1 \in 0..L
  BY <1>2
<1>4. i - 1 \in X
  BY <1>2, <1>3
<1>. QED BY <1>2, <1>3, <1>4

\* A function that is defined along an interval exists.
Recursive(V, base, L, step) ==
    \E G \in [0..L -> V] : G[0] = base /\ \A i \in 1..L : G[i] = step[<<G[i - 1], i>>]

LEMMA Recursion ==
    ASSUME NEW V, NEW base \in V, NEW L \in Nat, NEW step,
           \A v \in V : \A i \in 1..L : step[<<v, i>>] \in V
    PROVE  Recursive(V, base, L, step)
<1>. DEFINE Upto(G, m) == \A i \in 1..m : G[i] = step[<<G[i - 1], i>>]
            X == {m \in 0..L : \E G \in [0..L -> V] : G[0] = base /\ Upto(G, m)}
<1>1. 0 \in X
  <2>1. PICK G \in [0..L -> V] : G = [i \in 0..L |-> base]
    OBVIOUS
  <2>2. G[0] = base /\ Upto(G, 0)
    BY <2>1
  <2>. HIDE DEF Upto
  <2>. QED BY <2>2
<1>2. ASSUME NEW m \in 1..L, m - 1 \in X PROVE m \in X
  <2>1. PICK G \in [0..L -> V] : G[0] = base /\ Upto(G, m - 1)
    BY <1>2
  <2>. DEFINE H == [G EXCEPT ![m] = step[<<G[m - 1], m>>]]
  <2>2. G[m - 1] \in V /\ step[<<G[m - 1], m>>] \in V
    <3>1. m - 1 \in 0..L
      OBVIOUS
    <3>. QED BY <3>1
  <2>3. H \in [0..L -> V] /\ H[0] = base
    BY <2>1, <2>2
  <2>4. ASSUME NEW i \in 1..m PROVE H[i] = step[<<H[i - 1], i>>]
    <3>1. H[i - 1] = G[i - 1]
      OBVIOUS
    <3>2. CASE i = m
      BY <3>1, <3>2
    <3>3. CASE i # m
      <4>1. i \in 1..(m - 1) /\ H[i] = G[i]
        BY <3>3
      <4>. QED BY <2>1, <3>1, <4>1
    <3>. QED BY <3>2, <3>3
  <2>5. Upto(H, m)
    BY <2>4
  <2>. HIDE DEF Upto, H
  <2>. QED BY <2>3, <2>5
<1>3. L \in X
  <2>. HIDE DEF X
  <2>. QED BY <1>1, <1>2, Along
<1>. QED BY <1>3 DEF Recursive

-----------------------------------------------------------------------------
(* Blocks of time.                                                          *)

\* Division with remainder.
LEMMA Euclid ==
    ASSUME NEW a \in Nat, NEW u \in Nat \ {0}
    PROVE  /\ a \div u \in Nat /\ a % u \in 0..(u - 1)
           /\ a = u * (a \div u) + (a % u)
OBVIOUS

LEMMA NonZero ==
    ASSUME NEW u \in Nat \ {0}, NEW k \in Nat \ {0} PROVE u * k \in Nat \ {0}
OBVIOUS

LEMMA Distribute ==
    ASSUME NEW u \in Nat, NEW k \in Nat, NEW p \in Nat, NEW s \in Nat
    PROVE  u * (k * p + s) = (u * k) * p + u * s
OBVIOUS

LEMMA Monotone ==
    ASSUME NEW u \in Nat, NEW a \in Nat, NEW b \in Nat, a <= b
    PROVE  u * a <= u * b /\ u * a \in Nat /\ u * b \in Nat
OBVIOUS

LEMMA Quotient ==
    ASSUME NEW u \in Nat \ {0}, NEW q \in Nat, NEW r \in 0..(u - 1)
    PROVE  (u * q + r) \div u = q /\ (u * q + r) % u = r
<1>. DEFINE a == u * q + r
            p == a \div u
            t == a % u
<1>1. u * q \in Nat /\ a \in Nat
  OBVIOUS
<1>2. p \in Nat /\ t \in 0..(u - 1) /\ a = u * p + t
  BY <1>1, Euclid
<1>3. u * p + t = u * q + r
  BY <1>2
<1>. HIDE DEF p, t, a
<1>4. CASE p = q
  <2>1. t = r
    BY <1>1, <1>2, <1>3, <1>4
  <2>. QED BY <1>4, <2>1 DEF p, t, a
<1>5. ASSUME NEW x \in Nat, NEW y \in Nat, x < y, NEW c \in 0..(u - 1), NEW d \in 0..(u - 1)
      PROVE  u * x + c < u * y + d
  <2>1. u * (x + 1) <= u * y /\ u * (x + 1) \in Nat /\ u * y \in Nat
    BY <1>5, Monotone
  <2>2. u * (x + 1) = u * x + u /\ u * x \in Nat
    OBVIOUS
  <2>. QED BY <2>1, <2>2
<1>6. p < q \/ q < p \/ p = q
  BY <1>2
<1>7. u * q + r \in Nat /\ u * p + t \in Nat
  BY <1>1, <1>2, <1>3 DEF a
<1>. QED BY <1>2, <1>3, <1>4, <1>5, <1>6, <1>7

LEMMA InBlock ==
    ASSUME NEW u \in Nat \ {0}, NEW k \in Nat \ {0},
           NEW r \in 0..(u - 1), NEW s \in 0..(k - 1)
    PROVE  u * s + r \in 0..(u * k - 1)
<1>1. u * s <= u * (k - 1) /\ u * s \in Nat
  BY Monotone
<1>2. u * (k - 1) = u * k - u
  OBVIOUS
<1>3. u * k \in Nat
  BY NonZero
<1>. QED BY <1>1, <1>2, <1>3

LEMMA SumZero ==
    ASSUME NEW u \in Nat \ {0}, NEW r \in Nat, NEW s \in Nat
    PROVE  u * s + r = 0 <=> r = 0 /\ s = 0
<1>1. CASE s = 0
  BY <1>1
<1>2. CASE s # 0
  <2>1. u * s \in Nat \ {0}
    BY <1>2, NonZero
  <2>. QED BY <1>2, <2>1
<1>. QED BY <1>1, <1>2

\* Blocks of blocks.
LEMMA Nested ==
    ASSUME NEW a \in Nat, NEW u \in Nat \ {0}, NEW k \in Nat \ {0}
    PROVE  /\ a \div (u * k) = (a \div u) \div k
           /\ a % (u * k) = 0 <=> a % u = 0 /\ (a \div u) % k = 0
<1>. DEFINE q == a \div u
            r == a % u
            p == q \div k
            s == q % k
<1>1. q \in Nat /\ r \in 0..(u - 1) /\ a = u * q + r
  BY Euclid
<1>2. p \in Nat /\ s \in 0..(k - 1) /\ q = k * p + s
  BY <1>1, Euclid
<1>. HIDE DEF q, r, p, s
<1>3. u * k \in Nat \ {0}
  BY NonZero
<1>4. u * q = (u * k) * p + u * s
  BY <1>1, <1>2, Distribute
<1>5. u * s + r \in 0..(u * k - 1)
  BY <1>1, <1>2, InBlock
<1>6. a = (u * k) * p + (u * s + r)
  BY <1>1, <1>2, <1>3, <1>4, <1>5
<1>7. a \div (u * k) = p /\ a % (u * k) = u * s + r
  BY <1>2, <1>3, <1>5, <1>6, Quotient
<1>8. u * s + r = 0 <=> r = 0 /\ s = 0
  BY <1>1, <1>2, SumZero
<1>. QED BY <1>7, <1>8 DEF q, r, p, s

\* Two times of one block are less than a block apart.
LEMMA BlockWidth ==
    ASSUME NEW a \in Nat, NEW b \in Nat, NEW u \in Nat \ {0}, a \div u = b \div u
    PROVE  a < b + u
<1>. DEFINE q == a \div u
            r == a % u
            s == b % u
<1>1. q \in Nat /\ r \in 0..(u - 1) /\ a = u * q + r
  BY Euclid
<1>2. s \in 0..(u - 1) /\ b = u * (b \div u) + s
  BY Euclid
<1>3. b = u * q + s
  BY <1>2
<1>. HIDE DEF q, r, s
<1>4. u * q \in Nat
  BY <1>1
<1>. QED BY <1>1, <1>2, <1>3, <1>4

\* The next time begins a block: nothing of the old block is ahead.
LEMMA BlockEnd ==
    ASSUME NEW c \in Nat, NEW t \in Nat, c = t + 1, NEW e \in Nat, NEW u \in Nat \ {0},
           c % u = 0, e \div u = t \div u
    PROVE  e <= t
<1>. DEFINE q == c \div u
<1>1. q \in Nat /\ c = u * q
  BY Euclid
<1>. HIDE DEF q
<1>2. q # 0 /\ q - 1 \in Nat /\ u - 1 \in 0..(u - 1)
  BY <1>1
<1>3. u * q = u * (q - 1) + u /\ u * (q - 1) \in Nat
  BY <1>1, <1>2
<1>4. t = u * (q - 1) + (u - 1)
  BY <1>1, <1>3
<1>5. t \div u = q - 1
  <2>1. (u * (q - 1) + (u - 1)) \div u = q - 1
    BY <1>2, Quotient
  <2>. QED BY <1>4, <2>1
<1>6. PICK r \in 0..(u - 1) : e = u * (q - 1) + r
  <2>1. e % u \in 0..(u - 1) /\ e = u * (e \div u) + (e % u)
    BY Euclid
  <2>. QED BY <1>5, <2>1
<1>. QED BY <1>3, <1>4, <1>6

\* The next time is in the same block.
LEMMA BlockGoesOn ==
    ASSUME NEW c \in Nat, NEW t \in Nat, c = t + 1, NEW u \in Nat \ {0}, c % u # 0
    PROVE  c \div u = t \div u
<1>. DEFINE q == c \div u
            r == c % u
<1>0. q \in Nat /\ r \in 0..(u - 1) /\ c = u * q + r
  BY Euclid
<1>. HIDE DEF q, r
<1>1. r \in 1..(u - 1)
  BY <1>0 DEF r
<1>2. t = u * q + (r - 1) /\ r - 1 \in 0..(u - 1)
  BY <1>0, <1>1
<1>3. t \div u = q
  BY <1>0, <1>2, Quotient
<1>. QED BY <1>3 DEF q

-----------------------------------------------------------------------------
(* The levels.                                                              *)

LEMMA Units ==
    /\ LEVELS \in Nat \ {0}
    /\ \A l \in 0..LEVELS : Unit[l] \in Nat \ {0}
    /\ Unit[0] = TIME_NEAR
    /\ \A l \in 1..LEVELS : Unit[l] = Unit[l - 1] * TIME_LEVEL
<1>. DEFINE V == Nat \ {0}
            step == [a \in V \X (1..LEVELS) |-> a[1] * TIME_LEVEL]
            Eq(F) == F = [l \in 0..LEVELS |->
                            IF l = 0 THEN TIME_NEAR ELSE F[l - 1] * TIME_LEVEL]
<1>0. LEVELS \in Nat \ {0} /\ TIME_NEAR \in V /\ TIME_LEVEL \in V
  BY TimerAssumption
<1>1. \A v \in V : \A i \in 1..LEVELS : step[<<v, i>>] = v * TIME_LEVEL
  OBVIOUS
<1>2. \A v \in V : v * TIME_LEVEL \in V
  BY <1>0, NonZero
<1>. HIDE DEF step, V
<1>3. PICK G \in [0..LEVELS -> V] :
        G[0] = TIME_NEAR /\ \A i \in 1..LEVELS : G[i] = step[<<G[i - 1], i>>]
  <2>1. Recursive(V, TIME_NEAR, LEVELS, step)
    BY <1>0, <1>1, <1>2, Recursion
  <2>. QED BY <2>1 DEF Recursive
<1>4. \A i \in 1..LEVELS : G[i] = G[i - 1] * TIME_LEVEL
  <2>1. ASSUME NEW i \in 1..LEVELS PROVE i - 1 \in 0..LEVELS
    BY <1>0
  <2>. QED BY <1>1, <1>3, <2>1
<1>5. Eq(G)
  <2>1. \A i \in 0..LEVELS : i = 0 \/ i \in 1..LEVELS
    BY <1>0
  <2>. QED BY <1>3, <1>4, <2>1
<1>6. Eq(Unit)
  <2>1. Unit = CHOOSE F : Eq(F)
    BY DEF Unit
  <2>. HIDE DEF Eq
  <2>. QED BY <1>5, <2>1
<1>7. \A l \in 0..LEVELS :
         Unit[l] = IF l = 0 THEN TIME_NEAR ELSE Unit[l - 1] * TIME_LEVEL
  BY <1>6
<1>8. 0 \in 0..LEVELS /\ \A l \in 1..LEVELS : l \in 0..LEVELS /\ l # 0
  BY <1>0
<1>9. 0..LEVELS \subseteq {l \in 0..LEVELS : Unit[l] \in V}
  <2>. DEFINE X == {l \in 0..LEVELS : Unit[l] \in V}
  <2>1. 0 \in X
    BY <1>0, <1>7, <1>8
  <2>2. ASSUME NEW i \in 1..LEVELS, i - 1 \in X PROVE i \in X
    BY <1>2, <1>7, <1>8, <2>2
  <2>. HIDE DEF X
  <2>3. 0..LEVELS \subseteq X
    BY <1>0, <2>1, <2>2, Along
  <2>. QED BY <2>3 DEF X
<1>10. \A l \in 0..LEVELS : Unit[l] \in V
  BY <1>9
<1>. QED BY <1>0, <1>7, <1>8, <1>10 DEF V

Time == 0..(Word - 1)

LEMMA Words ==
    /\ Word \in Nat \ {0} /\ MaxTime \in Nat /\ 2 * MaxTime + 2 <= Word
    /\ \A l \in 0..(LEVELS - 1) : 2 * Unit[l] <= Word
<1>1. LEVELS \in 0..LEVELS /\ LEVELS - 1 \in 0..LEVELS /\ LEVELS \in 1..LEVELS
  BY Units
<1>2. Word \in Nat \ {0} /\ Word = Unit[LEVELS - 1] * TIME_LEVEL
  BY <1>1, Units DEF Word
<1>3. MaxTime \in Nat /\ 2 * MaxTime + 2 <= Word
  BY <1>2, TimerAssumption
<1>4. ASSUME NEW u \in Nat \ {0} PROVE 2 * u <= u * TIME_LEVEL /\ u <= u * TIME_LEVEL
  <2>1. u * 2 <= u * TIME_LEVEL
    BY TimerAssumption, Monotone
  <2>. QED BY <2>1, TimerAssumption
<1>5. ASSUME NEW l \in 0..(LEVELS - 1) PROVE Unit[l] <= Unit[LEVELS - 1]
  <2>. DEFINE X == {i \in 0..(LEVELS - 1) : \A k \in 0..i : Unit[k] <= Unit[i]}
  <2>1. 0 \in X
    BY Units
  <2>2. ASSUME NEW i \in 1..(LEVELS - 1), i - 1 \in X PROVE i \in X
    <3>1. i \in 1..LEVELS /\ i - 1 \in 0..LEVELS /\ i \in 0..LEVELS
      BY Units
    <3>2. Unit[i - 1] <= Unit[i]
      BY <1>4, <3>1, Units
    <3>3. ASSUME NEW k \in 0..i PROVE Unit[k] <= Unit[i]
      <4>1. k = i \/ k \in 0..(i - 1)
        OBVIOUS
      <4>2. k \in 0..LEVELS
        BY <3>1, Units
      <4>3. CASE k \in 0..(i - 1)
        <5>1. Unit[k] <= Unit[i - 1]
          BY <2>2, <4>3
        <5>. QED BY <3>1, <3>2, <4>2, <5>1, Units
      <4>. QED BY <3>1, <4>1, <4>3, Units
    <3>. QED BY <2>2, <3>3
  <2>3. LEVELS - 1 \in Nat
    BY Units
  <2>. HIDE DEF X
  <2>4. 0..(LEVELS - 1) \subseteq X
    BY <2>1, <2>2, <2>3, Along
  <2>5. LEVELS - 1 \in X
    BY <2>3, <2>4
  <2>. QED BY <2>5 DEF X
<1>6. ASSUME NEW l \in 0..(LEVELS - 1) PROVE 2 * Unit[l] <= Word
  <2>1. Unit[l] \in Nat /\ Unit[LEVELS - 1] \in Nat \ {0}
    BY <1>1, Units
  <2>2. 2 * Unit[LEVELS - 1] <= Word
    BY <1>2, <1>4, <2>1
  <2>. QED BY <1>2, <1>5, <2>1, <2>2
<1>. QED BY <1>2, <1>3, <1>6

Below == 0..(LEVELS - 1)

LEMMA Levels ==
    /\ LEVELS - 1 \in Nat /\ 0 \in Below /\ LEVELS - 1 \in Below
    /\ \A l \in Below : l \in 0..LEVELS /\ l + 1 \in 1..LEVELS /\ l + 1 \in 0..LEVELS
    /\ \A l \in Below : l # LEVELS - 1 => l + 1 \in Below
  BY Units DEF Below

\* A block lies in one block of every level above.
LEMMA SameAbove ==
    ASSUME NEW a \in Nat, NEW b \in Nat, NEW l \in 0..LEVELS, NEW k \in l..LEVELS,
           SameBlock(a, b, l)
    PROVE  SameBlock(a, b, k)
<1>. DEFINE X == {i \in 0..(LEVELS - l) : SameBlock(a, b, l + i)}
<1>1. LEVELS - l \in Nat /\ k - l \in 0..(LEVELS - l) /\ l + (k - l) = k
  BY Units
<1>2. 0 \in X
  BY <1>1
<1>3. ASSUME NEW i \in 1..(LEVELS - l), i - 1 \in X PROVE i \in X
  <2>1. l + i \in 1..LEVELS /\ l + i - 1 \in 0..LEVELS /\ l + (i - 1) = l + i - 1
    BY Units
  <2>2. SameBlock(a, b, l + i - 1)
    BY <1>3, <2>1
  <2>3. Unit[l + i] = Unit[l + i - 1] * TIME_LEVEL /\ Unit[l + i - 1] \in Nat \ {0}
    BY <2>1, Units
  <2>4. TIME_LEVEL \in Nat \ {0}
    BY TimerAssumption
  <2>5. SameBlock(a, b, l + i)
    <3>1. \A x \in Nat : x \div (Unit[l + i - 1] * TIME_LEVEL)
                            = (x \div Unit[l + i - 1]) \div TIME_LEVEL
      BY <2>3, <2>4, Nested
    <3>. QED BY <2>2, <2>3, <3>1 DEF SameBlock
  <2>. QED BY <1>3, <2>5
<1>. HIDE DEF X
<1>4. k - l \in X
  BY <1>1, <1>2, <1>3, Along
<1>. QED BY <1>1, <1>4 DEF X

\* The level of the list that add_node finds.
OnLevel(e, now, l) ==
    /\ l \in Below /\ ~SameBlock(e, now, l)
    /\ l = LEVELS - 1 \/ SameBlock(e, now, l + 1)

LEMMA CellFound ==
    ASSUME NEW e \in Nat, NEW now \in Nat
    PROVE  /\ SameBlock(e, now, 0) => CellOf(e, now) = <<NEAR, e % TIME_NEAR>>
           /\ \A l : OnLevel(e, now, l) => CellOf(e, now) = <<l, Index(e, l)>>
           /\ SameBlock(e, now, 0) \/ \E l : OnLevel(e, now, l)
<1>. DEFINE ok == {l \in 0..(LEVELS - 2) : SameBlock(e, now, l + 1)}
            least == CHOOSE i \in ok : \A j \in ok : i <= j
            lev == IF ok = {} THEN LEVELS - 1 ELSE least
<1>1. CellOf(e, now) = IF SameBlock(e, now, 0) THEN <<NEAR, e % TIME_NEAR>>
                       ELSE <<lev, Index(e, lev)>>
  BY DEF CellOf
<1>2. ok \subseteq Nat /\ \A i \in ok : i \in Below /\ i + 1 \in Below /\ i # LEVELS - 1
  BY Units DEF Below
<1>3. ok # {} => least \in ok /\ \A j \in ok : least <= j
  BY <1>2, LeastElement
<1>4. ASSUME NEW l, OnLevel(e, now, l) PROVE ~SameBlock(e, now, 0) /\ lev = l
  <2>1. l \in Below /\ l \in 0..LEVELS /\ \A j \in 0..l : ~SameBlock(e, now, j)
    <3>1. l \in Below /\ ~SameBlock(e, now, l)
      BY <1>4 DEF OnLevel
    <3>2. l \in 0..LEVELS /\ \A j \in 0..l : j \in 0..LEVELS /\ l \in j..LEVELS
      BY <3>1, Units DEF Below
    <3>. QED BY <3>1, <3>2, SameAbove
  <2>2. \A j \in ok : l <= j
    <3>1. ASSUME NEW j \in ok, j < l PROVE FALSE
      <4>1. j + 1 \in 0..l /\ SameBlock(e, now, j + 1)
        BY <2>1, <3>1, Units DEF Below
      <4>. QED BY <2>1, <4>1
    <3>2. \A j \in ok : j \in Int
      BY <1>2
    <3>. QED BY <2>1, <3>1, <3>2, Units DEF Below
  <2>3. CASE l = LEVELS - 1
    <3>1. ok = {}
      BY <2>2, <2>3, Units
    <3>. QED BY <2>1, <2>3, <3>1, Units DEF Below
  <2>4. CASE l # LEVELS - 1
    <3>1. l \in ok
      BY <1>4, <2>1, <2>4, Units DEF OnLevel, Below
    <3>2. least = l
      <4>1. least \in Int /\ l \in Int /\ least <= l /\ l <= least
        BY <1>2, <1>3, <2>2, <3>1
      <4>. HIDE DEF least
      <4>. QED BY <4>1
    <3>3. 0 \in 0..l
      BY <2>1
    <3>. QED BY <2>1, <3>1, <3>2, <3>3
  <2>. QED BY <2>3, <2>4
<1>5. ASSUME ~SameBlock(e, now, 0) PROVE OnLevel(e, now, lev)
  <2>1. CASE ok = {}
    <3>1. ~SameBlock(e, now, LEVELS - 1)
      <4>1. CASE LEVELS = 1
        BY <1>5, <4>1
      <4>2. CASE LEVELS # 1
        <5>1. LEVELS - 2 \in 0..(LEVELS - 2) /\ (LEVELS - 2) + 1 = LEVELS - 1
          BY <4>2, Units
        <5>. QED BY <2>1, <5>1
      <4>. QED BY <4>1, <4>2
    <3>. QED BY <2>1, <3>1, Levels DEF OnLevel
  <2>2. CASE ok # {}
    <3>1. least \in ok /\ \A j \in ok : least <= j
      BY <1>3, <2>2
    <3>. HIDE DEF least
    <3>2. least \in 0..(LEVELS - 2) /\ SameBlock(e, now, least + 1)
      BY <3>1
    <3>3. ~SameBlock(e, now, least)
      <4>1. CASE least = 0
        BY <1>5, <4>1
      <4>2. CASE least # 0
        <5>1. least - 1 \in 0..(LEVELS - 2) /\ (least - 1) + 1 = least /\ ~(least <= least - 1)
          <6>1. LEVELS \in Int
            BY Units
          <6>. QED BY <3>2, <4>2, <6>1
        <5>2. least - 1 \notin ok
          BY <3>1, <5>1
        <5>. QED BY <5>1, <5>2
      <4>. QED BY <4>1, <4>2
    <3>. QED BY <1>2, <2>2, <3>1, <3>2, <3>3 DEF OnLevel
  <2>. QED BY <2>1, <2>2
<1>. QED BY <1>1, <1>4, <1>5

\* The list of a time is one of the lists, and only what is due now is in the list
\* that is due.
LEMMA CellFacts ==
    ASSUME NEW e \in Nat, NEW now \in Nat
    PROVE  /\ CellOf(e, now) \in Cell
           /\ CellOf(e, now) = <<NEAR, now % TIME_NEAR>> <=> e = now
<1>1. TIME_NEAR \in Nat \ {0} /\ TIME_LEVEL \in Nat \ {0} /\ Unit[0] = TIME_NEAR
  BY Units, TimerAssumption
<1>2. CASE SameBlock(e, now, 0)
  <2>1. CellOf(e, now) = <<NEAR, e % TIME_NEAR>>
    BY <1>2, CellFound
  <2>2. e % TIME_NEAR \in 0..(TIME_NEAR - 1)
    BY <1>1, Euclid
  <2>3. e % TIME_NEAR = now % TIME_NEAR <=> e = now
    <3>1. e \div TIME_NEAR = now \div TIME_NEAR
      BY <1>1, <1>2 DEF SameBlock
    <3>2. e = TIME_NEAR * (e \div TIME_NEAR) + (e % TIME_NEAR)
          /\ now = TIME_NEAR * (now \div TIME_NEAR) + (now % TIME_NEAR)
      BY <1>1, Euclid
    <3>. QED BY <3>1, <3>2
  <2>. QED BY <2>1, <2>2, <2>3 DEF Cell
<1>3. CASE ~SameBlock(e, now, 0)
  <2>1. PICK l : OnLevel(e, now, l)
    BY <1>3, CellFound
  <2>2. CellOf(e, now) = <<l, Index(e, l)>>
    BY <2>1, CellFound
  <2>3. l \in Below /\ l \in 0..(LEVELS - 1) /\ l # NEAR
    BY <2>1, Units DEF OnLevel, Below, NEAR
  <2>4. Index(e, l) \in 0..(TIME_LEVEL - 1)
    <3>1. Unit[l] \in Nat \ {0}
      BY <2>3, Levels, Units
    <3>2. e \div Unit[l] \in Nat
      BY <3>1, Euclid
    <3>. QED BY <1>1, <3>2, Euclid DEF Index
  <2>5. e # now
    BY <1>3 DEF SameBlock
  <2>. QED BY <2>2, <2>3, <2>4, <2>5 DEF Cell
<1>. QED BY <1>2, <1>3

-----------------------------------------------------------------------------
(* What a tick moves.                                                       *)

LEMMA Additions ==
    ASSUME NEW t \in Time, NEW n \in 0..MaxTime
    PROVE  /\ After(t, n) \in Time
           /\ After(t, n) = IF t + n < Word THEN t + n ELSE t + n - Word
<1>1. Word \in Nat \ {0} /\ t + n \in Nat /\ t + n < 2 * Word /\ t \in Nat /\ n \in Nat
  BY Words DEF Time
<1>2. CASE t + n < Word
  <2>1. t + n \in 0..(Word - 1) /\ t + n = Word * 0 + (t + n)
    BY <1>1, <1>2
  <2>2. (Word * 0 + (t + n)) % Word = t + n
    BY <1>1, <2>1, Quotient
  <2>. QED BY <1>2, <2>1, <2>2 DEF After, Time
<1>3. CASE ~(t + n < Word)
  <2>1. t + n - Word \in 0..(Word - 1) /\ t + n = Word * 1 + (t + n - Word)
    BY <1>1, <1>3
  <2>2. (Word * 1 + (t + n - Word)) % Word = t + n - Word
    BY <1>1, <2>1, Quotient
  <2>. QED BY <1>3, <2>1, <2>2 DEF After, Time
<1>. QED BY <1>2, <1>3

\* A timeout that shares a block with the time does not reach over the wrap.
LEMMA NoWrap ==
    ASSUME NEW t \in Time, NEW n \in 0..MaxTime, NEW l \in Below,
           SameBlock(After(t, n), t, l)
    PROVE  After(t, n) = t + n
<1>1. After(t, n) \in Nat /\ t \in Nat /\ n \in Nat /\ Unit[l] \in Nat \ {0}
  BY Additions, Words, Levels, Units DEF Time
<1>2. t < After(t, n) + Unit[l]
  BY <1>1, BlockWidth DEF SameBlock
<1>3. 2 * Unit[l] <= Word /\ 2 * MaxTime + 2 <= Word /\ Word \in Nat /\ MaxTime \in Nat
  BY Words DEF Below
<1>. QED BY <1>1, <1>2, <1>3, Additions

\* The multiples of a block of level l are those of the blocks below whose indices
\* are 0.
LEMMA BlockStarts ==
    ASSUME NEW c \in Nat, NEW l \in Below
    PROVE  c % Unit[l + 1] = 0 <=> c % Unit[l] = 0 /\ Index(c, l) = 0
<1>1. Unit[l] \in Nat \ {0} /\ Unit[l + 1] = Unit[l] * TIME_LEVEL /\ TIME_LEVEL \in Nat \ {0}
  <2>1. l \in 0..LEVELS /\ l + 1 \in 1..LEVELS /\ (l + 1) - 1 = l
    BY Levels DEF Below
  <2>. QED BY <2>1, Units, TimerAssumption
<1>2. c % (Unit[l] * TIME_LEVEL) = 0 <=> c % Unit[l] = 0 /\ (c \div Unit[l]) % TIME_LEVEL = 0
  BY <1>1, Nested
<1>. QED BY <1>1, <1>2 DEF Index

\* The level of the list that timer_shift moves.
LevelMoved(c, m) ==
    /\ m \in Below /\ Moved(c) = {<<m, Index(c, m)>>}
    /\ \A l \in 0..m : c % Unit[l] = 0
    /\ \A l \in (m + 1)..LEVELS : c % Unit[l] # 0

LEMMA MovedFound ==
    ASSUME NEW c \in Time, c # 0
    PROVE  IF c % TIME_NEAR = 0 THEN \E m : LevelMoved(c, m)
           ELSE Moved(c) = {} /\ \A l \in 0..LEVELS : c % Unit[l] # 0
<1>0. c \in Nat /\ c < Word
  BY Words DEF Time
<1>1. ASSUME NEW m \in Nat, m \in 0..LEVELS, c % Unit[m] # 0
      PROVE  \A l \in m..LEVELS : c % Unit[l] # 0
  <2>. DEFINE X == {i \in 0..(LEVELS - m) : c % Unit[m + i] # 0}
  <2>1. 0 \in X /\ LEVELS - m \in Nat
    BY <1>1, Units
  <2>2. ASSUME NEW i \in 1..(LEVELS - m), i - 1 \in X PROVE i \in X
    <3>1. m + i - 1 \in Below /\ (m + i - 1) + 1 = m + i /\ m + (i - 1) = m + i - 1
      BY Units DEF Below
    <3>2. c % Unit[m + i - 1] # 0
      BY <2>2, <3>1
    <3>3. c % Unit[m + i] # 0
      BY <1>0, <3>1, <3>2, BlockStarts
    <3>. QED BY <2>2, <3>3
  <2>. HIDE DEF X
  <2>3. 0..(LEVELS - m) \subseteq X
    BY <2>1, <2>2, Along
  <2>4. \A l \in m..LEVELS : l - m \in 0..(LEVELS - m) /\ m + (l - m) = l
    BY Units
  <2>5. \A i \in X : c % Unit[m + i] # 0
    BY DEF X
  <2>. QED BY <2>3, <2>4, <2>5
<1>2. CASE c % TIME_NEAR # 0
  <2>1. Moved(c) = {}
    BY <1>2 DEF Moved
  <2>2. 0 \in 0..LEVELS /\ c % Unit[0] # 0
    BY <1>2, Units
  <2>. QED BY <1>1, <1>2, <2>1, <2>2
<1>3. CASE c % TIME_NEAR = 0
  <2>. DEFINE P(i) == Index(c, i) # 0 /\ \A j \in 0..(i - 1) : Index(c, j) = 0
              m == CHOOSE i \in Below : P(i)
              Y == {i \in Below : Index(c, i) # 0}
  <2>1. ASSUME NEW k \in 0..LEVELS, \A j \in 0..(k - 1) : Index(c, j) = 0
        PROVE  \A l \in 0..k : c % Unit[l] = 0
    <3>. DEFINE X == {i \in 0..k : c % Unit[i] = 0}
    <3>1. 0 \in X
      BY <1>3, Units
    <3>2. ASSUME NEW i \in 1..k, i - 1 \in X PROVE i \in X
      <4>1. i - 1 \in Below /\ (i - 1) + 1 = i /\ i - 1 \in 0..(k - 1)
        BY Units DEF Below
      <4>2. c % Unit[i] = 0
        BY <1>0, <2>1, <3>2, <4>1, BlockStarts
      <4>. QED BY <3>2, <4>2
    <3>. HIDE DEF X
    <3>3. 0..k \subseteq X
      BY <3>1, <3>2, Along
    <3>. QED BY <3>3 DEF X
  <2>2. Y # {}
    <3>1. SUFFICES ASSUME Y = {} PROVE FALSE
      OBVIOUS
    <3>2. LEVELS \in 0..LEVELS
      BY Units
    <3>3. c % Word = 0
      BY <2>1, <3>1, <3>2 DEF Word, Below
    <3>4. c = Word * (c \div Word) /\ c \div Word \in Nat
      BY <1>0, <3>3, Words, Euclid
    <3>5. PICK q \in Nat : c = Word * q
      BY <3>4
    <3>6. q # 0
      BY <3>5, Words
    <3>7. Word * 1 <= Word * q /\ Word * 1 = Word
      BY <3>5, <3>6, Words, Monotone
    <3>. QED BY <1>0, <3>5, <3>7, Words
  <2>3. \E i \in Below : P(i)
    <3>1. Y \in SUBSET Nat
      BY DEF Below
    <3>2. PICK i \in Y : \A j \in Y : i <= j
      BY <2>2, <3>1, LeastElement
    <3>3. \A j \in 0..(i - 1) : j \in Below /\ ~(i <= j)
      BY Units DEF Below
    <3>. QED BY <3>2, <3>3
  <2>4. m \in Below /\ P(m)
    <3>. HIDE DEF P
    <3>. QED BY <2>3
  <2>5. Moved(c) = {<<m, Index(c, m)>>}
    BY <1>3 DEF Moved, Below
  <2>. HIDE DEF m, Y
  <2>6. m \in 0..LEVELS /\ m + 1 \in 0..LEVELS /\ m + 1 \in Nat /\ m \in 0..m
    BY <2>4, Levels DEF Below
  <2>7. \A l \in 0..m : c % Unit[l] = 0
    BY <2>1, <2>4, <2>6
  <2>8. c % Unit[m + 1] # 0
    BY <1>0, <2>4, BlockStarts
  <2>9. LevelMoved(c, m)
    BY <1>1, <2>4, <2>5, <2>6, <2>7, <2>8 DEF LevelMoved
  <2>. QED BY <1>3, <2>9
<1>. QED BY <1>2, <1>3

LEMMA IndexFacts ==
    ASSUME NEW e \in Nat, NEW l \in Below
    PROVE  <<l, Index(e, l)>> \in Cell /\ <<l, 0>> \in Cell /\ Index(0, l) = 0
<1>1. Unit[l] \in Nat \ {0} /\ TIME_LEVEL \in Nat \ {0}
  BY Levels, Units, TimerAssumption
<1>2. e \div Unit[l] \in Nat
  BY <1>1, Euclid
<1>3. Index(e, l) \in 0..(TIME_LEVEL - 1) /\ 0 \in 0..(TIME_LEVEL - 1)
  BY <1>1, <1>2, Euclid DEF Index
<1>4. 0 \div Unit[l] = 0 /\ 0 % TIME_LEVEL = 0
  BY <1>1
<1>. QED BY <1>3, <1>4 DEF Cell, Below, Index

LEMMA MovedCell ==
    ASSUME NEW c \in Time
    PROVE  Moved(c) = {} \/ \E d \in Cell : Moved(c) = {d}
<1>0. c \in Nat
  BY Words DEF Time
<1>1. CASE c = 0
  BY <1>1, Levels, IndexFacts DEF Moved
<1>2. CASE c # 0
  <2>1. Moved(c) = {} \/ \E m : LevelMoved(c, m)
    BY <1>2, MovedFound
  <2>2. ASSUME NEW m, LevelMoved(c, m) PROVE \E d \in Cell : Moved(c) = {d}
    BY <1>0, <2>2, IndexFacts DEF LevelMoved
  <2>. QED BY <2>1, <2>2
<1>. QED BY <1>1, <1>2

\* The next tick of a time at which nothing is due any more.
NextTick(t, n, e, c) ==
    /\ t \in Time /\ n \in 0..MaxTime /\ e = After(t, n) /\ e # t
    /\ c = After(t, 1)

LEMMA TickFacts ==
    ASSUME NEW t, NEW n, NEW e, NEW c, NextTick(t, n, e, c)
    PROVE  /\ t \in Nat /\ e \in Nat /\ c \in Nat /\ c \in Time /\ e \in Time
           /\ n \in 1..MaxTime /\ 1 \in 0..MaxTime
           /\ c # 0 => c = t + 1
           /\ c = 0 => t = Word - 1
           /\ e = After(c, n - 1) /\ n - 1 \in 0..MaxTime
<1>1. t \in Time /\ t \in Nat /\ n \in 0..MaxTime /\ e = After(t, n) /\ e # t
  BY Words DEF NextTick, Time
<1>2. 1 \in 0..MaxTime /\ Word \in Nat \ {0}
  BY Words, TimerAssumption
<1>3. e \in Time /\ e = IF t + n < Word THEN t + n ELSE t + n - Word
  BY <1>1, Additions
<1>4. c \in Time /\ c = IF t + 1 < Word THEN t + 1 ELSE t + 1 - Word
  BY <1>1, <1>2, Additions DEF NextTick
<1>5. t < Word
  BY <1>1, <1>2 DEF Time
<1>6. n # 0
  BY <1>1, <1>3, <1>5
<1>7. n \in 1..MaxTime /\ n - 1 \in 0..MaxTime
  BY <1>1, <1>2, <1>6, Words
<1>8. After(c, n - 1) = IF c + (n - 1) < Word THEN c + (n - 1) ELSE c + (n - 1) - Word
  BY <1>4, <1>7, Additions
<1>9. e = After(c, n - 1)
  BY <1>1, <1>2, <1>3, <1>4, <1>5, <1>7, <1>8, Words
<1>. QED BY <1>1, <1>2, <1>3, <1>4, <1>5, <1>7, <1>9 DEF Time

\* Where the next tick begins a block, nothing of the old block is still to come.
LEMMA NothingLeft ==
    ASSUME NEW t, NEW n, NEW e, NEW c, NextTick(t, n, e, c), NEW l \in Below,
           c % Unit[l] = 0
    PROVE  ~SameBlock(e, t, l)
<1>1. SUFFICES ASSUME SameBlock(e, t, l) PROVE FALSE
  OBVIOUS
<1>2. e = t + n /\ n \in 1..MaxTime /\ t \in Nat /\ e \in Nat /\ c \in Nat /\ e \in Time
  BY <1>1, TickFacts, NoWrap DEF NextTick
<1>3. Word \in Nat \ {0} /\ Unit[l] \in Nat \ {0} /\ MaxTime \in Nat
  BY Words, Levels, Units
<1>4. CASE c = 0
  BY <1>2, <1>3, <1>4, TickFacts DEF Time
<1>5. CASE c # 0
  <2>1. c = t + 1
    BY <1>5, TickFacts
  <2>2. e <= t
    BY <1>1, <1>2, <1>3, <2>1, BlockEnd DEF SameBlock
  <2>. QED BY <1>2, <1>3, <2>2
<1>. QED BY <1>4, <1>5

LEMMA SameNextTick ==
    ASSUME NEW t, NEW n, NEW e, NEW c, NextTick(t, n, e, c), NEW l \in 0..LEVELS,
           c # 0, c % Unit[l] # 0
    PROVE  SameBlock(e, c, l) <=> SameBlock(e, t, l)
<1>1. c = t + 1 /\ t \in Nat /\ c \in Nat /\ Unit[l] \in Nat \ {0}
  BY TickFacts, Units
<1>2. c \div Unit[l] = t \div Unit[l]
  BY <1>1, BlockGoesOn
<1>. QED BY <1>2 DEF SameBlock

\* The heart of the wheel: a timer that is not in the list that timer_shift moves is
\* still in the list that add_node would choose for it.
LEMMA Stays ==
    ASSUME NEW t, NEW n, NEW e, NEW c, NextTick(t, n, e, c), CellOf(e, t) \notin Moved(c)
    PROVE  CellOf(e, c) = CellOf(e, t)
<1>0. t \in Nat /\ e \in Nat /\ c \in Nat /\ c \in Time
  BY TickFacts
<1>1. ASSUME NEW l, OnLevel(e, t, l), OnLevel(e, c, l) PROVE CellOf(e, c) = CellOf(e, t)
  BY <1>0, <1>1, CellFound
<1>2. CASE c = 0
  <2>1. Moved(c) = {<<LEVELS - 1, 0>>}
    BY <1>2 DEF Moved
  <2>2. \A l \in Below : Unit[l] \in Nat \ {0} /\ 0 % Unit[l] = 0
    BY Levels, Units
  <2>3. \A l \in Below : ~SameBlock(e, t, l)
    BY <1>2, <2>2, NothingLeft
  <2>4. OnLevel(e, t, LEVELS - 1)
    BY <2>3, Levels DEF OnLevel
  <2>5. Index(e, LEVELS - 1) # Index(0, LEVELS - 1)
    <3>1. CellOf(e, t) = <<LEVELS - 1, Index(e, LEVELS - 1)>>
      BY <1>0, <2>4, CellFound
    <3>. QED BY <2>1, <3>1, Levels, IndexFacts
  <2>6. ~SameBlock(e, c, LEVELS - 1)
    BY <1>2, <2>5 DEF SameBlock, Index
  <2>7. OnLevel(e, c, LEVELS - 1)
    BY <2>6, Levels DEF OnLevel
  <2>. QED BY <1>1, <2>4, <2>7
<1>3. CASE c # 0 /\ c % TIME_NEAR # 0
  <2>1. \A l \in 0..LEVELS : SameBlock(e, c, l) <=> SameBlock(e, t, l)
    BY <1>0, <1>3, MovedFound, SameNextTick
  <2>2. CASE SameBlock(e, t, 0)
    <3>1. SameBlock(e, c, 0)
      BY <2>1, <2>2, Levels
    <3>. QED BY <1>0, <2>2, <3>1, CellFound
  <2>3. CASE ~SameBlock(e, t, 0)
    <3>1. PICK l : OnLevel(e, t, l)
      BY <1>0, <2>3, CellFound
    <3>2. OnLevel(e, c, l)
      BY <2>1, <3>1, Levels DEF OnLevel
    <3>. QED BY <1>1, <3>1, <3>2
  <2>. QED BY <2>2, <2>3
<1>4. CASE c # 0 /\ c % TIME_NEAR = 0
  <2>1. PICK m : LevelMoved(c, m)
    BY <1>0, <1>4, MovedFound
  <2>2. m \in Below /\ m \in 0..(LEVELS - 1) /\ 0 \in 0..m /\ m \in 0..m
    BY <2>1 DEF LevelMoved, Below
  <2>3. \A l \in 0..m : ~SameBlock(e, t, l)
    <3>1. \A l \in 0..m : l \in Below /\ c % Unit[l] = 0
      BY <2>1, <2>2, Units DEF LevelMoved, Below
    <3>. QED BY <3>1, NothingLeft
  <2>4. \A l \in (m + 1)..LEVELS : SameBlock(e, c, l) <=> SameBlock(e, t, l)
    <3>1. \A l \in (m + 1)..LEVELS : l \in 0..LEVELS /\ c % Unit[l] # 0
      BY <2>1, <2>2, Units DEF LevelMoved
    <3>. QED BY <1>4, <3>1, SameNextTick
  <2>5. PICK l : OnLevel(e, t, l)
    BY <1>0, <2>2, <2>3, CellFound
  <2>6. l \in Below /\ l \in m..(LEVELS - 1) /\ (l # LEVELS - 1 => l + 1 \in (m + 1)..LEVELS)
    <3>1. l \in Below /\ l \in 0..(LEVELS - 1)
      BY <2>5 DEF OnLevel, Below
    <3>2. ASSUME l < m PROVE FALSE
      <4>1. l + 1 \in 0..m /\ l # LEVELS - 1
        BY <2>2, <3>1, <3>2, Units
      <4>. QED BY <2>3, <2>5, <4>1 DEF OnLevel
    <3>. QED BY <2>2, <3>1, <3>2, Units
  <2>7. ~SameBlock(e, c, l)
    <3>1. CASE l = m
      <4>1. CellOf(e, t) = <<m, Index(e, m)>>
        BY <1>0, <2>5, <3>1, CellFound
      <4>2. Index(e, m) # Index(c, m)
        BY <2>1, <4>1 DEF LevelMoved
      <4>. QED BY <3>1, <4>2 DEF SameBlock, Index
    <3>2. CASE l # m
      <4>1. l \in (m + 1)..LEVELS
        BY <2>2, <2>6, <3>2, Units
      <4>. QED BY <2>4, <2>5, <4>1 DEF OnLevel
    <3>. QED BY <3>1, <3>2
  <2>8. OnLevel(e, c, l)
    BY <2>4, <2>5, <2>6, <2>7 DEF OnLevel
  <2>. QED BY <1>1, <2>5, <2>8
<1>. QED BY <1>2, <1>3, <1>4

-----------------------------------------------------------------------------
(* Lists.                                                                   *)

LEMMA AppendFacts ==
    ASSUME NEW V, NEW q \in Seq(V), NEW e \in V
    PROVE  /\ Append(q, e) \in Seq(V) /\ Len(q) \in Nat /\ DOMAIN q = 1..Len(q)
           /\ DOMAIN Append(q, e) = 1..(Len(q) + 1)
           /\ Append(q, e)[Len(q) + 1] = e
           /\ \A i \in 1..Len(q) : Append(q, e)[i] = q[i]
           /\ Range(Append(q, e)) = Range(q) \cup {e}
<1>1. /\ Append(q, e) \in Seq(V) /\ Len(q) \in Nat /\ DOMAIN q = 1..Len(q)
      /\ DOMAIN Append(q, e) = 1..(Len(q) + 1)
      /\ Append(q, e)[Len(q) + 1] = e
      /\ \A i \in 1..Len(q) : Append(q, e)[i] = q[i]
  BY AppendProperties, LenProperties
<1>2. 1..(Len(q) + 1) = 1..Len(q) \cup {Len(q) + 1}
  BY <1>1
<1>. HIDE DEF Range
<1>3. Range(Append(q, e)) = Range(q) \cup {e}
  BY <1>1, <1>2 DEF Range
<1>. QED BY <1>1, <1>3

LEMMA RangeTail ==
    ASSUME NEW V, NEW q \in Seq(V), q # <<>>
    PROVE  /\ Tail(q) \in Seq(V) /\ Len(q) \in Nat \ {0}
           /\ DOMAIN q = 1..Len(q) /\ DOMAIN Tail(q) = 1..(Len(q) - 1)
           /\ \A i \in 1..(Len(q) - 1) : Tail(q)[i] = q[i + 1]
           /\ Head(q) = q[1] /\ Head(q) \in V
           /\ Range(q) = {Head(q)} \cup Range(Tail(q))
<1>1. Len(q) \in Nat \ {0} /\ DOMAIN q = 1..Len(q)
  BY EmptySeq
<1>2. Tail(q) \in Seq(V) /\ Len(Tail(q)) = Len(q) - 1 /\ Head(q) \in V
      /\ \A i \in 1..Len(Tail(q)) : Tail(q)[i] = q[i + 1]
  BY HeadTailProperties
<1>3. DOMAIN Tail(q) = 1..(Len(q) - 1) /\ Head(q) = q[1]
  BY <1>2, LenProperties
<1>4. ASSUME NEW x PROVE x \in Range(q) <=> x = Head(q) \/ x \in Range(Tail(q))
  <2>1. \A i \in 1..Len(q) : i = 1 \/ (i - 1 \in 1..(Len(q) - 1) /\ (i - 1) + 1 = i)
    BY <1>1
  <2>2. 1 \in 1..Len(q) /\ \A i \in 1..(Len(q) - 1) : i + 1 \in 1..Len(q)
    BY <1>1
  <2>3. x \in Range(q) <=> \E i \in 1..Len(q) : x = q[i]
    BY <1>1 DEF Range
  <2>4. x \in Range(Tail(q)) <=> \E i \in 1..(Len(q) - 1) : x = q[i + 1]
    BY <1>2, <1>3 DEF Range
  <2>. QED BY <1>3, <2>1, <2>2, <2>3, <2>4
<1>. QED BY <1>1, <1>2, <1>3, <1>4

\* o holds x, and y after it.
Before(o, x, y) == \E i, j \in DOMAIN o : i < j /\ o[i] = x /\ o[j] = y
Once(o) == \A i, j \in DOMAIN o : o[i] = o[j] => i = j

LEMMA BeforeFacts ==
    ASSUME NEW o \in Seq(Node), Once(o), NEW x, NEW y, Before(o, x, y)
    PROVE  x # y /\ ~Before(o, y, x) /\ x \in Range(o) /\ y \in Range(o)
<1>1. DOMAIN o = 1..Len(o) /\ Len(o) \in Nat
  BY LenProperties
<1>2. PICK i \in DOMAIN o, j \in DOMAIN o : i < j /\ o[i] = x /\ o[j] = y
  BY DEF Before
<1>3. x # y
  BY <1>1, <1>2 DEF Once
<1>4. ~Before(o, y, x)
  <2>1. SUFFICES ASSUME NEW k \in DOMAIN o, NEW l \in DOMAIN o, k < l, o[k] = y, o[l] = x
                 PROVE  FALSE
    BY DEF Before
  <2>2. k = j /\ l = i
    BY <1>2, <2>1 DEF Once
  <2>. QED BY <1>1, <1>2, <2>1, <2>2
<1>. QED BY <1>2, <1>3, <1>4 DEF Range

LEMMA OrderAppend ==
    ASSUME NEW o \in Seq(Node), Once(o), NEW x \in Node, x \notin Range(o)
    PROVE  LET p == Append(o, x) IN
           /\ Once(p)
           /\ \A y, z : Before(o, y, z) => Before(p, y, z)
           /\ \A y \in Range(o) : Before(p, y, x)
<1>. DEFINE p == Append(o, x)
<1>1. /\ Len(o) \in Nat /\ DOMAIN o = 1..Len(o) /\ DOMAIN p = 1..(Len(o) + 1)
      /\ p[Len(o) + 1] = x /\ \A i \in 1..Len(o) : p[i] = o[i]
  BY AppendFacts
<1>. HIDE DEF p
<1>2. \A i \in 1..Len(o) : i \in 1..(Len(o) + 1) /\ i < Len(o) + 1 /\ o[i] # x
  BY <1>1 DEF Range
<1>3. \A i \in 1..(Len(o) + 1) : i \in 1..Len(o) \/ i = Len(o) + 1
  BY <1>1
<1>4. Once(p)
  BY <1>1, <1>2, <1>3 DEF Once
<1>5. ASSUME NEW y, NEW z, Before(o, y, z) PROVE Before(p, y, z)
  BY <1>1, <1>2, <1>5 DEF Before
<1>6. ASSUME NEW y \in Range(o) PROVE Before(p, y, x)
  <2>1. PICK i \in 1..Len(o) : o[i] = y
    BY <1>1 DEF Range
  <2>2. Len(o) + 1 \in DOMAIN p /\ i \in DOMAIN p /\ i < Len(o) + 1
    BY <1>1, <1>2, <2>1
  <2>. QED BY <1>1, <2>1, <2>2 DEF Before
<1>. QED BY <1>4, <1>5, <1>6 DEF p

LEMMA OrderRemove ==
    ASSUME NEW o \in Seq(Node), Once(o), NEW k \in DOMAIN o
    PROVE  LET p == RemoveAt(o, k) IN
           /\ p \in Seq(Node) /\ Once(p) /\ Range(p) = Range(o) \ {o[k]}
           /\ \A y, z : Before(o, y, z) /\ y # o[k] /\ z # o[k] => Before(p, y, z)
<1>. DEFINE p == RemoveAt(o, k)
            L == Len(o)
            At(i) == IF i < k THEN i ELSE i + 1
            To(i) == IF i < k THEN i ELSE i - 1
<1>1. DOMAIN o = 1..L /\ L \in Nat /\ k \in 1..L /\ \A i \in 1..L : o[i] \in Node
  BY LenProperties
<1>. HIDE DEF L
<1>2. /\ SubSeq(o, 1, k - 1) \in Seq(Node) /\ Len(SubSeq(o, 1, k - 1)) = k - 1
      /\ \A i \in 1..(k - 1) : SubSeq(o, 1, k - 1)[i] = o[i]
  <2>1. \A i \in 1..(k - 1) : o[i] \in Node
    BY <1>1
  <2>2. 1 \in 1..(L + 1) /\ k - 1 \in 0..L
    BY <1>1
  <2>. QED BY <1>1, <2>1, <2>2, SubSeqProperties DEF L
<1>3. /\ SubSeq(o, k + 1, L) \in Seq(Node) /\ Len(SubSeq(o, k + 1, L)) = L - k
      /\ \A i \in 1..(L - k) : SubSeq(o, k + 1, L)[i] = o[k + i]
  <2>1. \A i \in (k + 1)..L : o[i] \in Node
    BY <1>1
  <2>2. k + 1 \in 1..(L + 1) /\ L \in 0..L
    BY <1>1
  <2>3. /\ SubSeq(o, k + 1, L) \in Seq(Node)
        /\ Len(SubSeq(o, k + 1, L)) = IF k + 1 <= L THEN L - (k + 1) + 1 ELSE 0
        /\ \A i \in 1..(L - (k + 1) + 1) : SubSeq(o, k + 1, L)[i] = o[k + 1 + i - 1]
    BY <1>1, <2>1, <2>2, SubSeqProperties DEF L
  <2>4. L - (k + 1) + 1 = L - k /\ \A i \in 1..(L - k) : k + 1 + i - 1 = k + i
    BY <1>1
  <2>5. Len(SubSeq(o, k + 1, L)) = L - k
    BY <1>1, <2>3
  <2>. QED BY <2>3, <2>4, <2>5
<1>4. /\ p \in Seq(Node) /\ Len(p) = L - 1
      /\ \A i \in 1..(L - 1) : p[i] = o[At(i)]
  <2>1. p = SubSeq(o, 1, k - 1) \o SubSeq(o, k + 1, L)
    BY DEF RemoveAt, L
  <2>2. /\ p \in Seq(Node) /\ Len(p) = (k - 1) + (L - k)
        /\ \A i \in 1..((k - 1) + (L - k)) : p[i] =
             IF i <= k - 1 THEN SubSeq(o, 1, k - 1)[i] ELSE SubSeq(o, k + 1, L)[i - (k - 1)]
    <3>. DEFINE a == SubSeq(o, 1, k - 1)
                b == SubSeq(o, k + 1, L)
    <3>1. a \in Seq(Node) /\ b \in Seq(Node) /\ Len(a) = k - 1 /\ Len(b) = L - k /\ p = a \o b
      BY <1>2, <1>3, <2>1
    <3>. HIDE DEF a, b, p
    <3>2. /\ a \o b \in Seq(Node) /\ Len(a \o b) = Len(a) + Len(b)
          /\ \A i \in 1..(Len(a) + Len(b)) :
               (a \o b)[i] = IF i <= Len(a) THEN a[i] ELSE b[i - Len(a)]
      BY <3>1, ConcatProperties
    <3>3. /\ p \in Seq(Node) /\ Len(p) = (k - 1) + (L - k)
          /\ \A i \in 1..((k - 1) + (L - k)) :
               p[i] = IF i <= k - 1 THEN a[i] ELSE b[i - (k - 1)]
      BY <3>1, <3>2
    <3>. QED BY <3>3 DEF a, b
  <2>. HIDE DEF p
  <2>3. ASSUME NEW i \in 1..(L - 1) PROVE p[i] = o[At(i)]
    <3>1. i \in 1..((k - 1) + (L - k))
      BY <1>1
    <3>2. CASE i < k
      <4>1. i <= k - 1 /\ i \in 1..(k - 1)
        BY <1>1, <3>2
      <4>. QED BY <1>2, <2>2, <3>1, <3>2, <4>1
    <3>3. CASE ~(i < k)
      <4>1. ~(i <= k - 1) /\ i - (k - 1) \in 1..(L - k) /\ k + (i - (k - 1)) = i + 1
        BY <1>1, <3>3
      <4>. QED BY <1>3, <2>2, <3>1, <3>3, <4>1
    <3>. QED BY <3>2, <3>3
  <2>. QED BY <1>1, <2>2, <2>3
<1>. HIDE DEF p
<1>5. DOMAIN p = 1..(L - 1)
  BY <1>4, LenProperties
<1>6. \A i \in 1..(L - 1) : At(i) \in 1..L /\ At(i) # k
  BY <1>1
<1>7. \A i, j \in 1..(L - 1) : At(i) = At(j) => i = j
  BY <1>1
<1>8. \A i \in 1..L : i # k => To(i) \in 1..(L - 1) /\ At(To(i)) = i
  BY <1>1
<1>9. \A i, j \in 1..L : i # k /\ j # k /\ i < j => To(i) < To(j)
  BY <1>1
<1>. HIDE DEF At, To
<1>10. Once(p)
  BY <1>1, <1>4, <1>5, <1>6, <1>7 DEF Once
<1>11. ASSUME NEW x PROVE x \in Range(p) <=> x \in Range(o) /\ x # o[k]
  <2>1. x \in Range(p) <=> \E i \in 1..(L - 1) : x = o[At(i)]
    BY <1>4, <1>5 DEF Range
  <2>2. x \in Range(o) <=> \E i \in 1..L : x = o[i]
    BY <1>1 DEF Range
  <2>. QED BY <1>1, <1>6, <1>8, <2>1, <2>2 DEF Once
<1>12. ASSUME NEW y, NEW z, Before(o, y, z), y # o[k], z # o[k] PROVE Before(p, y, z)
  <2>1. PICK i \in 1..L, j \in 1..L : i < j /\ o[i] = y /\ o[j] = z
    BY <1>1, <1>12 DEF Before
  <2>2. i # k /\ j # k
    BY <1>12, <2>1
  <2>. QED BY <1>4, <1>5, <1>8, <1>9, <2>1, <2>2 DEF Before
<1>. QED BY <1>4, <1>10, <1>11, <1>12 DEF p

-----------------------------------------------------------------------------
(* The invariant.                                                           *)

Pending == Range(order)

Types ==
    /\ time \in Time
    /\ wheel \in [Cell -> Seq(Node)]
    /\ expire \in [Node -> Time]
    /\ todo \in 0..MaxDiff
    /\ pc \in {"idle", "execute", "dispatch", "shift", "after", "fire"}
    /\ current \in Seq(Node) /\ order \in Seq(Node)

\* timer_shift comes when the list that was due has been dispatched.
Control ==
    /\ pc \in {"idle", "execute", "shift", "after"} => current = <<>>
    /\ pc # "idle" => todo # 0
    /\ pc = "shift" => wheel[Due] = <<>>

\* No timer is late, or further ahead than a timeout can be.
Ahead == \A x \in Pending : \E n \in 0..MaxTime : expire[x] = After(time, n)

\* The lists of w hold pending timers, each in the list that add_node would choose at
\* time now; those of the same tick in the order in which they were added.
Linked(w, now) ==
    \A d \in Cell : \A x \in Range(w[d]) : x \in Pending /\ CellOf(expire[x], now) = d
Sorted(w) ==
    \A d \in Cell : \A a, b \in DOMAIN w[d] :
        a < b /\ expire[w[d][a]] = expire[w[d][b]] => Before(order, w[d][a], w[d][b])

\* What is being dispatched was due and comes before what is still due.
Dispatched ==
    /\ \A x \in Range(current) : x \in Pending /\ expire[x] = time
    /\ \A a, b \in DOMAIN current : a < b => Before(order, current[a], current[b])
    /\ \A x \in Range(current), d \in Cell : \A y \in Range(wheel[d]) :
          expire[y] = time => Before(order, x, y)

Listed ==
    \A x \in Pending : x \in Range(current) \/ x \in Range(wheel[CellOf(expire[x], time)])

TimerInv ==
    /\ Types /\ Control /\ Once(order) /\ Ahead
    /\ Linked(wheel, time) /\ Sorted(wheel) /\ Dispatched /\ Listed

LEMMA Basics ==
    ASSUME Types
    PROVE  /\ time \in Nat /\ Pending \subseteq Node /\ Due \in Cell
           /\ \A x \in Node : expire[x] \in Nat /\ CellOf(expire[x], time) \in Cell
           /\ \A d \in Cell : Range(wheel[d]) \subseteq Node /\ DOMAIN wheel[d] = 1..Len(wheel[d])
           /\ Range(current) \subseteq Node
<1>1. Time \subseteq Nat
  BY Words DEF Time
<1>2. \A q \in Seq(Node) : Range(q) \subseteq Node /\ DOMAIN q = 1..Len(q)
  <2>1. ASSUME NEW q \in Seq(Node) PROVE DOMAIN q = 1..Len(q) /\ \A i \in 1..Len(q) : q[i] \in Node
    BY ElementOfSeq, LenProperties
  <2>. QED BY <2>1 DEF Range
<1>3. Due \in Cell
  <2>1. time % TIME_NEAR \in 0..(TIME_NEAR - 1)
    BY <1>1, Euclid, TimerAssumption DEF Types
  <2>. QED BY <2>1 DEF Due, Cell
<1>. QED BY <1>1, <1>2, <1>3, CellFacts DEF Types, Pending

LEMMA TimerInit == ASSUME Init PROVE TimerInv
<1>1. Types
  <2>1. Word \in Nat \ {0} /\ MaxDiff \in Nat /\ <<>> \in Seq(Node)
    BY Words, TimerAssumption
  <2>. QED BY <2>1 DEF Init, Types, Time
<1>2. Range(<<>>) = {} /\ DOMAIN <<>> = {}
  BY DEF Range
<1>. QED BY <1>1, <1>2 DEF Init, TimerInv, Control, Once, Ahead, Linked, Sorted, Dispatched,
     Listed, Pending

LEMMA UpdateInv == ASSUME TimerInv, UpdateTime \/ UpdateLock PROVE TimerInv'
<1>1. UNCHANGED <<time, wheel, expire, current, order>>
  BY DEF UpdateTime, UpdateLock
<1>2. Types' /\ Control'
  BY <1>1, TimerAssumption DEF TimerInv, UpdateTime, UpdateLock, Types, Control, Due
<1>. QED BY <1>1, <1>2 DEF TimerInv, Once, Ahead, Linked, Sorted, Dispatched, Listed, Pending

LEMMA DispatchEndInv == ASSUME TimerInv, DispatchEnd PROVE TimerInv'
<1>1. UNCHANGED <<time, wheel, expire, todo, current, order>>
  BY DEF DispatchEnd
<1>2. Types' /\ Control'
  BY <1>1 DEF TimerInv, DispatchEnd, Types, Control, Due
<1>. QED BY <1>1, <1>2 DEF TimerInv, Once, Ahead, Linked, Sorted, Dispatched, Listed, Pending

LEMMA TimeoutAddInv == ASSUME TimerInv, TimeoutAdd PROVE TimerInv'
<1>1. PICK x \in Node \ Pending, n \in 1..MaxTime :
        LET e == After(time, n)
            c == CellOf(e, time)
        IN  /\ expire' = [expire EXCEPT ![x] = e]
            /\ wheel' = [wheel EXCEPT ![c] = Append(@, x)]
            /\ order' = Append(order, x)
  BY DEF TimeoutAdd, Pending
<1>. DEFINE e == After(time, n)
            c == CellOf(e, time)
<1>2. Types /\ Once(order) /\ UNCHANGED <<time, todo, pc, current>>
  BY DEF TimerInv, TimeoutAdd
<1>3. n \in 0..MaxTime /\ e \in Time /\ e \in Nat /\ c \in Cell
  <2>1. n \in 0..MaxTime /\ e \in Time
    BY <1>2, Words, Additions DEF Types
  <2>2. e \in Nat
    BY <2>1, Words DEF Time
  <2>. QED BY <1>2, <2>1, <2>2, Basics, CellFacts
<1>. HIDE DEF e, c
<1>4. /\ expire' = [expire EXCEPT ![x] = e] /\ order' = Append(order, x)
      /\ wheel' = [wheel EXCEPT ![c] = Append(wheel[c], x)] /\ c = CellOf(e, time)
      /\ e = After(time, n)
  BY <1>1 DEF e, c
<1>5. /\ expire'[x] = e /\ \A y \in Pending : y \in Node /\ y # x /\ expire'[y] = expire[y]
  BY <1>2, <1>4, Basics DEF Types
<1>6. /\ Once(order)' /\ Pending' = Pending \cup {x} /\ order' \in Seq(Node)
      /\ \A y, z : Before(order, y, z) => Before(order', y, z)
      /\ \A y \in Pending : Before(order', y, x)
  <2>1. order \in Seq(Node) /\ x \notin Range(order)
    BY <1>2 DEF Types, Pending
  <2>2. /\ Once(Append(order, x)) /\ Append(order, x) \in Seq(Node)
        /\ Range(Append(order, x)) = Range(order) \cup {x}
        /\ \A y, z : Before(order, y, z) => Before(Append(order, x), y, z)
        /\ \A y \in Range(order) : Before(Append(order, x), y, x)
    BY <1>2, <2>1, OrderAppend, AppendFacts
  <2>. QED BY <1>4, <2>2 DEF Pending, Once
<1>7. /\ Len(wheel[c]) \in Nat /\ wheel'[c] \in Seq(Node)
      /\ DOMAIN wheel[c] = 1..Len(wheel[c]) /\ DOMAIN wheel'[c] = 1..(Len(wheel[c]) + 1)
      /\ wheel'[c][Len(wheel[c]) + 1] = x
      /\ \A i \in 1..Len(wheel[c]) : wheel'[c][i] = wheel[c][i]
      /\ Range(wheel'[c]) = Range(wheel[c]) \cup {x}
      /\ \A d \in Cell : d # c => wheel'[d] = wheel[d]
  <2>1. wheel[c] \in Seq(Node) /\ wheel'[c] = Append(wheel[c], x)
    BY <1>2, <1>3, <1>4 DEF Types
  <2>2. \A d \in Cell : d # c => wheel'[d] = wheel[d]
    BY <1>2, <1>4 DEF Types
  <2>. QED BY <2>1, <2>2, AppendFacts
<1>8. Types'
  <2>1. wheel' \in [Cell -> Seq(Node)]
    BY <1>2, <1>4, <1>7 DEF Types
  <2>2. expire' \in [Node -> Time]
    BY <1>2, <1>3, <1>4 DEF Types
  <2>. QED BY <1>2, <1>6, <2>1, <2>2 DEF Types
<1>9. Control'
  <2>1. pc # "shift" /\ Control
    BY DEF TimeoutAdd, Locked, TimerInv
  <2>. QED BY <1>2, <2>1 DEF Control
<1>10. Ahead'
  BY <1>2, <1>3, <1>4, <1>5, <1>6 DEF TimerInv, Ahead
<1>11. \A d \in Cell : \A y \in Range(wheel[d]) : y \in Pending /\ CellOf(expire[y], time) = d
  BY DEF TimerInv, Linked
<1>12. Linked(wheel, time)'
  <2>1. ASSUME NEW d \in Cell, NEW y \in Range(wheel'[d])
        PROVE  y \in Pending' /\ CellOf(expire'[y], time) = d
    <3>1. y \in Range(wheel[d]) \/ (d = c /\ y = x)
      BY <1>7, <2>1
    <3>. QED BY <1>4, <1>5, <1>6, <1>11, <3>1
  <2>. QED BY <1>2, <2>1 DEF Linked
<1>13. Sorted(wheel)'
  <2>1. ASSUME NEW d \in Cell, NEW a \in DOMAIN wheel'[d], NEW b \in DOMAIN wheel'[d], a < b,
               expire'[wheel'[d][a]] = expire'[wheel'[d][b]]
        PROVE  Before(order', wheel'[d][a], wheel'[d][b])
    <3>1. CASE a \in DOMAIN wheel[d] /\ b \in DOMAIN wheel[d]
      <4>1. wheel'[d][a] = wheel[d][a] /\ wheel'[d][b] = wheel[d][b]
        BY <1>7, <3>1
      <4>2. wheel[d][a] \in Pending /\ wheel[d][b] \in Pending
        BY <1>11, <3>1 DEF Range
      <4>. QED BY <1>5, <1>6, <2>1, <3>1, <4>1, <4>2 DEF TimerInv, Sorted
    <3>2. CASE ~(a \in DOMAIN wheel[d] /\ b \in DOMAIN wheel[d])
      <4>1. d = c /\ b = Len(wheel[c]) + 1 /\ a \in 1..Len(wheel[c])
        BY <1>7, <2>1, <3>2
      <4>2. wheel'[d][b] = x /\ wheel'[d][a] = wheel[c][a] /\ wheel[c][a] \in Pending
        BY <1>3, <1>7, <1>11, <4>1 DEF Range
      <4>. QED BY <1>6, <4>2
    <3>. QED BY <3>1, <3>2
  <2>. QED BY <2>1 DEF Sorted
<1>14. Dispatched'
  <2>1. /\ \A y \in Range(current) : y \in Pending /\ expire[y] = time
        /\ \A a, b \in DOMAIN current : a < b => Before(order, current[a], current[b])
        /\ \A y \in Range(current), d \in Cell : \A z \in Range(wheel[d]) :
              expire[z] = time => Before(order, y, z)
    BY DEF TimerInv, Dispatched
  <2>2. \A y \in Range(current) : y \in Pending' /\ expire'[y] = time
    BY <1>5, <1>6, <2>1
  <2>3. ASSUME NEW y \in Range(current), NEW d \in Cell, NEW z \in Range(wheel'[d]),
               expire'[z] = time
        PROVE  Before(order', y, z)
    <3>1. z \in Range(wheel[d]) \/ z = x
      BY <1>7
    <3>2. CASE z \in Range(wheel[d])
      BY <1>5, <1>6, <1>11, <2>1, <2>3, <3>2
    <3>. QED BY <1>6, <2>1, <3>1, <3>2
  <2>. QED BY <1>2, <1>6, <2>1, <2>2, <2>3 DEF Dispatched
<1>15. Listed'
  <2>1. ASSUME NEW y \in Pending
        PROVE  y \in Range(current) \/ y \in Range(wheel'[CellOf(expire'[y], time)])
    <3>1. y \in Range(current) \/ y \in Range(wheel[CellOf(expire[y], time)])
      BY DEF TimerInv, Listed
    <3>2. CellOf(expire[y], time) \in Cell
      BY <1>2, <1>5, Basics
    <3>. QED BY <1>5, <1>7, <3>1, <3>2
  <2>2. x \in Range(wheel'[CellOf(expire'[x], time)])
    BY <1>4, <1>5, <1>7
  <2>. QED BY <1>2, <1>6, <2>1, <2>2 DEF Listed
<1>. QED BY <1>6, <1>8, <1>9, <1>10, <1>12, <1>13, <1>14, <1>15 DEF TimerInv

LEMMA ExecuteInv == ASSUME TimerInv, TimerExecute PROVE TimerInv'
<1>1. /\ Types /\ Control /\ current = <<>> /\ pc \in {"execute", "after"} /\ todo # 0
      /\ UNCHANGED <<time, expire, order>>
  BY DEF TimerInv, TimerExecute, Control
<1>2. Range(<<>>) = {} /\ DOMAIN <<>> = {}
  BY DEF Range
<1>3. CASE wheel[Due] = <<>>
  <2>1. UNCHANGED <<wheel, current>> /\ Types' /\ Control'
    BY <1>1, <1>3, TimerAssumption DEF TimerExecute, Types, Control, Due
  <2>. QED BY <1>1, <2>1 DEF TimerInv, Once, Ahead, Linked, Sorted, Dispatched, Listed, Pending
<1>4. CASE wheel[Due] # <<>>
  <2>1. /\ current' = wheel[Due] /\ wheel' = [wheel EXCEPT ![Due] = <<>>]
        /\ pc' \in {"dispatch", "fire"} /\ todo' = todo
    BY <1>1, <1>4 DEF TimerExecute
  <2>2. /\ time \in Nat /\ Due \in Cell /\ \A x \in Pending : x \in Node /\ expire[x] \in Nat
        /\ \A x \in Pending : CellOf(expire[x], time) \in Cell
    BY <1>1, Basics
  <2>3. /\ wheel'[Due] = <<>> /\ \A d \in Cell : d # Due => wheel'[d] = wheel[d]
    BY <1>1, <2>1, <2>2 DEF Types
  <2>4. Types'
    <3>1. wheel[Due] \in Seq(Node) /\ <<>> \in Seq(Node)
      BY <1>1, <2>2 DEF Types
    <3>2. wheel' \in [Cell -> Seq(Node)]
      BY <1>1, <2>1, <3>1 DEF Types
    <3>. QED BY <1>1, <2>1, <3>1, <3>2 DEF Types
  <2>5. Control'
    BY <1>1, <2>1 DEF Control
  <2>6. \A x \in Pending : CellOf(expire[x], time) = Due <=> expire[x] = time
    BY <2>2, CellFacts DEF Due
  <2>7. \A d \in Cell : \A x \in Range(wheel[d]) : x \in Pending /\ CellOf(expire[x], time) = d
    BY DEF TimerInv, Linked
  <2>8. Linked(wheel, time)' /\ Sorted(wheel)'
    <3>1. \A d \in Cell : wheel'[d] = <<>> \/ wheel'[d] = wheel[d]
      BY <2>3
    <3>2. Sorted(wheel)
      BY DEF TimerInv
    <3>3. ASSUME NEW d \in Cell, NEW x \in Range(wheel'[d])
          PROVE  x \in Pending' /\ CellOf(expire'[x], time') = d
      BY <1>1, <1>2, <2>7, <3>1 DEF Pending
    <3>4. ASSUME NEW d \in Cell, NEW a \in DOMAIN wheel'[d], NEW b \in DOMAIN wheel'[d], a < b,
                 expire'[wheel'[d][a]] = expire'[wheel'[d][b]]
          PROVE  Before(order', wheel'[d][a], wheel'[d][b])
      BY <1>1, <1>2, <3>1, <3>2, <3>4 DEF Sorted
    <3>. QED BY <3>3, <3>4 DEF Linked, Sorted
  <2>9. Dispatched'
    <3>1. \A x \in Range(current') : x \in Pending /\ expire[x] = time
      BY <2>1, <2>2, <2>6, <2>7
    <3>2. ASSUME NEW a \in DOMAIN current', NEW b \in DOMAIN current', a < b
          PROVE  Before(order, current'[a], current'[b])
      <4>1. current'[a] \in Range(current') /\ current'[b] \in Range(current')
        BY DEF Range
      <4>2. expire[current'[a]] = expire[current'[b]]
        BY <3>1, <4>1
      <4>. QED BY <2>1, <2>2, <3>2, <4>2 DEF TimerInv, Sorted
    <3>3. \A d \in Cell : \A y \in Range(wheel'[d]) : expire[y] # time
      BY <1>2, <2>3, <2>6, <2>7
    <3>. QED BY <1>1, <3>1, <3>2, <3>3 DEF Dispatched, Pending
  <2>10. Listed'
    <3>1. ASSUME NEW x \in Pending
          PROVE  x \in Range(current') \/ x \in Range(wheel'[CellOf(expire[x], time)])
      <4>1. x \in Range(wheel[CellOf(expire[x], time)])
        BY <1>1, <1>2 DEF TimerInv, Listed
      <4>. QED BY <2>1, <2>2, <2>3, <4>1
    <3>. QED BY <1>1, <3>1 DEF Listed, Pending
  <2>11. (Once(order) /\ Ahead)'
    BY <1>1 DEF TimerInv, Once, Ahead, Pending
  <2>. QED BY <2>4, <2>5, <2>8, <2>9, <2>10, <2>11 DEF TimerInv
<1>. QED BY <1>3, <1>4

LEMMA DispatchNodeInv == ASSUME TimerInv, DispatchNode PROVE TimerInv'
<1>. DEFINE h == Head(current)
            k == CHOOSE i \in DOMAIN order : order[i] = Head(current)
<1>1. /\ Types /\ Control /\ Once(order) /\ pc \in {"dispatch", "fire"} /\ current # <<>>
      /\ current' = Tail(current) /\ order' = RemoveAt(order, k)
      /\ UNCHANGED <<time, wheel, expire, todo, pc>>
  BY DEF TimerInv, DispatchNode
<1>2. /\ Len(current) \in Nat \ {0} /\ DOMAIN current = 1..Len(current)
      /\ current' \in Seq(Node) /\ DOMAIN current' = 1..(Len(current) - 1)
      /\ \A i \in 1..(Len(current) - 1) : current'[i] = current[i + 1]
      /\ h = current[1] /\ Range(current) = {h} \cup Range(current')
  BY <1>1, RangeTail DEF Types
<1>3. k \in DOMAIN order /\ order[k] = h
  <2>1. h \in Range(order)
    BY <1>2 DEF TimerInv, Dispatched, Pending
  <2>. QED BY <2>1 DEF Range
<1>. HIDE DEF h, k
<1>4. /\ order' \in Seq(Node) /\ Once(order)' /\ Pending' = Pending \ {h}
      /\ \A y, z : Before(order, y, z) /\ y # h /\ z # h => Before(order', y, z)
  <2>1. order \in Seq(Node)
    BY <1>1 DEF Types
  <2>2. /\ RemoveAt(order, k) \in Seq(Node) /\ Once(RemoveAt(order, k))
        /\ Range(RemoveAt(order, k)) = Range(order) \ {order[k]}
        /\ \A y, z : Before(order, y, z) /\ y # order[k] /\ z # order[k]
                       => Before(RemoveAt(order, k), y, z)
    BY <1>1, <1>3, <2>1, OrderRemove
  <2>. QED BY <1>1, <1>3, <2>2 DEF Pending, Once
<1>5. /\ \A x \in Range(current) : x \in Pending /\ expire[x] = time
      /\ \A a, b \in DOMAIN current : a < b => Before(order, current[a], current[b])
      /\ \A x \in Range(current), d \in Cell : \A y \in Range(wheel[d]) :
            expire[y] = time => Before(order, x, y)
  BY DEF TimerInv, Dispatched
<1>6. \A x, y : Before(order, x, y) => x # y
  <2>1. order \in Seq(Node)
    BY <1>1 DEF Types
  <2>. QED BY <1>1, <2>1, BeforeFacts
<1>7. h \in Range(current) /\ expire[h] = time
  BY <1>2, <1>5
<1>8. h \notin Range(current')
  <2>1. SUFFICES ASSUME NEW i \in 1..(Len(current) - 1), h = current[i + 1] PROVE FALSE
    BY <1>2 DEF Range
  <2>2. 1 \in DOMAIN current /\ i + 1 \in DOMAIN current /\ 1 < i + 1
    BY <1>2
  <2>. QED BY <1>2, <1>5, <1>6, <2>1, <2>2
<1>9. \A d \in Cell : h \notin Range(wheel[d])
  BY <1>5, <1>6, <1>7
<1>10. \A d \in Cell : \A x \in Range(wheel[d]) :
          x \in Pending /\ x # h /\ CellOf(expire[x], time) = d
  BY <1>9 DEF TimerInv, Linked
<1>11. Types' /\ Control'
  BY <1>1, <1>2, <1>4 DEF Types, Control
<1>12. Ahead'
  BY <1>1, <1>4 DEF TimerInv, Ahead
<1>13. Linked(wheel, time)'
  BY <1>1, <1>4, <1>10 DEF Linked
<1>14. Sorted(wheel)'
  <2>1. ASSUME NEW d \in Cell, NEW a \in DOMAIN wheel[d], NEW b \in DOMAIN wheel[d], a < b,
               expire[wheel[d][a]] = expire[wheel[d][b]]
        PROVE  Before(order', wheel[d][a], wheel[d][b])
    <3>1. wheel[d][a] # h /\ wheel[d][b] # h
      BY <1>10 DEF Range
    <3>. QED BY <1>4, <2>1, <3>1 DEF TimerInv, Sorted
  <2>. QED BY <1>1, <2>1 DEF Sorted
<1>15. Dispatched'
  <2>1. \A x \in Range(current') : x \in Range(current) /\ x # h
    BY <1>2, <1>8
  <2>2. ASSUME NEW a \in DOMAIN current', NEW b \in DOMAIN current', a < b
        PROVE  Before(order', current'[a], current'[b])
    <3>1. a + 1 \in DOMAIN current /\ b + 1 \in DOMAIN current /\ a + 1 < b + 1
      BY <1>2, <2>2
    <3>2. Before(order, current'[a], current'[b])
      BY <1>2, <1>5, <3>1
    <3>3. current'[a] # h /\ current'[b] # h
      BY <1>8 DEF Range
    <3>. QED BY <1>4, <3>2, <3>3
  <2>3. \A x \in Range(current'), d \in Cell : \A y \in Range(wheel[d]) :
            expire[y] = time => Before(order', x, y)
    BY <1>4, <1>5, <1>10, <2>1
  <2>. QED BY <1>1, <1>4, <1>5, <2>1, <2>2, <2>3 DEF Dispatched
<1>16. Listed'
  BY <1>1, <1>2, <1>4 DEF TimerInv, Listed
<1>. QED BY <1>4, <1>11, <1>12, <1>13, <1>14, <1>15, <1>16 DEF TimerInv

-----------------------------------------------------------------------------
(* timer_shift.                                                             *)

\* What the lists are after the tick to now.
Rebuilt(w, now) ==
    /\ w \in [Cell -> Seq(Node)] /\ Linked(w, now) /\ Sorted(w)
    /\ \A x \in Pending : x \in Range(w[CellOf(expire[x], now)])

\* Of the list q that is moved, the first i nodes are linked in again.
Partial(q, now, w, i) ==
    /\ w \in [Cell -> Seq(Node)] /\ Linked(w, now) /\ Sorted(w)
    /\ \A x \in Pending : \/ x \in Range(w[CellOf(expire[x], now)])
                          \/ \E j \in (i + 1)..Len(q) : x = q[j]
    /\ \A d \in Cell : \A y \in Range(w[d]) : \A j \in (i + 1)..Len(q) :
          expire[y] = expire[q[j]] => Before(order, y, q[j])

\* A list whose nodes are pending, those of the same tick in their order.
Movable(q) ==
    /\ q \in Seq(Node) /\ \A j \in 1..Len(q) : q[j] \in Pending
    /\ \A a, b \in 1..Len(q) :
          a < b /\ expire[q[a]] = expire[q[b]] => Before(order, q[a], q[b])

Added(q, now, w, i) == [w EXCEPT ![CellOf(expire[q[i]], now)] = Append(@, q[i])]

LEMMA AddedPartial ==
    ASSUME Types, NEW now \in Time, NEW q, Movable(q), NEW w, NEW i \in 1..Len(q),
           Partial(q, now, w, i - 1)
    PROVE  Partial(q, now, Added(q, now, w, i), i)
<1>. DEFINE x == q[i]
            c == CellOf(expire[x], now)
            v == Added(q, now, w, i)
<1>1. /\ Len(q) \in Nat /\ i \in Nat /\ (i - 1) + 1 = i /\ i \in i..Len(q)
      /\ \A j \in (i + 1)..Len(q) : j \in i..Len(q) /\ j \in 1..Len(q) /\ i < j
      /\ \A j \in i..Len(q) : j = i \/ j \in (i + 1)..Len(q)
  BY LenProperties DEF Movable
<1>2. /\ w \in [Cell -> Seq(Node)] /\ Linked(w, now) /\ Sorted(w)
      /\ \A y \in Pending : \/ y \in Range(w[CellOf(expire[y], now)])
                            \/ \E j \in i..Len(q) : y = q[j]
      /\ \A d \in Cell : \A y \in Range(w[d]) : \A j \in i..Len(q) :
            expire[y] = expire[q[j]] => Before(order, y, q[j])
  BY <1>1 DEF Partial
<1>3. x \in Pending /\ x \in Node /\ c \in Cell
  <2>1. x \in Pending /\ x \in Node
    BY Basics DEF Movable
  <2>2. now \in Nat /\ expire[x] \in Nat
    BY <2>1, Basics, Words DEF Time
  <2>. QED BY <2>1, <2>2, CellFacts
<1>4. /\ Len(w[c]) \in Nat /\ v[c] \in Seq(Node)
      /\ DOMAIN w[c] = 1..Len(w[c]) /\ DOMAIN v[c] = 1..(Len(w[c]) + 1)
      /\ v[c][Len(w[c]) + 1] = x
      /\ \A j \in 1..Len(w[c]) : v[c][j] = w[c][j]
      /\ Range(v[c]) = Range(w[c]) \cup {x}
      /\ \A d \in Cell : d # c => v[d] = w[d]
      /\ v \in [Cell -> Seq(Node)]
  <2>1. w[c] \in Seq(Node) /\ v[c] = Append(w[c], x)
    BY <1>2, <1>3 DEF Added
  <2>2. \A d \in Cell : d # c => v[d] = w[d]
    BY <1>2 DEF Added
  <2>3. Append(w[c], x) \in Seq(Node)
    BY <1>3, <2>1
  <2>4. v \in [Cell -> Seq(Node)]
    BY <1>2, <2>1, <2>3 DEF Added
  <2>. QED BY <1>3, <2>1, <2>2, <2>4, AppendFacts
<1>. HIDE DEF v
<1>5. ASSUME NEW d \in Cell, NEW y \in Range(v[d])
      PROVE  y \in Range(w[d]) \/ (d = c /\ y = x)
  BY <1>4, <1>5
<1>6. Linked(v, now)
  <2>1. ASSUME NEW d \in Cell, NEW y \in Range(v[d])
        PROVE  y \in Pending /\ CellOf(expire[y], now) = d
    BY <1>2, <1>3, <1>5, <2>1 DEF Linked
  <2>. QED BY <2>1 DEF Linked
<1>7. Sorted(v)
  <2>1. ASSUME NEW d \in Cell, NEW a \in DOMAIN v[d], NEW b \in DOMAIN v[d], a < b,
               expire[v[d][a]] = expire[v[d][b]]
        PROVE  Before(order, v[d][a], v[d][b])
    <3>1. CASE a \in DOMAIN w[d] /\ b \in DOMAIN w[d]
      <4>1. v[d][a] = w[d][a] /\ v[d][b] = w[d][b]
        BY <1>4, <3>1
      <4>. QED BY <1>2, <2>1, <3>1, <4>1 DEF Sorted
    <3>2. CASE ~(a \in DOMAIN w[d] /\ b \in DOMAIN w[d])
      <4>1. d = c /\ b = Len(w[c]) + 1 /\ a \in 1..Len(w[c])
        BY <1>4, <2>1, <3>2
      <4>2. v[d][b] = x /\ v[d][a] = w[c][a] /\ w[c][a] \in Range(w[c])
        BY <1>4, <4>1 DEF Range
      <4>. QED BY <1>1, <1>2, <1>3, <2>1, <4>2
    <3>. QED BY <3>1, <3>2
  <2>. QED BY <2>1 DEF Sorted
<1>8. ASSUME NEW y \in Pending
      PROVE  \/ y \in Range(v[CellOf(expire[y], now)])
             \/ \E j \in (i + 1)..Len(q) : y = q[j]
  <2>1. CellOf(expire[y], now) \in Cell
    <3>1. now \in Nat /\ expire[y] \in Nat
      BY Basics, Words DEF Time
    <3>. QED BY <3>1, CellFacts
  <2>. QED BY <1>1, <1>2, <1>4, <2>1
<1>9. ASSUME NEW d \in Cell, NEW y \in Range(v[d]), NEW j \in (i + 1)..Len(q),
             expire[y] = expire[q[j]]
      PROVE  Before(order, y, q[j])
  <2>1. y \in Range(w[d]) \/ y = x
    BY <1>5
  <2>2. CASE y \in Range(w[d])
    BY <1>1, <1>2, <1>9, <2>2
  <2>3. CASE y = x
    BY <1>1, <1>9, <2>3 DEF Movable
  <2>. QED BY <2>1, <2>2, <2>3
<1>10. Partial(q, now, v, i)
  BY <1>4, <1>6, <1>7, <1>8, <1>9 DEF Partial
<1>. QED BY <1>10 DEF v

\* move_list leaves every pending timer in the list of the new tick.
LEMMA MoveListRebuilds ==
    ASSUME Types, Linked(wheel, time), Sorted(wheel), NEW now \in Time, NEW c \in Cell,
           \A x \in Pending : x \in Range(wheel[CellOf(expire[x], time)]),
           \A x \in Pending : CellOf(expire[x], time) # c =>
               CellOf(expire[x], now) = CellOf(expire[x], time)
    PROVE  Rebuilt(MoveList(c, now), now)
<1>. DEFINE q == wheel[c]
            l == Len(q)
            V == [Cell -> Seq(Node)]
            base == [wheel EXCEPT ![c] = <<>>]
            step == [a \in V \X (1..l) |-> Added(q, now, a[1], a[2])]
            Eq(F) == F = [i \in 0..l |->
                            IF i = 0 THEN [wheel EXCEPT ![c] = <<>>]
                            ELSE [F[i - 1] EXCEPT ![CellOf(expire[wheel[c][i]], now)] =
                                     Append(@, wheel[c][i])]]
            m == CHOOSE F : Eq(F)
            X == {i \in 0..l : Partial(q, now, m[i], i)}
<1>1. wheel \in [Cell -> Seq(Node)] /\ q \in Seq(Node) /\ l \in Nat /\ DOMAIN q = 1..l
  BY LenProperties DEF Types
<1>2. Movable(q)
  <2>1. ASSUME NEW j \in 1..l PROVE q[j] \in Pending
    BY <1>1 DEF Linked, Range
  <2>2. ASSUME NEW a \in 1..l, NEW b \in 1..l, a < b, expire[q[a]] = expire[q[b]]
        PROVE  Before(order, q[a], q[b])
    BY <1>1, <2>2 DEF Sorted
  <2>. QED BY <1>1, <2>1, <2>2 DEF Movable
<1>3. \A y \in Pending : y \in Node /\ CellOf(expire[y], time) \in Cell
                         /\ CellOf(expire[y], now) \in Cell
  <2>1. \A y \in Pending : y \in Node /\ expire[y] \in Nat
    BY Basics
  <2>2. now \in Nat /\ time \in Nat
    BY Basics, Words DEF Time
  <2>. QED BY <2>1, <2>2, CellFacts
<1>4. base \in V /\ base[c] = <<>> /\ \A d \in Cell : d # c => base[d] = wheel[d]
  BY <1>1
<1>5. Partial(q, now, base, 0)
  <2>1. \A d \in Cell : base[d] = <<>> \/ (d # c /\ base[d] = wheel[d])
    BY <1>4
  <2>2. Range(<<>>) = {} /\ DOMAIN <<>> = {}
    BY DEF Range
  <2>. HIDE DEF base, l
  <2>3. ASSUME NEW d \in Cell, NEW x \in Range(base[d])
        PROVE  x \in Pending /\ CellOf(expire[x], now) = d /\ d # c
    BY <2>1, <2>2, <2>3 DEF Linked
  <2>4. Sorted(base)
    <3>1. ASSUME NEW d \in Cell, NEW a \in DOMAIN base[d], NEW b \in DOMAIN base[d], a < b,
                 expire[base[d][a]] = expire[base[d][b]]
          PROVE  Before(order, base[d][a], base[d][b])
      BY <2>1, <2>2, <3>1 DEF Sorted
    <3>. QED BY <3>1 DEF Sorted
  <2>5. ASSUME NEW x \in Pending
        PROVE  x \in Range(base[CellOf(expire[x], now)]) \/ \E j \in (0 + 1)..l : x = q[j]
    <3>1. CASE CellOf(expire[x], time) = c
      <4>1. x \in Range(q)
        BY <3>1
      <4>. QED BY <1>1, <4>1 DEF Range
    <3>2. CASE CellOf(expire[x], time) # c
      BY <1>3, <1>4, <3>2
    <3>. QED BY <3>1, <3>2
  <2>6. ASSUME NEW d \in Cell, NEW y \in Range(base[d]), NEW j \in (0 + 1)..l,
               expire[y] = expire[q[j]]
        PROVE  FALSE
    <3>1. j \in DOMAIN q
      BY <1>1
    <3>2. CellOf(expire[q[j]], time) = c
      BY <3>1 DEF Linked, Range
    <3>3. y \in Range(wheel[d]) /\ d # c
      BY <2>1, <2>2, <2>6
    <3>4. CellOf(expire[y], time) = d
      BY <3>3 DEF Linked
    <3>. QED BY <2>6, <3>2, <3>3, <3>4
  <2>. QED BY <1>4, <2>3, <2>4, <2>5, <2>6 DEF Partial, Linked, l
<1>6. ASSUME NEW w \in V, NEW i \in 1..l PROVE Added(q, now, w, i) \in V
  <2>1. q[i] \in Pending
    BY <1>2 DEF Movable
  <2>2. q[i] \in Node /\ CellOf(expire[q[i]], now) \in Cell
    BY <1>3, <2>1
  <2>3. w[CellOf(expire[q[i]], now)] \in Seq(Node)
    BY <2>2
  <2>4. Append(w[CellOf(expire[q[i]], now)], q[i]) \in Seq(Node)
    BY <2>2, <2>3, AppendProperties
  <2>. QED BY <2>4 DEF Added
<1>7. \A w \in V : \A i \in 1..l :
        step[<<w, i>>] = Added(q, now, w, i) /\ step[<<w, i>>] \in V
  <2>1. \A w \in V : \A i \in 1..l : step[<<w, i>>] = Added(q, now, w, i)
    <3>. HIDE DEF V, q, l
    <3>. QED OBVIOUS
  <2>. HIDE DEF step, V, q, l
  <2>. QED BY <1>6, <2>1
<1>8. PICK G \in [0..l -> V] :
        G[0] = base /\ \A i \in 1..l : G[i] = step[<<G[i - 1], i>>]
  <2>. HIDE DEF l, V, step, base, q
  <2>1. Recursive(V, base, l, step)
    BY <1>1, <1>4, <1>7, Recursion
  <2>. QED BY <2>1 DEF Recursive
<1>9. Eq(G)
  <2>1. ASSUME NEW i \in 0..l
        PROVE  G[i] = IF i = 0 THEN base ELSE Added(q, now, G[i - 1], i)
    <3>1. i = 0 \/ (i \in 1..l /\ i - 1 \in 0..l)
      BY <1>1
    <3>2. G[i - 1] \in V \/ i = 0
      BY <3>1
    <3>. HIDE DEF l, V, step, base, q
    <3>. QED BY <1>7, <1>8, <3>1, <3>2
  <2>2. G = [i \in 0..l |-> G[i]]
    OBVIOUS
  <2>3. G = [i \in 0..l |-> IF i = 0 THEN base ELSE Added(q, now, G[i - 1], i)]
    <3>. HIDE DEF l, V, step, base, q
    <3>. QED BY <2>1, <2>2
  <2>. HIDE DEF l, V, step
  <2>. QED BY <2>3 DEF Added
<1>10. Eq(m)
  <2>. HIDE DEF Eq
  <2>. QED BY <1>9
<1>11. MoveList(c, now) = m[l]
  BY DEF MoveList
<1>. HIDE DEF m
<1>12. m[0] = base /\ \A i \in 1..l : m[i] = Added(q, now, m[i - 1], i)
  <2>. HIDE DEF l, V, step
  <2>1. m = [i \in 0..l |-> IF i = 0 THEN base ELSE Added(q, now, m[i - 1], i)]
    BY <1>10 DEF Added
  <2>. HIDE DEF base, q, Eq
  <2>2. 0 \in 0..l /\ \A i \in 1..l : i \in 0..l /\ i # 0
    BY <1>1
  <2>. QED BY <2>1, <2>2
<1>. HIDE DEF Eq, base, V, step
<1>13. 0 \in X
  BY <1>1, <1>5, <1>12
<1>14. ASSUME NEW i \in 1..l, i - 1 \in X PROVE i \in X
  <2>1. Partial(q, now, m[i - 1], i - 1) /\ i \in 0..l
    BY <1>1, <1>14
  <2>. HIDE DEF q
  <2>2. Partial(q, now, Added(q, now, m[i - 1], i), i)
    BY <1>2, <2>1, AddedPartial
  <2>. QED BY <1>12, <2>1, <2>2
<1>15. 0..l \subseteq X
  <2>. HIDE DEF X, l
  <2>. QED BY <1>1, <1>13, <1>14, Along
<1>16. Partial(q, now, m[l], l)
  BY <1>1, <1>15
<1>17. (l + 1)..l = {}
  BY <1>1
<1>. QED BY <1>11, <1>16, <1>17 DEF Partial, Rebuilt

LEMMA ShiftInv == ASSUME TimerInv, TimerShift PROVE TimerInv'
<1>. DEFINE ct == After(time, 1)
<1>1. /\ Types /\ Control /\ pc = "shift" /\ current = <<>> /\ todo # 0 /\ wheel[Due] = <<>>
      /\ time' = ct /\ pc' = "after" /\ UNCHANGED <<expire, todo, current, order>>
      /\ wheel' = IF Moved(ct) = {} THEN wheel ELSE MoveList(CHOOSE c \in Moved(ct) : TRUE, ct)
  BY DEF TimerInv, TimerShift, Control
<1>2. Range(<<>>) = {} /\ DOMAIN <<>> = {}
  BY DEF Range
<1>3. \A x \in Pending : x \in Range(wheel[CellOf(expire[x], time)])
  BY <1>1, <1>2 DEF TimerInv, Listed
<1>4. ASSUME NEW x \in Pending PROVE \E n \in 0..MaxTime : NextTick(time, n, expire[x], ct)
  <2>1. expire[x] \in Nat /\ time \in Nat
    BY <1>1, Basics
  <2>2. expire[x] # time
    <3>1. SUFFICES ASSUME expire[x] = time PROVE FALSE
      OBVIOUS
    <3>2. CellOf(expire[x], time) = Due
      BY <2>1, <3>1, CellFacts DEF Due
    <3>. QED BY <1>1, <1>2, <1>3, <3>2
  <2>. QED BY <1>1, <2>2 DEF TimerInv, Ahead, NextTick, Types
<1>5. ct \in Time
  <2>1. 1 \in 0..MaxTime
    BY TimerAssumption, Words
  <2>. QED BY <1>1, <2>1, Additions DEF Types
<1>. HIDE DEF ct
<1>6. \A x \in Pending : \E n \in 0..MaxTime : expire[x] = After(ct, n)
  BY <1>4, TickFacts
<1>7. \A x \in Pending : CellOf(expire[x], time) \notin Moved(ct) =>
        CellOf(expire[x], ct) = CellOf(expire[x], time)
  BY <1>4, Stays
<1>8. Linked(wheel, time) /\ Sorted(wheel) /\ wheel \in [Cell -> Seq(Node)]
  BY <1>1 DEF TimerInv, Types
<1>9. Rebuilt(wheel', ct)
  <2>1. CASE Moved(ct) = {}
    <3>1. wheel' = wheel
      BY <1>1, <2>1
    <3>2. \A x \in Pending : CellOf(expire[x], ct) = CellOf(expire[x], time)
      BY <1>7, <2>1
    <3>3. Linked(wheel, ct)
      BY <1>8, <3>2 DEF Linked
    <3>4. \A x \in Pending : x \in Range(wheel[CellOf(expire[x], ct)])
      BY <1>3, <3>2
    <3>. QED BY <1>8, <3>1, <3>3, <3>4 DEF Rebuilt
  <2>2. CASE Moved(ct) # {}
    <3>1. PICK c \in Cell : Moved(ct) = {c}
      BY <1>5, <2>2, MovedCell
    <3>2. wheel' = MoveList(c, ct)
      <4>1. (CHOOSE d \in Moved(ct) : TRUE) = c
        BY <3>1
      <4>. QED BY <1>1, <2>2, <4>1
    <3>3. \A x \in Pending : CellOf(expire[x], time) # c =>
            CellOf(expire[x], ct) = CellOf(expire[x], time)
      BY <1>7, <3>1
    <3>4. Rebuilt(MoveList(c, ct), ct)
      BY <1>1, <1>3, <1>5, <1>8, <3>3, MoveListRebuilds
    <3>. QED BY <3>2, <3>4
  <2>. QED BY <2>1, <2>2
<1>10. Types' /\ Control'
  BY <1>1, <1>5, <1>9 DEF Types, Control, Rebuilt
<1>11. (Once(order) /\ Ahead)'
  BY <1>1, <1>6 DEF TimerInv, Once, Ahead, Pending
<1>12. Linked(wheel, time)' /\ Sorted(wheel)' /\ Listed'
  BY <1>1, <1>9 DEF Rebuilt, Linked, Sorted, Listed, Pending
<1>13. Dispatched'
  BY <1>1, <1>2 DEF Dispatched
<1>. QED BY <1>10, <1>11, <1>12, <1>13 DEF TimerInv

-----------------------------------------------------------------------------
(* The theorems.                                                            *)

\* Every step of the timer thread and of the workers keeps the invariant.
THEOREM TimerInvariant == Spec => []TimerInv
<1>1. Init => TimerInv
  BY TimerInit
<1>2. TimerInv /\ [Next]_vars => TimerInv'
  <2>. SUFFICES ASSUME TimerInv, [Next]_vars PROVE TimerInv'
    OBVIOUS
  <2>1. CASE TimeoutAdd
    BY <2>1, TimeoutAddInv
  <2>2. CASE UpdateTime \/ UpdateLock
    BY <2>2, UpdateInv
  <2>3. CASE TimerExecute
    BY <2>3, ExecuteInv
  <2>4. CASE DispatchNode
    BY <2>4, DispatchNodeInv
  <2>5. CASE DispatchEnd
    BY <2>5, DispatchEndInv
  <2>6. CASE TimerShift
    BY <2>6, ShiftInv
  <2>7. CASE UNCHANGED vars
    BY <2>7 DEF vars, TimerInv, Types, Control, Due, Once, Ahead, Linked, Sorted, Dispatched,
       Listed, Pending
  <2>. QED BY <2>1, <2>2, <2>3, <2>4, <2>5, <2>6, <2>7 DEF Next
<1>. QED BY <1>1, <1>2, PTL DEF Spec

\* dispatch_list sends what is set for the current tick and nothing else, for any number
\* and size of the levels and across the wrap of the time.
THEOREM TimersOnTime == Spec => []FiresOnTime
<1>1. TimerInv => FiresOnTime
  <2>. SUFFICES ASSUME TimerInv, NEW i \in DOMAIN current PROVE expire[current[i]] = time
    BY DEF FiresOnTime
  <2>1. current[i] \in Range(current)
    BY DEF Range
  <2>. QED BY <2>1 DEF TimerInv, Dispatched
<1>. QED BY <1>1, TimerInvariant, PTL

\* timer_shift moves every list in the tick in which it has to: add_node would choose the
\* list in which a timer is.
THEOREM TimersInCells == Spec => []InItsCell
<1>1. TimerInv => InItsCell
  <2>. SUFFICES ASSUME TimerInv PROVE InItsCell
    OBVIOUS
  <2>1. TypeOK
    <3>1. Types
      BY DEF TimerInv
    <3>2. DOMAIN wheel = Cell /\ expire \in [Node -> 0..(Word - 1)] /\ time \in 0..(Word - 1)
      BY <3>1 DEF Types, Time
    <3>. QED BY <3>1, <3>2, Basics DEF Types, TypeOK, Pending
  <2>2. ASSUME NEW x \in Range(order)
        PROVE  x \in Range(current) \/ x \in Range(wheel[CellOf(expire[x], time)])
    BY DEF TimerInv, Listed, Pending
  <2>. QED BY <2>1, <2>2 DEF InItsCell
<1>. QED BY <1>1, TimerInvariant, PTL

\* Timers of the same tick are dispatched in the order in which timer_add linked them in,
\* whatever levels they came through.
THEOREM TimersInOrder == Spec => []SameTickInOrder
<1>1. TimerInv => SameTickInOrder
  <2>. SUFFICES ASSUME TimerInv, current # <<>>, NEW i \in DOMAIN order, NEW j \in DOMAIN order,
                       i < j, order[j] = Head(current), expire[order[i]] = expire[order[j]]
                PROVE  FALSE
    BY DEF SameTickInOrder
  <2>. DEFINE x == order[i]
              h == Head(current)
  <2>1. Types /\ Once(order) /\ Dispatched /\ Listed /\ order \in Seq(Node)
    BY DEF TimerInv, Types
  <2>2. /\ h = current[1] /\ DOMAIN current = 1..Len(current) /\ Len(current) \in Nat \ {0}
        /\ h \in Range(current)
    BY <2>1, RangeTail DEF Types
  <2>3. x \in Pending /\ Before(order, x, h)
    BY DEF Pending, Range, Before
  <2>4. x # h /\ ~Before(order, h, x)
    BY <2>1, <2>3, BeforeFacts
  <2>5. expire[x] = time
    BY <2>1, <2>2 DEF Dispatched
  <2>6. CASE x \in Range(current)
    <3>1. PICK k \in DOMAIN current : current[k] = x
      BY <2>6 DEF Range
    <3>2. 1 \in DOMAIN current /\ 1 < k
      BY <2>2, <2>4, <3>1
    <3>. QED BY <2>1, <2>2, <2>4, <3>1, <3>2 DEF Dispatched
  <2>7. CASE x \in Range(wheel[CellOf(expire[x], time)])
    <3>1. CellOf(expire[x], time) \in Cell
      BY <2>1, <2>3, Basics
    <3>. QED BY <2>1, <2>2, <2>4, <2>5, <2>7, <3>1 DEF Dispatched
  <2>. QED BY <2>1, <2>3, <2>6, <2>7 DEF Listed
<1>. QED BY <1>1, TimerInvariant, PTL
=============================================================================
