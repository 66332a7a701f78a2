----------------------------- MODULE DataInduction -----------------------------
(***************************************************************************)
(* Induction for the proofs about folds and other recursive functions.  A  *)
(* claim about every position holds, or there is a least position where it *)
(* fails: stated for sets, this needs no operator as a parameter.          *)
(***************************************************************************)
EXTENDS Integers, SequencesExt, WellFoundedInduction, TLAPS

(* A set of numbers has a least one.                                       *)
LEMMA Least ==
  ASSUME NEW T, T \subseteq Nat, T # {}
  PROVE  \E m \in T : \A k \in T : m <= k
<1> DEFINE R == OpToRel(<, Nat)
<1>1. IsWellFoundedOn(R, Nat)
  BY NatLessThanWellFounded
<1>2. \A i, j \in Nat : <<i, j>> \in R <=> i < j
  BY DEF OpToRel
<1> HIDE DEF R
<1>3. PICK m \in T : \A k \in T : ~ (<<k, m>> \in R)
  BY <1>1, WFMin
<1>4. m \in Nat /\ \A k \in T : k \in Nat /\ ~(k < m)
  BY <1>2, <1>3
<1> QED
  BY <1>4

(* Max of a set of positions is one of them, and none is larger.           *)
LEMMA MaxOfPositions ==
  ASSUME NEW n \in Nat, NEW z, z \subseteq 1..n, z # {}
  PROVE  Max(z) \in z /\ \A i \in z : i <= Max(z)
<1> DEFINE T == {k \in Nat : \A i \in z : i <= k}
<1>1. n \in T
  OBVIOUS
<1>2. PICK m \in T : \A k \in T : m <= k
  BY <1>1, Least
<1>3. m \in z
  <2>1. \A i \in z : i \in 1..n /\ i <= m
    BY <1>2
  <2>2. m \in Nat /\ m # 0
    <3>1. PICK i \in z : i \in 1..n /\ i <= m
      BY <2>1
    <3> QED
      BY <1>2, <3>1
  <2>3. CASE m \notin z
    <3>1. \A i \in z : i <= m - 1
      BY <2>1, <2>2, <2>3
    <3>2. m - 1 \in T
      BY <2>2, <3>1
    <3> QED
      BY <1>2, <2>2, <3>2
  <2> QED
    BY <2>3
<1>4. \E x \in z : \A i \in z : x >= i
  BY <1>3
<1>5. Max(z) \in z /\ \A i \in z : Max(z) >= i
  BY <1>4 DEF Max
<1> QED
  BY <1>5

(* What holds at first and is kept by every step holds at every step.      *)
LEMMA EveryStep ==
  ASSUME NEW n \in Nat, NEW S, 0 \in S, \A k \in 1..n : k - 1 \in S => k \in S
  PROVE  \A k \in 0..n : k \in S
<1> DEFINE T == (0..n) \ S
<1> SUFFICES ASSUME T # {} PROVE FALSE
  OBVIOUS
<1>1. PICK m \in T : \A k \in T : m <= k
  <2>1. T \subseteq Nat
    OBVIOUS
  <2> HIDE DEF T
  <2> QED
    BY <2>1, Least
<1>2. m \in 1..n /\ m - 1 \in 0..n /\ ~(m <= m - 1) /\ m \notin S
  OBVIOUS
<1>3. m - 1 \in S
  BY <1>1, <1>2
<1> QED
  BY <1>2, <1>3

(* The first positions, as FoldLeft takes them: the last one first.        *)
LEMMA FirstPositions ==
  ASSUME NEW n \in Nat, NEW k \in 1..n
  PROVE  /\ 1..k \in SUBSET (1..n) /\ 1..k # {}
         /\ Max(1..k) = k /\ (1..k) \ {Max(1..k)} = 1..(k - 1)
<1>1. 1..k \subseteq 1..n /\ k \in 1..k
  OBVIOUS
<1>2. Max(1..k) \in 1..k /\ \A i \in 1..k : i <= Max(1..k)
  BY <1>1, MaxOfPositions
<1>3. Max(1..k) = k
  BY <1>1, <1>2
<1> QED
  BY <1>1, <1>3

(* A fold, as a function of the positions that are to be taken; its steps  *)
(* are the table st.                                                       *)
IsTableFold(f, st, base, n) ==
  f = [z \in SUBSET (1..n) |-> IF z = {} THEN base ELSE st[<<f[z \ {Max(z)}], Max(z)>>]]

(* There is one for every table that stays in its type: it grows by a      *)
(* position at a time.                                                     *)
LEMMA TableFold ==
  ASSUME NEW T, NEW base \in T, NEW n \in Nat, NEW st \in [T \X (1..n) -> T]
  PROVE  \E f \in [SUBSET (1..n) -> T] : IsTableFold(f, st, base, n)
<1> DEFINE Good(f, m) == f \in [SUBSET (1..m) -> T] /\ IsTableFold(f, st, base, m)
           S == {m \in 0..n : \E f : Good(f, m)}
<1>1. 0 \in S
  <2> DEFINE f == [z \in SUBSET (1..0) |-> base]
  <2>1. \A z \in SUBSET (1..0) : z = {}
    OBVIOUS
  <2>2. Good(f, 0)
    BY <2>1 DEF IsTableFold
  <2> HIDE DEF Good, f
  <2> QED
    BY <2>2
<1>2. ASSUME NEW m \in 1..n, m - 1 \in S PROVE m \in S
  <2>1. PICK g : Good(g, m - 1)
    BY <1>2
  <2> DEFINE f == [z \in SUBSET (1..m) |->
                     IF m \in z THEN st[<<g[z \ {m}], m>>] ELSE g[z]]
  <2>2. ASSUME NEW z \in SUBSET (1..m) PROVE z \ {m} \in SUBSET (1..(m - 1))
    OBVIOUS
  <2>3. ASSUME NEW z \in SUBSET (1..(m - 1))
        PROVE  g[z] \in T /\ g[z] = IF z = {} THEN base ELSE st[<<g[z \ {Max(z)}], Max(z)>>]
    BY <2>1, <2>3 DEF IsTableFold
  <2>4. ASSUME NEW z \in SUBSET (1..m)
        PROVE  f[z] \in T /\ f[z] = IF z = {} THEN base ELSE st[<<f[z \ {Max(z)}], Max(z)>>]
    <3>1. CASE m \in z
      <4>1. Max(z) \in z /\ \A i \in z : i <= Max(z)
        <5>1. m \in Nat /\ z \subseteq 1..m /\ z # {}
          BY <3>1
        <5> QED
          BY <5>1, MaxOfPositions
      <4>2. Max(z) = m
        <5>1. Max(z) \in 1..m /\ m <= Max(z)
          BY <3>1, <4>1
        <5> QED
          BY <5>1
      <4>3. f[z \ {m}] = g[z \ {m}] /\ g[z \ {m}] \in T
        BY <2>2, <2>3
      <4>4. st[<<g[z \ {m}], m>>] \in T
        BY <4>3
      <4> QED
        BY <3>1, <4>2, <4>3, <4>4
    <3>2. CASE m \notin z
      <4>1. z \in SUBSET (1..(m - 1)) /\ f[z] = g[z]
        BY <3>2
      <4>2. CASE z = {}
        BY <2>3, <4>1, <4>2
      <4>3. CASE z # {}
        <5>1. f[z \ {Max(z)}] = g[z \ {Max(z)}]
          BY <3>2
        <5> HIDE DEF f
        <5> QED
          BY <2>3, <4>1, <4>3, <5>1
      <4> QED
        BY <4>2, <4>3
    <3> QED
      BY <3>1, <3>2
  <2>5. Good(f, m)
    BY <2>4 DEF IsTableFold
  <2> HIDE DEF Good, f
  <2> QED
    BY <2>5
<1>3. n \in S
  <2> HIDE DEF S
  <2> QED
    BY <1>1, <1>2, EveryStep
<1> QED
  BY <1>3

(* FlattenSeq, block by block.                                             *)
IsFlat(f, blocks, n) ==
  f = [i \in 1..n |-> IF i = 1 THEN blocks[i] ELSE f[i - 1] \o blocks[i]]

(* There is one: it grows by a block at a time.                            *)
LEMMA FlatExists == \A blocks : \A n \in Nat : \E f : IsFlat(f, blocks, n)
<1> SUFFICES ASSUME NEW blocks PROVE \A n \in Nat : \E f : IsFlat(f, blocks, n)
  OBVIOUS
<1> DEFINE T == {n \in Nat : ~\E f : IsFlat(f, blocks, n)}
<1> SUFFICES ASSUME T # {} PROVE FALSE
  OBVIOUS
<1>1. PICK m \in T : \A k \in T : m <= k
  <2>1. T \subseteq Nat
    OBVIOUS
  <2> HIDE DEF T
  <2> QED
    BY <2>1, Least
<1>2. m # 0
  <2> DEFINE f == [i \in 1..0 |-> <<>>]
  <2>1. IsFlat(f, blocks, 0)
    BY DEF IsFlat
  <2> QED
    BY <2>1
<1>3. PICK g : IsFlat(g, blocks, m - 1)
  <2>1. m - 1 \in Nat /\ ~(m <= m - 1)
    BY <1>2
  <2> QED
    BY <1>1, <2>1
<1> DEFINE f == [i \in 1..m |-> IF i < m THEN g[i]
                                ELSE IF i = 1 THEN blocks[i] ELSE g[i - 1] \o blocks[i]]
<1>4. IsFlat(f, blocks, m)
  <2> SUFFICES ASSUME NEW i \in 1..m
               PROVE  f[i] = IF i = 1 THEN blocks[i] ELSE f[i - 1] \o blocks[i]
    BY DEF IsFlat
  <2>1. CASE i < m
    <3>1. g[i] = IF i = 1 THEN blocks[i] ELSE g[i - 1] \o blocks[i]
      <4>1. i \in 1..(m - 1)
        BY <2>1
      <4> HIDE DEF f
      <4> QED
        BY <1>3, <4>1 DEF IsFlat
    <3>2. f[i] = g[i] /\ (i # 1 => f[i - 1] = g[i - 1])
      BY <2>1
    <3> HIDE DEF f
    <3> QED
      BY <3>1, <3>2
  <2>2. CASE i = m
    <3>1. i # 1 => f[i - 1] = g[i - 1]
      BY <2>2
    <3>2. f[i] = IF i = 1 THEN blocks[i] ELSE g[i - 1] \o blocks[i]
      BY <2>2
    <3> HIDE DEF f
    <3> QED
      BY <3>1, <3>2
  <2> QED
    BY <2>1, <2>2
<1> QED
  BY <1>4

(* FlattenSeq is the last of these values.                                 *)
LEMMA FlattenIsFlat ==
  ASSUME NEW blocks, NEW n \in Nat \ {0}, Len(blocks) = n
  PROVE  \E f : IsFlat(f, blocks, n) /\ FlattenSeq(blocks) = f[n]
<1> DEFINE G(f) == [i \in 1..Len(blocks) |->
                      IF i = 1 THEN blocks[i] ELSE f[i - 1] \o blocks[i]]
           f == CHOOSE x : x = G(x)
<1>1. FlattenSeq(blocks) = f[Len(blocks)]
  <2>1. Len(blocks) # 0
    OBVIOUS
  <2> QED
    BY <2>1, Zenon DEF FlattenSeq
<1>2. \E x : x = G(x)
  <2>1. PICK x : IsFlat(x, blocks, n)
    BY FlatExists
  <2> QED
    BY <2>1 DEF IsFlat
<1>3. f = G(f)
  BY <1>2
<1> HIDE DEF f
<1>4. IsFlat(f, blocks, n)
  BY <1>3 DEF IsFlat
<1> QED
  BY <1>1, <1>4
===============================================================================
