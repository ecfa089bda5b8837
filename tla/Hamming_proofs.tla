---------------------------- MODULE Hamming_proofs ----------------------------
(***************************************************************************)
(* The Hamming code of abft.c for blocks of every size and any number of   *)
(* flipped bits: one wrong bit is corrected, two are reported, and what    *)
(* Secded says of a block of any number of wrong bits is what the decoder  *)
(* does to the bits.                                                       *)
(***************************************************************************)
EXTENDS Hamming, FiniteSetTheorems, FunctionTheorems, WellFoundedInduction, TLAPS

-----------------------------------------------------------------------------
(* Induction over numbers. *)

\* Every set of natural numbers that is not empty has a least element.
LEMMA LeastNat ==
  ASSUME NEW T \in SUBSET Nat, T # {}
  PROVE  \E m \in T : \A k \in T : m <= k
<1> DEFINE Less == {ss \in Nat \X Nat : ss[1] < ss[2]}
<1>1. IsWellFoundedOn(Less, Nat)
  BY NatLessThanWellFounded DEF OpToRel
<1>2. PICK m \in T : \A k \in T : ~(<<k, m>> \in Less)
  BY <1>1, WFMin
<1>3. \A k \in T : ~(k < m)
  BY <1>2
<1> QED
  BY <1>3

\* A set of numbers that holds 0 and with every number the next holds them all.
LEMMA AllNat ==
  ASSUME NEW T \in SUBSET Nat, 0 \in T, \A k \in Nat : k \in T => k + 1 \in T
  PROVE  T = Nat
<1> DEFINE V == Nat \ T
<1>1. V \in SUBSET Nat /\ \A k \in Nat : k \notin V => k \in T
  OBVIOUS
<1>2. \A k \in V : k \in Nat /\ k \notin T
  OBVIOUS
<1> HIDE DEF V
<1>3. V = {}
  <2> SUFFICES ASSUME V # {} PROVE FALSE
    OBVIOUS
  <2>1. PICK m \in V : \A k \in V : m <= k
    BY <1>1, LeastNat
  <2>2. m \in Nat /\ m # 0
    BY <1>2, <2>1
  <2>3. m - 1 \in Nat /\ m - 1 \notin V
    BY <2>1, <2>2
  <2>4. (m - 1) + 1 \in T
    BY <1>1, <2>3
  <2>5. (m - 1) + 1 = m
    BY <2>2
  <2> QED
    BY <1>2, <2>1, <2>4, <2>5
<1> QED
  BY <1>1, <1>3

-----------------------------------------------------------------------------
(* Counting. *)

\* What is in one to one correspondence with a finite set has as many elements.
LEMMA SameCount ==
  ASSUME NEW S, NEW T, IsFiniteSet(S), NEW f \in [S -> T],
         \A t \in T : \E x \in S : f[x] = t,
         \A x, y \in S : f[x] = f[y] => x = y
  PROVE  IsFiniteSet(T) /\ Cardinality(T) = Cardinality(S)
<1>1. f \in Injection(S, T)
  BY DEF Injection, IsInjective
<1>2. f \in Surjection(S, T)
  BY DEF Surjection
<1>3. ExistsBijection(S, T)
  BY <1>1, <1>2 DEF ExistsBijection, Bijection
<1> QED
  BY <1>3, FS_Bijection

-----------------------------------------------------------------------------
(* Powers of two. *)

\* Half of the subsets of a set hold a given element: the law of powers, from
\* the library's count of subsets.
LEMMA PowLaws ==
  /\ 2^0 = 1
  /\ \A n \in Nat : 2^n \in Nat /\ 2^(n + 1) = 2 * 2^n
<1>1. 2^0 = 1
  OBVIOUS
<1>2. ASSUME NEW n \in Nat PROVE 2^n \in Nat /\ 2^(n + 1) = 2 * 2^n
  <2> DEFINE S == 1..n
             H == SUBSET S
             with(T) == T \cup {n + 1}
             W == {with(T) : T \in H}
  <2>1. IsFiniteSet(S) /\ Cardinality(S) = n
    BY FS_Interval
  <2>2. IsFiniteSet(H) /\ Cardinality(H) = 2^n
    BY <2>1, FS_SUBSET
  <2>3. IsFiniteSet(1..(n + 1)) /\ Cardinality(1..(n + 1)) = n + 1
    BY FS_Interval
  <2>4. Cardinality(SUBSET (1..(n + 1))) = 2^(n + 1)
    BY <2>3, FS_SUBSET
  <2>5. n + 1 \notin S /\ 1..(n + 1) = S \cup {n + 1}
    OBVIOUS
  <2>6. PICK x : x = n + 1
    OBVIOUS
  <2>7. PICK f : f = [T \in H |-> T \cup {x}]
    OBVIOUS
  <2>8. IsFiniteSet(W) /\ Cardinality(W) = Cardinality(H)
    <3>1. f \in [H -> W] /\ \A T \in W : \E t \in H : f[t] = T
      BY <2>6, <2>7
    <3>2. ASSUME NEW T \in H, NEW U \in H, f[T] = f[U] PROVE T = U
      <4>1. T \cup {x} = U \cup {x} /\ x \notin T /\ x \notin U
        BY <2>5, <2>6, <2>7, <3>2
      <4> QED
        BY <4>1
    <3> HIDE DEF H, W
    <3> QED
      BY <2>2, <3>1, <3>2, SameCount
  <2>9. H \cap W = {}
    BY <2>5
  <2>10. SUBSET (S \cup {x}) = H \cup W
    <3>1. ASSUME NEW T \in SUBSET (S \cup {x}) PROVE T \in H \cup W
      <4>1. T \ {x} \in H
        OBVIOUS
      <4>2. x \in T => T = with(T \ {x})
        BY <2>6
      <4> QED
        BY <4>1, <4>2
    <3>2. ASSUME NEW T \in H \cup W PROVE T \in SUBSET (S \cup {x})
      BY <2>6
    <3> QED
      BY <3>1, <3>2
  <2>11. SUBSET (1..(n + 1)) = H \cup W
    BY <2>5, <2>6, <2>10
  <2> HIDE DEF S, H, W
  <2>12. Cardinality(H \cup W) = Cardinality(H) + Cardinality(W) - Cardinality(H \cap W)
    BY <2>2, <2>8, FS_Union
  <2>13. Cardinality(H) \in Nat /\ Cardinality(H \cap W) = 0
    BY <2>2, <2>9, FS_CardinalityType, FS_EmptySet
  <2>14. PICK a, b : a = 2^n /\ b = 2^(n + 1)
    OBVIOUS
  <2>15. Cardinality(H) = a /\ Cardinality(H \cup W) = b
    BY <2>2, <2>4, <2>11, <2>14
  <2>16. a \in Nat /\ b = 2 * a
    BY <2>8, <2>12, <2>13, <2>15
  <2> QED
    BY <2>14, <2>16
<1> QED
  BY <1>1, <1>2

\* Powers are positive and grow.
LEMMA PowPositive ==
  ASSUME NEW n \in Nat
  PROVE  2^n \in Nat /\ 2^n >= 1
<1> DEFINE T == {k \in Nat : 2^k >= 1}
<1>1. T \in SUBSET Nat /\ \A k \in Nat : k \in T <=> 2^k >= 1
  OBVIOUS
<1> HIDE DEF T
<1>2. 0 \in T
  <2>1. 2^0 = 1 /\ 1 >= 1
    BY PowLaws
  <2> QED
    BY <1>1, <2>1
<1>3. ASSUME NEW k \in Nat, k \in T PROVE k + 1 \in T
  <2>1. PICK a, b : a = 2^k /\ b = 2^(k + 1)
    OBVIOUS
  <2>2. a \in Nat /\ a >= 1 /\ b = 2 * a
    BY <1>1, <1>3, <2>1, PowLaws
  <2>3. b >= 1
    BY <2>2
  <2> QED
    BY <1>1, <2>1, <2>3
<1>4. T = Nat
  BY <1>1, <1>2, <1>3, AllNat
<1> QED
  BY <1>1, <1>4, PowLaws

\* A higher power is a multiple of twice a lower one.
LEMMA PowDivides ==
  ASSUME NEW m \in Nat, NEW n \in Nat, m < n
  PROVE  \E t \in Nat : t >= 1 /\ 2^n = (2 * 2^m) * t
<1> DEFINE Good(k) == \E t \in Nat : t >= 1 /\ 2^((m + 1) + k) = (2 * 2^m) * t
           T == {k \in Nat : Good(k)}
<1>1. T \in SUBSET Nat /\ \A k \in Nat : k \in T <=> Good(k)
  OBVIOUS
<1> HIDE DEF T
<1>2. PICK a \in Nat : a = 2 * 2^m
  BY PowPositive
<1>3. 0 \in T
  <2>1. 2^((m + 1) + 0) = a
    <3>1. (m + 1) + 0 = m + 1
      OBVIOUS
    <3> QED
      BY <1>2, <3>1, PowLaws
  <2>2. a = a * 1
    OBVIOUS
  <2> QED
    BY <1>1, <1>2, <2>1, <2>2
<1>4. ASSUME NEW k \in Nat, k \in T PROVE k + 1 \in T
  <2>1. PICK t \in Nat : t >= 1 /\ 2^((m + 1) + k) = (2 * 2^m) * t
    BY <1>1, <1>4
  <2>2. PICK l \in Nat : l = (m + 1) + k
    OBVIOUS
  <2>3. PICK b, e : b = 2^l /\ e = 2^(l + 1)
    OBVIOUS
  <2>4. b = a * t /\ e = 2 * b
    BY <1>2, <2>1, <2>2, <2>3, PowLaws
  <2>5. e = a * (2 * t) /\ 2 * t \in Nat /\ 2 * t >= 1
    BY <2>1, <2>4, Z3
  <2>6. (m + 1) + (k + 1) = l + 1
    BY <2>2
  <2>7. 2^((m + 1) + (k + 1)) = (2 * 2^m) * (2 * t)
    BY <1>2, <2>3, <2>5, <2>6
  <2>8. PICK u \in Nat : u = 2 * t
    OBVIOUS
  <2>9. Good(k + 1)
    BY <2>5, <2>7, <2>8
  <2> QED
    BY <1>1, <2>9
<1>5. T = Nat
  BY <1>1, <1>3, <1>4, AllNat
<1>6. n - (m + 1) \in Nat /\ (m + 1) + (n - (m + 1)) = n
  OBVIOUS
<1>7. Good(n - (m + 1))
  BY <1>1, <1>5, <1>6
<1> QED
  BY <1>6, <1>7

\* Lower powers are smaller.
LEMMA PowGrows ==
  ASSUME NEW m \in Nat, NEW n \in Nat, m < n
  PROVE  2 * 2^m <= 2^n /\ 2^m < 2^n
<1>1. PICK t \in Nat : t >= 1 /\ 2^n = (2 * 2^m) * t
  BY PowDivides
<1>2. PICK a, b : a = 2^m /\ b = 2^n
  OBVIOUS
<1>3. a \in Nat /\ a >= 1 /\ b = (2 * a) * t
  BY <1>1, <1>2, PowPositive
<1>4. 2 * a <= b /\ a < b
  BY <1>1, <1>3, Z3
<1> QED
  BY <1>2, <1>4

\* 2^n outgrows 2 * n.
LEMMA PowLarge ==
  ASSUME NEW n \in Nat, n >= 3
  PROVE  2^n >= 2 * n + 1
<1> DEFINE T == {k \in Nat : 2^(k + 3) >= 2 * (k + 3) + 1}
<1>1. T \in SUBSET Nat /\ \A k \in Nat : k \in T <=> 2^(k + 3) >= 2 * (k + 3) + 1
  OBVIOUS
<1> HIDE DEF T
<1>2. 0 \in T
  <2>1. 2^1 = 2 /\ 2^2 = 4 /\ 2^3 = 8
    <3>1. 2^(0 + 1) = 2 * 2^0 /\ 0 + 1 = 1
      BY PowLaws
    <3>2. 2^(1 + 1) = 2 * 2^1 /\ 1 + 1 = 2
      BY PowLaws
    <3>3. 2^(2 + 1) = 2 * 2^2 /\ 2 + 1 = 3
      BY PowLaws
    <3> QED
      BY <3>1, <3>2, <3>3, PowLaws
  <2>2. 0 + 3 = 3 /\ 8 >= 2 * (0 + 3) + 1
    OBVIOUS
  <2> QED
    BY <1>1, <2>1, <2>2
<1>3. ASSUME NEW k \in Nat, k \in T PROVE k + 1 \in T
  <2>1. PICK l \in Nat : l = k + 3
    OBVIOUS
  <2>2. PICK a, b : a = 2^l /\ b = 2^(l + 1)
    OBVIOUS
  <2>3. a \in Nat /\ b = 2 * a /\ a >= 2 * l + 1
    BY <1>1, <1>3, <2>1, <2>2, PowLaws
  <2>4. b >= 2 * (l + 1) + 1 /\ l + 1 = (k + 1) + 3
    BY <2>1, <2>3
  <2> QED
    BY <1>1, <2>2, <2>4
<1>4. T = Nat
  BY <1>1, <1>2, <1>3, AllNat
<1>5. n - 3 \in Nat /\ (n - 3) + 3 = n
  OBVIOUS
<1> QED
  BY <1>1, <1>4, <1>5

-----------------------------------------------------------------------------
(* The positions a check bit covers. *)

\* Remainders do not see multiples.
LEMMA ModShift ==
  ASSUME NEW x \in Nat, NEW t \in Nat, NEW m \in Nat, m >= 1
  PROVE  (x + m * t) % m = x % m
<1>1. PICK e, r : e = x \div m /\ r = x % m
  OBVIOUS
<1>2. e \in Int /\ r \in 0..(m - 1) /\ x = m * e + r
  BY <1>1, Z3
<1>3. x + m * t = m * (e + t) + r
  BY <1>2, Z3
<1>4. PICK g \in Int : g = e + t
  BY <1>2
<1>5. (m * g + r) % m = r
  BY <1>2, <1>4, Z3
<1> QED
  BY <1>1, <1>3, <1>4, <1>5

\* Quotient and remainder of a number below 2 * m.
LEMMA DivBelow ==
  ASSUME NEW m \in Nat, m >= 1, NEW y \in Nat, y < 2 * m
  PROVE  (y \div m = 1 <=> y >= m) /\ y % (2 * m) = y
<1>1. PICK q \in Int : q = y \div m
  BY Z3
<1>2. m * q <= y /\ y < m * q + m
  BY <1>1, Z3
<1>3. q >= 0
  <2>1. q <= -1 => m * q <= -m
    BY Z3
  <2> QED
    BY <1>2, <2>1
<1>4. q <= 1
  <2>1. q >= 2 => m * q >= 2 * m
    BY Z3
  <2> QED
    BY <1>2, <2>1
<1>5. q = 0 \/ q = 1
  BY <1>3, <1>4
<1>6. q = 0 => y < m
  BY <1>2
<1>7. q = 1 => y >= m
  BY <1>2
<1>8. y % (2 * m) = y
  <2>1. PICK k \in Nat : k = 2 * m
    OBVIOUS
  <2>2. y % k = y
    BY <2>1
  <2> QED
    BY <2>1, <2>2
<1> QED
  BY <1>1, <1>5, <1>6, <1>7, <1>8

\* A check bit covers the upper half of every 2 * 2^i positions.
LEMMA CoversIs ==
  ASSUME NEW i \in Nat, NEW j \in Nat
  PROVE  Covers(i, j) <=> j % (2 * 2^i) >= 2^i
<1>1. PICK m \in Nat : m = 2^i /\ m >= 1
  BY PowPositive
<1>2. PICK y : y = j % (2 * m)
  OBVIOUS
<1>3. y \in 0..(2 * m - 1)
  BY <1>1, <1>2
<1>4. y \div m = 1 <=> y >= m
  BY <1>1, <1>3, DivBelow
<1> QED
  BY <1>1, <1>2, <1>4 DEF Covers

\* Adding a higher power changes nothing below it.
LEMMA CoversShift ==
  ASSUME NEW i \in Nat, NEW n \in Nat, i < n, NEW p \in Nat
  PROVE  Covers(i, p + 2^n) <=> Covers(i, p)
<1>1. PICK t \in Nat : t >= 1 /\ 2^n = (2 * 2^i) * t
  BY PowDivides
<1>2. PICK m \in Nat : m = 2 * 2^i /\ m >= 1
  BY PowPositive
<1>3. (p + m * t) % m = p % m
  BY <1>2, ModShift
<1>4. (p + 2^n) % (2 * 2^i) = p % (2 * 2^i) /\ p + 2^n \in Nat
  BY <1>1, <1>2, <1>3, PowPositive
<1> QED
  BY <1>4, CoversIs

\* The check bit of a power covers no position below it, and those from it on.
LEMMA CoversTop ==
  ASSUME NEW n \in Nat, NEW p \in 0..(2^n - 1)
  PROVE  ~Covers(n, p) /\ Covers(n, p + 2^n)
<1>1. PICK m \in Nat : m = 2^n /\ m >= 1
  BY PowPositive
<1>2. p \in Nat /\ p < m /\ p + m \in Nat /\ p + m < 2 * m
  BY <1>1
<1>3. p % (2 * m) = p
  BY <1>1, <1>2, DivBelow
<1>4. (p + m) % (2 * m) = p + m
  BY <1>1, <1>2, DivBelow
<1> QED
  BY <1>1, <1>2, <1>3, <1>4, CoversIs

\* No check bit covers position 0; the one at a power of two is covered by itself alone.
LEMMA CoversPow ==
  /\ \A i \in Nat : ~Covers(i, 0)
  /\ \A i, k \in Nat : Covers(i, 2^k) <=> i = k
<1>1. ASSUME NEW i \in Nat PROVE 0 \in 0..(2^i - 1)
  BY PowPositive
<1>2. ASSUME NEW i \in Nat PROVE ~Covers(i, 0)
  BY <1>1, CoversTop
<1>3. ASSUME NEW i \in Nat, NEW k \in Nat PROVE Covers(i, 2^k) <=> i = k
  <2>1. PICK a \in Nat : a = 2^k
    BY PowPositive
  <2>2. 0 + a = a
    BY <2>1
  <2>3. CASE i < k
    BY <1>2, <2>1, <2>2, <2>3, CoversShift
  <2>4. CASE i = k
    BY <1>1, <2>1, <2>2, <2>4, CoversTop
  <2>5. CASE k < i
    <3>1. PICK b \in Nat : b = 2^i
      BY PowPositive
    <3>2. a < b
      BY <2>1, <2>5, <3>1, PowGrows
    <3>3. a \in 0..(b - 1)
      BY <3>2
    <3>4. ~Covers(i, a)
      BY <3>1, <3>3, CoversTop
    <3> QED
      BY <2>1, <2>5, <3>4
  <2> QED
    BY <2>3, <2>4, <2>5
<1> QED
  BY <1>2, <1>3

\* p spells the set of check bits S, of n.
Spells(n, S, p) == \A i \in 0..(n - 1) : i \in S <=> Covers(i, p)

\* Every set of n check bits is spelled by a position below 2^n.
LEMMA Spelling ==
  ASSUME NEW n \in Nat, NEW S
  PROVE  \E p \in 0..(2^n - 1) : Spells(n, S, p)
<1> DEFINE Good(k) == \E p \in 0..(2^k - 1) : Spells(k, S, p)
           T == {k \in Nat : Good(k)}
<1>1. T \in SUBSET Nat /\ \A k \in Nat : k \in T <=> Good(k)
  OBVIOUS
<1> HIDE DEF T
<1>2. 0 \in T
  <2>1. 0 \in 0..(2^0 - 1)
    BY PowLaws
  <2>2. Spells(0, S, 0)
    BY DEF Spells
  <2> QED
    BY <1>1, <2>1, <2>2
<1>3. ASSUME NEW k \in Nat, k \in T PROVE k + 1 \in T
  <2>1. PICK p \in 0..(2^k - 1) : Spells(k, S, p)
    BY <1>1, <1>3
  <2>2. PICK a \in Nat : a = 2^k
    BY PowPositive
  <2>3. 2^(k + 1) = 2 * a
    BY <2>2, PowLaws
  <2>4. p \in 0..(a - 1)
    BY <2>1, <2>2
  <2>5. p \in Nat /\ p \in 0..(2 * a - 1) /\ p + a \in 0..(2 * a - 1)
    BY <2>2, <2>4
  <2>6. ~Covers(k, p) /\ Covers(k, p + a)
    BY <2>1, <2>2, CoversTop
  <2>7. \A i \in 0..k : i = k \/ (i \in 0..(k - 1) /\ i \in Nat /\ i < k)
    OBVIOUS
  <2>8. \A i \in 0..(k - 1) : Covers(i, p + a) <=> Covers(i, p)
    BY <2>2, <2>5, CoversShift
  <2>9. (k + 1) - 1 = k
    OBVIOUS
  <2>10. CASE k \in S
    <3>1. Spells(k + 1, S, p + a)
      BY <2>1, <2>6, <2>7, <2>8, <2>9, <2>10 DEF Spells
    <3> QED
      BY <1>1, <2>3, <2>5, <3>1
  <2>11. CASE k \notin S
    <3>1. Spells(k + 1, S, p)
      BY <2>1, <2>6, <2>7, <2>9, <2>11 DEF Spells
    <3> QED
      BY <1>1, <2>3, <2>5, <3>1
  <2> QED
    BY <2>10, <2>11
<1>4. T = Nat
  BY <1>1, <1>2, <1>3, AllNat
<1> QED
  BY <1>1, <1>4

\* No two positions are covered by the same check bits.
LEMMA SpelledOnce ==
  ASSUME NEW n \in Nat, NEW p \in 0..(2^n - 1), NEW q \in 0..(2^n - 1),
         \A i \in 0..(n - 1) : Covers(i, p) <=> Covers(i, q)
  PROVE  p = q
<1> DEFINE Same(k, x, y) == \A i \in 0..(k - 1) : Covers(i, x) <=> Covers(i, y)
           Good(k) == \A x, y \in 0..(2^k - 1) : Same(k, x, y) => x = y
           T == {k \in Nat : Good(k)}
<1>1. T \in SUBSET Nat /\ \A k \in Nat : k \in T <=> Good(k)
  OBVIOUS
<1> HIDE DEF T
<1>2. 0 \in T
  <2>1. 2^0 = 1
    BY PowLaws
  <2>2. \A x \in 0..(2^0 - 1) : x = 0
    BY <2>1
  <2> QED
    BY <1>1, <2>2
<1>3. ASSUME NEW k \in Nat, k \in T PROVE k + 1 \in T
  <2>1. PICK a \in Nat : a = 2^k
    BY PowPositive
  <2>2. 2^(k + 1) = 2 * a
    BY <2>1, PowLaws
  <2>3. ASSUME NEW x \in 0..(2 * a - 1)
        PROVE  \E z \in 0..(a - 1) :
                 /\ x = IF Covers(k, x) THEN z + a ELSE z
                 /\ \A i \in 0..(k - 1) : Covers(i, x) <=> Covers(i, z)
    <3>1. CASE x < a
      <4>1. x \in 0..(a - 1)
        BY <2>1, <3>1
      <4>2. ~Covers(k, x)
        BY <2>1, <4>1, CoversTop
      <4> QED
        BY <4>1, <4>2
    <3>2. CASE ~(x < a)
      <4>1. PICK z \in 0..(a - 1) : x = z + a
        <5>1. x - a \in 0..(a - 1) /\ x = (x - a) + a
          BY <2>1, <2>3, <3>2
        <5> QED
          BY <5>1
      <4>2. Covers(k, z + a)
        BY <2>1, <4>1, CoversTop
      <4>3. \A i \in 0..(k - 1) : Covers(i, z + a) <=> Covers(i, z)
        <5>1. z \in Nat /\ \A i \in 0..(k - 1) : i \in Nat /\ i < k
          OBVIOUS
        <5> QED
          BY <2>1, <5>1, CoversShift
      <4> QED
        BY <4>1, <4>2, <4>3
    <3> QED
      BY <3>1, <3>2
  <2>4. ASSUME NEW x \in 0..(2 * a - 1), NEW y \in 0..(2 * a - 1), Same(k + 1, x, y)
        PROVE  x = y
    <3>1. PICK u \in 0..(a - 1) :
            /\ x = IF Covers(k, x) THEN u + a ELSE u
            /\ \A i \in 0..(k - 1) : Covers(i, x) <=> Covers(i, u)
      BY <2>3
    <3>2. PICK w \in 0..(a - 1) :
            /\ y = IF Covers(k, y) THEN w + a ELSE w
            /\ \A i \in 0..(k - 1) : Covers(i, y) <=> Covers(i, w)
      BY <2>3
    <3>3. (Covers(k, x) <=> Covers(k, y)) /\ \A i \in 0..(k - 1) : Covers(i, x) <=> Covers(i, y)
      <4>1. k \in 0..((k + 1) - 1) /\ \A i \in 0..(k - 1) : i \in 0..((k + 1) - 1)
        OBVIOUS
      <4> QED
        BY <2>4, <4>1
    <3>4. Same(k, u, w)
      BY <3>1, <3>2, <3>3
    <3>5. Good(k)
      BY <1>1, <1>3
    <3>6. u = w
      BY <2>1, <3>4, <3>5
    <3> QED
      BY <3>1, <3>2, <3>3, <3>6
  <2>5. Good(k + 1)
    BY <2>2, <2>4
  <2> QED
    BY <1>1, <2>5
<1>4. T = Nat
  BY <1>1, <1>2, <1>3, AllNat
<1>5. Good(n)
  BY <1>1, <1>4
<1> QED
  BY <1>5

-----------------------------------------------------------------------------
(* The length of the code. *)

\* hmLength finds a length; all positions of the block are told apart by it, and
\* the check bits sit within the block.
LEMMA Length ==
  /\ R \in Nat /\ R >= 1 /\ K \in Nat /\ K >= 8
  /\ R + K <= 2^R - 1
  /\ \A i \in 0..(R - 1) : CheckPos(i) \in 1..(R + K)
<1>1. K \in Nat /\ K >= 8
  <2>1. K \in Nat \ {0} /\ K % 8 = 0
    BY HammingAssumption, Zenon
  <2>2. \A k \in Nat \ {0} : k % 8 = 0 => k >= 8
    OBVIOUS
  <2> QED
    BY <2>1, <2>2
<1> DEFINE Fits(r) == 2^r - 1 - r - K >= 0
           T == {r \in Nat : Fits(r)}
<1>2. \A r \in Nat : 2^r \in Nat
  BY PowPositive
<1>3. T \in SUBSET Nat /\ \A r \in Nat : r \in T <=> Fits(r)
  OBVIOUS
<1>4. K \in T
  <2>1. PICK a \in Nat : a = 2^K
    BY <1>1, PowPositive
  <2>2. a >= 2 * K + 1
    BY <1>1, <2>1, PowLarge
  <2>3. a - 1 - K - K >= 0
    BY <1>1, <2>2
  <2> QED
    BY <1>1, <1>3, <2>1, <2>3
<1> HIDE DEF T
<1>5. PICK r \in T : \A s \in T : r <= s
  BY <1>3, <1>4, LeastNat
<1>6. r \in 0..K /\ Fits(r) /\ \A s \in 0..(r - 1) : 2^s - 1 - s - K < 0
  <2>1. r \in Nat /\ r <= K /\ Fits(r)
    BY <1>1, <1>3, <1>4, <1>5
  <2>2. ASSUME NEW s \in 0..(r - 1) PROVE 2^s - 1 - s - K < 0
    <3>1. s \in Nat /\ s \notin T
      BY <1>5, <2>1
    <3>2. PICK a \in Nat : a = 2^s
      BY <3>1, PowPositive
    <3>3. ~(a - 1 - s - K >= 0)
      BY <1>3, <3>1, <3>2
    <3>4. a - 1 - s - K < 0
      BY <1>1, <3>1, <3>3
    <3> QED
      BY <3>2, <3>4
  <2> QED
    BY <1>1, <2>1, <2>2
<1>7. R \in 0..K /\ Fits(R) /\ \A s \in 0..(R - 1) : 2^s - 1 - s - K < 0
  <2> DEFINE Least(x) == Fits(x) /\ \A s \in 0..(x - 1) : 2^s - 1 - s - K < 0
  <2>1. R = CHOOSE x \in 0..K : Least(x)
    BY DEF R, hmLength
  <2>2. \E x \in 0..K : Least(x)
    BY <1>6
  <2> HIDE DEF Least
  <2>3. R \in 0..K /\ Least(R)
    BY <2>1, <2>2
  <2> QED
    BY <2>3 DEF Least
<1>8. R # 0
  <2>1. 2^0 - 1 - 0 - K < 0
    BY <1>1, PowLaws
  <2>2. R = 0 => 2^R = 1
    BY PowLaws
  <2> QED
    BY <1>1, <1>7, <2>2
<1>9. R \in Nat /\ R >= 1 /\ R - 1 \in Nat
  BY <1>1, <1>7, <1>8
<1>10. PICK a \in Nat : a = 2^R
  BY <1>9, PowPositive
<1>11. R + K <= a - 1
  BY <1>1, <1>7, <1>9, <1>10
<1>12. ASSUME NEW i \in 0..(R - 1) PROVE CheckPos(i) \in 1..(R + K)
  <2>1. i \in Nat /\ i <= R - 1
    BY <1>9
  <2>2. PICK b \in Nat : b = 2^i /\ b >= 1
    BY <2>1, PowPositive
  <2>3. b - 1 - i - K < 0
    BY <1>7, <2>2
  <2>4. b \in 1..(R + K)
    BY <1>1, <1>9, <2>1, <2>2, <2>3
  <2> QED
    BY <2>2, <2>4 DEF CheckPos
<1> QED
  BY <1>1, <1>9, <1>10, <1>11, <1>12

\* Every check bit has a position of its own, and every data bit one of the others.
LEMMA Layout ==
  /\ IsFiniteSet(DataPositions) /\ DataPositions \subseteq 1..(R + K)
  /\ \A i \in 0..(R - 1) : CheckPos(i) \notin DataPositions
  /\ \A i, k \in 0..(R - 1) : CheckPos(i) = CheckPos(k) => i = k
  /\ \A j \in 1..(R + K) : j \in DataPositions \/ \E i \in 0..(R - 1) : j = CheckPos(i)
  /\ DataIndex \in [DataPositions -> 0..(K - 1)]
  /\ \A j, k \in DataPositions : DataIndex[j] = DataIndex[k] => j = k
  /\ \A n \in 0..(K - 1) : \E j \in DataPositions : DataIndex[j] = n
<1> DEFINE C == {CheckPos(i) : i \in 0..(R - 1)}
           Before(j) == {q \in DataPositions : q < j}
<1>1. R \in Nat /\ R >= 1 /\ K \in Nat /\ K >= 8
  BY Length
<1>2. \A i, k \in 0..(R - 1) : CheckPos(i) = CheckPos(k) => i = k
  <2> SUFFICES ASSUME NEW i \in 0..(R - 1), NEW k \in 0..(R - 1), CheckPos(i) = CheckPos(k)
               PROVE  i = k
    OBVIOUS
  <2>1. i \in Nat /\ k \in Nat
    BY <1>1
  <2>2. Covers(i, CheckPos(i)) /\ (Covers(i, CheckPos(k)) <=> i = k)
    BY <2>1, CoversPow DEF CheckPos
  <2> QED
    BY <2>2
<1>3. IsFiniteSet(C) /\ Cardinality(C) = R
  <2>1. IsFiniteSet(0..(R - 1)) /\ Cardinality(0..(R - 1)) = R
    BY <1>1, FS_Interval
  <2>2. PICK f : f = [i \in 0..(R - 1) |-> CheckPos(i)]
    OBVIOUS
  <2>3. f \in [0..(R - 1) -> C] /\ \A x \in C : \E i \in 0..(R - 1) : f[i] = x
    BY <2>2
  <2>4. \A i, k \in 0..(R - 1) : f[i] = f[k] => i = k
    BY <1>2, <2>2
  <2>5. PICK S, D : S = 0..(R - 1) /\ D = C
    OBVIOUS
  <2> HIDE DEF C
  <2>6. IsFiniteSet(D) /\ Cardinality(D) = Cardinality(S)
    BY <2>1, <2>3, <2>4, <2>5, SameCount
  <2> QED
    BY <2>1, <2>5, <2>6
<1>4. C \subseteq 1..(R + K)
  BY Length
<1>5. DataPositions = 1..(R + K) \ C
  BY DEF DataPositions
<1>6. IsFiniteSet(DataPositions) /\ Cardinality(DataPositions) = K
  <2>1. IsFiniteSet(1..(R + K)) /\ Cardinality(1..(R + K)) = R + K
    BY <1>1, FS_Interval
  <2>2. (1..(R + K)) \cap C = C
    BY <1>4
  <2> HIDE DEF C
  <2>3. /\ IsFiniteSet((1..(R + K)) \ C)
        /\ Cardinality((1..(R + K)) \ C) = Cardinality(1..(R + K)) - Cardinality((1..(R + K)) \cap C)
    BY <2>1, FS_Difference
  <2>4. (R + K) - R = K
    BY <1>1
  <2> QED
    BY <1>3, <1>5, <2>1, <2>2, <2>3, <2>4
<1>7. /\ DataPositions \subseteq 1..(R + K)
      /\ \A i \in 0..(R - 1) : CheckPos(i) \notin DataPositions
      /\ \A j \in 1..(R + K) : j \in DataPositions \/ \E i \in 0..(R - 1) : j = CheckPos(i)
  BY <1>5
<1>8. \A j \in DataPositions : j \in Nat
  BY <1>1, <1>7
<1>9. ASSUME NEW j \in DataPositions
      PROVE  /\ IsFiniteSet(Before(j)) /\ Cardinality(Before(j)) \in 0..(K - 1)
  <2>1. Before(j) \in SUBSET (DataPositions \ {j})
    BY <1>8
  <2>2. /\ IsFiniteSet(DataPositions \ {j})
        /\ Cardinality(DataPositions \ {j}) = K - 1
    BY <1>6, FS_RemoveElement
  <2> HIDE DEF Before
  <2>3. IsFiniteSet(Before(j)) /\ Cardinality(Before(j)) <= K - 1
    BY <2>1, <2>2, FS_Subset
  <2>4. Cardinality(Before(j)) \in Nat
    BY <2>3, FS_CardinalityType
  <2> QED
    BY <1>1, <2>3, <2>4
<1>10. DataIndex = [j \in DataPositions |-> Cardinality(Before(j))]
  BY DEF DataIndex
<1>11. DataIndex \in [DataPositions -> 0..(K - 1)]
  BY <1>9, <1>10
<1>12. ASSUME NEW j \in DataPositions, NEW k \in DataPositions, j < k
       PROVE  DataIndex[j] < DataIndex[k]
  <2>1. Before(j) \cup {j} \in SUBSET Before(k) /\ j \notin Before(j)
    BY <1>8, <1>12
  <2>2. IsFiniteSet(Before(j)) /\ IsFiniteSet(Before(k))
    BY <1>9
  <2>3. /\ DataIndex[j] = Cardinality(Before(j)) /\ DataIndex[k] = Cardinality(Before(k))
        /\ DataIndex[j] \in Int /\ DataIndex[k] \in Int
    BY <1>10, <1>11
  <2> HIDE DEF Before
  <2>4. Cardinality(Before(j) \cup {j}) = Cardinality(Before(j)) + 1
    BY <2>1, <2>2, FS_AddElement
  <2>5. Cardinality(Before(j) \cup {j}) <= Cardinality(Before(k))
    BY <2>1, <2>2, FS_Subset
  <2> QED
    BY <2>3, <2>4, <2>5
<1>13. \A j, k \in DataPositions : DataIndex[j] = DataIndex[k] => j = k
  <2> SUFFICES ASSUME NEW j \in DataPositions, NEW k \in DataPositions, j # k
               PROVE  DataIndex[j] # DataIndex[k]
    OBVIOUS
  <2>1. DataIndex[j] \in Int /\ DataIndex[k] \in Int
    BY <1>11
  <2>2. j < k \/ k < j
    BY <1>8
  <2> QED
    BY <1>12, <2>1, <2>2
<1>14. \A n \in 0..(K - 1) : \E j \in DataPositions : DataIndex[j] = n
  <2>1. IsFiniteSet(0..(K - 1)) /\ Cardinality(0..(K - 1)) = K
    BY <1>1, FS_Interval
  <2>2. DataIndex \in Injection(DataPositions, 0..(K - 1))
    BY <1>11, <1>13 DEF Injection, IsInjective
  <2>3. DataIndex \in Surjection(DataPositions, 0..(K - 1))
    BY <1>6, <2>1, <2>2, FS_Injection
  <2> QED
    BY <2>3 DEF Surjection
<1> QED
  BY <1>2, <1>6, <1>7, <1>11, <1>13, <1>14

-----------------------------------------------------------------------------
(* Parities. *)

\* Parities are bits.
LEMMA ParityType ==
  ASSUME NEW S, IsFiniteSet(S)
  PROVE  Parity(S) \in 0..1
BY FS_CardinalityType DEF Parity

\* The parity of what is in one of two sets only.
LEMMA ParityOfDifference ==
  ASSUME NEW S, NEW T, IsFiniteSet(S), IsFiniteSet(T)
  PROVE  /\ IsFiniteSet((S \ T) \cup (T \ S))
         /\ Parity((S \ T) \cup (T \ S)) = IF Parity(S) = Parity(T) THEN 0 ELSE 1
<1>1. PICK U : U = S \cap T
  OBVIOUS
<1>2. IsFiniteSet(U) /\ U = T \cap S
  BY <1>1, FS_Intersection
<1>3. /\ IsFiniteSet(S \ T) /\ Cardinality(S \ T) = Cardinality(S) - Cardinality(U)
      /\ IsFiniteSet(T \ S) /\ Cardinality(T \ S) = Cardinality(T) - Cardinality(U)
  <2>1. IsFiniteSet(S \ T) /\ Cardinality(S \ T) = Cardinality(S) - Cardinality(S \cap T)
    BY FS_Difference
  <2>2. IsFiniteSet(T \ S) /\ Cardinality(T \ S) = Cardinality(T) - Cardinality(T \cap S)
    BY FS_Difference
  <2> QED
    BY <1>1, <1>2, <2>1, <2>2
<1>4. (S \ T) \cap (T \ S) = {}
  OBVIOUS
<1>5. /\ IsFiniteSet((S \ T) \cup (T \ S))
      /\ Cardinality((S \ T) \cup (T \ S)) = Cardinality(S \ T) + Cardinality(T \ S) - 0
  BY <1>3, <1>4, FS_Union, FS_EmptySet
<1>6. PICK s, t, u \in Nat : s = Cardinality(S) /\ t = Cardinality(T) /\ u = Cardinality(U)
  BY <1>2, FS_CardinalityType
<1>7. PICK w : w = Cardinality((S \ T) \cup (T \ S))
  OBVIOUS
<1>8. w = (s - u) + (t - u) /\ w \in Nat
  <2>1. w \in Nat
    BY <1>5, <1>7, FS_CardinalityType
  <2> QED
    BY <1>3, <1>5, <1>6, <1>7, <2>1
<1>9. w % 2 = IF s % 2 = t % 2 THEN 0 ELSE 1
  BY <1>6, <1>8, Z3
<1> QED
  BY <1>5, <1>6, <1>7, <1>9 DEF Parity

\* The parity of two sets that have nothing in common.
LEMMA ParityOfUnion ==
  ASSUME NEW S, NEW T, IsFiniteSet(S), IsFiniteSet(T), S \cap T = {}
  PROVE  /\ IsFiniteSet(S \cup T)
         /\ Parity(S \cup T) = IF Parity(S) = Parity(T) THEN 0 ELSE 1
<1>1. (S \ T) \cup (T \ S) = S \cup T
  OBVIOUS
<1> QED
  BY <1>1, ParityOfDifference

\* Small sets.
LEMMA ParitySmall ==
  /\ Parity({}) = 0
  /\ \A x : Parity({x}) = 1
<1>1. Cardinality({}) = 0 /\ \A x : Cardinality({x}) = 1
  BY FS_EmptySet, FS_Singleton
<1>2. 0 % 2 = 0 /\ 1 % 2 = 1
  OBVIOUS
<1> QED
  BY <1>1, <1>2 DEF Parity

\* Where two words of bits differ, one of them has a 1.
LEMMA ParityOfWords ==
  ASSUME NEW S, IsFiniteSet(S), NEW x \in [S -> 0..1], NEW y \in [S -> 0..1]
  PROVE  /\ IsFiniteSet({k \in S : x[k] # y[k]})
         /\ Parity({k \in S : x[k] # y[k]}) =
              IF Parity({k \in S : x[k] = 1}) = Parity({k \in S : y[k] = 1}) THEN 0 ELSE 1
<1> DEFINE X == {k \in S : x[k] = 1}
           Y == {k \in S : y[k] = 1}
<1>1. \A k \in S : x[k] \in {0, 1} /\ y[k] \in {0, 1}
  OBVIOUS
<1>2. {k \in S : x[k] # y[k]} = (X \ Y) \cup (Y \ X)
  BY <1>1
<1>3. X \in SUBSET S /\ Y \in SUBSET S
  OBVIOUS
<1> HIDE DEF X, Y
<1>4. IsFiniteSet(X) /\ IsFiniteSet(Y)
  BY <1>3, FS_Subset
<1>5. /\ IsFiniteSet((X \ Y) \cup (Y \ X))
      /\ Parity((X \ Y) \cup (Y \ X)) = IF Parity(X) = Parity(Y) THEN 0 ELSE 1
  BY <1>4, ParityOfDifference
<1> QED
  BY <1>2, <1>5 DEF X, Y

-----------------------------------------------------------------------------
(* What hamming_verify_bit sees. *)

Word == [0..(K - 1) -> 0..1]
Code == [0..R -> 0..1]

\* The data bits and the code bits that differ from those of word w, and the
\* positions of the block they are at.
WrongData(w, d) == {n \in 0..(K - 1) : d[n] # w[n]}
WrongCode(w, k) == {i \in 0..R : k[i] # hamming_code(w)[i]}
WrongAt(w, d, k) ==
  {j \in DataPositions : DataIndex[j] \in WrongData(w, d)}
    \cup {CheckPos(i) : i \in WrongCode(w, k) \ {R}}

Covered(i, S) == {j \in S : Covers(i, j)}

\* The code of a word consists of bits; the last makes the sum of all even.
LEMMA CodeOf ==
  ASSUME NEW w \in Word
  PROVE  /\ hamming_code(w) \in Code
         /\ \A i \in 0..(R - 1) : hamming_code(w)[i] = CheckBit(w, i)
         /\ hamming_code(w)[R] = OverallParity(w, hamming_code(w))
<1>1. R \in Nat /\ R >= 1
  BY Length
<1> DEFINE checks == [i \in 0..(R - 1) |-> CheckBit(w, i)]
<1>2. hamming_code(w) = [i \in 0..R |-> IF i < R THEN checks[i] ELSE OverallParity(w, checks)]
  BY DEF hamming_code
<1>3. \A i \in 0..(R - 1) : i \in 0..R /\ i < R
  BY <1>1
<1>4. \A i \in 0..(R - 1) : hamming_code(w)[i] = checks[i]
  BY <1>2, <1>3
<1>5. hamming_code(w)[R] = OverallParity(w, checks)
  BY <1>1, <1>2
<1>6. {i \in 0..(R - 1) : checks[i] = 1} = {i \in 0..(R - 1) : hamming_code(w)[i] = 1}
  BY <1>4
<1>7. OverallParity(w, hamming_code(w)) = OverallParity(w, checks)
  BY <1>6 DEF OverallParity
<1>8. \A i \in 0..(R - 1) : checks[i] \in 0..1
  <2> SUFFICES ASSUME NEW i \in 0..(R - 1) PROVE CheckBit(w, i) \in 0..1
    OBVIOUS
  <2>1. {j \in DataPositions : Covers(i, j) /\ w[DataIndex[j]] = 1} \in SUBSET DataPositions
    OBVIOUS
  <2>2. IsFiniteSet({j \in DataPositions : Covers(i, j) /\ w[DataIndex[j]] = 1})
    BY <2>1, Layout, FS_Subset
  <2> QED
    BY <2>2, ParityType DEF CheckBit
<1>9. OverallParity(w, checks) \in 0..1
  <2>1. PICK x, y : /\ x = Parity({n \in 0..(K - 1) : w[n] = 1})
                    /\ y = Parity({i \in 0..(R - 1) : checks[i] = 1})
    OBVIOUS
  <2>2. x \in Int /\ y \in Int
    <3>1. IsFiniteSet(0..(K - 1)) /\ IsFiniteSet(0..(R - 1))
      BY Length, FS_Interval
    <3>2. /\ {n \in 0..(K - 1) : w[n] = 1} \in SUBSET (0..(K - 1))
          /\ {i \in 0..(R - 1) : checks[i] = 1} \in SUBSET (0..(R - 1))
      OBVIOUS
    <3>3. /\ IsFiniteSet({n \in 0..(K - 1) : w[n] = 1})
          /\ IsFiniteSet({i \in 0..(R - 1) : checks[i] = 1})
      BY <3>1, <3>2, FS_Subset
    <3> QED
      BY <2>1, <3>3, ParityType
  <2>3. OverallParity(w, checks) = (x + y) % 2
    BY <2>1 DEF OverallParity
  <2> QED
    BY <2>2, <2>3
<1>10. hamming_code(w) \in Code
  <2>1. \A i \in 0..R : i < R => i \in 0..(R - 1)
    BY <1>1
  <2> HIDE DEF checks
  <2>2. \A i \in 0..R : (IF i < R THEN checks[i] ELSE OverallParity(w, checks)) \in 0..1
    BY <1>8, <1>9, <2>1
  <2> QED
    BY <1>2, <2>2 DEF Code
<1> QED
  BY <1>4, <1>5, <1>7, <1>10

\* The wrong bits are finitely many.
LEMMA WrongFinite ==
  ASSUME NEW w, NEW d, NEW k
  PROVE  /\ IsFiniteSet(WrongData(w, d)) /\ IsFiniteSet(WrongCode(w, k))
         /\ IsFiniteSet(WrongAt(w, d, k)) /\ WrongAt(w, d, k) \subseteq 1..(R + K)
         /\ \A i : IsFiniteSet(Covered(i, WrongAt(w, d, k)))
<1>1. IsFiniteSet(0..(K - 1)) /\ IsFiniteSet(0..R) /\ IsFiniteSet(1..(R + K))
  BY Length, FS_Interval
<1>2. WrongData(w, d) \in SUBSET (0..(K - 1)) /\ WrongCode(w, k) \in SUBSET (0..R)
  BY DEF WrongData, WrongCode
<1>3. WrongAt(w, d, k) \in SUBSET (1..(R + K))
  <2>1. \A i \in WrongCode(w, k) \ {R} : i \in 0..(R - 1)
    BY <1>2, Length
  <2>2. \A i \in WrongCode(w, k) \ {R} : CheckPos(i) \in 1..(R + K)
    BY <2>1, Length
  <2>3. \A j \in DataPositions : j \in 1..(R + K)
    BY Layout
  <2> QED
    BY <2>2, <2>3 DEF WrongAt
<1>4. ASSUME NEW i PROVE Covered(i, WrongAt(w, d, k)) \in SUBSET (1..(R + K))
  BY <1>3 DEF Covered
<1> QED
  BY <1>1, <1>2, <1>3, <1>4, FS_Subset

\* A check bit disagrees when it covers an odd number of wrong positions.
LEMMA CheckSees ==
  ASSUME NEW w \in Word, NEW d \in Word, NEW k \in Code, NEW i \in 0..(R - 1)
  PROVE  hamming_verify_bit(d, k)[i] = Parity(Covered(i, WrongAt(w, d, k)))
<1> DEFINE S == {j \in DataPositions : Covers(i, j)}
           D == {j \in S : d[DataIndex[j]] # w[DataIndex[j]]}
           C == IF i \in WrongCode(w, k) THEN {CheckPos(i)} ELSE {}
<1>1. i \in 0..R /\ i < R /\ i \in Nat /\ R \in Nat
  BY Length
<1>2. Covered(i, WrongAt(w, d, k)) = D \cup C
  <2>1. \A j \in DataPositions : DataIndex[j] \in 0..(K - 1)
    BY Layout
  <2>2. Covered(i, {j \in DataPositions : DataIndex[j] \in WrongData(w, d)}) = D
    BY <2>1 DEF Covered, WrongData
  <2>3. \A x \in WrongCode(w, k) \ {R} : x \in Nat /\ (Covers(i, CheckPos(x)) <=> i = x)
    <3>1. \A x \in WrongCode(w, k) \ {R} : x \in Nat
      BY <1>1 DEF WrongCode
    <3> QED
      BY <1>1, <3>1, CoversPow DEF CheckPos
  <2>4. Covered(i, {CheckPos(x) : x \in WrongCode(w, k) \ {R}}) = C
    <3>1. i # R
      BY <1>1
    <3> QED
      BY <2>3, <3>1 DEF Covered
  <2>5. Covered(i, WrongAt(w, d, k)) =
          Covered(i, {j \in DataPositions : DataIndex[j] \in WrongData(w, d)})
            \cup Covered(i, {CheckPos(x) : x \in WrongCode(w, k) \ {R}})
    BY DEF Covered, WrongAt
  <2> QED
    BY <2>2, <2>4, <2>5
<1>3. IsFiniteSet(S)
  <2>1. S \in SUBSET DataPositions
    OBVIOUS
  <2> QED
    BY <2>1, Layout, FS_Subset
<1>4. /\ IsFiniteSet(D)
      /\ Parity(D) = IF CheckBit(d, i) = CheckBit(w, i) THEN 0 ELSE 1
  <2> DEFINE x == [j \in S |-> d[DataIndex[j]]]
             y == [j \in S |-> w[DataIndex[j]]]
  <2>1. \A j \in S : d[DataIndex[j]] \in 0..1 /\ w[DataIndex[j]] \in 0..1
    BY Layout DEF Word
  <2>2. x \in [S -> 0..1] /\ y \in [S -> 0..1]
    BY <2>1
  <2>3. /\ {j \in S : x[j] # y[j]} = D
        /\ {j \in S : x[j] = 1} = {j \in DataPositions : Covers(i, j) /\ d[DataIndex[j]] = 1}
        /\ {j \in S : y[j] = 1} = {j \in DataPositions : Covers(i, j) /\ w[DataIndex[j]] = 1}
    OBVIOUS
  <2> HIDE DEF S, D, x, y
  <2>4. /\ IsFiniteSet({j \in S : x[j] # y[j]})
        /\ Parity({j \in S : x[j] # y[j]}) =
             IF Parity({j \in S : x[j] = 1}) = Parity({j \in S : y[j] = 1}) THEN 0 ELSE 1
    BY <1>3, <2>2, ParityOfWords
  <2> QED
    BY <2>3, <2>4 DEF CheckBit
<1>5. /\ IsFiniteSet(C) /\ D \cap C = {}
      /\ Parity(C) = IF i \in WrongCode(w, k) THEN 1 ELSE 0
  <2>1. CheckPos(i) \notin DataPositions
    BY Layout
  <2> QED
    BY <2>1, FS_EmptySet, FS_Singleton, ParitySmall
<1> HIDE DEF S, D, C
<1>6. Parity(D \cup C) = IF Parity(D) = Parity(C) THEN 0 ELSE 1
  BY <1>4, <1>5, ParityOfUnion
<1>7. /\ CheckBit(w, i) \in 0..1 /\ k[i] \in 0..1 /\ CheckBit(d, i) \in 0..1
      /\ i \in WrongCode(w, k) <=> k[i] # CheckBit(w, i)
  <2>1. hamming_code(w)[i] = CheckBit(w, i) /\ hamming_code(w)[i] \in 0..1
    BY <1>1, CodeOf DEF Code
  <2>2. hamming_code(d)[i] = CheckBit(d, i) /\ hamming_code(d)[i] \in 0..1
    BY <1>1, CodeOf DEF Code
  <2> QED
    BY <1>1, <2>1, <2>2 DEF Code, WrongCode
<1>8. hamming_verify_bit(d, k)[i] = IF CheckBit(d, i) = k[i] THEN 0 ELSE 1
  BY <1>1 DEF hamming_verify_bit
<1> QED
  BY <1>2, <1>4, <1>5, <1>6, <1>7, <1>8

\* The overall parity disagrees when the number of wrong bits is odd.
LEMMA ParitySees ==
  ASSUME NEW w \in Word, NEW d \in Word, NEW k \in Code
  PROVE  hamming_verify_bit(d, k)[R] =
           IF Parity(WrongData(w, d)) = Parity(WrongCode(w, k)) THEN 0 ELSE 1
<1> DEFINE g == hamming_code(w)
           I == 0..(R - 1)
           C == {i \in I : k[i] # g[i]}
           L == IF k[R] = g[R] THEN {} ELSE {R}
<1>1. R \in Nat /\ R \in 0..R /\ 0..R = I \cup {R} /\ R \notin I /\ K \in Nat
  BY Length
<1>2. IsFiniteSet(0..(K - 1)) /\ IsFiniteSet(I)
  BY Length, FS_Interval
<1>3. g \in Code /\ g[R] = OverallParity(w, g)
  BY CodeOf
<1>4. Parity(WrongData(w, d)) =
        IF Parity({n \in 0..(K - 1) : d[n] = 1}) = Parity({n \in 0..(K - 1) : w[n] = 1})
        THEN 0 ELSE 1
  <2>1. PICK S : S = 0..(K - 1)
    OBVIOUS
  <2>2. IsFiniteSet(S) /\ d \in [S -> 0..1] /\ w \in [S -> 0..1]
    BY <1>2, <2>1 DEF Word
  <2>3. Parity({n \in S : d[n] # w[n]}) =
          IF Parity({n \in S : d[n] = 1}) = Parity({n \in S : w[n] = 1}) THEN 0 ELSE 1
    BY <2>2, ParityOfWords
  <2> QED
    BY <2>1, <2>3 DEF WrongData
<1>5. /\ IsFiniteSet(C)
      /\ Parity(C) = IF Parity({i \in I : k[i] = 1}) = Parity({i \in I : g[i] = 1})
                     THEN 0 ELSE 1
  <2> DEFINE x == [i \in I |-> k[i]]
             y == [i \in I |-> g[i]]
  <2>1. x \in [I -> 0..1] /\ y \in [I -> 0..1]
    BY <1>1, <1>3 DEF Code
  <2>2. /\ {i \in I : x[i] # y[i]} = C
        /\ {i \in I : x[i] = 1} = {i \in I : k[i] = 1}
        /\ {i \in I : y[i] = 1} = {i \in I : g[i] = 1}
    OBVIOUS
  <2> HIDE DEF I, C, x, y, g
  <2>3. /\ IsFiniteSet({i \in I : x[i] # y[i]})
        /\ Parity({i \in I : x[i] # y[i]}) =
             IF Parity({i \in I : x[i] = 1}) = Parity({i \in I : y[i] = 1}) THEN 0 ELSE 1
    <3>1. PICK S : S = I
      OBVIOUS
    <3>2. IsFiniteSet(S) /\ x \in [S -> 0..1] /\ y \in [S -> 0..1]
      BY <1>2, <2>1, <3>1
    <3>3. /\ IsFiniteSet({i \in S : x[i] # y[i]})
          /\ Parity({i \in S : x[i] # y[i]}) =
               IF Parity({i \in S : x[i] = 1}) = Parity({i \in S : y[i] = 1}) THEN 0 ELSE 1
      BY <3>2, ParityOfWords
    <3> QED
      BY <3>1, <3>3
  <2> QED
    BY <2>2, <2>3
<1>6. WrongCode(w, k) = C \cup L /\ C \cap L = {}
  <2>1. WrongCode(w, k) = {i \in I \cup {R} : k[i] # g[i]}
    BY <1>1 DEF WrongCode
  <2> QED
    BY <1>1, <2>1
<1>7. IsFiniteSet(L) /\ Parity(L) = IF k[R] = g[R] THEN 0 ELSE 1
  BY FS_EmptySet, FS_Singleton, ParitySmall
<1>8. PICK a, b, e, f : /\ a = Parity({n \in 0..(K - 1) : d[n] = 1})
                        /\ b = Parity({n \in 0..(K - 1) : w[n] = 1})
                        /\ e = Parity({i \in I : k[i] = 1})
                        /\ f = Parity({i \in I : g[i] = 1})
  OBVIOUS
<1>9. a \in 0..1 /\ b \in 0..1 /\ e \in 0..1 /\ f \in 0..1
  <2>1. /\ {n \in 0..(K - 1) : d[n] = 1} \in SUBSET (0..(K - 1))
        /\ {n \in 0..(K - 1) : w[n] = 1} \in SUBSET (0..(K - 1))
        /\ {i \in I : k[i] = 1} \in SUBSET I /\ {i \in I : g[i] = 1} \in SUBSET I
    OBVIOUS
  <2> HIDE DEF I, g
  <2>2. /\ IsFiniteSet({n \in 0..(K - 1) : d[n] = 1}) /\ IsFiniteSet({n \in 0..(K - 1) : w[n] = 1})
        /\ IsFiniteSet({i \in I : k[i] = 1}) /\ IsFiniteSet({i \in I : g[i] = 1})
    BY <1>2, <2>1, FS_Subset
  <2> QED
    BY <1>8, <2>2, ParityType
<1>10. OverallParity(d, k) = (a + e) % 2 /\ g[R] = (b + f) % 2
  BY <1>3, <1>8 DEF OverallParity
<1>11. k[R] \in 0..1
  BY <1>1 DEF Code
<1>12. hamming_verify_bit(d, k)[R] = IF OverallParity(d, k) = k[R] THEN 0 ELSE 1
  BY <1>1 DEF hamming_verify_bit
<1>13. PICK gr : gr = g[R]
  OBVIOUS
<1> HIDE DEF I, C, L, g
<1>14. Parity(C \cup L) = IF Parity(C) = Parity(L) THEN 0 ELSE 1
  BY <1>5, <1>6, <1>7, ParityOfUnion
<1>15. Parity(WrongCode(w, k)) =
         IF (IF e = f THEN 0 ELSE 1) = (IF k[R] = gr THEN 0 ELSE 1) THEN 0 ELSE 1
  BY <1>5, <1>6, <1>7, <1>8, <1>13, <1>14
<1>16. Parity(WrongData(w, d)) = IF a = b THEN 0 ELSE 1
  BY <1>4, <1>8
<1>17. /\ a = 0 \/ a = 1 
       /\ b = 0 \/ b = 1 
       /\ e = 0 \/ e = 1 
       /\ f = 0 \/ f = 1
       /\ k[R] = 0 \/ k[R] = 1
  BY <1>9, <1>11
<1>18. /\ (0 + 0) % 2 = 0 /\ (0 + 1) % 2 = 1 /\ (1 + 0) % 2 = 1 /\ (1 + 1) % 2 = 0
  OBVIOUS
<1> QED
  BY <1>10, <1>12, <1>13, <1>15, <1>16, <1>17, <1>18

\* One element makes an odd set.
LEMMA OneIsOdd == ASSUME NEW S, NEW x, S = {x} PROVE Parity(S) # 0
<1>1. Parity(S) = 1
  BY ParitySmall
<1> QED
  BY <1>1

\* hamming_verify_bit returns bits.
LEMMA VerifyType ==
  ASSUME NEW d, NEW k
  PROVE  hamming_verify_bit(d, k) \in [0..R -> 0..1]
BY DEF hamming_verify_bit

\* error_info's position is the one the check bits spell, 0 if none disagrees.
LEMMA ErrorPosIs ==
  ASSUME NEW v \in [0..R -> 0..1]
  PROVE  /\ ErrorPos(v) \in 0..(2^R - 1)
         /\ \A i \in 0..(R - 1) : v[i] = 1 <=> Covers(i, ErrorPos(v))
         /\ ErrorPos(v) = 0 <=> \A i \in 0..(R - 1) : v[i] = 0
<1> DEFINE Right(p) == \A i \in 0..(R - 1) : (v[i] = 1) <=> Covers(i, p)
<1>1. R \in Nat
  BY Length
<1>2. ErrorPos(v) = CHOOSE p \in 0..(2^R - 1) : Right(p)
  BY DEF ErrorPos
<1>3. \E p \in 0..(2^R - 1) : Right(p)
  <2>1. PICK S : S = {i \in 0..(R - 1) : v[i] = 1}
    OBVIOUS
  <2>2. PICK p \in 0..(2^R - 1) : Spells(R, S, p)
    BY <1>1, Spelling
  <2> QED
    BY <2>1, <2>2 DEF Spells
<1> HIDE DEF Right
<1>4. ErrorPos(v) \in 0..(2^R - 1) /\ Right(ErrorPos(v))
  BY <1>2, <1>3
<1>5. 0 \in 0..(2^R - 1) /\ \A i \in 0..(R - 1) : ~Covers(i, 0)
  BY <1>1, PowPositive, CoversPow
<1>6. \A i \in 0..(R - 1) : i \in 0..R /\ (v[i] = 0 \/ v[i] = 1)
  BY <1>1
<1>7. (\A i \in 0..(R - 1) : v[i] = 0) => ErrorPos(v) = 0
  <2> SUFFICES ASSUME \A i \in 0..(R - 1) : v[i] = 0 PROVE ErrorPos(v) = 0
    OBVIOUS
  <2>1. \A i \in 0..(R - 1) : Covers(i, ErrorPos(v)) <=> Covers(i, 0)
    BY <1>4, <1>5 DEF Right
  <2> QED
    BY <1>1, <1>4, <1>5, <2>1, SpelledOnce
<1>8. ErrorPos(v) = 0 => \A i \in 0..(R - 1) : v[i] = 0
  BY <1>4, <1>5, <1>6 DEF Right
<1> QED
  BY <1>4, <1>7, <1>8 DEF Right

\* Positions of the block are spelled by no other position.
LEMMA PositionsApart ==
  ASSUME NEW a \in 0..(R + K), NEW b \in 0..(2^R - 1),
         \A i \in 0..(R - 1) : Covers(i, a) <=> Covers(i, b)
  PROVE  a = b
<1>1. R \in Nat /\ K \in Nat /\ R + K <= 2^R - 1
  BY Length
<1>2. PICK m \in Nat : m = 2^R
  BY <1>1, PowPositive
<1>3. a \in 0..(m - 1)
  BY <1>1, <1>2
<1> QED
  BY <1>1, <1>2, <1>3, SpelledOnce

\* A set of two elements.
LEMMA TwoElements ==
  ASSUME NEW S, IsFiniteSet(S), Cardinality(S) = 2
  PROVE  \E x, y : x # y /\ S = {x, y}
<1>1. S # {}
  BY FS_EmptySet
<1>2. PICK x : x \in S
  BY <1>1
<1>3. IsFiniteSet(S \ {x}) /\ Cardinality(S \ {x}) = 2 - 1
  BY <1>2, FS_RemoveElement
<1>4. Cardinality(S \ {x}) = 1
  BY <1>3
<1>5. PICK y : S \ {x} = {y}
  BY <1>3, <1>4, FS_Singleton
<1> QED
  BY <1>2, <1>5

\* Nothing disagrees: then either nothing is wrong, or the wrong bits make up a
\* code word, which has at least four, one of them a data bit.
LEMMA Distance ==
  ASSUME NEW w \in Word, NEW d \in Word, NEW k \in Code,
         \A i \in 0..R : hamming_verify_bit(d, k)[i] = 0,
         NEW x, x = Cardinality(WrongData(w, d)), NEW y, y = Cardinality(WrongCode(w, k))
  PROVE  /\ x \in Nat /\ y \in Nat
         /\ x + y = 0 \/ (x + y >= 4 /\ (x + y) % 2 = 0 /\ x > 0)
<1> DEFINE X == WrongData(w, d)
           Y == WrongCode(w, k)
           Z == WrongAt(w, d, k)
<1>1. IsFiniteSet(X) /\ IsFiniteSet(Y) /\ x \in Nat /\ y \in Nat
  BY WrongFinite, FS_CardinalityType
<1>2. R \in Nat /\ R \in 0..R /\ K \in Nat
  BY Length
<1>3. (x + y) % 2 = 0
  <2>1. Parity(X) = Parity(Y)
    BY <1>2, ParitySees
  <2>2. x % 2 = y % 2
    BY <2>1 DEF Parity
  <2> QED
    BY <1>1, <2>2, Z3
<1>4. \A i \in 0..(R - 1) : Parity(Covered(i, Z)) = 0
  <2> SUFFICES ASSUME NEW i \in 0..(R - 1) PROVE Parity(Covered(i, Z)) = 0
    OBVIOUS
  <2>1. i \in 0..R
    BY <1>2
  <2>2. hamming_verify_bit(d, k)[i] = Parity(Covered(i, Z))
    BY CheckSees
  <2> QED
    BY <2>1, <2>2
<1>5. \A a : Z # {a}
  <2> SUFFICES ASSUME NEW a, Z = {a} PROVE FALSE
    OBVIOUS
  <2>1. a \in 1..(R + K)
    BY WrongFinite
  <2>2. ASSUME NEW i \in 0..(R - 1) PROVE ~Covers(i, a)
    <3>1. Covers(i, a) => Covered(i, Z) = {a}
      BY DEF Covered
    <3> QED
      BY <1>4, <3>1, OneIsOdd, Zenon
  <2>3. a \in 0..(R + K) /\ 0 \in 0..(2^R - 1) /\ \A i \in 0..(R - 1) : ~Covers(i, 0)
    BY <1>2, <2>1, PowPositive, CoversPow
  <2>4. a = 0
    BY <2>2, <2>3, PositionsApart
  <2> QED
    BY <2>1, <2>4
<1>6. \A a, b : Z = {a, b} => a = b
  <2> SUFFICES ASSUME NEW a, NEW b, Z = {a, b}, a # b PROVE FALSE
    OBVIOUS
  <2>1. a \in 1..(R + K) /\ b \in 1..(R + K)
    BY WrongFinite
  <2>2. ASSUME NEW i \in 0..(R - 1) PROVE Covers(i, a) <=> Covers(i, b)
    <3>1. Covers(i, a) /\ ~Covers(i, b) => Covered(i, Z) = {a}
      BY DEF Covered
    <3>2. Covers(i, b) /\ ~Covers(i, a) => Covered(i, Z) = {b}
      BY DEF Covered
    <3> QED
      BY <1>4, <3>1, <3>2, OneIsOdd, Zenon
  <2>3. a \in 0..(R + K) /\ b \in 0..(2^R - 1)
    <3>1. R + K <= 2^R - 1
      BY Length
    <3>2. PICK m \in Nat : m = 2^R
      BY <1>2, PowPositive
    <3> QED
      BY <1>2, <2>1, <3>1, <3>2
  <2> QED
    BY <2>2, <2>3, PositionsApart
<1>7. X = {} => y <= 1
  <2> SUFFICES ASSUME X = {} PROVE y <= 1
    OBVIOUS
  <2>1. \A i \in Y : i = R
    <3> SUFFICES ASSUME NEW i \in Y, i # R PROVE FALSE
      OBVIOUS
    <3>1. i \in 0..(R - 1)
      BY <1>2 DEF WrongCode
    <3>2. Z = {CheckPos(n) : n \in Y \ {R}}
      BY DEF WrongAt
    <3>3. \A n \in Y \ {R} : n \in Nat /\ (Covers(i, CheckPos(n)) <=> i = n)
      <4>1. \A n \in Y \ {R} : n \in Nat
        BY <1>2 DEF WrongCode
      <4>2. i \in Nat
        BY <1>2, <3>1
      <4> QED
        BY <4>1, <4>2, CoversPow DEF CheckPos
    <3>4. Covered(i, Z) = {CheckPos(i)}
      BY <3>2, <3>3 DEF Covered
    <3> QED
      BY <1>4, <3>1, <3>4, OneIsOdd, Zenon
  <2>2. Y \in SUBSET {R}
    BY <2>1
  <2>3. IsFiniteSet({R}) /\ Cardinality({R}) = 1
    BY FS_Singleton
  <2> QED
    BY <2>2, <2>3, FS_Subset
\* the position of a wrong data bit
<1>8. ASSUME NEW n \in X
      PROVE  \E a \in DataPositions : \A j \in DataPositions : DataIndex[j] = n <=> j = a
  <2>1. n \in 0..(K - 1)
    BY DEF WrongData
  <2> QED
    BY <2>1, Layout
<1>9. ~(x = 2 /\ y = 0)
  <2> SUFFICES ASSUME x = 2, y = 0 PROVE FALSE
    OBVIOUS
  <2>1. PICK n, m : n # m /\ X = {n, m}
    BY <1>1, TwoElements
  <2>2. Y = {}
    BY <1>1, FS_EmptySet
  <2>3. PICK a \in DataPositions : \A j \in DataPositions : DataIndex[j] = n <=> j = a
    BY <1>8, <2>1
  <2>4. PICK b \in DataPositions : \A j \in DataPositions : DataIndex[j] = m <=> j = b
    BY <1>8, <2>1
  <2>5. Z = {a, b}
    BY <2>1, <2>2, <2>3, <2>4 DEF WrongAt
  <2>6. a # b
    BY <2>1, <2>3, <2>4
  <2> QED
    BY <1>6, <2>5, <2>6
<1>10. ~(x = 1 /\ y = 1)
  <2> SUFFICES ASSUME x = 1, y = 1 PROVE FALSE
    OBVIOUS
  <2>0. (\E n : X = {n}) /\ (\E m : Y = {m})
    BY <1>1, FS_Singleton
  <2>1. PICK n, m : X = {n} /\ Y = {m}
    BY <2>0
  <2>2. PICK a \in DataPositions : \A j \in DataPositions : DataIndex[j] = n <=> j = a
    BY <1>8, <2>1
  <2>3. CASE m = R
    <3>1. Z = {a}
      BY <2>1, <2>2, <2>3 DEF WrongAt
    <3> QED
      BY <1>5, <3>1
  <2>4. CASE m # R
    <3>1. Z = {a, CheckPos(m)}
      BY <2>1, <2>2, <2>4 DEF WrongAt
    <3>2. m \in 0..(R - 1)
      BY <1>2, <2>1, <2>4 DEF WrongCode
    <3>3. a # CheckPos(m)
      BY <3>2, Layout
    <3> QED
      BY <1>6, <3>1, <3>3
  <2> QED
    BY <2>3, <2>4
<1>11. x = 0 => X = {}
  BY <1>1, FS_EmptySet
<1> HIDE DEF X, Y, Z
<1>12. x + y = 0 \/ x + y = 1 \/ x + y = 2 \/ x + y = 3 \/ x + y >= 4
  BY <1>1
<1>13. 1 % 2 = 1 /\ 3 % 2 = 1
  OBVIOUS
<1>14. x = 0 => y = 0
  <2>1. x = 0 => y = 0 \/ y = 1
    BY <1>1, <1>7, <1>11
  <2>2. x = 0 /\ y = 1 => x + y = 1
    OBVIOUS
  <2> QED
    BY <1>3, <1>13, <2>1, <2>2
<1>15. x + y # 2
  <2>1. x + y = 2 => (x = 0 /\ y = 2) \/ (x = 1 /\ y = 1) \/ (x = 2 /\ y = 0)
    BY <1>1
  <2> QED
    BY <1>9, <1>10, <1>14, <2>1
<1> QED
  BY <1>1, <1>3, <1>12, <1>13, <1>14, <1>15

-----------------------------------------------------------------------------
(* What hamming_decode repairs. *)

\* S with x put in or taken out.
Flipped(S, x) == (S \ {x}) \cup ({x} \ S)

\* Turning one element over changes the number of elements by one.
LEMMA FlippedCount ==
  ASSUME NEW S, IsFiniteSet(S), NEW x
  PROVE  /\ IsFiniteSet(Flipped(S, x))
         /\ Cardinality(Flipped(S, x)) =
              IF x \in S THEN Cardinality(S) - 1 ELSE Cardinality(S) + 1
         /\ Parity(Flipped(S, x)) = IF Parity(S) = 1 THEN 0 ELSE 1
<1>1. x \in S => Flipped(S, x) = S \ {x}
  BY DEF Flipped
<1>2. x \notin S => Flipped(S, x) = S \cup {x}
  BY DEF Flipped
<1>3. IsFiniteSet({x}) /\ Parity({x}) = 1
  BY FS_Singleton, ParitySmall
<1>4. Parity(Flipped(S, x)) = IF Parity(S) = 1 THEN 0 ELSE 1
  BY <1>3, ParityOfDifference DEF Flipped
<1>5. x \in S => IsFiniteSet(S \ {x}) /\ Cardinality(S \ {x}) = Cardinality(S) - 1
  BY FS_RemoveElement
<1>6. x \notin S => IsFiniteSet(S \cup {x}) /\ Cardinality(S \cup {x}) = Cardinality(S) + 1
  BY FS_AddElement
<1> QED
  BY <1>1, <1>2, <1>4, <1>5, <1>6

\* A check bit sees that a position it covers is turned over.
LEMMA FlippedCover ==
  ASSUME NEW S, IsFiniteSet(S), NEW x, NEW i, IsFiniteSet(Covered(i, S))
  PROVE  Parity(Covered(i, Flipped(S, x))) =
           IF Covers(i, x) THEN (IF Parity(Covered(i, S)) = 1 THEN 0 ELSE 1)
                           ELSE Parity(Covered(i, S))
<1>1. CASE Covers(i, x)
  <2>1. Covered(i, Flipped(S, x)) = Flipped(Covered(i, S), x)
    BY <1>1 DEF Covered, Flipped
  <2> QED
    BY <1>1, <2>1, FlippedCount
<1>2. CASE ~Covers(i, x)
  <2>1. Covered(i, Flipped(S, x)) = Covered(i, S)
    BY <1>2 DEF Covered, Flipped
  <2> QED
    BY <1>2, <2>1
<1> QED
  BY <1>1, <1>2

\* Turning a data bit over.
LEMMA DataToggles ==
  ASSUME NEW w \in Word, NEW d \in Word, NEW k, NEW e \in DataPositions,
         NEW d2, d2 = Toggle(d, DataIndex[e])
  PROVE  /\ d2 \in Word
         /\ WrongData(w, d2) = Flipped(WrongData(w, d), DataIndex[e])
         /\ WrongAt(w, d2, k) = Flipped(WrongAt(w, d, k), e)
<1>1. PICK n \in 0..(K - 1) : n = DataIndex[e]
  BY Layout
<1>2. d2 \in Word /\ d2[n] = 1 - d[n] /\ \A m \in 0..(K - 1) : m # n => d2[m] = d[m]
  BY <1>1 DEF Toggle, Word
<1>3. \A m \in 0..(K - 1) : d[m] \in {0, 1} /\ w[m] \in {0, 1}
  BY DEF Word
<1>4. d2[n] # w[n] <=> d[n] = w[n]
  BY <1>2, <1>3
<1>5. WrongData(w, d2) = Flipped(WrongData(w, d), n)
  BY <1>2, <1>4 DEF WrongData, Flipped
<1>6. \A j \in DataPositions : DataIndex[j] = n <=> j = e
  BY <1>1, Layout
<1>7. \A i \in WrongCode(w, k) \ {R} : CheckPos(i) # e
  <2>1. \A i \in WrongCode(w, k) \ {R} : i \in 0..(R - 1)
    BY Length DEF WrongCode
  <2> QED
    BY <2>1, Layout
<1>8. WrongAt(w, d2, k) = Flipped(WrongAt(w, d, k), e)
  <2>0. PICK C : C = {CheckPos(i) : i \in WrongCode(w, k) \ {R}}
    OBVIOUS
  <2>1. C = {CheckPos(i) : i \in WrongCode(w, k) \ {R}} /\ e \notin C
    BY <1>7, <2>0
  <2>2. PICK X, Y : X = WrongData(w, d) /\ Y = WrongData(w, d2)
    OBVIOUS
  <2>3. {j \in DataPositions : DataIndex[j] \in Y} = Flipped({j \in DataPositions : DataIndex[j] \in X}, e)
    BY <1>5, <1>6, <2>2 DEF Flipped
  <2>4. WrongAt(w, d, k) = {j \in DataPositions : DataIndex[j] \in X} \cup C
    BY <2>1, <2>2 DEF WrongAt
  <2>5. WrongAt(w, d2, k) = {j \in DataPositions : DataIndex[j] \in Y} \cup C
    BY <2>1, <2>2 DEF WrongAt
  <2> QED
    BY <2>1, <2>3, <2>4, <2>5 DEF Flipped
<1> QED
  BY <1>1, <1>2, <1>5, <1>8

\* Turning a bit of the code over.
LEMMA CodeToggles ==
  ASSUME NEW w \in Word, NEW d, NEW k \in Code, NEW n \in 0..R,
         NEW k2, k2 = Toggle(k, n)
  PROVE  /\ k2 \in Code
         /\ WrongCode(w, k2) = Flipped(WrongCode(w, k), n)
         /\ WrongAt(w, d, k2) = IF n = R THEN WrongAt(w, d, k)
                                ELSE Flipped(WrongAt(w, d, k), CheckPos(n))
<1>1. k2 \in Code /\ k2[n] = 1 - k[n] /\ \A m \in 0..R : m # n => k2[m] = k[m]
  BY DEF Toggle, Code
<1>2. \A m \in 0..R : k[m] \in {0, 1} /\ hamming_code(w)[m] \in {0, 1}
  <2>1. PICK g \in Code : g = hamming_code(w)
    BY CodeOf
  <2> QED
    BY <2>1 DEF Code
<1>3. k2[n] # hamming_code(w)[n] <=> k[n] = hamming_code(w)[n]
  BY <1>1, <1>2
<1>4. WrongCode(w, k2) = Flipped(WrongCode(w, k), n)
  BY <1>1, <1>3 DEF WrongCode, Flipped
<1>5. PICK X, Y, D : /\ X = WrongCode(w, k) /\ Y = WrongCode(w, k2)
                     /\ D = {j \in DataPositions : DataIndex[j] \in WrongData(w, d)}
  OBVIOUS
<1>6. /\ WrongAt(w, d, k) = D \cup {CheckPos(i) : i \in X \ {R}}
      /\ WrongAt(w, d, k2) = D \cup {CheckPos(i) : i \in Y \ {R}}
  BY <1>5 DEF WrongAt
<1>7. CASE n = R
  <2>1. X \ {R} = Y \ {R}
    BY <1>4, <1>5, <1>7 DEF Flipped
  <2> QED
    BY <1>1, <1>4, <1>6, <1>7, <2>1
<1>8. CASE n # R
  <2>1. X \ {R} \subseteq 0..(R - 1) /\ n \in 0..(R - 1)
    BY <1>5, <1>8, Length DEF WrongCode
  <2>2. \A i \in X \ {R} : CheckPos(i) = CheckPos(n) => i = n
    BY <2>1, Layout
  <2>3. CheckPos(n) \notin D
    BY <1>5, <2>1, Layout
  <2>4. Y \ {R} = Flipped(X \ {R}, n)
    BY <1>4, <1>5, <1>8 DEF Flipped
  <2>5. {CheckPos(i) : i \in Y \ {R}} = Flipped({CheckPos(i) : i \in X \ {R}}, CheckPos(n))
    BY <2>2, <2>4 DEF Flipped
  <2>6. WrongAt(w, d, k2) = Flipped(WrongAt(w, d, k), CheckPos(n))
    BY <1>6, <2>3, <2>5 DEF Flipped
  <2> QED
    BY <1>1, <1>4, <1>8, <2>6
<1> QED
  BY <1>7, <1>8

\* With the parity bit disagreeing, turning the bit over at the position the
\* check bits spell, or the parity bit when they spell none, makes all agree.
LEMMA Repair ==
  ASSUME NEW w \in Word, NEW d \in Word, NEW k \in Code,
         NEW d2 \in Word, NEW k2 \in Code,
         NEW e, e = ErrorPos(hamming_verify_bit(d, k)), hamming_verify_bit(d, k)[R] = 1,
         \/ /\ WrongData(w, d2) = WrongData(w, d)
            /\ \E n \in 0..R : WrongCode(w, k2) = Flipped(WrongCode(w, k), n)
         \/ /\ WrongCode(w, k2) = WrongCode(w, k)
            /\ \E n \in 0..(K - 1) : WrongData(w, d2) = Flipped(WrongData(w, d), n),
         WrongAt(w, d2, k2) = IF e = 0 THEN WrongAt(w, d, k) ELSE Flipped(WrongAt(w, d, k), e)
  PROVE  \A i \in 0..R : hamming_verify_bit(d2, k2)[i] = 0
<1>1. PICK v : v = hamming_verify_bit(d, k)
  OBVIOUS
<1>2. v \in [0..R -> 0..1] /\ e = ErrorPos(v) /\ v[R] = 1
  BY <1>1, VerifyType
<1>3. R \in Nat
  BY Length
<1>4. ASSUME NEW i \in 0..(R - 1) PROVE hamming_verify_bit(d2, k2)[i] = 0
  <2>1. PICK S, T : S = WrongAt(w, d, k) /\ T = WrongAt(w, d2, k2)
    OBVIOUS
  <2>2. IsFiniteSet(S) /\ IsFiniteSet(Covered(i, S))
    BY <2>1, WrongFinite
  <2>3. v[i] = Parity(Covered(i, S)) /\ hamming_verify_bit(d2, k2)[i] = Parity(Covered(i, T))
    BY <1>1, <2>1, CheckSees
  <2>4. (v[i] = 1 <=> Covers(i, e)) /\ (e = 0 => v[i] = 0) /\ (v[i] = 0 \/ v[i] = 1)
    <3>1. i \in 0..R
      BY <1>3
    <3>2. v[i] = 0 \/ v[i] = 1
      BY <1>2, <3>1
    <3>3. \A n \in 0..(R - 1) : v[n] = 1 <=> Covers(n, e)
      BY ONLY <1>2, ErrorPosIs
    <3>4. e = 0 => \A n \in 0..(R - 1) : v[n] = 0
      BY ONLY <1>2, ErrorPosIs
    <3> QED
      BY <3>2, <3>3, <3>4
  <2>5. CASE e = 0
    BY <2>1, <2>3, <2>4, <2>5
  <2>6. CASE e # 0
    <3>1. T = Flipped(S, e)
      BY <2>1, <2>6
    <3>2. Parity(Covered(i, T)) =
            IF Covers(i, e) THEN (IF v[i] = 1 THEN 0 ELSE 1) ELSE v[i]
      BY <2>2, <2>3, <3>1, FlippedCover
    <3> QED
      BY <2>3, <2>4, <3>2
  <2> QED
    BY <2>5, <2>6
<1>5. hamming_verify_bit(d2, k2)[R] = 0
  <2>1. PICK X, Y, X2, Y2 : /\ X = WrongData(w, d) /\ Y = WrongCode(w, k)
                            /\ X2 = WrongData(w, d2) /\ Y2 = WrongCode(w, k2)
    OBVIOUS
  <2>2. /\ IsFiniteSet(X) /\ IsFiniteSet(Y)
        /\ Parity(X) \in 0..1 /\ Parity(Y) \in 0..1
    BY <2>1, WrongFinite, ParityType
  <2>3. Parity(X) # Parity(Y)
    <3>1. v[R] = IF Parity(X) = Parity(Y) THEN 0 ELSE 1
      BY <1>1, <2>1, ParitySees
    <3> QED
      BY <1>2, <3>1
  <2>4. hamming_verify_bit(d2, k2)[R] = IF Parity(X2) = Parity(Y2) THEN 0 ELSE 1
    BY <2>1, ParitySees
  <2>5. CASE X2 = X /\ \E n \in 0..R : Y2 = Flipped(Y, n)
    <3>1. Parity(Y2) = IF Parity(Y) = 1 THEN 0 ELSE 1
      BY <2>2, <2>5, FlippedCount
    <3> QED
      BY <2>2, <2>3, <2>4, <2>5, <3>1
  <2>6. CASE Y2 = Y /\ \E n \in 0..(K - 1) : X2 = Flipped(X, n)
    <3>1. Parity(X2) = IF Parity(X) = 1 THEN 0 ELSE 1
      BY <2>2, <2>6, FlippedCount
    <3> QED
      BY <2>2, <2>3, <2>4, <2>6, <3>1
  <2> QED
    BY <2>1, <2>5, <2>6
<1>6. \A i \in 0..R : i \in 0..(R - 1) \/ i = R
  BY <1>3
<1> QED
  BY <1>4, <1>5, <1>6

\* Nothing of the block disagrees.
Agrees(d, k) == \A i \in 0..R : hamming_verify_bit(d, k)[i] = 0

\* What hamming_decode answers and leaves of the data and of the code.
Answer(d, k) == error_info(hamming_verify_bit(d, k))
LeftBits(d, k) ==
  IF Answer(d, k) = 3 THEN RectifiedBits(d, ErrorPos(hamming_verify_bit(d, k))) ELSE d
LeftCode(d, k) ==
  CASE Answer(d, k) = 2 -> Toggle(k, R)
    [] Answer(d, k) = 3 -> RectifiedCode(k, ErrorPos(hamming_verify_bit(d, k)))
    [] OTHER -> k

\* It changes nothing and says so, turns one bit over so that all agree, or
\* finds no bit at the position that is spelled.
LEMMA DecodeFate ==
  ASSUME NEW w \in Word, NEW d \in Word, NEW k \in Code,
         NEW v, v = hamming_verify_bit(d, k), NEW e, e = ErrorPos(v),
         NEW t, t = Answer(d, k), NEW d2, d2 = LeftBits(d, k), NEW k2, k2 = LeftCode(d, k)
  PROVE  /\ t \in ErrorType /\ d2 \in Word /\ k2 \in Code
         /\ \/ v[R] = 0 /\ e # 0 /\ t = TwoBit /\ d2 = d /\ k2 = k
            \/ v[R] = 0 /\ e = 0 /\ t = 0 /\ d2 = d /\ k2 = k /\ Agrees(d, k)
            \/ v[R] = 1 /\ e > R + K /\ t = 3 /\ d2 = d /\ k2 = k
            \/ /\ v[R] = 1 /\ t \in {2, 3} /\ Agrees(d2, k2) /\ d2 = d
               /\ \E n \in 0..R : WrongCode(w, k2) = Flipped(WrongCode(w, k), n)
            \/ /\ v[R] = 1 /\ t = 3 /\ Agrees(d2, k2) /\ k2 = k
               /\ \E n \in 0..(K - 1) : WrongData(w, d2) = Flipped(WrongData(w, d), n)
<1>1. R \in Nat /\ R \in 0..R /\ K \in Nat
  BY Length
<1>2. v \in [0..R -> 0..1] /\ (v[R] = 0 \/ v[R] = 1)
  <2>1. v \in [0..R -> 0..1]
    BY VerifyType
  <2> QED
    BY <1>1, <2>1
<1>3. e \in Nat
  <2>1. PICK a \in Nat : a = 2^R
    BY <1>1, PowPositive
  <2>2. e \in 0..(a - 1)
    BY <1>2, <2>1, ErrorPosIs
  <2> QED
    BY <2>2
<1>4. t = CASE e > 0 /\ v[R] = 0 -> TwoBit
            [] e = 0 /\ v[R] = 1 -> 2
            [] e > 0 /\ v[R] = 1 -> 3
            [] OTHER -> 0
  BY DEF Answer, error_info
<1>5. t \in ErrorType
  BY <1>2, <1>3, <1>4 DEF ErrorType, TwoBit
<1>6. /\ d2 = IF t = 3 THEN RectifiedBits(d, e) ELSE d
      /\ k2 = CASE t = 2 -> Toggle(k, R) [] t = 3 -> RectifiedCode(k, e) [] OTHER -> k
  BY DEF LeftBits, LeftCode
<1>7. CASE v[R] = 0
  <2>1. t # 2 /\ t # 3 /\ (e # 0 => t = TwoBit) /\ (e = 0 => t = 0)
    BY <1>3, <1>4, <1>7 DEF TwoBit
  <2>2. d2 = d /\ k2 = k
    BY <1>6, <2>1
  <2>3. e = 0 => Agrees(d, k)
    <3> SUFFICES ASSUME e = 0, NEW i \in 0..R PROVE v[i] = 0
      BY DEF Agrees
    <3>1. \A n \in 0..(R - 1) : v[n] = 0
      BY ONLY <1>2, e = ErrorPos(v), e = 0, ErrorPosIs
    <3>2. i \in 0..(R - 1) \/ i = R
      BY <1>1
    <3> QED
      BY <1>7, <3>1, <3>2
  <2> QED
    BY <1>5, <1>7, <2>1, <2>2, <2>3
<1>8. CASE v[R] = 1 /\ e = 0
  <2>1. t = 2
    BY <1>4, <1>8
  <2>2. d2 = d /\ k2 = Toggle(k, R)
    BY <1>6, <2>1
  <2>3. /\ k2 \in Code /\ WrongCode(w, k2) = Flipped(WrongCode(w, k), R)
        /\ WrongAt(w, d, k2) = WrongAt(w, d, k)
    BY <1>1, <2>2, CodeToggles
  <2>4. Agrees(d2, k2)
    <3>1. /\ hamming_verify_bit(d, k)[R] = 1 /\ e = ErrorPos(hamming_verify_bit(d, k))
          /\ d2 \in Word /\ WrongData(w, d2) = WrongData(w, d)
      BY <1>8, <2>2
    <3>2. \E n \in 0..R : WrongCode(w, k2) = Flipped(WrongCode(w, k), n)
      BY <1>1, <2>3
    <3>3. WrongAt(w, d2, k2) = IF e = 0 THEN WrongAt(w, d, k) ELSE Flipped(WrongAt(w, d, k), e)
      BY <1>8, <2>2, <2>3
    <3> QED
      BY <2>3, <3>1, <3>2, <3>3, Repair DEF Agrees
  <2> QED
    BY <1>1, <1>5, <1>8, <2>1, <2>2, <2>3, <2>4
<1>9. ASSUME v[R] = 1, e # 0
      PROVE  t = 3 /\ d2 = RectifiedBits(d, e) /\ k2 = RectifiedCode(k, e)
  BY <1>3, <1>4, <1>6, <1>9
<1>10. CASE v[R] = 1 /\ e \in DataPositions
  <2>1. e # 0 /\ \A i \in 0..(R - 1) : CheckPos(i) # e
    <3>1. e \in 1..(R + K)
      BY <1>10, Layout
    <3> QED
      BY <1>10, <3>1, Layout
  <2>2. t = 3 /\ d2 = Toggle(d, DataIndex[e]) /\ k2 = k
    BY <1>9, <1>10, <2>1 DEF RectifiedBits, RectifiedCode
  <2>3. /\ d2 \in Word /\ WrongData(w, d2) = Flipped(WrongData(w, d), DataIndex[e])
        /\ WrongAt(w, d2, k) = Flipped(WrongAt(w, d, k), e)
    BY <1>10, <2>2, DataToggles
  <2>4. DataIndex[e] \in 0..(K - 1)
    BY <1>10, Layout
  <2>5. Agrees(d2, k2)
    BY <1>10, <2>1, <2>2, <2>3, <2>4, Repair DEF Agrees
  <2> QED
    BY <1>5, <1>10, <2>2, <2>3, <2>4, <2>5
<1>11. CASE v[R] = 1 /\ \E i \in 0..(R - 1) : CheckPos(i) = e
  <2>1. e # 0 /\ e \notin DataPositions
    <3>1. e \in 1..(R + K)
      BY <1>11, Length
    <3> QED
      BY <1>11, <3>1, Layout
  <2>2. PICK n \in 0..(R - 1) : n = CHOOSE i \in 0..(R - 1) : CheckPos(i) = e
    BY <1>11
  <2>3. CheckPos(n) = e
    BY <1>11, <2>2
  <2>4. t = 3 /\ d2 = d /\ k2 = Toggle(k, n)
    BY <1>9, <1>11, <2>1, <2>2 DEF RectifiedBits, RectifiedCode
  <2>5. n \in 0..R /\ n # R
    BY <1>1
  <2>6. /\ k2 \in Code /\ WrongCode(w, k2) = Flipped(WrongCode(w, k), n)
        /\ WrongAt(w, d, k2) = Flipped(WrongAt(w, d, k), e)
    BY <2>3, <2>4, <2>5, CodeToggles
  <2>7. Agrees(d2, k2)
    BY <1>11, <2>1, <2>4, <2>5, <2>6, Repair DEF Agrees
  <2> QED
    BY <1>5, <1>11, <2>4, <2>5, <2>6, <2>7
<1>12. CASE v[R] = 1 /\ e # 0 /\ e \notin DataPositions /\ ~\E i \in 0..(R - 1) : CheckPos(i) = e
  <2>1. t = 3 /\ d2 = d /\ k2 = k
    BY <1>9, <1>12 DEF RectifiedBits, RectifiedCode
  <2>2. e \notin 1..(R + K)
    BY <1>12, Layout
  <2>3. e > R + K
    BY <1>1, <1>3, <1>12, <2>2
  <2> QED
    BY <1>5, <1>12, <2>1, <2>3
<1> QED
  BY <1>2, <1>7, <1>8, <1>10, <1>11, <1>12

\* At most one wrong bit spells a position of the block, or none.
LEMMA OneWrong ==
  ASSUME NEW w \in Word, NEW d \in Word, NEW k \in Code,
         NEW x, x = Cardinality(WrongData(w, d)), NEW y, y = Cardinality(WrongCode(w, k)),
         x + y <= 1
  PROVE  /\ ErrorPos(hamming_verify_bit(d, k)) \in 0..(R + K)
         /\ x + y = 0 => ErrorPos(hamming_verify_bit(d, k)) = 0
<1> DEFINE X == WrongData(w, d)
           Y == WrongCode(w, k)
           Z == WrongAt(w, d, k)
<1>1. R \in Nat /\ K \in Nat /\ IsFiniteSet(X) /\ IsFiniteSet(Y) /\ x \in Nat /\ y \in Nat
  BY Length, WrongFinite, FS_CardinalityType
<1>2. PICK v, e : v = hamming_verify_bit(d, k) /\ e = ErrorPos(v)
  OBVIOUS
<1>3. v \in [0..R -> 0..1] /\ \A i \in 0..(R - 1) : v[i] = Parity(Covered(i, Z))
  BY <1>2, VerifyType, CheckSees
<1>4. e \in 0..(2^R - 1) /\ \A i \in 0..(R - 1) : v[i] = 1 <=> Covers(i, e)
  BY ONLY <1>2, <1>3, ErrorPosIs
<1>5. Z = {} => e = 0
  <2> SUFFICES ASSUME Z = {} PROVE e = 0
    OBVIOUS
  <2>1. \A i : Covered(i, Z) = {}
    BY DEF Covered
  <2>2. \A i \in 0..(R - 1) : v[i] = 0
    BY <1>3, <2>1, ParitySmall
  <2> QED
    BY ONLY <1>2, <1>3, <2>2, ErrorPosIs
<1>6. ASSUME NEW a, Z = {a} PROVE e \in 0..(R + K)
  <2>1. a \in 1..(R + K)
    BY <1>6, WrongFinite
  <2>2. ASSUME NEW i \in 0..(R - 1) PROVE Covers(i, a) <=> Covers(i, e)
    <3>1. Covers(i, a) => Covered(i, Z) = {a}
      BY <1>6 DEF Covered
    <3>2. ~Covers(i, a) => Covered(i, Z) = {}
      BY <1>6 DEF Covered
    <3>3. Parity({}) = 0 /\ Parity({a}) = 1
      BY ParitySmall
    <3>4. v[i] = Parity(Covered(i, Z)) /\ (v[i] = 1 <=> Covers(i, e))
      BY <1>3, <1>4
    <3>5. Covers(i, a) => v[i] = 1
      BY ONLY <3>1, <3>3, <3>4
    <3>6. ~Covers(i, a) => v[i] = 0
      BY ONLY <3>2, <3>3, <3>4
    <3> QED
      BY ONLY <3>4, <3>5, <3>6
  <2>3. a \in 0..(R + K)
    BY <1>1, <2>1
  <2>4. a = e
    BY <1>4, <2>2, <2>3, PositionsApart
  <2> QED
    BY <2>3, <2>4
<1>7. CASE x = 0 /\ y = 0
  <2>1. X = {} /\ Y = {}
    BY <1>1, <1>7, FS_EmptySet
  <2>2. Z = {}
    BY <2>1 DEF WrongAt
  <2> QED
    BY <1>1, <1>2, <1>5, <2>2
<1>8. CASE x = 1 /\ y = 0
  <2>1. Y = {} /\ \E n : X = {n}
    BY <1>1, <1>8, FS_EmptySet, FS_Singleton
  <2>2. PICK n : X = {n}
    BY <2>1
  <2>3. n \in 0..(K - 1)
    BY <2>2 DEF WrongData
  <2>4. PICK a \in DataPositions : DataIndex[a] = n
    BY <2>3, Layout
  <2>5. \A j \in DataPositions : DataIndex[j] = n <=> j = a
    BY <2>4, Layout
  <2>6. Z = {a}
    BY <2>1, <2>2, <2>5 DEF WrongAt
  <2> QED
    BY <1>2, <1>6, <1>8, <2>6
<1>9. CASE x = 0 /\ y = 1
  <2>1. X = {} /\ \E n : Y = {n}
    BY <1>1, <1>9, FS_EmptySet, FS_Singleton
  <2>2. PICK n : Y = {n}
    BY <2>1
  <2>3. Z = {CheckPos(i) : i \in {n} \ {R}}
    BY <2>1, <2>2 DEF WrongAt
  <2>4. Z = {} \/ Z = {CheckPos(n)}
    BY <2>3
  <2>5. e \in 0..(R + K)
    BY <1>1, <1>5, <1>6, <2>4
  <2> QED
    BY <1>2, <1>9, <2>5
<1>10. (x = 0 /\ y = 0) \/ (x = 1 /\ y = 0) \/ (x = 0 /\ y = 1)
  BY <1>1
<1> QED
  BY <1>7, <1>8, <1>9, <1>10

-----------------------------------------------------------------------------
(* The bits against Secded's counts. *)

\* The answers of Secded for x wrong bits of the data and y of the code.
MayLeave(x, y, t, x2, y2) ==
  \/ x + y = 0 /\ t = 0 /\ x2 = x /\ y2 = y
  \/ x + y = 1 /\ x2 = 0 /\ y2 = 0 /\ (t = 3 \/ (t = 2 /\ y = 1))
  \/ /\ x + y > 1 /\ (x + y) % 2 = 0 /\ x2 = x /\ y2 = y
     /\ t = TwoBit \/ (t = 0 /\ x + y >= 4 /\ x > 0)
  \/ /\ x + y > 1 /\ (x + y) % 2 = 1
     /\ \/ t = 3 /\ x2 = x /\ y2 = y
        \/ /\ (x2 + y2) % 2 = 0 /\ x2 + y2 >= 4 /\ x2 > 0
           /\ \/ x2 = x /\ y2 \in {y + 1, y - 1} /\ t \in {2, 3}
              \/ y2 = y /\ x2 \in {x + 1, x - 1} /\ t = 3

LEMMA OutcomeIs ==
  ASSUME NEW x \in Nat, NEW y \in Nat, NEW x2 \in Nat, NEW y2 \in Nat, NEW t \in ErrorType,
         MayLeave(x, y, t, x2, y2)
  PROVE  Outcome(t, [data |-> x2, code |-> y2]) \in Outcomes([data |-> x, code |-> y])
<1>1. PICK p, q : p = [data |-> x, code |-> y] /\ q = [data |-> x2, code |-> y2]
  OBVIOUS
<1>2. /\ p.data = x /\ p.code = y /\ Weight(p) = x + y
      /\ q.data = x2 /\ q.code = y2 /\ Weight(q) = x2 + y2
  BY <1>1 DEF Weight
<1>3. x2 = x /\ y2 = y => q = p
  BY <1>1
<1>4. x2 = 0 /\ y2 = 0 => q = Intact
  BY <1>1 DEF Intact
<1>5. x2 = x /\ y2 \in {y + 1, y - 1} => q \in CodeToggled(p)
  <2>1. x2 = x => q = [p EXCEPT !.code = y2]
    BY <1>1
  <2>2. y2 \in {y + 1, y - 1} => y2 \in {p.code + 1} \cup ({p.code - 1} \cap Nat)
    BY <1>2
  <2> QED
    BY <2>1, <2>2 DEF CodeToggled
<1>6. y2 = y /\ x2 \in {x + 1, x - 1} => q \in DataToggled(p)
  <2>1. y2 = y => q = [p EXCEPT !.data = x2]
    BY <1>1
  <2>2. x2 \in {x + 1, x - 1} => x2 \in {p.data + 1} \cup ({p.data - 1} \cap Nat)
    BY <1>2
  <2> QED
    BY <2>1, <2>2 DEF DataToggled
<1>7. MaybeCodeWord(q) <=> (x2 + y2) % 2 = 0 /\ x2 + y2 >= 4 /\ x2 > 0
  BY <1>2 DEF MaybeCodeWord
<1>8. MaybeCodeWord(p) <=> (x + y) % 2 = 0 /\ x + y >= 4 /\ x > 0
  BY <1>2 DEF MaybeCodeWord
<1>9. PICK o : o = Outcome(t, q)
  OBVIOUS
<1>10. o.type = t /\ o.left = q
  BY <1>9 DEF Outcome
<1>11. q \in {p, Intact} \cup DataToggled(p) \cup CodeToggled(p)
  BY <1>3, <1>4, <1>5, <1>6 DEF MayLeave
<1>12. o \in [type : ErrorType, left : {p, Intact} \cup DataToggled(p) \cup CodeToggled(p)]
  BY <1>9, <1>11 DEF Outcome
<1>13. \/ Weight(p) = 0 /\ o = Outcome(0, p)
       \/ Weight(p) = 1 /\ \/ o = Outcome(3, Intact)
                           \/ o = Outcome(2, Intact) /\ p.code = 1
       \/ /\ Weight(p) > 1 /\ Weight(p) % 2 = 0
          /\ o.left = p
          /\ o.type = TwoBit \/ (o.type = 0 /\ MaybeCodeWord(p))
       \/ /\ Weight(p) > 1 /\ Weight(p) % 2 = 1
          /\ \/ o = Outcome(3, p)
             \/ MaybeCodeWord(o.left) /\ o.left \in CodeToggled(p) /\ o.type \in {2, 3}
             \/ MaybeCodeWord(o.left) /\ o.left \in DataToggled(p) /\ o.type = 3
  <2>1. CASE x + y = 0 /\ t = 0 /\ x2 = x /\ y2 = y
    BY <1>2, <1>3, <1>9, <2>1
  <2>2. CASE x + y = 1 /\ x2 = 0 /\ y2 = 0 /\ (t = 3 \/ (t = 2 /\ y = 1))
    BY <1>2, <1>4, <1>9, <2>2
  <2>3. CASE /\ x + y > 1 /\ (x + y) % 2 = 0 /\ x2 = x /\ y2 = y
             /\ t = TwoBit \/ (t = 0 /\ x + y >= 4 /\ x > 0)
    BY <1>2, <1>3, <1>8, <1>10, <2>3
  <2>4. CASE /\ x + y > 1 /\ (x + y) % 2 = 1
             /\ t = 3 /\ x2 = x /\ y2 = y
    BY <1>2, <1>3, <1>9, <2>4
  <2>5. CASE /\ x + y > 1 /\ (x + y) % 2 = 1
             /\ (x2 + y2) % 2 = 0 /\ x2 + y2 >= 4 /\ x2 > 0
             /\ x2 = x /\ y2 \in {y + 1, y - 1} /\ t \in {2, 3}
    BY <1>2, <1>5, <1>7, <1>10, <2>5
  <2>6. CASE /\ x + y > 1 /\ (x + y) % 2 = 1
             /\ (x2 + y2) % 2 = 0 /\ x2 + y2 >= 4 /\ x2 > 0
             /\ y2 = y /\ x2 \in {x + 1, x - 1} /\ t = 3
    BY <1>2, <1>6, <1>7, <1>10, <2>6
  <2> QED
    BY <2>1, <2>2, <2>3, <2>4, <2>5, <2>6 DEF MayLeave
<1> QED
  BY <1>1, <1>9, <1>12, <1>13 DEF Outcomes

\* hamming_decode answers one of them: it restores a single wrong bit, changes
\* nothing when their number is even, and else leaves what looks intact, or all
\* as it was.
LEMMA DecodeCounts ==
  ASSUME NEW w \in Word, NEW d \in Word, NEW k \in Code,
         NEW t, t = Answer(d, k), NEW d2, d2 = LeftBits(d, k), NEW k2, k2 = LeftCode(d, k),
         NEW x, x = Cardinality(WrongData(w, d)), NEW y, y = Cardinality(WrongCode(w, k)),
         NEW x2, x2 = Cardinality(WrongData(w, d2)), NEW y2, y2 = Cardinality(WrongCode(w, k2))
  PROVE  /\ x \in Nat /\ y \in Nat /\ x2 \in Nat /\ y2 \in Nat
         /\ MayLeave(x, y, t, x2, y2)
         /\ (x + y) % 2 = 0 => d2 = d /\ k2 = k
<1>1. PICK v, e : v = hamming_verify_bit(d, k) /\ e = ErrorPos(v)
  OBVIOUS
<1>2. /\ t \in ErrorType /\ d2 \in Word /\ k2 \in Code
      /\ \/ v[R] = 0 /\ e # 0 /\ t = TwoBit /\ d2 = d /\ k2 = k
         \/ v[R] = 0 /\ e = 0 /\ t = 0 /\ d2 = d /\ k2 = k /\ Agrees(d, k)
         \/ v[R] = 1 /\ e > R + K /\ t = 3 /\ d2 = d /\ k2 = k
         \/ /\ v[R] = 1 /\ t \in {2, 3} /\ Agrees(d2, k2) /\ d2 = d
            /\ \E n \in 0..R : WrongCode(w, k2) = Flipped(WrongCode(w, k), n)
         \/ /\ v[R] = 1 /\ t = 3 /\ Agrees(d2, k2) /\ k2 = k
            /\ \E n \in 0..(K - 1) : WrongData(w, d2) = Flipped(WrongData(w, d), n)
  BY <1>1, DecodeFate
<1>3. /\ IsFiniteSet(WrongData(w, d)) /\ IsFiniteSet(WrongCode(w, k))
      /\ x \in Nat /\ y \in Nat /\ x2 \in Nat /\ y2 \in Nat
  BY WrongFinite, FS_CardinalityType
<1>4. (v[R] = 0 => (x + y) % 2 = 0) /\ (v[R] = 1 => (x + y) % 2 = 1)
  <2>1. v[R] = IF x % 2 = y % 2 THEN 0 ELSE 1
    BY <1>1, ParitySees DEF Parity
  <2>2. /\ x % 2 = y % 2 => (x + y) % 2 = 0
        /\ x % 2 # y % 2 => (x + y) % 2 = 1
    BY <1>3, Z3
  <2> QED
    BY <2>1, <2>2
<1>5. x + y <= 1 => e <= R + K
  <2>1. R + K \in Nat
    BY Length
  <2>2. x + y <= 1 => e \in 0..(R + K)
    BY <1>1, OneWrong
  <2> QED
    BY <2>1, <2>2
<1>6. x + y = 0 => e = 0
  <2>1. x + y = 0 => x + y <= 1
    BY <1>3
  <2> QED
    BY <1>1, <2>1, OneWrong
<1>7. x + y = 0 \/ x + y = 1 \/ x + y > 1
  BY <1>3
<1>8. 0 % 2 = 0 /\ 1 % 2 = 1
  OBVIOUS
<1>9. CASE v[R] = 0 /\ e # 0 /\ t = TwoBit /\ d2 = d /\ k2 = k
  <2>1. (x + y) % 2 = 0 /\ x + y > 1 /\ x2 = x /\ y2 = y
    BY <1>4, <1>6, <1>7, <1>8, <1>9
  <2> QED
    BY <1>3, <1>9, <2>1 DEF MayLeave
<1>10. CASE v[R] = 0 /\ e = 0 /\ t = 0 /\ d2 = d /\ k2 = k /\ Agrees(d, k)
  <2>1. x + y = 0 \/ (x + y >= 4 /\ (x + y) % 2 = 0 /\ x > 0)
    BY <1>10, Distance DEF Agrees
  <2>2. x + y >= 4 => x + y > 1
    BY <1>3
  <2> QED
    BY <1>3, <1>10, <2>1, <2>2 DEF MayLeave
<1>11. CASE v[R] = 1 /\ e > R + K /\ t = 3 /\ d2 = d /\ k2 = k
  <2>1. (x + y) % 2 = 1 /\ x2 = x /\ y2 = y
    BY <1>4, <1>11
  <2>2. e \in Nat /\ R + K \in Nat
    <3>1. PICK a \in Nat : a = 2^R
      BY Length, PowPositive
    <3>2. e \in 0..(a - 1)
      BY <1>1, <3>1, VerifyType, ErrorPosIs
    <3> QED
      BY <3>2, Length
  <2>3. x + y > 1
    BY <1>3, <1>5, <1>11, <2>2
  <2>4. (x + y) % 2 # 0
    BY <2>1
  <2> QED
    BY <1>3, <1>11, <2>1, <2>3, <2>4 DEF MayLeave
\* what turning one bit over leaves
<1>12. ASSUME Agrees(d2, k2), v[R] = 1, t \in {2, 3},
              \/ x2 = x /\ y2 \in {y + 1, y - 1}
              \/ y2 = y /\ x2 \in {x + 1, x - 1} /\ t = 3
       PROVE  MayLeave(x, y, t, x2, y2) /\ (x + y) % 2 # 0
  <2>1. x2 + y2 = 0 \/ (x2 + y2 >= 4 /\ (x2 + y2) % 2 = 0 /\ x2 > 0)
    BY <1>2, <1>12, Distance DEF Agrees
  <2>2. (x + y) % 2 = 1 /\ (x + y) % 2 # 0 /\ x + y # 0
    BY <1>4, <1>8, <1>12
  <2>3. CASE x + y = 1
    <3>1. x2 + y2 <= 2
      BY <1>3, <1>12, <2>3
    <3>2. x2 = 0 /\ y2 = 0
      BY <1>3, <2>1, <3>1
    <3>3. t = 3 \/ (t = 2 /\ y = 1)
      BY <1>3, <1>12, <2>3, <3>2
    <3> QED
      BY <2>2, <2>3, <3>2, <3>3 DEF MayLeave
  <2>4. CASE x + y > 1
    <3>1. x + y > 2
      <4>1. x + y # 2
        BY <2>2
      <4> QED
        BY <1>3, <2>4, <4>1
    <3>2. x2 + y2 # 0
      <4>1. CASE x2 = x /\ y2 \in {y + 1, y - 1}
        BY ONLY <1>3, <3>1, <4>1
      <4>2. CASE y2 = y /\ x2 \in {x + 1, x - 1}
        BY ONLY <1>3, <3>1, <4>2
      <4> QED
        BY <1>12, <4>1, <4>2
    <3> QED
      BY <1>12, <2>1, <2>2, <2>4, <3>2 DEF MayLeave
  <2> QED
    BY <1>7, <2>2, <2>3, <2>4
<1>13. CASE /\ v[R] = 1 /\ t \in {2, 3} /\ Agrees(d2, k2) /\ d2 = d
            /\ \E n \in 0..R : WrongCode(w, k2) = Flipped(WrongCode(w, k), n)
  <2>1. PICK n \in 0..R : WrongCode(w, k2) = Flipped(WrongCode(w, k), n)
    BY <1>13
  <2>2. y2 = IF n \in WrongCode(w, k) THEN y - 1 ELSE y + 1
    BY <1>3, <2>1, FlippedCount
  <2>3. x2 = x /\ y2 \in {y + 1, y - 1}
    BY <1>13, <2>2
  <2> QED
    BY <1>3, <1>12, <1>13, <2>3
<1>14. CASE /\ v[R] = 1 /\ t = 3 /\ Agrees(d2, k2) /\ k2 = k
            /\ \E n \in 0..(K - 1) : WrongData(w, d2) = Flipped(WrongData(w, d), n)
  <2>1. PICK n \in 0..(K - 1) : WrongData(w, d2) = Flipped(WrongData(w, d), n)
    BY <1>14
  <2>2. x2 = IF n \in WrongData(w, d) THEN x - 1 ELSE x + 1
    BY <1>3, <2>1, FlippedCount
  <2>3. y2 = y /\ x2 \in {x + 1, x - 1}
    BY <1>14, <2>2
  <2> QED
    BY <1>3, <1>12, <1>14, <2>3
<1> QED
  BY <1>2, <1>9, <1>10, <1>11, <1>13, <1>14

-----------------------------------------------------------------------------
(* The block on its way. *)

\* The bits the invariant tells apart: on the wire, those flipped are those
\* that are wrong; decoded, what became of them is what the properties say.
FlippedBits == {n \in 0..(K - 1) : <<"bits", n>> \in flipped}
FlippedCode == {i \in 0..R : <<"c", i>> \in flipped}

OnWire ==
  /\ pc = "encode" => flipped = {}
  /\ pc = "wire" => /\ WrongData(sent, bits) = FlippedBits
                    /\ WrongCode(sent, c) = FlippedCode

IInv == TypeOK /\ OnWire /\ CorrectsOne /\ DetectsTwo /\ DecodesAsSecded

\* What types the variables have, and where the words are.
LEMMA Words ==
  ASSUME TypeOK
  PROVE  /\ sent \in Word /\ bits \in Word /\ c \in Code /\ hamming_code(sent) \in Code
         /\ R \in Nat /\ K \in Nat
<1>1. sent \in Word /\ bits \in Word /\ c \in Code
  BY HammingAssumption DEF TypeOK, Word, Code
<1> QED
  BY <1>1, CodeOf, Length

\* The flipped bits are counted by kind.
LEMMA FlippedKinds ==
  ASSUME TypeOK
  PROVE  /\ IsFiniteSet(flipped)
         /\ Arrived = [data |-> Cardinality(FlippedBits), code |-> Cardinality(FlippedCode)]
         /\ Cardinality(flipped) = Cardinality(FlippedBits) + Cardinality(FlippedCode)
<1> DEFINE B == {f \in flipped : f[1] = "bits"}
           C == {f \in flipped : f[1] = "c"}
<1>1. IsFiniteSet(0..(K - 1)) /\ IsFiniteSet(0..R)
  BY Length, FS_Interval
<1>2. FlippedBits \in SUBSET (0..(K - 1)) /\ FlippedCode \in SUBSET (0..R)
  BY DEF FlippedBits, FlippedCode
<1>3. IsFiniteSet(FlippedBits) /\ IsFiniteSet(FlippedCode)
  BY <1>1, <1>2, FS_Subset
<1>4. IsFiniteSet(B) /\ Cardinality(B) = Cardinality(FlippedBits)
  <2>1. PICK f : f = [n \in FlippedBits |-> <<"bits", n>>]
    OBVIOUS
  <2>2. f \in [FlippedBits -> B]
    BY <2>1 DEF FlippedBits
  <2>3. ASSUME NEW t \in B PROVE \E n \in FlippedBits : f[n] = t
    <3>1. t \in flipped /\ t[1] = "bits"
      OBVIOUS
    <3>2. PICK n \in 0..(K - 1) : t = <<"bits", n>>
      BY <3>1 DEF TypeOK
    <3>3. n \in FlippedBits
      BY <3>1, <3>2 DEF FlippedBits
    <3> QED
      BY <2>1, <3>2, <3>3
  <2>4. \A n, m \in FlippedBits : f[n] = f[m] => n = m
    BY <2>1
  <2> HIDE DEF B
  <2> QED
    BY <1>3, <2>2, <2>3, <2>4, SameCount
<1>5. IsFiniteSet(C) /\ Cardinality(C) = Cardinality(FlippedCode)
  <2>1. PICK f : f = [i \in FlippedCode |-> <<"c", i>>]
    OBVIOUS
  <2>2. f \in [FlippedCode -> C]
    BY <2>1 DEF FlippedCode
  <2>3. ASSUME NEW t \in C PROVE \E i \in FlippedCode : f[i] = t
    <3>1. t \in flipped /\ t[1] = "c"
      OBVIOUS
    <3>2. PICK i \in 0..R : t = <<"c", i>>
      BY <3>1 DEF TypeOK
    <3>3. i \in FlippedCode
      BY <3>1, <3>2 DEF FlippedCode
    <3> QED
      BY <2>1, <3>2, <3>3
  <2>4. \A i, m \in FlippedCode : f[i] = f[m] => i = m
    BY <2>1
  <2> HIDE DEF C
  <2> QED
    BY <1>3, <2>2, <2>3, <2>4, SameCount
<1>6. flipped = B \cup C /\ B \cap C = {}
  <2>1. \A f \in flipped : f[1] = "bits" \/ f[1] = "c"
    BY DEF TypeOK
  <2> QED
    BY <2>1
<1>7. Arrived = [data |-> Cardinality(B), code |-> Cardinality(C)]
  BY DEF Arrived
<1> HIDE DEF B, C
<1>8. /\ IsFiniteSet(B \cup C)
      /\ Cardinality(B \cup C) = Cardinality(B) + Cardinality(C) - Cardinality(B \cap C)
  BY <1>4, <1>5, FS_Union
<1>9. Cardinality(B) \in Nat /\ Cardinality(C) \in Nat /\ Cardinality({}) = 0
  BY <1>4, <1>5, FS_CardinalityType, FS_EmptySet
<1>10. Cardinality(flipped) = Cardinality(FlippedBits) + Cardinality(FlippedCode)
  <2>1. PICK b \in Nat, e \in Nat : b = Cardinality(B) /\ e = Cardinality(C)
    BY <1>9
  <2>2. Cardinality(flipped) = b + e - 0
    BY <1>6, <1>8, <1>9, <2>1
  <2> QED
    BY <1>4, <1>5, <2>1, <2>2
<1>11. IsFiniteSet(flipped)
  BY <1>6, <1>8
<1> QED
  BY <1>4, <1>5, <1>7, <1>10, <1>11

\* Nothing is wrong when the root has just encoded.
LEMMA EncodeStep == IInv /\ Encode => IInv'
<1> SUFFICES ASSUME IInv, Encode PROVE IInv'
  OBVIOUS
<1>0. TypeOK /\ OnWire
  BY DEF IInv
<1>1. /\ pc = "encode" /\ pc' = "wire" /\ bits' = sent /\ c' = hamming_code(sent)
      /\ sent' = sent /\ flipped' = flipped /\ error_type' = error_type /\ flipped = {}
  BY <1>0 DEF Encode, OnWire
<1>2. sent \in Word /\ hamming_code(sent) \in Code
  BY <1>0, Words
<1>3. TypeOK'
  BY <1>0, <1>1, <1>2 DEF TypeOK, Word, Code
<1>4. OnWire'
  BY <1>1 DEF OnWire, WrongData, WrongCode, FlippedBits, FlippedCode
<1>5. CorrectsOne' /\ DetectsTwo' /\ DecodesAsSecded'
  BY <1>1 DEF CorrectsOne, DetectsTwo, DecodesAsSecded
<1> QED
  BY <1>3, <1>4, <1>5 DEF IInv

\* A data bit is flipped once.
LEMMA FlipDataStep == ASSUME IInv, NEW n \in 0..(K - 1), FlipData(n) PROVE IInv'
<1>0. TypeOK /\ OnWire
  BY DEF IInv
<1>1. /\ pc = "wire" /\ pc' = "wire" /\ <<"bits", n>> \notin flipped
      /\ bits' = [bits EXCEPT ![n] = 1 - bits[n]] /\ flipped' = flipped \cup {<<"bits", n>>}
      /\ sent' = sent /\ c' = c /\ error_type' = error_type
  BY DEF FlipData, Toggle
<1>2. sent \in Word /\ bits \in Word
  BY <1>0, Words
<1>3. /\ bits' \in Word /\ bits'[n] = 1 - bits[n]
      /\ \A m \in 0..(K - 1) : m # n => bits'[m] = bits[m]
      /\ bits[n] \in {0, 1} /\ sent[n] \in {0, 1}
  BY <1>1, <1>2 DEF Word
<1>4. TypeOK'
  BY <1>0, <1>1, <1>3 DEF TypeOK, Word
<1>5. OnWire'
  <2>1. WrongData(sent, bits) = FlippedBits /\ WrongCode(sent, c) = FlippedCode
    BY <1>0, <1>1 DEF OnWire
  <2>2. n \notin FlippedBits
    BY <1>1 DEF FlippedBits
  <2>3. bits[n] = sent[n]
    BY <2>1, <2>2 DEF WrongData
  <2>4. bits'[n] # sent[n]
    BY <1>3, <2>3
  <2>5. WrongData(sent, bits)' = WrongData(sent, bits) \cup {n}
    BY <1>1, <1>3, <2>4 DEF WrongData
  <2>6. FlippedBits' = FlippedBits \cup {n} /\ FlippedCode' = FlippedCode
    BY <1>1 DEF FlippedBits, FlippedCode
  <2>7. WrongCode(sent, c)' = WrongCode(sent, c)
    BY <1>1 DEF WrongCode
  <2> QED
    BY <1>1, <2>1, <2>5, <2>6, <2>7 DEF OnWire
<1>6. CorrectsOne' /\ DetectsTwo' /\ DecodesAsSecded'
  BY <1>1 DEF CorrectsOne, DetectsTwo, DecodesAsSecded
<1> QED
  BY <1>4, <1>5, <1>6 DEF IInv

\* A bit of the code is flipped once.
LEMMA FlipCodeStep == ASSUME IInv, NEW i \in 0..R, FlipCode(i) PROVE IInv'
<1>0. TypeOK /\ OnWire
  BY DEF IInv
<1>1. /\ pc = "wire" /\ pc' = "wire" /\ <<"c", i>> \notin flipped
      /\ c' = [c EXCEPT ![i] = 1 - c[i]] /\ flipped' = flipped \cup {<<"c", i>>}
      /\ sent' = sent /\ bits' = bits /\ error_type' = error_type
  BY DEF FlipCode, Toggle
<1>2. PICK g \in Code : g = hamming_code(sent)
  BY <1>0, Words
<1>3. /\ c' \in Code /\ c'[i] = 1 - c[i]
      /\ \A m \in 0..R : m # i => c'[m] = c[m]
      /\ c[i] \in {0, 1} /\ g[i] \in {0, 1}
  BY <1>0, <1>1, Words DEF Code
<1>4. TypeOK'
  BY <1>0, <1>1, <1>3 DEF TypeOK, Code
<1>5. OnWire'
  <2>1. WrongData(sent, bits) = FlippedBits /\ WrongCode(sent, c) = FlippedCode
    BY <1>0, <1>1 DEF OnWire
  <2>2. i \notin FlippedCode
    BY <1>1 DEF FlippedCode
  <2>3. c[i] = g[i]
    BY <1>2, <2>1, <2>2 DEF WrongCode
  <2>4. c'[i] # g[i]
    BY <1>3, <2>3
  <2>5. WrongCode(sent, c)' = WrongCode(sent, c) \cup {i}
    BY <1>1, <1>2, <1>3, <2>4 DEF WrongCode
  <2>6. FlippedCode' = FlippedCode \cup {i} /\ FlippedBits' = FlippedBits
    BY <1>1 DEF FlippedBits, FlippedCode
  <2>7. WrongData(sent, bits)' = WrongData(sent, bits)
    BY <1>1 DEF WrongData
  <2> QED
    BY <1>1, <2>1, <2>5, <2>6, <2>7 DEF OnWire
<1>6. CorrectsOne' /\ DetectsTwo' /\ DecodesAsSecded'
  BY <1>1 DEF CorrectsOne, DetectsTwo, DecodesAsSecded
<1> QED
  BY <1>4, <1>5, <1>6 DEF IInv

\* What hamming_decode makes of the block.
LEMMA DecodeIs ==
  ASSUME hamming_decode
  PROVE  /\ pc = "wire" /\ pc' = "decoded" /\ sent' = sent /\ flipped' = flipped
         /\ error_type' = Answer(bits, c)
         /\ bits' = LeftBits(bits, c) /\ c' = LeftCode(bits, c)
BY DEF hamming_decode, Answer, LeftBits, LeftCode

\* Words that differ nowhere are equal.
LEMMA NoneWrong ==
  ASSUME NEW S, NEW f \in [S -> 0..1], NEW g \in [S -> 0..1], {x \in S : f[x] # g[x]} = {}
  PROVE  f = g
OBVIOUS

\* The decoder makes the properties true.
LEMMA DecodeStep == IInv /\ hamming_decode => IInv'
<1> SUFFICES ASSUME IInv, hamming_decode PROVE IInv'
  OBVIOUS
<1>0. TypeOK /\ OnWire
  BY DEF IInv
<1>1. /\ pc = "wire" /\ pc' = "decoded" /\ sent' = sent /\ flipped' = flipped
      /\ error_type' = Answer(bits, c)
      /\ bits' = LeftBits(bits, c) /\ c' = LeftCode(bits, c)
  BY DecodeIs
<1>2. PICK w, d, k, t, d2, k2 :
        /\ w = sent /\ d = bits /\ k = c /\ t = error_type' /\ d2 = bits' /\ k2 = c'
  OBVIOUS
<1>3. /\ w \in Word /\ d \in Word /\ k \in Code
      /\ t = Answer(d, k) /\ d2 = LeftBits(d, k) /\ k2 = LeftCode(d, k)
  BY <1>0, <1>1, <1>2, Words
<1>4. t \in ErrorType /\ d2 \in Word /\ k2 \in Code
  BY ONLY <1>3, DecodeFate
<1>5. PICK x, y, x2, y2 :
        /\ x = Cardinality(WrongData(w, d)) /\ y = Cardinality(WrongCode(w, k))
        /\ x2 = Cardinality(WrongData(w, d2)) /\ y2 = Cardinality(WrongCode(w, k2))
  OBVIOUS
<1>6. /\ x \in Nat /\ y \in Nat /\ x2 \in Nat /\ y2 \in Nat
      /\ MayLeave(x, y, t, x2, y2)
      /\ (x + y) % 2 = 0 => d2 = d /\ k2 = k
  BY ONLY <1>3, <1>5, DecodeCounts
<1>7. WrongData(w, d) = FlippedBits /\ WrongCode(w, k) = FlippedCode
  BY <1>0, <1>1, <1>2 DEF OnWire
<1>8. Cardinality(flipped) = x + y /\ Arrived = [data |-> x, code |-> y]
  BY <1>0, <1>5, <1>7, FlippedKinds
<1>9. TypeOK'
  BY <1>0, <1>1, <1>2, <1>4 DEF TypeOK, Word, Code
<1>10. OnWire'
  BY <1>1 DEF OnWire
<1>11. CorrectsOne'
  <2> SUFFICES ASSUME x + y <= 1
               PROVE  d2 = w /\ k2 = hamming_code(w) /\ t # TwoBit
    BY <1>1, <1>2, <1>8 DEF CorrectsOne
  <2>1. x2 = 0 /\ y2 = 0 /\ t # TwoBit
    BY <1>6 DEF MayLeave, TwoBit
  <2>2. WrongData(w, d2) = {} /\ WrongCode(w, k2) = {}
    BY <1>5, <2>1, WrongFinite, FS_EmptySet
  <2>3. d2 = w
    <3>1. PICK S : S = 0..(K - 1)
      OBVIOUS
    <3>2. d2 \in [S -> 0..1] /\ w \in [S -> 0..1] /\ {n \in S : d2[n] # w[n]} = {}
      BY <1>3, <1>4, <2>2, <3>1 DEF WrongData, Word
    <3> QED
      BY ONLY <3>2, NoneWrong
  <2>4. k2 = hamming_code(w)
    <3>1. PICK g \in Code : g = hamming_code(w)
      BY <1>3, CodeOf
    <3>2. PICK S : S = 0..R
      OBVIOUS
    <3>3. k2 \in [S -> 0..1] /\ g \in [S -> 0..1] /\ {i \in S : k2[i] # g[i]} = {}
      BY <1>4, <2>2, <3>1, <3>2 DEF WrongCode, Code
    <3>4. k2 = g
      BY ONLY <3>3, NoneWrong
    <3> QED
      BY <3>1, <3>4
  <2> QED
    BY <2>1, <2>3, <2>4
<1>12. DetectsTwo'
  <2> SUFFICES ASSUME x + y = 2
               PROVE  /\ t = TwoBit
                      /\ \A n \in 0..(K - 1) : d2[n] # w[n] <=> <<"bits", n>> \in flipped
                      /\ \A i \in 0..R : k2[i] # hamming_code(w)[i] <=> <<"c", i>> \in flipped
    BY <1>1, <1>2, <1>8 DEF DetectsTwo
  <2>1. t = TwoBit
    BY <1>6 DEF MayLeave
  <2>2. d2 = d /\ k2 = k
    <3>1. (x + y) % 2 = 0
      OBVIOUS
    <3> QED
      BY <1>6, <3>1
  <2>3. \A n \in 0..(K - 1) : d[n] # w[n] <=> <<"bits", n>> \in flipped
    <3>1. \A n \in 0..(K - 1) : n \in WrongData(w, d) <=> n \in FlippedBits
      BY <1>7
    <3> QED
      BY ONLY <3>1 DEF WrongData, FlippedBits
  <2>4. \A i \in 0..R : k[i] # hamming_code(w)[i] <=> <<"c", i>> \in flipped
    <3>1. \A i \in 0..R : i \in WrongCode(w, k) <=> i \in FlippedCode
      BY <1>7
    <3> QED
      BY ONLY <3>1 DEF WrongCode, FlippedCode
  <2> QED
    BY <2>1, <2>2, <2>3, <2>4
<1>13. DecodesAsSecded'
  <2>1. Remaining' = [data |-> x2, code |-> y2]
    BY <1>1, <1>2, <1>5 DEF Remaining, WrongData, WrongCode
  <2>2. Arrived' = [data |-> x, code |-> y]
    BY <1>1, <1>8 DEF Arrived
  <2>3. Outcome(t, [data |-> x2, code |-> y2]) \in Outcomes([data |-> x, code |-> y])
    BY <1>4, <1>6, OutcomeIs
  <2>4. Outcome(t, Remaining') \in Outcomes(Arrived')
    BY ONLY <2>1, <2>2, <2>3
  <2> QED
    BY <1>2, <2>4 DEF DecodesAsSecded
<1> QED
  BY <1>9, <1>10, <1>11, <1>12, <1>13 DEF IInv

\* The initial states.
LEMMA InitIInv == Init => IInv
<1> SUFFICES ASSUME Init PROVE IInv
  OBVIOUS
<1>1. R \in Nat /\ K \in Nat
  BY Length
<1>2. TypeOK
  BY <1>1 DEF Init, TypeOK, ErrorType
<1> QED
  BY <1>2 DEF Init, IInv, OnWire, CorrectsOne, DetectsTwo, DecodesAsSecded

\* No step breaks the invariant.
LEMMA NextIInv == IInv /\ [Next]_vars => IInv'
<1> SUFFICES ASSUME IInv, [Next]_vars PROVE IInv'
  OBVIOUS
<1>1. CASE Encode
  BY <1>1, EncodeStep
<1>2. ASSUME NEW n \in 0..(K - 1), FlipData(n) PROVE IInv'
  BY <1>2, FlipDataStep
<1>3. ASSUME NEW i \in 0..R, FlipCode(i) PROVE IInv'
  BY <1>3, FlipCodeStep
<1>4. CASE hamming_decode
  BY <1>4, DecodeStep
<1>5. CASE UNCHANGED vars
  <2>1. /\ pc' = pc /\ sent' = sent /\ bits' = bits /\ c' = c /\ flipped' = flipped
        /\ error_type' = error_type
    BY <1>5 DEF vars
  <2>2. TypeOK' /\ OnWire'
    BY <2>1 DEF IInv, TypeOK, OnWire, WrongData, WrongCode, FlippedBits, FlippedCode
  <2>3. CorrectsOne' /\ DetectsTwo'
    BY <2>1 DEF IInv, CorrectsOne, DetectsTwo
  <2>4. DecodesAsSecded'
    BY <2>1 DEF IInv, DecodesAsSecded, Remaining, Arrived
  <2> QED
    BY <2>2, <2>3, <2>4 DEF IInv
<1> QED
  BY <1>1, <1>2, <1>3, <1>4, <1>5 DEF Next

LEMMA SpecIInv == Spec => []IInv
<1>1. Init => IInv
  BY InitIInv
<1>2. IInv /\ [Next]_vars => IInv'
  BY NextIInv
<1> QED
  BY <1>1, <1>2, PTL DEF Spec

-----------------------------------------------------------------------------
(* The theorems. *)

\* Blocks of any number of bytes stay blocks: TypeOK holds for every K, all
\* data words and any number of flips.
THEOREM TypeCorrect == Spec => []TypeOK
<1>1. IInv => TypeOK
  BY DEF IInv
<1> QED
  BY <1>1, SpecIInv, PTL

\* hamming_decode puts a single flipped bit back, wherever in the code word it
\* is, for blocks of every size.
THEOREM OneCorrected == Spec => []CorrectsOne
<1>1. IInv => CorrectsOne
  BY DEF IInv
<1> QED
  BY <1>1, SpecIInv, PTL

\* hamming_decode reports every two flipped bits as error type 1 and leaves
\* the block as it came, for blocks of every size.
THEOREM TwoDetected == Spec => []DetectsTwo
<1>1. IInv => DetectsTwo
  BY DEF IInv
<1> QED
  BY <1>1, SpecIInv, PTL

\* For any number of flipped bits in blocks of every size, the answer of
\* hamming_decode and the number of wrong bits it leaves are among those
\* Secded!Outcomes allows: what the models of the broadcasts take for the
\* decoder is sound.
THEOREM SecdedSound == Spec => []DecodesAsSecded
<1>1. IInv => DecodesAsSecded
  BY DEF IInv
<1> QED
  BY <1>1, SpecIInv, PTL

\* After an answer of hamming_decode other than "two-bit error" a second one
\* finds nothing more to repair, unless the first found no bit at the position
\* it computed.
THEOREM DecodingSettles == Spec => DecodeSettles
<1>1. ASSUME IInv, hamming_decode, error_type' \in {0, 2, 3}
      PROVE  \/ error_info(hamming_verify_bit(bits', c')) = 0
             \/ /\ ErrorPos(hamming_verify_bit(bits, c)) > R + K
                /\ UNCHANGED <<bits, c>>
  <2>1. /\ error_type' = Answer(bits, c)
        /\ bits' = LeftBits(bits, c) /\ c' = LeftCode(bits, c)
    BY <1>1, DecodeIs
  <2>2. PICK w, d, k, t, d2, k2 :
          /\ w = sent /\ d = bits /\ k = c /\ t = error_type' /\ d2 = bits' /\ k2 = c'
    OBVIOUS
  <2>3. /\ w \in Word /\ d \in Word /\ k \in Code
        /\ t = Answer(d, k) /\ d2 = LeftBits(d, k) /\ k2 = LeftCode(d, k)
    BY <1>1, <2>1, <2>2, Words DEF IInv
  <2>4. PICK v, e : v = hamming_verify_bit(d, k) /\ e = ErrorPos(v)
    OBVIOUS
  <2>5. t = TwoBit \/ Agrees(d2, k2) \/ (e > R + K /\ d2 = d /\ k2 = k)
    <3>1. \/ v[R] = 0 /\ e # 0 /\ t = TwoBit /\ d2 = d /\ k2 = k
          \/ v[R] = 0 /\ e = 0 /\ t = 0 /\ d2 = d /\ k2 = k /\ Agrees(d, k)
          \/ v[R] = 1 /\ e > R + K /\ t = 3 /\ d2 = d /\ k2 = k
          \/ /\ v[R] = 1 /\ t \in {2, 3} /\ Agrees(d2, k2) /\ d2 = d
             /\ \E n \in 0..R : WrongCode(w, k2) = Flipped(WrongCode(w, k), n)
          \/ /\ v[R] = 1 /\ t = 3 /\ Agrees(d2, k2) /\ k2 = k
             /\ \E n \in 0..(K - 1) : WrongData(w, d2) = Flipped(WrongData(w, d), n)
      BY ONLY <2>3, <2>4, DecodeFate
    <3> QED
      BY ONLY <3>1
  <2>6. Agrees(d2, k2) => error_info(hamming_verify_bit(d2, k2)) = 0
    <3> SUFFICES ASSUME Agrees(d2, k2) PROVE error_info(hamming_verify_bit(d2, k2)) = 0
      OBVIOUS
    <3>1. PICK u : u = hamming_verify_bit(d2, k2)
      OBVIOUS
    <3>2. u \in [0..R -> 0..1] /\ \A i \in 0..R : u[i] = 0
      BY <3>1, VerifyType DEF Agrees
    <3>3. R \in 0..R /\ \A i \in 0..(R - 1) : i \in 0..R
      BY Length
    <3>4. ErrorPos(u) = 0
      BY <3>2, <3>3, ErrorPosIs
    <3> QED
      BY <3>1, <3>2, <3>3, <3>4 DEF error_info
  <2> QED
    BY <1>1, <2>2, <2>4, <2>5, <2>6 DEF TwoBit
<1>2. IInv /\ [Next]_vars =>
        [hamming_decode /\ error_type' \in {0, 2, 3} =>
           \/ error_info(hamming_verify_bit(bits', c')) = 0
           \/ /\ ErrorPos(hamming_verify_bit(bits, c)) > R + K
              /\ UNCHANGED <<bits, c>>]_vars
  BY <1>1
<1> QED
  BY <1>2, SpecIInv, PTL DEF Spec, DecodeSettles
=============================================================================
