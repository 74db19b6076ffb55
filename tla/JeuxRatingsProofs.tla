------------------------- MODULE JeuxRatingsProofs --------------------------
(***************************************************************************)
(* Proofs about JeuxRatings, for any finite sets of players and threads,   *)
(* any games and any number of results.                                    *)
(*                                                                         *)
(* The two new ratings are truncated quotients over one denominator whose  *)
(* exact values have the sum of the old ratings (GameValues), so a game    *)
(* takes one point at most and gives one only if that sum is negative      *)
(* (TruncatedSum).  Whole-number bounds survive truncation, which is why   *)
(* the winner never loses.                                                 *)
(*                                                                         *)
(* While calls run, the sum of the ratings lacks what their second writes  *)
(* are still to add: Pending.  What a call has read is still the rating    *)
(* until it writes it, as long as no calls with a common player overlap.   *)
(***************************************************************************)
EXTENDS JeuxRatings, FiniteSetTheorems, NaturalsInduction, WellFoundedInduction, TLAPS

(* The least element of a nonempty set of naturals. *)
LEMMA LeastNat ==
  ASSUME NEW T \in SUBSET Nat, T # {}
  PROVE  \E x \in T : \A y \in T : x <= y
<1>1. \E x \in T : \A y \in T : ~ (<<y, x>> \in OpToRel(<, Nat))
  BY NatLessThanWellFounded, WFMin
<1>2. \A x, y \in Nat : <<y, x>> \in OpToRel(<, Nat) <=> y < x
  BY DEF OpToRel
<1>3. \A x, y \in T : ~(y < x) => x <= y
  OBVIOUS
<1> QED
  BY <1>1, <1>2, <1>3

-----------------------------------------------------------------------------
(* pow(10, q) *)
IsPow(p, n) == p = [k \in 0..n |-> IF k = 0 THEN 1 ELSE 10 * p[k - 1]]

(* The powers up to the n-th exist. *)
LEMMA PowExists ==
  ASSUME NEW n \in Nat
  PROVE  \E p : IsPow(p, n)
<1> DEFINE T == {m \in Nat : ~\E p : IsPow(p, m)}
<1> SUFFICES ASSUME T # {}
             PROVE  FALSE
  OBVIOUS
<1>1. T \in SUBSET Nat
  OBVIOUS
<1>2. PICK m \in T : \A y \in T : m <= y
  BY <1>1, LeastNat
<1>3. m \in Nat /\ ~\E p : IsPow(p, m)
  OBVIOUS
<1>4. m # 0
  <2>1. IsPow([k \in 0..0 |-> 1], 0)
    BY DEF IsPow
  <2> QED
    BY <1>3, <2>1
<1>5. m - 1 \in Nat /\ m - 1 \notin T
  BY <1>2, <1>3, <1>4
<1>6. PICK p : IsPow(p, m - 1)
  BY <1>5
<1> HIDE DEF T
<1>7. DOMAIN p = 0..(m - 1) /\ \A k \in 0..(m - 1) : p[k] = IF k = 0 THEN 1 ELSE 10 * p[k - 1]
  BY <1>6 DEF IsPow
<1> DEFINE r == [k \in 0..m |-> IF k = m THEN 10 * p[m - 1] ELSE p[k]]
<1>8. \A k \in 0..m : r[k] = IF k = 0 THEN 1 ELSE 10 * r[k - 1]
  <2> SUFFICES ASSUME NEW k \in 0..m
               PROVE  r[k] = IF k = 0 THEN 1 ELSE 10 * r[k - 1]
    OBVIOUS
  <2>1. CASE k = m
    <3>1. k - 1 \in 0..m /\ k - 1 # m /\ k # 0
      BY <1>3, <1>4, <2>1
    <3>2. r[k - 1] = p[m - 1] /\ r[k] = 10 * p[m - 1]
      BY <2>1, <3>1
    <3> QED
      BY <3>1, <3>2
  <2>2. CASE k # m /\ k = 0
    BY <1>3, <1>7, <2>2
  <2>3. CASE k # m /\ k # 0
    <3>1. k \in 0..(m - 1) /\ k - 1 \in 0..m /\ k - 1 # m
      BY <1>3, <2>3
    <3>2. r[k] = p[k] /\ r[k - 1] = p[k - 1]
      BY <2>3, <3>1
    <3> QED
      BY <1>7, <2>3, <3>1, <3>2
  <2> QED
    BY <2>1, <2>2, <2>3
<1>9. DOMAIN r = 0..m /\ r = [k \in 0..m |-> r[k]]
  OBVIOUS
<1> HIDE DEF r
<1>10. IsPow(r, m)
  BY <1>8, <1>9 DEF IsPow
<1> QED
  BY <1>3, <1>10

(* They are positive. *)
LEMMA PowPositive ==
  ASSUME NEW n \in Nat, NEW p, IsPow(p, n)
  PROVE  \A k \in 0..n : p[k] \in Nat /\ p[k] >= 1
<1> DEFINE T == {k \in 0..n : ~(p[k] \in Nat /\ p[k] >= 1)}
<1> SUFFICES ASSUME T # {}
             PROVE  FALSE
  OBVIOUS
<1>1. T \in SUBSET Nat
  OBVIOUS
<1>2. PICK k \in T : \A y \in T : k <= y
  BY <1>1, LeastNat
<1>3. k \in 0..n /\ ~(p[k] \in Nat /\ p[k] >= 1)
  OBVIOUS
<1>4. p[k] = IF k = 0 THEN 1 ELSE 10 * p[k - 1]
  BY <1>3 DEF IsPow
<1>5. k # 0 /\ k - 1 \in 0..n
  BY <1>3, <1>4
<1>6. k - 1 \notin T
  BY <1>2, <1>5
<1>7. p[k - 1] \in Nat /\ p[k - 1] >= 1
  BY <1>5, <1>6
<1> QED
  BY <1>3, <1>4, <1>5, <1>7

(* A power of 10 is a positive number, and the first is 1. *)
LEMMA PowType ==
  ASSUME NEW q \in Nat
  PROVE  Pow10(q) \in Nat /\ Pow10(q) >= 1 /\ (q = 0 => Pow10(q) = 1)
<1>1. PICK p : p = CHOOSE f : f = [k \in 0..q |-> IF k = 0 THEN 1 ELSE 10 * f[k - 1]]
  OBVIOUS
<1>2. IsPow(p, q)
  BY <1>1, PowExists DEF IsPow
<1>3. Pow10(q) = p[q]
  BY <1>1 DEF Pow10
<1>4. q \in 0..q /\ (q = 0 => p[q] = 1)
  BY <1>2 DEF IsPow
<1> QED
  BY <1>2, <1>3, <1>4, PowPositive

-----------------------------------------------------------------------------
(* A product grows with its factors. *)
LEMMA Times ==
  ASSUME NEW a \in Int, NEW b \in Int, NEW d \in Nat, d >= 1
  PROVE  /\ a <= b => a * d <= b * d
         /\ a < b => a * d < b * d
         /\ (a + 1) * d = a * d + d /\ (a - 1) * d = a * d - d
         /\ (a + b) * d = a * d + b * d
         /\ a * d \in Int
OBVIOUS

(* Division that truncates towards zero. *)
LEMMA Truncated ==
  ASSUME NEW x \in Int, NEW d \in Nat, d >= 1
  PROVE  /\ Quotient(x, d) \in Int
         /\ x >= 0 => Quotient(x, d) * d <= x /\ x < Quotient(x, d) * d + d
         /\ x < 0 => Quotient(x, d) * d - d < x /\ x <= Quotient(x, d) * d
<1>1. \A y \in Int : y \div d \in Int /\ (y \div d) * d <= y /\ y < (y \div d) * d + d
  <2> TAKE y \in Int
  <2>1. y \div d \in Int /\ (y % d) \in 0..(d - 1) /\ y = d * (y \div d) + (y % d)
    OBVIOUS
  <2> QED
    BY <2>1
<1>2. CASE x >= 0
  BY <1>1, <1>2 DEF Quotient
<1>3. CASE x < 0
  <2>1. PICK q : q = (-x) \div d
    OBVIOUS
  <2>2. q \in Int /\ q * d <= -x /\ -x < q * d + d
    BY <1>1, <2>1
  <2>3. Quotient(x, d) = -q /\ (-q) * d = -(q * d) /\ q * d \in Int
    BY <1>3, <2>1, <2>2 DEF Quotient
  <2> QED
    BY <1>3, <2>2, <2>3
<1> QED
  BY <1>2, <1>3

(* A quotient is between the whole numbers that its value is between. *)
LEMMA TruncatedBounds ==
  ASSUME NEW x \in Int, NEW d \in Nat, d >= 1, NEW k \in Int
  PROVE  /\ x >= k * d => Quotient(x, d) >= k
         /\ x <= k * d => Quotient(x, d) <= k
<1>1. PICK q : q = Quotient(x, d)
  OBVIOUS
<1>2. /\ q \in Int /\ q * d \in Int /\ k * d \in Int
      /\ x >= 0 => q * d <= x /\ x < q * d + d
      /\ x < 0 => q * d - d < x /\ x <= q * d
  BY <1>1, Truncated
<1>3. ASSUME x >= k * d, q < k
      PROVE  FALSE
  <2>1. q + 1 <= k
    BY <1>2, <1>3
  <2>2. (q + 1) * d <= k * d /\ (q + 1) * d = q * d + d
    BY <1>2, <2>1, Times
  <2> QED
    BY <1>2, <1>3, <2>2
<1>4. ASSUME x <= k * d, q > k
      PROVE  FALSE
  <2>1. k + 1 <= q
    BY <1>2, <1>4
  <2>2. (k + 1) * d <= q * d /\ (k + 1) * d = k * d + d
    BY <1>2, <2>1, Times
  <2> QED
    BY <1>2, <1>4, <2>2
<1> QED
  BY <1>1, <1>2, <1>3, <1>4

(* Two quotients of a whole sum lose one at most, and only negative values *)
(* gain one.                                                               *)
LEMMA TruncatedSum ==
  ASSUME NEW x \in Int, NEW y \in Int, NEW d \in Nat, d >= 1, NEW s \in Int, x + y = s * d
  PROVE  /\ Quotient(x, d) + Quotient(y, d) >= s - 1
         /\ Quotient(x, d) + Quotient(y, d) <= s + 1
         /\ s >= 0 => Quotient(x, d) + Quotient(y, d) <= s
<1>1. PICK p, q : p = Quotient(x, d) /\ q = Quotient(y, d)
  OBVIOUS
<1>2. /\ p \in Int /\ q \in Int /\ p * d \in Int /\ q * d \in Int
      /\ x >= 0 => p * d <= x /\ x < p * d + d
      /\ x < 0 => p * d - d < x /\ x <= p * d
      /\ y >= 0 => q * d <= y /\ y < q * d + d
      /\ y < 0 => q * d - d < y /\ y <= q * d
  BY <1>1, Truncated
<1>3. (p + q) * d = p * d + q * d /\ s * d \in Int
  BY <1>2, Times
<1>4. (p + q) * d - 2 * d < s * d /\ s * d < (p + q) * d + 2 * d
  BY <1>2, <1>3
<1>5. ASSUME p + q < s - 1
      PROVE  FALSE
  <2>1. p + q + 2 <= s
    BY <1>2, <1>5
  <2>2. (p + q + 2) * d <= s * d /\ (p + q + 2) * d = (p + q) * d + 2 * d
    BY <1>2, <2>1, Times
  <2> QED
    BY <1>2, <1>3, <1>4, <2>2
<1>6. ASSUME p + q > s + 1
      PROVE  FALSE
  <2>1. s <= p + q - 2
    BY <1>2, <1>6
  <2>2. s * d <= (p + q - 2) * d /\ (p + q - 2) * d = (p + q) * d - 2 * d
    BY <1>2, <2>1, Times
  <2> QED
    BY <1>2, <1>3, <1>4, <2>2
<1>7. ASSUME s >= 0, p + q > s
      PROVE  FALSE
  <2>1. s * d >= 0
    BY <1>7
  <2>2. x >= 0 \/ y >= 0
    BY <1>3, <2>1
  <2>3. (p + q) * d - d < s * d
    BY <1>2, <1>3, <2>2
  <2>4. s <= p + q - 1
    BY <1>2, <1>7
  <2>5. s * d <= (p + q - 1) * d /\ (p + q - 1) * d = (p + q) * d - d
    BY <1>2, <2>4, Times
  <2> QED
    BY <1>2, <1>3, <2>3, <2>5
<1> QED
  BY <1>1, <1>2, <1>5, <1>6, <1>7

-----------------------------------------------------------------------------
(* Sums over finite sets, by the recursive function that they are defined  *)
(* with: g is the sum of f over each subset of T.                          *)
First(s) == CHOOSE x \in s : TRUE
IsSum(g, f, T) ==
  g = [s \in SUBSET T |-> IF s = {} THEN 0 ELSE f[First(s)] + g[s \ {First(s)}]]
Values(f, T) == \A x \in T : f[x] \in Int
SumOf(f, T) == MapThenSumSet(LAMBDA x : f[x], T)

(* A set without one of its elements is smaller. *)
LEMMA WithoutOne ==
  ASSUME NEW T, IsFiniteSet(T), NEW S \in SUBSET T, NEW x \in S
  PROVE  /\ S \ {x} \in SUBSET T
         /\ Cardinality(S \ {x}) \in Nat /\ Cardinality(S) = Cardinality(S \ {x}) + 1
<1>1. IsFiniteSet(S) /\ Cardinality(S) \in Nat
  BY FS_Subset, FS_CardinalityType
<1>2. IsFiniteSet(S \ {x}) /\ Cardinality(S \ {x}) = Cardinality(S) - 1
  BY <1>1, FS_RemoveElement
<1>3. Cardinality(S \ {x}) \in Nat
  BY <1>2, FS_CardinalityType
<1> QED
  BY <1>1, <1>2, <1>3

Family(B, T) == B # {} /\ \A S \in B : S \in SUBSET T
Smallest(S, B, T) ==
  S \in B /\ S \in SUBSET T /\ \A x \in S : S \ {x} \in SUBSET T /\ S \ {x} \notin B

(* Among some subsets of a finite set there is one of the smallest: without *)
(* any of its elements it is none of them.                                 *)
LEMMA SmallestSet ==
  ASSUME NEW T, IsFiniteSet(T), NEW B, Family(B, T)
  PROVE  \E S : Smallest(S, B, T)
<1> DEFINE C == {Cardinality(S) : S \in B}
<1>1. \A S \in B : S \in SUBSET T /\ IsFiniteSet(S) /\ Cardinality(S) \in Nat
  <2> TAKE S \in B
  <2>1. S \in SUBSET T
    BY DEF Family
  <2> QED
    BY <2>1, FS_Subset, FS_CardinalityType
<1>2. C \in SUBSET Nat /\ C # {}
  BY <1>1 DEF Family
<1>3. PICK n \in C : \A m \in C : n <= m
  BY <1>2, LeastNat
<1>4. PICK S \in B : n = Cardinality(S)
  OBVIOUS
<1>5. S \in SUBSET T /\ n \in Nat
  BY <1>1, <1>4
<1>6. ASSUME NEW x \in S
      PROVE  S \ {x} \in SUBSET T /\ S \ {x} \notin B
  <2>1. /\ S \ {x} \in SUBSET T
        /\ Cardinality(S \ {x}) \in Nat /\ Cardinality(S) = Cardinality(S \ {x}) + 1
    BY <1>5, WithoutOne
  <2>2. S \ {x} \in B => Cardinality(S) <= Cardinality(S \ {x})
    BY <1>3, <1>4
  <2> QED
    BY <2>1, <2>2
<1> QED
  BY <1>5, <1>6 DEF Smallest

(* The sums over the subsets with at most n elements. *)
Small(T, n) == {s \in SUBSET T : Cardinality(s) <= n}
IsPart(g, f, T, n) ==
  g = [s \in Small(T, n) |-> IF s = {} THEN 0 ELSE f[First(s)] + g[s \ {First(s)}]]

(* They exist. *)
LEMMA PartExists ==
  ASSUME NEW T, IsFiniteSet(T), NEW f, NEW n \in Nat
  PROVE  \E g : IsPart(g, f, T, n)
<1> DEFINE B == {m \in Nat : ~\E g : IsPart(g, f, T, m)}
<1> SUFFICES ASSUME B # {}
             PROVE  FALSE
  OBVIOUS
<1>1. B \in SUBSET Nat
  OBVIOUS
<1>2. PICK m \in B : \A y \in B : m <= y
  BY <1>1, LeastNat
<1>3. m \in Nat /\ ~\E g : IsPart(g, f, T, m)
  OBVIOUS
<1>4. \A s \in SUBSET T : /\ Cardinality(s) \in Nat /\ (Cardinality(s) = 0 <=> s = {})
                          /\ s # {} => /\ First(s) \in s /\ s \ {First(s)} \in SUBSET T
                                       /\ Cardinality(s) = Cardinality(s \ {First(s)}) + 1
  <2> TAKE s \in SUBSET T
  <2>1. IsFiniteSet(s) /\ Cardinality(s) \in Nat
    BY FS_Subset, FS_CardinalityType
  <2>2. s # {} => First(s) \in s
    BY DEF First
  <2>3. s # {} => /\ s \ {First(s)} \in SUBSET T
                  /\ Cardinality(s) = Cardinality(s \ {First(s)}) + 1
    BY <2>2, WithoutOne
  <2> QED
    BY <2>1, <2>2, <2>3, FS_EmptySet
<1>5. m # 0
  <2>1. \A s \in Small(T, 0) : s = {}
    <3> SUFFICES ASSUME NEW s \in SUBSET T, Cardinality(s) <= 0
                 PROVE  s = {}
      BY DEF Small
    <3>1. Cardinality(s) \in Nat /\ (Cardinality(s) = 0 <=> s = {})
      BY <1>4
    <3> QED
      BY <3>1
  <2>2. PICK g : g = [s \in Small(T, 0) |-> 0]
    OBVIOUS
  <2>3. g = [s \in Small(T, 0) |-> IF s = {} THEN 0 ELSE f[First(s)] + g[s \ {First(s)}]]
    BY <2>1, <2>2
  <2>4. IsPart(g, f, T, 0)
    BY <2>3 DEF IsPart
  <2> QED
    BY <1>3, <2>4
<1>6. m - 1 \in Nat /\ m - 1 \notin B
  BY <1>2, <1>3, <1>5
<1>7. PICK g : IsPart(g, f, T, m - 1)
  BY <1>6
<1> HIDE DEF B
<1>8. \A s \in Small(T, m - 1) : g[s] = IF s = {} THEN 0 ELSE f[First(s)] + g[s \ {First(s)}]
  BY <1>7 DEF IsPart
<1>9. PICK r : r = [s \in Small(T, m) |-> IF s = {} THEN 0 ELSE f[First(s)] + g[s \ {First(s)}]]
  OBVIOUS
<1>10. \A s \in Small(T, m) : s # {} => /\ s \ {First(s)} \in Small(T, m)
                                       /\ s \ {First(s)} \in Small(T, m - 1)
  <2> SUFFICES ASSUME NEW s \in SUBSET T, Cardinality(s) <= m, s # {}
               PROVE  s \ {First(s)} \in Small(T, m) /\ s \ {First(s)} \in Small(T, m - 1)
    BY DEF Small
  <2>1. PICK u : u = s \ {First(s)}
    OBVIOUS
  <2>2. u \in SUBSET T /\ Cardinality(u) \in Nat /\ Cardinality(s) = Cardinality(u) + 1
    BY <1>4, <2>1
  <2> QED
    BY <1>3, <2>1, <2>2 DEF Small
<1>11. \A s \in Small(T, m) : s \in Small(T, m - 1) => r[s] = g[s]
  BY <1>8, <1>9
<1>12. \A s \in Small(T, m) : r[s] = IF s = {} THEN 0 ELSE f[First(s)] + r[s \ {First(s)}]
  <2> TAKE s \in Small(T, m)
  <2>1. s # {} => r[s \ {First(s)}] = g[s \ {First(s)}]
    BY <1>10, <1>11
  <2> QED
    BY <1>9, <2>1
<1>13. IsPart(r, f, T, m)
  <2>1. DOMAIN r = Small(T, m) /\ r = [s \in Small(T, m) |-> r[s]]
    BY <1>9
  <2> QED
    BY <1>12, <2>1 DEF IsPart
<1> QED
  BY <1>3, <1>13

(* The sum is the value of such a function. *)
LEMMA SumIs ==
  ASSUME NEW T, IsFiniteSet(T), NEW f
  PROVE  \E g : IsSum(g, f, T) /\ SumOf(f, T) = g[T]
<1>1. Small(T, Cardinality(T)) = SUBSET T
  <2>1. \A s \in SUBSET T : Cardinality(s) <= Cardinality(T)
    BY FS_Subset
  <2> QED
    BY <2>1 DEF Small
<1>2. \E g : IsSum(g, f, T)
  <2>1. Cardinality(T) \in Nat
    BY FS_CardinalityType
  <2>2. PICK g : IsPart(g, f, T, Cardinality(T))
    BY <2>1, PartExists
  <2> QED
    BY <1>1, <2>2 DEF IsPart, IsSum
<1>3. PICK g : g = CHOOSE i : i = [s \in SUBSET T |->
        IF s = {} THEN 0
        ELSE f[CHOOSE x \in s : TRUE] + i[s \ {CHOOSE x \in s : TRUE}]]
  OBVIOUS
<1>4. SumOf(f, T) = g[T]
  BY <1>3 DEF SumOf, MapThenSumSet, MapThenFoldSet
<1>5. IsSum(g, f, T)
  BY <1>2, <1>3 DEF IsSum, First
<1> QED
  BY <1>4, <1>5

(* One step of the recursion. *)
LEMMA SumStep ==
  ASSUME NEW T, NEW f, NEW g, IsSum(g, f, T), NEW S \in SUBSET T
  PROVE  /\ S = {} => g[S] = 0
         /\ S # {} => First(S) \in S /\ g[S] = f[First(S)] + g[S \ {First(S)}]
<1>1. S # {} => First(S) \in S
  BY DEF First
<1>2. g[S] = IF S = {} THEN 0 ELSE f[First(S)] + g[S \ {First(S)}]
  BY DEF IsSum
<1> QED
  BY <1>1, <1>2

(* A sum is a number. *)
LEMMA SumType ==
  ASSUME NEW T, IsFiniteSet(T), NEW f, Values(f, T), NEW g, IsSum(g, f, T)
  PROVE  \A S \in SUBSET T : g[S] \in Int
<1>1. \A S \in SUBSET T :
        /\ S = {} => g[S] = 0
        /\ S # {} => First(S) \in S /\ g[S] = f[First(S)] + g[S \ {First(S)}]
  BY SumStep
<1> SUFFICES ASSUME NEW R \in SUBSET T, g[R] \notin Int
             PROVE  FALSE
  OBVIOUS
<1>2. PICK B : B = {S \in SUBSET T : g[S] \notin Int}
  OBVIOUS
<1>3. PICK S : Smallest(S, B, T)
  <2>1. Family(B, T)
    BY <1>2 DEF Family
  <2> QED
    BY <2>1, SmallestSet
<1>4. S \in SUBSET T /\ S \in B /\ \A y \in S : S \ {y} \in SUBSET T /\ S \ {y} \notin B
  BY <1>3 DEF Smallest
<1>5. S \in SUBSET T
  BY <1>4
<1>6. /\ S = {} => g[S] = 0
      /\ S # {} => First(S) \in S /\ g[S] = f[First(S)] + g[S \ {First(S)}]
  BY <1>5, <1>1
<1>7. g[S] \notin Int /\ \A x \in S : g[S \ {x}] \in Int
  BY <1>2, <1>4
<1>8. S # {}
  <2>1. S = {} => g[S] = 0
    BY <1>6
  <2> QED
    BY <1>7, <2>1
<1>9. PICK x : x = First(S)
  OBVIOUS
<1>10. x \in S /\ g[S] = f[x] + g[S \ {x}]
  <2>1. First(S) \in S /\ g[S] = f[First(S)] + g[S \ {First(S)}]
    BY <1>6, <1>8
  <2> QED
    BY <1>9, <2>1
<1>11. f[x] \in Int /\ g[S \ {x}] \in Int
  BY <1>2, <1>4, <1>7, <1>10 DEF Values
<1> QED
  BY <1>7, <1>10, <1>11

(* Any element can be taken out of the sum. *)
LEMMA SumSplit ==
  ASSUME NEW T, IsFiniteSet(T), NEW f, Values(f, T), NEW g, IsSum(g, f, T)
  PROVE  \A S \in SUBSET T : \A x \in S : g[S] = f[x] + g[S \ {x}]
<1> SUFFICES ASSUME NEW R \in SUBSET T, NEW z \in R, g[R] # f[z] + g[R \ {z}]
             PROVE  FALSE
  OBVIOUS
<1>1. PICK B : B = {S \in SUBSET T : \E x \in S : g[S] # f[x] + g[S \ {x}]}
  OBVIOUS
<1>2. PICK S : Smallest(S, B, T)
  <2>1. Family(B, T)
    BY <1>1 DEF Family
  <2> QED
    BY <2>1, SmallestSet
<1>3. S \in SUBSET T /\ S \in B /\ \A y \in S : S \ {y} \in SUBSET T /\ S \ {y} \notin B
  BY <1>2 DEF Smallest
<1>4. S \in SUBSET T
  BY <1>3
<1>5. /\ S = {} => g[S] = 0
      /\ S # {} => First(S) \in S /\ g[S] = f[First(S)] + g[S \ {First(S)}]
  BY <1>4, SumStep
<1>6. PICK x \in S : g[S] # f[x] + g[S \ {x}]
  BY <1>1, <1>3
<1>7. \A c \in S : \A y \in S \ {c} : g[S \ {c}] = f[y] + g[(S \ {c}) \ {y}]
  BY <1>1, <1>3
<1>8. PICK c : c = First(S)
  OBVIOUS
<1>9. c \in S /\ g[S] = f[c] + g[S \ {c}]
  <2>1. First(S) \in S /\ g[S] = f[First(S)] + g[S \ {First(S)}]
    BY <1>5, <1>6
  <2> QED
    BY <1>8, <2>1
<1>10. c # x
  BY <1>6, <1>9
<1>11. g[S \ {c}] = f[x] + g[(S \ {c}) \ {x}] /\ g[S \ {x}] = f[c] + g[(S \ {x}) \ {c}]
  BY <1>7, <1>9, <1>10
<1>12. (S \ {c}) \ {x} = (S \ {x}) \ {c} /\ (S \ {c}) \ {x} \in SUBSET T
  BY <1>1, <1>3
<1>13. f[x] \in Int /\ f[c] \in Int
  BY <1>1, <1>3, <1>9 DEF Values
<1>14. g[(S \ {c}) \ {x}] \in Int
  BY <1>12, SumType
<1>15. PICK v : v = g[(S \ {c}) \ {x}]
  OBVIOUS
<1>16. g[S \ {c}] = f[x] + v /\ g[S \ {x}] = f[c] + v /\ v \in Int
  BY <1>11, <1>12, <1>14, <1>15
<1> QED
  BY <1>6, <1>9, <1>13, <1>16

(* Functions with the same values have the same sum. *)
LEMMA SumSame ==
  ASSUME NEW T, IsFiniteSet(T), NEW f, NEW g, IsSum(g, f, T), NEW f2, NEW g2, IsSum(g2, f2, T)
  PROVE  \A S \in SUBSET T : (\A x \in S : f[x] = f2[x]) => g[S] = g2[S]
<1> SUFFICES ASSUME NEW R \in SUBSET T, \A x \in R : f[x] = f2[x], g[R] # g2[R]
             PROVE  FALSE
  OBVIOUS
<1>1. PICK B : B = {S \in SUBSET T : (\A x \in S : f[x] = f2[x]) /\ g[S] # g2[S]}
  OBVIOUS
<1>2. PICK S : Smallest(S, B, T)
  <2>1. Family(B, T)
    BY <1>1 DEF Family
  <2> QED
    BY <2>1, SmallestSet
<1>3. S \in SUBSET T /\ S \in B /\ \A y \in S : S \ {y} \in SUBSET T /\ S \ {y} \notin B
  BY <1>2 DEF Smallest
<1>4. S \in SUBSET T
  BY <1>3
<1>5. /\ S = {} => g[S] = 0
      /\ S # {} => First(S) \in S /\ g[S] = f[First(S)] + g[S \ {First(S)}]
  BY <1>4, SumStep
<1>6. /\ S = {} => g2[S] = 0
      /\ S # {} => First(S) \in S /\ g2[S] = f2[First(S)] + g2[S \ {First(S)}]
  BY <1>4, SumStep
<1>7. /\ \A x \in S : f[x] = f2[x]
      /\ g[S] # g2[S]
      /\ \A x \in S : g[S \ {x}] = g2[S \ {x}]
  BY <1>1, <1>3
<1>8. S # {}
  <2>1. S = {} => g[S] = 0 /\ g2[S] = 0
    BY <1>5, <1>6
  <2> QED
    BY <1>7, <2>1
<1>9. PICK x : x = First(S)
  OBVIOUS
<1>10. x \in S /\ g[S] = f[x] + g[S \ {x}]
  <2>1. First(S) \in S /\ g[S] = f[First(S)] + g[S \ {First(S)}]
    BY <1>5, <1>8
  <2> QED
    BY <1>9, <2>1
<1>11. g2[S] = f2[x] + g2[S \ {x}]
  <2>1. g2[S] = f2[First(S)] + g2[S \ {First(S)}]
    BY <1>6, <1>8
  <2> QED
    BY <1>9, <2>1
<1> QED
  BY <1>7, <1>10, <1>11

-----------------------------------------------------------------------------
(* What is used of sums. *)
LEMMA SumNumber ==
  ASSUME NEW T, IsFiniteSet(T), NEW f, Values(f, T)
  PROVE  SumOf(f, T) \in Int
<1>1. PICK g : IsSum(g, f, T) /\ SumOf(f, T) = g[T]
  BY SumIs
<1> QED
  BY <1>1, SumType

(* If one value changes, the sum changes by the difference. *)
LEMMA SumChanged ==
  ASSUME NEW T, IsFiniteSet(T), NEW f, NEW f2, Values(f, T), Values(f2, T),
         NEW x \in T, \A y \in T : y # x => f2[y] = f[y]
  PROVE  SumOf(f2, T) = SumOf(f, T) + (f2[x] - f[x])
<1>1. PICK g : IsSum(g, f, T) /\ SumOf(f, T) = g[T]
  BY SumIs
<1>2. PICK g2 : IsSum(g2, f2, T) /\ SumOf(f2, T) = g2[T]
  BY SumIs
<1>3. T \in SUBSET T /\ T \ {x} \in SUBSET T
  OBVIOUS
<1>4. g[T] = f[x] + g[T \ {x}]
  BY <1>1, <1>3, SumSplit
<1>5. g2[T] = f2[x] + g2[T \ {x}]
  BY <1>2, <1>3, SumSplit
<1>6. g[T \ {x}] = g2[T \ {x}]
  BY <1>1, <1>2, <1>3, SumSame
<1>7. f[x] \in Int /\ f2[x] \in Int /\ g[T \ {x}] \in Int
  BY <1>1, <1>3, SumType DEF Values
<1> QED
  BY <1>1, <1>2, <1>4, <1>5, <1>6, <1>7

(* The sum of equal values. *)
LEMMA SumEqual ==
  ASSUME NEW T, IsFiniteSet(T), NEW f, NEW c \in Int, \A x \in T : f[x] = c
  PROVE  SumOf(f, T) = c * Cardinality(T)
<1>1. PICK g : IsSum(g, f, T) /\ SumOf(f, T) = g[T]
  BY SumIs
<1> SUFFICES ASSUME g[T] # c * Cardinality(T)
             PROVE  FALSE
  BY <1>1
<1>2. PICK B : B = {S \in SUBSET T : g[S] # c * Cardinality(S)}
  OBVIOUS
<1>3. PICK S : Smallest(S, B, T)
  <2>1. Family(B, T)
    BY <1>2 DEF Family
  <2> QED
    BY <2>1, SmallestSet
<1>4. S \in SUBSET T /\ S \in B /\ \A y \in S : S \ {y} \in SUBSET T /\ S \ {y} \notin B
  BY <1>3 DEF Smallest
<1>5. S \in SUBSET T
  BY <1>4
<1>6. /\ S = {} => g[S] = 0
      /\ S # {} => First(S) \in S /\ g[S] = f[First(S)] + g[S \ {First(S)}]
  BY <1>1, <1>5, SumStep
<1>7. /\ g[S] # c * Cardinality(S)
      /\ \A x \in S : g[S \ {x}] = c * Cardinality(S \ {x})
  BY <1>2, <1>4
<1>8. S # {}
  <2>1. Cardinality({}) = 0 /\ c * 0 = 0
    BY FS_EmptySet
  <2>2. S = {} => g[S] = 0
    BY <1>6
  <2> QED
    BY <1>7, <2>1, <2>2
<1>9. PICK x : x = First(S)
  OBVIOUS
<1>10. x \in S /\ g[S] = f[x] + g[S \ {x}]
  <2>1. First(S) \in S /\ g[S] = f[First(S)] + g[S \ {First(S)}]
    BY <1>6, <1>8
  <2> QED
    BY <1>9, <2>1
<1>11. PICK k : k = Cardinality(S \ {x})
  OBVIOUS
<1>12. k \in Nat /\ Cardinality(S) = k + 1
  BY <1>2, <1>4, <1>10, <1>11, WithoutOne
<1>13. f[x] = c /\ g[S \ {x}] = c * k
  BY <1>2, <1>4, <1>7, <1>10, <1>11
<1>14. c + c * k = c * (k + 1)
  BY <1>12
<1> QED
  BY <1>7, <1>10, <1>12, <1>13, <1>14

-----------------------------------------------------------------------------
(* The opposite of zero. *)
LEMMA MinusZero ==
  ASSUME NEW k \in Int, k = 0
  PROVE  -k = 0
<1>1. PICK j \in Int : j = -k
  OBVIOUS
<1>2. k <= 0 /\ k >= 0
  OBVIOUS
<1>3. j <= 0 /\ j >= 0
  <2>1. \A a, b \in Int : a <= 0 /\ a >= 0 /\ b = -a => b <= 0 /\ b >= 0
    OBVIOUS
  <2> QED
    BY <1>1, <1>2, <2>1
<1>4. j = 0
  BY <1>3
<1> QED
  BY <1>1, <1>4

(* The two players of a game see the same gap, with opposite signs. *)
LEMMA GapType ==
  ASSUME NEW a \in Int, NEW b \in Int
  PROVE  Gap(a, b) \in Int /\ Gap(b, a) = -Gap(a, b)
<1>1. PICK n \in Int : n = b - a
  OBVIOUS
<1>2. Gap(a, b) = Quotient(n, 400) /\ Gap(b, a) = Quotient(-n, 400)
  <2>1. b - a = n /\ a - b = -n
    BY <1>1
  <2> QED
    BY <2>1 DEF Gap
<1>3. Quotient(n, 400) \in Int /\ Quotient(-n, 400) = -Quotient(n, 400)
  <2>1. CASE n > 0
    <3>1. Quotient(n, 400) = n \div 400 /\ Quotient(-n, 400) = -((-(-n)) \div 400)
      BY <2>1 DEF Quotient
    <3> QED
      BY <3>1
  <2>2. CASE n = 0
    <3>1. Quotient(0, 400) = 0
      <4>1. 0 \div 400 = 0
        OBVIOUS
      <4> QED
        BY <4>1 DEF Quotient
    <3>2. -n = 0
      BY <2>2, MinusZero
    <3>3. -n = 0 /\ -Quotient(n, 400) = 0
      BY <2>2, <3>1, <3>2, MinusZero
    <3> QED
      BY <2>2, <3>1, <3>3
  <2>3. CASE n < 0
    <3>1. Quotient(n, 400) = -((-n) \div 400) /\ Quotient(-n, 400) = (-n) \div 400
      BY <2>3 DEF Quotient
    <3> QED
      BY <3>1
  <2> QED
    BY <2>1, <2>2, <2>3
<1> QED
  BY <1>2, <1>3

(* The expected scores of the two players add up to 1. *)
LEMMA Expected ==
  ASSUME NEW q \in Int
  PROVE  /\ ExpectedDen(q) \in Nat /\ ExpectedDen(q) >= 1 /\ ExpectedDen(-q) = ExpectedDen(q)
         /\ ExpectedNum(q) \in Nat /\ ExpectedNum(-q) \in Nat
         /\ ExpectedNum(q) + ExpectedNum(-q) = ExpectedDen(q)
<1>1. CASE q > 0
  <2>1. Pow10(q) \in Nat
    BY <1>1, PowType
  <2>2. ~(-q >= 0) /\ -(-q) = q
    BY <1>1
  <2>3. ExpectedNum(q) = 1 /\ ExpectedDen(q) = 1 + Pow10(q)
    BY <1>1 DEF ExpectedNum, ExpectedDen
  <2>4. ExpectedNum(-q) = Pow10(q) /\ ExpectedDen(-q) = 1 + Pow10(q)
    BY <2>2 DEF ExpectedNum, ExpectedDen
  <2> QED
    BY <2>1, <2>3, <2>4
<1>2. CASE q = 0
  <2>1. Pow10(0) = 1
    BY PowType
  <2>2. -q = 0 /\ q >= 0
    <3>1. q >= 0
      BY <1>2
    <3> QED
      BY <1>2, <3>1, MinusZero
  <2>3. /\ ExpectedNum(q) = 1 /\ ExpectedDen(q) = 1 + Pow10(0)
        /\ ExpectedNum(-q) = 1 /\ ExpectedDen(-q) = 1 + Pow10(0)
    BY <1>2, <2>2 DEF ExpectedNum, ExpectedDen
  <2> QED
    BY <2>1, <2>3
<1>3. CASE q < 0
  <2>1. Pow10(-q) \in Nat
    BY <1>3, PowType
  <2>2. ~(q >= 0) /\ -q >= 0
    BY <1>3
  <2>3. ExpectedNum(q) = Pow10(-q) /\ ExpectedDen(q) = 1 + Pow10(-q)
    BY <2>2 DEF ExpectedNum, ExpectedDen
  <2>4. ExpectedNum(-q) = 1 /\ ExpectedDen(-q) = 1 + Pow10(-q)
    BY <2>2 DEF ExpectedNum, ExpectedDen
  <2> QED
    BY <2>1, <2>3, <2>4
<1> QED
  BY <1>1, <1>2, <1>3

(* The new ratings are truncated quotients, over the same denominator, whose *)
(* values before truncation add up to the old ratings.                     *)
IsGame(a, b, r, x, y, d) ==
  /\ x \in Int /\ y \in Int /\ d \in Nat /\ d >= 1
  /\ NewRating(a, b, Score1(r)) = Quotient(x, d)
  /\ NewRating(b, a, Score2(r)) = Quotient(y, d)
  /\ x + y = (a + b) * d
  /\ r = 1 => x >= a * d /\ y <= b * d
  /\ r = 2 => x <= a * d /\ y >= b * d

(* Every game has such values. *)
LEMMA GameValues ==
  ASSUME NEW a \in Int, NEW b \in Int, NEW r \in 0..2
  PROVE  \E x, y, d : IsGame(a, b, r, x, y, d)
<1>1. PICK q : q = Gap(a, b)
  OBVIOUS
<1>2. q \in Int /\ Gap(b, a) = -q
  BY <1>1, GapType
<1>3. PICK d, n, m : d = ExpectedDen(q) /\ n = ExpectedNum(q) /\ m = ExpectedNum(-q)
  OBVIOUS
<1>4. d \in Nat /\ d >= 1 /\ ExpectedDen(-q) = d /\ n \in Nat /\ m \in Nat /\ n + m = d
  BY <1>2, <1>3, Expected
<1>5. PICK u, v : u = a * d /\ v = b * d
  OBVIOUS
<1>6. u \in Int /\ v \in Int /\ (a + b) * d = u + v
  BY <1>4, <1>5, Times
<1>7. /\ NewRating(a, b, Score1(r)) = Quotient(u + 16 * Score1(r) * d - 32 * n, d)
      /\ NewRating(b, a, Score2(r)) = Quotient(v + 16 * Score2(r) * d - 32 * m, d)
  BY <1>1, <1>2, <1>3, <1>4, <1>5 DEF NewRating
<1>8. /\ r = 0 => Score1(r) = 1 /\ Score2(r) = 1
      /\ r = 1 => Score1(r) = 2 /\ Score2(r) = 0
      /\ r = 2 => Score1(r) = 0 /\ Score2(r) = 2
  BY DEF Score1, Score2
<1>9. PICK x, y : x = u + 16 * Score1(r) * d - 32 * n /\ y = v + 16 * Score2(r) * d - 32 * m
  OBVIOUS
<1>10. /\ x \in Int /\ y \in Int /\ x + y = u + v
       /\ r = 1 => x >= u /\ y <= v
       /\ r = 2 => x <= u /\ y >= v
  <2>1. CASE r = 0
    <3>1. x = u + 16 * 1 * d - 32 * n /\ y = v + 16 * 1 * d - 32 * m
      BY <1>8, <1>9, <2>1
    <3> QED
      BY <1>4, <1>6, <2>1, <3>1
  <2>2. CASE r = 1
    <3>1. x = u + 16 * 2 * d - 32 * n /\ y = v + 16 * 0 * d - 32 * m
      BY <1>8, <1>9, <2>2
    <3> QED
      BY <1>4, <1>6, <2>2, <3>1
  <2>3. CASE r = 2
    <3>1. x = u + 16 * 0 * d - 32 * n /\ y = v + 16 * 2 * d - 32 * m
      BY <1>8, <1>9, <2>3
    <3> QED
      BY <1>4, <1>6, <2>3, <3>1
  <2> QED
    BY <2>1, <2>2, <2>3
<1>11. IsGame(a, b, r, x, y, d)
  BY <1>4, <1>5, <1>6, <1>7, <1>9, <1>10 DEF IsGame
<1> QED
  BY <1>11

(* What a game does to the ratings of its players. *)
LEMMA GameResult ==
  ASSUME NEW a \in Int, NEW b \in Int, NEW r \in 0..2, NEW a2, NEW b2,
         a2 = NewRating(a, b, Score1(r)), b2 = NewRating(b, a, Score2(r))
  PROVE  /\ a2 \in Int /\ b2 \in Int
         /\ a2 + b2 >= a + b - 1 /\ a2 + b2 <= a + b + 1
         /\ a + b >= 0 => a2 + b2 <= a + b
         /\ r = 1 => a2 >= a /\ b2 <= b
         /\ r = 2 => a2 <= a /\ b2 >= b
<1>1. PICK x, y, d : IsGame(a, b, r, x, y, d)
  BY GameValues
<1>2. x \in Int /\ y \in Int /\ d \in Nat /\ d >= 1 /\ x + y = (a + b) * d
  BY <1>1 DEF IsGame
<1>3. a2 = Quotient(x, d) /\ b2 = Quotient(y, d)
  BY <1>1 DEF IsGame
<1>4. PICK s \in Int : s = a + b
  OBVIOUS
<1>5. /\ a2 + b2 >= s - 1 /\ a2 + b2 <= s + 1
      /\ s >= 0 => a2 + b2 <= s
  BY <1>2, <1>3, <1>4, TruncatedSum
<1>6. a2 \in Int /\ b2 \in Int
  BY <1>2, <1>3, Truncated
<1>7. /\ r = 1 => x >= a * d /\ y <= b * d
      /\ r = 2 => x <= a * d /\ y >= b * d
  BY <1>1 DEF IsGame
<1>8. /\ x >= a * d => a2 >= a
      /\ x <= a * d => a2 <= a
  BY <1>2, <1>3, TruncatedBounds
<1>9. /\ y >= b * d => b2 >= b
      /\ y <= b * d => b2 <= b
  BY <1>2, <1>3, TruncatedBounds
<1> QED
  BY <1>4, <1>5, <1>6, <1>7, <1>8, <1>9

-----------------------------------------------------------------------------
(* The inductive invariant. *)
RatingsType ==
  /\ rating \in [Players -> Int]
  /\ pc \in [Threads -> {"idle", "read2", "write1", "write2"}]
  /\ R1 \in [Threads -> Int] /\ R2 \in [Threads -> Int]
  /\ result \in [Threads -> 0..2]
  /\ posted \in [Threads -> Nat]
  /\ raced \in BOOLEAN /\ sunk \in BOOLEAN
  /\ DOMAIN player1 = Threads /\ DOMAIN player2 = Threads
  /\ player1 = [t \in Threads |-> player1[t]] /\ player2 = [t \in Threads |-> player2[t]]

\* A call has two different players.
CallsHavePlayers ==
  \A t \in Threads : pc[t] # "idle" =>
    player1[t] \in Players /\ player2[t] \in Players /\ player1[t] # player2[t]

\* As long as no call overlapped another of one of its players, the players
\* of two running calls are different.
CallsApart ==
  ~raced => \A t, u \in Threads : t # u /\ pc[t] # "idle" /\ pc[u] # "idle" =>
    /\ player1[t] # player1[u] /\ player1[t] # player2[u]
    /\ player2[t] # player1[u] /\ player2[t] # player2[u]

\* What a call has read is still the rating, until it writes it.
ReadsHold ==
  ~raced => \A t \in Threads :
    /\ pc[t] \in {"read2", "write1"} => R1[t] = rating[player1[t]]
    /\ pc[t] \in {"write1", "write2"} => R2[t] = rating[player2[t]]
    /\ pc[t] = "write2" => rating[player1[t]] = newR1(t)

\* Without two ratings of negative sum, every sum read is natural.
SumsAfloat ==
  ~sunk => \A t \in Threads : pc[t] \in {"write1", "write2"} => R1[t] + R2[t] >= 0

\* What the second write of each call is still to add, and the number of
\* results of each thread whose first rating is written.
Pending == [t \in Threads |-> IF pc[t] = "write2" THEN newR2(t) - R2[t] ELSE 0]
Halfway == [t \in Threads |-> posted[t] - (IF pc[t] \in {"read2", "write1"} THEN 1 ELSE 0)]

Bounded(total, pending, halfway, s) ==
  /\ total \in Int /\ pending \in Int /\ halfway \in Int
  /\ total + pending + halfway >= InitialTotal
  /\ total + pending - halfway <= InitialTotal
  /\ ~s => total + pending <= InitialTotal

SumsBounded ==
  ~raced => Bounded(SumOf(rating, Players), SumOf(Pending, Threads), SumOf(Halfway, Threads), sunk)

RatingInv ==
  /\ RatingsType /\ CallsHavePlayers /\ CallsApart /\ ReadsHold /\ SumsAfloat
  /\ SumsBounded

-----------------------------------------------------------------------------
(* The new ratings of a call, by the values that it has read. *)
LEMMA CallResult ==
  ASSUME RatingsType, NEW t \in Threads
  PROVE  /\ newR1(t) \in Int /\ newR2(t) \in Int /\ R1[t] \in Int /\ R2[t] \in Int
         /\ newR1(t) + newR2(t) >= R1[t] + R2[t] - 1
         /\ newR1(t) + newR2(t) <= R1[t] + R2[t] + 1
         /\ R1[t] + R2[t] >= 0 => newR1(t) + newR2(t) <= R1[t] + R2[t]
         /\ result[t] = 1 => newR1(t) >= R1[t] /\ newR2(t) <= R2[t]
         /\ result[t] = 2 => newR1(t) <= R1[t] /\ newR2(t) >= R2[t]
<1>1. PICK a, b, r : a = R1[t] /\ b = R2[t] /\ r = result[t]
  OBVIOUS
<1>2. a \in Int /\ b \in Int /\ r \in 0..2
  BY <1>1 DEF RatingsType
<1>3. PICK a2, b2 : a2 = NewRating(a, b, Score1(r)) /\ b2 = NewRating(b, a, Score2(r))
  OBVIOUS
<1>4. newR1(t) = a2 /\ newR2(t) = b2
  BY <1>1, <1>3 DEF newR1, newR2
<1>5. /\ a2 \in Int /\ b2 \in Int
      /\ a2 + b2 >= a + b - 1 /\ a2 + b2 <= a + b + 1
      /\ a + b >= 0 => a2 + b2 <= a + b
      /\ r = 1 => a2 >= a /\ b2 <= b
      /\ r = 2 => a2 <= a /\ b2 >= b
  BY <1>2, <1>3, GameResult
<1> QED
  BY <1>1, <1>2, <1>4, <1>5

(* Pending and Halfway are functions to whole numbers. *)
LEMMA PendingValues ==
  ASSUME RatingsType
  PROVE  /\ Values(rating, Players) /\ Values(Pending, Threads) /\ Values(Halfway, Threads)
         /\ \A t \in Threads :
              /\ Pending[t] = IF pc[t] = "write2" THEN newR2(t) - R2[t] ELSE 0
              /\ Halfway[t] = posted[t] - (IF pc[t] \in {"read2", "write1"} THEN 1 ELSE 0)
<1>1. \A t \in Threads : Pending[t] = IF pc[t] = "write2" THEN newR2(t) - R2[t] ELSE 0
  BY DEF Pending
<1>2. \A t \in Threads : Halfway[t] = posted[t] - (IF pc[t] \in {"read2", "write1"} THEN 1 ELSE 0)
  BY DEF Halfway
<1>3. \A t \in Threads : newR2(t) \in Int /\ R2[t] \in Int
  BY CallResult
<1>4. Values(Pending, Threads)
  BY <1>1, <1>3 DEF Values
<1>5. Values(Halfway, Threads)
  BY <1>2 DEF Values, RatingsType
<1>6. Values(rating, Players)
  BY DEF Values, RatingsType
<1> QED
  BY <1>1, <1>2, <1>4, <1>5, <1>6

(* It holds in the beginning. *)
LEMMA RatingInit ==
  Init => RatingInv
<1> SUFFICES ASSUME Init
             PROVE  RatingInv
  OBVIOUS
<1>1. \A t \in Threads : pc[t] = "idle" /\ posted[t] = 0
  BY DEF Init
<1>2. RatingsType
  <2>1. PICK p : p = CHOOSE x \in Players : TRUE
    OBVIOUS
  <2>2. player1 = [t \in Threads |-> p] /\ player2 = [t \in Threads |-> p]
    BY <2>1 DEF Init
  <2>3. /\ DOMAIN player1 = Threads /\ DOMAIN player2 = Threads
        /\ player1 = [t \in Threads |-> player1[t]] /\ player2 = [t \in Threads |-> player2[t]]
    BY <2>2
  <2>4. R1 = [t \in Threads |-> 0] /\ R2 = [t \in Threads |-> 0]
    BY DEF Init
  <2>5. /\ rating \in [Players -> Int] /\ R1 \in [Threads -> Int] /\ R2 \in [Threads -> Int]
        /\ posted \in [Threads -> Nat]
    BY <2>4 DEF Init, PLAYER_INITIAL_RATING
  <2>6. pc \in [Threads -> {"idle", "read2", "write1", "write2"}] /\ result \in [Threads -> 0..2]
    BY DEF Init
  <2>7. raced \in BOOLEAN /\ sunk \in BOOLEAN
    BY DEF Init
  <2> QED
    BY <2>3, <2>5, <2>6, <2>7 DEF RatingsType
<1>3. CallsHavePlayers /\ CallsApart /\ ReadsHold /\ SumsAfloat
  BY <1>1 DEF CallsHavePlayers, CallsApart, ReadsHold, SumsAfloat
<1>4. SumsBounded
  <2>1. IsFiniteSet(Players) /\ IsFiniteSet(Threads)
    BY RatingsAssumption
  <2>2. \A p \in Players : rating[p] = PLAYER_INITIAL_RATING
    BY DEF Init
  <2>3. SumOf(rating, Players) = PLAYER_INITIAL_RATING * Cardinality(Players)
    BY <2>1, <2>2, SumEqual DEF PLAYER_INITIAL_RATING
  <2>4. \A t \in Threads : Pending[t] = 0 /\ Halfway[t] = 0
    BY <1>1, <1>2, PendingValues
  <2>5. Cardinality(Threads) \in Nat /\ 0 * Cardinality(Threads) = 0
    BY <2>1, FS_CardinalityType
  <2>6. SumOf(Pending, Threads) = 0 /\ SumOf(Halfway, Threads) = 0
    BY <2>1, <2>4, <2>5, SumEqual
  <2>7. InitialTotal \in Int /\ SumOf(rating, Players) = InitialTotal
    BY <2>1, <2>3, FS_CardinalityType DEF InitialTotal, PLAYER_INITIAL_RATING
  <2>8. Bounded(SumOf(rating, Players), SumOf(Pending, Threads), SumOf(Halfway, Threads), sunk)
    BY <2>6, <2>7 DEF Bounded
  <2> QED
    BY <2>8 DEF SumsBounded
<1> QED
  BY <1>2, <1>3, <1>4 DEF RatingInv

-----------------------------------------------------------------------------
(* A call begins. *)
LEMMA Read1Keeps ==
  ASSUME RatingInv, NEW t \in Threads, Read1(t)
  PROVE  RatingInv'
<1>1. RatingsType /\ CallsHavePlayers /\ CallsApart /\ ReadsHold /\ SumsAfloat /\ SumsBounded
  BY DEF RatingInv
<1>2. PICK g \in Games[t], r \in 0..2 :
        /\ player1' = [player1 EXCEPT ![t] = g[1]]
        /\ player2' = [player2 EXCEPT ![t] = g[2]]
        /\ result' = [result EXCEPT ![t] = r]
        /\ R1' = [R1 EXCEPT ![t] = rating[g[1]]]
        /\ raced' = (raced \/ \E u \in Threads \ {t} :
                       pc[u] # "idle" /\ {player1[u], player2[u]} \cap {g[1], g[2]} # {})
  BY DEF Read1
<1>3. /\ pc[t] = "idle" /\ pc' = [pc EXCEPT ![t] = "read2"]
      /\ posted' = [posted EXCEPT ![t] = @ + 1]
      /\ rating' = rating /\ R2' = R2 /\ sunk' = sunk
  BY DEF Read1, Goto
<1>4. PICK p1, p2 : p1 = g[1] /\ p2 = g[2]
  OBVIOUS
<1>5. p1 \in Players /\ p2 \in Players /\ p1 # p2
  <2>1. g \in Players \X Players /\ g[1] # g[2]
    BY RatingsAssumption
  <2> QED
    BY <1>4, <2>1
<1>6. /\ player1'[t] = p1 /\ player2'[t] = p2 /\ R1'[t] = rating[p1]
      /\ pc'[t] = "read2" /\ posted'[t] = posted[t] + 1
      /\ \A u \in Threads : u # t =>
           /\ player1'[u] = player1[u] /\ player2'[u] = player2[u] /\ R1'[u] = R1[u]
           /\ pc'[u] = pc[u] /\ posted'[u] = posted[u] /\ result'[u] = result[u]
  BY <1>1, <1>2, <1>3, <1>4 DEF RatingsType
<1>7. RatingsType'
  <2>1. rating[g[1]] \in Int
    BY <1>1, <1>4, <1>5 DEF RatingsType
  <2>2. R1' \in [Threads -> Int] /\ R2' \in [Threads -> Int] /\ rating' \in [Players -> Int]
    BY <1>1, <1>2, <1>3, <2>1 DEF RatingsType
  <2>3. /\ pc' \in [Threads -> {"idle", "read2", "write1", "write2"}]
        /\ result' \in [Threads -> 0..2] /\ posted' \in [Threads -> Nat]
    BY <1>1, <1>2, <1>3 DEF RatingsType
  <2>4. raced' \in BOOLEAN /\ sunk' \in BOOLEAN
    BY <1>1, <1>2, <1>3 DEF RatingsType
  <2>5. /\ DOMAIN player1' = Threads /\ DOMAIN player2' = Threads
        /\ player1' = [u \in Threads |-> player1'[u]] /\ player2' = [u \in Threads |-> player2'[u]]
    BY <1>1, <1>2 DEF RatingsType
  <2> QED
    BY <2>2, <2>3, <2>4, <2>5 DEF RatingsType
<1>8. CallsHavePlayers'
  <2>1. \A u \in Threads : pc'[u] # "idle" =>
          player1'[u] \in Players /\ player2'[u] \in Players /\ player1'[u] # player2'[u]
    BY <1>1, <1>5, <1>6 DEF CallsHavePlayers
  <2> QED
    BY <2>1 DEF CallsHavePlayers
<1>9. ~raced' => ~raced /\ \A u \in Threads : u # t /\ pc[u] # "idle" =>
        /\ player1[u] # p1 /\ player1[u] # p2
        /\ player2[u] # p1 /\ player2[u] # p2
  BY <1>2, <1>4
<1>10. CallsApart'
  <2>1. ASSUME ~raced', NEW u \in Threads, NEW v \in Threads, u # v, pc'[u] # "idle", pc'[v] # "idle"
        PROVE  /\ player1'[u] # player1'[v] /\ player1'[u] # player2'[v]
               /\ player2'[u] # player1'[v] /\ player2'[u] # player2'[v]
    <3>1. CASE u = t
      BY <1>6, <1>9, <2>1, <3>1
    <3>2. CASE v = t
      BY <1>6, <1>9, <2>1, <3>2
    <3>3. CASE u # t /\ v # t
      BY <1>1, <1>6, <1>9, <2>1, <3>3 DEF CallsApart
    <3> QED
      BY <3>1, <3>2, <3>3
  <2> QED
    BY <2>1 DEF CallsApart
<1>11. ReadsHold'
  <2>1. ASSUME ~raced', NEW u \in Threads
        PROVE  /\ pc'[u] \in {"read2", "write1"} => R1'[u] = rating'[player1'[u]]
               /\ pc'[u] \in {"write1", "write2"} => R2'[u] = rating'[player2'[u]]
               /\ pc'[u] = "write2" => rating'[player1'[u]] = newR1(u)'
    <3>1. CASE u = t
      BY <1>3, <1>6, <3>1
    <3>2. CASE u # t
      <4>1. newR1(u)' = newR1(u)
        BY <1>3, <1>6, <3>2 DEF newR1
      <4> QED
        BY <1>1, <1>3, <1>6, <1>9, <2>1, <3>2, <4>1 DEF ReadsHold
    <3> QED
      BY <3>1, <3>2
  <2> QED
    BY <2>1 DEF ReadsHold
<1>12. SumsAfloat'
  <2>1. ASSUME ~sunk', NEW u \in Threads, pc'[u] \in {"write1", "write2"}
        PROVE  R1'[u] + R2'[u] >= 0
    BY <1>1, <1>3, <1>6, <2>1 DEF SumsAfloat
  <2> QED
    BY <2>1 DEF SumsAfloat
<1>13. SumsBounded'
  <2>1. Pending' = Pending
    <3>1. \A u \in Threads : (IF pc[u] = "write2" THEN newR2(u) - R2[u] ELSE 0)'
                             = IF pc[u] = "write2" THEN newR2(u) - R2[u] ELSE 0
      BY <1>3, <1>6 DEF newR2
    <3> QED
      BY <3>1 DEF Pending
  <2>2. Halfway' = Halfway
    <3>1. \A u \in Threads : posted'[u] - (IF pc'[u] \in {"read2", "write1"} THEN 1 ELSE 0)
                             = posted[u] - (IF pc[u] \in {"read2", "write1"} THEN 1 ELSE 0)
      BY <1>1, <1>3, <1>6 DEF RatingsType
    <3> QED
      BY <3>1 DEF Halfway
  <2>3. SumsBounded' = (~raced' => Bounded(SumOf(rating, Players), SumOf(Pending, Threads),
                                           SumOf(Halfway, Threads), sunk))
    BY <1>3, <2>1, <2>2 DEF SumsBounded
  <2> QED
    BY <1>1, <1>9, <2>3 DEF SumsBounded
<1> QED
  BY <1>7, <1>8, <1>10, <1>11, <1>12, <1>13 DEF RatingInv

(* A call reads the rating of its second player. *)
LEMMA Read2Keeps ==
  ASSUME RatingInv, NEW t \in Threads, Read2(t)
  PROVE  RatingInv'
<1>1. RatingsType /\ CallsHavePlayers /\ CallsApart /\ ReadsHold /\ SumsAfloat /\ SumsBounded
  BY DEF RatingInv
<1>2. PICK v : v = rating[player2[t]]
  OBVIOUS
<1>3. /\ pc[t] = "read2" /\ pc' = [pc EXCEPT ![t] = "write1"]
      /\ R2' = [R2 EXCEPT ![t] = v]
      /\ sunk' = (sunk \/ R1[t] + v < 0)
      /\ rating' = rating /\ player1' = player1 /\ player2' = player2 /\ result' = result
      /\ R1' = R1 /\ posted' = posted /\ raced' = raced
  BY <1>2 DEF Read2, Goto, args
<1>4. v \in Int
  BY <1>1, <1>2, <1>3 DEF CallsHavePlayers, RatingsType
<1>5. /\ pc'[t] = "write1" /\ R2'[t] = v
      /\ \A u \in Threads : u # t => pc'[u] = pc[u] /\ R2'[u] = R2[u]
  BY <1>1, <1>3 DEF RatingsType
<1>6. RatingsType'
  <2>1. /\ R2' \in [Threads -> Int] /\ pc' \in [Threads -> {"idle", "read2", "write1", "write2"}]
        /\ sunk' \in BOOLEAN
    BY <1>1, <1>3, <1>4 DEF RatingsType
  <2> QED
    BY <1>1, <1>3, <2>1 DEF RatingsType
<1>7. CallsHavePlayers'
  BY <1>1, <1>3, <1>5 DEF CallsHavePlayers
<1>8. CallsApart'
  <2>1. \A u \in Threads : pc'[u] # "idle" => pc[u] # "idle"
    BY <1>3, <1>5
  <2> QED
    BY <1>1, <1>3, <2>1 DEF CallsApart
<1>9. ReadsHold'
  <2>1. ASSUME ~raced', NEW u \in Threads
        PROVE  /\ pc'[u] \in {"read2", "write1"} => R1'[u] = rating'[player1'[u]]
               /\ pc'[u] \in {"write1", "write2"} => R2'[u] = rating'[player2'[u]]
               /\ pc'[u] = "write2" => rating'[player1'[u]] = newR1(u)'
    <3>1. CASE u = t
      BY <1>1, <1>2, <1>3, <1>5, <2>1, <3>1 DEF ReadsHold
    <3>2. CASE u # t
      <4>1. newR1(u)' = newR1(u)
        BY <1>3, <1>5, <3>2 DEF newR1
      <4> QED
        BY <1>1, <1>3, <1>5, <2>1, <3>2, <4>1 DEF ReadsHold
    <3> QED
      BY <3>1, <3>2
  <2> QED
    BY <2>1 DEF ReadsHold
<1>10. SumsAfloat'
  <2>1. ASSUME ~sunk', NEW u \in Threads, pc'[u] \in {"write1", "write2"}
        PROVE  R1'[u] + R2'[u] >= 0
    <3>1. CASE u = t
      <4>1. R1[t] \in Int /\ ~(R1[t] + v < 0)
        BY <1>1, <1>3, <2>1 DEF RatingsType
      <4> QED
        BY <1>3, <1>4, <1>5, <3>1, <4>1
    <3>2. CASE u # t
      BY <1>1, <1>3, <1>5, <2>1, <3>2 DEF SumsAfloat
    <3> QED
      BY <3>1, <3>2
  <2> QED
    BY <2>1 DEF SumsAfloat
<1>11. SumsBounded'
  <2>1. Pending' = Pending
    <3>1. \A u \in Threads : (IF pc[u] = "write2" THEN newR2(u) - R2[u] ELSE 0)'
                             = IF pc[u] = "write2" THEN newR2(u) - R2[u] ELSE 0
      BY <1>3, <1>5 DEF newR2
    <3> QED
      BY <3>1 DEF Pending
  <2>2. Halfway' = Halfway
    <3>1. \A u \in Threads : posted'[u] - (IF pc'[u] \in {"read2", "write1"} THEN 1 ELSE 0)
                             = posted[u] - (IF pc[u] \in {"read2", "write1"} THEN 1 ELSE 0)
      BY <1>3, <1>5
    <3> QED
      BY <3>1 DEF Halfway
  <2>3. SumsBounded' = (~raced => Bounded(SumOf(rating, Players), SumOf(Pending, Threads),
                                          SumOf(Halfway, Threads), sunk'))
    BY <1>3, <2>1, <2>2 DEF SumsBounded
  <2>4. ~sunk' => ~sunk
    BY <1>3
  <2> QED
    BY <1>1, <2>3, <2>4 DEF SumsBounded, Bounded
<1> QED
  BY <1>6, <1>7, <1>8, <1>9, <1>10, <1>11 DEF RatingInv

-----------------------------------------------------------------------------
(* A call writes the rating of its first player. *)
LEMMA Write1Keeps ==
  ASSUME RatingInv, NEW t \in Threads, Write1(t)
  PROVE  RatingInv'
<1>1. RatingsType /\ CallsHavePlayers /\ CallsApart /\ ReadsHold /\ SumsAfloat /\ SumsBounded
  BY DEF RatingInv
<1>2. PICK v, w, p : v = newR1(t) /\ w = newR2(t) /\ p = player1[t]
  OBVIOUS
<1>3. /\ pc[t] = "write1" /\ pc' = [pc EXCEPT ![t] = "write2"]
      /\ rating' = [rating EXCEPT ![p] = v]
      /\ player1' = player1 /\ player2' = player2 /\ result' = result
      /\ R1' = R1 /\ R2' = R2 /\ posted' = posted /\ raced' = raced /\ sunk' = sunk
  BY <1>2 DEF Write1, Goto, args
<1>4. /\ v \in Int /\ w \in Int /\ R1[t] \in Int /\ R2[t] \in Int
      /\ v + w >= R1[t] + R2[t] - 1 /\ v + w <= R1[t] + R2[t] + 1
      /\ R1[t] + R2[t] >= 0 => v + w <= R1[t] + R2[t]
  BY <1>1, <1>2, CallResult
<1>5. p \in Players /\ player2[t] \in Players /\ player2[t] # p
  BY <1>1, <1>2, <1>3 DEF CallsHavePlayers
<1>6. /\ pc'[t] = "write2" /\ \A u \in Threads : u # t => pc'[u] = pc[u]
      /\ rating'[p] = v /\ \A q \in Players : q # p => rating'[q] = rating[q]
  BY <1>1, <1>3, <1>5 DEF RatingsType
<1>7. \A u \in Threads : newR1(u)' = newR1(u) /\ newR2(u)' = newR2(u)
  BY <1>3 DEF newR1, newR2
<1>8. RatingsType'
  <2>1. rating' \in [Players -> Int] /\ pc' \in [Threads -> {"idle", "read2", "write1", "write2"}]
    BY <1>1, <1>3, <1>4 DEF RatingsType
  <2> QED
    BY <1>1, <1>3, <2>1 DEF RatingsType
<1>9. CallsHavePlayers'
  BY <1>1, <1>3, <1>6 DEF CallsHavePlayers
<1>10. CallsApart'
  <2>1. \A u \in Threads : pc'[u] # "idle" => pc[u] # "idle"
    BY <1>3, <1>6
  <2> QED
    BY <1>1, <1>3, <2>1 DEF CallsApart
<1>11. ReadsHold'
  <2>1. ASSUME ~raced', NEW u \in Threads
        PROVE  /\ pc'[u] \in {"read2", "write1"} => R1'[u] = rating'[player1'[u]]
               /\ pc'[u] \in {"write1", "write2"} => R2'[u] = rating'[player2'[u]]
               /\ pc'[u] = "write2" => rating'[player1'[u]] = newR1(u)'
    <3>1. CASE u = t
      <4>1. R2[t] = rating[player2[t]]
        BY <1>1, <1>3, <2>1 DEF ReadsHold
      <4>2. rating'[player2[t]] = rating[player2[t]] /\ rating'[player1[t]] = v
        BY <1>2, <1>5, <1>6
      <4> QED
        BY <1>2, <1>3, <1>6, <1>7, <3>1, <4>1, <4>2
    <3>2. CASE u # t
      <4>1. pc[u] # "idle" => player1[u] \in Players /\ player2[u] \in Players
        BY <1>1 DEF CallsHavePlayers
      <4>2. pc[u] # "idle" => player1[u] # p /\ player2[u] # p
        BY <1>1, <1>2, <1>3, <2>1, <3>2 DEF CallsApart
      <4>3. pc[u] # "idle" => /\ rating'[player1[u]] = rating[player1[u]]
                              /\ rating'[player2[u]] = rating[player2[u]]
        BY <1>6, <4>1, <4>2
      <4> QED
        BY <1>1, <1>3, <1>6, <1>7, <2>1, <3>2, <4>3 DEF ReadsHold
    <3> QED
      BY <3>1, <3>2
  <2> QED
    BY <2>1 DEF ReadsHold
<1>12. SumsAfloat'
  <2>1. \A u \in Threads : pc'[u] \in {"write1", "write2"} => pc[u] \in {"write1", "write2"}
    BY <1>3, <1>6
  <2> QED
    BY <1>1, <1>3, <2>1 DEF SumsAfloat
<1>13. SumsBounded'
  <2> SUFFICES ASSUME ~raced'
               PROVE  Bounded(SumOf(rating, Players)', SumOf(Pending, Threads)',
                              SumOf(Halfway, Threads)', sunk')
    BY DEF SumsBounded
  <2>1. PICK r, q, h, r2, q2, h2 : /\ r = rating /\ q = Pending /\ h = Halfway
                                   /\ r2 = rating' /\ q2 = Pending' /\ h2 = Halfway'
    OBVIOUS
  <2>2. Values(r, Players) /\ Values(q, Threads) /\ Values(h, Threads)
    BY <1>1, <2>1, PendingValues
  <2>3. \A u \in Threads :
          /\ q[u] = IF pc[u] = "write2" THEN newR2(u) - R2[u] ELSE 0
          /\ h[u] = posted[u] - (IF pc[u] \in {"read2", "write1"} THEN 1 ELSE 0)
    BY <1>1, <2>1, PendingValues
  <2>4. \A u \in Threads :
          /\ q2[u] = IF pc'[u] = "write2" THEN newR2(u) - R2[u] ELSE 0
          /\ h2[u] = posted[u] - (IF pc'[u] \in {"read2", "write1"} THEN 1 ELSE 0)
    BY <1>3, <1>7, <2>1 DEF Pending, Halfway
  <2>5. q[t] = 0 /\ q2[t] = w - R2[t] /\ posted[t] \in Nat /\ h[t] = posted[t] - 1 /\ h2[t] = posted[t]
    BY <1>1, <1>2, <1>3, <1>6, <2>3, <2>4 DEF RatingsType
  <2>6. \A u \in Threads : u # t => q2[u] = q[u] /\ h2[u] = h[u]
    BY <1>6, <2>3, <2>4
  <2>7. r[p] = R1[t] /\ r2[p] = v /\ \A x \in Players : x # p => r2[x] = r[x]
    BY <1>1, <1>2, <1>3, <1>6, <2>1 DEF ReadsHold
  <2>8. Values(r2, Players) /\ Values(q2, Threads) /\ Values(h2, Threads)
    BY <1>4, <2>2, <2>5, <2>6, <2>7 DEF Values
  <2>9. IsFiniteSet(Players) /\ IsFiniteSet(Threads)
    BY RatingsAssumption
  <2>10. SumOf(r2, Players) = SumOf(r, Players) + (r2[p] - r[p])
    BY <1>5, <2>2, <2>7, <2>8, <2>9, SumChanged
  <2>11. SumOf(q2, Threads) = SumOf(q, Threads) + (q2[t] - q[t])
    BY <2>2, <2>6, <2>8, <2>9, SumChanged
  <2>12. SumOf(h2, Threads) = SumOf(h, Threads) + (h2[t] - h[t])
    BY <2>2, <2>6, <2>8, <2>9, SumChanged
  <2>13. Bounded(SumOf(r, Players), SumOf(q, Threads), SumOf(h, Threads), sunk)
    BY <1>1, <1>3, <2>1 DEF SumsBounded
  <2>14. ~sunk => R1[t] + R2[t] >= 0
    BY <1>1, <1>3 DEF SumsAfloat
  <2>15. PICK a, b, c, a2, b2, c2 :
           /\ a = SumOf(r, Players) /\ b = SumOf(q, Threads) /\ c = SumOf(h, Threads)
           /\ a2 = SumOf(r2, Players) /\ b2 = SumOf(q2, Threads) /\ c2 = SumOf(h2, Threads)
    OBVIOUS
  <2>16. /\ a \in Int /\ b \in Int /\ c \in Int
         /\ a + b + c >= InitialTotal /\ a + b - c <= InitialTotal
         /\ ~sunk => a + b <= InitialTotal
    BY <2>13, <2>15 DEF Bounded
  <2>17. a2 = a + (v - R1[t]) /\ b2 = b + (w - R2[t]) /\ c2 = c + 1
    BY <1>4, <2>5, <2>7, <2>10, <2>11, <2>12, <2>15, <2>16
  <2>18. InitialTotal \in Int
    BY <2>9, FS_CardinalityType DEF InitialTotal, PLAYER_INITIAL_RATING
  <2>19. /\ a2 \in Int /\ b2 \in Int /\ c2 \in Int
         /\ a2 + b2 + c2 >= InitialTotal /\ a2 + b2 - c2 <= InitialTotal
         /\ ~sunk => a2 + b2 <= InitialTotal
    BY <1>4, <2>14, <2>16, <2>17, <2>18
  <2>20. Bounded(a2, b2, c2, sunk)
    BY <2>19 DEF Bounded
  <2> QED
    BY <1>3, <2>1, <2>15, <2>20
<1> QED
  BY <1>8, <1>9, <1>10, <1>11, <1>12, <1>13 DEF RatingInv

(* A call writes the rating of its second player. *)
LEMMA Write2Keeps ==
  ASSUME RatingInv, NEW t \in Threads, Write2(t)
  PROVE  RatingInv'
<1>1. RatingsType /\ CallsHavePlayers /\ CallsApart /\ ReadsHold /\ SumsAfloat /\ SumsBounded
  BY DEF RatingInv
<1>2. PICK w, p : w = newR2(t) /\ p = player2[t]
  OBVIOUS
<1>3. /\ pc[t] = "write2" /\ pc' = [pc EXCEPT ![t] = "idle"]
      /\ rating' = [rating EXCEPT ![p] = w]
      /\ player1' = player1 /\ player2' = player2 /\ result' = result
      /\ R1' = R1 /\ R2' = R2 /\ posted' = posted /\ raced' = raced /\ sunk' = sunk
  BY <1>2 DEF Write2, Goto, args
<1>4. w \in Int /\ R2[t] \in Int
  BY <1>1, <1>2, CallResult
<1>5. p \in Players
  BY <1>1, <1>2, <1>3 DEF CallsHavePlayers
<1>6. /\ pc'[t] = "idle" /\ \A u \in Threads : u # t => pc'[u] = pc[u]
      /\ rating'[p] = w /\ \A q \in Players : q # p => rating'[q] = rating[q]
  BY <1>1, <1>3, <1>5 DEF RatingsType
<1>7. \A u \in Threads : newR1(u)' = newR1(u) /\ newR2(u)' = newR2(u)
  BY <1>3 DEF newR1, newR2
<1>8. RatingsType'
  <2>1. rating' \in [Players -> Int] /\ pc' \in [Threads -> {"idle", "read2", "write1", "write2"}]
    BY <1>1, <1>3, <1>4 DEF RatingsType
  <2> QED
    BY <1>1, <1>3, <2>1 DEF RatingsType
<1>9. CallsHavePlayers'
  BY <1>1, <1>3, <1>6 DEF CallsHavePlayers
<1>10. CallsApart'
  <2>1. \A u \in Threads : pc'[u] # "idle" => pc[u] # "idle"
    BY <1>3, <1>6
  <2> QED
    BY <1>1, <1>3, <2>1 DEF CallsApart
<1>11. ReadsHold'
  <2>1. ASSUME ~raced', NEW u \in Threads
        PROVE  /\ pc'[u] \in {"read2", "write1"} => R1'[u] = rating'[player1'[u]]
               /\ pc'[u] \in {"write1", "write2"} => R2'[u] = rating'[player2'[u]]
               /\ pc'[u] = "write2" => rating'[player1'[u]] = newR1(u)'
    <3>1. CASE u = t
      BY <1>6, <3>1
    <3>2. CASE u # t
      <4>1. pc[u] # "idle" => player1[u] \in Players /\ player2[u] \in Players
        BY <1>1 DEF CallsHavePlayers
      <4>2. pc[u] # "idle" => player1[u] # p /\ player2[u] # p
        BY <1>1, <1>2, <1>3, <2>1, <3>2 DEF CallsApart
      <4>3. pc[u] # "idle" => /\ rating'[player1[u]] = rating[player1[u]]
                              /\ rating'[player2[u]] = rating[player2[u]]
        BY <1>6, <4>1, <4>2
      <4> QED
        BY <1>1, <1>3, <1>6, <1>7, <2>1, <3>2, <4>3 DEF ReadsHold
    <3> QED
      BY <3>1, <3>2
  <2> QED
    BY <2>1 DEF ReadsHold
<1>12. SumsAfloat'
  <2>1. \A u \in Threads : pc'[u] \in {"write1", "write2"} => pc[u] \in {"write1", "write2"}
    BY <1>3, <1>6
  <2> QED
    BY <1>1, <1>3, <2>1 DEF SumsAfloat
<1>13. SumsBounded'
  <2> SUFFICES ASSUME ~raced'
               PROVE  Bounded(SumOf(rating, Players)', SumOf(Pending, Threads)',
                              SumOf(Halfway, Threads)', sunk')
    BY DEF SumsBounded
  <2>1. PICK r, q, h, r2, q2, h2 : /\ r = rating /\ q = Pending /\ h = Halfway
                                   /\ r2 = rating' /\ q2 = Pending' /\ h2 = Halfway'
    OBVIOUS
  <2>2. Values(r, Players) /\ Values(q, Threads) /\ Values(h, Threads)
    BY <1>1, <2>1, PendingValues
  <2>3. \A u \in Threads :
          /\ q[u] = IF pc[u] = "write2" THEN newR2(u) - R2[u] ELSE 0
          /\ h[u] = posted[u] - (IF pc[u] \in {"read2", "write1"} THEN 1 ELSE 0)
    BY <1>1, <2>1, PendingValues
  <2>4. \A u \in Threads : q2[u] = IF pc'[u] = "write2" THEN newR2(u) - R2[u] ELSE 0
    BY <1>3, <1>7, <2>1 DEF Pending
  <2>5. q[t] = w - R2[t] /\ q2[t] = 0
    BY <1>2, <1>3, <1>6, <2>3, <2>4
  <2>6. \A u \in Threads : u # t => q2[u] = q[u]
    BY <1>6, <2>3, <2>4
  <2>7. r[p] = R2[t] /\ r2[p] = w /\ \A x \in Players : x # p => r2[x] = r[x]
    BY <1>1, <1>2, <1>3, <1>6, <2>1 DEF ReadsHold
  <2>8. Values(r2, Players) /\ Values(q2, Threads)
    BY <1>4, <2>2, <2>5, <2>6, <2>7 DEF Values
  <2>9. IsFiniteSet(Players) /\ IsFiniteSet(Threads)
    BY RatingsAssumption
  <2>10. SumOf(r2, Players) = SumOf(r, Players) + (r2[p] - r[p])
    BY <1>5, <2>2, <2>7, <2>8, <2>9, SumChanged
  <2>11. SumOf(q2, Threads) = SumOf(q, Threads) + (q2[t] - q[t])
    BY <2>2, <2>6, <2>8, <2>9, SumChanged
  <2>12. h2 = h
    <3>1. \A u \in Threads : posted'[u] - (IF pc'[u] \in {"read2", "write1"} THEN 1 ELSE 0)
                             = posted[u] - (IF pc[u] \in {"read2", "write1"} THEN 1 ELSE 0)
      BY <1>3, <1>6
    <3> QED
      BY <2>1, <3>1 DEF Halfway
  <2>13. Bounded(SumOf(r, Players), SumOf(q, Threads), SumOf(h, Threads), sunk)
    BY <1>1, <1>3, <2>1 DEF SumsBounded
  <2>14. PICK a, b, a2, b2 :
           /\ a = SumOf(r, Players) /\ b = SumOf(q, Threads)
           /\ a2 = SumOf(r2, Players) /\ b2 = SumOf(q2, Threads)
    OBVIOUS
  <2>15. PICK c : c = SumOf(h, Threads)
    OBVIOUS
  <2>16. /\ a \in Int /\ b \in Int /\ c \in Int
         /\ a + b + c >= InitialTotal /\ a + b - c <= InitialTotal
         /\ ~sunk => a + b <= InitialTotal
    BY <2>13, <2>14, <2>15 DEF Bounded
  <2>17. a2 = a + (w - R2[t]) /\ b2 = b - (w - R2[t])
    BY <1>4, <2>5, <2>7, <2>10, <2>11, <2>14, <2>16
  <2>18. a2 \in Int /\ b2 \in Int /\ a2 + b2 = a + b
    BY <1>4, <2>16, <2>17
  <2>19. Bounded(a2, b2, c, sunk)
    BY <2>16, <2>18 DEF Bounded
  <2> QED
    BY <1>3, <2>1, <2>12, <2>14, <2>15, <2>19
<1> QED
  BY <1>8, <1>9, <1>10, <1>11, <1>12, <1>13 DEF RatingInv

(* The invariant is inductive. *)
LEMMA RatingNext ==
  RatingInv /\ [Next]_vars => RatingInv'
<1> SUFFICES ASSUME RatingInv, [Next]_vars
             PROVE  RatingInv'
  OBVIOUS
<1>1. ASSUME NEW t \in Threads, Read1(t)
      PROVE  RatingInv'
  BY <1>1, Read1Keeps
<1>2. ASSUME NEW t \in Threads, Read2(t)
      PROVE  RatingInv'
  BY <1>2, Read2Keeps
<1>3. ASSUME NEW t \in Threads, Write1(t)
      PROVE  RatingInv'
  BY <1>3, Write1Keeps
<1>4. ASSUME NEW t \in Threads, Write2(t)
      PROVE  RatingInv'
  BY <1>4, Write2Keeps
<1>5. CASE UNCHANGED vars
  <2>1. /\ rating' = rating /\ pc' = pc /\ player1' = player1 /\ player2' = player2
        /\ result' = result /\ R1' = R1 /\ R2' = R2 /\ posted' = posted
        /\ raced' = raced /\ sunk' = sunk
    BY <1>5 DEF vars
  <2>2. \A u \in Threads : newR1(u)' = newR1(u) /\ newR2(u)' = newR2(u)
    BY <2>1 DEF newR1, newR2
  <2>3. RatingsType' /\ CallsHavePlayers' /\ CallsApart' /\ SumsAfloat'
    BY <2>1 DEF RatingInv, RatingsType, CallsHavePlayers, CallsApart, SumsAfloat
  <2>4. ReadsHold'
    BY <2>1, <2>2 DEF RatingInv, ReadsHold
  <2>5. Pending' = Pending /\ Halfway' = Halfway
    BY <2>1, <2>2 DEF Pending, Halfway
  <2>6. SumsBounded'
    BY <2>1, <2>5 DEF RatingInv, SumsBounded
  <2> QED
    BY <2>3, <2>4, <2>6 DEF RatingInv
<1> QED
  BY <1>1, <1>2, <1>3, <1>4, <1>5 DEF Next

-----------------------------------------------------------------------------
(* Whatever games are played, by however many threads: the player whose     *)
(* victory player_post_result is about to write does not lose points, and  *)
(* the loser does not gain any.                                            *)
THEOREM WinnerNeverLosesAlways ==
  Spec => []WinnerNeverLoses
<1>1. RatingInv => WinnerNeverLoses
  <2> SUFFICES ASSUME RatingInv
               PROVE  WinnerNeverLoses
    OBVIOUS
  <2>1. RatingsType
    BY DEF RatingInv
  <2> QED
    BY <2>1, CallResult DEF WinnerNeverLoses
<1> QED
  BY <1>1, RatingInit, RatingNext, PTL DEF Spec

(* Between posts that did not overlap, the sum of all ratings is the initial *)
(* one less at most one point for every result; it is greater only if two   *)
(* ratings of negative sum have met, and then by one point a result at most. *)
THEOREM TotalAlwaysPreserved ==
  Spec => []TotalPreserved
<1>1. RatingInv => TotalPreserved
  <2> SUFFICES ASSUME RatingInv, ~raced, \A t \in Threads : pc[t] = "idle"
               PROVE  /\ Total >= InitialTotal - Results
                      /\ Total <= IF sunk THEN InitialTotal + Results ELSE InitialTotal
    BY DEF TotalPreserved
  <2>1. RatingsType /\ SumsBounded
    BY DEF RatingInv
  <2>2. IsFiniteSet(Players) /\ IsFiniteSet(Threads)
    BY RatingsAssumption
  <2>3. \A t \in Threads : Pending[t] = 0 /\ Halfway[t] = posted[t]
    BY <2>1, PendingValues DEF RatingsType
  <2>4. SumOf(Pending, Threads) = 0
    <3>1. Cardinality(Threads) \in Nat /\ 0 * Cardinality(Threads) = 0
      BY <2>2, FS_CardinalityType
    <3> QED
      BY <2>2, <2>3, <3>1, SumEqual
  <2>5. Halfway = posted
    <3>1. Halfway = [t \in Threads |-> Halfway[t]] /\ posted = [t \in Threads |-> posted[t]]
      BY <2>1 DEF Halfway, RatingsType
    <3> QED
      BY <2>3, <3>1
  <2>6. Total = SumOf(rating, Players)
    BY DEF Total, SumOf
  <2>7. Results = SumOf(Halfway, Threads)
    BY <2>5 DEF Results, SumOf
  <2>8. Bounded(Total, 0, Results, sunk)
    BY <2>1, <2>4, <2>6, <2>7 DEF SumsBounded
  <2>9. InitialTotal \in Int
    BY <2>2, FS_CardinalityType DEF InitialTotal, PLAYER_INITIAL_RATING
  <2> QED
    BY <2>8, <2>9 DEF Bounded
<1> QED
  BY <1>1, RatingInit, RatingNext, PTL DEF Spec

=============================================================================
