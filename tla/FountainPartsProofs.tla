------------------------ MODULE FountainPartsProofs ------------------------
(***************************************************************************)
(* How a message is cut, for all lengths: facts about the arithmetic of     *)
(* FountainParts; what is left of a sequence when an item is removed; and   *)
(* induction, and what it tells of sums and of folds of sequences.          *)
(***************************************************************************)
EXTENDS FountainParts, SequenceTheorems, FiniteSetTheorems, TLAPS

LEMMA DivMod ==
  ASSUME NEW a \in Nat, NEW b \in Nat \ {0}
  PROVE  /\ a \div b \in Nat /\ a % b \in 0 .. b - 1
         /\ a = b * (a \div b) + (a % b)
OBVIOUS

LEMMA DivExact ==
  ASSUME NEW a \in Nat, NEW b \in Nat \ {0}
  PROVE  (b * a) \div b = a
<1> DEFINE q == (b * a) \div b
           r == (b * a) % b
<1>1. b * a \in Nat
  OBVIOUS
<1>2. q \in Nat /\ r \in 0 .. b - 1 /\ b * a = b * q + r
  BY <1>1, DivMod
<1> HIDE DEF q, r
<1>3. b * (a - q) = r
  BY <1>2
<1>4. a - q = 0
  <2>1. CASE a - q >= 1
    <3>1. b * (a - q) >= b
      BY <1>2, <2>1
    <3> QED BY <1>2, <1>3, <3>1
  <2>2. CASE a - q <= -1
    <3>1. b * (a - q) <= -b
      BY <1>2, <2>2
    <3> QED BY <1>2, <1>3, <3>1
  <2> QED BY <1>2, <2>1, <2>2
<1> QED BY <1>2, <1>4 DEF q

(* Multiplication by a positive number reflects the order.                 *)
LEMMA TimesReflects ==
  ASSUME NEW a \in Int, NEW b \in Int, NEW c \in Nat \ {0}, c * a < c * b
  PROVE  a < b
OBVIOUS

LEMMA DivCeilProperties ==
  ASSUME NEW a \in Nat \ {0}, NEW b \in Nat \ {0}
  PROVE  /\ DivCeil(a, b) \in Nat \ {0}
         /\ b * DivCeil(a, b) >= a
         /\ b * DivCeil(a, b) < a + b
<1> DEFINE q == a \div b
           r == a % b
<1>1. /\ q \in Nat /\ r \in 0 .. b - 1 /\ a = b * q + r
  BY DivMod
<1>2. DivCeil(a, b) = IF r > 0 THEN q + 1 ELSE q
  BY DEF DivCeil
<1> HIDE DEF q, r
<1>3. b * (q + 1) = b * q + b
  BY <1>1
<1>4. r = 0 => q # 0
  BY <1>1
<1> QED BY <1>1, <1>2, <1>3, <1>4

(* The fragments of an encoder are not longer than the caller allowed.     *)
LEMMA FragmentLengthProperties ==
  ASSUME NEW n \in Nat \ {0}, NEW max \in Nat \ {0}
  PROVE  FragmentLength(n, max) \in 1 .. max
<1> DEFINE c == DivCeil(n, max)
           f == DivCeil(n, c)
<1>1. c \in Nat \ {0} /\ max * c >= n
  BY DivCeilProperties
<1> HIDE DEF c
<1>2. f \in Nat \ {0} /\ c * f < n + c
  BY <1>1, DivCeilProperties
<1> HIDE DEF f
<1>3. c * (f - 1) < c * max
  <2>1. c * (f - 1) = c * f - c /\ c * max = max * c
    BY <1>1, <1>2
  <2>2. c * f \in Int /\ max * c \in Int
    BY <1>1, <1>2
  <2> QED BY <1>1, <1>2, <2>1, <2>2
<1>4. f - 1 < max
  BY <1>1, <1>2, <1>3, TimesReflects
<1> QED BY <1>2, <1>4 DEF FragmentLength, f, c

LEMMA FragmentLengthBound ==
  ASSUME NEW n \in Nat \ {0}, NEW max \in Nat \ {0}
  PROVE  FragmentLength(n, max) <= n
<1> DEFINE c == DivCeil(n, max)
           f == DivCeil(n, c)
<1>1. c \in Nat \ {0}
  BY DivCeilProperties
<1> HIDE DEF c
<1>2. f \in Nat \ {0} /\ c * f < n + c
  BY <1>1, DivCeilProperties
<1> HIDE DEF f
<1>3. f - 1 < n
  <2>1. c * (f - 1) = c * f - c /\ c * f \in Int
    BY <1>1, <1>2
  <2>2. f - 1 <= c * (f - 1)
    BY <1>1, <1>2
  <2> QED BY <1>1, <1>2, <2>1, <2>2
<1>4. f <= n
  BY <1>2, <1>3
<1> QED BY <1>4 DEF FragmentLength, f, c

(* The padded message is cut without a remainder, and padded with less     *)
(* than a fragment.                                                        *)
LEMMA FragmentCountProperties ==
  ASSUME NEW n \in Nat \ {0}, NEW f \in Nat \ {0}
  PROVE  /\ FragmentCount(n, f) \in 1 .. n
         /\ f * FragmentCount(n, f) >= n
         /\ f * FragmentCount(n, f) - n < f
<1> DEFINE q == n \div f
           r == n % f
           pad == (f - r) % f
<1>1. /\ q \in Nat /\ r \in 0 .. f - 1 /\ n = f * q + r
  BY DivMod
<1> DEFINE k == IF r = 0 THEN q ELSE q + 1
<1>2. pad = IF r = 0 THEN 0 ELSE f - r
  <2>1. CASE r = 0
    BY <2>1
  <2>2. CASE r # 0
    BY <1>1, <2>2
  <2> QED BY <2>1, <2>2
<1>3. f * (q + 1) = f * q + f
  BY <1>1
<1>4. n + pad = f * k /\ k \in Nat
  <2> HIDE DEF q, r, pad
  <2> QED BY <1>1, <1>2, <1>3
<1>5. FragmentCount(n, f) = k
  <2>1. FragmentCount(n, f) = (n + pad) \div f
    BY DEF FragmentCount
  <2> HIDE DEF k, pad
  <2> QED BY <1>4, <2>1, DivExact
<1>6. f * k >= n /\ f * k - n < f
  <2> HIDE DEF q, r, pad, k
  <2>1. pad \in 0 .. f - 1
    BY <1>1, <1>2
  <2> QED BY <1>4, <2>1
<1>7. k \in 1 .. n
  <2> HIDE DEF q, r, pad, k
  <2>1. k # 0
    BY <1>4, <1>6
  <2>2. f * (k - 1) < n
    BY <1>4, <1>6
  <2>3. k - 1 <= f * (k - 1)
    BY <1>4, <2>1
  <2> QED BY <1>4, <2>1, <2>2, <2>3
<1> QED BY <1>5, <1>6, <1>7
-----------------------------------------------------------------------------
(* Removing a position closes the gap and keeps the order.                 *)
LEMMA RemoveAtProperties ==
  ASSUME NEW S, NEW v \in Seq(S), NEW n \in 1 .. Len(v)
  PROVE  /\ RemoveAt(v, n) \in Seq(S)
         /\ Len(RemoveAt(v, n)) = Len(v) - 1
         /\ \A k \in 1 .. Len(v) - 1 :
              RemoveAt(v, n)[k] = IF k < n THEN v[k] ELSE v[k + 1]
<1> DEFINE a == SubSeq(v, 1, n - 1)
           b == SubSeq(v, n + 1, Len(v))
<1>1. Len(v) \in Nat /\ n \in Int /\ 1 <= n /\ n <= Len(v)
  OBVIOUS
<1>2. \A k \in 1 .. Len(v) : v[k] \in S
  OBVIOUS
<1>3. a \in Seq(S) /\ Len(a) = n - 1 /\ \A k \in 1 .. n - 1 : a[k] = v[k]
  <2>1. n - 1 \in Int /\ \A k \in 1 .. n - 1 : v[k] \in S
    BY <1>1, <1>2
  <2>2. /\ a \in Seq(S)
        /\ Len(a) = IF 1 <= n - 1 THEN n - 1 - 1 + 1 ELSE 0
        /\ \A k \in 1 .. n - 1 - 1 + 1 : a[k] = v[1 + k - 1]
    BY <2>1, SubSeqProperties
  <2> HIDE DEF a
  <2> QED BY <2>2, <1>1
<1>4. b \in Seq(S) /\ Len(b) = Len(v) - n /\ \A k \in 1 .. Len(v) - n : b[k] = v[n + k]
  <2>1. n + 1 \in Int /\ Len(v) \in Int /\ \A k \in n + 1 .. Len(v) : v[k] \in S
    BY <1>1, <1>2
  <2>2. /\ b \in Seq(S)
        /\ Len(b) = IF n + 1 <= Len(v) THEN Len(v) - (n + 1) + 1 ELSE 0
        /\ \A k \in 1 .. Len(v) - (n + 1) + 1 : b[k] = v[n + 1 + k - 1]
    BY <2>1, SubSeqProperties
  <2> HIDE DEF b
  <2> QED BY <2>2, <1>1
<1> HIDE DEF a, b
<1>5. RemoveAt(v, n) = a \o b
  BY DEF RemoveAt, a, b
<1>6. /\ a \o b \in Seq(S)
      /\ Len(a \o b) = Len(a) + Len(b)
      /\ \A k \in 1 .. Len(a) + Len(b) :
           (a \o b)[k] = IF k <= Len(a) THEN a[k] ELSE b[k - Len(a)]
  BY <1>3, <1>4, ConcatProperties
<1>7. ASSUME NEW k \in 1 .. Len(v) - 1
      PROVE  (a \o b)[k] = IF k < n THEN v[k] ELSE v[k + 1]
  <2>1. CASE k < n
    BY <2>1, <1>1, <1>3, <1>4, <1>6
  <2>2. CASE ~(k < n)
    <3>1. k - (n - 1) \in 1 .. Len(v) - n /\ n + (k - (n - 1)) = k + 1
      BY <2>2, <1>1
    <3>2. (a \o b)[k] = b[k - (n - 1)]
      BY <2>2, <1>1, <1>3, <1>4, <1>6
    <3> QED BY <3>1, <3>2, <1>4, <2>2
  <2> QED BY <2>1, <2>2
<1> QED BY <1>1, <1>3, <1>4, <1>5, <1>6, <1>7
-----------------------------------------------------------------------------
(***************************************************************************)
(* Induction, and the sums it gives.                                       *)
(***************************************************************************)
(* Induction without an operator parameter: a set of numbers has a least    *)
(* one, the first counterexample.                                          *)
LEMMA LeastNumber ==
  ASSUME NEW T, T \subseteq Nat, T # {}
  PROVE  \E n \in T : \A m \in T : n <= m
<1>1. IsWellFoundedOn(OpToRel(<, Nat), Nat)
  BY NatLessThanWellFounded
<1>2. PICK n \in T : \A m \in T : ~ (<<m, n>> \in OpToRel(<, Nat))
  BY <1>1, WFMin
<1>3. \A m \in T : ~ (m < n)
  BY <1>2 DEF OpToRel
<1> QED BY <1>3

(* What holds of a number when it holds of all that are less.               *)
LEMMA StrongInduction ==
  ASSUME NEW H, H \subseteq Nat, \A n \in Nat : (\A m \in Nat : m < n => m \in H) => n \in H
  PROVE  H = Nat
<1> DEFINE T == Nat \ H
<1>1. ASSUME T # {} PROVE FALSE
  <2>1. PICK n \in T : \A m \in T : n <= m
    BY <1>1, LeastNumber
  <2>2. \A m \in Nat : m < n => m \in H
    BY <2>1
  <2> QED BY <2>1, <2>2
<1> QED BY <1>1

(* What holds of a finite set when it holds of every smaller set of its     *)
(* elements.                                                               *)
LEMMA SetInduction ==
  ASSUME NEW S, IsFiniteSet(S), NEW H,
         \A s \in SUBSET S :
           (\A r \in SUBSET S : Cardinality(r) < Cardinality(s) => r \in H) => s \in H
  PROVE  SUBSET S \subseteq H
<1> DEFINE N == {n \in Nat : \A s \in SUBSET S : Cardinality(s) = n => s \in H}
<1>1. \A s \in SUBSET S : IsFiniteSet(s) /\ Cardinality(s) \in Nat
  BY FS_Subset, FS_CardinalityType
<1>2. ASSUME NEW n \in Nat, \A m \in Nat : m < n => m \in N PROVE n \in N
  <2>1. ASSUME NEW s \in SUBSET S, Cardinality(s) = n PROVE s \in H
    <3>1. \A r \in SUBSET S : Cardinality(r) < Cardinality(s) => r \in H
      BY <1>1, <1>2, <2>1
    <3> QED BY <2>1, <3>1
  <2> QED BY <2>1
<1> HIDE DEF N
<1>3. N \subseteq Nat
  BY DEF N
<1>4. N = Nat
  BY <1>2, <1>3, StrongInduction
<1> QED BY <1>1, <1>4 DEF N

(* A fold over the subsets of S that takes the elements as pick chooses.    *)
IsFold(it, S, pick, base, step) ==
  it = [s \in SUBSET S |-> IF s = {} THEN base ELSE step[<<pick[s], it[s \ {pick[s]}]>>]]

LEMMA FoldExists ==
  ASSUME NEW S, IsFiniteSet(S), NEW V, NEW base \in V, NEW step \in [S \X V -> V],
         NEW pick, \A s \in SUBSET S : s # {} => pick[s] \in s
  PROVE  \E it \in [SUBSET S -> V] : IsFold(it, S, pick, base, step)
<1> DEFINE D(n) == {s \in SUBSET S : Cardinality(s) <= n}
           Good(it, n) ==
             it = [s \in D(n) |-> IF s = {} THEN base ELSE step[<<pick[s], it[s \ {pick[s]}]>>]]
           N == {n \in Nat : \E it \in [D(n) -> V] : Good(it, n)}
<1>1. \A s \in SUBSET S : IsFiniteSet(s) /\ Cardinality(s) \in Nat
  BY FS_Subset, FS_CardinalityType
<1>2. \A s \in SUBSET S : s # {} =>
        s \ {pick[s]} \in SUBSET S /\ Cardinality(s \ {pick[s]}) = Cardinality(s) - 1
  BY <1>1, FS_RemoveElement
<1>3. {} \in SUBSET S /\ Cardinality({}) = 0
  BY FS_EmptySet
<1>4. \A s \in SUBSET S : s # {} => Cardinality(s) >= 1
  <2>1. ASSUME NEW s \in SUBSET S, s # {} PROVE Cardinality(s) >= 1
    <3>1. /\ Cardinality(s) \in Nat /\ Cardinality(s \ {pick[s]}) \in Nat
          /\ Cardinality(s \ {pick[s]}) = Cardinality(s) - 1
      BY <1>1, <1>2, <2>1
    <3> QED BY <3>1
  <2> QED BY <2>1
<1>5. ASSUME NEW n \in Nat, \A m \in Nat : m < n => m \in N PROVE n \in N
  <2>1. CASE n = 0
    <3> DEFINE it == [s \in D(0) |-> base]
    <3>1. \A s \in D(0) : s = {}
      BY <1>1, <1>4
    <3>2. it \in [D(0) -> V] /\ Good(it, 0)
      BY <3>1
    <3> HIDE DEF it
    <3> QED BY <2>1, <3>2
  <2>2. CASE n # 0
    <3>1. n - 1 \in N
      <4> HIDE DEF N
      <4>1. n - 1 \in Nat /\ n - 1 < n
        BY <2>2
      <4> QED BY <1>5, <4>1
    <3>2. PICK old \in [D(n - 1) -> V] : Good(old, n - 1)
      BY <3>1
    <3> DEFINE it == [s \in D(n) |-> IF s = {} THEN base ELSE step[<<pick[s], old[s \ {pick[s]}]>>]]
    <3>3. \A s \in D(n) : s # {} => pick[s] \in S /\ s \ {pick[s]} \in D(n - 1)
      BY <1>1, <1>2
    <3>4. it \in [D(n) -> V]
      BY <3>3
    <3>5. D(n - 1) \subseteq D(n)
      BY <1>1
    <3>6. \A s \in D(n - 1) : it[s] = old[s]
      BY <3>2, <3>5
    <3>7. Good(it, n)
      BY <3>3, <3>6
    <3> HIDE DEF it
    <3> QED BY <3>4, <3>7
  <2> QED BY <2>1, <2>2
<1>6. N = Nat
  <2> HIDE DEF N
  <2>1. N \subseteq Nat
    BY DEF N
  <2> QED BY <1>5, <2>1, StrongInduction
<1>7. Cardinality(S) \in Nat /\ D(Cardinality(S)) = SUBSET S
  <2>1. \A s \in SUBSET S : Cardinality(s) <= Cardinality(S)
    BY FS_Subset
  <2> QED BY <1>1, <2>1
<1>8. PICK it \in [D(Cardinality(S)) -> V] : Good(it, Cardinality(S))
  <2>1. Cardinality(S) \in N
    BY <1>6, <1>7
  <2> HIDE DEF D, Good
  <2> QED BY <2>1
<1>9. it \in [SUBSET S -> V] /\ it = [s \in SUBSET S |-> IF s = {} THEN base ELSE step[<<pick[s], it[s \ {pick[s]}]>>]]
  BY <1>7, <1>8
<1> QED BY <1>9 DEF IsFold

IsSum(it, f, S) ==
  it = [s \in SUBSET S |->
         IF s = {} THEN 0 ELSE f[CHOOSE x \in s : TRUE] + it[s \ {CHOOSE x \in s : TRUE}]]

LEMMA SumExists ==
  ASSUME NEW S, IsFiniteSet(S), NEW f, \A x \in S : f[x] \in Int
  PROVE  \E it : IsSum(it, f, S)
<1> DEFINE pick == [s \in SUBSET S |-> CHOOSE x \in s : TRUE]
           step == [p \in S \X Int |-> f[p[1]] + p[2]]
<1>1. \A s \in SUBSET S : s # {} => pick[s] \in s
  OBVIOUS
<1>2. step \in [S \X Int -> Int]
  OBVIOUS
<1>3. PICK it \in [SUBSET S -> Int] : IsFold(it, S, pick, 0, step)
  <2> HIDE DEF pick, step
  <2>1. 0 \in Int /\ IsFiniteSet(S)
    OBVIOUS
  <2> QED BY ONLY <1>1, <1>2, <2>1, FoldExists
<1>4. \A s \in SUBSET S : s # {} =>
        step[<<pick[s], it[s \ {pick[s]}]>>]
          = f[CHOOSE x \in s : TRUE] + it[s \ {CHOOSE x \in s : TRUE}]
  <2>1. ASSUME NEW s \in SUBSET S, s # {}
        PROVE  step[<<pick[s], it[s \ {pick[s]}]>>] = f[pick[s]] + it[s \ {pick[s]}]
    <3>1. pick[s] \in S /\ it[s \ {pick[s]}] \in Int
      BY <1>1, <2>1
    <3> HIDE DEF pick
    <3> QED BY <3>1
  <2> QED BY <2>1
<1>5. it = [s \in SUBSET S |->
              IF s = {} THEN 0 ELSE step[<<pick[s], it[s \ {pick[s]}]>>]]
  BY <1>3 DEF IsFold
<1>6. IsSum(it, f, S)
  <2> HIDE DEF pick, step
  <2> QED BY <1>4, <1>5 DEF IsSum
<1> QED BY <1>6

LEMMA SumUnfold ==
  ASSUME NEW S, IsFiniteSet(S), NEW f, \A x \in S : f[x] \in Int
  PROVE  \E it : IsSum(it, f, S) /\ SumFunctionOnSet(f, S) = it[S]
<1>1. PICK g : IsSum(g, f, S)
  BY SumExists
<1> QED BY <1>1 DEF IsSum, SumFunctionOnSet, FoldFunctionOnSet, MapThenFoldSet

LEMMA SumAgree ==
  ASSUME NEW R, IsFiniteSet(R), NEW S, R \subseteq S, NEW f, \A x \in S : f[x] \in Int,
         NEW g, \A x \in R : g[x] = f[x], NEW it, IsSum(it, f, S), NEW jt, IsSum(jt, g, R)
  PROVE  \A s \in SUBSET R : it[s] \in Int /\ jt[s] = it[s]
<1> DEFINE H == {s \in SUBSET R : it[s] \in Int /\ jt[s] = it[s]}
<1>1. ASSUME NEW s \in SUBSET R,
             \A r \in SUBSET R : Cardinality(r) < Cardinality(s) => r \in H
      PROVE  s \in H
  <2>1. CASE s = {}
    BY <2>1 DEF IsSum
  <2>2. CASE s # {}
    <3> DEFINE x == CHOOSE x \in s : TRUE
    <3>1. x \in s
      BY <2>2
    <3>2. s \ {x} \in SUBSET R /\ Cardinality(s \ {x}) < Cardinality(s)
      BY <3>1, FS_Subset, FS_RemoveElement, FS_CardinalityType
    <3>3. it[s \ {x}] \in Int /\ jt[s \ {x}] = it[s \ {x}]
      BY <1>1, <3>2
    <3>4. it[s] = f[x] + it[s \ {x}] /\ jt[s] = g[x] + jt[s \ {x}]
      BY <2>2 DEF IsSum
    <3> HIDE DEF x
    <3>5. f[x] \in Int /\ g[x] = f[x]
      BY <3>1
    <3> QED BY <3>3, <3>4, <3>5
  <2> QED BY <2>1, <2>2
<1> HIDE DEF H
<1>2. SUBSET R \subseteq H
  BY ONLY <1>1, IsFiniteSet(R), SetInduction
<1> QED BY <1>2 DEF H

LEMMA SumEmpty == \A f : SumFunctionOnSet(f, {}) = 0
<1> TAKE f
<1>1. PICK it : IsSum(it, f, {}) /\ SumFunctionOnSet(f, {}) = it[{}]
  BY SumUnfold, FS_EmptySet
<1> QED BY <1>1 DEF IsSum

LEMMA SumExt ==
  ASSUME NEW S, IsFiniteSet(S), NEW f, NEW g, \A x \in S : f[x] \in Int /\ g[x] = f[x]
  PROVE  SumFunctionOnSet(f, S) \in Int /\ SumFunctionOnSet(g, S) = SumFunctionOnSet(f, S)
<1>1. PICK it : IsSum(it, f, S) /\ SumFunctionOnSet(f, S) = it[S]
  BY SumUnfold
<1>2. PICK jt : IsSum(jt, g, S) /\ SumFunctionOnSet(g, S) = jt[S]
  BY SumUnfold
<1>3. S \in SUBSET S /\ S \subseteq S
  OBVIOUS
<1> QED BY <1>1, <1>2, <1>3, SumAgree, SMTT(30)

(* A sum does not depend on the order in which it is taken.                *)
LEMMA SumGrows ==
  ASSUME NEW S, IsFiniteSet(S), NEW f, \A x \in S : f[x] \in Int, NEW it, IsSum(it, f, S)
  PROVE  \A s \in SUBSET S : \A x \in S \ s : it[s \cup {x}] = it[s] + f[x]
<1>1. \A s \in SUBSET S : it[s] \in Int
  BY SumAgree
<1> DEFINE H == {s \in SUBSET S : \A x \in S \ s : it[s \cup {x}] = it[s] + f[x]}
<1>2. ASSUME NEW s \in SUBSET S,
             \A r \in SUBSET S : Cardinality(r) < Cardinality(s) => r \in H
      PROVE  s \in H
  <2>1. ASSUME NEW x \in S \ s PROVE it[s \cup {x}] = it[s] + f[x]
    <3> DEFINE y == CHOOSE y \in s \cup {x} : TRUE
               r == s \ {y}
    <3>1. y \in s \cup {x} /\ s \cup {x} # {} /\ s \cup {x} \in SUBSET S
      OBVIOUS
    <3>2. it[s \cup {x}] = f[y] + it[(s \cup {x}) \ {y}]
      BY <3>1 DEF IsSum
    <3> HIDE DEF y
    <3>3. it[s] \in Int /\ it[r] \in Int /\ f[x] \in Int /\ f[y] \in Int
      BY <1>1, <3>1
    <3>4. CASE y = x
      <4>1. (s \cup {x}) \ {y} = s
        BY <3>4
      <4>2. it[s \cup {x}] = f[x] + it[s]
        BY ONLY <3>2, <3>4, <4>1, Zenon
      <4> QED BY <3>3, <4>2
    <3>5. CASE y # x
      <4>1. /\ y \in s /\ (s \cup {x}) \ {y} = r \cup {x} /\ r \cup {y} = s
            /\ r \in SUBSET S /\ x \in S \ r /\ y \in S \ r
        BY <3>1, <3>5
      <4>2. Cardinality(r) < Cardinality(s)
        BY <4>1, FS_Subset, FS_RemoveElement, FS_CardinalityType
      <4>3. r \in H
        BY <1>2, <4>1, <4>2
      <4>4. it[r \cup {x}] = it[r] + f[x] /\ it[r \cup {y}] = it[r] + f[y]
        BY <4>1, <4>3
      <4>5. it[s \cup {x}] = f[y] + (it[r] + f[x]) /\ it[s] = it[r] + f[y]
        BY ONLY <3>2, <4>1, <4>4, Zenon
      <4> HIDE DEF H, r
      <4> QED BY <3>3, <4>5
    <3> QED BY <3>4, <3>5
  <2> QED BY <2>1
<1> HIDE DEF H
<1>3. SUBSET S \subseteq H
  BY ONLY <1>2, IsFiniteSet(S), SetInduction
<1> QED BY <1>3 DEF H

LEMMA SumInsert ==
  ASSUME NEW S, IsFiniteSet(S), NEW x, x \notin S, NEW f, \A y \in S \cup {x} : f[y] \in Int
  PROVE  SumFunctionOnSet(f, S \cup {x}) = SumFunctionOnSet(f, S) + f[x]
<1> DEFINE U == S \cup {x}
<1>1. IsFiniteSet(U)
  BY FS_AddElement
<1>2. PICK it : IsSum(it, f, U) /\ SumFunctionOnSet(f, U) = it[U]
  BY <1>1, SumUnfold
<1>3. PICK jt : IsSum(jt, f, S) /\ SumFunctionOnSet(f, S) = jt[S]
  BY SumUnfold
<1>4. jt[S] = it[S]
  <2>1. S \subseteq U /\ (\A y \in U : f[y] \in Int) /\ (\A y \in S : f[y] = f[y])
        /\ S \in SUBSET S
    OBVIOUS
  <2>2. IsSum(it, f, U) /\ IsSum(jt, f, S)
    BY <1>2, <1>3
  <2> HIDE DEF U
  <2>3. \A s \in SUBSET S : it[s] \in Int /\ jt[s] = it[s]
    BY <2>1, <2>2, SumAgree
  <2> QED BY <2>3
<1>5. it[S \cup {x}] = it[S] + f[x]
  <2>1. S \in SUBSET U /\ x \in U \ S /\ \A y \in U : f[y] \in Int
    OBVIOUS
  <2> HIDE DEF U
  <2> QED BY <1>1, <1>2, <2>1, SumGrows
<1> QED BY <1>2, <1>3, <1>4, <1>5

LEMMA SumRemove ==
  ASSUME NEW S, IsFiniteSet(S), NEW x \in S, NEW f, \A y \in S : f[y] \in Int
  PROVE  SumFunctionOnSet(f, S) = SumFunctionOnSet(f, S \ {x}) + f[x]
<1>1. IsFiniteSet(S \ {x}) /\ x \notin S \ {x} /\ (S \ {x}) \cup {x} = S
  BY FS_Subset
<1> QED BY <1>1, SumInsert

(* A sum of terms that are not negative is at least each of them.           *)
LEMMA SumAtLeast ==
  ASSUME NEW S, IsFiniteSet(S), NEW f, \A x \in S : f[x] \in Int /\ f[x] >= 0
  PROVE  /\ SumFunctionOnSet(f, S) \in Int /\ SumFunctionOnSet(f, S) >= 0
         /\ \A x \in S : f[x] <= SumFunctionOnSet(f, S)
<1> DEFINE H == {s \in SUBSET S : SumFunctionOnSet(f, s) >= 0}
<1>1. \A s \in SUBSET S : IsFiniteSet(s) /\ SumFunctionOnSet(f, s) \in Int
  BY FS_Subset, SumExt
<1>2. ASSUME NEW s \in SUBSET S,
             \A r \in SUBSET S : Cardinality(r) < Cardinality(s) => r \in H
      PROVE  s \in H
  <2>1. CASE s = {}
    BY <2>1, SumEmpty
  <2>2. ASSUME NEW x \in s PROVE s \in H
    <3>1. SumFunctionOnSet(f, s) = SumFunctionOnSet(f, s \ {x}) + f[x]
      BY <1>1, SumRemove
    <3>2. s \ {x} \in SUBSET S /\ Cardinality(s \ {x}) < Cardinality(s)
      BY <1>1, FS_RemoveElement, FS_CardinalityType, FS_Subset
    <3>3. SumFunctionOnSet(f, s \ {x}) >= 0
      BY <1>2, <3>2
    <3>4. SumFunctionOnSet(f, s \ {x}) \in Int /\ f[x] \in Int /\ f[x] >= 0
      BY <1>1, <3>2
    <3> QED BY <3>1, <3>3, <3>4
  <2> QED BY <2>1, <2>2
<1>3. SUBSET S \subseteq H
  <2> HIDE DEF H
  <2> QED BY ONLY <1>2, IsFiniteSet(S), SetInduction
<1>4. ASSUME NEW x \in S PROVE f[x] <= SumFunctionOnSet(f, S)
  <2>1. SumFunctionOnSet(f, S) = SumFunctionOnSet(f, S \ {x}) + f[x]
    BY SumRemove
  <2>2. SumFunctionOnSet(f, S \ {x}) \in Int /\ SumFunctionOnSet(f, S \ {x}) >= 0
    BY <1>1, <1>3
  <2> QED BY <2>1, <2>2
<1> QED BY <1>1, <1>3, <1>4

(* How far a sum is from another, when no term is farther than c.           *)
LEMMA SumDistance ==
  ASSUME NEW S, IsFiniteSet(S), NEW a \in Int, NEW c \in Int,
         NEW f, NEW g, \A x \in S : f[x] \in Int /\ g[x] \in Int,
         \A x \in S : a * f[x] - g[x] <= c /\ g[x] - a * f[x] <= c
  PROVE  /\ a * SumFunctionOnSet(f, S) - SumFunctionOnSet(g, S) <= c * Cardinality(S)
         /\ SumFunctionOnSet(g, S) - a * SumFunctionOnSet(f, S) <= c * Cardinality(S)
<1> DEFINE F(s) == SumFunctionOnSet(f, s)
           G(s) == SumFunctionOnSet(g, s)
           H == {s \in SUBSET S : /\ a * F(s) - G(s) <= c * Cardinality(s)
                                  /\ G(s) - a * F(s) <= c * Cardinality(s)}
<1>1. \A s \in SUBSET S : IsFiniteSet(s) /\ F(s) \in Int /\ G(s) \in Int
  BY FS_Subset, SumExt
<1>2. ASSUME NEW s \in SUBSET S,
             \A r \in SUBSET S : Cardinality(r) < Cardinality(s) => r \in H
      PROVE  s \in H
  <2>1. CASE s = {}
    <3>1. F(s) = 0 /\ G(s) = 0 /\ Cardinality(s) = 0
      BY <2>1, SumEmpty, FS_EmptySet
    <3> HIDE DEF F, G
    <3>2. a * F(s) = 0 /\ c * Cardinality(s) = 0
      BY <3>1
    <3> QED BY <3>1, <3>2
  <2>2. ASSUME NEW x \in s PROVE s \in H
    <3> DEFINE r == s \ {x}
               n == Cardinality(r)
    <3>1. F(s) = F(r) + f[x] /\ G(s) = G(r) + g[x]
      BY <1>1, SumRemove
    <3>2. r \in SUBSET S /\ n \in Nat /\ Cardinality(s) = n + 1
      BY <1>1, FS_RemoveElement, FS_CardinalityType, FS_Subset
    <3>3. a * F(r) - G(r) <= c * n /\ G(r) - a * F(r) <= c * n
      <4>1. r \in H
        <5>1. r \in SUBSET S /\ Cardinality(r) < Cardinality(s)
          BY <3>2
        <5> HIDE DEF H, r
        <5> QED BY <1>2, <5>1
      <4> HIDE DEF F, G, r
      <4> QED BY <4>1
    <3>4. /\ F(r) \in Int /\ G(r) \in Int /\ f[x] \in Int /\ g[x] \in Int
          /\ a * f[x] - g[x] <= c /\ g[x] - a * f[x] <= c
      BY <1>1, <3>2
    <3> HIDE DEF F, G, r, n
    <3>5. a * (F(r) + f[x]) = a * F(r) + a * f[x] /\ c * (n + 1) = c * n + c
      BY <3>2, <3>4
    <3>6. a * F(r) \in Int /\ a * f[x] \in Int /\ c * n \in Int
      BY <3>2, <3>4
    <3>7. /\ a * F(s) - G(s) <= c * Cardinality(s)
          /\ G(s) - a * F(s) <= c * Cardinality(s)
      BY <3>1, <3>2, <3>3, <3>4, <3>5, <3>6
    <3> QED BY <3>7
  <2> QED BY <2>1, <2>2
<1>3. SUBSET S \subseteq H
  <2> HIDE DEF H
  <2> QED BY ONLY <1>2, IsFiniteSet(S), SetInduction
<1> QED BY <1>3
-----------------------------------------------------------------------------
(***************************************************************************)
(* Folds of sequences.                                                     *)
(***************************************************************************)
(* Simple induction.                                                       *)
LEMMA Induction ==
  ASSUME NEW H, 0 \in H, \A n \in Nat : n \in H => n + 1 \in H
  PROVE  Nat \subseteq H
<1> DEFINE K == H \cap Nat
<1>1. ASSUME NEW n \in Nat, \A m \in Nat : m < n => m \in K PROVE n \in K
  <2>1. CASE n = 0
    BY <2>1
  <2>2. CASE n # 0
    <3>1. n - 1 \in Nat /\ n - 1 < n /\ (n - 1) + 1 = n
      BY <2>2
    <3>2. n - 1 \in H
      BY <1>1, <3>1
    <3> QED BY <3>1, <3>2
  <2> QED BY <2>1, <2>2
<1>2. K \subseteq Nat
  OBVIOUS
<1> HIDE DEF K
<1>3. K = Nat
  BY <1>1, <1>2, StrongInduction
<1> QED BY <1>3 DEF K

(* A fold of a sequence goes through its prefixes.                          *)
LEMMA Prefix ==
  ASSUME NEW n \in Nat, NEW i \in 1 .. n
  PROVE  /\ Max(1 .. i) = i /\ (1 .. i) \ {i} = 1 .. (i - 1)
         /\ 1 .. i \in SUBSET (1 .. n) /\ 1 .. i # {}
<1>1. i \in 1 .. i /\ \A k \in 1 .. i : i >= k
  OBVIOUS
<1>2. \A k \in 1 .. i : (\A l \in 1 .. i : k >= l) => k = i
  BY <1>1
<1>3. Max(1 .. i) = i
  BY <1>1, <1>2 DEF Max
<1>4. (1 .. i) \ {i} = 1 .. (i - 1)
  OBVIOUS
<1> QED BY <1>1, <1>3, <1>4

LEMMA MaxExists ==
  ASSUME NEW n \in Nat, NEW s \in SUBSET (1 .. n), s # {}
  PROVE  Max(s) \in s
<1> DEFINE T == {n - x : x \in s}
<1>1. T \subseteq Nat /\ T # {}
  <2>1. \A x \in s : n - x \in Nat
    OBVIOUS
  <2> QED BY <2>1
<1> HIDE DEF T
<1>2. PICK t \in T : \A m \in T : t <= m
  BY <1>1, LeastNumber
<1>3. PICK x \in s : t = n - x
  BY DEF T
<1>4. \A y \in s : n - x <= n - y
  BY <1>2, <1>3 DEF T
<1>5. \A y \in s : x >= y
  BY <1>4
<1> QED BY <1>5 DEF Max

IsLeftFold(it, n, base, step) ==
  /\ it = [s \in SUBSET (1 .. n) |->
            IF s = {} THEN base ELSE step[<<Max(s), it[s \ {Max(s)}]>>]]
  /\ it[1 .. 0] = base
  /\ \A i \in 1 .. n : it[1 .. i] = step[<<i, it[1 .. (i - 1)]>>]

LEMMA LeftFold ==
  ASSUME NEW n \in Nat, NEW V, NEW base \in V, NEW step \in [(1 .. n) \X V -> V]
  PROVE  \E it \in [SUBSET (1 .. n) -> V] : IsLeftFold(it, n, base, step)
<1> DEFINE S == 1 .. n
           pick == [s \in SUBSET S |-> Max(s)]
<1>1. IsFiniteSet(S)
  BY FS_Interval
<1>2. \A s \in SUBSET S : s # {} => pick[s] \in s
  <2>1. ASSUME NEW s \in SUBSET S, s # {} PROVE Max(s) \in s
    BY <2>1, MaxExists
  <2> QED BY <2>1
<1> HIDE DEF S
<1> HIDE DEF pick
<1>3. step \in [S \X V -> V]
  BY DEF S
<1>4. PICK it \in [SUBSET S -> V] : IsFold(it, S, pick, base, step)
  BY <1>1, <1>2, <1>3, FoldExists
<1>5. it = [s \in SUBSET S |-> IF s = {} THEN base ELSE step[<<Max(s), it[s \ {Max(s)}]>>]]
  BY <1>4 DEF IsFold, pick
<1>6. it[1 .. 0] = base
  <2>1. 1 .. 0 = {} /\ {} \in SUBSET S
    OBVIOUS
  <2> QED BY <1>5, <2>1
<1>7. ASSUME NEW i \in 1 .. n PROVE it[1 .. i] = step[<<i, it[1 .. (i - 1)]>>]
  <2>1. Max(1 .. i) = i /\ (1 .. i) \ {i} = 1 .. (i - 1) /\ 1 .. i \in SUBSET S /\ 1 .. i # {}
    BY Prefix DEF S
  <2>2. it[1 .. i] = step[<<Max(1 .. i), it[(1 .. i) \ {Max(1 .. i)}]>>]
    BY ONLY <1>5, <2>1
  <2> QED BY <2>1, <2>2
<1> QED BY <1>5, <1>6, <1>7 DEF S, IsLeftFold

LEMMA FunctionIsSeq ==
  ASSUME NEW C, NEW n \in Nat, NEW f \in [1 .. n -> C]
  PROVE  f \in Seq(C) /\ Len(f) = n
<1>1. f \in Seq(C)
  BY SeqDef
<1>2. DOMAIN f = 1 .. Len(f) /\ Len(f) \in Nat /\ DOMAIN f = 1 .. n
  BY <1>1, LenProperties
<1>3. Len(f) = n
  BY <1>2
<1> QED BY <1>1, <1>3

IsFlat(f, parts) ==
  f = [i \in 1 .. Len(parts) |-> IF i = 1 THEN parts[i] ELSE f[i - 1] \o parts[i]]

LEMMA FlatUnfold ==
  ASSUME NEW C, NEW parts \in Seq(Seq(C)), parts # << >>
  PROVE  \E f : /\ f[1] = parts[1]
                /\ \A i \in 2 .. Len(parts) : f[i] = f[i - 1] \o parts[i]
                /\ FlattenSeq(parts) = f[Len(parts)]
<1> DEFINE n == Len(parts)
           step == [p \in (1 .. n) \X Seq(C) |-> IF p[1] = 1 THEN parts[p[1]] ELSE p[2] \o parts[p[1]]]
<1>1. n \in Nat \ {0} /\ \A i \in 1 .. n : parts[i] \in Seq(C)
  BY EmptySeq, ElementOfSeq
<1>2. step \in [(1 .. n) \X Seq(C) -> Seq(C)]
  <2>1. \A i \in 1 .. n, x \in Seq(C) : x \o parts[i] \in Seq(C)
    BY <1>1, ConcatProperties
  <2> QED BY <1>1, <2>1
<1>3. << >> \in Seq(C)
  OBVIOUS
<1> HIDE DEF n
<1>4. PICK it \in [SUBSET (1 .. n) -> Seq(C)] : \A i \in 1 .. n : it[1 .. i] = step[<<i, it[1 .. (i - 1)]>>]
  <2> HIDE DEF step
  <2>1. n \in Nat
    BY <1>1
  <2> DEFINE V == Seq(C)
  <2>2. step \in [(1 .. n) \X V -> V] /\ << >> \in V
    BY <1>2, <1>3
  <2> HIDE DEF V
  <2>3. \E it \in [SUBSET (1 .. n) -> V] : IsLeftFold(it, n, << >>, step)
    BY ONLY <2>1, <2>2, LeftFold
  <2> QED BY <2>3 DEF V, IsLeftFold
<1> DEFINE g == [i \in 1 .. n |-> it[1 .. i]]
<1>5. ASSUME NEW i \in 1 .. n PROVE g[i] = IF i = 1 THEN parts[i] ELSE g[i - 1] \o parts[i]
  <2>1. 1 .. (i - 1) \in SUBSET (1 .. n) /\ (i # 1 => i - 1 \in 1 .. n)
    BY <1>1
  <2>2. it[1 .. (i - 1)] \in Seq(C)
    BY <2>1
  <2>3. it[1 .. i] = IF i = 1 THEN parts[i] ELSE it[1 .. (i - 1)] \o parts[i]
    BY <1>4, <2>2
  <2> QED BY <2>1, <2>3
<1>6. IsFlat(g, parts)
  <2>1. g = [i \in 1 .. n |-> g[i]]
    OBVIOUS
  <2> HIDE DEF g
  <2> QED BY <1>5, <2>1 DEF IsFlat, n
<1> HIDE DEF g
<1>7. PICK f : IsFlat(f, parts) /\ FlattenSeq(parts) = f[n]
  BY <1>1, <1>6 DEF IsFlat, FlattenSeq, n
<1>8. f[1] = parts[1] /\ \A i \in 2 .. n : f[i] = f[i - 1] \o parts[i]
  <2>1. f = [i \in 1 .. n |-> IF i = 1 THEN parts[i] ELSE f[i - 1] \o parts[i]]
    BY <1>7 DEF IsFlat, n
  <2>2. ASSUME NEW i \in 1 .. n PROVE f[i] = IF i = 1 THEN parts[i] ELSE f[i - 1] \o parts[i]
    BY ONLY <2>1, <2>2
  <2>3. 1 \in 1 .. n /\ \A i \in 2 .. n : i \in 1 .. n /\ i # 1
    BY <1>1
  <2> QED BY <2>2, <2>3
<1> QED BY <1>7, <1>8 DEF n
=============================================================================
