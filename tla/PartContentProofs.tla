-------------------------- MODULE PartContentProofs --------------------------
(***************************************************************************)
(* What is in a part: which fragments are mixed in it, for every table of   *)
(* weights, every outcome of the generator and every precision of the       *)
(* doubles, and what the table makes of the weights; which bytes it is on   *)
(* the wire, and which text.                                               *)
(***************************************************************************)
EXTENDS Sampler, UriBody, FountainEncoderProofs

(***************************************************************************)
(* A product of a count and a random double, rounded to a double, does not  *)
(* round up to the count.                                                   *)
(***************************************************************************)
LEMMA TimesGrows ==
  ASSUME NEW a \in Nat, NEW b \in Nat, NEW c \in Nat, a <= b
  PROVE  a * c <= b * c /\ c * a <= c * b /\ a * c \in Nat
<1>1. PICK d \in Nat : b = a + d
  BY b - a \in Nat
<1>2. b * c = a * c + d * c /\ a * c \in Nat /\ d * c \in Nat
  BY <1>1
<1>3. a * c = c * a /\ b * c = c * b
  OBVIOUS
<1> QED BY <1>2, <1>3

LEMMA DividedBelow ==
  ASSUME NEW n \in Nat, NEW p \in Nat \ {0}, NEW y \in Nat, y < n * p
  PROVE  y \div p \in Nat /\ y \div p < n
<1> DEFINE q == y \div p
<1>1. q \in Nat /\ y % p \in 0 .. p - 1 /\ y = p * q + (y % p)
  BY DivMod
<1>2. p * q < p * n
  BY <1>1
<1> QED BY <1>1, <1>2, TimesReflects

(* Rounding is off by half a unit at most.                                 *)
LEMMA NearestBound ==
  ASSUME NEW x \in 0 .. Precision * Precision
  PROVE  \E u \in Powers : IsUnit(x, u) /\ Nearest(x) \in Nat /\ 2 * Nearest(x) <= 2 * x + u
<1> DEFINE u == CHOOSE w \in Powers : IsUnit(x, w)
<1>1. u \in Powers /\ IsUnit(x, u)
  BY DoubleAssumption
<1> DEFINE q == x \div u
           r == x % u
<1>3. Nearest(x) = u * (IF 2 * r > u \/ (2 * r = u /\ q % 2 = 1) THEN q + 1 ELSE q)
  BY DEF Nearest
<1> HIDE DEF u
<1>0. Precision * Precision \in Nat
  BY DoubleAssumption
<1>2. u \in Nat \ {0} /\ x \in Nat
  BY <1>0, <1>1, DoubleAssumption
<1>4. q \in Nat /\ r \in 0 .. u - 1 /\ x = u * q + r
  BY <1>2
<1> HIDE DEF q, r
<1>5. u * q \in Nat /\ u * (q + 1) = u * q + u
  BY <1>2, <1>4
<1>6. Nearest(x) \in Nat /\ 2 * Nearest(x) <= 2 * x + u
  <2>1. CASE 2 * r > u \/ (2 * r = u /\ q % 2 = 1)
    <3>1. Nearest(x) = u * q + u
      BY <1>3, <1>5, <2>1
    <3>2. 2 * r >= u
      BY <2>1, <1>2, <1>4
    <3> QED BY <3>1, <3>2, <1>2, <1>4, <1>5
  <2>2. CASE ~(2 * r > u \/ (2 * r = u /\ q % 2 = 1))
    <3>1. Nearest(x) = u * q
      BY <1>3, <2>2
    <3> QED BY <3>1, <1>2, <1>4, <1>5
  <2> QED BY <2>1, <2>2
<1> QED BY <1>1, <1>6

(* The index into the table, and the item that is removed.                 *)
LEMMA ScaledBelow ==
  ASSUME NEW n \in 1 .. Precision, NEW m \in Doubles
  PROVE  Scaled(n, m) \in Nat /\ Scaled(n, m) < n
<1> DEFINE x == n * m
<1>1. Precision \in Nat \ {0} /\ n \in Nat \ {0} /\ m \in Nat /\ m <= Precision - 1
  BY DoubleAssumption DEF Doubles
<1>2. x \in Nat /\ x <= n * Precision - n /\ n * Precision \in Nat
  <2>1. n * m <= n * (Precision - 1) /\ n * m \in Nat
    BY <1>1, TimesGrows, Precision - 1 \in Nat
  <2>2. n * (Precision - 1) = n * Precision - n /\ n * Precision \in Nat
    BY <1>1
  <2> QED BY <2>1, <2>2
<1>3. n * Precision <= Precision * Precision
  BY <1>1, TimesGrows
<1> HIDE DEF x
<1>4. Precision * Precision \in Nat
  BY <1>1
<1>5. x \in 0 .. Precision * Precision
  BY <1>1, <1>2, <1>3, <1>4
<1>6. PICK u \in Powers : IsUnit(x, u) /\ Nearest(x) \in Nat /\ 2 * Nearest(x) <= 2 * x + u
  BY <1>5, NearestBound
<1>7. u \in Nat \ {0}
  BY DoubleAssumption
<1>8. u < 2 * n
  <2>1. CASE u = 1
    BY <2>1, <1>1
  <2>2. CASE u * Precision <= 2 * x
    <3>1. Precision * (2 * n) = 2 * (n * Precision) /\ Precision * u = u * Precision
      BY <1>1, <1>7
    <3>a. u * Precision \in Nat
      BY <1>1, <1>7
    <3>2. Precision * u < Precision * (2 * n)
      BY <3>1, <3>a, <2>2, <1>1, <1>2
    <3> QED BY <3>2, <1>1, <1>7, TimesReflects
  <2> QED BY <1>6, <2>1, <2>2 DEF IsUnit
<1>9. Nearest(x) < n * Precision
  BY <1>1, <1>2, <1>6, <1>7, <1>8
<1>10. Nearest(x) \div Precision \in Nat /\ Nearest(x) \div Precision < n
  BY <1>1, <1>6, <1>9, DividedBelow
<1> QED BY <1>10 DEF Scaled, x
-----------------------------------------------------------------------------
(***************************************************************************)
(* The worklists and the table of aliases hold indexes of the table, and    *)
(* the items that were removed and the ones that are left are, without      *)
(* repetition, as many as there are fragments.                              *)
(***************************************************************************)
PlaceInv ==
  /\ phase \in {"weights", "pair", "draw", "shuffle", "done"}
  /\ phase # "weights" => given \in WeightVectors
  /\ phase \in {"weights", "pair", "draw"} => shuffled = << >>

TableInv ==
  /\ phase = "pair" => small \in Seq(Indices(given)) /\ large \in Seq(Indices(given))
  /\ phase \in {"pair", "draw"} => aliases \in [Indices(given) -> Indices(given)]

ShuffleInv ==
  /\ phase \in {"shuffle", "done"} => degree \in 1 .. Len(given)
  /\ phase = "shuffle" =>
       /\ items \in Seq(Indices(given)) /\ shuffled \in Seq(Indices(given))
       /\ IsInjective(items) /\ IsInjective(shuffled)
       /\ \A j \in DOMAIN items, k \in DOMAIN shuffled : items[j] # shuffled[k]
       /\ Len(items) + Len(shuffled) = Len(given)

SamplerInv == PlaceInv /\ TableInv /\ ShuffleInv /\ VectorOK

LEMMA SamplerInit == Init => SamplerInv
BY DEF Init, SamplerInv, PlaceInv, TableInv, ShuffleInv, VectorOK

LEMMA GivenLength ==
  ASSUME given \in WeightVectors
  PROVE  Len(given) \in 1 .. Precision /\ Len(given) \in Nat \ {0}
BY SamplerAssumption, DoubleAssumption

(* A worklist as it is made.                                               *)
LEMMA FallingType ==
  ASSUME NEW n \in Nat, NEW S \in SUBSET (0 .. n - 1), NEW s \in Falling(S)
  PROVE  s \in Seq(0 .. n - 1)
<1>1. IsFiniteSet(S)
  <2>1. IsFiniteSet(0 .. n - 1)
    BY FS_Interval, n - 1 \in Int
  <2> QED BY <2>1, FS_Subset
<1>2. Cardinality(S) \in Nat
  BY <1>1, FS_CardinalityType
<1>3. s \in [1 .. Cardinality(S) -> 0 .. n - 1]
  BY DEF Falling
<1> QED BY <1>2, <1>3

LEMMA NormaliseKeeps ==
  ASSUME SamplerInv, NEW w \in WeightVectors, Normalise(w)
  PROVE  SamplerInv'
<1>1. Len(w) \in Nat \ {0}
  BY SamplerAssumption, DoubleAssumption
<1>2. small' \in Seq(Indices(w)) /\ large' \in Seq(Indices(w))
  <2> DEFINE S == {j \in Indices(w) : weights'[j] < One}
             L == {j \in Indices(w) : weights'[j] >= One}
  <2>1. S \in SUBSET (0 .. Len(w) - 1) /\ L \in SUBSET (0 .. Len(w) - 1)
    BY DEF Indices
  <2>2. small' \in Falling(S) /\ large' \in Falling(L)
    BY DEF Normalise
  <2> HIDE DEF S, L
  <2>3. small' \in Seq(0 .. Len(w) - 1)
    BY <1>1, <2>1, <2>2, FallingType
  <2>4. large' \in Seq(0 .. Len(w) - 1)
    BY <1>1, <2>1, <2>2, FallingType
  <2> QED BY <2>3, <2>4 DEF Indices
<1>3. aliases' \in [Indices(w) -> Indices(w)]
  BY <1>1 DEF Normalise, Indices
<1> QED BY <1>2, <1>3 DEF Normalise, SamplerInv, PlaceInv, TableInv, ShuffleInv, VectorOK

(* The last item of a worklist, and what is left when it is popped.        *)
LEMMA PopType ==
  ASSUME NEW S, NEW s \in Seq(S), s # << >>
  PROVE  Last(s) \in S /\ Front(s) \in Seq(S)
<1>1. Len(s) \in Nat \ {0} /\ \A k \in 1 .. Len(s) : s[k] \in S
  BY EmptySeq, LenProperties
<1>2. SubSeq(s, 1, Len(s) - 1) \in Seq(S)
  BY <1>1, SubSeqProperties
<1> QED BY <1>1, <1>2 DEF Last, Front

LEMMA PairUpKeeps == SamplerInv /\ PairUp => SamplerInv'
<1> SUFFICES ASSUME SamplerInv, PairUp PROVE SamplerInv'
  OBVIOUS
<1> DEFINE I == Indices(given)
           a == Last(small)
           g == Last(large)
<1>1. a \in I /\ g \in I /\ Front(small) \in Seq(I) /\ Front(large) \in Seq(I)
  BY PopType DEF SamplerInv, TableInv, PairUp
<1>2. Append(Front(small), g) \in Seq(I)
  BY <1>1, AppendProperties
<1>3. large \in Seq(I) /\ aliases \in [I -> I] /\ given' = given
  BY DEF SamplerInv, TableInv, PairUp
<1>4. small' \in Seq(I) /\ large' \in Seq(I)
  BY <1>1, <1>2, <1>3 DEF PairUp
<1>5. aliases' \in [I -> I]
  BY <1>1, <1>3 DEF PairUp
<1> QED BY <1>3, <1>4, <1>5
  DEF PairUp, SamplerInv, PlaceInv, TableInv, ShuffleInv, VectorOK, Indices

LEMMA LeftOverKeeps == SamplerInv /\ LeftOver => SamplerInv'
<1> SUFFICES ASSUME SamplerInv, LeftOver PROVE SamplerInv'
  OBVIOUS
<1>1. small' \in Seq(Indices(given)) /\ large' \in Seq(Indices(given))
  BY PopType DEF SamplerInv, TableInv, LeftOver
<1> QED BY <1>1
  DEF LeftOver, SamplerInv, PlaceInv, TableInv, ShuffleInv, VectorOK, Indices

(* The index is one of the table's, and all fragments are to be shuffled.  *)
LEMMA DrawKeeps ==
  ASSUME SamplerInv, NEW m \in Doubles, NEW r \in 0 .. One - 1, Draw(m, r)
  PROVE  SamplerInv'
<1> DEFINE n == Len(given)
           i == Scaled(n, m)
<1>1. phase = "draw" /\ given \in WeightVectors /\ given' = given /\ shuffled' = << >>
  BY DEF Draw, Drop, SamplerInv, PlaceInv
<1>2. n \in 1 .. Precision /\ n \in Nat \ {0}
  BY <1>1, GivenLength
<1>3. i \in Nat /\ i < n
  BY <1>2, ScaledBelow
<1>4. aliases[i] \in 0 .. n - 1
  BY <1>1, <1>2, <1>3 DEF SamplerInv, TableInv, Indices
<1>5. /\ degree' = 1 + (IF r < probs[i] THEN i ELSE aliases[i])
      /\ items' = [k \in 1 .. n |-> k - 1]
      /\ phase' = "shuffle"
  BY <1>3 DEF Draw
<1> HIDE DEF i
<1>6. degree' \in 1 .. n
  BY <1>2, <1>3, <1>4, <1>5
<1>7. items' \in Seq(0 .. n - 1) /\ Len(items') = n /\ DOMAIN items' = 1 .. n
  <2>1. items' \in [1 .. n -> 0 .. n - 1]
    BY <1>2, <1>5
  <2>2. items' \in Seq(0 .. n - 1)
    BY <1>2, <2>1
  <2> QED BY <1>2, <2>1, <2>2, LenProperties
<1>8. \A j, k \in 1 .. n : items'[j] = items'[k] => j = k
  BY <1>2, <1>5
<1> HIDE DEF n
<1>9. Len(<< >>) = 0 /\ DOMAIN << >> = {} /\ << >> \in Seq(0 .. n - 1)
  OBVIOUS
<1>10. ShuffleInv'
  BY <1>1, <1>2, <1>5, <1>6, <1>7, <1>8, <1>9 DEF ShuffleInv, Indices, IsInjective, n
<1> QED BY <1>1, <1>5, <1>10 DEF SamplerInv, PlaceInv, TableInv, VectorOK

(* One item goes from what is left to what is shuffled.                    *)
LEMMA PickKeeps ==
  ASSUME SamplerInv, NEW m \in Doubles, Pick(m)
  PROVE  SamplerInv'
<1> DEFINE S == Indices(given)
           l == Len(items)
           d == Len(shuffled)
<1>1. /\ phase = "shuffle" /\ phase' = "shuffle" /\ given' = given /\ degree' = degree
      /\ given \in WeightVectors /\ items # << >>
      /\ items \in Seq(S) /\ shuffled \in Seq(S) /\ l + d = Len(given)
      /\ DOMAIN items = 1 .. l /\ DOMAIN shuffled = 1 .. d
  BY LenProperties DEF Pick, table, SamplerInv, PlaceInv, ShuffleInv
<1>2. /\ \A j, k \in 1 .. l : items[j] = items[k] => j = k
      /\ \A j, k \in 1 .. d : shuffled[j] = shuffled[k] => j = k
      /\ \A j \in 1 .. l, k \in 1 .. d : items[j] # shuffled[k]
  BY <1>1 DEF SamplerInv, ShuffleInv, IsInjective
<1>3. l \in Nat \ {0} /\ d \in Nat /\ Len(given) \in 1 .. Precision
  BY <1>1, GivenLength, EmptySeq, LenProperties
<1>4. l \in 1 .. Precision
  BY <1>1, <1>3, DoubleAssumption
<1>5. PICK index \in 1 .. l :
        shuffled' = Append(shuffled, items[index]) /\ items' = RemoveAt(items, index)
  <2>1. Scaled(l, m) \in Nat /\ Scaled(l, m) < l
    BY <1>4, ScaledBelow
  <2>2. 1 + Scaled(l, m) \in 1 .. l
    BY <1>3, <2>1
  <2> QED BY <2>1, <2>2 DEF Pick
<1>6. /\ items' \in Seq(S) /\ Len(items') = l - 1
      /\ \A k \in 1 .. l - 1 : items'[k] = IF k < index THEN items[k] ELSE items[k + 1]
  BY <1>1, <1>5, RemoveAtProperties
<1>7. items[index] \in S
  BY <1>1, <1>5
<1>8. /\ shuffled' \in Seq(S) /\ Len(shuffled') = d + 1
      /\ \A k \in 1 .. d : shuffled'[k] = shuffled[k]
      /\ shuffled'[d + 1] = items[index]
  BY <1>1, <1>5, <1>7, AppendProperties
<1>9. DOMAIN items' = 1 .. l - 1 /\ DOMAIN shuffled' = 1 .. d + 1
  BY <1>6, <1>8, LenProperties
<1> HIDE DEF S, l, d
<1> DEFINE old(k) == IF k < index THEN k ELSE k + 1
<1>10. \A k \in 1 .. l - 1 : old(k) \in 1 .. l /\ old(k) # index /\ items'[k] = items[old(k)]
  BY <1>3, <1>5, <1>6
<1>11. \A j, k \in 1 .. l - 1 : old(j) = old(k) => j = k
  BY <1>3, <1>5
<1> HIDE DEF old
<1>12. \A j, k \in 1 .. l - 1 : items'[j] = items'[k] => j = k
  BY <1>2, <1>10, <1>11
<1>13. \A k \in 1 .. d + 1 : k \in 1 .. d \/ k = d + 1
  BY <1>3
<1>14. \A j, k \in 1 .. d + 1 : shuffled'[j] = shuffled'[k] => j = k
  BY <1>2, <1>5, <1>8, <1>13
<1>15. \A j \in 1 .. l - 1, k \in 1 .. d + 1 : items'[j] # shuffled'[k]
  BY <1>2, <1>5, <1>8, <1>10, <1>13
<1>16. l - 1 + (d + 1) = Len(given)
  BY <1>1, <1>3
<1>17. degree' \in 1 .. Len(given')
  BY <1>1 DEF SamplerInv, ShuffleInv
<1>18. ShuffleInv'
  BY <1>1, <1>6, <1>8, <1>9, <1>12, <1>14, <1>15, <1>16, <1>17
    DEF ShuffleInv, IsInjective, S, Indices
<1> QED BY <1>1, <1>18 DEF SamplerInv, PlaceInv, TableInv, VectorOK

(* The first `degree' of all fragments.                                    *)
LEMMA TruncateKeeps == SamplerInv /\ Truncate => SamplerInv'
<1> SUFFICES ASSUME SamplerInv, Truncate PROVE SamplerInv'
  OBVIOUS
<1> DEFINE n == Len(given)
<1>1. /\ phase = "shuffle" /\ phase' = "done" /\ given' = given /\ degree' = degree
      /\ given \in WeightVectors /\ degree \in 1 .. n
      /\ shuffled \in Seq(0 .. n - 1) /\ Len(items) + Len(shuffled) = n /\ items = << >>
      /\ IsInjective(shuffled)
  BY DEF Truncate, table, SamplerInv, PlaceInv, ShuffleInv, Indices
<1>2. n \in Nat \ {0} /\ Len(shuffled) = n /\ DOMAIN shuffled = 1 .. n
  BY <1>1, GivenLength, LenProperties
<1>3. shuffled' = SubSeq(shuffled, 1, degree)
  <2>1. degree \in 1 .. n /\ n \in Nat /\ Len(shuffled) = n
    BY <1>1, <1>2
  <2>2. shuffled' = SubSeq(shuffled, 1, IF degree < n THEN degree ELSE n)
    BY <2>1 DEF Truncate
  <2> HIDE DEF n
  <2>3. CASE degree < n
    BY <2>2, <2>3
  <2>4. CASE ~(degree < n)
    <3>1. degree = n
      BY <2>1, <2>4
    <3> QED BY <2>2, <2>4, <3>1
  <2> QED BY <2>3, <2>4
<1> HIDE DEF n
<1>4. /\ shuffled' \in Seq(0 .. n - 1) /\ Len(shuffled') = degree
      /\ \A k \in 1 .. degree : shuffled'[k] = shuffled[k]
  <2>1. \A k \in 1 .. degree : shuffled[k] \in 0 .. n - 1
    BY <1>1, <1>2
  <2>2. /\ SubSeq(shuffled, 1, degree) \in Seq(0 .. n - 1)
        /\ Len(SubSeq(shuffled, 1, degree)) = IF 1 <= degree THEN degree - 1 + 1 ELSE 0
        /\ \A k \in 1 .. degree - 1 + 1 : SubSeq(shuffled, 1, degree)[k] = shuffled[1 + k - 1]
    BY <1>1, <1>2, <2>1, SubSeqProperties
  <2> QED BY <1>1, <1>2, <1>3, <2>2
<1>5. DOMAIN shuffled' = 1 .. degree /\ shuffled' # << >>
  BY <1>1, <1>2, <1>4, LenProperties, EmptySeq
<1>6. \A j, k \in 1 .. degree : shuffled'[j] = shuffled'[k] => j = k
  <2>1. \A j, k \in 1 .. n : shuffled[j] = shuffled[k] => j = k
    BY <1>1, <1>2 DEF IsInjective
  <2>2. \A k \in 1 .. degree : k \in 1 .. n
    BY <1>1, <1>2
  <2> QED BY <2>1, <2>2, <1>4
<1>7. IsIndexVector(shuffled', n) /\ Len(shuffled') = degree
  BY <1>4, <1>5, <1>6 DEF IsIndexVector
<1> QED BY <1>1, <1>7 DEF SamplerInv, PlaceInv, TableInv, ShuffleInv, VectorOK, n

LEMMA SamplerStep == SamplerInv /\ [Next]_vars => SamplerInv'
<1> SUFFICES ASSUME SamplerInv, [Next]_vars PROVE SamplerInv'
  OBVIOUS
<1>1. ASSUME NEW w \in WeightVectors, Normalise(w) PROVE SamplerInv'
  BY <1>1, NormaliseKeeps
<1>2. CASE PairUp
  BY <1>2, PairUpKeeps
<1>3. CASE LeftOver
  BY <1>3, LeftOverKeeps
<1>4. CASE TableMade
  BY <1>4 DEF TableMade, table, SamplerInv, PlaceInv, TableInv, ShuffleInv, VectorOK, Indices
<1>5. CASE Truncate
  BY <1>5, TruncateKeeps
<1>6. ASSUME NEW m \in Doubles, Pick(m) PROVE SamplerInv'
  BY <1>6, PickKeeps
<1>7. ASSUME NEW m \in Doubles, NEW r \in 0 .. One - 1, Draw(m, r) PROVE SamplerInv'
  BY <1>7, DrawKeeps
<1>8. CASE Again
  BY <1>8 DEF Again, SamplerInv, PlaceInv, TableInv, ShuffleInv, VectorOK
<1>9. CASE UNCHANGED vars
  BY <1>9 DEF vars, table, SamplerInv, PlaceInv, TableInv, ShuffleInv, VectorOK, Indices
<1> QED BY <1>1, <1>2, <1>3, <1>4, <1>5, <1>6, <1>7, <1>8, <1>9 DEF Next, Compute

(***************************************************************************)
(* choose_fragments hands out a vector of distinct fragments, as many as it *)
(* drew and at least one, and never indexes its table out of bounds:        *)
(* whatever the weights, whatever rounding does to the table, and with      *)
(* doubles of any precision that can count the fragments.                   *)
(***************************************************************************)
THEOREM VectorAlwaysOK == Spec => []VectorOK
<1>1. SamplerInv => VectorOK
  BY DEF SamplerInv
<1> QED BY <1>1, SamplerInit, SamplerStep, PTL DEF Spec
-----------------------------------------------------------------------------
(* A worklist is a set in some order: what popping and pushing do to it.    *)
LEMMA PopRange ==
  ASSUME NEW S, NEW s \in Seq(S), s # << >>, IsInjective(s)
  PROVE  /\ Last(s) \in Range(s) /\ IsInjective(Front(s))
         /\ Range(Front(s)) = Range(s) \ {Last(s)}
<1>1. Len(s) \in Nat \ {0} /\ DOMAIN s = 1 .. Len(s) /\ s \in [1 .. Len(s) -> S]
  BY EmptySeq, LenProperties
<1> DEFINE n == Len(s)
<1>2. /\ Last(s) = s[n] /\ DOMAIN Front(s) = 1 .. n - 1
      /\ \A k \in 1 .. n - 1 : Front(s)[k] = s[k]
  <2>1. /\ Len(SubSeq(s, 1, n - 1)) = n - 1 /\ SubSeq(s, 1, n - 1) \in Seq(S)
        /\ \A k \in 1 .. n - 1 : SubSeq(s, 1, n - 1)[k] = s[k]
    BY <1>1, SubSeqProperties
  <2> QED BY <1>1, <2>1, LenProperties DEF Front, Last
<1>3. \A j, k \in 1 .. n : s[j] = s[k] => j = k
  BY <1>1 DEF IsInjective
<1> HIDE DEF n
<1>4. n \in Nat \ {0} /\ DOMAIN s = 1 .. n
  BY <1>1 DEF n
<1>5. IsInjective(Front(s))
  BY <1>2, <1>3, <1>4 DEF IsInjective
<1>6. Range(Front(s)) = {s[k] : k \in 1 .. n - 1} /\ Range(s) = {s[k] : k \in 1 .. n}
  BY <1>2, <1>4 DEF Range
<1>7. {s[k] : k \in 1 .. n - 1} = {s[k] : k \in 1 .. n} \ {s[n]}
  BY <1>3, <1>4
<1>8. Last(s) \in Range(s)
  BY <1>2, <1>4, <1>6
<1>9. Range(Front(s)) = Range(s) \ {Last(s)}
  BY ONLY <1>2, <1>6, <1>7, Zenon
<1> QED BY <1>5, <1>8, <1>9

LEMMA PushRange ==
  ASSUME NEW S, NEW s \in Seq(S), NEW x \in S, IsInjective(s), x \notin Range(s)
  PROVE  Range(Append(s, x)) = Range(s) \cup {x} /\ IsInjective(Append(s, x))
<1> DEFINE n == Len(s)
           t == Append(s, x)
<1>1. /\ n \in Nat /\ DOMAIN s = 1 .. n /\ DOMAIN t = 1 .. n + 1
      /\ \A k \in 1 .. n : t[k] = s[k]
      /\ t[n + 1] = x
  BY AppendProperties, LenProperties
<1> HIDE DEF n, t
<1>2. Range(t) = {t[k] : k \in 1 .. n + 1} /\ Range(s) = {s[k] : k \in 1 .. n}
  BY <1>1 DEF Range
<1>3. {t[k] : k \in 1 .. n + 1} = {s[k] : k \in 1 .. n} \cup {x}
  BY <1>1
<1>4. \A j, k \in 1 .. n : s[j] = s[k] => j = k
  BY <1>1 DEF IsInjective
<1>5. \A k \in 1 .. n : s[k] # x
  BY <1>2
<1>6. IsInjective(t)
  BY <1>1, <1>4, <1>5 DEF IsInjective
<1> QED BY <1>2, <1>3, <1>6 DEF t

LEMMA FallingRange ==
  ASSUME NEW n \in Nat, NEW S \in SUBSET (0 .. n - 1), NEW s \in Falling(S)
  PROVE  Range(s) = S /\ IsInjective(s)
<1>1. IsFiniteSet(S) /\ Cardinality(S) \in Nat
  <2>1. IsFiniteSet(0 .. n - 1)
    BY FS_Interval, n - 1 \in Int
  <2> QED BY <2>1, FS_Subset, FS_CardinalityType
<1> DEFINE m == Cardinality(S)
<1>2. s \in [1 .. m -> S] /\ \A i, k \in 1 .. m : i < k => s[i] > s[k]
  BY DEF Falling
<1>3. IsFiniteSet(1 .. m) /\ Cardinality(1 .. m) = m
  BY <1>1, FS_Interval
<1> HIDE DEF m
<1>4. \A i, k \in 1 .. m : s[i] = s[k] => i = k
  <2> SUFFICES ASSUME NEW i \in 1 .. m, NEW k \in 1 .. m, i # k PROVE s[i] # s[k]
    OBVIOUS
  <2>1. s[i] \in Int /\ s[k] \in Int
    <3>1. s[i] \in S /\ s[k] \in S
      BY <1>2
    <3>2. \A x \in S : x \in Int
      OBVIOUS
    <3> QED BY <3>1, <3>2
  <2>2. m \in Nat
    BY <1>1 DEF m
  <2>3. s[i] > s[k] \/ s[k] > s[i]
    BY <1>2, <2>2
  <2> QED BY <2>1, <2>3
<1>5. s \in Injection(1 .. m, S)
  BY <1>2, <1>4 DEF Injection, IsInjective
<1>6. s \in Surjection(1 .. m, S)
  BY <1>1, <1>3, <1>5, FS_Injection DEF m
<1>7. Range(s) = S
  BY <1>2, <1>6 DEF Range, Surjection
<1> QED BY <1>2, <1>4, <1>7 DEF IsInjective

(* The weights of a table and their sum, index by index.                    *)
LEMMA SumShift ==
  ASSUME NEW w \in Seq(Nat), NEW a \in Int, NEW b \in Int,
         NEW g, \A j \in 0 .. Len(w) - 1 : g[j] = a * w[j + 1] - b
  PROVE  SumFunctionOnSet(g, 0 .. Len(w) - 1) = a * SumFunction(w) - b * Len(w)
<1> DEFINE G(m) == SumFunctionOnSet(g, 0 .. m - 1)
           W(m) == SumFunctionOnSet(w, 1 .. m)
           N == {m \in Nat : m <= Len(w) => G(m) = a * W(m) - b * m}
<1>1. Len(w) \in Nat /\ \A k \in 1 .. Len(w) : w[k] \in Nat
  OBVIOUS
<1>2. \A j \in 0 .. Len(w) - 1 : g[j] \in Int /\ w[j + 1] \in Int
  BY <1>1
<1>3. ASSUME NEW m \in Nat, \A k \in Nat : k < m => k \in N PROVE m \in N
  <2>1. CASE m = 0
    <3>1. 0 .. m - 1 = {} /\ 1 .. m = {}
      BY <2>1
    <3>2. G(m) = 0 /\ W(m) = 0
      BY <3>1, SumEmpty
    <3> HIDE DEF G, W
    <3> QED BY <2>1, <3>2
  <2>2. CASE m # 0 /\ m <= Len(w)
    <3> DEFINE l == m - 1
    <3>1. l \in Nat /\ l < m /\ m = l + 1
      BY <2>2
    <3>2. l \in N
      <4> HIDE DEF N, l
      <4> QED BY <1>3, <3>1
    <3>3. G(l) = a * W(l) - b * l
      <4> HIDE DEF G, W, l
      <4> QED BY <2>2, <3>1, <3>2, <1>1
    <3>4. /\ 0 .. m - 1 = (0 .. l - 1) \cup {l} /\ l \notin 0 .. l - 1
          /\ 1 .. m = (1 .. l) \cup {m} /\ m \notin 1 .. l
      BY <3>1
    <3>a. IsFiniteSet(0 .. l - 1) /\ IsFiniteSet(1 .. l)
      BY <3>1, FS_Interval, l - 1 \in Int
    <3>5. /\ \A j \in (0 .. l - 1) \cup {l} : g[j] \in Int
          /\ \A k \in (1 .. l) \cup {m} : w[k] \in Int
      BY <1>1, <1>2, <2>2, <3>1
    <3>6. G(m) = G(l) + g[l] /\ G(l) \in Int
      <4>1. l \notin 0 .. l - 1 /\ 0 .. m - 1 = (0 .. l - 1) \cup {l}
        BY <3>4
      <4> HIDE DEF l
      <4>2. SumFunctionOnSet(g, (0 .. l - 1) \cup {l}) = SumFunctionOnSet(g, 0 .. l - 1) + g[l]
        BY <4>1, <3>5, <3>a, SumInsert
      <4>3. \A x \in 0 .. l - 1 : g[x] \in Int /\ g[x] = g[x]
        BY <3>5
      <4>4. SumFunctionOnSet(g, 0 .. l - 1) \in Int
        BY <4>3, <3>a, SumExt
      <4> QED BY <4>1, <4>2, <4>4
    <3>7. W(m) = W(l) + w[m] /\ W(l) \in Int
      <4>1. m \notin 1 .. l /\ 1 .. m = (1 .. l) \cup {m}
        BY <3>4
      <4> HIDE DEF l
      <4>2. SumFunctionOnSet(w, (1 .. l) \cup {m}) = SumFunctionOnSet(w, 1 .. l) + w[m]
        BY <4>1, <3>5, <3>a, SumInsert
      <4>3. \A x \in 1 .. l : w[x] \in Int /\ w[x] = w[x]
        BY <3>5
      <4>4. SumFunctionOnSet(w, 1 .. l) \in Int
        BY <4>3, <3>a, SumExt
      <4> QED BY <4>1, <4>2, <4>4
    <3>8. g[l] = a * w[m] - b /\ w[m] \in Int
      BY <1>1, <2>2, <3>1
    <3> HIDE DEF G, W, l
    <3>9. a * (W(l) + w[m]) = a * W(l) + a * w[m] /\ b * (l + 1) = b * l + b
      BY <3>1, <3>7, <3>8
    <3>10. a * W(l) \in Int /\ a * w[m] \in Int /\ b * l \in Int
      BY <3>1, <3>7, <3>8
    <3> QED BY <3>1, <3>3, <3>6, <3>7, <3>8, <3>9, <3>10
  <2> QED BY <1>1, <2>1, <2>2
<1> HIDE DEF N
<1>4. Len(w) \in N
  <2>1. N \subseteq Nat
    BY DEF N
  <2>2. N = Nat
    BY <1>3, <2>1, StrongInduction
  <2> QED BY <1>1, <2>2
<1>5. W(Len(w)) = SumFunction(w)
  <2>1. DOMAIN w = 1 .. Len(w)
    OBVIOUS
  <2> QED BY <2>1 DEF SumFunction
<1> HIDE DEF G, W
<1>6. G(Len(w)) = a * SumFunction(w) - b * Len(w)
  BY <1>1, <1>4, <1>5 DEF N
<1> QED BY <1>6 DEF G

LEMMA SumAtMost ==
  ASSUME NEW S, IsFiniteSet(S), NEW f, \A x \in S : f[x] \in Int /\ f[x] <= 0
  PROVE  /\ SumFunctionOnSet(f, S) \in Int
         /\ \A x \in S : SumFunctionOnSet(f, S) <= f[x]
<1> DEFINE g == [x \in S |-> -f[x]]
           F == SumFunctionOnSet(f, S)
           G == SumFunctionOnSet(g, S)
<1>1. \A x \in S : g[x] \in Int /\ g[x] >= 0 /\ g[x] = -f[x]
  OBVIOUS
<1> HIDE DEF g
<1>2. F \in Int /\ G \in Int /\ Cardinality(S) \in Nat
  BY <1>1, SumExt, FS_CardinalityType
<1>3. \A x \in S : g[x] <= G
  BY <1>1, SumAtLeast
<1>4. (-1) * F - G <= 0 * Cardinality(S) /\ G - (-1) * F <= 0 * Cardinality(S)
  <2>1. \A x \in S : (-1) * f[x] - g[x] <= 0 /\ g[x] - (-1) * f[x] <= 0
    BY <1>1
  <2>2. -1 \in Int /\ 0 \in Int /\ \A x \in S : f[x] \in Int /\ g[x] \in Int
    BY <1>1
  <2> QED BY <2>1, <2>2, SumDistance
<1> HIDE DEF F, G
<1>5. G = -F
  BY <1>2, <1>4
<1>6. \A x \in S : F <= f[x]
  BY <1>1, <1>2, <1>3, <1>5
<1> QED BY <1>2, <1>6 DEF F
-----------------------------------------------------------------------------
(* What the pairing loop keeps, which MassKept needs of it.                 *)
Entries == Indices(given)
Listed == Range(small) \cup Range(large)            \* still on a worklist
Taken == Len(given) - Cardinality(Listed)
Unit == Total(given) * Eps                          \* the error of one operation
Within(x, y, b) == x - y <= b /\ y - x <= b

(* What index j is to get of the draws, and what the entries that have left *)
(* a worklist give it.                                                     *)
Share(j) == Len(given) * One * given[j + 1]
Spare == [i \in Entries |-> One - probs[i]]
Donors(j) == {i \in Entries \ Listed : aliases[i] = j}
Held(j) == SumFunctionOnSet(Spare, Donors(j))

(* How far its weight is from the rest of its share, and from 1.0.          *)
Owed(j) == Total(given) * (weights[j] + Held(j)) - Share(j)
Excess == [i \in Entries |-> weights[i] - One]

(* The worklists hold each index once, on the side its weight belongs to.   *)
Lists ==
  /\ weights \in [Entries -> Int] /\ probs \in [Entries -> Int]
  /\ IsInjective(small) /\ IsInjective(large) /\ Range(small) \cap Range(large) = {}
  /\ \A i \in Range(small) : weights[i] < One
  /\ \A i \in Range(large) : weights[i] >= One

(* An entry that has left its worklist has its share.                      *)
Done ==
  \A j \in Entries \ Listed :
    Within(Total(given) * (probs[j] + Held(j)), Share(j), Unit * (2 * Len(given) - 1))

(* While two are paired: each one's weight is what its share still lacks,   *)
(* and the weights that are left add up to 1.0 for each of them, up to one  *)
(* error of each entry and one of each pairing.                            *)
Pairing ==
  \A j \in Listed :
    /\ Within(Owed(j), 0, Unit * (Taken + 1))
    /\ Within(Total(given) * SumFunctionOnSet(Excess, Listed), Owed(j), Unit * (Len(given) - 1 + Taken))

(* When one worklist is empty: 1.0 is what the share of each one lacks.     *)
Settling ==
  \A j \in Listed :
    Within(Total(given) * (One + Held(j)), Share(j), Unit * (2 * Len(given) - 1))

MassInv ==
  /\ phase = "pair" =>
       Lists /\ Done /\ (IF small # << >> /\ large # << >> THEN Pairing ELSE Settling)
  /\ MassKept

LEMMA TotalType ==
  ASSUME NEW w \in WeightVectors
  PROVE  /\ w \in Seq(Nat) /\ Len(w) \in Nat \ {0} /\ Total(w) \in Nat \ {0}
         /\ One \in Nat \ {0} /\ Eps \in Nat \ {0}
         /\ \A j \in 0 .. Len(w) - 1 : w[j + 1] \in Nat
<1>1. w \in Seq(Nat) /\ Len(w) \in Nat \ {0} /\ Total(w) > 0 /\ One \in Nat \ {0} /\ Eps \in Nat \ {0}
  BY SamplerAssumption, DoubleAssumption
<1>2. DOMAIN w = 1 .. Len(w) /\ \A k \in 1 .. Len(w) : w[k] \in Nat
  BY <1>1
<1>3. IsFiniteSet(1 .. Len(w)) /\ \A k \in 1 .. Len(w) : w[k] \in Int /\ w[k] = w[k]
  BY <1>1, <1>2, FS_Interval
<1>4. SumFunctionOnSet(w, 1 .. Len(w)) \in Int
  BY <1>3, SumExt
<1>5. Total(w) \in Int
  BY <1>2, <1>4 DEF Total, SumFunction
<1> QED BY <1>1, <1>2, <1>5

LEMMA PairTypes ==
  ASSUME SamplerInv, phase = "pair", Lists
  PROVE  /\ Len(given) \in Nat \ {0} /\ Entries = 0 .. Len(given) - 1 /\ IsFiniteSet(Entries)
         /\ Total(given) \in Nat \ {0} /\ One \in Nat \ {0} /\ Eps \in Nat \ {0} /\ Unit \in Nat
         /\ small \in Seq(Entries) /\ large \in Seq(Entries) /\ Listed \in SUBSET Entries /\ IsFiniteSet(Listed)
         /\ Cardinality(Listed) \in Nat /\ Taken \in Nat
         /\ Listed # {} => Taken + 1 <= Len(given)
         /\ \A j \in Entries : Share(j) \in Int /\ weights[j] \in Int /\ probs[j] \in Int
         /\ \A j : Held(j) \in Int
<1> DEFINE n == Len(given)
<1>1. given \in WeightVectors /\ small \in Seq(Entries) /\ large \in Seq(Entries)
  BY DEF SamplerInv, PlaceInv, TableInv, Entries
<1>2. /\ given \in Seq(Nat) /\ n \in Nat \ {0} /\ Total(given) \in Nat \ {0}
      /\ One \in Nat \ {0} /\ Eps \in Nat \ {0}
      /\ \A j \in 0 .. n - 1 : given[j + 1] \in Nat
  BY <1>1, TotalType
<1>3. Entries = 0 .. n - 1 /\ IsFiniteSet(Entries) /\ Cardinality(Entries) = n
  <2>1. 0 <= n - 1 /\ n - 1 \in Int /\ (n - 1) - 0 + 1 = n
    BY <1>2
  <2>2. IsFiniteSet(0 .. n - 1) /\ Cardinality(0 .. n - 1) = (n - 1) - 0 + 1
    BY <2>1, FS_Interval
  <2> QED BY <2>1, <2>2 DEF Entries, Indices
<1>4. Listed \in SUBSET Entries
  <2>1. Range(small) \subseteq Entries /\ Range(large) \subseteq Entries
    BY <1>1 DEF Range
  <2> QED BY <2>1 DEF Listed
<1>5. IsFiniteSet(Listed) /\ Cardinality(Listed) \in Nat /\ Cardinality(Listed) <= n
  BY <1>3, <1>4, FS_Subset, FS_CardinalityType
<1>6. Listed # {} => Cardinality(Listed) >= 1
  BY <1>5, FS_EmptySet
<1>7. Taken \in Nat /\ (Listed # {} => Taken + 1 <= n)
  BY <1>2, <1>5, <1>6 DEF Taken
<1>8. Unit \in Nat
  BY <1>2 DEF Unit
<1>9. \A j \in Entries : weights[j] \in Int /\ probs[j] \in Int
  BY DEF Lists
<1>10. \A j \in Entries : Share(j) \in Int
  <2> TAKE j \in Entries
  <2>1. n * One \in Nat /\ given[j + 1] \in Nat
    BY <1>2, <1>3
  <2> QED BY <2>1 DEF Share
<1>11. \A j : Held(j) \in Int
  <2> TAKE j
  <2>1. IsFiniteSet(Donors(j)) /\ Donors(j) \subseteq Entries
    BY <1>3, FS_Subset DEF Donors
  <2>2. \A i \in Donors(j) : Spare[i] \in Int /\ Spare[i] = Spare[i]
    BY <1>2, <1>9, <2>1 DEF Spare
  <2> QED BY <2>1, <2>2, SumExt DEF Held
<1> QED BY <1>1, <1>2, <1>3, <1>4, <1>5, <1>7, <1>8, <1>9, <1>10, <1>11

(* When one worklist is empty, what is left on the other is 1.0 up to the   *)
(* errors that have been made.                                             *)
LEMMA Settles ==
  ASSUME SamplerInv, phase = "pair", Lists, Pairing, small = << >> \/ large = << >>
  PROVE  Settling
<1> SUFFICES ASSUME NEW j \in Listed
             PROVE  Within(Total(given) * (One + Held(j)), Share(j), Unit * (2 * Len(given) - 1))
  BY DEF Settling
<1> DEFINE n == Len(given)
           t == Total(given)
           e == weights[j] - One
           R == SumFunctionOnSet(Excess, Listed)
           o == Owed(j)
<1>1. /\ n \in Nat \ {0} /\ t \in Nat \ {0} /\ One \in Nat \ {0} /\ Unit \in Nat
      /\ Listed \in SUBSET Entries /\ IsFiniteSet(Listed) /\ Taken \in Nat /\ Taken + 1 <= n
      /\ Share(j) \in Int /\ weights[j] \in Int /\ Held(j) \in Int
  BY PairTypes
<1>2. \A i \in Listed : Excess[i] = weights[i] - One /\ weights[i] \in Int
  BY <1>1 DEF Excess, Lists
<1>3. R \in Int /\ e \in Int /\ ((0 <= e /\ e <= R) \/ (e <= 0 /\ R <= e))
  <2>1. CASE small = << >>
    <3>1. Listed = Range(large)
      BY <2>1 DEF Listed, Range
    <3>2. \A i \in Listed : Excess[i] \in Int /\ Excess[i] >= 0
      BY <1>1, <1>2, <3>1 DEF Lists
    <3>3. R \in Int /\ \A i \in Listed : Excess[i] <= R
      BY <1>1, <3>2, SumAtLeast
    <3>4. e = Excess[j]
      BY <1>2
    <3> HIDE DEF R, e
    <3> QED BY <3>2, <3>3, <3>4
  <2>2. CASE large = << >>
    <3>1. Listed = Range(small)
      BY <2>2 DEF Listed, Range
    <3>2. \A i \in Listed : Excess[i] \in Int /\ Excess[i] <= 0
      BY <1>1, <1>2, <3>1 DEF Lists
    <3>3. R \in Int /\ \A i \in Listed : R <= Excess[i]
      BY <1>1, <3>2, SumAtMost
    <3>4. e = Excess[j]
      BY <1>2
    <3> HIDE DEF R, e
    <3> QED BY <3>2, <3>3, <3>4
  <2> QED BY <2>1, <2>2
<1>4. /\ Within(o, 0, Unit * (Taken + 1))
      /\ Within(t * R, o, Unit * (n - 1 + Taken))
  BY DEF Pairing
<1>5. o = t * (weights[j] + Held(j)) - Share(j)
  BY DEF Owed
<1>6. /\ Unit * (Taken + 1) <= Unit * (2 * n - 1) /\ Unit * (n - 1 + Taken) <= Unit * (2 * n - 1)
      /\ Unit * (Taken + 1) \in Int /\ Unit * (n - 1 + Taken) \in Int /\ Unit * (2 * n - 1) \in Int
  <2>1. Taken + 1 \in Nat /\ n - 1 + Taken \in Nat /\ 2 * n - 1 \in Nat
    BY <1>1
  <2>2. Taken + 1 <= 2 * n - 1 /\ n - 1 + Taken <= 2 * n - 1
    BY <1>1
  <2> HIDE DEF n
  <2>3. Unit * (Taken + 1) <= Unit * (2 * n - 1)
    BY ONLY <1>1, <2>1, <2>2, TimesGrows
  <2>4. Unit * (n - 1 + Taken) <= Unit * (2 * n - 1)
    BY ONLY <1>1, <2>1, <2>2, TimesGrows
  <2> QED BY <1>1, <2>1, <2>3, <2>4
<1>7. t * (One + Held(j)) = t * (weights[j] + Held(j)) - t * e
  BY <1>1
<1>8. t * e \in Int /\ t * R \in Int /\ ((0 <= t * e /\ t * e <= t * R) \/ (t * e <= 0 /\ t * R <= t * e))
  <2> HIDE DEF t, e, R
  <2>1. CASE 0 <= e /\ e <= R
    <3>1. e \in Nat /\ R \in Nat
      BY <1>3, <2>1
    <3>2. t * e <= t * R /\ t * e \in Nat /\ t * R \in Nat
      <4>1. t \in Nat /\ t * e \in Nat /\ t * R \in Nat
        BY <1>1, <3>1
      <4>2. t * e <= t * R
        BY ONLY <2>1, <3>1, <4>1, TimesGrows
      <4> QED BY <4>1, <4>2
    <3> QED BY <3>2
  <2>2. CASE e <= 0 /\ R <= e
    <3>1. -e \in Nat /\ -R \in Nat /\ -e <= -R
      BY <1>3, <2>2
    <3>2. t * (-e) <= t * (-R) /\ t * (-e) \in Nat /\ t * (-R) \in Nat
      BY <1>1, <3>1, TimesGrows
    <3>3. t * (-e) = -(t * e) /\ t * (-R) = -(t * R) /\ t * e \in Int /\ t * R \in Int
      BY <1>1, <1>3
    <3> QED BY <3>2, <3>3
  <2> QED BY <1>3, <2>1, <2>2
<1>9. t * (weights[j] + Held(j)) \in Int /\ o \in Int
  BY <1>1, <1>5
<1> DEFINE x == t * (One + Held(j))
           y == t * (weights[j] + Held(j))
           z == t * e
           p == t * R
           u == Unit * (Taken + 1)
           v == Unit * (n - 1 + Taken)
           b == Unit * (2 * n - 1)
<1>10. /\ x = y - z /\ o = y - Share(j) /\ o - 0 <= u /\ 0 - o <= u
       /\ p - o <= v /\ o - p <= v /\ u <= b /\ v <= b
       /\ z \in Int /\ p \in Int /\ ((0 <= z /\ z <= p) \/ (z <= 0 /\ p <= z))
       /\ y \in Int /\ o \in Int /\ u \in Int /\ v \in Int /\ b \in Int /\ Share(j) \in Int
  BY <1>1, <1>4, <1>5, <1>6, <1>7, <1>8, <1>9 DEF Within
<1> HIDE DEF x, y, z, p, u, v, b, o
<1>11. x - Share(j) <= b /\ Share(j) - x <= b
  BY <1>10, SMTT(30)
<1> QED BY <1>11 DEF Within, x, b

LEMMA Distribute ==
  ASSUME NEW a \in Int, NEW b \in Int, NEW c \in Int
  PROVE  a * (b - c) = a * b - a * c /\ a * (b + c) = a * b + a * c /\ a * b \in Int /\ a * c \in Int
OBVIOUS

LEMMA NormalisedAlone ==
  ASSUME NEW t \in Nat \ {0}, NEW x \in Nat, NEW e \in 0 .. Eps, Eps \in Nat \ {0}
  PROVE  Within(t * ((x \div t) + e) - x, 0, t * Eps) /\ (x \div t) + e \in Nat
<1> DEFINE q == x \div t
           r == x % t
<1>1. q \in Nat /\ r \in 0 .. t - 1 /\ x = t * q + r
  BY DivMod
<1> HIDE DEF q, r
<1>2. t * (q + e) = t * q + t * e /\ t * q \in Nat
  BY <1>1
<1>3. t * e <= t * Eps /\ t * e \in Nat /\ t * Eps \in Nat
  <2>1. t \in Nat /\ e \in Nat /\ Eps \in Nat /\ e <= Eps
    OBVIOUS
  <2> QED BY ONLY <2>1, TimesGrows
<1>4. t <= t * Eps
  <2>1. t \in Nat /\ 1 \in Nat /\ Eps \in Nat /\ 1 <= Eps
    OBVIOUS
  <2>2. t * 1 <= t * Eps
    BY ONLY <2>1, TimesGrows
  <2> QED BY <2>2
<1>5. t * (q + e) - x = t * e - r
  BY <1>1, <1>2, <1>3
<1>6. Within(t * (q + e) - x, 0, t * Eps)
  <2> DEFINE z == t * (q + e) - x
             y == t * e
             b == t * Eps
  <2>1. z = y - r /\ y <= b /\ t <= b /\ y \in Nat /\ b \in Nat /\ r \in 0 .. t - 1 /\ t \in Nat
    BY <1>1, <1>3, <1>4, <1>5
  <2> HIDE DEF z, y, b
  <2>2. z - 0 <= b /\ 0 - z <= b
    BY <2>1
  <2> QED BY <2>2 DEF Within, z, b
<1> QED BY <1>1, <1>6 DEF q

(* The weights of a table as it is begun.                                  *)
LEMMA Normalised ==
  ASSUME NEW w \in WeightVectors,
         NEW v, \A j \in 0 .. Len(w) - 1 : \E e \in 0 .. Eps :
                  v[j] = ((Len(w) * One * w[j + 1]) \div Total(w)) + e,
         NEW f, f = [i \in 0 .. Len(w) - 1 |-> v[i] - One],
         NEW j \in 0 .. Len(w) - 1
  PROVE  /\ v[j] \in Nat
         /\ Within(Total(w) * v[j] - Len(w) * One * w[j + 1], 0, Total(w) * Eps)
         /\ Within(Total(w) * SumFunctionOnSet(f, 0 .. Len(w) - 1),
                   Total(w) * v[j] - Len(w) * One * w[j + 1], Total(w) * Eps * (Len(w) - 1))
<1> DEFINE n == Len(w)
           t == Total(w)
           E == 0 .. n - 1
           g == [i \in E |-> n * One * w[i + 1] - t * One]
           c == t * Eps
<1>1. /\ w \in Seq(Nat) /\ n \in Nat \ {0} /\ t \in Nat \ {0} /\ One \in Nat \ {0} /\ Eps \in Nat \ {0}
      /\ \A i \in E : w[i + 1] \in Nat
  BY TotalType
<1>2. ASSUME NEW i \in E
      PROVE  v[i] \in Nat /\ n * One * w[i + 1] \in Nat
             /\ Within(t * v[i] - n * One * w[i + 1], 0, c)
  <2>1. n * One * w[i + 1] \in Nat
    <3>1. n * One \in Nat /\ w[i + 1] \in Nat
      BY <1>1
    <3> QED BY <3>1
  <2>2. PICK e \in 0 .. Eps : v[i] = ((n * One * w[i + 1]) \div t) + e
    OBVIOUS
  <2> HIDE DEF n, t
  <2> QED BY <1>1, <2>1, <2>2, NormalisedAlone
<1>3. IsFiniteSet(E) /\ Cardinality(E) = n
  <2>1. 0 <= n - 1 /\ n - 1 \in Int /\ (n - 1) - 0 + 1 = n
    BY <1>1
  <2>2. IsFiniteSet(0 .. n - 1) /\ Cardinality(0 .. n - 1) = (n - 1) - 0 + 1
    BY <2>1, FS_Interval
  <2> QED BY <2>1, <2>2
<1> DEFINE S == E \ {j}
<1>4. IsFiniteSet(S) /\ Cardinality(S) = n - 1
  BY <1>3, FS_RemoveElement
<1>5. \A i \in E : f[i] = v[i] - One /\ f[i] \in Int /\ g[i] \in Int
                   /\ g[i] = n * One * w[i + 1] - t * One
  <2> TAKE i \in E
  <2>1. f[i] = v[i] - One /\ g[i] = n * One * w[i + 1] - t * One
    OBVIOUS
  <2>2. v[i] \in Nat /\ n * One * w[i + 1] \in Nat /\ t * One \in Nat
    BY <1>1, <1>2
  <2>3. v[i] - One \in Int
    BY <1>1, <2>2, SMTT(30)
  <2>4. n * One * w[i + 1] - t * One \in Int
    BY <2>2
  <2> HIDE DEF g, n, t
  <2> QED BY ONLY <2>1, <2>3, <2>4, Zenon
<1>6. SumFunctionOnSet(g, E) = 0
  <2>1. SumFunctionOnSet(g, 0 .. Len(w) - 1) = (n * One) * SumFunction(w) - (t * One) * Len(w)
    <3>1. n * One \in Int /\ t * One \in Int /\ w \in Seq(Nat)
      BY <1>1
    <3>2. \A k \in 0 .. Len(w) - 1 : g[k] = (n * One) * w[k + 1] - t * One
      OBVIOUS
    <3> HIDE DEF g, n, t
    <3> QED BY <3>1, <3>2, SumShift
  <2>2. (n * One) * t = (t * One) * n
    BY <1>1
  <2>3. SumFunction(w) = t
    BY DEF Total
  <2>4. (t * One) * n \in Int
    BY <1>1
  <2> HIDE DEF g, t, n
  <2> QED BY <2>1, <2>2, <2>3, <2>4 DEF n
<1> HIDE DEF g
<1>7. /\ SumFunctionOnSet(g, E) = SumFunctionOnSet(g, S) + g[j]
      /\ SumFunctionOnSet(f, E) = SumFunctionOnSet(f, S) + f[j]
      /\ SumFunctionOnSet(g, S) \in Int /\ SumFunctionOnSet(f, S) \in Int
  <2>1. j \in E /\ (\A i \in E : g[i] \in Int) /\ (\A i \in E : f[i] \in Int)
    BY <1>5
  <2>2. \A i \in S : g[i] \in Int /\ f[i] \in Int /\ g[i] = g[i] /\ f[i] = f[i]
    BY <1>5
  <2> HIDE DEF E
  <2>3. SumFunctionOnSet(g, E) = SumFunctionOnSet(g, S) + g[j]
    BY <1>3, <2>1, SumRemove
  <2>4. SumFunctionOnSet(f, E) = SumFunctionOnSet(f, S) + f[j]
    BY <1>3, <2>1, SumRemove
  <2> HIDE DEF S
  <2>5. SumFunctionOnSet(g, S) \in Int /\ SumFunctionOnSet(f, S) \in Int
    BY <1>4, <2>2, SumExt
  <2> QED BY <2>3, <2>4, <2>5
<1> DEFINE F == SumFunctionOnSet(f, S)
           G == SumFunctionOnSet(g, S)
<1>8. t * F - G <= c * (n - 1) /\ G - t * F <= c * (n - 1)
  <2>1. ASSUME NEW i \in S PROVE t * f[i] - g[i] <= c /\ g[i] - t * f[i] <= c
    <3>1. i \in E
      OBVIOUS
    <3>2. /\ f[i] = v[i] - One /\ g[i] = n * One * w[i + 1] - t * One
          /\ Within(t * v[i] - n * One * w[i + 1], 0, c)
          /\ v[i] \in Nat /\ n * One * w[i + 1] \in Nat
      BY <1>2, <1>5, <3>1
    <3> HIDE DEF n, c
    <3> DEFINE y == n * One * w[i + 1]
    <3>3. t * f[i] = t * v[i] - t * One /\ t * v[i] \in Int /\ t * One \in Int /\ c \in Int
      <4> HIDE DEF t
      <4>1. t * (v[i] - One) = t * v[i] - t * One /\ t * v[i] \in Int /\ t * One \in Int
        <5>1. t \in Int /\ v[i] \in Int /\ One \in Int
          BY <1>1, <3>2
        <5> QED BY ONLY <5>1, Distribute
      <4>2. c \in Int
        BY <1>1 DEF c
      <4> QED BY ONLY <3>2, <4>1, <4>2, Zenon
    <3>4. g[i] = y - t * One /\ Within(t * v[i] - y, 0, c) /\ y \in Int
      BY <3>2
    <3> HIDE DEF y
    <3>5. t * v[i] - y - 0 <= c /\ 0 - (t * v[i] - y) <= c
      BY <3>4 DEF Within
    <3> QED BY <3>3, <3>4, <3>5
  <2>2. \A i \in S : f[i] \in Int /\ g[i] \in Int
    BY <1>5
  <2>3. t \in Int /\ c \in Int
    BY <1>1
  <2> HIDE DEF S, t, c
  <2> QED BY <1>4, <2>1, <2>2, <2>3, SumDistance
<1>9. t * v[j] - n * One * w[j + 1] = t * f[j] - g[j]
  <2>1. f[j] = v[j] - One /\ g[j] = n * One * w[j + 1] - t * One /\ v[j] \in Nat
        /\ n * One * w[j + 1] \in Nat /\ t * One \in Nat
    BY <1>1, <1>2, <1>5
  <2> HIDE DEF n, t
  <2>2. t * (v[j] - One) = t * v[j] - t * One /\ t * v[j] \in Int
    <3>1. t \in Int /\ v[j] \in Int /\ One \in Int
      BY <1>1, <2>1
    <3> QED BY ONLY <3>1, Distribute
  <2>3. t * f[j] = t * v[j] - t * One
    BY ONLY <2>1, <2>2, Zenon
  <2> QED BY <2>1, <2>2, <2>3
<1>10. Within(t * SumFunctionOnSet(f, E), t * v[j] - n * One * w[j + 1], c * (n - 1))
  <2>a. f[j] \in Int /\ g[j] \in Int
    BY <1>5
  <2> HIDE DEF E
  <2>b. 0 = G + g[j] /\ F \in Int /\ G \in Int /\ SumFunctionOnSet(f, E) = F + f[j]
    BY ONLY <1>6, <1>7, Zenon
  <2>1. f[j] \in Int /\ g[j] \in Int /\ F \in Int /\ G \in Int /\ G = -g[j]
        /\ SumFunctionOnSet(f, E) = F + f[j]
    <3> HIDE DEF F, G
    <3>1. g[j] \in Int /\ G \in Int /\ 0 = G + g[j]
      BY ONLY <2>a, <2>b, Zenon
    <3>2. G = -g[j]
      BY ONLY <3>1
    <3> QED BY ONLY <2>a, <2>b, <3>2, Zenon
  <2>c. c * (n - 1) \in Int /\ t \in Int
    BY <1>1
  <2> HIDE DEF F, G, c, n, t
  <2>2. t * (F + f[j]) = t * F + t * f[j] /\ t * F \in Int /\ t * f[j] \in Int
    BY <2>c, <2>1
  <2>3. t * SumFunctionOnSet(f, E) = t * F + t * f[j]
    BY ONLY <2>1, <2>2, Zenon
  <2> DEFINE x == t * SumFunctionOnSet(f, E)
             y == t * v[j] - n * One * w[j + 1]
             k == c * (n - 1)
             p == t * F
             q == t * f[j]
  <2>4. /\ x = p + q /\ y = q - g[j] /\ G = -g[j] /\ p - G <= k /\ G - p <= k
        /\ p \in Int /\ q \in Int /\ k \in Int /\ g[j] \in Int
    BY ONLY <1>8, <1>9, <2>1, <2>2, <2>3, <2>c, Zenon
  <2> HIDE DEF x, y, k, p, q
  <2>5. x - y <= k /\ y - x <= k
    BY <2>4
  <2> QED BY <2>5 DEF Within, x, y, k
<1> QED BY <1>2, <1>10

LEMMA NormaliseMass ==
  ASSUME NEW w \in WeightVectors, Normalise(w)
  PROVE  Lists' /\ Done' /\ Pairing'
<1> DEFINE n == Len(w)
           E == 0 .. n - 1
           S == {j \in E : weights'[j] < One}
           L == {j \in E : weights'[j] >= One}
<1>1. /\ n \in Nat \ {0} /\ Total(w) \in Nat \ {0} /\ One \in Nat \ {0} /\ Eps \in Nat \ {0}
  BY TotalType
<1>2. PICK error \in [E -> 0 .. Eps] : weights' = Normal(w, error)
  BY DEF Normalise, Indices
<1>3. /\ DOMAIN weights' = E
      /\ \A j \in E : \E e \in 0 .. Eps :
           weights'[j] = ((n * One * w[j + 1]) \div Total(w)) + e
  BY <1>2 DEF Normal, Indices
<1> DEFINE f == [i \in E |-> weights'[i] - One]
<1>4. ASSUME NEW j \in E
      PROVE  /\ weights'[j] \in Nat
             /\ Within(Total(w) * weights'[j] - n * One * w[j + 1], 0, Total(w) * Eps)
             /\ Within(Total(w) * SumFunctionOnSet(f, E),
                       Total(w) * weights'[j] - n * One * w[j + 1], Total(w) * Eps * (n - 1))
  <2>1. f = [i \in 0 .. Len(w) - 1 |-> weights'[i] - One]
    OBVIOUS
  <2> HIDE DEF f
  <2> QED BY <1>3, <2>1, Normalised
<1>5. weights' \in [E -> Int] /\ probs' = [j \in E |-> 0] /\ probs' \in [E -> Int] /\ given' = w
  <2>1. \A j \in E : weights'[j] \in Int
    <3> HIDE DEF E, f
    <3> TAKE j \in E
    <3>1. weights'[j] \in Nat
      BY <1>4
    <3> QED BY <3>1
  <2>2. weights' = [j \in E |-> weights'[j]]
    BY <1>2 DEF Normal, Indices
  <2>3. weights' \in [E -> Int]
    <3> HIDE DEF E
    <3> QED BY <2>1, <2>2
  <2>4. probs' = [j \in E |-> 0] /\ given' = w
    BY DEF Normalise, Indices
  <2> QED BY <2>3, <2>4
<1>6. /\ Range(small') = S /\ IsInjective(small') /\ Range(large') = L /\ IsInjective(large')
  <2>1. small' \in Falling(S) /\ large' \in Falling(L)
    BY DEF Normalise, Indices
  <2>2. S \in SUBSET (0 .. n - 1) /\ L \in SUBSET (0 .. n - 1) /\ n \in Nat
    BY <1>1
  <2> HIDE DEF S, L, n
  <2> QED BY <2>1, <2>2, FallingRange
<1>7. Entries' = E /\ Listed' = E
  <2>1. S \cup L = E
    BY <1>1, <1>5
  <2> QED BY <1>5, <1>6, <2>1 DEF Entries, Listed, Indices
<1>8. Lists'
  <2>1. S \cap L = {}
    BY <1>1, <1>5
  <2> QED BY <1>5, <1>6, <1>7, <2>1 DEF Lists
<1>9. Done'
  BY <1>7 DEF Done
<1>10. \A j : Held(j)' = 0
  <2> TAKE j
  <2>1. Donors(j)' = {}
    BY <1>7 DEF Donors
  <2> QED BY <2>1, SumEmpty DEF Held
<1>11. Taken' = 0
  <2>1. 0 <= n - 1 /\ n - 1 \in Int /\ (n - 1) - 0 + 1 = n
    BY <1>1
  <2>2. Cardinality(0 .. n - 1) = (n - 1) - 0 + 1
    BY <2>1, FS_Interval
  <2> QED BY <1>1, <1>5, <1>7, <2>1, <2>2 DEF Taken
<1>12. Pairing'
  <2> SUFFICES ASSUME NEW j \in E
               PROVE  /\ Within(Owed(j)', 0, Unit' * (Taken' + 1))
                      /\ Within(Total(given') * SumFunctionOnSet(Excess', E), Owed(j)',
                                Unit' * (Len(given') - 1 + Taken'))
    BY <1>7 DEF Pairing
  <2>1. Owed(j)' = Total(w) * (weights'[j] + 0) - n * One * w[j + 1]
    BY <1>5, <1>10 DEF Owed, Share
  <2>2. weights'[j] + 0 = weights'[j]
    <3> HIDE DEF E, f
    <3>1. weights'[j] \in Nat
      BY <1>4
    <3> QED BY <3>1
  <2>3. Unit' = Total(w) * Eps /\ Excess' = f
    BY <1>5, <1>7 DEF Unit, Excess
  <2>4. (Total(w) * Eps) * (0 + 1) = Total(w) * Eps /\ n - 1 + 0 = n - 1
    BY <1>1
  <2> HIDE DEF f, E, n
  <2> QED BY <1>4, <1>5, <1>11, <2>1, <2>2, <2>3, <2>4 DEF n
<1> QED BY <1>8, <1>9, <1>12

(* What a sum of excesses becomes when one entry is taken off.              *)
LEMMA SumMoved ==
  ASSUME NEW L, IsFiniteSet(L), NEW a \in L, NEW g \in L, a # g,
         NEW f, \A i \in L : f[i] \in Int, NEW h, \A i \in L : h[i] \in Int,
         \A i \in L \ {a, g} : h[i] = f[i]
  PROVE  /\ SumFunctionOnSet(f, L) \in Int
         /\ SumFunctionOnSet(h, L \ {a}) = SumFunctionOnSet(f, L) - f[a] - f[g] + h[g]
<1> DEFINE M == L \ {a}
           N == M \ {g}
<1>1. IsFiniteSet(M) /\ IsFiniteSet(N) /\ g \in M /\ N \subseteq L
  BY FS_Subset
<1>2. \A i \in M : f[i] \in Int /\ h[i] \in Int
  OBVIOUS
<1>3. \A i \in N : f[i] \in Int /\ h[i] = f[i]
  OBVIOUS
<1> HIDE DEF N
<1>4. SumFunctionOnSet(f, L) = SumFunctionOnSet(f, M) + f[a]
  BY SumRemove
<1>5. SumFunctionOnSet(f, M) = SumFunctionOnSet(f, N) + f[g]
  <2> HIDE DEF M
  <2> QED BY <1>1, <1>2, SumRemove DEF N
<1>6. SumFunctionOnSet(h, M) = SumFunctionOnSet(h, N) + h[g]
  <2> HIDE DEF M
  <2> QED BY <1>1, <1>2, SumRemove DEF N
<1>7. SumFunctionOnSet(f, N) \in Int /\ SumFunctionOnSet(h, N) = SumFunctionOnSet(f, N)
  BY <1>1, <1>3, SumExt
<1>8. f[a] \in Int /\ f[g] \in Int /\ h[g] \in Int
  OBVIOUS
<1> QED BY <1>4, <1>5, <1>6, <1>7, <1>8

(* What pairing does to the worklists.                                     *)
LEMMA PairUpLists ==
  ASSUME SamplerInv, Lists, PairUp
  PROVE  /\ Lists' /\ Listed' = Listed \ {Last(small)}
         /\ Last(small) \in Listed /\ Last(large) \in Listed /\ Last(small) # Last(large)
         /\ weights[Last(small)] < One
         /\ \E x \in Int :
              /\ Within(x, weights[Last(large)] + weights[Last(small)] - One, Eps)
              /\ weights' = [weights EXCEPT ![Last(large)] = x]
         /\ probs' = [probs EXCEPT ![Last(small)] = weights[Last(small)]]
         /\ given' = given
<1> DEFINE a == Last(small)
           g == Last(large)
<1>1. /\ phase = "pair" /\ small # << >> /\ large # << >> /\ given' = given
      /\ probs' = [probs EXCEPT ![a] = weights[a]]
  BY DEF PairUp
<1>2. /\ small \in Seq(Entries) /\ large \in Seq(Entries) /\ Listed \in SUBSET Entries
      /\ One \in Nat \ {0} /\ Eps \in Nat \ {0} /\ Entries' = Entries
      /\ weights \in [Entries -> Int] /\ probs \in [Entries -> Int]
  BY <1>1, PairTypes DEF Lists, Entries
<1>3. /\ IsInjective(small) /\ IsInjective(large) /\ Range(small) \cap Range(large) = {}
      /\ \A i \in Range(small) : weights[i] < One
      /\ \A i \in Range(large) : weights[i] >= One
  BY DEF Lists
<1>4. /\ a \in Range(small) /\ IsInjective(Front(small)) /\ Range(Front(small)) = Range(small) \ {a}
      /\ Front(small) \in Seq(Entries) /\ a \in Entries
  BY <1>1, <1>2, <1>3, PopRange, PopType
<1>5. /\ g \in Range(large) /\ IsInjective(Front(large)) /\ Range(Front(large)) = Range(large) \ {g}
      /\ Front(large) \in Seq(Entries) /\ g \in Entries
  BY <1>1, <1>2, <1>3, PopRange, PopType
<1> HIDE DEF a, g
<1>6. a # g
  BY <1>3, <1>4, <1>5
<1>7. /\ Range(Append(Front(small), g)) = (Range(small) \ {a}) \cup {g}
      /\ IsInjective(Append(Front(small), g))
  <2>1. g \notin Range(Front(small))
    BY <1>3, <1>4, <1>5
  <2> QED BY <1>4, <1>5, <2>1, PushRange
<1>8. PICK x \in Rounded(weights[g] + weights[a] - One) : weights' = [weights EXCEPT ![g] = x]
  BY DEF PairUp, a, g
<1>9. x \in Int /\ Within(x, weights[g] + weights[a] - One, Eps)
  <2>1. weights[g] + weights[a] - One \in Int
    BY <1>2, <1>4, <1>5
  <2> DEFINE y == weights[g] + weights[a] - One
  <2>2. x \in y - Eps .. y + Eps
    BY <1>8 DEF Rounded
  <2> HIDE DEF y
  <2>3. x \in Int /\ x - y <= Eps /\ y - x <= Eps
    BY <1>2, <2>1, <2>2 DEF y
  <2> QED BY <2>3 DEF Within, y
<1>10. weights' \in [Entries -> Int] /\ weights'[g] = x /\ \A i \in Entries : i # g => weights'[i] = weights[i]
  BY <1>2, <1>5, <1>8, <1>9
<1>11. probs' \in [Entries -> Int]
  BY <1>1, <1>2, <1>4
<1>12. \/ /\ x < One /\ small' = Append(Front(small), g) /\ large' = Front(large)
       \/ /\ x >= One /\ small' = Front(small) /\ large' = large
  BY <1>2, <1>9, <1>10 DEF PairUp, a, g
<1>13. \/ /\ x < One /\ Range(small') = (Range(small) \ {a}) \cup {g} /\ Range(large') = Range(large) \ {g}
       \/ /\ x >= One /\ Range(small') = Range(small) \ {a} /\ Range(large') = Range(large)
  BY <1>4, <1>5, <1>7, <1>12
<1>14. IsInjective(small') /\ IsInjective(large')
  BY <1>3, <1>4, <1>5, <1>7, <1>12
<1>15. Listed' = Listed \ {a}
  BY <1>3, <1>4, <1>5, <1>6, <1>13 DEF Listed
<1>16. Range(small) \subseteq Entries /\ Range(large) \subseteq Entries
  BY <1>2 DEF Listed
<1>17. /\ Range(small') \cap Range(large') = {}
       /\ \A i \in Range(small') : weights'[i] < One
       /\ \A i \in Range(large') : weights'[i] >= One
  <2>1. CASE /\ x < One /\ Range(small') = (Range(small) \ {a}) \cup {g} /\ Range(large') = Range(large) \ {g}
    BY <1>3, <1>5, <1>10, <1>16, <2>1
  <2>2. CASE /\ x >= One /\ Range(small') = Range(small) \ {a} /\ Range(large') = Range(large)
    BY <1>3, <1>5, <1>10, <1>16, <2>2
  <2> QED BY <1>13, <2>1, <2>2
<1>18. Lists'
  BY <1>2, <1>10, <1>11, <1>14, <1>17 DEF Lists
<1>19. a \in Listed /\ g \in Listed /\ weights[a] < One
  BY <1>3, <1>4, <1>5 DEF Listed
<1>20. /\ Lists' /\ Listed' = Listed \ {a} /\ a \in Listed /\ g \in Listed /\ a # g /\ weights[a] < One
       /\ (\E y \in Int : /\ Within(y, weights[g] + weights[a] - One, Eps)
                          /\ weights' = [weights EXCEPT ![g] = y])
       /\ probs' = [probs EXCEPT ![a] = weights[a]] /\ given' = given
  BY ONLY <1>1, <1>6, <1>8, <1>9, <1>15, <1>18, <1>19, Zenon
<1> QED BY <1>20 DEF a, g

(* A donation goes to one entry, and to it only.                           *)
LEMMA PairUpHeld ==
  ASSUME SamplerInv, Lists, PairUp
  PROVE  \A j \in Entries :
           Held(j)' = Held(j) + (IF j = Last(large) THEN One - weights[Last(small)] ELSE 0)
<1> DEFINE a == Last(small)
           g == Last(large)
<1>1. /\ phase = "pair" /\ aliases' = [aliases EXCEPT ![a] = g]
  BY DEF PairUp
<1>2. /\ Listed' = Listed \ {a} /\ a \in Listed /\ g \in Listed /\ a # g
      /\ probs' = [probs EXCEPT ![a] = weights[a]] /\ given' = given
  BY PairUpLists
<1> HIDE DEF a, g
<1>3. /\ Listed \in SUBSET Entries /\ IsFiniteSet(Entries) /\ Entries' = Entries /\ One \in Nat
      /\ aliases \in [Entries -> Entries]
      /\ weights \in [Entries -> Int] /\ probs \in [Entries -> Int]
  BY <1>1, <1>2, PairTypes DEF Lists, Entries, SamplerInv, TableInv
<1> SUFFICES ASSUME NEW j \in Entries
             PROVE  Held(j)' = Held(j) + (IF j = g THEN One - weights[a] ELSE 0)
  BY DEF a, g
<1> DEFINE D == Donors(j)
<1>4. IsFiniteSet(D) /\ a \notin D /\ D \subseteq Entries
  BY <1>2, <1>3, FS_Subset DEF Donors
<1>5. Donors(j)' = IF j = g THEN D \cup {a} ELSE D
  <2>1. Entries' \ Listed' = (Entries \ Listed) \cup {a}
    BY <1>2, <1>3
  <2>2. aliases'[a] = g /\ \A i \in Entries \ Listed : aliases'[i] = aliases[i]
    BY <1>1, <1>2, <1>3
  <2>3. Donors(j)' = {i \in (Entries \ Listed) \cup {a} : aliases'[i] = j}
    BY <2>1 DEF Donors
  <2> QED BY <2>2, <2>3 DEF Donors
<1> DEFINE s == Spare
           r == Spare'
<1>6. /\ \A i \in Entries : s[i] \in Int /\ s[i] = One - probs[i]
      /\ \A i \in Entries : r[i] \in Int /\ (i # a => r[i] = s[i])
      /\ r[a] = One - weights[a]
  BY <1>2, <1>3 DEF Spare
<1> HIDE DEF D, s, r
<1>7. SumFunctionOnSet(s, D) \in Int /\ SumFunctionOnSet(r, D) = SumFunctionOnSet(s, D)
  <2>1. \A i \in D : s[i] \in Int /\ r[i] = s[i]
    BY <1>4, <1>6
  <2> QED BY <1>4, <2>1, SumExt
<1>8. SumFunctionOnSet(r, D \cup {a}) = SumFunctionOnSet(r, D) + r[a]
  <2>1. \A i \in D \cup {a} : r[i] \in Int
    BY <1>2, <1>3, <1>4, <1>6
  <2> QED BY <1>4, <2>1, SumInsert
<1>9. Held(j) = SumFunctionOnSet(s, D) /\ Held(j)' = SumFunctionOnSet(r, Donors(j)')
  BY DEF Held, s, r, D
<1> QED BY <1>5, <1>6, <1>7, <1>8, <1>9

LEMMA WithinMoved ==
  ASSUME NEW x \in Int, NEW y \in Int, NEW b \in Int, NEW d \in Int, NEW c \in Int,
         Within(x, y, b), d <= c, -d <= c
  PROVE  /\ Within(x + d, y, b + c) /\ Within(x, y, b + c) /\ Within(x + d, y + d, b + c)
BY DEF Within

LEMMA PairUpMass ==
  ASSUME SamplerInv, Lists, Done, Pairing, PairUp
  PROVE  Lists' /\ Done' /\ Pairing'
<1> DEFINE a == Last(small)
           g == Last(large)
           n == Len(given)
           t == Total(given)
           R == SumFunctionOnSet(Excess, Listed)
<1>1. /\ Lists' /\ Listed' = Listed \ {a} /\ a \in Listed /\ g \in Listed /\ a # g
      /\ probs' = [probs EXCEPT ![a] = weights[a]] /\ given' = given /\ phase = "pair"
  BY PairUpLists DEF PairUp
<1>2. PICK x \in Int : /\ Within(x, weights[g] + weights[a] - One, Eps)
                       /\ weights' = [weights EXCEPT ![g] = x]
  BY PairUpLists
<1>3. \A j \in Entries : Held(j)' = Held(j) + (IF j = g THEN One - weights[a] ELSE 0)
  BY PairUpHeld
<1> HIDE DEF a, g
<1>4. /\ n \in Nat \ {0} /\ IsFiniteSet(Entries) /\ t \in Nat \ {0} /\ One \in Nat /\ Eps \in Nat
      /\ Unit \in Nat /\ Unit = t * Eps
      /\ Listed \in SUBSET Entries /\ IsFiniteSet(Listed) /\ Taken \in Nat /\ Taken + 1 <= n
      /\ \A j \in Entries : Share(j) \in Int /\ weights[j] \in Int /\ probs[j] \in Int
      /\ \A j : Held(j) \in Int
  BY <1>1, PairTypes DEF Unit
<1>5. weights \in [Entries -> Int] /\ probs \in [Entries -> Int]
  BY DEF Lists
<1>6. Entries' = Entries /\ Unit' = Unit /\ \A j : Share(j)' = Share(j)
  BY <1>1 DEF Entries, Unit, Share
<1>7. Taken' = Taken + 1
  <2>1. Cardinality(Listed \ {a}) = Cardinality(Listed) - 1 /\ Cardinality(Listed) \in Nat
    BY <1>1, <1>4, FS_RemoveElement, FS_CardinalityType
  <2> QED BY <1>1, <1>4, <2>1 DEF Taken
<1> DEFINE e == x - (weights[g] + weights[a] - One)
<1>8. e \in Int /\ e <= Eps /\ -e <= Eps /\ x = weights[g] + weights[a] - One + e
  <2>1. weights[g] \in Int /\ weights[a] \in Int
    BY <1>1, <1>4
  <2> DEFINE y == weights[g] + weights[a] - One
  <2>2. y \in Int
    BY <1>4, <2>1
  <2> HIDE DEF y
  <2>3. x - y <= Eps /\ y - x <= Eps
    BY <1>2 DEF Within, y
  <2>4. x - y \in Int /\ x - y <= Eps /\ -(x - y) <= Eps /\ x = y + (x - y)
    BY <1>4, <2>2, <2>3
  <2> QED BY <2>4 DEF y
<1> HIDE DEF e
<1>9. t * e \in Int /\ t * e <= Unit /\ -(t * e) <= Unit
  <2> HIDE DEF t
  <2>1. CASE e >= 0
    <3>1. e \in Nat /\ t \in Nat
      BY <1>4, <1>8, <2>1
    <3>2. t * e <= t * Eps /\ e * t \in Nat
      BY ONLY <1>4, <1>8, <3>1, TimesGrows
    <3>3. t * e = e * t
      BY <3>1
    <3> QED BY <1>4, <3>2, <3>3
  <2>2. CASE e < 0
    <3>1. -e \in Nat /\ t \in Nat /\ -e <= Eps
      BY <1>4, <1>8, <2>2
    <3>2. t * (-e) <= t * Eps /\ (-e) * t \in Nat
      BY ONLY <1>4, <3>1, TimesGrows
    <3>3. t * (-e) = -(t * e) /\ (-e) * t = -(t * e) /\ t * e \in Int
      BY <1>8, <3>1
    <3> QED BY <1>4, <3>2, <3>3
  <2> QED BY <1>8, <2>1, <2>2
<1>10. ASSUME NEW j \in Listed, j # a
       PROVE  Owed(j)' = Owed(j) + (IF j = g THEN t * e ELSE 0) /\ Owed(j) \in Int
  <2>1. j \in Entries
    BY <1>4, <1>10
  <2>2. /\ Share(j) \in Int /\ weights[j] \in Int /\ weights[a] \in Int /\ Held(j) \in Int
        /\ Held(j)' = Held(j) + (IF j = g THEN One - weights[a] ELSE 0)
        /\ weights'[j] = IF j = g THEN x ELSE weights[j]
    BY <1>1, <1>2, <1>3, <1>4, <1>5, <2>1
  <2>3. Owed(j) = t * (weights[j] + Held(j)) - Share(j)
        /\ Owed(j)' = t * (weights'[j] + Held(j)') - Share(j)
    BY <1>1, <1>6 DEF Owed
  <2>4. weights'[j] + Held(j)' = (weights[j] + Held(j)) + (IF j = g THEN e ELSE 0)
    <3>1. CASE j = g
      <4>1. weights'[j] = weights[j] + weights[a] - One + e /\ Held(j)' = Held(j) + (One - weights[a])
        BY <1>8, <2>2, <3>1
      <4>2. weights[j] \in Int /\ weights[a] \in Int /\ Held(j) \in Int /\ One \in Int /\ e \in Int
        BY <1>4, <1>8, <2>2
      <4>3. weights'[j] + Held(j)' = (weights[j] + Held(j)) + e
        BY ONLY <4>1, <4>2
      <4> QED BY ONLY <3>1, <4>3, Zenon
    <3>2. CASE j # g
      BY <2>2, <3>2
    <3> QED BY <3>1, <3>2
  <2> DEFINE y == weights[j] + Held(j)
  <2>5. y \in Int
    BY <2>2
  <2>6. weights'[j] + Held(j)' = y + (IF j = g THEN e ELSE 0)
    BY <2>4
  <2> HIDE DEF t, y
  <2>7. t * (y + e) = t * y + t * e /\ t * y \in Int /\ t * (y + 0) = t * y
    BY <1>4, <1>8, <2>5
  <2>8. Owed(j) = t * y - Share(j)
    BY ONLY <2>3 DEF y
  <2>9. Owed(j)' = t * (y + (IF j = g THEN e ELSE 0)) - Share(j)
    BY ONLY <2>3, <2>6, Zenon
  <2>10. CASE j = g
    <3>1. Owed(j)' = t * (y + e) - Share(j)
      BY ONLY <2>9, <2>10, Zenon
    <3> QED BY <1>9, <2>2, <2>7, <2>8, <2>10, <3>1
  <2>11. CASE j # g
    <3>1. Owed(j)' = t * (y + 0) - Share(j)
      BY ONLY <2>9, <2>11, Zenon
    <3> QED BY <1>9, <2>2, <2>7, <2>8, <2>11, <3>1
  <2> QED BY <2>10, <2>11
<1>11. R \in Int /\ SumFunctionOnSet(Excess', Listed') = R + e
  <2> DEFINE f == Excess
             h == Excess'
  <2>1. /\ \A i \in Entries : f[i] = weights[i] - One /\ f[i] \in Int
        /\ \A i \in Entries : h[i] = weights'[i] - One
        /\ \A i \in Entries : i # g => h[i] = f[i] /\ h[i] \in Int
        /\ h[g] = x - One /\ h[g] \in Int
    <3>1. \A i \in Entries : f[i] = weights[i] - One /\ f[i] \in Int
      BY <1>4, <1>5 DEF Excess
    <3>2. \A i \in Entries : h[i] = weights'[i] - One
      BY <1>1, <1>6 DEF Excess
    <3>3. g \in Entries /\ weights'[g] = x /\ \A i \in Entries : i # g => weights'[i] = weights[i]
      BY <1>1, <1>2, <1>4, <1>5
    <3> HIDE DEF f, h
    <3>4. \A i \in Entries : i # g => h[i] = f[i] /\ h[i] \in Int
      BY <3>1, <3>2, <3>3
    <3>5. h[g] = x - One /\ h[g] \in Int
      BY <1>4, <3>2, <3>3
    <3> QED BY <3>1, <3>2, <3>4, <3>5
  <2> HIDE DEF f, h
  <2>2. /\ \A i \in Listed : f[i] \in Int
        /\ \A i \in Listed : h[i] \in Int
        /\ \A i \in Listed \ {a, g} : h[i] = f[i]
    BY <1>4, <2>1
  <2>3. /\ SumFunctionOnSet(f, Listed) \in Int
        /\ SumFunctionOnSet(h, Listed \ {a}) = SumFunctionOnSet(f, Listed) - f[a] - f[g] + h[g]
    <3>1. IsFiniteSet(Listed) /\ a \in Listed /\ g \in Listed /\ a # g
      BY <1>1, <1>4
    <3> QED BY ONLY <2>2, <3>1, SumMoved
  <2>4. f[a] = weights[a] - One /\ f[g] = weights[g] - One /\ weights[a] \in Int /\ weights[g] \in Int
    BY <1>1, <1>4, <2>1
  <2>5. h[g] = f[a] + f[g] + e /\ f[a] \in Int /\ f[g] \in Int
    <3>1. One \in Int /\ e \in Int /\ x = weights[g] + weights[a] - One + e /\ h[g] = x - One
      BY <1>4, <1>8, <2>1
    <3> QED BY ONLY <2>4, <3>1
  <2>6. SumFunctionOnSet(h, Listed \ {a}) = SumFunctionOnSet(f, Listed) + e
    BY <1>8, <2>3, <2>5
  <2> QED BY <1>1, <2>3, <2>6 DEF f, h
<1>12. Done'
  <2> SUFFICES ASSUME NEW j \in Entries, j \notin Listed \/ j = a
               PROVE  Within(t * (probs'[j] + Held(j)'), Share(j), Unit * (2 * n - 1))
    BY <1>1, <1>6 DEF Done
  <2>1. Held(j)' = Held(j)
    <3>1. j # g
      BY <1>1
    <3> QED BY <1>3, <1>4, <3>1
  <2>2. CASE j \notin Listed
    <3>1. probs'[j] = probs[j]
      BY <1>1, <1>5, <2>2
    <3> QED BY <2>1, <2>2, <3>1 DEF Done
  <2>3. CASE j = a
    <3>1. probs'[j] = weights[j]
      BY <1>1, <1>5, <2>3
    <3>2. Within(Owed(j), 0, Unit * (Taken + 1))
      BY <1>1, <2>3 DEF Pairing
    <3>3. Unit * (Taken + 1) <= Unit * (2 * n - 1) /\ Unit * (Taken + 1) \in Int /\ Unit * (2 * n - 1) \in Int
      <4>1. Unit \in Nat /\ Taken + 1 \in Nat /\ 2 * n - 1 \in Nat /\ Taken + 1 <= 2 * n - 1
        BY <1>4
      <4>2. Unit * (Taken + 1) <= Unit * (2 * n - 1)
        BY ONLY <4>1, TimesGrows
      <4> QED BY <4>1, <4>2
    <3>4. Owed(j) = t * (weights[j] + Held(j)) - Share(j) /\ t * (weights[j] + Held(j)) \in Int
          /\ Share(j) \in Int
      BY <1>4 DEF Owed
    <3> DEFINE y == t * (weights[j] + Held(j))
               u == Unit * (Taken + 1)
               v == Unit * (2 * n - 1)
    <3>5. y - Share(j) - 0 <= u /\ 0 - (y - Share(j)) <= u /\ u <= v /\ y \in Int /\ u \in Int /\ v \in Int
          /\ Share(j) \in Int
      BY <3>2, <3>3, <3>4 DEF Within
    <3> HIDE DEF y, u, v
    <3>6. y - Share(j) <= v /\ Share(j) - y <= v
      BY <3>5
    <3> QED BY <2>1, <3>1, <3>6 DEF Within, y, v
  <2> QED BY <2>2, <2>3
<1>13. Pairing'
  <2> SUFFICES ASSUME NEW j \in Listed, j # a
               PROVE  /\ Within(Owed(j)', 0, Unit * (Taken + 1 + 1))
                      /\ Within(t * (R + e), Owed(j)', Unit * (n - 1 + (Taken + 1)))
    BY <1>1, <1>6, <1>7, <1>11 DEF Pairing
  <2> DEFINE o == Owed(j)
             d == t * e
             p == t * R
             u == Unit * (Taken + 1)
             v == Unit * (n - 1 + Taken)
  <2>1. /\ o \in Int /\ Owed(j)' = o + (IF j = g THEN d ELSE 0)
        /\ Within(o, 0, u) /\ Within(p, o, v)
    BY <1>10 DEF Pairing
  <2>2. Unit * (Taken + 1 + 1) = u + Unit /\ Unit * (n - 1 + (Taken + 1)) = v + Unit
        /\ u \in Int /\ v \in Int
    <3> HIDE DEF n
    <3> QED BY <1>4
  <2>3. t * (R + e) = p + d /\ p \in Int /\ d \in Int /\ d <= Unit /\ -d <= Unit /\ Unit \in Int
    <3>1. t \in Int /\ R \in Int /\ e \in Int
      BY <1>4, <1>8, <1>11
    <3> HIDE DEF t, R
    <3>2. t * (R + e) = t * R + t * e /\ t * R \in Int
      BY <3>1
    <3> QED BY <1>4, <1>9, <3>2
  <2> HIDE DEF o, d, p, u, v
  <2>4. /\ Within(o + d, 0, u + Unit) /\ Within(o, 0, u + Unit)
    <3>1. 0 \in Int /\ Within(o, 0, u)
      BY <2>1
    <3> QED BY ONLY <2>1, <2>2, <2>3, <3>1, WithinMoved
  <2>5. /\ Within(p + d, o, v + Unit) /\ Within(p + d, o + d, v + Unit)
    BY <2>1, <2>2, <2>3, WithinMoved
  <2>6. CASE j = g
    <3>1. Owed(j)' = o + d
      BY <2>1, <2>6
    <3> QED BY <2>2, <2>3, <2>4, <2>5, <3>1
  <2>7. CASE j # g
    <3>1. Owed(j)' = o
      BY <2>1, <2>7
    <3> QED BY <2>2, <2>3, <2>4, <2>5, <3>1
  <2> QED BY <2>6, <2>7
<1> QED BY <1>1, <1>12, <1>13

LEMMA LeftOverMass ==
  ASSUME SamplerInv, Lists, Done, Settling, LeftOver
  PROVE  Lists' /\ Done' /\ Settling' /\ (small' = << >> \/ large' = << >>)
<1>1. /\ phase = "pair" /\ given' = given /\ weights' = weights /\ aliases' = aliases
  BY DEF LeftOver
<1>2. /\ small \in Seq(Entries) /\ large \in Seq(Entries) /\ Listed \in SUBSET Entries
      /\ IsFiniteSet(Entries) /\ One \in Nat /\ Entries' = Entries
      /\ weights \in [Entries -> Int] /\ probs \in [Entries -> Int]
      /\ aliases \in [Entries -> Entries]
  BY <1>1, PairTypes DEF Lists, Entries, SamplerInv, TableInv
<1>3. /\ IsInjective(small) /\ IsInjective(large) /\ Range(small) \cap Range(large) = {}
      /\ \A i \in Range(small) : weights[i] < One
      /\ \A i \in Range(large) : weights[i] >= One
  BY DEF Lists
<1>4. Range(<< >>) = {}
  BY DEF Range
<1>5. PICK x : /\ x \in Listed /\ Listed' = Listed \ {x} /\ probs' = [probs EXCEPT ![x] = One]
               /\ IsInjective(small') /\ IsInjective(large')
               /\ Range(small') \subseteq Range(small) /\ Range(large') \subseteq Range(large)
               /\ (small' = << >> \/ large' = << >>)
  <2>1. CASE /\ small = << >> /\ large # << >> /\ probs' = [probs EXCEPT ![Last(large)] = One]
             /\ large' = Front(large) /\ small' = small
    <3>1. /\ Last(large) \in Range(large) /\ IsInjective(Front(large))
          /\ Range(Front(large)) = Range(large) \ {Last(large)}
      BY <1>2, <1>3, <2>1, PopRange
    <3> DEFINE x == Last(large)
    <3>2. x \in Listed /\ Listed' = Listed \ {x}
      BY <1>4, <2>1, <3>1 DEF Listed
    <3> QED BY <1>3, <2>1, <3>1, <3>2
  <2>2. CASE /\ large = << >> /\ small # << >> /\ probs' = [probs EXCEPT ![Last(small)] = One]
             /\ small' = Front(small) /\ large' = large
    <3>1. /\ Last(small) \in Range(small) /\ IsInjective(Front(small))
          /\ Range(Front(small)) = Range(small) \ {Last(small)}
      BY <1>2, <1>3, <2>2, PopRange
    <3> DEFINE x == Last(small)
    <3>2. x \in Listed /\ Listed' = Listed \ {x}
      BY <1>4, <2>2, <3>1 DEF Listed
    <3> QED BY <1>3, <2>2, <3>1, <3>2
  <2> QED BY <2>1, <2>2 DEF LeftOver
<1>6. x \in Entries
  BY <1>2, <1>5
<1>7. Lists'
  <2>1. probs' \in [Entries' -> Int] /\ weights' \in [Entries' -> Int]
    BY <1>1, <1>2, <1>5, <1>6
  <2> QED BY <1>1, <1>3, <1>5, <2>1 DEF Lists
<1>8. ASSUME NEW j \in Entries PROVE Held(j)' = Held(j)
  <2> DEFINE D == Donors(j)
             s == Spare
             r == Spare'
  <2>1. IsFiniteSet(D) /\ x \notin D /\ D \subseteq Entries
    BY <1>2, <1>5, FS_Subset DEF Donors
  <2>2. Donors(j)' = IF aliases[x] = j THEN D \cup {x} ELSE D
    <3>1. Entries' \ Listed' = (Entries \ Listed) \cup {x}
      BY <1>2, <1>5, <1>6
    <3>2. Donors(j)' = {i \in (Entries \ Listed) \cup {x} : aliases[i] = j}
      BY <1>1, <3>1 DEF Donors
    <3> QED BY <3>2 DEF Donors
  <2>3. /\ \A i \in Entries : s[i] \in Int
        /\ \A i \in Entries : r[i] \in Int /\ (i # x => r[i] = s[i])
        /\ r[x] = 0
    BY <1>2, <1>5, <1>6 DEF Spare
  <2> HIDE DEF D, s, r
  <2>4. SumFunctionOnSet(s, D) \in Int /\ SumFunctionOnSet(r, D) = SumFunctionOnSet(s, D)
    <3>1. \A i \in D : s[i] \in Int /\ r[i] = s[i]
      BY <2>1, <2>3
    <3> QED BY <2>1, <3>1, SumExt
  <2>5. SumFunctionOnSet(r, D \cup {x}) = SumFunctionOnSet(r, D) + r[x]
    <3>1. \A i \in D \cup {x} : r[i] \in Int
      BY <1>6, <2>1, <2>3
    <3> QED BY <2>1, <3>1, SumInsert
  <2>6. Held(j) = SumFunctionOnSet(s, D) /\ Held(j)' = SumFunctionOnSet(r, Donors(j)')
    BY DEF Held, s, r, D
  <2> QED BY <2>2, <2>3, <2>4, <2>5, <2>6
<1>9. Unit' = Unit /\ \A j : Share(j)' = Share(j)
  BY <1>1 DEF Unit, Share
<1>10. Settling'
  BY <1>1, <1>2, <1>5, <1>8, <1>9 DEF Settling
<1>11. Done'
  <2> SUFFICES ASSUME NEW j \in Entries, j \notin Listed \/ j = x
               PROVE  Within(Total(given) * (probs'[j] + Held(j)), Share(j), Unit * (2 * Len(given) - 1))
    BY <1>1, <1>2, <1>5, <1>8, <1>9 DEF Done
  <2>1. CASE j = x
    <3>1. probs'[j] = One
      BY <1>2, <1>5, <2>1
    <3> QED BY <1>5, <2>1, <3>1 DEF Settling
  <2>2. CASE j \notin Listed /\ j # x
    <3>1. probs'[j] = probs[j]
      BY <1>2, <1>5, <2>2
    <3> QED BY <2>2, <3>1 DEF Done
  <2> QED BY <2>1, <2>2
<1> QED BY <1>5, <1>7, <1>10, <1>11

LEMMA TableMadeMass ==
  ASSUME SamplerInv, Lists, Done, TableMade
  PROVE  MassKept'
<1> DEFINE n == Len(given)
           t == Total(given)
<1>1. /\ phase = "pair" /\ phase' = "draw" /\ small = << >> /\ large = << >>
      /\ given' = given /\ probs' = probs /\ aliases' = aliases
  BY DEF TableMade, table
<1>2. /\ Entries = 0 .. n - 1 /\ DOMAIN probs = Entries /\ Unit \in Nat /\ n \in Nat \ {0}
      /\ t \in Nat \ {0} /\ Eps \in Nat /\ Unit = t * Eps
      /\ \A j \in Entries : Share(j) \in Int /\ probs[j] \in Int
      /\ \A j : Held(j) \in Int
  BY <1>1, PairTypes DEF Lists, Unit
<1>3. Listed = {}
  BY <1>1 DEF Listed, Range
<1>4. \A j : Mass(j)' = probs[j] + Held(j)
  <2> TAKE j
  <2>1. Donors(j) = {i \in DOMAIN probs : aliases[i] = j}
    BY <1>2, <1>3 DEF Donors
  <2> QED BY <1>1, <1>2, <2>1 DEF Mass, Held, Spare
<1>5. ASSUME NEW j \in Entries
      PROVE  Distance(t * (probs[j] + Held(j)), Share(j)) <= t * (2 * n - 1) * Eps
  <2>1. Within(t * (probs[j] + Held(j)), Share(j), Unit * (2 * n - 1))
    BY <1>3, <1>5 DEF Done
  <2>2. Unit * (2 * n - 1) = t * (2 * n - 1) * Eps
    <3> HIDE DEF n, t
    <3> QED BY <1>2
  <2> DEFINE x == t * (probs[j] + Held(j))
             y == Share(j)
             b == Unit * (2 * n - 1)
  <2>3. x \in Int /\ y \in Int /\ b \in Int /\ x - y <= b /\ y - x <= b
    BY <1>2, <2>1 DEF Within
  <2> HIDE DEF x, y, b
  <2>4. Distance(x, y) <= b
    BY <2>3 DEF Distance
  <2> QED BY <2>2, <2>4 DEF x, y, b
<1>6. Entries = Indices(given)
  BY DEF Entries
<1> QED BY <1>1, <1>4, <1>5, <1>6 DEF MassKept, Share

Paired == SamplerInv /\ phase = "pair" /\ Lists /\ Done /\ Pairing

LEMMA PairedMass == Paired => MassInv
<1> SUFFICES ASSUME Paired PROVE MassInv
  OBVIOUS
<1>1. small = << >> \/ large = << >> => Settling
  BY Settles DEF Paired
<1> QED BY <1>1 DEF Paired, MassInv, MassKept

SampledInv == SamplerInv /\ MassInv

LEMMA MassStep == SampledInv /\ [Next]_vars => SampledInv'
<1> SUFFICES ASSUME SamplerInv, MassInv, [Next]_vars PROVE MassInv' /\ SamplerInv'
  BY DEF SampledInv
<1>1. SamplerInv'
  BY SamplerStep
<1>2. ASSUME Paired' PROVE MassInv'
  BY <1>2, PairedMass, PTL
<1>3. ASSUME NEW w \in WeightVectors, Normalise(w) PROVE MassInv'
  <2>1. phase' = "pair" /\ Lists' /\ Done' /\ Pairing'
    BY <1>3, NormaliseMass DEF Normalise
  <2> QED BY <1>1, <1>2, <2>1 DEF Paired
<1>4. CASE PairUp
  <2>1. Lists /\ Done /\ Pairing /\ phase' = "pair"
    BY <1>4 DEF MassInv, PairUp
  <2>2. Lists' /\ Done' /\ Pairing'
    BY <1>4, <2>1, PairUpMass
  <2> QED BY <1>1, <1>2, <2>1, <2>2 DEF Paired
<1>5. CASE LeftOver
  <2>1. Lists /\ Done /\ Settling /\ phase' = "pair"
    BY <1>5 DEF MassInv, LeftOver
  <2>2. Lists' /\ Done' /\ Settling' /\ (small' = << >> \/ large' = << >>)
    BY <1>5, <2>1, LeftOverMass
  <2>3. phase' # "draw" /\ ~(small' # << >> /\ large' # << >>)
    BY <2>1, <2>2
  <2>4. MassKept'
    BY <2>3 DEF MassKept
  <2> QED BY <1>1, <2>2, <2>3, <2>4 DEF MassInv
<1>6. CASE TableMade
  <2>1. phase = "pair" /\ phase' = "draw"
    BY <1>6 DEF TableMade
  <2>2. Lists /\ Done
    BY <2>1 DEF MassInv
  <2>3. MassKept'
    BY <1>6, <2>1, <2>2, TableMadeMass
  <2> QED BY <1>1, <2>1, <2>3 DEF MassInv
<1>7. CASE Truncate \/ Again \/ \E m \in Doubles : Pick(m)
  BY <1>1, <1>7 DEF Truncate, Again, Pick, MassInv, MassKept
<1>8. ASSUME NEW m \in Doubles, NEW r \in 0 .. One - 1, Draw(m, r) PROVE MassInv'
  <2>1. phase' \in {"shuffle", "panic"}
    BY <1>8 DEF Draw
  <2> QED BY <2>1 DEF MassInv, MassKept
<1>9. CASE UNCHANGED vars
  <2>1. /\ phase' = phase /\ given' = given /\ weights' = weights /\ small' = small
        /\ large' = large /\ probs' = probs /\ aliases' = aliases
    BY <1>9 DEF vars, table
  <2>2. /\ Entries' = Entries /\ Listed' = Listed /\ Taken' = Taken /\ Spare' = Spare
        /\ Excess' = Excess /\ Unit' = Unit
    BY <2>1 DEF Entries, Indices, Listed, Taken, Spare, Excess, Unit
  <2>3. \A j : Share(j)' = Share(j) /\ Held(j)' = Held(j) /\ Mass(j)' = Mass(j) /\ Owed(j)' = Owed(j)
    BY <2>1, <2>2 DEF Share, Held, Donors, Mass, Owed, Spare
  <2>4. Lists' = Lists
    BY <2>1, <2>2 DEF Lists
  <2>5. Done' = Done
    BY <2>1, <2>2, <2>3 DEF Done
  <2>6. Pairing' = Pairing /\ Settling' = Settling
    BY <2>1, <2>2, <2>3 DEF Pairing, Settling
  <2>7. MassKept' = MassKept
    BY <2>1, <2>3 DEF MassKept
  <2> QED BY <1>1, <2>1, <2>4, <2>5, <2>6, <2>7 DEF MassInv
<1> QED BY <1>1, <1>3, <1>4, <1>5, <1>6, <1>7, <1>8, <1>9 DEF Next, Compute

(* The alias table keeps the weights: for every vector of weights, every    *)
(* order in which the worklists are emptied and every rounding error below  *)
(* Eps, each index is drawn with its share, up to the errors that are made. *)
THEOREM MassKeptHolds == Spec => []MassKept
<1>1. Init => SampledInv
  BY SamplerInit DEF Init, SampledInv, MassInv, MassKept
<1>2. SampledInv => MassKept
  BY DEF SampledInv, MassInv
<1> QED BY <1>1, <1>2, MassStep, PTL DEF Spec
-----------------------------------------------------------------------------
(***************************************************************************)
(* The bytes of a number.                                                  *)
(***************************************************************************)
Horner(a, b, c, d) == 256 * (256 * (256 * a + b) + c) + d

(* A head h of a value v is the shortest of four forms.                    *)
InFirst(major, v, h) == v \in 0 .. 23 /\ h = <<32 * major + v>>
InOne(major, v, h) == v \in 24 .. 255 /\ h = <<32 * major + 24, v>>
InTwo(major, v, h) ==
  \E a \in 1 .. 255, b \in 0 .. 255 : h = <<32 * major + 25, a, b>> /\ v = 256 * a + b
InFour(major, v, h) ==
  \E a, b, c, d \in 0 .. 255 :
    h = <<32 * major + 26, a, b, c, d>> /\ v = Horner(a, b, c, d) /\ a + b > 0

Shortest(major, v, h) ==
  InFirst(major, v, h) \/ InOne(major, v, h) \/ InTwo(major, v, h) \/ InFour(major, v, h)

LEMMA HeadForms ==
  ASSUME NEW major, NEW v, IsU32(v)
  PROVE  Shortest(major, v, EncodeHead(major, v))
<1> DEFINE v1 == v \div 256
           v2 == v1 \div 256
           v3 == v2 \div 256
<1>0. v \in Nat
  BY DEF IsU32
<1>4. v3 < 256
  BY DEF IsU32
<1>5. EncodeHead(major, v) =
        IF v <= 23 THEN <<32 * major + v>>
        ELSE IF v <= 255 THEN <<32 * major + 24, v>>
        ELSE IF v < 256 * 256 THEN <<32 * major + 25, v1, v % 256>>
        ELSE <<32 * major + 26, v3 % 256, v2 % 256, v1 % 256, v % 256>>
  BY DEF EncodeHead
<1>1. v1 \in Nat /\ v % 256 \in 0 .. 255 /\ v = 256 * v1 + (v % 256)
  BY <1>0, DivMod
<1>a. v1 \in Nat
  BY <1>1
<1> HIDE DEF v1
<1>2. v2 \in Nat /\ v1 % 256 \in 0 .. 255 /\ v1 = 256 * v2 + (v1 % 256)
  BY <1>a, DivMod
<1>b. v2 \in Nat
  BY <1>2
<1> HIDE DEF v2
<1>3. v3 \in Nat /\ v2 % 256 \in 0 .. 255 /\ v2 = 256 * v3 + (v2 % 256)
  BY <1>b, DivMod
<1> HIDE DEF v3
<1> DEFINE h == EncodeHead(major, v)
<1> HIDE DEF h
<1>6. CASE v <= 23
  <2>1. v \in 0 .. 23 /\ h = <<32 * major + v>>
    BY <1>0, <1>5, <1>6 DEF h
  <2> QED BY <2>1 DEF Shortest, InFirst, h
<1>7. CASE v > 23 /\ v <= 255
  <2>1. v \in 24 .. 255 /\ ~(v <= 23)
    BY <1>0, <1>7
  <2>2. InOne(major, v, h)
    BY <1>5, <1>7, <2>1 DEF InOne, h
  <2> QED BY <2>2 DEF Shortest, h
<1>8. CASE v > 255 /\ v < 256 * 256
  <2>1. v1 \in 1 .. 255 /\ ~(v <= 23) /\ ~(v <= 255)
    BY <1>0, <1>1, <1>8
  <2>2. h = <<32 * major + 25, v1, v % 256>>
    BY ONLY <1>5, <1>8, <2>1, Zenon DEF h
  <2>3. InTwo(major, v, h)
    BY <1>1, <2>1, <2>2, ZenonT(40) DEF InTwo
  <2> QED BY <2>3 DEF Shortest, h
<1>9. CASE v >= 256 * 256
  <2>1. v3 \in Nat /\ v3 < 256
    BY <1>3, <1>4
  <2>2. v3 % 256 = v3 /\ v3 \in 0 .. 255
    BY <2>1
  <2>3. v = Horner(v3, v2 % 256, v1 % 256, v % 256)
    BY <1>1, <1>2, <1>3 DEF Horner
  <2>4. v3 + (v2 % 256) > 0
    BY <1>1, <1>2, <1>3, <1>9
  <2>5. ~(v <= 23) /\ ~(v <= 255) /\ ~(v < 256 * 256)
    BY <1>0, <1>9
  <2>6. h = <<32 * major + 26, v3, v2 % 256, v1 % 256, v % 256>>
    BY <1>5, <2>2, <2>5 DEF h
  <2>7. v % 256 \in 0 .. 255 /\ v1 % 256 \in 0 .. 255 /\ v2 % 256 \in 0 .. 255
    BY <1>1, <1>2, <1>3
  <2>8. InFour(major, v, h)
    <3> DEFINE x == v2 % 256
               y == v1 % 256
               z == v % 256
    <3> HIDE DEF x, y, z
    <3>1. v3 \in 0 .. 255 /\ x \in 0 .. 255 /\ y \in 0 .. 255 /\ z \in 0 .. 255
      BY ONLY <2>2, <2>7, Zenon DEF x, y, z
    <3>2. h = <<32 * major + 26, v3, x, y, z>> /\ v = Horner(v3, x, y, z) /\ v3 + x > 0
      BY ONLY <2>3, <2>4, <2>6, Zenon DEF x, y, z
    <3> QED BY ONLY <3>1, <3>2, Zenon DEF InFour
  <2> QED BY <2>8 DEF Shortest, h
<1> QED BY <1>0, <1>6, <1>7, <1>8, <1>9

Heading == {Unsigned, ByteString}

LEMMA HeadType ==
  ASSUME NEW major \in Heading, NEW v, NEW h, Shortest(major, v, h)
  PROVE  h \in Seq(0 .. 255) /\ Len(h) \in Nat \ {0}
<1>1. major \in {0, 2}
  BY DEF Heading, Unsigned, ByteString
<1>2. 32 * major + 24 \in 0 .. 255 /\ 32 * major + 25 \in 0 .. 255 /\ 32 * major + 26 \in 0 .. 255
  BY <1>1
<1>3. CASE InFirst(major, v, h)
  <2>1. 32 * major + v \in 0 .. 255
    BY <1>1, <1>3 DEF InFirst
  <2> QED BY <1>3, <2>1 DEF InFirst
<1>4. CASE InOne(major, v, h)
  <2>1. v \in 0 .. 255
    BY <1>4 DEF InOne
  <2> QED BY <1>2, <1>4, <2>1 DEF InOne
<1>5. CASE InTwo(major, v, h)
  <2>1. PICK a \in 1 .. 255, b \in 0 .. 255 : h = <<32 * major + 25, a, b>>
    BY ONLY <1>5, Zenon DEF InTwo
  <2>2. a \in 0 .. 255
    OBVIOUS
  <2> QED BY <1>2, <2>1, <2>2
<1>6. CASE InFour(major, v, h)
  <2>1. PICK a, b, c, d \in 0 .. 255 : h = <<32 * major + 26, a, b, c, d>>
    BY ONLY <1>6, ZenonT(40) DEF InFour
  <2> QED BY <1>2, <2>1
<1> QED BY <1>3, <1>4, <1>5, <1>6 DEF Shortest

(* The items of h are those of s from position i on.                       *)
At(s, i, h) == \A k \in 1 .. Len(h) : i + k - 1 \in 1 .. Len(s) /\ s[i + k - 1] = h[k]

LEMMA AtItems ==
  ASSUME NEW s, NEW h, NEW i \in Nat \ {0}, Len(s) \in Nat, Len(h) \in 1 .. 5,
         i \in 1 .. Len(s), s[i] = h[1],
         \A k \in 1 .. 4 : k < Len(h) => i + k \in 1 .. Len(s) /\ s[i + k] = h[k + 1]
  PROVE  At(s, i, h)
<1>1. ASSUME NEW k \in 1 .. Len(h)
      PROVE  i + k - 1 \in 1 .. Len(s) /\ s[i + k - 1] = h[k]
  <2>1. CASE k = 1
    BY <2>1
  <2>2. CASE k # 1
    <3> DEFINE n == Len(h)
    <3>1. n \in 1 .. 5 /\ k \in 1 .. n
      OBVIOUS
    <3> HIDE DEF n
    <3>2. k - 1 \in 1 .. 4 /\ k - 1 < n /\ i + (k - 1) = i + k - 1 /\ (k - 1) + 1 = k
      BY <2>2, <3>1
    <3> QED BY <3>2 DEF n
  <2> QED BY <2>1, <2>2
<1> QED BY <1>1 DEF At

(* What the first byte of a head says.                                     *)
LEMMA FirstByte ==
  ASSUME NEW major \in Heading, NEW ai \in 0 .. 31
  PROVE  /\ (32 * major + ai) % 32 = ai /\ (32 * major + ai) \div 32 = major
         /\ 32 * major + ai # Missing
<1>1. major \in {0, 2}
  BY DEF Heading, Unsigned, ByteString
<1>2. CASE major = 0
  BY <1>2 DEF Missing
<1>3. CASE major = 2
  <2>1. 32 * major + ai = 64 + ai
    BY <1>3
  <2>2. (64 + ai) % 32 = ai /\ (64 + ai) \div 32 = 2 /\ 64 + ai # -1
    OBVIOUS
  <2> QED BY <1>3, <2>1, <2>2 DEF Missing
<1> QED BY <1>1, <1>2, <1>3

LEMMA Quotient ==
  ASSUME NEW a \in Nat, NEW b \in 0 .. 255
  PROVE  (256 * a + b) \div 256 = a /\ (256 * a + b) % 256 = b
OBVIOUS

(* Nothing else is the shortest form of a value.                           *)
LEMMA FormIs ==
  ASSUME NEW major, NEW v, NEW h, Shortest(major, v, h)
  PROVE  IsU32(v) /\ h = EncodeHead(major, v)
<1> DEFINE v1 == v \div 256
           v2 == v1 \div 256
           v3 == v2 \div 256
<1>5. EncodeHead(major, v) =
        IF v <= 23 THEN <<32 * major + v>>
        ELSE IF v <= 255 THEN <<32 * major + 24, v>>
        ELSE IF v < 256 * 256 THEN <<32 * major + 25, v1, v % 256>>
        ELSE <<32 * major + 26, v3 % 256, v2 % 256, v1 % 256, v % 256>>
  BY DEF EncodeHead
<1>6. IsU32(v) <=> v \in Nat /\ v3 < 256
  BY DEF IsU32
<1> HIDE DEF v3
<1>1. CASE InFirst(major, v, h)
  <2>1. v \in Nat /\ v \in 0 .. 255 /\ v <= 23
    BY <1>1 DEF InFirst
  <2>2. v1 = 0
    BY <2>1
  <2>3. v2 = 0
    BY <2>2
  <2>4. v3 = 0
    BY <2>3 DEF v3
  <2> QED BY <1>1, <1>5, <1>6, <2>1, <2>4 DEF InFirst
<1>2. CASE InOne(major, v, h)
  <2>1. v \in Nat /\ v \in 0 .. 255 /\ ~(v <= 23) /\ v <= 255
    BY <1>2 DEF InOne
  <2>2. v1 = 0
    BY <2>1
  <2>3. v2 = 0
    BY <2>2
  <2>4. v3 = 0
    BY <2>3 DEF v3
  <2> QED BY <1>2, <1>5, <1>6, <2>1, <2>4 DEF InOne
<1>3. CASE InTwo(major, v, h)
  <2>1. PICK a \in 1 .. 255, b \in 0 .. 255 : h = <<32 * major + 25, a, b>> /\ v = 256 * a + b
    BY <1>3 DEF InTwo
  <2>2. a \in Nat
    OBVIOUS
  <2>3. v1 = a /\ v % 256 = b
    BY <2>1, <2>2, Quotient, ZenonT(40)
  <2>4. v \in Nat /\ ~(v <= 23) /\ ~(v <= 255) /\ v < 256 * 256
    BY <2>1
  <2> HIDE DEF v1
  <2>5. v2 = 0
    BY <2>3
  <2>6. v3 = 0
    BY <2>5 DEF v3
  <2> QED BY <1>5, <1>6, <2>1, <2>3, <2>4, <2>6
<1>4. CASE InFour(major, v, h)
  <2>1. PICK a, b, c, d \in 0 .. 255 :
          h = <<32 * major + 26, a, b, c, d>> /\ v = Horner(a, b, c, d) /\ a + b > 0
    BY <1>4 DEF InFour
  <2>2. a \in Nat /\ 256 * a + b \in Nat /\ 256 * (256 * a + b) + c \in Nat
    OBVIOUS
  <2>3. v = 256 * (256 * (256 * a + b) + c) + d
    BY <2>1 DEF Horner
  <2> DEFINE x == 256 * (256 * a + b) + c
  <2>d. x \in Nat /\ d \in 0 .. 255 /\ v = 256 * x + d
    BY <2>2, <2>3
  <2> HIDE DEF x
  <2>e. (256 * x + d) \div 256 = x /\ (256 * x + d) % 256 = d
    BY ONLY <2>d, Quotient, ZenonT(40)
  <2>f. v1 = x /\ v % 256 = d
    BY <2>d, <2>e
  <2>4. v1 = 256 * (256 * a + b) + c /\ v % 256 = d
    BY <2>f DEF x
  <2> HIDE DEF v1
  <2>5. v2 = 256 * a + b /\ v1 % 256 = c
    BY <2>2, <2>4, Quotient, ZenonT(40)
  <2> HIDE DEF v2
  <2>b. a \in Nat /\ b \in 0 .. 255
    OBVIOUS
  <2>c. (256 * a + b) \div 256 = a /\ (256 * a + b) % 256 = b
    BY ONLY <2>b, Quotient, ZenonT(40)
  <2>6. v3 = a /\ v2 % 256 = b
    BY <2>5, <2>c DEF v3
  <2>7. v \in Nat /\ ~(v <= 23) /\ ~(v <= 255) /\ ~(v < 256 * 256)
    BY <2>1, <2>3
  <2>8. v3 < 256 /\ v3 % 256 = a
    BY <2>6
  <2>9. h = <<32 * major + 26, v3 % 256, v2 % 256, v1 % 256, v % 256>>
    BY <2>1, <2>4, <2>5, <2>6, <2>8
  <2> QED BY <1>5, <1>6, <2>7, <2>8, <2>9
<1> QED BY <1>1, <1>2, <1>3, <1>4 DEF Shortest

(* A wire is bytes up to the fragment.                                    *)
Bytes(w) == w.head \in Seq(0 .. 255)

(* What is written is read.                                                *)
LEMMA HeadRead ==
  ASSUME NEW major \in Heading, NEW v, NEW h, Shortest(major, v, h),
         NEW w, NEW i \in Nat \ {0}, Bytes(w), At(w.head, i, h)
  PROVE  DecodeHead(w, i, major) = [value |-> v, next |-> i + Len(h)]
<1> DEFINE s == w.head
<1>1. DOMAIN s = 1 .. Len(s) /\ Len(s) \in Nat
  BY LenProperties DEF Bytes
<1>2. ASSUME NEW ai \in 0 .. 26, i \in DOMAIN s, s[i] = 32 * major + ai,
             i + Width(ai) \in DOMAIN s, ValueAt(w, i, ai) = v, v >= Least(ai),
             Len(h) = 1 + Width(ai), Width(ai) \in Nat
      PROVE  DecodeHead(w, i, major) = [value |-> v, next |-> i + Len(h)]
  <2>1. NextByte(w, i) = 32 * major + ai
    BY <1>2 DEF NextByte
  <2>2. ai \in 0 .. 31 /\ ai <= 26 /\ i + 1 + Width(ai) = i + Len(h)
    BY <1>2
  <2>3. /\ NextByte(w, i) % 32 = ai /\ NextByte(w, i) \div 32 = major
        /\ NextByte(w, i) # Missing
    BY <2>1, <2>2, FirstByte
  <2>4. HeadOk(w, i, major, ai)
    BY <1>2, <2>2, <2>3 DEF HeadOk
  <2>5. DecodeHead(w, i, major) = [value |-> ValueAt(w, i, ai), next |-> i + 1 + Width(ai)]
    BY <2>3, <2>4 DEF DecodeHead
  <2> HIDE DEF s
  <2> QED BY <1>2, <2>2, <2>5
<1>3. CASE InFirst(major, v, h)
  <2>1. v \in 0 .. 23 /\ Len(h) = 1 /\ h[1] = 32 * major + v
    BY <1>3 DEF InFirst
  <2>2. i \in DOMAIN s /\ s[i] = 32 * major + v
    BY <1>1, <2>1 DEF At
  <2>3. Width(v) = 0 /\ Least(v) = 0 /\ ValueAt(w, i, v) = v
    BY <2>1 DEF Width, Least, ValueAt
  <2>4. /\ v \in 0 .. 26 /\ v >= Least(v) /\ i + Width(v) \in DOMAIN s
        /\ Len(h) = 1 + Width(v) /\ Width(v) \in Nat
    BY <2>1, <2>2, <2>3
  <2> HIDE DEF s
  <2> QED BY <1>2, <2>1, <2>2, <2>3, <2>4
<1>4. CASE InOne(major, v, h)
  <2>1. v \in 24 .. 255 /\ Len(h) = 2 /\ h[1] = 32 * major + 24 /\ h[2] = v
    BY <1>4 DEF InOne
  <2>2. i \in DOMAIN s /\ s[i] = 32 * major + 24 /\ i + 1 \in DOMAIN s /\ s[i + 1] = v
    BY <1>1, <2>1 DEF At
  <2>3. Width(24) = 1 /\ Least(24) = 24 /\ ValueAt(w, i, 24) = v
    BY <2>2 DEF Width, Least, ValueAt
  <2>4. v >= 24
    BY <2>1
  <2>5. /\ v >= Least(24) /\ i + Width(24) \in DOMAIN s /\ 24 \in 0 .. 26
        /\ Len(h) = 1 + Width(24) /\ Width(24) \in Nat
    BY <2>1, <2>2, <2>3, <2>4
  <2> HIDE DEF s
  <2> QED BY <1>2, <2>1, <2>2, <2>3, <2>4, <2>5
<1>5. CASE InTwo(major, v, h)
  <2>0. PICK a \in 1 .. 255, b \in 0 .. 255 : h = <<32 * major + 25, a, b>> /\ v = 256 * a + b
    BY <1>5 DEF InTwo
  <2>1. Len(h) = 3 /\ h[1] = 32 * major + 25 /\ h[2] = a /\ h[3] = b
    BY <2>0
  <2>2. /\ i \in DOMAIN s /\ i + 2 \in DOMAIN s
        /\ s[i] = 32 * major + 25 /\ s[i + 1] = a /\ s[i + 2] = b
    BY <1>1, <2>1 DEF At
  <2>3. Width(25) = 2 /\ Least(25) = 256 /\ ValueAt(w, i, 25) = v
    BY <2>0, <2>2 DEF Width, Least, ValueAt
  <2>4. v >= 256
    BY <2>0
  <2>5. /\ v >= Least(25) /\ i + Width(25) \in DOMAIN s /\ 25 \in 0 .. 26
        /\ Len(h) = 1 + Width(25) /\ Width(25) \in Nat
    BY <2>1, <2>2, <2>3, <2>4
  <2> HIDE DEF s
  <2> QED BY ONLY <1>2, <2>2, <2>3, <2>5, ZenonT(40)
<1>6. CASE InFour(major, v, h)
  <2>0. PICK a, b, c, d \in 0 .. 255 :
          h = <<32 * major + 26, a, b, c, d>> /\ v = Horner(a, b, c, d) /\ a + b > 0
    BY <1>6 DEF InFour
  <2>1. /\ Len(h) = 5 /\ h[1] = 32 * major + 26
        /\ h[2] = a /\ h[3] = b /\ h[4] = c /\ h[5] = d
    BY <2>0
  <2>2. /\ i \in DOMAIN s /\ i + 4 \in DOMAIN s /\ s[i] = 32 * major + 26
        /\ s[i + 1] = a /\ s[i + 2] = b /\ s[i + 3] = c /\ s[i + 4] = d
    BY <1>1, <2>1 DEF At
  <2>3. Width(26) = 4 /\ Least(26) = 256 * 256 /\ ValueAt(w, i, 26) = v
    BY <2>0, <2>2 DEF Width, Least, ValueAt, Horner
  <2>4. v >= 256 * 256
    BY <2>0 DEF Horner
  <2>5. /\ v >= Least(26) /\ i + Width(26) \in DOMAIN s /\ 26 \in 0 .. 26
        /\ Len(h) = 1 + Width(26) /\ Width(26) \in Nat
    BY <2>1, <2>2, <2>3, <2>4
  <2> HIDE DEF s
  <2> QED BY ONLY <1>2, <2>2, <2>3, <2>5, ZenonT(40)
<1> QED BY <1>3, <1>4, <1>5, <1>6 DEF Shortest

(* decode_u32 at position i returns v and goes on at position n.           *)
Says(w, i, major, v, n) == DecodeHead(w, i, major) = [value |-> v, next |-> n]

(* What is read is what is written: only the shortest form passes.         *)
LEMMA HeadWritten ==
  ASSUME NEW major \in Heading, NEW w, NEW i \in Nat \ {0}, Bytes(w),
         NEW v, NEW n, Says(w, i, major, v, n), v # Missing
  PROVE  \E h : /\ Shortest(major, v, h) /\ At(w.head, i, h)
                /\ n = i + Len(h)
<1> DEFINE s == w.head
           d == NextByte(w, i)
           ai == d % 32
<1>1. DOMAIN s = 1 .. Len(s) /\ Len(s) \in Nat /\ \A k \in 1 .. Len(s) : s[k] \in 0 .. 255
  BY LenProperties, ZenonT(40) DEF Bytes
<1>2. v = (IF HeadOk(w, i, major, ai) THEN ValueAt(w, i, ai) ELSE Missing) /\ n = i + 1 + Width(ai)
  BY DEF DecodeHead, Says
<1> HIDE DEF ai
<1>3. HeadOk(w, i, major, ai) /\ v = ValueAt(w, i, ai)
  BY <1>2
<1>4. /\ d # Missing /\ d \div 32 = major /\ ai <= 26 /\ i + Width(ai) \in DOMAIN s
      /\ v >= Least(ai)
  BY <1>3 DEF HeadOk
<1>5. i \in DOMAIN s /\ d = s[i] /\ d \in 0 .. 255
  BY <1>1, <1>4 DEF NextByte
<1> HIDE DEF d, s
<1>d. d \in Nat
  BY <1>5
<1>e. d \div 32 = major
  BY <1>4
<1>6. d % 32 \in 0 .. 31 /\ d = 32 * (d \div 32) + (d % 32)
  BY <1>d, DivMod
<1>7. ai \in 0 .. 26 /\ d = 32 * major + ai
  BY <1>4, <1>6, <1>e DEF ai
<1>8. ASSUME NEW h \in Seq(0 .. 255), Shortest(major, v, h), Len(h) = 1 + Width(ai), At(s, i, h),
             Width(ai) \in Nat
      PROVE  \E g : /\ Shortest(major, v, g) /\ At(s, i, g)
                    /\ n = i + Len(g)
  <2>1. n = i + Len(h)
    BY <1>2, <1>8
  <2> QED BY <1>8, <2>1
<1>9. CASE ai <= 23
  <2>1. Width(ai) = 0 /\ v = ai /\ v \in 0 .. 23
    BY <1>3, <1>7, <1>9 DEF Width, ValueAt
  <2> DEFINE h == <<32 * major + ai>>
  <2>2. Shortest(major, v, h)
    BY <2>1 DEF Shortest, InFirst
  <2>3. At(s, i, h)
    <3>1. /\ Len(h) = 1 /\ h[1] = 32 * major + ai
      OBVIOUS
    <3> HIDE DEF h
    <3>2. i \in 1 .. Len(s) /\ s[i] = h[1] /\ Len(s) \in Nat /\ Len(h) \in 1 .. 5
      BY <1>1, <1>5, <1>7, <3>1
    <3>3. \A k \in 1 .. 4 : k < Len(h) => i + k \in 1 .. Len(s) /\ s[i + k] = h[k + 1]
      BY <1>1, <1>5, <1>7, <3>1
    <3> QED BY <3>2, <3>3, AtItems
  <2>4. Len(h) = 1 + Width(ai) /\ Width(ai) \in Nat
    BY <2>1
  <2> HIDE DEF h
  <2>5. h \in Seq(0 .. 255)
    BY <2>2, HeadType
  <2> QED BY <1>8, <2>2, <2>3, <2>4, <2>5 DEF s
<1>10. CASE ai = 24
  <2>1. Width(ai) = 1 /\ v = s[i + 1] /\ v >= 24 /\ i + 1 \in DOMAIN s
    BY <1>3, <1>4, <1>10 DEF Width, ValueAt, Least, s
  <2>7. s[i + 1] \in 0 .. 255
    BY <1>1, <2>1
  <2>8. v \in 0 .. 255
    BY <2>1, <2>7
  <2>6. v \in 24 .. 255
    BY <2>1, <2>8
  <2> DEFINE h == <<32 * major + 24, v>>
  <2>2. Shortest(major, v, h)
    BY <2>6 DEF Shortest, InOne
  <2>3. At(s, i, h)
    <3>1. /\ Len(h) = 2 /\ h[1] = 32 * major + 24 /\ h[2] = v
      OBVIOUS
    <3> HIDE DEF h
    <3>2. i \in 1 .. Len(s) /\ s[i] = h[1] /\ Len(s) \in Nat /\ Len(h) \in 1 .. 5
      BY <1>1, <1>5, <1>7, <1>10, <2>1, <3>1
    <3>3. \A k \in 1 .. 4 : k < Len(h) => i + k \in 1 .. Len(s) /\ s[i + k] = h[k + 1]
      BY <1>1, <1>5, <1>7, <1>10, <2>1, <3>1
    <3> QED BY <3>2, <3>3, AtItems
  <2>4. Len(h) = 1 + Width(ai) /\ Width(ai) \in Nat
    BY <2>1
  <2> HIDE DEF h
  <2>5. h \in Seq(0 .. 255)
    BY <2>2, HeadType
  <2> QED BY <1>8, <2>2, <2>3, <2>4, <2>5 DEF s
<1>11. CASE ai = 25
  <2>1. /\ Width(ai) = 2 /\ v = 256 * s[i + 1] + s[i + 2] /\ v >= 256 /\ i + 2 \in DOMAIN s
    BY <1>3, <1>4, <1>11 DEF Width, ValueAt, Least, s
  <2>6. i + 1 \in DOMAIN s
    BY <1>1, <2>1
  <2>7. s[i + 1] \in 0 .. 255 /\ s[i + 2] \in 0 .. 255
    <3>1. i + 1 \in 1 .. Len(s) /\ i + 2 \in 1 .. Len(s)
      BY ONLY <1>1, <2>1, <2>6, Zenon
    <3> QED BY ONLY <1>1, <3>1, Zenon
  <2>8. s[i + 1] \in 1 .. 255
    <3>1. \A a, b \in 0 .. 255 : 256 * a + b >= 256 => a \in 1 .. 255
      OBVIOUS
    <3> QED BY <2>1, <2>7, <3>1, ZenonT(40)
  <2> DEFINE h == <<32 * major + 25, s[i + 1], s[i + 2]>>
  <2>2. Shortest(major, v, h)
    <3>1. InTwo(major, v, h)
      BY <2>1, <2>7, <2>8 DEF InTwo
    <3> HIDE DEF h
    <3> QED BY <3>1 DEF Shortest
  <2>3. At(s, i, h)
    <3>1. /\ Len(h) = 3 /\ h[1] = 32 * major + 25 /\ h[2] = s[i + 1]
          /\ h[3] = s[i + 2]
      OBVIOUS
    <3> HIDE DEF h
    <3>2. i \in 1 .. Len(s) /\ s[i] = h[1] /\ Len(s) \in Nat /\ Len(h) \in 1 .. 5
      BY <1>1, <1>5, <1>7, <1>11, <2>1, <2>6, <3>1
    <3>3. \A k \in 1 .. 4 : k < Len(h) => i + k \in 1 .. Len(s) /\ s[i + k] = h[k + 1]
      BY <1>1, <1>5, <1>7, <1>11, <2>1, <2>6, <3>1
    <3> QED BY <3>2, <3>3, AtItems
  <2>4. Len(h) = 1 + Width(ai) /\ Width(ai) \in Nat
    BY <2>1
  <2> HIDE DEF h
  <2>5. h \in Seq(0 .. 255)
    BY <2>2, HeadType
  <2> QED BY <1>8, <2>2, <2>3, <2>4, <2>5 DEF s
<1>12. CASE ai = 26
  <2>1. /\ Width(ai) = 4 /\ v >= 256 * 256 /\ i + 4 \in DOMAIN s
        /\ v = Horner(s[i + 1], s[i + 2], s[i + 3], s[i + 4])
    BY <1>3, <1>4, <1>12 DEF Width, ValueAt, Least, Horner, s
  <2>6. i + 1 \in DOMAIN s /\ i + 2 \in DOMAIN s /\ i + 3 \in DOMAIN s
    BY <1>1, <2>1
  <2>7. /\ s[i + 1] \in 0 .. 255 /\ s[i + 2] \in 0 .. 255
        /\ s[i + 3] \in 0 .. 255 /\ s[i + 4] \in 0 .. 255
    <3>1. /\ i + 1 \in 1 .. Len(s) /\ i + 2 \in 1 .. Len(s)
          /\ i + 3 \in 1 .. Len(s) /\ i + 4 \in 1 .. Len(s)
      BY ONLY <1>1, <2>1, <2>6, Zenon
    <3> QED BY ONLY <1>1, <3>1, Zenon
  <2>8. s[i + 1] + s[i + 2] > 0
    <3>1. \A a, b, c, e \in 0 .. 255 : Horner(a, b, c, e) >= 256 * 256 => a + b > 0
      BY DEF Horner
    <3> QED BY <2>1, <2>7, <3>1, ZenonT(40)
  <2> DEFINE h == <<32 * major + 26, s[i + 1], s[i + 2], s[i + 3], s[i + 4]>>
  <2>2. Shortest(major, v, h)
    <3>1. InFour(major, v, h)
      BY <2>1, <2>7, <2>8 DEF InFour
    <3> HIDE DEF h
    <3> QED BY <3>1 DEF Shortest
  <2>3. At(s, i, h)
    <3>1. /\ Len(h) = 5 /\ h[1] = 32 * major + 26 /\ h[2] = s[i + 1]
          /\ h[3] = s[i + 2] /\ h[4] = s[i + 3] /\ h[5] = s[i + 4]
      OBVIOUS
    <3> HIDE DEF h
    <3>2. i \in 1 .. Len(s) /\ s[i] = h[1] /\ Len(s) \in Nat /\ Len(h) \in 1 .. 5
      BY <1>1, <1>5, <1>7, <1>12, <2>1, <2>6, <3>1
    <3>3. \A k \in 1 .. 4 : k < Len(h) => i + k \in 1 .. Len(s) /\ s[i + k] = h[k + 1]
      BY <1>1, <1>5, <1>7, <1>12, <2>1, <2>6, <3>1
    <3> QED BY <3>2, <3>3, AtItems
  <2>4. Len(h) = 1 + Width(ai) /\ Width(ai) \in Nat
    BY <2>1
  <2> HIDE DEF h
  <2>5. h \in Seq(0 .. 255)
    BY <2>2, HeadType
  <2> QED BY <1>8, <2>2, <2>3, <2>4, <2>5 DEF s
<1> QED BY <1>7, <1>9, <1>10, <1>11, <1>12 DEF s

(***************************************************************************)
(* A head at a place in a wire, in the terms of the codec.                 *)
(***************************************************************************)
LEMMA HeadLength ==
  ASSUME NEW major \in Heading, NEW v, IsU32(v)
  PROVE  /\ EncodeHead(major, v) \in Seq(0 .. 255)
         /\ Len(EncodeHead(major, v)) \in Nat \ {0}
BY HeadForms, HeadType

LEMMA HeadReads ==
  ASSUME NEW major \in Heading, NEW v, IsU32(v), NEW w, NEW i \in Nat \ {0}, Bytes(w),
         At(w.head, i, EncodeHead(major, v))
  PROVE  Says(w, i, major, v, i + Len(EncodeHead(major, v)))
<1> DEFINE h == EncodeHead(major, v)
<1> HIDE DEF h
<1>1. Shortest(major, v, h) /\ At(w.head, i, h)
  BY HeadForms DEF h
<1>2. DecodeHead(w, i, major) = [value |-> v, next |-> i + Len(h)]
  BY <1>1, HeadRead
<1> QED BY <1>2 DEF Says, h

LEMMA HeadWrites ==
  ASSUME NEW major \in Heading, NEW w, NEW i \in Nat \ {0}, Bytes(w),
         NEW v, NEW n, Says(w, i, major, v, n), v # Missing
  PROVE  /\ IsU32(v) /\ n \in Nat \ {0}
         /\ At(w.head, i, EncodeHead(major, v)) /\ n = i + Len(EncodeHead(major, v))
<1>1. PICK h : Shortest(major, v, h) /\ At(w.head, i, h) /\ n = i + Len(h)
  BY HeadWritten
<1>2. IsU32(v) /\ h = EncodeHead(major, v)
  BY <1>1, FormIs
<1>3. Len(h) \in Nat \ {0}
  BY <1>1, HeadType
<1>4. n \in Nat \ {0}
  BY <1>1, <1>3
<1> QED BY <1>1, <1>2, <1>4

(***************************************************************************)
(* Sequences that are laid end to end.                                     *)
(***************************************************************************)
LEMMA AtConcat ==
  ASSUME NEW S, NEW s \in Seq(S), NEW t \in Seq(S)
  PROVE  /\ At(s \o t, 1, s) /\ At(s \o t, Len(s) + 1, t)
         /\ \A i \in Nat \ {0} : \A h : At(s, i, h) => At(s \o t, i, h)
<1> DEFINE u == s \o t
<1>1. /\ Len(u) = Len(s) + Len(t) /\ Len(s) \in Nat /\ Len(t) \in Nat
      /\ \A k \in 1 .. Len(s) + Len(t) : u[k] = IF k <= Len(s) THEN s[k] ELSE t[k - Len(s)]
  BY ConcatProperties, LenProperties
<1> HIDE DEF u
<1>2. \A k \in 1 .. Len(s) : k \in 1 .. Len(u) /\ u[k] = s[k]
  BY <1>1
<1>3. \A k \in 1 .. Len(t) : (Len(s) + 1) + k - 1 \in 1 .. Len(u) /\ u[(Len(s) + 1) + k - 1] = t[k]
  <2> TAKE k \in 1 .. Len(t)
  <2>1. /\ Len(s) + k \in 1 .. Len(u) /\ ~(Len(s) + k <= Len(s))
        /\ (Len(s) + 1) + k - 1 = Len(s) + k /\ (Len(s) + k) - Len(s) = k
    BY <1>1
  <2> QED BY <1>1, <2>1
<1>4. At(u, 1, s)
  <2>1. \A k \in 1 .. Len(s) : 1 + k - 1 = k
    BY <1>1
  <2> QED BY <1>2, <2>1 DEF At
<1>5. At(u, Len(s) + 1, t)
  BY <1>3 DEF At
<1>6. \A i \in Nat \ {0} : \A h : At(s, i, h) => At(u, i, h)
  BY <1>2 DEF At
<1> QED BY <1>4, <1>5, <1>6 DEF u

LEMMA AtJoin ==
  ASSUME NEW S, NEW u \in Seq(S), NEW s \in Seq(S), NEW t \in Seq(S),
         At(u, 1, s), At(u, Len(s) + 1, t)
  PROVE  At(u, 1, s \o t) /\ s \o t \in Seq(S) /\ Len(s \o t) = Len(s) + Len(t)
<1> DEFINE c == s \o t
<1>1. /\ Len(c) = Len(s) + Len(t) /\ Len(s) \in Nat /\ Len(t) \in Nat /\ c \in Seq(S)
      /\ \A k \in 1 .. Len(s) + Len(t) : c[k] = IF k <= Len(s) THEN s[k] ELSE t[k - Len(s)]
  BY ConcatProperties, LenProperties
<1> HIDE DEF c
<1>2. ASSUME NEW k \in 1 .. Len(c)
      PROVE  1 + k - 1 \in 1 .. Len(u) /\ u[1 + k - 1] = c[k]
  <2>1. CASE k <= Len(s)
    <3>1. k \in 1 .. Len(s)
      BY <1>1, <2>1
    <3> QED BY <1>1, <2>1, <3>1 DEF At
  <2>2. CASE ~(k <= Len(s))
    <3>1. k - Len(s) \in 1 .. Len(t)
      BY <1>1, <2>2
    <3>2. (Len(s) + 1) + (k - Len(s)) - 1 = k /\ 1 + k - 1 = k
      BY <1>1
    <3>3. k \in 1 .. Len(u) /\ u[k] = t[k - Len(s)]
      BY <3>1, <3>2 DEF At
    <3> QED BY <1>1, <2>2, <3>2, <3>3
  <2> QED BY <2>1, <2>2
<1>3. At(u, 1, c)
  BY <1>2 DEF At
<1> QED BY <1>1, <1>3 DEF c

LEMMA AtWhole ==
  ASSUME NEW S, NEW u \in Seq(S), NEW s \in Seq(S), At(u, 1, s), Len(u) = Len(s)
  PROVE  u = s
<1>1. \A k \in 1 .. Len(s) : u[k] = s[k]
  <2> TAKE k \in 1 .. Len(s)
  <2>1. 1 + k - 1 = k
    BY LenProperties
  <2> QED BY <2>1 DEF At
<1> QED BY <1>1, SeqEqual

(* The heads of a part, the places at which they start, and the place      *)
(* after the last of them.                                                 *)
Opening == <<ArrayOfFive>>

Laid(s, a, b, c, d, e, i, j, k, l, m) ==
  /\ At(s, 1, Opening) /\ At(s, 2, a) /\ At(s, i, b) /\ At(s, j, c) /\ At(s, k, d) /\ At(s, l, e)
  /\ i = 2 + Len(a) /\ j = i + Len(b) /\ k = j + Len(c) /\ l = k + Len(d) /\ m = l + Len(e)
  /\ Len(s) + 1 = m

LEMMA LaidConcat ==
  ASSUME NEW a \in Seq(0 .. 255), NEW b \in Seq(0 .. 255), NEW c \in Seq(0 .. 255),
         NEW d \in Seq(0 .. 255), NEW e \in Seq(0 .. 255)
  PROVE  /\ Opening \o a \o b \o c \o d \o e \in Seq(0 .. 255)
         /\ \E i, j, k, l, m \in Nat \ {0} :
              Laid(Opening \o a \o b \o c \o d \o e, a, b, c, d, e, i, j, k, l, m)
<1> DEFINE B == 0 .. 255
           s0 == Opening
           s1 == s0 \o a
           s2 == s1 \o b
           s3 == s2 \o c
           s4 == s3 \o d
           s5 == s4 \o e
           i == 2 + Len(a)
           j == i + Len(b)
           k == j + Len(c)
           l == k + Len(d)
           m == l + Len(e)
<1>1. s0 \in Seq(B) /\ Len(s0) = 1
  BY DEF Opening, ArrayOfFive
<1>2. a \in Seq(B) /\ b \in Seq(B) /\ c \in Seq(B) /\ d \in Seq(B) /\ e \in Seq(B)
  OBVIOUS
<1>3. Len(a) \in Nat /\ Len(b) \in Nat /\ Len(c) \in Nat /\ Len(d) \in Nat /\ Len(e) \in Nat
  BY LenProperties
<1>i. /\ i = 2 + Len(a) /\ j = i + Len(b) /\ k = j + Len(c) /\ l = k + Len(d) /\ m = l + Len(e)
  OBVIOUS
<1> HIDE DEF B, i, j, k, l, m
<1>4. /\ i \in Nat \ {0} /\ j \in Nat \ {0} /\ k \in Nat \ {0} /\ l \in Nat \ {0}
      /\ m \in Nat \ {0}
  BY <1>3, <1>i
<1> HIDE DEF s0
<1>z. \A s, t \in Seq(B) :
        /\ At(s \o t, Len(s) + 1, t)
        /\ \A x \in Nat \ {0} : \A h : At(s, x, h) => At(s \o t, x, h)
  BY AtConcat
<1>11. s1 \in Seq(B) /\ Len(s1) = 1 + Len(a)
  BY <1>1, <1>2, ConcatProperties, ZenonT(40)
<1>12. At(s1, 1, s0) /\ At(s1, 2, a)
  <2>1. Len(s0) + 1 = 2
    BY <1>1
  <2> QED BY <1>1, <1>2, <2>1, AtConcat
<1> HIDE DEF s1
<1>21. s2 \in Seq(B) /\ Len(s2) = 1 + Len(a) + Len(b)
  BY <1>2, <1>11, ConcatProperties, ZenonT(40)
<1>22. At(s2, 1, s0) /\ At(s2, 2, a) /\ At(s2, i, b)
  <2>1. Len(s1) + 1 = i
    BY <1>3, <1>11, <1>i
  <2> QED BY <1>2, <1>11, <1>12, <2>1, AtConcat
<1> HIDE DEF s2
<1>31. s3 \in Seq(B) /\ Len(s3) = 1 + Len(a) + Len(b) + Len(c)
  BY <1>2, <1>21, ConcatProperties, ZenonT(40)
<1>32. At(s3, 1, s0) /\ At(s3, 2, a) /\ At(s3, i, b) /\ At(s3, j, c)
  <2>1. Len(s2) + 1 = j
    BY <1>3, <1>21, <1>i
  <2> QED BY <1>2, <1>4, <1>21, <1>22, <2>1, AtConcat
<1> HIDE DEF s3
<1>41. s4 \in Seq(B) /\ Len(s4) = 1 + Len(a) + Len(b) + Len(c) + Len(d)
  BY <1>2, <1>31, ConcatProperties, ZenonT(40)
<1>42. At(s4, 1, s0) /\ At(s4, 2, a) /\ At(s4, i, b) /\ At(s4, j, c) /\ At(s4, k, d)
  <2>1. Len(s3) + 1 = k
    BY <1>3, <1>31, <1>i
  <2>2. \A x \in Nat \ {0} : \A h : At(s3, x, h) => At(s4, x, h)
    BY <1>2, <1>31, <1>z
  <2>3. At(s4, k, d)
    BY <1>2, <1>31, <1>z, <2>1
  <2>4. 1 \in Nat \ {0} /\ 2 \in Nat \ {0}
    OBVIOUS
  <2> QED BY <1>4, <1>32, <2>2, <2>3, <2>4
<1> HIDE DEF s4
<1>51. s5 \in Seq(B) /\ Len(s5) = 1 + Len(a) + Len(b) + Len(c) + Len(d) + Len(e)
  BY <1>2, <1>41, ConcatProperties, ZenonT(40)
<1>52. /\ At(s5, 1, s0) /\ At(s5, 2, a) /\ At(s5, i, b) /\ At(s5, j, c) /\ At(s5, k, d)
       /\ At(s5, l, e)
  <2>1. Len(s4) + 1 = l
    BY <1>3, <1>41, <1>i
  <2>2. \A x \in Nat \ {0} : \A h : At(s4, x, h) => At(s5, x, h)
    BY <1>2, <1>41, <1>z
  <2>3. At(s5, l, e)
    BY <1>2, <1>41, <1>z, <2>1
  <2>4. 1 \in Nat \ {0} /\ 2 \in Nat \ {0}
    OBVIOUS
  <2> QED BY <1>4, <1>42, <2>2, <2>3, <2>4
<1>6. s5 = Opening \o a \o b \o c \o d \o e
  BY DEF s0, s1, s2, s3, s4
<1>7. Len(s5) + 1 = m
  BY <1>3, <1>51, <1>i
<1> HIDE DEF s5
<1>8. Laid(s5, a, b, c, d, e, i, j, k, l, m)
  BY <1>52, <1>7, <1>i DEF Laid, s0
<1> QED BY <1>4, <1>51, <1>6, <1>8 DEF B

(* Heads that fill the bytes from the second to the last. *)
AreHeads(u, a, b, c, d, e) ==
  /\ u \in Seq(0 .. 255) /\ a \in Seq(0 .. 255) /\ b \in Seq(0 .. 255)
  /\ c \in Seq(0 .. 255) /\ d \in Seq(0 .. 255) /\ e \in Seq(0 .. 255)
  /\ \E i, j, k, l, m : Laid(u, a, b, c, d, e, i, j, k, l, m)

LEMMA LaidUnique ==
  ASSUME NEW u, NEW a, NEW b, NEW c, NEW d, NEW e, AreHeads(u, a, b, c, d, e)
  PROVE  u = Opening \o a \o b \o c \o d \o e
<1> PICK i, j, k, l, m : Laid(u, a, b, c, d, e, i, j, k, l, m)
  BY DEF AreHeads
<1> DEFINE B == 0 .. 255
           s0 == Opening
           s1 == s0 \o a
           s2 == s1 \o b
           s3 == s2 \o c
           s4 == s3 \o d
           s5 == s4 \o e
<1>1. s0 \in Seq(B) /\ Len(s0) = 1
  BY DEF Opening, ArrayOfFive
<1>2. /\ a \in Seq(B) /\ b \in Seq(B) /\ c \in Seq(B) /\ d \in Seq(B) /\ e \in Seq(B)
      /\ u \in Seq(B)
  BY DEF AreHeads
<1>3. /\ Len(a) \in Nat /\ Len(b) \in Nat /\ Len(c) \in Nat /\ Len(d) \in Nat /\ Len(e) \in Nat
      /\ Len(u) \in Nat
  BY <1>2, LenProperties
<1>4. /\ At(u, 1, s0) /\ At(u, 2, a) /\ At(u, i, b) /\ At(u, j, c) /\ At(u, k, d) /\ At(u, l, e)
  BY DEF Laid
<1>i. /\ i = 2 + Len(a) /\ j = i + Len(b) /\ k = j + Len(c) /\ l = k + Len(d) /\ m = l + Len(e)
      /\ Len(u) + 1 = m
  BY DEF Laid
<1> HIDE DEF B, s0
<1>z. \A s, t \in Seq(B) :
        At(u, 1, s) /\ At(u, Len(s) + 1, t) =>
          At(u, 1, s \o t) /\ s \o t \in Seq(B) /\ Len(s \o t) = Len(s) + Len(t)
  BY <1>2, AtJoin
<1>5. At(u, 1, s1) /\ s1 \in Seq(B) /\ Len(s1) = Len(s0) + Len(a)
  <2>1. Len(s0) + 1 = 2
    BY <1>1
  <2>2. At(u, Len(s0) + 1, a)
    BY <1>4, <2>1
  <2> QED BY <1>1, <1>2, <1>4, <2>2, <1>z
<1> HIDE DEF s1
<1>6. At(u, 1, s2) /\ s2 \in Seq(B) /\ Len(s2) = Len(s1) + Len(b)
  <2>1. Len(s1) + 1 = i
    BY <1>1, <1>3, <1>5, <1>i
  <2>2. At(u, Len(s1) + 1, b)
    BY <1>4, <2>1
  <2> QED BY <1>2, <1>5, <2>2, <1>z
<1> HIDE DEF s2
<1>7. At(u, 1, s3) /\ s3 \in Seq(B) /\ Len(s3) = Len(s2) + Len(c)
  <2>1. Len(s2) + 1 = j
    BY <1>1, <1>3, <1>5, <1>6, <1>i
  <2>2. At(u, Len(s2) + 1, c)
    BY <1>4, <2>1
  <2> QED BY <1>2, <1>6, <2>2, <1>z
<1> HIDE DEF s3
<1>8. At(u, 1, s4) /\ s4 \in Seq(B) /\ Len(s4) = Len(s3) + Len(d)
  <2>1. Len(s3) + 1 = k
    BY <1>1, <1>3, <1>5, <1>6, <1>7, <1>i
  <2>2. At(u, Len(s3) + 1, d)
    BY <1>4, <2>1
  <2> QED BY <1>2, <1>7, <2>2, <1>z
<1> HIDE DEF s4
<1>9. At(u, 1, s5) /\ s5 \in Seq(B) /\ Len(s5) = Len(s4) + Len(e)
  <2>1. Len(s4) + 1 = l
    BY <1>1, <1>3, <1>5, <1>6, <1>7, <1>8, <1>i
  <2>2. At(u, Len(s4) + 1, e)
    BY <1>4, <2>1
  <2> QED BY <1>2, <1>8, <2>2, <1>z
<1> HIDE DEF s5
<1>10. Len(u) = Len(s5)
  <2>1. Len(s5) = 1 + Len(a) + Len(b) + Len(c) + Len(d) + Len(e)
    BY <1>1, <1>5, <1>6, <1>7, <1>8, <1>9
  <2>2. Len(u) + 1 = 2 + Len(a) + Len(b) + Len(c) + Len(d) + Len(e)
    BY <1>i
  <2> QED BY <1>3, <2>1, <2>2
<1>11. u = s5
  BY <1>2, <1>9, <1>10, AtWhole
<1> QED BY <1>11 DEF s0, s1, s2, s3, s4, s5

(***************************************************************************)
(* A part and its wire.                                                    *)
(***************************************************************************)
(* The five values that a wire says, and the places between them.          *)
Spells(w, v1, v2, v3, v4, v5, i, j, k, l, m) ==
  /\ Says(w, 2, Unsigned, v1, i) /\ Says(w, i, Unsigned, v2, j)
  /\ Says(w, j, Unsigned, v3, k) /\ Says(w, k, Unsigned, v4, l)
  /\ Says(w, l, ByteString, v5, m)

LEMMA HeadsSpelled ==
  ASSUME NEW w, NEW v1, NEW v2, NEW v3, NEW v4, NEW v5,
         NEW i, NEW j, NEW k, NEW l, NEW m, Spells(w, v1, v2, v3, v4, v5, i, j, k, l, m)
  PROVE  Heads(w) = <<[value |-> v1, next |-> i], [value |-> v2, next |-> j],
                      [value |-> v3, next |-> k], [value |-> v4, next |-> l],
                      [value |-> v5, next |-> m]>>
<1>1. /\ DecodeHead(w, 2, Unsigned) = [value |-> v1, next |-> i]
      /\ DecodeHead(w, i, Unsigned) = [value |-> v2, next |-> j]
      /\ DecodeHead(w, j, Unsigned) = [value |-> v3, next |-> k]
      /\ DecodeHead(w, k, Unsigned) = [value |-> v4, next |-> l]
      /\ DecodeHead(w, l, ByteString) = [value |-> v5, next |-> m]
  BY DEF Spells, Says
<1> QED BY <1>1 DEF Heads

LEMMA SomeSpelling ==
  ASSUME NEW w
  PROVE  \E v1, v2, v3, v4, v5, i, j, k, l, m : Spells(w, v1, v2, v3, v4, v5, i, j, k, l, m)
<1>1. \A i, major : \E v, n : Says(w, i, major, v, n)
  BY DEF Says, DecodeHead
<1>2. PICK v1, i : Says(w, 2, Unsigned, v1, i)
  BY <1>1
<1>3. PICK v2, j : Says(w, i, Unsigned, v2, j)
  BY <1>1
<1>4. PICK v3, k : Says(w, j, Unsigned, v3, k)
  BY <1>1
<1>5. PICK v4, l : Says(w, k, Unsigned, v4, l)
  BY <1>1
<1>6. PICK v5, m : Says(w, l, ByteString, v5, m)
  BY <1>1
<1>7. Spells(w, v1, v2, v3, v4, v5, i, j, k, l, m)
  BY <1>2, <1>3, <1>4, <1>5, <1>6 DEF Spells
<1> QED BY <1>7

(* What decode_part makes of the five values. *)
LEMMA DecodeSpelled ==
  ASSUME NEW w, NEW v1, NEW v2, NEW v3, NEW v4, NEW v5,
         NEW i, NEW j, NEW k, NEW l, NEW m, Spells(w, v1, v2, v3, v4, v5, i, j, k, l, m)
  PROVE  /\ HeadsOk(w) <=> /\ NextByte(w, 1) = ArrayOfFive
                           /\ v1 # Missing /\ v2 # Missing /\ v3 # Missing
                           /\ v4 # Missing /\ v5 # Missing
         /\ Heads(w)[5].next = m
         /\ DecodePart(w) =
              IF ~HeadsOk(w) THEN Failed("InvalidPartCbor")
              ELSE IF v5 > MaxFragmentData THEN Failed("FragmentData")
              ELSE IF v5 # Left(w, m) THEN Failed("InvalidPartCbor")
              ELSE IF v1 = 0 THEN Failed("InvalidSequence")
              ELSE IF 0 \in {v2, v3, v5} THEN Failed("EmptyPart")
              ELSE IF v2 > MaxFragmentCount THEN Failed("FragmentCount")
              ELSE [error |-> "None",
                    part |-> [seq |-> v1, count |-> v2, mlen |-> v3, crc |-> v4,
                              data |-> w.data]]
<1> DEFINE h == Heads(w)
           value == [x \in 1 .. 5 |-> h[x].value]
<1>1. /\ h[1].value = v1 /\ h[2].value = v2 /\ h[3].value = v3 /\ h[4].value = v4
      /\ h[5].value = v5 /\ h[5].next = m
  BY HeadsSpelled
<1>2. HeadsOk(w) <=> NextByte(w, 1) = ArrayOfFive /\ \A x \in 1 .. 5 : h[x].value # Missing
  BY DEF HeadsOk
<1>3. DecodePart(w) =
        IF ~HeadsOk(w) THEN Failed("InvalidPartCbor")
        ELSE IF value[5] > MaxFragmentData THEN Failed("FragmentData")
        ELSE IF value[5] # Left(w, h[5].next) THEN Failed("InvalidPartCbor")
        ELSE IF value[1] = 0 THEN Failed("InvalidSequence")
        ELSE IF 0 \in {value[2], value[3], value[5]} THEN Failed("EmptyPart")
        ELSE IF value[2] > MaxFragmentCount THEN Failed("FragmentCount")
        ELSE [error |-> "None",
              part |-> [seq |-> value[1], count |-> value[2], mlen |-> value[3],
                        crc |-> value[4], data |-> w.data]]
  BY DEF DecodePart
<1> HIDE DEF h
<1>4. /\ value[1] = v1 /\ value[2] = v2 /\ value[3] = v3 /\ value[4] = v4 /\ value[5] = v5
  BY <1>1
<1>5. HeadsOk(w) <=> /\ NextByte(w, 1) = ArrayOfFive
                     /\ v1 # Missing /\ v2 # Missing /\ v3 # Missing
                     /\ v4 # Missing /\ v5 # Missing
  <2>1. (\A x \in 1 .. 5 : h[x].value # Missing) <=>
          /\ v1 # Missing /\ v2 # Missing /\ v3 # Missing /\ v4 # Missing /\ v5 # Missing
    <3>1. \A x \in 1 .. 5 : x = 1 \/ x = 2 \/ x = 3 \/ x = 4 \/ x = 5
      OBVIOUS
    <3>2. 1 \in 1 .. 5 /\ 2 \in 1 .. 5 /\ 3 \in 1 .. 5 /\ 4 \in 1 .. 5 /\ 5 \in 1 .. 5
      OBVIOUS
    <3> QED BY <1>1, <3>1, <3>2, Zenon
  <2> QED BY <1>2, <2>1, Zenon
<1> HIDE DEF value
<1>6. Heads(w)[5].next = m
  BY <1>1 DEF h
<1> QED BY <1>1, <1>3, <1>4, <1>5, <1>6, Zenon

(* encode_part, then decode_part. *)
LEMMA ReadsBack ==
  ASSUME NEW p, IsPart(p)
  PROVE  /\ Fits(p) => DecodePart(EncodePart(p)) = [error |-> "None", part |-> p]
         /\ ~Fits(p) => DecodePart(EncodePart(p)).error # "None"
<1> DEFINE w == EncodePart(p)
           a == EncodeHead(Unsigned, p.seq)
           b == EncodeHead(Unsigned, p.count)
           c == EncodeHead(Unsigned, p.mlen)
           d == EncodeHead(Unsigned, p.crc)
           e == EncodeHead(ByteString, p.data.len)
<1>1. w.head = Opening \o a \o b \o c \o d \o e /\ w.data = p.data
  BY DEF EncodePart, Opening
<1>2. /\ IsU32(p.seq) /\ IsU32(p.count) /\ IsU32(p.mlen) /\ IsU32(p.crc) /\ IsU32(p.data.len)
  BY DEF IsPart
<1>h. Unsigned \in Heading /\ ByteString \in Heading
  BY DEF Heading
<1>3. /\ a \in Seq(0 .. 255) /\ b \in Seq(0 .. 255) /\ c \in Seq(0 .. 255)
      /\ d \in Seq(0 .. 255) /\ e \in Seq(0 .. 255)
  BY <1>2, <1>h, HeadLength
<1> HIDE DEF a, b, c, d, e, w
<1>4. PICK i, j, k, l, m \in Nat \ {0} :
        Laid(Opening \o a \o b \o c \o d \o e, a, b, c, d, e, i, j, k, l, m)
  BY <1>3, LaidConcat, ZenonT(40)
<1>5. Bytes(w) /\ Laid(w.head, a, b, c, d, e, i, j, k, l, m)
  BY <1>1, <1>3, <1>4, LaidConcat DEF Bytes
<1>6. Spells(w, p.seq, p.count, p.mlen, p.crc, p.data.len, i, j, k, l, m)
  <2>1. /\ At(w.head, 2, a) /\ At(w.head, i, b) /\ At(w.head, j, c)
        /\ At(w.head, k, d) /\ At(w.head, l, e)
        /\ i = 2 + Len(a) /\ j = i + Len(b) /\ k = j + Len(c) /\ l = k + Len(d)
        /\ m = l + Len(e)
    BY <1>5 DEF Laid
  <2>2. 2 \in Nat \ {0}
    OBVIOUS
  <2>3. Says(w, 2, Unsigned, p.seq, i)
    BY <1>2, <1>5, <1>h, <2>1, <2>2, HeadReads DEF a
  <2>4. Says(w, i, Unsigned, p.count, j)
    BY <1>2, <1>4, <1>5, <1>h, <2>1, HeadReads DEF b
  <2>5. Says(w, j, Unsigned, p.mlen, k)
    BY <1>2, <1>4, <1>5, <1>h, <2>1, HeadReads DEF c
  <2>6. Says(w, k, Unsigned, p.crc, l)
    BY <1>2, <1>4, <1>5, <1>h, <2>1, HeadReads DEF d
  <2>7. Says(w, l, ByteString, p.data.len, m)
    BY <1>2, <1>4, <1>5, <1>h, <2>1, HeadReads DEF e
  <2> QED BY <2>3, <2>4, <2>5, <2>6, <2>7 DEF Spells
<1>7. NextByte(w, 1) = ArrayOfFive
  <2>1. At(w.head, 1, Opening)
    BY <1>5 DEF Laid
  <2>2. Len(Opening) = 1 /\ Opening[1] = ArrayOfFive
    BY DEF Opening
  <2>3. 1 \in 1 .. Len(w.head) /\ w.head[1] = ArrayOfFive
    BY <2>1, <2>2 DEF At
  <2>4. DOMAIN w.head = 1 .. Len(w.head)
    BY <1>5, LenProperties DEF Bytes
  <2> QED BY <2>3, <2>4 DEF NextByte
<1>8. p.seq # Missing /\ p.count # Missing /\ p.mlen # Missing /\ p.crc # Missing
      /\ p.data.len # Missing
  BY <1>2 DEF IsU32, Missing
<1>9. Left(w, m) = p.data.len
  <2>1. Len(w.head) + 1 = m /\ Len(w.head) \in Nat /\ p.data.len \in Nat
    BY <1>2, <1>5, LenProperties DEF Laid, Bytes, IsU32
  <2>2. Len(w.head) - m + 1 + p.data.len = p.data.len
    BY <2>1
  <2> QED BY <1>1, <2>2 DEF Left
<1>10. HeadsOk(w)
  BY <1>6, <1>7, <1>8, DecodeSpelled
<1>11. DecodePart(w) =
         IF p.data.len > MaxFragmentData THEN Failed("FragmentData")
         ELSE IF p.seq = 0 THEN Failed("InvalidSequence")
         ELSE IF 0 \in {p.count, p.mlen, p.data.len} THEN Failed("EmptyPart")
         ELSE IF p.count > MaxFragmentCount THEN Failed("FragmentCount")
         ELSE [error |-> "None",
               part |-> [seq |-> p.seq, count |-> p.count, mlen |-> p.mlen, crc |-> p.crc,
                         data |-> p.data]]
  BY <1>1, <1>6, <1>9, <1>10, DecodeSpelled
<1>12. Fits(p) <=>
         /\ p.seq # 0 /\ 0 \notin {p.count, p.mlen, p.data.len}
         /\ ~(p.data.len > MaxFragmentData) /\ ~(p.count > MaxFragmentCount)
  <2>1. p.data.len \in Nat /\ p.count \in Nat /\ MaxFragmentData \in Nat /\ MaxFragmentCount \in Nat
    BY <1>2, WireAssumption DEF IsU32
  <2>2. (p.data.len <= MaxFragmentData <=> ~(p.data.len > MaxFragmentData))
        /\ (p.count <= MaxFragmentCount <=> ~(p.count > MaxFragmentCount))
    BY <2>1
  <2> QED BY <2>2 DEF Fits, WellFormed, IsEmpty
<1>13. p = [seq |-> p.seq, count |-> p.count, mlen |-> p.mlen, crc |-> p.crc, data |-> p.data]
  BY DEF IsPart
<1>14. \A x \in {"FragmentData", "InvalidSequence", "EmptyPart", "FragmentCount"} :
         Failed(x).error # "None"
  BY DEF Failed
<1>15. CASE Fits(p)
  BY <1>11, <1>12, <1>13, <1>15 DEF w
<1>16. CASE ~Fits(p)
  <2>1. DecodePart(w) \in {Failed("FragmentData"), Failed("InvalidSequence"),
                           Failed("EmptyPart"), Failed("FragmentCount")}
    BY <1>11, <1>12, <1>16
  <2> QED BY <1>14, <1>16, <2>1 DEF w
<1> QED BY <1>15, <1>16

(* decode_part accepts no other bytes. *)
LEMMA OnlyWritten ==
  ASSUME NEW w, IsWire(w), DecodePart(w).error = "None"
  PROVE  w = EncodePart(DecodePart(w).part)
<1>1. PICK v1, v2, v3, v4, v5, i, j, k, l, m : Spells(w, v1, v2, v3, v4, v5, i, j, k, l, m)
  BY SomeSpelling
<1>2. \A x \in {"InvalidPartCbor", "FragmentData", "InvalidSequence", "EmptyPart",
                "FragmentCount"} : Failed(x).error # "None"
  BY DEF Failed
<1> DEFINE p == [seq |-> v1, count |-> v2, mlen |-> v3, crc |-> v4, data |-> w.data]
<1>3. HeadsOk(w) /\ v5 = Left(w, m) /\ DecodePart(w).part = p
  <2>1. DecodePart(w) = [error |-> "None", part |-> p] /\ HeadsOk(w) /\ v5 = Left(w, m)
    BY <1>1, <1>2, DecodeSpelled
  <2> QED BY <2>1
<1>4. /\ NextByte(w, 1) = ArrayOfFive /\ v1 # Missing /\ v2 # Missing /\ v3 # Missing
      /\ v4 # Missing /\ v5 # Missing
  BY <1>1, <1>3, DecodeSpelled
<1>5. /\ Bytes(w) /\ w.data.len \in Nat /\ w = [head |-> w.head, data |-> w.data]
      /\ m = Len(w.head) + 1
  BY <1>1, <1>3, DecodeSpelled DEF IsWire, Bytes
<1>6. Len(w.head) \in Nat /\ DOMAIN w.head = 1 .. Len(w.head)
  BY <1>5, LenProperties DEF Bytes
<1>7. v5 = w.data.len
  <2>1. Len(w.head) - (Len(w.head) + 1) + 1 + w.data.len = w.data.len
    BY <1>5, <1>6
  <2> QED BY <1>3, <1>5, <2>1 DEF Left
<1> DEFINE a == EncodeHead(Unsigned, v1)
           b == EncodeHead(Unsigned, v2)
           c == EncodeHead(Unsigned, v3)
           d == EncodeHead(Unsigned, v4)
           e == EncodeHead(ByteString, v5)
<1>h. Unsigned \in Heading /\ ByteString \in Heading /\ 2 \in Nat \ {0}
  BY DEF Heading
<1>s. /\ Says(w, 2, Unsigned, v1, i) /\ Says(w, i, Unsigned, v2, j)
      /\ Says(w, j, Unsigned, v3, k) /\ Says(w, k, Unsigned, v4, l)
      /\ Says(w, l, ByteString, v5, m)
  BY <1>1 DEF Spells
<1>w. \A major \in Heading, x \in Nat \ {0} : \A v, n :
        Says(w, x, major, v, n) /\ v # Missing =>
          /\ IsU32(v) /\ n \in Nat \ {0}
          /\ At(w.head, x, EncodeHead(major, v)) /\ n = x + Len(EncodeHead(major, v))
  BY <1>5, HeadWrites
<1>8. IsU32(v1) /\ i \in Nat \ {0} /\ At(w.head, 2, a) /\ i = 2 + Len(a)
  BY <1>4, <1>h, <1>s, <1>w
<1>9. IsU32(v2) /\ j \in Nat \ {0} /\ At(w.head, i, b) /\ j = i + Len(b)
  BY <1>4, <1>h, <1>s, <1>w, <1>8
<1>10. IsU32(v3) /\ k \in Nat \ {0} /\ At(w.head, j, c) /\ k = j + Len(c)
  BY <1>4, <1>h, <1>s, <1>w, <1>9
<1>11. IsU32(v4) /\ l \in Nat \ {0} /\ At(w.head, k, d) /\ l = k + Len(d)
  BY <1>4, <1>h, <1>s, <1>w, <1>10
<1>12. IsU32(v5) /\ m \in Nat \ {0} /\ At(w.head, l, e) /\ m = l + Len(e)
  BY <1>4, <1>h, <1>s, <1>w, <1>11
<1>13. /\ a \in Seq(0 .. 255) /\ b \in Seq(0 .. 255) /\ c \in Seq(0 .. 255)
       /\ d \in Seq(0 .. 255) /\ e \in Seq(0 .. 255)
  BY <1>8, <1>9, <1>10, <1>11, <1>12, <1>h, HeadLength
<1>14. At(w.head, 1, Opening)
  <2>1. 1 \in 1 .. Len(w.head) /\ w.head[1] = ArrayOfFive
    BY <1>4, <1>6 DEF NextByte, ArrayOfFive, Missing
  <2>2. Len(Opening) = 1 /\ Opening[1] = ArrayOfFive
    BY DEF Opening
  <2>3. ASSUME NEW x \in 1 .. Len(Opening)
        PROVE  1 + x - 1 \in 1 .. Len(w.head) /\ w.head[1 + x - 1] = Opening[x]
    <3>1. x = 1 /\ 1 + x - 1 = 1
      BY <2>2
    <3> QED BY <2>1, <2>2, <3>1
  <2> QED BY <2>3 DEF At
<1> HIDE DEF a, b, c, d, e
<1>15. Laid(w.head, a, b, c, d, e, i, j, k, l, m)
  BY <1>5, <1>6, <1>8, <1>9, <1>10, <1>11, <1>12, <1>14 DEF Laid
<1>16. w.head = Opening \o a \o b \o c \o d \o e
  <2>1. w.head \in Seq(0 .. 255)
    BY <1>5 DEF Bytes
  <2>2. AreHeads(w.head, a, b, c, d, e)
    BY <1>13, <1>15, <2>1 DEF AreHeads
  <2> QED BY <2>2, LaidUnique
<1>17. EncodePart(p) = [head |-> Opening \o a \o b \o c \o d \o e, data |-> w.data]
  BY <1>7 DEF EncodePart, Opening, a, b, c, d, e
<1> QED BY <1>3, <1>5, <1>16, <1>17

(***************************************************************************)
(* The invariant: the encoder's, and what has been read.                   *)
(***************************************************************************)
WireInv == EncIInv /\ IsU32(enc.crc) /\ ReadsOwn /\ Canonical

LEMMA SmallerU32 ==
  ASSUME NEW n, IsU32(n), NEW v \in Nat, v <= n
  PROVE  IsU32(v)
<1> DEFINE n1 == n \div 256
           n2 == n1 \div 256
           v1 == v \div 256
           v2 == v1 \div 256
<1>1. n \in Nat /\ n2 \div 256 < 256
  BY DEF IsU32
<1>2. n1 \in Nat /\ v1 \in Nat /\ v1 <= n1
  BY <1>1
<1> HIDE DEF n1, v1
<1>3. n2 \in Nat /\ v2 \in Nat /\ v2 <= n2
  BY <1>2
<1> HIDE DEF n2, v2
<1>4. v2 \div 256 < 256
  BY <1>1, <1>3
<1> QED BY <1>4 DEF IsU32, v2, v1

LEMMA EmittedIsPart ==
  ASSUME EncIInv, IsU32(enc.crc), NEW p \in emitted
  PROVE  IsPart(p)
<1>1. /\ p.seq \in 1 .. enc.current /\ p = PartOf(enc, p.seq)
      /\ p.count = enc.count /\ p.mlen = enc.mlen /\ p.crc = enc.crc /\ p.data.len = enc.len
  BY EncParts
<1>2. /\ MaxU32 \in Nat /\ IsU32(MaxU32)
      /\ enc.current \in 0 .. MaxU32 /\ enc.count \in 0 .. MaxU32
      /\ enc.mlen \in 0 .. MaxU32 /\ enc.len \in 0 .. MaxU32
  BY EncoderAssumption, WireAssumption DEF EncIInv, EncTypeOK
<1>3. /\ p.seq \in Nat /\ p.seq <= MaxU32
      /\ enc.count \in Nat /\ enc.count <= MaxU32
      /\ enc.mlen \in Nat /\ enc.mlen <= MaxU32
      /\ enc.len \in Nat /\ enc.len <= MaxU32
  BY <1>1, <1>2
<1>4. IsU32(p.seq) /\ IsU32(enc.count) /\ IsU32(enc.mlen) /\ IsU32(enc.len)
  BY <1>2, <1>3, SmallerU32
<1>5. p = [seq |-> p.seq, count |-> p.count, mlen |-> p.mlen, crc |-> p.crc, data |-> p.data]
  BY <1>1 DEF PartOf
<1> QED BY <1>1, <1>4, <1>5 DEF IsPart

LEMMA ReadPart ==
  ASSUME NEW p, IsPart(p), Read({p}, EncodePart(p))
  PROVE  ReadsOwn' /\ Canonical'
<1>1. /\ read'.made = {p} /\ read'.wire = EncodePart(p)
      /\ read'.error = DecodePart(EncodePart(p)).error
      /\ read'.part = DecodePart(EncodePart(p)).part
  BY DEF Read
<1>2. CASE Fits(p)
  <2>1. read'.error = "None" /\ read'.part = p
    BY <1>1, <1>2, ReadsBack
  <2> QED BY <1>1, <1>2, <2>1 DEF ReadsOwn, Canonical
<1>3. CASE ~Fits(p)
  <2>1. read'.error # "None"
    BY <1>1, <1>3, ReadsBack
  <2> QED BY <1>1, <1>3, <2>1 DEF ReadsOwn, Canonical
<1> QED BY <1>2, <1>3

LEMMA WireInitInv == WireInit => WireInv
<1> SUFFICES ASSUME WireInit PROVE WireInv
  OBVIOUS
<1>1. EncIInv
  BY EncInitIInv DEF WireInit
<1>2. enc.crc = 0
  BY DEF WireInit, EncInit, NoEncoder
<1>3. IsU32(enc.crc)
  BY <1>2 DEF IsU32
<1>4. ReadsOwn /\ Canonical
  BY DEF WireInit, NoReading, ReadsOwn, Canonical
<1> QED BY <1>1, <1>3, <1>4 DEF WireInv

LEMMA NothingRead == read' = NoReading => ReadsOwn' /\ Canonical'
BY DEF NoReading, ReadsOwn, Canonical

LEMMA WireNextInv == WireInv /\ [WireNext]_wireVars => WireInv'
<1> SUFFICES ASSUME WireInv, [WireNext]_wireVars PROVE WireInv'
  OBVIOUS
<1>1. EncIInv /\ IsU32(enc.crc) /\ ReadsOwn /\ Canonical
  BY DEF WireInv
<1>2. CASE Encode
  <2>1. EncIInv' /\ ReadsOwn' /\ Canonical'
    BY <1>1, <1>2, EncNextIInv, NothingRead DEF Encode
  <2>2. enc'.crc = enc.crc \/ enc'.crc = 0 \/ \E m \in Messages : enc'.crc = m.crc
    <3>1. CASE \E m \in Messages, max \in FragmentMaxima : New(m, max)
      BY <3>1 DEF New, Constructed, NoEncoder
    <3>2. CASE RefuseSingle \/ RefuseSequence
      BY <3>2 DEF RefuseSingle, RefuseSequence
    <3>3. CASE Emit
      BY <1>1, <3>3 DEF Emit, EncIInv, EncTypeOK
    <3> QED BY <1>2, <3>1, <3>2, <3>3 DEF Encode, EncNext, NextPart
  <2>3. IsU32(0)
    BY DEF IsU32
  <2>4. IsU32(enc'.crc)
    BY <1>1, <2>2, <2>3, WireAssumption
  <2> QED BY <2>1, <2>4 DEF WireInv, IsU32
<1>3. ASSUME UNCHANGED encVars, ReadsOwn' /\ Canonical'
      PROVE  WireInv'
  <2>1. EncIInv'
    BY <1>1, <1>3, EncNextIInv
  <2>2. enc' = enc
    BY <1>3 DEF encVars
  <2> QED BY <1>1, <1>3, <2>1, <2>2 DEF WireInv, IsU32
<1>4. CASE ReadEmitted
  <2>1. PICK p \in emitted : Read({p}, EncodePart(p))
    BY <1>4 DEF ReadEmitted
  <2>2. IsPart(p)
    BY <1>1, EmittedIsPart
  <2> QED BY <1>3, <2>1, <2>2, ReadPart DEF Read
<1>5. CASE ReadOther
  <2>1. CASE \E p \in OtherParts : Read({p}, EncodePart(p))
    <3>1. PICK p \in OtherParts : Read({p}, EncodePart(p))
      BY <2>1
    <3>2. IsPart(p)
      BY WireAssumption
    <3> QED BY <1>3, <3>1, <3>2, ReadPart DEF Read
  <2>2. CASE \E w \in Wires : Read({}, w)
    <3>1. PICK w \in Wires : Read({}, w)
      BY <2>2
    <3>2. /\ read'.made = {} /\ read'.wire = w /\ read'.error = DecodePart(w).error
          /\ read'.part = DecodePart(w).part
      BY <3>1 DEF Read
    <3>3. IsWire(w)
      BY WireAssumption
    <3>4. read'.error = "None" => read'.wire = EncodePart(read'.part)
      BY <3>2, <3>3, OnlyWritten
    <3>5. ReadsOwn' /\ Canonical'
      BY <3>2, <3>4 DEF ReadsOwn, Canonical
    <3> QED BY <1>3, <3>1, <3>5 DEF Read
  <2> QED BY <1>5, <2>1, <2>2 DEF ReadOther
<1>6. CASE UNCHANGED wireVars
  <2>1. UNCHANGED encVars /\ read' = read
    BY <1>6 DEF wireVars
  <2>2. ReadsOwn' /\ Canonical'
    BY <1>1, <2>1 DEF ReadsOwn, Canonical
  <2> QED BY <1>3, <2>1, <2>2
<1> QED BY <1>2, <1>4, <1>5, <1>6 DEF WireNext

(***************************************************************************)
(* Whatever its fields, a part is read as itself or, beyond the limits, is  *)
(* refused; and no other bytes are read as a part.                         *)
(***************************************************************************)
THEOREM WireInvariance == WireSpec => []WireInv
BY WireInitInv, WireNextInv, PTL DEF WireSpec

(* decode_part undoes encode_part.                                         *)
THEOREM ReadsOwnHolds == WireSpec => []ReadsOwn
<1>1. WireInv => ReadsOwn
  BY DEF WireInv
<1> QED BY <1>1, WireInvariance, PTL

(* Nothing but what encode_part writes is accepted.                        *)
THEOREM CanonicalHolds == WireSpec => []Canonical
<1>1. WireInv => Canonical
  BY DEF WireInv
<1> QED BY <1>1, WireInvariance, PTL
-----------------------------------------------------------------------------
(***************************************************************************)
(* The texts of bytes: bytewords.                                           *)
(***************************************************************************)
LEMMA WordTypes ==
  \A b \in Byte :
    /\ WordAt[b] \in Seq(ToSet(LowerCase)) /\ Len(WordAt[b]) = 4
    /\ MinimalAt[b] \in Seq(ToSet(LowerCase)) /\ Len(MinimalAt[b]) = 2
    /\ MinimalAt[b][1] = WordAt[b][1] /\ MinimalAt[b][2] = WordAt[b][4]
<1> SUFFICES ASSUME NEW b \in Byte
             PROVE  /\ WordAt[b] \in Seq(ToSet(LowerCase)) /\ Len(WordAt[b]) = 4
                    /\ MinimalAt[b] \in Seq(ToSet(LowerCase)) /\ Len(MinimalAt[b]) = 2
                    /\ MinimalAt[b][1] = WordAt[b][1] /\ MinimalAt[b][2] = WordAt[b][4]
  OBVIOUS
<1> DEFINE w == WordAt[b]
           C == ToSet(LowerCase)
<1>1. w \in [1 .. 4 -> C]
  BY TablesAssumption
<1>2. MinimalAt[b] = <<w[1], w[4]>>
  BY DEF MinimalAt
<1> HIDE DEF w, C
<1>3. w \in Seq(C) /\ Len(w) = 4 /\ w[1] \in C /\ w[4] \in C
  <2>1. 4 \in Nat
    OBVIOUS
  <2>2. w \in Seq(C) /\ Len(w) = 4
    BY ONLY <1>1, <2>1, FunctionIsSeq
  <2>3. w[1] \in C /\ w[4] \in C
    BY ONLY <1>1
  <2> QED BY <2>2, <2>3
<1> QED BY <1>2, <1>3 DEF w, C

LEMMA EncodedByteExact ==
  ASSUME NEW part \in Seq(Ascii), NEW minimal \in BOOLEAN
  PROVE  /\ EncodedByte(part, minimal) = {b \in Byte : part = Expected(b, minimal)}
         /\ \A b, c \in EncodedByte(part, minimal) : b = c
<1> DEFINE n == IF minimal THEN 2 ELSE 4
           h == Hash(part[1], part[Len(part)])
<1>1. \A b \in Byte : Len(Expected(b, minimal)) = n /\ Expected(b, minimal)[1] = WordAt[b][1]
                      /\ Expected(b, minimal)[n] = WordAt[b][4]
  BY WordTypes DEF Expected
<1>2. CASE Len(part) # n
  <2>1. EncodedByte(part, minimal) = {}
    BY <1>2 DEF EncodedByte
  <2> QED BY <1>1, <1>2, <2>1
<1>3. CASE Len(part) = n
  <2>1. EncodedByte(part, minimal) = {b \in BytesIndexedByHash[h] : part = Expected(b, minimal)}
    BY <1>3 DEF EncodedByte
  <2>2. h \in 0 .. 627
    <3>1. part[1] \in Ascii /\ part[Len(part)] \in Ascii
      BY <1>3
    <3>2. CodeOf[part[1]] \in Nat /\ CodeOf[part[Len(part)]] \in Nat
      BY <3>1, TablesAssumption
    <3> DEFINE x == CodeOf[part[1]]
               y == CodeOf[part[Len(part)]]
    <3>3. h = (25 * x + 11 * y) % 628
      BY DEF Hash
    <3> HIDE DEF x, y
    <3>4. x \in Nat /\ y \in Nat
      BY ONLY <3>2, Zenon DEF x, y
    <3> QED BY <3>3, <3>4
  <2> HIDE DEF h
  <2>3. BytesIndexedByHash[h] \subseteq Byte
    BY <2>2 DEF BytesIndexedByHash
  <2>4. ASSUME NEW b \in Byte, part = Expected(b, minimal) PROVE BytesIndexedByHash[h] = {b}
    <3>1. h = Hash(WordAt[b][1], WordAt[b][4])
      BY <1>1, <1>3, <2>4 DEF h
    <3> QED BY <3>1, TablesAssumption
  <2> QED BY <2>1, <2>3, <2>4
<1> QED BY <1>2, <1>3

(* The bytes of some words, if all of them are words.                       *)
Words(bytes, minimal) == [k \in DOMAIN bytes |-> Expected(bytes[k], minimal)]

LEMMA DecodePartsOwn ==
  ASSUME NEW bytes \in Seq(Byte), NEW minimal \in BOOLEAN
  PROVE  DecodeParts(Words(bytes, minimal), minimal) = StripChecksum(bytes)
<1> DEFINE parts == Words(bytes, minimal)
           read1 == [k \in DOMAIN parts |-> EncodedByte(parts[k], minimal)]
<1>1. DOMAIN parts = DOMAIN bytes /\ \A k \in DOMAIN bytes : parts[k] = Expected(bytes[k], minimal) /\ bytes[k] \in Byte
  BY DEF Words
<1>2. \A k \in DOMAIN bytes : read1[k] = {bytes[k]}
  <2> TAKE k \in DOMAIN bytes
  <2>1. parts[k] \in Seq(Ascii)
    <3>1. parts[k] \in Seq(ToSet(LowerCase))
      BY <1>1, WordTypes DEF Expected
    <3>2. ToSet(LowerCase) \subseteq Ascii
      BY DEF Ascii
    <3> QED BY <3>1, <3>2, SeqMonotonic
  <2>2. bytes[k] \in EncodedByte(parts[k], minimal)
    BY <1>1, <2>1, EncodedByteExact
  <2> HIDE DEF parts
  <2> QED BY <1>1, <2>1, <2>2, EncodedByteExact
<1>3. DOMAIN read1 = DOMAIN bytes
  BY <1>1
<1> HIDE DEF parts
<1>4. DecodeParts(parts, minimal) =
        IF {} \in ToSet(read1) THEN Rejected("InvalidWord")
        ELSE StripChecksum([k \in DOMAIN read1 |-> CHOOSE b \in read1[k] : TRUE])
  BY DEF DecodeParts
<1> HIDE DEF read1
<1>5. {} \notin ToSet(read1)
  BY <1>2, <1>3 DEF ToSet
<1>6. [k \in DOMAIN read1 |-> CHOOSE b \in read1[k] : TRUE] = bytes
  <2>1. \A k \in DOMAIN bytes : (CHOOSE b \in read1[k] : TRUE) = bytes[k]
    BY <1>2
  <2> QED BY <1>3, <2>1
<1> QED BY <1>4, <1>5, <1>6 DEF parts

LEMMA DecodePartsAccepts ==
  ASSUME NEW parts \in Seq(Seq(Ascii)), NEW minimal \in BOOLEAN, DecodeParts(parts, minimal).error = "None"
  PROVE  \E bytes \in Seq(Byte) :
           parts = Words(bytes, minimal) /\ DecodeParts(parts, minimal) = StripChecksum(bytes)
<1> DEFINE read1 == [k \in DOMAIN parts |-> EncodedByte(parts[k], minimal)]
           bytes == [k \in DOMAIN read1 |-> CHOOSE b \in read1[k] : TRUE]
<1>1. DecodeParts(parts, minimal) =
        IF {} \in ToSet(read1) THEN Rejected("InvalidWord") ELSE StripChecksum(bytes)
  BY DEF DecodeParts
<1>2. {} \notin ToSet(read1) /\ DecodeParts(parts, minimal) = StripChecksum(bytes)
  <2> HIDE DEF read1, bytes
  <2> QED BY <1>1 DEF Rejected
<1>3. \A k \in DOMAIN parts : bytes[k] \in Byte /\ parts[k] = Expected(bytes[k], minimal)
  <2> TAKE k \in DOMAIN parts
  <2>1. read1[k] # {} /\ bytes[k] \in read1[k]
    BY <1>2 DEF ToSet
  <2>2. parts[k] \in Seq(Ascii) /\ read1[k] = EncodedByte(parts[k], minimal)
    OBVIOUS
  <2> HIDE DEF read1, bytes
  <2> QED BY <2>1, <2>2, EncodedByteExact
<1>4. DOMAIN bytes = DOMAIN parts /\ DOMAIN parts = 1 .. Len(parts) /\ Len(parts) \in Nat
  OBVIOUS
<1> HIDE DEF read1, bytes
<1>5. bytes \in Seq(Byte)
  <2>1. bytes = [k \in DOMAIN bytes |-> bytes[k]]
    BY DEF bytes
  <2>2. bytes \in [1 .. Len(parts) -> Byte]
    BY <1>3, <1>4, <2>1
  <2> QED BY <1>4, <2>2, FunctionIsSeq
<1>6. parts = Words(bytes, minimal)
  <2>1. parts = [k \in DOMAIN parts |-> parts[k]]
    OBVIOUS
  <2> QED BY <1>3, <1>4, <2>1 DEF Words
<1> QED BY <1>2, <1>5, <1>6

LEMMA StripOwn ==
  ASSUME NEW data \in Seq(Byte), Checksum(data) \in [1 .. 4 -> Byte]
  PROVE  /\ data \o Checksum(data) \in Seq(Byte) /\ Len(data \o Checksum(data)) = Len(data) + 4
         /\ StripChecksum(data \o Checksum(data)) = [error |-> "None", data |-> data]
<1> DEFINE sum == Checksum(data)
           bytes == data \o sum
<1>1. sum \in Seq(Byte) /\ Len(sum) = 4
  <2>1. 4 \in Nat
    OBVIOUS
  <2> HIDE DEF sum
  <2>2. sum \in [1 .. 4 -> Byte]
    BY DEF sum
  <2> QED BY <2>1, <2>2, FunctionIsSeq
<1> HIDE DEF sum
<1>2. /\ bytes \in Seq(Byte) /\ Len(bytes) = Len(data) + 4 /\ Len(data) \in Nat
      /\ \A k \in 1 .. Len(data) + 4 : bytes[k] = IF k <= Len(data) THEN data[k] ELSE sum[k - Len(data)]
  <2>1. /\ bytes \in Seq(Byte) /\ Len(bytes) = Len(data) + Len(sum)
        /\ \A k \in 1 .. Len(data) + Len(sum) :
             bytes[k] = IF k <= Len(data) THEN data[k] ELSE sum[k - Len(data)]
    BY <1>1, ConcatProperties
  <2>2. Len(data) \in Nat
    OBVIOUS
  <2> HIDE DEF bytes
  <2> QED BY <1>1, <2>1, <2>2
<1> HIDE DEF bytes
<1>3. SubSeq(bytes, 1, Len(bytes) - 4) = data
  <2> DEFINE s == SubSeq(bytes, 1, Len(data))
  <2>1. \A k \in 1 .. Len(data) : bytes[k] \in Byte
    BY <1>2
  <2>2. s \in Seq(Byte) /\ Len(s) = Len(data) /\ \A k \in 1 .. Len(data) : s[k] = bytes[k]
    BY <1>2, <2>1, SubSeqProperties
  <2> HIDE DEF s
  <2>3. s = data
    BY <1>2, <2>2, SeqEqual
  <2> QED BY <1>2, <2>3 DEF s
<1>4. SubSeq(bytes, Len(bytes) - 3, Len(bytes)) = sum
  <2> DEFINE n == Len(data)
             s == SubSeq(bytes, n + 1, n + 4)
  <2>1. n + 1 \in Int /\ n + 4 \in Int /\ \A k \in n + 1 .. n + 4 : bytes[k] \in Byte
    BY <1>2
  <2>2. s \in Seq(Byte) /\ Len(s) = 4 /\ \A k \in 1 .. 4 : s[k] = bytes[n + k]
    <3> HIDE DEF n
    <3>1. n \in Nat
      BY <1>2 DEF n
    <3> QED BY <2>1, <3>1, SubSeqProperties
  <2> HIDE DEF s
  <2>3. \A k \in 1 .. 4 : s[k] = sum[k]
    <3>1. n \in Nat /\ n = Len(data)
      BY <1>2
    <3> HIDE DEF n
    <3>2. \A k \in 1 .. 4 : n + k \in 1 .. n + 4 /\ ~(n + k <= n) /\ (n + k) - n = k
      BY ONLY <3>1, SMT
    <3>3. \A k \in 1 .. 4 : bytes[n + k] = sum[(n + k) - n]
      BY ONLY <1>2, <3>1, <3>2, ZenonT(40)
    <3> QED BY ONLY <2>2, <3>2, <3>3, ZenonT(40)
  <2>4. s = sum
    BY <1>1, <2>2, <2>3, SeqEqual
  <2>5. Len(bytes) - 3 = n + 1 /\ Len(bytes) = n + 4
    BY <1>2
  <2> QED BY <2>4, <2>5 DEF s
<1>5. ~ (Len(bytes) < 4)
  BY <1>2
<1>6. StripChecksum(bytes) = [error |-> "None", data |-> data]
  BY <1>3, <1>4, <1>5 DEF StripChecksum, sum
<1> QED BY <1>2, <1>6 DEF bytes, sum

LEMMA StripAccepts ==
  ASSUME NEW bytes \in Seq(Byte), StripChecksum(bytes).error = "None"
  PROVE  /\ StripChecksum(bytes).data \in Seq(Byte)
         /\ bytes = StripChecksum(bytes).data \o Checksum(StripChecksum(bytes).data)
         /\ Len(bytes) >= 4
<1> DEFINE data == SubSeq(bytes, 1, Len(bytes) - 4)
<1>1. Len(bytes) >= 4 /\ Len(bytes) \in Nat /\ Checksum(data) = SubSeq(bytes, Len(bytes) - 3, Len(bytes))
      /\ StripChecksum(bytes).data = data
  BY DEF StripChecksum, Rejected
<1> DEFINE n == Len(bytes)
<1>2. data \o SubSeq(bytes, n - 4 + 1, n) = SubSeq(bytes, 1, n)
  <2>1. 1 \in 1 .. n + 1 /\ n - 4 \in (1 - 1) .. n /\ n \in (n - 4) .. n
    BY <1>1
  <2> HIDE DEF n
  <2>2. n = Len(bytes)
    BY DEF n
  <2> QED BY <2>1, <2>2, ConcatAdjacentSubSeq
<1>3. SubSeq(bytes, 1, n) = bytes
  BY SubSeqFull
<1>4. data \in Seq(Byte)
  <2>1. 1 \in Int /\ n - 4 \in Int /\ \A k \in 1 .. n - 4 : bytes[k] \in Byte
    BY <1>1
  <2> HIDE DEF n
  <2>2. SubSeq(bytes, 1, n - 4) \in Seq(Byte)
    BY <2>1, SubSeqProperties
  <2> QED BY <2>2 DEF n
<1>5. n - 4 + 1 = n - 3
  BY <1>1
<1> QED BY <1>1, <1>2, <1>3, <1>4, <1>5

FlatPairOf(flat, parts, n) ==
  \A k \in 1 .. n : flat[2 * k - 1] = parts[k][1] /\ flat[2 * k] = parts[k][2]

LEMMA FlatPairs ==
  ASSUME NEW C, NEW parts \in Seq(Seq(C)), \A k \in 1 .. Len(parts) : Len(parts[k]) = 2
  PROVE  /\ FlattenSeq(parts) \in Seq(C) /\ Len(FlattenSeq(parts)) = 2 * Len(parts)
         /\ FlatPairOf(FlattenSeq(parts), parts, Len(parts))
<1> DEFINE n == Len(parts)
<1>1. n \in Nat /\ \A k \in 1 .. n : parts[k] \in Seq(C) /\ Len(parts[k]) = 2
  BY ElementOfSeq
<1>2. CASE parts = << >>
  <2>1. n = 0 /\ FlattenSeq(parts) = << >>
    BY <1>2 DEF FlattenSeq
  <2>2. << >> \in Seq(C) /\ Len(<< >>) = 0
    BY EmptySeq
  <2>3. FlatPairOf(FlattenSeq(parts), parts, 0)
    BY DEF FlatPairOf
  <2> QED BY <2>1, <2>2, <2>3
<1>3. CASE parts # << >>
  <2>1. PICK f : /\ f[1] = parts[1] /\ \A i \in 2 .. n : f[i] = f[i - 1] \o parts[i]
                 /\ FlattenSeq(parts) = f[n]
    BY <1>3, FlatUnfold
  <2> HIDE DEF n
  <2> DEFINE Good(i) == f[i] \in Seq(C) /\ Len(f[i]) = 2 * i /\ FlatPairOf(f[i], parts, i)
             H == {i \in Nat : i \in 1 .. n => Good(i)}
  <2>2. 0 \in H
    OBVIOUS
  <2>3. ASSUME NEW i \in Nat, i \in H PROVE i + 1 \in H
    <3> SUFFICES ASSUME i + 1 \in 1 .. n PROVE Good(i + 1)
      OBVIOUS
    <3>1. CASE i = 0
      <4>1. \A k \in 1 .. 1 : k = 1
        OBVIOUS
      <4> QED BY <1>1, <2>1, <3>1, <4>1 DEF FlatPairOf
    <3>2. CASE i # 0
      <4>1. Good(i) /\ i + 1 \in 2 .. n /\ f[i + 1] = f[i] \o parts[i + 1]
        <5>1. i \in 1 .. n /\ i + 1 \in 2 .. n /\ (i + 1) - 1 = i
          BY <1>1, <3>2
        <5> QED BY <2>1, <2>3, <5>1
      <4> DEFINE a == f[i]
                 b == parts[i + 1]
      <4>2. a \in Seq(C) /\ Len(a) = 2 * i /\ b \in Seq(C) /\ Len(b) = 2
        BY <1>1, <4>1
      <4> HIDE DEF a, b
      <4>3. /\ a \o b \in Seq(C) /\ Len(a \o b) = 2 * i + 2
            /\ \A k \in 1 .. 2 * i + 2 : (a \o b)[k] = IF k <= 2 * i THEN a[k] ELSE b[k - 2 * i]
        <5>1. /\ a \o b \in Seq(C) /\ Len(a \o b) = Len(a) + Len(b)
              /\ \A k \in 1 .. Len(a) + Len(b) : (a \o b)[k] = IF k <= Len(a) THEN a[k] ELSE b[k - Len(a)]
          BY <4>2, ConcatProperties
        <5> QED BY <4>2, <5>1
      <4>4. ASSUME NEW k \in 1 .. i + 1
            PROVE  (a \o b)[2 * k - 1] = parts[k][1] /\ (a \o b)[2 * k] = parts[k][2]
        <5>1. CASE k = i + 1
          <6>1. /\ 2 * k - 1 = 2 * i + 1 /\ 2 * k = 2 * i + 2 /\ 2 * i + 1 \in 1 .. 2 * i + 2
                /\ 2 * i + 2 \in 1 .. 2 * i + 2 /\ (2 * i + 1) - 2 * i = 1 /\ (2 * i + 2) - 2 * i = 2
            BY <5>1
          <6>2. (a \o b)[2 * i + 1] = b[1] /\ (a \o b)[2 * i + 2] = b[2]
            BY <4>3, <6>1
          <6> QED BY <5>1, <6>1, <6>2 DEF b
        <5>2. CASE k # i + 1
          <6>1. /\ k \in 1 .. i /\ 2 * k - 1 \in 1 .. 2 * i + 2 /\ 2 * k \in 1 .. 2 * i + 2
                /\ 2 * k - 1 <= 2 * i /\ 2 * k <= 2 * i
            BY <5>2
          <6>2. (a \o b)[2 * k - 1] = a[2 * k - 1] /\ (a \o b)[2 * k] = a[2 * k]
            BY <4>3, <6>1
          <6> QED BY <4>1, <6>1, <6>2 DEF a, FlatPairOf
        <5> QED BY <5>1, <5>2
      <4>5. f[i + 1] = a \o b /\ 2 * (i + 1) = 2 * i + 2
        BY <4>1 DEF a, b
      <4> QED BY <4>3, <4>4, <4>5 DEF FlatPairOf
    <3> QED BY <3>1, <3>2
  <2> HIDE DEF H
  <2>4. Nat \subseteq H
    BY <2>2, <2>3, Induction
  <2>5. n \in 1 .. n
    BY <1>1, <1>3, EmptySeq DEF n
  <2>6. Good(n)
    BY <1>1, <2>4, <2>5 DEF H
  <2> QED BY <2>1, <2>6 DEF n
<1> QED BY <1>2, <1>3

LEMMA PairsProperties ==
  ASSUME NEW C, NEW text \in Seq(C)
  PROVE  /\ Pairs(text) \in Seq(Seq(C)) /\ Len(Pairs(text)) = Len(text) \div 2
         /\ \A k \in 1 .. Len(text) \div 2 : Len(Pairs(text)[k]) = 2
         /\ FlatPairOf(text, Pairs(text), Len(text) \div 2)
<1> DEFINE n == Len(text)
           m == n \div 2
           s == Pairs(text)
<1>1. n \in Nat /\ m \in Nat /\ 2 * m <= n /\ \A j \in 1 .. n : text[j] \in C
  BY ElementOfSeq
<1>2. s = [k \in 1 .. m |-> SubSeq(text, 2 * k - 1, 2 * k)]
  BY DEF Pairs
<1> HIDE DEF s, m
<1>3. ASSUME NEW k \in 1 .. m
      PROVE  s[k] \in Seq(C) /\ Len(s[k]) = 2 /\ s[k][1] = text[2 * k - 1] /\ s[k][2] = text[2 * k]
  <2> DEFINE i == 2 * k - 1
             j == 2 * k
             p == SubSeq(text, i, j)
  <2>1. i \in Int /\ j \in Int /\ j = i + 1 /\ \A x \in i .. j : text[x] \in C
    BY <1>1
  <2> HIDE DEF i, j
  <2>2. /\ p \in Seq(C) /\ Len(p) = IF i <= j THEN j - i + 1 ELSE 0
        /\ \A x \in 1 .. j - i + 1 : p[x] = text[i + x - 1]
    BY <2>1, SubSeqProperties
  <2> HIDE DEF p
  <2>3. Len(p) = 2 /\ p[1] = text[i] /\ p[2] = text[j]
    BY <2>1, <2>2
  <2>4. s[k] = p
    BY <1>2 DEF p, i, j
  <2> QED BY <2>2, <2>3, <2>4 DEF i, j
<1>4. s \in Seq(Seq(C)) /\ Len(s) = m
  <2> DEFINE D == Seq(C)
  <2>1. s \in [1 .. m -> D]
    BY <1>2, <1>3
  <2> HIDE DEF D
  <2>2. s \in Seq(D) /\ Len(s) = m
    BY <1>1, <2>1, FunctionIsSeq
  <2> QED BY <2>2 DEF D
<1> QED BY <1>3, <1>4 DEF s, m, FlatPairOf

(* What is at the odd and at the even places is all.                       *)
LEMMA PairwiseEqual ==
  ASSUME NEW C, NEW D, NEW n \in Nat, NEW s \in Seq(C), NEW t \in Seq(D), Len(s) = 2 * n, Len(t) = 2 * n,
         \A k \in 1 .. n : s[2 * k - 1] = t[2 * k - 1] /\ s[2 * k] = t[2 * k]
  PROVE  s = t
<1>1. ASSUME NEW j \in 1 .. 2 * n PROVE s[j] = t[j]
  <2>1. PICK k \in 1 .. n : j = 2 * k - 1 \/ j = 2 * k
    <3>1. CASE j % 2 = 0
      <4>1. j \div 2 \in 1 .. n /\ j = 2 * (j \div 2)
        BY <3>1
      <4> QED BY <4>1
    <3>2. CASE j % 2 = 1
      <4>1. (j + 1) \div 2 \in 1 .. n /\ j = 2 * ((j + 1) \div 2) - 1
        BY <3>2
      <4> QED BY <4>1
    <3> QED BY <3>1, <3>2
  <2> QED BY <2>1
<1>2. s = [j \in 1 .. 2 * n |-> s[j]] /\ t = [j \in 1 .. 2 * n |-> t[j]]
  BY LenProperties
<1> QED BY <1>1, <1>2

LEMMA PairsOfFlat ==
  ASSUME NEW C, NEW parts \in Seq(Seq(C)), \A k \in 1 .. Len(parts) : Len(parts[k]) = 2
  PROVE  Pairs(FlattenSeq(parts)) = parts
<1> DEFINE n == Len(parts)
           text == FlattenSeq(parts)
           p == Pairs(text)
<1>1. n \in Nat /\ text \in Seq(C) /\ Len(text) = 2 * n /\ FlatPairOf(text, parts, n)
  BY FlatPairs
<1> HIDE DEF text
<1>2. Len(text) \div 2 = n
  BY <1>1
<1>3. p \in Seq(Seq(C)) /\ Len(p) = n /\ (\A k \in 1 .. n : Len(p[k]) = 2) /\ FlatPairOf(text, p, n)
  BY <1>1, <1>2, PairsProperties
<1> HIDE DEF p
<1>4. ASSUME NEW k \in 1 .. n PROVE p[k] = parts[k]
  <2>1. p[k] \in Seq(C) /\ parts[k] \in Seq(C) /\ Len(p[k]) = 2 /\ Len(parts[k]) = 2
    BY <1>3
  <2>2. p[k][1] = parts[k][1] /\ p[k][2] = parts[k][2]
    BY <1>1, <1>3 DEF FlatPairOf
  <2>3. \A j \in 1 .. 2 : j = 1 \/ j = 2
    OBVIOUS
  <2>4. \A j \in 1 .. Len(p[k]) : p[k][j] = parts[k][j]
    BY <2>1, <2>2, <2>3
  <2> QED BY <2>1, <2>4, SeqEqual
<1>5. p = parts
  <2> DEFINE D == Seq(C)
  <2>1. p \in Seq(D) /\ parts \in Seq(D) /\ Len(p) = Len(parts)
    BY <1>3
  <2>2. \A k \in 1 .. Len(p) : p[k] = parts[k]
    BY <1>3, <1>4
  <2> HIDE DEF D
  <2> QED BY <2>1, <2>2, SeqEqual
<1> QED BY <1>5 DEF p, text

LEMMA FlatOfPairs ==
  ASSUME NEW C, NEW text \in Seq(C), Len(text) % 2 = 0
  PROVE  FlattenSeq(Pairs(text)) = text
<1> DEFINE n == Len(text) \div 2
           p == Pairs(text)
           flat == FlattenSeq(p)
<1>1. n \in Nat /\ Len(text) = 2 * n
  OBVIOUS
<1>2. p \in Seq(Seq(C)) /\ Len(p) = n /\ (\A k \in 1 .. n : Len(p[k]) = 2) /\ FlatPairOf(text, p, n)
  BY PairsProperties
<1> HIDE DEF n, p
<1>3. flat \in Seq(C) /\ Len(flat) = 2 * n /\ FlatPairOf(flat, p, n)
  BY <1>2, FlatPairs
<1> HIDE DEF flat
<1>4. \A k \in 1 .. n : flat[2 * k - 1] = text[2 * k - 1] /\ flat[2 * k] = text[2 * k]
  BY <1>2, <1>3 DEF FlatPairOf
<1>5. flat = text
  BY <1>1, <1>3, <1>4, PairwiseEqual
<1> QED BY <1>5 DEF flat, p

LEMMA MinimalText ==
  ASSUME NEW bytes \in Seq(Byte)
  PROVE  /\ EncodeWords(bytes, "Minimal") = FlattenSeq(Words(bytes, TRUE))
         /\ Words(bytes, TRUE) \in Seq(Seq(ToSet(LowerCase))) /\ Len(Words(bytes, TRUE)) = Len(bytes)
         /\ \A k \in 1 .. Len(bytes) : Len(Words(bytes, TRUE)[k]) = 2
<1> DEFINE C == ToSet(LowerCase)
           w == Words(bytes, TRUE)
           n == Len(bytes)
<1>1. n \in Nat /\ DOMAIN bytes = 1 .. n /\ \A k \in 1 .. n : bytes[k] \in Byte
  BY LenProperties
<1>2. w = [k \in 1 .. n |-> MinimalAt[bytes[k]]]
  BY <1>1 DEF Words, Expected
<1>3. \A k \in 1 .. n : w[k] \in Seq(C) /\ Len(w[k]) = 2
  BY <1>1, <1>2, WordTypes, ZenonT(40)
<1>4. EncodeWords(bytes, "Minimal") = FlattenSeq(w)
  BY <1>1, <1>2 DEF EncodeWords
<1>5. w \in Seq(Seq(C)) /\ Len(w) = n
  <2> DEFINE D == Seq(C)
  <2>1. w \in [1 .. n -> D]
    BY <1>2, <1>3
  <2> HIDE DEF D, w
  <2> QED BY ONLY <1>1, <2>1, FunctionIsSeq DEF D
<1> QED BY <1>3, <1>4, <1>5

Spaced(words, separator) ==
  [k \in DOMAIN words |-> IF k = 1 THEN words[k] ELSE <<separator>> \o words[k]]

LEMMA SpacedText ==
  ASSUME NEW bytes \in Seq(Byte), NEW style \in {"Standard", "Uri"}
  PROVE  /\ EncodeWords(bytes, style) = FlattenSeq(Spaced(Words(bytes, FALSE), Separator(style)))
         /\ Words(bytes, FALSE) \in Seq(Seq(ToSet(LowerCase))) /\ Len(Words(bytes, FALSE)) = Len(bytes)
         /\ \A k \in 1 .. Len(bytes) : Len(Words(bytes, FALSE)[k]) = 4
<1> DEFINE C == ToSet(LowerCase)
           w == Words(bytes, FALSE)
           n == Len(bytes)
<1>1. n \in Nat /\ DOMAIN bytes = 1 .. n /\ \A k \in 1 .. n : bytes[k] \in Byte
  BY LenProperties
<1>2. w = [k \in 1 .. n |-> WordAt[bytes[k]]]
  BY <1>1 DEF Words, Expected
<1>3. \A k \in 1 .. n : w[k] \in Seq(C) /\ Len(w[k]) = 4
  BY <1>1, <1>2, WordTypes, ZenonT(40)
<1>4. EncodeWords(bytes, style) = FlattenSeq(Spaced(w, Separator(style)))
  BY <1>1, <1>2 DEF EncodeWords, Spaced
<1>5. w \in Seq(Seq(C)) /\ Len(w) = n
  <2> DEFINE D == Seq(C)
  <2>1. w \in [1 .. n -> D]
    BY <1>2, <1>3
  <2> HIDE DEF D, w
  <2> QED BY ONLY <1>1, <2>1, FunctionIsSeq DEF D
<1> QED BY <1>3, <1>4, <1>5

(* Where the letters of words of four are, and the separators.              *)
SpacedAs(text, words, separator, n) ==
  /\ Len(text) = 5 * n - 1
  /\ \A k \in 1 .. n, r \in 1 .. 4 : text[5 * (k - 1) + r] = words[k][r]
  /\ \A k \in 1 .. n - 1 : text[5 * k] = separator

LEMMA FlatSpaced ==
  ASSUME NEW C, NEW separator \in C, NEW words \in Seq(Seq(C)), words # << >>,
         \A k \in 1 .. Len(words) : Len(words[k]) = 4
  PROVE  /\ FlattenSeq(Spaced(words, separator)) \in Seq(C)
         /\ SpacedAs(FlattenSeq(Spaced(words, separator)), words, separator, Len(words))
<1> DEFINE n == Len(words)
           parts == Spaced(words, separator)
<1>1. n \in Nat \ {0} /\ DOMAIN words = 1 .. n /\ \A k \in 1 .. n : words[k] \in Seq(C) /\ Len(words[k]) = 4
  BY ElementOfSeq, EmptySeq, LenProperties
<1>2. \A k \in 1 .. n : parts[k] = IF k = 1 THEN words[k] ELSE <<separator>> \o words[k]
  BY <1>1 DEF Spaced
<1>3. \A k \in 1 .. n : <<separator>> \o words[k] \in Seq(C)
  <2>1. <<separator>> \in Seq(C)
    OBVIOUS
  <2> QED BY <1>1, <2>1, ConcatProperties
<1>4. parts \in Seq(Seq(C)) /\ Len(parts) = n
  <2> DEFINE D == Seq(C)
  <2>1. parts \in [1 .. n -> D]
    BY <1>1, <1>2, <1>3 DEF Spaced
  <2>2. n \in Nat
    BY <1>1
  <2> HIDE DEF D, parts, n
  <2> QED BY ONLY <2>1, <2>2, FunctionIsSeq DEF D
<1> HIDE DEF n, parts
<1>5. parts # << >>
  BY <1>1, <1>4, EmptySeq
<1>6. PICK f : /\ f[1] = parts[1] /\ \A i \in 2 .. n : f[i] = f[i - 1] \o parts[i]
               /\ FlattenSeq(parts) = f[n]
  BY <1>4, <1>5, FlatUnfold
<1> DEFINE Good(i) == f[i] \in Seq(C) /\ SpacedAs(f[i], words, separator, i)
           H == {i \in Nat : i \in 1 .. n => Good(i)}
<1>7. 0 \in H
  OBVIOUS
<1>8. ASSUME NEW i \in Nat, i \in H PROVE i + 1 \in H
  <2> SUFFICES ASSUME i + 1 \in 1 .. n PROVE Good(i + 1)
    OBVIOUS
  <2>1. CASE i = 0
    <3>1. 1 \in 1 .. n /\ f[1] = words[1] /\ words[1] \in Seq(C) /\ Len(words[1]) = 4
      BY <1>1, <1>2, <1>6
    <3>2. \A k \in 1 .. 1, r \in 1 .. 4 : k = 1 /\ 5 * (k - 1) + r = r
      OBVIOUS
    <3>3. SpacedAs(f[1], words, separator, 1)
      BY <3>1, <3>2 DEF SpacedAs
    <3> QED BY <2>1, <3>1, <3>3
  <2>2. CASE i # 0
    <3>1. Good(i) /\ i + 1 \in 1 .. n /\ f[i + 1] = f[i] \o (<<separator>> \o words[i + 1])
      <4>1. i \in 1 .. n /\ i + 1 \in 2 .. n /\ (i + 1) - 1 = i /\ i + 1 # 1 /\ i + 1 \in 1 .. n
        BY <1>1, <2>2
      <4> QED BY <1>2, <1>6, <1>8, <4>1
    <3> DEFINE a == f[i]
               w == words[i + 1]
               b == <<separator>> \o w
               m == 5 * i - 1
    <3>2. a \in Seq(C) /\ Len(a) = m /\ w \in Seq(C) /\ Len(w) = 4 /\ m \in Nat
      BY <1>1, <2>2, <3>1 DEF SpacedAs
    <3> HIDE DEF a, w
    <3>3. /\ b \in Seq(C) /\ Len(b) = 5 /\ b[1] = separator /\ \A r \in 1 .. 4 : b[r + 1] = w[r]
      <4>1. <<separator>> \in Seq(C) /\ Len(<<separator>>) = 1 /\ <<separator>>[1] = separator
        OBVIOUS
      <4>2. /\ b \in Seq(C) /\ Len(b) = 1 + 4
            /\ \A k \in 1 .. 1 + 4 : b[k] = IF k <= 1 THEN <<separator>>[k] ELSE w[k - 1]
        <5> DEFINE s == <<separator>>
        <5>1. s \in Seq(C) /\ Len(s) = 1 /\ b = s \o w
          BY <4>1
        <5> HIDE DEF s, b
        <5>2. /\ b \in Seq(C) /\ Len(b) = Len(s) + Len(w)
              /\ \A k \in 1 .. Len(s) + Len(w) : b[k] = IF k <= Len(s) THEN s[k] ELSE w[k - Len(s)]
          BY <3>2, <5>1, ConcatProperties
        <5>3. /\ b \in Seq(C) /\ Len(b) = 1 + 4
              /\ \A k \in 1 .. 1 + 4 : b[k] = IF k <= 1 THEN s[k] ELSE w[k - 1]
          BY <3>2, <5>1, <5>2
        <5> QED BY <5>3 DEF s
      <4> HIDE DEF b
      <4>3. \A r \in 1 .. 4 : r + 1 \in 1 .. 1 + 4 /\ ~ (r + 1 <= 1) /\ (r + 1) - 1 = r
        OBVIOUS
      <4> QED BY <4>1, <4>2, <4>3
    <3> HIDE DEF b
    <3>4. /\ a \o b \in Seq(C) /\ Len(a \o b) = m + 5
          /\ \A k \in 1 .. m + 5 : (a \o b)[k] = IF k <= m THEN a[k] ELSE b[k - m]
      <4>1. /\ a \o b \in Seq(C) /\ Len(a \o b) = Len(a) + Len(b)
            /\ \A k \in 1 .. Len(a) + Len(b) : (a \o b)[k] = IF k <= Len(a) THEN a[k] ELSE b[k - Len(a)]
        BY <3>2, <3>3, ConcatProperties
      <4> HIDE DEF m
      <4> QED BY <3>2, <3>3, <4>1
    <3> DEFINE t == a \o b
    <3> HIDE DEF t
    <3>5. Len(t) = 5 * (i + 1) - 1 /\ \A k \in 1 .. m + 5 : t[k] = IF k <= m THEN a[k] ELSE b[k - m]
      BY <3>4 DEF t
    <3>6. ASSUME NEW k \in 1 .. i + 1, NEW r \in 1 .. 4 PROVE t[5 * (k - 1) + r] = words[k][r]
      <4>1. CASE k = i + 1
        <5>1. 5 * (k - 1) + r = m + (r + 1) /\ m + (r + 1) \in 1 .. m + 5 /\ ~ (m + (r + 1) <= m)
              /\ (m + (r + 1)) - m = r + 1
          BY <3>2, <4>1
        <5>2. t[m + (r + 1)] = b[r + 1]
          BY <3>5, <5>1
        <5> QED BY <3>3, <4>1, <5>1, <5>2 DEF w
      <4>2. CASE k # i + 1
        <5>1. k \in 1 .. i /\ 5 * (k - 1) + r \in 1 .. m + 5 /\ 5 * (k - 1) + r <= m
          BY <4>2
        <5>2. t[5 * (k - 1) + r] = a[5 * (k - 1) + r]
          BY <3>5, <5>1
        <5> QED BY <3>1, <5>1, <5>2 DEF a, SpacedAs
      <4> QED BY <4>1, <4>2
    <3>7. ASSUME NEW k \in 1 .. (i + 1) - 1 PROVE t[5 * k] = separator
      <4>1. CASE k = i
        <5>1. 5 * k = m + 1 /\ m + 1 \in 1 .. m + 5 /\ ~ (m + 1 <= m) /\ (m + 1) - m = 1
          BY <3>2, <4>1
        <5> QED BY <3>3, <3>5, <5>1
      <4>2. CASE k # i
        <5>1. k \in 1 .. i - 1 /\ 5 * k \in 1 .. m + 5 /\ 5 * k <= m
          BY <4>2
        <5> QED BY <3>1, <3>5, <5>1 DEF a, SpacedAs
      <4> QED BY <4>1, <4>2
    <3>8. f[i + 1] = t /\ t \in Seq(C)
      BY <3>1, <3>4 DEF t, a, b, w
    <3> QED BY <3>5, <3>6, <3>7, <3>8 DEF SpacedAs
  <2> QED BY <2>1, <2>2
<1> HIDE DEF H
<1>9. Nat \subseteq H
  BY <1>7, <1>8, Induction
<1>10. Good(n)
  BY <1>1, <1>9 DEF H
<1> QED BY <1>6, <1>10 DEF n, parts

(* One character of str::split.                                            *)
SplitStep(pieces, c, separator) ==
  IF c = separator THEN Append(pieces, << >>) ELSE [pieces EXCEPT ![Len(pieces)] = Append(@, c)]

IsSplit(it, text, separator) ==
  it = [s \in SUBSET (DOMAIN text) |->
         IF s = {} THEN << << >> >> ELSE SplitStep(it[s \ {Max(s)}], text[Max(s)], separator)]

LEMMA SplitExists ==
  ASSUME NEW C, NEW separator, NEW text \in Seq(C)
  PROVE  \E it : IsSplit(it, text, separator)
<1> DEFINE n == Len(text)
           V == Seq(Seq(C)) \ {<< >>}
           step == [p \in (1 .. n) \X V |-> SplitStep(p[2], text[p[1]], separator)]
           base == << << >> >>
<1>1. n \in Nat /\ DOMAIN text = 1 .. n /\ \A i \in 1 .. n : text[i] \in C
  BY ElementOfSeq, LenProperties
<1>2. base \in V
  OBVIOUS
<1>3. ASSUME NEW i \in 1 .. n, NEW v \in V PROVE SplitStep(v, text[i], separator) \in V
  <2> DEFINE D == Seq(C)
             last == v[Len(v)]
  <2>1. v \in Seq(D) /\ Len(v) \in 1 .. Len(v)
    BY EmptySeq
  <2>2. last \in D /\ Append(last, text[i]) \in D /\ << >> \in D
    BY <1>1, <2>1
  <2> HIDE DEF D
  <2>3. Append(v, << >>) \in Seq(D) /\ Append(v, << >>) # << >>
    BY <2>1, <2>2
  <2> DEFINE w == [v EXCEPT ![Len(v)] = Append(last, text[i])]
  <2>4. w \in Seq(D) /\ w # << >>
    <3>1. w \in Seq(D) /\ Len(w) = Len(v)
      BY <2>1, <2>2, ExceptSeq
    <3> QED BY <2>1, <3>1, EmptySeq
  <2> QED BY <2>3, <2>4 DEF D, SplitStep
<1>4. step \in [(1 .. n) \X V -> V]
  BY <1>3
<1> HIDE DEF n, V, base
<1>5. n \in Nat
  BY <1>1
<1>6. PICK it \in [SUBSET (1 .. n) -> V] : IsLeftFold(it, n, base, step)
  <2> HIDE DEF step
  <2> QED BY ONLY <1>2, <1>4, <1>5, LeftFold
<1>7. it = [s \in SUBSET (1 .. n) |-> IF s = {} THEN base ELSE step[<<Max(s), it[s \ {Max(s)}]>>]]
  BY <1>6 DEF IsLeftFold
<1>8. ASSUME NEW s \in SUBSET (1 .. n), s # {}
      PROVE  step[<<Max(s), it[s \ {Max(s)}]>>] = SplitStep(it[s \ {Max(s)}], text[Max(s)], separator)
  <2>1. Max(s) \in 1 .. n /\ it[s \ {Max(s)}] \in V
    <3>1. Max(s) \in s
      BY <1>5, <1>8, MaxExists
    <3> QED BY <3>1
  <2> QED BY <2>1
<1> HIDE DEF step
<1>9. it = [s \in SUBSET (1 .. n) |->
              IF s = {} THEN base ELSE SplitStep(it[s \ {Max(s)}], text[Max(s)], separator)]
  BY <1>7, <1>8
<1> QED BY <1>1, <1>9 DEF IsSplit, base

LEMMA SplitUnfold ==
  ASSUME NEW C, NEW separator, NEW text \in Seq(C)
  PROVE  \E at : /\ at[0] = << << >> >>
                 /\ \A i \in 1 .. Len(text) : at[i] = SplitStep(at[i - 1], text[i], separator)
                 /\ SplitAt(text, separator) = at[Len(text)]
<1> DEFINE n == Len(text)
<1>1. n \in Nat /\ DOMAIN text = 1 .. n
  BY LenProperties
<1>2. PICK some : IsSplit(some, text, separator)
  BY SplitExists
<1>3. PICK it : IsSplit(it, text, separator) /\ SplitAt(text, separator) = it[DOMAIN text]
  BY <1>2 DEF IsSplit, SplitStep, SplitAt, FoldLeft, MapThenFoldSet
<1> HIDE DEF n
<1>4. it = [s \in SUBSET (1 .. n) |->
         IF s = {} THEN << << >> >> ELSE SplitStep(it[s \ {Max(s)}], text[Max(s)], separator)]
  BY <1>1, <1>3 DEF IsSplit
<1> DEFINE at == [i \in 0 .. n |-> it[1 .. i]]
<1>5. at[0] = << << >> >>
  <2>1. 1 .. 0 = {} /\ {} \in SUBSET (1 .. n) /\ 0 \in 0 .. n
    BY <1>1
  <2> QED BY <1>4, <2>1
<1>6. ASSUME NEW i \in 1 .. n PROVE at[i] = SplitStep(at[i - 1], text[i], separator)
  <2>1. /\ Max(1 .. i) = i /\ (1 .. i) \ {i} = 1 .. (i - 1) /\ 1 .. i \in SUBSET (1 .. n) /\ 1 .. i # {}
        /\ i \in 0 .. n /\ i - 1 \in 0 .. n
    BY <1>1, Prefix
  <2>2. it[1 .. i] = SplitStep(it[(1 .. i) \ {Max(1 .. i)}], text[Max(1 .. i)], separator)
    BY ONLY <1>4, <2>1
  <2>3. at[i] = it[1 .. i] /\ at[i - 1] = it[1 .. (i - 1)]
    BY <2>1
  <2> HIDE DEF at
  <2> QED BY <2>1, <2>2, <2>3
<1>7. SplitAt(text, separator) = at[n]
  BY <1>1, <1>3
<1> QED BY <1>5, <1>6, <1>7 DEF n

LEMMA FlatOne ==
  ASSUME NEW C, NEW x \in Seq(C)
  PROVE  FlattenSeq(<<x>>) = x
<1> DEFINE parts == <<x>>
           D == Seq(C)
<1>1. parts \in Seq(D) /\ Len(parts) = 1 /\ parts[1] = x /\ parts # << >>
  OBVIOUS
<1> HIDE DEF parts
<1>2. \E f : /\ f[1] = parts[1] /\ FlattenSeq(parts) = f[Len(parts)]
  BY <1>1, FlatUnfold
<1> QED BY <1>1, <1>2 DEF parts

LEMMA FlatAppend ==
  ASSUME NEW C, NEW parts \in Seq(Seq(C)), NEW x \in Seq(C)
  PROVE  /\ FlattenSeq(parts) \in Seq(C)
         /\ FlattenSeq(Append(parts, x)) = FlattenSeq(parts) \o x
<1> DEFINE n == Len(parts)
           more == Append(parts, x)
<1>1. n \in Nat /\ \A k \in 1 .. n : parts[k] \in Seq(C)
  BY ElementOfSeq
<1>2. /\ more \in Seq(Seq(C)) /\ Len(more) = n + 1 /\ more # << >> /\ more[n + 1] = x
      /\ \A k \in 1 .. n : more[k] = parts[k]
  <2> DEFINE D == Seq(C)
  <2>1. parts \in Seq(D) /\ x \in D
    OBVIOUS
  <2> HIDE DEF D
  <2>2. /\ more \in Seq(D) /\ Len(more) = n + 1 /\ more # << >> /\ more[n + 1] = x
        /\ \A k \in 1 .. n : more[k] = parts[k]
    BY <2>1, AppendProperties
  <2> QED BY <2>2 DEF D
<1> HIDE DEF more
<1>3. PICK g : /\ g[1] = more[1] /\ \A i \in 2 .. n + 1 : g[i] = g[i - 1] \o more[i]
               /\ FlattenSeq(more) = g[n + 1]
  BY <1>2, FlatUnfold
<1>4. CASE parts = << >>
  <2>1. n = 0 /\ FlattenSeq(parts) = << >>
    BY <1>4 DEF FlattenSeq
  <2>2. FlattenSeq(more) = x
    BY <1>2, <1>3, <2>1
  <2>3. << >> \in Seq(C) /\ << >> \o x = x
    BY ConcatEmptySeq
  <2> QED BY <2>1, <2>2, <2>3 DEF more
<1>5. CASE parts # << >>
  <2>1. PICK f : /\ f[1] = parts[1] /\ \A i \in 2 .. n : f[i] = f[i - 1] \o parts[i]
                 /\ FlattenSeq(parts) = f[n]
    BY <1>5, FlatUnfold
  <2>2. n >= 1
    BY <1>1, <1>5, EmptySeq
  <2> HIDE DEF n
  <2> DEFINE H == {i \in Nat : i \in 1 .. n => f[i] \in Seq(C) /\ g[i] = f[i]}
  <2>3. 0 \in H
    OBVIOUS
  <2>4. ASSUME NEW i \in Nat, i \in H PROVE i + 1 \in H
    <3> SUFFICES ASSUME i + 1 \in 1 .. n PROVE f[i + 1] \in Seq(C) /\ g[i + 1] = f[i + 1]
      OBVIOUS
    <3>1. CASE i = 0
      <4>1. 1 \in 1 .. n
        BY <1>1, <2>2
      <4> QED BY <1>1, <1>2, <1>3, <2>1, <3>1, <4>1
    <3>2. CASE i # 0
      <4>1. i \in 1 .. n /\ i + 1 \in 2 .. n /\ i + 1 \in 2 .. n + 1 /\ (i + 1) - 1 = i
        BY <1>1, <3>2
      <4>2. f[i] \in Seq(C) /\ g[i] = f[i]
        BY <2>4, <4>1
      <4>3. f[i + 1] = f[i] \o parts[i + 1] /\ g[i + 1] = g[i] \o more[i + 1] /\ more[i + 1] = parts[i + 1]
        BY <1>2, <1>3, <2>1, <4>1
      <4>4. f[i] \o parts[i + 1] \in Seq(C)
        BY <1>1, <4>2, ConcatProperties
      <4> QED BY <4>2, <4>3, <4>4
    <3> QED BY <3>1, <3>2
  <2> HIDE DEF H
  <2>5. Nat \subseteq H
    BY <2>3, <2>4, Induction
  <2>6. f[n] \in Seq(C) /\ g[n] = f[n]
    BY <1>1, <2>2, <2>5 DEF H
  <2>7. g[n + 1] = g[n] \o more[n + 1]
    <3>1. n + 1 \in 2 .. n + 1 /\ (n + 1) - 1 = n
      BY <1>1, <2>2
    <3> QED BY <1>3, <3>1
  <2> QED BY <1>2, <1>3, <2>1, <2>6, <2>7 DEF more
<1> QED BY <1>4, <1>5

(* The text of some pieces, and one that is longer.                         *)
Joined(pieces, separator) == FlattenSeq(Spaced(pieces, separator))

LEMMA JoinedAppend ==
  ASSUME NEW C, NEW separator \in C, NEW q \in Seq(Seq(C)), NEW x \in Seq(C)
  PROVE  /\ Joined(q, separator) \in Seq(C)
         /\ Joined(Append(q, x), separator) =
              IF q = << >> THEN x ELSE Joined(q, separator) \o (<<separator>> \o x)
<1> DEFINE n == Len(q)
           sp == Spaced(q, separator)
           y == IF q = << >> THEN x ELSE <<separator>> \o x
<1>1. n \in Nat /\ DOMAIN q = 1 .. n /\ (q = << >> <=> n = 0) /\ \A k \in 1 .. n : q[k] \in Seq(C)
  BY ElementOfSeq, LenProperties, EmptySeq
<1>2. \A z \in Seq(C) : <<separator>> \o z \in Seq(C)
  <2>1. <<separator>> \in Seq(C)
    OBVIOUS
  <2> QED BY <2>1, ConcatProperties
<1> DEFINE D == Seq(C)
<1>3. sp \in Seq(D) /\ Len(sp) = n
  <2>1. sp \in [1 .. n -> D]
    BY <1>1, <1>2 DEF Spaced
  <2> HIDE DEF D, sp, n
  <2> QED BY ONLY <1>1, <2>1, FunctionIsSeq
<1>4. y \in D
  BY <1>2
<1>5. Spaced(Append(q, x), separator) = Append(sp, y)
  <2> DEFINE l == Append(q, x)
             r == Append(sp, y)
  <2>1. /\ l \in Seq(D) /\ Len(l) = n + 1 /\ l[n + 1] = x /\ \A k \in 1 .. n : l[k] = q[k]
    BY AppendProperties
  <2>2. DOMAIN l = 1 .. n + 1
    BY <2>1, LenProperties
  <2> HIDE DEF y
  <2>3. /\ r \in Seq(D) /\ Len(r) = n + 1 /\ r[n + 1] = y /\ \A k \in 1 .. n : r[k] = sp[k]
    <3> HIDE DEF sp, D, n
    <3> QED BY <1>3, <1>4, AppendProperties
  <2>4. r = [k \in 1 .. n + 1 |-> r[k]]
    BY <2>3, LenProperties
  <2>5. \A k \in 1 .. n : r[k] = IF k = 1 THEN l[k] ELSE <<separator>> \o l[k]
    BY <1>1, <2>1, <2>3 DEF Spaced
  <2>6. r[n + 1] = IF n + 1 = 1 THEN l[n + 1] ELSE <<separator>> \o l[n + 1]
    BY <1>1, <2>1, <2>3 DEF y
  <2>7. \A k \in 1 .. n + 1 : k \in 1 .. n \/ k = n + 1
    BY <1>1
  <2> HIDE DEF r, l, n
  <2>8. r = [k \in 1 .. n + 1 |-> IF k = 1 THEN l[k] ELSE <<separator>> \o l[k]]
    <3>1. \A k \in 1 .. n + 1 : r[k] = IF k = 1 THEN l[k] ELSE <<separator>> \o l[k]
      BY ONLY <2>5, <2>6, <2>7
    <3> QED BY ONLY <2>4, <3>1
  <2> QED BY <2>2, <2>8 DEF Spaced, r, l
<1> HIDE DEF sp, y
<1>6. FlattenSeq(sp) \in Seq(C) /\ FlattenSeq(Append(sp, y)) = FlattenSeq(sp) \o y
  BY <1>3, <1>4, FlatAppend
<1>7. CASE q = << >>
  <2>1. sp = << >> /\ y = x
    BY <1>1, <1>3, <1>7, EmptySeq DEF y
  <2>2. FlattenSeq(sp) = << >>
    BY <2>1 DEF FlattenSeq
  <2>3. << >> \o x = x
    BY ConcatEmptySeq
  <2> QED BY <1>5, <1>6, <1>7, <2>1, <2>2, <2>3 DEF Joined, sp
<1>8. CASE q # << >>
  BY <1>5, <1>6, <1>8 DEF Joined, sp, y
<1> QED BY <1>7, <1>8

(* The pieces joined again are the text.                                    *)
LEMMA SplitJoins ==
  ASSUME NEW C, NEW separator \in C, NEW text \in Seq(C)
  PROVE  /\ SplitAt(text, separator) \in Seq(Seq(C)) /\ SplitAt(text, separator) # << >>
         /\ Joined(SplitAt(text, separator), separator) = text
<1> DEFINE n == Len(text)
           D == Seq(C)
<1>1. n \in Nat /\ \A i \in 1 .. n : text[i] \in C
  BY ElementOfSeq
<1>2. PICK at : /\ at[0] = << << >> >>
                /\ \A i \in 1 .. n : at[i] = SplitStep(at[i - 1], text[i], separator)
                /\ SplitAt(text, separator) = at[n]
  BY SplitUnfold
<1> HIDE DEF n
<1> DEFINE Good(i) == \E q \in Seq(D), x \in D :
                        at[i] = Append(q, x) /\ Joined(at[i], separator) = SubSeq(text, 1, i)
           H == {i \in Nat : i \in 0 .. n => Good(i)}
<1>3. << >> \in Seq(D) /\ << >> \in D
  BY EmptySeq
<1>a. \A q \in Seq(D), x \in D :
        /\ Joined(q, separator) \in Seq(C)
        /\ Joined(Append(q, x), separator) =
             IF q = << >> THEN x ELSE Joined(q, separator) \o (<<separator>> \o x)
  BY JoinedAppend
<1> HIDE DEF Good
<1>4. 0 \in H
  <2>1. at[0] = Append(<< >>, << >>)
    BY <1>2
  <2>2. Joined(Append(<< >>, << >>), separator) = << >>
    BY <1>3, <1>a
  <2>3. SubSeq(text, 1, 0) = << >>
    BY SubSeqEmpty
  <2> HIDE DEF D
  <2> QED BY <1>3, <2>1, <2>2, <2>3 DEF Good
<1>5. ASSUME NEW i \in Nat, i \in H PROVE i + 1 \in H
  <2> SUFFICES ASSUME i + 1 \in 0 .. n PROVE Good(i + 1)
    OBVIOUS
  <2>1. i \in 0 .. n /\ i + 1 \in 1 .. n /\ (i + 1) - 1 = i
    BY <1>1
  <2>2. PICK q \in Seq(D), x \in D : at[i] = Append(q, x) /\ Joined(at[i], separator) = SubSeq(text, 1, i)
    <3>1. Good(i)
      BY <1>5, <2>1
    <3> QED BY <3>1 DEF Good
  <2> DEFINE c == text[i + 1]
             pre == SubSeq(text, 1, i)
  <2>3. at[i + 1] = SplitStep(Append(q, x), c, separator)
    BY <1>2, <2>1, <2>2
  <2>4. SubSeq(text, 1, i + 1) = pre \o <<c>>
    <3>1. 1 \in 1 .. Len(text) /\ i + 1 \in 1 .. Len(text)
      BY <1>1, <2>1 DEF n
    <3>2. SubSeq(text, 1, i + 1) = SubSeq(text, 1, (i + 1) - 1) \o <<text[i + 1]>>
      BY ONLY <3>1, text \in Seq(C), SubSeqRecursiveSecond
    <3> QED BY <2>1, <3>2
  <2>5. c \in C /\ <<c>> \in D /\ <<separator>> \in D
    BY <1>1, <2>1
  <2>6. Append(q, x) \in Seq(D) /\ Append(q, x) # << >> /\ Len(Append(q, x)) = Len(q) + 1
        /\ Append(q, x)[Len(q) + 1] = x /\ \A k \in 1 .. Len(q) : Append(q, x)[k] = q[k]
    <3> HIDE DEF D
    <3> QED BY AppendProperties
  <2>7. Joined(Append(q, x), separator) = pre
    BY <2>2
  <2> HIDE DEF c, pre
  <2>8. CASE c = separator
    <3>1. at[i + 1] = Append(Append(q, x), << >>)
      BY <2>3, <2>8 DEF SplitStep
    <3>2. Joined(Append(Append(q, x), << >>), separator) = pre \o (<<separator>> \o << >>)
      <4> DEFINE r == Append(q, x)
      <4>1. r \in Seq(Seq(C)) /\ r # << >> /\ << >> \in Seq(C)
        BY <1>3, <2>6
      <4> HIDE DEF r
      <4>2. Joined(Append(r, << >>), separator) = Joined(r, separator) \o (<<separator>> \o << >>)
        BY <4>1, JoinedAppend
      <4> QED BY <2>7, <4>2 DEF r
    <3>3. <<separator>> \o << >> = <<c>>
      BY <2>5, <2>8, ConcatEmptySeq
    <3>4. Joined(at[i + 1], separator) = SubSeq(text, 1, i + 1)
      BY <2>4, <3>1, <3>2, <3>3
    <3> HIDE DEF D
    <3> QED BY <1>3, <2>6, <3>1, <3>4 DEF Good
  <2>9. CASE c # separator
    <3> DEFINE y == Append(x, c)
    <3>1. y \in D /\ y = x \o <<c>>
      BY <2>5, AppendIsConcat
    <3>2. at[i + 1] = Append(q, y)
      <4> DEFINE r == Append(q, x)
                 s == Append(q, y)
                 m == Len(q)
      <4>1. at[i + 1] = [r EXCEPT ![m + 1] = y]
        BY <2>3, <2>6, <2>9 DEF SplitStep
      <4> HIDE DEF D, y
      <4>2. s \in Seq(D) /\ Len(s) = m + 1 /\ s[m + 1] = y /\ \A k \in 1 .. m : s[k] = q[k]
        BY <3>1, AppendProperties
      <4>3. m \in Nat
        OBVIOUS
      <4> HIDE DEF r, s, m
      <4>4. /\ [r EXCEPT ![m + 1] = y] \in Seq(D) /\ Len([r EXCEPT ![m + 1] = y]) = m + 1
            /\ \A k \in 1 .. m + 1 : [r EXCEPT ![m + 1] = y][k] = IF k = m + 1 THEN y ELSE r[k]
        <5>1. r \in Seq(D) /\ Len(r) = m + 1 /\ m + 1 \in 1 .. Len(r)
          BY <2>6, <4>3 DEF r, m
        <5> QED BY <3>1, <5>1, ExceptSeq
      <4>5. \A k \in 1 .. m + 1 : k \in 1 .. m \/ k = m + 1
        BY <4>3
      <4>6. \A k \in 1 .. m + 1 : [r EXCEPT ![m + 1] = y][k] = s[k]
        BY <2>6, <4>2, <4>3, <4>4, <4>5 DEF r, m
      <4>7. [r EXCEPT ![m + 1] = y] = s
        BY <4>2, <4>4, <4>6, SeqEqual
      <4> QED BY <4>1, <4>7 DEF s
    <3>3. Joined(Append(q, y), separator) = pre \o <<c>>
      <4> HIDE DEF y
      <4>1. Joined(Append(q, y), separator) =
              IF q = << >> THEN y ELSE Joined(q, separator) \o (<<separator>> \o y)
        BY <1>a, <3>1
      <4>2. pre = IF q = << >> THEN x ELSE Joined(q, separator) \o (<<separator>> \o x)
        BY <1>a, <2>7
      <4>3. Joined(q, separator) \in Seq(C)
        BY <1>a
      <4> DEFINE a == Joined(q, separator)
                 b == <<separator>>
                 e == <<c>>
      <4>4. a \in D /\ b \in D /\ e \in D /\ x \in D /\ y = x \o e
        BY <2>5, <3>1, <4>3
      <4> HIDE DEF a, b, e
      <4>5. a \o (b \o (x \o e)) = (a \o (b \o x)) \o e
        <5>1. /\ \A u, v \in Seq(C) : u \o v \in Seq(C)
              /\ \A u, v, w \in Seq(C) : (u \o v) \o w = u \o (v \o w)
          BY ConcatProperties, ConcatAssociative, SMTT(30)
        <5>2. a \in Seq(C) /\ b \in Seq(C) /\ e \in Seq(C) /\ x \in Seq(C)
          BY <4>4
        <5>3. b \o x \in Seq(C) /\ b \o (x \o e) = (b \o x) \o e
          BY ONLY <5>1, <5>2
        <5>4. a \o ((b \o x) \o e) = (a \o (b \o x)) \o e
          BY ONLY <5>1, <5>2, <5>3, SMTT(30)
        <5> QED BY <5>3, <5>4
      <4> QED BY <4>1, <4>2, <4>4, <4>5 DEF a, b, e
    <3>4. Joined(at[i + 1], separator) = SubSeq(text, 1, i + 1)
      BY <2>4, <3>2, <3>3
    <3> HIDE DEF D, y
    <3> QED BY <3>1, <3>2, <3>4 DEF Good
  <2> QED BY <2>8, <2>9
<1> HIDE DEF H
<1>6. Nat \subseteq H
  BY <1>4, <1>5, Induction
<1>7. PICK q \in Seq(D), x \in D : at[n] = Append(q, x) /\ Joined(at[n], separator) = SubSeq(text, 1, n)
  <2>1. n \in 0 .. n
    BY <1>1
  <2>2. Good(n)
    BY <1>1, <1>6, <2>1 DEF H
  <2> QED BY <2>2 DEF Good
<1>8. SubSeq(text, 1, n) = text
  BY SubSeqFull DEF n
<1>9. Append(q, x) \in Seq(D) /\ Append(q, x) # << >>
  <2> HIDE DEF D
  <2> QED BY AppendProperties
<1> QED BY <1>2, <1>7, <1>8, <1>9

(* A text of words of four letters is split into these words.               *)
LEMMA SplitWords ==
  ASSUME NEW C, NEW separator, NEW text \in Seq(C), NEW words \in Seq(Seq(C)), words # << >>,
         \A k \in 1 .. Len(words) : Len(words[k]) = 4,
         \A k \in 1 .. Len(words), r \in 1 .. 4 : words[k][r] # separator,
         SpacedAs(text, words, separator, Len(words))
  PROVE  SplitAt(text, separator) = words
<1> DEFINE n == Len(text)
           m == Len(words)
           D == Seq(C)
<1>1. /\ n \in Nat /\ m \in Nat \ {0} /\ n = 5 * m - 1 /\ \A i \in 1 .. n : text[i] \in C
      /\ \A k \in 1 .. m : words[k] \in D /\ Len(words[k]) = 4
  BY ElementOfSeq, EmptySeq DEF SpacedAs
<1>2. /\ \A k \in 1 .. m, r \in 1 .. 4 : text[5 * (k - 1) + r] = words[k][r]
      /\ \A k \in 1 .. m - 1 : text[5 * k] = separator
  BY DEF SpacedAs
<1>3. PICK at : /\ at[0] = << << >> >>
                /\ \A i \in 1 .. n : at[i] = SplitStep(at[i - 1], text[i], separator)
                /\ SplitAt(text, separator) = at[n]
  BY ONLY text \in Seq(C), SplitUnfold
<1>4. words \in Seq(D)
  OBVIOUS
<1> HIDE DEF n, m, D
<1> DEFINE Good(i) ==
             \E q \in 0 .. m - 1, r \in 0 .. 4 :
               /\ i = 5 * q + r
               /\ at[i] \in Seq(D) /\ Len(at[i]) = q + 1 /\ \A k \in 1 .. q : at[i][k] = words[k]
               /\ at[i][q + 1] \in D /\ Len(at[i][q + 1]) = r
               /\ \A j \in 1 .. r : at[i][q + 1][j] = words[q + 1][j]
           H == {i \in Nat : i \in 0 .. n => Good(i)}
<1>5. Good(0)
  <2> DEFINE e == << >>
             a == <<e>>
  <2>1. e \in D /\ Len(e) = 0
    BY EmptySeq DEF D
  <2>2. a \in Seq(D) /\ Len(a) = 1 /\ a[1] = e
    BY <2>1
  <2>3. at[0] = a
    BY <1>3
  <2> HIDE DEF a, e
  <2>4. 0 \in 0 .. m - 1 /\ 0 \in 0 .. 4 /\ 0 = 5 * 0 + 0 /\ 0 + 1 = 1
    BY <1>1
  <2>5. \A k \in 1 .. 0 : FALSE
    OBVIOUS
  <2> QED BY <2>1, <2>2, <2>3, <2>4, <2>5
<1> HIDE DEF Good
<1>6. 0 \in H
  BY <1>5
<1>7. ASSUME NEW i \in Nat, i \in H PROVE i + 1 \in H
  <2> SUFFICES ASSUME i + 1 \in 0 .. n PROVE Good(i + 1)
    OBVIOUS
  <2>1. i \in 0 .. n /\ i + 1 \in 1 .. n /\ (i + 1) - 1 = i
    BY <1>1
  <2>2. PICK q \in 0 .. m - 1, r \in 0 .. 4 :
               /\ i = 5 * q + r
               /\ at[i] \in Seq(D) /\ Len(at[i]) = q + 1 /\ \A k \in 1 .. q : at[i][k] = words[k]
               /\ at[i][q + 1] \in D /\ Len(at[i][q + 1]) = r
               /\ \A j \in 1 .. r : at[i][q + 1][j] = words[q + 1][j]
    <3>1. Good(i)
      BY <1>7, <2>1
    <3> QED BY <3>1 DEF Good
  <2> DEFINE c == text[i + 1]
             a == at[i]
             x == a[q + 1]
             b == at[i + 1]
  <2>3. b = SplitStep(a, c, separator)
    BY <1>3, <2>1
  <2>4. /\ i = 5 * q + r /\ a \in Seq(D) /\ Len(a) = q + 1 /\ \A k \in 1 .. q : a[k] = words[k]
        /\ x \in D /\ Len(x) = r /\ \A j \in 1 .. r : x[j] = words[q + 1][j]
        /\ q + 1 \in 1 .. m /\ c \in C
    BY <1>1, <2>1, <2>2
  <2>5. << >> \in D /\ Len(<< >>) = 0
    BY EmptySeq DEF D
  <2> HIDE DEF c, a, x
  <2>6. CASE r = 4
    <3>1. q + 1 \in 1 .. m - 1 /\ i + 1 = 5 * (q + 1) /\ q + 1 \in 0 .. m - 1 /\ 0 \in 0 .. 4
          /\ i + 1 = 5 * (q + 1) + 0
      BY <1>1, <2>1, <2>4, <2>6
    <3>2. c = separator
      BY <1>2, <3>1 DEF c
    <3>3. b = Append(a, << >>)
      BY <2>3, <3>2 DEF SplitStep
    <3>4. /\ b \in Seq(D) /\ Len(b) = q + 1 + 1 /\ b[q + 1 + 1] = << >>
          /\ \A k \in 1 .. q + 1 : b[k] = a[k]
      <4> HIDE DEF b
      <4> QED BY <2>4, <2>5, <3>3, AppendProperties
    <3>5. x = words[q + 1]
      <4>1. Len(words[q + 1]) = 4 /\ words[q + 1] \in Seq(C) /\ x \in Seq(C) /\ Len(x) = 4
        BY <1>1, <2>4, <2>6 DEF D
      <4>2. \A j \in 1 .. Len(x) : x[j] = words[q + 1][j]
        BY <2>4, <2>6, <4>1
      <4> QED BY <4>1, <4>2, SeqEqual
    <3>6. \A k \in 1 .. q + 1 : b[k] = words[k]
      <4>1. \A k \in 1 .. q + 1 : k \in 1 .. q \/ k = q + 1
        OBVIOUS
      <4> HIDE DEF b
      <4> QED BY <2>4, <3>4, <3>5, <4>1 DEF x
    <3> DEFINE p == q + 1
               z == 0
    <3>7. /\ p \in 0 .. m - 1 /\ z \in 0 .. 4 /\ i + 1 = 5 * p + z
          /\ b \in Seq(D) /\ Len(b) = p + 1 /\ \A k \in 1 .. p : b[k] = words[k]
          /\ b[p + 1] \in D /\ Len(b[p + 1]) = z /\ \A j \in 1 .. z : b[p + 1][j] = words[p + 1][j]
      <4> HIDE DEF b
      <4> QED BY <2>5, <3>1, <3>4, <3>6
    <3> HIDE DEF p, z
    <3> QED BY <3>7 DEF Good
  <2>7. CASE r # 4
    <3>1. r + 1 \in 1 .. 4 /\ i + 1 = 5 * ((q + 1) - 1) + (r + 1) /\ i + 1 = 5 * q + (r + 1)
      BY <2>4, <2>7
    <3>2. c = words[q + 1][r + 1] /\ c # separator
      <4>1. text[5 * ((q + 1) - 1) + (r + 1)] = words[q + 1][r + 1]
        BY <1>2, <2>4, <3>1
      <4>2. words[q + 1][r + 1] # separator
        BY <2>4, <3>1 DEF m
      <4>3. c = text[5 * ((q + 1) - 1) + (r + 1)]
        BY <3>1 DEF c
      <4> QED BY <4>1, <4>2, <4>3
    <3> DEFINE y == Append(x, c)
    <3>3. /\ y \in D /\ Len(y) = r + 1 /\ y[r + 1] = c /\ \A j \in 1 .. r : y[j] = x[j]
      BY <2>4, AppendProperties DEF D
    <3> HIDE DEF y
    <3>4. b = [a EXCEPT ![q + 1] = y]
      BY <2>3, <2>4, <3>2 DEF SplitStep, y, x
    <3>5. /\ b \in Seq(D) /\ Len(b) = q + 1
          /\ \A k \in 1 .. q + 1 : b[k] = IF k = q + 1 THEN y ELSE a[k]
      <4>1. q + 1 \in 1 .. Len(a)
        BY <2>4
      <4>2. /\ [a EXCEPT ![q + 1] = y] \in Seq(D) /\ Len([a EXCEPT ![q + 1] = y]) = Len(a)
            /\ \A k \in 1 .. Len(a) : [a EXCEPT ![q + 1] = y][k] = IF k = q + 1 THEN y ELSE a[k]
        BY <2>4, <3>3, <4>1, ExceptSeq
      <4> HIDE DEF b
      <4> QED BY <2>4, <3>4, <4>2
    <3> HIDE DEF b
    <3>6. b[q + 1] = y /\ \A k \in 1 .. q : b[k] = words[k]
      <4>1. q + 1 \in 1 .. q + 1 /\ \A k \in 1 .. q : k \in 1 .. q + 1 /\ k # q + 1
        BY <2>4
      <4> QED BY <2>4, <3>5, <4>1
    <3>7. \A j \in 1 .. r + 1 : y[j] = words[q + 1][j]
      <4>1. \A j \in 1 .. r + 1 : j \in 1 .. r \/ j = r + 1
        OBVIOUS
      <4> QED BY <2>4, <3>2, <3>3, <4>1
    <3> DEFINE z == r + 1
    <3>8. /\ q \in 0 .. m - 1 /\ z \in 0 .. 4 /\ i + 1 = 5 * q + z
          /\ b \in Seq(D) /\ Len(b) = q + 1 /\ \A k \in 1 .. q : b[k] = words[k]
          /\ b[q + 1] \in D /\ Len(b[q + 1]) = z /\ \A j \in 1 .. z : b[q + 1][j] = words[q + 1][j]
      BY <3>1, <3>3, <3>5, <3>6, <3>7
    <3> HIDE DEF z
    <3> QED BY <3>8 DEF Good, b
  <2> QED BY <2>6, <2>7
<1> HIDE DEF H
<1>8. Nat \subseteq H
  BY <1>6, <1>7, Induction
<1>9. Good(n)
  <2>1. n \in 0 .. n /\ n \in H
    BY <1>1, <1>8
  <2> QED BY <2>1 DEF H
<1>10. PICK q \in 0 .. m - 1, r \in 0 .. 4 :
               /\ n = 5 * q + r
               /\ at[n] \in Seq(D) /\ Len(at[n]) = q + 1 /\ \A k \in 1 .. q : at[n][k] = words[k]
               /\ at[n][q + 1] \in D /\ Len(at[n][q + 1]) = r
               /\ \A j \in 1 .. r : at[n][q + 1][j] = words[q + 1][j]
  BY <1>9 DEF Good
<1>11. q + 1 = m /\ r = 4
  BY <1>1, <1>10, SMTT(30)
<1>12. at[n][m] = words[m]
  <2> DEFINE x == at[n][m]
             y == words[m]
  <2>1. x \in Seq(C) /\ y \in Seq(C) /\ Len(x) = 4 /\ Len(y) = 4 /\ \A j \in 1 .. 4 : x[j] = y[j]
    BY <1>1, <1>10, <1>11, SMTT(30) DEF D
  <2> HIDE DEF x, y
  <2>2. x = y
    BY <2>1, SeqEqual
  <2> QED BY <2>2 DEF x, y
<1>13. \A k \in 1 .. m : at[n][k] = words[k]
  <2>1. \A k \in 1 .. m : k \in 1 .. q \/ k = m
    BY <1>11
  <2> QED BY <1>10, <1>12, <2>1
<1>14. Len(at[n]) = m /\ at[n] \in Seq(D) /\ Len(words) = m
  BY <1>10, <1>11 DEF m
<1>15. at[n] = words
  BY <1>4, <1>13, <1>14, SeqEqual
<1> QED BY <1>3, <1>15

LEMMA LoweredText ==
  ASSUME NEW text \in Seq(Characters)
  PROVE  /\ DOMAIN Lowered(text) = 1 .. Len(text) /\ Len(text) \in Nat
         /\ \A k \in 1 .. Len(text) : text[k] = NonAscii => Lowered(text)[k] = NonAscii
         /\ IsAscii(text) => Lowered(text) \in Seq(Ascii) /\ Len(Lowered(text)) = Len(text)
<1> DEFINE n == Len(text)
           l == Lowered(text)
<1>1. n \in Nat /\ DOMAIN text = 1 .. n /\ \A k \in 1 .. n : text[k] \in Characters
  BY LenProperties
<1>2. l = [k \in 1 .. n |-> IF text[k] \in ToSet(UpperCase) THEN LowerOf[text[k]] ELSE text[k]]
  BY <1>1, TablesAssumption DEF Lowered
<1>3. NonAscii \notin ToSet(UpperCase)
  BY TablesAssumption
<1> HIDE DEF l, n
<1>4. ASSUME IsAscii(text) PROVE l \in Seq(Ascii) /\ Len(l) = n
  <2>1. \A k \in 1 .. n : text[k] # NonAscii
    BY <1>1, <1>4 DEF IsAscii, ToSet
  <2>2. ASSUME NEW k \in 1 .. n PROVE l[k] \in Ascii
    <3>1. CASE text[k] \in ToSet(UpperCase)
      <4>1. LowerOf[text[k]] \in ToSet(LowerCase)
        BY <3>1, TablesAssumption
      <4> QED BY <1>2, <3>1, <4>1 DEF Ascii
    <3>2. CASE text[k] \notin ToSet(UpperCase)
      <4>1. text[k] \in Ascii
        BY <1>1, <2>1, <3>2 DEF Characters
      <4> QED BY <1>2, <3>2, <4>1
    <3> QED BY <3>1, <3>2
  <2>3. l \in [1 .. n -> Ascii]
    BY <1>2, <2>2
  <2> QED BY ONLY <1>1, <2>3, FunctionIsSeq
<1>5. DOMAIN l = 1 .. n /\ \A k \in 1 .. n : text[k] = NonAscii => l[k] = NonAscii
  BY <1>2, <1>3
<1> QED BY <1>1, <1>4, <1>5 DEF l, n

LEMMA AsciiText ==
  ASSUME NEW text \in Seq(Ascii)
  PROVE  /\ text \in Seq(Characters) /\ IsAscii(text) /\ Lowered(text) = text
         /\ UpperText(text) \in Seq(Characters) /\ IsAscii(UpperText(text))
         /\ Lowered(UpperText(text)) = text
<1> DEFINE n == Len(text)
           u == UpperText(text)
<1>1. n \in Nat /\ DOMAIN text = 1 .. n /\ (\A k \in 1 .. n : text[k] \in Ascii)
      /\ text = [k \in 1 .. n |-> text[k]]
  BY LenProperties
<1>2. /\ DOMAIN LowerOf = ToSet(UpperCase) /\ DOMAIN UpperOf = ToSet(LowerCase)
      /\ ToSet(UpperCase) \cap (Ascii \cup {NonAscii}) = {}
      /\ NonAscii \notin Ascii
      /\ \A c \in ToSet(LowerCase) : UpperOf[c] \in ToSet(UpperCase) /\ LowerOf[UpperOf[c]] = c
  <2>1. NonAscii \notin Ascii
    <3>1. NonAscii \notin {" ", "-"}
      BY DEF NonAscii
    <3> QED BY <3>1, TablesAssumption DEF Ascii
  <2> QED BY <2>1, TablesAssumption, BodyAssumption
<1>3. Ascii \subseteq Characters
  BY DEF Characters
<1>4. text \in Seq(Characters)
  BY <1>3, SeqMonotonic
<1>5. IsAscii(text)
  BY <1>1, <1>2 DEF IsAscii, ToSet
<1>6. Lowered(text) = text
  <2>1. Lowered(text) = [k \in 1 .. n |-> IF text[k] \in DOMAIN LowerOf THEN LowerOf[text[k]] ELSE text[k]]
    BY <1>1 DEF Lowered
  <2>2. \A k \in 1 .. n : text[k] \notin DOMAIN LowerOf
    BY <1>1, <1>2
  <2> HIDE DEF n
  <2> QED BY ONLY <1>1, <2>1, <2>2
<1>7. u = [k \in 1 .. n |-> IF text[k] \in DOMAIN UpperOf THEN UpperOf[text[k]] ELSE text[k]]
  BY <1>1 DEF UpperText
<1> HIDE DEF u, n
<1>8. ASSUME NEW k \in 1 .. n
      PROVE  /\ u[k] \in Characters /\ u[k] # NonAscii
             /\ (IF u[k] \in DOMAIN LowerOf THEN LowerOf[u[k]] ELSE u[k]) = text[k]
  <2>1. CASE text[k] \in ToSet(LowerCase)
    <3>1. u[k] = UpperOf[text[k]]
      BY <1>2, <1>7, <2>1
    <3>2. u[k] \in ToSet(UpperCase) /\ LowerOf[u[k]] = text[k]
      BY <1>2, <2>1, <3>1
    <3> QED BY <1>2, <3>2 DEF Characters
  <2>2. CASE text[k] \notin ToSet(LowerCase)
    <3>1. u[k] = text[k] /\ u[k] \in Ascii
      BY <1>1, <1>2, <1>7, <2>2
    <3> QED BY <1>2, <1>3, <3>1
  <2> QED BY <2>1, <2>2
<1>9. DOMAIN u = 1 .. n
  BY <1>7
<1>10. u \in Seq(Characters)
  <2>1. u \in [1 .. n -> Characters]
    <3>1. u = [k \in 1 .. n |-> u[k]]
      BY <1>7
    <3> QED BY <1>8, <3>1
  <2> QED BY ONLY <1>1, <2>1, FunctionIsSeq
<1>11. IsAscii(u)
  BY <1>8, <1>9 DEF IsAscii, ToSet
<1>12. Lowered(u) = text
  <2>1. Lowered(u) = [k \in 1 .. n |-> IF u[k] \in DOMAIN LowerOf THEN LowerOf[u[k]] ELSE u[k]]
    BY <1>9 DEF Lowered
  <2> QED BY ONLY <1>1, <1>8, <2>1
<1> QED BY <1>4, <1>5, <1>6, <1>10, <1>11, <1>12 DEF u

LEMMA SeparatorKinds ==
  ASSUME NEW style \in {"Standard", "Uri"}
  PROVE  Separator(style) \in Ascii /\ Separator(style) \notin ToSet(LowerCase)
<1>1. Separator(style) \in {" ", "-"}
  BY DEF Separator
<1> QED BY <1>1, TablesAssumption DEF Ascii

(* The text of some bytes is read as these bytes, with their checksum.      *)
LEMMA OwnWordsRead ==
  ASSUME NEW bytes \in Seq(Byte), bytes # << >>, NEW style \in Styles,
         NEW text \in Seq(Characters), IsAscii(text), Lowered(text) = EncodeWords(bytes, style)
  PROVE  DecodeText(text, style) = StripChecksum(bytes)
<1>1. Lowered(text) \in Seq(Ascii) /\ Len(Lowered(text)) = Len(text)
  BY LoweredText
<1>2. CASE style = "Minimal"
  <2> DEFINE C == ToSet(LowerCase)
             w == Words(bytes, TRUE)
             t == FlattenSeq(w)
  <2>1. /\ Lowered(text) = t /\ w \in Seq(Seq(C)) /\ Len(w) = Len(bytes)
        /\ \A k \in 1 .. Len(w) : Len(w[k]) = 2
    BY <1>2, MinimalText
  <2> HIDE DEF w, C, t
  <2>2. Len(w) \in Nat
    <3>1. Len(bytes) \in Nat
      BY LenProperties
    <3> QED BY <2>1, <3>1
  <2>3. Len(t) = 2 * Len(w) /\ Pairs(t) = w
    BY <2>1, FlatPairs, PairsOfFlat DEF t
  <2>4. ~ (Len(text) % 2 # 0)
    <3> DEFINE m == Len(w)
    <3>1. Len(text) = 2 * m /\ m \in Nat
      BY <1>1, <2>1, <2>2, <2>3
    <3> HIDE DEF m
    <3> QED BY <3>1
  <2>5. DecodeText(text, style) = DecodeParts(w, TRUE)
    BY <1>2, <2>1, <2>3, <2>4 DEF DecodeText
  <2> QED BY <2>5, DecodePartsOwn DEF w
<1>3. CASE style # "Minimal"
  <2> DEFINE C == ToSet(LowerCase)
             sep == Separator(style)
             w == Words(bytes, FALSE)
             t == FlattenSeq(Spaced(w, sep))
  <2>1. style \in {"Standard", "Uri"}
    BY <1>3 DEF Styles
  <2>2. /\ Lowered(text) = t /\ w \in Seq(Seq(C)) /\ Len(w) = Len(bytes)
        /\ \A k \in 1 .. Len(w) : Len(w[k]) = 4
    BY <2>1, SpacedText
  <2>3. sep \in Ascii /\ sep \notin C /\ C \subseteq Ascii
    BY <2>1, SeparatorKinds DEF Ascii
  <2>4. w # << >>
    BY <2>2, EmptySeq
  <2> HIDE DEF w, C, sep
  <2>5. w \in Seq(Seq(Ascii))
    <3>1. Seq(C) \subseteq Seq(Ascii)
      BY <2>3, SeqMonotonic
    <3> DEFINE D == Seq(C)
               E == Seq(Ascii)
    <3>2. w \in Seq(D) /\ D \subseteq E
      BY <2>2, <3>1
    <3> HIDE DEF D, E
    <3>3. w \in Seq(E)
      BY <3>2, SeqMonotonic
    <3> QED BY <3>3 DEF E
  <2>6. t \in Seq(Ascii) /\ SpacedAs(t, w, sep, Len(w))
    BY <2>2, <2>3, <2>4, <2>5, FlatSpaced
  <2>7. \A k \in 1 .. Len(w), r \in 1 .. 4 : w[k][r] # sep
    <3> TAKE k \in 1 .. Len(w), r \in 1 .. 4
    <3>1. w[k] \in Seq(C) /\ Len(w[k]) = 4
      BY <2>2
    <3>2. w[k][r] \in C
      BY <3>1, ElementOfSeq
    <3> QED BY <2>3, <3>2
  <2> HIDE DEF t
  <2>8. SplitAt(t, sep) = w
    BY <2>2, <2>4, <2>5, <2>6, <2>7, SplitWords
  <2>9. DecodeText(text, style) = DecodeParts(w, FALSE)
    BY <1>3, <2>2, <2>8 DEF DecodeText, sep
  <2> QED BY <2>9, DecodePartsOwn DEF w
<1> QED BY <1>2, <1>3

(* No other text is read.                                                  *)
LEMMA OnlyWordsRead ==
  ASSUME NEW text \in Seq(Characters), NEW style \in Styles, DecodeText(text, style).error = "None"
  PROVE  \E bytes \in Seq(Byte) :
           /\ DecodeText(text, style) = StripChecksum(bytes)
           /\ Lowered(text) = EncodeWords(bytes, style)
<1>1. IsAscii(text)
  BY DEF DecodeText, Rejected
<1> DEFINE l == Lowered(text)
<1>2. l \in Seq(Ascii) /\ Len(l) = Len(text)
  BY <1>1, LoweredText
<1> HIDE DEF l
<1>3. CASE style = "Minimal"
  <2>1. DecodeText(text, style) = DecodeParts(Pairs(l), TRUE) /\ Len(text) % 2 = 0
    <3>1. CASE Len(text) % 2 # 0
      BY <1>1, <1>3, <3>1 DEF DecodeText, Rejected
    <3>2. CASE ~ (Len(text) % 2 # 0)
      BY <1>1, <1>3, <3>2 DEF DecodeText, l
    <3> QED BY <3>1, <3>2
  <2>2. Pairs(l) \in Seq(Seq(Ascii)) /\ FlattenSeq(Pairs(l)) = l
    BY <1>2, <2>1, PairsProperties, FlatOfPairs
  <2>3. PICK bytes \in Seq(Byte) :
          Pairs(l) = Words(bytes, TRUE) /\ DecodeParts(Pairs(l), TRUE) = StripChecksum(bytes)
    BY <2>1, <2>2, DecodePartsAccepts
  <2>4. l = EncodeWords(bytes, style)
    BY <1>3, <2>2, <2>3, MinimalText
  <2> QED BY <2>1, <2>3, <2>4 DEF l
<1>4. CASE style # "Minimal"
  <2> DEFINE sep == Separator(style)
             p == SplitAt(l, sep)
  <2>1. style \in {"Standard", "Uri"}
    BY <1>4 DEF Styles
  <2>2. sep \in Ascii
    BY <2>1, SeparatorKinds
  <2>3. DecodeText(text, style) = DecodeParts(p, FALSE)
    BY <1>1, <1>4 DEF DecodeText, l
  <2> HIDE DEF sep
  <2>4. p \in Seq(Seq(Ascii)) /\ Joined(p, sep) = l
    BY <1>2, <2>2, SplitJoins
  <2> HIDE DEF p
  <2>5. PICK bytes \in Seq(Byte) :
          p = Words(bytes, FALSE) /\ DecodeParts(p, FALSE) = StripChecksum(bytes)
    BY <2>3, <2>4, DecodePartsAccepts
  <2>6. l = EncodeWords(bytes, style)
    BY <2>1, <2>4, <2>5, SpacedText DEF Joined, sep
  <2> QED BY <2>3, <2>5, <2>6 DEF l
<1> QED BY <1>3, <1>4

(***************************************************************************)
(* A text of data is read as the data, in either case.                     *)
(***************************************************************************)
LEMMA OwnTextRead ==
  ASSUME NEW data \in Seq(Byte), Checksum(data) \in [1 .. 4 -> Byte], NEW style \in Styles,
         NEW text \in Seq(Characters), IsAscii(text), Lowered(text) = EncodeText(data, style)
  PROVE  DecodeText(text, style) = [error |-> "None", data |-> data]
<1> DEFINE bytes == data \o Checksum(data)
<1>1. /\ bytes \in Seq(Byte) /\ Len(bytes) = Len(data) + 4 /\ Len(data) \in Nat
      /\ StripChecksum(bytes) = [error |-> "None", data |-> data]
  BY StripOwn
<1>2. Lowered(text) = EncodeWords(bytes, style)
  BY DEF EncodeText
<1> HIDE DEF bytes
<1>3. bytes # << >>
  BY <1>1, EmptySeq
<1> QED BY <1>1, <1>2, <1>3, OwnWordsRead

(* What is read as some data is the text of the data.                       *)
LEMMA OnlyOwnTextRead ==
  ASSUME NEW text \in Seq(Characters), NEW style \in Styles, DecodeText(text, style).error = "None"
  PROVE  Lowered(text) = EncodeText(DecodeText(text, style).data, style)
<1>1. PICK bytes \in Seq(Byte) :
        DecodeText(text, style) = StripChecksum(bytes) /\ Lowered(text) = EncodeWords(bytes, style)
  BY OnlyWordsRead
<1>2. bytes = StripChecksum(bytes).data \o Checksum(StripChecksum(bytes).data)
  BY <1>1, StripAccepts
<1> QED BY <1>1, <1>2 DEF EncodeText

(* A text of words has letters and separators alone.                        *)
LEMMA OwnTextAscii ==
  ASSUME NEW bytes \in Seq(Byte), NEW style \in Styles, bytes # << >>
  PROVE  EncodeWords(bytes, style) \in Seq(Ascii) /\ EncodeWords(bytes, style) # << >>
<1> DEFINE C == ToSet(LowerCase)
<1>1. C \subseteq Ascii
  BY DEF Ascii
<1>n. Len(bytes) \in Nat \ {0}
  BY EmptySeq
<1>2. CASE style = "Minimal"
  <2> DEFINE w == Words(bytes, TRUE)
  <2>1. /\ EncodeWords(bytes, style) = FlattenSeq(w) /\ w \in Seq(Seq(C)) /\ Len(w) = Len(bytes)
        /\ \A k \in 1 .. Len(w) : Len(w[k]) = 2
    BY <1>2, MinimalText
  <2> HIDE DEF w, C
  <2> DEFINE t == FlattenSeq(w)
  <2>2. t \in Seq(C) /\ Len(t) = 2 * Len(w)
    BY <2>1, FlatPairs
  <2> HIDE DEF t
  <2>3. t # << >>
    BY <1>n, <2>1, <2>2, EmptySeq
  <2> QED BY <1>1, <2>1, <2>2, <2>3, SeqMonotonic DEF t
<1>3. CASE style # "Minimal"
  <2> DEFINE w == Words(bytes, FALSE)
             sep == Separator(style)
  <2>1. style \in {"Standard", "Uri"}
    BY <1>3 DEF Styles
  <2>2. /\ EncodeWords(bytes, style) = FlattenSeq(Spaced(w, sep)) /\ w \in Seq(Seq(C))
        /\ Len(w) = Len(bytes) /\ \A k \in 1 .. Len(w) : Len(w[k]) = 4
    BY <2>1, SpacedText
  <2>3. sep \in Ascii
    BY <2>1, SeparatorKinds
  <2>4. w # << >>
    BY <2>2, EmptySeq
  <2> HIDE DEF w, sep, C
  <2>5. w \in Seq(Seq(Ascii))
    <3>1. Seq(C) \subseteq Seq(Ascii)
      BY <1>1, SeqMonotonic
    <3> DEFINE D == Seq(C)
               E == Seq(Ascii)
    <3>2. w \in Seq(D) /\ D \subseteq E
      BY <2>2, <3>1
    <3> HIDE DEF D, E
    <3>3. w \in Seq(E)
      BY <3>2, SeqMonotonic
    <3> QED BY <3>3 DEF E
  <2> DEFINE t == FlattenSeq(Spaced(w, sep))
  <2>6. t \in Seq(Ascii) /\ SpacedAs(t, w, sep, Len(w))
    BY <2>2, <2>3, <2>4, <2>5, FlatSpaced
  <2> HIDE DEF t
  <2>7. t # << >>
    BY <1>n, <2>2, <2>6, EmptySeq DEF SpacedAs
  <2> QED BY <2>2, <2>6, <2>7 DEF t
<1> QED BY <1>2, <1>3

LEMMA AbbreviationTypes ==
  ASSUME NEW b \in Byte
  PROVE  /\ Abbreviations(WordAt[b]) =
              {WordAt[b], MinimalAt[b], SubSeq(WordAt[b], 1, 3), SubSeq(WordAt[b], 2, 4)}
         /\ \A s \in Abbreviations(WordAt[b]) : s \in Seq(ToSet(LowerCase))
         /\ Len(WordAt[b]) = 4 /\ Len(MinimalAt[b]) = 2
         /\ Len(SubSeq(WordAt[b], 1, 3)) = 3 /\ Len(SubSeq(WordAt[b], 2, 4)) = 3
<1> DEFINE w == WordAt[b]
           C == ToSet(LowerCase)
           p == SubSeq(w, 1, 3)
           q == SubSeq(w, 2, 4)
<1>1. w \in Seq(C) /\ Len(w) = 4 /\ MinimalAt[b] \in Seq(C) /\ Len(MinimalAt[b]) = 2
  BY WordTypes
<1>2. MinimalAt[b] = <<w[1], w[4]>>
  BY DEF MinimalAt
<1> HIDE DEF w, C
<1>3. \A k \in 1 .. 4 : w[k] \in C
  BY <1>1, ElementOfSeq
<1>4. p \in Seq(C) /\ Len(p) = 3
  <2>1. 1 \in Int /\ 3 \in Int /\ (\A k \in 1 .. 3 : w[k] \in C) /\ 1 <= 3 /\ 3 - 1 + 1 = 3
    BY <1>3
  <2> QED BY <2>1, SubSeqProperties
<1>5. q \in Seq(C) /\ Len(q) = 3
  <2>1. 2 \in Int /\ 4 \in Int /\ (\A k \in 2 .. 4 : w[k] \in C) /\ 2 <= 4 /\ 4 - 2 + 1 = 3
    BY <1>3
  <2> QED BY <2>1, SubSeqProperties
<1>6. Abbreviations(w) = {w, MinimalAt[b], p, q}
  BY <1>2 DEF Abbreviations
<1> HIDE DEF p, q
<1>7. \A s \in Abbreviations(w) : s \in Seq(C)
  BY <1>1, <1>4, <1>5, <1>6
<1> QED BY <1>1, <1>4, <1>5, <1>6, <1>7 DEF w, C, p, q

LEMMA TokenMeans ==
  ASSUME NEW token \in Seq(Characters),
         NEW meant, meant = {b \in Byte : Lowered(token) \in Abbreviations(WordAt[b])}
  PROVE  CanonicalizeByteword(token) = IF Cardinality(meant) = 1 THEN {WordAt[b] : b \in meant} ELSE {}
<1> DEFINE l == Lowered(token)
           n == Len(token)
           byte == IF ~IsAscii(token) THEN {}
                   ELSE IF n = 3 THEN CanonicalizeThreeLetter(l)
                   ELSE IF n \in {2, 4} THEN EncodedByte(l, n = 2)
                   ELSE {}
<1>1. CanonicalizeByteword(token) = {WordAt[b] : b \in byte}
  BY DEF CanonicalizeByteword
<1>2. /\ DOMAIN l = 1 .. n /\ n \in Nat /\ \A k \in 1 .. n : token[k] = NonAscii => l[k] = NonAscii
      /\ IsAscii(token) => l \in Seq(Ascii) /\ Len(l) = n
  BY LoweredText
<1>3. meant = {b \in Byte : l \in Abbreviations(WordAt[b])}
  OBVIOUS
<1> HIDE DEF l
<1>4. SUFFICES byte = IF Cardinality(meant) = 1 THEN meant ELSE {}
  <2>1. CASE Cardinality(meant) = 1
    BY <1>1, <2>1
  <2>2. CASE Cardinality(meant) # 1
    BY <1>1, <2>2
  <2> QED BY <2>1, <2>2
<1>5. ASSUME meant = {} PROVE Cardinality(meant) # 1
  <2>1. Cardinality(meant) = 0
    BY <1>5, FS_EmptySet
  <2> QED BY <2>1
<1>6. ASSUME \A b, c \in meant : b = c PROVE meant = IF Cardinality(meant) = 1 THEN meant ELSE {}
  <2>1. CASE meant = {}
    BY <1>5, <2>1
  <2>2. CASE meant # {}
    <3>1. PICK b \in meant : TRUE
      BY <2>2
    <3>2. meant = {b}
      BY <1>6, <3>1
    <3>3. Cardinality(meant) = 1
      BY <3>2, FS_Singleton
    <3> QED BY <3>3
  <2> QED BY <2>1, <2>2
<1>7. CASE ~IsAscii(token)
  <2>1. meant = {}
    <3>1. PICK k \in 1 .. n : token[k] = NonAscii
      <4>1. DOMAIN token = 1 .. n
        BY LenProperties
      <4> QED BY <1>7, <4>1 DEF IsAscii, ToSet
    <3>2. k \in DOMAIN l /\ l[k] = NonAscii
      BY <1>2, <3>1
    <3>3. NonAscii \notin ToSet(LowerCase)
      BY TablesAssumption
    <3>4. l \notin Seq(ToSet(LowerCase))
      <4>1. SUFFICES ASSUME l \in Seq(ToSet(LowerCase)) PROVE FALSE
        OBVIOUS
      <4>2. l[k] \in ToSet(LowerCase)
        BY <3>2, <4>1, LenProperties, ElementOfSeq
      <4> QED BY <3>2, <3>3, <4>2
    <3> QED BY <1>3, <3>4, AbbreviationTypes
  <2> QED BY <1>5, <1>7, <2>1
<1>8. CASE IsAscii(token)
  <2>1. l \in Seq(Ascii) /\ Len(l) = n
    BY <1>2, <1>8
  <2>2. CASE n = 4
    <3>1. meant = {b \in Byte : l = Expected(b, FALSE)}
      BY <1>3, <2>1, <2>2, AbbreviationTypes DEF Expected
    <3>2. byte = EncodedByte(l, FALSE)
      <4>1. n # 3 /\ n \in {2, 4} /\ ~ (n = 2)
        BY <2>2
      <4>2. (n = 2) = FALSE
        BY <4>1
      <4> QED BY <1>8, <4>1, <4>2
    <3>3. FALSE \in BOOLEAN
      OBVIOUS
    <3>4. byte = meant /\ \A b, c \in meant : b = c
      BY <2>1, <3>1, <3>2, <3>3, EncodedByteExact
    <3> QED BY <1>6, <3>4
  <2>3. CASE n = 2
    <3>1. meant = {b \in Byte : l = Expected(b, TRUE)}
      BY <1>3, <2>1, <2>3, AbbreviationTypes DEF Expected
    <3>2. byte = EncodedByte(l, TRUE)
      <4>1. n # 3 /\ n \in {2, 4}
        BY <2>3
      <4>2. (n = 2) = TRUE
        BY <2>3
      <4> QED BY <1>8, <4>1, <4>2
    <3>3. TRUE \in BOOLEAN
      OBVIOUS
    <3>4. byte = meant /\ \A b, c \in meant : b = c
      BY <2>1, <3>1, <3>2, <3>3, EncodedByteExact
    <3> QED BY <1>6, <3>4
  <2>4. CASE n = 3
    <3>1. meant = WordsWith(l)
      BY <1>3, <2>1, <2>4, AbbreviationTypes DEF WordsWith
    <3>2. byte = CanonicalizeThreeLetter(l)
      BY <1>8, <2>4
    <3> QED BY <3>1, <3>2 DEF CanonicalizeThreeLetter
  <2>5. CASE n \notin {2, 3, 4}
    <3>1. meant = {}
      <4>1. ASSUME NEW b \in Byte, l \in Abbreviations(WordAt[b]) PROVE FALSE
        <5>1. Len(l) \in {2, 3, 4}
          BY <4>1, AbbreviationTypes
        <5> QED BY <2>1, <2>5, <5>1
      <4> QED BY <1>3, <4>1
    <3> QED BY <1>5, <2>5, <3>1
  <2> QED BY <2>2, <2>3, <2>4, <2>5
<1> QED BY <1>7, <1>8

(* to_be_bytes of a CRC-32.                                                *)
FourBytes == \A data \in Seq(Byte) : Checksum(data) \in [1 .. 4 -> Byte]

LEMMA PartBytes ==
  ASSUME NEW p, IsPart(p)
  PROVE  ToCbor(p) \in Seq(Byte)
<1> DEFINE head == EncodePart(p).head
           zeros == [k \in 1 .. p.data.len |-> 0]
           a == EncodeHead(Unsigned, p.seq)
           b == EncodeHead(Unsigned, p.count)
           c == EncodeHead(Unsigned, p.mlen)
           d == EncodeHead(Unsigned, p.crc)
           e == EncodeHead(ByteString, p.data.len)
<1>1. head = Opening \o a \o b \o c \o d \o e
  BY DEF EncodePart, Opening
<1>2. /\ IsU32(p.seq) /\ IsU32(p.count) /\ IsU32(p.mlen) /\ IsU32(p.crc) /\ IsU32(p.data.len)
  BY DEF IsPart
<1>3. Unsigned \in Heading /\ ByteString \in Heading
  BY DEF Heading
<1>4. /\ a \in Seq(0 .. 255) /\ b \in Seq(0 .. 255) /\ c \in Seq(0 .. 255)
      /\ d \in Seq(0 .. 255) /\ e \in Seq(0 .. 255)
  BY <1>2, <1>3, HeadLength
<1> HIDE DEF a, b, c, d, e
<1>5. head \in Seq(Byte)
  BY <1>1, <1>4, LaidConcat DEF Byte
<1>6. zeros \in Seq(Byte)
  <2> DEFINE n == p.data.len
  <2>1. n \in Nat
    BY <1>2 DEF IsU32
  <2> HIDE DEF n
  <2>2. [k \in 1 .. n |-> 0] \in [1 .. n -> Byte]
    BY DEF Byte
  <2>3. [k \in 1 .. n |-> 0] \in Seq(Byte)
    BY <2>1, <2>2, FunctionIsSeq
  <2> QED BY <2>3 DEF n
<1> HIDE DEF head, zeros
<1>7. head \o zeros \in Seq(Byte)
  BY <1>5, <1>6, ConcatProperties
<1> QED BY <1>7 DEF ToCbor, head, zeros

LEMMA DataText ==
  ASSUME FourBytes, NEW data \in Seq(Byte), NEW style \in Styles
  PROVE  EncodeText(data, style) \in Seq(Ascii) /\ EncodeText(data, style) # << >>
<1> DEFINE bytes == data \o Checksum(data)
<1>1. bytes \in Seq(Byte) /\ Len(bytes) = Len(data) + 4 /\ Len(data) \in Nat
  BY StripOwn DEF FourBytes
<1> HIDE DEF bytes
<1>2. bytes # << >>
  BY <1>1, EmptySeq
<1>3. EncodeWords(bytes, style) \in Seq(Ascii) /\ EncodeWords(bytes, style) # << >>
  BY <1>1, <1>2, OwnTextAscii
<1> QED BY <1>3 DEF EncodeText, bytes

LEMMA TextHeard ==
  ASSUME FourBytes, NEW made, NEW text \in Seq(Characters), NEW style \in Styles, Hear(made, text, style),
         \A data \in made : data \in Seq(Byte) /\ IsAscii(text) /\ Lowered(text) = EncodeText(data, style)
  PROVE  OneMeaning'
<1>1. /\ heard'.made = made /\ heard'.text = text /\ heard'.style = style
      /\ heard'.result = DecodeText(text, style)
  BY DEF Hear
<1>2. style # "Token"
  BY DEF Styles
<1>3. DecodeText(text, style).error = "None" =>
        Lowered(text) = EncodeText(DecodeText(text, style).data, style)
  BY OnlyOwnTextRead
<1>4. \A data \in made : DecodeText(text, style) = [error |-> "None", data |-> data]
  BY OwnTextRead DEF FourBytes
<1>5. TextsExact'
  BY <1>1, <1>3, <1>4 DEF TextsExact
<1>6. TokensExact'
  BY <1>1, <1>2 DEF TokensExact
<1> QED BY <1>5, <1>6 DEF OneMeaning

(* An altered text of words is a text of characters.                        *)
LEMMA AlteredText ==
  ASSUME NEW text \in Seq(Characters), text # << >>, NEW t \in Altered(text)
  PROVE  t \in Seq(Characters)
<1>1. CASE t = text
  BY <1>1
<1>2. CASE t = Front(text)
  <2>1. Len(text) \in Nat /\ \A k \in 1 .. Len(text) - 1 : text[k] \in Characters
    BY LenProperties, ElementOfSeq
  <2>2. 1 \in Int /\ Len(text) - 1 \in Int
    BY <2>1
  <2>3. SubSeq(text, 1, Len(text) - 1) \in Seq(Characters)
    BY <2>1, <2>2, SubSeqProperties
  <2> QED BY <1>2, <2>3 DEF Front
<1>3. CASE \E c \in Alterations : t = Append(text, c)
  BY <1>3, BodyAssumption, AppendProperties
<1>4. CASE \E k \in DOMAIN text, c \in Alterations : t = [text EXCEPT ![k] = c]
  <2>1. PICK k \in DOMAIN text, c \in Alterations : t = [text EXCEPT ![k] = c]
    BY <1>4
  <2>2. k \in 1 .. Len(text) /\ c \in Characters
    BY LenProperties, BodyAssumption
  <2> QED BY <2>1, <2>2, ExceptSeq
<1> QED BY <1>1, <1>2, <1>3, <1>4 DEF Altered

BodyInv == WireInv /\ OneMeaning

LEMMA BodyStep == FourBytes => (BodyInv /\ [BodyNext]_bodyVars => BodyInv')
<1> SUFFICES ASSUME FourBytes, WireInv, OneMeaning, [BodyNext]_bodyVars PROVE WireInv' /\ OneMeaning'
  BY DEF BodyInv
<1>1. ASSUME heard' = heard PROVE OneMeaning'
  BY <1>1 DEF OneMeaning, TextsExact, TokensExact
<1>2. ASSUME UNCHANGED wireVars PROVE WireInv'
  BY <1>2, WireNextInv
<1>3. CASE Forget
  <2>1. heard'.style = "None"
    BY <1>3 DEF Forget, Silence
  <2>2. OneMeaning'
    BY <2>1 DEF OneMeaning, TextsExact, TokensExact, Styles
  <2> QED BY <1>2, <1>3, <2>2 DEF Forget
<1>4. CASE ReceiveBody
  <2>1. PICK p \in emitted : \E t \in {EncodeText(ToCbor(p), "Minimal"), UpperText(EncodeText(ToCbor(p), "Minimal"))} :
                               Hear({ToCbor(p)}, t, "Minimal")
    BY <1>4 DEF ReceiveBody
  <2> DEFINE data == ToCbor(p)
             text == EncodeText(data, "Minimal")
  <2>2. PICK t \in {text, UpperText(text)} : Hear({data}, t, "Minimal")
    BY <2>1
  <2>3. data \in Seq(Byte)
    <3>1. IsPart(p)
      BY EmittedIsPart DEF WireInv
    <3> QED BY <3>1, PartBytes
  <2> HIDE DEF data
  <2>4. "Minimal" \in Styles
    BY DEF Styles
  <2>5. text \in Seq(Ascii)
    BY <2>3, <2>4, DataText
  <2> HIDE DEF text
  <2>6. t \in Seq(Characters) /\ IsAscii(t) /\ Lowered(t) = text
    BY <2>2, <2>5, AsciiText
  <2>7. OneMeaning'
    BY <2>2, <2>3, <2>4, <2>6, TextHeard DEF text
  <2> QED BY <1>2, <1>4, <2>7 DEF ReceiveBody
<1>5. CASE DecodeOwn
  <2>1. PICK data \in Payloads, style \in Styles : Hear({data}, EncodeText(data, style), style)
    BY <1>5 DEF DecodeOwn
  <2>2. data \in Seq(Byte)
    BY BodyAssumption
  <2> DEFINE text == EncodeText(data, style)
  <2>3. text \in Seq(Ascii)
    BY <2>2, DataText
  <2> HIDE DEF text
  <2>4. text \in Seq(Characters) /\ IsAscii(text) /\ Lowered(text) = text
    BY <2>3, AsciiText
  <2>5. OneMeaning'
    BY <2>1, <2>2, <2>4, TextHeard DEF text
  <2> QED BY <1>2, <1>5, <2>5 DEF DecodeOwn
<1>6. CASE DecodeAltered
  <2>1. PICK data \in Payloads, style \in Styles :
          \E text \in Altered(EncodeText(data, style)), s \in Styles : Hear({}, text, s)
    BY <1>6 DEF DecodeAltered
  <2>2. PICK text \in Altered(EncodeText(data, style)), s \in Styles : Hear({}, text, s)
    BY <2>1
  <2> DEFINE own == EncodeText(data, style)
  <2>3. data \in Seq(Byte)
    BY BodyAssumption
  <2>4. own \in Seq(Ascii)
    BY <2>3, DataText
  <2>5. own # << >>
    BY <2>3, DataText
  <2> HIDE DEF own
  <2>6. own \in Seq(Characters)
    BY <2>4, AsciiText
  <2>7. text \in Seq(Characters)
    BY <2>2, <2>5, <2>6, AlteredText DEF own
  <2>8. OneMeaning'
    BY <2>2, <2>7, TextHeard
  <2> QED BY <1>2, <1>6, <2>8 DEF DecodeAltered
<1>7. CASE Canonicalize
  <2>1. PICK token \in Tokens :
          heard' = [made |-> {}, text |-> token, style |-> "Token",
                    result |-> Rejected("None"), words |-> CanonicalizeByteword(token)]
    BY <1>7 DEF Canonicalize
  <2>2. token \in Seq(Characters)
    BY BodyAssumption
  <2> DEFINE meant == {b \in Byte : Lowered(token) \in Abbreviations(WordAt[b])}
  <2>3. CanonicalizeByteword(token) = IF Cardinality(meant) = 1 THEN {WordAt[b] : b \in meant} ELSE {}
    <3> DEFINE m == meant
    <3>1. m = {b \in Byte : Lowered(token) \in Abbreviations(WordAt[b])}
      OBVIOUS
    <3> HIDE DEF m
    <3>2. CanonicalizeByteword(token) = IF Cardinality(m) = 1 THEN {WordAt[b] : b \in m} ELSE {}
      BY <2>2, <3>1, TokenMeans
    <3> QED BY <3>2 DEF m
  <2>4. heard'.text = token /\ heard'.style = "Token" /\ heard'.words = CanonicalizeByteword(token)
    BY <2>1
  <2>5. TokensExact'
    BY <2>3, <2>4 DEF TokensExact
  <2>6. TextsExact'
    BY <2>4 DEF TextsExact, Styles
  <2> QED BY <1>2, <1>7, <2>5, <2>6 DEF Canonicalize, OneMeaning
<1>8. CASE WireNext /\ UNCHANGED heard
  BY <1>1, <1>8, WireNextInv
<1>9. CASE UNCHANGED bodyVars
  <2>1. UNCHANGED wireVars /\ heard' = heard
    BY <1>9 DEF bodyVars
  <2> QED BY <1>1, <1>2, <2>1
<1> QED BY <1>3, <1>4, <1>5, <1>6, <1>7, <1>8, <1>9 DEF BodyNext

(* A text is read as data only if it is the text of the data, and a token   *)
(* as a word only if it stands for no other; that a checksum is four bytes  *)
(* is all that is asked of CRC-32.                                         *)
THEOREM OneMeaningHolds == FourBytes => (BodySpec => []OneMeaning)
<1> SUFFICES ASSUME FourBytes PROVE BodySpec => []OneMeaning
  OBVIOUS
<1>1. BodyInit => BodyInv
  <2> SUFFICES ASSUME BodyInit PROVE BodyInv
    OBVIOUS
  <2>1. heard.style = "None" /\ WireInit
    BY DEF BodyInit, Silence
  <2>2. OneMeaning
    BY <2>1 DEF OneMeaning, TextsExact, TokensExact, Styles
  <2> QED BY <2>1, <2>2, WireInitInv DEF BodyInv
<1>2. BodyInv /\ [BodyNext]_bodyVars => BodyInv'
  BY BodyStep
<1>3. BodyInv => OneMeaning
  BY DEF BodyInv
<1> QED BY <1>1, <1>2, <1>3, PTL DEF BodySpec

(* Reading texts does not disturb the encoder and the codec.                *)
THEOREM BodyRefinesWire == BodySpec => WireSpec
<1>1. BodyInit => WireInit
  BY DEF BodyInit
<1>2. [BodyNext]_bodyVars => [WireNext]_wireVars
  BY DEF BodyNext, bodyVars, Forget, ReceiveBody, DecodeOwn, DecodeAltered, Canonicalize
<1> QED BY <1>1, <1>2, PTL DEF BodySpec, WireSpec
=============================================================================
