------------------------------- MODULE Sampler -------------------------------
(***************************************************************************)
(* How the fragments of a mixed part are chosen: choose_fragments in        *)
(* crates/bcur/src/fountain/mod.rs, with the helpers of rng/xoshiro.rs and  *)
(* the alias table of rng/sampler.rs.                                       *)
(*                                                                         *)
(* A probability is a number of units, One of them being 1.0, and every     *)
(* floating-point operation on the table may be off by Eps units.  A random *)
(* double is m / Precision, and its product with a count is rounded to a    *)
(* significand below Precision, as IEEE arithmetic does with 2^53.          *)
(***************************************************************************)
EXTENDS FountainParts

CONSTANTS
  WeightVectors,  \* the weights a table is made of
  One,            \* units of probability in 1.0
  Eps,            \* largest rounding error of one operation, in units
  Precision,      \* the number of significands of a double
  Powers          \* the powers of two

VARIABLES
  phase,          \* "weights", "pair", "draw", "shuffle", "done", or "panic"
  given,          \* the weights the table is made of
  weights,        \* what is left of them, by index from 0
  small, large,   \* the worklists of indexes below 1.0 and of the others
  probs,          \* index -> probability of keeping it
  aliases,        \* index -> what is taken in its place
  degree,         \* the number of fragments to mix
  items,          \* what is left to be shuffled
  shuffled        \* the indexes in the order they were removed from items

table == <<given, weights, small, large, probs, aliases>>
vars == <<phase, table, degree, items, shuffled>>

(* x lies where neighbouring doubles are a unit apart.                     *)
IsUnit(x, unit) ==
  /\ x < unit * Precision
  /\ unit = 1 \/ unit * Precision <= 2 * x

ASSUME DoubleAssumption ==
  /\ Precision \in Nat \ {0} /\ Powers \subseteq Nat \ {0}
  /\ \A x \in 0 .. Precision * Precision : \E unit \in Powers : IsUnit(x, unit)

Total(w) == SumFunction(w)

ASSUME SamplerAssumption ==
  /\ One \in Nat \ {0} /\ Eps \in Nat \ {0}
  /\ \A w \in WeightVectors : w \in Seq(Nat) /\ Len(w) \in 1 .. Precision /\ Total(w) > 0
-----------------------------------------------------------------------------
(* Floating point.                                                         *)

(* Rounding does not change a sign.                                        *)
Rounded(x) == {y \in x - Eps .. x + Eps : x >= 0 => y >= 0}

(* To the nearest double, ties to even.                                    *)
Nearest(x) ==
  LET unit == CHOOSE u \in Powers : IsUnit(x, u)
      q == x \div unit
      up == 2 * (x % unit) > unit \/ (2 * (x % unit) = unit /\ q % 2 = 1)
  IN  unit * (IF up THEN q + 1 ELSE q)

Doubles == 0 .. Precision - 1

(* (m / Precision * n) as u64                                              *)
Scaled(n, m) == Nearest(n * m) \div Precision
-----------------------------------------------------------------------------
(* Weighted::new                                                           *)

Indices(w) == 0 .. Len(w) - 1

(* count * w / sum, with the error of each entry.                          *)
Normal(w, error) ==
  [j \in Indices(w) |-> (Len(w) * One * w[j + 1]) \div Total(w) + error[j]]

(* A set of indexes, from the largest down.                                *)
Falling(S) == {s \in [1 .. Cardinality(S) -> S] : \A i, k \in DOMAIN s : i < k => s[i] > s[k]}

Init ==
  /\ phase = "weights"
  /\ given = << >> /\ weights = << >> /\ small = << >> /\ large = << >>
  /\ probs = << >> /\ aliases = << >>
  /\ degree = 0 /\ items = << >> /\ shuffled = << >>

Normalise(w) ==
  /\ phase = "weights"
  /\ phase' = "pair"
  /\ given' = w
  /\ \E error \in [Indices(w) -> 0 .. Eps] : weights' = Normal(w, error)
  /\ small' \in Falling({j \in Indices(w) : weights'[j] < One})
  /\ large' \in Falling({j \in Indices(w) : weights'[j] >= One})
  /\ probs' = [j \in Indices(w) |-> 0]
  /\ aliases' = [j \in Indices(w) |-> 0]
  /\ UNCHANGED <<degree, items, shuffled>>

FaultyPairUp ==                         \* reads both tops and leaves them there
  /\ phase = "pair" /\ small # << >> /\ large # << >>
  /\ probs' = [probs EXCEPT ![Last(small)] = weights[Last(small)]]
  /\ aliases' = [aliases EXCEPT ![Last(small)] = Last(large)]
  /\ UNCHANGED <<phase, given, weights, small, large, degree, items, shuffled>>

(* A small one is topped up by a large one, which goes back to a worklist. *)
PairUp ==
  /\ phase = "pair" /\ small # << >> /\ large # << >>
  /\ LET a == Last(small)  g == Last(large)
     IN  /\ probs' = [probs EXCEPT ![a] = weights[a]]
         /\ aliases' = [aliases EXCEPT ![a] = g]
         /\ weights' \in {[weights EXCEPT ![g] = x] : x \in Rounded(weights[g] + weights[a] - One)}
         /\ IF weights'[g] < One
            THEN small' = Append(Front(small), g) /\ large' = Front(large)
            ELSE small' = Front(small) /\ UNCHANGED large
  /\ UNCHANGED <<phase, given, degree, items, shuffled>>

FaultyLeftOver ==                       \* drops the small ones
  /\ phase = "pair"
  /\ \/ /\ small = << >> /\ large # << >>
        /\ probs' = [probs EXCEPT ![Last(large)] = One]
        /\ large' = Front(large)
        /\ UNCHANGED small
     \/ /\ large = << >> /\ small # << >>
        /\ small' = << >>
        /\ UNCHANGED <<probs, large>>
  /\ UNCHANGED <<phase, given, weights, aliases, degree, items, shuffled>>

(* Only rounding leaves small ones over.                                   *)
LeftOver ==
  /\ phase = "pair"
  /\ \/ /\ small = << >> /\ large # << >>
        /\ probs' = [probs EXCEPT ![Last(large)] = One]
        /\ large' = Front(large)
        /\ UNCHANGED small
     \/ /\ large = << >> /\ small # << >>
        /\ probs' = [probs EXCEPT ![Last(small)] = One]
        /\ small' = Front(small)
        /\ UNCHANGED large
  /\ UNCHANGED <<phase, given, weights, aliases, degree, items, shuffled>>

TableMade ==
  /\ phase = "pair" /\ small = << >> /\ large = << >>
  /\ phase' = "draw"
  /\ UNCHANGED <<table, degree, items, shuffled>>
-----------------------------------------------------------------------------
(* Weighted::next, from choose_degree, which drops the table.              *)

Drop ==
  /\ weights' = << >> /\ small' = << >> /\ large' = << >> /\ probs' = << >> /\ aliases' = << >>
  /\ UNCHANGED given

(* probs[i] is indexed without a check.                                    *)
Draw(m, r) ==
  /\ phase = "draw"
  /\ LET n == Len(given)  i == Scaled(n, m)
     IN  IF i < n
         THEN /\ degree' = 1 + (IF r < probs[i] THEN i ELSE aliases[i])
              /\ items' = [k \in 1 .. n |-> k - 1]
              /\ phase' = "shuffle"
         ELSE phase' = "panic" /\ UNCHANGED <<degree, items>>
  /\ Drop
  /\ UNCHANGED shuffled
-----------------------------------------------------------------------------
(* shuffled, and the end of choose_fragments.                              *)

FaultyPick(m) ==                        \* swaps nothing, removes the first
  /\ phase = "shuffle" /\ items # << >>
  /\ shuffled' = Append(shuffled, items[Scaled(Len(items), m) + 1])
  /\ items' = Tail(items)
  /\ UNCHANGED <<phase, table, degree>>

Pick(m) ==
  /\ phase = "shuffle" /\ items # << >>
  /\ LET raw == Scaled(Len(items), m)
         index == 1 + (IF raw < Len(items) THEN raw ELSE Len(items) - 1)
     IN  /\ shuffled' = Append(shuffled, items[index])
         /\ items' = RemoveAt(items, index)
  /\ UNCHANGED <<phase, table, degree>>

Truncate ==
  /\ phase = "shuffle" /\ items = << >>
  /\ shuffled' = SubSeq(shuffled, 1, IF degree < Len(shuffled) THEN degree ELSE Len(shuffled))
  /\ phase' = "done"
  /\ UNCHANGED <<table, degree, items>>

(* The vector is handed over, and the next mixed part is made.             *)
Again ==
  /\ phase = "done"
  /\ phase' = "weights" /\ given' = << >> /\ degree' = 0 /\ shuffled' = << >>
  /\ UNCHANGED <<weights, small, large, probs, aliases, items>>

Compute ==
  \/ PairUp \/ LeftOver \/ TableMade \/ Truncate
  \/ \E m \in Doubles : Pick(m) \/ \E r \in 0 .. One - 1 : Draw(m, r)

Next ==
  \/ \E w \in WeightVectors : Normalise(w)
  \/ Compute
  \/ Again

(* choose_fragments runs to its end.                                       *)
Spec == Init /\ [][Next]_vars /\ WF_vars(Compute)
-----------------------------------------------------------------------------
(* Properties.                                                             *)

Mass(j) ==
  LET spare == [i \in DOMAIN probs |-> One - probs[i]]
  IN  probs[j] + SumFunctionOnSet(spare, {i \in DOMAIN probs : aliases[i] = j})

Distance(x, y) == IF x < y THEN y - x ELSE x - y

(* The table gives every index its own share of the draws, and no index is *)
(* left out, whatever rounding has left in one of the worklists: the error *)
(* is at most one of each entry's own and one of each pairing.             *)
MassKept ==
  phase = "draw" =>
    \A j \in Indices(given) :
      Distance(Total(given) * Mass(j), Len(given) * One * given[j + 1])
        <= Total(given) * (2 * Len(given) - 1) * Eps

(* What is chosen is a vector of distinct fragments of the part's stream,   *)
(* at least one: what the encoder and the decoder take for granted.        *)
VectorOK ==
  /\ phase # "panic"
  /\ phase = "done" => IsIndexVector(shuffled, Len(given)) /\ Len(shuffled) = degree

(* Every choice comes to its end, though the pairing loop puts entries back *)
(* on the worklists it empties.                                            *)
ChoiceEnds == phase = "pair" ~> phase = "done"
=============================================================================
