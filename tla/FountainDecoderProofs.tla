------------------------ MODULE FountainDecoderProofs ------------------------
(***************************************************************************)
(* The inductive invariant of the fountain decoder, and what follows from   *)
(* it: the decoder implements Peeling, recovers true fragments only, keeps  *)
(* what it has, stays within its limits and never runs into an internal     *)
(* error.                                                                   *)
(***************************************************************************)
EXTENDS FountainDecoder, FountainPartsProofs, FiniteSetTheorems

(* Removing an index from a vector of distinct indexes.                    *)
LEMMA WithoutProperties ==
  ASSUME NEW count \in Nat, NEW v, IsIndexVector(v, count), NEW i \in Range(v)
  PROVE  /\ Without(v, i) \in Seq(0 .. count - 1)
         /\ Len(Without(v, i)) = Len(v) - 1
         /\ Range(Without(v, i)) = Range(v) \ {i}
         /\ \A j, k \in DOMAIN Without(v, i) : Without(v, i)[j] = Without(v, i)[k] => j = k
<1> DEFINE n == Position(v, i)
           w == Without(v, i)
<1>1. /\ v \in Seq(0 .. count - 1)
      /\ DOMAIN v = 1 .. Len(v) /\ Len(v) \in Nat
      /\ \A j, k \in 1 .. Len(v) : v[j] = v[k] => j = k
  BY LenProperties, SMTT(30) DEF IsIndexVector
<1>2. n \in 1 .. Len(v) /\ v[n] = i
  <2>1. \E k \in DOMAIN v : v[k] = i
    BY DEF Range
  <2> QED BY <2>1, <1>1 DEF Position
<1>3. /\ w \in Seq(0 .. count - 1)
      /\ Len(w) = Len(v) - 1
      /\ \A k \in 1 .. Len(v) - 1 : w[k] = IF k < n THEN v[k] ELSE v[k + 1]
  BY <1>1, <1>2, RemoveAtProperties DEF Without
<1>4. DOMAIN w = 1 .. Len(v) - 1
  BY <1>1, <1>3, LenProperties
<1> DEFINE old(k) == IF k < n THEN k ELSE k + 1
<1> HIDE DEF n, w
<1>5. \A k \in 1 .. Len(v) - 1 : old(k) \in 1 .. Len(v) /\ old(k) # n /\ w[k] = v[old(k)]
  BY <1>1, <1>2, <1>3
<1>6. \A j, k \in 1 .. Len(v) - 1 : old(j) = old(k) => j = k
  BY <1>1, <1>2
<1>7. \A k \in 1 .. Len(v) : k # n => \E j \in 1 .. Len(v) - 1 : old(j) = k
  <2> SUFFICES ASSUME NEW k \in 1 .. Len(v), k # n
               PROVE  \E j \in 1 .. Len(v) - 1 : old(j) = k
    OBVIOUS
  <2>1. CASE k < n
    <3>1. k \in 1 .. Len(v) - 1 /\ old(k) = k
      BY <2>1, <1>1, <1>2
    <3> QED BY <3>1
  <2>2. CASE k > n
    <3>1. k - 1 \in 1 .. Len(v) - 1 /\ old(k - 1) = k
      BY <2>2, <1>1, <1>2
    <3> QED BY <3>1
  <2> QED BY <2>1, <2>2, <1>1, <1>2
<1> HIDE DEF old
<1>8. \A j, k \in DOMAIN w : w[j] = w[k] => j = k
  BY <1>1, <1>4, <1>5, <1>6, SMTT(30)
<1>9. Range(w) = Range(v) \ {i}
  <2>1. Range(w) \subseteq Range(v) \ {i}
    <3> SUFFICES ASSUME NEW k \in 1 .. Len(v) - 1
                 PROVE  w[k] \in Range(v) /\ w[k] # i
      BY <1>4 DEF Range
    <3>1. old(k) \in 1 .. Len(v) /\ old(k) # n /\ w[k] = v[old(k)]
      BY <1>5
    <3>2. w[k] \in Range(v)
      BY <3>1, <1>1 DEF Range
    <3>3. w[k] # i
      BY <3>1, <1>1, <1>2
    <3> QED BY <3>2, <3>3
  <2>2. Range(v) \ {i} \subseteq Range(w)
    <3> SUFFICES ASSUME NEW k \in 1 .. Len(v), v[k] # i
                 PROVE  \E j \in DOMAIN w : w[j] = v[k]
      BY <1>1 DEF Range
    <3>1. PICK j \in 1 .. Len(v) - 1 : old(j) = k
      BY <1>2, <1>7
    <3> QED BY <3>1, <1>4, <1>5
  <2> QED BY <2>1, <2>2
<1> QED BY <1>3, <1>8, <1>9 DEF w

(* A vector that holds an index besides i keeps one when i is removed.     *)
LEMMA WithoutIsIndexVector ==
  ASSUME NEW count \in Nat, NEW v, IsIndexVector(v, count), NEW i \in Range(v), Len(v) # 1
  PROVE  IsIndexVector(Without(v, i), count)
<1>1. v \in Seq(0 .. count - 1) /\ v # << >>
  BY DEF IsIndexVector
<1>2. Len(v) \in Nat \ {0}
  BY <1>1, EmptySeq
<1>3. Without(v, i) # << >>
  <2>1. Len(Without(v, i)) = Len(v) - 1
    BY WithoutProperties
  <2>2. Len(Without(v, i)) # 0
    BY <2>1, <1>2
  <2> QED BY <2>2, EmptySeq
<1> QED BY <1>3, WithoutProperties DEF IsIndexVector

(* The elements of a vector of length one, and of any other.               *)
LEMMA LengthOneVector ==
  ASSUME NEW count \in Nat, NEW v, IsIndexVector(v, count)
  PROVE  /\ Range(v) # {} /\ Range(v) \subseteq 0 .. count - 1
         /\ Len(v) = 1 => Range(v) = {v[1]}
         /\ Len(v) # 1 => \A i : Range(v) # {i}
<1>1. v \in Seq(0 .. count - 1) /\ v # << >> /\ \A j, k \in DOMAIN v : v[j] = v[k] => j = k
  BY DEF IsIndexVector
<1>2. Len(v) \in Nat \ {0} /\ DOMAIN v = 1 .. Len(v) /\ v \in [1 .. Len(v) -> 0 .. count - 1]
  BY <1>1, EmptySeq, LenProperties
<1>3. Range(v) # {} /\ Range(v) \subseteq 0 .. count - 1
  <2>1. v[1] \in Range(v)
    BY <1>2 DEF Range
  <2> QED BY <2>1, <1>2 DEF Range
<1>4. Len(v) = 1 => Range(v) = {v[1]}
  BY <1>2 DEF Range
<1>5. ASSUME Len(v) # 1, NEW i, Range(v) = {i}
      PROVE  FALSE
  <2>1. 1 \in DOMAIN v /\ 2 \in DOMAIN v
    BY <1>5, <1>2
  <2>2. v[1] = i /\ v[2] = i
    BY <2>1, <1>5 DEF Range
  <2> QED BY <2>1, <2>2, <1>1
<1> QED BY <1>3, <1>4, <1>5
-----------------------------------------------------------------------------
(* Maps and payloads.                                                      *)

LEMMA XorProperties ==
  ASSUME NEW d \in Payload, NEW e \in Payload
  PROVE  /\ Xor(d, e) \in Payload
         /\ Xor(d, e).len = d.len
         /\ Xor(d, e).sum = (d.sum \cup e.sum) \ (d.sum \cap e.sum)
BY DEF Xor, Payload

(* A part that passes the checks.                                          *)
LEMMA AdmissibleProperties ==
  ASSUME IInv, Listening, NEW p \in Parts, Admissible(p)
  PROVE  /\ IsIndexVector(Indexes(p), p.count)
         /\ p.count \in Nat /\ p.data \in Payload /\ p.data.len = MetaOf(p).len
         /\ MetaOf(p) \in [count : Nat, mlen : Nat, crc : Nat, len : Nat]
         /\ MetaOf(p).count = p.count
         /\ p.count \in 1 .. MaxFragmentCount
         /\ p.mlen # 0 /\ MetaOf(p).mlen = p.mlen
         /\ p.data.len * p.count >= p.mlen
         /\ p.data.len * p.count <= MaxUsize
         /\ received # {} => MetaOf(p) = meta
<1>1. /\ p.seq \in Nat /\ p.count \in Nat /\ p.mlen \in Nat /\ p.crc \in Nat
      /\ p.data.len \in Nat
      /\ p.data = [len |-> p.data.len, sum |-> p.data.sum]
  BY PartsAssumption
<1>2. p.data \in Payload
  <2>1. p.data.sum \in SUBSET Sources
    BY DEF Sources
  <2> QED BY <2>1, <1>1 DEF Payload
<1>3. DataFits(p)
  BY DEF Admissible, LengthFits, CountFits
<1>4. p.count # 0 /\ p.mlen # 0 /\ p.data.len # 0 /\ p.seq # 0
  BY <1>3 DEF DataFits, WellFormed, IsEmpty
<1>5. IsIndexVector(Indexes(p), p.count)
  <2>1. CASE p.seq <= p.count
    <3>1. Indexes(p) = <<p.seq - 1>> /\ p.seq - 1 \in 0 .. p.count - 1
      BY <2>1, <1>1, <1>4 DEF Indexes, ChooseFragments
    <3> QED BY <3>1 DEF IsIndexVector
  <2>2. CASE p.count < p.seq
    BY <2>2, <1>1, <1>4, MixAssumption DEF Indexes, ChooseFragments
  <2> QED BY <2>1, <2>2, <1>1
<1>6. /\ MetaOf(p) \in [count : Nat, mlen : Nat, crc : Nat, len : Nat]
      /\ MetaOf(p).count = p.count /\ MetaOf(p).mlen = p.mlen /\ MetaOf(p).len = p.data.len
  BY <1>1 DEF MetaOf
<1>7. CASE First
  BY <1>1, <1>2, <1>4, <1>5, <1>6, <1>7, LimitsAssumption
  DEF Admissible, LengthFits, CountFits, Geometry, First
<1>8. CASE ~First
  <2>1. MetaOf(p) = meta
    BY <1>8 DEF Admissible, Validate
  <2>2. /\ meta.count \in 1 .. MaxFragmentCount
        /\ meta.len * meta.count >= meta.mlen
        /\ meta.len * meta.count <= MaxUsize
    BY <1>8 DEF IInv, Pinned, First, Representable
  <2> QED BY <2>1, <2>2, <1>1, <1>2, <1>4, <1>5, <1>6
<1> QED BY <1>7, <1>8
-----------------------------------------------------------------------------
(* The inductive invariant: the initial state and every action.            *)

LEMMA RestOK ==
  /\ NoPart.vec = << >> /\ NoPart.data \in Payload
  /\ NoSimple \in Nat \X Payload
<1>1. [len |-> 0, sum |-> {}] \in Payload
  BY DEF Payload
<1> QED BY <1>1 DEF NoPart, NoSimple

LEMMA InitIInv == Init => IInv
<1> SUFFICES ASSUME Init PROVE IInv
  OBVIOUS
<1> USE DEF Init, NoMap, NoPart, NoSimple, NoMeta
<1>1. TypeOK
  <2>1. StoreOK
    BY DEF StoreOK, IsMap, Fragments
  <2>2. part = NoPart /\ simple = NoSimple /\ todo = {}
    OBVIOUS
  <2>3. poisoned \in Poisons \cup {Alive} /\ outcome \in Answers /\ phase = "idle"
    BY DEF Answers
  <2> QED BY <2>1, <2>2, <2>3, RestOK DEF TypeOK, FlightOK
<1>2. Control
  BY DEF Control
<1>3. Pinned /\ SameLength /\ Traced /\ AllCovered /\ Cascading /\ OnlyPeeled
  BY DEF Pinned, SameLength, Traced, AllCovered, Cascading, OnlyPeeled
<1> QED BY <1>1, <1>2, <1>3 DEF IInv

(* A step that leaves everything but the answer alone.                     *)
LEMMA AnswerIInv ==
  ASSUME IInv, UNCHANGED <<session, phase, part, simple, todo>>, outcome' \in Answers
  PROVE  IInv'
<1> USE DEF session
<1>1. TypeOK'
  BY DEF IInv, TypeOK, StoreOK, FlightOK, Fragments
<1>2. Control'
  BY DEF IInv, Control
<1>3. Pinned' /\ SameLength'
  BY DEF IInv, Pinned, Representable, SameLength
<1>4. Traced'
  BY DEF IInv, Traced, Reduces
<1>5. AllCovered'
  BY DEF IInv, AllCovered, Covered, Reduces
<1>6. Cascading'
  BY DEF IInv, Cascading, KnownOf, Pending
<1>7. OnlyPeeled'
  BY DEF IInv, OnlyPeeled, Fragments
<1> QED BY <1>1, <1>2, <1>3, <1>4, <1>5, <1>6, <1>7 DEF IInv

(* A step that poisons, possibly with an entry taken out of the buffer.    *)
LEMMA PoisonIInv ==
  ASSUME IInv, NEW kind \in Poisons, Poison(kind),
         IsMap(buffer'), DOMAIN buffer' \subseteq DOMAIN buffer,
         \A v \in DOMAIN buffer' : buffer'[v] = buffer[v],
         UNCHANGED <<decoded, received, queue, meta>>
  PROVE  IInv'
<1> USE DEF Poison
<1>0. poisoned' # Alive
  BY DEF Poisons, Limits, Alive
<1>1. TypeOK'
  <2>1. StoreOK'
    BY DEF IInv, TypeOK, StoreOK, Fragments, IsMap
  <2>2. FlightOK'
    BY RestOK DEF FlightOK, Answers
  <2> QED BY <2>1, <2>2 DEF TypeOK
<1>2. Control'
  BY <1>0 DEF IInv, Control
<1>3. Pinned' /\ SameLength'
  BY <1>0 DEF IInv, Pinned, Representable, SameLength
<1>4. Traced'
  BY DEF IInv, Traced, Reduces
<1>5. AllCovered' /\ Cascading'
  BY <1>0 DEF IInv, AllCovered, Cascading
<1>7. OnlyPeeled'
  BY DEF IInv, OnlyPeeled, Fragments
<1> QED BY <1>1, <1>2, <1>3, <1>4, <1>5, <1>7 DEF IInv

(* The limits that poison at a check.                                      *)
LEMMA PoisonAtCheckIInv ==
  ASSUME IInv, NEW kind \in Poisons, Poison(kind), Unaltered, UNCHANGED meta
  PROVE  IInv'
<1>1. IsMap(buffer') /\ UNCHANGED <<decoded, received, queue, meta, buffer>>
  BY DEF Unaltered, IInv, TypeOK, StoreOK, IsMap
<1> QED BY <1>1, PoisonIInv

LEMMA PoisonReceivedIInv ==
  ASSUME IInv, NEW p \in Parts, PoisonReceived(p)
  PROVE  IInv'
<1> USE DEF PoisonReceived
<1>1. CASE ~First
  <2>1. MetaOf(p) = meta
    BY <1>1 DEF Admissible, Validate
  <2> QED BY <2>1, PoisonAtCheckIInv DEF Poisons, Limits
<1>2. CASE First
  <2> USE DEF Poison, Unaltered
  <2>0. /\ received = {} /\ DOMAIN decoded = {} /\ DOMAIN buffer = {} /\ queue = << >>
        /\ poisoned' = "ReceivedParts"
    BY <1>2 DEF First, IInv, Pinned
  <2>1. TypeOK'
    <3>1. meta' \in [count : Nat, mlen : Nat, crc : Nat, len : Nat]
      BY AdmissibleProperties
    <3>2. StoreOK'
      BY <2>0, <3>1 DEF IInv, TypeOK, StoreOK
    <3>3. FlightOK'
      BY <2>0, RestOK DEF FlightOK, Answers, Poisons, Limits
    <3> QED BY <3>2, <3>3 DEF TypeOK
  <2>2. Control'
    BY <2>0 DEF IInv, Control
  <2>3. Pinned' /\ SameLength' /\ Traced'
    BY <2>0 DEF IInv, Pinned, SameLength, Traced, Alive
  <2>4. AllCovered' /\ Cascading'
    BY <2>0 DEF AllCovered, Cascading
  <2>5. OnlyPeeled'
    BY <2>0 DEF OnlyPeeled
  <2> QED BY <2>1, <2>2, <2>3, <2>4, <2>5 DEF IInv
<1> QED BY <1>1, <1>2

LEMMA AcceptIInv ==
  ASSUME IInv, NEW p \in Parts, Accept(p)
  PROVE  IInv'
<1> USE DEF Accept
<1> DEFINE v == Indexes(p)
<1>0. /\ Listening /\ poisoned = Alive /\ phase = "idle"
      /\ IsIndexVector(v, p.count) /\ p.count \in Nat
      /\ p.data \in Payload /\ p.data.len = MetaOf(p).len
      /\ meta' \in [count : Nat, mlen : Nat, crc : Nat, len : Nat]
      /\ meta'.count = p.count /\ meta'.count \in 1 .. MaxFragmentCount
      /\ meta'.mlen # 0 /\ meta'.len = p.data.len
      /\ meta'.len * meta'.count >= meta'.mlen
      /\ meta'.len * meta'.count <= MaxUsize
      /\ received # {} => meta' = meta
      /\ received = {} => DOMAIN decoded = {} /\ DOMAIN buffer = {}
      /\ queue = << >> /\ todo = {}
  BY AdmissibleProperties DEF Listening, IInv, Pinned, Control
<1>1. part' = [vec |-> v, data |-> p.data] /\ part'.vec = v /\ part'.data = p.data
  OBVIOUS
<1> HIDE DEF v
<1>2. TypeOK'
  <2>1. StoreOK'
    <3>1. queue' \in Seq((Fragments \X Payload)')
      BY <1>0
    <3>2. CASE received = {}
      BY <1>0, <3>1, <3>2 DEF IInv, TypeOK, StoreOK, v
    <3>3. CASE received # {}
      BY <1>0, <3>1, <3>3 DEF IInv, TypeOK, StoreOK, Fragments, v
    <3> QED BY <3>2, <3>3
  <2>2. v \in Seq(Fragments')
    BY <1>0 DEF IsIndexVector, Fragments
  <2>3. FlightOK'
    BY <1>0, <1>1, <2>2 DEF IInv, TypeOK, FlightOK, Answers
  <2> QED BY <2>1, <2>3 DEF TypeOK
<1>3. Control'
  BY <1>0, <1>1 DEF IInv, Control, v, Alive
<1>4. Pinned'
  BY <1>0 DEF Pinned, Representable
<1>5. SameLength'
  BY <1>0, <1>1 DEF IInv, SameLength
<1>6. Traced'
  BY <1>0, <1>1 DEF IInv, Traced, Reduces, v
<1>7. AllCovered'
  BY <1>0, <1>1 DEF IInv, AllCovered, Covered, Reduces, v
<1>8. Cascading'
  BY <1>0, <1>1 DEF IInv, Cascading, KnownOf, Pending
<1>9. OnlyPeeled'
  BY <1>0 DEF IInv, OnlyPeeled, Fragments, Peel!PeelClosed
<1> QED BY <1>2, <1>3, <1>4, <1>5, <1>6, <1>7, <1>8, <1>9 DEF IInv

LEMMA IngestKnownIInv ==
  ASSUME IInv, IngestKnown
  PROVE  IInv'
<1> USE DEF IngestKnown, EnterDrain, session
<1>1. TypeOK'
  <2>1. StoreOK'
    BY DEF IInv, TypeOK, StoreOK, Fragments
  <2>2. FlightOK'
    BY RestOK DEF IInv, TypeOK, FlightOK
  <2> QED BY <2>1, <2>2 DEF TypeOK
<1>2. Control'
  BY DEF IInv, Control
<1>3. Pinned' /\ SameLength'
  BY DEF IInv, Pinned, Representable, SameLength
<1>4. Traced'
  BY DEF IInv, Traced, Reduces
<1>5. AllCovered'
  BY DEF IInv, AllCovered, Covered, Reduces
<1>6. Cascading'
  BY DEF IInv, Cascading, KnownOf, Pending
<1>7. OnlyPeeled'
  BY DEF IInv, OnlyPeeled, Fragments
<1> QED BY <1>1, <1>2, <1>3, <1>4, <1>5, <1>6, <1>7 DEF IInv

(* The payload lengths agree, so a strip never fails.                      *)
LEMMA StripKnownStep ==
  ASSUME IInv, NEW i, i \in KnownOf(part.vec), StripKnown(i)
  PROVE  /\ phase = "ingest" /\ phase' = "ingest"
         /\ IsIndexVector(part.vec, meta.count) /\ i \in Range(part.vec)
         /\ i \in DOMAIN decoded
         /\ IsIndexVector(part'.vec, meta.count)
         /\ Range(part'.vec) = Range(part.vec) \ {i}
         /\ part'.data = Xor(part.data, decoded[i])
         /\ part.data \in Payload /\ decoded[i] \in Payload
         /\ UNCHANGED <<decoded, received, buffer, queue, meta, poisoned,
                        simple, todo, outcome>>
<1>1. /\ phase = "ingest" /\ IsIndexVector(part.vec, meta.count)
      /\ ~(Range(part.vec) \subseteq DOMAIN decoded)
      /\ i \in Range(part.vec) /\ i \in DOMAIN decoded
      /\ part.data \in Payload /\ decoded[i] \in Payload
      /\ part.data.len = decoded[i].len /\ meta.count \in Nat
  BY DEF StripKnown, KnownOf, IInv, Control, TypeOK, StoreOK, FlightOK, SameLength
<1>2. /\ part' = [vec |-> Without(part.vec, i), data |-> Xor(part.data, decoded[i])]
      /\ UNCHANGED <<session, phase, simple, todo, outcome>>
  BY <1>1 DEF StripKnown
<1>3. Len(part.vec) # 1
  BY <1>1, LengthOneVector
<1>4. /\ IsIndexVector(Without(part.vec, i), meta.count)
      /\ Range(Without(part.vec, i)) = Range(part.vec) \ {i}
  BY <1>1, <1>3, WithoutIsIndexVector, WithoutProperties
<1> QED BY <1>1, <1>2, <1>4 DEF session

LEMMA StripKnownIInv ==
  ASSUME IInv, NEW i, i \in KnownOf(part.vec), StripKnown(i)
  PROVE  IInv'
<1>0. /\ phase = "ingest" /\ phase' = "ingest"
      /\ IsIndexVector(part.vec, meta.count) /\ i \in Range(part.vec)
      /\ i \in DOMAIN decoded
      /\ IsIndexVector(part'.vec, meta.count)
      /\ Range(part'.vec) = Range(part.vec) \ {i}
      /\ part'.data = Xor(part.data, decoded[i])
      /\ part.data \in Payload /\ decoded[i] \in Payload
      /\ UNCHANGED <<decoded, received, buffer, queue, meta, poisoned,
                     simple, todo, outcome>>
  BY StripKnownStep
<1>1. part'.data \in Payload /\ part'.data.len = part.data.len
  BY <1>0, XorProperties
<1>2. TypeOK'
  <2>1. StoreOK'
    BY <1>0 DEF IInv, TypeOK, StoreOK, Fragments
  <2>2. part'.vec \in Seq(Fragments')
    BY <1>0 DEF IsIndexVector, Fragments
  <2>3. FlightOK'
    BY <1>0, <1>1, <2>2 DEF IInv, TypeOK, FlightOK
  <2> QED BY <2>1, <2>3 DEF TypeOK
<1>3. Control'
  BY <1>0 DEF IInv, Control
<1>4. Pinned' /\ SameLength'
  BY <1>0, <1>1 DEF IInv, Pinned, Representable, SameLength
<1>5. Traced'
  BY <1>0 DEF IInv, Traced, Reduces
<1>6. AllCovered'
  <2>1. ASSUME NEW r \in received, Covered(r)
        PROVE  Covered(r)'
    BY <1>0, <2>1 DEF Covered, Reduces
  <2> QED BY <1>0, <2>1 DEF IInv, AllCovered
<1>7. Cascading'
  BY <1>0 DEF IInv, Cascading, KnownOf, Pending
<1>8. OnlyPeeled'
  BY <1>0 DEF IInv, OnlyPeeled, Fragments
<1> QED BY <1>2, <1>3, <1>4, <1>5, <1>6, <1>7, <1>8 DEF IInv
-----------------------------------------------------------------------------
(* insert_reduced, for the ingest of a part and for a reduction alike.     *)

LEMMA AppendProperties2 ==
  ASSUME NEW S, NEW s \in Seq(S), NEW e \in S
  PROVE  /\ Append(s, e) \in Seq(S)
         /\ DOMAIN Append(s, e) = DOMAIN s \cup {Len(s) + 1}
         /\ \A j \in DOMAIN s : Append(s, e)[j] = s[j]
         /\ Append(s, e)[Len(s) + 1] = e
OBVIOUS

LEMMA InsertReducedIInv ==
  ASSUME IInv, poisoned = Alive, received # {},
         NEW rest, IsMap(rest), DOMAIN rest \subseteq DOMAIN buffer,
         \A w \in DOMAIN rest : rest[w] = buffer[w],
         NEW vec, IsIndexVector(vec, meta.count),
         NEW data, data \in Payload, data.len = meta.len,
         \E r \in received : Reduces(vec, r),
         \A r \in received : \/ Range(r) \subseteq DOMAIN decoded
                             \/ \E w \in DOMAIN rest : Reduces(w, r)
                             \/ Reduces(vec, r),
         \A w \in DOMAIN rest \cup {vec} : \A i \in KnownOf(w) :
           \/ \E j \in DOMAIN queue : queue[j][1] = i
           \/ w \in todo' /\ simple[1] = i,
         todo' \subseteq todo, todo' \subseteq DOMAIN rest,
         phase' = "drain", part' = NoPart, outcome' \in Answers,
         UNCHANGED <<received, meta, simple>>,
         \/ Resolve(rest, vec, data)
         \/ Discard(rest, vec)
         \/ Keep(rest, vec, data)
  PROVE  IInv'
<1>0. /\ meta.count \in Nat /\ Fragments' = Fragments
      /\ queue \in Seq(Fragments \X Payload)
      /\ IsMap(decoded) /\ DOMAIN decoded \subseteq Fragments
      /\ \A i \in DOMAIN decoded : decoded[i] \in Payload /\ decoded[i].len = meta.len
      /\ \A w \in DOMAIN rest : /\ IsIndexVector(w, meta.count) /\ rest[w] \in Payload
                                /\ rest[w].len = meta.len /\ Len(w) # 1
                                /\ \E r \in received : Reduces(w, r)
      /\ \A r \in received : IsIndexVector(r, meta.count)
      /\ todo # {} => simple[1] \in DOMAIN decoded /\ simple[2] = decoded[simple[1]]
      /\ \A w \in todo : simple[1] \in Range(w)
      /\ simple' \in Nat \X Payload
      /\ \A j \in DOMAIN queue :
           queue[j][1] \in DOMAIN decoded /\ queue[j][2] = decoded[queue[j][1]]
  BY DEF IInv, TypeOK, StoreOK, FlightOK, SameLength, Control, Cascading, Traced, Fragments
<1>1. /\ Range(vec) \subseteq Fragments
      /\ Len(vec) = 1 => Range(vec) = {vec[1]} /\ vec[1] \in Fragments
  BY <1>0, LengthOneVector DEF Fragments
<1>2. poisoned' = Alive /\ received' # {} /\ Pinned'
  BY DEF Resolve, Discard, Keep, IInv, Pinned, Representable
<1>3. FlightOK' <=> todo' \subseteq DOMAIN buffer'
  BY <1>0, <1>2, RestOK DEF FlightOK
<1>4. OnlyPeeled
  BY DEF IInv
<1>5. CASE Resolve(rest, vec, data)
  <2> DEFINE i == vec[1]
  <2>1. /\ i \notin DOMAIN decoded /\ i \in Fragments /\ Range(vec) = {i}
        /\ decoded' = Insert(decoded, i, data)
        /\ queue' = Append(queue, <<i, data>>)
        /\ buffer' = rest
    BY <1>1, <1>5, <1>0, LengthOneVector DEF Resolve
  <2> HIDE DEF i
  <2>2. /\ IsMap(decoded') /\ DOMAIN decoded' = DOMAIN decoded \cup {i}
        /\ decoded'[i] = data
        /\ \A z \in DOMAIN decoded : decoded'[z] = decoded[z]
    <3>1. LET f == Insert(decoded, i, data)
          IN  /\ IsMap(f) /\ DOMAIN f = DOMAIN decoded \cup {i}
              /\ \A z \in DOMAIN decoded \cup {i} : f[z] = IF z = i THEN data ELSE decoded[z]
      BY DEF Insert, IsMap
    <3> QED BY <3>1, <2>1 DEF IsMap
  <2>3. /\ queue' \in Seq(Fragments \X Payload)
        /\ DOMAIN queue' = DOMAIN queue \cup {Len(queue) + 1}
        /\ \A j \in DOMAIN queue : queue'[j] = queue[j]
        /\ queue'[Len(queue) + 1] = <<i, data>>
    <3>1. <<i, data>> \in Fragments \X Payload
      BY <2>1
    <3> HIDE DEF Fragments
    <3> QED BY <3>1, <2>1, <1>0, AppendProperties2
  <2>4. TypeOK'
    <3>1. StoreOK'
      BY <1>0, <2>1, <2>2, <2>3 DEF StoreOK, IInv, TypeOK
    <3> QED BY <1>3, <2>1, <3>1 DEF TypeOK
  <2>5. Control'
    <3>1. ASSUME NEW j \in DOMAIN queue'
          PROVE  queue'[j][1] \in DOMAIN decoded' /\ queue'[j][2] = decoded'[queue'[j][1]]
      BY <1>0, <2>2, <2>3
    <3> QED BY <1>0, <1>2, <2>2, <3>1 DEF Control
  <2>6. SameLength'
    BY <1>0, <2>1, <2>2 DEF SameLength
  <2>7. Traced'
    BY <1>0, <2>1, <2>2 DEF Traced, Reduces
  <2>8. AllCovered'
    <3>1. ASSUME NEW r \in received
          PROVE  Covered(r)'
      <4>1. CASE Range(r) \subseteq DOMAIN decoded
        BY <4>1, <2>2 DEF Covered
      <4>2. CASE \E w \in DOMAIN rest : Reduces(w, r)
        BY <4>2, <2>1, <2>2 DEF Covered, Reduces
      <4>3. CASE Reduces(vec, r)
        BY <4>3, <2>1, <2>2 DEF Covered, Reduces
      <4> QED BY <4>1, <4>2, <4>3
    <3> QED BY <3>1 DEF AllCovered
  <2>9. Cascading'
    <3>1. ASSUME NEW w \in DOMAIN rest, NEW k \in Range(w), k \in DOMAIN decoded'
          PROVE  Pending(w, k)'
      <4>1. CASE k = i
        BY <4>1, <2>3 DEF Pending
      <4>2. CASE k \in DOMAIN decoded
        BY <4>2, <2>3 DEF Pending, KnownOf
      <4> QED BY <3>1, <4>1, <4>2, <2>2
    <3> QED BY <3>1, <1>0, <2>1 DEF Cascading, KnownOf
  <2>10. OnlyPeeled'
    <3> SUFFICES ASSUME NEW E \in SUBSET Fragments,
                        Peel!PeelClosed({Range(r) : r \in received}, E)
                 PROVE  DOMAIN decoded' \subseteq E
      BY <1>0 DEF OnlyPeeled
    <3>1. DOMAIN decoded \subseteq E
      BY <1>4 DEF OnlyPeeled
    <3>2. PICK r \in received : Reduces(vec, r)
      OBVIOUS
    <3>3. i \in Range(r) /\ Range(r) \ {i} \subseteq E
      BY <2>1, <3>1, <3>2 DEF Reduces
    <3>4. i \in E
      BY <3>3 DEF Peel!PeelClosed
    <3> QED BY <3>1, <3>4, <2>2
  <2> QED BY <1>2, <2>4, <2>5, <2>6, <2>7, <2>8, <2>9, <2>10 DEF IInv
<1>6. CASE Discard(rest, vec)
  <2>1. /\ Range(vec) \subseteq DOMAIN decoded
        /\ UNCHANGED <<decoded, queue>> /\ buffer' = rest
    BY <1>1, <1>6, <1>0, LengthOneVector DEF Discard
  <2>2. TypeOK'
    <3>1. StoreOK'
      BY <1>0, <2>1 DEF StoreOK, IsMap, IInv, TypeOK
    <3> QED BY <1>3, <2>1, <3>1 DEF TypeOK
  <2>3. Control' /\ SameLength' /\ Traced'
    BY <1>0, <1>2, <2>1 DEF Control, SameLength, Traced, Reduces
  <2>4. AllCovered'
    BY <2>1 DEF AllCovered, Covered, Reduces
  <2>5. Cascading'
    BY <1>0, <2>1 DEF Cascading, KnownOf, Pending
  <2>6. OnlyPeeled'
    BY <1>0, <1>4, <2>1 DEF OnlyPeeled
  <2> QED BY <1>2, <2>2, <2>3, <2>4, <2>5, <2>6 DEF IInv
<1>7. CASE Keep(rest, vec, data)
  <2>1. Len(vec) # 1 /\ UNCHANGED <<decoded, queue>> /\ buffer' = Insert(rest, vec, data)
    BY <1>7 DEF Keep
  <2>2. /\ IsMap(buffer') /\ DOMAIN buffer' = DOMAIN rest \cup {vec}
        /\ \A w \in DOMAIN buffer' : buffer'[w] = IF w = vec THEN data ELSE rest[w]
    <3>1. LET f == Insert(rest, vec, data)
          IN  /\ IsMap(f) /\ DOMAIN f = DOMAIN rest \cup {vec}
              /\ \A w \in DOMAIN rest \cup {vec} : f[w] = IF w = vec THEN data ELSE rest[w]
      BY DEF Insert, IsMap
    <3> QED BY <3>1, <2>1 DEF IsMap
  <2>3. TypeOK'
    <3>1. StoreOK'
      BY <1>0, <2>1, <2>2 DEF StoreOK, IsMap, IInv, TypeOK
    <3> QED BY <1>3, <2>2, <3>1 DEF TypeOK
  <2>4. Control' /\ SameLength' /\ Traced'
    BY <1>0, <1>2, <2>1, <2>2 DEF Control, SameLength, Traced, Reduces
  <2>5. AllCovered'
    BY <2>1, <2>2 DEF AllCovered, Covered, Reduces
  <2>6. Cascading'
    BY <1>0, <2>1, <2>2 DEF Cascading, KnownOf, Pending
  <2>7. OnlyPeeled'
    BY <1>0, <1>4, <2>1 DEF OnlyPeeled
  <2> QED BY <1>2, <2>3, <2>4, <2>5, <2>6, <2>7 DEF IInv
<1> QED BY <1>5, <1>6, <1>7

LEMMA IngestNewIInv ==
  ASSUME IInv, IngestNew
  PROVE  IInv'
<1>0. /\ phase = "ingest" /\ poisoned = Alive /\ received # {} /\ todo = {}
      /\ KnownOf(part.vec) = {}
      /\ IsIndexVector(part.vec, meta.count) /\ part.data \in Payload
      /\ part.data.len = meta.len /\ outcome \in Answers
      /\ IsMap(buffer)
      /\ UNCHANGED <<received, meta>>
  BY DEF IngestNew, IInv, Control, Pinned, TypeOK, StoreOK, FlightOK, SameLength
<1>1. /\ \E r \in received : Reduces(part.vec, r)
      /\ \A r \in received : \/ Range(r) \subseteq DOMAIN decoded
                             \/ \E w \in DOMAIN buffer : Reduces(w, r)
                             \/ Reduces(part.vec, r)
  BY <1>0 DEF IInv, Traced, AllCovered, Covered
<1>2. \A w \in DOMAIN buffer \cup {part.vec} : \A i \in KnownOf(w) :
        \/ \E j \in DOMAIN queue : queue[j][1] = i
        \/ w \in todo /\ simple[1] = i
  BY <1>0 DEF IInv, Cascading, Pending
<1>3. CASE EnterDrain /\ (\/ Resolve(buffer, part.vec, part.data)
                          \/ Keep(buffer, part.vec, part.data))
  <2>1. /\ phase' = "drain" /\ part' = NoPart
        /\ UNCHANGED <<simple, todo, outcome>>
    BY <1>3 DEF EnterDrain
  <2> HIDE DEF EnterDrain
  <2> QED BY <1>0, <1>1, <1>2, <1>3, <2>1, InsertReducedIInv
<1>4. CASE Overflow(buffer, part.vec)
  <2>1. "BufferParts" \in Poisons
    BY DEF Poisons, Limits
  <2> QED BY <1>0, <1>4, <2>1, PoisonAtCheckIInv DEF Overflow, Unaltered
<1> QED BY <1>3, <1>4 DEF IngestNew

LEMMA PopSimpleIInv ==
  ASSUME IInv, PopSimple
  PROVE  IInv'
<1> USE DEF PopSimple
<1>0. /\ phase = "drain" /\ poisoned = Alive /\ todo = {}
      /\ queue \in Seq(Fragments \X Payload) /\ queue # << >>
      /\ \A j \in DOMAIN queue :
           queue[j][1] \in DOMAIN decoded /\ queue[j][2] = decoded[queue[j][1]]
      /\ meta.count \in Nat
  BY DEF IInv, Control, TypeOK, StoreOK
<1> DEFINE n == Len(queue)
<1>1. n \in Nat /\ n # 0 /\ DOMAIN queue = 1 .. n /\ n \in DOMAIN queue
      /\ queue[n] \in Fragments \X Payload
  <2> HIDE DEF Fragments
  <2>1. n \in Nat \ {0}
    BY <1>0, EmptySeq
  <2> QED BY <2>1, <1>0, LenProperties
<1>2. simple' = queue[n] /\ simple[1]' \in DOMAIN decoded /\ simple[2]' = decoded[simple[1]']
  BY <1>0, <1>1 DEF Last
<1>3. /\ queue' \in Seq(Fragments \X Payload)
      /\ DOMAIN queue' = 1 .. n - 1
      /\ \A j \in 1 .. n - 1 : queue'[j] = queue[j]
  <2> HIDE DEF Fragments
  <2>1. /\ n - 1 \in Int /\ 1 \in Int
        /\ \A j \in 1 .. n - 1 : queue[j] \in Fragments \X Payload
    BY <1>0, <1>1
  <2>2. /\ SubSeq(queue, 1, n - 1) \in Seq(Fragments \X Payload)
        /\ Len(SubSeq(queue, 1, n - 1)) = IF 1 <= n - 1 THEN n - 1 - 1 + 1 ELSE 0
        /\ \A j \in 1 .. n - 1 - 1 + 1 : SubSeq(queue, 1, n - 1)[j] = queue[1 + j - 1]
    BY <2>1, SubSeqProperties
  <2>3. queue' = SubSeq(queue, 1, n - 1)
    BY DEF Front
  <2>4. Len(queue') = n - 1 /\ \A j \in 1 .. n - 1 : queue'[j] = queue[j]
    BY <2>2, <2>3, <1>1
  <2> QED BY <2>2, <2>3, <2>4, LenProperties
<1>4. todo' = {v \in DOMAIN buffer : simple'[1] \in Range(v)}
  BY <1>2
<1> HIDE DEF n, PopSimple
<1>5. UNCHANGED <<decoded, received, buffer, meta, poisoned, phase, part, outcome>>
  BY DEF PopSimple
<1>6. TypeOK'
  <2>1. StoreOK'
    BY <1>3, <1>5 DEF IInv, TypeOK, StoreOK, Fragments
  <2>2. simple' \in Nat \X Payload
    BY <1>0, <1>1, <1>2 DEF Fragments
  <2>3. FlightOK'
    BY <1>4, <1>5, <2>2 DEF IInv, TypeOK, FlightOK, Fragments
  <2> QED BY <2>1, <2>3 DEF TypeOK
<1>7. Control'
  <2>1. \A j \in DOMAIN queue' :
          queue'[j][1] \in DOMAIN decoded' /\ queue'[j][2] = decoded'[queue'[j][1]]
    BY <1>0, <1>1, <1>3, <1>5
  <2> QED BY <1>0, <1>2, <1>4, <1>5, <2>1 DEF IInv, Control
<1>8. Pinned' /\ SameLength'
  BY <1>0, <1>5 DEF IInv, Pinned, Representable, SameLength
<1>9. Traced' /\ AllCovered'
  BY <1>5 DEF IInv, Traced, AllCovered, Covered, Reduces
<1>10. Cascading'
  <2>1. ASSUME NEW v \in DOMAIN buffer, NEW i \in KnownOf(v)
        PROVE  Pending(v, i)'
    <3>1. PICK j \in DOMAIN queue : queue[j][1] = i
      BY <1>0 DEF IInv, Cascading, Pending
    <3>2. CASE j = n
      <4>1. simple'[1] = i /\ v \in todo'
        BY <3>1, <3>2, <1>2, <1>4 DEF KnownOf
      <4> QED BY <4>1 DEF Pending
    <3>3. CASE j # n
      <4>1. j \in DOMAIN queue' /\ queue'[j][1] = i
        BY <3>1, <3>3, <1>1, <1>3
      <4> QED BY <4>1 DEF Pending
    <3> QED BY <3>2, <3>3
  <2> QED BY <2>1, <1>5 DEF IInv, Cascading, KnownOf
<1>11. OnlyPeeled'
  BY <1>5 DEF IInv, OnlyPeeled, Fragments
<1> QED BY <1>6, <1>7, <1>8, <1>9, <1>10, <1>11 DEF IInv

(* What a reduction finds: its entry, the fragment in it, equal lengths.   *)
LEMMA ReduceStep ==
  ASSUME IInv, phase = "drain", NEW v \in todo
  PROVE  /\ poisoned = Alive /\ received # {} /\ part = NoPart
         /\ v \in DOMAIN buffer /\ simple[1] \in Range(v) /\ simple[1] \in DOMAIN decoded
         /\ buffer[v].len = simple[2].len
         /\ IsIndexVector(v, meta.count)
         /\ IsIndexVector(Without(v, simple[1]), meta.count)
         /\ Range(Without(v, simple[1])) = Range(v) \ {simple[1]}
         /\ Xor(buffer[v], simple[2]) \in Payload
         /\ Xor(buffer[v], simple[2]).len = meta.len
<1>1. /\ poisoned = Alive /\ received # {} /\ part = NoPart
      /\ v \in DOMAIN buffer /\ simple[1] \in Range(v)
      /\ simple[1] \in DOMAIN decoded /\ simple[2] = decoded[simple[1]]
      /\ IsIndexVector(v, meta.count) /\ meta.count \in Nat /\ Len(v) # 1
      /\ buffer[v] \in Payload /\ buffer[v].len = meta.len
      /\ decoded[simple[1]] \in Payload /\ decoded[simple[1]].len = meta.len
  BY DEF IInv, Control, Pinned, TypeOK, StoreOK, FlightOK, SameLength, Cascading
<1>2. /\ IsIndexVector(Without(v, simple[1]), meta.count)
      /\ Range(Without(v, simple[1])) = Range(v) \ {simple[1]}
  BY <1>1, WithoutIsIndexVector, WithoutProperties
<1> QED BY <1>1, <1>2, XorProperties

LEMMA ReduceIInv ==
  ASSUME IInv, NEW v \in todo, Reduce(v)
  PROVE  IInv'
<1> DEFINE s    == simple[1]
           rest == Delete(buffer, v)
           vec  == Without(v, simple[1])
           data == Xor(buffer[v], simple[2])
<1>0. /\ phase = "drain" /\ poisoned = Alive /\ received # {} /\ part = NoPart
      /\ v \in DOMAIN buffer /\ s \in Range(v) /\ s \in DOMAIN decoded
      /\ buffer[v].len = simple[2].len
      /\ IsIndexVector(vec, meta.count) /\ Range(vec) = Range(v) \ {s}
      /\ data \in Payload /\ data.len = meta.len
  BY ReduceStep DEF Reduce
<1>1. /\ IsMap(rest) /\ DOMAIN rest = DOMAIN buffer \ {v}
      /\ \A w \in DOMAIN rest : rest[w] = buffer[w]
  BY DEF Delete, Restrict, IsMap
<1>2. /\ \/ /\ Resolve(rest, vec, data) \/ Discard(rest, vec) \/ Keep(rest, vec, data)
            /\ todo' = todo \ {v}
            /\ UNCHANGED <<phase, part, simple, outcome>>
         \/ Overflow(rest, vec)
      /\ UNCHANGED <<received, meta>>
  BY <1>0 DEF Reduce
<1> HIDE DEF s, rest, vec, data
<1>3. /\ todo \subseteq DOMAIN buffer /\ outcome \in Answers
  BY DEF IInv, TypeOK, FlightOK
<1>4. \E r \in received : Reduces(vec, r)
  <2>1. PICK r \in received : Reduces(v, r)
    BY <1>0 DEF IInv, Traced
  <2> QED BY <2>1, <1>0 DEF Reduces
<1>5. ASSUME NEW r \in received
      PROVE  \/ Range(r) \subseteq DOMAIN decoded
             \/ \E w \in DOMAIN rest : Reduces(w, r)
             \/ Reduces(vec, r)
  <2>1. CASE Range(r) \subseteq DOMAIN decoded
    BY <2>1
  <2>2. CASE \E w \in DOMAIN buffer : Reduces(w, r)
    <3>1. PICK w \in DOMAIN buffer : Reduces(w, r)
      BY <2>2
    <3>2. CASE w = v
      BY <3>1, <3>2, <1>0 DEF Reduces
    <3>3. CASE w # v
      BY <3>1, <3>3, <1>1
    <3> QED BY <3>2, <3>3
  <2> QED BY <1>0, <2>1, <2>2 DEF IInv, AllCovered, Covered
<1>6. CASE /\ Resolve(rest, vec, data) \/ Discard(rest, vec) \/ Keep(rest, vec, data)
           /\ todo' = todo \ {v}
           /\ UNCHANGED <<phase, part, simple, outcome>>
  <2>1. ASSUME NEW w \in DOMAIN rest \cup {vec}, NEW i \in KnownOf(w)
        PROVE  \/ \E j \in DOMAIN queue : queue[j][1] = i
               \/ w \in todo' /\ simple[1] = i
    <3>1. CASE w \in DOMAIN rest
      BY <3>1, <1>0, <1>1, <1>6 DEF IInv, Cascading, Pending
    <3>2. CASE w = vec
      <4>1. i \in KnownOf(v) /\ i # s
        BY <3>2, <1>0 DEF KnownOf
      <4> QED BY <4>1, <1>0 DEF IInv, Cascading, Pending, s
    <3> QED BY <3>1, <3>2
  <2>2. todo' \subseteq todo /\ todo' \subseteq DOMAIN rest
    BY <1>1, <1>3, <1>6
  <2>3. phase' = "drain" /\ part' = NoPart /\ outcome' \in Answers
    BY <1>0, <1>3, <1>6
  <2>4. UNCHANGED <<received, meta, simple>>
    BY <1>2, <1>6
  <2>5. /\ DOMAIN rest \subseteq DOMAIN buffer
        /\ \A r \in received : \/ Range(r) \subseteq DOMAIN decoded
                               \/ \E w \in DOMAIN rest : Reduces(w, r)
                               \/ Reduces(vec, r)
    BY <1>1, <1>5
  <2> QED BY <1>0, <1>1, <1>4, <1>6, <2>1, <2>2, <2>3, <2>4, <2>5, InsertReducedIInv
<1>7. CASE Overflow(rest, vec)
  <2>1. /\ "BufferParts" \in Poisons /\ Poison("BufferParts") /\ buffer' = rest
        /\ UNCHANGED <<decoded, received, queue, meta>>
    BY <1>2, <1>7 DEF Poisons, Limits, Overflow
  <2>2. /\ IsMap(buffer') /\ DOMAIN buffer' \subseteq DOMAIN buffer
        /\ \A w \in DOMAIN buffer' : buffer'[w] = buffer[w]
    BY <1>1, <2>1 DEF IsMap
  <2> QED BY <2>1, <2>2, PoisonIInv
<1> QED BY <1>2, <1>6, <1>7

LEMMA ReturnIInv ==
  ASSUME IInv, Return
  PROVE  IInv'
<1> USE DEF Return, session
<1>1. TypeOK'
  <2>1. StoreOK'
    BY DEF IInv, TypeOK, StoreOK, Fragments
  <2>2. FlightOK'
    BY RestOK DEF IInv, TypeOK, FlightOK, Answers, Fragments
  <2> QED BY <2>1, <2>2 DEF TypeOK
<1>2. Control'
  BY DEF IInv, Control
<1>3. Pinned' /\ SameLength'
  BY DEF IInv, Pinned, Representable, SameLength
<1>4. Traced' /\ AllCovered'
  BY DEF IInv, Traced, AllCovered, Covered, Reduces
<1>5. Cascading'
  BY DEF IInv, Cascading, KnownOf, Pending
<1>6. OnlyPeeled'
  BY DEF IInv, OnlyPeeled, Fragments
<1> QED BY <1>1, <1>2, <1>3, <1>4, <1>5, <1>6 DEF IInv

LEMMA NextIInv == IInv /\ [Next]_vars => IInv'
<1> SUFFICES ASSUME IInv, [Next]_vars PROVE IInv'
  OBVIOUS
<1>1. CASE UNCHANGED vars
  <2>1. UNCHANGED <<session, phase, part, simple, todo>> /\ outcome' \in Answers
    BY <1>1 DEF vars, IInv, TypeOK, FlightOK
  <2> QED BY <2>1, AnswerIInv
<1>2. ASSUME NEW o \in Answers, Answer(o)
      PROVE  IInv'
  BY <1>2, AnswerIInv DEF Answer
<1>3. CASE AnswerPoisoned
  <2>1. poisoned \in Answers
    BY <1>3 DEF AnswerPoisoned, IInv, TypeOK, FlightOK, Answers
  <2> QED BY <1>2, <1>3, <2>1 DEF AnswerPoisoned
<1>4. CASE AnswerComplete
  BY <1>2, <1>4 DEF AnswerComplete, Answers
<1>5. ASSUME NEW p \in Parts, Receive(p)
      PROVE  IInv'
  <2>1. CASE RejectEmpty(p)
    BY <1>2, <2>1 DEF RejectEmpty, Answers
  <2>2. CASE RejectSequence(p)
    BY <1>2, <2>2 DEF RejectSequence, Answers
  <2>3. CASE RejectInconsistent(p)
    BY <1>2, <2>3 DEF RejectInconsistent, Answers
  <2>4. CASE IgnoreDuplicate(p)
    BY <1>2, <2>4 DEF IgnoreDuplicate, Answers
  <2>5. CASE PoisonData(p)
    BY <2>5, PoisonAtCheckIInv DEF PoisonData, Poisons, Limits
  <2>6. CASE PoisonCount(p)
    BY <2>6, PoisonAtCheckIInv DEF PoisonCount, Poisons, Limits
  <2>7. CASE PoisonLength(p)
    BY <2>7, PoisonAtCheckIInv DEF PoisonLength, Poisons, Limits
  <2>8. CASE PoisonReceived(p)
    BY <2>8, PoisonReceivedIInv
  <2>9. CASE Accept(p)
    BY <2>9, AcceptIInv
  <2> QED BY <1>5, <2>1, <2>2, <2>3, <2>4, <2>5, <2>6, <2>7, <2>8, <2>9 DEF Receive
<1>6. CASE Ingest
  BY <1>6, IngestKnownIInv, IngestNewIInv, StripKnownIInv DEF Ingest
<1>7. CASE Drain
  BY <1>7, PopSimpleIInv, ReturnIInv, ReduceIInv DEF Drain
<1> QED BY <1>1, <1>3, <1>4, <1>5, <1>6, <1>7 DEF Next

(***************************************************************************)
(* The invariant holds of every decoder, whatever its limits and whatever   *)
(* parts it is given: the control of the reduction loop, what the buffer    *)
(* and the received set stand for, and what can have been recovered.        *)
(***************************************************************************)
THEOREM Invariance == Spec => []IInv
BY InitIInv, NextIInv, PTL DEF Spec

(* The type invariant of the decoder.                                      *)
THEOREM TypeCorrect == Spec => []TypeOK
<1>1. IInv => TypeOK
  BY DEF IInv
<1> QED BY <1>1, Invariance, PTL
-----------------------------------------------------------------------------
(* Between calls the least closed set of the accepted parts is known.      *)

LEMMA IInvPeelClosed ==
  ASSUME IInv, poisoned = Alive, phase # "ingest", queue = << >>, todo = {}
  PROVE  Peel!PeelClosed({Range(v) : v \in received}, DOMAIN decoded)
<1> SUFFICES ASSUME NEW r \in received, NEW i \in Range(r),
                    Range(r) \ {i} \subseteq DOMAIN decoded, i \notin DOMAIN decoded
             PROVE  FALSE
  BY DEF Peel!PeelClosed
<1>1. PICK v \in DOMAIN buffer : Reduces(v, r)
  BY DEF IInv, AllCovered, Covered
<1>2. KnownOf(v) = {}
  BY DEF IInv, Cascading, Pending
<1>3. Range(v) \subseteq {i}
  BY <1>1, <1>2 DEF Reduces, KnownOf
<1>4. IsIndexVector(v, meta.count) /\ meta.count \in Nat /\ Len(v) # 1
  BY DEF IInv, TypeOK, StoreOK, Cascading
<1>5. Range(v) # {} /\ Range(v) # {i}
  BY <1>4, LengthOneVector
<1> QED BY <1>3, <1>5

LEMMA IInvPeelExact == IInv => PeelExact
<1> SUFFICES ASSUME IInv, Session
             PROVE  Peel!IsPeeled({Range(v) : v \in received}, DOMAIN decoded, Fragments)
  BY DEF PeelExact
<1>1. phase = "idle" /\ poisoned = Alive /\ queue = << >> /\ todo = {}
  BY DEF Session, IInv, Control
<1>2. Peel!PeelClosed({Range(v) : v \in received}, DOMAIN decoded)
  BY <1>1, IInvPeelClosed
<1> QED BY <1>2 DEF Peel!IsPeeled, IInv, OnlyPeeled

(***************************************************************************)
(* Between calls a live decoder has recovered exactly the fragments that    *)
(* the accepted parts determine, in whatever order they arrived: the        *)
(* cascade of process_queue leaves nothing reducible behind.                *)
(***************************************************************************)
THEOREM PeelingExact == Spec => []PeelExact
BY Invariance, IInvPeelExact, PTL
-----------------------------------------------------------------------------
(* How the steps of a call look from outside.                              *)
LEMMA InsertReducedPeels ==
  ASSUME IInv, poisoned = Alive, phase # "idle",
         NEW rest, NEW vec, IsIndexVector(vec, meta.count), NEW data,
         \E r \in received : Reduces(vec, r),
         phase' # "idle", UNCHANGED received,
         Resolve(rest, vec, data) \/ Discard(rest, vec) \/ Keep(rest, vec, data)
  PROVE  [Peel!Next]_(Peel!vars)
<1>1. CASE Resolve(rest, vec, data)
  <2> DEFINE i == vec[1]
  <2>1. /\ Len(vec) = 1 /\ i \notin DOMAIN decoded
        /\ decoded' = Insert(decoded, i, data) /\ poisoned' = Alive
    BY <1>1 DEF Resolve
  <2>2. /\ meta.count \in Nat /\ meta.count <= MaxFragmentCount
        /\ Range(vec) \subseteq 0 .. meta.count - 1 /\ Range(vec) = {i}
    BY <2>1, LengthOneVector DEF IInv, TypeOK, StoreOK, Pinned
  <2>3. i \in 0 .. MaxFragmentCount - 1
    BY <2>2, LimitsAssumption
  <2>4. DOMAIN decoded' = DOMAIN decoded \cup {i}
    BY <2>1 DEF Insert
  <2>5. \E r \in received : Range(r) \ DOMAIN decoded = {i}
    BY <2>1, <2>2 DEF Reduces
  <2> HIDE DEF i
  <2>6. Peel!Learn(i)
    BY <2>1, <2>4, <2>5 DEF Peel!Learn
  <2> QED BY <2>3, <2>6 DEF Peel!Next
<1>2. CASE Discard(rest, vec) \/ Keep(rest, vec, data)
  BY <1>2 DEF Discard, Keep, Peel!vars
<1> QED BY <1>1, <1>2

LEMMA NextPeels == IInv /\ [Next]_vars => [Peel!Next]_(Peel!vars)
<1> SUFFICES ASSUME IInv, [Next]_vars PROVE [Peel!Next]_(Peel!vars)
  OBVIOUS
<1>1. CASE UNCHANGED vars
  BY <1>1 DEF vars, session, Peel!vars
<1>2. ASSUME NEW o, Answer(o)
      PROVE  [Peel!Next]_(Peel!vars)
  BY <1>2 DEF Answer, session, Peel!vars
<1>3. ASSUME NEW kind \in Poisons, Poison(kind), poisoned = Alive,
             UNCHANGED <<decoded, received>>
      PROVE  [Peel!Next]_(Peel!vars)
  <2>1. kind # Alive
    BY DEF Poisons, Limits, Alive
  <2>2. Peel!GiveUp
    BY <1>3, <2>1 DEF Poison, Peel!GiveUp
  <2> QED BY <2>2 DEF Peel!Next
<1>4. ASSUME NEW p \in Parts, Receive(p)
      PROVE  [Peel!Next]_(Peel!vars)
  <2>1. CASE RejectEmpty(p) \/ RejectSequence(p) \/ RejectInconsistent(p) \/ IgnoreDuplicate(p)
    BY <1>2, <2>1 DEF RejectEmpty, RejectSequence, RejectInconsistent, IgnoreDuplicate
  <2>2. CASE PoisonData(p) \/ PoisonCount(p) \/ PoisonLength(p) \/ PoisonReceived(p)
    BY <1>3, <2>2 DEF PoisonData, PoisonCount, PoisonLength, PoisonReceived, Unaltered,
       Listening, Poisons, Limits
  <2>3. CASE Accept(p)
    <3> DEFINE s == Range(Indexes(p))
    <3>1. /\ IsIndexVector(Indexes(p), p.count) /\ p.count \in Nat
          /\ p.count <= MaxFragmentCount
      BY <2>3, AdmissibleProperties DEF Accept
    <3>2. s # {} /\ s \subseteq 0 .. p.count - 1
      BY <3>1, LengthOneVector
    <3>3. s \in (SUBSET (0 .. MaxFragmentCount - 1)) \ {{}}
      <4>1. 0 .. p.count - 1 \subseteq 0 .. MaxFragmentCount - 1
        BY <3>1, LimitsAssumption
      <4> HIDE DEF s
      <4>2. s \subseteq 0 .. MaxFragmentCount - 1
        BY <3>2, <4>1, Zenon
      <4> QED BY <3>2, <4>2, Zenon
    <3>4. {Range(v) : v \in received'} = {Range(v) : v \in received} \cup {s}
      BY <2>3 DEF Accept
    <3> HIDE DEF s
    <3>5. Peel!Take(s)
      BY <2>3, <3>4 DEF Accept, Listening, Peel!Take
    <3> QED BY <3>3, <3>5 DEF Peel!Next
  <2> QED BY <1>4, <2>1, <2>2, <2>3 DEF Receive
<1>5. CASE Ingest
  <2>1. /\ phase = "ingest" /\ poisoned = Alive /\ IsIndexVector(part.vec, meta.count)
        /\ \E r \in received : Reduces(part.vec, r)
    BY <1>5 DEF Ingest, IngestKnown, IngestNew, StripKnown, IInv, Control, Traced
  <2>2. CASE IngestKnown
    BY <2>1, <2>2 DEF IngestKnown, EnterDrain, session, Peel!vars
  <2>3. ASSUME NEW i \in KnownOf(part.vec), StripKnown(i)
        PROVE  [Peel!Next]_(Peel!vars)
    BY <2>1, <2>3, StripKnownStep DEF Peel!vars
  <2>4. CASE IngestNew
    <3>1. CASE EnterDrain /\ (\/ Resolve(buffer, part.vec, part.data)
                              \/ Keep(buffer, part.vec, part.data))
      <4>1. phase' = "drain" /\ UNCHANGED received
        BY <3>1, <2>4 DEF EnterDrain, IngestNew
      <4> QED BY <2>1, <3>1, <4>1, InsertReducedPeels
    <3>2. CASE Overflow(buffer, part.vec)
      BY <1>3, <2>1, <2>4, <3>2 DEF Overflow, IngestNew, Poisons, Limits
    <3> QED BY <2>4, <3>1, <3>2 DEF IngestNew
  <2> QED BY <1>5, <2>2, <2>3, <2>4 DEF Ingest
<1>6. CASE Drain
  <2>1. phase = "drain" /\ poisoned = Alive
    BY <1>6 DEF Drain, PopSimple, Return, Reduce, IInv, Control
  <2>2. CASE PopSimple
    BY <2>1, <2>2 DEF PopSimple, Peel!vars
  <2>3. CASE Return
    <3>1. Peel!PeelClosed({Range(v) : v \in received}, DOMAIN decoded)
      BY <2>1, <2>3, IInvPeelClosed DEF Return
    <3>2. Peel!Return
      BY <2>1, <2>3, <3>1 DEF Return, session, Peel!Return
    <3> QED BY <3>2 DEF Peel!Next
  <2>4. ASSUME NEW v \in todo, Reduce(v)
        PROVE  [Peel!Next]_(Peel!vars)
    <3> DEFINE rest == Delete(buffer, v)
               vec  == Without(v, simple[1])
               data == Xor(buffer[v], simple[2])
    <3>1. /\ v \in DOMAIN buffer /\ simple[1] \in Range(v) /\ simple[1] \in DOMAIN decoded
          /\ buffer[v].len = simple[2].len
          /\ IsIndexVector(vec, meta.count) /\ Range(vec) = Range(v) \ {simple[1]}
      BY <2>1, ReduceStep
    <3>2. /\ \/ /\ Resolve(rest, vec, data) \/ Discard(rest, vec) \/ Keep(rest, vec, data)
                /\ UNCHANGED phase
             \/ Overflow(rest, vec)
          /\ UNCHANGED received
      BY <2>4, <3>1 DEF Reduce
    <3>3. \E r \in received : Reduces(vec, r)
      <4>1. PICK r \in received : Reduces(v, r)
        BY <3>1 DEF IInv, Traced
      <4> QED BY <4>1, <3>1 DEF Reduces
    <3> HIDE DEF rest, vec, data
    <3>4. CASE Overflow(rest, vec)
      BY <1>3, <2>1, <3>2, <3>4 DEF Overflow, Poisons, Limits
    <3>5. CASE /\ Resolve(rest, vec, data) \/ Discard(rest, vec) \/ Keep(rest, vec, data)
               /\ UNCHANGED phase
      BY <2>1, <3>1, <3>2, <3>3, <3>5, InsertReducedPeels
    <3> QED BY <3>2, <3>4, <3>5
  <2> QED BY <1>6, <2>2, <2>3, <2>4 DEF Drain
<1>7. CASE AnswerPoisoned \/ AnswerComplete
  BY <1>2, <1>7 DEF AnswerPoisoned, AnswerComplete
<1> QED BY <1>1, <1>4, <1>5, <1>6, <1>7 DEF Next

(***************************************************************************)
(* The decoder implements Peeling: seen from outside a call takes a part,   *)
(* learns fragments one by one from the parts it has, and returns only when *)
(* no part would give another; a limit closes it for good.                  *)
(***************************************************************************)
THEOREM Refinement == Spec => ImplementsPeeling
<1>1. Init => Peel!Init
  BY DEF Init, NoMap, Peel!Init
<1>2. IInv /\ [Next]_vars => [Peel!Next]_(Peel!vars)
  BY NextPeels
<1> QED BY <1>1, <1>2, Invariance, PTL DEF Spec, ImplementsPeeling, Peel!Spec
-----------------------------------------------------------------------------
(* Progress.                                                               *)

Kept ==
  /\ \A i \in DOMAIN decoded : i \in DOMAIN decoded' /\ decoded'[i] = decoded[i]
  /\ received \subseteq received'
  /\ received # {} => meta' = meta
  /\ poisoned # Alive => poisoned' = poisoned

LEMMA NextKept == IInv /\ [Next]_vars => Kept
<1> SUFFICES ASSUME IInv, [Next]_vars PROVE Kept
  OBVIOUS
<1>1. ASSUME NEW rest, NEW vec, NEW data, UNCHANGED <<received, meta>>, poisoned = Alive,
             \/ Resolve(rest, vec, data) \/ Discard(rest, vec) \/ Keep(rest, vec, data)
             \/ Overflow(rest, vec)
      PROVE  Kept
  BY <1>1 DEF Kept, Resolve, Discard, Keep, Overflow, Insert
<1>2. CASE UNCHANGED session
  BY <1>2 DEF session, Kept
<1>3. CASE UNCHANGED vars \/ AnswerPoisoned \/ AnswerComplete
  BY <1>2, <1>3 DEF vars, AnswerPoisoned, AnswerComplete, Answer
<1>4. ASSUME NEW p \in Parts, Receive(p)
      PROVE  Kept
  <2>1. CASE RejectEmpty(p) \/ RejectSequence(p) \/ RejectInconsistent(p) \/ IgnoreDuplicate(p)
    BY <1>2, <2>1 DEF RejectEmpty, RejectSequence, RejectInconsistent, IgnoreDuplicate, Answer
  <2>2. CASE PoisonData(p) \/ PoisonCount(p) \/ PoisonLength(p)
    BY <2>2 DEF PoisonData, PoisonCount, PoisonLength, Listening, Unaltered, Kept
  <2>3. CASE PoisonReceived(p) \/ Accept(p)
    <3>1. received # {} => meta' = meta
      BY <2>3, AdmissibleProperties DEF PoisonReceived, Accept
    <3> QED BY <2>3, <3>1 DEF PoisonReceived, Accept, Listening, Unaltered, Kept
  <2> QED BY <1>4, <2>1, <2>2, <2>3 DEF Receive
<1>5. CASE Ingest
  <2>1. phase = "ingest" /\ poisoned = Alive
    BY <1>5 DEF Ingest, IngestKnown, IngestNew, StripKnown, IInv, Control
  <2>2. CASE IngestKnown
    BY <1>2, <2>2 DEF IngestKnown
  <2>3. ASSUME NEW i \in KnownOf(part.vec), StripKnown(i)
        PROVE  Kept
    BY <2>3, StripKnownStep DEF Kept
  <2>4. CASE IngestNew
    BY <1>1, <2>1, <2>4 DEF IngestNew
  <2> QED BY <1>5, <2>2, <2>3, <2>4 DEF Ingest
<1>6. CASE Drain
  <2>1. phase = "drain" /\ poisoned = Alive
    BY <1>6 DEF Drain, PopSimple, Return, Reduce, IInv, Control
  <2>2. CASE PopSimple \/ Return
    BY <2>2 DEF PopSimple, Return, session, Kept
  <2>3. ASSUME NEW v \in todo, Reduce(v)
        PROVE  Kept
    <3> DEFINE rest == Delete(buffer, v)
               vec  == Without(v, simple[1])
               data == Xor(buffer[v], simple[2])
    <3>1. /\ v \in DOMAIN buffer /\ simple[1] \in Range(v)
          /\ buffer[v].len = simple[2].len
      BY <2>1, <2>3, ReduceStep
    <3>2. /\ \/ Resolve(rest, vec, data) \/ Discard(rest, vec) \/ Keep(rest, vec, data)
             \/ Overflow(rest, vec)
          /\ UNCHANGED <<received, meta>>
      BY <2>3, <3>1 DEF Reduce
    <3> HIDE DEF rest, vec, data
    <3> QED BY <1>1, <2>1, <3>2
  <2> QED BY <1>6, <2>2, <2>3 DEF Drain
<1> QED BY <1>3, <1>4, <1>5, <1>6 DEF Next

(***************************************************************************)
(* What a session has recovered and what it is pinned to survives whatever  *)
(* is presented later, and so does the reason it was poisoned for.          *)
(***************************************************************************)
THEOREM ProgressIsKept == Spec => ProgressKept
BY Invariance, NextKept, PTL DEF Spec, ProgressKept, Kept
-----------------------------------------------------------------------------
(* Payloads.                                                               *)

LEMMA MixtureProperties ==
  ASSUME NEW m, NEW R, NEW i \in R
  PROVE  (Mixture(m, R) \cup Mixture(m, {i})) \ (Mixture(m, R) \cap Mixture(m, {i}))
           = Mixture(m, R \ {i})
<1>1. \A j, k : <<m, j>> = <<m, k>> => j = k
  OBVIOUS
<1> QED BY <1>1 DEF Mixture

LEMMA InitExact == Init => ExactInv
BY DEF Init, NoMap, ExactInv, TruePayloads, TrueFragments

LEMMA InsertReducedTrue ==
  ASSUME IInv, TruePayloads,
         NEW rest, DOMAIN rest \subseteq DOMAIN buffer,
         \A w \in DOMAIN rest : rest[w] = buffer[w],
         NEW vec, IsIndexVector(vec, meta.count),
         NEW data, data.sum = Mixture(meta, Range(vec)),
         phase' # "ingest", UNCHANGED meta,
         Resolve(rest, vec, data) \/ Discard(rest, vec) \/ Keep(rest, vec, data)
  PROVE  TruePayloads'
<1>0. /\ \A i \in DOMAIN decoded : decoded[i].sum = Mixture(meta, {i})
      /\ \A w \in DOMAIN rest : rest[w].sum = Mixture(meta, Range(w))
      /\ meta.count \in Nat
  BY DEF TruePayloads, TrueFragments, IInv, TypeOK, StoreOK
<1>1. CASE Resolve(rest, vec, data)
  <2>1. Range(vec) = {vec[1]}
    BY <1>0, <1>1, LengthOneVector DEF Resolve
  <2>2. data.sum = Mixture(meta, {vec[1]})
    BY <2>1
  <2> QED BY <1>0, <1>1, <2>2 DEF Resolve, Insert, TruePayloads, TrueFragments
<1>2. CASE Discard(rest, vec)
  BY <1>0, <1>2 DEF Discard, TruePayloads, TrueFragments
<1>3. CASE Keep(rest, vec, data)
  BY <1>0, <1>3 DEF Keep, Insert, TruePayloads, TrueFragments
<1> QED BY <1>1, <1>2, <1>3

(* What is recovered stays true as long as only honest parts are accepted.  *)
LEMMA NextTrue ==
  ASSUME IInv, TruePayloads, [Next]_vars, \A p \in Parts : Accept(p) => IsHonest(p)
  PROVE  TruePayloads'
<1>0. /\ \A i \in DOMAIN decoded : decoded[i].sum = Mixture(meta, {i})
      /\ \A w \in DOMAIN buffer : buffer[w].sum = Mixture(meta, Range(w))
      /\ phase = "ingest" => part.data.sum = Mixture(meta, Range(part.vec))
  BY DEF TruePayloads, TrueFragments
<1>1. ASSUME UNCHANGED <<decoded, buffer, meta>>,
             phase' # "ingest" \/ UNCHANGED <<phase, part>>
      PROVE  TruePayloads'
  BY <1>0, <1>1 DEF TruePayloads, TrueFragments
<1>2. CASE UNCHANGED vars
  BY <1>1, <1>2 DEF vars, session
<1>3. CASE AnswerPoisoned \/ AnswerComplete
  BY <1>1, <1>3 DEF AnswerPoisoned, AnswerComplete, Answer, session
<1>4. ASSUME NEW p \in Parts, Receive(p)
      PROVE  TruePayloads'
  <2>1. CASE RejectEmpty(p) \/ RejectSequence(p) \/ RejectInconsistent(p) \/ IgnoreDuplicate(p)
    BY <1>1, <2>1 DEF RejectEmpty, RejectSequence, RejectInconsistent, IgnoreDuplicate,
       Answer, session
  <2>2. CASE PoisonData(p) \/ PoisonCount(p) \/ PoisonLength(p)
    BY <1>1, <2>2 DEF PoisonData, PoisonCount, PoisonLength, Unaltered, Poison
  <2>3. CASE PoisonReceived(p) \/ Accept(p)
    <3>1. /\ received = {} => DOMAIN decoded = {} /\ DOMAIN buffer = {}
          /\ received # {} => meta' = meta
          /\ UNCHANGED <<decoded, buffer>> /\ meta' = MetaOf(p)
      BY <2>3, AdmissibleProperties DEF PoisonReceived, Accept, Unaltered, IInv, Pinned
    <3>2. TrueFragments'
      BY <1>0, <3>1 DEF TrueFragments
    <3>3. CASE PoisonReceived(p)
      BY <3>2, <3>3 DEF PoisonReceived, Poison, TruePayloads
    <3>4. CASE Accept(p)
      <4>1. p.data.sum = Mixture(MetaOf(p), Range(Indexes(p)))
        BY <3>4 DEF IsHonest
      <4> QED BY <3>1, <3>2, <3>4, <4>1 DEF Accept, TruePayloads
    <3> QED BY <2>3, <3>3, <3>4
  <2> QED BY <1>4, <2>1, <2>2, <2>3 DEF Receive
<1>5. CASE Ingest
  <2>0. phase = "ingest" /\ IsIndexVector(part.vec, meta.count)
    BY <1>5 DEF Ingest, IngestKnown, IngestNew, StripKnown, IInv, Control
  <2>1. CASE IngestKnown
    BY <1>1, <2>1 DEF IngestKnown, EnterDrain, session
  <2>2. ASSUME NEW i \in KnownOf(part.vec), StripKnown(i)
        PROVE  TruePayloads'
    <3>1. /\ i \in Range(part.vec) /\ i \in DOMAIN decoded
          /\ Range(part'.vec) = Range(part.vec) \ {i}
          /\ part'.data = Xor(part.data, decoded[i])
          /\ part.data \in Payload /\ decoded[i] \in Payload
          /\ UNCHANGED <<decoded, buffer, meta>>
      BY <2>2, StripKnownStep
    <3>2. part'.data.sum = Mixture(meta, Range(part'.vec))
      <4>1. /\ part.data.sum = Mixture(meta, Range(part.vec))
            /\ decoded[i].sum = Mixture(meta, {i})
        BY <1>0, <2>0, <3>1
      <4>2. Xor(part.data, decoded[i]).sum =
              (part.data.sum \cup decoded[i].sum) \ (part.data.sum \cap decoded[i].sum)
        BY <3>1, XorProperties
      <4>3. Xor(part.data, decoded[i]).sum = Mixture(meta, Range(part.vec) \ {i})
        BY <3>1, <4>1, <4>2, MixtureProperties
      <4> QED BY <3>1, <4>3
    <3> QED BY <1>0, <3>1, <3>2 DEF TruePayloads, TrueFragments
  <2>3. CASE IngestNew
    <3>1. CASE EnterDrain /\ (\/ Resolve(buffer, part.vec, part.data)
                              \/ Keep(buffer, part.vec, part.data))
      <4>1. phase' # "ingest" /\ UNCHANGED meta
        BY <2>3, <3>1 DEF EnterDrain, IngestNew
      <4>2. part.data.sum = Mixture(meta, Range(part.vec))
        BY <1>0, <2>0
      <4> QED BY <2>0, <3>1, <4>1, <4>2, InsertReducedTrue
    <3>2. CASE Overflow(buffer, part.vec)
      BY <1>1, <2>3, <3>2 DEF IngestNew, Overflow, Poison
    <3> QED BY <2>3, <3>1, <3>2 DEF IngestNew
  <2> QED BY <1>5, <2>1, <2>2, <2>3 DEF Ingest
<1>6. CASE Drain
  <2>1. CASE PopSimple
    BY <1>1, <2>1 DEF PopSimple
  <2>2. CASE Return
    BY <1>1, <2>2 DEF Return, session
  <2>3. ASSUME NEW v \in todo, Reduce(v)
        PROVE  TruePayloads'
    <3> DEFINE rest == Delete(buffer, v)
               vec  == Without(v, simple[1])
               data == Xor(buffer[v], simple[2])
    <3>1. /\ phase = "drain"
          /\ v \in DOMAIN buffer /\ simple[1] \in Range(v) /\ simple[1] \in DOMAIN decoded
          /\ buffer[v].len = simple[2].len /\ simple[2] = decoded[simple[1]]
          /\ IsIndexVector(vec, meta.count) /\ Range(vec) = Range(v) \ {simple[1]}
          /\ buffer[v] \in Payload /\ simple[2] \in Payload
      BY <2>3, ReduceStep DEF Reduce, IInv, Control, TypeOK, StoreOK
    <3>2. /\ \/ /\ Resolve(rest, vec, data) \/ Discard(rest, vec) \/ Keep(rest, vec, data)
                /\ UNCHANGED phase
             \/ Overflow(rest, vec)
          /\ UNCHANGED meta
      BY <2>3, <3>1 DEF Reduce
    <3>3. data.sum = Mixture(meta, Range(vec))
      <4>1. /\ buffer[v].sum = Mixture(meta, Range(v))
            /\ simple[2].sum = Mixture(meta, {simple[1]})
        BY <1>0, <3>1
      <4>2. Xor(buffer[v], simple[2]).sum =
              (buffer[v].sum \cup simple[2].sum) \ (buffer[v].sum \cap simple[2].sum)
        BY <3>1, XorProperties
      <4>3. Xor(buffer[v], simple[2]).sum = Mixture(meta, Range(v) \ {simple[1]})
        BY <3>1, <4>1, <4>2, MixtureProperties
      <4> QED BY <3>1, <4>3
    <3>4. /\ DOMAIN rest \subseteq DOMAIN buffer
          /\ \A w \in DOMAIN rest : rest[w] = buffer[w]
      BY DEF Delete, Restrict
    <3> HIDE DEF rest, vec, data
    <3>5. CASE Overflow(rest, vec)
      BY <1>0, <3>2, <3>4, <3>5 DEF Overflow, Poison, TruePayloads, TrueFragments
    <3>6. CASE /\ Resolve(rest, vec, data) \/ Discard(rest, vec) \/ Keep(rest, vec, data)
               /\ UNCHANGED phase
      BY <3>1, <3>2, <3>3, <3>4, <3>6, InsertReducedTrue
    <3> QED BY <3>2, <3>5, <3>6
  <2> QED BY <1>6, <2>1, <2>2, <2>3 DEF Drain
<1> QED BY <1>2, <1>3, <1>4, <1>5, <1>6 DEF Next

LEMMA NextExact == IInv /\ ExactInv /\ [Next]_vars => ExactInv'
<1> SUFFICES ASSUME IInv, ExactInv, [Next]_vars, HonestParts' PROVE TruePayloads'
  BY DEF ExactInv
<1>1. TruePayloads
  <2>1. CASE received = {}
    BY <2>1 DEF IInv, Pinned, TruePayloads, TrueFragments
  <2>2. CASE received # {}
    BY <2>2, NextKept DEF Kept, HonestParts, ExactInv
  <2> QED BY <2>1, <2>2
<1>2. \A p \in Parts : Accept(p) => IsHonest(p)
  BY DEF Accept, HonestParts
<1> QED BY <1>1, <1>2, NextTrue

(***************************************************************************)
(* If every part with the pinned header is as the encoder of that header    *)
(* makes it, then the XOR bookkeeping of process_complex,                   *)
(* reduce_buffered_part and insert_reduced only ever yields true fragments  *)
(* and true mixtures, whatever parts of other headers come in between.      *)
(***************************************************************************)
THEOREM Exactness == Spec => []FragmentsExact
<1>1. ExactInv => FragmentsExact
  BY DEF ExactInv, TruePayloads, FragmentsExact
<1> QED BY <1>1, InitExact, NextExact, Invariance, PTL DEF Spec
-----------------------------------------------------------------------------
(* Limits.                                                                 *)

BoundInv ==
  /\ IsFiniteSet(received) /\ IsFiniteSet(DOMAIN buffer) /\ IsFiniteSet(DOMAIN decoded)
  /\ MemoryBounded

LEMMA InitBound == Init => BoundInv
BY FS_EmptySet, LimitsAssumption DEF Init, NoMap, BoundInv, MemoryBounded

LEMMA CardinalityOfInsert ==
  ASSUME NEW f, NEW x, NEW y, IsFiniteSet(DOMAIN f)
  PROVE  /\ IsFiniteSet(DOMAIN Insert(f, x, y))
         /\ Cardinality(DOMAIN Insert(f, x, y)) =
              IF x \in DOMAIN f THEN Cardinality(DOMAIN f) ELSE Cardinality(DOMAIN f) + 1
<1>1. DOMAIN Insert(f, x, y) = DOMAIN f \cup {x}
  BY DEF Insert
<1> QED BY <1>1, FS_AddElement

(* `rest' is the buffer (ingest) or the buffer less one entry (reduction).  *)
LEMMA InsertReducedBound ==
  ASSUME BoundInv, NEW rest, NEW vec, NEW data,
         IsFiniteSet(DOMAIN rest), Cardinality(DOMAIN rest) <= MaxBufferParts,
         Cardinality(DOMAIN rest) + Cardinality(DOMAIN decoded) + 1 <= Cardinality(received),
         phase' # "ingest", UNCHANGED received,
         \/ Resolve(rest, vec, data) \/ Discard(rest, vec) \/ Keep(rest, vec, data)
         \/ Overflow(rest, vec)
  PROVE  BoundInv'
<1>0. /\ Cardinality(DOMAIN rest) \in Nat /\ Cardinality(DOMAIN decoded) \in Nat
      /\ Cardinality(received) \in Nat /\ Cardinality(received) <= MaxReceivedParts
      /\ IsFiniteSet(received) /\ IsFiniteSet(DOMAIN decoded)
  BY FS_CardinalityType DEF BoundInv, MemoryBounded
<1>1. CASE Resolve(rest, vec, data)
  <2>1. /\ IsFiniteSet(DOMAIN decoded')
        /\ Cardinality(DOMAIN decoded') = Cardinality(DOMAIN decoded) + 1
        /\ buffer' = rest
    BY <1>0, <1>1, CardinalityOfInsert DEF Resolve
  <2> QED BY <1>0, <2>1 DEF BoundInv, MemoryBounded
<1>2. CASE Discard(rest, vec) \/ Overflow(rest, vec)
  <2>1. UNCHANGED decoded /\ buffer' = rest
    BY <1>2 DEF Discard, Overflow
  <2> QED BY <1>0, <2>1, LimitsAssumption DEF BoundInv, MemoryBounded
<1>3. CASE Keep(rest, vec, data)
  <2>1. UNCHANGED decoded /\ buffer' = Insert(rest, vec, data)
    BY <1>3 DEF Keep
  <2>2. /\ IsFiniteSet(DOMAIN buffer')
        /\ Cardinality(DOMAIN buffer') \in
             {Cardinality(DOMAIN rest), Cardinality(DOMAIN rest) + 1}
        /\ Cardinality(DOMAIN buffer') <= MaxBufferParts
    <3>1. /\ IsFiniteSet(DOMAIN Insert(rest, vec, data))
          /\ Cardinality(DOMAIN Insert(rest, vec, data)) =
               IF vec \in DOMAIN rest THEN Cardinality(DOMAIN rest)
                                      ELSE Cardinality(DOMAIN rest) + 1
      BY CardinalityOfInsert
    <3> QED BY <1>0, <1>3, <2>1, <3>1, LimitsAssumption DEF Keep, HasRoom
  <2> QED BY <1>0, <2>1, <2>2, LimitsAssumption DEF BoundInv, MemoryBounded
<1> QED BY <1>1, <1>2, <1>3

LEMMA BufferWithout ==
  ASSUME BoundInv, NEW v \in DOMAIN buffer
  PROVE  /\ IsFiniteSet(DOMAIN Delete(buffer, v))
         /\ Cardinality(DOMAIN Delete(buffer, v)) = Cardinality(DOMAIN buffer) - 1
         /\ Cardinality(DOMAIN Delete(buffer, v)) < MaxBufferParts
<1>1. DOMAIN Delete(buffer, v) = DOMAIN buffer \ {v}
  BY DEF Delete, Restrict
<1>2. /\ IsFiniteSet(DOMAIN buffer) /\ Cardinality(DOMAIN buffer) \in Nat
      /\ Cardinality(DOMAIN buffer) <= MaxBufferParts
  BY FS_CardinalityType DEF BoundInv, MemoryBounded
<1>3. /\ IsFiniteSet(DOMAIN buffer \ {v})
      /\ Cardinality(DOMAIN buffer \ {v}) = Cardinality(DOMAIN buffer) - 1
  BY <1>2, FS_RemoveElement
<1> QED BY <1>1, <1>2, <1>3, LimitsAssumption

(* A reduction makes room before it needs it.                              *)
LEMMA ReduceNeverFails ==
  ASSUME IInv, BoundInv, NEW v \in todo, Reduce(v)
  PROVE  LET rest == Delete(buffer, v)
             vec  == Without(v, simple[1])
             data == Xor(buffer[v], simple[2])
         IN  /\ v \in DOMAIN buffer /\ phase = "drain"
             /\ Resolve(rest, vec, data) \/ Discard(rest, vec) \/ Keep(rest, vec, data)
             /\ UNCHANGED <<received, meta, phase>>
<1> DEFINE rest == Delete(buffer, v)
           vec  == Without(v, simple[1])
           data == Xor(buffer[v], simple[2])
<1>1. /\ phase = "drain" /\ v \in DOMAIN buffer /\ simple[1] \in Range(v)
      /\ buffer[v].len = simple[2].len
  BY ReduceStep DEF Reduce
<1>2. HasRoom(rest, vec)
  BY <1>1, BufferWithout DEF HasRoom
<1>3. /\ \/ /\ Resolve(rest, vec, data) \/ Discard(rest, vec) \/ Keep(rest, vec, data)
            /\ UNCHANGED phase
         \/ Overflow(rest, vec)
      /\ UNCHANGED <<received, meta>>
  BY <1>1 DEF Reduce
<1> HIDE DEF rest, vec, data
<1>4. ~Overflow(rest, vec)
  BY <1>2 DEF Overflow
<1> QED BY <1>1, <1>3, <1>4 DEF rest, vec, data

LEMMA NextBound == IInv /\ BoundInv /\ [Next]_vars => BoundInv'
<1> SUFFICES ASSUME IInv, BoundInv, [Next]_vars PROVE BoundInv'
  OBVIOUS
<1>0. /\ Cardinality(DOMAIN buffer) \in Nat /\ Cardinality(DOMAIN decoded) \in Nat
      /\ Cardinality(received) \in Nat /\ Cardinality(DOMAIN buffer) <= MaxBufferParts
      /\ Cardinality(DOMAIN buffer) + Cardinality(DOMAIN decoded)
           + (IF phase = "ingest" THEN 1 ELSE 0) <= Cardinality(received)
      /\ IsFiniteSet(received) /\ IsFiniteSet(DOMAIN buffer)
  BY FS_CardinalityType DEF BoundInv, MemoryBounded
<1>1. ASSUME UNCHANGED <<decoded, buffer, received>>, phase' # "ingest" \/ UNCHANGED phase
      PROVE  BoundInv'
  BY <1>0, <1>1 DEF BoundInv, MemoryBounded
<1>2. CASE UNCHANGED vars
  BY <1>1, <1>2 DEF vars, session
<1>3. CASE AnswerPoisoned \/ AnswerComplete
  BY <1>1, <1>3 DEF AnswerPoisoned, AnswerComplete, Answer, session
<1>4. ASSUME NEW p \in Parts, Receive(p)
      PROVE  BoundInv'
  <2>1. CASE RejectEmpty(p) \/ RejectSequence(p) \/ RejectInconsistent(p) \/ IgnoreDuplicate(p)
    BY <1>1, <2>1 DEF RejectEmpty, RejectSequence, RejectInconsistent, IgnoreDuplicate,
       Answer, session
  <2>2. CASE PoisonData(p) \/ PoisonCount(p) \/ PoisonLength(p) \/ PoisonReceived(p)
    BY <1>1, <2>2 DEF PoisonData, PoisonCount, PoisonLength, PoisonReceived, Unaltered, Poison
  <2>3. CASE Accept(p)
    <3>1. /\ IsFiniteSet(received')
          /\ Cardinality(received') = Cardinality(received) + 1
          /\ Cardinality(received) < MaxReceivedParts
          /\ phase = "idle" /\ UNCHANGED <<decoded, buffer>>
      BY <1>0, <2>3, FS_AddElement DEF Accept, IsDuplicate, Listening
    <3> QED BY <1>0, <3>1, LimitsAssumption DEF BoundInv, MemoryBounded
  <2> QED BY <1>4, <2>1, <2>2, <2>3 DEF Receive
<1>5. CASE Ingest
  <2>1. CASE IngestKnown
    BY <1>1, <2>1 DEF IngestKnown, EnterDrain, session
  <2>2. ASSUME NEW i \in KnownOf(part.vec), StripKnown(i)
        PROVE  BoundInv'
    BY <1>1, <2>2, StripKnownStep
  <2>3. CASE IngestNew
    <3>1. /\ phase = "ingest" /\ phase' # "ingest" /\ UNCHANGED received
          /\ \/ Resolve(buffer, part.vec, part.data) \/ Keep(buffer, part.vec, part.data)
             \/ Overflow(buffer, part.vec)
      BY <2>3 DEF IngestNew, EnterDrain, Overflow, Poison
    <3> QED BY <1>0, <3>1, InsertReducedBound
  <2> QED BY <1>5, <2>1, <2>2, <2>3 DEF Ingest
<1>6. CASE Drain
  <2>1. CASE PopSimple \/ Return
    BY <1>1, <2>1 DEF PopSimple, Return, session
  <2>2. ASSUME NEW v \in todo, Reduce(v)
        PROVE  BoundInv'
    <3> DEFINE rest == Delete(buffer, v)
               vec  == Without(v, simple[1])
               data == Xor(buffer[v], simple[2])
    <3>1. /\ v \in DOMAIN buffer /\ phase = "drain" /\ UNCHANGED <<received, phase>>
          /\ Resolve(rest, vec, data) \/ Discard(rest, vec) \/ Keep(rest, vec, data)
      BY <2>2, ReduceNeverFails
    <3>2. /\ IsFiniteSet(DOMAIN rest)
          /\ Cardinality(DOMAIN rest) = Cardinality(DOMAIN buffer) - 1
      BY <3>1, BufferWithout
    <3> HIDE DEF rest, vec, data
    <3> QED BY <1>0, <3>1, <3>2, LimitsAssumption, InsertReducedBound
  <2> QED BY <1>6, <2>1, <2>2 DEF Drain
<1> QED BY <1>2, <1>3, <1>4, <1>5, <1>6 DEF Next

(***************************************************************************)
(* The buffer and the received set stay within their limits, and every      *)
(* accepted part accounts for at most one recovered fragment or one         *)
(* buffered mixture.                                                        *)
(***************************************************************************)
THEOREM Bounded == Spec => []MemoryBounded
<1>1. BoundInv => MemoryBounded
  BY DEF BoundInv
<1> QED BY <1>1, InitBound, NextBound, Invariance, PTL DEF Spec

LEMMA DrainStep == IInv /\ BoundInv /\ [Next]_vars => (phase = "drain" => poisoned' = poisoned)
<1> SUFFICES ASSUME IInv, BoundInv, [Next]_vars, phase = "drain" PROVE poisoned' = poisoned
  OBVIOUS
<1>1. CASE UNCHANGED vars
  BY <1>1 DEF vars, session
<1>2. CASE PopSimple \/ Return
  BY <1>2 DEF PopSimple, Return, session
<1>3. ASSUME NEW v \in todo, Reduce(v)
      PROVE  poisoned' = poisoned
  BY <1>3, ReduceNeverFails DEF Resolve, Discard, Keep
<1>4. ~(\E p \in Parts : Receive(p)) /\ ~AnswerPoisoned /\ ~AnswerComplete /\ ~Ingest
  BY DEF Receive, RejectEmpty, RejectSequence, RejectInconsistent, PoisonData, PoisonCount,
     PoisonLength, PoisonReceived, IgnoreDuplicate, Accept, Listening, AnswerPoisoned,
     AnswerComplete, Ingest, IngestKnown, IngestNew, StripKnown
<1> QED BY <1>1, <1>2, <1>3, <1>4 DEF Next, Drain

(***************************************************************************)
(* No reduction ever fails: once the ingest of a part has succeeded, the    *)
(* cascade that follows cannot poison the decoder.                          *)
(***************************************************************************)
THEOREM DrainSucceeds == Spec => DrainNeverPoisons
BY InitBound, NextBound, Invariance, DrainStep, PTL DEF Spec, DrainNeverPoisons
-----------------------------------------------------------------------------
(* Redelivery.                                                             *)

(* A stream has finitely many vectors, even where it has infinitely many   *)
(* parts: vectors of distinct indexes are injections into 0 .. c - 1.      *)
LEMMA VectorsFinite ==
  ASSUME NEW c \in Nat, NEW V, \A v \in V : v = << >> \/ IsIndexVector(v, c)
  PROVE  IsFiniteSet(V)
<1> DEFINE cells == (1 .. c) \X (0 .. c - 1)
           graph(v) == {<<k, v[k]>> : k \in DOMAIN v}
           f == [v \in V |-> graph(v)]
<1>1. /\ IsFiniteSet(1 .. c) /\ IsFiniteSet(0 .. c - 1)
      /\ Cardinality(1 .. c) = c /\ Cardinality(0 .. c - 1) = c
  <2>1. 0 \in Int /\ 1 \in Int /\ c \in Int /\ c - 1 \in Int
    OBVIOUS
  <2> QED BY <2>1, FS_Interval
<1>2. IsFiniteSet(SUBSET cells)
  BY <1>1, FS_Product, FS_SUBSET
<1>3. ASSUME NEW v \in V, IsIndexVector(v, c)
      PROVE  /\ Len(v) \in Nat /\ v \in [1 .. Len(v) -> 0 .. c - 1]
             /\ Len(v) <= c
  <2>1. /\ v \in Seq(0 .. c - 1) /\ \A j, k \in DOMAIN v : v[j] = v[k] => j = k
    BY <1>3 DEF IsIndexVector
  <2>2. Len(v) \in Nat /\ v \in [1 .. Len(v) -> 0 .. c - 1] /\ DOMAIN v = 1 .. Len(v)
    BY <2>1, LenProperties
  <2>3. v \in Injection(1 .. Len(v), 0 .. c - 1)
    BY <2>1, <2>2 DEF Injection, IsInjective
  <2>4. Cardinality(1 .. Len(v)) <= c
    BY <1>1, <2>3, FS_Injection
  <2>5. Cardinality(1 .. Len(v)) = Len(v)
    <3>1. 1 \in Int /\ Len(v) \in Int
      BY <2>2
    <3>2. Cardinality(1 .. Len(v)) = IF 1 > Len(v) THEN 0 ELSE Len(v) - 1 + 1
      BY <3>1, FS_Interval
    <3> QED BY <2>2, <3>2
  <2> QED BY <2>2, <2>4, <2>5
<1>4. ASSUME NEW v \in V
      PROVE  graph(v) \in SUBSET cells /\ \E n \in 0 .. c : v \in [1 .. n -> 0 .. c - 1]
  <2>1. CASE v = << >>
    BY <2>1
  <2>2. CASE IsIndexVector(v, c)
    BY <2>2, <1>3
  <2> QED BY <2>1, <2>2
<1>5. ASSUME NEW v \in V, NEW w \in V, graph(v) = graph(w)
      PROVE  v = w
  <2>1. PICK n \in 0 .. c : v \in [1 .. n -> 0 .. c - 1]
    BY <1>4
  <2>2. PICK m \in 0 .. c : w \in [1 .. m -> 0 .. c - 1]
    BY <1>4
  <2>3. ASSUME NEW k \in 1 .. n
        PROVE  k \in 1 .. m /\ v[k] = w[k]
    <3>1. <<k, v[k]>> \in graph(w)
      BY <1>5, <2>1
    <3>2. PICK j \in 1 .. m : <<k, v[k]>> = <<j, w[j]>>
      BY <2>2, <3>1
    <3> QED BY <3>2
  <2>4. ASSUME NEW k \in 1 .. m
        PROVE  k \in 1 .. n
    <3>1. <<k, w[k]>> \in graph(v)
      BY <1>5, <2>2
    <3>2. PICK j \in 1 .. n : <<k, w[k]>> = <<j, v[j]>>
      BY <2>1, <3>1
    <3> QED BY <3>2
  <2>5. n = m
    BY <2>3, <2>4
  <2> QED BY <2>1, <2>2, <2>3, <2>5
<1>6. f \in Injection(V, SUBSET cells)
  BY <1>4, <1>5 DEF Injection, IsInjective
<1> HIDE DEF cells, graph, f
<1> QED BY <1>2, <1>6, FS_Injection

LEMMA VectorsOfFinite ==
  ASSUME NEW h
  PROVE  IsFiniteSet(VectorsOf(h))
<1>1. CASE \E p \in Parts : MetaOf(p) = h
  <2>1. PICK p \in Parts : MetaOf(p) = h
    BY <1>1
  <2>2. h.count \in Nat
    BY <2>1, PartsAssumption DEF MetaOf
  <2>3. ASSUME NEW q \in Parts, MetaOf(q) = h
        PROVE  Indexes(q) = << >> \/ IsIndexVector(Indexes(q), h.count)
    <3>1. q.count = h.count /\ q.seq \in Nat
      BY <2>3, PartsAssumption DEF MetaOf
    <3>2. CASE q.seq = 0 \/ q.count = 0
      BY <3>2 DEF Indexes, ChooseFragments
    <3>3. CASE q.seq # 0 /\ q.count # 0 /\ q.seq <= q.count
      <4>1. Indexes(q) = <<q.seq - 1>> /\ q.seq - 1 \in 0 .. h.count - 1
        BY <2>2, <3>1, <3>3 DEF Indexes, ChooseFragments
      <4> QED BY <4>1 DEF IsIndexVector
    <3>4. CASE q.seq # 0 /\ q.count # 0 /\ ~(q.seq <= q.count)
      BY <2>2, <3>1, <3>4, MixAssumption DEF Indexes, ChooseFragments
    <3> QED BY <3>2, <3>3, <3>4
  <2> QED BY <2>2, <2>3, VectorsFinite DEF VectorsOf
<1>2. CASE ~(\E p \in Parts : MetaOf(p) = h)
  BY <1>2, FS_EmptySet DEF VectorsOf
<1> QED BY <1>1, <1>2

(* What is accepted is of the pinned stream, and every entry of the buffer *)
(* and every mixture in ingest is what is left of a mixture of its own, so  *)
(* that a buffer is only too full for more mixtures than it may hold.      *)
RedeliveryInv ==
  /\ received \subseteq VectorsOf(meta)
  /\ poisoned = "BufferParts" => MaxBufferParts < Cardinality(Long(received))
  /\ Cardinality(DOMAIN buffer) + (IF phase = "ingest" /\ Len(part.vec) > 1 THEN 1 ELSE 0)
       <= Cardinality(Long(received))
  /\ RedeliveryNeverPoisons

LEMMA InitRedelivery == Init => RedeliveryInv
<1> SUFFICES ASSUME Init PROVE RedeliveryInv
  OBVIOUS
<1> USE DEF Init, NoMap
<1>1. Long(received) = {} /\ DOMAIN buffer = {}
  BY DEF Long
<1>2. Cardinality({}) = 0
  BY FS_EmptySet
<1>3. RedeliveryNeverPoisons
  <2>1. poisoned # "ReceivedParts" /\ poisoned # "BufferParts"
    BY DEF Alive
  <2> QED BY <2>1 DEF RedeliveryNeverPoisons
<1>4. /\ Cardinality(DOMAIN buffer) = 0 /\ Cardinality(Long(received)) = 0
      /\ phase # "ingest" /\ received = {}
  BY <1>1, <1>2
<1>5. poisoned # "BufferParts"
  BY DEF Alive
<1> QED BY <1>3, <1>4, <1>5 DEF RedeliveryInv

LEMMA LongProperties ==
  ASSUME NEW V, IsFiniteSet(V)
  PROVE  /\ IsFiniteSet(Long(V)) /\ Cardinality(Long(V)) \in Nat
         /\ \A x : x \notin V =>
              /\ IsFiniteSet(Long(V \cup {x}))
              /\ Cardinality(Long(V \cup {x})) =
                   IF Len(x) > 1 THEN Cardinality(Long(V)) + 1 ELSE Cardinality(Long(V))
         /\ \A W : W \subseteq V => Cardinality(Long(W)) <= Cardinality(Long(V))
<1>1. Long(V) \subseteq V
  BY DEF Long
<1>2. IsFiniteSet(Long(V)) /\ Cardinality(Long(V)) \in Nat
  BY <1>1, FS_Subset, FS_CardinalityType
<1>3. ASSUME NEW x, x \notin V
      PROVE  /\ IsFiniteSet(Long(V \cup {x}))
             /\ Cardinality(Long(V \cup {x})) =
                  IF Len(x) > 1 THEN Cardinality(Long(V)) + 1 ELSE Cardinality(Long(V))
  <2>1. CASE Len(x) > 1
    <3>1. \A y : y \in Long(V \cup {x}) <=> y \in Long(V) \cup {x}
      BY <2>1 DEF Long
    <3>2. Long(V \cup {x}) = Long(V) \cup {x}
      BY <3>1, Zenon
    <3>3. x \notin Long(V)
      BY <1>3 DEF Long
    <3>4. /\ IsFiniteSet(Long(V) \cup {x})
          /\ Cardinality(Long(V) \cup {x}) = Cardinality(Long(V)) + 1
      BY <1>2, <3>3, FS_AddElement
    <3> QED BY <2>1, <3>2, <3>4
  <2>2. CASE ~(Len(x) > 1)
    <3>1. Long(V \cup {x}) = Long(V)
      BY <2>2 DEF Long
    <3> QED BY <1>2, <2>2, <3>1
  <2> QED BY <2>1, <2>2
<1>4. ASSUME NEW W, W \subseteq V
      PROVE  Cardinality(Long(W)) <= Cardinality(Long(V))
  <2>1. Long(W) \subseteq Long(V)
    BY <1>4 DEF Long
  <2> QED BY <1>2, <2>1, FS_Subset
<1> QED BY <1>2, <1>3, <1>4

(* What the limits say of a stream, in terms of its vectors.               *)
LEMMA ReceivedLimit ==
  ASSUME NEW h, NEW R, NEW v, R \cup {v} \subseteq VectorsOf(h), v \notin R,
         Cardinality(R) >= MaxReceivedParts
  PROVE  Cardinality(VectorsOf(h)) > MaxReceivedParts
<1>1. IsFiniteSet(VectorsOf(h)) /\ IsFiniteSet(R)
  BY VectorsOfFinite, FS_Subset
<1>2. Cardinality(R \cup {v}) = Cardinality(R) + 1 /\ Cardinality(R) \in Nat
  BY <1>1, FS_AddElement, FS_CardinalityType
<1>3. /\ Cardinality(R \cup {v}) <= Cardinality(VectorsOf(h))
      /\ Cardinality(VectorsOf(h)) \in Nat
  BY <1>1, FS_Subset, FS_CardinalityType
<1> QED BY <1>2, <1>3, LimitsAssumption

LEMMA BufferLimit ==
  ASSUME NEW h, NEW R, R \subseteq VectorsOf(h), MaxBufferParts < Cardinality(Long(R))
  PROVE  Cardinality(Long(VectorsOf(h))) > MaxBufferParts
<1>1. IsFiniteSet(VectorsOf(h)) /\ IsFiniteSet(R)
  BY VectorsOfFinite, FS_Subset
<1>2. /\ Cardinality(Long(R)) <= Cardinality(Long(VectorsOf(h)))
      /\ Cardinality(Long(R)) \in Nat /\ Cardinality(Long(VectorsOf(h))) \in Nat
  BY <1>1, LongProperties
<1> QED BY <1>2, LimitsAssumption

(* A step that takes no part: what it leaves in the buffer and in ingest    *)
(* is still accounted for, and it hits the buffer limit at most.           *)
LEMMA QuietRedelivery ==
  ASSUME RedeliveryInv, UNCHANGED <<received, meta>>,
         Cardinality(DOMAIN buffer')
           + (IF phase' = "ingest" /\ Len(part'.vec) > 1 THEN 1 ELSE 0)
             <= Cardinality(Long(received)),
         \/ poisoned' = poisoned
         \/ poisoned' \notin {"ReceivedParts", "BufferParts"}
         \/ poisoned' = "BufferParts" /\ MaxBufferParts < Cardinality(Long(received))
  PROVE  RedeliveryInv'
<1>1. /\ poisoned' = "ReceivedParts" => Cardinality(VectorsOf(meta)) > MaxReceivedParts
      /\ poisoned' = "BufferParts" =>
           /\ Cardinality(Long(VectorsOf(meta))) > MaxBufferParts
           /\ MaxBufferParts < Cardinality(Long(received))
  BY BufferLimit DEF RedeliveryInv, RedeliveryNeverPoisons, VectorsOf, Long
<1>2. RedeliveryNeverPoisons'
  BY <1>1 DEF RedeliveryNeverPoisons, VectorsOf, Long
<1> QED BY <1>1, <1>2 DEF RedeliveryInv, Long

LEMMA TakenVectors ==
  ASSUME IInv, RedeliveryInv, Listening, NEW p \in Parts, Admissible(p)
  PROVE  received \cup {Indexes(p)} \subseteq VectorsOf(MetaOf(p))
<1>1. received # {} => MetaOf(p) = meta
  BY AdmissibleProperties
<1> QED BY <1>1 DEF RedeliveryInv, VectorsOf

LEMMA PoisonReceivedRedelivery ==
  ASSUME IInv, RedeliveryInv, NEW p \in Parts, PoisonReceived(p)
  PROVE  RedeliveryInv'
<1>1. /\ Listening /\ Admissible(p) /\ Indexes(p) \notin received
      /\ Cardinality(received) >= MaxReceivedParts
      /\ poisoned' = "ReceivedParts" /\ phase = "idle" /\ phase' = "idle"
      /\ UNCHANGED <<received, buffer>> /\ meta' = MetaOf(p)
  BY DEF PoisonReceived, IsDuplicate, Poison, Unaltered, Listening
<1>2. received' \cup {Indexes(p)} \subseteq VectorsOf(meta')
  BY <1>1, TakenVectors
<1>3. Cardinality(VectorsOf(meta')) > MaxReceivedParts
  BY <1>1, <1>2, ReceivedLimit
<1>4. RedeliveryNeverPoisons'
  BY <1>1, <1>3 DEF RedeliveryNeverPoisons, VectorsOf
<1> QED BY <1>1, <1>2, <1>4 DEF RedeliveryInv

LEMMA AcceptRedelivery ==
  ASSUME IInv, BoundInv, RedeliveryInv, NEW p \in Parts, Accept(p)
  PROVE  RedeliveryInv'
<1>1. /\ Listening /\ Admissible(p) /\ Indexes(p) \notin received
      /\ phase = "idle" /\ phase' = "ingest" /\ part'.vec = Indexes(p)
      /\ poisoned' = Alive /\ UNCHANGED buffer /\ meta' = MetaOf(p)
      /\ received' = received \cup {Indexes(p)}
  BY DEF Accept, IsDuplicate, Listening
<1>2. received' \subseteq VectorsOf(meta')
  BY <1>1, TakenVectors
<1>3. IsFiniteSet(received) /\ Cardinality(DOMAIN buffer) \in Nat
  BY FS_CardinalityType DEF BoundInv
<1>4. /\ Cardinality(Long(received)) \in Nat
      /\ Cardinality(Long(received')) =
           IF Len(part'.vec) > 1 THEN Cardinality(Long(received)) + 1
                                 ELSE Cardinality(Long(received))
  BY <1>1, <1>3, LongProperties
<1>5. RedeliveryNeverPoisons'
  BY <1>1 DEF RedeliveryNeverPoisons, Alive
<1>6. Cardinality(DOMAIN buffer) <= Cardinality(Long(received))
  BY <1>1, <1>3 DEF RedeliveryInv
<1>7. poisoned' # "BufferParts"
  BY <1>1 DEF Alive
<1> QED BY <1>1, <1>2, <1>3, <1>4, <1>5, <1>6, <1>7 DEF RedeliveryInv

(* insert_reduced on a buffer that leaves room for one more entry.         *)
LEMMA InsertReducedRedelivery ==
  ASSUME RedeliveryInv, NEW rest, NEW vec, NEW data, Len(vec) \in Nat,
         IsFiniteSet(DOMAIN rest), IsFiniteSet(received),
         Cardinality(DOMAIN rest) + (IF Len(vec) > 1 THEN 1 ELSE 0)
           <= Cardinality(Long(received)),
         Len(vec) # 0, phase' # "ingest", UNCHANGED <<received, meta>>,
         \/ Resolve(rest, vec, data) \/ Discard(rest, vec) \/ Keep(rest, vec, data)
         \/ Overflow(rest, vec)
  PROVE  RedeliveryInv'
<1>0. \A n \in Nat : n # 0 /\ n # 1 => n > 1
  OBVIOUS
<1>1. /\ Cardinality(DOMAIN rest) \in Nat /\ Cardinality(Long(received)) \in Nat
  BY FS_CardinalityType, LongProperties
<1>2. CASE Resolve(rest, vec, data) \/ Discard(rest, vec)
  BY <1>1, <1>2, QuietRedelivery DEF Resolve, Discard
<1>3. CASE Keep(rest, vec, data)
  <2>0. Len(vec) # 1 /\ UNCHANGED poisoned /\ buffer' = Insert(rest, vec, data)
    BY <1>3 DEF Keep
  <2>1. Len(vec) > 1 /\ DOMAIN buffer' = DOMAIN Insert(rest, vec, data)
    BY <1>0, <2>0, Zenon
  <2>2. /\ Cardinality(DOMAIN Insert(rest, vec, data)) \in
             {Cardinality(DOMAIN rest), Cardinality(DOMAIN rest) + 1}
    BY CardinalityOfInsert
  <2> QED BY <1>1, <2>0, <2>1, <2>2, QuietRedelivery
<1>4. CASE Overflow(rest, vec)
  <2>1. /\ Len(vec) # 1 /\ buffer' = rest /\ poisoned' = "BufferParts"
        /\ ~(Cardinality(DOMAIN rest) < MaxBufferParts)
    BY <1>4 DEF Overflow, HasRoom, Poison
  <2>2. Len(vec) > 1
    BY <1>0, <2>1, Zenon
  <2> QED BY <1>1, <2>1, <2>2, LimitsAssumption, QuietRedelivery
<1> QED BY <1>2, <1>3, <1>4

LEMMA NextRedelivery == IInv /\ BoundInv /\ RedeliveryInv /\ [Next]_vars => RedeliveryInv'
<1> SUFFICES ASSUME IInv, BoundInv, RedeliveryInv, [Next]_vars PROVE RedeliveryInv'
  OBVIOUS
<1>0. /\ Cardinality(DOMAIN buffer) \in Nat /\ Cardinality(Long(received)) \in Nat
      /\ Cardinality(DOMAIN buffer) + (IF phase = "ingest" /\ Len(part.vec) > 1 THEN 1 ELSE 0)
           <= Cardinality(Long(received))
      /\ IsFiniteSet(received) /\ IsFiniteSet(DOMAIN buffer)
  BY FS_CardinalityType, LongProperties DEF BoundInv, RedeliveryInv
<1>1. ASSUME UNCHANGED <<buffer, received, meta>>,
             phase' # "ingest" \/ UNCHANGED <<phase, part>>,
             poisoned' = poisoned \/ poisoned' \notin {"ReceivedParts", "BufferParts"}
      PROVE  RedeliveryInv'
  BY <1>0, <1>1, QuietRedelivery
<1>2. CASE UNCHANGED vars \/ AnswerPoisoned \/ AnswerComplete
  BY <1>1, <1>2 DEF vars, AnswerPoisoned, AnswerComplete, Answer, session
<1>4. ASSUME NEW p \in Parts, Receive(p)
      PROVE  RedeliveryInv'
  <2>1. CASE RejectEmpty(p) \/ RejectSequence(p) \/ RejectInconsistent(p) \/ IgnoreDuplicate(p)
    BY <1>1, <2>1 DEF RejectEmpty, RejectSequence, RejectInconsistent, IgnoreDuplicate,
       Answer, session
  <2>2. CASE PoisonData(p) \/ PoisonCount(p) \/ PoisonLength(p)
    BY <1>1, <2>2 DEF PoisonData, PoisonCount, PoisonLength, Unaltered, Poison
  <2> QED BY <1>4, <2>1, <2>2, PoisonReceivedRedelivery, AcceptRedelivery DEF Receive
<1>5. CASE Ingest
  <2>1. CASE IngestKnown
    BY <1>1, <2>1 DEF IngestKnown, EnterDrain, session
  <2>2. ASSUME NEW i \in KnownOf(part.vec), StripKnown(i)
        PROVE  RedeliveryInv'
    <3>1. /\ phase = "ingest" /\ IsIndexVector(part.vec, meta.count) /\ i \in Range(part.vec)
          /\ i \in DOMAIN decoded /\ part.data.len = decoded[i].len
          /\ meta.count \in Nat
          /\ UNCHANGED <<received, buffer, meta, poisoned>>
      BY <2>2, StripKnownStep DEF IInv, TypeOK, StoreOK, Control, SameLength
    <3>2. Len(part'.vec) = Len(part.vec) - 1 /\ Len(part.vec) \in Nat
      <4>1. part'.vec = Without(part.vec, i)
        BY <2>2, <3>1 DEF StripKnown
      <4> QED BY <3>1, <4>1, WithoutProperties, LenProperties DEF IsIndexVector
    <3> QED BY <1>0, <3>1, <3>2, QuietRedelivery
  <2>3. CASE IngestNew
    <3>1. /\ phase = "ingest" /\ phase' # "ingest" /\ UNCHANGED <<received, meta>>
          /\ \/ Resolve(buffer, part.vec, part.data) \/ Keep(buffer, part.vec, part.data)
             \/ Overflow(buffer, part.vec)
      BY <2>3 DEF IngestNew, EnterDrain, Overflow, Poison
    <3>2. Len(part.vec) \in Nat /\ Len(part.vec) # 0
      BY <3>1, LenProperties, EmptySeq DEF IInv, Control, IsIndexVector
    <3> QED BY <1>0, <3>1, <3>2, InsertReducedRedelivery
  <2> QED BY <1>5, <2>1, <2>2, <2>3 DEF Ingest
<1>6. CASE Drain
  <2>1. CASE PopSimple \/ Return
    BY <1>1, <2>1 DEF PopSimple, Return, session
  <2>2. ASSUME NEW v \in todo, Reduce(v)
        PROVE  RedeliveryInv'
    <3> DEFINE rest == Delete(buffer, v)
               vec  == Without(v, simple[1])
               data == Xor(buffer[v], simple[2])
    <3>1. /\ v \in DOMAIN buffer /\ phase = "drain" /\ UNCHANGED <<received, meta, phase>>
          /\ Resolve(rest, vec, data) \/ Discard(rest, vec) \/ Keep(rest, vec, data)
      BY <2>2, ReduceNeverFails
    <3>2. /\ IsFiniteSet(DOMAIN rest)
          /\ Cardinality(DOMAIN rest) = Cardinality(DOMAIN buffer) - 1
      BY <3>1, BufferWithout
    <3>3. Len(vec) \in Nat /\ Len(vec) # 0
      BY <2>2, <3>1, ReduceStep, LenProperties, EmptySeq DEF IsIndexVector
    <3> HIDE DEF rest, vec, data
    <3>4. Cardinality(DOMAIN rest) + (IF Len(vec) > 1 THEN 1 ELSE 0) <= Cardinality(Long(received))
      BY <1>0, <3>1, <3>2
    <3> QED BY <1>0, <3>1, <3>2, <3>3, <3>4, InsertReducedRedelivery
  <2> QED BY <1>6, <2>1, <2>2 DEF Drain
<1> QED BY <1>2, <1>4, <1>5, <1>6 DEF Next

(***************************************************************************)
(* A stream never reaches a limit by being delivered again: a session is    *)
(* closed for too many parts only when its stream has more distinct index   *)
(* vectors than that, and for a full buffer only when more of them are      *)
(* mixtures than the buffer may hold, whatever the order of delivery.       *)
(***************************************************************************)
THEOREM RedeliveryHarmless == Spec => []RedeliveryNeverPoisons
<1>1. RedeliveryInv => RedeliveryNeverPoisons
  BY DEF RedeliveryInv
<1> QED BY <1>1, InitRedelivery, NextRedelivery, InitBound, NextBound, Invariance, PTL DEF Spec
-----------------------------------------------------------------------------
(* Internal errors.                                                        *)

NoDecoderState == poisoned # "DecoderState"

LEMMA NextNoDecoderState == IInv /\ NoDecoderState /\ [Next]_vars => NoDecoderState'
<1> USE DEF NoDecoderState
<1> SUFFICES ASSUME IInv, poisoned # "DecoderState", [Next]_vars
             PROVE  poisoned' # "DecoderState"
  OBVIOUS
<1>1. CASE UNCHANGED vars \/ AnswerPoisoned \/ AnswerComplete
  BY <1>1 DEF vars, session, AnswerPoisoned, AnswerComplete, Answer
<1>2. ASSUME NEW p \in Parts, Receive(p)
      PROVE  poisoned' # "DecoderState"
  BY <1>2 DEF Receive, RejectEmpty, RejectSequence, RejectInconsistent, PoisonData, PoisonCount,
     PoisonLength, PoisonReceived, IgnoreDuplicate, Accept, Answer, Poison, session
<1>3. CASE IngestKnown \/ IngestNew
  BY <1>3 DEF IngestKnown, IngestNew, EnterDrain, Resolve, Keep, Overflow, Poison, session
<1>4. ASSUME NEW i \in KnownOf(part.vec), StripKnown(i)
      PROVE  poisoned' # "DecoderState"
  BY <1>4, StripKnownStep
<1>5. CASE PopSimple \/ Return
  BY <1>5 DEF PopSimple, Return, session
<1>6. ASSUME NEW v \in todo, Reduce(v)
      PROVE  poisoned' # "DecoderState"
  <2> DEFINE rest == Delete(buffer, v)
             vec  == Without(v, simple[1])
             data == Xor(buffer[v], simple[2])
  <2>1. /\ v \in DOMAIN buffer /\ simple[1] \in Range(v)
        /\ buffer[v].len = simple[2].len
    BY <1>6, ReduceStep DEF Reduce
  <2>2. \/ Resolve(rest, vec, data) \/ Discard(rest, vec) \/ Keep(rest, vec, data)
        \/ Overflow(rest, vec)
    BY <1>6, <2>1 DEF Reduce
  <2> HIDE DEF rest, vec, data
  <2> QED BY <2>2 DEF Resolve, Discard, Keep, Overflow, Poison
<1> QED BY <1>1, <1>2, <1>3, <1>4, <1>5, <1>6 DEF Next, Ingest, Drain

(* A complete decoder has every fragment, and they hold the message.       *)
LEMMA CompleteJoinable ==
  ASSUME IInv, poisoned = Alive, Complete
  PROVE  Joinable /\ Representable
<1>1. /\ received # {} /\ meta.count \in Nat \ {0} /\ meta.len * meta.count >= meta.mlen
      /\ Representable
      /\ DOMAIN decoded \subseteq 0 .. meta.count - 1
  BY DEF Complete, IInv, Pinned, TypeOK, StoreOK, Fragments
<1>2. IsFiniteSet(0 .. meta.count - 1) /\ Cardinality(0 .. meta.count - 1) = meta.count
  <2>1. /\ 0 \in Int /\ meta.count - 1 \in Int /\ ~(0 > meta.count - 1)
        /\ (meta.count - 1) - 0 + 1 = meta.count
    BY <1>1
  <2> QED BY <2>1, FS_Interval
<1>3. DOMAIN decoded = 0 .. meta.count - 1
  BY <1>1, <1>2, FS_Subset DEF Complete
<1> QED BY <1>1, <1>3 DEF Joinable, Fragments

LEMMA IInvNoInternalError == IInv /\ NoDecoderState => NoInternalError
<1> USE DEF NoDecoderState
<1> SUFFICES ASSUME IInv, poisoned # "DecoderState"
             PROVE  Message \notin {"DecoderState", "Overflow"}
  BY DEF NoInternalError
<1>1. CASE poisoned # Alive
  BY <1>1 DEF Message, IInv, TypeOK, FlightOK, Poisons, Limits, Alive
<1>2. CASE poisoned = Alive /\ ~Complete
  BY <1>2 DEF Message
<1>3. CASE poisoned = Alive /\ Complete
  <2>1. Joinable /\ Representable
    BY <1>3, CompleteJoinable
  <2> QED BY <1>3, <2>1 DEF Message
<1> QED BY <1>1, <1>2, <1>3

(***************************************************************************)
(* None of the ok_or(DecoderState) exits of receive and message can be      *)
(* taken, damaged payloads included, and the product that message computes *)
(* without a check is at most usize::MAX.                                  *)
(***************************************************************************)
THEOREM NeverInternalError == Spec => []NoInternalError
<1>1. Init => NoDecoderState
  BY DEF Init, Alive, NoDecoderState
<1> QED BY <1>1, NextNoDecoderState, IInvNoInternalError, Invariance, PTL DEF Spec

LEMMA ExactMessage == IInv /\ FragmentsExact => CompleteYieldsMessage
<1> SUFFICES ASSUME IInv, FragmentsExact, HonestParts, Session, Complete
             PROVE  Message = "Message"
  BY DEF CompleteYieldsMessage
<1>1. poisoned = Alive /\ Joinable /\ Representable
  BY CompleteJoinable DEF Session
<1>2. Intact
  BY <1>1 DEF FragmentsExact, TrueFragments, Joinable, Intact
<1> QED BY <1>1, <1>2 DEF Message

(***************************************************************************)
(* With honest parts a decoder that is complete returns the message of the  *)
(* stream it is pinned to: padding and checksum tests cannot fail.          *)
(***************************************************************************)
THEOREM MessageOfCompleteSession == Spec => []CompleteYieldsMessage
BY Invariance, Exactness, ExactMessage, PTL
=============================================================================
