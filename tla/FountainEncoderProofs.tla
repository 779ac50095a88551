------------------------ MODULE FountainEncoderProofs ------------------------
(***************************************************************************)
(* The invariants of the fountain encoder, for all messages.                *)
(***************************************************************************)
EXTENDS FountainEncoder, FountainPartsProofs

LEMMA EncInitIInv == EncInit => EncIInv
<1> SUFFICES ASSUME EncInit PROVE EncIInv
  OBVIOUS
<1>1. EncTypeOK
  BY EncoderAssumption DEF EncInit, EncTypeOK, NoEncoder
<1>2. EachOnce
  BY DEF EncInit, EachOnce, NoEncoder
<1> QED BY <1>1, <1>2 DEF EncInit, EncIInv

LEMMA NewIInv ==
  ASSUME EncIInv, NEW m \in Messages, NEW max \in FragmentMaxima, New(m, max)
  PROVE  EncIInv'
<1> DEFINE f == FragmentLength(m.len, max)
           k == FragmentCount(m.len, f)
<1>1. m.len \in Nat /\ m.crc \in Nat /\ max \in Nat /\ MaxU32 \in Nat \ {0}
  BY EncoderAssumption
<1>2. emitted = {} /\ emitted' = {} /\ enc = NoEncoder
  BY DEF New, EncIInv, EachOnce, NoEncoder
<1>3. CASE m.len = 0 \/ max = 0 \/ m.len > MaxU32
  <2>1. result' \in {"EmptyMessage", "InvalidFragmentLen", "MessageLength"}
        /\ enc' = NoEncoder
    BY <1>3 DEF New, NewResult
  <2> QED BY <1>2, <2>1 DEF EncIInv, EncTypeOK, EachOnce, Cut
<1>4. CASE m.len # 0 /\ max # 0 /\ m.len <= MaxU32
  <2>1. f \in 1 .. max
    BY <1>1, <1>4, FragmentLengthProperties
  <2>2. /\ k \in 1 .. m.len
        /\ f * k >= m.len /\ f * k - m.len < f
    BY <1>1, <1>4, <2>1, FragmentCountProperties
  <2>3. Constructed(m, max) =
          [count |-> k, mlen |-> m.len, crc |-> m.crc, len |-> f, current |-> 0]
    BY DEF Constructed
  <2>4. f \in 0 .. MaxU32
    <3>1. f <= m.len
      BY <1>1, <1>4, FragmentLengthBound
    <3> QED BY <1>1, <1>4, <2>1, <3>1
  <2> HIDE DEF f, k
  <2>5. result' = "Ok" /\ enc' = Constructed(m, max)
    BY <1>1, <1>4, <2>2, <2>3 DEF New, NewResult
  <2>6. EncTypeOK'
    BY <1>1, <1>4, <2>2, <2>3, <2>4, <2>5 DEF EncTypeOK
  <2>7. EachOnce'
    BY <1>2, <2>3, <2>5 DEF EachOnce
  <2>8. Cut'
    BY <1>4, <2>1, <2>2, <2>3, <2>5 DEF Cut
  <2> QED BY <2>6, <2>7, <2>8 DEF EncIInv
<1> QED BY <1>1, <1>3, <1>4

LEMMA EmitIInv ==
  ASSUME EncIInv, Emit
  PROVE  EncIInv'
<1> DEFINE n == enc.current + 1
           p == PartOf(enc, n)
<1>1. /\ enc.current \in 0 .. MaxU32 /\ enc.current # MaxU32 /\ n \in 1 .. MaxU32
      /\ enc' = [enc EXCEPT !.current = n] /\ emitted' = emitted \cup {p}
      /\ result' = "Part" /\ enc # NoEncoder
  BY EncoderAssumption DEF Emit, EncIInv, EncTypeOK
<1>2. EncTypeOK'
  BY <1>1 DEF EncIInv, EncTypeOK
<1>3. /\ enc'.current = n /\ enc'.count = enc.count /\ enc'.mlen = enc.mlen
      /\ enc'.crc = enc.crc /\ enc'.len = enc.len
  BY <1>1 DEF EncIInv, EncTypeOK
<1>4. \A seq : PartOf(enc', seq) = PartOf(enc, seq)
  BY <1>3 DEF PartOf
<1>5. p.seq = n
  BY DEF PartOf
<1> HIDE DEF p
<1>6. EachOnce'
  <2>1. {q.seq : q \in emitted} = 1 .. enc.current
    BY DEF EncIInv, EachOnce
  <2>2. {q.seq : q \in emitted'} = (1 .. enc.current) \cup {n}
    BY <1>1, <1>5, <2>1
  <2>3. (1 .. enc.current) \cup {n} = 1 .. enc'.current
    BY <1>1, <1>3
  <2>4. \A q \in emitted' : q = PartOf(enc', q.seq)
    BY <1>1, <1>4, <1>5 DEF EncIInv, EachOnce, p
  <2> QED BY <2>2, <2>3, <2>4 DEF EachOnce
<1>7. Cut'
  BY <1>1, <1>3 DEF EncIInv, Cut
<1> QED BY <1>2, <1>6, <1>7 DEF EncIInv

LEMMA EncNextIInv == EncIInv /\ [EncNext]_encVars => EncIInv'
<1> SUFFICES ASSUME EncIInv, [EncNext]_encVars PROVE EncIInv'
  OBVIOUS
<1>1. CASE UNCHANGED encVars
  BY <1>1 DEF encVars, EncIInv, EncTypeOK, EachOnce, Cut
<1>2. CASE RefuseSingle \/ RefuseSequence
  BY <1>2 DEF RefuseSingle, RefuseSequence, EncIInv, EncTypeOK, EachOnce, Cut
<1> QED BY <1>1, <1>2, NewIInv, EmitIInv DEF EncNext, NextPart

(***************************************************************************)
(* For all messages and all maxima: the header that is cut fits the wire    *)
(* and each number is emitted exactly once.                                *)
(***************************************************************************)
THEOREM EncInvariance == EncSpec => []EncIInv
BY EncInitIInv, EncNextIInv, PTL DEF EncSpec

THEOREM EachOnceHolds == EncSpec => []EachOnce
<1>1. EncIInv => EachOnce
  BY DEF EncIInv
<1> QED BY <1>1, EncInvariance, PTL

LEMMA EncParts ==
  ASSUME EncIInv, NEW p \in emitted
  PROVE  /\ p.seq \in 1 .. enc.current /\ p = PartOf(enc, p.seq) /\ enc # NoEncoder
         /\ p.count = enc.count /\ p.mlen = enc.mlen /\ p.crc = enc.crc
         /\ p.data.len = enc.len
<1>1. p.seq \in 1 .. enc.current /\ p = PartOf(enc, p.seq)
  BY DEF EncIInv, EachOnce
<1>2. enc # NoEncoder
  BY <1>1 DEF NoEncoder
<1> QED BY <1>1, <1>2 DEF PartOf

LEMMA EncPartsFit == EncIInv => PartsFitDecoder
<1> SUFFICES ASSUME EncIInv PROVE PartsFitDecoder
  OBVIOUS
<1>1. ASSUME NEW p \in emitted
      PROVE  WellFormed(p) /\ Geometry(p) /\ IsHonest(p)
  <2>1. Cut
    BY EncParts DEF EncIInv
  <2>2. p.seq # 0
    BY EncParts DEF EncIInv, EncTypeOK
  <2>3. WellFormed(p) /\ Geometry(p)
    BY EncParts, <2>1, <2>2 DEF WellFormed, IsEmpty, Geometry, Cut
  <2>4. /\ MetaOf(p) = [count |-> enc.count, mlen |-> enc.mlen, crc |-> enc.crc, len |-> enc.len]
        /\ Indexes(p) = ChooseFragments(p.seq, enc.count, enc.crc)
    BY EncParts DEF MetaOf, Indexes
  <2>5. p.data.sum = PartOf(enc, p.seq).data.sum
    BY EncParts
  <2> QED BY <2>3, <2>4, <2>5 DEF IsHonest, PartOf
<1> QED BY <1>1 DEF PartsFitDecoder, EncIInv, Cut

LEMMA EncCompleteCovers == EncIInv => CompleteCovers
<1> SUFFICES ASSUME EncIInv, enc # NoEncoder, EncComplete(enc), NEW i \in 0 .. enc.count - 1
             PROVE  \E p \in emitted : Indexes(p) = <<i>>
  BY DEF CompleteCovers
<1>1. i + 1 \in 1 .. enc.current /\ i + 1 <= enc.count /\ i \in Nat /\ enc.count # 0
  BY DEF EncComplete, EncIInv, EncTypeOK
<1>2. PICK p \in emitted : p.seq = i + 1
  BY <1>1 DEF EncIInv, EachOnce
<1>3. p.count = enc.count /\ p.crc = enc.crc
  BY EncParts
<1>4. Indexes(p) = <<i>>
  BY <1>1, <1>2, <1>3 DEF Indexes, ChooseFragments
<1> QED BY <1>4

(***************************************************************************)
(* Whatever the message and the maximum, every part passes the checks a     *)
(* decoder makes on a first part, and fragments respect the maximum.       *)
(***************************************************************************)
THEOREM PartsFit == EncSpec => []PartsFitDecoder
BY EncPartsFit, EncInvariance, PTL

(* When complete() holds, every fragment has been emitted by itself.       *)
THEOREM CompleteCoversHolds == EncSpec => []CompleteCovers
BY EncCompleteCovers, EncInvariance, PTL
=============================================================================
