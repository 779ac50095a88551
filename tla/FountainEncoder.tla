--------------------------- MODULE FountainEncoder ---------------------------
(***************************************************************************)
(* The fountain encoder of crates/bcur/src/fountain/mod.rs: one call of     *)
(* new, then any number of calls of next_part.  `emitted' is everything     *)
(* the encoder has handed out, which is all that a receiver can ever get.   *)
(***************************************************************************)
EXTENDS FountainParts

CONSTANTS
  Messages,       \* messages [len, crc] that can be passed to new
  FragmentMaxima, \* values of max_fragment_length that can be passed to new
  MaxU32          \* u32::MAX

VARIABLES
  enc,            \* the encoder: header and current_sequence, or NoEncoder
  emitted,        \* the parts next_part has returned
  result          \* what the last call returned

encVars == <<enc, emitted, result>>

ASSUME EncoderAssumption ==
  /\ MaxU32 \in Nat \ {0}
  /\ FragmentMaxima \subseteq Nat
  /\ \A m \in Messages : m.len \in Nat /\ m.crc \in Nat

NoEncoder == [count |-> 0, mlen |-> 0, crc |-> 0, len |-> 0, current |-> 0]

EncInit == enc = NoEncoder /\ emitted = {} /\ result = "None"
-----------------------------------------------------------------------------
(* Encoder::new                                                            *)

Constructed(m, max) ==
  LET len == FragmentLength(m.len, max)
  IN  [count |-> FragmentCount(m.len, len), mlen |-> m.len, crc |-> m.crc,
       len |-> len, current |-> 0]

NewResult(m, max) ==
  IF m.len = 0 THEN "EmptyMessage"
  ELSE IF max = 0 THEN "InvalidFragmentLen"
  ELSE IF m.len > MaxU32 THEN "MessageLength"
  ELSE IF Constructed(m, max).count > MaxU32 THEN "FragmentCount"
  ELSE "Ok"

New(m, max) ==
  /\ enc = NoEncoder
  /\ result' = NewResult(m, max)
  /\ enc' = IF NewResult(m, max) = "Ok" THEN Constructed(m, max) ELSE NoEncoder
  /\ UNCHANGED emitted
-----------------------------------------------------------------------------
(* Encoder::next_part                                                      *)

FaultyEncComplete(e) == e.current >= e.count - 1

EncComplete(e) == e.current >= e.count

(* The part with number seq of the encoder's stream.                       *)
PartOf(e, seq) ==
  LET m == [count |-> e.count, mlen |-> e.mlen, crc |-> e.crc, len |-> e.len]
  IN  [seq |-> seq, count |-> e.count, mlen |-> e.mlen, crc |-> e.crc,
       data |-> [len |-> e.len,
                 sum |-> Mixture(m, Range(ChooseFragments(seq, e.count, e.crc)))]]

Exhausted == enc.count = 1 /\ enc.current >= 1

RefuseSingle ==
  /\ enc # NoEncoder /\ Exhausted
  /\ result' = "SinglePartExhausted"
  /\ UNCHANGED <<enc, emitted>>

RefuseSequence ==
  /\ enc # NoEncoder /\ ~Exhausted
  /\ enc.current = MaxU32
  /\ result' = "Sequence"
  /\ UNCHANGED <<enc, emitted>>

FaultyEmit ==                           \* wraps around
  /\ enc # NoEncoder /\ ~Exhausted
  /\ enc' = [enc EXCEPT !.current = (enc.current + 1) % (MaxU32 + 1)]
  /\ emitted' = emitted \cup {PartOf(enc, (enc.current + 1) % (MaxU32 + 1))}
  /\ result' = "Part"

Emit ==
  /\ enc # NoEncoder /\ ~Exhausted
  /\ enc.current # MaxU32
  /\ enc' = [enc EXCEPT !.current = enc.current + 1]
  /\ emitted' = emitted \cup {PartOf(enc, enc.current + 1)}
  /\ result' = "Part"

NextPart == RefuseSingle \/ RefuseSequence \/ Emit

EncNext == (\E m \in Messages, max \in FragmentMaxima : New(m, max)) \/ NextPart

EncSpec == EncInit /\ [][EncNext]_encVars
-----------------------------------------------------------------------------
(* Properties.                                                             *)

(* The encoder holds a header with as many fragments as it says, within    *)
(* the u32 fields of the wire: the count never fails to fit.               *)
EncTypeOK ==
  /\ enc \in [count : 0 .. MaxU32, mlen : 0 .. MaxU32, crc : Nat, len : 0 .. MaxU32,
              current : 0 .. MaxU32]
  /\ result \in {"None", "Ok", "Part", "EmptyMessage", "InvalidFragmentLen",
                 "MessageLength", "SinglePartExhausted", "Sequence"}

(* Every part passes the checks a decoder makes on a first part, and no     *)
(* fragment is longer than the caller allowed.                             *)
PartsFitDecoder ==
  /\ \A p \in emitted : WellFormed(p) /\ Geometry(p) /\ IsHonest(p)
  /\ enc # NoEncoder => \E max \in FragmentMaxima : enc.len <= max

(* Each sequence number is emitted once, in order, and the last one is     *)
(* never followed by the first.                                            *)
EachOnce ==
  /\ {p.seq : p \in emitted} = 1 .. enc.current
  /\ \A p \in emitted : p = PartOf(enc, p.seq)

(* When complete() holds, what has been emitted carries every fragment by  *)
(* itself: a receiver that got all of it needs no mixed part.              *)
CompleteCovers ==
  enc # NoEncoder /\ EncComplete(enc) =>
    \A i \in 0 .. enc.count - 1 : \E p \in emitted : Indexes(p) = <<i>>
-----------------------------------------------------------------------------
(* The inductive invariant behind the properties.                          *)

(* The header of an encoder that was constructed.                          *)
Cut ==
  /\ enc.mlen # 0 /\ enc.count # 0 /\ enc.len # 0
  /\ enc.len * enc.count >= enc.mlen
  /\ enc.len * enc.count - enc.mlen < enc.len
  /\ \E max \in FragmentMaxima : enc.len <= max

EncIInv ==
  /\ EncTypeOK
  /\ EachOnce
  /\ enc # NoEncoder => Cut
=============================================================================
