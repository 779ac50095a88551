------------------------------ MODULE PartWire ------------------------------
(***************************************************************************)
(* Fountain parts on the wire: crates/bcur/src/fountain/part_cbor.rs, behind *)
(* the encoder whose parts it carries.                                      *)
(*                                                                         *)
(* A wire is the bytes up to the fragment, one by one, and the fragment as  *)
(* a block [len, sum] of which only the length matters to the codec.        *)
(***************************************************************************)
EXTENDS FountainEncoder

CONSTANTS
  OtherParts,         \* parts of other encoders
  Wires,              \* wires that no encoder made
  MaxFragmentData,    \* max_data_len
  MaxFragmentCount    \* max_fragment_count

VARIABLES
  read                \* what decode_part was given last, the part it was made of
                      \* (a set of at most one), and what it returned

wireVars == <<encVars, read>>

Missing == -1           \* no byte is left
NoBlock == [len |-> 0, sum |-> {}]
NoFields == [seq |-> 0, count |-> 0, mlen |-> 0, crc |-> 0, data |-> NoBlock]
NoReading ==
  [made |-> {}, wire |-> [head |-> << >>, data |-> NoBlock], error |-> "None", part |-> NoFields]

Unsigned == 0           \* CBOR major types
ByteString == 2
ArrayOfFive == 133      \* 0x85
-----------------------------------------------------------------------------
(* encode_part                                                             *)

FaultyEncodeHead(major, v) ==           \* 255 takes two bytes
  LET first(ai) == 32 * major + ai
      v1 == v \div 256  v2 == v1 \div 256  v3 == v2 \div 256
  IN  IF v <= 23 THEN <<first(v)>>
      ELSE IF v < 255 THEN <<first(24), v>>
      ELSE IF v < 256 * 256 THEN <<first(25), v1, v % 256>>
      ELSE <<first(26), v3 % 256, v2 % 256, v1 % 256, v % 256>>

(* encode_u32, and the head that encode_bstr writes; the last four bytes.    *)
EncodeHead(major, v) ==
  LET first(ai) == 32 * major + ai
      v1 == v \div 256  v2 == v1 \div 256  v3 == v2 \div 256
  IN  IF v <= 23 THEN <<first(v)>>
      ELSE IF v <= 255 THEN <<first(24), v>>
      ELSE IF v < 256 * 256 THEN <<first(25), v1, v % 256>>
      ELSE <<first(26), v3 % 256, v2 % 256, v1 % 256, v % 256>>

EncodePart(p) ==
  [head |-> <<ArrayOfFive>>
              \o EncodeHead(Unsigned, p.seq) \o EncodeHead(Unsigned, p.count)
              \o EncodeHead(Unsigned, p.mlen) \o EncodeHead(Unsigned, p.crc)
              \o EncodeHead(ByteString, p.data.len),
   data |-> p.data]
-----------------------------------------------------------------------------
(* decode_part                                                             *)

NextByte(w, i) == IF i \in DOMAIN w.head THEN w.head[i] ELSE Missing

(* Bytes that follow the head with additional information ai, and the      *)
(* least value that needs them.                                            *)
Width(ai) == IF ai <= 23 THEN 0 ELSE IF ai = 24 THEN 1 ELSE IF ai = 25 THEN 2 ELSE 4
Least(ai) == IF ai <= 23 THEN 0 ELSE IF ai = 24 THEN 24 ELSE IF ai = 25 THEN 256 ELSE 256 * 256

(* from_be_bytes                                                           *)
ValueAt(w, i, ai) ==
  LET byte(k) == w.head[i + k]
  IN  IF ai <= 23 THEN ai
      ELSE IF ai = 24 THEN byte(1)
      ELSE IF ai = 25 THEN 256 * byte(1) + byte(2)
      ELSE 256 * (256 * (256 * byte(1) + byte(2)) + byte(3)) + byte(4)

FaultyHeadOk(w, i, major, ai) ==        \* takes longer forms than needed
  /\ NextByte(w, i) # Missing /\ NextByte(w, i) \div 32 = major
  /\ ai <= 26 /\ i + Width(ai) \in DOMAIN w.head

(* The type is right, the head is complete, and it is the shortest.        *)
HeadOk(w, i, major, ai) ==
  /\ NextByte(w, i) # Missing /\ NextByte(w, i) \div 32 = major
  /\ ai <= 26 /\ i + Width(ai) \in DOMAIN w.head
  /\ ValueAt(w, i, ai) >= Least(ai)

(* decode_u32, and the length that decode_bstr reads; Missing is an error.  *)
DecodeHead(w, i, major) ==
  LET ai == NextByte(w, i) % 32
  IN  [value |-> IF HeadOk(w, i, major, ai) THEN ValueAt(w, i, ai) ELSE Missing,
       next |-> i + 1 + Width(ai)]

(* The fragment starts after the head and ends with the wire.              *)
Left(w, i) == Len(w.head) - i + 1 + w.data.len

Failed(error) == [error |-> error, part |-> NoFields]

(* Sequence, sequence count, message length, checksum, and the fragment's.  *)
Heads(w) ==
  LET a == DecodeHead(w, 2, Unsigned)
      b == DecodeHead(w, a.next, Unsigned)
      c == DecodeHead(w, b.next, Unsigned)
      d == DecodeHead(w, c.next, Unsigned)
  IN  <<a, b, c, d, DecodeHead(w, d.next, ByteString)>>

HeadsOk(w) == NextByte(w, 1) = ArrayOfFive /\ \A k \in 1 .. 5 : Heads(w)[k].value # Missing

DecodePart(w) ==
  LET h == Heads(w)
      value == [k \in 1 .. 5 |-> h[k].value]
  IN  IF ~HeadsOk(w) THEN Failed("InvalidPartCbor")
      ELSE IF value[5] > MaxFragmentData THEN Failed("FragmentData")
      ELSE IF value[5] # Left(w, h[5].next) THEN Failed("InvalidPartCbor")
      ELSE IF value[1] = 0 THEN Failed("InvalidSequence")
      ELSE IF 0 \in {value[2], value[3], value[5]} THEN Failed("EmptyPart")
      ELSE IF value[2] > MaxFragmentCount THEN Failed("FragmentCount")
      ELSE [error |-> "None",
            part |-> [seq |-> value[1], count |-> value[2], mlen |-> value[3],
                      crc |-> value[4], data |-> w.data]]
-----------------------------------------------------------------------------
IsU32(n) == n \in Nat /\ ((n \div 256) \div 256) \div 256 < 256

(* The fields of a part are u32, and so is the length of a fragment.       *)
IsPart(p) ==
  /\ p = [seq |-> p.seq, count |-> p.count, mlen |-> p.mlen, crc |-> p.crc, data |-> p.data]
  /\ IsU32(p.seq) /\ IsU32(p.count) /\ IsU32(p.mlen) /\ IsU32(p.crc) /\ IsU32(p.data.len)

(* The block of a wire is what follows the five heads.                     *)
IsWire(w) ==
  /\ w = [head |-> w.head, data |-> w.data]
  /\ w.head \in Seq(0 .. 255) /\ w.data.len \in Nat
  /\ HeadsOk(w) => Heads(w)[5].next = Len(w.head) + 1

ASSUME WireAssumption ==
  /\ MaxFragmentData \in Nat /\ MaxFragmentCount \in Nat
  /\ IsU32(MaxU32) /\ \A m \in Messages : IsU32(m.crc)
  /\ \A p \in OtherParts : IsPart(p)
  /\ \A w \in Wires : IsWire(w)
-----------------------------------------------------------------------------
WireInit == EncInit /\ read = NoReading

Read(made, w) ==
  /\ read' = [made |-> made, wire |-> w, error |-> DecodePart(w).error, part |-> DecodePart(w).part]
  /\ UNCHANGED encVars

Encode == EncNext /\ read' = NoReading

ReadEmitted == \E p \in emitted : Read({p}, EncodePart(p))

(* decode_part keeps nothing between calls: one of the parts and wires of   *)
(* others is read before the encoder in view is set up.                    *)
ReadOther ==
  /\ enc = NoEncoder /\ read = NoReading
  /\ \/ \E p \in OtherParts : Read({p}, EncodePart(p))
     \/ \E w \in Wires : Read({}, w)

WireNext == Encode \/ ReadEmitted \/ ReadOther

WireSpec == WireInit /\ [][WireNext]_wireVars
-----------------------------------------------------------------------------
(* Properties.                                                             *)

Fits(p) ==
  WellFormed(p) /\ p.data.len <= MaxFragmentData /\ p.count <= MaxFragmentCount

(* The bytes encode_part makes of a part are read as that part, at every    *)
(* width of every field, if and only if it is within the limits.           *)
ReadsOwn ==
  \A p \in read.made :
    IF Fits(p) THEN read.error = "None" /\ read.part = p ELSE read.error # "None"

(* No two wires are read as the same part: what is accepted is, byte for    *)
(* byte, what encode_part writes.                                          *)
Canonical ==
  read.error = "None" /\ read # NoReading => read.wire = EncodePart(read.part)
=============================================================================
