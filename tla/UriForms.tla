------------------------------ MODULE UriForms ------------------------------
(***************************************************************************)
(* URIs as crates/bcur/src/ur/mod.rs writes and reads them.  A URI is what  *)
(* parse and the body codecs make of the string: its length, whether it     *)
(* parses, its type, its form, its indices, and its body, which is None     *)
(* when bytewords or the part codec reject it.  The body of the single-part *)
(* form is a message [len, id]; that of the multi-part form is a part.      *)
(***************************************************************************)
EXTENDS FountainParts

CONSTANTS
  Types,          \* UR types
  TypeLen,        \* their lengths
  None            \* Option::None
-----------------------------------------------------------------------------
(* Lengths of the encodings.                                               *)

PowersOfTen ==
  <<1, 10, 100, 1000, 10000, 100000, 1000000, 10000000, 100000000, 1000000000>>

(* Decimal digits of a u32.                                                *)
Digits(n) == 1 + Cardinality({k \in 2 .. 10 : PowersOfTen[k] <= n})

(* Shortest form of a CBOR integer, or of the head of a byte string.       *)
CborHead(n) ==
  IF n <= 23 THEN 1 ELSE IF n <= 255 THEN 2 ELSE IF n <= 65535 THEN 3 ELSE 5

(* An array of four integers and a byte string.                            *)
PartCborLen(p) ==
  1 + CborHead(p.seq) + CborHead(p.count) + CborHead(p.mlen) + CborHead(p.crc)
    + CborHead(p.data.len) + p.data.len

(* Two letters for each byte of the data and of its checksum.              *)
BytewordsLen(n) == 2 * (n + 4)

(* "ur:<type>/<body>"                                                      *)
SingleLen(t, len) == 4 + TypeLen[t] + BytewordsLen(len)

(* "ur:<type>/<seq>-<count>/<body>"                                        *)
MultiLen(t, p) ==
  6 + TypeLen[t] + Digits(p.seq) + Digits(p.count) + BytewordsLen(PartCborLen(p))
-----------------------------------------------------------------------------
(* The two forms.                                                          *)

SingleUri(t, m) ==
  [len |-> SingleLen(t, m.len), parsed |-> TRUE, type |-> t, kind |-> "SinglePart",
   indices |-> None, body |-> m]

FaultyMultiUri(t, p) ==                 \* count-seq for seq-count
  [len |-> MultiLen(t, p), parsed |-> TRUE, type |-> t, kind |-> "MultiPart",
   indices |-> <<p.count, p.seq>>, body |-> p]

MultiUri(t, p) ==
  [len |-> MultiLen(t, p), parsed |-> TRUE, type |-> t, kind |-> "MultiPart",
   indices |-> <<p.seq, p.count>>, body |-> p]
=============================================================================
