-------------------------- MODULE MCFountainEncoder --------------------------
(***************************************************************************)
(* Instances of UriBody, and of the PartWire and the FountainEncoder in it,  *)
(* for TLC.                                                                *)
(***************************************************************************)
EXTENDS UriBody

MCMessages == [len : 0 .. 10, crc : {7}]

MCMaxima == 0 .. 11

(* Any vector will do: the first two fragments.                            *)
MCMix(seq, count, crc) == IF count = 1 THEN <<0>> ELSE <<1, 0>>
-----------------------------------------------------------------------------
(* Values at which the shortest form changes, and around the limits.       *)
Edges == {0, 1, 23, 24, 255, 256, 65535, 65536, 16777216}

Base == [seq |-> 24, count |-> 4, mlen |-> 300, crc |-> 65536, data |-> [len |-> 80, sum |-> {}]]

(* Each field at every edge.                                               *)
MCOtherParts ==
  UNION {{[Base EXCEPT !.seq = v], [Base EXCEPT !.count = v], [Base EXCEPT !.mlen = v],
          [Base EXCEPT !.crc = v], [Base EXCEPT !.data.len = v]} : v \in Edges}

(* The low `n' bytes of v, most significant first.                         *)
BigEndian(v, n) == [k \in 1 .. n |-> (v \div (256 ^ (n - k))) % 256]

(* A value in every form that can hold it, under a major type.             *)
Forms(major, v) ==
  {<<32 * major + x>> : x \in {v} \cap 0 .. 23}
    \cup {<<32 * major + 24>> \o BigEndian(x, 1) : x \in {v} \cap 0 .. 255}
    \cup {<<32 * major + 25>> \o BigEndian(x, 2) : x \in {v} \cap 0 .. 65535}
    \cup {<<32 * major + 26>> \o BigEndian(v, 4),
          <<32 * major + 27, 0, 0, 0, 0>> \o BigEndian(v, 4)}

(* Heads without a value, and those of other major types.                  *)
Odd ==
  {<<32 * major + ai>> : major \in {Unsigned, ByteString}, ai \in 28 .. 31}
    \cup {<<32 * major + v>> : major \in 0 .. 7, v \in {0, 23}}

BaseItems ==
  <<EncodeHead(Unsigned, 24), EncodeHead(Unsigned, 4), EncodeHead(Unsigned, 300),
    EncodeHead(Unsigned, 65536), EncodeHead(ByteString, 80)>>

Wire(first, items, len) ==
  [head |-> <<first>> \o FlattenSeq(items), data |-> [len |-> len, sum |-> {}]]

(* One item replaced, another first byte, a head that breaks off, and a     *)
(* fragment that is as long as it says, or a byte longer or shorter.       *)
MCWires ==
  {Wire(ArrayOfFive, [BaseItems EXCEPT ![k] = item], 80) :
     k \in 1 .. 4, item \in Odd \cup UNION {Forms(Unsigned, v) : v \in Edges}}
    \cup {Wire(ArrayOfFive, [BaseItems EXCEPT ![5] = item], 80) : item \in Odd}
    \cup UNION {{Wire(ArrayOfFive, [BaseItems EXCEPT ![5] = item], len) :
                   item \in Forms(ByteString, v), len \in {v - 1, v, v + 1} \cap Nat} : v \in Edges}
    \cup {Wire(first, BaseItems, 80) : first \in {0, 132, 134, 155}}
    \cup {[head |-> SubSeq(Wire(ArrayOfFive, BaseItems, 0).head, 1, n),
           data |-> [len |-> 0, sum |-> {}]] : n \in 0 .. 13}
-----------------------------------------------------------------------------
(* Four bytes that depend on each byte, its place and the length.           *)
MCChecksum(data) ==
  LET sum == FoldLeftDomain(LAMBDA x, k : x + k * data[k], 0, data)
  IN  <<255 - (Len(data) % 256), sum % 256, (sum \div 256) % 256, (7 * sum + Len(data)) % 256>>

(* Every byte, and two payloads whose texts are altered.                    *)
MCPayloads == {<<b>> : b \in Byte} \cup {<< >>, <<0, 255>>, <<83, 111, 109>>}

MCAlterations == {"a", "e", "z", "Z", " ", "-", NonAscii}

(* Every pair of letters, what the ends of a word can be confused with, all  *)
(* threes that are part of a word, and texts of no meaning.                 *)
MCTokens ==
  {<<a, b>> : a, b \in ToSet(LowerCase)}
    \cup {SubSeq(WordAt[b], i, j) : b \in Byte, i \in 1 .. 2, j \in 3 .. 4}
    \cup {UpperText(WordAt[b]) : b \in Byte}
    \cup {<<w[1], w[3], w[2], w[4]>> : w \in {WordAt[b] : b \in Byte}}
    \cup {<<"a">>, <<"A", "E">>, <<"a", "e", NonAscii>>, Letters("ables"), Letters("nope")}
=============================================================================
