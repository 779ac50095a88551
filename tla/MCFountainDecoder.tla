-------------------------- MODULE MCFountainDecoder --------------------------
(***************************************************************************)
(* Instances of FountainDecoder for TLC.  A mixed part of the instances     *)
(* carries the vector that Mix assigns to its sequence number; together the *)
(* sequence numbers cover every vector a shuffle can produce.               *)
(***************************************************************************)
EXTENDS FountainDecoder, FiniteSetsExt

CONSTANTS K             \* fragment count of the stream under test

(* All vectors of n distinct indexes below K, 2 <= n <= K.                 *)
MixedVectors ==
  FoldSet(LAMBDA v, s : Append(s, v), << >>,
          {v \in UNION {[1 .. n -> 0 .. K - 1] : n \in 2 .. K} : IsIndexVector(v, K)})

(* All orderings of the pairs, two of the triples.                         *)
PairVectors ==
  SelectSeq(MixedVectors, LAMBDA v : Len(v) = 2 \/ v \in {<<0, 1, 2>>, <<2, 0, 1>>})

(* Four fragments in a chain: one recovered fragment can release all.      *)
ChainVectors ==
  <<<<0, 1>>, <<1, 2>>, <<2, 3>>, <<3, 1>>, <<0, 1, 2>>, <<3, 2, 1>>, <<1, 3, 0, 2>>>>

MCMixOrderings(seq, count, crc) ==
  CASE count = 1 -> <<0>>
    [] count = 3 -> PairVectors[seq - count]
    [] count = 4 -> ChainVectors[seq - count]

(* A part of the stream <<count, mlen, crc, len>> as the encoder makes it.  *)
Made(seq, count, mlen, crc, len) ==
  [seq |-> seq, count |-> count, mlen |-> mlen, crc |-> crc,
   data |-> [len |-> len,
             sum |-> Mixture([count |-> count, mlen |-> mlen, crc |-> crc, len |-> len],
                             Range(ChooseFragments(seq, count, crc)))]]

(* A stream of K = 3 fragments of 2 bytes with 1 byte of padding.          *)
PairStream == {Made(s, K, 2 * K - 1, 7, 2) : s \in 1 .. K + Len(PairVectors)}

ChainStream == {Made(s, 4, 7, 7, 2) : s \in 1 .. 4 + Len(ChainVectors)}

(* All parts of a header whose fragments are a byte too short for the       *)
(* message.                                                                *)
Short == {Made(s, 2, 5, 7, 2) : s \in 1 .. 2}

MCPartsOrderings == PairStream \cup ChainStream \cup Short
-----------------------------------------------------------------------------
(* A session of three fragments of 2 bytes, with mixed parts whose vectors *)
(* share index-sets and reduce to one another, and one of four fragments   *)
(* of which fragment 3 is in no part.                                      *)
FewVectors == <<<<0, 1>>, <<1, 0>>, <<2, 1>>, <<2, 0, 1>>>>
StuckVectors == <<<<1, 2>>, <<2, 0, 1>>>>

MCMixFew(seq, count, crc) ==
  CASE count = 1 -> <<0>>
    [] count = 3 -> FewVectors[seq - count]
    [] count = 4 -> StuckVectors[seq - count]

Stream == {Made(s, 3, 5, 7, 2) : s \in 1 .. 7}

(* Another message, the same message cut differently, a fragment of        *)
(* another length under the same header, a message of one fragment.        *)
Foreign ==
  {Made(2, 3, 5, 9, 2), Made(4, 3, 5, 9, 2), Made(1, 2, 5, 7, 3), Made(3, 3, 5, 7, 3),
   Made(1, 1, 2, 4, 2), Made(2, 1, 2, 4, 2)}

(* All parts of a header whose fragments have more bytes than a usize can   *)
(* count, with a length of the message that the wrapped product would hold.*)
Wrapped == {Made(s, 4, 2, 7, 3) : s \in 1 .. 4}

(* Zero fields, and one part beyond each limit and each geometry bound.    *)
Unfit ==
  {Made(1, 0, 5, 7, 2), Made(1, 3, 5, 7, 0), Made(1, 3, 0, 7, 2), Made(0, 3, 5, 7, 2),
   Made(1, 3, 5, 7, 4), Made(1, 5, 5, 7, 1), Made(1, 3, 9, 7, 3), Made(1, 4, 8, 7, 3),
   Made(1, 2, 5, 7, 2), Made(1, 3, 3, 7, 2)}

(* As many parts as the limits allow, and none of them completes.  A       *)
(* damaged part has the right header and bytes that are not the stream's.  *)
Stuck == {Made(s, 4, 7, 7, 2) : s \in {1, 2, 5, 6}}

Damage(p) == [p EXCEPT !.data.sum = @ \cup {<<NoMeta, p.seq>>}]

MCPartsLimits == Stream \cup Foreign \cup Wrapped \cup Unfit \cup Stuck \cup {Damage(p) : p \in Stuck}
=============================================================================
