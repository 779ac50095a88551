---------------------------- MODULE FountainParts ----------------------------
(***************************************************************************)
(* Fountain parts as the encoder makes them and the decoder takes them:     *)
(* the free functions of crates/bcur/src/fountain/mod.rs and its type Part. *)
(*                                                                         *)
(* A part is a record of its header and its payload.  A payload is its      *)
(* length and the set of source fragments XORed into it, so the XOR of two  *)
(* payloads is the symmetric difference of their sets.  The PRNG that picks *)
(* the fragments of a mixed part is the constant Mix.                       *)
(*                                                                         *)
(* Here and in the other modules, definitions named Faulty... are seeded    *)
(* faults: each is a wrong form of the definition that follows it, which    *)
(* one of the properties must catch.                                       *)
(***************************************************************************)
EXTENDS Integers, Sequences, FiniteSets, Functions, SequencesExt

CONSTANTS
  Mix(_, _, _)    \* indexes of a mixed part, from sequence, count, checksum
-----------------------------------------------------------------------------
(* How a message is cut.                                                   *)

DivCeil(a, b) == IF a % b > 0 THEN a \div b + 1 ELSE a \div b

(* As few fragments as `max' allows, and all of one length.                *)
FragmentLength(length, max) == DivCeil(length, DivCeil(length, max))

FaultyFragmentCount(length, len) ==     \* the remainder is dropped
  length \div len

(* partition pads to a multiple of the fragment length and cuts.           *)
FragmentCount(length, len) ==
  LET pad == (len - (length % len)) % len IN (length + pad) \div len
-----------------------------------------------------------------------------
(* Index vectors and payloads.                                             *)

(* choose_fragments: the first `count' parts carry one fragment each.      *)
ChooseFragments(seq, count, crc) ==
  IF seq = 0 \/ count = 0 THEN << >>
  ELSE IF seq <= count THEN <<seq - 1>>
  ELSE Mix(seq, count, crc)

Indexes(p) == ChooseFragments(p.seq, p.count, p.crc)

(* A vector of distinct fragment indexes, in the order of the shuffle.     *)
IsIndexVector(v, count) ==
  /\ v \in Seq(0 .. count - 1)
  /\ v # << >>
  /\ \A j, k \in DOMAIN v : v[j] = v[k] => j = k

Position(v, i) == CHOOSE k \in DOMAIN v : v[k] = i

Without(v, i) == RemoveAt(v, Position(v, i))

FaultyXor(d, e) == [d EXCEPT !.sum = d.sum \cup e.sum]      \* OR for XOR

Xor(d, e) == [d EXCEPT !.sum = (d.sum \ e.sum) \cup (e.sum \ d.sum)]
-----------------------------------------------------------------------------
(* Parts.                                                                  *)

(* The header fields that Decoder::validate compares.                      *)
MetaOf(p) ==
  [count |-> p.count, mlen |-> p.mlen, crc |-> p.crc, len |-> p.data.len]

(* Fragment i of the stream with header m is the atom <<m, i>>.            *)
Mixture(m, I) == {<<m, i>> : i \in I}

(* The payload is what the header says.                                    *)
IsHonest(p) == p.data.sum = Mixture(MetaOf(p), Range(Indexes(p)))

IsEmpty(p) == p.count = 0 \/ p.data.len = 0 \/ p.mlen = 0

WellFormed(p) == ~IsEmpty(p) /\ p.seq # 0

FaultyGeometry(p) ==                    \* one byte short
  /\ p.data.len * p.count + 1 >= p.mlen
  /\ p.data.len * p.count - p.mlen < p.data.len

(* The fragments hold the message and less than one fragment of padding.   *)
Geometry(p) ==
  /\ p.data.len * p.count >= p.mlen
  /\ p.data.len * p.count - p.mlen < p.data.len
=============================================================================
