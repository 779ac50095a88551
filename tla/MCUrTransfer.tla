----------------------------- MODULE MCUrTransfer -----------------------------
(***************************************************************************)
(* Instances of UrTransfer for TLC: a message of one fragment or of three,  *)
(* and as many sequence numbers as MaxU32.                                  *)
(***************************************************************************)
EXTENDS UrTransfer, TLC

CONSTANTS alpha, beta       \* two types

MCTypeLen == (alpha :> 5) @@ (beta :> 4)

MCMessages == {[len |-> 5, crc |-> 7]}

MCMaxima == {2, 5}

(* The mixtures of the sequence numbers after the count.                   *)
MCMix(seq, count, crc) ==
  CASE count = 1 -> <<0>>
    [] count = 2 -> <<1, 0>>
    [] seq = 4   -> <<2, 0>>
    [] OTHER     -> <<1, 2, 0>>

(* The part with number seq of a message, as an encoder makes it.          *)
Made(m, max, seq) == PartOf(Constructed(m, max), seq)

(* Another message of as many fragments, one of a single fragment sent as  *)
(* a part, another type, a single part, and one that is too long.          *)
MCForeign ==
  {MultiUri(alpha, Made([len |-> 5, crc |-> 9], 2, s)) : s \in {1, 4}}
    \cup {MultiUri(beta, Made([len |-> 5, crc |-> 7], 2, 2)),
          MultiUri(beta, Made([len |-> 3, crc |-> 6], 3, 1)),
          SingleUri(alpha, [len |-> 4, id |-> 3]),
          SingleUri(alpha, [len |-> 9, id |-> 4])}

NoForeign == {}

MCUris == Sendable \cup {[u EXCEPT !.body = None] : u \in Sendable} \cup Foreign

MCParts == {u.body : u \in {v \in MCUris : v.kind = "MultiPart" /\ v.body # None}}
=============================================================================
