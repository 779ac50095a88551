----------------------------- MODULE MCUrDecoder -----------------------------
(***************************************************************************)
(* Instances of UrDecoder for TLC.                                          *)
(***************************************************************************)
EXTENDS UrDecoder, MCFountainDecoder, TLC

CONSTANTS alpha, beta       \* two types

MCTypeLen == (alpha :> 5) @@ (beta :> 4)

(* Two fragments of two bytes and their mixture, in both orders.           *)
MCMixTwo(seq, count, crc) ==
  IF count = 1 THEN <<0>> ELSE IF seq = 3 THEN <<0, 1>> ELSE <<1, 0>>

Two == {Made(s, 2, 4, 7, 2) : s \in 1 .. 4}

(* Another message, one of a single fragment, one part beyond each limit    *)
(* or with a zero field, one too short for its message, a damaged one.     *)
Others ==
  {Made(1, 2, 4, 9, 2), Made(1, 1, 2, 5, 2), Made(2, 1, 2, 5, 2), Made(1, 2, 5, 7, 2),
   Made(1, 2, 9, 7, 2), Made(1, 2, 4, 7, 4), Made(1, 4, 4, 7, 1),
   Made(0, 2, 4, 7, 2), Made(1, 2, 0, 7, 2), Damage(Made(2, 2, 4, 7, 2))}

MCUrParts == Two \cup Others

MCUris ==
  {MultiUri(alpha, p) : p \in MCUrParts}
    \cup {MultiUri(beta, p) : p \in {Made(2, 2, 4, 7, 2), Made(1, 1, 2, 5, 2)}}
    \cup {SingleUri(alpha, [len |-> 3, id |-> 1]), SingleUri(alpha, [len |-> 3, id |-> 2]),
          SingleUri(beta, [len |-> 3, id |-> 1]), SingleUri(alpha, [len |-> 9, id |-> 3])}
    \cup {[MultiUri(alpha, Made(1, 2, 4, 7, 2)) EXCEPT !.indices = <<2, 2>>],
          [MultiUri(alpha, Made(1, 2, 4, 7, 2)) EXCEPT !.body = None],
          [SingleUri(alpha, [len |-> 3, id |-> 1]) EXCEPT !.body = None],
          [SingleUri(alpha, [len |-> 3, id |-> 1]) EXCEPT !.len = 100],
          [SingleUri(alpha, [len |-> 3, id |-> 1]) EXCEPT !.parsed = FALSE]}
=============================================================================
