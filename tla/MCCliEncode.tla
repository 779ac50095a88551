----------------------------- MODULE MCCliEncode -----------------------------
(***************************************************************************)
(* Instances of CliEncode for TLC.                                          *)
(***************************************************************************)
EXTENDS CliEncode, TLC

CONSTANTS bytes

MCTypeLen == (bytes :> 5)

MCMix(seq, count, crc) == <<0>>

Request(n, maxChars, maxFragment, animate, qr, count) ==
  [len |-> n, crc |-> 70000, type |-> bytes, maxChars |-> maxChars,
   maxFragment |-> maxFragment, animate |-> animate, qr |-> qr, count |-> count]

(* A payload that fits as one fragment only.                               *)
MCSmall == {Request(10, c, None, TRUE, FALSE, None) : c \in 40 .. 70}

(* Streams that are printed beyond the slack.                              *)
MCTooLong == {Request(30, c, None, TRUE, FALSE, 100000) : c \in 60 .. 66}
=============================================================================
