----------------------------- MODULE MCSampler -----------------------------
(***************************************************************************)
(* Instances of Sampler for TLC.                                            *)
(***************************************************************************)
EXTENDS Sampler

(* 1/k for k = 1 .. n, over a common denominator; and weights that are equal *)
(* or zero.                                                                *)
MCWeights ==
  {<<1>>, <<2, 1>>, <<6, 3, 2>>, <<12, 6, 4, 3>>, <<60, 30, 20, 15, 12>>,
   <<1, 1, 1>>, <<0, 1, 2>>, <<1, 2, 4, 8>>}

MCPowers == {2 ^ k : k \in 0 .. 5}

NoMix(seq, count, crc) == << >>
=============================================================================
