------------------------------- MODULE MCCodec -------------------------------
(***************************************************************************)
(* Doubles of eight bits: four of exponent, three of mantissa; 1.0 is 512  *)
(* units and the error bound 300 of them, 2^-1 < Bound/512.  The values    *)
(* keep 0 (320), 1 (576), 2 (1408) and all 3 (2304) bits of the mantissa.  *)
(***************************************************************************)
EXTENDS Codec

CONSTANTS Values, Length

MCDataSets == {d \in [1..Length -> Values] : \E k \in 1..Length : d[k] = 0}
=============================================================================
