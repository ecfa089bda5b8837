----------------------------- MODULE MCHamming -----------------------------
(* A block of two bytes (r = 5, code words of 22 bits) with up to four bits *)
(* flipped: every pattern the decoder can tell, and the lightest it cannot. *)
EXTENDS Hamming

\* two words that together set and clear every data bit
SomeWords == { [n \in 0..(K - 1) |-> n % 2],
               [n \in 0..(K - 1) |-> IF n % 3 = 0 THEN 1 ELSE 0] }
=============================================================================
