------------------------------- MODULE Secded -------------------------------
(***************************************************************************)
(* What src/app/src/abft.c does to one block of bytes and its Hamming      *)
(* code, seen from outside: how many of the data bits and how many of the  *)
(* code bits (check bits and overall parity) differ from the ones the root *)
(* encoded.  The code is linear, so hamming_decode only sees the           *)
(* difference: its answer and what it leaves behind depend on which bits   *)
(* are wrong, not on the data.  Module Hamming holds the bit-level code,   *)
(* which Outcomes covers.                                                  *)
(***************************************************************************)
EXTENDS Naturals

CONSTANT MaxBlock    \* cap of block_size in bytes: 12499 in the program

ASSUME MaxBlockAssumption == MaxBlock \in Nat \ {0}

-----------------------------------------------------------------------------
(* How a buffer of n bytes is cut into blocks. *)

block_size(n) == IF n > MaxBlock THEN MaxBlock ELSE n

bs_last(n) == n % block_size(n)

bs_num(n) == (n \div block_size(n)) + (IF bs_last(n) > 0 THEN 1 ELSE 0)

\* bytes of block i, counted from 0
block_bytes(n, i) ==
  IF bs_last(n) > 0 /\ i = bs_num(n) - 1 THEN bs_last(n) ELSE block_size(n)

-----------------------------------------------------------------------------
(* Decoding one block. *)

Pattern == [data : Nat, code : Nat]

Intact == [data |-> 0, code |-> 0]

Weight(p) == p.data + p.code

\* error_info: no error, two-bit error, parity error, one-bit error
ErrorType == 0..3

TwoBit == 1

\* patterns one bit away in the code bits, in the data bits
CodeToggled(p) ==
  {[p EXCEPT !.code = n] : n \in {p.code + 1} \cup ({p.code - 1} \cap Nat)}

DataToggled(p) ==
  {[p EXCEPT !.data = n] : n \in {p.data + 1} \cup ({p.data - 1} \cap Nat)}

\* A pattern that is itself a code word is invisible to the decoder; the
\* lightest ones have four bits, one of them at least a data bit.
MaybeCodeWord(p) == Weight(p) % 2 = 0 /\ Weight(p) >= 4 /\ p.data > 0

Outcome(t, p) == [type |-> t, left |-> p]

\* The answers hamming_decode may give for p with what it leaves of p.  An odd
\* pattern of three bits or more looks like one wrong bit: decoding moves to
\* the nearest code word, or changes nothing when the position it computes
\* lies past the end of the block.
Outcomes(p) ==
  {o \in [type : ErrorType,
          left : {p, Intact} \cup DataToggled(p) \cup CodeToggled(p)] :
     \/ Weight(p) = 0 /\ o = Outcome(0, p)
     \/ Weight(p) = 1 /\ \/ o = Outcome(3, Intact)
                         \/ o = Outcome(2, Intact) /\ p.code = 1
     \/ /\ Weight(p) > 1 /\ Weight(p) % 2 = 0
        /\ o.left = p
        /\ o.type = TwoBit \/ (o.type = 0 /\ MaybeCodeWord(p))
     \/ /\ Weight(p) > 1 /\ Weight(p) % 2 = 1
        /\ \/ o = Outcome(3, p)
           \/ MaybeCodeWord(o.left) /\ o.left \in CodeToggled(p) /\ o.type \in {2, 3}
           \/ MaybeCodeWord(o.left) /\ o.left \in DataToggled(p) /\ o.type = 3}
=============================================================================
