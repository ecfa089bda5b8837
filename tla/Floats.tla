-------------------------------- MODULE Floats --------------------------------
(***************************************************************************)
(* Floating-point numbers as the bits src/app/src/dataCompression.c works  *)
(* on: a sign, ExpoBits of exponent and MantBits of mantissa.  A number is *)
(* an integer here, counted in units of the smallest positive double.      *)
(***************************************************************************)
EXTENDS Integers, SequencesExt

CONSTANTS
  ExpoBits,    \* 11 in the program (8 for floats)
  MantBits,    \* 52 in the program (23 for floats)
  BoundBits    \* absErrorBound_binary: 20 in the program, for a bound of 1e-6

Bias == 2 ^ (ExpoBits - 1) - 1
Width == 1 + ExpoBits + MantBits
Header == 1 + ExpoBits

One == 2 ^ (MantBits + Bias - 1)

ToBits(n, w) == [k \in 1..w |-> (n \div 2 ^ (w - k)) % 2]

FromBits(s) == FoldLeft(LAMBDA n, b : 2 * n + b, 0, s)

\* exponent and mantissa fields of a non-negative number
Expo(v) ==
  IF v < 2 ^ MantBits
  THEN 0
  ELSE CHOOSE e \in 1..(2 ^ ExpoBits - 1) :
         2 ^ (MantBits + e - 1) <= v /\ v < 2 ^ (MantBits + e)
Mant(v) == IF Expo(v) = 0 THEN v ELSE v \div 2 ^ (Expo(v) - 1) - 2 ^ MantBits

FromFields(e, m) == IF e = 0 THEN m ELSE (2 ^ MantBits + m) * 2 ^ (e - 1)

doubletostr(v) == <<0>> \o ToBits(Expo(v), ExpoBits) \o ToBits(Mant(v), MantBits)

strtodbl(s) ==
  LET n == FromFields(FromBits(SubSeq(s, 2, Header)),
                      FromBits(SubSeq(s, Header + 1, Width)))
  IN  IF s[1] = 1 THEN -n ELSE n

\* mantissa_bits_within_error_bound of a number with exponent field e
Kept(e) ==
  LET m == BoundBits + e - Bias
  IN  IF m > MantBits THEN MantBits ELSE IF m < 0 THEN 0 ELSE m

\* Bits with the rest of the mantissa missing: a 1, then zeros.
Completed(s) ==
  IF Len(s) < Width
  THEN s \o <<1>> \o [k \in 1..(Width - Len(s) - 1) |-> 0]
  ELSE SubSeq(s, 1, Width)
=============================================================================
