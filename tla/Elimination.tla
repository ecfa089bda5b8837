----------------------------- MODULE Elimination -----------------------------
(***************************************************************************)
(* The arithmetic of the LU programs (src/app/src/lu): a matrix is reduced *)
(* in place, row by row, and ends up holding both factors.  The doubles    *)
(* are replaced by the integers modulo a prime Q: exact, with a division.  *)
(***************************************************************************)
EXTENDS Integers, FiniteSets

CONSTANTS
  N,    \* mx_size
  Q     \* modulus, a prime

ASSUME EliminationAssumption ==
  /\ N \in Nat \ {0}
  /\ Q \in Nat \ {0}

Rows == 0..(N - 1)
Cols == 0..(N - 1)
Value == 0..(Q - 1)
Row == [Cols -> Value]
Matrix == [Rows -> Row]

Plus(a, b) == (a + b) % Q
Minus(a, b) == (a - b) % Q
Times(a, b) == (a * b) % Q

\* As Q is a prime, every element but 0 divides the others.
ASSUME FieldAssumption ==
  \A a \in Value, b \in Value \ {0} : \E v \in Value : Times(v, b) = a

\* a / b; what a division by zero gives is left open, but always the same
Quotient(a, b) == CHOOSE v \in Value : b # 0 => Times(v, b) = a

\* Mutated form of forw_elim: the multiplier is not kept in the column it has
\* cleared.
EliminatedToZero(origin, master, d) ==
  LET k == Quotient(origin[d], master[d])
  IN  [c \in Cols |-> IF c < d THEN origin[c]
                      ELSE Minus(origin[c], Times(k, master[c]))]

\* Row origin after its elimination with the row of the diagonal element d: the
\* multiplier takes the place of column d, the columns before are left alone.
forw_elim(origin, master, d) ==
  IF origin[d] = 0 THEN origin
  ELSE LET k == Quotient(origin[d], master[d])
       IN  [c \in Cols |-> IF c < d THEN origin[c]
                           ELSE IF c = d THEN k
                           ELSE Minus(origin[c], Times(k, master[c]))]
=============================================================================
