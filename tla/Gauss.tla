-------------------------------- MODULE Gauss --------------------------------
(***************************************************************************)
(* LU factorisation without pivoting, on one copy of the matrix: every row *)
(* is eliminated with the rows above it, from the first to the last, each  *)
(* of them once it is final.  Rows of the same step come in any order.     *)
(***************************************************************************)
EXTENDS Elimination

CONSTANT Matrices    \* the matrices to factor

VARIABLES
  rows,     \* the matrix being reduced
  stage     \* stage[r]: eliminations row r has been through

gvars == <<rows, stage>>

GInit ==
  /\ rows \in Matrices
  /\ stage = [r \in Rows |-> 0]

Final(r) == stage[r] = r

Eliminate(r) ==
  /\ stage[r] < r
  /\ Final(stage[r])
  /\ rows' = [rows EXCEPT ![r] = forw_elim(@, rows[stage[r]], stage[r])]
  /\ stage' = [stage EXCEPT ![r] = @ + 1]

GNext == \E r \in Rows : Eliminate(r)

Spec == GInit /\ [][GNext]_gvars
=============================================================================
