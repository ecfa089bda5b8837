-------------------------------- MODULE MCLu --------------------------------
(* Instances of Lu: small matrices over the integers modulo Q whose         *)
(* elimination meets no zero pivot, built from factors.                      *)
EXTENDS Lu

RowOf(values) == [c \in Cols |-> values[c + 1]]

\* Products of a unit lower and an upper triangular factor without a zero on
\* its diagonal; a zero in L makes forw_elim return early.
FourByFour ==
  {Product([r \in Rows |-> RowOf(CASE r = 0 -> <<u, 2, 1, 1>>
                                   [] r = 1 -> <<l, 1, u, 0>>
                                   [] r = 2 -> <<1, m, 2, 1>>
                                   [] r = 3 -> <<2, l, u, 1>>)]) :
     u \in {1, 3}, l \in {0, 2}, m \in {0, 4}}

\* The rows of step 1 are broadcast by roots that wait for everybody.
SecondStepWaits == [d \in Steps |-> d # 1]
=============================================================================
