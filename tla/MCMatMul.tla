------------------------------ MODULE MCMatMul ------------------------------
(* Matrices of three rows for three ranks, and inputs that are rejected.    *)
(* Matrix b takes three blocks when it is sent; compression changes values. *)
EXTENDS MatMul

Matrix(r, c, first) == [rows |-> r, cols |-> c, data |-> [x \in 1..(r * c) |-> first + x]]

MCInputs ==
  {[a |-> Matrix(3, 2, 0), b |-> Matrix(2, 2, 6)],
   [a |-> Matrix(3, 3, 0), b |-> Matrix(2, 2, 6)],
   [a |-> Matrix(2, 2, 0), b |-> Matrix(2, 2, 6)],
   [a |-> Missing, b |-> Matrix(2, 2, 6)]}

MCDataBytes == <<2, 6>>
MCDecompressed == [v \in 1..10 |-> (v \div 2) * 2 + 1]
=============================================================================
