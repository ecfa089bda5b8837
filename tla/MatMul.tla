------------------------------- MODULE MatMul -------------------------------
(***************************************************************************)
(* The matrix multiplication of src/app/src/mm/mm_abft.c and mm_comp.c:    *)
(* rank 0 reads both matrices and broadcasts their shapes and then the     *)
(* matrices, with one of the broadcasts of module CheckedBcast.  Every     *)
(* rank multiplies a block of rows of the first matrix with the second,    *)
(* and rank 0 gathers the blocks.                                          *)
(***************************************************************************)
EXTENDS CheckedBcast

CONSTANTS
  Inputs,        \* the pairs of files rank 0 may be given, as matrices
  Missing,       \* a file that is not found
  Unset,         \* memory nothing has been written to
  Decompressed   \* Decompressed[v]: value v after compression

\* A matrix is a record of its shape and of its values, row by row.
ASSUME MatMulAssumption ==
  /\ NCalls = 2
  /\ \A m \in UNION {{x.a, x.b} : x \in Inputs} :
       m # Missing => m \in [rows : Nat \ {0}, cols : Nat \ {0},
                             data : [1..(m.rows * m.cols) -> DOMAIN Decompressed]]

VARIABLES
  input,         \* the files of this run
  result,        \* result[p]: result_matrix of rank p
  sent,          \* ranks whose block MPI_Gather has taken
  final          \* final_matrix on rank 0

mvars == <<input, result, sent, final>>
vars == <<bvars, mvars>>

a == input.a
b == input.b

\* MPI_Bcast of matrix_properties is call 0, m_a goes with call 1, m_b with 2.
Init ==
  /\ BInit
  /\ pc = [p \in Ranks |-> IF p = 0 THEN "read" ELSE "bcast"]
  /\ input \in Inputs
  /\ result = [p \in Ranks |-> Unset]
  /\ sent = {}
  /\ final = Unset

\* Mutated form of Accepted: any number of rows is accepted.
AcceptedAnyRows == a # Missing /\ b # Missing /\ a.cols = b.rows

Accepted ==
  a # Missing /\ b # Missing /\ a.cols = b.rows /\ a.rows % Procs = 0

\* Rank 0 reads its input and checks it, or exits; the others wait in call 0.
Read ==
  /\ pc[0] = "read"
  /\ GoTo(0, IF Accepted THEN "bcast" ELSE "exit")
  /\ UNCHANGED <<method, eager, call, i, posted, block, crc_ok, gathered, mail,
                 resend, held, overload, mvars>>

\* The values rank p holds after call k.
Values(m, k, p) ==
  CASE held[k][p] = "exact"        -> m.data
    [] held[k][p] = "decompressed" -> [x \in DOMAIN m.data |-> Decompressed[m.data[x]]]
    [] held[k][p] = "damaged"      -> [x \in DOMAIN m.data |-> 0]

startrow(p) == p * (a.rows \div Procs)
endrow(p) == (p + 1) * (a.rows \div Procs) - 1
number_of_rows == (a.rows * b.cols) \div Procs

\* The loops over i, j and k; the matrices are arrays in one dimension.
Block(p) ==
  LET m_a == Values(a, 1, p)
      m_b == Values(b, 2, p)
      row(x) == startrow(p) + x \div b.cols
      product(x, k) == m_a[row(x) * a.cols + k + 1] * m_b[k * b.cols + (x % b.cols) + 1]
  IN  [x \in 1..((endrow(p) - startrow(p) + 1) * b.cols) |->
         Total([k \in 0..(b.rows - 1) |-> product(x - 1, k)])]

Multiply(p) ==
  /\ call[p] = NCalls + 1
  /\ pc[p] = "bcast"
  /\ result' = [result EXCEPT ![p] = Block(p)]
  /\ GoTo(p, "collect")
  /\ UNCHANGED <<method, eager, call, i, posted, block, crc_ok, gathered, mail,
                 resend, held, overload, input, sent, final>>

\* MPI_Gather of the blocks.
GiveBlock(p) ==
  /\ p # 0
  /\ pc[p] = "collect"
  /\ eager \/ pc[0] = "collect"
  /\ sent' = sent \cup {p}
  /\ GoTo(p, "finalized")
  /\ UNCHANGED <<method, eager, call, i, posted, block, crc_ok, gathered, mail,
                 resend, held, overload, input, result, final>>

\* Rank 0 has all the blocks, number_of_rows values from each rank, and writes
\* them; mm_comp.c writes resend.
Collect ==
  /\ pc[0] = "collect"
  /\ sent = Receivers
  /\ final' = [x \in 1..(Procs * number_of_rows) |->
                 result[(x - 1) \div number_of_rows][((x - 1) % number_of_rows) + 1]]
  /\ GoTo(0, "finalized")
  /\ UNCHANGED <<method, eager, call, i, posted, block, crc_ok, gathered, mail,
                 resend, held, overload, input, result, sent>>

Step(p) ==
  \/ BcastStep(p) /\ UNCHANGED mvars
  \/ p = 0 /\ (Read \/ Collect)
  \/ Multiply(p)
  \/ GiveBlock(p)

\* All have ended; or rank 0 has left with exit(), without MPI_Abort, and the
\* others wait for it in call 0.
Ended == \A p \in Ranks : pc[p] = "finalized"
Left ==
  /\ pc[0] = "exit"
  /\ \A p \in Receivers : call[p] = 0 /\ pc[p] = "bcast" /\ i[p] = posted[0]

Terminated == (Ended \/ Left) /\ UNCHANGED vars

Next == (\E p \in Ranks : Step(p)) \/ Terminated

Spec == Init /\ [][Next]_vars

\* The MPI library and the operating system let every rank run.
FairSpec == Spec /\ \A p \in Ranks : WF_vars(Step(p))

-----------------------------------------------------------------------------
(* Properties. *)

\* Every variable has its type; the loops fill a rank's result_matrix, which
\* number_of_rows was allocated for, exactly.
TypeOK ==
  /\ BTypeOK
  /\ pc \in [Ranks -> {"read", "exit", "bcast", "gather", "decode", "await",
                       "resend", "decompress", "collect", "finalized"}]
  /\ input \in Inputs
  /\ \A p \in Ranks : result[p] # Unset => DOMAIN result[p] = 1..number_of_rows
  /\ sent \subseteq Receivers
  /\ final # Unset => DOMAIN final = 1..(a.rows * b.cols)

\* The product of two matrices, entry by entry.
Entry(x, y, row, col) ==
  Total([k \in 0..(x.cols - 1) |->
           x.data[(row - 1) * x.cols + k + 1] * y.data[k * y.cols + col]])

Lossy(m) == [m EXCEPT !.data = [x \in DOMAIN @ |-> Decompressed[@[x]]]]

\* Row r of the result is the row of the product of the matrices as the rank
\* that computed it received them: rank 0 keeps the exact values, so its rows
\* are exact and the other rows those of the compressed matrices.  Only a rank
\* that had three wrong bits in a block may have computed something else.
ResultIsProduct ==
  pc[0] = "finalized" =>
    \A r \in 1..a.rows, c \in 1..b.cols :
      LET owner == (r - 1) \div (a.rows \div Procs)
          exact == owner = 0 \/ method \in {"plain", "abft"}
      IN  \/ owner \in overload
          \/ final[(r - 1) * b.cols + c] =
               IF exact THEN Entry(a, b, r, c) ELSE Entry(Lossy(a), Lossy(b), r, c)

\* The number of second copies rank 0 prints is the number of broadcasts whose
\* check failed on some receiver; all of them have been received by then.
ResentIsCounted ==
  pc[0] = "finalized" => resend = Cardinality(Asked) /\ mail = {}

\* Every rank gets to its end unless rank 0 rejects its input.
EndsUnlessRejected == <>(Ended \/ (Left /\ ~Accepted))
=============================================================================
