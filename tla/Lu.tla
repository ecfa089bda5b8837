---------------------------------- MODULE Lu ----------------------------------
(***************************************************************************)
(* The parallel LU programs (src/app/src/lu/lu.c, lu_abft.c).  Every rank  *)
(* holds a whole matrix; rank r % P owns row r.  In step d a rank          *)
(* eliminates column d of the rows it owns with its own copy of row d, and *)
(* then all the rows below d are broadcast, each by its owner, from        *)
(* column d on.                                                            *)
(*                                                                         *)
(* A broadcast is what ReliableBcast promises of MPI_Bcast_abft when the   *)
(* wires do not overload the code, and what MPI promises of MPI_Bcast: the *)
(* receivers get the root's data of the time of its call.                  *)
(***************************************************************************)
EXTENDS Elimination

CONSTANTS
  P,          \* number of ranks
  Matrices,   \* the matrices rand() may produce
  Eager       \* Eager[d]: the root of a broadcast of step d does not wait for
              \* the others (MPI decides by the size of the message)

Ranks == 0..(P - 1)
Steps == 0..(N - 2)

ASSUME LuAssumption ==
  /\ P \in Nat \ {0}
  /\ Matrices \subseteq Matrix
  /\ Eager \in [Steps -> BOOLEAN]

VARIABLES
  A,          \* A[p]: the matrix of rank p
  diag_ref,   \* diag_ref[p]: the step p executes, N - 1 at the end
  pc,         \* pc[p]: "elim" or "bcast", the loop of the step it is in
  j,          \* j[p]: the row of that loop
  printed,    \* the matrix rank 0 prints before the first step
  wire        \* wire[d][r]: what the owner of row r has broadcast in step d,
              \* a function of the columns from d on; the empty function before

vars == <<A, diag_ref, pc, j, printed, wire>>

\* j % p == id: the rank that eliminates row r
owner(r) == r % P

\* Mutated form of root: the rank is taken from the step.
RootOfStep(d, r) == d % P

\* The root of the broadcast of row r in step d.
root(d, r) == r % P

Running(p) == diag_ref[p] < N - 1
At(p, l) == Running(p) /\ pc[p] = l

NotSent == [c \in {} |-> 0]

\* Mutated forms of Tail: one column short; a row the elimination has left as
\* it was is not broadcast.
TailPastDiagonal(row, d) == [c \in (d + 1)..(N - 1) |-> row[c]]
TailIfChanged(row, d) ==
  IF row[d] = 0 THEN NotSent ELSE [c \in d..(N - 1) |-> row[c]]

\* save: the row from the diagonal column on, mx_size - diag_ref of them
Tail(row, d) == [c \in d..(N - 1) |-> row[c]]

\* The row with the columns of a tail received written over its own.
Overwritten(row, tail) ==
  [c \in Cols |-> IF c \in DOMAIN tail THEN tail[c] ELSE row[c]]

\* Every rank runs gen_mx on its own, seeded with its clock before MPI_Init.
\* Ranks started within the same second get the same matrix; that they do is
\* assumed here.
Init ==
  /\ \E M \in Matrices : A = [p \in Ranks |-> M]
  /\ printed = A[0]
  /\ diag_ref = [p \in Ranks |-> 0]
  /\ pc = [p \in Ranks |-> "elim"]
  /\ j = [p \in Ranks |-> 1]
  /\ wire = [d \in Steps |-> [r \in Rows |-> NotSent]]

\* One iteration of the loop that eliminates the rows of the rank.
Elim(p) ==
  /\ At(p, "elim")
  /\ A' = IF owner(j[p]) = p
          THEN [A EXCEPT ![p][j[p]] = forw_elim(@, A[p][diag_ref[p]], diag_ref[p])]
          ELSE A
  /\ IF j[p] + 1 < N
     THEN j' = [j EXCEPT ![p] = @ + 1] /\ pc' = pc
     ELSE j' = [j EXCEPT ![p] = diag_ref[p] + 1] /\ pc' = [pc EXCEPT ![p] = "bcast"]
  /\ UNCHANGED <<diag_ref, printed, wire>>

\* The end of an iteration of the loop that broadcasts the rows, and of the
\* step after the last of them.
NextRow(p) ==
  IF j[p] + 1 < N
  THEN j' = [j EXCEPT ![p] = @ + 1] /\ UNCHANGED <<diag_ref, pc>>
  ELSE /\ diag_ref' = [diag_ref EXCEPT ![p] = @ + 1]
       /\ j' = [j EXCEPT ![p] = diag_ref[p] + 2]
       /\ pc' = [pc EXCEPT ![p] = "elim"]

\* Rank q is in the broadcast p makes.
SameCall(p, q) == At(q, "bcast") /\ diag_ref[q] = diag_ref[p] /\ j[q] = j[p]

\* The root, which owns the row, broadcasts it.
Send(p) ==
  /\ At(p, "bcast")
  /\ root(diag_ref[p], j[p]) = p
  /\ Eager[diag_ref[p]] \/ \A q \in Ranks : SameCall(p, q)
  /\ wire' = [wire EXCEPT ![diag_ref[p]][j[p]] = Tail(A[p][j[p]], diag_ref[p])]
  /\ NextRow(p)
  /\ UNCHANGED <<A, printed>>

\* Any other rank receives it over its own copy.
Recv(p) ==
  /\ At(p, "bcast")
  /\ root(diag_ref[p], j[p]) # p
  /\ wire[diag_ref[p]][j[p]] # NotSent
  /\ A' = [A EXCEPT ![p][j[p]] = Overwritten(@, wire[diag_ref[p]][j[p]])]
  /\ NextRow(p)
  /\ UNCHANGED <<printed, wire>>

Step(p) == Elim(p) \/ Send(p) \/ Recv(p)

AllDone == \A p \in Ranks : ~Running(p)

Terminated == AllDone /\ UNCHANGED vars

Next == (\E p \in Ranks : Step(p)) \/ Terminated

Spec == Init /\ [][Next]_vars

\* The MPI library and the operating system let every rank run.
FairSpec == Spec /\ \A p \in Ranks : WF_vars(Step(p))

-----------------------------------------------------------------------------
(* Properties. *)

TypeOK ==
  /\ A \in [Ranks -> Matrix]
  /\ diag_ref \in [Ranks -> 0..(N - 1)]
  /\ printed \in Matrix
  /\ pc \in [Ranks -> {"elim", "bcast"}]
  /\ j \in [Ranks -> 1..N]
  /\ \A p \in Ranks : Running(p) => j[p] \in (diag_ref[p] + 1)..(N - 1)
  /\ wire \in [Steps -> [Rows -> {NotSent} \cup UNION {[d..(N - 1) -> Value] : d \in Steps}]]

\* The row of the diagonal a rank eliminates with, and every row above it, is
\* the one its owner holds: the copies a rank uses are never stale, however far
\* ahead or behind the other ranks are.
PivotIsOwners ==
  \A p \in Ranks : \A r \in 0..diag_ref[p] : A[p][r] = A[owner(r)][r]

\* The factors as printed: L has ones on its diagonal, U what is on and above it.
LPart(M, r, c) == IF c > r THEN 0 ELSE IF c = r THEN 1 ELSE M[r][c]
UPart(M, r, c) == IF c >= r THEN M[r][c] ELSE 0

\* f[0] + ... + f[n - 1], added in that order
Total(f, n) ==
  LET upto[k \in 0..n] == IF k = 0 THEN 0 ELSE upto[k - 1] + f[k - 1]
  IN  upto[n]

Product(M) ==
  [r \in Rows |-> [c \in Cols |->
     Total([k \in Cols |-> LPart(M, r, k) * UPart(M, k, c)], N) % Q]]

\* What each rank ends with is the factorisation: the L and U printed from it
\* multiply to the matrix that was printed at the start.
FactorsOfPrinted == \A p \in Ranks : ~Running(p) => Product(A[p]) = printed

\* Every rank ends.
EveryRankEnds == <>AllDone

\* The rows their owners hold, reduced one by one: module Gauss.
Least(a, b) == IF a < b THEN a ELSE b
OwnersRows == [r \in Rows |-> A[owner(r)][r]]
OwnersStage ==
  [r \in Rows |->
     LET o == owner(r)
         eliminated == pc[o] = "bcast" \/ r < j[o]
     IN  Least(r, IF eliminated THEN diag_ref[o] + 1 ELSE diag_ref[o])]

Sequential == INSTANCE Gauss WITH rows <- OwnersRows, stage <- OwnersStage

\* The parallel program implements the sequential factorisation.
ImplementsGauss == Sequential!Spec
=============================================================================
