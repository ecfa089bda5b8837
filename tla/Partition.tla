------------------------------ MODULE Partition ------------------------------
(***************************************************************************)
(* How the Himeno programs cut the grid (src/app/src/himeno/himenoBMTxps.c,*)
(* initcomm and initmax; array bounds by paramset.sh).  Dimensions are     *)
(* numbered 1, 2, 3 for x, y, z; a decomposition nd gives the number of    *)
(* parts in each.  The arrays of neighbouring ranks overlap by one layer   *)
(* of cells on either side of the cut.                                     *)
(***************************************************************************)
EXTENDS Integers, FiniteSets

CONSTANT Size0       \* <<MX0, MY0, MZ0>>

Dims == 1..3

ASSUME PartitionAssumption == Size0 \in [Dims -> Nat \ {0, 1, 2, 3}]

\* mx, my, mz: points of the grid, numbered from 0 in each dimension
Size == [d \in Dims |-> Size0[d] - 1]

ProcNull == -1

NumRanks(nd) == nd[1] * nd[2] * nd[3]

\* MPI_Cart_create without reordering numbers the ranks row by row.
RankAt(nd, x, y, z) == (x * nd[2] + y) * nd[3] + z

\* iop: position of rank r in the grid of ranks
iop(nd, r) == <<r \div (nd[2] * nd[3]), (r \div nd[3]) % nd[2], r % nd[3]>>

\* MPI_Cart_shift by one: the neighbours of r below (side 0) and above (side 1)
\* in dimension d
Neighbour(nd, r, d, side) ==
  LET to == [iop(nd, r) EXCEPT ![d] = IF side = 0 THEN @ - 1 ELSE @ + 1]
  IN  IF to[d] \in 0..(nd[d] - 1) THEN RankAt(nd, to[1], to[2], to[3]) ELSE ProcNull

\* Mutated form of m1: the points left over by the division are forgotten.
m1Truncated(m, n) == [i \in 0..n |-> i * (m \div n)]

\* mx1[i]: points in the first i parts of a dimension; the first m % n parts are
\* one longer than the others.
m1(m, n) ==
  LET part[i \in 0..n] ==
        IF i = 0 THEN 0
        ELSE part[i - 1] + (m \div n) + (IF i <= m % n THEN 1 ELSE 0)
  IN  part

\* mx2[i]: length of part i, with the layers it shares
m2(m, n, i) ==
  m1(m, n)[i + 1] - m1(m, n)[i] + (IF i # 0 THEN 1 ELSE 0)
                                + (IF i # n - 1 THEN 1 ELSE 0)

\* imax, jmax, kmax of rank r
Extent(nd, r, d) == m2(Size[d], nd[d], iop(nd, r)[d])

\* it: what has to be added to an index of r for that of the whole grid
Offset(nd, r, d) ==
  LET i == iop(nd, r)[d]
  IN  m1(Size[d], nd[d])[i] - (IF i = 0 THEN 0 ELSE 1)

Local(nd, r) == (0..(Extent(nd, r, 1) - 1)) \X (0..(Extent(nd, r, 2) - 1))
                                            \X (0..(Extent(nd, r, 3) - 1))

\* The cells a sweep of rank r computes.
Interior(nd, r) == (1..(Extent(nd, r, 1) - 2)) \X (1..(Extent(nd, r, 2) - 2))
                                               \X (1..(Extent(nd, r, 3) - 2))

\* the point of the grid cell c of r belongs to, for all the cells of r
Global(nd, r) ==
  LET it == [d \in Dims |-> Offset(nd, r, d)]
  IN  [c \in Local(nd, r) |-> [d \in Dims |-> c[d] + it[d]]]

OnEdge(g) == \E d \in Dims : g[d] \in {0, Size[d] - 1}

\* MJMAX of param.h: second bound of the arrays, larger than jmax
MJMAX(nd) == IF nd[2] = 1 THEN Size0[2] ELSE (Size0[2] \div nd[2]) + 3

\* The cells of layer l across dimension d that the vector types ijvec, ikvec,
\* jkvec select.  ijvec takes imax * jmax elements one row of the array apart
\* and so, as a row of i has MJMAX of them, misses the last when jmax < MJMAX.
Layer(nd, r, d, l) ==
  LET selected == Extent(nd, r, 1) * Extent(nd, r, 2)
      row == MJMAX(nd)
  IN  {c \in Local(nd, r) : c[d] = l /\ (d = 3 => c[1] * row + c[2] < selected)}
=============================================================================
