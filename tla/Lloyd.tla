--------------------------------- MODULE Lloyd ---------------------------------
(***************************************************************************)
(* k-means on one machine: points join the cluster of the nearest mean,    *)
(* means are computed anew from their points, in turn.  Shared is the set  *)
(* of points that take part in the first.  The arithmetic is that of       *)
(* module Clusters.                                                        *)
(***************************************************************************)
EXTENDS Integers

CONSTANTS
  Points, Clusters, Shared,
  Nearest(_, _, _, _),
  calcKmeans(_, _, _)

VARIABLES
  x, y,         \* the points
  kx, ky,       \* the means
  assignment,   \* assignment[i]: the cluster of point i
  joined        \* the points have joined and the means are out of date

lvars == <<x, y, kx, ky, assignment, joined>>

LInit ==
  /\ x \in [Points -> Int] /\ y \in [Points -> Int]
  /\ kx \in [Clusters -> Int] /\ ky \in [Clusters -> Int]
  /\ assignment = [i \in Points |-> 0]
  /\ joined = FALSE

Join ==
  /\ ~joined
  /\ assignment' = [i \in Points |-> IF i \in Shared THEN Nearest(x[i], y[i], kx, ky)
                                                     ELSE assignment[i]]
  /\ joined' = TRUE
  /\ UNCHANGED <<x, y, kx, ky>>

Move ==
  /\ joined
  /\ kx' = calcKmeans(x, assignment, kx)
  /\ ky' = calcKmeans(y, assignment, ky)
  /\ joined' = FALSE
  /\ UNCHANGED <<x, y, assignment>>

LNext == Join \/ Move

Spec == LInit /\ [][LNext]_lvars
=============================================================================
