------------------------------- MODULE Clusters -------------------------------
(***************************************************************************)
(* The arithmetic of the k-means programs (src/app/src/kmeans): which mean *)
(* is nearest to a point, and the mean of the points of a cluster.         *)
(* Coordinates are integers, multiples of every size a cluster may have,   *)
(* so that the means are integers too.                                     *)
(***************************************************************************)
EXTENDS Integers, FiniteSets

CONSTANTS numOfElements, numOfClusters

ASSUME ClustersAssumption ==
  /\ numOfElements \in Nat \ {0}
  /\ numOfClusters \in Nat \ {0}

Points == 0..(numOfElements - 1)
Clusters == 0..(numOfClusters - 1)

\* Coordinates, one of each point.
Coordinates ==
  {v \in [Points -> Int] : \A i \in Points, n \in 1..numOfElements : v[i] % n = 0}

Square(a) == a * a

\* The square of what sqrt() is taken of.
Distance(x, y, kx, ky) == Square(x - kx) + Square(y - ky)

\* The first of the nearest means among those of the clusters in S.
NearestOf(S, x, y, kx, ky) ==
  LET d(j) == Distance(x, y, kx[j], ky[j])
  IN  CHOOSE j \in S : \A l \in S : d(j) < d(l) \/ (d(j) = d(l) /\ j <= l)

\* Mutated form of Nearest: clusters are numbered from 1.
NearestFromOne(x, y, kx, ky) == NearestOf(Clusters, x, y, kx, ky) + 1

\* assign2Cluster for one point
Nearest(x, y, kx, ky) == NearestOf(Clusters, x, y, kx, ky)

Members(assignment, i) == {p \in Points : assignment[p] = i}

\* Sum of v over the points in S, added up in their order.
Total(v, S) ==
  LET upto[j \in 0..numOfElements] ==
        IF j = 0 THEN 0 ELSE upto[j - 1] + (IF j - 1 \in S THEN v[j - 1] ELSE 0)
  IN  upto[numOfElements]

\* Mutated form of calcKmeans: the number of points is not reset.
CountNotReset(v, assignment, old) ==
  [i \in Clusters |->
     LET S == Members(assignment, i)
         counted == UNION {Members(assignment, c) : c \in 0..i}
     IN  IF counted = {} THEN old[i] ELSE Total(v, S) \div Cardinality(counted)]

\* calcKmeans for one coordinate v of the points; a cluster without points
\* keeps the mean it had.
calcKmeans(v, assignment, old) ==
  [i \in Clusters |->
     LET S == Members(assignment, i)
     IN  IF S = {} THEN old[i] ELSE Total(v, S) \div Cardinality(S)]
=============================================================================
