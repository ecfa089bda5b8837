-------------------------------- MODULE KMeans --------------------------------
(***************************************************************************)
(* The parallel k-means programs (src/app/src/kmeans/kmeans_abft.c,        *)
(* kmeans.c).  Rank 0 keeps the points and their assignments.  In every    *)
(* iteration it broadcasts the means, x and y apart, each rank assigns its *)
(* share of the points, and rank 0 gathers the assignments and computes    *)
(* the means anew.  The input can be read and the points have been         *)
(* scattered.                                                              *)
(*                                                                         *)
(* A broadcast is what ReliableBcast promises of MPI_Bcast_abft, and MPI   *)
(* of MPI_Bcast: the receivers get the data rank 0 had when it called.     *)
(***************************************************************************)
EXTENDS Clusters

CONSTANTS
  num_of_processes,
  MAX_ITERATIONS,
  Inputs,       \* the points the file may hold, [x, y]
  Eager         \* Eager[t]: nobody waits to send in iteration t (MPI decides by
                \* the size of the message)

Ranks == 0..(num_of_processes - 1)
Iterations == 0..(MAX_ITERATIONS - 1)

ASSUME KMeansAssumption ==
  /\ num_of_processes \in Nat \ {0}
  /\ MAX_ITERATIONS \in Nat
  /\ Inputs \subseteq [x : Coordinates, y : Coordinates]
  /\ Eager \in [Iterations -> BOOLEAN]

\* points each rank gets; the rest is given to nobody
Part == numOfElements \div num_of_processes
LocalPoints == 0..(Part - 1)
Shared == 0..(num_of_processes * Part - 1)

VARIABLES
  data_x_points, data_y_points,   \* the points, on rank 0
  k_means_x, k_means_y,           \* k_means_x[p]: the means of rank p
  k_assignment,                   \* the cluster of each point, on rank 0
  recv_assign,                    \* recv_assign[p]: those of the share of p
  count,                          \* count[p]: iterations p has made
  pc,                             \* pc[p]: the call of the iteration p is in
  wire,                           \* wire[t][l]: what rank 0 has sent in call l
                                  \* of iteration t, a set of at most one value
  gathered                        \* gathered[t][p]: what p has given to
                                  \* MPI_Gather, a set of at most one value

data == <<data_x_points, data_y_points>>
vars == <<data, k_means_x, k_means_y, k_assignment, recv_assign, count, pc,
          wire, gathered>>

\* The calls in which rank 0 sends.
Sends == {"bcast_x", "bcast_y", "scatter"}

\* Mutated form of After: y is not broadcast.
AfterWithoutY == [bcast_x |-> "scatter", bcast_y |-> "scatter", scatter |-> "assign"]

\* What follows each of them.
After == [bcast_x |-> "bcast_y", bcast_y |-> "scatter", scatter |-> "assign"]

\* Mutated form of MoreIterations: rank 0 ends when no point has moved.
UnlessSettled(p) ==
  /\ count[p] < MAX_ITERATIONS
  /\ p = 0 /\ count[0] > 1 /\ pc[0] = "bcast_x" =>
       wire[count[0] - 1]["scatter"] # {k_assignment}

MoreIterations(p) == count[p] < MAX_ITERATIONS

At(p, l) == MoreIterations(p) /\ pc[p] = l
GoTo(p, l) == pc' = [pc EXCEPT ![p] = l]

EndIteration(p) ==
  /\ count' = [count EXCEPT ![p] = @ + 1]
  /\ GoTo(p, "bcast_x")

\* The elements of an array over all points that MPI_Scatter gives to rank p.
Share(v, p) == [i \in LocalPoints |-> v[p * Part + i]]

\* The initial means are points taken at equal distances.
Init ==
  /\ \E in \in Inputs :
       LET first(v) == [c \in Clusters |-> v[(numOfElements \div numOfClusters) * c]]
           means(v) == [p \in Ranks |-> IF p = 0 THEN first(v) ELSE [c \in Clusters |-> 0]]
       IN  /\ data_x_points = in.x /\ data_y_points = in.y
           /\ k_means_x = means(in.x) /\ k_means_y = means(in.y)
  /\ k_assignment = [i \in Points |-> 0]
  /\ recv_assign = [p \in Ranks |-> [i \in LocalPoints |-> 0]]
  /\ count = [p \in Ranks |-> 0]
  /\ pc = [p \in Ranks |-> "bcast_x"]
  /\ wire = [t \in Iterations |-> [l \in Sends |-> {}]]
  /\ gathered = [t \in Iterations |-> [p \in Ranks |-> {}]]

\* Rank p leaves call l with value v.
Take(p, l, v) ==
  /\ k_means_x' = IF l = "bcast_x" THEN [k_means_x EXCEPT ![p] = v] ELSE k_means_x
  /\ k_means_y' = IF l = "bcast_y" THEN [k_means_y EXCEPT ![p] = v] ELSE k_means_y
  /\ recv_assign' = IF l = "scatter" THEN [recv_assign EXCEPT ![p] = Share(v, p)]
                                     ELSE recv_assign
  /\ GoTo(p, After[l])
  /\ UNCHANGED <<data, k_assignment, count, gathered>>

\* What rank 0 sends in each of them.
Contents ==
  [bcast_x |-> k_means_x[0], bcast_y |-> k_means_y[0], scatter |-> k_assignment]

\* MPI_Bcast_abft of the means, x and y, and MPI_Scatter of the assignments:
\* rank 0
Send(l) ==
  /\ At(0, l)
  /\ \/ Eager[count[0]]
     \/ \A q \in Ranks : At(q, l) /\ count[q] = count[0]
  /\ wire' = [wire EXCEPT ![count[0]][l] = {Contents[l]}]
  /\ Take(0, l, Contents[l])

\* the other ranks
Recv(p, l) ==
  /\ p # 0
  /\ At(p, l)
  /\ \E v \in wire[count[p]][l] : Take(p, l, v)
  /\ UNCHANGED wire

\* assign2Cluster
Assign(p) ==
  /\ At(p, "assign")
  /\ LET x == Share(data_x_points, p)
         y == Share(data_y_points, p)
     IN  recv_assign' = [recv_assign EXCEPT ![p] =
           [i \in LocalPoints |-> Nearest(x[i], y[i], k_means_x[p], k_means_y[p])]]
  /\ GoTo(p, "gather")
  /\ UNCHANGED <<data, k_means_x, k_means_y, k_assignment, count, wire, gathered>>

\* MPI_Gather: a rank other than 0
Give(p) ==
  /\ p # 0
  /\ At(p, "gather")
  /\ Eager[count[p]] \/ (At(0, "gather") /\ count[0] = count[p])
  /\ gathered' = [gathered EXCEPT ![count[p]][p] = {recv_assign[p]}]
  /\ EndIteration(p)
  /\ UNCHANGED <<data, k_means_x, k_means_y, k_assignment, recv_assign, wire>>

\* Mutated form of Owner: the shares are laid out in turn, point by point.
OwnerInTurn(i) == i % num_of_processes

\* The rank whose share point i is in.
Owner(i) == i \div Part

\* What rank 0 has from rank q.
Given(q) ==
  IF q = 0 THEN recv_assign[0] ELSE CHOOSE v \in gathered[count[0]][q] : TRUE

AllGiven == \A q \in Ranks \ {0} : gathered[count[0]][q] # {}

\* MPI_Gather: rank 0
Gather ==
  /\ At(0, "gather")
  /\ AllGiven
  /\ k_assignment' = [i \in Points |-> IF i \in Shared THEN Given(Owner(i))[i % Part]
                                                       ELSE k_assignment[i]]
  /\ GoTo(0, "calc")
  /\ UNCHANGED <<data, k_means_x, k_means_y, recv_assign, count, wire, gathered>>

\* calcKmeans on rank 0
Calc ==
  /\ At(0, "calc")
  /\ k_means_x' = [k_means_x EXCEPT ![0] = calcKmeans(data_x_points, k_assignment, @)]
  /\ k_means_y' = [k_means_y EXCEPT ![0] = calcKmeans(data_y_points, k_assignment, @)]
  /\ EndIteration(0)
  /\ UNCHANGED <<data, k_assignment, recv_assign, wire, gathered>>

Step(p) ==
  \/ p = 0 /\ ((\E l \in Sends : Send(l)) \/ Gather \/ Calc)
  \/ \E l \in Sends : Recv(p, l)
  \/ Assign(p)
  \/ Give(p)

AllDone == \A p \in Ranks : ~MoreIterations(p)

Terminated == AllDone /\ UNCHANGED vars

Next == (\E p \in Ranks : Step(p)) \/ Terminated

Spec == Init /\ [][Next]_vars

\* The MPI library and the operating system let every rank run.
FairSpec == Spec /\ \A p \in Ranks : WF_vars(Step(p))

-----------------------------------------------------------------------------
(* Properties. *)

Means == [Clusters -> Int]
Assignments == [LocalPoints -> Clusters]

TypeOK ==
  /\ data_x_points \in Coordinates /\ data_y_points \in Coordinates
  /\ k_means_x \in [Ranks -> Means] /\ k_means_y \in [Ranks -> Means]
  /\ k_assignment \in [Points -> Clusters]
  /\ recv_assign \in [Ranks -> Assignments]
  /\ count \in [Ranks -> 0..MAX_ITERATIONS]
  /\ pc \in [Ranks -> Sends \cup {"assign", "gather", "calc"}]
  /\ \A t \in Iterations :
       /\ wire[t]["bcast_x"] \subseteq Means
       /\ wire[t]["bcast_y"] \subseteq Means
       /\ wire[t]["scatter"] \subseteq [Points -> Clusters]
       /\ \A p \in Ranks : gathered[t][p] \subseteq Assignments

\* A rank assigns points with the means rank 0 has, x and y of the same
\* iteration, however far it is behind: rank 0 does not change them before it
\* has heard of everybody.
AssignsWithRootsMeans ==
  \A p \in Ranks : At(p, "assign") =>
    k_means_x[p] = k_means_x[0] /\ k_means_y[p] = k_means_y[0]

\* Neither the new assignments nor the new means make the points lie farther
\* from the means of their clusters: the sum of the squared distances never
\* grows, even with points nobody assigns and clusters that lose all theirs.
Cost ==
  Total([i \in Points |-> Distance(data_x_points[i], data_y_points[i],
                                   k_means_x[0][k_assignment[i]],
                                   k_means_y[0][k_assignment[i]])], Points)
CostNeverGrows == [][Cost' <= Cost]_vars

\* Every rank ends.
EveryRankEnds == <>AllDone

\* What rank 0 holds goes through the steps of module Lloyd.
Sequential == INSTANCE Lloyd WITH
  x <- data_x_points, y <- data_y_points, kx <- k_means_x[0], ky <- k_means_y[0],
  assignment <- k_assignment, joined <- (pc[0] = "calc")

\* The ranks together do what one machine would.
ImplementsLloyd == Sequential!Spec
=============================================================================
