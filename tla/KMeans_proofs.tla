----------------------------- MODULE KMeans_proofs -----------------------------
(***************************************************************************)
(* Proofs about the parallel k-means program for every number of points,   *)
(* clusters, ranks and iterations, every input and both ways of sending.   *)
(***************************************************************************)
EXTENDS KMeans, FiniteSetTheorems, WellFoundedInduction, TLAPS

-----------------------------------------------------------------------------
(* The inductive invariant. *)

Workers == Ranks \ {0}

Shape ==
  /\ count \in [Ranks -> 0..MAX_ITERATIONS]
  /\ pc \in [Ranks -> Sends \cup {"assign", "gather", "calc"}]
  /\ k_means_x = [p \in Ranks |-> k_means_x[p]]
  /\ k_means_y = [p \in Ranks |-> k_means_y[p]]
  /\ recv_assign = [p \in Ranks |-> recv_assign[p]]
  /\ k_assignment = [i \in Points |-> k_assignment[i]]
  /\ wire = [t \in Iterations |-> [l \in Sends |-> wire[t][l]]]
  /\ gathered = [t \in Iterations |-> [p \in Ranks |-> gathered[t][p]]]
  /\ \A p \in Workers : pc[p] # "calc"

\* Rank 0 has sent nothing for iterations to come, and in its own the means it has.
WireTrue ==
  \A t \in Iterations :
    /\ \A l \in Sends : wire[t][l] # {} => t <= count[0]
    /\ t = count[0] => /\ wire[t]["bcast_x"] \subseteq {k_means_x[0]}
                       /\ wire[t]["bcast_y"] \subseteq {k_means_y[0]}

\* The others are in the iteration of rank 0 or done with it; they are when it
\* computes the means.
InStep ==
  \A p \in Workers :
    /\ count[p] \in {count[0], count[0] + 1}
    /\ pc[0] = "calc" => count[p] # count[0]
    /\ \A t \in Iterations : gathered[t][p] # {} <=> count[p] > t

\* A rank that has the means of x, or of both, is in the iteration of rank 0 and
\* they are the ones rank 0 has.
MeansTaken ==
  \A p \in Workers :
    /\ pc[p] # "bcast_x" => count[p] = count[0] /\ k_means_x[p] = k_means_x[0]
    /\ pc[p] \in {"scatter", "assign", "gather"} => k_means_y[p] = k_means_y[0]

\* The clusters of the share of p, by the means of rank 0.
LocalNearest(p) ==
  [i \in LocalPoints |-> Nearest(Share(data_x_points, p)[i], Share(data_y_points, p)[i],
                                 k_means_x[0], k_means_y[0])]

Assigned ==
  /\ \A p \in Ranks : pc[p] = "gather" => recv_assign[p] = LocalNearest(p)
  /\ count[0] \in Iterations =>
       \A p \in Workers : gathered[count[0]][p] \subseteq {LocalNearest(p)}

IInv == Shape /\ WireTrue /\ InStep /\ MeansTaken /\ Assigned

-----------------------------------------------------------------------------

\* The types of the constants, in the form the provers need.
LEMMA Basics ==
  /\ 0 \in Ranks /\ Ranks \subseteq Int /\ Iterations \subseteq Int
  /\ MAX_ITERATIONS \in Nat /\ num_of_processes \in Nat \ {0}
  /\ \A n \in 0..MAX_ITERATIONS : n < MAX_ITERATIONS <=> n \in Iterations
BY KMeansAssumption DEF Ranks, Iterations

\* The point i lies in the share of rank Owner(i), at place i % Part.
LEMMA OwnerOfPoint ==
  ASSUME NEW i \in Shared
  PROVE  /\ Owner(i) \in Ranks /\ i % Part \in LocalPoints
         /\ Owner(i) * Part + (i % Part) = i
<1>0. PICK n \in Int, P \in Nat \ {0} : n = Part /\ P = num_of_processes
  <2>1. Part \in Int
    BY ClustersAssumption, KMeansAssumption DEF Part
  <2> QED
    BY <2>1, KMeansAssumption
<1>1. i \in 0..(P * n - 1)
  BY <1>0 DEF Shared
<1>2. n > 0
  <2>1. n <= 0 => P * n <= 0
    BY Z3
  <2> QED
    BY <1>1, <2>1
<1>3. i % n \in 0..(n - 1) /\ i \div n \in Int /\ i = n * (i \div n) + (i % n)
  BY <1>1, <1>2, Z3
<1>4. PICK q \in Int, r \in 0..(n - 1) : q = i \div n /\ r = i % n
  BY <1>3
<1>5. i = n * q + r /\ i = q * n + r
  BY <1>3, <1>4
<1>6. q >= 0
  BY <1>1, <1>2, <1>5, Z3
<1>7. q <= P - 1
  <2>1. ASSUME q >= P PROVE FALSE
    <3>1. PICK e \in Nat : q = P + e
      BY <2>1
    <3>2. n * q = P * n + n * e
      BY <3>1, Z3
    <3>3. n * e >= 0
      BY <1>2, Z3
    <3> QED
      BY <1>1, <1>5, <3>2, <3>3, Z3
  <2> QED
    BY <2>1
<1> QED
  <2>1. Owner(i) = q /\ i % Part = r
    BY <1>0, <1>4 DEF Owner
  <2>2. q \in Ranks /\ r \in LocalPoints
    BY <1>0, <1>4, <1>6, <1>7 DEF Ranks, LocalPoints
  <2> QED
    BY <1>0, <1>5, <2>1, <2>2

-----------------------------------------------------------------------------
(* The invariant holds at the start and is kept by every step. *)

\* The invariant holds at the start.
LEMMA InitIInv == Init => IInv
<1> SUFFICES ASSUME Init PROVE IInv
  OBVIOUS
<1>1. Shape
  BY Basics DEF Init, Shape, Sends, Workers
<1>2. WireTrue
  <2>1. \A t \in Iterations, l \in Sends : wire[t][l] = {}
    BY DEF Init
  <2> QED
    BY <2>1 DEF WireTrue, Sends
<1>3. InStep
  BY Basics DEF Init, InStep, Workers, Iterations
<1>4. MeansTaken /\ Assigned
  BY Basics DEF Init, MeansTaken, Assigned, Workers
<1> QED
  BY <1>1, <1>2, <1>3, <1>4 DEF IInv

\* Rank 0 sends the means it has.
LEMMA SendStep ==
  ASSUME IInv, NEW l \in Sends, Send(l)
  PROVE  IInv'
<1>1. PICK t \in Iterations : t = count[0]
  BY Basics DEF IInv, Shape, Send, At, MoreIterations
<1>2. /\ pc[0] = l /\ wire' = [wire EXCEPT ![t][l] = {Contents[l]}]
      /\ pc' = [pc EXCEPT ![0] = After[l]]
      /\ UNCHANGED <<data_x_points, data_y_points, k_assignment, count, gathered>>
  BY <1>1 DEF Send, At, Take, GoTo, data
<1>3. k_means_x' = k_means_x /\ k_means_y' = k_means_y
  <2>1. /\ l = "bcast_x" => k_means_x' = [k_means_x EXCEPT ![0] = k_means_x[0]]
        /\ l = "bcast_y" => k_means_y' = [k_means_y EXCEPT ![0] = k_means_y[0]]
        /\ l # "bcast_x" => k_means_x' = k_means_x
        /\ l # "bcast_y" => k_means_y' = k_means_y
    <3>1. /\ l = "bcast_x" => Contents[l] = k_means_x[0]
          /\ l = "bcast_y" => Contents[l] = k_means_y[0]
      BY DEF Contents
    <3> QED
      BY <3>1 DEF Send, Take
  <2>2. /\ [k_means_x EXCEPT ![0] = k_means_x[0]] = k_means_x
        /\ [k_means_y EXCEPT ![0] = k_means_y[0]] = k_means_y
    BY DEF IInv, Shape
  <2> QED
    BY <2>1, <2>2
<1>4. /\ recv_assign' = [p \in Ranks |-> recv_assign'[p]]
      /\ \A p \in Workers : recv_assign'[p] = recv_assign[p]
  BY Basics DEF Send, Take, IInv, Shape, Workers
<1>5. /\ After[l] \in {"bcast_y", "scatter", "assign"}
      /\ pc' \in [Ranks -> Sends \cup {"assign", "gather", "calc"}]
      /\ pc'[0] = After[l] /\ \A p \in Workers : pc'[p] = pc[p]
  <2>1. After[l] \in {"bcast_y", "scatter", "assign"}
    BY DEF After, Sends
  <2> QED
    BY <1>2, <2>1, Basics DEF IInv, Shape, Sends, Workers
<1>6. /\ wire' = [s \in Iterations |-> [m \in Sends |-> wire'[s][m]]]
      /\ \A s \in Iterations, m \in Sends :
           wire'[s][m] = IF s = t /\ m = l THEN {Contents[l]} ELSE wire[s][m]
  <2>1. /\ wire = [s \in Iterations |-> [m \in Sends |-> wire[s][m]]]
        /\ wire' = [wire EXCEPT ![t] = [wire[t] EXCEPT ![l] = {Contents[l]}]]
    BY <1>2 DEF IInv, Shape
  <2>2. wire[t] = [m \in Sends |-> wire[t][m]]
    BY <2>1
  <2>3. wire' = [s \in Iterations |-> IF s = t THEN [wire[t] EXCEPT ![l] = {Contents[l]}]
                                               ELSE wire[s]]
    BY <2>1
  <2>4. [wire[t] EXCEPT ![l] = {Contents[l]}] =
          [m \in Sends |-> IF m = l THEN {Contents[l]} ELSE wire[t][m]]
    BY <2>2
  <2>5. \A s \in Iterations \ {t} : wire'[s] = [m \in Sends |-> wire[s][m]]
    BY <2>1, <2>3
  <2>6. \A s \in Iterations, m \in Sends :
          wire'[s][m] = IF s = t /\ m = l THEN {Contents[l]} ELSE wire[s][m]
    BY <2>3, <2>4
  <2>7. \A s \in Iterations : wire'[s] = [m \in Sends |-> wire'[s][m]]
    BY <2>3, <2>4, <2>5
  <2> QED
    BY <2>3, <2>6, <2>7
<1>7. Shape'
  BY <1>2, <1>3, <1>4, <1>5, <1>6 DEF IInv, Shape, Workers
<1>8. WireTrue'
  <2>1. /\ l = "bcast_x" => Contents[l] = k_means_x[0]
        /\ l = "bcast_y" => Contents[l] = k_means_y[0]
    BY DEF Contents
  <2>2. "bcast_x" \in Sends /\ "bcast_y" \in Sends
    BY DEF Sends
  <2> QED
    BY <1>1, <1>2, <1>3, <1>6, <2>1, <2>2, Basics DEF IInv, WireTrue
<1>9. InStep'
  BY <1>2, <1>5 DEF IInv, InStep, Workers
<1>10. MeansTaken'
  BY <1>2, <1>3, <1>5 DEF IInv, MeansTaken, Workers
<1>11. Assigned'
  <2>1. \A q \in Ranks : LocalNearest(q)' = LocalNearest(q)
    BY <1>2, <1>3 DEF LocalNearest, Share
  <2>2. ASSUME NEW q \in Ranks, pc'[q] = "gather" PROVE recv_assign'[q] = LocalNearest(q)'
    BY <1>4, <1>5, <2>1, <2>2 DEF IInv, Assigned, Workers
  <2>3. count'[0] \in Iterations =>
          \A q \in Workers : gathered'[count'[0]][q] \subseteq {LocalNearest(q)'}
    BY <1>2, <2>1 DEF IInv, Assigned, Workers
  <2> QED
    BY <2>2, <2>3 DEF Assigned, Workers
<1> QED
  BY <1>7, <1>8, <1>9, <1>10, <1>11 DEF IInv

\* A rank takes the means of its own iteration.
LEMMA RecvStep ==
  ASSUME IInv, NEW p \in Ranks, NEW l \in Sends, Recv(p, l)
  PROVE  IInv'
<1>1. PICK t \in Iterations, v \in wire[count[p]][l] : t = count[p] /\ Take(p, l, v)
  BY Basics DEF IInv, Shape, Recv, At, MoreIterations
<1>2. /\ p \in Workers /\ pc[p] = l /\ v \in wire[t][l]
      /\ pc' = [pc EXCEPT ![p] = After[l]]
      /\ UNCHANGED <<data_x_points, data_y_points, k_assignment, count, gathered, wire>>
  BY <1>1 DEF Recv, At, Take, GoTo, data, Workers
<1>3. t = count[0]
  <2>1. count[p] \in Int /\ count[0] \in Int
    BY Basics DEF IInv, Shape
  <2>2. wire[t][l] # {}
    BY <1>2
  <2>3. t <= count[0]
    BY <2>2 DEF IInv, WireTrue
  <2>4. count[p] \in {count[0], count[0] + 1}
    BY <1>2 DEF IInv, InStep
  <2> QED
    BY <1>1, <2>1, <2>3, <2>4
<1>4. /\ k_means_x' = IF l = "bcast_x" THEN [k_means_x EXCEPT ![p] = k_means_x[0]]
                                       ELSE k_means_x
      /\ k_means_y' = IF l = "bcast_y" THEN [k_means_y EXCEPT ![p] = k_means_y[0]]
                                       ELSE k_means_y
  <2>1. /\ l = "bcast_x" => v = k_means_x[0]
        /\ l = "bcast_y" => v = k_means_y[0]
    BY <1>2, <1>3 DEF IInv, WireTrue
  <2> QED
    BY <1>1, <2>1 DEF Take
<1>5. /\ k_means_x' = [q \in Ranks |-> k_means_x'[q]]
      /\ k_means_y' = [q \in Ranks |-> k_means_y'[q]]
      /\ \A q \in Ranks \ {p} : k_means_x'[q] = k_means_x[q] /\ k_means_y'[q] = k_means_y[q]
      /\ l = "bcast_x" => k_means_x'[p] = k_means_x[0]
      /\ l = "bcast_y" => k_means_y'[p] = k_means_y[0]
      /\ l # "bcast_x" => k_means_x'[p] = k_means_x[p]
      /\ l # "bcast_y" => k_means_y'[p] = k_means_y[p]
  BY <1>4 DEF IInv, Shape
<1>6. /\ recv_assign' = [q \in Ranks |-> recv_assign'[q]]
      /\ \A q \in Ranks \ {p} : recv_assign'[q] = recv_assign[q]
  BY <1>1 DEF Take, IInv, Shape
<1>7. /\ After[l] \in {"bcast_y", "scatter", "assign"}
      /\ After[l] = "bcast_y" => l = "bcast_x"
      /\ After[l] = "scatter" => l = "bcast_y"
      /\ After[l] = "assign" => l = "scatter"
  BY DEF After, Sends
<1>8. /\ pc' \in [Ranks -> Sends \cup {"assign", "gather", "calc"}]
      /\ pc'[p] = After[l] /\ \A q \in Ranks \ {p} : pc'[q] = pc[q]
  BY <1>2, <1>7 DEF IInv, Shape, Sends
<1>9. 0 \in Ranks \ {p}
  BY <1>2, Basics DEF Workers
<1>10. Shape'
  BY <1>2, <1>5, <1>6, <1>7, <1>8 DEF IInv, Shape, Workers
<1>11. WireTrue'
  BY <1>2, <1>5, <1>9 DEF IInv, WireTrue
<1>12. InStep'
  BY <1>2, <1>8, <1>9 DEF IInv, InStep, Workers
<1>13. MeansTaken'
  <2> SUFFICES ASSUME NEW q \in Workers
               PROVE  /\ pc'[q] # "bcast_x" =>
                           count[q] = count[0] /\ k_means_x'[q] = k_means_x[0]
                      /\ pc'[q] \in {"scatter", "assign", "gather"} =>
                           k_means_y'[q] = k_means_y[0]
    BY <1>2, <1>5, <1>9 DEF MeansTaken, Workers
  <2>1. CASE q = p
    BY <1>1, <1>2, <1>3, <1>5, <1>7, <1>8, <2>1 DEF IInv, MeansTaken
  <2>2. CASE q # p
    BY <1>5, <1>8, <2>2 DEF IInv, MeansTaken, Workers
  <2> QED
    BY <2>1, <2>2
<1>14. Assigned'
  <2>1. k_means_x'[0] = k_means_x[0] /\ k_means_y'[0] = k_means_y[0]
    BY <1>5, <1>9
  <2>2. \A q \in Ranks : LocalNearest(q)' = LocalNearest(q)
    BY <1>2, <2>1 DEF LocalNearest, Share
  <2>3. ASSUME NEW q \in Ranks, pc'[q] = "gather" PROVE recv_assign'[q] = LocalNearest(q)'
    BY <1>6, <1>7, <1>8, <2>2, <2>3 DEF IInv, Assigned
  <2>4. count'[0] \in Iterations =>
          \A q \in Workers : gathered'[count'[0]][q] \subseteq {LocalNearest(q)'}
    BY <1>2, <2>2 DEF IInv, Assigned, Workers
  <2> QED
    BY <2>3, <2>4 DEF Assigned, Workers
<1> QED
  BY <1>10, <1>11, <1>12, <1>13, <1>14 DEF IInv

\* A rank that assigns has the means of rank 0.
LEMMA AssignStep ==
  ASSUME IInv, NEW p \in Ranks, Assign(p)
  PROVE  IInv'
<1>1. /\ MoreIterations(p) /\ pc[p] = "assign"
      /\ pc' = [pc EXCEPT ![p] = "gather"]
      /\ UNCHANGED <<data_x_points, data_y_points, k_means_x, k_means_y, k_assignment,
                     count, wire, gathered>>
  BY DEF Assign, At, GoTo, data
<1>2. k_means_x[p] = k_means_x[0] /\ k_means_y[p] = k_means_y[0]
  BY <1>1 DEF IInv, MeansTaken, Workers
<1>3. recv_assign' = [recv_assign EXCEPT ![p] = LocalNearest(p)]
  BY <1>2 DEF Assign, LocalNearest
<1>4. /\ recv_assign' = [q \in Ranks |-> recv_assign'[q]]
      /\ recv_assign'[p] = LocalNearest(p)
      /\ \A q \in Ranks \ {p} : recv_assign'[q] = recv_assign[q]
  BY <1>3 DEF IInv, Shape
<1>5. /\ pc' \in [Ranks -> Sends \cup {"assign", "gather", "calc"}]
      /\ pc'[p] = "gather" /\ \A q \in Ranks \ {p} : pc'[q] = pc[q]
  BY <1>1 DEF IInv, Shape
<1>6. Shape'
  BY <1>1, <1>4, <1>5 DEF IInv, Shape, Workers
<1>7. WireTrue'
  BY <1>1 DEF IInv, WireTrue
<1>8. InStep'
  <2>1. pc'[0] = "calc" => pc[0] = "calc"
    BY <1>5, Basics
  <2> QED
    BY <1>1, <2>1 DEF IInv, InStep, Workers
<1>9. MeansTaken'
  <2> SUFFICES ASSUME NEW q \in Workers
               PROVE  /\ pc'[q] # "bcast_x" =>
                           count[q] = count[0] /\ k_means_x[q] = k_means_x[0]
                      /\ pc'[q] \in {"scatter", "assign", "gather"} =>
                           k_means_y[q] = k_means_y[0]
    BY <1>1 DEF MeansTaken, Workers
  <2>1. CASE q = p
    BY <1>1, <2>1 DEF IInv, MeansTaken
  <2>2. CASE q # p
    BY <1>5, <2>2 DEF IInv, MeansTaken, Workers
  <2> QED
    BY <2>1, <2>2
<1>10. Assigned'
  <2>1. \A q \in Ranks : LocalNearest(q)' = LocalNearest(q)
    BY <1>1 DEF LocalNearest, Share
  <2>2. ASSUME NEW q \in Ranks, pc'[q] = "gather" PROVE recv_assign'[q] = LocalNearest(q)'
    BY <1>4, <1>5, <2>1, <2>2 DEF IInv, Assigned
  <2>3. count'[0] \in Iterations =>
          \A q \in Workers : gathered'[count'[0]][q] \subseteq {LocalNearest(q)'}
    BY <1>1, <2>1 DEF IInv, Assigned, Workers
  <2> QED
    BY <2>2, <2>3 DEF Assigned, Workers
<1> QED
  BY <1>6, <1>7, <1>8, <1>9, <1>10 DEF IInv

\* A rank gives what it has assigned.
LEMMA GiveStep ==
  ASSUME IInv, NEW p \in Ranks, Give(p)
  PROVE  IInv'
<1>1. /\ p \in Workers /\ MoreIterations(p) /\ pc[p] = "gather"
      /\ pc' = [pc EXCEPT ![p] = "bcast_x"]
      /\ count' = [count EXCEPT ![p] = count[p] + 1]
      /\ UNCHANGED <<data_x_points, data_y_points, k_means_x, k_means_y, k_assignment,
                     recv_assign, wire>>
  BY DEF Give, At, GoTo, EndIteration, data, Workers
<1>2. PICK t \in Iterations : t = count[p] /\ t = count[0]
  BY <1>1, Basics DEF IInv, Shape, MeansTaken, MoreIterations
<1>3. 0 \in Ranks \ {p}
  BY <1>1, Basics DEF Workers
<1>4. recv_assign[p] = LocalNearest(p)
  BY <1>1 DEF IInv, Assigned
<1>5. /\ gathered' = [s \in Iterations |-> [q \in Ranks |-> gathered'[s][q]]]
      /\ \A s \in Iterations, q \in Ranks :
           gathered'[s][q] = IF s = t /\ q = p THEN {LocalNearest(p)} ELSE gathered[s][q]
  <2>1. /\ gathered = [s \in Iterations |-> [q \in Ranks |-> gathered[s][q]]]
        /\ gathered' = [gathered EXCEPT ![t] = [gathered[t] EXCEPT ![p] = {LocalNearest(p)}]]
    BY <1>2, <1>4 DEF IInv, Shape, Give
  <2>2. gathered[t] = [q \in Ranks |-> gathered[t][q]]
    BY <2>1
  <2>3. gathered' = [s \in Iterations |->
          IF s = t THEN [gathered[t] EXCEPT ![p] = {LocalNearest(p)}] ELSE gathered[s]]
    BY <2>1
  <2>4. [gathered[t] EXCEPT ![p] = {LocalNearest(p)}] =
          [q \in Ranks |-> IF q = p THEN {LocalNearest(p)} ELSE gathered[t][q]]
    BY <2>2
  <2>5. \A s \in Iterations \ {t} : gathered'[s] = [q \in Ranks |-> gathered[s][q]]
    BY <2>1, <2>3
  <2>6. \A s \in Iterations, q \in Ranks :
          gathered'[s][q] = IF s = t /\ q = p THEN {LocalNearest(p)} ELSE gathered[s][q]
    BY <2>3, <2>4
  <2>7. \A s \in Iterations : gathered'[s] = [q \in Ranks |-> gathered'[s][q]]
    BY <2>3, <2>4, <2>5
  <2> QED
    BY <2>3, <2>6, <2>7
<1>6. /\ count' \in [Ranks -> 0..MAX_ITERATIONS]
      /\ count'[p] = count[0] + 1 /\ \A q \in Ranks \ {p} : count'[q] = count[q]
  <2>1. count[p] + 1 \in 0..MAX_ITERATIONS
    BY <1>1, Basics DEF IInv, Shape, MoreIterations
  <2> QED
    BY <1>1, <1>2, <2>1 DEF IInv, Shape
<1>7. /\ pc' \in [Ranks -> Sends \cup {"assign", "gather", "calc"}]
      /\ pc'[p] = "bcast_x" /\ \A q \in Ranks \ {p} : pc'[q] = pc[q]
  BY <1>1 DEF IInv, Shape, Sends
<1>8. Shape'
  BY <1>1, <1>5, <1>6, <1>7 DEF IInv, Shape, Workers
<1>9. WireTrue'
  BY <1>1, <1>3, <1>6 DEF IInv, WireTrue
<1>10. InStep'
  <2> SUFFICES ASSUME NEW q \in Workers
               PROVE  /\ count'[q] \in {count[0], count[0] + 1}
                      /\ pc[0] = "calc" => count'[q] # count[0]
                      /\ \A s \in Iterations : gathered'[s][q] # {} <=> count'[q] > s
    BY <1>3, <1>6, <1>7 DEF InStep, Workers
  <2>1. CASE q = p
    <3>1. \A s \in Iterations : gathered[s][p] # {} <=> t > s
      BY <1>1, <1>2 DEF IInv, InStep
    <3>2. \A s \in Iterations : s \in Int /\ t \in Int
      BY Basics
    <3>3. \A s \in Iterations : gathered'[s][p] # {} <=> t + 1 > s
      <4>1. \A s \in Iterations :
              gathered'[s][p] = IF s = t THEN {LocalNearest(p)} ELSE gathered[s][p]
        BY <1>5
      <4>2. \A s \in Iterations : s # t => (gathered'[s][p] # {} <=> t > s)
        BY ONLY <3>1, <4>1
      <4>3. \A s \in Iterations : s = t => gathered'[s][p] # {}
        BY ONLY <4>1
      <4> QED
        BY ONLY <3>2, <4>2, <4>3
    <3> QED
      BY <1>2, <1>6, <2>1, <3>2, <3>3
  <2>2. CASE q # p
    <3>1. \A s \in Iterations : gathered'[s][q] = gathered[s][q]
      BY <1>5, <2>2 DEF Workers
    <3> QED
      BY <1>6, <2>2, <3>1 DEF IInv, InStep, Workers
  <2> QED
    BY <2>1, <2>2
<1>11. MeansTaken'
  <2> SUFFICES ASSUME NEW q \in Workers
               PROVE  /\ pc'[q] # "bcast_x" =>
                           count'[q] = count[0] /\ k_means_x[q] = k_means_x[0]
                      /\ pc'[q] \in {"scatter", "assign", "gather"} =>
                           k_means_y[q] = k_means_y[0]
    BY <1>1, <1>3, <1>6 DEF MeansTaken, Workers
  <2>1. CASE q = p
    BY <1>7, <2>1
  <2>2. CASE q # p
    BY <1>6, <1>7, <2>2 DEF IInv, MeansTaken, Workers
  <2> QED
    BY <2>1, <2>2
<1>12. Assigned'
  <2>1. \A q \in Ranks : LocalNearest(q)' = LocalNearest(q)
    BY <1>1 DEF LocalNearest, Share
  <2>2. ASSUME NEW q \in Ranks, pc'[q] = "gather" PROVE recv_assign'[q] = LocalNearest(q)'
    BY <1>1, <1>7, <2>1, <2>2 DEF IInv, Assigned
  <2>3. \A q \in Workers : gathered'[t][q] \subseteq {LocalNearest(q)}
    <3> SUFFICES ASSUME NEW q \in Workers PROVE gathered'[t][q] \subseteq {LocalNearest(q)}
      OBVIOUS
    <3>1. gathered[t][q] \subseteq {LocalNearest(q)}
      BY <1>2 DEF IInv, Assigned
    <3>2. gathered'[t][q] = IF q = p THEN {LocalNearest(p)} ELSE gathered[t][q]
      BY <1>2, <1>5 DEF Workers
    <3> QED
      BY <3>1, <3>2
  <2>4. count'[0] = t
    BY <1>2, <1>3, <1>6
  <2> QED
    BY <2>1, <2>2, <2>3, <2>4 DEF Assigned, Workers
<1> QED
  BY <1>8, <1>9, <1>10, <1>11, <1>12 DEF IInv

\* Rank 0 gathers when all have given.
LEMMA GatherStep ==
  ASSUME IInv, Gather
  PROVE  IInv'
<1>1. PICK t \in Iterations : t = count[0]
  BY Basics DEF IInv, Shape, Gather, At, MoreIterations
<1>2. /\ pc[0] = "gather" /\ AllGiven
      /\ pc' = [pc EXCEPT ![0] = "calc"]
      /\ UNCHANGED <<data_x_points, data_y_points, k_means_x, k_means_y, recv_assign,
                     count, wire, gathered>>
  BY DEF Gather, At, GoTo, data
<1>3. k_assignment' = [i \in Points |-> k_assignment'[i]]
  BY DEF Gather
<1>4. /\ pc' \in [Ranks -> Sends \cup {"assign", "gather", "calc"}]
      /\ pc'[0] = "calc" /\ \A q \in Workers : pc'[q] = pc[q]
  BY <1>2, Basics DEF IInv, Shape, Workers
<1>5. Shape'
  BY <1>2, <1>3, <1>4 DEF IInv, Shape, Workers
<1>6. WireTrue'
  BY <1>2 DEF IInv, WireTrue
<1>7. InStep'
  <2>1. \A q \in Workers : gathered[t][q] # {}
    BY <1>1, <1>2 DEF AllGiven, Workers
  <2>2. \A q \in Workers : count[q] > t
    BY <2>1 DEF IInv, InStep
  <2>3. \A q \in Workers : count[q] # count[0]
    BY <1>1, <2>2, Basics
  <2> QED
    BY <1>2, <2>3 DEF IInv, InStep, Workers
<1>8. MeansTaken'
  BY <1>2, <1>4 DEF IInv, MeansTaken, Workers
<1>9. Assigned'
  <2>1. \A q \in Ranks : LocalNearest(q)' = LocalNearest(q)
    BY <1>2 DEF LocalNearest, Share
  <2>2. ASSUME NEW q \in Ranks, pc'[q] = "gather" PROVE recv_assign'[q] = LocalNearest(q)'
    BY <1>2, <1>4, <2>1, <2>2 DEF IInv, Assigned, Workers
  <2>3. count'[0] \in Iterations =>
          \A q \in Workers : gathered'[count'[0]][q] \subseteq {LocalNearest(q)'}
    BY <1>2, <2>1 DEF IInv, Assigned, Workers
  <2> QED
    BY <2>2, <2>3 DEF Assigned, Workers
<1> QED
  BY <1>5, <1>6, <1>7, <1>8, <1>9 DEF IInv

\* Rank 0 computes new means when nobody uses the old ones.
LEMMA CalcStep ==
  ASSUME IInv, Calc
  PROVE  IInv'
<1>1. PICK t \in Iterations : t = count[0]
  BY Basics DEF IInv, Shape, Calc, At, MoreIterations
<1>2. /\ pc[0] = "calc" /\ pc' = [pc EXCEPT ![0] = "bcast_x"]
      /\ count' = [count EXCEPT ![0] = t + 1]
      /\ UNCHANGED <<data_x_points, data_y_points, k_assignment, recv_assign, wire, gathered>>
  BY <1>1 DEF Calc, At, GoTo, EndIteration, data
<1>3. /\ k_means_x' = [p \in Ranks |-> k_means_x'[p]]
      /\ k_means_y' = [p \in Ranks |-> k_means_y'[p]]
  <2>1. /\ k_means_x' = [k_means_x EXCEPT ![0] = k_means_x'[0]]
        /\ k_means_y' = [k_means_y EXCEPT ![0] = k_means_y'[0]]
    BY Basics DEF IInv, Shape, Calc
  <2> QED
    BY <2>1 DEF IInv, Shape
<1>4. /\ count' \in [Ranks -> 0..MAX_ITERATIONS]
      /\ count'[0] = t + 1 /\ \A q \in Workers : count'[q] = count[q]
  <2>1. t + 1 \in 0..MAX_ITERATIONS
    BY KMeansAssumption DEF Iterations
  <2> QED
    BY <1>2, <2>1, Basics DEF IInv, Shape, Workers
<1>5. /\ pc' \in [Ranks -> Sends \cup {"assign", "gather", "calc"}]
      /\ pc'[0] = "bcast_x" /\ \A q \in Workers : pc'[q] = pc[q]
  BY <1>2, Basics DEF IInv, Shape, Sends, Workers
<1>6. \A q \in Workers : count[q] = t + 1 /\ pc[q] = "bcast_x"
  BY <1>1, <1>2 DEF IInv, InStep, MeansTaken
<1>7. Shape'
  BY <1>2, <1>3, <1>4, <1>5 DEF IInv, Shape, Workers
<1>8. WireTrue'
  <2>1. \A s \in Iterations, l \in Sends : wire[s][l] # {} => s <= t
    BY <1>1 DEF IInv, WireTrue
  <2>2. \A s \in Iterations, l \in Sends : wire[s][l] # {} => s <= t + 1 /\ s # t + 1
    BY <2>1, Basics
  <2> QED
    BY <1>2, <1>4, <2>2 DEF WireTrue, Sends
<1>9. InStep'
  BY <1>2, <1>4, <1>5, <1>6 DEF IInv, InStep, Workers
<1>10. MeansTaken'
  BY <1>5, <1>6 DEF MeansTaken, Workers
<1>11. Assigned'
  <2>1. \A q \in Ranks : pc'[q] # "gather"
    BY <1>5, <1>6 DEF Workers
  <2>2. ASSUME t + 1 \in Iterations, NEW q \in Workers PROVE gathered[t + 1][q] = {}
    <3>1. gathered[t + 1][q] # {} => count[q] > t + 1
      BY <2>2 DEF IInv, InStep
    <3> QED
      BY <1>6, <2>2, <3>1, Basics
  <2> QED
    BY <1>2, <1>4, <2>1, <2>2 DEF Assigned, Workers
<1> QED
  BY <1>7, <1>8, <1>9, <1>10, <1>11 DEF IInv

\* Every step of the program keeps the invariant.
LEMMA NextIInv == IInv /\ [Next]_vars => IInv'
<1> SUFFICES ASSUME IInv, [Next]_vars PROVE IInv'
  OBVIOUS
<1>1. ASSUME NEW p \in Ranks, Step(p) PROVE IInv'
  BY <1>1, SendStep, RecvStep, AssignStep, GiveStep, GatherStep, CalcStep DEF Step
<1>2. ASSUME UNCHANGED vars PROVE IInv'
  <2>1. UNCHANGED <<data_x_points, data_y_points, k_means_x, k_means_y, k_assignment,
                    recv_assign, count, pc, wire, gathered>>
    BY <1>2 DEF vars, data
  <2>2. Shape' /\ WireTrue' /\ InStep' /\ MeansTaken'
    <3>1. Shape'
      BY <2>1 DEF IInv, Shape, Workers
    <3>2. WireTrue'
      BY <2>1 DEF IInv, WireTrue
    <3>3. InStep'
      BY <2>1 DEF IInv, InStep, Workers
    <3>4. MeansTaken'
      BY <2>1 DEF IInv, MeansTaken, Workers
    <3> QED
      BY <3>1, <3>2, <3>3, <3>4
  <2>3. \A q \in Ranks : LocalNearest(q)' = LocalNearest(q)
    BY <2>1 DEF LocalNearest, Share
  <2>4. Assigned'
    BY <2>1, <2>3 DEF IInv, Assigned, Workers
  <2> QED
    BY <2>2, <2>4 DEF IInv
<1> QED
  BY <1>1, <1>2 DEF Next, Terminated

\* The invariant holds in every state of the program (kmeans_abft.c:304-330).
THEOREM Invariance == Spec => []IInv
BY InitIInv, NextIInv, PTL DEF Spec

\* A rank assigns points with the means rank 0 has, x and y of the same iteration
\* (kmeans_abft.c:306-316, 326).
THEOREM MeansCurrent == Spec => []AssignsWithRootsMeans
<1>1. IInv => AssignsWithRootsMeans
  BY DEF IInv, MeansTaken, AssignsWithRootsMeans, At, Workers
<1> QED
  BY <1>1, Invariance, PTL

-----------------------------------------------------------------------------
(* The ranks together implement k-means on one machine. *)

\* Multiplication distributes over a sum of three.
LEMMA Distributes ==
  ASSUME NEW q \in Int, NEW c \in Int, NEW e \in Int
  PROVE  (c + 1 + e) * q = q * c + q + q * e /\ q * c \in Int /\ q * e \in Int
BY Z3

\* The initial means are points.
LEMMA FirstMeans ==
  ASSUME NEW c \in Clusters
  PROVE  (numOfElements \div numOfClusters) * c \in Points
<1>1. PICK n \in Nat \ {0}, k \in Nat \ {0} : n = numOfElements /\ k = numOfClusters
  BY ClustersAssumption
<1>2. c \in 0..(k - 1)
  BY <1>1 DEF Clusters
<1>3. n \div k \in Int /\ n % k \in 0..(k - 1) /\ n = k * (n \div k) + (n % k)
  BY <1>1, Z3
<1>4. PICK q \in Int, r \in 0..(k - 1) : q = n \div k /\ n = k * q + r
  BY <1>3
<1>5. q >= 0
  BY <1>1, <1>4, Z3
<1>6. q * c >= 0 /\ q * c <= n - 1
  <2>1. PICK e \in Nat : k = c + 1 + e
    <3>1. k - c - 1 \in Nat /\ k = c + 1 + (k - c - 1)
      BY <1>2
    <3> QED
      BY <3>1
  <2>2. k * q = q * c + q + q * e
    BY <1>2, <2>1, Distributes
  <2>3. q * e >= 0 /\ q * c >= 0
    BY <1>2, <1>4, <1>5, <2>1, Z3
  <2>4. PICK qc \in Int, qe \in Int : qc = q * c /\ qe = q * e
    BY <1>2, Distributes
  <2>5. n = qc + q + qe + r /\ qe >= 0 /\ qc >= 0
    BY <1>4, <2>2, <2>3, <2>4
  <2>6. q = 0 => qc = 0
    BY <1>2, <2>4
  <2>7. qc <= n - 1
    BY <1>1, <1>5, <2>5, <2>6
  <2> QED
    BY <2>4, <2>5, <2>7
<1>7. q * c \in Int
  BY <1>2, <1>4
<1> QED
  BY <1>1, <1>4, <1>6, <1>7 DEF Points

\* The initial means are points.
LEMMA InitRefines == Init => Sequential!LInit
<1> SUFFICES ASSUME Init PROVE Sequential!LInit
  OBVIOUS
<1>1. PICK in \in Inputs :
        /\ data_x_points = in.x /\ data_y_points = in.y
        /\ k_means_x[0] = [c \in Clusters |-> in.x[(numOfElements \div numOfClusters) * c]]
        /\ k_means_y[0] = [c \in Clusters |-> in.y[(numOfElements \div numOfClusters) * c]]
  BY Basics DEF Init
<1>2. data_x_points \in [Points -> Int] /\ data_y_points \in [Points -> Int]
  BY <1>1, KMeansAssumption DEF Coordinates
<1>3. k_means_x[0] \in [Clusters -> Int] /\ k_means_y[0] \in [Clusters -> Int]
  BY <1>1, <1>2, FirstMeans
<1>4. k_assignment = [i \in Points |-> 0] /\ pc[0] # "calc"
  BY Basics DEF Init
<1> QED
  BY <1>2, <1>3, <1>4 DEF Sequential!LInit

\* The gather joins the assignments of all points.
LEMMA GatherRefines ==
  ASSUME IInv, Gather
  PROVE  Sequential!Join
<1>1. /\ pc[0] = "gather" /\ pc'[0] = "calc" /\ count[0] \in Iterations /\ AllGiven
      /\ UNCHANGED <<data_x_points, data_y_points, k_means_x, k_means_y>>
  BY Basics DEF Gather, At, GoTo, data, IInv, Shape, MoreIterations
<1>2. ASSUME NEW q \in Ranks PROVE Given(q) = LocalNearest(q)
  <2>1. CASE q = 0
    BY <1>1, <2>1, Basics DEF IInv, Assigned, Given
  <2>2. CASE q # 0
    <3>1. gathered[count[0]][q] # {} /\ gathered[count[0]][q] \subseteq {LocalNearest(q)}
      BY <1>1, <2>2 DEF AllGiven, IInv, Assigned, Workers
    <3>2. gathered[count[0]][q] = {LocalNearest(q)}
      BY <3>1
    <3> QED
      BY <2>2, <3>2 DEF Given
  <2> QED
    BY <2>1, <2>2
<1>3. ASSUME NEW i \in Shared
      PROVE  Given(Owner(i))[i % Part] =
               Nearest(data_x_points[i], data_y_points[i], k_means_x[0], k_means_y[0])
  BY <1>2, OwnerOfPoint DEF LocalNearest, Share
<1>4. k_assignment' =
        [i \in Points |-> IF i \in Shared
           THEN Nearest(data_x_points[i], data_y_points[i], k_means_x[0], k_means_y[0])
           ELSE k_assignment[i]]
  BY <1>3 DEF Gather
<1> QED
  BY <1>1, <1>4 DEF Sequential!Join

\* The new means are those of one machine.
LEMMA CalcRefines ==
  ASSUME IInv, Calc
  PROVE  Sequential!Move
<1>1. /\ pc[0] = "calc" /\ pc'[0] = "bcast_x"
      /\ UNCHANGED <<data_x_points, data_y_points, k_assignment>>
  BY Basics DEF Calc, At, EndIteration, GoTo, data, IInv, Shape
<1>2. /\ k_means_x'[0] = calcKmeans(data_x_points, k_assignment, k_means_x[0])
      /\ k_means_y'[0] = calcKmeans(data_y_points, k_assignment, k_means_y[0])
  BY Basics DEF Calc, IInv, Shape
<1> QED
  BY <1>1, <1>2 DEF Sequential!Move

\* The steps between them leave what rank 0 holds as it is.
LEMMA OthersStutter ==
  ASSUME IInv, NEW p \in Ranks, NEW l \in Sends,
         Send(l) \/ Recv(p, l) \/ Assign(p) \/ Give(p)
  PROVE  UNCHANGED Sequential!lvars
<1>1. /\ UNCHANGED <<data_x_points, data_y_points, k_assignment>>
      /\ k_means_x'[0] = k_means_x[0] /\ k_means_y'[0] = k_means_y[0]
  <2>1. CASE Send(l)
    <3>1. /\ l = "bcast_x" => Contents[l] = k_means_x[0]
          /\ l = "bcast_y" => Contents[l] = k_means_y[0]
      BY DEF Contents
    <3> QED
      BY <2>1, <3>1, Basics DEF Send, Take, data, IInv, Shape
  <2>2. CASE Recv(p, l)
    BY <2>2, Basics DEF Recv, Take, data, IInv, Shape
  <2>3. CASE Assign(p) \/ Give(p)
    BY <2>3 DEF Assign, Give, data
  <2> QED
    BY <2>1, <2>2, <2>3
<1>2. pc[0] # "calc" \/ pc'[0] = pc[0]
  <2>1. CASE Send(l)
    BY <2>1 DEF Send, At, Sends
  <2>2. CASE Recv(p, l)
    BY <2>2, Basics DEF Recv, Take, GoTo, IInv, Shape
  <2>3. CASE Assign(p)
    BY <2>3, Basics DEF Assign, At, GoTo, IInv, Shape
  <2>4. CASE Give(p)
    BY <2>4, Basics DEF Give, EndIteration, GoTo, IInv, Shape
  <2> QED
    BY <2>1, <2>2, <2>3, <2>4
<1>3. pc'[0] # "calc" \/ pc'[0] = pc[0]
  <2>1. \A m \in Sends : After[m] # "calc"
    BY DEF After, Sends
  <2>2. CASE Send(l) \/ Recv(p, l)
    BY <2>1, <2>2, Basics DEF Send, Recv, Take, GoTo, IInv, Shape
  <2>3. CASE Assign(p)
    BY <2>3, Basics DEF Assign, GoTo, IInv, Shape
  <2>4. CASE Give(p)
    BY <2>4, Basics DEF Give, EndIteration, GoTo, IInv, Shape
  <2> QED
    BY <2>2, <2>3, <2>4
<1>4. (pc[0] = "calc") = (pc'[0] = "calc")
  BY <1>2, <1>3
<1> QED
  BY <1>1, <1>4 DEF Sequential!lvars

\* Every step is one of k-means on one machine, or a stutter.
LEMMA NextRefines == IInv /\ [Next]_vars => [Sequential!LNext]_(Sequential!lvars)
<1> SUFFICES ASSUME IInv, [Next]_vars PROVE [Sequential!LNext]_(Sequential!lvars)
  OBVIOUS
<1>1. ASSUME NEW p \in Ranks, Step(p) PROVE [Sequential!LNext]_(Sequential!lvars)
  <2>1. CASE Gather
    BY <2>1, GatherRefines DEF Sequential!LNext
  <2>2. CASE Calc
    BY <2>2, CalcRefines DEF Sequential!LNext
  <2>3. CASE \E l \in Sends : Send(l) \/ Recv(p, l)
    BY <2>3, OthersStutter
  <2>4. CASE Assign(p) \/ Give(p)
    <3>1. "scatter" \in Sends
      BY DEF Sends
    <3> QED
      BY <2>4, <3>1, OthersStutter
  <2> QED
    BY <1>1, <2>1, <2>2, <2>3, <2>4 DEF Step
<1>2. ASSUME UNCHANGED vars PROVE UNCHANGED Sequential!lvars
  BY <1>2 DEF vars, data, Sequential!lvars
<1> QED
  BY <1>1, <1>2 DEF Next, Terminated

\* What rank 0 holds goes through the steps of k-means on one machine: points join
\* the nearest mean, means move (kmeans_abft.c:304-330).
THEOREM Refinement == Spec => ImplementsLloyd
<1>1. Init => Sequential!LInit
  BY InitRefines
<1>2. IInv /\ [Next]_vars => [Sequential!LNext]_(Sequential!lvars)
  BY NextRefines
<1> QED
  BY <1>1, <1>2, Invariance, PTL DEF Spec, ImplementsLloyd, Sequential!Spec

-----------------------------------------------------------------------------
(* Sums over the points. *)

\* Every set of natural numbers that is not empty has a least element.
LEMMA LeastNat ==
  ASSUME NEW T \in SUBSET Nat, T # {}
  PROVE  \E m \in T : \A k \in T : m <= k
<1> DEFINE Less == {ss \in Nat \X Nat : ss[1] < ss[2]}
<1>1. IsWellFoundedOn(Less, Nat)
  BY NatLessThanWellFounded DEF OpToRel
<1>2. PICK m \in T : \A k \in T : ~(<<k, m>> \in Less)
  BY <1>1, WFMin
<1>3. \A k \in T : ~(k < m)
  BY <1>2
<1> QED
  BY <1>3

\* Counting up to N: a set that has 0, and with each number the next, has them all.
LEMMA CountUp ==
  ASSUME NEW N \in Nat, NEW T \in SUBSET (0..N), 0 \in T,
         \A k \in 0..N : k < N /\ k \in T => k + 1 \in T
  PROVE  T = 0..N
<1> DEFINE R == (0..N) \ T
<1>1. R \in SUBSET Nat /\ \A k \in 0..N : k \notin R => k \in T
  OBVIOUS
<1>2. \A k \in R : k \in 0..N /\ k \notin T
  OBVIOUS
<1> HIDE DEF R
<1>3. R = {}
  <2> SUFFICES ASSUME R # {} PROVE FALSE
    OBVIOUS
  <2>1. PICK m \in R : \A k \in R : m <= k
    BY <1>1, LeastNat
  <2>2. m \in 0..N /\ m \notin T /\ m # 0
    BY <1>2, <2>1
  <2>3. m - 1 \in 0..N /\ m - 1 < N /\ (m - 1) + 1 = m /\ ~(m <= m - 1)
    BY <2>2
  <2>4. m - 1 \in T
    BY <1>1, <2>1, <2>3
  <2>5. (m - 1) + 1 \in T
    BY <2>3, <2>4
  <2> QED
    BY <2>2, <2>3, <2>5
<1> QED
  BY <1>1, <1>3

\* u[j] is the sum of the first j of N values, those not in S left out.
Sums(N, v, S, u) ==
  /\ u = [j \in 0..N |-> u[j]]
  /\ u[0] = 0
  /\ \A j \in 0..N : j < N => u[j + 1] = u[j] + (IF j \in S THEN v[j] ELSE 0)

Summed(N, v, S) == \E u : Sums(N, v, S, u)

\* There are such sums.
LEMMA SumsExist ==
  ASSUME NEW N \in Nat, NEW v, NEW S
  PROVE  \E u : Sums(N, v, S, u)
<1> DEFINE T == {k \in 0..N : Summed(k, v, S)}
<1>1. T \in SUBSET (0..N) /\ \A k \in 0..N : k \in T <=> Summed(k, v, S)
  OBVIOUS
<1> HIDE DEF T
<1>2. 0 \in T
  <2>1. Sums(0, v, S, [j \in 0..0 |-> 0])
    BY DEF Sums
  <2> QED
    BY <1>1, <2>1 DEF Summed
<1>3. ASSUME NEW k \in 0..N, k < N, k \in T PROVE k + 1 \in T
  <2>1. PICK u : Sums(k, v, S, u)
    BY <1>1, <1>3 DEF Summed
  <2> DEFINE last == u[k] + (IF k \in S THEN v[k] ELSE 0)
             w == [j \in 0..(k + 1) |-> IF j <= k THEN u[j] ELSE last]
  <2>2. /\ w = [j \in 0..(k + 1) |-> w[j]]
        /\ \A j \in 0..k : w[j] = u[j]
        /\ w[k + 1] = last
    OBVIOUS
  <2> HIDE DEF w
  <2>3. w[0] = 0
    <3>1. 0 \in 0..k
      OBVIOUS
    <3>2. u[0] = 0
      BY <2>1 DEF Sums
    <3> QED
      BY <2>2, <3>1, <3>2
  <2>4. ASSUME NEW j \in 0..(k + 1), j < k + 1
        PROVE  w[j + 1] = w[j] + (IF j \in S THEN v[j] ELSE 0)
    <3>1. j \in 0..k
      BY <2>4
    <3>2. CASE j = k
      BY <2>2, <3>1, <3>2
    <3>3. CASE j # k
      <4>1. j < k /\ j + 1 \in 0..k
        BY <3>1, <3>3
      <4> QED
        BY <2>1, <2>2, <3>1, <4>1 DEF Sums
    <3> QED
      BY <3>2, <3>3
  <2>5. Sums(k + 1, v, S, w)
    BY <2>2, <2>3, <2>4 DEF Sums
  <2>6. k + 1 \in 0..N
    BY <1>3
  <2> QED
    BY <1>1, <2>5, <2>6 DEF Summed
<1>4. N \in T
  <2>1. T = 0..N
    BY <1>1, <1>2, <1>3, CountUp
  <2> QED
    BY <2>1
<1> QED
  BY <1>1, <1>4 DEF Summed

\* Total is the last of them.
LEMMA TotalIs ==
  ASSUME NEW v, NEW S
  PROVE  \E u : Sums(numOfElements, v, S, u) /\ Total(v, S) = u[numOfElements]
<1>1. PICK N \in Nat : N = numOfElements
  BY ClustersAssumption
<1> DEFINE Law(h) == h = [j \in 0..N |-> IF j = 0 THEN 0
                                         ELSE h[j - 1] + (IF j - 1 \in S THEN v[j - 1] ELSE 0)]
<1>2. PICK g : Sums(N, v, S, g)
  BY SumsExist
<1>3. Law(g)
  <2>1. ASSUME NEW j \in 0..N
        PROVE  g[j] = IF j = 0 THEN 0 ELSE g[j - 1] + (IF j - 1 \in S THEN v[j - 1] ELSE 0)
    <3>1. CASE j = 0
      BY <1>2, <3>1 DEF Sums
    <3>2. CASE j # 0
      <4>1. j - 1 \in 0..N /\ j - 1 < N /\ (j - 1) + 1 = j
        BY <3>2
      <4>2. g[(j - 1) + 1] = g[j - 1] + (IF j - 1 \in S THEN v[j - 1] ELSE 0)
        BY <1>2, <4>1 DEF Sums
      <4> QED
        BY <3>2, <4>1, <4>2
    <3> QED
      BY <3>1, <3>2
  <2>2. g = [j \in 0..N |-> g[j]]
    BY <1>2 DEF Sums
  <2> QED
    BY <2>1, <2>2
<1>4. Total(v, S) = (CHOOSE h : Law(h))[N]
  BY <1>1 DEF Total
<1>5. PICK h : h = (CHOOSE x : Law(x)) /\ Law(h)
  <2> HIDE DEF Law
  <2> QED
    BY <1>3
<1>6. Sums(N, v, S, h)
  <2>1. h = [j \in 0..N |-> h[j]] /\ h[0] = 0
    BY <1>5
  <2>2. ASSUME NEW j \in 0..N, j < N PROVE h[j + 1] = h[j] + (IF j \in S THEN v[j] ELSE 0)
    <3>1. j + 1 \in 0..N /\ j + 1 # 0 /\ (j + 1) - 1 = j
      BY <2>2
    <3>2. h[j + 1] = h[(j + 1) - 1] + (IF (j + 1) - 1 \in S THEN v[(j + 1) - 1] ELSE 0)
      BY <1>5, <3>1
    <3> QED
      BY <3>1, <3>2
  <2> QED
    BY <2>1, <2>2 DEF Sums
<1> QED
  BY <1>1, <1>4, <1>5, <1>6

\* A sum of integers is one.
LEMMA SumsInt ==
  ASSUME NEW N \in Nat, NEW v, NEW S, NEW u, Sums(N, v, S, u),
         \A j \in 0..(N - 1) : v[j] \in Int
  PROVE  \A j \in 0..N : u[j] \in Int
<1> DEFINE T == {k \in 0..N : u[k] \in Int}
<1>1. T \in SUBSET (0..N) /\ \A k \in 0..N : k \in T <=> u[k] \in Int
  OBVIOUS
<1> HIDE DEF T
<1>2. 0 \in T
  BY <1>1 DEF Sums
<1>3. ASSUME NEW k \in 0..N, k < N, k \in T PROVE k + 1 \in T
  <2>1. k \in 0..(N - 1) /\ k + 1 \in 0..N /\ u[k] \in Int /\ v[k] \in Int
    BY <1>1, <1>3
  <2>2. u[k + 1] = u[k] + (IF k \in S THEN v[k] ELSE 0)
    BY <1>3 DEF Sums
  <2> QED
    BY <1>1, <2>1, <2>2
<1> QED
  <2>1. T = 0..N
    BY <1>1, <1>2, <1>3, CountUp
  <2> QED
    BY <1>1, <2>1

\* The number of points, and the range of an array over them.
LEMMA PointsAre ==
  /\ numOfElements \in Nat \ {0} /\ Points = 0..(numOfElements - 1)
  /\ \A j \in 0..numOfElements : j < numOfElements => j \in Points
BY ClustersAssumption DEF Points

\* A sum of integers over points is one.
LEMMA TotalInt ==
  ASSUME NEW v, NEW S, \A j \in Points : v[j] \in Int
  PROVE  Total(v, S) \in Int
<1>1. PICK u : Sums(numOfElements, v, S, u) /\ Total(v, S) = u[numOfElements]
  BY TotalIs
<1>2. \A j \in 0..numOfElements : u[j] \in Int
  BY <1>1, PointsAre, SumsInt
<1> QED
  BY <1>1, <1>2, PointsAre

\* A sum grows with its terms.
LEMMA TotalGrows ==
  ASSUME NEW f, NEW g, \A j \in Points : f[j] \in Int /\ g[j] \in Int /\ f[j] <= g[j]
  PROVE  Total(f, Points) <= Total(g, Points)
<1>1. PICK N \in Nat : N = numOfElements
  BY PointsAre
<1>2. PICK u : Sums(N, f, Points, u) /\ Total(f, Points) = u[N]
  BY <1>1, TotalIs
<1>3. PICK w : Sums(N, g, Points, w) /\ Total(g, Points) = w[N]
  BY <1>1, TotalIs
<1>4. \A j \in 0..N : u[j] \in Int /\ w[j] \in Int
  BY <1>1, <1>2, <1>3, SumsInt, PointsAre
<1> DEFINE T == {k \in 0..N : u[k] <= w[k]}
<1>5. T \in SUBSET (0..N) /\ \A k \in 0..N : k \in T <=> u[k] <= w[k]
  OBVIOUS
<1> HIDE DEF T
<1>6. 0 \in T
  BY <1>2, <1>3, <1>5 DEF Sums
<1>7. ASSUME NEW k \in 0..N, k < N, k \in T PROVE k + 1 \in T
  <2>1. k \in Points /\ k + 1 \in 0..N /\ u[k] <= w[k]
    BY <1>1, <1>5, <1>7, PointsAre
  <2>2. u[k + 1] = u[k] + f[k] /\ w[k + 1] = w[k] + g[k]
    BY <1>2, <1>3, <1>7, <2>1 DEF Sums
  <2>3. f[k] \in Int /\ g[k] \in Int /\ f[k] <= g[k] /\ u[k] \in Int /\ w[k] \in Int
    BY <1>4, <2>1
  <2> QED
    BY <1>5, <2>1, <2>2, <2>3
<1>8. T = 0..N
  BY <1>5, <1>6, <1>7, CountUp
<1> QED
  BY <1>2, <1>3, <1>5, <1>8

\* n divides m.
Multiple(m, n) == \E q \in Int : m = n * q

\* What divides every term divides the sum.
LEMMA TotalDivides ==
  ASSUME NEW v, NEW S, NEW n \in Int, \A j \in Points : Multiple(v[j], n)
  PROVE  Multiple(Total(v, S), n)
<1>1. PICK N \in Nat : N = numOfElements
  BY PointsAre
<1>2. PICK u : Sums(N, v, S, u) /\ Total(v, S) = u[N]
  BY <1>1, TotalIs
<1> DEFINE T == {k \in 0..N : Multiple(u[k], n)}
<1>3. T \in SUBSET (0..N) /\ \A k \in 0..N : k \in T <=> Multiple(u[k], n)
  OBVIOUS
<1> HIDE DEF T
<1>4. 0 \in T
  <2>1. u[0] = n * 0
    BY <1>2 DEF Sums
  <2> QED
    BY <1>3, <2>1 DEF Multiple
<1>5. ASSUME NEW k \in 0..N, k < N, k \in T PROVE k + 1 \in T
  <2>1. k \in Points /\ k + 1 \in 0..N
    BY <1>1, <1>5, PointsAre
  <2>2. PICK a \in Int : u[k] = n * a
    BY <1>3, <1>5 DEF Multiple
  <2>3. PICK b \in Int : v[k] = n * b
    BY <2>1 DEF Multiple
  <2>4. u[k + 1] = u[k] + (IF k \in S THEN v[k] ELSE 0)
    BY <1>2, <1>5 DEF Sums
  <2>5. n * (a + b) = n * a + n * b /\ n * a + 0 = n * a
    BY Z3
  <2>6. \/ k \in S /\ u[k + 1] = n * (a + b)
        \/ k \notin S /\ u[k + 1] = n * a
    BY <2>2, <2>3, <2>4, <2>5
  <2>7. Multiple(u[k + 1], n)
    BY <2>6 DEF Multiple
  <2> QED
    BY <1>3, <2>1, <2>7
<1>6. T = 0..N
  BY <1>3, <1>4, <1>5, CountUp
<1>7. N \in 0..N
  OBVIOUS
<1> QED
  BY <1>2, <1>3, <1>6, <1>7

\* f exceeds g by a * v + b on the points of S.
Raised(f, g, v, S, a, b) ==
  /\ \A j \in Points : f[j] \in Int /\ g[j] \in Int /\ v[j] \in Int
  /\ \A j \in S : f[j] = g[j] + (a * v[j] + b)
  /\ \A j \in Points \ S : f[j] = g[j]

\* The sums then differ by a * the sum of v over S + b * the number of points in S.
Gained(f, g, v, S, a, b) ==
  /\ Cardinality(S) \in Nat
  /\ Total(f, Points) = Total(g, Points) + (a * Total(v, S) + b * Cardinality(S))

\* A term that is linear in v on the points of S adds a multiple of the sum of v
\* over S and of their number.
LEMMA TotalLinear ==
  ASSUME NEW f, NEW g, NEW v, NEW S \in SUBSET Points, NEW a \in Int, NEW b \in Int,
         Raised(f, g, v, S, a, b)
  PROVE  Gained(f, g, v, S, a, b)
<1>1. PICK N \in Nat : N = numOfElements
  BY PointsAre
<1>2. PICK u : Sums(N, f, Points, u) /\ Total(f, Points) = u[N]
  BY <1>1, TotalIs
<1>3. PICK w : Sums(N, g, Points, w) /\ Total(g, Points) = w[N]
  BY <1>1, TotalIs
<1>4. PICK t : Sums(N, v, S, t) /\ Total(v, S) = t[N]
  BY <1>1, TotalIs
<1>5. \A j \in 0..N : u[j] \in Int /\ w[j] \in Int /\ t[j] \in Int
  <2>1. \A j \in 0..(N - 1) : f[j] \in Int /\ g[j] \in Int /\ v[j] \in Int
    BY <1>1, PointsAre DEF Raised
  <2> QED
    BY <1>2, <1>3, <1>4, <2>1, SumsInt
<1>0. \A j \in S : j \in Int /\ 0 <= j /\ j < N
  BY <1>1, PointsAre
<1> DEFINE First(k) == {j \in S : j < k}
           Held(k) == /\ IsFiniteSet(First(k)) /\ Cardinality(First(k)) \in Nat
                      /\ u[k] = w[k] + (a * t[k] + b * Cardinality(First(k)))
           T == {k \in 0..N : Held(k)}
<1>6. T \in SUBSET (0..N) /\ \A k \in 0..N : k \in T <=> Held(k)
  OBVIOUS
<1> HIDE DEF T
<1>7. 0 \in T
  <2>1. First(0) = {}
    BY <1>0
  <2>2. Cardinality(First(0)) = 0 /\ IsFiniteSet(First(0))
    BY <2>1, FS_EmptySet
  <2>3. u[0] = 0 /\ w[0] = 0 /\ t[0] = 0
    BY <1>2, <1>3, <1>4 DEF Sums
  <2>4. a * 0 = 0 /\ b * 0 = 0
    BY Z3
  <2> HIDE DEF First
  <2> QED
    BY <1>6, <2>2, <2>3, <2>4
<1>8. ASSUME NEW k \in 0..N, k < N, k \in T PROVE k + 1 \in T
  <2>1. k \in Points /\ k + 1 \in 0..N /\ Held(k)
    <3> HIDE DEF Held
    <3> QED
      BY <1>1, <1>6, <1>8, PointsAre
  <2>2. u[k + 1] = u[k] + f[k] /\ w[k + 1] = w[k] + g[k]
    BY <1>2, <1>3, <1>8, <2>1 DEF Sums
  <2>3. t[k + 1] = t[k] + (IF k \in S THEN v[k] ELSE 0)
    BY <1>4, <1>8 DEF Sums
  <2>4. PICK x \in Int, y \in Int, z \in Int, vk \in Int, gk \in Int, c \in Nat :
          /\ x = u[k] /\ y = w[k] /\ z = t[k] /\ vk = v[k] /\ gk = g[k]
          /\ c = Cardinality(First(k)) /\ IsFiniteSet(First(k))
    <3>1. v[k] \in Int /\ g[k] \in Int
      BY <2>1 DEF Raised
    <3> HIDE DEF First
    <3> QED
      BY <1>5, <2>1, <3>1
  <2>5. x = y + (a * z + b * c)
    BY <2>1, <2>4
  <2>6. CASE k \in S
    <3>1. First(k + 1) = First(k) \cup {k} /\ k \notin First(k)
      <4>1. ~(k < k) /\ \A j \in S : j < k + 1 <=> j < k \/ j = k
        BY <1>0
      <4> QED
        BY <2>6, <4>1
    <3>2. IsFiniteSet(First(k + 1)) /\ Cardinality(First(k + 1)) = c + 1
      <4> HIDE DEF First
      <4> QED
        BY <2>4, <3>1, FS_AddElement
    <3>3. u[k + 1] = x + (gk + (a * vk + b)) /\ w[k + 1] = y + gk /\ t[k + 1] = z + vk
      BY <2>2, <2>3, <2>4, <2>6 DEF Raised
    <3>4. x + (gk + (a * vk + b)) = (y + gk) + (a * (z + vk) + b * (c + 1))
      <4>1. a * (z + vk) = a * z + a * vk /\ b * (c + 1) = b * c + b
        BY Z3
      <4>2. PICK p1 \in Int, p2 \in Int, p3 \in Int :
              p1 = a * z /\ p2 = a * vk /\ p3 = b * c
        BY Z3
      <4> QED
        BY <2>5, <4>1, <4>2
    <3> HIDE DEF First
    <3>5. Held(k + 1)
      BY <3>2, <3>3, <3>4
    <3> QED
      BY <1>6, <2>1, <3>5
  <2>7. CASE k \notin S
    <3>1. First(k + 1) = First(k)
      <4>1. \A j \in S : j < k + 1 <=> j < k
        BY <1>0, <2>7
      <4> QED
        BY <4>1
    <3>2. IsFiniteSet(First(k + 1)) /\ Cardinality(First(k + 1)) = c
      BY <2>4, <3>1
    <3>3. u[k + 1] = x + gk /\ w[k + 1] = y + gk /\ t[k + 1] = z
      BY <1>5, <2>1, <2>2, <2>3, <2>4, <2>7 DEF Raised
    <3>4. x + gk = (y + gk) + (a * z + b * c)
      <4>1. PICK p1 \in Int, p3 \in Int : p1 = a * z /\ p3 = b * c
        BY Z3
      <4> QED
        BY <2>5, <4>1
    <3> HIDE DEF First
    <3>5. Held(k + 1)
      BY <3>2, <3>3, <3>4
    <3> QED
      BY <1>6, <2>1, <3>5
  <2> QED
    BY <2>6, <2>7
<1>9. T = 0..N
  <2> HIDE DEF First, Held
  <2> QED
    BY <1>6, <1>7, <1>8, CountUp
<1>10. First(N) = S
  BY <1>0
<1>11. Held(N)
  <2> HIDE DEF First, Held
  <2> QED
    BY <1>6, <1>9
<1> HIDE DEF First
<1> QED
  BY <1>2, <1>3, <1>4, <1>10, <1>11 DEF Gained

-----------------------------------------------------------------------------
(* Nearest means, and new ones. *)

\* Nearest chooses a cluster, and none is nearer.
LEMMA NearestIs ==
  ASSUME NEW x \in Int, NEW y \in Int, NEW kx \in [Clusters -> Int], NEW ky \in [Clusters -> Int]
  PROVE  /\ Nearest(x, y, kx, ky) \in Clusters
         /\ \A l \in Clusters :
              Distance(x, y, kx[Nearest(x, y, kx, ky)], ky[Nearest(x, y, kx, ky)])
                <= Distance(x, y, kx[l], ky[l])
<1> DEFINE D(j) == Distance(x, y, kx[j], ky[j])
           First(j) == \A l \in Clusters : D(j) < D(l) \/ (D(j) = D(l) /\ j <= l)
<1>1. Clusters \subseteq Nat /\ 0 \in Clusters
  BY ClustersAssumption DEF Clusters
<1>2. \A a \in Int : a * a \in Nat
  BY Z3
<1>3. \A j \in Clusters : D(j) \in Nat
  <2> TAKE j \in Clusters
  <2>1. x - kx[j] \in Int /\ y - ky[j] \in Int
    OBVIOUS
  <2>2. PICK p \in Nat, q \in Nat : p = Square(x - kx[j]) /\ q = Square(y - ky[j])
    BY <1>2, <2>1 DEF Square
  <2> QED
    BY <2>2 DEF Distance
<1> HIDE DEF D
<1>4. PICK e \in {D(j) : j \in Clusters} : \A d \in {D(j) : j \in Clusters} : e <= d
  <2> DEFINE T == {D(j) : j \in Clusters}
  <2>1. T \in SUBSET Nat /\ T # {}
    BY <1>1, <1>3
  <2> HIDE DEF T
  <2>2. \E m \in T : \A k \in T : m <= k
    BY <2>1, LeastNat
  <2> QED
    BY <2>2 DEF T
<1>5. PICK i \in {j \in Clusters : D(j) = e} : \A l \in {j \in Clusters : D(j) = e} : i <= l
  <2> DEFINE T == {j \in Clusters : D(j) = e}
  <2>1. T \in SUBSET Nat /\ T # {}
    BY <1>1, <1>4
  <2> HIDE DEF T
  <2>2. \E m \in T : \A k \in T : m <= k
    BY <2>1, LeastNat
  <2> QED
    BY <2>2 DEF T
<1>6. i \in Clusters /\ First(i)
  <2>1. i \in Clusters /\ D(i) = e
    OBVIOUS
  <2>2. ASSUME NEW l \in Clusters PROVE D(i) < D(l) \/ (D(i) = D(l) /\ i <= l)
    <3>1. e <= D(l) /\ e \in Nat /\ D(l) \in Nat
      BY <1>3, <1>4, <2>1
    <3>2. D(l) = e => i <= l
      BY <1>5
    <3> QED
      BY <2>1, <3>1, <3>2
  <2> QED
    BY <2>1, <2>2
<1>7. Nearest(x, y, kx, ky) = CHOOSE j \in Clusters : First(j)
  BY DEF Nearest, NearestOf, D
<1>8. PICK m : m = Nearest(x, y, kx, ky) /\ m \in Clusters /\ First(m)
  <2> HIDE DEF First
  <2>1. (CHOOSE j \in Clusters : First(j)) \in Clusters /\ First(CHOOSE j \in Clusters : First(j))
    BY <1>6
  <2> QED
    BY <1>7, <2>1
<1>9. \A l \in Clusters : D(m) <= D(l)
  BY <1>3, <1>8
<1> QED
  BY <1>8, <1>9 DEF D

\* Members of a cluster are points.
LEMMA MembersAre ==
  ASSUME NEW A, NEW c
  PROVE  Members(A, c) \in SUBSET Points /\ IsFiniteSet(Members(A, c)) /\ IsFiniteSet(Points)
<1>1. Points = 0..(numOfElements - 1) /\ 0 \in Int /\ numOfElements - 1 \in Int
  BY PointsAre
<1>2. IsFiniteSet(Points)
  BY <1>1, FS_Interval
<1>3. Members(A, c) \in SUBSET Points
  BY DEF Members
<1> QED
  BY <1>2, <1>3, FS_Subset

\* The coordinates are multiples of every number of points a cluster may have.
LEMMA CoordinatesDivide ==
  ASSUME NEW v \in Coordinates, NEW n \in 1..numOfElements
  PROVE  \A j \in Points : v[j] \in Int /\ Multiple(v[j], n)
<1> TAKE j \in Points
<1>1. v[j] \in Int /\ v[j] % n = 0 /\ n \in Nat \ {0}
  BY PointsAre DEF Coordinates
<1>2. PICK a \in Int : a = v[j]
  BY <1>1
<1>3. a = n * (a \div n) + (a % n) /\ a \div n \in Int
  BY <1>1, Z3
<1>4. a % n = 0
  BY <1>1, <1>2
<1>5. PICK q \in Int : q = a \div n
  BY <1>3
<1>6. n * q \in Int
  BY <1>1, Z3
<1>7. a = n * q
  BY <1>3, <1>4, <1>5, <1>6
<1> QED
  BY <1>1, <1>2, <1>7 DEF Multiple

\* A cluster that has points gets their mean exactly; one that has none keeps its own.
LEMMA NewMean ==
  ASSUME NEW v \in Coordinates, NEW A, NEW old \in [Clusters -> Int], NEW c \in Clusters
  PROVE  LET S == Members(A, c)  m == calcKmeans(v, A, old)[c]
         IN  /\ m \in Int
             /\ S = {} => m = old[c]
             /\ S # {} => Total(v, S) = Cardinality(S) * m
<1> DEFINE S == Members(A, c)
<1>1. S \in SUBSET Points /\ IsFiniteSet(S) /\ IsFiniteSet(Points)
  BY MembersAre
<1>2. calcKmeans(v, A, old)[c] =
        IF S = {} THEN old[c] ELSE Total(v, S) \div Cardinality(S)
  BY DEF calcKmeans
<1> HIDE DEF S
<1>3. ASSUME S # {}
      PROVE  \E m \in Int : m = Total(v, S) \div Cardinality(S) /\ Total(v, S) = Cardinality(S) * m
  <2>1. Cardinality(S) \in 1..numOfElements
    <3>1. Cardinality(S) \in Nat /\ Cardinality(S) # 0
      BY <1>1, <1>3, FS_CardinalityType, FS_EmptySet
    <3>2. Cardinality(S) <= Cardinality(Points)
      BY <1>1, FS_Subset
    <3>3. Cardinality(Points) = numOfElements
      <4>1. 0 \in Int /\ numOfElements - 1 \in Int /\ ~(0 > numOfElements - 1)
        BY PointsAre
      <4>2. Cardinality(0..(numOfElements - 1)) = (numOfElements - 1) - 0 + 1
        BY <4>1, FS_Interval
      <4> QED
        BY <4>2, PointsAre
    <3> QED
      BY <3>1, <3>2, <3>3, PointsAre
  <2>2. PICK n \in Nat \ {0} : n = Cardinality(S) /\ n \in 1..numOfElements
    BY <2>1
  <2>3. Multiple(Total(v, S), n)
    BY <2>2, CoordinatesDivide, TotalDivides
  <2>4. PICK m \in Int : Total(v, S) = n * m
    BY <2>3 DEF Multiple
  <2>5. (n * m) \div n = m
    BY Z3
  <2> QED
    BY <2>2, <2>4, <2>5
<1> QED
  BY <1>2, <1>3 DEF S

-----------------------------------------------------------------------------
(* New means make the sum of the squared distances no larger. *)

\* What the points add up to in one coordinate with means k; e is what the other
\* coordinate contributes.
Squares(e, v, A, k) == [i \in Points |-> e[i] + Square(v[i] - k[A[i]])]

\* Squares of integers are integers.
LEMMA SquaresInt ==
  ASSUME NEW e \in [Points -> Int], NEW v \in [Points -> Int], NEW A \in [Points -> Clusters],
         NEW k \in [Clusters -> Int]
  PROVE  \A i \in Points : /\ Squares(e, v, A, k)[i] = e[i] + Square(v[i] - k[A[i]])
                           /\ Squares(e, v, A, k)[i] \in Int
<1> TAKE i \in Points
<1>1. Squares(e, v, A, k)[i] = e[i] + Square(v[i] - k[A[i]])
  BY DEF Squares
<1>2. PICK d \in Int : d = v[i] - k[A[i]]
  OBVIOUS
<1>3. d * d \in Int
  BY Z3
<1>4. Square(v[i] - k[A[i]]) \in Int
  BY <1>2, <1>3 DEF Square
<1> QED
  BY <1>1, <1>4

\* m is the mean of the points of cluster c, or its old mean when it has none.
IsMean(v, A, c, old, m) ==
  /\ Members(A, c) = {} => m = old
  /\ Members(A, c) # {} => Total(v, Members(A, c)) = Cardinality(Members(A, c)) * m

\* Moving the mean of one cluster to that of its points: the sum falls by the
\* number of points times the square of the way.
LEMMA MoveOne ==
  ASSUME NEW e \in [Points -> Int], NEW v \in [Points -> Int], NEW A \in [Points -> Clusters],
         NEW k \in [Clusters -> Int], NEW h \in [Clusters -> Int], NEW c \in Clusters,
         \A l \in Clusters \ {c} : h[l] = k[l], IsMean(v, A, c, k[c], h[c])
  PROVE  Total(Squares(e, v, A, h), Points) <= Total(Squares(e, v, A, k), Points)
<1>2. PICK o \in Int, m \in Int : o = k[c] /\ m = h[c]
  OBVIOUS
<1>3. PICK f, g : f = Squares(e, v, A, k) /\ g = Squares(e, v, A, h)
  OBVIOUS
<1>4. /\ \A i \in Points : f[i] \in Int /\ f[i] = e[i] + Square(v[i] - k[A[i]])
      /\ \A i \in Points : g[i] \in Int /\ g[i] = e[i] + Square(v[i] - h[A[i]])
  <2>1. \A i \in Points : /\ Squares(e, v, A, k)[i] = e[i] + Square(v[i] - k[A[i]])
                          /\ Squares(e, v, A, k)[i] \in Int
    BY SquaresInt
  <2>2. \A i \in Points : /\ Squares(e, v, A, h)[i] = e[i] + Square(v[i] - h[A[i]])
                          /\ Squares(e, v, A, h)[i] \in Int
    BY SquaresInt
  <2> QED
    BY <1>3, <2>1, <2>2
<1>5. Total(f, Points) \in Int /\ Total(g, Points) \in Int
  BY <1>4, TotalInt
<1>6. CASE Members(A, c) = {}
  <2>1. \A l \in Clusters : h[l] = k[l]
    BY <1>6 DEF IsMean
  <2>2. h = k
    BY <2>1
  <2> QED
    BY <1>3, <1>5, <2>2
<1>7. CASE Members(A, c) # {}
  <2>1. PICK S \in SUBSET Points : S = Members(A, c)
    BY MembersAre
  <2>2. \A i \in Points : A[i] \in Clusters /\ v[i] \in Int /\ e[i] \in Int
    OBVIOUS
  <2>3. /\ \A i \in S : A[i] = c
        /\ \A i \in Points \ S : A[i] # c
    BY <2>1 DEF Members
  <2>4. PICK a \in Int, b \in Int : a = 2 * (m - o) /\ b = o * o - m * m
    BY Z3
  <2>5. ASSUME NEW i \in S PROVE f[i] = g[i] + (a * v[i] + b)
    <3>1. PICK x \in Int, ei \in Int : x = v[i] /\ ei = e[i]
      BY <2>2
    <3>2. f[i] = ei + (x - o) * (x - o) /\ g[i] = ei + (x - m) * (x - m)
      BY <1>2, <1>4, <2>3, <3>1 DEF Square
    <3>3. ei + (x - o) * (x - o) = ei + (x - m) * (x - m) + ((2 * (m - o)) * x + (o * o - m * m))
      BY Z3
    <3> QED
      BY <2>4, <3>1, <3>2, <3>3
  <2>6. ASSUME NEW i \in Points \ S PROVE f[i] = g[i]
    BY <1>4, <2>2, <2>3
  <2>7. Raised(f, g, v, S, a, b)
    BY <1>4, <2>2, <2>5, <2>6 DEF Raised
  <2>8. /\ Cardinality(S) \in Nat
        /\ Total(f, Points) = Total(g, Points) + (a * Total(v, S) + b * Cardinality(S))
    <3>1. Gained(f, g, v, S, a, b)
      BY <2>7, TotalLinear
    <3> QED
      BY <3>1 DEF Gained
  <2>9. PICK n \in Nat : n = Cardinality(S) /\ Total(v, S) = n * m
    BY <1>2, <1>7, <2>1, <2>8 DEF IsMean
  <2>10. a * (n * m) + b * n >= 0
    <3>1. (2 * (m - o)) * (n * m) + (o * o - m * m) * n = n * ((m - o) * (m - o))
      BY Z3
    <3>2. (m - o) * (m - o) >= 0
      BY Z3
    <3>3. PICK s \in Nat : s = (m - o) * (m - o)
      BY <3>2
    <3>4. n * s >= 0
      BY Z3
    <3> QED
      BY <2>4, <3>1, <3>3, <3>4
  <2>11. PICK z \in Int : z = a * (n * m) + b * n
    BY Z3
  <2>12. Total(f, Points) = Total(g, Points) + z /\ z >= 0
    BY <2>8, <2>9, <2>10, <2>11
  <2> QED
    BY <1>3, <1>5, <2>12
<1> QED
  BY <1>6, <1>7

\* The means of the clusters move one after the other.
LEMMA MoveAll ==
  ASSUME NEW e \in [Points -> Int], NEW v \in Coordinates, NEW A \in [Points -> Clusters],
         NEW k \in [Clusters -> Int]
  PROVE  /\ calcKmeans(v, A, k) \in [Clusters -> Int]
         /\ Total(Squares(e, v, A, calcKmeans(v, A, k)), Points)
              <= Total(Squares(e, v, A, k), Points)
<1>1. v \in [Points -> Int]
  BY DEF Coordinates
<1>2. PICK m : m = calcKmeans(v, A, k)
  OBVIOUS
<1>3. \A c \in Clusters :
        m[c] \in Int /\ IsMean(v, A, c, k[c], m[c])
  BY <1>2, NewMean DEF IsMean
<1>4. m \in [Clusters -> Int]
  <2>1. m = [c \in Clusters |-> m[c]]
    BY <1>2 DEF calcKmeans
  <2> QED
    BY <1>3, <2>1
<1>5. PICK K \in Nat : K = numOfClusters /\ Clusters = 0..(K - 1)
  BY ClustersAssumption DEF Clusters
<1> DEFINE h(j) == [c \in Clusters |-> IF c < j THEN m[c] ELSE k[c]]
           cost(j) == Total(Squares(e, v, A, h(j)), Points)
           T == {j \in 0..K : cost(j) <= cost(0)}
<1>6. \A j \in 0..K : h(j) \in [Clusters -> Int]
  BY <1>4
<1>7. h(0) = k /\ h(K) = m
  <2>1. \A c \in Clusters : ~(c < 0) /\ c < K
    BY <1>5
  <2>2. h(0) = [c \in Clusters |-> k[c]] /\ h(K) = [c \in Clusters |-> m[c]]
    BY <2>1
  <2> QED
    BY <1>4, <2>2
<1>8. ASSUME NEW j \in 0..K PROVE cost(j) \in Int
  <2>1. h(j) \in [Clusters -> Int]
    BY <1>6
  <2> HIDE DEF h
  <2>2. \A i \in Points : Squares(e, v, A, h(j))[i] \in Int
    BY <1>1, <2>1, SquaresInt
  <2> QED
    BY <2>2, TotalInt
<1>9. ASSUME NEW j \in 0..K, j < K PROVE cost(j + 1) <= cost(j)
  <2>1. j \in Clusters /\ j + 1 \in 0..K
    BY <1>5, <1>9
  <2>2. h(j) \in [Clusters -> Int] /\ h(j + 1) \in [Clusters -> Int]
    <3> HIDE DEF h
    <3> QED
      BY <1>6, <2>1
  <2>3. \A c \in Clusters : c < j + 1 <=> c < j \/ c = j
    BY <1>5
  <2>4. /\ h(j)[j] = k[j] /\ h(j + 1)[j] = m[j]
        /\ \A c \in Clusters \ {j} : h(j + 1)[c] = h(j)[c]
    BY <1>5, <2>1, <2>3
  <2> HIDE DEF h
  <2>5. IsMean(v, A, j, h(j)[j], h(j + 1)[j])
    BY <1>3, <2>1, <2>4
  <2>6. Total(Squares(e, v, A, h(j + 1)), Points) <= Total(Squares(e, v, A, h(j)), Points)
    BY <1>1, <2>1, <2>2, <2>4, <2>5, MoveOne
  <2> QED
    BY <2>6
<1> HIDE DEF h, cost
<1>10. T \in SUBSET (0..K) /\ \A j \in 0..K : j \in T <=> cost(j) <= cost(0)
  OBVIOUS
<1> HIDE DEF T
<1>11. 0 \in T
  BY <1>8, <1>10
<1>12. ASSUME NEW j \in 0..K, j < K, j \in T PROVE j + 1 \in T
  <2>1. j + 1 \in 0..K /\ 0 \in 0..K
    BY <1>12
  <2>2. cost(j + 1) \in Int /\ cost(j) \in Int /\ cost(0) \in Int
    BY <1>8, <2>1
  <2> QED
    BY <1>9, <1>10, <1>12, <2>1, <2>2
<1>13. cost(K) <= cost(0)
  <2>1. T = 0..K
    BY <1>10, <1>11, <1>12, CountUp
  <2> QED
    BY <1>10, <2>1
<1> QED
  BY <1>2, <1>4, <1>7, <1>13 DEF cost

-----------------------------------------------------------------------------
(* Type correctness. *)

\* The shares lie within the points.
LEMMA ShareOfPoints ==
  ASSUME NEW p \in Ranks, NEW i \in LocalPoints
  PROVE  p * Part + i \in Points
<1>1. PICK n \in Nat \ {0}, P \in Nat \ {0} : n = numOfElements /\ P = num_of_processes
  BY ClustersAssumption, KMeansAssumption
<1>2. n \div P \in Int /\ n % P \in 0..(P - 1) /\ n = P * (n \div P) + (n % P)
  BY <1>1, Z3
<1>3. PICK q \in Int, r \in 0..(P - 1) : q = n \div P /\ n = P * q + r
  BY <1>2
<1>4. p \in 0..(P - 1) /\ i \in 0..(q - 1) /\ Part = q
  BY <1>1, <1>3 DEF Ranks, LocalPoints, Part
<1>5. PICK e \in Nat : P = p + 1 + e
  <2>1. P - p - 1 \in Nat /\ P = p + 1 + (P - p - 1)
    BY <1>4
  <2> QED
    BY <2>1
<1>6. P * q = q * p + q + q * e /\ q * p \in Int /\ q * e \in Int
  BY <1>4, <1>5, Distributes
<1>7. q * e >= 0 /\ q * p >= 0 /\ p * q = q * p
  BY <1>4, <1>5, Z3
<1>8. PICK a \in Int, b \in Int : a = q * p /\ b = q * e
  BY <1>6
<1>9. n = a + q + b + r /\ a >= 0 /\ b >= 0
  BY <1>3, <1>6, <1>7, <1>8
<1>10. a + i \in 0..(n - 1)
  BY <1>3, <1>4, <1>8, <1>9
<1> QED
  BY <1>1, <1>4, <1>7, <1>8, <1>10 DEF Points

\* The variables have their types at the start.
LEMMA InitType == Init => TypeOK
<1> SUFFICES ASSUME Init PROVE TypeOK
  OBVIOUS
<1>1. PICK in \in Inputs :
        /\ data_x_points = in.x /\ data_y_points = in.y
        /\ k_means_x = [p \in Ranks |->
             IF p = 0 THEN [c \in Clusters |-> in.x[(numOfElements \div numOfClusters) * c]]
                      ELSE [c \in Clusters |-> 0]]
        /\ k_means_y = [p \in Ranks |->
             IF p = 0 THEN [c \in Clusters |-> in.y[(numOfElements \div numOfClusters) * c]]
                      ELSE [c \in Clusters |-> 0]]
  BY DEF Init
<1>2. data_x_points \in Coordinates /\ data_y_points \in Coordinates
  BY <1>1, KMeansAssumption
<1>3. data_x_points \in [Points -> Int] /\ data_y_points \in [Points -> Int]
  BY <1>2 DEF Coordinates
<1>4. /\ [c \in Clusters |-> in.x[(numOfElements \div numOfClusters) * c]] \in Means
      /\ [c \in Clusters |-> in.y[(numOfElements \div numOfClusters) * c]] \in Means
  BY <1>1, <1>3, FirstMeans DEF Means
<1>5. [c \in Clusters |-> 0] \in Means
  BY DEF Means
<1>6. k_means_x \in [Ranks -> Means] /\ k_means_y \in [Ranks -> Means]
  BY <1>1, <1>4, <1>5
<1>7. 0 \in Clusters
  BY ClustersAssumption DEF Clusters
<1>8. /\ k_assignment \in [Points -> Clusters] /\ recv_assign \in [Ranks -> Assignments]
      /\ count \in [Ranks -> 0..MAX_ITERATIONS]
      /\ pc \in [Ranks -> Sends \cup {"assign", "gather", "calc"}]
  BY <1>7, KMeansAssumption DEF Init, Assignments, Sends
<1>9. ASSUME NEW t \in Iterations
      PROVE  /\ wire[t]["bcast_x"] = {} /\ wire[t]["bcast_y"] = {} /\ wire[t]["scatter"] = {}
             /\ \A p \in Ranks : gathered[t][p] = {}
  BY DEF Init, Sends
<1> QED
  BY <1>2, <1>6, <1>8, <1>9 DEF TypeOK

\* A share of an assignment of all points is one of its own.
LEMMA ShareType ==
  ASSUME NEW a \in [Points -> Clusters], NEW p \in Ranks
  PROVE  Share(a, p) \in Assignments
BY ShareOfPoints DEF Share, Assignments

\* What rank 0 sends, or another takes, has the type of the call.
LEMMA TakeType ==
  ASSUME TypeOK, IInv, NEW p \in Ranks, NEW l \in Sends, NEW v, Take(p, l, v),
         l \in {"bcast_x", "bcast_y"} => v \in Means,
         l = "scatter" => v \in [Points -> Clusters]
  PROVE  /\ k_means_x' \in [Ranks -> Means] /\ k_means_y' \in [Ranks -> Means]
         /\ recv_assign' \in [Ranks -> Assignments]
<1>1. k_means_x' \in [Ranks -> Means]
  BY DEF TypeOK, Take
<1>2. k_means_y' \in [Ranks -> Means]
  BY DEF TypeOK, Take
<1>3. recv_assign' \in [Ranks -> Assignments]
  <2>1. l = "scatter" => Share(v, p) \in Assignments
    BY ShareType
  <2> QED
    BY <2>1 DEF TypeOK, Take
<1> QED
  BY <1>1, <1>2, <1>3

\* The types the steps have in common to keep.
Typed ==
  /\ data_x_points \in Coordinates /\ data_y_points \in Coordinates
  /\ k_means_x \in [Ranks -> Means] /\ k_means_y \in [Ranks -> Means]
  /\ k_assignment \in [Points -> Clusters]
  /\ recv_assign \in [Ranks -> Assignments]

\* The calls carry values of their types.
CallsTyped ==
  \A t \in Iterations :
    /\ wire[t]["bcast_x"] \subseteq Means
    /\ wire[t]["bcast_y"] \subseteq Means
    /\ wire[t]["scatter"] \subseteq [Points -> Clusters]
    /\ \A p \in Ranks : gathered[t][p] \subseteq Assignments

\* The clusters of the share of p are clusters.
LEMMA LocalNearestType ==
  ASSUME TypeOK, NEW p \in Ranks
  PROVE  LocalNearest(p) \in Assignments
<1>1. /\ data_x_points \in [Points -> Int] /\ data_y_points \in [Points -> Int]
      /\ k_means_x[0] \in [Clusters -> Int] /\ k_means_y[0] \in [Clusters -> Int]
  BY Basics DEF TypeOK, Coordinates, Means
<1>2. ASSUME NEW i \in LocalPoints
      PROVE  Nearest(Share(data_x_points, p)[i], Share(data_y_points, p)[i],
                     k_means_x[0], k_means_y[0]) \in Clusters
  <2>1. Share(data_x_points, p)[i] \in Int /\ Share(data_y_points, p)[i] \in Int
    BY <1>1, ShareOfPoints DEF Share
  <2> QED
    BY <1>1, <2>1, NearestIs
<1> QED
  BY <1>2 DEF LocalNearest, Assignments

\* The points of rank 0 join clusters.
LEMMA JoinType ==
  ASSUME TypeOK, Sequential!Join
  PROVE  k_assignment' \in [Points -> Clusters]
<1>1. /\ data_x_points \in [Points -> Int] /\ data_y_points \in [Points -> Int]
      /\ k_means_x[0] \in [Clusters -> Int] /\ k_means_y[0] \in [Clusters -> Int]
      /\ k_assignment \in [Points -> Clusters]
  BY Basics DEF TypeOK, Coordinates, Means
<1>2. ASSUME NEW i \in Points
      PROVE  Nearest(data_x_points[i], data_y_points[i], k_means_x[0], k_means_y[0]) \in Clusters
  BY <1>1, NearestIs
<1> QED
  BY <1>1, <1>2 DEF Sequential!Join

\* Every step keeps the types.
LEMMA NextType == IInv /\ IInv' /\ TypeOK /\ [Next]_vars => TypeOK'
<1> SUFFICES ASSUME IInv, IInv', TypeOK, [Next]_vars PROVE TypeOK'
  OBVIOUS
<1>0. Typed /\ CallsTyped
  BY DEF TypeOK, Typed, CallsTyped
<1>1. SUFFICES Typed' /\ CallsTyped'
  BY DEF TypeOK, Typed, CallsTyped, IInv, Shape
<1>2. ASSUME NEW l \in Sends, Send(l) PROVE Typed' /\ CallsTyped'
  <2>1. PICK t \in Iterations : t = count[0]
    BY <1>2, Basics DEF IInv, Shape, Send, At, MoreIterations
  <2>2. /\ wire' = [wire EXCEPT ![t][l] = {Contents[l]}] /\ Take(0, l, Contents[l])
        /\ UNCHANGED <<data_x_points, data_y_points, k_assignment, gathered>>
    BY <1>2, <2>1 DEF Send, Take, data
  <2>3. /\ l = "bcast_x" => Contents[l] = k_means_x[0]
        /\ l = "bcast_y" => Contents[l] = k_means_y[0]
        /\ l = "scatter" => Contents[l] = k_assignment
    BY DEF Contents
  <2>4. /\ k_means_x[0] \in Means /\ k_means_y[0] \in Means
        /\ k_assignment \in [Points -> Clusters]
    BY <1>0, Basics DEF Typed
  <2>5. /\ l \in {"bcast_x", "bcast_y"} => Contents[l] \in Means
        /\ l = "scatter" => Contents[l] \in [Points -> Clusters]
    BY <2>3, <2>4
  <2>6. Typed'
    BY <1>0, <2>2, <2>5, TakeType, Basics DEF Typed
  <2>7. \A s \in Iterations, m \in Sends :
          wire'[s][m] = IF s = t /\ m = l THEN {Contents[l]} ELSE wire[s][m]
    <3>1. wire = [s \in Iterations |-> [m \in Sends |-> wire[s][m]]]
      BY DEF IInv, Shape
    <3>2. wire[t] = [m \in Sends |-> wire[t][m]]
      BY <3>1
    <3>3. wire' = [s \in Iterations |-> IF s = t THEN [wire[t] EXCEPT ![l] = {Contents[l]}]
                                                 ELSE wire[s]]
      BY <2>2, <3>1
    <3>4. [wire[t] EXCEPT ![l] = {Contents[l]}] =
            [m \in Sends |-> IF m = l THEN {Contents[l]} ELSE wire[t][m]]
      BY <3>2
    <3> QED
      BY <3>3, <3>4
  <2>8. ASSUME NEW s \in Iterations
        PROVE  /\ wire'[s]["bcast_x"] \subseteq Means
               /\ wire'[s]["bcast_y"] \subseteq Means
               /\ wire'[s]["scatter"] \subseteq [Points -> Clusters]
               /\ \A p \in Ranks : gathered'[s][p] \subseteq Assignments
    <3>1. "bcast_x" \in Sends /\ "bcast_y" \in Sends /\ "scatter" \in Sends
      BY DEF Sends
    <3>2. wire'[s]["bcast_x"] \subseteq Means
      BY <1>0, <2>3, <2>4, <2>7, <3>1 DEF CallsTyped
    <3>3. wire'[s]["bcast_y"] \subseteq Means
      BY <1>0, <2>3, <2>4, <2>7, <3>1 DEF CallsTyped
    <3>4. wire'[s]["scatter"] \subseteq [Points -> Clusters]
      BY <1>0, <2>3, <2>4, <2>7, <3>1 DEF CallsTyped
    <3> QED
      BY <1>0, <2>2, <3>2, <3>3, <3>4 DEF CallsTyped
  <2> QED
    BY <2>6, <2>8 DEF CallsTyped, Means, Assignments
<1>3. ASSUME NEW p \in Ranks, NEW l \in Sends, Recv(p, l) PROVE Typed' /\ CallsTyped'
  <2>1. PICK t \in Iterations, v \in wire[count[p]][l] : t = count[p] /\ Take(p, l, v)
    BY <1>3, Basics DEF IInv, Shape, Recv, At, MoreIterations
  <2>2. UNCHANGED <<data_x_points, data_y_points, k_assignment, gathered, wire>>
    BY <1>3, <2>1 DEF Recv, Take, data
  <2>3. /\ l \in {"bcast_x", "bcast_y"} => v \in Means
        /\ l = "scatter" => v \in [Points -> Clusters]
    BY <1>0, <2>1 DEF CallsTyped
  <2>4. Typed'
    BY <1>0, <2>1, <2>2, <2>3, TakeType DEF Typed
  <2> QED
    BY <1>0, <2>2, <2>4 DEF CallsTyped, Means, Assignments
<1>4. ASSUME NEW p \in Ranks, Assign(p) PROVE Typed' /\ CallsTyped'
  <2>1. /\ pc[p] = "assign"
        /\ UNCHANGED <<data_x_points, data_y_points, k_means_x, k_means_y, k_assignment,
                       wire, gathered>>
    BY <1>4 DEF Assign, At, data
  <2>2. recv_assign' = [recv_assign EXCEPT ![p] = LocalNearest(p)]
    <3>1. k_means_x[p] = k_means_x[0] /\ k_means_y[p] = k_means_y[0]
      BY <2>1 DEF IInv, MeansTaken, Workers
    <3> QED
      BY <1>4, <3>1 DEF Assign, LocalNearest
  <2>3. recv_assign' \in [Ranks -> Assignments]
    BY <1>0, <2>2, LocalNearestType DEF Typed
  <2> QED
    BY <1>0, <2>1, <2>3 DEF Typed, CallsTyped, Means, Assignments
<1>5. ASSUME NEW p \in Ranks, Give(p) PROVE Typed' /\ CallsTyped'
  <2>1. PICK t \in Iterations : t = count[p]
    BY <1>5, Basics DEF IInv, Shape, Give, At, MoreIterations
  <2>2. /\ gathered' = [gathered EXCEPT ![t][p] = {recv_assign[p]}]
        /\ UNCHANGED <<data_x_points, data_y_points, k_means_x, k_means_y, k_assignment,
                       recv_assign, wire>>
    BY <1>5, <2>1 DEF Give, data
  <2>3. recv_assign[p] \in Assignments
    BY <1>0 DEF Typed
  <2>4. \A s \in Iterations, q \in Ranks :
          gathered'[s][q] = IF s = t /\ q = p THEN {recv_assign[p]} ELSE gathered[s][q]
    <3>1. gathered = [s \in Iterations |-> [q \in Ranks |-> gathered[s][q]]]
      BY DEF IInv, Shape
    <3>2. gathered[t] = [q \in Ranks |-> gathered[t][q]]
      BY <3>1
    <3>3. gathered' = [s \in Iterations |->
            IF s = t THEN [gathered[t] EXCEPT ![p] = {recv_assign[p]}] ELSE gathered[s]]
      BY <2>2, <3>1
    <3>4. [gathered[t] EXCEPT ![p] = {recv_assign[p]}] =
            [q \in Ranks |-> IF q = p THEN {recv_assign[p]} ELSE gathered[t][q]]
      BY <3>2
    <3> QED
      BY <3>3, <3>4
  <2>5. \A s \in Iterations, q \in Ranks : gathered'[s][q] \subseteq Assignments
    BY <1>0, <2>3, <2>4 DEF CallsTyped
  <2> QED
    BY <1>0, <2>2, <2>5 DEF Typed, CallsTyped, Means, Assignments
<1>6. ASSUME Gather PROVE Typed' /\ CallsTyped'
  <2>1. k_assignment' \in [Points -> Clusters]
    BY <1>6, GatherRefines, JoinType
  <2>2. UNCHANGED <<data_x_points, data_y_points, k_means_x, k_means_y, recv_assign,
                    wire, gathered>>
    BY <1>6 DEF Gather, data
  <2> QED
    BY <1>0, <2>1, <2>2 DEF Typed, CallsTyped, Means, Assignments
<1>7. ASSUME Calc PROVE Typed' /\ CallsTyped'
  <2>1. UNCHANGED <<data_x_points, data_y_points, k_assignment, recv_assign, wire, gathered>>
    BY <1>7 DEF Calc, data
  <2>2. /\ k_means_x[0] \in [Clusters -> Int] /\ k_means_y[0] \in [Clusters -> Int]
        /\ k_assignment \in [Points -> Clusters]
        /\ data_x_points \in Coordinates /\ data_y_points \in Coordinates
    BY <1>0, Basics DEF Typed, Means
  <2>3. [i \in Points |-> 0] \in [Points -> Int]
    OBVIOUS
  <2>4. /\ calcKmeans(data_x_points, k_assignment, k_means_x[0]) \in [Clusters -> Int]
        /\ calcKmeans(data_y_points, k_assignment, k_means_y[0]) \in [Clusters -> Int]
    BY <2>2, <2>3, MoveAll
  <2>5. k_means_x' \in [Ranks -> Means] /\ k_means_y' \in [Ranks -> Means]
    BY <1>0, <1>7, <2>4, Basics DEF Calc, Typed, Means
  <2> QED
    BY <1>0, <2>1, <2>5 DEF Typed, CallsTyped, Means, Assignments
<1>8. ASSUME UNCHANGED vars PROVE Typed' /\ CallsTyped'
  BY <1>0, <1>8 DEF vars, data, Typed, CallsTyped, Means, Assignments
<1> QED
  BY <1>2, <1>3, <1>4, <1>5, <1>6, <1>7, <1>8 DEF Next, Step, Terminated

\* The variables keep their types: assignments are clusters, means are integers, and
\* the counters stay within the iterations (kmeans_abft.c:304-330).
THEOREM TypeCorrect == Spec => []TypeOK
<1>1. IInv /\ TypeOK /\ [Next]_vars => IInv' /\ TypeOK'
  BY NextIInv, NextType
<1> QED
  BY <1>1, InitIInv, InitType, PTL DEF Spec

-----------------------------------------------------------------------------
(* The cost. *)

\* The cost is a number.
LEMMA CostInt ==
  ASSUME TypeOK
  PROVE  Cost \in Int
<1>1. /\ data_x_points \in [Points -> Int] /\ data_y_points \in [Points -> Int]
      /\ k_means_x[0] \in [Clusters -> Int] /\ k_means_y[0] \in [Clusters -> Int]
      /\ k_assignment \in [Points -> Clusters]
  BY Basics DEF TypeOK, Coordinates, Means
<1> DEFINE g == [i \in Points |-> Distance(data_x_points[i], data_y_points[i],
                                           k_means_x[0][k_assignment[i]],
                                           k_means_y[0][k_assignment[i]])]
<1>2. ASSUME NEW i \in Points PROVE g[i] \in Int
  <2>1. \A a \in Int : a * a \in Int
    BY Z3
  <2>2. /\ data_x_points[i] - k_means_x[0][k_assignment[i]] \in Int
        /\ data_y_points[i] - k_means_y[0][k_assignment[i]] \in Int
    BY <1>1
  <2> QED
    BY <2>1, <2>2 DEF Distance, Square
<1>3. Cost = Total(g, Points)
  BY DEF Cost
<1> HIDE DEF g
<1> QED
  BY <1>2, <1>3, TotalInt

\* Joining the nearest mean makes no point's distance larger.
LEMMA JoinCost ==
  ASSUME TypeOK, Sequential!Join
  PROVE  Cost' <= Cost
<1>1. /\ data_x_points \in [Points -> Int] /\ data_y_points \in [Points -> Int]
      /\ k_means_x[0] \in [Clusters -> Int] /\ k_means_y[0] \in [Clusters -> Int]
      /\ k_assignment \in [Points -> Clusters]
  BY Basics DEF TypeOK, Coordinates, Means
<1>2. /\ data_x_points' = data_x_points /\ data_y_points' = data_y_points
      /\ k_means_x'[0] = k_means_x[0] /\ k_means_y'[0] = k_means_y[0]
  BY DEF Sequential!Join
<1> DEFINE far(i, c) == Distance(data_x_points[i], data_y_points[i],
                                k_means_x[0][c], k_means_y[0][c])
           f == [i \in Points |-> far(i, k_assignment'[i])]
           g == [i \in Points |-> far(i, k_assignment[i])]
<1>3. k_assignment' \in [Points -> Clusters]
  BY JoinType
<1>4. \A i \in Points, c \in Clusters : far(i, c) \in Int
  <2> TAKE i \in Points, c \in Clusters
  <2>1. \A a \in Int : a * a \in Int
    BY Z3
  <2>2. /\ data_x_points[i] - k_means_x[0][c] \in Int
        /\ data_y_points[i] - k_means_y[0][c] \in Int
    BY <1>1
  <2> QED
    BY <2>1, <2>2 DEF Distance, Square
<1>5. ASSUME NEW i \in Points PROVE far(i, k_assignment'[i]) <= far(i, k_assignment[i])
  <2>1. CASE i \in Shared
    <3>1. k_assignment'[i] =
            Nearest(data_x_points[i], data_y_points[i], k_means_x[0], k_means_y[0])
      BY <2>1 DEF Sequential!Join
    <3>2. data_x_points[i] \in Int /\ data_y_points[i] \in Int /\ k_assignment[i] \in Clusters
      BY <1>1
    <3> QED
      BY <1>1, <3>1, <3>2, NearestIs
  <2>2. CASE i \notin Shared
    <3>1. k_assignment'[i] = k_assignment[i] /\ k_assignment[i] \in Clusters
      BY <1>1, <2>2 DEF Sequential!Join
    <3>2. far(i, k_assignment[i]) \in Int
      BY <1>4, <3>1
    <3> HIDE DEF far
    <3> QED
      BY <3>1, <3>2
  <2> QED
    BY <2>1, <2>2
<1>6. Cost' = Total(f, Points) /\ Cost = Total(g, Points)
  BY <1>2 DEF Cost
<1> HIDE DEF far
<1>7. \A i \in Points : f[i] \in Int /\ g[i] \in Int /\ f[i] <= g[i]
  BY <1>1, <1>3, <1>4, <1>5
<1> HIDE DEF f, g
<1>8. Total(f, Points) <= Total(g, Points)
  BY <1>7, TotalGrows
<1> QED
  BY <1>6, <1>8

\* Moving the means, first in x and then in y, makes the sum no larger.
LEMMA MoveCost ==
  ASSUME TypeOK, Sequential!Move
  PROVE  Cost' <= Cost
<1>1. PICK x \in Coordinates, y \in Coordinates, A \in [Points -> Clusters],
           kx \in [Clusters -> Int], ky \in [Clusters -> Int] :
        /\ x = data_x_points /\ y = data_y_points /\ A = k_assignment
        /\ kx = k_means_x[0] /\ ky = k_means_y[0]
  BY Basics DEF TypeOK, Means
<1>2. PICK mx \in [Clusters -> Int], my \in [Clusters -> Int] :
        mx = calcKmeans(x, A, kx) /\ my = calcKmeans(y, A, ky)
  <2>1. [i \in Points |-> 0] \in [Points -> Int]
    OBVIOUS
  <2> QED
    BY <2>1, MoveAll
<1>3. /\ data_x_points' = x /\ data_y_points' = y /\ k_assignment' = A
      /\ k_means_x'[0] = mx /\ k_means_y'[0] = my
  BY <1>1, <1>2 DEF Sequential!Move
<1>4. x \in [Points -> Int] /\ y \in [Points -> Int]
  BY DEF Coordinates
<1> DEFINE far(k, l) == [i \in Points |-> Distance(x[i], y[i], k[A[i]], l[A[i]])]
           inX(k) == [i \in Points |-> Square(x[i] - k[A[i]])]
           inY(k) == [i \in Points |-> Square(y[i] - k[A[i]])]
<1>5. \A a \in Int : a * a \in Int
  BY Z3
<1>6. ASSUME NEW k \in [Clusters -> Int], NEW l \in [Clusters -> Int]
      PROVE  /\ inX(k) \in [Points -> Int] /\ inY(l) \in [Points -> Int]
             /\ far(k, l) = Squares(inY(l), x, A, k)
             /\ far(k, l) = Squares(inX(k), y, A, l)
             /\ Total(far(k, l), Points) \in Int
  <2>1. ASSUME NEW i \in Points
        PROVE  Square(x[i] - k[A[i]]) \in Int /\ Square(y[i] - l[A[i]]) \in Int
    <3>1. x[i] - k[A[i]] \in Int /\ y[i] - l[A[i]] \in Int
      BY <1>4
    <3> QED
      BY <1>5, <3>1 DEF Square
  <2>2. inX(k) \in [Points -> Int] /\ inY(l) \in [Points -> Int]
    BY <2>1
  <2>3. ASSUME NEW i \in Points
        PROVE  /\ far(k, l)[i] = inX(k)[i] + inY(l)[i] /\ inX(k)[i] \in Int /\ inY(l)[i] \in Int
               /\ Squares(inY(l), x, A, k)[i] = inY(l)[i] + inX(k)[i]
               /\ Squares(inX(k), y, A, l)[i] = inX(k)[i] + inY(l)[i]
    BY <2>1 DEF Squares, Distance
  <2>4. /\ far(k, l) = [i \in Points |-> far(k, l)[i]]
        /\ Squares(inY(l), x, A, k) = [i \in Points |-> Squares(inY(l), x, A, k)[i]]
        /\ Squares(inX(k), y, A, l) = [i \in Points |-> Squares(inX(k), y, A, l)[i]]
    BY DEF Squares
  <2> HIDE DEF far, inX, inY
  <2>5. /\ far(k, l) = Squares(inY(l), x, A, k)
        /\ far(k, l) = Squares(inX(k), y, A, l)
    BY <2>3, <2>4
  <2>6. \A i \in Points : far(k, l)[i] \in Int
    BY <2>3
  <2> QED
    BY <2>2, <2>5, <2>6, TotalInt
<1>7. Cost' = Total(far(mx, my), Points) /\ Cost = Total(far(kx, ky), Points)
  BY <1>1, <1>3 DEF Cost
<1> HIDE DEF far, inX, inY
<1>8. Total(far(mx, ky), Points) <= Total(far(kx, ky), Points)
  <2>1. Total(Squares(inY(ky), x, A, mx), Points) <= Total(Squares(inY(ky), x, A, kx), Points)
    BY <1>2, <1>6, MoveAll
  <2>2. far(mx, ky) = Squares(inY(ky), x, A, mx) /\ far(kx, ky) = Squares(inY(ky), x, A, kx)
    BY <1>6
  <2> QED
    BY <2>1, <2>2
<1>9. Total(far(mx, my), Points) <= Total(far(mx, ky), Points)
  BY <1>2, <1>6, MoveAll
<1>10. /\ Total(far(kx, ky), Points) \in Int /\ Total(far(mx, ky), Points) \in Int
       /\ Total(far(mx, my), Points) \in Int
  BY <1>6
<1> QED
  BY <1>7, <1>8, <1>9, <1>10

\* The sum of the squared distances of the points to the means of their clusters, as
\* rank 0 has them, never grows, however the ranks are interleaved, with points nobody
\* assigns and clusters that lose all theirs (kmeans_abft.c:20-88, 304-330).
THEOREM CostFalls == Spec => CostNeverGrows
<1>1. IInv /\ TypeOK /\ [Next]_vars => [Cost' <= Cost]_vars
  <2> SUFFICES ASSUME IInv, TypeOK, [Next]_vars PROVE Cost' <= Cost
    OBVIOUS
  <2>1. [Sequential!LNext]_(Sequential!lvars)
    BY NextRefines
  <2>2. CASE Sequential!Join
    BY <2>2, JoinCost
  <2>3. CASE Sequential!Move
    BY <2>3, MoveCost
  <2>4. CASE UNCHANGED Sequential!lvars
    <3>1. /\ data_x_points' = data_x_points /\ data_y_points' = data_y_points
          /\ k_assignment' = k_assignment
          /\ k_means_x'[0] = k_means_x[0] /\ k_means_y'[0] = k_means_y[0]
      BY <2>4 DEF Sequential!lvars
    <3>2. Cost' = Cost
      BY <3>1 DEF Cost
    <3>3. Cost \in Int
      BY CostInt
    <3> QED
      BY <3>2, <3>3
  <2> QED
    BY <2>1, <2>2, <2>3, <2>4 DEF Sequential!LNext
<1> QED
  BY <1>1, Invariance, TypeCorrect, PTL DEF Spec, CostNeverGrows
=============================================================================
