------------------------------- MODULE Lu_proofs -------------------------------
(***************************************************************************)
(* Proofs about the parallel LU program for every size of the matrix,      *)
(* every number of ranks, every set of matrices, zero pivots included, and *)
(* every mixture of broadcasts that do and do not wait.                    *)
(***************************************************************************)
EXTENDS Lu, WellFoundedInduction, TLAPS

-----------------------------------------------------------------------------
(* The inductive invariant. *)

\* p is done with the broadcast of row r in step d.
Past(p, d, r) ==
  \/ diag_ref[p] > d
  \/ diag_ref[p] = d /\ pc[p] = "bcast" /\ j[p] > r

\* Exactly the rows their owner is done with have been broadcast.
Sent ==
  \A d \in Steps, r \in Rows :
    wire[d][r] # NotSent <=> d < r /\ Past(owner(r), d, r)

\* Column c of row r no longer changes on its owner once it has been broadcast
\* in step d: the column of the step never does, the others when no elimination
\* of the row is left.
Settled(d, r, c) == c = d \/ r = d + 1

\* What has been broadcast of a row is what its owner holds, where it is settled.
WireTrue ==
  \A d \in Steps, r \in Rows :
    wire[d][r] # NotSent =>
      /\ wire[d][r] \in [d..(N - 1) -> Value]
      /\ \A c \in d..(N - 1) : Settled(d, r, c) => wire[d][r][c] = A[owner(r)][r][c]

\* So is what a rank holds that is done with the broadcast.
CopyTrue ==
  \A p \in Ranks, d \in Steps, r \in Rows :
    d < r /\ Past(p, d, r) =>
      /\ Past(owner(r), d, r)
      /\ \A c \in d..(N - 1) : Settled(d, r, c) => A[p][r][c] = A[owner(r)][r][c]

\* Row 0 is never eliminated and never broadcast.
RowZero == \A p \in Ranks : A[p][0] = A[owner(0)][0]

IInv == TypeOK /\ Sent /\ WireTrue /\ CopyTrue /\ RowZero

-----------------------------------------------------------------------------
(* Arithmetic. *)

\* Division stays within the values.
LEMMA QuotientValue ==
  ASSUME NEW a \in Value, NEW b \in Value
  PROVE  Quotient(a, b) \in Value
<1>1. 0 \in Value
  BY EliminationAssumption DEF Value
<1>2. \E v \in Value : b # 0 => Times(v, b) = a
  BY <1>1, FieldAssumption
<1> QED
  BY <1>2 DEF Quotient

\* An elimination gives a row and leaves the columns before the diagonal alone.
LEMMA ForwElim ==
  ASSUME NEW origin \in Row, NEW master \in Row, NEW d \in Cols
  PROVE  /\ forw_elim(origin, master, d) \in Row
         /\ \A c \in Cols : c < d => forw_elim(origin, master, d)[c] = origin[c]
<1> DEFINE k == Quotient(origin[d], master[d])
<1>1. origin[d] \in Value /\ master[d] \in Value
  BY DEF Row
<1>2. k \in Value
  BY <1>1, QuotientValue
<1>3. \A a, b \in Value : Minus(a, Times(k, b)) \in Value
  <2> SUFFICES ASSUME NEW a \in Value, NEW b \in Value
               PROVE  Minus(a, Times(k, b)) \in Value
    OBVIOUS
  <2>1. k * b \in Int
    BY <1>2 DEF Value
  <2>2. Times(k, b) \in Int
    BY <2>1, EliminationAssumption DEF Times
  <2> QED
    BY <2>2, EliminationAssumption DEF Minus, Value
<1> HIDE DEF k
<1>4. /\ Cols \subseteq Int
      /\ \A c \in Cols : origin[c] \in Value /\ master[c] \in Value
  BY DEF Cols, Row
<1>5. CASE origin[d] = 0
  BY <1>5 DEF forw_elim
<1>6. CASE origin[d] # 0
  <2>1. forw_elim(origin, master, d) =
          [c \in Cols |-> IF c < d THEN origin[c]
                          ELSE IF c = d THEN k
                          ELSE Minus(origin[c], Times(k, master[c]))]
    BY <1>6 DEF forw_elim, k
  <2>2. \A c \in Cols : (IF c < d THEN origin[c] ELSE IF c = d THEN k
                         ELSE Minus(origin[c], Times(k, master[c]))) \in Value
    BY <1>2, <1>3, <1>4
  <2> QED
    BY <2>1, <2>2 DEF Row
<1> QED
  BY <1>5, <1>6

\* The types of the constants, in the form the provers need.
LEMMA Basics ==
  /\ N \in Nat \ {0} /\ P \in Nat \ {0}
  /\ Ranks \subseteq Int /\ Rows \subseteq Int /\ Steps \subseteq Int
  /\ Cols = Rows /\ Steps \subseteq Rows /\ 0 \in Rows
  /\ \A r \in Rows : owner(r) \in Ranks
  /\ \A d \in Steps : NotSent \notin [d..(N - 1) -> Value]
<1>1. N \in Nat \ {0} /\ P \in Nat \ {0}
  BY EliminationAssumption, LuAssumption
<1>2. \A r \in Rows : owner(r) \in Ranks
  BY <1>1 DEF Rows, Ranks, owner
<1>3. ASSUME NEW d \in Steps PROVE NotSent \notin [d..(N - 1) -> Value]
  <2>1. d \in d..(N - 1)
    BY <1>1 DEF Steps
  <2> QED
    BY <2>1 DEF NotSent
<1> QED
  BY <1>1, <1>2, <1>3 DEF Ranks, Rows, Cols, Steps

-----------------------------------------------------------------------------
(* What the actions do to the loop counters. *)

\* Where a running rank is.
LEMMA Place ==
  ASSUME TypeOK, NEW p \in Ranks, Running(p)
  PROVE  /\ diag_ref[p] \in Steps /\ j[p] \in Rows /\ j[p] # 0
         /\ diag_ref[p] < j[p] /\ pc[p] \in {"elim", "bcast"}
<1>1. diag_ref[p] \in 0..(N - 1) /\ j[p] \in (diag_ref[p] + 1)..(N - 1)
  BY DEF TypeOK
<1> QED
  BY <1>1, Basics DEF Running, Steps, Rows, TypeOK

\* The end of an iteration in the loop of broadcasts makes the rank past that
\* broadcast and no other.
LEMMA NextRowPast ==
  ASSUME TypeOK, NEW p \in Ranks, At(p, "bcast"), NextRow(p),
         NEW q \in Ranks, NEW d \in Steps, NEW r \in Rows, d < r
  PROVE  Past(q, d, r)' <=> Past(q, d, r) \/ (q = p /\ d = diag_ref[p] /\ r = j[p])
<1>1. /\ diag_ref[p] \in Steps /\ j[p] \in Rows /\ diag_ref[p] < j[p]
      /\ pc[p] = "bcast" /\ diag_ref[q] \in Int /\ j[q] \in Int
      /\ diag_ref \in [Ranks -> 0..(N - 1)] /\ j \in [Ranks -> 1..N]
      /\ pc \in [Ranks -> {"elim", "bcast"}]
  BY Place DEF At, TypeOK
<1>2. CASE j[p] + 1 < N
  <2>1. j' = [j EXCEPT ![p] = @ + 1] /\ diag_ref' = diag_ref /\ pc' = pc
    BY <1>2 DEF NextRow
  <2> QED
    BY <1>1, <2>1, Basics DEF Past
<1>3. CASE ~(j[p] + 1 < N)
  <2>1. /\ diag_ref' = [diag_ref EXCEPT ![p] = @ + 1]
        /\ j' = [j EXCEPT ![p] = diag_ref[p] + 2]
        /\ pc' = [pc EXCEPT ![p] = "elim"]
    BY <1>3 DEF NextRow
  <2>2. j[p] = N - 1 /\ r <= N - 1
    BY <1>1, <1>3, Basics DEF Rows
  <2>3. CASE q = p
    <3>1. diag_ref'[p] = diag_ref[p] + 1 /\ pc'[p] = "elim"
      BY <1>1, <2>1
    <3> QED
      BY <1>1, <2>2, <2>3, <3>1, Basics DEF Past
  <2>4. CASE q # p
    <3>1. diag_ref'[q] = diag_ref[q] /\ pc'[q] = pc[q] /\ j'[q] = j[q]
      BY <1>1, <2>1, <2>4
    <3> QED
      BY <2>4, <3>1 DEF Past
  <2> QED
    BY <2>3, <2>4
<1> QED
  BY <1>2, <1>3

\* Going on to the next row keeps the counters in their loops.
LEMMA NextRowType ==
  ASSUME TypeOK, NEW p \in Ranks, At(p, "bcast"), NextRow(p)
  PROVE  /\ diag_ref' \in [Ranks -> 0..(N - 1)]
         /\ pc' \in [Ranks -> {"elim", "bcast"}]
         /\ j' \in [Ranks -> 1..N]
         /\ \A q \in Ranks : Running(q)' => j'[q] \in (diag_ref'[q] + 1)..(N - 1)
<1>1. /\ diag_ref[p] \in Steps /\ j[p] \in Rows /\ diag_ref[p] < j[p] /\ j[p] # 0
      /\ diag_ref \in [Ranks -> 0..(N - 1)] /\ j \in [Ranks -> 1..N]
      /\ pc \in [Ranks -> {"elim", "bcast"}]
      /\ \A q \in Ranks : Running(q) => j[q] \in (diag_ref[q] + 1)..(N - 1)
  BY Place DEF At, TypeOK
<1>2. CASE j[p] + 1 < N
  <2>1. j' = [j EXCEPT ![p] = @ + 1] /\ diag_ref' = diag_ref /\ pc' = pc
    BY <1>2 DEF NextRow
  <2>2. j[p] + 1 \in 1..N /\ j[p] + 1 \in (diag_ref[p] + 1)..(N - 1)
    BY <1>1, <1>2, Basics DEF Rows
  <2> QED
    BY <1>1, <2>1, <2>2 DEF Running
<1>3. CASE ~(j[p] + 1 < N)
  <2>1. /\ diag_ref' = [diag_ref EXCEPT ![p] = @ + 1]
        /\ j' = [j EXCEPT ![p] = diag_ref[p] + 2]
        /\ pc' = [pc EXCEPT ![p] = "elim"]
    BY <1>3 DEF NextRow
  <2>2. /\ diag_ref[p] + 1 \in 0..(N - 1) /\ diag_ref[p] + 2 \in 1..N
        /\ diag_ref[p] + 1 < N - 1 =>
             diag_ref[p] + 2 \in (diag_ref[p] + 2)..(N - 1)
    BY <1>1, Basics DEF Steps
  <2>3. /\ diag_ref' \in [Ranks -> 0..(N - 1)] /\ j' \in [Ranks -> 1..N]
        /\ pc' \in [Ranks -> {"elim", "bcast"}]
    BY <1>1, <2>1, <2>2
  <2>4. ASSUME NEW q \in Ranks, Running(q)'
        PROVE  j'[q] \in (diag_ref'[q] + 1)..(N - 1)
    <3>1. CASE q = p
      <4>1. diag_ref'[q] = diag_ref[p] + 1 /\ j'[q] = diag_ref[p] + 2
        BY <1>1, <2>1, <3>1
      <4> QED
        BY <1>1, <2>2, <2>4, <4>1, Basics DEF Running
    <3>2. CASE q # p
      BY <1>1, <2>1, <2>4, <3>2 DEF Running
    <3> QED
      BY <3>1, <3>2
  <2> QED
    BY <2>3, <2>4
<1> QED
  BY <1>2, <1>3

-----------------------------------------------------------------------------
(* The invariant holds at the start and is kept by every step. *)

\* The invariant holds at the start.
LEMMA InitIInv == Init => IInv
<1> SUFFICES ASSUME Init PROVE IInv
  OBVIOUS
<1>1. PICK M \in Matrices : A = [p \in Ranks |-> M]
  BY DEF Init
<1>2. M \in Matrix
  BY LuAssumption
<1>3. /\ A \in [Ranks -> Matrix] /\ 0 \in Ranks /\ 0 \in 0..(N - 1) /\ 1 \in 1..N
      /\ printed \in Matrix
  BY <1>1, <1>2, Basics DEF Init, Ranks
<1>4. wire \in [Steps -> [Rows -> {NotSent} \cup UNION {[d..(N - 1) -> Value] : d \in Steps}]]
  BY DEF Init
<1>5. TypeOK
  BY <1>3, <1>4, Basics DEF Init, TypeOK, Running
<1>6. /\ \A p \in Ranks, d \in Steps, r \in Rows : ~Past(p, d, r)
      /\ \A d \in Steps, r \in Rows : wire[d][r] = NotSent
  BY DEF Init, Past, Steps
<1>7. RowZero
  BY <1>1, Basics DEF RowZero
<1> QED
  BY <1>5, <1>6, <1>7, Basics DEF IInv, Sent, WireTrue, CopyTrue

\* The rows a rank eliminates with are the ones their owners hold.
LEMMA Pivots == IInv => PivotIsOwners
<1> SUFFICES ASSUME IInv, NEW p \in Ranks, NEW r \in 0..diag_ref[p]
             PROVE  A[p][r] = A[owner(r)][r]
  BY DEF PivotIsOwners
<1>1. /\ r \in Rows /\ diag_ref[p] \in 0..(N - 1) /\ N \in Nat \ {0}
      /\ A \in [Ranks -> [Rows -> [Cols -> Value]]] /\ owner(r) \in Ranks
  BY Basics DEF IInv, TypeOK, Matrix, Row, Rows
<1>2. CASE r = 0
  BY <1>2 DEF IInv, RowZero
<1>3. CASE r # 0
  <2>1. ASSUME NEW c \in Cols PROVE A[p][r][c] = A[owner(r)][r][c]
    <3>1. CASE c < r
      <4>1. c \in Steps /\ c < diag_ref[p] /\ c \in c..(N - 1)
        BY <1>1, <3>1 DEF Cols, Rows, Steps
      <4> QED
        BY <1>1, <3>1, <4>1 DEF IInv, CopyTrue, Past, Settled
    <3>2. CASE ~(c < r)
      <4>1. r - 1 \in Steps /\ r - 1 < diag_ref[p] /\ c \in (r - 1)..(N - 1)
            /\ r = (r - 1) + 1 /\ r - 1 < r
        BY <1>1, <1>3, <3>2 DEF Cols, Rows, Steps
      <4> QED
        BY <1>1, <4>1 DEF IInv, CopyTrue, Past, Settled
    <3> QED
      BY <3>1, <3>2
  <2> QED
    BY <1>1, <2>1
<1> QED
  BY <1>2, <1>3

\* An elimination leaves alone what has been broadcast.
LEMMA ElimStep ==
  ASSUME IInv, NEW p \in Ranks, Elim(p)
  PROVE  IInv'
<1>1. /\ TypeOK /\ Running(p) /\ pc[p] = "elim"
      /\ diag_ref[p] \in Steps /\ j[p] \in Rows /\ j[p] # 0 /\ diag_ref[p] < j[p]
      /\ diag_ref \in [Ranks -> 0..(N - 1)] /\ j \in [Ranks -> 1..N]
      /\ pc \in [Ranks -> {"elim", "bcast"}]
      /\ A \in [Ranks -> [Rows -> Row]]
      /\ diag_ref' = diag_ref /\ wire' = wire /\ printed' = printed
  BY Place DEF IInv, Elim, At, TypeOK, Matrix
<1>2. PICK d \in Steps, x \in Rows : d = diag_ref[p] /\ x = j[p]
  BY <1>1
<1>3. /\ diag_ref[p] = d /\ d < x /\ x # 0
      /\ \/ A' = A /\ owner(x) # p
         \/ /\ A' = [A EXCEPT ![p][x] = forw_elim(A[p][x], A[p][d], d)]
            /\ owner(x) = p
  BY <1>1, <1>2 DEF Elim
<1>4. /\ A' \in [Ranks -> [Rows -> Row]]
      /\ \A q \in Ranks, r \in Rows : A'[q][r] # A[q][r] => r = x /\ q = p /\ owner(x) = p
      /\ \A q \in Ranks, r \in Rows : \A c \in Cols :
           c < d => A'[q][r][c] = A[q][r][c]
  <2>1. CASE A' = A
    BY <1>1, <2>1
  <2>2. CASE A' = [A EXCEPT ![p][x] = forw_elim(A[p][x], A[p][d], d)] /\ owner(x) = p
    <3>1. A[p][x] \in Row /\ A[p][d] \in Row /\ d \in Cols
      BY <1>1, Basics
    <3>0. PICK row : row = forw_elim(A[p][x], A[p][d], d)
      OBVIOUS
    <3>2. row \in Row /\ \A c \in Cols : c < d => row[c] = A[p][x][c]
      <4>1. PICK v \in Row, w \in Row : v = A[p][x] /\ w = A[p][d]
        BY <3>1
      <4>0. d \in Cols
        BY <3>1
      <4>2. row = forw_elim(v, w, d)
        BY ONLY <3>0, <4>1
      <4>3. /\ forw_elim(v, w, d) \in Row
            /\ \A c \in Cols : c < d => forw_elim(v, w, d)[c] = v[c]
        BY ONLY <4>0, v \in Row, w \in Row, ForwElim, Zenon
      <4> QED
        BY ONLY <4>1, <4>2, <4>3
    <3>5. A' = [A EXCEPT ![p][x] = row]
      BY <2>2, <3>0
    <3>3. \A q \in Ranks, r \in Rows :
            A'[q][r] = IF q = p /\ r = x THEN row ELSE A[q][r]
      BY <1>1, <3>5
    <3>4. A' \in [Ranks -> [Rows -> Row]]
      BY <1>1, <3>2, <3>5
    <3> QED
      BY <2>2, <3>2, <3>3, <3>4
  <2> QED
    BY <1>3, <2>1, <2>2
<1>5. \A q \in Ranks, e \in Steps, r \in Rows :
        e < r => (Past(q, e, r)' <=> Past(q, e, r))
  <2> SUFFICES ASSUME NEW q \in Ranks, NEW e \in Steps, NEW r \in Rows, e < r
               PROVE  Past(q, e, r)' <=> Past(q, e, r)
    OBVIOUS
  <2>1. /\ q # p => pc'[q] = pc[q] /\ j'[q] = j[q]
        /\ pc'[p] = "elim" \/ (pc'[p] = "bcast" /\ j'[p] = d + 1)
    BY <1>1, <1>2 DEF Elim
  <2> QED
    BY <1>1, <1>3, <2>1, Basics DEF Past
<1>6. TypeOK'
  <2>1. /\ x + 1 < N => x + 1 \in 1..N /\ x + 1 \in (d + 1)..(N - 1)
        /\ d + 1 \in 1..N /\ d + 1 \in (d + 1)..(N - 1)
    BY <1>3, Basics DEF Steps, Rows
  <2>2. /\ j' = [j EXCEPT ![p] = IF x + 1 < N THEN x + 1 ELSE d + 1]
        /\ pc' \in [Ranks -> {"elim", "bcast"}]
    BY <1>1, <1>2 DEF Elim
  <2>3. j' \in [Ranks -> 1..N]
    BY <1>1, <2>1, <2>2
  <2>4. ASSUME NEW q \in Ranks, Running(q)' PROVE j'[q] \in (diag_ref'[q] + 1)..(N - 1)
    <3>1. Running(q) => j[q] \in (diag_ref[q] + 1)..(N - 1)
      BY <1>1 DEF TypeOK
    <3> QED
      BY <1>1, <1>3, <2>1, <2>2, <2>4, <3>1 DEF Running
  <2> QED
    BY <1>1, <1>4, <2>2, <2>3, <2>4 DEF TypeOK, Matrix
<1>7. Sent'
  BY <1>1, <1>5, Basics DEF IInv, Sent
\* columns of row x that have been broadcast lie before the diagonal
<1>8. \A e \in Steps : Past(p, e, x) => e < d /\ x # e + 1
  BY <1>1, <1>3, Basics DEF Past
<1>9. WireTrue'
  <2> SUFFICES ASSUME NEW e \in Steps, NEW r \in Rows, wire[e][r] # NotSent
               PROVE  /\ wire[e][r] \in [e..(N - 1) -> Value]
                      /\ \A c \in e..(N - 1) : Settled(e, r, c) =>
                           wire[e][r][c] = A'[owner(r)][r][c]
    BY <1>1 DEF WireTrue, Settled, owner
  <2>1. /\ wire[e][r] \in [e..(N - 1) -> Value] /\ e < r /\ Past(owner(r), e, r)
        /\ \A c \in e..(N - 1) : Settled(e, r, c) =>
             wire[e][r][c] = A[owner(r)][r][c]
    BY DEF IInv, WireTrue, Sent
  <2>2. CASE A'[owner(r)][r] = A[owner(r)][r]
    BY <2>1, <2>2
  <2>3. CASE A'[owner(r)][r] # A[owner(r)][r]
    <3>1. r = x /\ owner(r) = p
      BY <1>4, <2>3, Basics
    <3>2. e < d /\ x # e + 1 /\ e \in Cols
      BY <1>8, <2>1, <3>1, Basics
    <3> QED
      BY <1>4, <2>1, <3>1, <3>2 DEF Settled
  <2> QED
    BY <2>2, <2>3
<1>10. CopyTrue'
  <2> SUFFICES ASSUME NEW q \in Ranks, NEW e \in Steps, NEW r \in Rows,
                      e < r, Past(q, e, r)'
               PROVE  /\ Past(owner(r), e, r)'
                      /\ \A c \in e..(N - 1) : Settled(e, r, c) =>
                           A'[q][r][c] = A'[owner(r)][r][c]
    BY DEF CopyTrue, Settled, owner
  <2>1. /\ Past(owner(r), e, r)
        /\ \A c \in e..(N - 1) : Settled(e, r, c) =>
             A[q][r][c] = A[owner(r)][r][c]
    BY <1>5 DEF IInv, CopyTrue
  <2>2. Past(owner(r), e, r)'
    BY <1>5, <2>1, Basics
  <2>3. CASE A'[q][r] = A[q][r] /\ A'[owner(r)][r] = A[owner(r)][r]
    BY <2>1, <2>2, <2>3
  <2>4. CASE ~(A'[q][r] = A[q][r] /\ A'[owner(r)][r] = A[owner(r)][r])
    <3>1. r = x /\ owner(r) = p
      BY <1>4, <2>4, Basics
    <3>2. e < d /\ x # e + 1 /\ e \in Cols
      BY <1>8, <2>1, <3>1, Basics
    <3> QED
      BY <1>4, <2>1, <2>2, <3>1, <3>2 DEF Settled
  <2> QED
    BY <2>3, <2>4
<1>11. RowZero'
  <2>1. \A q \in Ranks : A'[q][0] = A[q][0]
    BY <1>3, <1>4, Basics
  <2> QED
    BY <2>1, Basics DEF IInv, RowZero, owner
<1> QED
  BY <1>6, <1>7, <1>9, <1>10, <1>11 DEF IInv

\* A broadcast puts on the wire what the owner holds.
LEMMA SendStep ==
  ASSUME IInv, NEW p \in Ranks, Send(p)
  PROVE  IInv'
<1>1. /\ TypeOK /\ At(p, "bcast") /\ NextRow(p)
      /\ diag_ref[p] \in Steps /\ j[p] \in Rows /\ diag_ref[p] < j[p]
      /\ A \in [Ranks -> [Rows -> Row]] /\ A' = A /\ printed' = printed
      /\ wire \in [Steps -> [Rows -> {NotSent} \cup UNION {[d..(N - 1) -> Value] : d \in Steps}]]
  BY Place DEF IInv, Send, At, TypeOK, Matrix
<1>2. PICK d \in Steps, x \in Rows : d = diag_ref[p] /\ x = j[p]
  BY <1>1
<1>3. PICK tail : tail = Tail(A[p][x], d)
  OBVIOUS
<1>4. /\ wire' = [wire EXCEPT ![d][x] = tail]
      /\ owner(x) = p /\ d < x
  BY <1>1, <1>2, <1>3 DEF Send, root, owner
<1>5. /\ tail \in [d..(N - 1) -> Value] /\ tail # NotSent
      /\ \A c \in d..(N - 1) : tail[c] = A[p][x][c]
  <2>1. A[p][x] \in [Cols -> Value] /\ d..(N - 1) \subseteq Cols
    BY <1>1, Basics DEF Row, Cols, Steps
  <2>2. tail \in [d..(N - 1) -> Value] /\ \A c \in d..(N - 1) : tail[c] = A[p][x][c]
    BY <1>3, <2>1 DEF Tail
  <2> QED
    BY <2>2, Basics
<1>6. \A e \in Steps, r \in Rows :
        wire'[e][r] = IF e = d /\ r = x THEN tail ELSE wire[e][r]
  BY <1>1, <1>4
<1>7. \A q \in Ranks, e \in Steps, r \in Rows :
        e < r => (Past(q, e, r)' <=> Past(q, e, r) \/ (q = p /\ e = d /\ r = x))
  BY <1>1, <1>2, NextRowPast
<1>8. TypeOK'
  <2>1. wire' \in [Steps -> [Rows -> {NotSent} \cup UNION {[e..(N - 1) -> Value] : e \in Steps}]]
    BY <1>1, <1>4, <1>5
  <2> QED
    BY <1>1, <2>1, NextRowType DEF TypeOK
<1>9. Sent'
  <2> SUFFICES ASSUME NEW e \in Steps, NEW r \in Rows
               PROVE  wire'[e][r] # NotSent <=> e < r /\ Past(owner(r), e, r)'
    BY DEF Sent, owner
  <2>1. wire[e][r] # NotSent <=> e < r /\ Past(owner(r), e, r)
    BY DEF IInv, Sent
  <2> QED
    BY <1>4, <1>5, <1>6, <1>7, <2>1, Basics
<1>10. WireTrue'
  <2> SUFFICES ASSUME NEW e \in Steps, NEW r \in Rows, wire'[e][r] # NotSent
               PROVE  /\ wire'[e][r] \in [e..(N - 1) -> Value]
                      /\ \A c \in e..(N - 1) : Settled(e, r, c) =>
                           wire'[e][r][c] = A[owner(r)][r][c]
    BY <1>1 DEF WireTrue, Settled, owner
  <2>1. CASE e = d /\ r = x
    <3>1. wire'[e][r] = tail /\ A[owner(r)][r] = A[p][x] /\ e..(N - 1) = d..(N - 1)
      BY <1>4, <1>6, <2>1
    <3> QED
      BY <1>5, <2>1, <3>1
  <2>2. CASE ~(e = d /\ r = x)
    BY <1>6, <2>2 DEF IInv, WireTrue
  <2> QED
    BY <2>1, <2>2
<1>11. CopyTrue'
  <2> SUFFICES ASSUME NEW q \in Ranks, NEW e \in Steps, NEW r \in Rows,
                      e < r, Past(q, e, r)'
               PROVE  /\ Past(owner(r), e, r)'
                      /\ \A c \in e..(N - 1) : Settled(e, r, c) =>
                           A[q][r][c] = A[owner(r)][r][c]
    BY <1>1 DEF CopyTrue, Settled, owner
  <2>1. CASE q = p /\ e = d /\ r = x
    BY <1>4, <2>1
  <2>2. CASE ~(q = p /\ e = d /\ r = x)
    <3>1. Past(q, e, r)
      BY <1>7, <2>2
    <3>2. /\ Past(owner(r), e, r)
          /\ \A c \in e..(N - 1) : Settled(e, r, c) => A[q][r][c] = A[owner(r)][r][c]
      BY <3>1 DEF IInv, CopyTrue
    <3> QED
      BY <1>7, <3>2, Basics
  <2> QED
    BY <2>1, <2>2
<1>12. RowZero'
  BY <1>1 DEF IInv, RowZero, owner
<1> QED
  BY <1>8, <1>9, <1>10, <1>11, <1>12 DEF IInv

\* A receiver gets the columns of the step and keeps the settled ones before.
LEMMA RecvStep ==
  ASSUME IInv, NEW p \in Ranks, Recv(p)
  PROVE  IInv'
<1>1. /\ TypeOK /\ At(p, "bcast") /\ NextRow(p) /\ pc[p] = "bcast"
      /\ diag_ref[p] \in Steps /\ j[p] \in Rows /\ diag_ref[p] < j[p]
      /\ A \in [Ranks -> [Rows -> Row]] /\ wire' = wire /\ printed' = printed
  BY Place DEF IInv, Recv, At, TypeOK, Matrix
<1>2. PICK d \in Steps, x \in Rows : d = diag_ref[p] /\ x = j[p]
  BY <1>1
<1>3. PICK row : row = Overwritten(A[p][x], wire[d][x])
  OBVIOUS
<1>4. /\ A' = [A EXCEPT ![p][x] = row]
      /\ wire[d][x] # NotSent
      /\ owner(x) # p /\ d < x
  BY <1>1, <1>2, <1>3 DEF Recv, root, owner
<1>5. /\ wire[d][x] \in [d..(N - 1) -> Value]
      /\ \A c \in d..(N - 1) : Settled(d, x, c) => wire[d][x][c] = A[owner(x)][x][c]
      /\ Past(owner(x), d, x)
  BY <1>4 DEF IInv, WireTrue, Sent
<1>6. /\ row \in Row
      /\ \A c \in d..(N - 1) : row[c] = wire[d][x][c]
      /\ \A c \in Cols : c < d => row[c] = A[p][x][c]
  <2>1. /\ A[p][x] \in [Cols -> Value] /\ d..(N - 1) \subseteq Cols
        /\ \A c \in Cols : c < d => c \notin d..(N - 1)
    BY <1>1, Basics DEF Row, Cols, Steps
  <2>2. DOMAIN wire[d][x] = d..(N - 1) /\ \A c \in d..(N - 1) : wire[d][x][c] \in Value
    BY <1>5
  <2>3. row = [c \in Cols |-> IF c \in d..(N - 1) THEN wire[d][x][c] ELSE A[p][x][c]]
    BY <1>3, <2>2 DEF Overwritten
  <2> QED
    BY <2>1, <2>2, <2>3 DEF Row
<1>7. /\ \A q \in Ranks, r \in Rows :
           A'[q][r] = IF q = p /\ r = x THEN row ELSE A[q][r]
      /\ A' \in [Ranks -> [Rows -> Row]]
      /\ \A r \in Rows : A'[owner(r)][r] = A[owner(r)][r]
  <2>1. \A q \in Ranks, r \in Rows :
           A'[q][r] = IF q = p /\ r = x THEN row ELSE A[q][r]
    BY <1>1, <1>4
  <2>2. A' \in [Ranks -> [Rows -> Row]]
    BY <1>1, <1>4, <1>6
  <2> QED
    BY <1>4, <2>1, <2>2, Basics
<1>8. \A q \in Ranks, e \in Steps, r \in Rows :
        e < r => (Past(q, e, r)' <=> Past(q, e, r) \/ (q = p /\ e = d /\ r = x))
  BY <1>1, <1>2, NextRowPast
<1>9. TypeOK'
  BY <1>1, <1>7, NextRowType DEF TypeOK, Matrix
<1>10. Sent'
  <2> SUFFICES ASSUME NEW e \in Steps, NEW r \in Rows
               PROVE  wire[e][r] # NotSent <=> e < r /\ Past(owner(r), e, r)'
    BY <1>1 DEF Sent, owner
  <2>1. wire[e][r] # NotSent <=> e < r /\ Past(owner(r), e, r)
    BY DEF IInv, Sent
  <2> QED
    BY <1>4, <1>8, <2>1, Basics
<1>11. WireTrue'
  <2> SUFFICES ASSUME NEW e \in Steps, NEW r \in Rows, wire[e][r] # NotSent
               PROVE  /\ wire[e][r] \in [e..(N - 1) -> Value]
                      /\ \A c \in e..(N - 1) : Settled(e, r, c) =>
                           wire[e][r][c] = A'[owner(r)][r][c]
    BY <1>1 DEF WireTrue, Settled, owner
  <2> QED
    BY <1>7 DEF IInv, WireTrue
<1>12. CopyTrue'
  <2> SUFFICES ASSUME NEW q \in Ranks, NEW e \in Steps, NEW r \in Rows,
                      e < r, Past(q, e, r)'
               PROVE  /\ Past(owner(r), e, r)'
                      /\ \A c \in e..(N - 1) : Settled(e, r, c) =>
                           A'[q][r][c] = A[owner(r)][r][c]
    BY <1>7 DEF CopyTrue, Settled, owner
  <2>1. CASE q = p /\ e = d /\ r = x
    <3>1. Past(owner(r), e, r)'
      BY <1>5, <1>8, <2>1, Basics
    <3> QED
      BY <1>5, <1>6, <1>7, <2>1, <3>1
  <2>2. CASE ~(q = p /\ e = d /\ r = x)
    <3>1. /\ Past(q, e, r) /\ Past(owner(r), e, r)'
          /\ \A c \in e..(N - 1) : Settled(e, r, c) => A[q][r][c] = A[owner(r)][r][c]
      <4>1. Past(q, e, r)
        BY <1>8, <2>2
      <4>2. /\ Past(owner(r), e, r)
            /\ \A c \in e..(N - 1) : Settled(e, r, c) => A[q][r][c] = A[owner(r)][r][c]
        BY <4>1 DEF IInv, CopyTrue
      <4> QED
        BY <1>8, <4>1, <4>2, Basics
    <3>2. CASE q = p /\ r = x
      <4>1. e < d /\ x # e + 1 /\ e \in Cols
        BY <1>1, <1>2, <1>4, <3>1, <3>2, Basics DEF Past
      <4> QED
        BY <1>6, <1>7, <3>1, <3>2, <4>1 DEF Settled
    <3>3. CASE ~(q = p /\ r = x)
      BY <1>7, <3>1, <3>3
    <3> QED
      BY <3>2, <3>3
  <2> QED
    BY <2>1, <2>2
<1>13. RowZero'
  <2>1. x # 0
    BY <1>4, Basics DEF Steps
  <2> QED
    BY <1>7, <2>1, Basics DEF IInv, RowZero, owner
<1> QED
  BY <1>9, <1>10, <1>11, <1>12, <1>13 DEF IInv

\* Every step of the program keeps it.
LEMMA NextIInv == IInv /\ [Next]_vars => IInv'
<1> SUFFICES ASSUME IInv, [Next]_vars PROVE IInv'
  OBVIOUS
<1>1. CASE \E p \in Ranks : Step(p)
  BY <1>1, ElimStep, SendStep, RecvStep DEF Step
<1>2. CASE UNCHANGED vars
  BY <1>2 DEF vars, IInv, TypeOK, Running, Sent, WireTrue, CopyTrue, RowZero,
              Past, Settled, owner
<1> QED
  BY <1>1, <1>2 DEF Next, Terminated

\* The inductive invariant holds throughout every factorisation.
THEOREM Invariance == Spec => []IInv
<1> QED
  BY InitIInv, NextIInv, PTL DEF Spec

\* The matrices keep their shape and the loop counters their bounds, whatever
\* the matrix, zero pivots included.
THEOREM TypeCorrect == Spec => []TypeOK
<1>1. IInv => TypeOK
  BY DEF IInv
<1> QED
  BY Invariance, <1>1, PTL

\* No rank ever eliminates with a stale row of the diagonal, or holds a stale
\* row above it.
THEOREM PivotsCurrent == Spec => []PivotIsOwners
<1> QED
  BY Invariance, Pivots, PTL

-----------------------------------------------------------------------------
(* The rows at their owners are reduced as by the sequential factorisation. *)

\* The parallel and the sequential program eliminate with the same function.
LEMMA SameArithmetic ==
  ASSUME NEW origin, NEW master, NEW d
  PROVE  Sequential!forw_elim(origin, master, d) = forw_elim(origin, master, d)
BY DEF Sequential!forw_elim, forw_elim, Sequential!Quotient, Quotient,
       Sequential!Times, Times, Sequential!Minus, Minus, Sequential!Value, Value,
       Sequential!Cols, Cols

\* The pivot row of a rank, and every row above it, is final on its owner.
LEMMA PivotFinal ==
  ASSUME IInv, NEW p \in Ranks, NEW d \in Rows, d <= diag_ref[p]
  PROVE  OwnersStage[d] = d
<1>1. PICK o \in Ranks : o = owner(d)
  BY Basics
<1>2. /\ diag_ref[o] \in Nat /\ d \in Nat /\ d \in Rows
      /\ \A q \in Ranks : diag_ref[q] \in 0..(N - 1)
  BY Basics DEF IInv, TypeOK, Rows
<1>3. d = 0 \/ diag_ref[o] >= d \/ (diag_ref[o] = d - 1 /\ pc[o] = "bcast")
  <2>1. CASE d # 0
    <3>1. d - 1 \in Steps /\ d - 1 < d /\ Past(p, d - 1, d)
      BY <1>2, <2>1, Basics DEF Past, Steps, Rows
    <3>2. Past(o, d - 1, d)
      BY <1>1, <1>2, <3>1 DEF IInv, CopyTrue
    <3> QED
      BY <1>2, <3>2 DEF Past
  <2> QED
    BY <2>1
<1> QED
  BY <1>1, <1>2, <1>3 DEF OwnersStage, Least

\* An elimination is a step of the sequential program, or a stutter on rows of others.
LEMMA ElimRefines ==
  ASSUME IInv, NEW p \in Ranks, Elim(p)
  PROVE  [Sequential!GNext]_(Sequential!gvars)
<1>1. /\ TypeOK /\ Running(p) /\ pc[p] = "elim"
      /\ diag_ref[p] \in Steps /\ j[p] \in Rows /\ diag_ref[p] < j[p]
      /\ diag_ref \in [Ranks -> 0..(N - 1)] /\ j \in [Ranks -> 1..N]
      /\ pc \in [Ranks -> {"elim", "bcast"}]
      /\ A \in [Ranks -> [Rows -> Row]] /\ diag_ref' = diag_ref
  BY Place DEF IInv, Elim, At, TypeOK, Matrix
<1>2. PICK d \in Steps, x \in Rows : d = diag_ref[p] /\ x = j[p]
  BY <1>1
<1>3. /\ diag_ref[p] = d /\ d < x /\ j[p] = x
      /\ \/ A' = A /\ owner(x) # p
         \/ /\ A' = [A EXCEPT ![p][x] = forw_elim(A[p][x], A[p][d], d)]
            /\ owner(x) = p
  BY <1>1, <1>2 DEF Elim
<1>4. \A r \in Rows :
        OwnersStage'[r] = IF r = x /\ owner(x) = p THEN OwnersStage[r] + 1
                                                   ELSE OwnersStage[r]
  <2> SUFFICES ASSUME NEW r \in Rows
               PROVE  OwnersStage'[r] = IF r = x /\ owner(x) = p THEN OwnersStage[r] + 1
                                                                 ELSE OwnersStage[r]
    OBVIOUS
  <2>1. CASE owner(r) # p
    <3>1. /\ pc'[owner(r)] = pc[owner(r)] /\ j'[owner(r)] = j[owner(r)]
          /\ diag_ref'[owner(r)] = diag_ref[owner(r)]
      BY <1>1, <2>1, Basics DEF Elim
    <3> QED
      BY <2>1, <3>1 DEF OwnersStage, owner
  <2>2. CASE owner(r) = p
    <3>1. OwnersStage[r] = Least(r, IF r < x THEN d + 1 ELSE d)
      BY <1>1, <1>3, <2>2 DEF OwnersStage
    <3>2. OwnersStage'[r] = Least(r, IF r < x \/ r = x THEN d + 1 ELSE d)
      <4>1. OwnersStage'[r] =
              Least(r, IF pc'[p] = "bcast" \/ r < j'[p] THEN diag_ref'[p] + 1
                                                        ELSE diag_ref'[p])
        BY <2>2 DEF OwnersStage, owner
      <4>2. CASE x + 1 < N
        <5>1. j'[p] = x + 1 /\ pc'[p] = "elim"
          BY <1>1, <1>2, <4>2 DEF Elim
        <5>2. r < x + 1 <=> r < x \/ r = x
          BY Basics
        <5> QED
          BY <1>1, <1>3, <4>1, <5>1, <5>2
      <4>3. CASE ~(x + 1 < N)
        <5>1. pc'[p] = "bcast"
          BY <1>1, <1>2, <4>3 DEF Elim
        <5>2. r < x \/ r = x
          BY <4>3, Basics DEF Rows
        <5> QED
          BY <1>1, <1>3, <4>1, <5>1, <5>2
      <4> QED
        BY <4>2, <4>3
    <3> QED
      BY <1>3, <2>2, <3>1, <3>2, Basics DEF Least
  <2> QED
    BY <2>1, <2>2
<1>5. /\ OwnersStage = [r \in Rows |-> OwnersStage[r]]
      /\ OwnersStage' = [r \in Rows |-> OwnersStage'[r]]
  BY DEF OwnersStage
<1>6. CASE A' = A /\ owner(x) # p
  <2>1. OwnersStage' = OwnersStage
    BY <1>4, <1>5, <1>6
  <2>2. OwnersRows' = OwnersRows
    BY <1>6 DEF OwnersRows, owner
  <2> QED
    BY <2>1, <2>2 DEF Sequential!gvars
<1>7. CASE /\ A' = [A EXCEPT ![p][x] = forw_elim(A[p][x], A[p][d], d)]
           /\ owner(x) = p
  <2>1. OwnersStage[x] = d
    BY <1>1, <1>3, <1>7, Basics DEF OwnersStage, Least
  <2>2. OwnersStage' = [OwnersStage EXCEPT ![x] = @ + 1]
    BY <1>4, <1>5, <1>7
  <2>3. OwnersStage[d] = d
    <3>1. d \in Rows /\ d <= diag_ref[p]
      BY <1>3, Basics
    <3> QED
      BY <3>1, PivotFinal
  <2>4. OwnersRows[x] = A[p][x] /\ OwnersRows[d] = A[p][d]
    <3>1. d \in 0..diag_ref[p] /\ d \in Rows
      BY <1>1, <1>3, Basics DEF Steps
    <3>2. A[p][d] = A[owner(d)][d]
      BY <3>1, Pivots DEF PivotIsOwners
    <3> QED
      BY <1>7, <3>1, <3>2 DEF OwnersRows
  <2>5. OwnersRows' = [OwnersRows EXCEPT ![x] = forw_elim(@, OwnersRows[d], d)]
    <3>1. PICK row : row = forw_elim(A[p][x], A[p][d], d)
      OBVIOUS
    <3>2. \A r \in Rows : A'[owner(r)][r] = IF r = x THEN row ELSE A[owner(r)][r]
      BY <1>1, <1>7, <3>1, Basics
    <3>3. OwnersRows' = [r \in Rows |-> A'[owner(r)][r]]
      BY DEF OwnersRows, owner
    <3>4. OwnersRows' = [OwnersRows EXCEPT ![x] = row]
      BY <3>2, <3>3 DEF OwnersRows
    <3> QED
      BY <2>4, <3>1, <3>4
  <2>6. OwnersRows' =
          [OwnersRows EXCEPT ![x] = Sequential!forw_elim(@, OwnersRows[d], d)]
    BY <2>5, SameArithmetic
  <2>7. Sequential!Eliminate(x)
    BY <1>3, <2>1, <2>2, <2>3, <2>6 DEF Sequential!Eliminate, Sequential!Final
  <2>8. x \in Sequential!Rows
    BY DEF Sequential!Rows, Rows
  <2> QED
    BY <2>7, <2>8 DEF Sequential!GNext
<1> QED
  BY <1>3, <1>6, <1>7

\* The broadcasts do not show in the rows of the owners.
LEMMA NextRowHidden ==
  ASSUME TypeOK, NEW p \in Ranks, At(p, "bcast"), NextRow(p)
  PROVE  OwnersStage' = OwnersStage
<1>1. /\ diag_ref[p] \in Steps /\ j[p] \in Rows /\ diag_ref[p] < j[p]
      /\ pc[p] = "bcast" /\ diag_ref \in [Ranks -> 0..(N - 1)]
      /\ j \in [Ranks -> 1..N] /\ pc \in [Ranks -> {"elim", "bcast"}]
  BY Place DEF At, TypeOK
<1>2. ASSUME NEW r \in Rows PROVE OwnersStage'[r] = OwnersStage[r]
  <2>1. PICK o \in Ranks : o = owner(r)
    BY Basics
  <2>2. /\ OwnersStage[r] =
             Least(r, IF pc[o] = "bcast" \/ r < j[o] THEN diag_ref[o] + 1
                                                     ELSE diag_ref[o])
        /\ OwnersStage'[r] =
             Least(r, IF pc'[o] = "bcast" \/ r < j'[o] THEN diag_ref'[o] + 1
                                                       ELSE diag_ref'[o])
    BY <2>1 DEF OwnersStage, owner
  <2>3. CASE j[p] + 1 < N
    BY <1>1, <2>2, <2>3 DEF NextRow
  <2>4. CASE ~(j[p] + 1 < N)
    <3>1. /\ diag_ref' = [diag_ref EXCEPT ![p] = @ + 1]
          /\ j' = [j EXCEPT ![p] = diag_ref[p] + 2]
          /\ pc' = [pc EXCEPT ![p] = "elim"]
      BY <2>4 DEF NextRow
    <3>2. CASE o = p
      <4>1. /\ diag_ref'[p] = diag_ref[p] + 1 /\ j'[p] = diag_ref[p] + 2
            /\ pc'[p] = "elim"
        BY <1>1, <3>1
      <4> QED
        BY <1>1, <2>2, <3>2, <4>1, Basics DEF Least
    <3>3. CASE o # p
      BY <1>1, <2>2, <3>1, <3>3
    <3> QED
      BY <3>2, <3>3
  <2> QED
    BY <2>3, <2>4
<1>3. /\ OwnersStage = [r \in Rows |-> OwnersStage[r]]
      /\ OwnersStage' = [r \in Rows |-> OwnersStage'[r]]
  BY DEF OwnersStage
<1> QED
  BY <1>2, <1>3

\* Broadcasts leave the rows at their owners as they are.
LEMMA BcastRefines ==
  ASSUME IInv, NEW p \in Ranks, Send(p) \/ Recv(p)
  PROVE  UNCHANGED Sequential!gvars
<1>1. /\ TypeOK /\ At(p, "bcast") /\ NextRow(p) /\ j[p] \in Rows
      /\ A \in [Ranks -> [Rows -> Row]]
  BY Place DEF IInv, Send, Recv, At, TypeOK, Matrix
<1>2. OwnersStage' = OwnersStage
  BY <1>1, NextRowHidden
<1>3. CASE Send(p)
  BY <1>2, <1>3 DEF Send, OwnersRows, owner, Sequential!gvars
<1>4. CASE Recv(p)
  <2>1. PICK x \in Rows : owner(x) # p /\ \E row : A' = [A EXCEPT ![p][x] = row]
    BY <1>1, <1>4 DEF Recv, root, owner
  <2>2. \A r \in Rows : A'[owner(r)][r] = A[owner(r)][r]
    BY <1>1, <2>1, Basics
  <2>3. OwnersRows' = OwnersRows
    BY <2>2 DEF OwnersRows, owner
  <2> QED
    BY <1>2, <2>3 DEF Sequential!gvars
<1> QED
  BY <1>3, <1>4

\* Both programs start from the same matrix.
LEMMA InitRefines == Init => Sequential!GInit
<1> SUFFICES ASSUME Init PROVE Sequential!GInit
  OBVIOUS
<1>1. PICK M \in Matrices : A = [p \in Ranks |-> M]
  BY DEF Init
<1>2. M = [r \in Rows |-> M[r]]
  BY LuAssumption DEF Matrix
<1>3. OwnersRows = M
  BY <1>1, <1>2, Basics DEF OwnersRows
<1>4. ASSUME NEW r \in Rows PROVE OwnersStage[r] = 0
  <2>1. diag_ref[owner(r)] = 0 /\ pc[owner(r)] = "elim" /\ j[owner(r)] = 1
    BY Basics DEF Init
  <2> QED
    BY <2>1, Basics DEF OwnersStage, Least, Rows
<1>5. OwnersStage = [r \in Rows |-> OwnersStage[r]]
  BY DEF OwnersStage
<1> QED
  BY <1>3, <1>4, <1>5 DEF Sequential!GInit, Sequential!Rows, Rows

\* A step of the program is one of the sequential factorisation, or hidden.
LEMMA NextRefines ==
  ASSUME IInv, [Next]_vars
  PROVE  [Sequential!GNext]_(Sequential!gvars)
<1>1. CASE \E p \in Ranks : Step(p)
  BY <1>1, ElimRefines, BcastRefines DEF Step
<1>2. CASE UNCHANGED vars
  BY <1>2 DEF vars, Sequential!gvars, OwnersRows, OwnersStage, owner
<1> QED
  BY <1>1, <1>2 DEF Next, Terminated

\* The ranks together make the steps of the sequential factorisation, whatever
\* the order the MPI library lets them run in.
THEOREM Refinement == Spec => ImplementsGauss
<1>1. Init => Sequential!GInit
  BY InitRefines
<1>2. IInv /\ [Next]_vars => [Sequential!GNext]_(Sequential!gvars)
  BY NextRefines
<1> QED
  BY <1>1, <1>2, Invariance, PTL DEF Spec, ImplementsGauss, Sequential!Spec

-----------------------------------------------------------------------------
(* Sums. *)

\* Every set of natural numbers that is not empty has a least element.
LEMMA LeastNat ==
  ASSUME NEW T \in SUBSET Nat, T # {}
  PROVE  \E m \in T : \A k \in T : m <= k
<1> DEFINE Less == {ss \in Nat \X Nat : ss[1] < ss[2]}
<1>1. IsWellFoundedOn(Less, Nat)
  BY NatLessThanWellFounded DEF OpToRel
<1>2. PICK m \in T : \A k \in T : ~(<<k, m>> \in Less)
  BY <1>1, WFMin
<1>3. \A k \in T : ~(k < m)
  BY <1>2
<1> QED
  BY <1>3

\* Counting up to n: a set that has 0, and with each number the next, has them all.
LEMMA CountUp ==
  ASSUME NEW n \in Nat, NEW T \in SUBSET (0..n), 0 \in T,
         \A k \in 0..n : k < n /\ k \in T => k + 1 \in T
  PROVE  T = 0..n
<1> DEFINE R == (0..n) \ T
<1>1. R \in SUBSET Nat /\ \A k \in 0..n : k \notin R => k \in T
  OBVIOUS
<1>2. \A k \in R : k \in 0..n /\ k \notin T
  OBVIOUS
<1> HIDE DEF R
<1>3. R = {}
  <2> SUFFICES ASSUME R # {} PROVE FALSE
    OBVIOUS
  <2>1. PICK m \in R : \A k \in R : m <= k
    BY <1>1, LeastNat
  <2>2. m \in 0..n /\ m \notin T /\ m # 0
    BY <1>2, <2>1
  <2>3. m - 1 \in 0..n /\ m - 1 < n /\ (m - 1) + 1 = m /\ ~(m <= m - 1)
    BY <2>2
  <2>4. m - 1 \in T
    BY <1>1, <2>1, <2>3
  <2>5. (m - 1) + 1 \in T
    BY <2>3, <2>4
  <2> QED
    BY <2>2, <2>3, <2>5
<1> QED
  BY <1>1, <1>3

\* u[k] is the sum of the first k of n terms.
Sums(n, f, u) ==
  /\ u = [k \in 0..n |-> u[k]]
  /\ u[0] = 0
  /\ \A k \in 0..n : k < n => u[k + 1] = u[k] + f[k]

Summed(n, f) == \E u : Sums(n, f, u)

\* There are such sums.
LEMMA SumsExist ==
  ASSUME NEW n \in Nat, NEW f
  PROVE  \E u : Sums(n, f, u)
<1> DEFINE T == {k \in 0..n : Summed(k, f)}
<1>1. T \in SUBSET (0..n) /\ \A k \in 0..n : k \in T <=> Summed(k, f)
  OBVIOUS
<1> HIDE DEF T
<1>2. 0 \in T
  <2>1. Sums(0, f, [k \in 0..0 |-> 0])
    BY DEF Sums
  <2> QED
    BY <1>1, <2>1 DEF Summed
<1>3. ASSUME NEW k \in 0..n, k < n, k \in T PROVE k + 1 \in T
  <2>1. PICK u : Sums(k, f, u)
    BY <1>1, <1>3 DEF Summed
  <2> DEFINE w == [x \in 0..(k + 1) |-> IF x <= k THEN u[x] ELSE u[k] + f[k]]
  <2>2. /\ w = [x \in 0..(k + 1) |-> w[x]]
        /\ \A x \in 0..k : w[x] = u[x]
        /\ w[k + 1] = u[k] + f[k]
    OBVIOUS
  <2> HIDE DEF w
  <2>3. w[0] = 0
    BY <2>1, <2>2 DEF Sums
  <2>4. ASSUME NEW x \in 0..(k + 1), x < k + 1 PROVE w[x + 1] = w[x] + f[x]
    <3>1. x \in 0..k
      BY <2>4
    <3>2. CASE x = k
      BY <2>2, <3>1, <3>2
    <3>3. CASE x # k
      <4>1. x < k /\ x + 1 \in 0..k
        BY <3>1, <3>3
      <4> QED
        BY <2>1, <2>2, <3>1, <4>1 DEF Sums
    <3> QED
      BY <3>2, <3>3
  <2>5. Sums(k + 1, f, w)
    BY <2>2, <2>3, <2>4 DEF Sums
  <2>6. k + 1 \in 0..n
    BY <1>3
  <2> QED
    BY <1>1, <2>5, <2>6 DEF Summed
<1>4. T = 0..n
  BY <1>1, <1>2, <1>3, CountUp
<1> QED
  BY <1>1, <1>4 DEF Summed

\* Total is the last of them.
LEMMA TotalIs ==
  ASSUME NEW n \in Nat, NEW f
  PROVE  \E u : Sums(n, f, u) /\ Total(f, n) = u[n]
<1> DEFINE Law(h) == h = [k \in 0..n |-> IF k = 0 THEN 0 ELSE h[k - 1] + f[k - 1]]
<1>1. PICK g : Sums(n, f, g)
  BY SumsExist
<1>2. Law(g)
  <2>1. ASSUME NEW k \in 0..n PROVE g[k] = IF k = 0 THEN 0 ELSE g[k - 1] + f[k - 1]
    <3>1. CASE k = 0
      BY <1>1, <3>1 DEF Sums
    <3>2. CASE k # 0
      <4>1. k - 1 \in 0..n /\ k - 1 < n /\ (k - 1) + 1 = k
        BY <3>2
      <4>2. g[(k - 1) + 1] = g[k - 1] + f[k - 1]
        BY <1>1, <4>1 DEF Sums
      <4> QED
        BY <3>2, <4>1, <4>2
    <3> QED
      BY <3>1, <3>2
  <2>2. g = [k \in 0..n |-> g[k]]
    BY <1>1 DEF Sums
  <2> QED
    BY <2>1, <2>2
<1>3. Total(f, n) = (CHOOSE h : Law(h))[n]
  BY DEF Total
<1>4. PICK h : h = (CHOOSE x : Law(x)) /\ Law(h)
  <2> HIDE DEF Law
  <2> QED
    BY <1>2
<1>5. Sums(n, f, h)
  <2>1. h = [k \in 0..n |-> h[k]] /\ h[0] = 0
    BY <1>4
  <2>2. ASSUME NEW k \in 0..n, k < n PROVE h[k + 1] = h[k] + f[k]
    <3>1. k + 1 \in 0..n /\ k + 1 # 0 /\ (k + 1) - 1 = k
      BY <2>2
    <3>2. h[k + 1] = h[(k + 1) - 1] + f[(k + 1) - 1]
      BY <1>4, <3>1
    <3> QED
      BY <3>1, <3>2
  <2> QED
    BY <2>1, <2>2 DEF Sums
<1> QED
  BY <1>3, <1>4, <1>5

\* The first k sums do not depend on how many follow.
LEMMA SumsSame ==
  ASSUME NEW n \in Nat, NEW k \in 0..n, NEW f, NEW u, NEW w, Sums(n, f, u), Sums(k, f, w)
  PROVE  u[k] = w[k]
<1> DEFINE T == {x \in 0..k : u[x] = w[x]}
<1>1. T \in SUBSET (0..k) /\ \A x \in 0..k : x \in T <=> u[x] = w[x]
  OBVIOUS
<1> HIDE DEF T
<1>2. 0 \in T
  <2>1. u[0] = 0 /\ w[0] = 0 /\ 0 \in 0..k
    BY DEF Sums
  <2> QED
    BY <1>1, <2>1
<1>3. ASSUME NEW x \in 0..k, x < k, x \in T PROVE x + 1 \in T
  <2>1. x \in 0..n /\ x < n /\ x + 1 \in 0..k
    BY <1>3
  <2>2. u[x + 1] = u[x] + f[x] /\ w[x + 1] = w[x] + f[x]
    BY <1>3, <2>1 DEF Sums
  <2> QED
    BY <1>1, <1>3, <2>1, <2>2
<1>4. k \in Nat /\ T = 0..k
  BY <1>1, <1>2, <1>3, CountUp
<1> QED
  BY <1>1, <1>4

\* The sum of no terms, and of one more term.
LEMMA TotalLaws ==
  ASSUME NEW f
  PROVE  /\ Total(f, 0) = 0
         /\ \A n \in Nat : Total(f, n + 1) = Total(f, n) + f[n]
<1>1. Total(f, 0) = 0
  BY TotalIs DEF Sums
<1>2. ASSUME NEW n \in Nat PROVE Total(f, n + 1) = Total(f, n) + f[n]
  <2>1. PICK u : Sums(n + 1, f, u) /\ Total(f, n + 1) = u[n + 1]
    BY TotalIs
  <2>2. PICK w : Sums(n, f, w) /\ Total(f, n) = w[n]
    BY TotalIs
  <2>3. PICK l \in Nat : l = n + 1
    OBVIOUS
  <2>4. u[n] = w[n]
    <3>1. Sums(l, f, u) /\ n \in 0..l
      BY <2>1, <2>3
    <3> QED
      BY <2>2, <3>1, SumsSame
  <2>5. u[n + 1] = u[n] + f[n]
    <3>1. n \in 0..l /\ n < l /\ Sums(l, f, u)
      BY <2>1, <2>3
    <3> QED
      BY <3>1 DEF Sums
  <2> QED
    BY <2>1, <2>2, <2>4, <2>5
<1> QED
  BY <1>1, <1>2

\* Sums of the same terms are the same.
LEMMA TotalSame ==
  ASSUME NEW n \in Nat, NEW f, NEW g, \A x \in 0..(n - 1) : f[x] = g[x]
  PROVE  Total(f, n) = Total(g, n)
<1> DEFINE T == {x \in 0..n : Total(f, x) = Total(g, x)}
<1>1. T \in SUBSET (0..n) /\ \A x \in 0..n : x \in T <=> Total(f, x) = Total(g, x)
  OBVIOUS
<1> HIDE DEF T
<1>2. 0 \in T
  BY <1>1, TotalLaws
<1>3. ASSUME NEW x \in 0..n, x < n, x \in T PROVE x + 1 \in T
  <2>1. x \in Nat /\ x \in 0..(n - 1) /\ x + 1 \in 0..n
    BY <1>3
  <2> QED
    BY <1>1, <1>3, <2>1, TotalLaws
<1>4. T = 0..n
  BY <1>1, <1>2, <1>3, CountUp
<1> QED
  BY <1>1, <1>4

\* A sum of integers is one.
LEMMA TotalInt ==
  ASSUME NEW n \in Nat, NEW f, \A x \in 0..(n - 1) : f[x] \in Int
  PROVE  Total(f, n) \in Int
<1> DEFINE T == {x \in 0..n : Total(f, x) \in Int}
<1>1. T \in SUBSET (0..n) /\ \A x \in 0..n : x \in T <=> Total(f, x) \in Int
  OBVIOUS
<1> HIDE DEF T
<1>2. 0 \in T
  BY <1>1, TotalLaws
<1>3. ASSUME NEW x \in 0..n, x < n, x \in T PROVE x + 1 \in T
  <2>1. x \in Nat /\ x \in 0..(n - 1) /\ x + 1 \in 0..n
    BY <1>3
  <2> QED
    BY <1>1, <1>3, <2>1, TotalLaws
<1>4. T = 0..n
  BY <1>1, <1>2, <1>3, CountUp
<1> QED
  BY <1>1, <1>4

\* Terms that are zero add nothing.
LEMMA TotalTail ==
  ASSUME NEW n \in Nat, NEW m \in 0..n, NEW f, \A x \in 0..(n - 1) : f[x] \in Int,
         \A x \in m..(n - 1) : f[x] = 0
  PROVE  Total(f, n) = Total(f, m)
<1> DEFINE T == {x \in 0..n : x > m => Total(f, x) = Total(f, m)}
<1>1. T \in SUBSET (0..n) /\ \A x \in 0..n : x \in T <=> (x > m => Total(f, x) = Total(f, m))
  OBVIOUS
<1> HIDE DEF T
<1>2. 0 \in T
  BY <1>1
<1>3. ASSUME NEW x \in 0..n, x < n, x \in T PROVE x + 1 \in T
  <2>1. x \in Nat /\ x \in 0..(n - 1) /\ x + 1 \in 0..n /\ m \in Nat
    BY <1>3
  <2>2. Total(f, x + 1) = Total(f, x) + f[x]
    BY <2>1, TotalLaws
  <2>3. Total(f, x) \in Int
    <3>1. \A y \in 0..(x - 1) : f[y] \in Int
      BY <2>1
    <3> QED
      BY <2>1, <3>1, TotalInt
  <2>4. CASE x >= m
    <3>1. f[x] = 0 /\ Total(f, x) = Total(f, m)
      BY <1>1, <1>3, <2>1, <2>4
    <3> QED
      BY <1>1, <2>1, <2>2, <2>3, <3>1
  <2>5. CASE x < m
    <3>1. ~(x + 1 > m)
      BY <2>1, <2>5
    <3> QED
      BY <1>1, <2>1, <3>1
  <2> QED
    BY <2>1, <2>4, <2>5
<1>4. T = 0..n
  BY <1>1, <1>2, <1>3, CountUp
<1>5. n \in T /\ (n > m \/ n = m)
  BY <1>4
<1> QED
  BY <1>1, <1>5

-----------------------------------------------------------------------------
(* The factors of the matrix. *)

\* Multiples of Q do not count.
LEMMA ModShift ==
  ASSUME NEW x \in Int, NEW t \in Int
  PROVE  (x + Q * t) % Q = x % Q
<1>1. Q \in Nat \ {0}
  BY EliminationAssumption
<1>2. PICK e, r : e = x \div Q /\ r = x % Q
  OBVIOUS
<1>3. e \in Int /\ r \in 0..(Q - 1) /\ x = Q * e + r
  BY <1>1, <1>2, Z3
<1>4. x + Q * t = Q * (e + t) + r /\ e + t \in Int
  BY <1>1, <1>3, Z3
<1>5. PICK g \in Int : g = e + t
  BY <1>4
<1>6. (Q * g + r) % Q = r
  BY <1>1, <1>3, <1>5, Z3
<1> QED
  BY <1>2, <1>4, <1>5, <1>6

\* A number and its remainder differ by a multiple of Q.
LEMMA ModIs ==
  ASSUME NEW x \in Int
  PROVE  \E t \in Int : x % Q = x + Q * t
<1>1. Q \in Nat \ {0}
  BY EliminationAssumption
<1>2. PICK e \in Int : e = x \div Q
  BY <1>1
<1>3. x % Q = x + Q * (0 - e)
  BY <1>1, <1>2, Z3
<1> QED
  BY <1>3

\* What an elimination with a pivot that is not zero leaves of the sums the row
\* is in.
LEMMA ElimSums ==
  ASSUME NEW origin \in Row, NEW master \in Row, NEW d \in Cols, master[d] # 0,
         NEW new, new = forw_elim(origin, master, d), NEW x \in Int
  PROVE  /\ \A c \in Cols : c < d => new[c] = origin[c]
         /\ (x + new[d] * master[d]) % Q = (x + origin[d]) % Q
         /\ \A c \in Cols : c > d =>
              (x + new[d] * master[c] + new[c]) % Q = (x + origin[c]) % Q
         /\ new \in Row
<1>1. \A c \in Cols : origin[c] \in Value /\ master[c] \in Value
  BY DEF Row
<1>2. Value \subseteq Int /\ Cols \subseteq Int /\ Q \in Nat \ {0}
  BY EliminationAssumption DEF Value, Cols
<1>3. new \in Row /\ \A c \in Cols : c < d => new[c] = origin[c]
  BY ForwElim
<1>4. CASE origin[d] = 0
  <2>1. new = origin
    BY <1>4 DEF forw_elim
  <2>2. \A c \in Cols : new[d] * master[c] = 0
    <3>1. new[d] = 0 /\ \A c \in Cols : master[c] \in Int
      BY <1>1, <1>2, <1>4, <2>1
    <3> QED
      BY <3>1
  <2> QED
    BY <1>1, <1>2, <1>3, <1>4, <2>1, <2>2
<1>5. CASE origin[d] # 0
  <2>1. PICK k : k = Quotient(origin[d], master[d])
    OBVIOUS
  <2>2. k \in Value /\ Times(k, master[d]) = origin[d]
    <3>1. \E v \in Value : master[d] # 0 => Times(v, master[d]) = origin[d]
      BY <1>1, FieldAssumption
    <3> QED
      BY <2>1, <3>1 DEF Quotient
  <2>3. new = [c \in Cols |-> IF c < d THEN origin[c]
                              ELSE IF c = d THEN k
                              ELSE Minus(origin[c], Times(k, master[c]))]
    BY <1>5, <2>1 DEF forw_elim
  <2>4. new[d] = k /\ \A c \in Cols : c > d => new[c] = Minus(origin[c], Times(k, master[c]))
    BY <1>2, <2>3
  <2>5. (x + k * master[d]) % Q = (x + origin[d]) % Q
    <3>1. PICK y : y = k * master[d]
      OBVIOUS
    <3>2. y \in Int /\ y % Q = origin[d]
      BY <1>1, <1>2, <2>2, <3>1 DEF Times
    <3>3. PICK t \in Int : y % Q = y + Q * t
      BY <3>2, ModIs
    <3>4. x + origin[d] = (x + y) + Q * t /\ x + y \in Int
      BY <1>2, <3>2, <3>3
    <3>5. ((x + y) + Q * t) % Q = (x + y) % Q
      BY <3>4, ModShift
    <3> QED
      BY <3>1, <3>4, <3>5
  <2>6. ASSUME NEW c \in Cols, c > d
        PROVE  (x + k * master[c] + new[c]) % Q = (x + origin[c]) % Q
    <3>1. PICK y : y = k * master[c]
      OBVIOUS
    <3>2. y \in Int /\ origin[c] \in Int
      <4>1. k \in Int /\ master[c] \in Int /\ origin[c] \in Int
        BY <1>1, <1>2, <2>2
      <4> QED
        BY <3>1, <4>1
    <3>3. PICK t \in Int : y % Q = y + Q * t
      BY <3>2, ModIs
    <3>4. PICK z \in Int : z = origin[c] - (y % Q)
      BY <3>2, <3>3, <1>2
    <3>5. PICK s \in Int : z % Q = z + Q * s
      BY ModIs
    <3>6. new[c] = z % Q
      BY <2>4, <2>6, <3>1, <3>4 DEF Minus, Times
    <3>7. x + y + new[c] = (x + origin[c]) + Q * (s - t)
      BY <1>2, <3>2, <3>3, <3>4, <3>5, <3>6, Z3
    <3>8. PICK g \in Int : g = s - t
      OBVIOUS
    <3>9. ((x + origin[c]) + Q * g) % Q = (x + origin[c]) % Q
      BY <3>2, ModShift
    <3> QED
      BY <3>1, <3>7, <3>8, <3>9
  <2> QED
    BY <1>3, <2>4, <2>5, <2>6
<1> QED
  BY <1>4, <1>5

\* The terms of an entry of the product, and what the first s of them together
\* with what is left of the row amount to.
Terms(M, r, c) == [k \in Cols |-> LPart(M, r, k) * UPart(M, k, c)]
Reduced(M, r, c, s) == Total(Terms(M, r, c), s) + (IF c >= s THEN M[r][c] ELSE 0)

\* The pivots row r has been eliminated with are not zero.
PivotsOf(M, n) == \A d \in 0..(n - 1) : M[d][d] # 0

\* A row at stage s[r] and the rows it was eliminated with make up row r of X.
Factored(M, s, X) ==
  \A r \in Rows :
    /\ s[r] \in 0..r
    /\ \A d \in 0..(s[r] - 1) : s[d] = d
    /\ PivotsOf(M, s[r]) => \A c \in Cols : Reduced(M, r, c, s[r]) % Q = X[r][c]

\* Terms are integers; those before the diagonal of a row are products.
LEMMA TermsAre ==
  ASSUME NEW M \in Matrix, NEW r \in Rows, NEW c \in Cols
  PROVE  /\ \A k \in Cols : Terms(M, r, c)[k] \in Int
         /\ \A k \in Cols : k < r /\ c >= k => Terms(M, r, c)[k] = M[r][k] * M[k][c]
         /\ \A k \in Cols : c < k => Terms(M, r, c)[k] = 0
         /\ \A k \in Cols : k > r => Terms(M, r, c)[k] = 0
         /\ Terms(M, r, c)[r] = IF c >= r THEN M[r][c] ELSE 0
<1>1. \A x \in Rows, y \in Cols : M[x][y] \in Int
  BY EliminationAssumption DEF Matrix, Row, Value
<1>2. Rows = Cols /\ Cols \subseteq Int
  BY EliminationAssumption DEF Rows, Cols
<1>3. \A k \in Cols : LPart(M, r, k) \in Int /\ UPart(M, k, c) \in Int
  BY <1>1, <1>2 DEF LPart, UPart
<1>4. \A k \in Cols : Terms(M, r, c)[k] = LPart(M, r, k) * UPart(M, k, c)
  BY DEF Terms
<1>5. \A k \in Cols : c < k => UPart(M, k, c) = 0
  BY <1>2 DEF UPart
<1>6. \A k \in Cols : k > r => LPart(M, r, k) = 0
  BY <1>2 DEF LPart
<1>7. \A k \in Cols : k < r /\ c >= k => LPart(M, r, k) = M[r][k] /\ UPart(M, k, c) = M[k][c]
  BY <1>2 DEF LPart, UPart
<1>8. LPart(M, r, r) = 1 /\ UPart(M, r, c) = IF c >= r THEN M[r][c] ELSE 0
  BY <1>2 DEF LPart, UPart
<1>9. \A k \in Cols : Terms(M, r, c)[k] \in Int
  BY <1>3, <1>4
<1>10. \A k \in Cols : c < k => Terms(M, r, c)[k] = 0
  BY <1>3, <1>4, <1>5
<1>11. \A k \in Cols : k > r => Terms(M, r, c)[k] = 0
  BY <1>3, <1>4, <1>6
<1>12. Terms(M, r, c)[r] = UPart(M, r, c)
  BY <1>2, <1>3, <1>4, <1>8
<1> QED
  BY <1>4, <1>7, <1>8, <1>9, <1>10, <1>11, <1>12

\* A term before the diagonal, on its own.
LEMMA TermBefore ==
  ASSUME NEW M \in Matrix, NEW r \in Rows, NEW c \in Cols, NEW k \in Cols, k < r, c >= k
  PROVE  Terms(M, r, c)[k] = M[r][k] * M[k][c]
BY TermsAre

\* One elimination with a row that is final keeps the rows factored.
LEMMA OneElimination ==
  ASSUME NEW M \in Matrix, NEW s \in [Rows -> Nat], NEW X, Factored(M, s, X),
         NEW z \in Rows, NEW d \in Nat, d = s[z], d < z, s[d] = d,
         NEW M2, M2 = [M EXCEPT ![z] = forw_elim(M[z], M[d], d)],
         NEW s2, s2 = [s EXCEPT ![z] = d + 1]
  PROVE  Factored(M2, s2, X)
<1>1. Rows = 0..(N - 1) /\ Cols = Rows /\ N \in Nat \ {0} /\ z \in Nat /\ d \in Rows /\ d \in Cols
  BY EliminationAssumption DEF Rows, Cols
<1>2. /\ M \in [Rows -> Row] /\ M2[z] = forw_elim(M[z], M[d], d) /\ s2[z] = d + 1
      /\ \A r \in Rows \ {z} : M2[r] = M[r] /\ s2[r] = s[r]
  BY DEF Matrix
<1>3. /\ \A c \in Cols : c < d => M2[z][c] = M[z][c]
      /\ M2[z] \in Row
  <2>1. M[z] \in Row /\ M[d] \in Row /\ d \in Cols
    BY <1>1, <1>2
  <2>2. /\ forw_elim(M[z], M[d], d) \in Row
        /\ \A c \in Cols : c < d => forw_elim(M[z], M[d], d)[c] = M[z][c]
    BY <2>1, ForwElim
  <2> QED
    BY <1>2, <2>2
<1>4. M2 \in Matrix
  BY <1>2, <1>3 DEF Matrix
<1>5. ASSUME NEW r \in Rows, NEW x \in 0..(s[r] - 1)
      PROVE  s[x] = x /\ x \in Rows /\ x < r /\ x # z /\ M2[x] = M[x] /\ s2[x] = x
  <2>1. s[r] \in 0..r /\ s[x] = x
    BY DEF Factored
  <2>2. x \in Rows /\ x < r /\ r \in Nat
    BY <1>1, <2>1
  <2>3. x # z
    BY <1>1, <2>1
  <2> QED
    BY <1>2, <2>1, <2>2, <2>3
<1>6. ASSUME NEW r \in Rows, NEW c \in Cols, NEW n \in Nat, n = s[r]
      PROVE  Total(Terms(M2, r, c), n) = Total(Terms(M, r, c), n)
  <2>1. \A x \in 0..(n - 1) : Terms(M2, r, c)[x] = Terms(M, r, c)[x]
    <3> SUFFICES ASSUME NEW x \in 0..(n - 1) PROVE Terms(M2, r, c)[x] = Terms(M, r, c)[x]
      OBVIOUS
    <3>1. x \in Rows /\ x \in Cols /\ x < r /\ M2[x] = M[x]
      BY <1>1, <1>5, <1>6
    <3>2. M2[r][x] = M[r][x]
      <4>1. CASE r = z
        BY <1>3, <1>6, <3>1, <4>1
      <4>2. CASE r # z
        BY <1>2, <4>2
      <4> QED
        BY <4>1, <4>2
    <3>3. c \in Int /\ x \in Int
      BY <1>1
    <3>4. CASE c >= x
      <4>3. x < r /\ x \in Cols /\ c >= x => Terms(M2, r, c)[x] = M2[r][x] * M2[x][c]
        BY ONLY <1>4, r \in Rows, c \in Cols, TermBefore, Zenon
      <4>1. Terms(M2, r, c)[x] = M2[r][x] * M2[x][c]
        BY <3>1, <3>4, <4>3
      <4>2. Terms(M, r, c)[x] = M[r][x] * M[x][c]
        BY <3>1, <3>4, TermsAre
      <4> QED
        BY <3>1, <3>2, <4>1, <4>2
    <3>5. CASE c < x
      BY <1>4, <3>1, <3>5, TermsAre
    <3> QED
      BY <3>3, <3>4, <3>5
  <2> QED
    BY <2>1, TotalSame
<1>7. ASSUME NEW r \in Rows, r # z
      PROVE  /\ s2[r] \in 0..r /\ \A x \in 0..(s2[r] - 1) : s2[x] = x
             /\ PivotsOf(M2, s2[r]) => \A c \in Cols : Reduced(M2, r, c, s2[r]) % Q = X[r][c]
  <2>1. s2[r] = s[r] /\ M2[r] = M[r] /\ s[r] \in 0..r /\ s[r] \in Nat
    BY <1>2, <1>7 DEF Factored
  <2>2. \A x \in 0..(s[r] - 1) : s2[x] = x /\ M2[x] = M[x]
    BY <1>5
  <2>3. PivotsOf(M2, s2[r]) => PivotsOf(M, s[r])
    BY <2>1, <2>2 DEF PivotsOf
  <2>4. PICK n \in Nat : n = s[r]
    BY <2>1
  <2>5. ASSUME NEW c \in Cols PROVE Reduced(M2, r, c, n) = Reduced(M, r, c, n)
    <3>1. Total(Terms(M2, r, c), n) = Total(Terms(M, r, c), n)
      BY <1>6, <2>4
    <3> QED
      BY <2>1, <3>1 DEF Reduced
  <2>6. PivotsOf(M, n) => \A c \in Cols : Reduced(M, r, c, n) % Q = X[r][c]
    BY <2>4 DEF Factored
  <2>7. s2[r] = n /\ (PivotsOf(M2, n) => PivotsOf(M, n))
    BY <2>1, <2>3, <2>4
  <2>8. PivotsOf(M2, n) => \A c \in Cols : Reduced(M2, r, c, n) % Q = X[r][c]
    BY <2>5, <2>6, <2>7
  <2> QED
    BY <2>1, <2>2, <2>7, <2>8
<1>8. /\ s2[z] \in 0..z /\ \A x \in 0..(s2[z] - 1) : s2[x] = x /\ M2[x] = M[x]
  <2>1. s2[z] \in 0..z
    BY <1>1, <1>2
  <2>2. ASSUME NEW x \in 0..(s2[z] - 1) PROVE s2[x] = x /\ M2[x] = M[x]
    <3>1. x \in 0..d
      BY <1>2
    <3>2. CASE x = d
      BY <1>1, <1>2, <3>2
    <3>3. CASE x # d
      <4>1. x \in 0..(s[z] - 1)
        BY <3>1, <3>3
      <4> QED
        BY <4>1, <1>5
    <3> QED
      BY <3>2, <3>3
  <2> QED
    BY <2>1, <2>2
<1>9. ASSUME PivotsOf(M2, s2[z]), NEW c \in Cols
      PROVE  Reduced(M2, z, c, s2[z]) % Q = X[z][c]
  <2>1. PivotsOf(M, d + 1)
    BY <1>2, <1>8, <1>9 DEF PivotsOf
  <2>2. PivotsOf(M, s[z]) /\ M[d][d] # 0
    BY <2>1 DEF PivotsOf
  <2>3. Reduced(M, z, c, d) % Q = X[z][c]
    BY <2>2 DEF Factored
  <2>4. PICK x : x = Total(Terms(M, z, c), d)
    OBVIOUS
  <2>5. x \in Int
    <3>1. \A y \in 0..(d - 1) : Terms(M, z, c)[y] \in Int
      BY <1>1, TermsAre
    <3> QED
      BY <2>4, <3>1, TotalInt
  <2>6. Total(Terms(M2, z, c), d + 1) = x + Terms(M2, z, c)[d]
    <3>1. Total(Terms(M2, z, c), d) = x
      BY <1>6, <2>4
    <3>2. Total(Terms(M2, z, c), d + 1) = Total(Terms(M2, z, c), d) + Terms(M2, z, c)[d]
      BY TotalLaws, Zenon
    <3> QED
      BY ONLY <3>1, <3>2
  <2>7. PICK t : t = Terms(M2, z, c)[d]
    OBVIOUS
  <2>8. c \in Int /\ d \in Int
    BY <1>1
  <2>9. c >= d => t = M2[z][d] * M[d][c]
    <3>1. M2[d] = M[d]
      BY <1>1, <1>2
    <3>2. d < z /\ d \in Cols /\ c >= d => Terms(M2, z, c)[d] = M2[z][d] * M2[d][c]
      BY ONLY <1>4, z \in Rows, c \in Cols, TermBefore, Zenon
    <3> QED
      BY <1>1, <2>7, <3>1, <3>2
  <2>10. c < d => t = 0
    BY <1>1, <1>4, <2>7, TermsAre
  <2>11. /\ M[z] \in Row /\ M[d] \in Row
         /\ (x + M2[z][d] * M[d][d]) % Q = (x + M[z][d]) % Q
         /\ c > d => (x + M2[z][d] * M[d][c] + M2[z][c]) % Q = (x + M[z][c]) % Q
    <3>1. M[z] \in Row /\ M[d] \in Row
      BY <1>1, <1>2
    <3>2. M2[z] = forw_elim(M[z], M[d], d) /\ M[d][d] # 0 /\ d \in Cols
      BY <1>1, <1>2, <2>2
    <3> QED
      BY ONLY <2>5, <3>1, <3>2, c \in Cols, ElimSums
  <2>12. /\ Reduced(M2, z, c, d + 1) = x + t + (IF c >= d + 1 THEN M2[z][c] ELSE 0)
         /\ Reduced(M, z, c, d) = x + (IF c >= d THEN M[z][c] ELSE 0)
    BY <2>4, <2>6, <2>7 DEF Reduced
  <2>13. \A e \in Cols : M2[z][e] \in Int /\ M[d][e] \in Int /\ M[z][e] \in Int
    BY <1>3, <2>11, EliminationAssumption DEF Row, Value
  <2>14. t \in Int
    BY <1>1, <1>4, <2>7, TermsAre
  <2>15. Reduced(M2, z, c, d + 1) % Q = Reduced(M, z, c, d) % Q
    <3>1. CASE c < d
      BY <2>5, <2>8, <2>10, <2>12, <3>1
    <3>2. CASE c = d
      <4>1. x + t + 0 = x + t
        BY <2>5, <2>14
      <4> QED
        BY <2>8, <2>9, <2>11, <2>12, <3>2, <4>1
    <3>3. CASE c > d
      <4>1. c >= d + 1 /\ c >= d
        BY <2>8, <3>3
      <4> QED
        BY <2>9, <2>11, <2>12, <3>3, <4>1
    <3> QED
      BY <2>8, <3>1, <3>2, <3>3
  <2> QED
    BY <1>2, <2>3, <2>15
<1> QED
  BY <1>7, <1>8, <1>9 DEF Factored

\* The matrix at the start is factored as far as its rows have come.
LEMMA FactoredInit == Init => Factored(OwnersRows, OwnersStage, printed)
<1> SUFFICES ASSUME Init PROVE Factored(OwnersRows, OwnersStage, printed)
  OBVIOUS
<1>1. PICK M \in Matrices : A = [p \in Ranks |-> M]
  BY DEF Init
<1>2. M \in Matrix /\ printed = M
  BY <1>1, LuAssumption, Basics DEF Init, Ranks
<1>3. OwnersRows = M
  BY <1>1, <1>2, Basics DEF OwnersRows, Matrix
<1>4. OwnersStage = [r \in Rows |-> 0]
  BY InitRefines DEF Sequential!GInit, Sequential!Rows, Rows
<1>5. ASSUME NEW r \in Rows, NEW c \in Cols PROVE Reduced(M, r, c, 0) % Q = M[r][c]
  <2>1. Total(Terms(M, r, c), 0) = 0
    BY TotalLaws
  <2>2. M[r][c] \in 0..(Q - 1) /\ c >= 0
    <3>1. M[r][c] \in 0..(Q - 1)
      BY ONLY <1>2, r \in Rows, c \in Cols DEF Matrix, Row, Value
    <3>2. c >= 0
      BY Basics DEF Rows
    <3> QED
      BY <3>1, <3>2
  <2>3. Reduced(M, r, c, 0) = M[r][c]
    BY <2>1, <2>2 DEF Reduced
  <2>4. PICK v \in 0..(Q - 1) : v = M[r][c]
    BY <2>2
  <2>5. v % Q = v
    BY EliminationAssumption
  <2> QED
    BY <2>3, <2>4, <2>5
<1>6. ASSUME NEW r \in Rows PROVE OwnersStage[r] = 0 /\ 0 \in 0..r
  BY <1>4, Basics DEF Rows
<1>7. ASSUME NEW r \in Rows, NEW x \in 0..(OwnersStage[r] - 1) PROVE OwnersStage[x] = x
  BY <1>6
<1> QED
  BY <1>2, <1>3, <1>5, <1>6, <1>7 DEF Factored

\* What the rows at their owners are: the matrix printed at the start, factored
\* as far as each row has come.
FactoredAtOwners == Factored(OwnersRows, OwnersStage, printed)

\* The rows at their owners are a matrix, their stages are numbers.
LEMMA OwnersType == TypeOK => OwnersRows \in Matrix /\ OwnersStage \in [Rows -> Nat]
<1> SUFFICES ASSUME TypeOK PROVE OwnersRows \in Matrix /\ OwnersStage \in [Rows -> Nat]
  OBVIOUS
<1>1. OwnersRows \in Matrix
  <2>1. \A r \in Rows : A[owner(r)][r] \in Row
    BY Basics DEF TypeOK, Matrix
  <2> QED
    BY <2>1 DEF Matrix, OwnersRows
<1>2. ASSUME NEW r \in Rows PROVE OwnersStage[r] \in Nat
  <2>1. PICK o \in Ranks : o = owner(r)
    BY Basics
  <2>2. r \in Nat /\ diag_ref[o] \in Nat
    BY Basics DEF TypeOK, Rows
  <2> QED
    BY <2>1, <2>2 DEF OwnersStage, Least
<1>3. OwnersStage = [r \in Rows |-> OwnersStage[r]]
  BY DEF OwnersStage
<1> QED
  BY <1>1, <1>2, <1>3

\* Every step keeps them factored.
LEMMA FactoredStep ==
  ASSUME IInv, FactoredAtOwners, [Next]_vars
  PROVE  FactoredAtOwners'
<1>1. printed' = printed
  BY DEF Next, Step, Elim, Send, Recv, Terminated, vars
<1>2. PICK M, s, X : M = OwnersRows /\ s = OwnersStage /\ X = printed
  OBVIOUS
<1>3. PICK M2, s2 : M2 = OwnersRows' /\ s2 = OwnersStage'
  OBVIOUS
<1>4. M \in Matrix /\ s \in [Rows -> Nat] /\ Factored(M, s, X)
  BY <1>2, OwnersType DEF IInv, FactoredAtOwners
<1>5. [Sequential!GNext]_(Sequential!gvars)
  BY NextRefines
<1>6. Factored(M2, s2, X)
  <2>1. CASE UNCHANGED Sequential!gvars
    BY <1>2, <1>3, <1>4, <2>1 DEF Sequential!gvars
  <2>2. CASE Sequential!GNext
    <3>1. PICK z \in Rows : Sequential!Eliminate(z)
      BY <2>2 DEF Sequential!GNext, Sequential!Rows, Rows
    <3>2. PICK d : d = s[z]
      OBVIOUS
    <3>3. /\ d \in Nat /\ d < z /\ s[d] = d
          /\ M2 = [M EXCEPT ![z] = Sequential!forw_elim(M[z], M[d], d)]
          /\ s2 = [s EXCEPT ![z] = s[z] + 1]
      BY <1>2, <1>3, <1>4, <3>1, <3>2 DEF Sequential!Eliminate, Sequential!Final
    <3>4. M2 = [M EXCEPT ![z] = forw_elim(M[z], M[d], d)]
      BY <3>3, SameArithmetic
    <3>5. s2 = [s EXCEPT ![z] = d + 1]
      BY <3>2, <3>3
    <3> QED
      <4>1. d \in Nat /\ d = s[z] /\ d < z /\ s[d] = d
        BY <3>2, <3>3
      <4> QED
        BY <1>4, <3>4, <3>5, <4>1, OneElimination, Zenon
  <2> QED
    BY <1>5, <2>1, <2>2
<1> QED
  BY <1>1, <1>2, <1>3, <1>6 DEF FactoredAtOwners

\* A matrix all of whose rows are final is the factorisation.
LEMMA AllFinal ==
  ASSUME NEW M \in Matrix, NEW s, NEW X \in Matrix, Factored(M, s, X),
         \A r \in Rows : s[r] = r, \A d \in Steps : M[d][d] # 0
  PROVE  Product(M) = X
<1>1. ASSUME NEW r \in Rows, NEW c \in Cols
      PROVE  Total(Terms(M, r, c), N) % Q = X[r][c]
  <2>1. /\ r \in Nat /\ r + 1 \in 0..N /\ N \in Nat /\ r \in Cols
        /\ 0..(N - 1) = Cols /\ 0..(r - 1) \subseteq Steps
        /\ (r + 1)..(N - 1) \subseteq Cols /\ \A x \in (r + 1)..(N - 1) : x > r
    BY Basics DEF Rows, Cols, Steps
  <2>2. PICK f : f = Terms(M, r, c)
    OBVIOUS
  <2>3. /\ \A x \in 0..(N - 1) : f[x] \in Int
        /\ \A x \in (r + 1)..(N - 1) : f[x] = 0
        /\ f[r] = IF c >= r THEN M[r][c] ELSE 0
    <3>1. /\ \A k \in Cols : Terms(M, r, c)[k] \in Int
          /\ \A k \in Cols : k > r => Terms(M, r, c)[k] = 0
          /\ Terms(M, r, c)[r] = IF c >= r THEN M[r][c] ELSE 0
      BY TermsAre
    <3> QED
      BY <2>1, <2>2, <3>1
  <2>4. Total(f, N) = Total(f, r + 1)
    BY <2>1, <2>3, TotalTail
  <2>5. Total(f, r + 1) = Total(f, r) + f[r]
    BY <2>1, TotalLaws
  <2>6. Reduced(M, r, c, r) = Total(f, N)
    BY <2>2, <2>3, <2>4, <2>5 DEF Reduced
  <2>7. PivotsOf(M, r)
    BY <2>1 DEF PivotsOf
  <2>8. Reduced(M, r, c, r) % Q = X[r][c]
    BY <2>7 DEF Factored
  <2> QED
    BY <2>2, <2>6, <2>8
<1>2. Product(M) = [r \in Rows |-> [c \in Cols |-> Total(Terms(M, r, c), N) % Q]]
  BY DEF Product, Terms
<1>3. X = [r \in Rows |-> [c \in Cols |-> X[r][c]]]
  BY DEF Matrix, Row
<1> QED
  BY <1>1, <1>2, <1>3

\* The pivots of a factorisation that has ended are not zero.  There is no
\* pivoting in the program: with a zero pivot it divides by zero.
NonzeroPivots == \A p \in Ranks : ~Running(p) => \A d \in Steps : A[p][d][d] # 0

\* At the end every rank holds the final row of every owner.
LEMMA EndIsProduct ==
  ASSUME IInv, FactoredAtOwners, NonzeroPivots
  PROVE  FactorsOfPrinted
<1> SUFFICES ASSUME NEW p \in Ranks, ~Running(p) PROVE Product(A[p]) = printed
  BY DEF FactorsOfPrinted
<1>1. diag_ref[p] = N - 1 /\ A[p] \in Matrix /\ printed \in Matrix
  BY Basics DEF IInv, TypeOK, Running
<1>2. \A r \in Rows : r \in 0..diag_ref[p] /\ r <= diag_ref[p]
  BY <1>1, Basics DEF Rows
<1>3. \A r \in Rows : A[p][r] = A[owner(r)][r]
  BY <1>2, Pivots DEF PivotIsOwners
<1>4. A[p] = OwnersRows
  BY <1>1, <1>3 DEF OwnersRows, Matrix
<1>5. \A r \in Rows : OwnersStage[r] = r
  BY <1>2, PivotFinal
<1>6. \A d \in Steps : A[p][d][d] # 0
  BY DEF NonzeroPivots
<1>7. Factored(A[p], OwnersStage, printed)
  BY <1>4 DEF FactoredAtOwners
<1> QED
  BY <1>1, <1>5, <1>6, <1>7, AllFinal

\* What each rank ends with is the factorisation of the matrix rank 0 printed:
\* L times U is that matrix, however the eliminations and the broadcasts of the
\* ranks interleave, unless a pivot turned out to be zero.
THEOREM FactorsRight == Spec => [](NonzeroPivots => FactorsOfPrinted)
<1>1. Init => FactoredAtOwners
  BY FactoredInit DEF FactoredAtOwners
<1>2. IInv /\ FactoredAtOwners /\ [Next]_vars => FactoredAtOwners'
  BY FactoredStep
<1>3. Spec => [](IInv /\ FactoredAtOwners)
  BY <1>1, <1>2, InitIInv, NextIInv, PTL DEF Spec
<1>4. IInv /\ FactoredAtOwners => (NonzeroPivots => FactorsOfPrinted)
  BY EndIsProduct
<1> QED
  BY <1>3, <1>4, PTL
=============================================================================
