---------------------------- MODULE Himeno_proofs ----------------------------
(***************************************************************************)
(* Proofs about the Himeno programs for every grid, every way to cut it,   *)
(* every method of compression and every number of sweeps.                 *)
(***************************************************************************)
EXTENDS Himeno, FiniteSetTheorems, WellFoundedInduction, TLAPS

-----------------------------------------------------------------------------
(* The ranks and their neighbours. *)

\* There is one way to divide.
LEMMA DivMod ==
  ASSUME NEW m \in Int, NEW k \in Nat \ {0}, NEW q \in Int, NEW t \in 0..(k - 1),
         m = k * q + t
  PROVE  m \div k = q /\ m % k = t
<1>1. m % k \in 0..(k - 1) /\ m \div k \in Int /\ m = k * (m \div k) + (m % k)
  BY Z3
<1>2. PICK q2 \in Int, t2 \in 0..(k - 1) : q2 = m \div k /\ t2 = m % k
  BY <1>1
<1>3. k * q + t = k * q2 + t2
  BY <1>1, <1>2
<1>4. ASSUME NEW a \in Int, NEW b \in Int, NEW u \in 0..(k - 1), NEW v \in 0..(k - 1),
             k * a + u = k * b + v
      PROVE  ~(a > b)
  <2> SUFFICES ASSUME a > b PROVE FALSE
    OBVIOUS
  <2>1. PICK e \in Nat : a = b + 1 + e
    BY Z3
  <2>2. k * a = k * b + k + k * e
    BY <2>1, Z3
  <2>3. k * e >= 0
    BY Z3
  <2> QED
    BY <1>4, <2>2, <2>3, Z3
<1>5. q = q2
  BY <1>3, <1>4
<1> QED
  BY <1>2, <1>3, <1>5

\* Quotient and remainder.
LEMMA DivModExists ==
  ASSUME NEW m \in Nat, NEW k \in Nat \ {0}
  PROVE  /\ m % k \in 0..(k - 1) /\ m \div k \in Nat
         /\ m = k * (m \div k) + (m % k)
BY Z3

\* A product of natural numbers bounds its factors' remainders.
LEMMA Below ==
  ASSUME NEW a \in Nat \ {0}, NEW k \in Nat \ {0}, NEW q \in Int, NEW t \in 0..(k - 1)
  PROVE  k * q + t \in 0..(a * k - 1) <=> q \in 0..(a - 1)
<1>1. ASSUME q >= 0 PROVE k * q >= 0
  BY <1>1, Z3
<1>2. ASSUME q < 0 PROVE k * q <= -k
  <2>1. PICK e \in Nat : q = -1 - e
    BY <1>2, Z3
  <2>2. k * q = -k - k * e /\ k * e >= 0
    BY <2>1, Z3
  <2> QED
    BY <2>2
<1>3. ASSUME q >= a PROVE k * q >= a * k
  <2>1. PICK e \in Nat : q = a + e
    BY <1>3, Z3
  <2>2. k * q = a * k + k * e /\ k * e >= 0
    BY <2>1, Z3
  <2> QED
    BY <2>2
<1>4. ASSUME q < a PROVE k * q <= a * k - k
  <2>1. PICK e \in Nat : q = a - 1 - e
    BY <1>4, Z3
  <2>2. k * q = a * k - k - k * e /\ k * e >= 0
    BY <2>1, Z3
  <2> QED
    BY <2>2
<1>5. k * q \in Int /\ a * k \in Int
  BY Z3
<1>6. PICK kq \in Int, ak \in Int : kq = k * q /\ ak = a * k
  BY <1>5
<1>7. kq + t \in 0..(ak - 1) <=> q \in 0..(a - 1)
  BY <1>1, <1>2, <1>3, <1>4, <1>6
<1> QED
  BY <1>6, <1>7

Place == (0..(nd[1] - 1)) \X (0..(nd[2] - 1)) \X (0..(nd[3] - 1))

\* Ranks are numbered row by row: iop and RankAt are inverse to each other.
LEMMA Numbering ==
  ASSUME nd \in [Dims -> Nat \ {0}]
  PROVE  /\ \A r \in Ranks : /\ iop(nd, r) \in Place
                             /\ RankAt(nd, iop(nd, r)[1], iop(nd, r)[2], iop(nd, r)[3]) = r
         /\ \A x \in 0..(nd[1] - 1), y \in 0..(nd[2] - 1), z \in 0..(nd[3] - 1) :
              /\ RankAt(nd, x, y, z) \in Ranks
              /\ iop(nd, RankAt(nd, x, y, z)) = <<x, y, z>>
<1>1. PICK a \in Nat \ {0}, b \in Nat \ {0}, c \in Nat \ {0} :
        a = nd[1] /\ b = nd[2] /\ c = nd[3]
  BY DEF Dims
<1>2. b * c \in Nat \ {0} /\ a * b \in Nat \ {0} /\ (a * b) * c = a * (b * c)
  BY Z3
<1>3. Ranks = 0..((a * b) * c - 1)
  BY <1>1 DEF Ranks, NumRanks
<1>4. ASSUME NEW r \in Ranks
      PROVE  /\ iop(nd, r) \in Place
             /\ RankAt(nd, iop(nd, r)[1], iop(nd, r)[2], iop(nd, r)[3]) = r
  <2>1. r \in Nat
    BY <1>2, <1>3
  <2>2. PICK h \in Nat, z \in 0..(c - 1) : h = r \div c /\ z = r % c /\ r = c * h + z
    BY <2>1, DivModExists
  <2>3. h \in 0..(a * b - 1)
    <3>1. c * h + z \in 0..((a * b) * c - 1)
      BY <1>3, <2>2
    <3> QED
      BY <1>2, <3>1, Below
  <2>4. PICK x \in Nat, y \in 0..(b - 1) : x = h \div b /\ y = h % b /\ h = b * x + y
    BY DivModExists
  <2>5. x \in 0..(a - 1)
    BY <2>3, <2>4, Below
  <2>6. r = (b * c) * x + (c * y + z)
    <3>1. c * (b * x + y) + z = (b * c) * x + (c * y + z)
      BY Z3
    <3> QED
      BY <2>2, <2>4, <3>1
  <2>7. c * y + z \in 0..(b * c - 1)
    BY Below
  <2>8. r \div (b * c) = x
    BY <1>2, <2>1, <2>6, <2>7, DivMod
  <2>9. iop(nd, r) = <<x, y, z>>
    BY <1>1, <2>2, <2>4, <2>8 DEF iop
  <2>10. (x * b + y) * c + z = r
    <3>1. (x * b + y) * c + z = c * (b * x + y) + z
      BY Z3
    <3> QED
      BY <2>2, <2>4, <3>1
  <2> QED
    BY <1>1, <2>5, <2>9, <2>10 DEF Place, RankAt
<1>5. ASSUME NEW x \in 0..(nd[1] - 1), NEW y \in 0..(nd[2] - 1), NEW z \in 0..(nd[3] - 1)
      PROVE  /\ RankAt(nd, x, y, z) \in Ranks
             /\ iop(nd, RankAt(nd, x, y, z)) = <<x, y, z>>
  <2> USE <1>1
  <2>1. PICK h \in Int : h = b * x + y
    BY Z3
  <2>2. PICK r \in Int : r = c * h + z
    BY Z3
  <2>3. RankAt(nd, x, y, z) = r
    <3>1. (x * b + y) * c + z = c * (b * x + y) + z
      BY Z3
    <3> QED
      BY <2>1, <2>2, <3>1 DEF RankAt
  <2>4. h \in 0..(a * b - 1)
    BY <2>1, Below
  <2>5. r \in 0..((a * b) * c - 1)
    BY <1>2, <2>2, <2>4, Below
  <2>6. r \div c = h /\ r % c = z
    BY <2>2, DivMod
  <2>7. h % b = y
    BY <2>1, DivMod
  <2>8. r = (b * c) * x + (c * y + z)
    BY <2>1, <2>2, Z3
  <2>9. c * y + z \in 0..(b * c - 1)
    BY Below
  <2>10. r \div (b * c) = x
    <3>1. PICK k \in Nat \ {0}, t \in Int : k = b * c /\ t = c * y + z
      BY <1>2, <2>9
    <3>2. r = k * x + t /\ x \in Int /\ t \in 0..(k - 1)
      BY <2>8, <2>9, <3>1
    <3> QED
      BY <3>1, <3>2, DivMod
  <2> QED
    BY <1>3, <2>3, <2>5, <2>6, <2>7, <2>10 DEF iop
<1> QED
  BY <1>4, <1>5

\* q lies on side s of r in dimension d.
Beside(r, d, s, q) == q = Neighbour(nd, r, d, s) /\ q # ProcNull

Shifted(r, d, s) == [iop(nd, r) EXCEPT ![d] = IF s = 0 THEN @ - 1 ELSE @ + 1]

\* The neighbour is the rank one step further, and r the one a step back.
LEMMA NeighbourPlace ==
  ASSUME nd \in [Dims -> Nat \ {0}], NEW r \in Ranks, NEW d \in Dims, NEW s \in Sides,
         NEW q, Beside(r, d, s, q)
  PROVE  /\ q \in Ranks /\ iop(nd, q) = Shifted(r, d, s)
         /\ Beside(q, d, 1 - s, r)
         /\ nd[d] > 1
<1>1. PICK x \in 0..(nd[1] - 1), y \in 0..(nd[2] - 1), z \in 0..(nd[3] - 1) :
        iop(nd, r) = <<x, y, z>>
  BY Numbering DEF Place
<1>2. RankAt(nd, x, y, z) = r
  BY <1>1, Numbering
<1>3. nd[1] \in Nat /\ nd[2] \in Nat /\ nd[3] \in Nat
  BY DEF Dims
<1>4. r # ProcNull
  BY DEF Ranks, ProcNull
<1> DEFINE step == IF s = 0 THEN -1 ELSE 1
<1>5. step \in Int /\ (IF 1 - s = 0 THEN -1 ELSE 1) = -step /\ 1 - s \in Sides
  BY DEF Sides
<1>6. CASE d = 1
  <2>1. Shifted(r, d, s) = <<x + step, y, z>>
    BY <1>1, <1>6 DEF Shifted
  <2>2. x + step \in 0..(nd[1] - 1) /\ q = RankAt(nd, x + step, y, z)
    BY <1>6, <2>1 DEF Beside, Neighbour, Shifted
  <2>3. q \in Ranks /\ iop(nd, q) = <<x + step, y, z>>
    BY <2>2, Numbering
  <2>4. Shifted(q, d, 1 - s) = <<x, y, z>>
    BY <1>5, <1>6, <2>3 DEF Shifted, Sides
  <2>5. Neighbour(nd, q, d, 1 - s) = r
    BY <1>2, <1>6, <2>4 DEF Neighbour, Shifted
  <2>6. nd[d] > 1
    BY <1>3, <1>6, <2>2
  <2> QED
    BY <1>4, <2>1, <2>3, <2>5, <2>6 DEF Beside
<1>7. CASE d = 2
  <2>1. Shifted(r, d, s) = <<x, y + step, z>>
    BY <1>1, <1>7 DEF Shifted
  <2>2. y + step \in 0..(nd[2] - 1) /\ q = RankAt(nd, x, y + step, z)
    BY <1>7, <2>1 DEF Beside, Neighbour, Shifted
  <2>3. q \in Ranks /\ iop(nd, q) = <<x, y + step, z>>
    BY <2>2, Numbering
  <2>4. Shifted(q, d, 1 - s) = <<x, y, z>>
    BY <1>5, <1>7, <2>3 DEF Shifted, Sides
  <2>5. Neighbour(nd, q, d, 1 - s) = r
    BY <1>2, <1>7, <2>4 DEF Neighbour, Shifted
  <2>6. nd[d] > 1
    BY <1>3, <1>7, <2>2
  <2> QED
    BY <1>4, <2>1, <2>3, <2>5, <2>6 DEF Beside
<1>8. CASE d = 3
  <2>1. Shifted(r, d, s) = <<x, y, z + step>>
    BY <1>1, <1>8 DEF Shifted
  <2>2. z + step \in 0..(nd[3] - 1) /\ q = RankAt(nd, x, y, z + step)
    BY <1>8, <2>1 DEF Beside, Neighbour, Shifted
  <2>3. q \in Ranks /\ iop(nd, q) = <<x, y, z + step>>
    BY <2>2, Numbering
  <2>4. Shifted(q, d, 1 - s) = <<x, y, z>>
    BY <1>5, <1>8, <2>3 DEF Shifted, Sides
  <2>5. Neighbour(nd, q, d, 1 - s) = r
    BY <1>2, <1>8, <2>4 DEF Neighbour, Shifted
  <2>6. nd[d] > 1
    BY <1>3, <1>8, <2>2
  <2> QED
    BY <1>4, <2>1, <2>3, <2>5, <2>6 DEF Beside
<1> QED
  BY <1>6, <1>7, <1>8 DEF Dims

\* The neighbours on the two sides are different ranks, and neither is r.
LEMMA TwoNeighbours ==
  ASSUME nd \in [Dims -> Nat \ {0}], NEW r \in Ranks, NEW d \in Dims, NEW s \in Sides,
         NEW q, Beside(r, d, s, q)
  PROVE  q # r /\ ~Beside(r, d, 1 - s, q)
<1>1. PICK x \in Int, y \in Int, z \in Int : iop(nd, r) = <<x, y, z>>
  <2>1. iop(nd, r) \in Place
    BY Numbering
  <2> QED
    BY <2>1 DEF Place
<1>2. iop(nd, q) = Shifted(r, d, s)
  BY NeighbourPlace
<1>3. 1 - s \in Sides
  BY DEF Sides
<1>4. Beside(r, d, 1 - s, q) => iop(nd, q) = Shifted(r, d, 1 - s)
  BY <1>3, NeighbourPlace
<1>5. Shifted(r, d, s)[d] # iop(nd, r)[d] /\ Shifted(r, d, s)[d] # Shifted(r, d, 1 - s)[d]
  BY <1>1 DEF Shifted, Sides, Dims
<1> QED
  BY <1>2, <1>4, <1>5

\* CutFrom(d) is the next dimension with neighbours.
LEMMA NextCut ==
  ASSUME NEW d \in 0..3
  PROVE  /\ CutFrom(d) \in 0..d
         /\ CutFrom(d) # 0 => nd[CutFrom(d)] > 1
         /\ \A e \in 1..d : e > CutFrom(d) => ~(nd[e] > 1)
<1> DEFINE S == {e \in 1..d : nd[e] > 1}
<1>1. CASE S = {}
  BY <1>1 DEF CutFrom
<1>2. CASE S # {}
  <2>1. \E x \in S : \A y \in S : y <= x
    <3>1. CASE 3 \in S
      BY <3>1
    <3>2. CASE 3 \notin S /\ 2 \in S
      <4>1. \A y \in S : y \in {1, 2}
        BY <3>2
      <4> QED
        BY <3>2, <4>1
    <3>3. CASE 3 \notin S /\ 2 \notin S
      <4>1. \A y \in S : y = 1
        BY <3>3
      <4> QED
        BY <1>2, <4>1
    <3> QED
      BY <3>1, <3>2, <3>3
  <2>2. MaxOf(S) \in S /\ \A y \in S : y <= MaxOf(S)
    BY <2>1 DEF MaxOf
  <2>3. CutFrom(d) = MaxOf(S)
    BY <1>2 DEF CutFrom
  <2>4. MaxOf(S) \in 1..d /\ nd[MaxOf(S)] > 1
    BY <2>2
  <2>5. \A e \in 1..d : e > MaxOf(S) => ~(nd[e] > 1)
    BY <2>2, <2>4
  <2> QED
    BY <2>3, <2>4, <2>5
<1> QED
  BY <1>1, <1>2

-----------------------------------------------------------------------------
(* The inductive invariant: the collective calls.  A rank's epoch is the     *)
(* number of collective calls it has left.                                   *)

Label == {"start", "barrier", "sweep", "post", "sizes", "layers", "wait",
          "reduce", "gosa", "timing", "agree", "end"}

Waiting(r) == pc[r] \in {"barrier", "gosa", "agree"}
Exchanging(r) == pc[r] \in {"post", "sizes", "layers", "wait"}

Epoch(r) == IF Waiting(r) THEN entered[r] - 1 ELSE entered[r]

\* What a rank does in its epoch: it begins a jacobi(), makes a sweep, takes the
\* time, or is at its end.
KindOf(l) ==
  CASE l \in {"start", "barrier"} -> "begin"
    [] l \in {"timing", "agree"}  -> "time"
    [] l = "end"                  -> "end"
    [] OTHER                      -> "sweep"

\* Sweeps it will have made at the end of it.
Turn(r) == IF pc[r] = "sweep" THEN n[r] + 1 ELSE n[r]

Plan(r) == <<KindOf(pc[r]), nn[r], before[r], Turn(r)>>

\* The plan of the next epoch of a rank that waits.
NextPlan(r) ==
  IF pc[r] = "agree"
  THEN IF before[r] = 0 THEN <<"begin", SecondRun(r), n[r], 0>>
                        ELSE <<"end", nn[r], before[r], n[r]>>
  ELSE IF n[r] < nn[r] THEN <<"sweep", nn[r], before[r], n[r] + 1>>
                       ELSE <<"time", nn[r], before[r], n[r]>>

\* A box for every rank, dimension and side.
Boxed(box) ==
  box = [r \in Ranks |-> [d \in Dims |-> [s \in Sides |-> box[r][d][s]]]]

Shapes ==
  /\ [nd |-> nd, CT |-> CT] \in Programs
  /\ pc \in [Ranks -> Label]
  /\ n \in [Ranks -> Nat] /\ nn \in [Ranks -> Nat] /\ before \in [Ranks -> Nat]
  /\ dim \in [Ranks -> 0..3]
  /\ pending \in [Ranks -> SUBSET Sides]
  /\ entered \in [Ranks -> Nat]
  /\ part = [r \in Ranks |-> part[r]]
  /\ p = [r \in Ranks |-> p[r]]
  /\ Boxed(mail) /\ Boxed(sizes)
  /\ told = [r \in Ranks |-> [s \in Sides |-> told[r][s]]]

\* Each rank by itself.
Counters ==
  \A r \in Ranks :
    /\ Waiting(r) => entered[r] >= 1
    /\ n[r] <= nn[r]
    /\ pc[r] = "sweep" => n[r] < nn[r]
    /\ Exchanging(r) => dim[r] \in Dims
    /\ pc[r] \in {"sizes", "wait"} => pending[r] \subseteq Near(r, dim[r])
    /\ pc[r] \in {"sizes", "layers"} => CT # 0
    /\ pc[r] = "agree" => part[r] \in Times

\* Nobody leaves a call that somebody has not begun.
Sync == \A r, q \in Ranks : Epoch(q) <= entered[r]

\* Ranks in the same epoch do the same; one that is ahead does what the others
\* will do when they have left the call they wait in.
Alike == \A r, q \in Ranks : Epoch(q) = Epoch(r) => Plan(q) = Plan(r)
Follows == \A r, q \in Ranks : Epoch(q) = Epoch(r) + 1 => Plan(q) = NextPlan(r)

\* The time the ranks have agreed on.
Agreed == \A r \in Ranks : pc[r] = "agree" /\ Complete(r) => result \in Times

CallInv == Shapes /\ Counters /\ Sync /\ Alike /\ Follows /\ Agreed

-----------------------------------------------------------------------------
(* The inductive invariant: the layers and their sizes. *)

\* q has sent its size, its layer of dimension d in its epoch.
SizeSent(q, d) ==
  \/ Exchanging(q) /\ dim[q] < d
  \/ pc[q] \in {"sizes", "layers", "wait"} /\ dim[q] = d
  \/ pc[q] \in {"reduce", "gosa"}
LayerSent(q, d) ==
  \/ Exchanging(q) /\ dim[q] < d
  \/ pc[q] = "wait" /\ dim[q] = d
  \/ pc[q] \in {"reduce", "gosa"}

\* r has received the one from side s.
SizeGot(r, d, s) ==
  \/ Exchanging(r) /\ dim[r] < d
  \/ pc[r] = "sizes" /\ dim[r] = d /\ s \notin pending[r]
  \/ pc[r] \in {"layers", "wait"} /\ dim[r] = d
  \/ pc[r] \in {"reduce", "gosa"}
LayerGot(r, d, s) ==
  \/ Exchanging(r) /\ dim[r] < d
  \/ pc[r] = "wait" /\ dim[r] = d /\ s \notin pending[r]
  \/ pc[r] \in {"reduce", "gosa"}

\* A message is under way from q to r: sent in the epoch of r and not received,
\* or sent in the next one.
UnderWay(r, q, sent, got) ==
  \/ Epoch(q) = Epoch(r) /\ sent /\ ~got
  \/ Epoch(q) = Epoch(r) + 1 /\ sent

\* What r has received q has sent.
NoneEarly(r, q, sent, got) ==
  got => Epoch(q) > Epoch(r) \/ (Epoch(q) = Epoch(r) /\ sent)

Single(box) == box = <<Head(box)>>

LayersInv ==
  \A r \in Ranks, d \in Dims, s \in Sides, q \in Ranks : Beside(r, d, s, q) =>
    /\ NoneEarly(r, q, LayerSent(q, d), LayerGot(r, d, s))
    /\ IF UnderWay(r, q, LayerSent(q, d), LayerGot(r, d, s))
       THEN Single(mail[r][d][s]) ELSE mail[r][d][s] = << >>

SizesInv ==
  \A r \in Ranks, d \in Dims, s \in Sides, q \in Ranks : Beside(r, d, s, q) =>
    /\ CT # 0 => NoneEarly(r, q, SizeSent(q, d), SizeGot(r, d, s))
    /\ IF CT # 0 /\ UnderWay(r, q, SizeSent(q, d), SizeGot(r, d, s))
       THEN Single(sizes[r][d][s]) ELSE sizes[r][d][s] = << >>

\* Nothing comes from where there is no neighbour.
Silent ==
  \A r \in Ranks, d \in Dims, s \in Sides :
    Neighbour(nd, r, d, s) = ProcNull => mail[r][d][s] = << >> /\ sizes[r][d][s] = << >>

\* The size under way, or the one r has been told.
SizeHeld(r, d, s) == IF sizes[r][d][s] # << >> THEN Head(sizes[r][d][s]) ELSE told[r][s]

\* It is that of the layer q is about to send; that of the layer it has sent.
SizesTrue ==
  CT # 0 =>
    \A r \in Ranks, d \in Dims, s \in Sides, q \in Ranks : Beside(r, d, s, q) =>
      /\ pc[q] \in {"sizes", "layers"} /\ dim[q] = d =>
           SizeHeld(r, d, s) = Cut(q, d, 1 - s)
      /\ mail[r][d][s] # << >> => SizeHeld(r, d, s) = Head(mail[r][d][s])

MailInv == LayersInv /\ SizesInv /\ Silent /\ SizesTrue

IInv == CallInv /\ MailInv

-----------------------------------------------------------------------------
(* The collective calls, step by step. *)

\* The cut of the grid and all that depends on it alone stay.
LEMMA Fixed ==
  ASSUME UNCHANGED <<nd, CT>>
  PROVE  /\ nd' = nd /\ CT' = CT /\ Ranks' = Ranks
         /\ \A r, d, s, q : Beside(r, d, s, q)' <=> Beside(r, d, s, q)
         /\ \A d : CutFrom(d)' = CutFrom(d)
         /\ \A r, d : Near(r, d)' = Near(r, d)
BY DEF Ranks, Beside, CutFrom, Near

\* The types of what is fixed at the start.
LEMMA Basics ==
  ASSUME Shapes
  PROVE  /\ nd \in [Dims -> Nat \ {0}] /\ CT \in Nat
         /\ Ranks \subseteq Nat /\ 0 \in Ranks
         /\ Rehearsal \in Nat \ {0} /\ Target \in Nat /\ Simgrid \in Nat
         /\ Times \subseteq Nat \ {0}
<1>1. nd \in [Dims -> Nat \ {0}] /\ CT \in Nat
  <2> DEFINE x == [nd |-> nd, CT |-> CT]
  <2>1. x \in [nd : [Dims -> Nat \ {0}], CT : {0, 1, 4, 5, 6, 7}]
    BY HimenoAssumption DEF Shapes
  <2>2. x.nd \in [Dims -> Nat \ {0}] /\ x.CT \in {0, 1, 4, 5, 6, 7}
    BY <2>1
  <2> QED
    BY <2>2
<1>2. NumRanks(nd) \in Nat \ {0}
  <2>1. PICK a \in Nat \ {0}, b \in Nat \ {0}, c \in Nat \ {0} :
          a = nd[1] /\ b = nd[2] /\ c = nd[3]
    BY <1>1 DEF Dims
  <2>2. a * b * c \in Nat \ {0}
    BY Z3
  <2> QED
    BY <2>1, <2>2 DEF NumRanks
<1> QED
  BY <1>1, <1>2, HimenoAssumption DEF Ranks

\* A rank inside a collective call has entered one more than it has left.
LEMMA EpochType ==
  ASSUME Shapes, Counters
  PROVE  \A r \in Ranks :
           /\ entered[r] \in Nat /\ Epoch(r) \in Nat
           /\ Waiting(r) => Epoch(r) = entered[r] - 1
           /\ ~Waiting(r) => Epoch(r) = entered[r]
BY DEF Shapes, Counters, Epoch

\* One rank ahead of another: the other waits, in a call all have begun.
LEMMA Behind ==
  ASSUME CallInv, NEW r \in Ranks, NEW q \in Ranks, Epoch(q) = Epoch(r) + 1
  PROVE  Waiting(r) /\ Complete(r) /\ Epoch(q) = entered[r]
<1>1. \A x \in Ranks : entered[x] \in Nat /\ Epoch(x) \in Nat /\ Epoch(q) <= entered[x]
  BY EpochType DEF CallInv, Sync
<1>2. Epoch(r) = entered[r] \/ (Waiting(r) /\ Epoch(r) = entered[r] - 1)
  BY EpochType DEF CallInv
<1> QED
  BY <1>1, <1>2 DEF Complete

\* A rank that goes on within its epoch changes nothing for the others.
LEMMA Inside ==
  ASSUME CallInv, NEW r \in Ranks,
         UNCHANGED <<nd, CT, nn, before, entered, part, result>>,
         \A q \in Ranks : q # r => pc'[q] = pc[q] /\ n'[q] = n[q],
         ~Waiting(r), ~Waiting(r)', Plan(r)' = Plan(r)
  PROVE  /\ Sync' /\ Alike' /\ Follows' /\ Agreed'
         /\ \A q \in Ranks : Epoch(q)' = Epoch(q)
<1>1. Ranks' = Ranks
  BY Fixed
<1>2. \A q \in Ranks : Epoch(q)' = Epoch(q) /\ (Waiting(q)' <=> Waiting(q))
  BY DEF Epoch, Waiting
<1>3. \A q \in Ranks : Plan(q)' = Plan(q)
  BY DEF Plan, Turn
<1>4. \A q \in Ranks : Waiting(q) => NextPlan(q)' = NextPlan(q)
  BY DEF NextPlan, SecondRun, SlowestTime
<1>5. \A q \in Ranks : Complete(q)' <=> Complete(q)
  BY <1>1 DEF Complete
<1>6. \A q \in Ranks : pc'[q] = "agree" => pc[q] = "agree"
  BY DEF Waiting
<1>7. Sync' /\ Alike'
  BY <1>1, <1>2, <1>3 DEF CallInv, Sync, Alike
<1>8. Follows'
  BY <1>1, <1>2, <1>3, <1>4, Behind DEF CallInv, Follows
<1>9. Agreed'
  BY <1>1, <1>5, <1>6 DEF CallInv, Agreed
<1> QED
  BY <1>2, <1>7, <1>8, <1>9

\* The last rank to begin a call finds all the others waiting in it.
LEMMA LastToBegin ==
  ASSUME CallInv, NEW r \in Ranks, ~Waiting(r),
         \A q \in Ranks \ {r} : entered[q] > entered[r]
  PROVE  \A q \in Ranks \ {r} : /\ Waiting(q) /\ Epoch(q) = Epoch(r)
                                /\ KindOf(pc[q]) = KindOf(pc[r])
<1> SUFFICES ASSUME NEW q \in Ranks \ {r}
             PROVE  /\ Waiting(q) /\ Epoch(q) = Epoch(r)
                    /\ KindOf(pc[q]) = KindOf(pc[r])
  OBVIOUS
<1>1. entered[r] \in Nat /\ entered[q] \in Nat /\ Epoch(q) <= entered[r]
      /\ Epoch(r) = entered[r]
  BY EpochType DEF CallInv, Sync
<1>2. Waiting(q) /\ Epoch(q) = Epoch(r)
  BY <1>1, EpochType DEF CallInv
<1>3. Plan(q) = Plan(r)
  BY <1>2 DEF CallInv, Alike
<1> QED
  BY <1>2, <1>3 DEF Plan

\* A rank begins a call.
LEMMA BeginCall ==
  ASSUME CallInv, NEW r \in Ranks, NEW l \in {"barrier", "gosa", "agree"},
         UNCHANGED <<nd, CT, n, nn, before>>,
         pc' = [pc EXCEPT ![r] = l], KindOf(l) = KindOf(pc[r]),
         ~Waiting(r), pc[r] # "sweep",
         entered' = [entered EXCEPT ![r] = @ + 1],
         \/ result' = result
         \/ /\ \A q \in Ranks \ {r} : entered[q] > entered[r]
            /\ l = "agree" => result' \in Times,
         l = "agree" /\ (\A q \in Ranks \ {r} : entered[q] > entered[r]) => result' \in Times
  PROVE  /\ Sync' /\ Alike' /\ Follows' /\ Agreed'
         /\ \A q \in Ranks : Epoch(q)' = Epoch(q)
<1>1. Ranks' = Ranks
  BY Fixed
<1>2. /\ pc'[r] = l /\ entered'[r] = entered[r] + 1 /\ entered[r] \in Nat
      /\ \A q \in Ranks : q # r => pc'[q] = pc[q] /\ entered'[q] = entered[q]
  BY DEF CallInv, Shapes
<1>3. \A q \in Ranks : Epoch(q)' = Epoch(q)
  BY <1>2, EpochType DEF Epoch, Waiting, CallInv
<1>4. \A q \in Ranks : Plan(q)' = Plan(q)
  <2>1. l # "sweep"
    OBVIOUS
  <2> QED
    BY <1>2, <2>1 DEF Plan, Turn
<1>5. ASSUME NEW q \in Ranks, Waiting(q), Complete(q)
      PROVE  result' = result /\ q # r /\ pc'[q] = pc[q]
  <2>1. q # r
    BY <1>5
  <2>2. entered[r] >= entered[q] /\ entered[q] \in Nat
    BY <1>5, EpochType DEF Complete, CallInv
  <2>3. ~(entered[q] > entered[r])
    BY <1>2, <2>2
  <2> QED
    BY <1>2, <2>1, <2>3
<1>6. ASSUME NEW q \in Ranks, Waiting(q), Complete(q)
      PROVE  NextPlan(q)' = NextPlan(q)
  BY <1>5, <1>6 DEF NextPlan, SecondRun, SlowestTime
<1>7. Sync'
  BY <1>1, <1>2, <1>3, EpochType DEF CallInv, Sync
<1>8. Alike'
  BY <1>1, <1>3, <1>4 DEF CallInv, Alike
<1>9. Follows'
  <2> SUFFICES ASSUME NEW x \in Ranks, NEW q \in Ranks, Epoch(q) = Epoch(x) + 1
               PROVE  Plan(q) = NextPlan(x)'
    BY <1>1, <1>3, <1>4 DEF Follows
  <2>1. Waiting(x) /\ Complete(x)
    BY Behind
  <2> QED
    BY <1>6, <2>1 DEF CallInv, Follows
<1>10. Agreed'
  <2> SUFFICES ASSUME NEW x \in Ranks, pc'[x] = "agree", Complete(x)'
               PROVE  result' \in Times
    BY <1>1 DEF Agreed
  <2>1. \A q \in Ranks : entered'[q] >= entered'[x]
    BY <1>1 DEF Complete
  <2>2. CASE x = r
    <3>1. \A q \in Ranks \ {r} : entered[q] > entered[r]
      BY <1>2, <2>1, <2>2, EpochType DEF CallInv
    <3> QED
      BY <1>2, <2>2, <3>1
  <2>3. CASE x # r /\ entered[r] >= entered[x]
    <3>1. pc[x] = "agree" /\ Waiting(x) /\ Complete(x)
      BY <1>2, <2>1, <2>3 DEF Waiting, Complete
    <3> QED
      BY <1>5, <3>1 DEF CallInv, Agreed
  <2>4. CASE x # r /\ entered[r] < entered[x]
    <3>1. entered[x] = entered[r] + 1 /\ pc[x] = "agree"
      BY <1>2, <2>1, <2>4, EpochType DEF CallInv
    <3>2. \A q \in Ranks \ {r} : entered[q] > entered[r]
      BY <1>2, <2>1, <2>4, <3>1, EpochType DEF CallInv
    <3>3. KindOf(pc[x]) = KindOf(l)
      BY <2>4, <3>2, LastToBegin
    <3>4. l = "agree"
      BY <3>1, <3>3 DEF KindOf
    <3> QED
      BY <3>2, <3>4
  <2> QED
    BY <1>2, <2>2, <2>3, <2>4, EpochType DEF CallInv
<1> QED
  BY <1>3, <1>7, <1>8, <1>9, <1>10

\* A rank leaves a call.
LEMMA LeaveCall ==
  ASSUME CallInv, NEW r \in Ranks, Waiting(r), Complete(r),
         UNCHANGED <<nd, CT, entered, part, result>>,
         \A q \in Ranks : q # r => /\ pc'[q] = pc[q] /\ n'[q] = n[q]
                                   /\ nn'[q] = nn[q] /\ before'[q] = before[q],
         ~Waiting(r)', Plan(r)' = NextPlan(r)
  PROVE  /\ Sync' /\ Alike' /\ Follows' /\ Agreed'
         /\ Epoch(r)' = Epoch(r) + 1
         /\ \A q \in Ranks : q # r => Epoch(q)' = Epoch(q)
<1>1. Ranks' = Ranks
  BY Fixed
<1>2. /\ Epoch(r)' = Epoch(r) + 1 /\ Epoch(r)' = entered[r]
      /\ \A q \in Ranks : q # r => Epoch(q)' = Epoch(q)
  BY EpochType DEF Epoch, Waiting, CallInv
<1>3. \A q \in Ranks : q # r => Plan(q)' = Plan(q) /\ NextPlan(q)' = NextPlan(q)
  BY DEF Plan, Turn, NextPlan, SecondRun, SlowestTime
<1>4. \A q \in Ranks : entered[q] \in Nat /\ Epoch(q) \in Nat
  BY EpochType DEF CallInv
<1>5. Sync'
  BY <1>1, <1>2 DEF Sync, Complete, CallInv
<1>6. \A q \in Ranks : Epoch(q) <= entered[r] /\ entered[q] >= entered[r]
  BY DEF CallInv, Sync, Complete
<1>7. ASSUME NEW q \in Ranks, q # r, Epoch(q) = Epoch(r)
      PROVE  NextPlan(q) = NextPlan(r)
  <2>1. Waiting(q)
    BY <1>6, <1>7, EpochType DEF CallInv
  <2>2. Plan(q) = Plan(r)
    BY <1>7 DEF CallInv, Alike
  <2>3. /\ KindOf(pc[q]) = KindOf(pc[r]) /\ nn[q] = nn[r] /\ before[q] = before[r]
        /\ n[q] = n[r]
    BY <2>1, <2>2 DEF Plan, Turn, Waiting
  <2>4. pc[q] = pc[r]
    BY <2>1, <2>3 DEF Waiting, KindOf
  <2> QED
    BY <2>3, <2>4 DEF NextPlan, SecondRun, SlowestTime
<1>8. Alike'
  <2> SUFFICES ASSUME NEW q \in Ranks, q # r, Epoch(q) = entered[r]
               PROVE  Plan(q) = NextPlan(r)
    BY <1>1, <1>2, <1>3 DEF Alike, CallInv
  <2> QED
    BY <1>2 DEF CallInv, Follows
<1>9. Follows'
  <2> SUFFICES ASSUME NEW x \in Ranks, NEW q \in Ranks, Epoch(q)' = Epoch(x)' + 1
               PROVE  Plan(q)' = NextPlan(x)'
    BY <1>1 DEF Follows
  <2>1. x # r
    <3> SUFFICES ASSUME x = r PROVE FALSE
      OBVIOUS
    <3>1. q # r /\ Epoch(q) = entered[r] + 1
      BY <1>2, <1>4
    <3> QED
      BY <1>4, <1>6, <3>1
  <2>2. CASE q = r
    <3>1. Epoch(x) = Epoch(r)
      BY <1>2, <1>4, <2>1, <2>2
    <3> QED
      BY <1>3, <1>7, <2>1, <2>2, <3>1
  <2>3. CASE q # r
    BY <1>2, <1>3, <2>1, <2>3 DEF CallInv, Follows
  <2> QED
    BY <2>2, <2>3
<1>10. Agreed'
  BY <1>1 DEF CallInv, Agreed, Complete, Waiting
<1> QED
  BY <1>2, <1>5, <1>8, <1>9, <1>10

-----------------------------------------------------------------------------
(* The layers and sizes under way, step by step. *)

\* A message put on an empty channel.
LEMMA OneMessage ==
  ASSUME NEW x
  PROVE  /\ Append(<< >>, x) = <<x>> /\ Head(<<x>>) = x /\ Tail(<<x>>) = << >>
         /\ <<x>> # << >> /\ Len(<<x>>) = 1
<1>1. x \in {x} /\ << >> \in Seq({x})
  OBVIOUS
<1> QED
  BY <1>1

\* Neighbours are ranks; r is the neighbour of its neighbour.
LEMMA Mutual ==
  ASSUME Shapes, NEW r \in Ranks, NEW d \in Dims, NEW s \in Sides, NEW q,
         Beside(r, d, s, q)
  PROVE  /\ q \in Ranks /\ q # r /\ 1 - s \in Sides /\ s \in Near(r, d)
         /\ Beside(q, d, 1 - s, r) /\ nd[d] > 1
<1>1. nd \in [Dims -> Nat \ {0}]
  BY Basics
<1>2. q \in Ranks /\ q # r /\ Beside(q, d, 1 - s, r) /\ nd[d] > 1
  BY <1>1, NeighbourPlace, TwoNeighbours
<1> QED
  BY <1>2 DEF Sides, Near, Beside

\* Where the messages go.
LEMMA SentByIs ==
  ASSUME Shapes, NEW r \in Ranks, NEW d \in Dims, NEW box, Boxed(box)
  PROVE  /\ Boxed(SentBy(r, d, box))
         /\ \A q \in Ranks, e \in Dims, s \in Sides :
              SentBy(r, d, box)[q][e][s] =
                IF e = d /\ Beside(q, d, s, r)
                THEN Append(box[q][d][s], Cut(r, d, 1 - s)) ELSE box[q][e][s]
<1>1. ASSUME NEW q \in Ranks
      PROVE  /\ SentBy(r, d, box)[q] =
                  [e \in Dims |-> [s \in Sides |-> SentBy(r, d, box)[q][e][s]]]
             /\ \A e \in Dims, s \in Sides :
                  SentBy(r, d, box)[q][e][s] =
                    IF e = d /\ Beside(q, d, s, r)
                    THEN Append(box[q][d][s], Cut(r, d, 1 - s)) ELSE box[q][e][s]
  <2>1. box[q] = [e \in Dims |-> [s \in Sides |-> box[q][e][s]]]
    BY DEF Boxed
  <2>2. CASE ~\E s \in Near(r, d) : q = Neighbour(nd, r, d, s)
    <3>1. SentBy(r, d, box)[q] = box[q]
      BY <2>2 DEF SentBy
    <3>2. \A s \in Sides : ~Beside(q, d, s, r)
      BY <2>2, Mutual DEF Beside, Sides
    <3> QED
      BY <2>1, <3>1, <3>2
  <2>3. ASSUME NEW t \in Near(r, d), q = Neighbour(nd, r, d, t)
        PROVE  /\ SentBy(r, d, box)[q] =
                    [e \in Dims |-> [s \in Sides |-> SentBy(r, d, box)[q][e][s]]]
               /\ \A e \in Dims, s \in Sides :
                    SentBy(r, d, box)[q][e][s] =
                      IF e = d /\ Beside(q, d, s, r)
                      THEN Append(box[q][d][s], Cut(r, d, 1 - s)) ELSE box[q][e][s]
    <3>1. t \in Sides /\ Beside(r, d, t, q)
      BY <2>3 DEF Near, Beside
    <3>2. /\ ~Beside(r, d, 1 - t, q)
          /\ Beside(q, d, 1 - t, r) /\ ~Beside(q, d, 1 - (1 - t), r)
      BY <3>1, Mutual, Basics, TwoNeighbours
    <3>3. \A s \in Near(r, d) : q = Neighbour(nd, r, d, s) => s = t
      BY <3>1, <3>2 DEF Near, Beside, Sides
    <3>4. t = CHOOSE s \in Near(r, d) : q = Neighbour(nd, r, d, s)
      BY <2>3, <3>3
    <3>5. SentBy(r, d, box)[q] = [box[q] EXCEPT ![d][1 - t] = Append(@, Cut(r, d, t))]
      BY <2>3, <3>4 DEF SentBy
    <3>6. \A s \in Sides : Beside(q, d, s, r) <=> s = 1 - t
      BY <3>1, <3>2 DEF Sides
    <3> DEFINE f == [box[q][d] EXCEPT ![1 - t] = Append(@, Cut(r, d, t))]
    <3>a. SentBy(r, d, box)[q] = [box[q] EXCEPT ![d] = f]
      BY <3>5
    <3>b. /\ f = [s \in Sides |-> f[s]]
          /\ \A s \in Sides : f[s] = IF s = 1 - t THEN Append(box[q][d][s], Cut(r, d, t))
                                                  ELSE box[q][d][s]
      BY <2>1
    <3> HIDE DEF f
    <3>c. \A e \in Dims : SentBy(r, d, box)[q][e] = IF e = d THEN f ELSE box[q][e]
      BY <2>1, <3>a
    <3>7. \A e \in Dims, s \in Sides :
            SentBy(r, d, box)[q][e][s] =
              IF e = d /\ s = 1 - t THEN Append(box[q][d][s], Cut(r, d, t)) ELSE box[q][e][s]
      BY <3>b, <3>c
    <3>8. 1 - (1 - t) = t
      BY <3>1 DEF Sides
    <3>9. SentBy(r, d, box)[q] =
            [e \in Dims |-> [s \in Sides |-> SentBy(r, d, box)[q][e][s]]]
      <4>1. SentBy(r, d, box)[q] = [e \in Dims |-> SentBy(r, d, box)[q][e]]
        BY <2>1, <3>a
      <4>2. \A e \in Dims : box[q][e] = [s \in Sides |-> box[q][e][s]]
        BY <2>1
      <4>3. \A e \in Dims : SentBy(r, d, box)[q][e] =
                             [s \in Sides |-> SentBy(r, d, box)[q][e][s]]
        BY <3>b, <3>c, <4>2
      <4> HIDE DEF f
      <4> QED
        BY <4>1, <4>3
    <3> QED
      BY <3>6, <3>7, <3>8, <3>9
  <2> QED
    BY <2>2, <2>3
<1>2. SentBy(r, d, box) = [q \in Ranks |-> SentBy(r, d, box)[q]]
  BY DEF SentBy
<1> QED
  BY <1>1, <1>2 DEF Boxed

\* Steps that send and receive nothing.
LEMMA QuietMail ==
  ASSUME Shapes, MailInv, UNCHANGED <<nd, CT, mail, sizes, told>>,
         \A q \in Ranks : Epoch(q)' = Epoch(q),
         \A q \in Ranks, d \in Dims : nd[d] > 1 =>
           /\ LayerSent(q, d)' <=> LayerSent(q, d)
           /\ SizeSent(q, d)' <=> SizeSent(q, d),
         \A q \in Ranks, d \in Dims, s \in Sides : nd[d] > 1 =>
           /\ LayerGot(q, d, s)' <=> LayerGot(q, d, s)
           /\ SizeGot(q, d, s)' <=> SizeGot(q, d, s),
         \A q \in Ranks : pc'[q] \in {"sizes", "layers"} =>
           pc[q] \in {"sizes", "layers"} /\ dim'[q] = dim[q] /\ p'[q] = p[q]
  PROVE  MailInv'
<1>1. /\ Ranks' = Ranks /\ \A r, d, s, q : Beside(r, d, s, q)' <=> Beside(r, d, s, q)
  BY Fixed
<1>2. \A r \in Ranks, d \in Dims, s \in Sides, q \in Ranks : Beside(r, d, s, q) => nd[d] > 1
  BY Mutual
<1>3. LayersInv'
  BY <1>1, <1>2 DEF MailInv, LayersInv, NoneEarly, UnderWay
<1>4. SizesInv'
  BY <1>1, <1>2 DEF MailInv, SizesInv, NoneEarly, UnderWay
<1>5. Silent'
  BY <1>1 DEF MailInv, Silent
<1>6. SizesTrue'
  <2>1. \A q \in Ranks : \A d, s : pc'[q] \in {"sizes", "layers"} => Cut(q, d, s)' = Cut(q, d, s)
    BY DEF Cut, Carried, SentLayer
  <2>2. \A r, d, s : SizeHeld(r, d, s)' = SizeHeld(r, d, s)
    BY DEF SizeHeld
  <2> QED
    BY <1>1, <2>1, <2>2 DEF MailInv, SizesTrue
<1> QED
  BY <1>3, <1>4, <1>5, <1>6 DEF MailInv

\* A rank that leaves a call has received all that was sent to it before, and
\* its neighbours all it has sent.
LEMMA LeaveMail ==
  ASSUME CallInv, MailInv, NEW r \in Ranks, Waiting(r), Complete(r),
         UNCHANGED <<nd, CT, mail, sizes, told, dim, pending, p>>,
         pc'[r] \in {"start", "sweep", "timing", "end"},
         \A q \in Ranks : q # r => pc'[q] = pc[q] /\ Epoch(q)' = Epoch(q),
         Epoch(r)' = Epoch(r) + 1
  PROVE  MailInv'
<1>1. /\ Ranks' = Ranks /\ \A x, d, s, q : Beside(x, d, s, q)' <=> Beside(x, d, s, q)
  BY Fixed
<1>2. \A d \in Dims, s \in Sides : /\ ~LayerSent(r, d)' /\ ~SizeSent(r, d)'
                                   /\ ~LayerGot(r, d, s)' /\ ~SizeGot(r, d, s)'
  BY DEF LayerSent, SizeSent, LayerGot, SizeGot, Exchanging
<1>3. \A q \in Ranks, d \in Dims, s \in Sides : q # r =>
        /\ LayerSent(q, d)' <=> LayerSent(q, d)
        /\ SizeSent(q, d)' <=> SizeSent(q, d)
        /\ LayerGot(q, d, s)' <=> LayerGot(q, d, s)
        /\ SizeGot(q, d, s)' <=> SizeGot(q, d, s)
  BY DEF LayerSent, SizeSent, LayerGot, SizeGot, Exchanging
<1>4. \A q \in Ranks : /\ entered[q] \in Nat /\ Epoch(q) \in Nat
                       /\ Epoch(q) <= Epoch(r) + 1 /\ entered[q] >= Epoch(r) + 1
  BY EpochType DEF CallInv, Sync, Complete
<1>5. ASSUME NEW q \in Ranks, Epoch(q) = Epoch(r)
      PROVE  Waiting(q) /\ pc[q] = pc[r]
  <2>1. Waiting(q)
    BY <1>4, <1>5, EpochType DEF CallInv
  <2>2. KindOf(pc[q]) = KindOf(pc[r])
    BY <1>5 DEF CallInv, Alike, Plan
  <2> QED
    BY <2>1, <2>2 DEF Waiting, KindOf
<1>6. ASSUME NEW q \in Ranks, Waiting(q), NEW d \in Dims, NEW s \in Sides
      PROVE  /\ LayerSent(q, d) <=> pc[q] = "gosa"
             /\ SizeSent(q, d) <=> pc[q] = "gosa"
             /\ LayerGot(q, d, s) <=> pc[q] = "gosa"
             /\ SizeGot(q, d, s) <=> pc[q] = "gosa"
  BY <1>6 DEF Waiting, LayerSent, SizeSent, LayerGot, SizeGot, Exchanging
<1>7. \A q \in Ranks : Epoch(q) # Epoch(r) + 1 + 1 /\ Epoch(r) # Epoch(q) + 1
  <2> SUFFICES ASSUME NEW q \in Ranks, Epoch(r) = Epoch(q) + 1 PROVE FALSE
    BY <1>4
  <2>1. entered[q] <= Epoch(q) + 1
    BY EpochType DEF CallInv
  <2> QED
    BY <1>4, <2>1
<1>8. \A q \in Ranks : q # r => Epoch(q) # Epoch(r) + 1 \/ Epoch(q)' = Epoch(r)'
  OBVIOUS
<1>9. LayersInv'
  <2> SUFFICES ASSUME NEW x \in Ranks, NEW d \in Dims, NEW s \in Sides, NEW q \in Ranks,
                      Beside(x, d, s, q)
               PROVE  /\ NoneEarly(x, q, LayerSent(q, d), LayerGot(x, d, s))'
                      /\ UnderWay(x, q, LayerSent(q, d), LayerGot(x, d, s))' <=>
                         UnderWay(x, q, LayerSent(q, d), LayerGot(x, d, s))
    BY <1>1 DEF MailInv, LayersInv
  <2>1. NoneEarly(x, q, LayerSent(q, d), LayerGot(x, d, s)) /\ q # x
    BY Mutual DEF MailInv, LayersInv, CallInv
  <2>2. CASE x = r
    <3>1. Epoch(q) = Epoch(r) => (LayerSent(q, d) <=> LayerGot(r, d, s))
      BY <1>5, <1>6
    <3> QED
      BY <1>2, <1>3, <1>4, <1>7, <2>1, <2>2, <3>1 DEF NoneEarly, UnderWay
  <2>3. CASE q = r
    <3>1. Epoch(x) = Epoch(r) => (LayerSent(r, d) <=> LayerGot(x, d, s))
      BY <1>5, <1>6
    <3> QED
      BY <1>2, <1>3, <1>4, <1>7, <2>1, <2>3, <3>1 DEF NoneEarly, UnderWay
  <2>4. CASE x # r /\ q # r
    BY <1>3, <2>1, <2>4 DEF NoneEarly, UnderWay
  <2> QED
    BY <2>2, <2>3, <2>4
<1>10. SizesInv'
  <2> SUFFICES ASSUME NEW x \in Ranks, NEW d \in Dims, NEW s \in Sides, NEW q \in Ranks,
                      Beside(x, d, s, q), CT # 0
               PROVE  /\ NoneEarly(x, q, SizeSent(q, d), SizeGot(x, d, s))'
                      /\ UnderWay(x, q, SizeSent(q, d), SizeGot(x, d, s))' <=>
                         UnderWay(x, q, SizeSent(q, d), SizeGot(x, d, s))
    BY <1>1 DEF MailInv, SizesInv
  <2>1. NoneEarly(x, q, SizeSent(q, d), SizeGot(x, d, s)) /\ q # x
    BY Mutual DEF MailInv, SizesInv, CallInv
  <2>2. CASE x = r
    <3>1. Epoch(q) = Epoch(r) => (SizeSent(q, d) <=> SizeGot(r, d, s))
      BY <1>5, <1>6
    <3> QED
      BY <1>2, <1>3, <1>4, <1>7, <2>1, <2>2, <3>1 DEF NoneEarly, UnderWay
  <2>3. CASE q = r
    <3>1. Epoch(x) = Epoch(r) => (SizeSent(r, d) <=> SizeGot(x, d, s))
      BY <1>5, <1>6
    <3> QED
      BY <1>2, <1>3, <1>4, <1>7, <2>1, <2>3, <3>1 DEF NoneEarly, UnderWay
  <2>4. CASE x # r /\ q # r
    BY <1>3, <2>1, <2>4 DEF NoneEarly, UnderWay
  <2> QED
    BY <2>2, <2>3, <2>4
<1>11. Silent'
  BY <1>1 DEF MailInv, Silent
<1>12. SizesTrue'
  <2>1. \A q \in Ranks : \A d, s : Cut(q, d, s)' = Cut(q, d, s)
    BY DEF Cut, Carried, SentLayer
  <2>2. \A x, d, s : SizeHeld(x, d, s)' = SizeHeld(x, d, s)
    BY DEF SizeHeld
  <2> QED
    BY <1>1, <2>1, <2>2 DEF MailInv, SizesTrue
<1> QED
  BY <1>9, <1>10, <1>11, <1>12 DEF MailInv

\* Seen from a rank that does not wait, the others are in its epoch or wait at
\* the end of the one before.
LEMMA Apart ==
  ASSUME CallInv, NEW r \in Ranks, ~Waiting(r), NEW x \in Ranks
  PROVE  /\ Epoch(x) \in Nat /\ Epoch(r) \in Nat
         /\ Epoch(x) = Epoch(r) \/ (Epoch(r) = Epoch(x) + 1 /\ Waiting(x))
<1>1. /\ entered[x] \in Nat /\ entered[r] \in Nat /\ Epoch(x) \in Nat
      /\ Epoch(r) = entered[r] /\ Epoch(x) <= entered[r] /\ Epoch(r) <= entered[x]
  BY EpochType DEF CallInv, Sync
<1>2. Epoch(x) = entered[x] \/ (Waiting(x) /\ Epoch(x) = entered[x] - 1)
  BY EpochType DEF CallInv
<1> QED
  BY <1>1, <1>2

\* What a step of r leaves alone.
LEMMA Elsewhere ==
  ASSUME NEW q, pc'[q] = pc[q], dim'[q] = dim[q], pending'[q] = pending[q]
  PROVE  \A d, s : /\ LayerSent(q, d)' <=> LayerSent(q, d)
                   /\ SizeSent(q, d)' <=> SizeSent(q, d)
                   /\ LayerGot(q, d, s)' <=> LayerGot(q, d, s)
                   /\ SizeGot(q, d, s)' <=> SizeGot(q, d, s)
BY DEF LayerSent, SizeSent, LayerGot, SizeGot, Exchanging

\* The arrays of a rank that has not changed are cut as before.
LEMMA SameCut ==
  ASSUME UNCHANGED <<nd, CT>>, NEW q, p'[q] = p[q]
  PROVE  \A d, s : Cut(q, d, s)' = Cut(q, d, s)
BY DEF Cut, Carried, SentLayer

\* sendp3, sendp2, sendp1: one layer to each neighbour, which has none under way
\* from r.
LEMMA PostMail ==
  ASSUME CallInv, MailInv, NEW r \in Ranks, Post(r),
         \A q \in Ranks : Epoch(q)' = Epoch(q)
  PROVE  MailInv'
<1>0. Shapes /\ Counters
  BY DEF CallInv
<1>d. PICK d \in Dims : d = dim[r]
  BY <1>0 DEF Counters, Exchanging, Post
<1>1. /\ Ranks' = Ranks /\ nd' = nd /\ CT' = CT
      /\ \A x, e, s, q : Beside(x, e, s, q)' <=> Beside(x, e, s, q)
      /\ sizes' = sizes /\ told' = told /\ p' = p /\ dim' = dim
  BY Fixed DEF Post, fixed, sizevars
<1>2. /\ pc[r] = IF CT = 0 THEN "post" ELSE "layers"
      /\ pc'[r] = "wait" /\ pending'[r] = Near(r, d) /\ mail' = SentBy(r, d, mail)
      /\ \A q \in Ranks : q # r => pc'[q] = pc[q] /\ pending'[q] = pending[q]
  BY <1>0, <1>d DEF Post, GoTo, Shapes
<1>3. d \in Dims /\ d = dim[r] /\ ~Waiting(r)
  BY <1>d, <1>2 DEF Waiting
<1>4. \A x \in Ranks, e \in Dims, s \in Sides :
        mail'[x][e][s] = IF e = d /\ Beside(x, d, s, r)
                         THEN Append(mail[x][d][s], Cut(r, d, 1 - s)) ELSE mail[x][e][s]
  <2>1. Boxed(mail)
    BY <1>0 DEF Shapes
  <2> QED
    BY <1>0, <1>2, <1>3, <2>1, SentByIs
<1>5. \A q \in Ranks : q # r => \A e, s :
        /\ LayerSent(q, e)' <=> LayerSent(q, e)
        /\ SizeSent(q, e)' <=> SizeSent(q, e)
        /\ LayerGot(q, e, s)' <=> LayerGot(q, e, s)
        /\ SizeGot(q, e, s)' <=> SizeGot(q, e, s)
  BY <1>1, <1>2, Elsewhere
<1>6. \A e \in Dims : /\ LayerSent(r, e)' <=> LayerSent(r, e) \/ e = d
                      /\ CT # 0 => (SizeSent(r, e)' <=> SizeSent(r, e))
  BY <1>1, <1>2, <1>3 DEF LayerSent, SizeSent, Exchanging, Dims
<1>7. \A e \in Dims, s \in Sides :
        /\ s \in Near(r, e) => (LayerGot(r, e, s)' <=> LayerGot(r, e, s))
        /\ CT # 0 => (SizeGot(r, e, s)' <=> SizeGot(r, e, s))
  BY <1>1, <1>2, <1>3 DEF LayerGot, SizeGot, Exchanging, Dims
<1>8. ~LayerSent(r, d)
  BY <1>2, <1>3 DEF LayerSent, Exchanging, Dims
<1>9. ASSUME NEW x \in Ranks, NEW s \in Sides, Beside(x, d, s, r)
      PROVE  /\ mail[x][d][s] = << >> /\ mail'[x][d][s] = <<Cut(r, d, 1 - s)>>
             /\ NoneEarly(x, r, LayerSent(r, d), LayerGot(x, d, s))'
             /\ UnderWay(x, r, LayerSent(r, d), LayerGot(x, d, s))'
  <2>1. /\ NoneEarly(x, r, LayerSent(r, d), LayerGot(x, d, s))
        /\ IF UnderWay(x, r, LayerSent(r, d), LayerGot(x, d, s))
           THEN Single(mail[x][d][s]) ELSE mail[x][d][s] = << >>
    BY <1>3, <1>9 DEF MailInv, LayersInv
  <2>2. x # r
    BY <1>0, <1>3, <1>9, Mutual
  <2>3. mail[x][d][s] = << >>
    BY <1>8, <2>1 DEF UnderWay
  <2>4. /\ Epoch(x) \in Nat /\ Epoch(r) \in Nat
        /\ Epoch(x) = Epoch(r) \/ Epoch(r) = Epoch(x) + 1
    BY <1>3, Apart
  <2>5. Epoch(x) = Epoch(r) => ~LayerGot(x, d, s)
    BY <1>8, <2>1, <2>4 DEF NoneEarly
  <2>6. LayerSent(r, d)' /\ (LayerGot(x, d, s)' <=> LayerGot(x, d, s))
    BY <1>3, <1>5, <1>6, <2>2
  <2>7. Epoch(x)' = Epoch(x) /\ Epoch(r)' = Epoch(r)
    OBVIOUS
  <2>8. mail'[x][d][s] = <<Cut(r, d, 1 - s)>>
    <3>1. mail'[x][d][s] = Append(<< >>, Cut(r, d, 1 - s))
      BY <1>3, <1>4, <1>9, <2>3
    <3> QED
      BY <3>1, OneMessage
  <2> QED
    BY <2>3, <2>4, <2>5, <2>6, <2>7, <2>8 DEF NoneEarly, UnderWay
<1>10. LayersInv'
  <2> SUFFICES ASSUME NEW x \in Ranks, NEW e \in Dims, NEW s \in Sides, NEW q \in Ranks,
                      Beside(x, e, s, q)
               PROVE  /\ NoneEarly(x, q, LayerSent(q, e), LayerGot(x, e, s))'
                      /\ IF UnderWay(x, q, LayerSent(q, e), LayerGot(x, e, s))'
                         THEN Single(mail'[x][e][s]) ELSE mail'[x][e][s] = << >>
    BY <1>1 DEF LayersInv
  <2>1. CASE q = r /\ e = d
    <3>1. mail'[x][e][s] = <<Cut(r, d, 1 - s)>>
      BY <1>9, <2>1
    <3>2. Single(mail'[x][e][s])
      BY <3>1, OneMessage DEF Single
    <3> QED
      BY <1>9, <2>1, <3>2
  <2>2. CASE ~(q = r /\ e = d)
    <3>1. mail'[x][e][s] = mail[x][e][s]
      BY <1>4, <2>2 DEF Beside
    <3>2. LayerSent(q, e)' <=> LayerSent(q, e)
      BY <1>5, <1>6, <2>2
    <3>3. LayerGot(x, e, s)' <=> LayerGot(x, e, s)
      <4>1. s \in Near(x, e)
        BY <1>0, Mutual
      <4> QED
        BY <1>5, <1>7, <4>1
    <3> QED
      BY <3>1, <3>2, <3>3 DEF MailInv, LayersInv, NoneEarly, UnderWay
  <2> QED
    BY <2>1, <2>2
<1>11. SizesInv'
  <2>1. CT # 0 => \A q \in Ranks, e \in Dims, s \in Sides :
          /\ SizeSent(q, e)' <=> SizeSent(q, e)
          /\ SizeGot(q, e, s)' <=> SizeGot(q, e, s)
    BY <1>5, <1>6, <1>7
  <2> QED
    BY <1>1, <2>1 DEF MailInv, SizesInv, NoneEarly, UnderWay
<1>12. Silent'
  <2> SUFFICES ASSUME NEW x \in Ranks, NEW e \in Dims, NEW s \in Sides,
                      Neighbour(nd, x, e, s) = ProcNull
               PROVE  mail'[x][e][s] = << >> /\ sizes[x][e][s] = << >>
    BY <1>1 DEF Silent
  <2>1. ~Beside(x, e, s, r)
    BY <1>0, Mutual DEF Near
  <2> QED
    BY <1>4, <2>1 DEF MailInv, Silent
<1>13. SizesTrue'
  <2> SUFFICES ASSUME CT # 0, NEW x \in Ranks, NEW e \in Dims, NEW s \in Sides,
                      NEW q \in Ranks, Beside(x, e, s, q)
               PROVE  /\ pc'[q] \in {"sizes", "layers"} /\ dim[q] = e =>
                           SizeHeld(x, e, s) = Cut(q, e, 1 - s)
                      /\ mail'[x][e][s] # << >> => SizeHeld(x, e, s) = Head(mail'[x][e][s])
    <3>1. \A x, e, s : SizeHeld(x, e, s)' = SizeHeld(x, e, s)
      BY <1>1 DEF SizeHeld
    <3>2. \A q, e, s : Cut(q, e, s)' = Cut(q, e, s)
      BY <1>1, SameCut
    <3> QED
      BY <1>1, <3>1, <3>2 DEF SizesTrue
  <2>1. /\ pc[q] \in {"sizes", "layers"} /\ dim[q] = e =>
             SizeHeld(x, e, s) = Cut(q, e, 1 - s)
        /\ mail[x][e][s] # << >> => SizeHeld(x, e, s) = Head(mail[x][e][s])
    BY DEF MailInv, SizesTrue
  <2>2. CASE q = r /\ e = d
    <3>1. mail'[x][e][s] = <<Cut(r, d, 1 - s)>>
      BY <1>9, <2>2
    <3>2. SizeHeld(x, e, s) = Cut(r, d, 1 - s)
      BY <1>2, <1>3, <2>1, <2>2
    <3> QED
      BY <1>2, <2>2, <3>1, <3>2, OneMessage
  <2>3. CASE ~(q = r /\ e = d)
    <3>1. mail'[x][e][s] = mail[x][e][s]
      BY <1>4, <2>3 DEF Beside
    <3>2. pc'[q] \in {"sizes", "layers"} => pc[q] \in {"sizes", "layers"}
      BY <1>2
    <3> QED
      BY <2>1, <3>1, <3>2
  <2> QED
    BY <2>2, <2>3
<1> QED
  BY <1>10, <1>11, <1>12, <1>13 DEF MailInv

\* The sizes go before the layers, one to each neighbour.
LEMMA PostSizesMail ==
  ASSUME CallInv, MailInv, NEW r \in Ranks, PostSizes(r),
         \A q \in Ranks : Epoch(q)' = Epoch(q)
  PROVE  MailInv'
<1>0. Shapes /\ Counters
  BY DEF CallInv
<1>d. PICK d \in Dims : d = dim[r]
  BY <1>0 DEF Counters, Exchanging, PostSizes
<1>1. /\ Ranks' = Ranks /\ nd' = nd /\ CT' = CT
      /\ \A x, e, s, q : Beside(x, e, s, q)' <=> Beside(x, e, s, q)
      /\ mail' = mail /\ told' = told /\ p' = p /\ dim' = dim /\ CT # 0
  BY Fixed DEF PostSizes, fixed
<1>2. /\ pc[r] = "post" /\ pc'[r] = "sizes" /\ pending'[r] = Near(r, d)
      /\ sizes' = SentBy(r, d, sizes)
      /\ \A q \in Ranks : q # r => pc'[q] = pc[q] /\ pending'[q] = pending[q]
  BY <1>0, <1>d DEF PostSizes, GoTo, Shapes
<1>3. d \in Dims /\ d = dim[r] /\ ~Waiting(r)
  BY <1>d, <1>2 DEF Waiting
<1>4. \A x \in Ranks, e \in Dims, s \in Sides :
        sizes'[x][e][s] = IF e = d /\ Beside(x, d, s, r)
                          THEN Append(sizes[x][d][s], Cut(r, d, 1 - s)) ELSE sizes[x][e][s]
  <2>1. Boxed(sizes)
    BY <1>0 DEF Shapes
  <2> QED
    BY <1>0, <1>2, <1>3, <2>1, SentByIs
<1>5. \A q \in Ranks : q # r => \A e, s :
        /\ LayerSent(q, e)' <=> LayerSent(q, e)
        /\ SizeSent(q, e)' <=> SizeSent(q, e)
        /\ LayerGot(q, e, s)' <=> LayerGot(q, e, s)
        /\ SizeGot(q, e, s)' <=> SizeGot(q, e, s)
  BY <1>1, <1>2, Elsewhere
<1>6. \A e \in Dims : /\ SizeSent(r, e)' <=> SizeSent(r, e) \/ e = d
                      /\ LayerSent(r, e)' <=> LayerSent(r, e)
  BY <1>1, <1>2, <1>3 DEF LayerSent, SizeSent, Exchanging, Dims
<1>7. \A e \in Dims, s \in Sides :
        /\ s \in Near(r, e) => (SizeGot(r, e, s)' <=> SizeGot(r, e, s))
        /\ LayerGot(r, e, s)' <=> LayerGot(r, e, s)
  BY <1>1, <1>2, <1>3 DEF LayerGot, SizeGot, Exchanging, Dims
<1>8. ~SizeSent(r, d) /\ ~LayerSent(r, d)
  BY <1>2, <1>3 DEF SizeSent, LayerSent, Exchanging, Dims
<1>9. ASSUME NEW x \in Ranks, NEW s \in Sides, Beside(x, d, s, r)
      PROVE  /\ sizes'[x][d][s] = <<Cut(r, d, 1 - s)>> /\ mail[x][d][s] = << >>
             /\ NoneEarly(x, r, SizeSent(r, d), SizeGot(x, d, s))'
             /\ UnderWay(x, r, SizeSent(r, d), SizeGot(x, d, s))'
  <2>1. /\ NoneEarly(x, r, SizeSent(r, d), SizeGot(x, d, s))
        /\ IF UnderWay(x, r, SizeSent(r, d), SizeGot(x, d, s))
           THEN Single(sizes[x][d][s]) ELSE sizes[x][d][s] = << >>
        /\ IF UnderWay(x, r, LayerSent(r, d), LayerGot(x, d, s))
           THEN Single(mail[x][d][s]) ELSE mail[x][d][s] = << >>
    BY <1>1, <1>3, <1>9 DEF MailInv, SizesInv, LayersInv
  <2>2. x # r
    BY <1>0, <1>3, <1>9, Mutual
  <2>3. sizes[x][d][s] = << >> /\ mail[x][d][s] = << >>
    BY <1>8, <2>1 DEF UnderWay
  <2>4. /\ Epoch(x) \in Nat /\ Epoch(r) \in Nat
        /\ Epoch(x) = Epoch(r) \/ Epoch(r) = Epoch(x) + 1
    BY <1>3, Apart
  <2>5. Epoch(x) = Epoch(r) => ~SizeGot(x, d, s)
    BY <1>8, <2>1, <2>4 DEF NoneEarly
  <2>6. SizeSent(r, d)' /\ (SizeGot(x, d, s)' <=> SizeGot(x, d, s))
    BY <1>3, <1>5, <1>6, <2>2
  <2>7. Epoch(x)' = Epoch(x) /\ Epoch(r)' = Epoch(r)
    OBVIOUS
  <2>8. sizes'[x][d][s] = <<Cut(r, d, 1 - s)>>
    <3>1. sizes'[x][d][s] = Append(<< >>, Cut(r, d, 1 - s))
      BY <1>3, <1>4, <1>9, <2>3
    <3> QED
      BY <3>1, OneMessage
  <2> QED
    BY <2>3, <2>4, <2>5, <2>6, <2>7, <2>8 DEF NoneEarly, UnderWay
<1>10. ASSUME NEW x \in Ranks, NEW e \in Dims, NEW s \in Sides, NEW q \in Ranks,
              Beside(x, e, s, q), ~(q = r /\ e = d)
       PROVE  sizes'[x][e][s] = sizes[x][e][s]
  BY <1>4, <1>10 DEF Beside
<1>11. LayersInv'
  <2>1. \A q \in Ranks, e \in Dims, s \in Sides :
          /\ LayerSent(q, e)' <=> LayerSent(q, e)
          /\ LayerGot(q, e, s)' <=> LayerGot(q, e, s)
    BY <1>5, <1>6, <1>7
  <2> QED
    BY <1>1, <2>1 DEF MailInv, LayersInv, NoneEarly, UnderWay
<1>12. SizesInv'
  <2> SUFFICES ASSUME NEW x \in Ranks, NEW e \in Dims, NEW s \in Sides, NEW q \in Ranks,
                      Beside(x, e, s, q)
               PROVE  /\ NoneEarly(x, q, SizeSent(q, e), SizeGot(x, e, s))'
                      /\ IF UnderWay(x, q, SizeSent(q, e), SizeGot(x, e, s))'
                         THEN Single(sizes'[x][e][s]) ELSE sizes'[x][e][s] = << >>
    BY <1>1 DEF SizesInv
  <2>1. CASE q = r /\ e = d
    <3>1. sizes'[x][e][s] = <<Cut(r, d, 1 - s)>>
      BY <1>9, <2>1
    <3>2. Single(sizes'[x][e][s])
      BY <3>1, OneMessage DEF Single
    <3> QED
      BY <1>9, <2>1, <3>2
  <2>2. CASE ~(q = r /\ e = d)
    <3>1. sizes'[x][e][s] = sizes[x][e][s]
      BY <1>10, <2>2
    <3>2. SizeSent(q, e)' <=> SizeSent(q, e)
      BY <1>5, <1>6, <2>2
    <3>3. SizeGot(x, e, s)' <=> SizeGot(x, e, s)
      <4>1. s \in Near(x, e)
        BY <1>0, Mutual
      <4> QED
        BY <1>5, <1>7, <4>1
    <3> QED
      BY <1>1, <3>1, <3>2, <3>3 DEF MailInv, SizesInv, NoneEarly, UnderWay
  <2> QED
    BY <2>1, <2>2
<1>13. Silent'
  <2> SUFFICES ASSUME NEW x \in Ranks, NEW e \in Dims, NEW s \in Sides,
                      Neighbour(nd, x, e, s) = ProcNull
               PROVE  mail[x][e][s] = << >> /\ sizes'[x][e][s] = << >>
    BY <1>1 DEF Silent
  <2>1. ~Beside(x, e, s, r)
    BY <1>0, Mutual DEF Near
  <2> QED
    BY <1>4, <2>1 DEF MailInv, Silent
<1>14. SizesTrue'
  <2>0. \A q, e, s : Cut(q, e, s)' = Cut(q, e, s)
    BY <1>1, SameCut
  <2> SUFFICES ASSUME NEW x \in Ranks, NEW e \in Dims, NEW s \in Sides,
                      NEW q \in Ranks, Beside(x, e, s, q)
               PROVE  /\ pc'[q] \in {"sizes", "layers"} /\ dim[q] = e =>
                           SizeHeld(x, e, s)' = Cut(q, e, 1 - s)
                      /\ mail[x][e][s] # << >> => SizeHeld(x, e, s)' = Head(mail[x][e][s])
    BY <1>1, <2>0 DEF SizesTrue
  <2>1. /\ pc[q] \in {"sizes", "layers"} /\ dim[q] = e =>
             SizeHeld(x, e, s) = Cut(q, e, 1 - s)
        /\ mail[x][e][s] # << >> => SizeHeld(x, e, s) = Head(mail[x][e][s])
    BY <1>1 DEF MailInv, SizesTrue
  <2>2. CASE q = r /\ e = d
    <3>1. sizes'[x][e][s] = <<Cut(r, d, 1 - s)>> /\ mail[x][e][s] = << >>
      BY <1>9, <2>2
    <3>2. SizeHeld(x, e, s)' = Cut(r, d, 1 - s)
      BY <3>1, OneMessage DEF SizeHeld
    <3> QED
      BY <2>2, <3>1, <3>2
  <2>3. CASE ~(q = r /\ e = d)
    <3>1. SizeHeld(x, e, s)' = SizeHeld(x, e, s)
      BY <1>1, <1>10, <2>3 DEF SizeHeld
    <3>2. pc'[q] \in {"sizes", "layers"} /\ dim[q] = e => pc[q] \in {"sizes", "layers"}
      BY <1>2, <1>3, <2>3
    <3> QED
      BY <2>1, <3>1, <3>2
  <2> QED
    BY <2>2, <2>3
<1> QED
  BY <1>11, <1>12, <1>13, <1>14 DEF MailInv

\* While r exchanges the layers of one dimension, what SizesTrue says of another
\* is about a size still under way: not about told.
LEMMA ToldElsewhere ==
  ASSUME CallInv, MailInv, CT # 0, NEW r \in Ranks, Exchanging(r),
         NEW e \in Dims, e # dim[r], NEW s \in Sides, NEW q \in Ranks, Beside(r, e, s, q),
         \/ pc[q] \in {"sizes", "layers"} /\ dim[q] = e
         \/ mail[r][e][s] # << >>
  PROVE  sizes[r][e][s] # << >>
<1>1. /\ NoneEarly(r, q, LayerSent(q, e), LayerGot(r, e, s))
      /\ ~UnderWay(r, q, LayerSent(q, e), LayerGot(r, e, s)) => mail[r][e][s] = << >>
      /\ UnderWay(r, q, SizeSent(q, e), SizeGot(r, e, s)) => Single(sizes[r][e][s])
  BY DEF MailInv, LayersInv, SizesInv
<1>2. /\ Epoch(q) \in Nat /\ Epoch(r) \in Nat
      /\ Epoch(q) = Epoch(r) \/ (Epoch(r) = Epoch(q) + 1 /\ Waiting(q))
  BY Apart DEF Exchanging, Waiting
<1>3. dim[r] \in Dims
  BY DEF CallInv, Counters
<1>4. Epoch(q) = Epoch(r)
  BY <1>1, <1>2 DEF UnderWay, Waiting
<1>5. e > dim[r] => LayerGot(r, e, s)
  BY <1>3 DEF LayerGot, Dims
<1>6. e < dim[r] => ~SizeGot(r, e, s)
  BY <1>3 DEF SizeGot, Exchanging, Dims
<1>7. SizeSent(q, e)
  BY <1>1, <1>4 DEF SizeSent, LayerSent, UnderWay
<1>8. ~(e > dim[r])
  <2> SUFFICES ASSUME e > dim[r] PROVE FALSE
    OBVIOUS
  <2>1. LayerSent(q, e)
    BY <1>1, <1>2, <1>4, <1>5 DEF NoneEarly
  <2>2. mail[r][e][s] = << >>
    BY <1>1, <1>2, <1>4, <1>5 DEF UnderWay
  <2>3. pc[q] \in {"sizes", "layers"} /\ dim[q] = e
    BY <2>2
  <2> QED
    BY <2>1, <2>3 DEF LayerSent, Exchanging, Dims
<1>9. Single(sizes[r][e][s])
  BY <1>1, <1>3, <1>4, <1>6, <1>7, <1>8 DEF UnderWay, Dims
<1> QED
  BY <1>9, OneMessage DEF Single

PutBox(box, r, d, s, v) == [box EXCEPT ![r][d][s] = v]
PutTold(r, s, v) == [told EXCEPT ![r][s] = v]

\* One box changed.
LEMMA OneBox ==
  ASSUME NEW box, Boxed(box), NEW r \in Ranks, NEW d \in Dims, NEW s \in Sides, NEW v
  PROVE  /\ Boxed(PutBox(box, r, d, s, v))
         /\ \A x \in Ranks, e \in Dims, t \in Sides :
              PutBox(box, r, d, s, v)[x][e][t] =
                IF x = r /\ e = d /\ t = s THEN v ELSE box[x][e][t]
<1> DEFINE new == PutBox(box, r, d, s, v)
           f == [box[r][d] EXCEPT ![s] = v]
           g == [box[r] EXCEPT ![d] = f]
<1>1. /\ box = [x \in Ranks |-> box[x]]
      /\ \A x \in Ranks : box[x] = [e \in Dims |-> box[x][e]]
      /\ \A x \in Ranks, e \in Dims : box[x][e] = [t \in Sides |-> box[x][e][t]]
  BY DEF Boxed
<1>2. new = [box EXCEPT ![r] = g]
  BY DEF PutBox
<1>3. f = [t \in Sides |-> f[t]] /\ \A t \in Sides : f[t] = IF t = s THEN v ELSE box[r][d][t]
  BY <1>1
<1> HIDE DEF f
<1>4. g = [e \in Dims |-> g[e]] /\ \A e \in Dims : g[e] = IF e = d THEN f ELSE box[r][e]
  BY <1>1
<1> HIDE DEF g
<1>5. new = [x \in Ranks |-> new[x]] /\ \A x \in Ranks : new[x] = IF x = r THEN g ELSE box[x]
  BY <1>1, <1>2
<1> HIDE DEF new
<1>6. \A x \in Ranks, e \in Dims, t \in Sides :
        new[x][e][t] = IF x = r /\ e = d /\ t = s THEN v ELSE box[x][e][t]
  BY <1>3, <1>4, <1>5
<1>7. Boxed(new)
  <2>1. \A x \in Ranks : new[x] = [e \in Dims |-> new[x][e]]
    BY <1>1, <1>4, <1>5
  <2>2. \A x \in Ranks, e \in Dims : new[x][e] = [t \in Sides |-> new[x][e][t]]
    BY <1>1, <1>3, <1>4, <1>5
  <2>3. \A x \in Ranks : new[x] = [e \in Dims |-> [t \in Sides |-> new[x][e][t]]]
    BY <2>1, <2>2
  <2> QED
    BY <1>5, <2>3 DEF Boxed
<1> QED
  BY <1>6, <1>7 DEF new

\* The channels for sizes after a change of one of them.
LEMMA OneTold ==
  ASSUME Shapes, NEW r \in Ranks, NEW s \in Sides, NEW v
  PROVE  /\ PutTold(r, s, v) = [x \in Ranks |-> [t \in Sides |-> PutTold(r, s, v)[x][t]]]
         /\ \A x \in Ranks, t \in Sides :
              PutTold(r, s, v)[x][t] = IF x = r /\ t = s THEN v ELSE told[x][t]
<1> DEFINE new == PutTold(r, s, v)
           f == [told[r] EXCEPT ![s] = v]
<1>1. /\ told = [x \in Ranks |-> told[x]]
      /\ \A x \in Ranks : told[x] = [t \in Sides |-> told[x][t]]
  BY DEF Shapes
<1>2. new = [told EXCEPT ![r] = f]
  BY DEF PutTold
<1>3. f = [t \in Sides |-> f[t]] /\ \A t \in Sides : f[t] = IF t = s THEN v ELSE told[r][t]
  BY <1>1
<1> HIDE DEF f
<1>4. new = [x \in Ranks |-> new[x]] /\ \A x \in Ranks : new[x] = IF x = r THEN f ELSE told[x]
  BY <1>1, <1>2
<1> HIDE DEF new
<1>5. \A x \in Ranks, t \in Sides : new[x][t] = IF x = r /\ t = s THEN v ELSE told[x][t]
  BY <1>3, <1>4
<1>6. \A x \in Ranks : new[x] = [t \in Sides |-> new[x][t]]
  BY <1>1, <1>3, <1>4
<1>7. new = [x \in Ranks |-> [t \in Sides |-> new[x][t]]]
  BY <1>4, <1>6
<1> QED
  BY <1>5, <1>7 DEF new

\* A message r waits for: it is from the epoch of r, and the only one.
LEMMA InEpoch ==
  ASSUME CallInv, NEW r \in Ranks, ~Waiting(r), NEW q \in Ranks, NEW sent, NEW got, NEW box,
         IF UnderWay(r, q, sent, got) THEN Single(box) ELSE box = << >>, box # << >>
  PROVE  /\ Epoch(q) = Epoch(r) /\ sent /\ ~got
         /\ box = <<Head(box)>> /\ Tail(box) = << >>
<1>1. UnderWay(r, q, sent, got) /\ Single(box)
  OBVIOUS
<1>2. /\ Epoch(q) \in Nat /\ Epoch(r) \in Nat
      /\ Epoch(q) = Epoch(r) \/ Epoch(r) = Epoch(q) + 1
  BY Apart
<1>3. Epoch(q) = Epoch(r) /\ sent /\ ~got
  BY <1>1, <1>2 DEF UnderWay
<1> QED
  BY <1>1, <1>3, OneMessage DEF Single

\* A size arrives.
LEMMA ArriveSizeMail ==
  ASSUME CallInv, MailInv, NEW r \in Ranks, NEW side \in Sides, ArriveSize(r, side),
         \A q \in Ranks : Epoch(q)' = Epoch(q)
  PROVE  MailInv'
<1>0. Shapes /\ Counters
  BY DEF CallInv
<1>d. PICK d \in Dims : d = dim[r]
  BY <1>0 DEF Counters, Exchanging, ArriveSize
<1>1. /\ Ranks' = Ranks /\ nd' = nd /\ CT' = CT
      /\ \A x, e, s, q : Beside(x, e, s, q)' <=> Beside(x, e, s, q)
      /\ mail' = mail /\ p' = p /\ dim' = dim /\ CT # 0
  BY <1>0, Fixed DEF ArriveSize, fixed, Counters
<1>2. /\ pc[r] = "sizes" /\ pc'[r] = (IF pending[r] = {side} THEN "layers" ELSE "sizes")
      /\ side \in pending[r] /\ pending[r] \subseteq Sides
      /\ pending'[r] = pending[r] \ {side} /\ pending[r] \subseteq Near(r, d)
      /\ \A q \in Ranks : q # r => pc'[q] = pc[q] /\ pending'[q] = pending[q]
      /\ sizes[r][d][side] # << >>
  BY <1>0, <1>d DEF ArriveSize, GoTo, LastArrival, Shapes, Counters
<1>3. d \in Dims /\ d = dim[r] /\ ~Waiting(r) /\ Exchanging(r)
  BY <1>d, <1>2 DEF Waiting, Exchanging
<1>4. \A x \in Ranks, e \in Dims, s \in Sides :
        sizes'[x][e][s] = IF x = r /\ e = d /\ s = side THEN Tail(sizes[r][d][side])
                          ELSE sizes[x][e][s]
  <2>1. Boxed(sizes)
    BY <1>0 DEF Shapes
  <2>2. sizes' = PutBox(sizes, r, d, side, Tail(sizes[r][d][side]))
    BY <1>d DEF ArriveSize, PutBox
  <2> QED
    BY <2>1, <2>2, OneBox
<1>5. \A x \in Ranks, s \in Sides :
        told'[x][s] = IF x = r /\ s = side THEN Head(sizes[r][d][side]) ELSE told[x][s]
  <2>1. told' = PutTold(r, side, Head(sizes[r][d][side]))
    BY <1>d DEF ArriveSize, PutTold
  <2> QED
    BY <1>0, <2>1, OneTold
<1>6. \A q \in Ranks : q # r => \A e, s :
        /\ LayerSent(q, e)' <=> LayerSent(q, e)
        /\ SizeSent(q, e)' <=> SizeSent(q, e)
        /\ LayerGot(q, e, s)' <=> LayerGot(q, e, s)
        /\ SizeGot(q, e, s)' <=> SizeGot(q, e, s)
  BY <1>1, <1>2, Elsewhere
<1>7. \A e \in Dims : /\ SizeSent(r, e)' <=> SizeSent(r, e)
                      /\ LayerSent(r, e)' <=> LayerSent(r, e)
  BY <1>1, <1>2, <1>3 DEF LayerSent, SizeSent, Exchanging, Dims
<1>8. \A e \in Dims, s \in Sides :
        /\ SizeGot(r, e, s)' <=> SizeGot(r, e, s) \/ (e = d /\ s = side)
        /\ LayerGot(r, e, s)' <=> LayerGot(r, e, s)
  BY <1>1, <1>2, <1>3 DEF LayerGot, SizeGot, Exchanging, Dims
<1>9. ASSUME NEW q \in Ranks, Beside(r, d, side, q)
      PROVE  /\ sizes'[r][d][side] = << >> /\ q # r
             /\ Epoch(q) = Epoch(r) /\ SizeSent(q, d)
  <2>1. IF UnderWay(r, q, SizeSent(q, d), SizeGot(r, d, side))
        THEN Single(sizes[r][d][side]) ELSE sizes[r][d][side] = << >>
    BY <1>1, <1>3, <1>9 DEF MailInv, SizesInv
  <2>2. /\ Epoch(q) = Epoch(r) /\ SizeSent(q, d) /\ Tail(sizes[r][d][side]) = << >>
    BY <1>2, <1>3, <2>1, InEpoch
  <2> QED
    BY <1>0, <1>3, <1>4, <1>9, <2>2, Mutual
<1>10. LayersInv'
  <2>1. \A q \in Ranks, e \in Dims, s \in Sides :
          /\ LayerSent(q, e)' <=> LayerSent(q, e)
          /\ LayerGot(q, e, s)' <=> LayerGot(q, e, s)
    BY <1>6, <1>7, <1>8
  <2> QED
    BY <1>1, <2>1 DEF MailInv, LayersInv, NoneEarly, UnderWay
<1>11. SizesInv'
  <2> SUFFICES ASSUME NEW x \in Ranks, NEW e \in Dims, NEW s \in Sides, NEW q \in Ranks,
                      Beside(x, e, s, q)
               PROVE  /\ NoneEarly(x, q, SizeSent(q, e), SizeGot(x, e, s))'
                      /\ IF UnderWay(x, q, SizeSent(q, e), SizeGot(x, e, s))'
                         THEN Single(sizes'[x][e][s]) ELSE sizes'[x][e][s] = << >>
    BY <1>1 DEF SizesInv
  <2>0. SizeSent(q, e)' <=> SizeSent(q, e)
    BY <1>6, <1>7
  <2>1. CASE x = r /\ e = d /\ s = side
    <3>1. /\ Epoch(q) = Epoch(r) /\ SizeSent(q, d) /\ sizes'[r][d][side] = << >>
      BY <1>9, <2>1
    <3>2. SizeGot(r, d, side)' /\ SizeSent(q, d)'
      BY <1>3, <1>8, <2>0, <2>1, <3>1
    <3>3. Epoch(q)' = Epoch(q) /\ Epoch(r)' = Epoch(r) /\ Epoch(r) \in Nat
      BY <1>3, Apart
    <3> QED
      BY <2>1, <3>1, <3>2, <3>3 DEF NoneEarly, UnderWay
  <2>2. CASE ~(x = r /\ e = d /\ s = side)
    <3>1. sizes'[x][e][s] = sizes[x][e][s]
      BY <1>4, <2>2
    <3>2. SizeGot(x, e, s)' <=> SizeGot(x, e, s)
      BY <1>6, <1>8, <2>2
    <3> QED
      BY <1>1, <2>0, <3>1, <3>2 DEF MailInv, SizesInv, NoneEarly, UnderWay
  <2> QED
    BY <2>1, <2>2
<1>12. Silent'
  <2> SUFFICES ASSUME NEW x \in Ranks, NEW e \in Dims, NEW s \in Sides,
                      Neighbour(nd, x, e, s) = ProcNull
               PROVE  mail[x][e][s] = << >> /\ sizes'[x][e][s] = << >>
    BY <1>1 DEF Silent
  <2>1. ~(x = r /\ e = d /\ s = side)
    BY <1>2 DEF Near
  <2> QED
    BY <1>4, <2>1 DEF MailInv, Silent
<1>13. SizesTrue'
  <2>0. \A q, e, s : Cut(q, e, s)' = Cut(q, e, s)
    BY <1>1, SameCut
  <2> SUFFICES ASSUME NEW x \in Ranks, NEW e \in Dims, NEW s \in Sides,
                      NEW q \in Ranks, Beside(x, e, s, q)
               PROVE  /\ pc'[q] \in {"sizes", "layers"} /\ dim[q] = e =>
                           SizeHeld(x, e, s)' = Cut(q, e, 1 - s)
                      /\ mail[x][e][s] # << >> => SizeHeld(x, e, s)' = Head(mail[x][e][s])
    BY <1>1, <2>0 DEF SizesTrue
  <2>1. /\ pc[q] \in {"sizes", "layers"} /\ dim[q] = e =>
             SizeHeld(x, e, s) = Cut(q, e, 1 - s)
        /\ mail[x][e][s] # << >> => SizeHeld(x, e, s) = Head(mail[x][e][s])
    BY <1>1 DEF MailInv, SizesTrue
  <2>2. pc'[q] \in {"sizes", "layers"} => pc[q] \in {"sizes", "layers"}
    BY <1>2
  <2>3. CASE x = r /\ e = d /\ s = side
    <3>1. sizes'[r][d][side] = << >> /\ told'[r][side] = Head(sizes[r][d][side])
      BY <1>5, <1>9, <2>3
    <3>2. SizeHeld(x, e, s)' = SizeHeld(x, e, s)
      BY <1>2, <2>3, <3>1 DEF SizeHeld
    <3> QED
      BY <2>1, <2>2, <3>2
  <2>4. CASE x = r /\ e # d /\ s = side
    <3>1. sizes'[x][e][s] = sizes[x][e][s]
      BY <1>4, <2>4
    <3>2. sizes[x][e][s] # << >> => SizeHeld(x, e, s)' = SizeHeld(x, e, s)
      BY <3>1 DEF SizeHeld
    <3>3. \/ pc[q] \in {"sizes", "layers"} /\ dim[q] = e
          \/ mail[x][e][s] # << >>
          => sizes[x][e][s] # << >>
      BY <1>1, <1>3, <2>4, ToldElsewhere
    <3> QED
      BY <2>1, <2>2, <3>2, <3>3
  <2>5. CASE ~(x = r /\ s = side)
    <3>1. SizeHeld(x, e, s)' = SizeHeld(x, e, s)
      BY <1>4, <1>5, <2>5 DEF SizeHeld
    <3> QED
      BY <2>1, <2>2, <3>1
  <2> QED
    BY <2>3, <2>4, <2>5
<1> QED
  BY <1>10, <1>11, <1>12, <1>13 DEF MailInv

\* A layer arrives; after the last one the next dimension with neighbours
\* follows.
LEMMA ArriveMail ==
  ASSUME CallInv, MailInv, NEW r \in Ranks, NEW side \in Sides, Arrive(r, side),
         \A q \in Ranks : Epoch(q)' = Epoch(q)
  PROVE  MailInv'
<1>0. Shapes /\ Counters
  BY DEF CallInv
<1>d. PICK d \in Dims : d = dim[r]
  BY <1>0 DEF Counters, Exchanging, Arrive
<1>1. /\ Ranks' = Ranks /\ nd' = nd /\ CT' = CT
      /\ \A x, e, s, q : Beside(x, e, s, q)' <=> Beside(x, e, s, q)
      /\ sizes' = sizes
  BY Fixed DEF Arrive, fixed
<1>2. /\ pc[r] = "wait" /\ side \in pending[r] /\ pending[r] \subseteq Sides
      /\ pending'[r] = pending[r] \ {side} /\ pending[r] \subseteq Near(r, d)
      /\ mail[r][d][side] # << >>
      /\ \A q \in Ranks : q # r => /\ pc'[q] = pc[q] /\ pending'[q] = pending[q]
                                   /\ dim'[q] = dim[q] /\ p'[q] = p[q]
  BY <1>0, <1>d DEF Arrive, GoTo, Shapes, Counters
<1>3. d \in Dims /\ d = dim[r] /\ ~Waiting(r) /\ Exchanging(r) /\ d - 1 \in 0..3
  BY <1>d, <1>2 DEF Waiting, Exchanging, Dims
<1>c. PICK c \in 0..(d - 1) : /\ c = CutFrom(d - 1)
                              /\ \A e \in 1..(d - 1) : e > c => ~(nd[e] > 1)
  BY <1>3, NextCut
<1>a. /\ pending[r] # {side} => pc'[r] = "wait" /\ dim'[r] = d
      /\ pending[r] = {side} => pc'[r] = (IF c = 0 THEN "reduce" ELSE "post") /\ dim'[r] = c
  BY <1>0, <1>d, <1>c DEF Arrive, GoTo, LastArrival, Shapes
<1>4. \A x \in Ranks, e \in Dims, s \in Sides :
        mail'[x][e][s] = IF x = r /\ e = d /\ s = side THEN Tail(mail[r][d][side])
                         ELSE mail[x][e][s]
  <2>1. Boxed(mail)
    BY <1>0 DEF Shapes
  <2>2. mail' = PutBox(mail, r, d, side, Tail(mail[r][d][side]))
    BY <1>d DEF Arrive, PutBox
  <2> QED
    BY <2>1, <2>2, OneBox
<1>5. \A x \in Ranks, s \in Sides :
        told'[x][s] = IF x = r /\ s = side THEN << >> ELSE told[x][s]
  <2>1. told' = PutTold(r, side, << >>)
    BY DEF Arrive, PutTold
  <2> QED
    BY <1>0, <2>1, OneTold
<1>6. \A q \in Ranks : q # r => \A e, s :
        /\ LayerSent(q, e)' <=> LayerSent(q, e)
        /\ SizeSent(q, e)' <=> SizeSent(q, e)
        /\ LayerGot(q, e, s)' <=> LayerGot(q, e, s)
        /\ SizeGot(q, e, s)' <=> SizeGot(q, e, s)
  BY <1>1, <1>2, Elsewhere
<1>7. ASSUME NEW e \in Dims, nd[e] > 1, NEW s \in Sides
      PROVE  /\ SizeSent(r, e)' <=> SizeSent(r, e)
             /\ LayerSent(r, e)' <=> LayerSent(r, e)
             /\ SizeGot(r, e, s)' <=> SizeGot(r, e, s)
             /\ LayerGot(r, e, s)' <=> LayerGot(r, e, s) \/ (e = d /\ s = side)
  <2>1. e > c <=> e >= d
    BY <1>c, <1>3, <1>7 DEF Dims
  <2>2. c \in Int /\ d \in Int /\ e \in 1..3
    BY <1>3 DEF Dims
  <2>3. SizeSent(r, e)' <=> SizeSent(r, e)
    BY <1>a, <1>2, <1>3, <2>1, <2>2 DEF SizeSent, Exchanging
  <2>4. LayerSent(r, e)' <=> LayerSent(r, e)
    BY <1>a, <1>2, <1>3, <2>1, <2>2 DEF LayerSent, Exchanging
  <2>5. SizeGot(r, e, s)' <=> SizeGot(r, e, s)
    BY <1>a, <1>2, <1>3, <2>1, <2>2 DEF SizeGot, Exchanging
  <2>6. LayerGot(r, e, s)' <=> LayerGot(r, e, s) \/ (e = d /\ s = side)
    BY <1>a, <1>2, <1>3, <2>1, <2>2 DEF LayerGot, Exchanging
  <2> QED
    BY <2>3, <2>4, <2>5, <2>6
<1>8. \A x \in Ranks, e \in Dims, s \in Sides, q \in Ranks :
        Beside(x, e, s, q) => nd[e] > 1 /\ s \in Near(x, e)
  BY <1>0, Mutual
<1>9. ASSUME NEW q \in Ranks, Beside(r, d, side, q)
      PROVE  /\ mail'[r][d][side] = << >> /\ q # r
             /\ Epoch(q) = Epoch(r) /\ LayerSent(q, d)
  <2>1. IF UnderWay(r, q, LayerSent(q, d), LayerGot(r, d, side))
        THEN Single(mail[r][d][side]) ELSE mail[r][d][side] = << >>
    BY <1>3, <1>9 DEF MailInv, LayersInv
  <2>2. /\ Epoch(q) = Epoch(r) /\ LayerSent(q, d) /\ Tail(mail[r][d][side]) = << >>
    BY <1>2, <1>3, <2>1, InEpoch
  <2> QED
    BY <1>0, <1>3, <1>4, <1>9, <2>2, Mutual
<1>10. LayersInv'
  <2> SUFFICES ASSUME NEW x \in Ranks, NEW e \in Dims, NEW s \in Sides, NEW q \in Ranks,
                      Beside(x, e, s, q)
               PROVE  /\ NoneEarly(x, q, LayerSent(q, e), LayerGot(x, e, s))'
                      /\ IF UnderWay(x, q, LayerSent(q, e), LayerGot(x, e, s))'
                         THEN Single(mail'[x][e][s]) ELSE mail'[x][e][s] = << >>
    BY <1>1 DEF LayersInv
  <2>0. LayerSent(q, e)' <=> LayerSent(q, e)
    BY <1>6, <1>7, <1>8
  <2>1. CASE x = r /\ e = d /\ s = side
    <3>1. /\ Epoch(q) = Epoch(r) /\ LayerSent(q, d) /\ mail'[r][d][side] = << >>
      BY <1>9, <2>1
    <3>2. LayerGot(r, d, side)' /\ LayerSent(q, d)'
      BY <1>3, <1>7, <1>8, <2>0, <2>1, <3>1
    <3>3. Epoch(q)' = Epoch(q) /\ Epoch(r)' = Epoch(r) /\ Epoch(r) \in Nat
      BY <1>3, Apart
    <3> QED
      BY <2>1, <3>1, <3>2, <3>3 DEF NoneEarly, UnderWay
  <2>2. CASE ~(x = r /\ e = d /\ s = side)
    <3>1. mail'[x][e][s] = mail[x][e][s]
      BY <1>4, <2>2
    <3>2. LayerGot(x, e, s)' <=> LayerGot(x, e, s)
      BY <1>6, <1>7, <1>8, <2>2
    <3> QED
      BY <2>0, <3>1, <3>2 DEF MailInv, LayersInv, NoneEarly, UnderWay
  <2> QED
    BY <2>1, <2>2
<1>11. SizesInv'
  <2>1. \A q \in Ranks, e \in Dims, s \in Sides : nd[e] > 1 =>
          /\ SizeSent(q, e)' <=> SizeSent(q, e)
          /\ SizeGot(q, e, s)' <=> SizeGot(q, e, s)
    BY <1>6, <1>7
  <2> QED
    BY <1>1, <1>8, <2>1 DEF MailInv, SizesInv, NoneEarly, UnderWay
<1>12. Silent'
  <2> SUFFICES ASSUME NEW x \in Ranks, NEW e \in Dims, NEW s \in Sides,
                      Neighbour(nd, x, e, s) = ProcNull
               PROVE  mail'[x][e][s] = << >> /\ sizes[x][e][s] = << >>
    BY <1>1 DEF Silent
  <2>1. ~(x = r /\ e = d /\ s = side)
    BY <1>2 DEF Near
  <2> QED
    BY <1>4, <2>1 DEF MailInv, Silent
<1>13. SizesTrue'
  <2>0. \A q \in Ranks : q # r => \A e, s : Cut(q, e, s)' = Cut(q, e, s)
    BY <1>1, <1>2, SameCut
  <2>a. pc'[r] \notin {"sizes", "layers"}
    BY <1>a
  <2> SUFFICES ASSUME CT # 0, NEW x \in Ranks, NEW e \in Dims, NEW s \in Sides,
                      NEW q \in Ranks, Beside(x, e, s, q)
               PROVE  /\ q # r /\ pc[q] \in {"sizes", "layers"} /\ dim[q] = e =>
                           SizeHeld(x, e, s)' = Cut(q, e, 1 - s)
                      /\ mail'[x][e][s] # << >> => SizeHeld(x, e, s)' = Head(mail'[x][e][s])
    BY <1>1, <1>2, <2>0, <2>a DEF SizesTrue
  <2>1. /\ pc[q] \in {"sizes", "layers"} /\ dim[q] = e =>
             SizeHeld(x, e, s) = Cut(q, e, 1 - s)
        /\ mail[x][e][s] # << >> => SizeHeld(x, e, s) = Head(mail[x][e][s])
    BY <1>1 DEF MailInv, SizesTrue
  <2>2. CASE x = r /\ e = d /\ s = side
    <3>1. mail'[r][d][side] = << >> /\ LayerSent(q, d)
      BY <1>9, <2>2
    <3>2. ~(pc[q] \in {"sizes", "layers"} /\ dim[q] = d)
      BY <1>3, <3>1 DEF LayerSent, Dims
    <3> QED
      BY <2>2, <3>1, <3>2
  <2>3. CASE x = r /\ e # d /\ s = side
    <3>1. sizes'[x][e][s] = sizes[x][e][s] /\ mail'[x][e][s] = mail[x][e][s]
      BY <1>1, <1>4, <2>3
    <3>2. sizes[x][e][s] # << >> => SizeHeld(x, e, s)' = SizeHeld(x, e, s)
      BY <3>1 DEF SizeHeld
    <3>3. \/ pc[q] \in {"sizes", "layers"} /\ dim[q] = e
          \/ mail[x][e][s] # << >>
          => sizes[x][e][s] # << >>
      BY <1>3, <2>3, ToldElsewhere
    <3> QED
      BY <2>1, <3>1, <3>2, <3>3
  <2>4. CASE ~(x = r /\ s = side)
    <3>1. SizeHeld(x, e, s)' = SizeHeld(x, e, s) /\ mail'[x][e][s] = mail[x][e][s]
      BY <1>1, <1>4, <1>5, <2>4 DEF SizeHeld
    <3> QED
      BY <2>1, <3>1
  <2> QED
    BY <2>2, <2>3, <2>4
<1> QED
  BY <1>10, <1>11, <1>12, <1>13 DEF MailInv

-----------------------------------------------------------------------------
(* The invariant is inductive: one lemma per action. *)

\* A rank begins a call: a barrier, the sum of wgosa, the slowest time.
LEMMA BeginIInv ==
  ASSUME IInv, NEW r \in Ranks, NEW l, NEW v,
         \/ pc[r] = "start" /\ l = "barrier"
         \/ pc[r] = "reduce" /\ l = "gosa"
         \/ pc[r] = "timing" /\ l = "agree",
         UNCHANGED <<nd, CT, p, n, nn, before, dim, pending, mail, sizes, told>>,
         pc' = [pc EXCEPT ![r] = l], entered' = [entered EXCEPT ![r] = @ + 1],
         part' = [part EXCEPT ![r] = v],
         result' = result \/ \A q \in Ranks \ {r} : entered[q] > entered[r],
         l = "agree" => v \in Times,
         l = "agree" /\ (\A q \in Ranks \ {r} : entered[q] > entered[r]) => result' \in Times
  PROVE  IInv'
<1>0. CallInv /\ MailInv /\ Shapes /\ Counters
  BY DEF IInv, CallInv
<1>1. /\ Ranks' = Ranks /\ nd' = nd /\ CT' = CT /\ \A q, d : Near(q, d)' = Near(q, d)
  BY Fixed
<1>2. l \in {"barrier", "gosa", "agree"} /\ pc[r] # "sweep"
  OBVIOUS
<1>3. /\ pc'[r] = l /\ entered'[r] = entered[r] + 1 /\ entered[r] \in Nat /\ part'[r] = v
      /\ \A q \in Ranks : q # r => pc'[q] = pc[q] /\ entered'[q] = entered[q] /\ part'[q] = part[q]
  <2>1. pc'[r] = l /\ \A q \in Ranks : q # r => pc'[q] = pc[q]
    BY <1>0 DEF Shapes
  <2>2. /\ entered'[r] = entered[r] + 1 /\ entered[r] \in Nat
        /\ \A q \in Ranks : q # r => entered'[q] = entered[q]
    BY <1>0 DEF Shapes
  <2>3. part'[r] = v /\ \A q \in Ranks : q # r => part'[q] = part[q]
    BY <1>0 DEF Shapes
  <2> QED
    BY <2>1, <2>2, <2>3
<1>4. ~Waiting(r) /\ KindOf(l) = KindOf(pc[r])
  BY DEF Waiting, KindOf
<1>5. /\ Sync' /\ Alike' /\ Follows' /\ Agreed'
      /\ \A q \in Ranks : Epoch(q)' = Epoch(q)
  <2>1. UNCHANGED <<nd, CT, n, nn, before>>
    OBVIOUS
  <2> QED
    BY <1>0, <1>2, <1>4, <2>1, BeginCall
<1>6. Shapes'
  <2>1. pc' \in [Ranks -> Label]
    BY <1>0, <1>2 DEF Shapes, Label
  <2>2. entered' \in [Ranks -> Nat]
    BY <1>0 DEF Shapes
  <2>3. part' = [q \in Ranks |-> part'[q]]
    BY <1>0 DEF Shapes
  <2> QED
    BY <1>0, <1>1, <2>1, <2>2, <2>3 DEF Shapes, Boxed
<1>7. Counters'
  BY <1>0, <1>1, <1>2, <1>3 DEF Counters, Waiting, Exchanging
<1>8. MailInv'
  <2>1. \A q \in Ranks, d \in Dims, s \in Sides :
          /\ LayerSent(q, d)' <=> LayerSent(q, d)
          /\ SizeSent(q, d)' <=> SizeSent(q, d)
          /\ LayerGot(q, d, s)' <=> LayerGot(q, d, s)
          /\ SizeGot(q, d, s)' <=> SizeGot(q, d, s)
    BY <1>1, <1>2, <1>3 DEF LayerSent, SizeSent, LayerGot, SizeGot, Exchanging
  <2>2. \A q \in Ranks : pc'[q] \in {"sizes", "layers"} =>
          pc[q] \in {"sizes", "layers"} /\ dim'[q] = dim[q] /\ p'[q] = p[q]
    BY <1>2, <1>3
  <2>3. \A q \in Ranks, d \in Dims : nd[d] > 1 =>
           /\ LayerSent(q, d)' <=> LayerSent(q, d)
           /\ SizeSent(q, d)' <=> SizeSent(q, d)
    BY <2>1 DEF Sides
  <2>4. \A q \in Ranks, d \in Dims, s \in Sides : nd[d] > 1 =>
           /\ LayerGot(q, d, s)' <=> LayerGot(q, d, s)
           /\ SizeGot(q, d, s)' <=> SizeGot(q, d, s)
    BY <2>1
  <2>5. UNCHANGED <<nd, CT, mail, sizes, told>>
    OBVIOUS
  <2> QED
    BY <1>0, <1>5, <2>2, <2>3, <2>4, <2>5, QuietMail
<1> QED
  BY <1>5, <1>6, <1>7, <1>8 DEF IInv, CallInv

\* MPI_Barrier before a jacobi().
LEMMA BarrierIInv ==
  ASSUME IInv, NEW r \in Ranks, Barrier(r)
  PROVE  IInv'
<1>1. UNCHANGED <<nd, CT, p, n, nn, before, dim, pending, mail, sizes, told>>
  BY DEF Barrier, fixed, sizevars
<1>2. /\ pc[r] = "start" /\ pc' = [pc EXCEPT ![r] = "barrier"]
      /\ entered' = [entered EXCEPT ![r] = @ + 1] /\ part' = [part EXCEPT ![r] = 0]
      /\ result' = result \/ \A q \in Ranks \ {r} : entered[q] > entered[r]
  BY DEF Barrier, GoTo, Begin
<1> QED
  BY <1>1, <1>2, BeginIInv

\* MPI_Allreduce of wgosa.
LEMMA ReduceIInv ==
  ASSUME IInv, NEW r \in Ranks, Reduce(r)
  PROVE  IInv'
<1>1. UNCHANGED <<nd, CT, p, n, nn, before, dim, pending, mail, sizes, told>>
  BY DEF Reduce, fixed, sizevars
<1>2. /\ pc[r] = "reduce" /\ pc' = [pc EXCEPT ![r] = "gosa"]
      /\ entered' = [entered EXCEPT ![r] = @ + 1]
      /\ part' = [part EXCEPT ![r] = Cardinality(Interior(nd, r))]
      /\ result' = result \/ \A q \in Ranks \ {r} : entered[q] > entered[r]
  BY DEF Reduce, GoTo, Begin
<1> QED
  BY <1>1, <1>2, BeginIInv

\* Every set of natural numbers that is not empty has a least element.
LEMMA LeastNat ==
  ASSUME NEW T \in SUBSET Nat, T # {}
  PROVE  \E m \in T : \A k \in T : m <= k
<1> DEFINE Less == {ss \in Nat \X Nat : ss[1] < ss[2]}
<1>1. IsWellFoundedOn(Less, Nat)
  BY NatLessThanWellFounded DEF OpToRel
<1>2. \E m \in T : \A k \in T : ~(<<k, m>> \in Less)
  BY <1>1, WFMin
<1>3. PICK m \in T : \A k \in T : ~(<<k, m>> \in Less)
  BY <1>2
<1>4. \A k \in T : ~(k < m)
  BY <1>3
<1> QED
  BY <1>4

\* The slowest of the times the ranks have given is one of them.
LEMMA Slowest ==
  ASSUME Shapes, NEW f, \A q \in Ranks : f[q] \in Nat
  PROVE  \E m \in Ranks : MaxOf({f[q] : q \in Ranks}) = f[m]
<1>1. PICK k \in Nat : Ranks = 0..k
  <2>1. Ranks = 0..(NumRanks(nd) - 1) /\ 0 \in Ranks
    BY Basics DEF Ranks
  <2>2. NumRanks(nd) \in Nat \ {0}
    <3>1. PICK a \in Nat \ {0}, b \in Nat \ {0}, c \in Nat \ {0} :
            a = nd[1] /\ b = nd[2] /\ c = nd[3]
      BY Basics DEF Dims
    <3>2. a * b * c \in Nat \ {0}
      BY Z3
    <3> QED
      BY <3>1, <3>2 DEF NumRanks
  <2> QED
    BY <2>1, <2>2
<1> DEFINE Has(j) == \E m \in 0..j : \A q \in 0..j : f[q] <= f[m]
           T == {j \in 0..k : ~Has(j)}
<1>2. T \in SUBSET Nat /\ \A j \in 0..k : j \notin T <=> Has(j)
  OBVIOUS
<1>3. \A j \in T : j \in 0..k /\ ~Has(j)
  OBVIOUS
<1> HIDE DEF T
<1>4. T = {}
  <2> SUFFICES ASSUME T # {} PROVE FALSE
    OBVIOUS
  <2>1. PICK j \in T : \A i \in T : j <= i
    BY <1>2, LeastNat
  <2>2. j \in 0..k /\ ~Has(j)
    BY <1>3
  <2>3. \A q \in 0..j : f[q] \in Nat
    BY <1>1, <2>2
  <2>4. Has(0)
    BY <2>2, <2>3
  <2>5. j \in 1..k /\ j - 1 \in 0..k /\ ~(j <= j - 1)
    BY <2>2, <2>4
  <2>6. Has(j - 1)
    BY <1>2, <2>1, <2>5
  <2>7. PICK m \in 0..(j - 1) : \A q \in 0..(j - 1) : f[q] <= f[m]
    BY <2>6
  <2>8. m \in 0..j /\ j \in 0..j /\ \A q \in 0..j : q = j \/ q \in 0..(j - 1)
    BY <2>5
  <2>9. f[m] \in Nat /\ f[j] \in Nat
    BY <2>3, <2>8
  <2>10. CASE f[j] <= f[m]
    <3>1. \A q \in 0..j : f[q] <= f[m]
      BY <2>7, <2>8, <2>10
    <3> QED
      BY <2>2, <2>8, <3>1
  <2>11. CASE f[m] < f[j]
    <3>1. \A q \in 0..j : f[q] <= f[j]
      BY <2>3, <2>7, <2>8, <2>9, <2>11
    <3> QED
      BY <2>2, <2>8, <3>1
  <2> QED
    BY <2>9, <2>10, <2>11
<1>5. PICK m \in Ranks : \A q \in Ranks : f[q] <= f[m]
  <2>1. Has(k)
    BY <1>2, <1>4
  <2> QED
    BY <1>1, <2>1
<1>6. MaxOf({f[q] : q \in Ranks}) \in {f[q] : q \in Ranks}
  BY <1>5 DEF MaxOf
<1> QED
  BY <1>6

\* MPI_Allreduce of the time: the last rank finds that of all the others.
LEMMA TimingIInv ==
  ASSUME IInv, NEW r \in Ranks, Timing(r)
  PROVE  IInv'
<1>0. CallInv /\ MailInv /\ Shapes /\ Counters
  BY DEF IInv, CallInv
<1>1. UNCHANGED <<nd, CT, p, n, nn, before, dim, pending, mail, sizes, told>>
  BY DEF Timing, fixed, sizevars
<1>2. PICK cpu1 \in Times : Begin(r, cpu1, "max")
  BY DEF Timing
<1>3. /\ pc[r] = "timing" /\ pc' = [pc EXCEPT ![r] = "agree"]
      /\ entered' = [entered EXCEPT ![r] = @ + 1] /\ part' = [part EXCEPT ![r] = cpu1]
      /\ result' = IF \A q \in Ranks \ {r} : entered[q] > entered[r]
                   THEN MaxOf({part'[q] : q \in Ranks}) ELSE result
  BY <1>2 DEF Timing, GoTo, Begin
<1>4. ASSUME \A q \in Ranks \ {r} : entered[q] > entered[r]
      PROVE  result' \in Times
  <2>1. ~Waiting(r)
    BY <1>3 DEF Waiting
  <2>2. \A q \in Ranks \ {r} : Waiting(q) /\ KindOf(pc[q]) = KindOf(pc[r])
    BY <1>0, <1>4, <2>1, LastToBegin
  <2>3. \A q \in Ranks \ {r} : pc[q] = "agree"
    BY <1>3, <2>2 DEF Waiting, KindOf
  <2>4. \A q \in Ranks : q # r => part'[q] = part[q]
    BY <1>0, <1>3 DEF Shapes
  <2>5. part'[r] = cpu1
    BY <1>0, <1>3 DEF Shapes
  <2>6. \A q \in Ranks : part'[q] \in Times
    BY <1>0, <1>2, <2>3, <2>4, <2>5 DEF Counters
  <2>7. PICK f : f = part'
    OBVIOUS
  <2>8. PICK m \in Ranks : MaxOf({f[q] : q \in Ranks}) = f[m]
    <3>1. \A q \in Ranks : f[q] \in Nat
      BY <1>0, <2>6, <2>7, Basics
    <3> QED
      BY <1>0, <3>1, Slowest
  <2> QED
    BY <1>3, <1>4, <2>6, <2>7, <2>8
<1>5. result' = result \/ \A q \in Ranks \ {r} : entered[q] > entered[r]
  BY <1>3
<1> QED
  BY <1>1, <1>2, <1>3, <1>4, <1>5, BeginIInv

\* A rank leaves a call: it goes on as its next plan says.
LEMMA LeaveIInv ==
  ASSUME IInv, NEW r \in Ranks, Waiting(r), Complete(r), NEW l,
         l \in {"start", "sweep", "timing", "end"}, pc' = [pc EXCEPT ![r] = l],
         UNCHANGED <<nd, CT, p, dim, pending, mail, sizes, told, entered, part, result>>,
         n' \in [Ranks -> Nat], nn' \in [Ranks -> Nat], before' \in [Ranks -> Nat],
         \A q \in Ranks : q # r => n'[q] = n[q] /\ nn'[q] = nn[q] /\ before'[q] = before[q],
         n'[r] <= nn'[r], l = "sweep" => n'[r] < nn'[r],
         Plan(r)' = NextPlan(r)
  PROVE  IInv'
<1>0. CallInv /\ MailInv /\ Shapes /\ Counters
  BY DEF IInv, CallInv
<1>1. /\ Ranks' = Ranks /\ nd' = nd /\ CT' = CT /\ \A q, d : Near(q, d)' = Near(q, d)
  BY Fixed
<1>2. pc'[r] = l /\ \A q \in Ranks : q # r => pc'[q] = pc[q]
  BY <1>0 DEF Shapes
<1>3. /\ Sync' /\ Alike' /\ Follows' /\ Agreed'
      /\ Epoch(r)' = Epoch(r) + 1 /\ \A q \in Ranks : q # r => Epoch(q)' = Epoch(q)
  <2>1. ~Waiting(r)'
    BY <1>2 DEF Waiting
  <2>2. UNCHANGED <<nd, CT, entered, part, result>>
    OBVIOUS
  <2>3. \A q \in Ranks : q # r => /\ pc'[q] = pc[q] /\ n'[q] = n[q]
                                  /\ nn'[q] = nn[q] /\ before'[q] = before[q]
    BY <1>2
  <2> QED
    BY <1>0, <2>1, <2>2, <2>3, LeaveCall
<1>4. Shapes'
  <2>1. pc' \in [Ranks -> Label]
    BY <1>0 DEF Shapes, Label
  <2> QED
    BY <1>0, <1>1, <2>1 DEF Shapes, Boxed
<1>5. Counters'
  BY <1>0, <1>1, <1>2 DEF Counters, Waiting, Exchanging
<1>6. MailInv'
  <2>1. UNCHANGED <<nd, CT, mail, sizes, told, dim, pending, p>>
    OBVIOUS
  <2>2. \A q \in Ranks : q # r => pc'[q] = pc[q] /\ Epoch(q)' = Epoch(q)
    BY <1>2, <1>3
  <2>3. pc'[r] \in {"start", "sweep", "timing", "end"}
    BY <1>2
  <2> QED
    BY <1>0, <1>3, <2>1, <2>2, <2>3, LeaveMail
<1> QED
  BY <1>3, <1>4, <1>5, <1>6 DEF IInv, CallInv

\* After the barrier and after the sum of wgosa: the next sweep, or the time.
LEMMA LeaveSweepIInv ==
  ASSUME IInv, NEW r \in Ranks, LeaveBarrier(r) \/ LeaveReduce(r)
  PROVE  IInv'
<1>0. Shapes /\ Counters
  BY DEF IInv, CallInv
<1>1. UNCHANGED <<nd, CT, p, n, nn, before, dim, pending, mail, sizes, told, entered, part, result>>
  BY DEF LeaveBarrier, LeaveReduce, fixed, sizevars, calls
<1>2. /\ pc[r] \in {"barrier", "gosa"} /\ Complete(r) /\ Waiting(r)
      /\ pc' = [pc EXCEPT ![r] = IF n[r] < nn[r] THEN "sweep" ELSE "timing"]
  BY DEF LeaveBarrier, LeaveReduce, GoTo, MoreSweeps, Waiting
<1>3. n[r] \in Nat /\ nn[r] \in Nat /\ n[r] <= nn[r]
  BY <1>0 DEF Shapes, Counters
<1>4. n' \in [Ranks -> Nat] /\ nn' \in [Ranks -> Nat] /\ before' \in [Ranks -> Nat]
  BY <1>0, <1>1 DEF Shapes
<1>5. UNCHANGED <<nd, CT, p, dim, pending, mail, sizes, told, entered, part, result>>
  BY <1>1
<1>6. \A q \in Ranks : q # r => n'[q] = n[q] /\ nn'[q] = nn[q] /\ before'[q] = before[q]
  BY <1>1
<1>7. n'[r] = n[r] /\ nn'[r] = nn[r] /\ before'[r] = before[r]
  BY <1>1
<1>8. CASE n[r] < nn[r]
  <2>1. pc' = [pc EXCEPT ![r] = "sweep"]
    BY <1>2, <1>8
  <2>2. pc'[r] = "sweep"
    BY <1>0, <2>1 DEF Shapes
  <2>3. Plan(r)' = NextPlan(r)
    BY <1>2, <1>7, <1>8, <2>2 DEF Plan, NextPlan, Turn, KindOf
  <2> QED
    BY <1>2, <1>3, <1>4, <1>5, <1>6, <1>7, <1>8, <2>1, <2>3, LeaveIInv
<1>9. CASE ~(n[r] < nn[r])
  <2>1. pc' = [pc EXCEPT ![r] = "timing"]
    BY <1>2, <1>9
  <2>2. pc'[r] = "timing"
    BY <1>0, <2>1 DEF Shapes
  <2>3. Plan(r)' = NextPlan(r)
    BY <1>2, <1>7, <1>9, <2>2 DEF Plan, NextPlan, Turn, KindOf
  <2> QED
    BY <1>2, <1>3, <1>4, <1>5, <1>6, <1>7, <1>9, <2>1, <2>3, LeaveIInv
<1> QED
  BY <1>8, <1>9

\* After the times: the second jacobi(), or the end.
LEMMA LeaveTimingIInv ==
  ASSUME IInv, NEW r \in Ranks, LeaveTiming(r)
  PROVE  IInv'
<1>0. CallInv /\ Shapes /\ Counters /\ Agreed
  BY DEF IInv, CallInv
<1>1. UNCHANGED <<nd, CT, p, dim, pending, mail, sizes, told, entered, part, result>>
  BY DEF LeaveTiming, fixed, sizevars, calls
<1>2. pc[r] = "agree" /\ Complete(r) /\ Waiting(r)
  BY DEF LeaveTiming, Waiting
<1>3. n[r] \in Nat /\ nn[r] \in Nat /\ n[r] <= nn[r]
  BY <1>0 DEF Shapes, Counters
<1>4. CASE before[r] = 0
  <2>1. /\ nn' = [nn EXCEPT ![r] = SecondRun(r)] /\ before' = [before EXCEPT ![r] = n[r]]
        /\ n' = [n EXCEPT ![r] = 0] /\ pc' = [pc EXCEPT ![r] = "start"]
    BY <1>4 DEF LeaveTiming, GoTo
  <2>2. SecondRun(r) \in Nat
    <3>1. result \in Nat \ {0}
      BY <1>0, <1>2, Basics DEF Agreed
    <3>2. Target \in Nat /\ Rehearsal \in Nat /\ Simgrid \in Nat
      BY <1>0, Basics
    <3>3. \A a \in Nat, b \in Nat, c \in Nat \ {0} : (a * b) \div c \in Nat
      <4>1. \A a \in Nat, b \in Nat : a * b \in Nat
        BY Z3
      <4>2. \A m \in Nat, c \in Nat \ {0} : m \div c \in Nat
        BY Z3
      <4> QED
        BY <4>1, <4>2
    <3> QED
      BY <3>1, <3>2, <3>3 DEF SecondRun, SlowestTime
  <2>3. n' \in [Ranks -> Nat] /\ n'[r] = 0 /\ \A q \in Ranks : q # r => n'[q] = n[q]
    BY <1>0, <2>1 DEF Shapes
  <2>4. /\ nn' \in [Ranks -> Nat] /\ nn'[r] = SecondRun(r)
        /\ \A q \in Ranks : q # r => nn'[q] = nn[q]
    BY <1>0, <2>1, <2>2 DEF Shapes
  <2>5. /\ before' \in [Ranks -> Nat] /\ before'[r] = n[r]
        /\ \A q \in Ranks : q # r => before'[q] = before[q]
    BY <1>0, <1>3, <2>1 DEF Shapes
  <2>6. pc'[r] = "start"
    BY <1>0, <2>1 DEF Shapes
  <2>7. Plan(r)' = NextPlan(r)
    BY <1>2, <1>4, <2>3, <2>4, <2>5, <2>6 DEF Plan, NextPlan, Turn, KindOf
  <2>8. n'[r] <= nn'[r]
    BY <2>2, <2>3, <2>4
  <2> QED
    BY <1>1, <1>2, <2>1, <2>3, <2>4, <2>5, <2>7, <2>8, LeaveIInv
<1>5. CASE before[r] # 0
  <2>1. pc' = [pc EXCEPT ![r] = "end"] /\ n' = n /\ nn' = nn /\ before' = before
    BY <1>5 DEF LeaveTiming, GoTo
  <2>2. n' \in [Ranks -> Nat] /\ nn' \in [Ranks -> Nat] /\ before' \in [Ranks -> Nat]
    BY <1>0, <2>1 DEF Shapes
  <2>3. \A q \in Ranks : q # r => n'[q] = n[q] /\ nn'[q] = nn[q] /\ before'[q] = before[q]
    BY <2>1
  <2>4. pc'[r] = "end"
    BY <1>0, <2>1 DEF Shapes
  <2>5. Plan(r)' = NextPlan(r)
    BY <1>2, <1>5, <2>1, <2>4 DEF Plan, NextPlan, Turn, KindOf
  <2>6. n'[r] <= nn'[r]
    BY <1>3, <2>1
  <2> QED
    BY <1>1, <1>2, <2>1, <2>2, <2>3, <2>5, <2>6, LeaveIInv
<1> QED
  BY <1>4, <1>5

\* A sweep: nothing is sent or received; the exchange begins with the first
\* dimension that has neighbours.
LEMMA SweepIInv ==
  ASSUME IInv, NEW r \in Ranks, Sweep(r)
  PROVE  IInv'
<1>0. CallInv /\ MailInv /\ Shapes /\ Counters
  BY DEF IInv, CallInv
<1>1. /\ UNCHANGED <<nd, CT, nn, before, pending, mail, sizes, told, entered, part, result>>
      /\ pc[r] = "sweep"
  BY DEF Sweep, fixed, sizevars, calls
<1>2. /\ Ranks' = Ranks /\ nd' = nd /\ CT' = CT /\ \A q, d : Near(q, d)' = Near(q, d)
  BY <1>1, Fixed
<1>3. PICK c \in 0..3 : /\ c = CutFrom(3) /\ (c # 0 => nd[c] > 1)
                        /\ \A e \in 1..3 : e > c => ~(nd[e] > 1)
  <2>1. 3 \in 0..3
    OBVIOUS
  <2> QED
    BY <2>1, NextCut
<1>4. /\ n' \in [Ranks -> Nat] /\ n'[r] = n[r] + 1 /\ n[r] \in Nat
      /\ \A q \in Ranks : q # r => n'[q] = n[q]
  BY <1>0 DEF Shapes, Sweep
<1>5. /\ dim' \in [Ranks -> 0..3] /\ dim'[r] = c
      /\ \A q \in Ranks : q # r => dim'[q] = dim[q]
  BY <1>0, <1>3 DEF Shapes, Sweep
<1>6. /\ pc' \in [Ranks -> Label] /\ pc'[r] = (IF c = 0 THEN "reduce" ELSE "post")
      /\ \A q \in Ranks : q # r => pc'[q] = pc[q]
  BY <1>0, <1>3 DEF Shapes, Sweep, GoTo, Label
<1>7. p' = [q \in Ranks |-> p'[q]] /\ \A q \in Ranks : q # r => p'[q] = p[q]
  <2>1. PICK new : p' = [p EXCEPT ![r] = new]
    BY DEF Sweep
  <2> QED
    BY <1>0, <2>1 DEF Shapes
<1>8. Plan(r)' = Plan(r)
  <2>1. pc'[r] # "sweep" /\ KindOf(pc'[r]) = KindOf(pc[r])
    BY <1>1, <1>6 DEF KindOf
  <2> QED
    BY <1>1, <1>4, <2>1 DEF Plan, Turn
<1>9. /\ Sync' /\ Alike' /\ Follows' /\ Agreed'
      /\ \A q \in Ranks : Epoch(q)' = Epoch(q)
  <2>1. ~Waiting(r) /\ ~Waiting(r)'
    BY <1>1, <1>6 DEF Waiting
  <2>2. UNCHANGED <<nd, CT, nn, before, entered, part, result>>
    BY <1>1
  <2> QED
    BY <1>0, <1>4, <1>6, <1>8, <2>1, <2>2, Inside
<1>10. Shapes'
  BY <1>0, <1>1, <1>2, <1>4, <1>5, <1>6, <1>7 DEF Shapes, Boxed
<1>11. Counters'
  <2>1. n[r] < nn[r] /\ nn[r] \in Nat
    BY <1>0, <1>1 DEF Counters, Shapes
  <2>2. c # 0 => c \in Dims
    BY DEF Dims
  <2> QED
    BY <1>0, <1>1, <1>2, <1>4, <1>5, <1>6, <2>1, <2>2 DEF Counters, Waiting, Exchanging
<1>12. MailInv'
  <2>1. \A q \in Ranks : q # r => \A d, s :
          /\ LayerSent(q, d)' <=> LayerSent(q, d)
          /\ SizeSent(q, d)' <=> SizeSent(q, d)
          /\ LayerGot(q, d, s)' <=> LayerGot(q, d, s)
          /\ SizeGot(q, d, s)' <=> SizeGot(q, d, s)
    BY <1>1, <1>5, <1>6, Elsewhere
  <2>2. ASSUME NEW d \in Dims, nd[d] > 1, NEW s \in Sides
        PROVE  /\ LayerSent(r, d)' <=> LayerSent(r, d)
               /\ SizeSent(r, d)' <=> SizeSent(r, d)
               /\ LayerGot(r, d, s)' <=> LayerGot(r, d, s)
               /\ SizeGot(r, d, s)' <=> SizeGot(r, d, s)
    <3>1. ~(c < d) /\ c # 0
      BY <1>3, <2>2 DEF Dims
    <3> QED
      BY <1>1, <1>5, <1>6, <3>1 DEF LayerSent, SizeSent, LayerGot, SizeGot, Exchanging
  <2>3. \A q \in Ranks : pc'[q] \in {"sizes", "layers"} =>
          pc[q] \in {"sizes", "layers"} /\ dim'[q] = dim[q] /\ p'[q] = p[q]
    BY <1>5, <1>6, <1>7
  <2>4. \A q \in Ranks, d \in Dims : nd[d] > 1 =>
           /\ LayerSent(q, d)' <=> LayerSent(q, d)
           /\ SizeSent(q, d)' <=> SizeSent(q, d)
    BY <2>1, <2>2 DEF Sides
  <2>5. \A q \in Ranks, d \in Dims, s \in Sides : nd[d] > 1 =>
           /\ LayerGot(q, d, s)' <=> LayerGot(q, d, s)
           /\ SizeGot(q, d, s)' <=> SizeGot(q, d, s)
    BY <2>1, <2>2
  <2>6. UNCHANGED <<nd, CT, mail, sizes, told>>
    BY <1>1
  <2> QED
    BY <1>0, <1>9, <2>3, <2>4, <2>5, <2>6, QuietMail
<1> QED
  BY <1>9, <1>10, <1>11, <1>12 DEF IInv, CallInv

\* A step of the exchange, as the collective calls see it.
LEMMA Exchange ==
  ASSUME CallInv, NEW r \in Ranks, Exchanging(r), NEW l,
         l \in {"post", "sizes", "layers", "wait", "reduce"}, pc' = [pc EXCEPT ![r] = l],
         UNCHANGED <<nd, CT, n, nn, before, entered, part, result>>
  PROVE  /\ Sync' /\ Alike' /\ Follows' /\ Agreed'
         /\ \A q \in Ranks : Epoch(q)' = Epoch(q)
         /\ pc' \in [Ranks -> Label] /\ pc'[r] = l
         /\ \A q \in Ranks : q # r => pc'[q] = pc[q]
<1>1. pc \in [Ranks -> Label]
  BY DEF CallInv, Shapes
<1>2. /\ pc' \in [Ranks -> Label] /\ pc'[r] = l
      /\ \A q \in Ranks : q # r => pc'[q] = pc[q]
  BY <1>1 DEF Label
<1>3. ~Waiting(r) /\ ~Waiting(r)'
  BY <1>2 DEF Waiting, Exchanging
<1>4. Plan(r)' = Plan(r)
  <2>1. pc[r] # "sweep" /\ pc'[r] # "sweep" /\ KindOf(pc'[r]) = KindOf(pc[r])
    BY <1>2 DEF KindOf, Exchanging
  <2> QED
    BY <2>1 DEF Plan, Turn
<1>5. UNCHANGED <<nd, CT, nn, before, entered, part, result>>
  OBVIOUS
<1>6. \A q \in Ranks : q # r => pc'[q] = pc[q] /\ n'[q] = n[q]
  BY <1>2
<1> QED
  BY <1>2, <1>3, <1>4, <1>5, <1>6, Inside

\* The sizes of the layers are sent.
LEMMA PostSizesIInv ==
  ASSUME IInv, NEW r \in Ranks, PostSizes(r)
  PROVE  IInv'
<1>0. CallInv /\ MailInv /\ Shapes /\ Counters
  BY DEF IInv, CallInv
<1>1. /\ UNCHANGED <<nd, CT, p, n, nn, before, dim, mail, told, entered, part, result>>
      /\ pc[r] = "post" /\ CT # 0 /\ pc' = [pc EXCEPT ![r] = "sizes"]
      /\ pending' = [pending EXCEPT ![r] = Near(r, dim[r])]
      /\ sizes' = SentBy(r, dim[r], sizes)
  BY DEF PostSizes, fixed, calls, GoTo
<1>2. /\ Ranks' = Ranks /\ nd' = nd /\ CT' = CT /\ \A q, d : Near(q, d)' = Near(q, d)
  BY <1>1, Fixed
<1>3. Exchanging(r) /\ UNCHANGED <<nd, CT, n, nn, before, entered, part, result>>
  BY <1>1 DEF Exchanging
<1>4. /\ Sync' /\ Alike' /\ Follows' /\ Agreed'
      /\ \A q \in Ranks : Epoch(q)' = Epoch(q)
      /\ pc' \in [Ranks -> Label] /\ pc'[r] = "sizes"
      /\ \A q \in Ranks : q # r => pc'[q] = pc[q]
  BY <1>0, <1>1, <1>3, Exchange
<1>5. dim[r] \in Dims
  BY <1>0, <1>3 DEF Counters
<1>6. /\ pending' \in [Ranks -> SUBSET Sides] /\ pending'[r] = Near(r, dim[r])
      /\ \A q \in Ranks : q # r => pending'[q] = pending[q]
  <2>1. Near(r, dim[r]) \in SUBSET Sides
    BY DEF Near
  <2> QED
    BY <1>0, <1>1, <2>1 DEF Shapes
<1>7. Shapes'
  <2>1. Boxed(sizes)
    BY <1>0 DEF Shapes
  <2>2. Boxed(SentBy(r, dim[r], sizes))
    BY <1>0, <1>5, <2>1, SentByIs
  <2>3. Boxed(sizes)'
    BY <1>1, <1>2, <2>2 DEF Boxed
  <2>4. Boxed(mail)'
    BY <1>0, <1>1, <1>2 DEF Shapes, Boxed
  <2> QED
    BY <1>0, <1>1, <1>2, <1>4, <1>6, <2>3, <2>4 DEF Shapes
<1>8. Counters'
  BY <1>0, <1>1, <1>2, <1>4, <1>5, <1>6 DEF Counters, Waiting, Exchanging
<1>9. MailInv'
  BY <1>0, <1>4, PostSizesMail
<1> QED
  BY <1>4, <1>7, <1>8, <1>9 DEF IInv, CallInv

\* The layers are sent.
LEMMA PostIInv ==
  ASSUME IInv, NEW r \in Ranks, Post(r)
  PROVE  IInv'
<1>0. CallInv /\ MailInv /\ Shapes /\ Counters
  BY DEF IInv, CallInv
<1>1. /\ UNCHANGED <<nd, CT, p, n, nn, before, dim, sizes, told, entered, part, result>>
      /\ pc[r] \in {"post", "layers"} /\ pc' = [pc EXCEPT ![r] = "wait"]
      /\ pending' = [pending EXCEPT ![r] = Near(r, dim[r])]
      /\ mail' = SentBy(r, dim[r], mail)
  BY DEF Post, fixed, calls, sizevars, GoTo
<1>2. /\ Ranks' = Ranks /\ nd' = nd /\ CT' = CT /\ \A q, d : Near(q, d)' = Near(q, d)
  BY <1>1, Fixed
<1>3. Exchanging(r) /\ UNCHANGED <<nd, CT, n, nn, before, entered, part, result>>
  BY <1>1 DEF Exchanging
<1>4. /\ Sync' /\ Alike' /\ Follows' /\ Agreed'
      /\ \A q \in Ranks : Epoch(q)' = Epoch(q)
      /\ pc' \in [Ranks -> Label] /\ pc'[r] = "wait"
      /\ \A q \in Ranks : q # r => pc'[q] = pc[q]
  BY <1>0, <1>1, <1>3, Exchange
<1>5. dim[r] \in Dims
  BY <1>0, <1>3 DEF Counters
<1>6. /\ pending' \in [Ranks -> SUBSET Sides] /\ pending'[r] = Near(r, dim[r])
      /\ \A q \in Ranks : q # r => pending'[q] = pending[q]
  <2>1. Near(r, dim[r]) \in SUBSET Sides
    BY DEF Near
  <2> QED
    BY <1>0, <1>1, <2>1 DEF Shapes
<1>7. Shapes'
  <2>1. Boxed(mail)
    BY <1>0 DEF Shapes
  <2>2. Boxed(SentBy(r, dim[r], mail))
    BY <1>0, <1>5, <2>1, SentByIs
  <2>3. Boxed(mail)'
    BY <1>1, <1>2, <2>2 DEF Boxed
  <2>4. Boxed(sizes)'
    BY <1>0, <1>1, <1>2 DEF Shapes, Boxed
  <2> QED
    BY <1>0, <1>1, <1>2, <1>4, <1>6, <2>3, <2>4 DEF Shapes
<1>8. Counters'
  BY <1>0, <1>1, <1>2, <1>4, <1>5, <1>6 DEF Counters, Waiting, Exchanging
<1>9. MailInv'
  BY <1>0, <1>4, PostMail
<1> QED
  BY <1>4, <1>7, <1>8, <1>9 DEF IInv, CallInv

\* A size arrives.
LEMMA ArriveSizeIInv ==
  ASSUME IInv, NEW r \in Ranks, NEW side \in Sides, ArriveSize(r, side)
  PROVE  IInv'
<1>0. CallInv /\ MailInv /\ Shapes /\ Counters
  BY DEF IInv, CallInv
<1>1. /\ UNCHANGED <<nd, CT, p, n, nn, before, dim, mail, entered, part, result>>
      /\ pc[r] = "sizes"
      /\ pc' = [pc EXCEPT ![r] = IF pending[r] = {side} THEN "layers" ELSE "sizes"]
      /\ pending' = [pending EXCEPT ![r] = @ \ {side}]
      /\ sizes' = PutBox(sizes, r, dim[r], side, Tail(sizes[r][dim[r]][side]))
      /\ told' = PutTold(r, side, Head(sizes[r][dim[r]][side]))
  BY DEF ArriveSize, fixed, calls, GoTo, LastArrival, PutBox, PutTold
<1>2. /\ Ranks' = Ranks /\ nd' = nd /\ CT' = CT /\ \A q, d : Near(q, d)' = Near(q, d)
  BY <1>1, Fixed
<1>3. Exchanging(r) /\ UNCHANGED <<nd, CT, n, nn, before, entered, part, result>>
  BY <1>1 DEF Exchanging
<1>4. /\ Sync' /\ Alike' /\ Follows' /\ Agreed'
      /\ \A q \in Ranks : Epoch(q)' = Epoch(q)
      /\ pc' \in [Ranks -> Label] /\ pc'[r] \in {"sizes", "layers"}
      /\ \A q \in Ranks : q # r => pc'[q] = pc[q]
  <2>1. PICK l \in {"sizes", "layers"} : pc' = [pc EXCEPT ![r] = l]
    BY <1>1
  <2> QED
    BY <1>0, <1>3, <2>1, Exchange
<1>5. dim[r] \in Dims /\ CT # 0
  BY <1>0, <1>1, <1>3 DEF Counters
<1>6. /\ pending' \in [Ranks -> SUBSET Sides] /\ pending'[r] = pending[r] \ {side}
      /\ \A q \in Ranks : q # r => pending'[q] = pending[q]
  BY <1>0, <1>1 DEF Shapes
<1>7. Shapes'
  <2>1. Boxed(sizes)
    BY <1>0 DEF Shapes
  <2>2. Boxed(PutBox(sizes, r, dim[r], side, Tail(sizes[r][dim[r]][side])))
    BY <1>5, <2>1, OneBox
  <2>3. Boxed(sizes)'
    BY <1>1, <1>2, <2>2 DEF Boxed
  <2>4. Boxed(mail)'
    <3>1. Boxed(mail)
      BY <1>0 DEF Shapes
    <3>2. mail' = mail
      BY <1>1
    <3> QED
      BY <1>2, <3>1, <3>2 DEF Boxed
  <2>5. told' = [x \in Ranks |-> [t \in Sides |-> told'[x][t]]]
    <3>1. PICK v : told' = PutTold(r, side, v)
      BY <1>1
    <3> QED
      BY ONLY <1>0, <3>1, r \in Ranks, side \in Sides, OneTold
  <2> QED
    BY <1>0, <1>1, <1>2, <1>4, <1>6, <2>3, <2>4, <2>5 DEF Shapes
<1>8. Counters'
  BY <1>0, <1>1, <1>2, <1>4, <1>5, <1>6 DEF Counters, Waiting, Exchanging
<1>9. MailInv'
  BY <1>0, <1>4, ArriveSizeMail
<1> QED
  BY <1>4, <1>7, <1>8, <1>9 DEF IInv, CallInv

\* A layer arrives.
LEMMA ArriveIInv ==
  ASSUME IInv, NEW r \in Ranks, NEW side \in Sides, Arrive(r, side)
  PROVE  IInv'
<1>0. CallInv /\ MailInv /\ Shapes /\ Counters
  BY DEF IInv, CallInv
<1>d. PICK d \in Dims : d = dim[r]
  BY <1>0 DEF Counters, Exchanging, Arrive
<1>1. /\ UNCHANGED <<nd, CT, n, nn, before, sizes, entered, part, result>>
      /\ pc[r] = "wait" /\ pending' = [pending EXCEPT ![r] = @ \ {side}]
      /\ mail' = PutBox(mail, r, d, side, Tail(mail[r][d][side]))
      /\ told' = PutTold(r, side, << >>)
  BY <1>d DEF Arrive, fixed, calls, PutBox, PutTold
<1>2. /\ Ranks' = Ranks /\ nd' = nd /\ CT' = CT /\ \A q, e : Near(q, e)' = Near(q, e)
  BY <1>1, Fixed
<1>3. Exchanging(r) /\ UNCHANGED <<nd, CT, n, nn, before, entered, part, result>>
  BY <1>1 DEF Exchanging
<1>4. PICK c \in 0..3, l \in {"wait", "reduce", "post"} :
        /\ dim' = [dim EXCEPT ![r] = c] /\ pc' = [pc EXCEPT ![r] = l]
        /\ l # "reduce" => c \in Dims
        /\ l = "wait" => c = d
  <2>1. CASE pending[r] = {side}
    <3>1. d - 1 \in 0..3 /\ CutFrom(d - 1) \in 0..(d - 1)
      BY NextCut DEF Dims
    <3>2. /\ dim' = [dim EXCEPT ![r] = CutFrom(d - 1)]
          /\ pc' = [pc EXCEPT ![r] = IF CutFrom(d - 1) = 0 THEN "reduce" ELSE "post"]
      BY <1>d, <2>1 DEF Arrive, LastArrival, GoTo
    <3>3. CutFrom(d - 1) \in 0..3 /\ (CutFrom(d - 1) # 0 => CutFrom(d - 1) \in Dims)
      BY <3>1 DEF Dims
    <3>4. CASE CutFrom(d - 1) = 0
      BY <3>2, <3>3, <3>4
    <3>5. CASE CutFrom(d - 1) # 0
      BY <3>2, <3>3, <3>5
    <3> QED
      BY <3>4, <3>5
  <2>2. CASE pending[r] # {side}
    <3>1. dim' = dim /\ pc' = pc
      BY <2>2 DEF Arrive, LastArrival
    <3>2. dim = [dim EXCEPT ![r] = d] /\ pc = [pc EXCEPT ![r] = "wait"]
      BY <1>0, <1>1, <1>d DEF Shapes
    <3>3. d \in 0..3
      BY DEF Dims
    <3> QED
      BY <3>1, <3>2, <3>3
  <2> QED
    BY <2>1, <2>2
<1>5. /\ Sync' /\ Alike' /\ Follows' /\ Agreed'
      /\ \A q \in Ranks : Epoch(q)' = Epoch(q)
      /\ pc' \in [Ranks -> Label] /\ pc'[r] = l
      /\ \A q \in Ranks : q # r => pc'[q] = pc[q]
  BY <1>0, <1>3, <1>4, Exchange
<1>6. /\ dim' \in [Ranks -> 0..3] /\ dim'[r] = c
      /\ \A q \in Ranks : q # r => dim'[q] = dim[q]
  BY <1>0, <1>4 DEF Shapes
<1>7. /\ pending' \in [Ranks -> SUBSET Sides] /\ pending'[r] = pending[r] \ {side}
      /\ \A q \in Ranks : q # r => pending'[q] = pending[q]
  BY <1>0, <1>1 DEF Shapes
<1>8. Shapes'
  <2>1. Boxed(mail)
    BY <1>0 DEF Shapes
  <2>2. Boxed(PutBox(mail, r, d, side, Tail(mail[r][d][side])))
    BY <2>1, OneBox
  <2>3. Boxed(mail)'
    BY <1>1, <1>2, <2>2 DEF Boxed
  <2>4. Boxed(sizes)'
    BY <1>0, <1>1, <1>2 DEF Shapes, Boxed
  <2>5. told' = [x \in Ranks |-> [t \in Sides |-> told'[x][t]]]
    <3>1. PICK v : told' = PutTold(r, side, v)
      BY <1>1
    <3> QED
      BY ONLY <1>0, <3>1, r \in Ranks, side \in Sides, OneTold
  <2>6. p' = [q \in Ranks |-> p'[q]]
    <3>1. PICK new : p' = [p EXCEPT ![r] = new]
      BY DEF Arrive
    <3> QED
      BY <1>0, <3>1 DEF Shapes
  <2> QED
    BY <1>0, <1>1, <1>2, <1>5, <1>6, <1>7, <2>3, <2>4, <2>5, <2>6 DEF Shapes
<1>9. Counters'
  <2>1. pending[r] \subseteq Near(r, d)
    BY <1>0, <1>1, <1>d DEF Counters
  <2>2. l = "wait" => pending'[r] \subseteq Near(r, c)
    BY <1>4, <1>7, <2>1
  <2> QED
    BY <1>0, <1>1, <1>2, <1>4, <1>5, <1>6, <1>7, <2>2 DEF Counters, Waiting, Exchanging
<1>10. MailInv'
  BY <1>0, <1>5, ArriveMail
<1> QED
  BY <1>5, <1>8, <1>9, <1>10 DEF IInv, CallInv

\* The invariant holds at the start.
LEMMA InitIInv == Init => IInv
<1> SUFFICES ASSUME Init PROVE IInv
  OBVIOUS
<1>1. /\ n = [r \in Ranks |-> 0] /\ nn = [r \in Ranks |-> Rehearsal]
      /\ before = [r \in Ranks |-> 0] /\ pc = [r \in Ranks |-> "start"]
      /\ dim = [r \in Ranks |-> 3] /\ pending = [r \in Ranks |-> {}]
      /\ entered = [r \in Ranks |-> 0] /\ part = [r \in Ranks |-> 0]
  BY DEF Init
<1>2. [nd |-> nd, CT |-> CT] \in Programs
  <2>1. PICK x \in Programs : nd = x.nd /\ CT = x.CT
    BY DEF Init
  <2>2. x \in [nd : [Dims -> Nat \ {0}], CT : {0, 1, 4, 5, 6, 7}]
    BY HimenoAssumption
  <2>3. x = [nd |-> nd, CT |-> CT]
    BY <2>1, <2>2
  <2> QED
    BY <2>3
<1>3. \A r \in Ranks, d \in Dims, s \in Sides :
        mail[r][d][s] = << >> /\ sizes[r][d][s] = << >>
  BY DEF Init
<1>4. \A r \in Ranks :
        /\ n[r] = 0 /\ nn[r] = Rehearsal /\ before[r] = 0 /\ pc[r] = "start"
        /\ entered[r] = 0 /\ Epoch(r) = 0 /\ ~Waiting(r) /\ ~Exchanging(r)
  BY <1>1 DEF Epoch, Waiting, Exchanging
<1>5. Shapes
  <2>1. n \in [Ranks -> Nat] /\ before \in [Ranks -> Nat] /\ entered \in [Ranks -> Nat]
    BY <1>1
  <2>2. nn \in [Ranks -> Nat] /\ dim \in [Ranks -> 0..3]
    BY <1>1, HimenoAssumption
  <2>3. pc \in [Ranks -> Label] /\ pending \in [Ranks -> SUBSET Sides]
    BY <1>1 DEF Label
  <2>4. part = [r \in Ranks |-> part[r]]
    BY <1>1
  <2>5. p = [r \in Ranks |-> p[r]]
    BY DEF Init
  <2>6. Boxed(mail)
    BY DEF Init, Boxed
  <2>7. Boxed(sizes)
    BY DEF Init, Boxed
  <2>8. told = [r \in Ranks |-> [s \in Sides |-> told[r][s]]]
    BY DEF Init
  <2> QED
    BY <1>2, <2>1, <2>2, <2>3, <2>4, <2>5, <2>6, <2>7, <2>8 DEF Shapes
<1>6. Counters
  BY <1>4, HimenoAssumption DEF Counters
<1>7. Sync /\ Alike /\ Follows /\ Agreed
  BY <1>4 DEF Sync, Alike, Follows, Agreed, Plan, Turn
<1>8. LayersInv /\ SizesInv
  <2>1. \A q \in Ranks, d \in Dims, s \in Sides :
          ~LayerSent(q, d) /\ ~SizeSent(q, d) /\ ~LayerGot(q, d, s) /\ ~SizeGot(q, d, s)
    BY <1>4 DEF LayerSent, SizeSent, LayerGot, SizeGot
  <2> QED
    BY <1>3, <2>1 DEF LayersInv, SizesInv, NoneEarly, UnderWay
<1>9. Silent /\ SizesTrue
  BY <1>3, <1>4 DEF Silent, SizesTrue
<1> QED
  BY <1>5, <1>6, <1>7, <1>8, <1>9 DEF IInv, CallInv, MailInv

\* A stutter keeps it.
LEMMA StutterIInv ==
  ASSUME IInv, UNCHANGED vars
  PROVE  IInv'
<1>1. UNCHANGED <<nd, CT, p, n, nn, before, pc, dim, pending, mail, sizes, told, entered, part, result>>
  BY DEF vars, fixed, sizevars, calls
<1>2. Ranks' = Ranks /\ \A r, d, s, q : Beside(r, d, s, q)' <=> Beside(r, d, s, q)
  BY <1>1, Fixed
<1>3. Shapes'
  BY <1>1, <1>2 DEF IInv, CallInv, Shapes, Boxed
<1>4. Counters' /\ Sync' /\ Alike' /\ Follows' /\ Agreed'
  BY <1>1, <1>2, Fixed DEF IInv, CallInv, Counters, Sync, Alike, Follows, Agreed, Epoch, Waiting,
    Exchanging, Plan, Turn, NextPlan, SecondRun, SlowestTime, Complete
<1>5. \A q \in Ranks : Epoch(q)' = Epoch(q)
  BY <1>1 DEF Epoch, Waiting
<1>6. \A q \in Ranks : \A d, s :
        /\ LayerSent(q, d)' <=> LayerSent(q, d)
        /\ SizeSent(q, d)' <=> SizeSent(q, d)
        /\ LayerGot(q, d, s)' <=> LayerGot(q, d, s)
        /\ SizeGot(q, d, s)' <=> SizeGot(q, d, s)
  BY <1>1, Elsewhere
<1>7. MailInv'
  <2>1. \A q \in Ranks, d \in Dims : nd[d] > 1 =>
           /\ LayerSent(q, d)' <=> LayerSent(q, d)
           /\ SizeSent(q, d)' <=> SizeSent(q, d)
    BY <1>6
  <2>2. \A q \in Ranks, d \in Dims, s \in Sides : nd[d] > 1 =>
           /\ LayerGot(q, d, s)' <=> LayerGot(q, d, s)
           /\ SizeGot(q, d, s)' <=> SizeGot(q, d, s)
    BY <1>6
  <2>3. \A q \in Ranks : pc'[q] \in {"sizes", "layers"} =>
           pc[q] \in {"sizes", "layers"} /\ dim'[q] = dim[q] /\ p'[q] = p[q]
    BY <1>1
  <2>4. UNCHANGED <<nd, CT, mail, sizes, told>> /\ Shapes /\ MailInv
    BY <1>1 DEF IInv, CallInv
  <2> QED
    BY <1>5, <2>1, <2>2, <2>3, <2>4, QuietMail
<1> QED
  BY <1>3, <1>4, <1>7 DEF IInv, CallInv

\* Every step of the program keeps it.
LEMMA NextIInv == IInv /\ [Next]_vars => IInv'
<1> SUFFICES ASSUME IInv, [Next]_vars PROVE IInv'
  OBVIOUS
<1>1. ASSUME NEW r \in Ranks, Step(r) PROVE IInv'
  BY <1>1, BarrierIInv, LeaveSweepIInv, SweepIInv, PostSizesIInv, ArriveSizeIInv, PostIInv,
     ArriveIInv, ReduceIInv, TimingIInv, LeaveTimingIInv DEF Step
<1>2. CASE Terminated
  BY <1>2, StutterIInv DEF Terminated
<1>3. CASE UNCHANGED vars
  BY <1>3, StutterIInv
<1> QED
  BY <1>1, <1>2, <1>3 DEF Next

-----------------------------------------------------------------------------
(* Theorems. *)

\* The ranks of himenoBMTxps.c go through jacobi() in step: whoever is ahead has
\* left a collective call the others are still in, and does what they will do;
\* and of every layer sendp() sends the whereabouts are known.
THEOREM Invariance == Spec => []IInv
BY InitIInv, NextIInv, PTL DEF Spec

\* The messages of sendp1, sendp2 and sendp3 carry the same tag in every sweep,
\* and the sizes of the compressed layers go in messages of their own; yet on
\* any decomposition no two layers of one side are under way together, and the
\* size a rank goes by is that of the layer it receives.
THEOREM OneLayer == Spec => []OneLayerUnderWay
<1>1. IInv => OneLayerUnderWay
  <2> SUFFICES ASSUME IInv, NEW r \in Ranks, NEW d \in Dims, NEW s \in Sides
               PROVE  /\ Len(mail[r][d][s]) <= 1
                      /\ Len(sizes[r][d][s]) <= 1
                      /\ CT # 0 /\ pc[r] = "wait" /\ d = dim[r] /\ mail[r][d][s] # << >> =>
                           told[r][s] = Head(mail[r][d][s])
    BY DEF OneLayerUnderWay
  <2>0. CallInv /\ MailInv /\ Shapes
    BY DEF IInv, CallInv
  <2>1. \A box : Single(box) \/ box = << >> => Len(box) <= 1
    <3>1. \A box : Single(box) => Len(box) = 1
      BY OneMessage DEF Single
    <3>2. Len(<< >>) = 0 /\ 0 <= 1 /\ 1 <= 1
      OBVIOUS
    <3> QED
      BY ONLY <3>1, <3>2, Zenon
  <2>2. CASE Neighbour(nd, r, d, s) = ProcNull
    <3>1. mail[r][d][s] = << >> /\ sizes[r][d][s] = << >>
      BY <2>0, <2>2 DEF MailInv, Silent
    <3> QED
      BY <2>1, <3>1
  <2>3. CASE Neighbour(nd, r, d, s) # ProcNull
    <3>1. PICK q : Beside(r, d, s, q)
      BY <2>3 DEF Beside
    <3>2. q \in Ranks
      BY <2>0, <3>1, Mutual
    <3>3. /\ IF UnderWay(r, q, LayerSent(q, d), LayerGot(r, d, s))
             THEN Single(mail[r][d][s]) ELSE mail[r][d][s] = << >>
          /\ Single(sizes[r][d][s]) \/ sizes[r][d][s] = << >>
      BY <2>0, <3>1, <3>2 DEF MailInv, LayersInv, SizesInv
    <3>4. Len(mail[r][d][s]) <= 1 /\ Len(sizes[r][d][s]) <= 1
      BY <2>1, <3>3
    <3>5. ASSUME CT # 0, pc[r] = "wait", d = dim[r], mail[r][d][s] # << >>
          PROVE  told[r][s] = Head(mail[r][d][s])
      <4>1. SizeHeld(r, d, s) = Head(mail[r][d][s])
        BY <2>0, <3>1, <3>2, <3>5 DEF MailInv, SizesTrue
      <4>2. ~Waiting(r)
        BY <3>5 DEF Waiting
      <4>3. Epoch(q) = Epoch(r)
        BY <2>0, <3>2, <3>3, <3>5, <4>2, InEpoch
      <4>4. SizeGot(r, d, s)
        BY <3>5 DEF SizeGot
      <4>5. Epoch(q) \in Nat
        BY <2>0, <3>2, <4>2, Apart
      <4>6. ~UnderWay(r, q, SizeSent(q, d), SizeGot(r, d, s))
        BY <4>3, <4>4, <4>5 DEF UnderWay
      <4>7. sizes[r][d][s] = << >>
        BY <2>0, <3>1, <3>2, <4>6 DEF MailInv, SizesInv
      <4> QED
        BY <4>1, <4>7 DEF SizeHeld
    <3> QED
      BY <3>4, <3>5
  <2> QED
    BY <2>2, <2>3
<1> QED
  BY <1>1, Invariance, PTL

-----------------------------------------------------------------------------
(***************************************************************************)
(* What the cells hold: after every exchange of layers each rank has, on   *)
(* its part of the grid, the values the whole grid would have. And what    *)
(* the collective calls add up: each inner point of the grid is counted    *)
(* once.                                                                   *)
(***************************************************************************)

(* The inductive invariant. *)

\* A layer r shares with the neighbour on side s is behind its other cells.
Stale(r, d, s) == Exchanging(r) /\ s \in Near(r, d) /\ ~LayerGot(r, d, s)

\* Cell c is in no such layer, only in those of dimensions in D.
FreshIn(r, c, D) ==
  \A d \in D, s \in Sides : c[d] = RecvLayer(r, d, s) => ~Stale(r, d, s)

\* It is in no layer of a dimension of D at all.
Inner(r, c, D) ==
  \A d \in D, s \in Sides : c[d] = RecvLayer(r, d, s) => s \notin Near(r, d)

\* The value of the whole grid after k sweeps, as far as nothing has come in from
\* the edge.
Right(v, g, k) == v = ValueAt(g, k) \/ (CT # 0 /\ \E x \in FromCutEdge(g) : x < k)

Cell(v) == v.sweep \in Nat \cup {-1} /\ DOMAIN v.point = Dims

\* Cells on the edge of the grid are always right without compression.
Unmoved(g) == CT = 0 /\ OnEdge(g)

CellsInv ==
  \A r \in Ranks :
    /\ p[r] = [c \in Local(nd, r) |-> p[r][c]]
    /\ \A c \in Local(nd, r) :
         /\ Cell(p[r][c])
         /\ FreshIn(r, c, Dims) \/ Unmoved(Global(nd, r)[c]) =>
              Right(p[r][c], Global(nd, r)[c], Sweeps(r))

\* A layer under way from q: right where it is in no layer of a dimension that
\* is still to be exchanged.
LoadsInv ==
  \A r \in Ranks, d \in Dims, s \in Sides, q \in Ranks :
    Beside(r, d, s, q) /\ mail[r][d][s] # << >> =>
      \A c \in Carried(r, d, RecvLayer(r, d, s)) :
        /\ Cell(Head(mail[r][d][s])[Flat(c, d)])
        /\ Inner(r, c, 1..(d - 1)) \/ Unmoved(Global(nd, r)[c]) =>
             Right(Head(mail[r][d][s])[Flat(c, d)], Global(nd, r)[c], Sweeps(q))

Begun == \A r \in Ranks : Exchanging(r) => n[r] >= 1

CellInv == CellsInv /\ LoadsInv /\ Begun

-----------------------------------------------------------------------------
(* The parts of a dimension. *)

\* The closed form of m1.
Start(m, k, i) == i * (m \div k) + (IF i <= m % k THEN i ELSE m % k)

\* The closed form satisfies the recurrence by which m1 is defined.
LEMMA StartStep ==
  ASSUME NEW m \in Nat, NEW k \in Nat \ {0}
  PROVE  /\ Start(m, k, 0) = 0 /\ Start(m, k, k) = m
         /\ \A i \in 0..k : Start(m, k, i) \in Nat
         /\ \A i \in 1..k : Start(m, k, i) =
              Start(m, k, i - 1) + (m \div k) + (IF i <= m % k THEN 1 ELSE 0)
<1>1. PICK h \in Nat, t \in 0..(k - 1) : h = m \div k /\ t = m % k /\ m = k * h + t
  BY DivModExists
<1>2. 0 * h = 0 /\ \A i \in Nat : i * h \in Nat /\ (i + 1) * h = i * h + h
  BY Z3
<1>3. \A i \in 1..k : i * h = (i - 1) * h + h
  <2>1. \A i \in 1..k : i - 1 \in Nat /\ i = (i - 1) + 1
    OBVIOUS
  <2> QED
    BY <1>2, <2>1
<1>4. \A i \in 0..k : Start(m, k, i) = i * h + (IF i <= t THEN i ELSE t)
  BY <1>1 DEF Start
<1>5. ASSUME NEW i \in 1..k
      PROVE  Start(m, k, i) = Start(m, k, i - 1) + h + (IF i <= t THEN 1 ELSE 0)
  <2>1. PICK a \in Nat : a = (i - 1) * h
    <3>1. i - 1 \in Nat
      OBVIOUS
    <3> QED
      BY <1>2, <3>1
  <2>2. /\ Start(m, k, i) = (a + h) + (IF i <= t THEN i ELSE t)
        /\ Start(m, k, i - 1) = a + (IF i - 1 <= t THEN i - 1 ELSE t)
    BY <1>3, <1>4, <2>1
  <2> QED
    BY <2>2
<1>6. \A i \in 0..k : Start(m, k, i) \in Nat
  <2> TAKE i \in 0..k
  <2>1. PICK a \in Nat : a = i * h
    BY <1>2
  <2>2. Start(m, k, i) = a + (IF i <= t THEN i ELSE t)
    BY <1>4, <2>1
  <2> QED
    BY <2>2
<1>7. Start(m, k, 0) = 0
  BY <1>2, <1>4
<1>8. Start(m, k, k) = m
  BY <1>1, <1>4
<1> QED
  BY <1>1, <1>5, <1>6, <1>7, <1>8

\* m1 is defined by recursion; what it computes.
LEMMA m1Is ==
  ASSUME NEW m \in Nat, NEW k \in Nat \ {0}
  PROVE  \A i \in 0..k : m1(m, k)[i] = Start(m, k, i)
<1> DEFINE Law(f) == f = [i \in 0..k |->
                            IF i = 0 THEN 0
                            ELSE f[i - 1] + (m \div k) + (IF i <= m % k THEN 1 ELSE 0)]
           g == [i \in 0..k |-> Start(m, k, i)]
<1>1. Law(g)
  <2>1. \A i \in 0..k : g[i] = Start(m, k, i)
    OBVIOUS
  <2>2. g[0] = 0
    BY <2>1, StartStep
  <2>3. \A i \in 1..k : i \in 0..k /\ i - 1 \in 0..k
    OBVIOUS
  <2>4. \A i \in 1..k : Start(m, k, i) =
              Start(m, k, i - 1) + (m \div k) + (IF i <= m % k THEN 1 ELSE 0)
    BY StartStep
  <2>5. g = [i \in 0..k |-> g[i]]
    OBVIOUS
  <2> HIDE DEF g
  <2>6. \A i \in 1..k : g[i] = g[i - 1] + (m \div k) + (IF i <= m % k THEN 1 ELSE 0)
    BY <2>1, <2>3, <2>4
  <2>7. \A i \in 0..k : g[i] = IF i = 0 THEN 0
                               ELSE g[i - 1] + (m \div k) + (IF i <= m % k THEN 1 ELSE 0)
    <3>1. \A i \in 0..k : i = 0 \/ i \in 1..k
      OBVIOUS
    <3> QED
      BY <2>2, <2>6, <3>1
  <2> QED
    BY <2>5, <2>7
<1>2. m1(m, k) = CHOOSE f : Law(f)
  BY DEF m1
<1>3. Law(m1(m, k))
  <2> HIDE DEF Law, g
  <2>1. \E f : Law(f)
    BY <1>1
  <2> QED
    BY <1>2, <2>1
<1>4. PICK f : f = m1(m, k) /\ Law(f)
  BY <1>3
<1> DEFINE T == {i \in 0..k : f[i] # Start(m, k, i)}
<1>5. T = {}
  <2> SUFFICES ASSUME T # {} PROVE FALSE
    OBVIOUS
  <2>1. T \in SUBSET Nat /\ \A i \in 0..k : i \notin T => f[i] = Start(m, k, i)
    OBVIOUS
  <2>2. PICK i \in T : \A j \in T : i <= j
    <3> HIDE DEF T
    <3> QED
      BY <2>1, LeastNat
  <2>3. i \in 0..k /\ f[i] # Start(m, k, i)
    OBVIOUS
  <2>4. i # 0
    BY <1>4, <2>3, StartStep
  <2>5. i - 1 \in 0..k /\ ~(i <= i - 1) /\ i \in 1..k
    BY <2>3, <2>4
  <2>6. f[i - 1] = Start(m, k, i - 1)
    BY <2>1, <2>2, <2>5
  <2>7. f[i] = f[i - 1] + (m \div k) + (IF i <= m % k THEN 1 ELSE 0)
    BY <1>4, <2>3, <2>4
  <2>8. Start(m, k, i) =
          Start(m, k, i - 1) + (m \div k) + (IF i <= m % k THEN 1 ELSE 0)
    BY <2>5, StartStep
  <2> QED
    BY <2>3, <2>6, <2>7, <2>8
<1> QED
  BY <1>4, <1>5

\* Where a part begins and ends.
LEMMA Parts ==
  ASSUME NEW m \in Nat, NEW k \in Nat \ {0}, k <= m, NEW i \in 0..(k - 1)
  PROVE  /\ m1(m, k)[i] \in Nat /\ m1(m, k)[i + 1] \in Nat
         /\ m1(m, k)[i] < m1(m, k)[i + 1]
         /\ i = 0 => m1(m, k)[i] = 0
         /\ i = k - 1 => m1(m, k)[i + 1] = m
<1>1. i \in 0..k /\ i + 1 \in 1..k /\ i + 1 \in 0..k /\ (i + 1) - 1 = i
  OBVIOUS
<1>2. m \div k \in Nat \ {0}
  <2>1. PICK h \in Nat, t \in 0..(k - 1) : h = m \div k /\ m = k * h + t
    BY DivModExists
  <2>2. h # 0
    <3> SUFFICES ASSUME h = 0 PROVE FALSE
      OBVIOUS
    <3>1. k * 0 = 0
      BY Z3
    <3> QED
      BY <2>1, <3>1
  <2> QED
    BY <2>1, <2>2
<1>3. /\ Start(m, k, i) \in Nat /\ Start(m, k, i + 1) \in Nat
      /\ Start(m, k, i + 1) = Start(m, k, i) + (m \div k) + (IF i + 1 <= m % k THEN 1 ELSE 0)
      /\ Start(m, k, 0) = 0 /\ Start(m, k, k) = m
  <2>1. PICK j \in 1..k : j = i + 1 /\ j - 1 = i
    BY <1>1
  <2>2. Start(m, k, j) = Start(m, k, j - 1) + (m \div k) + (IF j <= m % k THEN 1 ELSE 0)
    BY StartStep
  <2>3. /\ Start(m, k, 0) = 0 /\ Start(m, k, k) = m
        /\ \A x \in 0..k : Start(m, k, x) \in Nat
    BY StartStep
  <2> QED
    BY <1>1, <2>1, <2>2, <2>3
<1>4. m1(m, k)[i] = Start(m, k, i) /\ m1(m, k)[i + 1] = Start(m, k, i + 1)
  BY <1>1, m1Is
<1>5. Start(m, k, i) < Start(m, k, i + 1)
  <2>1. PICK a \in Nat, b \in Nat, h \in Nat \ {0} :
          a = Start(m, k, i) /\ b = Start(m, k, i + 1) /\ h = m \div k
    BY <1>2, <1>3
  <2>2. b = a + h \/ b = a + h + 1
    BY <1>3, <2>1
  <2> QED
    BY <2>1, <2>2
<1>6. i = k - 1 => i + 1 = k
  OBVIOUS
<1> QED
  BY <1>3, <1>4, <1>5, <1>6

-----------------------------------------------------------------------------
(* The cells of a rank and of its neighbours. *)

Fit == /\ \A d \in Dims : nd[d] <= Size[d]
       /\ CT = 0 => Harmless(nd)

\* A good cut gives every part at least one layer of the grid.
LEMMA Fits ==
  ASSUME WellCut, Shapes
  PROVE  Fit
<1>1. PICK x \in Programs : x = [nd |-> nd, CT |-> CT]
  BY DEF Shapes
<1>2. x.nd = nd /\ x.CT = CT
  BY <1>1
<1>3. (\A d \in Dims : x.nd[d] <= Size[d]) /\ (x.CT = 0 => Harmless(x.nd))
  BY DEF WellCut
<1> QED
  BY <1>2, <1>3 DEF Fit

\* Where the part of rank r begins and ends in dimension d.
From(r, d) == m1(Size[d], nd[d])[iop(nd, r)[d]]
UpTo(r, d) == m1(Size[d], nd[d])[iop(nd, r)[d] + 1]

PartIs(r, d, i, k, a, b) ==
  /\ i = iop(nd, r)[d] /\ k = nd[d] /\ a = From(r, d) /\ b = UpTo(r, d)
  /\ i < k /\ a < b /\ Size[d] \in Nat
  /\ i = 0 => a = 0
  /\ i = k - 1 => b = Size[d]
  /\ Extent(nd, r, d) = b - a + (IF i # 0 THEN 1 ELSE 0) + (IF i # k - 1 THEN 1 ELSE 0)
  /\ Offset(nd, r, d) = a - (IF i = 0 THEN 0 ELSE 1)

\* The place of a rank among the parts of a dimension.
LEMMA PlaceIs ==
  ASSUME Shapes, NEW r \in Ranks, NEW d \in Dims
  PROVE  iop(nd, r)[d] \in 0..(nd[d] - 1) /\ nd[d] \in Nat \ {0}
<1>1. nd \in [Dims -> Nat \ {0}]
  BY Basics
<1>2. iop(nd, r) \in Place
  BY <1>1, Numbering
<1> QED
  BY <1>1, <1>2 DEF Place, Dims

\* The part of a rank in a dimension, by the closed form: place i of k, from a up to b.
LEMMA PartOf ==
  ASSUME Shapes, Fit, NEW r \in Ranks, NEW d \in Dims
  PROVE  \E i \in Nat, k \in Nat, a \in Nat, b \in Nat : PartIs(r, d, i, k, a, b)
<1>1. PICK i \in 0..(nd[d] - 1) : i = iop(nd, r)[d]
  BY PlaceIs
<1>2. nd[d] \in Nat \ {0} /\ nd[d] <= Size[d]
  BY PlaceIs DEF Fit
<1>3. Size[d] \in Nat
  BY PartitionAssumption DEF Size, Dims
<1>4. /\ m1(Size[d], nd[d])[i] \in Nat /\ m1(Size[d], nd[d])[i + 1] \in Nat
      /\ m1(Size[d], nd[d])[i] < m1(Size[d], nd[d])[i + 1]
      /\ i = 0 => m1(Size[d], nd[d])[i] = 0
      /\ i = nd[d] - 1 => m1(Size[d], nd[d])[i + 1] = Size[d]
  BY <1>2, <1>3, Parts
<1>5. From(r, d) = m1(Size[d], nd[d])[i] /\ UpTo(r, d) = m1(Size[d], nd[d])[i + 1]
  BY <1>1 DEF From, UpTo
<1>6. Extent(nd, r, d) = UpTo(r, d) - From(r, d) + (IF i # 0 THEN 1 ELSE 0)
                           + (IF i # nd[d] - 1 THEN 1 ELSE 0)
  BY <1>1, <1>5 DEF Extent, m2
<1>7. Offset(nd, r, d) = From(r, d) - (IF i = 0 THEN 0 ELSE 1)
  BY <1>1, <1>5 DEF Offset
<1>8. i \in Nat /\ i < nd[d]
  BY <1>2
<1> QED
  BY <1>1, <1>2, <1>3, <1>4, <1>5, <1>6, <1>7, <1>8 DEF PartIs

\* The number of cells of a rank in a dimension.
LEMMA Extents ==
  ASSUME Shapes, Fit, NEW r \in Ranks, NEW d \in Dims
  PROVE  Extent(nd, r, d) \in Nat \ {0} /\ Offset(nd, r, d) \in Int
<1>1. PICK i \in Nat, k \in Nat, a \in Nat, b \in Nat : PartIs(r, d, i, k, a, b)
  BY PartOf
<1> QED
  BY <1>1 DEF PartIs

\* A rank has a neighbour on a side if there is a place for one.
LEMMA NearIs ==
  ASSUME Shapes, NEW r \in Ranks, NEW d \in Dims, NEW s \in Sides
  PROVE  s \in Near(r, d) <=>
           (IF s = 0 THEN iop(nd, r)[d] - 1 ELSE iop(nd, r)[d] + 1) \in 0..(nd[d] - 1)
<1> DEFINE to == [iop(nd, r) EXCEPT ![d] = IF s = 0 THEN @ - 1 ELSE @ + 1]
<1>0. nd \in [Dims -> Nat \ {0}]
  BY Basics
<1>1. PICK x \in 0..(nd[1] - 1), y \in 0..(nd[2] - 1), z \in 0..(nd[3] - 1) :
        iop(nd, r) = <<x, y, z>>
  BY <1>0, Numbering DEF Place
<1>2. d = 1 \/ d = 2 \/ d = 3
  BY DEF Dims
<1>3. to[d] = IF s = 0 THEN iop(nd, r)[d] - 1 ELSE iop(nd, r)[d] + 1
  BY <1>1, <1>2
<1>4. ASSUME to[d] \in 0..(nd[d] - 1) PROVE RankAt(nd, to[1], to[2], to[3]) \in Ranks
  <2>1. to[1] \in 0..(nd[1] - 1) /\ to[2] \in 0..(nd[2] - 1) /\ to[3] \in 0..(nd[3] - 1)
    BY <1>1, <1>2, <1>4
  <2> HIDE DEF to
  <2> QED
    BY <1>0, <2>1, Numbering
<1>5. Neighbour(nd, r, d, s) =
        IF to[d] \in 0..(nd[d] - 1) THEN RankAt(nd, to[1], to[2], to[3]) ELSE ProcNull
  BY DEF Neighbour
<1>6. ProcNull \notin Ranks
  BY DEF Ranks, ProcNull
<1> HIDE DEF to
<1>7. Neighbour(nd, r, d, s) # ProcNull <=> to[d] \in 0..(nd[d] - 1)
  BY <1>4, <1>5, <1>6
<1> QED
  BY <1>3, <1>7 DEF Near

\* A rank without a neighbour on a side ends at the edge of the grid.
LEMMA AtEdge ==
  ASSUME Shapes, Fit, NEW r \in Ranks, NEW d \in Dims, NEW s \in Sides, s \notin Near(r, d)
  PROVE  Offset(nd, r, d) + RecvLayer(r, d, s) = IF s = 0 THEN 0 ELSE Size[d] - 1
<1>1. PICK i \in Int : /\ i = iop(nd, r)[d] /\ i \in 0..(nd[d] - 1) /\ nd[d] \in Nat \ {0}
  BY PlaceIs
<1>2. i = IF s = 0 THEN 0 ELSE nd[d] - 1
  <2>1. (IF s = 0 THEN i - 1 ELSE i + 1) \notin 0..(nd[d] - 1)
    BY <1>1, NearIs
  <2> QED
    BY <1>1, <2>1 DEF Sides
<1>a. PICK j \in Nat, k \in Nat, a \in Nat, b \in Nat : PartIs(r, d, j, k, a, b)
  BY PartOf
<1>b. j = IF s = 0 THEN 0 ELSE k - 1
  BY <1>1, <1>2, <1>a DEF PartIs
<1>3. CASE s = 0
  BY <1>3, <1>a, <1>b DEF RecvLayer, PartIs
<1>4. CASE s = 1
  <2>1. RecvLayer(r, d, s) = Extent(nd, r, d) - 1
    BY <1>4 DEF RecvLayer
  <2>2. j = k - 1 /\ b = Size[d]
    BY <1>4, <1>a, <1>b DEF PartIs
  <2>3. PICK x \in {0, 1} : Extent(nd, r, d) = b - a + x /\ Offset(nd, r, d) = a - x
    <3>1. /\ j = 0 => Extent(nd, r, d) = b - a + 0 + 0 /\ Offset(nd, r, d) = a - 0
          /\ j # 0 => Extent(nd, r, d) = b - a + 1 + 0 /\ Offset(nd, r, d) = a - 1
      BY <1>a, <2>2 DEF PartIs
    <3>2. b - a + 0 + 0 = b - a + 0 /\ b - a + 1 + 0 = b - a + 1
      OBVIOUS
    <3> QED
      BY <3>1, <3>2
  <2>4. Offset(nd, r, d) + RecvLayer(r, d, s) = b - 1
    BY <2>1, <2>3
  <2> QED
    BY <1>4, <2>2, <2>4
<1> QED
  BY <1>3, <1>4 DEF Sides

\* In the dimensions they are not cut in, neighbours have the same cells.
LEMMA SameAcross ==
  ASSUME Shapes, NEW r \in Ranks, NEW d \in Dims, NEW s \in Sides, NEW q, Beside(r, d, s, q),
         NEW e \in Dims, e # d
  PROVE  /\ Extent(nd, q, e) = Extent(nd, r, e) /\ Offset(nd, q, e) = Offset(nd, r, e)
         /\ Near(q, e) = Near(r, e) /\ \A t : RecvLayer(q, e, t) = RecvLayer(r, e, t)
<1>0. nd \in [Dims -> Nat \ {0}]
  BY Basics
<1>1. iop(nd, q) = Shifted(r, d, s)
  BY <1>0, NeighbourPlace
<1>2. PICK x, y, z : iop(nd, r) = <<x, y, z>>
  BY DEF iop
<1>3. iop(nd, q)[e] = iop(nd, r)[e]
  BY <1>1, <1>2 DEF Shifted, Dims
<1>4. Extent(nd, q, e) = Extent(nd, r, e) /\ Offset(nd, q, e) = Offset(nd, r, e)
  BY <1>3 DEF Extent, Offset
<1>5. \A t : RecvLayer(q, e, t) = RecvLayer(r, e, t)
  BY <1>4 DEF RecvLayer
<1>6. q \in Ranks
  BY Mutual
<1>7. Near(q, e) = Near(r, e)
  <2>1. \A x1 \in Ranks, t \in Sides : t \in Near(x1, e) <=>
          (IF t = 0 THEN iop(nd, x1)[e] - 1 ELSE iop(nd, x1)[e] + 1) \in 0..(nd[e] - 1)
    BY NearIs
  <2>2. Near(q, e) \subseteq Sides /\ Near(r, e) \subseteq Sides
    BY DEF Near
  <2> QED
    BY <1>3, <1>6, <2>1, <2>2
<1> QED
  BY <1>4, <1>5, <1>7

\* The layer the neighbour sends is where r keeps the one it receives; it is
\* made of points of its own.
LEMMA SamePoint ==
  ASSUME Shapes, Fit, NEW r \in Ranks, NEW d \in Dims, NEW s \in Sides, NEW q, Beside(r, d, s, q)
  PROVE  /\ SentLayer(q, d, 1 - s) \in 0..(Extent(nd, q, d) - 1)
         /\ RecvLayer(r, d, s) \in 0..(Extent(nd, r, d) - 1)
         /\ Offset(nd, q, d) + SentLayer(q, d, 1 - s) = Offset(nd, r, d) + RecvLayer(r, d, s)
         /\ \A t \in Near(q, d) : SentLayer(q, d, 1 - s) # RecvLayer(q, d, t)
<1>0. nd \in [Dims -> Nat \ {0}] /\ q \in Ranks
  BY Basics, Mutual
<1>1. PICK i \in Nat, k \in Nat, a \in Nat, b \in Nat : PartIs(r, d, i, k, a, b)
  BY PartOf
<1>2. PICK j \in Nat, kk \in Nat, aa \in Nat, bb \in Nat : PartIs(q, d, j, kk, aa, bb)
  BY <1>0, PartOf
<1>3. kk = k /\ j = IF s = 0 THEN i - 1 ELSE i + 1
  <2>1. iop(nd, q) = Shifted(r, d, s)
    BY <1>0, NeighbourPlace
  <2>2. PICK x, y, z : iop(nd, r) = <<x, y, z>>
    BY DEF iop
  <2>3. iop(nd, q)[d] = IF s = 0 THEN iop(nd, r)[d] - 1 ELSE iop(nd, r)[d] + 1
    BY <2>1, <2>2 DEF Shifted, Dims
  <2> QED
    BY <1>1, <1>2, <2>3 DEF PartIs
<1>a. /\ a = m1(Size[d], nd[d])[i] /\ b = m1(Size[d], nd[d])[i + 1]
      /\ aa = m1(Size[d], nd[d])[j] /\ bb = m1(Size[d], nd[d])[j + 1]
  BY <1>1, <1>2 DEF PartIs, From, UpTo
<1>4. s = 0 => bb = a
  <2>1. s = 0 => j + 1 = i
    BY <1>3
  <2> QED
    BY <1>a, <2>1
<1>5. s = 1 => aa = b
  <2>1. s = 1 => j = i + 1
    BY <1>3
  <2> QED
    BY <1>a, <2>1
<1>6. PICK E \in Int, EE \in Int, O \in Int, OO \in Int :
        /\ E = Extent(nd, r, d) /\ EE = Extent(nd, q, d)
        /\ O = Offset(nd, r, d) /\ OO = Offset(nd, q, d)
  BY <1>0, Extents
<1>7. /\ E = b - a + (IF i # 0 THEN 1 ELSE 0) + (IF i # k - 1 THEN 1 ELSE 0)
      /\ O = a - (IF i = 0 THEN 0 ELSE 1) /\ i < k /\ a < b
  BY <1>1, <1>6 DEF PartIs
<1>8. /\ EE = bb - aa + (IF j # 0 THEN 1 ELSE 0) + (IF j # k - 1 THEN 1 ELSE 0)
      /\ OO = aa - (IF j = 0 THEN 0 ELSE 1) /\ j < k /\ aa < bb
  BY <1>2, <1>3, <1>6 DEF PartIs
<1>9. \A t \in Near(q, d) : t \in Sides /\ (t = 0 => j # 0) /\ (t = 1 => j # k - 1)
  <2> TAKE t \in Near(q, d)
  <2>1. t \in Sides
    BY DEF Near
  <2>2. (IF t = 0 THEN j - 1 ELSE j + 1) \in 0..(k - 1)
    BY <1>0, <1>2, <1>3, <2>1, NearIs DEF PartIs
  <2> QED
    BY <2>1, <2>2
<1>10. CASE s = 0
  <2>1. /\ RecvLayer(r, d, s) = 0 /\ SentLayer(q, d, 1 - s) = EE - 2
        /\ RecvLayer(q, d, 0) = 0 /\ RecvLayer(q, d, 1) = EE - 1
    BY <1>6, <1>10 DEF RecvLayer, SentLayer
  <2>2. /\ i # 0 /\ j = i - 1 /\ j # k - 1 /\ bb = a
    BY <1>3, <1>4, <1>7, <1>10
  <2>3. 0 \in 0..(E - 1) /\ EE - 2 \in 0..(EE - 1) /\ OO + (EE - 2) = O + 0
    BY <1>7, <1>8, <2>2
  <2>4. EE - 2 # EE - 1 /\ (j # 0 => EE - 2 # 0)
    BY <1>8, <2>2
  <2>5. \A t \in Near(q, d) : SentLayer(q, d, 1 - s) # RecvLayer(q, d, t)
    BY <1>9, <2>1, <2>4 DEF Sides
  <2> QED
    BY <1>6, <2>1, <2>3, <2>5
<1>11. CASE s = 1
  <2>1. /\ RecvLayer(r, d, s) = E - 1 /\ SentLayer(q, d, 1 - s) = 1
        /\ RecvLayer(q, d, 0) = 0 /\ RecvLayer(q, d, 1) = EE - 1
    BY <1>6, <1>11 DEF RecvLayer, SentLayer
  <2>2. /\ j = i + 1 /\ i # k - 1 /\ j # 0 /\ aa = b
    BY <1>3, <1>5, <1>7, <1>8, <1>11
  <2>3. E - 1 \in 0..(E - 1) /\ 1 \in 0..(EE - 1) /\ OO + 1 = O + (E - 1)
    BY <1>7, <1>8, <2>2
  <2>4. 1 # 0 /\ (j # k - 1 => 1 # EE - 1)
    BY <1>8, <2>2
  <2>5. \A t \in Near(q, d) : SentLayer(q, d, 1 - s) # RecvLayer(q, d, t)
    BY <1>9, <2>1, <2>4 DEF Sides
  <2> QED
    BY <1>6, <2>1, <2>3, <2>5
<1> QED
  BY <1>10, <1>11 DEF Sides

Triple(c) == c = <<c[1], c[2], c[3]>>

\* The cells of a rank, coordinate by coordinate.
LEMMA LocalIs ==
  ASSUME NEW r, NEW c
  PROVE  c \in Local(nd, r) <=>
           Triple(c) /\ \A d \in Dims : c[d] \in 0..(Extent(nd, r, d) - 1)
<1>1. Dims = {1, 2, 3}
  BY DEF Dims
<1> QED
  BY <1>1 DEF Local, Triple

\* A cell moved along dimension d.
Moved(c, d, v) == [c EXCEPT ![d] = v]

\* A cell moved along one dimension.
LEMMA MovedIs ==
  ASSUME NEW c, Triple(c), NEW d \in Dims, NEW v
  PROVE  /\ Triple(Moved(c, d, v)) /\ Moved(c, d, v)[d] = v
         /\ \A e \in Dims : e # d => Moved(c, d, v)[e] = c[e]
<1>1. PICK x, y, z : c = <<x, y, z>>
  BY DEF Triple
<1>2. CASE d = 1
  <2>1. Moved(c, d, v) = <<v, y, z>>
    BY <1>1, <1>2 DEF Moved
  <2> QED
    BY <1>1, <1>2, <2>1 DEF Triple, Dims
<1>3. CASE d = 2
  <2>1. Moved(c, d, v) = <<x, v, z>>
    BY <1>1, <1>3 DEF Moved
  <2> QED
    BY <1>1, <1>3, <2>1 DEF Triple, Dims
<1>4. CASE d = 3
  <2>1. Moved(c, d, v) = <<x, y, v>>
    BY <1>1, <1>4 DEF Moved
  <2> QED
    BY <1>1, <1>4, <2>1 DEF Triple, Dims
<1> QED
  BY <1>2, <1>3, <1>4 DEF Dims

\* Cells with the same coordinates are the same.
LEMMA SameTriple ==
  ASSUME NEW a, NEW b, Triple(a), Triple(b), \A e \in Dims : a[e] = b[e]
  PROVE  a = b
<1>1. a[1] = b[1] /\ a[2] = b[2] /\ a[3] = b[3]
  BY DEF Dims
<1> QED
  BY <1>1 DEF Triple

\* The point of the grid that a cell stands for.
LEMMA GlobalIs ==
  ASSUME NEW r, NEW c \in Local(nd, r)
  PROVE  /\ Global(nd, r)[c] = [d \in Dims |-> c[d] + Offset(nd, r, d)]
         /\ \A d \in Dims : Global(nd, r)[c][d] = c[d] + Offset(nd, r, d)
BY DEF Global

\* A layer's cells are the rank's own.
LEMMA CarriedIs ==
  ASSUME NEW r, NEW d, NEW l, NEW c \in Carried(r, d, l)
  PROVE  c \in Local(nd, r) /\ c[d] = l
BY DEF Carried, Layer

\* What a layer from q holds at cell c of r is what q holds at the same point of
\* the grid.
LEMMA SameCell ==
  ASSUME Shapes, Fit, NEW r \in Ranks, NEW d \in Dims, NEW s \in Sides, NEW q,
         Beside(r, d, s, q), NEW c \in Carried(r, d, RecvLayer(r, d, s))
  PROVE  LET c2 == Moved(c, d, SentLayer(q, d, 1 - s))
         IN  /\ c2 \in Local(nd, q) /\ Global(nd, q)[c2] = Global(nd, r)[c]
             /\ c2[d] = SentLayer(q, d, 1 - s) /\ \A e \in Dims : e # d => c2[e] = c[e]
             /\ Cut(q, d, 1 - s)[Flat(c, d)] = p[q][c2]
<1>1. PICK l : l = SentLayer(q, d, 1 - s)
  OBVIOUS
<1>2. /\ l \in 0..(Extent(nd, q, d) - 1)
      /\ Offset(nd, q, d) + l = Offset(nd, r, d) + RecvLayer(r, d, s)
  BY <1>1, SamePoint
<1>3. /\ c \in Local(nd, r) /\ c[d] = RecvLayer(r, d, s)
      /\ Triple(c) /\ \A e \in Dims : c[e] \in 0..(Extent(nd, r, e) - 1)
  BY CarriedIs, LocalIs
<1>4. PICK c2 : c2 = Moved(c, d, l)
  OBVIOUS
<1>5. Triple(c2) /\ c2[d] = l /\ \A e \in Dims : e # d => c2[e] = c[e]
  BY <1>3, <1>4, MovedIs
<1>6. \A e \in Dims : e # d =>
        Extent(nd, q, e) = Extent(nd, r, e) /\ Offset(nd, q, e) = Offset(nd, r, e)
  BY SameAcross
<1>7. c2 \in Local(nd, q)
  <2>1. \A e \in Dims : c2[e] \in 0..(Extent(nd, q, e) - 1)
    BY <1>2, <1>3, <1>5, <1>6
  <2> QED
    BY <1>5, <2>1, LocalIs
<1>8. Global(nd, q)[c2] = Global(nd, r)[c]
  <2>1. /\ Global(nd, q)[c2] = [e \in Dims |-> c2[e] + Offset(nd, q, e)]
        /\ Global(nd, r)[c] = [e \in Dims |-> c[e] + Offset(nd, r, e)]
    BY <1>3, <1>7, GlobalIs
  <2>2. \A e \in Dims : c2[e] + Offset(nd, q, e) = c[e] + Offset(nd, r, e)
    <3>1. q \in Ranks
      BY Mutual
    <3>2. Offset(nd, q, d) \in Int /\ Offset(nd, r, d) \in Int /\ l \in Int /\ c[d] \in Int
      BY <1>2, <1>3, <3>1, Extents
    <3>3. c2[d] + Offset(nd, q, d) = c[d] + Offset(nd, r, d)
      BY <1>2, <1>3, <1>5, <3>2
    <3> QED
      BY <1>5, <1>6, <3>3
  <2> QED
    BY <2>1, <2>2
<1>9. c2 \in Carried(q, d, l)
  <2>1. CASE CT # 0
    BY <1>5, <1>7, <2>1 DEF Carried
  <2>2. CASE CT = 0
    <3>1. /\ d = 3 => c[1] * MJMAX(nd) + c[2] < Extent(nd, r, 1) * Extent(nd, r, 2)
      BY <2>2 DEF Carried, Layer
    <3>2. d = 3 => /\ c2[1] = c[1] /\ c2[2] = c[2]
                   /\ Extent(nd, q, 1) = Extent(nd, r, 1) /\ Extent(nd, q, 2) = Extent(nd, r, 2)
      BY <1>5, <1>6 DEF Dims
    <3>3. d = 3 => c2[1] * MJMAX(nd) + c2[2] < Extent(nd, q, 1) * Extent(nd, q, 2)
      BY <3>1, <3>2
    <3> QED
      BY <1>5, <1>7, <2>2, <3>3 DEF Carried, Layer
  <2> QED
    BY <2>1, <2>2
<1>10. Flat(c2, d) = Flat(c, d) /\ Moved(Flat(c, d), d, l) = c2
  <2>1. Flat(c, d) = Moved(c, d, 0) /\ Flat(c2, d) = Moved(c2, d, 0)
    BY DEF Flat, Moved
  <2>2. /\ Triple(Flat(c, d)) /\ Flat(c, d)[d] = 0
        /\ \A e \in Dims : e # d => Flat(c, d)[e] = c[e]
    BY <1>3, <2>1, MovedIs
  <2>3. /\ Triple(Flat(c2, d)) /\ Flat(c2, d)[d] = 0
        /\ \A e \in Dims : e # d => Flat(c2, d)[e] = c2[e]
    BY <1>5, <2>1, MovedIs
  <2>4. Flat(c2, d) = Flat(c, d)
    <3>1. \A e \in Dims : Flat(c2, d)[e] = Flat(c, d)[e]
      BY <1>5, <2>2, <2>3
    <3> QED
      BY <2>2, <2>3, <3>1, SameTriple
  <2>5. Moved(Flat(c, d), d, l) = c2
    <3>1. PICK f : f = Moved(Flat(c, d), d, l)
      OBVIOUS
    <3>2. Triple(f) /\ f[d] = l /\ \A e \in Dims : e # d => f[e] = c[e]
      BY <2>2, <3>1, MovedIs
    <3>3. \A e \in Dims : f[e] = c2[e]
      BY <1>5, <3>2
    <3> QED
      BY <1>5, <3>1, <3>2, <3>3, SameTriple
  <2> QED
    BY <2>4, <2>5
<1>11. Cut(q, d, 1 - s)[Flat(c, d)] = p[q][c2]
  <2>1. Flat(c, d) \in {Flat(x, d) : x \in Carried(q, d, l)}
    BY <1>9, <1>10
  <2>2. Cut(q, d, 1 - s) = [f \in {Flat(x, d) : x \in Carried(q, d, l)} |-> p[q][Moved(f, d, l)]]
    BY <1>1 DEF Cut, Moved
  <2> QED
    BY <1>10, <2>1, <2>2
<1> QED
  BY <1>1, <1>4, <1>5, <1>7, <1>8, <1>11

-----------------------------------------------------------------------------
(* Steps that move no values. *)

\* The geometry stays when cut and CT do.
LEMMA FixedCells ==
  ASSUME UNCHANGED <<nd, CT>>
  PROVE  /\ nd' = nd /\ CT' = CT /\ Ranks' = Ranks
         /\ \A r, d, s, q : Beside(r, d, s, q)' <=> Beside(r, d, s, q)
         /\ \A r, d : Near(r, d)' = Near(r, d)
         /\ \A r, d, s : RecvLayer(r, d, s)' = RecvLayer(r, d, s)
         /\ \A r, d, l : Carried(r, d, l)' = Carried(r, d, l)
         /\ \A g : FromCutEdge(g)' = FromCutEdge(g)
BY Fixed DEF RecvLayer, Carried, FromCutEdge

\* What is to be shown of a step.
LEMMA CellsNext ==
  ASSUME UNCHANGED <<nd, CT>>,
         \A r \in Ranks : p'[r] = [c \in Local(nd, r) |-> p'[r][c]],
         \A r \in Ranks : \A c \in Local(nd, r) :
           /\ Cell(p'[r][c])
           /\ (FreshIn(r, c, Dims)' \/ Unmoved(Global(nd, r)[c])) =>
                Right(p'[r][c], Global(nd, r)[c], Sweeps(r)')
  PROVE  CellsInv'
<1>1. nd' = nd /\ CT' = CT /\ Ranks' = Ranks /\ \A g : FromCutEdge(g)' = FromCutEdge(g)
  BY FixedCells
<1>2. \A v, g, k : Right(v, g, k)' <=> Right(v, g, k)
  BY <1>1 DEF Right
<1>3. \A g : Unmoved(g)' <=> Unmoved(g)
  BY <1>1 DEF Unmoved
<1> SUFFICES ASSUME NEW r \in Ranks, NEW c \in Local(nd, r)
             PROVE  /\ Cell(p[r][c])'
                    /\ (FreshIn(r, c, Dims) \/ Unmoved(Global(nd, r)[c]))' =>
                         Right(p[r][c], Global(nd, r)[c], Sweeps(r))'
  BY <1>1 DEF CellsInv
<1>4. /\ Cell(p'[r][c])
      /\ (FreshIn(r, c, Dims)' \/ Unmoved(Global(nd, r)[c])) =>
                Right(p'[r][c], Global(nd, r)[c], Sweeps(r)')
  OBVIOUS
<1>5. Cell(p[r][c])'
  BY <1>4 DEF Cell
<1>6. Unmoved(Global(nd, r)[c])' <=> Unmoved(Global(nd, r)[c])
  BY <1>1 DEF Unmoved
<1>7. Right(p[r][c], Global(nd, r)[c], Sweeps(r))' <=>
        Right(p'[r][c], Global(nd, r)[c], Sweeps(r)')
  BY <1>1 DEF Right
<1> QED
  BY <1>4, <1>5, <1>6, <1>7

\* LoadsInv after a step, read with the geometry before it.
LEMMA LoadsNext ==
  ASSUME UNCHANGED <<nd, CT>>,
         \A r \in Ranks, d \in Dims, s \in Sides, q \in Ranks :
           Beside(r, d, s, q) /\ mail'[r][d][s] # << >> =>
             \A c \in Carried(r, d, RecvLayer(r, d, s)) :
               /\ Cell(Head(mail'[r][d][s])[Flat(c, d)])
               /\ Inner(r, c, 1..(d - 1)) \/ Unmoved(Global(nd, r)[c]) =>
                    Right(Head(mail'[r][d][s])[Flat(c, d)], Global(nd, r)[c], Sweeps(q)')
  PROVE  LoadsInv'
<1>1. /\ nd' = nd /\ CT' = CT /\ Ranks' = Ranks
      /\ \A r, d, s, q : Beside(r, d, s, q)' <=> Beside(r, d, s, q)
      /\ \A r, d : Near(r, d)' = Near(r, d)
      /\ \A r, d, s : RecvLayer(r, d, s)' = RecvLayer(r, d, s)
      /\ \A r, d, l : Carried(r, d, l)' = Carried(r, d, l)
      /\ \A g : FromCutEdge(g)' = FromCutEdge(g)
  BY FixedCells
<1>2. ASSUME NEW r \in Ranks, NEW d \in Dims, NEW s \in Sides
      PROVE  Carried(r, d, RecvLayer(r, d, s))' = Carried(r, d, RecvLayer(r, d, s))
  BY <1>1 DEF Carried, RecvLayer
<1> SUFFICES ASSUME NEW r \in Ranks, NEW d \in Dims, NEW s \in Sides, NEW q \in Ranks,
                    Beside(r, d, s, q), mail'[r][d][s] # << >>,
                    NEW c \in Carried(r, d, RecvLayer(r, d, s))
             PROVE  /\ Cell(Head(mail[r][d][s])[Flat(c, d)])'
                    /\ (Inner(r, c, 1..(d - 1)) \/ Unmoved(Global(nd, r)[c]))' =>
                         Right(Head(mail[r][d][s])[Flat(c, d)], Global(nd, r)[c], Sweeps(q))'
  BY <1>1, <1>2 DEF LoadsInv
<1>3. /\ Cell(Head(mail'[r][d][s])[Flat(c, d)])
      /\ Inner(r, c, 1..(d - 1)) \/ Unmoved(Global(nd, r)[c]) =>
           Right(Head(mail'[r][d][s])[Flat(c, d)], Global(nd, r)[c], Sweeps(q)')
  OBVIOUS
<1>4. Cell(Head(mail[r][d][s])[Flat(c, d)])'
  BY <1>3 DEF Cell
<1>5. Inner(r, c, 1..(d - 1))' <=> Inner(r, c, 1..(d - 1))
  BY <1>1 DEF Inner
<1>6. Unmoved(Global(nd, r)[c])' <=> Unmoved(Global(nd, r)[c])
  BY <1>1 DEF Unmoved
<1>7. Right(Head(mail[r][d][s])[Flat(c, d)], Global(nd, r)[c], Sweeps(q))' <=>
        Right(Head(mail'[r][d][s])[Flat(c, d)], Global(nd, r)[c], Sweeps(q)')
  BY <1>1 DEF Right
<1> QED
  BY <1>3, <1>4, <1>5, <1>6, <1>7

\* A step that leaves the values alone, and makes no layer current.
LEMMA StillCells ==
  ASSUME CellsInv, UNCHANGED <<nd, CT>>, p' = p,
         \A q \in Ranks : Sweeps(q)' = Sweeps(q),
         \A q \in Ranks, d \in Dims, s \in Sides : Stale(q, d, s) => Stale(q, d, s)'
  PROVE  CellsInv'
<1>1. nd' = nd /\ CT' = CT /\ Ranks' = Ranks /\ p' = p
      /\ \A r, d, s : RecvLayer(r, d, s)' = RecvLayer(r, d, s)
  BY FixedCells
<1>2. \A r \in Ranks : \A c : FreshIn(r, c, Dims)' => FreshIn(r, c, Dims)
  BY <1>1 DEF FreshIn
<1>3. \A r \in Ranks : p'[r] = [c \in Local(nd, r) |-> p'[r][c]]
  BY <1>1 DEF CellsInv
<1>4. \A r \in Ranks : \A c \in Local(nd, r) :
         /\ Cell(p'[r][c])
         /\ (FreshIn(r, c, Dims)' \/ Unmoved(Global(nd, r)[c])) =>
              Right(p'[r][c], Global(nd, r)[c], Sweeps(r)')
  BY <1>1, <1>2 DEF CellsInv
<1> QED
  BY <1>3, <1>4, CellsNext

\* A step that does not touch the layers under way either.
LEMMA QuietCells ==
  ASSUME CellInv, UNCHANGED <<nd, CT, p, mail>>,
         \A q \in Ranks : Sweeps(q)' = Sweeps(q),
         \A q \in Ranks, d \in Dims, s \in Sides : Stale(q, d, s) => Stale(q, d, s)',
         \A q \in Ranks : Exchanging(q)' => n'[q] >= 1
  PROVE  CellInv'
<1>1. nd' = nd /\ CT' = CT /\ Ranks' = Ranks /\ p' = p /\ mail' = mail
  BY FixedCells
<1>2. UNCHANGED <<nd, CT>> /\ CellsInv
  BY DEF CellInv
<1>3. CellsInv'
  BY <1>1, <1>2, StillCells
<1>4. LoadsInv'
  <2>1. \A r \in Ranks, d \in Dims, s \in Sides, q \in Ranks :
           Beside(r, d, s, q) /\ mail'[r][d][s] # << >> =>
             \A c \in Carried(r, d, RecvLayer(r, d, s)) :
               /\ Cell(Head(mail'[r][d][s])[Flat(c, d)])
               /\ Inner(r, c, 1..(d - 1)) \/ Unmoved(Global(nd, r)[c]) =>
                    Right(Head(mail'[r][d][s])[Flat(c, d)], Global(nd, r)[c], Sweeps(q)')
    BY <1>1 DEF CellInv, LoadsInv
  <2> QED
    BY <1>2, <2>1, LoadsNext
<1>5. Begun'
  BY <1>1 DEF Begun
<1> QED
  BY <1>3, <1>4, <1>5 DEF CellInv

\* A rank that takes no step has the same layers to wait for.
LEMMA StaleElsewhere ==
  ASSUME UNCHANGED <<nd, CT>>, NEW q, pc'[q] = pc[q], dim'[q] = dim[q], pending'[q] = pending[q]
  PROVE  \A d, s : Stale(q, d, s)' <=> Stale(q, d, s)
<1>1. \A d : Near(q, d)' = Near(q, d)
  BY FixedCells
<1>2. \A d, s : LayerGot(q, d, s)' <=> LayerGot(q, d, s)
  BY Elsewhere
<1> QED
  BY <1>1, <1>2 DEF Stale, Exchanging

\* A step of r before or after the exchange.
LEMMA OutsideCells ==
  ASSUME CellInv, NEW r \in Ranks, ~Exchanging(r), ~Exchanging(r)',
         UNCHANGED <<nd, CT, p, dim, pending, mail>>, Sweeps(r)' = Sweeps(r),
         \A q \in Ranks : q # r => /\ pc'[q] = pc[q] /\ n'[q] = n[q]
                                   /\ before'[q] = before[q]
  PROVE  CellInv'
<1>1. \A q \in Ranks : Sweeps(q)' = Sweeps(q)
  BY DEF Sweeps
<1>2. \A q \in Ranks, d \in Dims, s \in Sides : Stale(q, d, s) => Stale(q, d, s)'
  <2> SUFFICES ASSUME NEW q \in Ranks, NEW d \in Dims, NEW s \in Sides, Stale(q, d, s)
               PROVE  Stale(q, d, s)'
    OBVIOUS
  <2>1. q # r
    BY DEF Stale
  <2>2. UNCHANGED <<nd, CT>> /\ pc'[q] = pc[q] /\ dim'[q] = dim[q] /\ pending'[q] = pending[q]
    BY <2>1
  <2> QED
    BY <2>2, StaleElsewhere
<1>3. \A q \in Ranks : Exchanging(q)' => n'[q] >= 1
  <2> SUFFICES ASSUME NEW q \in Ranks, Exchanging(q)' PROVE n'[q] >= 1
    OBVIOUS
  <2>1. q # r
    OBVIOUS
  <2> QED
    BY <2>1 DEF CellInv, Begun, Exchanging
<1>4. UNCHANGED <<nd, CT, p, mail>>
  OBVIOUS
<1> QED
  BY <1>1, <1>2, <1>3, <1>4, QuietCells

\* Collective calls leave the cells as they are.
LEMMA CallCells ==
  ASSUME CellInv, Shapes, NEW r \in Ranks,
         Barrier(r) \/ LeaveBarrier(r) \/ Reduce(r) \/ LeaveReduce(r) \/ Timing(r)
  PROVE  CellInv'
<1>1. PICK l : pc' = [pc EXCEPT ![r] = l] /\ l \notin {"post", "sizes", "layers", "wait"}
  BY DEF Barrier, LeaveBarrier, Reduce, LeaveReduce, Timing, GoTo
<1>2. UNCHANGED <<nd, CT, p, n, before, dim, pending, mail>>
  BY DEF Barrier, LeaveBarrier, Reduce, LeaveReduce, Timing, fixed
<1>3. pc[r] \notin {"post", "sizes", "layers", "wait"}
  BY DEF Barrier, LeaveBarrier, Reduce, LeaveReduce, Timing
<1>4. pc'[r] = l /\ \A q \in Ranks : q # r => pc'[q] = pc[q]
  BY <1>1 DEF Shapes
<1>5. ~Exchanging(r) /\ ~Exchanging(r)' /\ Sweeps(r)' = Sweeps(r)
  BY <1>1, <1>2, <1>3, <1>4 DEF Exchanging, Sweeps
<1>6. \A q \in Ranks : q # r => pc'[q] = pc[q] /\ n'[q] = n[q] /\ before'[q] = before[q]
  BY <1>2, <1>4
<1>7. UNCHANGED <<nd, CT, p, dim, pending, mail>>
  BY <1>2
<1> QED
  BY <1>5, <1>6, <1>7, OutsideCells

\* The second run starts from the cells of the first.
LEMMA LeaveTimingCells ==
  ASSUME CellInv, Shapes, NEW r \in Ranks, LeaveTiming(r)
  PROVE  CellInv'
<1>1. UNCHANGED <<nd, CT, p, dim, pending, mail>> /\ pc[r] = "agree"
  BY DEF LeaveTiming, fixed
<1>2. PICK l \in {"start", "end"} : pc' = [pc EXCEPT ![r] = l]
  BY DEF LeaveTiming, GoTo
<1>3. pc'[r] = l /\ \A q \in Ranks : q # r => pc'[q] = pc[q]
  BY <1>2 DEF Shapes
<1>4. /\ Sweeps(r)' = Sweeps(r)
      /\ \A q \in Ranks : q # r => n'[q] = n[q] /\ before'[q] = before[q]
  <2>1. CASE before[r] = 0
    <3>1. before' = [before EXCEPT ![r] = n[r]] /\ n' = [n EXCEPT ![r] = 0]
      BY <2>1 DEF LeaveTiming
    <3>2. n[r] \in Nat /\ before'[r] = n[r] /\ n'[r] = 0
      BY <3>1 DEF Shapes
    <3> QED
      BY <2>1, <3>1, <3>2 DEF Sweeps, Shapes
  <2>2. CASE before[r] # 0
    BY <2>2 DEF LeaveTiming, Sweeps
  <2> QED
    BY <2>1, <2>2
<1>5. ~Exchanging(r) /\ ~Exchanging(r)'
  BY <1>1, <1>3 DEF Exchanging
<1> QED
  BY <1>1, <1>3, <1>4, <1>5, OutsideCells

\* The sizes go before the layers.
LEMMA SizeCells ==
  ASSUME CellInv, Shapes, NEW r \in Ranks,
         PostSizes(r) \/ \E side \in Sides : ArriveSize(r, side)
  PROVE  CellInv'
<1>1. PICK l \in {"sizes", "layers"} : pc' = [pc EXCEPT ![r] = l]
  BY DEF PostSizes, ArriveSize, GoTo
<1>2. UNCHANGED <<nd, CT, p, n, before, dim, mail>>
  BY DEF PostSizes, ArriveSize, fixed
<1>3. pc[r] \in {"post", "sizes"} /\ \A q \in Ranks : q # r => pending'[q] = pending[q]
  BY DEF PostSizes, ArriveSize, Shapes
<1>4. pc'[r] = l /\ \A q \in Ranks : q # r => pc'[q] = pc[q]
  BY <1>1 DEF Shapes
<1>5. \A q \in Ranks, d \in Dims, s \in Sides : Stale(q, d, s) => Stale(q, d, s)'
  <2> SUFFICES ASSUME NEW q \in Ranks, NEW d \in Dims, NEW s \in Sides, Stale(q, d, s)
               PROVE  Stale(q, d, s)'
    OBVIOUS
  <2>1. CASE q # r
    <3>1. UNCHANGED <<nd, CT>> /\ pc'[q] = pc[q] /\ dim'[q] = dim[q] /\ pending'[q] = pending[q]
      BY <1>2, <1>3, <1>4, <2>1
    <3> QED
      BY <3>1, StaleElsewhere
  <2>2. CASE q = r
    <3>1. UNCHANGED <<nd, CT>>
      BY <1>2
    <3>2. Near(r, d)' = Near(r, d)
      BY <3>1, FixedCells
    <3> QED
      BY <1>1, <1>2, <1>3, <1>4, <2>2, <3>2 DEF Stale, Exchanging, LayerGot
  <2> QED
    BY <2>1, <2>2
<1>6. \A q \in Ranks : Exchanging(q)' => n'[q] >= 1
  BY <1>2, <1>3, <1>4 DEF CellInv, Begun, Exchanging
<1>7. \A q \in Ranks : Sweeps(q)' = Sweeps(q)
  BY <1>2 DEF Sweeps
<1>8. UNCHANGED <<nd, CT, p, mail>>
  BY <1>2
<1> QED
  BY <1>5, <1>6, <1>7, <1>8, QuietCells

-----------------------------------------------------------------------------
(* The exchange of layers. *)

\* What r sends to its neighbour x is current, but for the cells of layers that
\* are still to be exchanged.
LEMMA SentFresh ==
  ASSUME CellsInv, Shapes, Fit, NEW r \in Ranks, Exchanging(r), NEW d \in Dims, d = dim[r],
         NEW x \in Ranks, NEW s \in Sides, Beside(x, d, s, r),
         NEW c \in Carried(x, d, RecvLayer(x, d, s))
  PROVE  /\ Cell(Cut(r, d, 1 - s)[Flat(c, d)])
         /\ Inner(x, c, 1..(d - 1)) \/ Unmoved(Global(nd, x)[c]) =>
              Right(Cut(r, d, 1 - s)[Flat(c, d)], Global(nd, x)[c], Sweeps(r))
<1>1. PICK c2 : /\ c2 \in Local(nd, r) /\ Global(nd, r)[c2] = Global(nd, x)[c]
                /\ c2[d] = SentLayer(r, d, 1 - s) /\ \A e \in Dims : e # d => c2[e] = c[e]
                /\ Cut(r, d, 1 - s)[Flat(c, d)] = p[r][c2]
  BY SameCell
<1>2. /\ Cell(p[r][c2])
      /\ FreshIn(r, c2, Dims) \/ Unmoved(Global(nd, r)[c2]) =>
           Right(p[r][c2], Global(nd, r)[c2], Sweeps(r))
  BY <1>1 DEF CellsInv
<1>3. ASSUME Inner(x, c, 1..(d - 1)) PROVE FreshIn(r, c2, Dims)
  <2> SUFFICES ASSUME NEW e \in Dims, NEW t \in Sides, c2[e] = RecvLayer(r, e, t)
               PROVE  ~Stale(r, e, t)
    BY DEF FreshIn
  <2>0. d \in 1..3 /\ e \in 1..3
    BY DEF Dims
  <2>1. CASE e > d
    BY <2>1 DEF Stale, LayerGot
  <2>2. CASE e = d
    <3>1. \A u \in Near(r, d) : SentLayer(r, d, 1 - s) # RecvLayer(r, d, u)
      BY SamePoint
    <3> QED
      BY <1>1, <2>2, <3>1 DEF Stale
  <2>3. CASE e < d
    <3>1. e # d /\ e \in 1..(d - 1)
      BY <2>0, <2>3
    <3>2. Near(r, e) = Near(x, e) /\ RecvLayer(r, e, t) = RecvLayer(x, e, t)
      BY <3>1, SameAcross
    <3>3. c[e] = RecvLayer(x, e, t)
      BY <1>1, <3>1, <3>2
    <3>4. t \notin Near(x, e)
      BY <1>3, <3>1, <3>3 DEF Inner
    <3> QED
      BY <3>2, <3>4 DEF Stale
  <2> QED
    BY <2>0, <2>1, <2>2, <2>3
<1> QED
  BY <1>1, <1>2, <1>3

\* A layer sent is right wherever LoadsInv asks it to be: the layers of the
\* dimensions exchanged before it have arrived.
LEMMA PostCells ==
  ASSUME CellInv, IInv, Fit, NEW r \in Ranks, Post(r)
  PROVE  CellInv'
<1>0. CallInv /\ MailInv /\ Shapes /\ Counters /\ CellsInv
  BY DEF IInv, CallInv, CellInv
<1>d. PICK d \in Dims : d = dim[r]
  BY <1>0 DEF Counters, Exchanging, Post
<1>1. UNCHANGED <<nd, CT>> /\ p' = p /\ dim' = dim /\ n' = n /\ before' = before
  BY DEF Post, fixed
<1>2. /\ pc[r] \in {"post", "layers"}
      /\ pc'[r] = "wait" /\ pending'[r] = Near(r, d) /\ mail' = SentBy(r, d, mail)
      /\ \A q \in Ranks : q # r => pc'[q] = pc[q] /\ pending'[q] = pending[q]
  BY <1>0, <1>d DEF Post, GoTo, Shapes
<1>3. Exchanging(r) /\ ~LayerSent(r, d)
  BY <1>d, <1>2 DEF Exchanging, LayerSent, Dims
<1>4. \A x \in Ranks, e \in Dims, s \in Sides :
        mail'[x][e][s] = IF e = d /\ Beside(x, d, s, r)
                         THEN Append(mail[x][d][s], Cut(r, d, 1 - s)) ELSE mail[x][e][s]
  <2>1. Boxed(mail)
    BY <1>0 DEF Shapes
  <2> QED
    BY <1>0, <1>2, <2>1, SentByIs
<1>5. \A q \in Ranks : Sweeps(q)' = Sweeps(q)
  BY <1>1 DEF Sweeps
<1>6. \A q \in Ranks, e \in Dims, s \in Sides : Stale(q, e, s) => Stale(q, e, s)'
  <2> SUFFICES ASSUME NEW q \in Ranks, NEW e \in Dims, NEW s \in Sides, Stale(q, e, s)
               PROVE  Stale(q, e, s)'
    OBVIOUS
  <2>1. CASE q # r
    <3>1. UNCHANGED <<nd, CT>> /\ pc'[q] = pc[q] /\ dim'[q] = dim[q] /\ pending'[q] = pending[q]
      BY <1>1, <1>2, <2>1
    <3> QED
      BY <3>1, StaleElsewhere
  <2>2. CASE q = r
    <3>1. \A f : Near(r, f)' = Near(r, f)
      BY <1>1, FixedCells
    <3> QED
      BY <1>d, <1>1, <1>2, <1>3, <2>2, <3>1 DEF Stale, Exchanging, LayerGot
  <2> QED
    BY <2>1, <2>2
<1>7. CellsInv'
  BY <1>0, <1>1, <1>5, <1>6, StillCells
<1>8. LoadsInv'
  <2>1. ASSUME NEW x \in Ranks, NEW e \in Dims, NEW s \in Sides, NEW q \in Ranks,
               Beside(x, e, s, q), mail'[x][e][s] # << >>,
               NEW c \in Carried(x, e, RecvLayer(x, e, s))
        PROVE  /\ Cell(Head(mail'[x][e][s])[Flat(c, e)])
               /\ Inner(x, c, 1..(e - 1)) \/ Unmoved(Global(nd, x)[c]) =>
                    Right(Head(mail'[x][e][s])[Flat(c, e)], Global(nd, x)[c], Sweeps(q)')
    <3>1. CASE q = r /\ e = d
      <4>1. mail[x][d][s] = << >>
        <5>1. ~UnderWay(x, r, LayerSent(r, d), LayerGot(x, d, s))
          BY <1>3 DEF UnderWay
        <5> QED
          BY <1>0, <2>1, <3>1, <5>1 DEF MailInv, LayersInv
      <4>2. mail'[x][d][s] = Append(<< >>, Cut(r, d, 1 - s))
        BY <1>4, <2>1, <3>1, <4>1
      <4>3. Head(mail'[x][d][s]) = Cut(r, d, 1 - s)
        BY <4>2, OneMessage
      <4>4. Beside(x, d, s, r) /\ c \in Carried(x, d, RecvLayer(x, d, s))
        BY <2>1, <3>1
      <4>5. /\ Cell(Cut(r, d, 1 - s)[Flat(c, d)])
            /\ Inner(x, c, 1..(d - 1)) \/ Unmoved(Global(nd, x)[c]) =>
                 Right(Cut(r, d, 1 - s)[Flat(c, d)], Global(nd, x)[c], Sweeps(r))
        BY <1>0, <1>d, <1>3, <4>4, SentFresh
      <4> QED
        BY <1>5, <3>1, <4>3, <4>5
    <3>2. CASE ~(q = r /\ e = d)
      <4>1. mail'[x][e][s] = mail[x][e][s]
        BY <1>4, <2>1, <3>2 DEF Beside
      <4> QED
        BY <1>5, <2>1, <4>1 DEF CellInv, LoadsInv
    <3> QED
      BY <3>1, <3>2
  <2> QED
    BY <1>1, <2>1, LoadsNext
<1>9. Begun'
  <2>1. Ranks' = Ranks
    BY <1>1, FixedCells
  <2> QED
    BY <1>1, <1>2, <1>3, <2>1 DEF CellInv, Begun, Exchanging
<1> QED
  BY <1>7, <1>8, <1>9 DEF CellInv

\* What is still to come after a layer has arrived.
LEMMA StillStale ==
  ASSUME Shapes, Counters, NEW r \in Ranks, NEW side \in Sides, Arrive(r, side),
         NEW d \in Dims, d = dim[r], NEW e \in Dims, NEW t \in Sides
  PROVE  /\ e < d /\ t \in Near(r, e) => Stale(r, e, t)'
         /\ Stale(r, e, t) /\ ~(e = d /\ t = side) => Stale(r, e, t)'
<1>1. UNCHANGED <<nd, CT>>
  BY DEF Arrive, fixed
<1>2. \A f : Near(r, f)' = Near(r, f)
  BY <1>1, FixedCells
<1>3. /\ pc[r] = "wait" /\ side \in pending[r] /\ pending'[r] = pending[r] \ {side}
  BY DEF Arrive, Shapes
<1>4. d - 1 \in 0..3 /\ d \in 1..3 /\ e \in 1..3
  BY DEF Dims
<1>5. PICK c \in 0..(d - 1) : /\ c = CutFrom(d - 1)
                              /\ \A f \in 1..(d - 1) : f > c => ~(nd[f] > 1)
  BY <1>4, NextCut
<1>6. /\ pending[r] # {side} => pc'[r] = "wait" /\ dim'[r] = d
      /\ pending[r] = {side} => pc'[r] = (IF c = 0 THEN "reduce" ELSE "post") /\ dim'[r] = c
  BY <1>5 DEF Arrive, GoTo, LastArrival, Shapes
<1>7. ASSUME e < d, t \in Near(r, e) PROVE Stale(r, e, t)'
  <2>1. PICK q : Beside(r, e, t, q)
    BY <1>7 DEF Near, Beside
  <2>2. nd[e] > 1
    BY <2>1, Mutual
  <2>3. e \in 1..(d - 1) /\ ~(e > c)
    BY <1>4, <1>5, <1>7, <2>2
  <2>4. c # 0 /\ ~(c < e) /\ ~(d < e) /\ d # e
    BY <1>4, <1>7, <2>3
  <2>5. pc'[r] \in {"wait", "post"} /\ (dim'[r] = d \/ dim'[r] = c)
    BY <1>6, <2>4
  <2>6. pc'[r] = "wait" => dim'[r] = d
    BY <1>6, <2>4
  <2>7. ~LayerGot(r, e, t)'
    BY <2>4, <2>5, <2>6 DEF LayerGot
  <2>8. Exchanging(r)' /\ t \in Near(r, e)'
    BY <1>2, <1>7, <2>5 DEF Exchanging
  <2> QED
    BY <2>7, <2>8 DEF Stale
<1>8. ASSUME Stale(r, e, t), ~(e = d /\ t = side), ~(e < d) PROVE Stale(r, e, t)'
  <2>1. e = d /\ t \in pending[r]
    BY <1>3, <1>4, <1>8 DEF Stale, LayerGot, Exchanging
  <2>2. t # side /\ t \in pending'[r] /\ pending[r] # {side}
    BY <1>3, <1>8, <2>1
  <2>3. pc'[r] = "wait" /\ dim'[r] = d
    BY <1>6, <2>2
  <2>4. ~LayerGot(r, e, t)'
    BY <1>4, <2>1, <2>2, <2>3 DEF LayerGot
  <2>5. t \in Near(r, e)' /\ Exchanging(r)'
    BY <1>2, <1>8, <2>3 DEF Stale, Exchanging
  <2> QED
    BY <2>4, <2>5 DEF Stale
<1>9. Stale(r, e, t) => t \in Near(r, e)
  BY DEF Stale
<1> QED
  BY <1>7, <1>8, <1>9

\* The sender is in the same sweep.
LEMMA SameSweep ==
  ASSUME IInv, NEW r \in Ranks, pc[r] = "wait", NEW d \in Dims, NEW s \in Sides,
         NEW q \in Ranks, Beside(r, d, s, q), mail[r][d][s] # << >>
  PROVE  Sweeps(q) = Sweeps(r) /\ Tail(mail[r][d][s]) = << >>
<1>0. CallInv /\ MailInv /\ Shapes
  BY DEF IInv, CallInv
<1>1. IF UnderWay(r, q, LayerSent(q, d), LayerGot(r, d, s))
      THEN Single(mail[r][d][s]) ELSE mail[r][d][s] = << >>
  BY <1>0 DEF MailInv, LayersInv
<1>2. ~Waiting(r)
  BY DEF Waiting
<1>3. Epoch(q) = Epoch(r) /\ LayerSent(q, d) /\ Tail(mail[r][d][s]) = << >>
  BY <1>0, <1>1, <1>2, InEpoch
<1>4. Plan(q) = Plan(r)
  BY <1>0, <1>3 DEF CallInv, Alike
<1>5. pc[q] # "sweep" /\ pc[r] # "sweep"
  BY <1>3 DEF LayerSent, Exchanging
<1>6. before[q] = before[r] /\ Turn(q) = Turn(r)
  BY <1>4 DEF Plan
<1>7. n[q] = n[r]
  BY <1>5, <1>6 DEF Turn
<1> QED
  BY <1>3, <1>6, <1>7 DEF Sweeps

\* Where there is no neighbour along a dimension that is cut, the edge is within
\* reach after one sweep.
LEMMA EdgeReached ==
  ASSUME Shapes, Fit, CT # 0, NEW r \in Ranks, NEW d \in Dims, nd[d] > 1, NEW s \in Sides,
         s \notin Near(r, d), NEW c \in Local(nd, r), c[d] = RecvLayer(r, d, s),
         NEW k \in Nat \ {0}, NEW v
  PROVE  Right(v, Global(nd, r)[c], k)
<1> DEFINE g == Global(nd, r)[c]
<1>1. g[d] = c[d] + Offset(nd, r, d)
  BY GlobalIs
<1>2. Offset(nd, r, d) + c[d] = IF s = 0 THEN 0 ELSE Size[d] - 1
  BY AtEdge
<1>3. c[d] \in Int /\ Offset(nd, r, d) \in Int /\ Size[d] \in Int
  <2>1. Size[d] \in Int
    BY PartitionAssumption DEF Size
  <2>2. Extent(nd, r, d) \in Nat /\ Offset(nd, r, d) \in Int
    BY Extents
  <2>3. c[d] \in 0..(Extent(nd, r, d) - 1)
    BY LocalIs
  <2> QED
    BY <2>1, <2>2, <2>3
<1>4. g[d] = (IF s = 0 THEN 0 ELSE Size[d] - 1)
  BY <1>1, <1>2, <1>3
<1>5. 0 \in {g[d], Size[d] - 1 - g[d]}
  <2>1. CASE s = 0
    BY <1>4, <2>1
  <2>2. CASE s # 0
    <3>1. g[d] = Size[d] - 1
      BY <1>4, <2>2
    <3>2. Size[d] - 1 - g[d] = 0
      BY <1>3, <3>1
    <3> QED
      BY <3>2
  <2> QED
    BY <2>1, <2>2
<1> HIDE DEF g
<1>6. 0 \in FromCutEdge(g)
  <2>1. d \in {e \in Dims : nd[e] > 1}
    OBVIOUS
  <2> QED
    BY <1>5, <2>1 DEF FromCutEdge
<1>7. 0 < k
  OBVIOUS
<1> QED
  BY <1>6, <1>7 DEF Right, g

\* A layer that has arrived brings its cells up to date; what it misses is no
\* worse than before.
LEMMA ArriveCell ==
  ASSUME CellInv, IInv, Fit, NEW r \in Ranks, NEW side \in Sides, Arrive(r, side),
         NEW c \in Local(nd, r)
  PROVE  /\ p'[r] = [x \in Local(nd, r) |-> p'[r][x]] /\ Cell(p'[r][c])
         /\ (FreshIn(r, c, Dims)' \/ Unmoved(Global(nd, r)[c])) =>
              Right(p'[r][c], Global(nd, r)[c], Sweeps(r))
<1>0. CallInv /\ MailInv /\ Shapes /\ Counters /\ CellsInv /\ LoadsInv /\ Begun
  BY DEF IInv, CallInv, CellInv
<1>d. PICK d \in Dims : d = dim[r]
  BY <1>0 DEF Counters, Exchanging, Arrive
<1>1. UNCHANGED <<nd, CT>> /\ pc[r] = "wait" /\ mail[r][d][side] # << >>
  BY <1>d DEF Arrive, fixed
<1>2. \A e, t : RecvLayer(r, e, t)' = RecvLayer(r, e, t)
  BY <1>1, FixedCells
<1>3. side \in Near(r, d)
  BY <1>0, <1>d DEF Arrive, Counters
<1>4. PICK q : Beside(r, d, side, q)
  BY <1>3 DEF Near, Beside
<1>5. q \in Ranks /\ nd[d] > 1
  BY <1>0, <1>4, Mutual
<1>6. Sweeps(q) = Sweeps(r)
  BY <1>1, <1>4, <1>5, SameSweep
<1>7. Sweeps(r) \in Nat \ {0}
  <2>1. n[r] \in Nat /\ before[r] \in Nat /\ n[r] >= 1
    BY <1>0, <1>1 DEF Shapes, Begun, Exchanging
  <2> QED
    BY <2>1 DEF Sweeps
<1> DEFINE layer == Carried(r, d, RecvLayer(r, d, side))
           load == Head(mail[r][d][side])
           new == [x \in Local(nd, r) |->
                     IF x \in layer THEN load[Flat(x, d)]
                     ELSE IF x \in Unwritten(r, side) THEN Other(Global(nd, r)[x])
                     ELSE p[r][x]]
<1>8. p'[r] = new
  BY <1>0, <1>d DEF Arrive, Shapes
<1>9. /\ p'[r] = [x \in Local(nd, r) |-> p'[r][x]]
      /\ p'[r][c] = IF c \in layer THEN load[Flat(c, d)]
                    ELSE IF c \in Unwritten(r, side) THEN Other(Global(nd, r)[c])
                    ELSE p[r][c]
  BY <1>8
<1>10. \A e \in Dims, t \in Sides :
         /\ e < d /\ t \in Near(r, e) => Stale(r, e, t)'
         /\ Stale(r, e, t) /\ ~(e = d /\ t = side) => Stale(r, e, t)'
  BY <1>0, <1>d, StillStale
<1>11. /\ Cell(p[r][c])
       /\ FreshIn(r, c, Dims) \/ Unmoved(Global(nd, r)[c]) =>
            Right(p[r][c], Global(nd, r)[c], Sweeps(r))
  BY <1>0 DEF CellsInv
<1>a. ASSUME FreshIn(r, c, Dims)', NEW e \in Dims, NEW t \in Sides, c[e] = RecvLayer(r, e, t)
      PROVE  ~Stale(r, e, t)'
  BY <1>2, <1>a DEF FreshIn
<1>12. CASE c \in layer
  <2>1. p'[r][c] = load[Flat(c, d)]
    BY <1>9, <1>12
  <2>2. /\ Cell(load[Flat(c, d)])
        /\ Inner(r, c, 1..(d - 1)) \/ Unmoved(Global(nd, r)[c]) =>
             Right(load[Flat(c, d)], Global(nd, r)[c], Sweeps(q))
    BY <1>0, <1>1, <1>4, <1>5, <1>12 DEF LoadsInv
  <2>3. ASSUME FreshIn(r, c, Dims)' PROVE Inner(r, c, 1..(d - 1))
    <3> SUFFICES ASSUME NEW e \in 1..(d - 1), NEW t \in Sides, c[e] = RecvLayer(r, e, t)
                 PROVE  t \notin Near(r, e)
      BY DEF Inner
    <3>1. e \in Dims /\ e < d
      BY DEF Dims
    <3>2. ~Stale(r, e, t)'
      BY <1>a, <2>3, <3>1
    <3> QED
      BY <1>10, <3>1, <3>2
  <2> HIDE DEF load
  <2> QED
    BY <1>6, <1>9, <2>1, <2>2, <2>3
<1>13. CASE c \notin layer /\ c \in Unwritten(r, side)
  <2>1. p'[r][c] = Other(Global(nd, r)[c])
    BY <1>9, <1>13
  <2>2. PICK s \in Sides : CT # 0 /\ s \notin Near(r, d) /\ c \in Carried(r, d, RecvLayer(r, d, s))
    BY <1>d, <1>13 DEF Unwritten
  <2>3. c[d] = RecvLayer(r, d, s)
    BY <2>2, CarriedIs
  <2>4. Right(p'[r][c], Global(nd, r)[c], Sweeps(r))
    BY <1>0, <1>5, <1>7, <2>2, <2>3, EdgeReached
  <2>5. DOMAIN Global(nd, r)[c] = Dims
    <3>1. Global(nd, r)[c] = [e \in Dims |-> c[e] + Offset(nd, r, e)]
      BY GlobalIs
    <3> QED
      BY <3>1
  <2>6. Cell(p'[r][c])
    BY <2>1, <2>5 DEF Cell, Other
  <2> QED
    BY <1>9, <2>4, <2>6
<1>14. CASE c \notin layer /\ c \notin Unwritten(r, side)
  <2>1. p'[r][c] = p[r][c]
    BY <1>9, <1>14
  <2>2. ASSUME FreshIn(r, c, Dims)', ~FreshIn(r, c, Dims)
        PROVE  Unmoved(Global(nd, r)[c])
    <3>1. PICK e \in Dims, t \in Sides : c[e] = RecvLayer(r, e, t) /\ Stale(r, e, t)
      BY <2>2 DEF FreshIn
    <3>2. e = d /\ t = side
      BY <1>a, <1>10, <2>2, <3>1
    <3>3. c[d] = RecvLayer(r, d, side)
      BY <3>1, <3>2
    <3>4. CT = 0 /\ c \notin Layer(nd, r, d, RecvLayer(r, d, side))
      BY <1>14, <3>3 DEF Carried
    <3>5. d = 3
      BY <3>3, <3>4 DEF Layer
    <3>6. /\ Neighbour(nd, r, 3, side) # ProcNull
          /\ c[3] = (IF side = 0 THEN 0 ELSE Extent(nd, r, 3) - 1)
          /\ c \notin Layer(nd, r, 3, c[3])
      BY <1>3, <3>3, <3>4, <3>5 DEF Near, RecvLayer
    <3>7. Harmless(nd) /\ r \in 0..(NumRanks(nd) - 1)
      BY <3>4 DEF Fit, Ranks
    <3>8. \/ OnEdge(Global(nd, r)[c])
          \/ \E f \in {1, 2}, u \in Sides :
               /\ Neighbour(nd, r, f, u) # ProcNull
               /\ c[f] = (IF u = 0 THEN 0 ELSE Extent(nd, r, f) - 1)
      BY <3>6, <3>7 DEF Harmless
    <3>9. ASSUME NEW f \in {1, 2}, NEW u \in Sides, Neighbour(nd, r, f, u) # ProcNull,
                 c[f] = (IF u = 0 THEN 0 ELSE Extent(nd, r, f) - 1)
          PROVE  FALSE
      <4>1. f \in Dims /\ f < d /\ u \in Near(r, f) /\ c[f] = RecvLayer(r, f, u)
        BY <3>5, <3>9 DEF Dims, Near, RecvLayer
      <4>2. Stale(r, f, u)'
        BY <1>10, <4>1
      <4> QED
        BY <1>a, <2>2, <4>1, <4>2
    <3> QED
      BY <3>4, <3>8, <3>9 DEF Unmoved
  <2> QED
    BY <1>9, <1>11, <2>1, <2>2
<1> QED
  BY <1>12, <1>13, <1>14

\* A layer that arrives makes its cells current.
LEMMA ArriveCells ==
  ASSUME CellInv, IInv, Fit, NEW r \in Ranks, NEW side \in Sides, Arrive(r, side)
  PROVE  CellInv'
<1>0. Shapes /\ Counters /\ CellsInv /\ LoadsInv /\ Begun
  BY DEF IInv, CallInv, CellInv
<1>d. PICK d \in Dims : d = dim[r]
  BY <1>0 DEF Counters, Exchanging, Arrive
<1>1. UNCHANGED <<nd, CT>> /\ n' = n /\ before' = before /\ pc[r] = "wait"
  BY DEF Arrive, fixed
<1>2. /\ mail[r][d][side] # << >> /\ side \in Near(r, d)
      /\ \A q \in Ranks : q # r => /\ pc'[q] = pc[q] /\ pending'[q] = pending[q]
                                   /\ dim'[q] = dim[q] /\ p'[q] = p[q]
  BY <1>0, <1>d DEF Arrive, GoTo, Shapes, Counters
<1>3. \A q \in Ranks : Sweeps(q)' = Sweeps(q)
  BY <1>1 DEF Sweeps
<1>4. Ranks' = Ranks /\ \A q, e, t : RecvLayer(q, e, t)' = RecvLayer(q, e, t)
  BY <1>1, FixedCells
<1>5. ASSUME NEW q \in Ranks, q # r, NEW c
      PROVE  FreshIn(q, c, Dims)' => FreshIn(q, c, Dims)
  <2>1. \A e, t : Stale(q, e, t)' <=> Stale(q, e, t)
    BY <1>1, <1>2, <1>5, StaleElsewhere
  <2> QED
    BY <1>4, <2>1 DEF FreshIn
<1>6. CellsInv'
  <2>1. ASSUME NEW q \in Ranks, NEW c \in Local(nd, q)
        PROVE  /\ Cell(p'[q][c])
               /\ (FreshIn(q, c, Dims)' \/ Unmoved(Global(nd, q)[c])) =>
                    Right(p'[q][c], Global(nd, q)[c], Sweeps(q)')
    <3>1. CASE q = r
      BY <1>3, <3>1, ArriveCell
    <3>2. CASE q # r
      BY <1>0, <1>2, <1>3, <1>5, <3>2 DEF CellsInv
    <3> QED
      BY <3>1, <3>2
  <2>2. \A q \in Ranks : p'[q] = [c \in Local(nd, q) |-> p'[q][c]]
    <3> TAKE q \in Ranks
    <3>1. CASE q = r
      <4>1. p'[r] = [c \in Local(nd, r) |-> p'[r][c]]
        <5>1. PICK new : p' = [p EXCEPT ![r] = [c \in Local(nd, r) |-> new[c]]]
          <6> DEFINE f == [c \in Local(nd, r) |->
                       IF c \in Carried(r, d, RecvLayer(r, d, side))
                       THEN Head(mail[r][d][side])[Flat(c, d)]
                       ELSE IF c \in Unwritten(r, side) THEN Other(Global(nd, r)[c])
                       ELSE p[r][c]]
          <6>1. p' = [p EXCEPT ![r] = f]
            BY <1>d DEF Arrive
          <6>2. f = [c \in Local(nd, r) |-> f[c]]
            OBVIOUS
          <6> HIDE DEF f
          <6> QED
            BY <6>1, <6>2
        <5>2. p'[r] = [c \in Local(nd, r) |-> new[c]]
          BY <1>0, <5>1 DEF Shapes
        <5> QED
          BY <5>2
      <4> QED
        BY <3>1, <4>1
    <3>2. CASE q # r
      BY <1>0, <1>2, <3>2 DEF CellsInv
    <3> QED
      BY <3>1, <3>2
  <2> QED
    BY <1>1, <2>1, <2>2, CellsNext
<1>7. LoadsInv'
  <2>0. \A x \in Ranks, e \in Dims, s \in Sides :
          mail'[x][e][s] = IF x = r /\ e = d /\ s = side THEN Tail(mail[r][d][side])
                           ELSE mail[x][e][s]
    <3>1. Boxed(mail)
      BY <1>0 DEF Shapes
    <3>2. mail' = PutBox(mail, r, d, side, Tail(mail[r][d][side]))
      BY <1>d DEF Arrive, PutBox
    <3> QED
      BY <3>1, <3>2, OneBox
  <2>1. ASSUME NEW x \in Ranks, NEW e \in Dims, NEW s \in Sides, NEW q \in Ranks,
               Beside(x, e, s, q), mail'[x][e][s] # << >>,
               NEW c \in Carried(x, e, RecvLayer(x, e, s))
        PROVE  /\ Cell(Head(mail'[x][e][s])[Flat(c, e)])
               /\ Inner(x, c, 1..(e - 1)) \/ Unmoved(Global(nd, x)[c]) =>
                    Right(Head(mail'[x][e][s])[Flat(c, e)], Global(nd, x)[c], Sweeps(q)')
    <3>1. CASE x = r /\ e = d /\ s = side
      <4>1. Tail(mail[r][d][side]) = << >>
        BY <1>1, <1>2, <2>1, <3>1, SameSweep
      <4> QED
        BY <2>0, <2>1, <3>1, <4>1
    <3>2. CASE ~(x = r /\ e = d /\ s = side)
      <4>1. mail'[x][e][s] = mail[x][e][s]
        BY <2>0, <3>2
      <4> QED
        BY <1>0, <1>3, <2>1, <4>1 DEF LoadsInv
    <3> QED
      BY <3>1, <3>2
  <2> QED
    BY <1>1, <2>1, LoadsNext
<1>8. Begun'
  BY <1>0, <1>1, <1>2, <1>4 DEF Begun, Exchanging
<1> QED
  BY <1>6, <1>7, <1>8 DEF CellInv

-----------------------------------------------------------------------------
(* A sweep. *)

\* The cells around one of the interior are cells of the same rank, one point
\* away at most.
LEMMA StencilIs ==
  ASSUME Shapes, Fit, NEW r \in Ranks, NEW c \in Interior(nd, r), NEW x \in Stencil(c)
  PROVE  /\ c \in Local(nd, r) /\ x \in Local(nd, r)
         /\ \A d \in Dims :
              /\ Global(nd, r)[c][d] \in Int /\ Global(nd, r)[x][d] \in Int
              /\ Global(nd, r)[c][d] <= Global(nd, r)[x][d] + 1
              /\ Global(nd, r)[x][d] <= Global(nd, r)[c][d] + 1
<1>1. Dims = {1, 2, 3}
  BY DEF Dims
<1>2. \A d \in Dims : Extent(nd, r, d) \in Nat \ {0} /\ Offset(nd, r, d) \in Int
  BY Extents
<1>3. Triple(c) /\ \A d \in Dims : c[d] \in 1..(Extent(nd, r, d) - 2)
  BY <1>1 DEF Interior, Triple
<1>4. Triple(x) /\ \A d \in Dims : x[d] \in (c[d] - 1)..(c[d] + 1)
  BY <1>1 DEF Stencil, Triple
<1>5. \A d \in Dims : /\ c[d] \in 0..(Extent(nd, r, d) - 1)
                      /\ x[d] \in 0..(Extent(nd, r, d) - 1)
  BY <1>2, <1>3, <1>4
<1>6. c \in Local(nd, r) /\ x \in Local(nd, r)
  BY <1>3, <1>4, <1>5, LocalIs
<1>7. \A d \in Dims : /\ Global(nd, r)[c][d] = c[d] + Offset(nd, r, d)
                      /\ Global(nd, r)[x][d] = x[d] + Offset(nd, r, d)
  BY <1>6, GlobalIs
<1>8. ASSUME NEW d \in Dims
      PROVE  /\ Global(nd, r)[c][d] \in Int /\ Global(nd, r)[x][d] \in Int
             /\ Global(nd, r)[c][d] <= Global(nd, r)[x][d] + 1
             /\ Global(nd, r)[x][d] <= Global(nd, r)[c][d] + 1
  BY <1>2, <1>3, <1>4, <1>7
<1> QED
  BY <1>6, <1>8

\* Two points next to each other are about as far from the edge.
LEMMA Spread ==
  ASSUME NEW g, NEW h, NEW k \in Nat,
         \A d \in Dims : /\ g[d] \in Int /\ h[d] \in Int
                         /\ g[d] <= h[d] + 1 /\ h[d] <= g[d] + 1,
         \E x \in FromCutEdge(h) : x < k
  PROVE  \E y \in FromCutEdge(g) : y < k + 1
<1>0. PICK d \in Dims : nd[d] > 1 /\ \E x \in {h[d], Size[d] - 1 - h[d]} : x < k
  BY DEF FromCutEdge
<1>1. PICK x \in {h[d], Size[d] - 1 - h[d]} : nd[d] > 1 /\ x < k
  BY <1>0
<1>2. Size[d] \in Int
  BY PartitionAssumption DEF Size
<1>3. {g[d], Size[d] - 1 - g[d]} \subseteq FromCutEdge(g)
  BY <1>1 DEF FromCutEdge
<1>4. CASE x = h[d]
  <2>1. g[d] < k + 1
    BY <1>1, <1>4
  <2> QED
    BY <1>3, <2>1
<1>5. CASE x = Size[d] - 1 - h[d]
  <2>1. Size[d] - 1 - g[d] < k + 1
    BY <1>1, <1>2, <1>5
  <2> QED
    BY <1>3, <2>1
<1> QED
  BY <1>1, <1>4, <1>5

\* A cell a sweep leaves alone is on the edge of the grid, or in a layer that is
\* exchanged next.
LEMMA Rim ==
  ASSUME Shapes, Fit, NEW r \in Ranks, NEW c \in Local(nd, r), c \notin Interior(nd, r)
  PROVE  \/ OnEdge(Global(nd, r)[c])
         \/ \E d \in Dims, s \in Sides : c[d] = RecvLayer(r, d, s) /\ s \in Near(r, d)
<1>1. Triple(c) /\ \A d \in Dims : c[d] \in 0..(Extent(nd, r, d) - 1)
  BY LocalIs
<1>2. PICK d \in Dims : c[d] \notin 1..(Extent(nd, r, d) - 2)
  <2>1. Dims = {1, 2, 3}
    BY DEF Dims
  <2> QED
    BY <1>1, <2>1 DEF Interior, Triple
<1>3. Extent(nd, r, d) \in Nat \ {0} /\ Offset(nd, r, d) \in Int
  BY Extents
<1>4. c[d] = 0 \/ c[d] = Extent(nd, r, d) - 1
  BY <1>1, <1>2, <1>3
<1>5. PICK s \in Sides : c[d] = RecvLayer(r, d, s)
  <2>1. RecvLayer(r, d, 0) = 0 /\ RecvLayer(r, d, 1) = Extent(nd, r, d) - 1
    BY DEF RecvLayer
  <2> QED
    BY <1>4, <2>1 DEF Sides
<1>6. ASSUME s \notin Near(r, d) PROVE OnEdge(Global(nd, r)[c])
  <2>1. Offset(nd, r, d) + c[d] = IF s = 0 THEN 0 ELSE Size[d] - 1
    BY <1>5, <1>6, AtEdge
  <2>2. Global(nd, r)[c][d] = c[d] + Offset(nd, r, d)
    BY GlobalIs
  <2>3. c[d] + Offset(nd, r, d) = Offset(nd, r, d) + c[d]
    BY <1>1, <1>3
  <2>4. Global(nd, r)[c][d] \in {0, Size[d] - 1}
    BY <2>1, <2>2, <2>3
  <2> QED
    BY <2>4 DEF OnEdge
<1> QED
  BY <1>5, <1>6

\* All the layers are exchanged after a sweep.
LEMMA SweepStale ==
  ASSUME Shapes, NEW r \in Ranks, Sweep(r), NEW d \in Dims, NEW s \in Near(r, d)
  PROVE  Stale(r, d, s)'
<1>1. UNCHANGED <<nd, CT>>
  BY DEF Sweep, fixed
<1>2. Near(r, d)' = Near(r, d)
  BY <1>1, FixedCells
<1>3. PICK q : Beside(r, d, s, q)
  BY DEF Near, Beside
<1>4. nd[d] > 1
  BY <1>3, Mutual DEF Near
<1>5. PICK c \in 0..3 : c = CutFrom(3) /\ \A e \in 1..3 : e > c => ~(nd[e] > 1)
  <2>1. 3 \in 0..3
    OBVIOUS
  <2> QED
    BY <2>1, NextCut
<1>6. d \in 1..3 /\ ~(d > c)
  BY <1>4, <1>5 DEF Dims
<1>7. c # 0 /\ ~(c < d)
  BY <1>6
<1>8. pc'[r] = "post" /\ dim'[r] = c
  BY <1>5, <1>7 DEF Sweep, GoTo, Shapes
<1> QED
  BY <1>2, <1>7, <1>8 DEF Stale, Exchanging, LayerGot

\* A cell after a sweep: right when all the cells around it were current.
LEMMA SweepCell ==
  ASSUME CellInv, Shapes, Fit, NEW r \in Ranks, Sweep(r), NEW c \in Local(nd, r)
  PROVE  /\ p'[r] = [x \in Local(nd, r) |-> p'[r][x]] /\ Cell(p'[r][c])
         /\ (FreshIn(r, c, Dims)' \/ Unmoved(Global(nd, r)[c])) =>
              Right(p'[r][c], Global(nd, r)[c], Sweeps(r) + 1)
<1>0. CellsInv
  BY DEF CellInv
<1>1. UNCHANGED <<nd, CT>> /\ pc[r] = "sweep"
  BY DEF Sweep, fixed
<1>2. \A e, t : RecvLayer(r, e, t)' = RecvLayer(r, e, t)
  BY <1>1, FixedCells
<1>3. PICK k \in Nat : k = Sweeps(r)
  BY DEF Sweeps, Shapes
<1>4. PICK g : g = Global(nd, r)
  OBVIOUS
<1>5. \A x \in Local(nd, r) : Cell(p[r][x]) /\ Right(p[r][x], g[x], k)
  <2>1. \A x : FreshIn(r, x, Dims)
    BY <1>1 DEF FreshIn, Stale, Exchanging
  <2> QED
    BY <1>0, <1>3, <1>4, <2>1 DEF CellsInv
<1>6. g[c] = [d \in Dims |-> c[d] + Offset(nd, r, d)] /\ DOMAIN g[c] = Dims
  BY <1>4, GlobalIs
<1> DEFINE current == {x \in Local(nd, r) : p[r][x] = ValueAt(g[x], k)}
           new == [x \in Local(nd, r) |->
                   IF x \notin Interior(nd, r) THEN p[r][x]
                   ELSE IF Stencil(x) \subseteq current THEN ValueAt(g[x], k + 1)
                        ELSE Other(g[x])]
<1>7. p'[r] = new
  BY <1>3, <1>4 DEF Sweep, Shapes
<1>8. /\ p'[r] = [x \in Local(nd, r) |-> p'[r][x]]
      /\ p'[r][c] = IF c \notin Interior(nd, r) THEN p[r][c]
                    ELSE IF Stencil(c) \subseteq current THEN ValueAt(g[c], k + 1)
                         ELSE Other(g[c])
  BY <1>7
<1>9. CASE c \notin Interior(nd, r)
  <2>1. p'[r][c] = p[r][c] /\ Cell(p[r][c]) /\ Right(p[r][c], g[c], k)
    BY <1>5, <1>8, <1>9
  <2>2. ASSUME CT # 0, \E x \in FromCutEdge(g[c]) : x < k
        PROVE  Right(p[r][c], g[c], k + 1)
    <3>1. \A d \in Dims : g[c][d] \in Int
      <4>1. \A d \in Dims : Extent(nd, r, d) \in Nat /\ Offset(nd, r, d) \in Int
        BY Extents
      <4>2. \A d \in Dims : c[d] \in 0..(Extent(nd, r, d) - 1)
        BY LocalIs
      <4>3. \A d \in Dims : g[c][d] = c[d] + Offset(nd, r, d)
        BY <1>4, GlobalIs
      <4> QED
        BY <4>1, <4>2, <4>3
    <3>2. \A d \in Dims : /\ g[c][d] \in Int /\ g[c][d] \in Int
                          /\ g[c][d] <= g[c][d] + 1 /\ g[c][d] <= g[c][d] + 1
      BY <3>1
    <3>3. \E y \in FromCutEdge(g[c]) : y < k + 1
      BY <2>2, <3>2, Spread
    <3> QED
      BY <2>2, <3>3 DEF Right
  <2>3. CASE OnEdge(g[c])
    <3>1. ValueAt(g[c], k) = ValueAt(g[c], k + 1)
      BY <2>3 DEF ValueAt
    <3>2. Right(p[r][c], g[c], k + 1)
      BY <2>1, <2>2, <3>1 DEF Right
    <3> QED
      BY <1>3, <1>4, <1>8, <2>1, <3>2
  <2>4. CASE ~OnEdge(g[c])
    <3>1. PICK d \in Dims, s \in Sides : c[d] = RecvLayer(r, d, s) /\ s \in Near(r, d)
      BY <1>4, <1>9, <2>4, Rim
    <3>2. Stale(r, d, s)'
      BY <3>1, SweepStale
    <3>3. ~FreshIn(r, c, Dims)'
      BY <1>2, <3>1, <3>2 DEF FreshIn
    <3>4. ~Unmoved(g[c])
      BY <2>4 DEF Unmoved
    <3> QED
      BY <1>4, <1>8, <2>1, <3>3, <3>4
  <2> QED
    BY <2>3, <2>4
<1>10. CASE c \in Interior(nd, r) /\ Stencil(c) \subseteq current
  <2>1. p'[r][c] = ValueAt(g[c], k + 1)
    BY <1>8, <1>10
  <2>2. Cell(p'[r][c])
    BY <1>6, <2>1 DEF Cell, ValueAt
  <2>3. Right(p'[r][c], g[c], k + 1)
    BY <2>1 DEF Right
  <2> QED
    BY <1>3, <1>4, <1>8, <2>2, <2>3
<1>11. CASE c \in Interior(nd, r) /\ ~(Stencil(c) \subseteq current)
  <2>1. p'[r][c] = Other(g[c])
    BY <1>8, <1>11
  <2>2. Cell(p'[r][c])
    BY <1>6, <2>1 DEF Cell, Other
  <2>3. PICK x \in Stencil(c) : x \notin current
    BY <1>11
  <2>4. /\ x \in Local(nd, r)
        /\ \A d \in Dims : /\ g[c][d] \in Int /\ g[x][d] \in Int
                           /\ g[c][d] <= g[x][d] + 1 /\ g[x][d] <= g[c][d] + 1
    BY <1>4, <1>11, StencilIs
  <2>5. p[r][x] # ValueAt(g[x], k)
    BY <2>3, <2>4
  <2>6. CT # 0 /\ \E y \in FromCutEdge(g[x]) : y < k
    BY <1>5, <2>4, <2>5 DEF Right
  <2>7. \E y \in FromCutEdge(g[c]) : y < k + 1
    BY <2>4, <2>6, Spread
  <2>8. Right(p'[r][c], g[c], k + 1)
    BY <2>6, <2>7 DEF Right
  <2> QED
    BY <1>3, <1>4, <1>8, <2>2, <2>8
<1> QED
  BY <1>9, <1>10, <1>11

\* A sweep keeps the invariant: it starts only when nothing is behind.
LEMMA SweepCells ==
  ASSUME CellInv, IInv, Fit, NEW r \in Ranks, Sweep(r)
  PROVE  CellInv'
<1>0. MailInv /\ Shapes /\ CellsInv /\ LoadsInv /\ Begun
  BY DEF IInv, CallInv, CellInv
<1>1. /\ UNCHANGED <<nd, CT>> /\ mail' = mail /\ before' = before /\ pending' = pending
      /\ pc[r] = "sweep"
  BY DEF Sweep, fixed
<1>2. /\ n'[r] = n[r] + 1 /\ n[r] \in Nat /\ before[r] \in Nat
      /\ \A q \in Ranks : q # r => /\ pc'[q] = pc[q] /\ dim'[q] = dim[q] /\ p'[q] = p[q]
                                   /\ n'[q] = n[q]
  BY <1>0 DEF Sweep, GoTo, Shapes
<1>3. Sweeps(r)' = Sweeps(r) + 1 /\ \A q \in Ranks : q # r => Sweeps(q)' = Sweeps(q)
  BY <1>1, <1>2 DEF Sweeps
<1>4. Ranks' = Ranks /\ \A q, e, t : RecvLayer(q, e, t)' = RecvLayer(q, e, t)
  BY <1>1, FixedCells
<1>5. ASSUME NEW q \in Ranks, q # r, NEW c
      PROVE  FreshIn(q, c, Dims)' => FreshIn(q, c, Dims)
  <2>1. \A e, t : Stale(q, e, t)' <=> Stale(q, e, t)
    BY <1>1, <1>2, <1>5, StaleElsewhere
  <2> QED
    BY <1>4, <2>1 DEF FreshIn
<1>6. CellsInv'
  <2>1. ASSUME NEW q \in Ranks, NEW c \in Local(nd, q)
        PROVE  /\ Cell(p'[q][c])
               /\ (FreshIn(q, c, Dims)' \/ Unmoved(Global(nd, q)[c])) =>
                    Right(p'[q][c], Global(nd, q)[c], Sweeps(q)')
    <3>1. CASE q = r
      BY <1>0, <1>3, <3>1, SweepCell
    <3>2. CASE q # r
      BY <1>0, <1>2, <1>3, <1>5, <3>2 DEF CellsInv
    <3> QED
      BY <3>1, <3>2
  <2>2. p'[r] = [c \in Local(nd, r) |-> p'[r][c]]
    <3>1. PICK c \in Local(nd, r) : TRUE
      <4>1. \A d \in Dims : Extent(nd, r, d) \in Nat \ {0}
        BY <1>0, Extents
      <4>2. Triple(<<0, 0, 0>>) /\ \A d \in Dims : <<0, 0, 0>>[d] = 0
        BY DEF Triple, Dims
      <4>3. <<0, 0, 0>> \in Local(nd, r)
        BY <4>1, <4>2, LocalIs
      <4> QED
        BY <4>3
    <3> QED
      BY <1>0, <3>1, SweepCell
  <2>3. \A q \in Ranks : p'[q] = [c \in Local(nd, q) |-> p'[q][c]]
    BY <1>0, <1>2, <2>2 DEF CellsInv
  <2> QED
    BY <1>1, <2>1, <2>3, CellsNext
<1>7. LoadsInv'
  <2>1. ASSUME NEW x \in Ranks, NEW e \in Dims, NEW s \in Sides, NEW q \in Ranks,
               Beside(x, e, s, q), mail'[x][e][s] # << >>,
               NEW c \in Carried(x, e, RecvLayer(x, e, s))
        PROVE  /\ Cell(Head(mail'[x][e][s])[Flat(c, e)])
               /\ Inner(x, c, 1..(e - 1)) \/ Unmoved(Global(nd, x)[c]) =>
                    Right(Head(mail'[x][e][s])[Flat(c, e)], Global(nd, x)[c], Sweeps(q)')
    <3>1. q # r
      <4> SUFFICES ASSUME q = r PROVE FALSE
        OBVIOUS
      <4>1. ~LayerSent(r, e)
        BY <1>1 DEF LayerSent, Exchanging
      <4>2. ~UnderWay(x, q, LayerSent(q, e), LayerGot(x, e, s))
        BY <4>1 DEF UnderWay
      <4>3. mail[x][e][s] = << >>
        BY <1>0, <2>1, <4>2 DEF MailInv, LayersInv
      <4> QED
        BY <1>1, <2>1, <4>3
    <3> QED
      BY <1>0, <1>1, <1>3, <2>1, <3>1 DEF LoadsInv
  <2> QED
    BY <1>1, <2>1, LoadsNext
<1>8. Begun'
  BY <1>0, <1>1, <1>2, <1>4 DEF Begun, Exchanging
<1> QED
  BY <1>6, <1>7, <1>8 DEF CellInv

-----------------------------------------------------------------------------
(* Theorems. *)

\* Before the first sweep all cells hold the initial values.
LEMMA InitCells == Init => CellInv
<1> SUFFICES ASSUME Init PROVE CellInv
  OBVIOUS
<1>1. /\ n = [r \in Ranks |-> 0] /\ before = [r \in Ranks |-> 0]
      /\ pc = [r \in Ranks |-> "start"]
      /\ mail = [r \in Ranks |-> [d \in Dims |-> [s \in Sides |-> << >>]]]
  BY DEF Init
<1>2. \A r \in Ranks : Sweeps(r) = 0 /\ ~Exchanging(r)
  BY <1>1 DEF Sweeps, Exchanging
<1>3. \A r \in Ranks : p[r] = [c \in Local(nd, r) |-> ValueAt(Global(nd, r)[c], 0)]
  BY DEF Init
<1>4. ASSUME NEW r \in Ranks, NEW c \in Local(nd, r)
      PROVE  /\ Cell(p[r][c])
             /\ Right(p[r][c], Global(nd, r)[c], Sweeps(r))
  <2>1. p[r][c] = ValueAt(Global(nd, r)[c], 0)
    BY <1>3
  <2>2. Global(nd, r)[c] = [d \in Dims |-> c[d] + Offset(nd, r, d)]
    BY GlobalIs
  <2>3. DOMAIN Global(nd, r)[c] = Dims
    BY <2>2
  <2>4. Cell(p[r][c])
    BY <2>1, <2>3 DEF Cell, ValueAt
  <2> QED
    BY <1>2, <2>1, <2>4 DEF Right
<1>5. \A r \in Ranks : p[r] = [c \in Local(nd, r) |-> p[r][c]]
  BY <1>3
<1>6. CellsInv
  BY <1>4, <1>5 DEF CellsInv
<1>7. LoadsInv
  <2>1. \A r \in Ranks, d \in Dims, s \in Sides : mail[r][d][s] = << >>
    BY <1>1
  <2> QED
    BY <2>1 DEF LoadsInv
<1>8. Begun
  BY <1>2 DEF Begun
<1> QED
  BY <1>6, <1>7, <1>8 DEF CellInv

\* Every step of the program keeps CellInv.
LEMMA NextCells ==
  ASSUME WellCut, IInv, CellInv, [Next]_vars
  PROVE  CellInv'
<1>0. Shapes /\ Fit
  BY Fits DEF IInv, CallInv
<1>1. ASSUME NEW r \in Ranks, Step(r) PROVE CellInv'
  BY <1>0, <1>1, CallCells, LeaveTimingCells, SizeCells, SweepCells, PostCells, ArriveCells
     DEF Step
<1>2. ASSUME UNCHANGED vars PROVE CellInv'
  <2>1. UNCHANGED <<nd, CT, p, n, before, pc, dim, pending, mail>>
    BY <1>2 DEF vars, fixed
  <2>2. \A q \in Ranks : Sweeps(q)' = Sweeps(q)
    BY <2>1 DEF Sweeps
  <2>3. \A q \in Ranks, d \in Dims, s \in Sides : Stale(q, d, s) => Stale(q, d, s)'
    BY <2>1, StaleElsewhere
  <2>4. \A q \in Ranks : Exchanging(q)' => n'[q] >= 1
    BY <2>1 DEF CellInv, Begun, Exchanging
  <2>5. UNCHANGED <<nd, CT, p, mail>>
    BY <2>1
  <2> QED
    BY <2>2, <2>3, <2>4, <2>5, QuietCells
<1> QED
  BY <1>1, <1>2 DEF Next, Terminated

\* After the exchange of layers sendp() makes, every cell of every rank, those of
\* shared layers, edges and corners included, holds what the uncut grid would
\* hold after as many sweeps; with compression, as far as what himenoBMTxps_comp.c
\* writes where there is no neighbour has not spread.  This is so on every grid
\* and every decomposition that is well cut: in every dimension no more parts
\* than points, and no harm done by the cells that ijvec misses.
THEOREM CellsRight ==
  ASSUME WellCut
  PROVE  Spec => []CellsCurrent
<1>1. IInv /\ CellInv => CellsCurrent
  <2> SUFFICES ASSUME IInv, CellInv, NEW r \in Ranks,
                      pc[r] \in {"reduce", "gosa", "sweep", "timing", "end"},
                      NEW c \in Local(nd, r)
               PROVE  \/ p[r][c] = ValueAt(Global(nd, r)[c], Sweeps(r))
                      \/ Reached(r, Global(nd, r)[c])
    BY DEF CellsCurrent
  <2>1. FreshIn(r, c, Dims)
    BY DEF FreshIn, Stale, Exchanging
  <2>2. Right(p[r][c], Global(nd, r)[c], Sweeps(r))
    BY <2>1 DEF CellInv, CellsInv
  <2> QED
    BY <2>2 DEF Right, Reached
<1>2. IInv /\ CellInv /\ [Next]_vars => CellInv'
  BY NextCells
<1> QED
  BY <1>1, <1>2, InitCells, Invariance, PTL DEF Spec

-----------------------------------------------------------------------------
(* Every point of the inner grid is computed by one rank. *)

\* Parts start one after the other.
LEMMA StartGrows ==
  ASSUME NEW m \in Nat, NEW k \in Nat \ {0}, k <= m, NEW i \in 0..k, NEW j \in 0..k, i < j
  PROVE  Start(m, k, i) < Start(m, k, j)
<1>1. PICK h \in Nat, t \in 0..(k - 1) : h = m \div k /\ t = m % k /\ m = k * h + t
  BY DivModExists
<1>2. h # 0
  <2> SUFFICES ASSUME h = 0 PROVE FALSE
    OBVIOUS
  <2>1. k * 0 = 0
    BY Z3
  <2> QED
    BY <1>1, <2>1
<1>3. PICK e \in Nat : j = i + 1 + e
  <2>1. j - i - 1 \in Nat /\ j = i + 1 + (j - i - 1)
    OBVIOUS
  <2> QED
    BY <2>1
<1>4. PICK a \in Nat, b \in Nat : a = i * h /\ b = e * h /\ j * h = a + h + b
  <2>1. i * h \in Nat /\ e * h \in Nat /\ (i + 1 + e) * h = i * h + h + e * h
    BY Z3
  <2> QED
    BY <1>3, <2>1
<1>5. /\ Start(m, k, i) = a + (IF i <= t THEN i ELSE t)
      /\ Start(m, k, j) = (a + h + b) + (IF j <= t THEN j ELSE t)
  BY <1>1, <1>4 DEF Start
<1> QED
  BY <1>2, <1>5

\* The part of a dimension a point is in.
LEMMA OnePart ==
  ASSUME NEW m \in Nat, NEW k \in Nat \ {0}, k <= m, NEW x \in 0..(m - 1)
  PROVE  /\ \E i \in 0..(k - 1) : Start(m, k, i) <= x /\ x < Start(m, k, i + 1)
         /\ \A i, j \in 0..(k - 1) :
              /\ Start(m, k, i) <= x /\ x < Start(m, k, i + 1)
              /\ Start(m, k, j) <= x /\ x < Start(m, k, j + 1)
              => i = j
<1>0. /\ Start(m, k, 0) = 0 /\ Start(m, k, k) = m
      /\ \A i \in 0..k : Start(m, k, i) \in Nat
  BY StartStep
<1>1. \E i \in 0..(k - 1) : Start(m, k, i) <= x /\ x < Start(m, k, i + 1)
  <2> DEFINE T == {j \in 1..k : x < Start(m, k, j)}
  <2>1. T \in SUBSET Nat /\ \A j \in 1..k : j \notin T => ~(x < Start(m, k, j))
    OBVIOUS
  <2>2. k \in T
    BY <1>0
  <2>3. PICK j \in T : \A l \in T : j <= l
    <3> HIDE DEF T
    <3> QED
      BY <2>1, <2>2, LeastNat
  <2>4. j \in 1..k /\ x < Start(m, k, j)
    OBVIOUS
  <2>5. PICK i \in 0..(k - 1) : j = i + 1 /\ i = j - 1
    <3>1. j - 1 \in 0..(k - 1) /\ j = (j - 1) + 1
      BY <2>4
    <3> QED
      BY <3>1
  <2>6. Start(m, k, i) <= x
    <3>1. CASE i = 0
      BY <1>0, <3>1
    <3>2. CASE i # 0
      <4>1. i \in 1..k /\ i \in 0..k /\ ~(j <= i)
        BY <2>5, <3>2
      <4>2. ~(x < Start(m, k, i))
        BY <2>1, <2>3, <4>1
      <4> QED
        BY <1>0, <4>1, <4>2
    <3> QED
      BY <3>1, <3>2
  <2> QED
    BY <2>4, <2>5, <2>6
<1>2. ASSUME NEW i \in 0..(k - 1), NEW j \in 0..(k - 1), i < j,
             Start(m, k, j) <= x, x < Start(m, k, i + 1)
      PROVE  FALSE
  <2>1. i + 1 \in 0..k /\ j \in 0..k /\ (i + 1 = j \/ i + 1 < j)
    BY <1>2
  <2>2. PICK a \in Nat, b \in Nat : a = Start(m, k, i + 1) /\ b = Start(m, k, j)
    BY <1>0, <2>1
  <2>3. a <= b
    <3>1. CASE i + 1 = j
      BY <2>2, <3>1
    <3>2. CASE i + 1 < j
      BY <2>1, <2>2, <3>2, StartGrows
    <3> QED
      BY <2>1, <3>1, <3>2
  <2> QED
    BY <1>2, <2>2, <2>3
<1>3. \A i, j \in 0..(k - 1) : i < j \/ j < i \/ i = j
  OBVIOUS
<1> QED
  BY <1>1, <1>2, <1>3

\* The points of the grid rank r computes, in one dimension and in all.
OwnIn(r, d) == (1 + Offset(nd, r, d))..(Extent(nd, r, d) - 2 + Offset(nd, r, d))
Own(r) == OwnIn(r, 1) \X OwnIn(r, 2) \X OwnIn(r, 3)

InnerGrid == (1..(Size[1] - 2)) \X (1..(Size[2] - 2)) \X (1..(Size[3] - 2))

\* The inner points a rank owns in a dimension are those between its start and the next.
LEMMA OwnIs ==
  ASSUME Shapes, Fit, NEW r \in Ranks, NEW d \in Dims, NEW x \in Int, NEW i, i = iop(nd, r)[d]
  PROVE  x \in OwnIn(r, d) <=>
           /\ x \in 1..(Size[d] - 2)
           /\ Start(Size[d], nd[d], i) <= x /\ x < Start(Size[d], nd[d], i + 1)
<1>1. PICK j \in Nat, k \in Nat, a \in Nat, b \in Nat : PartIs(r, d, j, k, a, b)
  BY PartOf
<1>2. /\ i = j /\ k = nd[d] /\ j < k /\ a < b /\ Size[d] \in Nat
      /\ j = 0 => a = 0
      /\ j = k - 1 => b = Size[d]
      /\ Extent(nd, r, d) = b - a + (IF j # 0 THEN 1 ELSE 0) + (IF j # k - 1 THEN 1 ELSE 0)
      /\ Offset(nd, r, d) = a - (IF j = 0 THEN 0 ELSE 1)
  BY <1>1 DEF PartIs
<1>3. k \in Nat \ {0} /\ k <= Size[d] /\ j \in 0..k /\ j + 1 \in 0..k
  BY <1>2 DEF Fit
<1>4. a = Start(Size[d], k, i) /\ b = Start(Size[d], k, i + 1)
  <2>1. a = m1(Size[d], k)[j] /\ b = m1(Size[d], k)[j + 1]
    BY <1>1 DEF PartIs, From, UpTo
  <2> QED
    BY <1>2, <1>3, <2>1, m1Is
<1>5. j # 0 => a >= 1
  <2>1. ASSUME j # 0 PROVE Start(Size[d], k, 0) < Start(Size[d], k, j)
    <3>1. 0 \in 0..k /\ 0 < j
      BY <2>1, <1>3
    <3> QED
      BY <1>2, <1>3, <3>1, StartGrows
  <2>2. Start(Size[d], k, 0) = 0
    BY <1>2, <1>3, StartStep
  <2> QED
    BY <1>2, <1>4, <2>1, <2>2
<1>6. j # k - 1 => b <= Size[d] - 1
  <2>1. ASSUME j # k - 1 PROVE Start(Size[d], k, j + 1) < Start(Size[d], k, k)
    <3>1. k \in 0..k /\ j + 1 < k
      BY <1>2, <1>3, <2>1
    <3> QED
      BY <1>2, <1>3, <3>1, StartGrows
  <2>2. Start(Size[d], k, k) = Size[d]
    BY <1>2, <1>3, StartStep
  <2> QED
    BY <1>2, <1>4, <2>1, <2>2
<1>7. 1 + Offset(nd, r, d) = IF j = 0 THEN 1 ELSE a
  BY <1>2
<1>8. Extent(nd, r, d) - 2 + Offset(nd, r, d) = IF j = k - 1 THEN Size[d] - 2 ELSE b - 1
  <2>1. CASE j = 0 /\ j = k - 1
    BY <1>2, <2>1
  <2>2. CASE j = 0 /\ j # k - 1
    BY <1>2, <2>2
  <2>3. CASE j # 0 /\ j = k - 1
    BY <1>2, <2>3
  <2>4. CASE j # 0 /\ j # k - 1
    BY <1>2, <2>4
  <2> QED
    BY <2>1, <2>2, <2>3, <2>4
<1>9. x \in OwnIn(r, d) <=> x \in 1..(Size[d] - 2) /\ a <= x /\ x < b
  BY <1>2, <1>5, <1>6, <1>7, <1>8 DEF OwnIn
<1> QED
  BY <1>2, <1>4, <1>9

\* No point is computed by two ranks.
LEMMA OwnDisjoint ==
  ASSUME Shapes, Fit, NEW r \in Ranks, NEW q \in Ranks, NEW g \in Own(r), g \in Own(q)
  PROVE  r = q
<1>0. nd \in [Dims -> Nat \ {0}]
  BY Basics
<1>1. ASSUME NEW d \in Dims PROVE iop(nd, r)[d] = iop(nd, q)[d]
  <2>1. g[d] \in OwnIn(r, d) /\ g[d] \in OwnIn(q, d)
    BY DEF Own, Dims
  <2>2. PICK i, j : i = iop(nd, r)[d] /\ j = iop(nd, q)[d]
    OBVIOUS
  <2>3. i \in 0..(nd[d] - 1) /\ j \in 0..(nd[d] - 1) /\ nd[d] \in Nat \ {0}
    BY <2>2, PlaceIs
  <2>4. g[d] \in Int
    BY <2>1 DEF OwnIn
  <2>5. Size[d] \in Nat /\ nd[d] <= Size[d]
    BY PartitionAssumption DEF Size, Dims, Fit
  <2>6. /\ g[d] \in 1..(Size[d] - 2)
        /\ Start(Size[d], nd[d], i) <= g[d] /\ g[d] < Start(Size[d], nd[d], i + 1)
    BY <2>1, <2>2, <2>4, OwnIs
  <2>7. /\ Start(Size[d], nd[d], j) <= g[d] /\ g[d] < Start(Size[d], nd[d], j + 1)
    BY <2>1, <2>2, <2>4, OwnIs
  <2>8. g[d] \in 0..(Size[d] - 1)
    BY <2>5, <2>6
  <2>9. i = j
    BY <2>3, <2>5, <2>6, <2>7, <2>8, OnePart
  <2> QED
    BY <2>2, <2>9
<1>2. iop(nd, r) = iop(nd, q)
  <2>1. Triple(iop(nd, r)) /\ Triple(iop(nd, q))
    BY DEF Triple, iop
  <2> QED
    BY <1>1, <2>1, SameTriple
<1> QED
  BY <1>0, <1>2, Numbering

\* Every point of the inner grid is computed by some rank.
LEMMA OwnCovers ==
  ASSUME Shapes, Fit
  PROVE  /\ \A r \in Ranks : Own(r) \subseteq InnerGrid
         /\ \A g \in InnerGrid : \E r \in Ranks : g \in Own(r)
<1>0. nd \in [Dims -> Nat \ {0}] /\ Dims = {1, 2, 3}
  BY Basics DEF Dims
<1>1. ASSUME NEW r \in Ranks, NEW d \in Dims PROVE OwnIn(r, d) \subseteq 1..(Size[d] - 2)
  <2> SUFFICES ASSUME NEW x \in OwnIn(r, d) PROVE x \in 1..(Size[d] - 2)
    OBVIOUS
  <2>1. x \in Int
    BY DEF OwnIn
  <2> QED
    BY <2>1, OwnIs
<1>2. \A r \in Ranks : Own(r) \subseteq InnerGrid
  <2> TAKE r \in Ranks
  <2>1. /\ OwnIn(r, 1) \subseteq 1..(Size[1] - 2) /\ OwnIn(r, 2) \subseteq 1..(Size[2] - 2)
        /\ OwnIn(r, 3) \subseteq 1..(Size[3] - 2)
    BY <1>0, <1>1
  <2> QED
    BY <2>1 DEF Own, InnerGrid
<1>3. ASSUME NEW d \in Dims, NEW x \in 1..(Size[d] - 2)
      PROVE  \E i \in 0..(nd[d] - 1) :
               Start(Size[d], nd[d], i) <= x /\ x < Start(Size[d], nd[d], i + 1)
  <2>1. Size[d] \in Nat /\ nd[d] <= Size[d] /\ nd[d] \in Nat \ {0}
    BY <1>0, PartitionAssumption DEF Size, Dims, Fit
  <2>2. x \in 0..(Size[d] - 1)
    BY <2>1
  <2> QED
    BY <2>1, <2>2, OnePart
<1>4. ASSUME NEW g \in InnerGrid PROVE \E r \in Ranks : g \in Own(r)
  <2>1. PICK x \in 1..(Size[1] - 2), y \in 1..(Size[2] - 2), z \in 1..(Size[3] - 2) :
          g = <<x, y, z>>
    BY DEF InnerGrid
  <2>2. PICK i \in 0..(nd[1] - 1) :
          Start(Size[1], nd[1], i) <= x /\ x < Start(Size[1], nd[1], i + 1)
    BY <1>0, <1>3
  <2>3. PICK j \in 0..(nd[2] - 1) :
          Start(Size[2], nd[2], j) <= y /\ y < Start(Size[2], nd[2], j + 1)
    BY <1>0, <1>3
  <2>4. PICK k \in 0..(nd[3] - 1) :
          Start(Size[3], nd[3], k) <= z /\ z < Start(Size[3], nd[3], k + 1)
    BY <1>0, <1>3
  <2>5. PICK r \in Ranks : iop(nd, r) = <<i, j, k>>
    BY <1>0, Numbering
  <2>6. iop(nd, r)[1] = i /\ iop(nd, r)[2] = j /\ iop(nd, r)[3] = k
    BY <2>5
  <2>7. x \in OwnIn(r, 1)
    BY <1>0, <2>2, <2>6, OwnIs
  <2>8. y \in OwnIn(r, 2)
    BY <1>0, <2>3, <2>6, OwnIs
  <2>9. z \in OwnIn(r, 3)
    BY <1>0, <2>4, <2>6, OwnIs
  <2> QED
    BY <2>1, <2>7, <2>8, <2>9 DEF Own
<1> QED
  BY <1>2, <1>4

\* The number of triples.
LEMMA CountTriples ==
  ASSUME NEW A, NEW B, NEW C, IsFiniteSet(A), IsFiniteSet(B), IsFiniteSet(C)
  PROVE  /\ IsFiniteSet(A \X B \X C)
         /\ Cardinality(A \X B \X C) = Cardinality(A) * Cardinality(B) * Cardinality(C)
<1> DEFINE S == (A \X B) \X C
           T == A \X B \X C
           f == [x \in S |-> <<x[1][1], x[1][2], x[2]>>]
<1>1. /\ IsFiniteSet(A \X B) /\ Cardinality(A \X B) = Cardinality(A) * Cardinality(B)
  BY FS_Product
<1>2. IsFiniteSet(S) /\ Cardinality(S) = Cardinality(A) * Cardinality(B) * Cardinality(C)
  BY <1>1, FS_Product
<1>3. \A x \in S : x[1][1] \in A /\ x[1][2] \in B /\ x[2] \in C /\ x = <<<<x[1][1], x[1][2]>>, x[2]>>
  OBVIOUS
<1>4. f \in [S -> T]
  BY <1>3
<1>5. f \in Injection(S, T)
  <2>1. ASSUME NEW x \in S, NEW y \in S, f[x] = f[y] PROVE x = y
    <3>1. x[1][1] = y[1][1] /\ x[1][2] = y[1][2] /\ x[2] = y[2]
      BY <2>1
    <3> QED
      BY <1>3, <3>1
  <2> HIDE DEF S, T, f
  <2>2. \A x, y \in S : f[x] = f[y] => x = y
    BY <2>1
  <2>3. DOMAIN f = S
    BY <1>4
  <2> QED
    BY <1>4, <2>2, <2>3 DEF Injection, IsInjective
<1>6. f \in Surjection(S, T)
  <2>1. ASSUME NEW t \in T PROVE \E x \in S : f[x] = t
    <3>1. t[1] \in A /\ t[2] \in B /\ t[3] \in C /\ t = <<t[1], t[2], t[3]>>
      OBVIOUS
    <3>2. <<<<t[1], t[2]>>, t[3]>> \in S
      BY <3>1
    <3>3. f[<<<<t[1], t[2]>>, t[3]>>] = <<t[1], t[2], t[3]>>
      BY <3>2
    <3> QED
      BY <3>1, <3>2, <3>3
  <2> HIDE DEF S, T, f
  <2> QED
    BY <1>4, <2>1 DEF Surjection
<1>7. IsFiniteSet(T) /\ Cardinality(T) = Cardinality(S)
  <2> HIDE DEF S, T, f
  <2>1. f \in Bijection(S, T)
    BY <1>5, <1>6 DEF Bijection
  <2>2. ExistsBijection(S, T)
    BY <2>1 DEF ExistsBijection
  <2> QED
    BY <1>2, <2>2, FS_Bijection
<1> QED
  BY <1>2, <1>7

\* wgosa counts as many cells as r computes points.
LEMMA CountOwn ==
  ASSUME Shapes, Fit, NEW r \in Ranks
  PROVE  /\ IsFiniteSet(Own(r)) /\ Cardinality(Interior(nd, r)) = Cardinality(Own(r))
         /\ Cardinality(Own(r)) \in Nat
<1>1. ASSUME NEW d \in Dims
      PROVE  /\ IsFiniteSet(1..(Extent(nd, r, d) - 2)) /\ IsFiniteSet(OwnIn(r, d))
             /\ Cardinality(OwnIn(r, d)) = Cardinality(1..(Extent(nd, r, d) - 2))
  <2>1. PICK e \in Int, o \in Int : e = Extent(nd, r, d) - 2 /\ o = Offset(nd, r, d)
    BY Extents
  <2>2. OwnIn(r, d) = (1 + o)..(e + o) /\ 1 + o \in Int /\ e + o \in Int
    BY <2>1 DEF OwnIn
  <2>3. /\ IsFiniteSet(1..e) /\ Cardinality(1..e) = IF 1 > e THEN 0 ELSE e - 1 + 1
    BY FS_Interval
  <2>4. /\ IsFiniteSet((1 + o)..(e + o))
        /\ Cardinality((1 + o)..(e + o)) = IF 1 + o > e + o THEN 0 ELSE (e + o) - (1 + o) + 1
    BY <2>2, FS_Interval
  <2>5. Cardinality((1 + o)..(e + o)) = Cardinality(1..e)
    BY <2>3, <2>4
  <2> QED
    BY <2>1, <2>2, <2>3, <2>4, <2>5
<1>2. Dims = {1, 2, 3}
  BY DEF Dims
<1>3. /\ IsFiniteSet(Own(r))
      /\ Cardinality(Own(r)) =
           Cardinality(OwnIn(r, 1)) * Cardinality(OwnIn(r, 2)) * Cardinality(OwnIn(r, 3))
  <2>1. IsFiniteSet(OwnIn(r, 1)) /\ IsFiniteSet(OwnIn(r, 2)) /\ IsFiniteSet(OwnIn(r, 3))
    BY <1>1, <1>2
  <2> QED
    BY <2>1, CountTriples, SMTT(20) DEF Own
<1>4. Cardinality(Interior(nd, r)) =
        Cardinality(1..(Extent(nd, r, 1) - 2)) * Cardinality(1..(Extent(nd, r, 2) - 2))
          * Cardinality(1..(Extent(nd, r, 3) - 2))
  <2>1. PICK A, B, C : /\ A = 1..(Extent(nd, r, 1) - 2) /\ B = 1..(Extent(nd, r, 2) - 2)
                       /\ C = 1..(Extent(nd, r, 3) - 2)
    OBVIOUS
  <2>2. IsFiniteSet(A) /\ IsFiniteSet(B) /\ IsFiniteSet(C)
    BY <1>1, <1>2, <2>1
  <2>3. Cardinality(A \X B \X C) = Cardinality(A) * Cardinality(B) * Cardinality(C)
    BY <2>2, CountTriples
  <2>4. Interior(nd, r) = A \X B \X C
    BY <2>1 DEF Interior
  <2> QED
    BY <2>1, <2>3, <2>4
<1>5. Cardinality(Interior(nd, r)) = Cardinality(Own(r))
  <2>1. /\ Cardinality(OwnIn(r, 1)) = Cardinality(1..(Extent(nd, r, 1) - 2))
        /\ Cardinality(OwnIn(r, 2)) = Cardinality(1..(Extent(nd, r, 2) - 2))
        /\ Cardinality(OwnIn(r, 3)) = Cardinality(1..(Extent(nd, r, 3) - 2))
    BY <1>1, <1>2
  <2> QED
    BY <1>3, <1>4, <2>1
<1> QED
  BY <1>3, <1>5, FS_CardinalityType

\* The size of the inner grid.
InnerPoints == (Size[1] - 2) * (Size[2] - 2) * (Size[3] - 2)

\* The number of inner points of the whole grid.
LEMMA CountInner ==
  /\ IsFiniteSet(InnerGrid) /\ Cardinality(InnerGrid) = InnerPoints
  /\ InnerPoints \in Nat
<1>1. \A d \in Dims : Size[d] - 2 \in Nat \ {0}
  BY PartitionAssumption DEF Size
<1>2. \A d \in Dims : /\ IsFiniteSet(1..(Size[d] - 2))
                      /\ Cardinality(1..(Size[d] - 2)) = Size[d] - 2
  <2> TAKE d \in Dims
  <2>1. PICK e \in Nat \ {0} : e = Size[d] - 2
    BY <1>1
  <2>2. IsFiniteSet(1..e) /\ Cardinality(1..e) = IF 1 > e THEN 0 ELSE e - 1 + 1
    BY FS_Interval
  <2>3. Cardinality(1..e) = e
    BY <2>2
  <2> QED
    BY <2>1, <2>2, <2>3
<1>3. Dims = {1, 2, 3}
  BY DEF Dims
<1>4. /\ IsFiniteSet(InnerGrid)
      /\ Cardinality(InnerGrid) = Cardinality(1..(Size[1] - 2)) * Cardinality(1..(Size[2] - 2))
                                    * Cardinality(1..(Size[3] - 2))
  <2>1. PICK A, B, C : A = 1..(Size[1] - 2) /\ B = 1..(Size[2] - 2) /\ C = 1..(Size[3] - 2)
    OBVIOUS
  <2>2. IsFiniteSet(A) /\ IsFiniteSet(B) /\ IsFiniteSet(C)
    BY <1>2, <1>3, <2>1
  <2>3. /\ IsFiniteSet(A \X B \X C)
        /\ Cardinality(A \X B \X C) = Cardinality(A) * Cardinality(B) * Cardinality(C)
    BY <2>2, CountTriples
  <2>4. InnerGrid = A \X B \X C
    BY <2>1 DEF InnerGrid
  <2> QED
    BY <2>1, <2>3, <2>4
<1>5. Cardinality(InnerGrid) = InnerPoints
  BY <1>2, <1>3, <1>4 DEF InnerPoints
<1> QED
  BY <1>4, <1>5, FS_CardinalityType

\* The points of the first k ranks.
FirstOwn(k) == {g \in InnerGrid : \E r \in Ranks : r < k /\ g \in Own(r)}

\* The points of the first ranks add up to those of the grid.
LEMMA CountFirst ==
  ASSUME Shapes, Fit
  PROVE  /\ Cardinality(FirstOwn(0)) = 0
         /\ \A r \in Ranks :
              Cardinality(FirstOwn(r + 1)) = Cardinality(FirstOwn(r)) + Cardinality(Own(r))
         /\ FirstOwn(NumRanks(nd)) = InnerGrid
<1>0. Ranks \subseteq Nat /\ NumRanks(nd) \in Int
  <2>1. nd \in [Dims -> Nat \ {0}]
    BY Basics
  <2>2. PICK a \in Nat, b \in Nat, c \in Nat : a = nd[1] /\ b = nd[2] /\ c = nd[3]
    BY <2>1 DEF Dims
  <2>3. a * b * c \in Int
    BY Z3
  <2> QED
    BY <2>2, <2>3, Basics DEF NumRanks
<1>1. FirstOwn(0) = {}
  BY <1>0 DEF FirstOwn
<1>2. ASSUME NEW r \in Ranks
      PROVE  Cardinality(FirstOwn(r + 1)) = Cardinality(FirstOwn(r)) + Cardinality(Own(r))
  <2>1. \A q \in Ranks : q < r + 1 <=> q < r \/ q = r
    BY <1>0
  <2>2. Own(r) \subseteq InnerGrid
    BY OwnCovers
  <2>3. FirstOwn(r + 1) = FirstOwn(r) \cup Own(r)
    BY <2>1, <2>2 DEF FirstOwn
  <2>4. FirstOwn(r) \cap Own(r) = {}
    <3> SUFFICES ASSUME NEW g \in FirstOwn(r), g \in Own(r) PROVE FALSE
      OBVIOUS
    <3>1. PICK q \in Ranks : q < r /\ g \in Own(q)
      BY DEF FirstOwn
    <3>2. q = r
      BY <3>1, OwnDisjoint
    <3> QED
      BY <1>0, <3>1, <3>2
  <2>5. IsFiniteSet(FirstOwn(r)) /\ IsFiniteSet(Own(r))
    <3>1. FirstOwn(r) \in SUBSET InnerGrid
      BY DEF FirstOwn
    <3> QED
      BY <3>1, CountInner, CountOwn, FS_Subset
  <2>6. Cardinality(FirstOwn(r) \cup Own(r)) =
          Cardinality(FirstOwn(r)) + Cardinality(Own(r)) - Cardinality(FirstOwn(r) \cap Own(r))
    BY <2>5, FS_Union
  <2>7. Cardinality(FirstOwn(r) \cap Own(r)) = 0
    BY <2>4, FS_EmptySet
  <2>8. Cardinality(FirstOwn(r)) \in Nat /\ Cardinality(Own(r)) \in Nat
    BY <2>5, FS_CardinalityType
  <2>9. PICK x \in Nat, y \in Nat : x = Cardinality(FirstOwn(r)) /\ y = Cardinality(Own(r))
    BY <2>8
  <2>10. Cardinality(FirstOwn(r) \cup Own(r)) = x + y - 0
    BY <2>6, <2>7, <2>9
  <2>11. x + y - 0 = x + y
    OBVIOUS
  <2> QED
    BY <2>3, <2>9, <2>10, <2>11
<1>3. FirstOwn(NumRanks(nd)) = InnerGrid
  <2>1. \A r \in Ranks : r < NumRanks(nd)
    BY <1>0 DEF Ranks
  <2> QED
    BY <2>1, OwnCovers DEF FirstOwn
<1> QED
  BY <1>1, <1>2, <1>3, FS_EmptySet

\* The sum over the ranks of the cells each has computed.
LEMMA SumIs ==
  ASSUME Shapes, Fit, NEW f, \A r \in Ranks : f[r] = Cardinality(Own(r))
  PROVE  SumOf(f) = InnerPoints
<1>1. PICK N \in Nat \ {0} : N = NumRanks(nd) /\ Ranks = 0..(N - 1)
  <2>1. nd \in [Dims -> Nat \ {0}] /\ 0 \in Ranks
    BY Basics
  <2>2. PICK a \in Nat, b \in Nat, c \in Nat : a = nd[1] /\ b = nd[2] /\ c = nd[3]
    BY <2>1 DEF Dims
  <2>3. a * b * c \in Nat
    BY Z3
  <2>4. NumRanks(nd) \in Nat /\ 0 \in 0..(NumRanks(nd) - 1)
    BY <2>1, <2>2, <2>3 DEF NumRanks, Ranks
  <2>5. NumRanks(nd) \in Nat \ {0}
    BY <2>4
  <2> QED
    BY <2>5 DEF Ranks
<1> DEFINE Law(h) == h = [r \in -1..(N - 1) |-> IF r = -1 THEN 0 ELSE h[r - 1] + f[r]]
           Upto(r) == Cardinality(FirstOwn(r + 1))
           g == [r \in -1..(N - 1) |-> Upto(r)]
<1>2. Upto(-1) = 0 /\ \A r \in 0..(N - 1) : Upto(r) = Upto(r - 1) + f[r]
  <2>1. -1 + 1 = 0 /\ \A r \in 0..(N - 1) : (r - 1) + 1 = r
    OBVIOUS
  <2>2. Upto(-1) = 0
    BY <2>1, CountFirst
  <2>3. ASSUME NEW r \in 0..(N - 1) PROVE Upto(r) = Upto(r - 1) + f[r]
    <3>1. r \in Ranks
      BY <1>1
    <3>2. Cardinality(FirstOwn(r + 1)) = Cardinality(FirstOwn(r)) + f[r]
      BY <3>1, CountFirst
    <3>3. FirstOwn((r - 1) + 1) = FirstOwn(r)
      BY <2>1
    <3> QED
      BY <3>2, <3>3
  <2> QED
    BY <2>2, <2>3
<1>3. Upto(N - 1) = InnerPoints
  <2>1. (N - 1) + 1 = N
    OBVIOUS
  <2>2. FirstOwn((N - 1) + 1) = InnerGrid
    BY <1>1, <2>1, CountFirst
  <2> QED
    BY <2>2, CountInner
<1>4. Law(g)
  <2>1. /\ \A r \in -1..(N - 1) : g[r] = Upto(r) /\ (r = -1 \/ r \in 0..(N - 1))
        /\ \A r \in 0..(N - 1) : r - 1 \in -1..(N - 1) /\ r \in -1..(N - 1) /\ r # -1
    OBVIOUS
  <2>2. g = [r \in -1..(N - 1) |-> g[r]]
    OBVIOUS
  <2> HIDE DEF g, Upto
  <2>3. \A r \in -1..(N - 1) : g[r] = IF r = -1 THEN 0 ELSE g[r - 1] + f[r]
    BY <1>2, <2>1
  <2> QED
    BY <2>2, <2>3
<1>5. SumOf(f) = (CHOOSE h : Law(h))[N - 1]
  BY <1>1 DEF SumOf
<1>6. PICK h : h = (CHOOSE x : Law(x)) /\ Law(h)
  <2> HIDE DEF Law, g
  <2> QED
    BY <1>4
<1> DEFINE T == {r \in 0..N : h[r - 1] # Upto(r - 1)}
<1>7. T = {}
  <2> SUFFICES ASSUME T # {} PROVE FALSE
    OBVIOUS
  <2>1. T \in SUBSET Nat /\ \A i \in 0..N : i \notin T => h[i - 1] = Upto(i - 1)
    OBVIOUS
  <2>2. PICK i \in T : \A j \in T : i <= j
    <3> HIDE DEF T
    <3> QED
      BY <2>1, LeastNat
  <2>3. i \in 0..N /\ h[i - 1] # Upto(i - 1)
    OBVIOUS
  <2> HIDE DEF Upto
  <2>4. i # 0
    <3> SUFFICES ASSUME i = 0 PROVE FALSE
      OBVIOUS
    <3>1. i - 1 = -1 /\ -1 \in -1..(N - 1)
      OBVIOUS
    <3>2. h[-1] = 0
      BY <1>6, <3>1
    <3> QED
      BY <1>2, <2>3, <3>1, <3>2
  <2>5. PICK r \in 0..(N - 1) : r = i - 1
    BY <2>3, <2>4
  <2>6. r \in 0..N /\ ~(i <= r) /\ r \in -1..(N - 1) /\ r # -1
    BY <2>3, <2>5
  <2>7. h[r - 1] = Upto(r - 1)
    BY <2>1, <2>2, <2>6
  <2>8. h[r] = h[r - 1] + f[r]
    BY <1>6, <2>6
  <2>9. Upto(r) = Upto(r - 1) + f[r]
    BY <1>2
  <2> QED
    BY <2>3, <2>5, <2>7, <2>8, <2>9
<1>8. h[N - 1] = Upto(N - 1)
  BY <1>7
<1> QED
  BY <1>3, <1>5, <1>6, <1>8

-----------------------------------------------------------------------------
(* What the ranks give to the collective calls, and what comes of it. *)

CountInv ==
  /\ result \in Nat
  /\ \A r \in Ranks :
       /\ pc[r] = "barrier" => part[r] = 0
       /\ pc[r] = "gosa" => part[r] = Cardinality(Interior(nd, r))
       /\ pc[r] = "gosa" /\ Complete(r) => result = InnerPoints

\* A step that is not the begin of a call.
LEMMA QuietCount ==
  ASSUME CountInv, UNCHANGED <<nd, CT, entered, part, result>>,
         \A q \in Ranks : pc'[q] \in {"barrier", "gosa"} => pc'[q] = pc[q]
  PROVE  CountInv'
<1>1. nd' = nd /\ Ranks' = Ranks
  BY Fixed
<1>2. \A q \in Ranks : Complete(q)' <=> Complete(q)
  BY <1>1 DEF Complete
<1> QED
  BY <1>1, <1>2 DEF CountInv

\* Entering a collective call adds the rank's part to it.
LEMMA BeginCount ==
  ASSUME IInv, Fit, CountInv, NEW r \in Ranks, NEW l, NEW op, NEW v \in Nat,
         \/ pc[r] = "start" /\ l = "barrier" /\ op = "max" /\ v = 0
         \/ pc[r] = "reduce" /\ l = "gosa" /\ op = "sum" /\ v = Cardinality(Interior(nd, r))
         \/ pc[r] = "timing" /\ l = "agree" /\ op = "max",
         UNCHANGED <<nd, CT>>, pc' = [pc EXCEPT ![r] = l], Begin(r, v, op)
  PROVE  CountInv'
<1>0. CallInv /\ Shapes /\ Counters
  BY DEF IInv, CallInv
<1>1. nd' = nd /\ Ranks' = Ranks
  BY Fixed
<1>2. /\ entered \in [Ranks -> Nat] /\ entered'[r] = entered[r] + 1 /\ part'[r] = v
      /\ pc'[r] = l
      /\ \A q \in Ranks : q # r =>
           entered'[q] = entered[q] /\ part'[q] = part[q] /\ pc'[q] = pc[q]
  BY <1>0 DEF Begin, Shapes
<1>3. ~Waiting(r)
  BY DEF Waiting
<1>4. \A q \in Ranks : /\ pc'[q] = "barrier" => part'[q] = 0
                       /\ pc'[q] = "gosa" => part'[q] = Cardinality(Interior(nd, q))
  BY <1>2 DEF CountInv
<1>5. CASE ~\A q \in Ranks \ {r} : entered[q] > entered[r]
  <2>1. result' = result
    BY <1>5 DEF Begin
  <2>2. ASSUME NEW x \in Ranks, pc'[x] = "gosa", Complete(x)' PROVE result = InnerPoints
    <3>1. \A q \in Ranks : entered'[q] >= entered'[x]
      BY <1>1, <2>2 DEF Complete
    <3>2. x # r
      BY <1>2, <1>5, <3>1
    <3>3. Complete(x)
      BY <1>2, <1>5, <3>1, <3>2 DEF Complete
    <3> QED
      BY <1>2, <2>2, <3>2, <3>3 DEF CountInv
  <2> QED
    BY <1>1, <1>4, <2>1, <2>2 DEF CountInv
<1>6. CASE \A q \in Ranks \ {r} : entered[q] > entered[r]
  <2>1. \A q \in Ranks \ {r} : Waiting(q) /\ KindOf(pc[q]) = KindOf(pc[r])
    BY <1>0, <1>3, <1>6, LastToBegin
  <2>2. PICK f : f = part'
    OBVIOUS
  <2>3. CASE op = "sum"
    <3>1. pc[r] = "reduce" /\ l = "gosa"
      BY <2>3
    <3>2. \A q \in Ranks \ {r} : pc[q] = "gosa"
      BY <2>1, <3>1 DEF Waiting, KindOf
    <3>3. \A q \in Ranks : pc'[q] = "gosa"
      BY <1>2, <3>1, <3>2
    <3>4. \A q \in Ranks : f[q] = Cardinality(Own(q))
      BY <1>0, <1>4, <2>2, <3>3, CountOwn
    <3>5. SumOf(f) = InnerPoints
      BY <1>0, <3>4, SumIs
    <3>6. result' = SumOf(f)
      BY <1>6, <2>2, <2>3 DEF Begin
    <3>7. result' = InnerPoints /\ InnerPoints \in Nat
      BY <3>5, <3>6, CountInner
    <3> QED
      BY <1>1, <1>4, <3>7 DEF CountInv
  <2>4. CASE op = "max"
    <3>1. \A q \in Ranks : pc'[q] # "gosa"
      BY <1>2, <2>1, <2>4 DEF Waiting, KindOf
    <3>2. \A q \in Ranks : f[q] \in Nat
      <4>1. \A q \in Ranks \ {r} : pc[q] \in {"barrier", "agree"}
        BY <2>1, <2>4 DEF Waiting, KindOf
      <4>2. \A q \in Ranks \ {r} : part[q] \in Nat
        BY <1>0, <4>1, Basics DEF CountInv, Counters
      <4> QED
        BY <1>2, <2>2, <4>2
    <3>3. PICK m \in Ranks : MaxOf({f[q] : q \in Ranks}) = f[m]
      BY <1>0, <3>2, Slowest
    <3>4. result' = MaxOf({f[q] : q \in Ranks})
      BY <1>6, <2>2, <2>4 DEF Begin
    <3>5. result' \in Nat
      BY <3>2, <3>3, <3>4
    <3> QED
      BY <1>1, <1>4, <3>1, <3>5 DEF CountInv
  <2> QED
    BY <2>3, <2>4
<1> QED
  BY <1>5, <1>6

\* Every step of a rank keeps CountInv.
LEMMA StepCount ==
  ASSUME IInv, Fit, CountInv, NEW r \in Ranks, Step(r)
  PROVE  CountInv'
<1>0. Shapes
  BY DEF IInv, CallInv
<1>1. ASSUME Barrier(r) PROVE CountInv'
  <2>1. UNCHANGED <<nd, CT>> /\ pc[r] = "start" /\ pc' = [pc EXCEPT ![r] = "barrier"] /\ Begin(r, 0, "max")
    BY <1>1 DEF Barrier, GoTo, fixed
  <2> QED
    BY <2>1, BeginCount
<1>2. ASSUME Reduce(r) PROVE CountInv'
  <2>1. /\ UNCHANGED <<nd, CT>> /\ pc[r] = "reduce" /\ pc' = [pc EXCEPT ![r] = "gosa"]
        /\ Begin(r, Cardinality(Interior(nd, r)), "sum")
    BY <1>2 DEF Reduce, GoTo, fixed
  <2>2. PICK v \in Nat : v = Cardinality(Interior(nd, r))
    BY <1>0, CountOwn
  <2> QED
    BY <2>1, <2>2, BeginCount
<1>3. ASSUME Timing(r) PROVE CountInv'
  <2>1. PICK cpu1 \in Times : /\ UNCHANGED <<nd, CT>> /\ pc[r] = "timing"
                              /\ pc' = [pc EXCEPT ![r] = "agree"] /\ Begin(r, cpu1, "max")
    BY <1>3 DEF Timing, GoTo, fixed
  <2>2. cpu1 \in Nat
    BY <1>0, Basics
  <2> QED
    BY <2>1, <2>2, BeginCount
<1>4. ASSUME UNCHANGED <<nd, CT, entered, part, result>>, NEW l, l \notin {"barrier", "gosa"},
             pc' = [pc EXCEPT ![r] = l]
      PROVE  CountInv'
  <2>1. \A q \in Ranks : pc'[q] \in {"barrier", "gosa"} => pc'[q] = pc[q]
    BY <1>0, <1>4 DEF Shapes
  <2> QED
    BY <1>4, <2>1, QuietCount
<1>5. ASSUME LeaveBarrier(r) \/ LeaveReduce(r) \/ Sweep(r) PROVE CountInv'
  <2>1. /\ UNCHANGED <<nd, CT, entered, part, result>>
        /\ \E l \in {"sweep", "timing", "reduce", "post"} : pc' = [pc EXCEPT ![r] = l]
    BY <1>5 DEF LeaveBarrier, LeaveReduce, Sweep, GoTo, fixed, calls
  <2> QED
    BY <1>4, <2>1
<1>6. ASSUME PostSizes(r) \/ Post(r) \/ LeaveTiming(r) PROVE CountInv'
  <2>1. /\ UNCHANGED <<nd, CT, entered, part, result>>
        /\ \E l \in {"sizes", "wait", "start", "end"} : pc' = [pc EXCEPT ![r] = l]
    BY <1>6 DEF PostSizes, Post, LeaveTiming, GoTo, fixed, calls
  <2> QED
    BY <1>4, <2>1
<1>7. ASSUME NEW side \in Sides, ArriveSize(r, side) PROVE CountInv'
  <2>1. /\ UNCHANGED <<nd, CT, entered, part, result>>
        /\ \E l \in {"layers", "sizes"} : pc' = [pc EXCEPT ![r] = l]
    BY <1>7 DEF ArriveSize, GoTo, fixed, calls
  <2> QED
    BY <1>4, <2>1
<1>8. ASSUME NEW side \in Sides, Arrive(r, side) PROVE CountInv'
  <2>1. UNCHANGED <<nd, CT, entered, part, result>>
    BY <1>8 DEF Arrive, fixed, calls
  <2>2. pc' = pc \/ \E l \in {"reduce", "post"} : pc' = [pc EXCEPT ![r] = l]
    BY <1>8 DEF Arrive, GoTo
  <2>3. CASE pc' = pc
    <3>1. \A q \in Ranks : pc'[q] \in {"barrier", "gosa"} => pc'[q] = pc[q]
      BY <2>3
    <3> QED
      BY <2>1, <3>1, QuietCount
  <2> QED
    BY <1>4, <2>1, <2>2, <2>3
<1> QED
  BY <1>1, <1>2, <1>3, <1>5, <1>6, <1>7, <1>8 DEF Step

\* Before the first call nothing has been given.
LEMMA InitCount == Init => CountInv
BY DEF Init, CountInv

\* Every step of the program keeps CountInv.
LEMMA NextCount ==
  ASSUME WellCut, IInv, CountInv, [Next]_vars
  PROVE  CountInv'
<1>0. Shapes /\ Fit
  BY Fits DEF IInv, CallInv
<1>1. ASSUME NEW r \in Ranks, Step(r) PROVE CountInv'
  BY <1>0, <1>1, StepCount
<1>2. ASSUME UNCHANGED vars PROVE CountInv'
  <2>1. UNCHANGED <<nd, CT, entered, part, result>> /\ pc' = pc
    BY <1>2 DEF vars, fixed, calls
  <2>2. \A q \in Ranks : pc'[q] \in {"barrier", "gosa"} => pc'[q] = pc[q]
    BY <2>1
  <2> QED
    BY <2>1, <2>2, QuietCount
<1> QED
  BY <1>1, <1>2 DEF Next, Terminated

\* The gosa that jacobi() leaves with is summed over every point of the inner grid
\* once: whatever the decomposition, initmax gives each of them to one rank and
\* none to two, and MPI_Allreduce mixes no two sweeps.
THEOREM GosaCounts ==
  ASSUME WellCut
  PROVE  Spec => []GosaCountsEachPoint
<1>1. CountInv => GosaCountsEachPoint
  BY DEF CountInv, GosaCountsEachPoint, InnerPoints
<1>2. IInv /\ CountInv /\ [Next]_vars => CountInv'
  BY NextCount
<1> QED
  BY <1>1, <1>2, InitCount, Invariance, PTL DEF Spec

\* Every variable keeps its type: the arrays of initmt never get cells that are no
\* values of points of the grid, and jacobi() makes no more than nn sweeps.
THEOREM TypeCorrect ==
  ASSUME WellCut
  PROVE  Spec => []TypeOK
<1>1. IInv /\ CellInv /\ CountInv => TypeOK
  <2> SUFFICES ASSUME IInv, CellInv, CountInv PROVE TypeOK
    OBVIOUS
  <2>0. Shapes /\ Counters /\ CellsInv
    BY DEF IInv, CallInv, CellInv
  <2>1. [nd |-> nd, CT |-> CT] \in Programs /\ result \in Nat
    BY <2>0 DEF Shapes, CountInv
  <2>2. pc \in [Ranks -> {"start", "barrier", "sweep", "post", "sizes", "layers",
                          "wait", "reduce", "gosa", "timing", "agree", "end"}]
    BY <2>0 DEF Shapes, Label
  <2>3. ASSUME NEW r \in Ranks
        PROVE  /\ DOMAIN p[r] = Local(nd, r)
               /\ \A c \in Local(nd, r) :
                    p[r][c].sweep \in Nat \cup {-1} /\ DOMAIN p[r][c].point = Dims
    <3>1. /\ p[r] = [c \in Local(nd, r) |-> p[r][c]]
          /\ \A c \in Local(nd, r) : Cell(p[r][c])
      BY <2>0 DEF CellsInv
    <3>2. DOMAIN p[r] = Local(nd, r)
      BY <3>1
    <3> QED
      BY <3>1, <3>2 DEF Cell
  <2>4. ASSUME NEW r \in Ranks
        PROVE  /\ nn[r] \in Nat /\ n[r] \in 0..nn[r]
               /\ dim[r] \in 0..3 /\ pending[r] \subseteq Sides /\ entered[r] \in Nat
    BY <2>0 DEF Shapes, Counters
  <2>5. ASSUME NEW r \in Ranks PROVE DOMAIN told[r] = Sides
    <3>1. told[r] = [s \in Sides |-> told[r][s]]
      BY <2>0 DEF Shapes
    <3> QED
      BY <3>1
  <2> QED
    BY <2>1, <2>2, <2>3, <2>4, <2>5 DEF TypeOK
<1>2. IInv /\ CellInv /\ [Next]_vars => CellInv'
  BY NextCells
<1>3. IInv /\ CountInv /\ [Next]_vars => CountInv'
  BY NextCount
<1> QED
  BY <1>1, <1>2, <1>3, InitCells, InitCount, Invariance, PTL DEF Spec
=============================================================================
