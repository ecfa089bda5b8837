-------------------------------- MODULE Himeno --------------------------------
(***************************************************************************)
(* The Himeno benchmark (src/app/src/himeno/himenoBMTxps.c): Jacobi sweeps *)
(* over a grid cut among the ranks, with the layers along the cuts         *)
(* exchanged after every sweep.  After a first jacobi() of Rehearsal       *)
(* sweeps the ranks agree on the slowest time and derive from it the       *)
(* number of sweeps of the second.                                         *)
(*                                                                         *)
(* himenoBMTxps_comp.c is the same program, with the number of sweeps of   *)
(* the second jacobi() fixed and the layers compressed as its argument CT  *)
(* says: the size of every layer goes before it.  CT = 0 stands for        *)
(* himenoBMTxps.c here.                                                    *)
(*                                                                         *)
(* The value of a cell is named by the point of the grid it belongs to and *)
(* the sweep it was computed in; what compression does to a value within   *)
(* the error bound is the matter of module Codec.                          *)
(***************************************************************************)
EXTENDS Partition, Sequences

CONSTANTS
  Programs,     \* the programs run: decomposition <<ndx, ndy, ndz>> and CT
  Rehearsal,    \* nn of the first jacobi(): 3 in the program
  Times,        \* what the clock may say of the first jacobi()
  Target,       \* time the second one is to take
  Simgrid       \* nn of the second jacobi() of himenoBMTxps_comp.c: 12

ASSUME HimenoAssumption ==
  /\ Programs \subseteq [nd : [Dims -> Nat \ {0}], CT : {0, 1, 4, 5, 6, 7}]
  /\ Rehearsal \in Nat \ {0}
  /\ Times \subseteq Nat \ {0}
  /\ Target \in Nat
  /\ Simgrid \in Nat

VARIABLES
  nd, CT,    \* <<ndx, ndy, ndz>> and the method of compression (fixed)
  p,         \* p[r]: the pressure array of rank r
  n,         \* n[r]: sweeps r has made in the current jacobi()
  nn,        \* nn[r]: sweeps it is to make
  before,    \* before[r]: sweeps of the jacobi() before
  pc,        \* pc[r]: where r is
  dim,       \* dim[r]: the dimension r exchanges layers of
  pending,   \* pending[r]: sides a layer is still to be received from
  mail,      \* mail[r][d][side]: layers sent to r from that side
  sizes,     \* sizes[r][d][side]: sizes of layers, each as the layer it is of
  told,      \* told[r][side]: data_bytes_recv, likewise
  entered,   \* entered[r]: collective calls r has begun
  part,      \* part[r]: what it gave to the last of them
  result     \* result of the last one all ranks have begun

fixed == <<nd, CT>>
calls == <<entered, part, result>>
sizevars == <<sizes, told>>
vars == <<fixed, p, n, nn, before, pc, dim, pending, mail, sizevars, calls>>

Ranks == 0..(NumRanks(nd) - 1)
Sides == {0, 1}

GoTo(r, l) == pc' = [pc EXCEPT ![r] = l]

\* The value of a point after s sweeps; the edge of the grid is never computed.
ValueAt(g, s) == [point |-> g, sweep |-> IF OnEdge(g) THEN 0 ELSE s]

\* Any other value.
Other(g) == [point |-> g, sweep |-> -1]

Sweeps(r) == before[r] + n[r]

Init ==
  /\ \E x \in Programs : nd = x.nd /\ CT = x.CT
  /\ p = [r \in Ranks |-> [c \in Local(nd, r) |-> ValueAt(Global(nd, r)[c], 0)]]
  /\ n = [r \in Ranks |-> 0]
  /\ nn = [r \in Ranks |-> Rehearsal]
  /\ before = [r \in Ranks |-> 0]
  /\ pc = [r \in Ranks |-> "start"]
  /\ dim = [r \in Ranks |-> 3]
  /\ pending = [r \in Ranks |-> {}]
  /\ mail = [r \in Ranks |-> [d \in Dims |-> [s \in Sides |-> <<>>]]]
  /\ sizes = [r \in Ranks |-> [d \in Dims |-> [s \in Sides |-> <<>>]]]
  /\ told = [r \in Ranks |-> [s \in Sides |-> <<>>]]
  /\ entered = [r \in Ranks |-> 0]
  /\ part = [r \in Ranks |-> 0]
  /\ result = 0

-----------------------------------------------------------------------------
(* Collective calls. *)

MaxOf(S) == CHOOSE x \in S : \A y \in S : y <= x

\* Sum of f over the ranks.
SumOf(f) ==
  LET sum[r \in -1..(NumRanks(nd) - 1)] == IF r = -1 THEN 0 ELSE sum[r - 1] + f[r]
  IN  sum[NumRanks(nd) - 1]

\* MPI_Allreduce and MPI_Barrier: rank r begins the call with value v and the
\* last one to do so settles the result.
Begin(r, v, op) ==
  /\ entered' = [entered EXCEPT ![r] = @ + 1]
  /\ part' = [part EXCEPT ![r] = v]
  /\ result' =
       IF \A q \in Ranks \ {r} : entered[q] > entered[r]
       THEN IF op = "sum" THEN SumOf(part') ELSE MaxOf({part'[q] : q \in Ranks})
       ELSE result

\* The call of r returns.
Complete(r) == \A q \in Ranks : entered[q] >= entered[r]

\* Mutated form of MoreSweeps: one sweep too many.
OneMoreSweep(r) == n[r] <= nn[r]

\* the loop condition of jacobi()
MoreSweeps(r) == n[r] < nn[r]

\* MPI_Barrier before a jacobi()
Barrier(r) ==
  /\ pc[r] = "start"
  /\ Begin(r, 0, "max")
  /\ GoTo(r, "barrier")
  /\ UNCHANGED <<fixed, p, n, nn, before, dim, pending, mail, sizevars>>

LeaveBarrier(r) ==
  /\ pc[r] = "barrier"
  /\ Complete(r)
  /\ GoTo(r, IF MoreSweeps(r) THEN "sweep" ELSE "timing")
  /\ UNCHANGED <<fixed, p, n, nn, before, dim, pending, mail, sizevars, calls>>

-----------------------------------------------------------------------------
(* One iteration of jacobi(). *)

\* The cells s0 is computed from: the cell and those that differ in one or two
\* dimensions by one.
Stencil(c) ==
  LET near(d) == (c[d] - 1)..(c[d] + 1)
  IN  {x \in near(1) \X near(2) \X near(3) : \E d \in Dims : x[d] = c[d]}

\* First dimension from d down that is cut, 0 when there is none.
CutFrom(d) == IF \E e \in 1..d : nd[e] > 1
              THEN MaxOf({e \in 1..d : nd[e] > 1}) ELSE 0

\* wrk2 is computed from p and replaces its interior.  A cell is worth the next
\* sweep only if all it is computed from is of this one.  wgosa counts the cells.
Sweep(r) ==
  /\ pc[r] = "sweep"
  /\ n' = [n EXCEPT ![r] = @ + 1]
  /\ dim' = [dim EXCEPT ![r] = CutFrom(3)]
  /\ GoTo(r, IF CutFrom(3) = 0 THEN "reduce" ELSE "post")
  /\ LET s == Sweeps(r)
         g == Global(nd, r)
         current == {c \in Local(nd, r) : p[r][c] = ValueAt(g[c], s)}
         interior == Interior(nd, r)
     IN  p' = [p EXCEPT ![r] =
                [c \in Local(nd, r) |->
                   IF c \notin interior THEN p[r][c]
                   ELSE IF Stencil(c) \subseteq current THEN ValueAt(g[c], s + 1)
                        ELSE Other(g[c])]]
  /\ UNCHANGED <<fixed, nn, before, pending, mail, sizevars, calls>>

\* Mutated form of SentLayer: the outermost layers are sent.
OutermostLayer(r, d, side) == IF side = 0 THEN 0 ELSE Extent(nd, r, d) - 1

\* The layer sent to the neighbour on a side, and the one received from it.
SentLayer(r, d, side) == IF side = 0 THEN 1 ELSE Extent(nd, r, d) - 2

RecvLayer(r, d, side) == IF side = 0 THEN 0 ELSE Extent(nd, r, d) - 1

\* The cells of a layer a message carries: transform_3d_array_to_1d_array takes
\* them all, the vector types those of module Partition.
Carried(r, d, l) ==
  IF CT = 0 THEN Layer(nd, r, d, l) ELSE {c \in Local(nd, r) : c[d] = l}

Flat(c, d) == [c EXCEPT ![d] = 0]

Cut(r, d, side) ==
  [f \in {Flat(c, d) : c \in Carried(r, d, SentLayer(r, d, side))} |->
     p[r][[f EXCEPT ![d] = SentLayer(r, d, side)]]]

Near(r, d) == {s \in Sides : Neighbour(nd, r, d, s) # ProcNull}

\* the messages under way in box after r has sent one to each neighbour
SentBy(r, d, box) ==
  [q \in Ranks |->
     IF \E s \in Near(r, d) : q = Neighbour(nd, r, d, s)
     THEN LET s == CHOOSE s \in Near(r, d) : q = Neighbour(nd, r, d, s)
          IN  [box[q] EXCEPT ![d][1 - s] = Append(@, Cut(r, d, s))]
     ELSE box[q]]

\* With compression the sizes of the layers are exchanged first.
PostSizes(r) ==
  /\ pc[r] = "post"
  /\ CT # 0
  /\ GoTo(r, "sizes")
  /\ pending' = [pending EXCEPT ![r] = Near(r, dim[r])]
  /\ sizes' = SentBy(r, dim[r], sizes)
  /\ UNCHANGED <<fixed, p, n, nn, before, dim, mail, told, calls>>

\* sendp3, sendp2, sendp1: both receives and both sends are started.
Post(r) ==
  /\ pc[r] = IF CT = 0 THEN "post" ELSE "layers"
  /\ GoTo(r, "wait")
  /\ pending' = [pending EXCEPT ![r] = Near(r, dim[r])]
  /\ mail' = SentBy(r, dim[r], mail)
  /\ UNCHANGED <<fixed, p, n, nn, before, dim, sizevars, calls>>

\* Mutated form of LastArrival: one receive is enough (MPI_Waitany).
AnyArrival(r, side) == TRUE

\* MPI_Waitall returns with the receive from this side.
LastArrival(r, side) == pending[r] = {side}

ArriveSize(r, side) ==
  /\ pc[r] = "sizes"
  /\ side \in pending[r]
  /\ sizes[r][dim[r]][side] # <<>>
  /\ told' = [told EXCEPT ![r][side] = Head(sizes[r][dim[r]][side])]
  /\ sizes' = [sizes EXCEPT ![r][dim[r]][side] = Tail(@)]
  /\ pending' = [pending EXCEPT ![r] = @ \ {side}]
  /\ GoTo(r, IF LastArrival(r, side) THEN "layers" ELSE "sizes")
  /\ UNCHANGED <<fixed, p, n, nn, before, dim, mail, calls>>

\* With compression both layers are written after the exchange.  Where there
\* is no neighbour, nothing has arrived: memory no one has written to takes the
\* place of the edge of the grid.
Unwritten(r, side) ==
  IF CT # 0 /\ LastArrival(r, side)
  THEN UNION {Carried(r, dim[r], RecvLayer(r, dim[r], s)) :
                s \in Sides \ Near(r, dim[r])}
  ELSE {}

\* A receive completes; after the last one MPI_Waitall returns and the next
\* dimension follows.
Arrive(r, side) ==
  /\ pc[r] = "wait"
  /\ side \in pending[r]
  /\ pending' = [pending EXCEPT ![r] = @ \ {side}]
  /\ LET d == dim[r]
         layer == Carried(r, d, RecvLayer(r, d, side))
         unwritten == Unwritten(r, side)
     IN  /\ mail[r][d][side] # <<>>
         /\ p' = [p EXCEPT ![r] =
                    [c \in Local(nd, r) |->
                       IF c \in layer THEN Head(mail[r][d][side])[Flat(c, d)]
                       ELSE IF c \in unwritten THEN Other(Global(nd, r)[c])
                       ELSE p[r][c]]]
         /\ mail' = [mail EXCEPT ![r][d][side] = Tail(@)]
         /\ IF LastArrival(r, side)
            THEN /\ dim' = [dim EXCEPT ![r] = CutFrom(d - 1)]
                 /\ GoTo(r, IF CutFrom(d - 1) = 0 THEN "reduce" ELSE "post")
            ELSE UNCHANGED <<dim, pc>>
  /\ told' = [told EXCEPT ![r][side] = <<>>]
  /\ UNCHANGED <<fixed, n, nn, before, sizes, calls>>

\* MPI_Allreduce of wgosa
Reduce(r) ==
  /\ pc[r] = "reduce"
  /\ Begin(r, Cardinality(Interior(nd, r)), "sum")
  /\ GoTo(r, "gosa")
  /\ UNCHANGED <<fixed, p, n, nn, before, dim, pending, mail, sizevars>>

LeaveReduce(r) ==
  /\ pc[r] = "gosa"
  /\ Complete(r)
  /\ GoTo(r, IF MoreSweeps(r) THEN "sweep" ELSE "timing")
  /\ UNCHANGED <<fixed, p, n, nn, before, dim, pending, mail, sizevars, calls>>

-----------------------------------------------------------------------------
\* MPI_Allreduce of the time jacobi() took on this rank
Timing(r) ==
  /\ pc[r] = "timing"
  /\ \E cpu1 \in Times : Begin(r, cpu1, "max")
  /\ GoTo(r, "agree")
  /\ UNCHANGED <<fixed, p, n, nn, before, dim, pending, mail, sizevars>>

\* Mutated form of SlowestTime: the rank goes by its own clock.
OwnTime(r) == part[r]

SlowestTime(r) == result

\* nn = (int)(target / (cpu / 3.0)), or 12 "for simgrid"
SecondRun(r) ==
  IF CT = 0 THEN (Target * Rehearsal) \div SlowestTime(r) ELSE Simgrid

\* The sweeps of the second jacobi() are settled; the second time the program
\* is over.
LeaveTiming(r) ==
  /\ pc[r] = "agree"
  /\ Complete(r)
  /\ IF before[r] = 0
     THEN /\ nn' = [nn EXCEPT ![r] = SecondRun(r)]
          /\ before' = [before EXCEPT ![r] = n[r]]
          /\ n' = [n EXCEPT ![r] = 0]
          /\ GoTo(r, "start")
     ELSE GoTo(r, "end") /\ UNCHANGED <<n, nn, before>>
  /\ UNCHANGED <<fixed, p, dim, pending, mail, sizevars, calls>>

Step(r) ==
  \/ Barrier(r)
  \/ LeaveBarrier(r)
  \/ Sweep(r)
  \/ PostSizes(r)
  \/ \E side \in Sides : ArriveSize(r, side)
  \/ Post(r)
  \/ \E side \in Sides : Arrive(r, side)
  \/ Reduce(r)
  \/ LeaveReduce(r)
  \/ Timing(r)
  \/ LeaveTiming(r)

AllEnded == \A r \in Ranks : pc[r] = "end"

Terminated == AllEnded /\ UNCHANGED vars

Next == (\E r \in Ranks : Step(r)) \/ Terminated

Spec == Init /\ [][Next]_vars

\* The MPI library and the operating system do not stop: as long as some rank
\* can go on, one does.  Which one is left open.
FairSpec == Spec /\ WF_vars(\E r \in Ranks : Step(r))

-----------------------------------------------------------------------------
(* Properties. *)

\* Every variable has its type, and no jacobi() makes more sweeps than asked.
TypeOK ==
  /\ [nd |-> nd, CT |-> CT] \in Programs
  /\ \A r \in Ranks :
       /\ DOMAIN p[r] = Local(nd, r)
       /\ \A c \in Local(nd, r) :
            p[r][c].sweep \in Nat \cup {-1} /\ DOMAIN p[r][c].point = Dims
       /\ nn[r] \in Nat /\ n[r] \in 0..nn[r]
       /\ dim[r] \in 0..3
       /\ pending[r] \subseteq Sides
       /\ DOMAIN told[r] = Sides
       /\ entered[r] \in Nat
  /\ pc \in [Ranks -> {"start", "barrier", "sweep", "post", "sizes", "layers",
                       "wait", "reduce", "gosa", "timing", "agree", "end"}]
  /\ result \in Nat

\* How far a point is from the edges of the grid that end a dimension that is cut.
FromCutEdge(g) ==
  LET cut == {d \in Dims : nd[d] > 1}
  IN  UNION {{g[d], Size[d] - 1 - g[d]} : d \in cut}

\* With compression what took the place of the edge of the grid spreads by one
\* cell with every sweep.
Reached(r, g) == CT # 0 /\ \E x \in FromCutEdge(g) : x < Sweeps(r)

\* After the exchange every cell of every rank, those of the shared layers, their
\* edges and corners included, holds what the whole grid holds there after the
\* same number of sweeps: the cut grid computes what the uncut one would.  With
\* compression this is true as far as nothing has come in from the edge.
CellsCurrent ==
  \A r \in Ranks : pc[r] \in {"reduce", "gosa", "sweep", "timing", "end"} =>
    LET g == Global(nd, r)
    IN  \A c \in Local(nd, r) :
          p[r][c] = ValueAt(g[c], Sweeps(r)) \/ Reached(r, g[c])

\* Two layers of the same side are never under way together: a receive posted
\* for one sweep cannot get the layer of another, though the tags are the same.
\* The size a rank goes by is that of the layer it gets.
OneLayerUnderWay ==
  \A r \in Ranks, d \in Dims, s \in Sides :
    /\ Len(mail[r][d][s]) <= 1
    /\ Len(sizes[r][d][s]) <= 1
    /\ CT # 0 /\ pc[r] = "wait" /\ d = dim[r] /\ mail[r][d][s] # <<>> =>
         told[r][s] = Head(mail[r][d][s])

\* gosa sums every point of the inner grid once: none is computed by two
\* ranks, or by none.
GosaCountsEachPoint ==
  \A r \in Ranks : pc[r] = "gosa" /\ Complete(r) =>
    result = (Size[1] - 2) * (Size[2] - 2) * (Size[3] - 2)

\* Every rank comes to the end, whatever the clocks say.
EveryRankEnds == <>AllEnded

-----------------------------------------------------------------------------
(* Which programs CellsCurrent and GosaCountsEachPoint are true of. *)

\* ijvec misses the end of a layer when jmax < MJMAX.  It does no harm where the
\* cells missed are on the edge of the grid, and so never change, or in a layer
\* of another dimension, exchanged later.
Harmless(cut) ==
  \A r \in 0..(NumRanks(cut) - 1) : \A c \in Local(cut, r) : \A s \in Sides :
    /\ Neighbour(cut, r, 3, s) # ProcNull
    /\ c[3] = (IF s = 0 THEN 0 ELSE Extent(cut, r, 3) - 1)
    /\ c \notin Layer(cut, r, 3, c[3])
    => \/ OnEdge(Global(cut, r)[c])
       \/ \E d \in {1, 2}, t \in Sides :
            /\ Neighbour(cut, r, d, t) # ProcNull
            /\ c[d] = (IF t = 0 THEN 0 ELSE Extent(cut, r, d) - 1)

\* Every part has a point of its own, and ijvec does no harm.
WellCut ==
  \A x \in Programs :
    /\ \A d \in Dims : x.nd[d] <= Size[d]
    /\ x.CT = 0 => Harmless(x.nd)
=============================================================================
