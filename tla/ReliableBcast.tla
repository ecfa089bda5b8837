--------------------------- MODULE ReliableBcast ---------------------------
(***************************************************************************)
(* What MPI_Bcast_abft promises to its callers: the ranks take the root's  *)
(* data call by call, exact unless the wires did more than the code can    *)
(* tell, and the root leaves a call only when every rank has taken a       *)
(* decision on the data it got.                                            *)
(***************************************************************************)
EXTENDS Naturals

CONSTANTS Procs, NCalls, Root

VARIABLES
  published,   \* calls whose root has begun to send
  answered,    \* answered[k]: ranks that have judged what they received
  left,        \* calls the root has returned from
  buffer,      \* buffer[k][p]: "unset", "exact" or "corrupt"
  overload     \* overload[k]: ranks whose data are beyond repair

avars == <<published, answered, left, buffer, overload>>

ARanks == 0..(Procs - 1)
ACalls == 1..NCalls

\* rank p has returned from call k
Past(k, p) == IF p = Root[k] THEN k \in left ELSE buffer[k][p] # "unset"
InOrder(k, p) == \A j \in 1..(k - 1) : Past(j, p)

AInit ==
  /\ published = {}
  /\ answered = [k \in ACalls |-> {}]
  /\ left = {}
  /\ buffer = [k \in ACalls |->
                [p \in ARanks |-> IF p = Root[k] THEN "exact" ELSE "unset"]]
  /\ overload = [k \in ACalls |-> {}]

\* The root of call k, done with the calls before, begins to send.
Publish(k) ==
  /\ k \notin published
  /\ InOrder(k, Root[k])
  /\ published' = published \cup {k}
  /\ UNCHANGED <<answered, left, buffer, overload>>

\* The wires do more damage to p's data than the code can tell.
Overload(k, p) ==
  /\ k \in published
  /\ p # Root[k]
  /\ buffer[k][p] = "unset"
  /\ InOrder(k, p)
  /\ overload' = [overload EXCEPT ![k] = @ \cup {p}]
  /\ UNCHANGED <<published, answered, left, buffer>>

\* p, done with the calls before, has received call k and judged it.
Answer(k, p) ==
  /\ k \in published
  /\ p # Root[k]
  /\ p \notin answered[k]
  /\ InOrder(k, p)
  /\ answered' = [answered EXCEPT ![k] = @ \cup {p}]
  /\ UNCHANGED <<published, left, buffer, overload>>

Leave(k) ==
  /\ k \in published \ left
  /\ answered[k] = ARanks \ {Root[k]}
  /\ left' = left \cup {k}
  /\ UNCHANGED <<published, answered, buffer, overload>>

\* p has the data of call k; wrong data only after an overload.
Deliver(k, p) ==
  /\ p \in answered[k]
  /\ buffer[k][p] = "unset"
  /\ \E v \in {"exact"} \cup (IF p \in overload[k] THEN {"corrupt"} ELSE {}) :
       buffer' = [buffer EXCEPT ![k][p] = v]
  /\ UNCHANGED <<published, answered, left, overload>>

ANext ==
  \E k \in ACalls :
    \/ Publish(k)
    \/ Leave(k)
    \/ \E p \in ARanks : Overload(k, p) \/ Answer(k, p) \/ Deliver(k, p)

Spec == AInit /\ [][ANext]_avars
=============================================================================
