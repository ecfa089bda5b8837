----------------------------- MODULE Alternation -----------------------------
(***************************************************************************)
(* What the ping-pong programs promise: a number goes from 0 to LIMIT one  *)
(* by one, each time from one rank to the other, and the rank that gets    *)
(* LIMIT decompresses the data and shows the error once.                   *)
(***************************************************************************)
EXTENDS Naturals

CONSTANT LIMIT

VARIABLES
  passed,   \* transfers that are settled
  shown     \* shown[p]: times rank p has shown the error

avars == <<passed, shown>>

AInit ==
  /\ passed = 0
  /\ shown = [p \in {0, 1} |-> 0]

\* The rank passed % 2 hands the data over.
Pass ==
  /\ passed < LIMIT
  /\ passed' = passed + 1
  /\ UNCHANGED shown

\* The rank that got the last number shows the error.
Show(p) ==
  /\ passed = LIMIT
  /\ p = LIMIT % 2
  /\ shown[p] = 0
  /\ shown' = [shown EXCEPT ![p] = 1]
  /\ UNCHANGED passed

ANext == Pass \/ \E p \in {0, 1} : Show(p)

ASpec == AInit /\ [][ANext]_avars
=============================================================================
