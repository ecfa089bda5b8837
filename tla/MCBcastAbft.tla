---------------------------- MODULE MCBcastAbft ----------------------------
(* Roots of consecutive broadcasts, and sizes: rank 0 sends both matrices   *)
(* (mm, kmeans), the owner of each row sends it (lu).                       *)
EXTENDS BcastAbft

SameRoot  == [k \in Calls |-> 0]
RowOwners == [k \in Calls |-> (k - 1) % Procs]

AllEager     == [k \in Calls |-> TRUE]
SecondWaits  == [k \in Calls |-> k # 2]
=============================================================================
