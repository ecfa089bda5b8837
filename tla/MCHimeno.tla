------------------------------- MODULE MCHimeno -------------------------------
(* Instances of Himeno: small grids and ways to cut them. *)
EXTENDS Himeno

Run(cuts, method) == {[nd |-> cut, CT |-> method] : cut \in cuts}

SmallGrid == <<5, 5, 6>>
FourWays ==
  Run({<<1, 2, 2>>, <<2, 2, 1>>, <<1, 1, 3>>}, 0)
    \cup Run({<<1, 1, 3>>, <<2, 1, 2>>}, 5)

\* A grid longer in x, cut in y and z.
LongGrid == <<6, 5, 5>>
CutYZ == Run({<<1, 2, 2>>}, 0)

\* What the theorems assume of the programs is true of the first instance, and
\* not of the second.
ASSUME OnlyShortIsWellCut == WellCut <=> Size0 = SmallGrid
=============================================================================
