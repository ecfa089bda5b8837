------------------------------- MODULE MCKMeans -------------------------------
(* Instances of KMeans: seven points, a share of two on each of three ranks *)
(* and one that nobody gets.                                                *)
EXTENDS KMeans

\* coordinates, as multiples of 420 = lcm(1, .., 7)
At420(s) == [i \in Points |-> 420 * s[i + 1]]

\* Two groups given in a bad order; points for which a cluster loses all of its
\* points in the third iteration and the fourth changes nothing; points in a row,
\* several of them the same, so that two clusters begin with equal means.
Groups ==
  {[x |-> At420(<<0, 0, 1, 9, 9, 8, 1>>), y |-> At420(<<0, 1, 0, 5, 6, 5, 9>>)],
   [x |-> At420(<<8, 2, 8, 1, 8, 2, 0>>), y |-> At420(<<4, 4, 9, 5, 5, 6, 5>>)],
   [x |-> At420(<<0, 0, 0, 0, 7, 8, 3>>), y |-> At420(<<0, 0, 0, 0, 0, 0, 0>>)]}

SecondWaits == [t \in Iterations |-> t # 1]
=============================================================================
