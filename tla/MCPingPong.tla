----------------------------- MODULE MCPingPong -----------------------------
(***************************************************************************)
(* Ping-pong with every method.  A unit of MaxBlock = 2 bytes stands for   *)
(* the 125000 bytes that have one error: sizes with no, one, two and three *)
(* errors, in one, two and three blocks.                                   *)
(***************************************************************************)
EXTENDS PingPong

MCTransfers ==
  [ct : {0, 1, 4, 5, 6, 7, 11}, bytes : {1}]
    \cup [ct : {8, 9, 10}, bytes : {1, 2, 3, 4, 6}]
=============================================================================
