---------------------------- MODULE MCStatsServer ----------------------------
(***************************************************************************)
(* Instances of StatsServer: two connections, two node IDs.                *)
(***************************************************************************)
EXTENDS StatsServer

CONSTANTS c1, c2, n1, n2

\* Both connections speak for n2, as when a node connects again; only c1 for n1.
MCUses == [c \in Conns |-> IF c = c1 THEN {n1, n2} ELSE {n2}]
=============================================================================
