------------------------------- MODULE MCPath -------------------------------
(***************************************************************************)
(* A small track: a ring of the zones 0 to 3 with the sensors 0, 2, 4, 6   *)
(* between them one way round and 1, 3, 5, 7 the other, and a siding,      *)
(* zone 4, behind the sensors 8 and 9 and a switch in zone 1.  The switch  *)
(* has the number of the sensor 6.                                         *)
(***************************************************************************)
EXTENDS PathFinder

CONSTANTS t1, t2

Edge(n, d) == <<[to |-> n, dist |-> d]>>

MCZone    == 0 .. 4
MCNode    == 0 .. 11
MCSensor  == 0 .. 9
MCReverse == [n \in MCNode |-> IF n % 2 = 0 THEN n + 1 ELSE n - 1]
MCNum     == [n \in MCNode |-> IF n > 9 THEN 6 ELSE n]
MCZoneOf  == [n \in MCNode |-> <<0, 1, 1, 2, 2, 3, 3, 0, 1, 4, 1, 1>>[n + 1]]
MCLeads   == [n \in MCNode |->
    <<Edge(10, 1), Edge(7, 2), Edge(4, 1), Edge(11, 1), Edge(6, 1), Edge(3, 1),
      Edge(0, 1), Edge(5, 1), <<>>, Edge(11, 1), Edge(2, 1) \o Edge(8, 1), Edge(1, 1)>>[n + 1]]

MCHome == [t \in Train |-> IF t = t1 THEN 6 ELSE 4]
=============================================================================
