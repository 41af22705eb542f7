----------------------------- MODULE MCRouting -----------------------------
(* Two trains; three sensors with food, two of them at the same place. *)
EXTENDS Routing

MCRoute      == [i \in Slot |-> 50 + i]
MCReverse    == [s \in 0 .. 3 |-> IF s % 2 = 0 THEN s + 1 ELSE s - 1]
MCGhostScore == [i \in {1} |-> 10]
=============================================================================
