------------------------------ MODULE MCTrains ------------------------------
(***************************************************************************)
(* A loop with a dead end: sensors 0 and 2 in one direction, 1 and 3 at    *)
(* the same places in the other.  Behind sensor 0 a pair of centre         *)
(* switches leads round the loop, into the dead end past sensor 2, or, for *)
(* who reads one of them before they are set and one after, off the track. *)
(***************************************************************************)
EXTENDS TrainSystem, TLC

CONSTANTS t1, b153, b154

MCReverse == [s \in 0 .. 3 |-> IF s % 2 = 0 THEN s + 1 ELSE s - 1]
MCPartner == (b153 :> b154) @@ (b154 :> b153)
MCAhead   == (0 :> b154) @@ (2 :> None) @@ (1 :> 1) @@ (3 :> 1)
MCAheadBy == (b154 :> [S |-> b153, C |-> 2]) @@ (b153 :> [S |-> None, C |-> 0])
MCStart   == t1 :> 0
=============================================================================
