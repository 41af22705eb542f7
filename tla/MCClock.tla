------------------------------ MODULE MCClock ------------------------------
(* A small instance of ClockServer; the constants are in the cfg. *)
EXTENDS ClockServer
=============================================================================
