------------------------------ MODULE MCSensor ------------------------------
(* A small instance of SensorServer; the constants are in the cfg. *)
EXTENDS SensorServer
=============================================================================
