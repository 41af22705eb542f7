------------------------------- MODULE MCZone -------------------------------
(* A small instance of ZoneServer; the constants are in the cfg. *)
EXTENDS ZoneServer
=============================================================================
