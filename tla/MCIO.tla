-------------------------------- MODULE MCIO --------------------------------
(* A small instance of IOServer; the constants are in the cfg. *)
EXTENDS IOServer
=============================================================================
