------------------------------ MODULE MCMemory ------------------------------
(* Small instances of Memory; the sizes are in the configurations. *)
EXTENDS Memory
=============================================================================
