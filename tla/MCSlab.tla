------------------------------- MODULE MCSlab -------------------------------
(* Small instances of Slab; the sizes are in the configurations. *)
EXTENDS Slab
=============================================================================
