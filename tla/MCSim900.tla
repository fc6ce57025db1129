------------------------------ MODULE MCSim900 ------------------------------
(* Small instances of Sim900. *)
EXTENDS Sim900
=============================================================================
