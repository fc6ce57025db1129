---------------------------- MODULE MCModbusMaster ----------------------------
(* Small instances of ModbusMaster. *)
EXTENDS ModbusMaster
=============================================================================
