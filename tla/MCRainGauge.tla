---------------------------- MODULE MCRainGauge ----------------------------
(* Small instances of RainGauge. *)
EXTENDS RainGauge
=============================================================================
