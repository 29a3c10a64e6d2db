---------------------------- MODULE MCTelemetry ----------------------------
(* Telemetry on small instances. *)
EXTENDS Telemetry
=============================================================================
