-------------------------- MODULE MCTelemetryGateway --------------------------
(* The gateway with few devices, handlers and rows. *)
EXTENDS TelemetryGateway
=============================================================================
