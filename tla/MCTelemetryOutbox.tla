-------------------------- MODULE MCTelemetryOutbox --------------------------
(* Instances of TelemetryOutbox for TLC.                                   *)
EXTENDS TelemetryOutbox
=============================================================================
