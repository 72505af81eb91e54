-------------------------- MODULE MCGuardTelemetry --------------------------
(* Model checking of GuardTelemetry; each cfg fixes the processes, the       *)
(* faults that may occur and the bounds of one question.                     *)
EXTENDS GuardTelemetryInv
=============================================================================
