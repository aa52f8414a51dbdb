----------------------------- MODULE MCEventBus -----------------------------
(* A small instance of EventBus for TLC.                                   *)
EXTENDS EventBus
=============================================================================
