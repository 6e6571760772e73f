----------------------------- MODULE MCEventBus ------------------------------
(* Constant values for model-checking EventBus. *)
EXTENDS EventBus
==============================================================================
