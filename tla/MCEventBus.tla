----------------------------- MODULE MCEventBus -----------------------------
(***************************************************************************)
(* The module TLC checks: the event bus with its properties, under the       *)
(* values the configuration gives the constants.                            *)
(***************************************************************************)
EXTENDS EventBusProperties
=============================================================================
