--------------------------- MODULE MCUnityBridge ---------------------------
(* The bridge for TLC. *)
EXTENDS BridgeProperties
=============================================================================
