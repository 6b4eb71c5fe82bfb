---------------------------- MODULE MCDebugBridge ----------------------------
(* The instance that is checked: see MCDebugBridge.cfg for the bounds. *)
EXTENDS DebugBridge
=============================================================================
