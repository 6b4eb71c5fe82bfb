-------------------------- MODULE MCClientLifecycle --------------------------
(* ClientLifecycle needs no bounds: its state space is finite. *)
EXTENDS ClientLifecycle
=============================================================================
