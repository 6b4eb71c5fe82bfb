----------------------------- MODULE MCJailhouse -----------------------------
(* The instance that is checked: see MCJailhouse.cfg for the bound. *)
EXTENDS Jailhouse
=============================================================================
