------------------------------- MODULE MCMicad -------------------------------
(***************************************************************************)
(* Two daemon processes that are started three times in all.  `mica create *)
(* --all` has one client to create and to boot, and a user removes it.     *)
(***************************************************************************)
EXTENDS Micad

MCDaemon == {"d1", "d2"}
MCTool == {"u1"}
MCScript == [u \in MCTool |-> <<[op |-> "rm", name |-> "c1"]>>]
MCClient == {"c1"}
MCConfigured == <<[op |-> "create", name |-> "c1"], [op |-> "start", name |-> "c1"]>>
=============================================================================
