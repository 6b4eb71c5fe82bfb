--------------------------- MODULE MCUserMessages ---------------------------
EXTENDS UserMessages

(* One process calls twice, and has a file for one call only. *)
MCUser == {"u1", "u2"}
MCSends == [u \in MCUser |-> IF u = "u1" THEN 2 ELSE 1]

=============================================================================
