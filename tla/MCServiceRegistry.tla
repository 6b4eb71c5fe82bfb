-------------------------- MODULE MCServiceRegistry --------------------------
EXTENDS ServiceRegistry, TLC

(* One client, two services, a terminal and an endpoint of the other kind. *)
MCKinds == <<"tty", "rpc">>
MCEpt == {"tty0", "rpc0"}
MCKindOf == [e \in MCEpt |-> IF e = "rpc0" THEN "rpc" ELSE "tty"]
MCOwnerOf == [e \in MCEpt |-> "c1"]

=============================================================================
