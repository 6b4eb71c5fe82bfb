----------------------------- MODULE MCRpcServer -----------------------------
EXTENDS RpcServer, TLC

(* Calls on a FILE, of which fprintf has no answer, one whose handler may  *)
(* refuse its arguments, and an id that no service has.                    *)
MCNames == {"fopen", "fprintf", "freopen", "fclose", "getaddrinfo", "unknown"}

=============================================================================
