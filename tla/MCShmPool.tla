------------------------------ MODULE MCShmPool ------------------------------
(***************************************************************************)
(* Instance of ShmPool for TLC: a pool of 6 bytes at address 2, two vrings,*)
(* regions of 0 to 3 bytes, and vrings fixed below, at the start, inside   *)
(* or at the end of the pool, or left to the host.                         *)
(***************************************************************************)
EXTENDS ShmPool

MCFixedDa == {1, 2, 4, 7}
MCSizes == {0, 1, 3}
=============================================================================
