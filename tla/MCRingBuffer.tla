---------------------------- MODULE MCRingBuffer ----------------------------
EXTENDS RingBuffer

(* The bounds of the runs: two values of a byte, writes of up to 4 bytes. *)
MCByte == {"a", "b"}

=============================================================================
