------------------------------ MODULE ByteFifo ------------------------------
(***************************************************************************)
(* What a ring buffer promises: the bytes of each write go, in order and   *)
(* in pieces as there is room, through a queue of bounded capacity, and    *)
(* each read takes some of the oldest.                                     *)
(***************************************************************************)
EXTENDS Naturals, Sequences

CONSTANTS Byte, Capacity

VARIABLES
    unsent,   \* what is left of the write in progress
    queue,    \* the bytes in flight
    got       \* what the last read returned

vars == <<unsent, queue, got>>

Init == unsent = <<>> /\ queue = <<>> /\ got = <<>>

Write ==
    /\ unsent = <<>>
    /\ unsent' \in Seq(Byte) \ {<<>>}
    /\ UNCHANGED <<queue, got>>

Put ==
    \E n \in 1..Len(unsent) :
        /\ Len(queue) + n <= Capacity
        /\ queue' = queue \o SubSeq(unsent, 1, n)
        /\ unsent' = SubSeq(unsent, n + 1, Len(unsent))
        /\ UNCHANGED got

Read ==
    \E n \in 1..Len(queue) :
        /\ got' = SubSeq(queue, 1, n)
        /\ queue' = SubSeq(queue, n + 1, Len(queue))
        /\ UNCHANGED unsent

Next == Write \/ Put \/ Read

Spec == Init /\ [][Next]_vars

=============================================================================
