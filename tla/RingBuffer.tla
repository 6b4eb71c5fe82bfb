----------------------------- MODULE RingBuffer -----------------------------
(***************************************************************************)
(* One of the two ring buffers between micad and the remote                *)
(* (library/rbuf_device/ring_buffer.c): one writer, one reader, no lock.   *)
(* The indices in and out are never reduced: they run freely through the   *)
(* values of an unsigned int, 0 .. M - 1, and are taken modulo the length  *)
(* only where the data is touched.  The two sides interleave at every      *)
(* access to an index and at every byte copied.                            *)
(***************************************************************************)
EXTENDS Naturals, Sequences

CONSTANTS
    M,          \* the number of values of an unsigned int
    Size,       \* fifo->len
    Byte,
    MaxWrite,   \* the longest write
    MaxRead     \* the length every read asks for

ASSUME RingAssumption ==
    /\ M \in Nat /\ Size \in Nat \ {0} /\ Size < M
    /\ MaxWrite \in Nat /\ MaxRead \in Nat \ {0}

VARIABLES
    in, out, data,   \* struct ring_buffer, in shared memory
    wpc, wbuf, wlen, wdone,   \* the writer: place, bytes left, chunk, copied
    rpc, rbuf, rlen, taken    \* the reader: place, bytes copied, chunk, result

writer == <<wpc, wbuf, wlen, wdone>>
reader == <<rpc, rbuf, rlen, taken>>
ringVars == <<in, out, data, writer, reader>>

Slot == 0 .. Size - 1

min(a, b) == IF a < b THEN a ELSE b

(***************************************************************************)
(* Unsigned addition and subtraction.  (The names with a suffix below are  *)
(* faulty variants that a property must detect.)                           *)
(***************************************************************************)
Plus(i, n) == IF i + n < M THEN i + n ELSE i + n - M
Minus(i, j) == IF j <= i THEN i - j ELSE i + M - j

(***************************************************************************)
(* fifo->in - fifo->out, and kfifo_unused().                               *)
(***************************************************************************)
Used == Minus(in, out)
kfifo_unused == Size - Used

(***************************************************************************)
(* Byte k of a chunk that starts at index off: the first memcpy() of       *)
(* kfifo_copy_in() and kfifo_copy_out() up to the end of the data, the     *)
(* second from its beginning.                                              *)
(***************************************************************************)
Place(off, k) ==
    LET start == off % Size
        l == Size - start
    IN  IF k < l THEN start + k ELSE k - l

-----------------------------------------------------------------------------
(***************************************************************************)
(* ring_buffer_init().                                                     *)
(***************************************************************************)
RingInit ==
    /\ in = 0 /\ out = 0
    /\ data \in [Slot -> Byte]
    /\ wpc = "idle" /\ wbuf = <<>> /\ wlen = 0 /\ wdone = 0
    /\ rpc = "idle" /\ rbuf = <<>> /\ rlen = 0 /\ taken = <<>>

(***************************************************************************)
(* ring_buffer_write() is called.                                          *)
(***************************************************************************)
ring_buffer_write ==
    /\ wpc = "idle" /\ wbuf = <<>>
    /\ \E n \in 1..MaxWrite : wbuf' \in [1..n -> Byte]
    /\ UNCHANGED <<in, out, data, wpc, wlen, wdone, reader>>

KfifoIn_LeaveOne ==
    /\ wpc = "idle" /\ wbuf # <<>>
    /\ kfifo_unused > 0
    /\ wlen' = min(Len(wbuf) - 1, kfifo_unused)
    /\ wdone' = 0
    /\ wpc' = "copy"
    /\ UNCHANGED <<in, out, data, wbuf, reader>>

(***************************************************************************)
(* One turn of its loop, __kfifo_in(): how much fits?  When nothing does,  *)
(* the turn changes nothing, and the loop spins.                           *)
(***************************************************************************)
KfifoIn ==
    /\ wpc = "idle" /\ wbuf # <<>>
    /\ kfifo_unused > 0
    /\ wlen' = min(Len(wbuf), kfifo_unused)
    /\ wdone' = 0
    /\ wpc' = "copy"
    /\ UNCHANGED <<in, out, data, wbuf, reader>>

kfifo_copy_in ==
    /\ wpc = "copy" /\ wdone < wlen
    /\ data' = [data EXCEPT ![Place(in, wdone)] = wbuf[wdone + 1]]
    /\ wdone' = wdone + 1
    /\ UNCHANGED <<in, out, wpc, wbuf, wlen, reader>>

(* in is incremented before the last byte is in place: no wmb(). *)
Publish_Early ==
    /\ wpc = "copy" /\ wdone + 1 >= wlen
    /\ in' = Plus(in, wlen)
    /\ wbuf' = SubSeq(wbuf, wlen + 1, Len(wbuf))
    /\ wlen' = 0 /\ wdone' = 0
    /\ wpc' = "idle"
    /\ UNCHANGED <<out, data, reader>>

(***************************************************************************)
(* fifo->in += len, after the barrier.                                     *)
(***************************************************************************)
Publish ==
    /\ wpc = "copy" /\ wdone = wlen
    /\ in' = Plus(in, wlen)
    /\ wbuf' = SubSeq(wbuf, wlen + 1, Len(wbuf))
    /\ wlen' = 0 /\ wdone' = 0
    /\ wpc' = "idle"
    /\ UNCHANGED <<out, data, reader>>

(***************************************************************************)
(* ring_buffer_read() and __kfifo_out_peek(): how much is there?  A read   *)
(* of nothing changes nothing.                                             *)
(***************************************************************************)
ring_buffer_read ==
    /\ rpc = "idle"
    /\ Used > 0
    /\ rlen' = min(MaxRead, Used)
    /\ rbuf' = <<>>
    /\ rpc' = "copy"
    /\ UNCHANGED <<in, out, data, writer, taken>>

kfifo_copy_out ==
    /\ rpc = "copy" /\ Len(rbuf) < rlen
    /\ rbuf' = Append(rbuf, data[Place(out, Len(rbuf))])
    /\ UNCHANGED <<in, out, data, writer, rpc, rlen, taken>>

(***************************************************************************)
(* fifo->out += len, after the barrier.                                    *)
(***************************************************************************)
KfifoOut ==
    /\ rpc = "copy" /\ Len(rbuf) = rlen
    /\ out' = Plus(out, rlen)
    /\ taken' = rbuf
    /\ rbuf' = <<>> /\ rlen' = 0
    /\ rpc' = "idle"
    /\ UNCHANGED <<in, data, writer>>

WriterStep == KfifoIn \/ kfifo_copy_in \/ Publish
ReaderStep == ring_buffer_read \/ kfifo_copy_out \/ KfifoOut

RingNext == ring_buffer_write \/ WriterStep \/ ReaderStep

RingSpec == RingInit /\ [][RingNext]_ringVars

(***************************************************************************)
(* The loop of ring_buffer_write() goes on, and the other side keeps       *)
(* calling ring_buffer_read(), as data_to_server_thread() does.            *)
(***************************************************************************)
RingFairSpec == RingSpec /\ WF_ringVars(WriterStep) /\ WF_ringVars(ReaderStep)

-----------------------------------------------------------------------------
(***************************************************************************)
(* Type invariant.                                                         *)
(***************************************************************************)
RingTypeOK ==
    /\ in \in 0 .. M - 1 /\ out \in 0 .. M - 1
    /\ data \in [Slot -> Byte]
    /\ wpc \in {"idle", "copy"} /\ rpc \in {"idle", "copy"}
    /\ wbuf \in Seq(Byte) /\ rbuf \in Seq(Byte) /\ taken \in Seq(Byte)
    /\ wlen \in Nat /\ wdone \in Nat /\ rlen \in Nat

(***************************************************************************)
(* However the two sides interleave and the indices wrap, the bytes in     *)
(* flight and the bytes being added never exceed the buffer, and the       *)
(* reader takes no more than was published (__kfifo_in(),                  *)
(* __kfifo_out_peek()).                                                    *)
(***************************************************************************)
NeverOverrun ==
    /\ Used + wlen <= Size
    /\ wdone <= wlen /\ wlen <= Len(wbuf)
    /\ rlen <= Used /\ Len(rbuf) <= rlen

(***************************************************************************)
(* The slots kfifo_copy_in() still has to fill are none of those           *)
(* kfifo_copy_out() still has to read.                                     *)
(***************************************************************************)
NoSharedSlot ==
    \A k \in wdone .. wlen - 1, j \in Len(rbuf) .. rlen - 1 :
        Place(in, k) # Place(out, j)

(***************************************************************************)
(* What lies between out and in.                                           *)
(***************************************************************************)
InFlight == [k \in 1..Used |-> data[Place(out, k - 1)]]

Fifo == INSTANCE ByteFifo WITH
    Capacity <- Size,
    unsent <- wbuf,
    queue <- InFlight,
    got <- taken

(***************************************************************************)
(* Seen from outside, the ring buffer is a FIFO of bytes                   *)
(* (ring_buffer.c:90, 155: "put some data into the FIFO", "get some data   *)
(* from the FIFO"): what is in flight is what lies between out and in.     *)
(***************************************************************************)
IsFifo == Fifo!Init /\ [][Fifo!Next]_(Fifo!vars)

(***************************************************************************)
(* ring_buffer_write() returns: as long as the other side reads, a write   *)
(* longer than the buffer goes through too (ring_buffer.c:173-176).        *)
(***************************************************************************)
WritesEnd == wbuf # <<>> ~> wbuf = <<>>

=============================================================================
