--------------------------- MODULE PlatformProofs ---------------------------
(***************************************************************************)
(* Proofs about what a client stands on: Jailhouse, for any number of      *)
(* starts; RingBuffer, for every length, every width of the indices and    *)
(* every size of write; and ShmPool, for pools, regions and vring counts   *)
(* of every size.                                                          *)
(***************************************************************************)
EXTENDS ShmPool, RingBuffer, Jailhouse, TLAPS

USE ZenonT(10), SMT, SMTT(30)

(***************************************************************************)
(* The jailhouse cell: what the client's state says of it, and that a      *)
(* waiting thread can be told to end.                                      *)
(***************************************************************************)
LEMMA InitCell == CellInit => CellInv
<1> USE MaxThreadsAssumption
<1> SUFFICES ASSUME CellInit PROVE CellInv
  OBVIOUS
<1>1. CellTypeOK
  BY Zenon DEF CellInit, CellTypeOK, Unset
<1>2. CellFollows /\ WaiterReachable
  BY DEF CellInit, CellFollows, WaiterReachable
<1>3. \A t \in Thread : ~Alive(t)
  BY DEF CellInit, Alive
<1> QED BY <1>1, <1>2, <1>3 DEF CellInv

(***************************************************************************)
(* A step that leaves the threads and their pipes alone leaves them        *)
(* reachable.                                                              *)
(***************************************************************************)
LEMMA WaitersSame ==
    ASSUME CellInv, thread' = thread, pipe_fd' = pipe_fd, opened' = opened,
           mishap \subseteq mishap'
    PROVE  /\ WaiterReachable'
           /\ "overlap" \notin mishap' =>
                  \A s, t \in Thread : Alive(s)' /\ Alive(t)' => s = t
BY DEF CellInv, WaiterReachable, Alive

(* Every step of the cell's life keeps the types. *)
LEMMA TypeStep == CellInv /\ CellNext => CellTypeOK'
<1> SUFFICES ASSUME CellInv, CellNext PROVE CellTypeOK'
  OBVIOUS
<1>0. CellTypeOK
  BY DEF CellInv
<1>1. CASE rproc_init
  BY <1>0, <1>1 DEF CellTypeOK, rproc_init
<1>2. CASE rproc_config_fails
  BY <1>0, <1>2 DEF CellTypeOK, rproc_config_fails, pipes, device
<1>3. CASE rproc_start
  BY <1>0, <1>3, Zenon DEF CellTypeOK, rproc_start, If, Fresh, pipes
<1>4. CASE mica_stop \/ mica_remove
  BY <1>0, <1>4, ZenonT(30) DEF CellTypeOK, mica_stop, mica_remove, ShutdownBegins, pipes, device
<1>5. CASE ShutdownFails
  BY <1>0, <1>5 DEF CellTypeOK, ShutdownFails, AfterShutdown, pipes, device
<1>6. CASE ShutdownEnds
  BY <1>0, <1>6 DEF CellTypeOK, ShutdownEnds, AfterShutdown, Reached, If, device
<1>7. CASE rproc_remove
  BY <1>0, <1>7 DEF CellTypeOK, rproc_remove, If, pipes, device
<1>8. ASSUME NEW t \in Thread, ThreadStep(t) PROVE CellTypeOK'
  <2>1. CASE MakePipe(t)
    <3>1. thread' \in [Thread -> {"none", "new", "poll", "read", "notify", "leave", "done"}]
      BY <1>0, <2>1 DEF CellTypeOK, MakePipe
    <3>2. /\ pipe_fd' \in Thread \union {Unset} /\ opened' \subseteq Thread
          /\ mishap' \subseteq {"deaf", "failed", "early", "overlap", "undestroyed"}
      BY <1>0, <2>1, Zenon DEF CellTypeOK, MakePipe
    <3>3. UNCHANGED <<state, pc, cell, snapshot, told, seen, uio, int_control, message>>
      BY <2>1 DEF MakePipe, client, device
    <3> QED BY <1>0, <3>1, <3>2, <3>3, ZenonT(30) DEF CellTypeOK
  <2>2. CASE Poll(t)
    <3>1. thread' \in [Thread -> {"none", "new", "poll", "read", "notify", "leave", "done"}]
      BY <1>0, <2>2 DEF CellTypeOK, Poll
    <3>2. seen' \subseteq told /\ told' = told
      BY <1>0, <2>2 DEF CellTypeOK, Poll
    <3>3. /\ UNCHANGED <<state, pc, cell, pipe_fd, snapshot, opened, message, mishap>>
          /\ uio' = FALSE
      BY <2>2 DEF Poll, client
    <3>4. int_control' \in BOOLEAN
      BY <1>0, <2>2, Zenon DEF CellTypeOK, Poll
    <3> QED BY <1>0, <3>1, <3>2, <3>3, <3>4, ZenonT(30) DEF CellTypeOK
  <2>3. CASE HandleInterrupt(t)
    <3>1. thread' \in [Thread -> {"none", "new", "poll", "read", "notify", "leave", "done"}]
      BY <1>0, <2>3 DEF CellTypeOK, HandleInterrupt
    <3>2. UNCHANGED <<state, pc, cell, pipe_fd, snapshot, opened, told, seen, mishap>>
      BY <2>3 DEF HandleInterrupt, client, pipes
    <3>3. uio' \in BOOLEAN /\ int_control' \in BOOLEAN /\ message' \in BOOLEAN
      BY <1>0, <2>3, Zenon DEF CellTypeOK, HandleInterrupt
    <3> QED BY <1>0, <3>1, <3>2, <3>3, Zenon DEF CellTypeOK
  <2>4. CASE Leave(t)
    BY <1>0, <2>4, SMT, SMTT(30) DEF CellTypeOK, Leave, client, device
  <2> QED BY <1>8, <2>1, <2>2, <2>3, <2>4 DEF ThreadStep
<1>9. CASE CellRings
  BY <1>0, <1>9, Zenon DEF CellTypeOK, CellRings, client, pipes
<1> QED
  BY <1>1, <1>2, <1>3, <1>4, <1>5, <1>6, <1>7, <1>8, <1>9 DEF CellNext

(* Every step keeps the state of the client and its cell in agreement. *)
LEMMA CellStep == CellInv /\ CellNext => CellFollows'
<1> SUFFICES ASSUME CellInv, CellNext PROVE CellFollows'
  OBVIOUS
<1>0. CellTypeOK /\ CellFollows
  BY DEF CellInv
<1>1. CASE UNCHANGED <<state, cell, mishap>> \/ (UNCHANGED client /\ mishap \subseteq mishap')
  BY <1>0, <1>1 DEF CellFollows, client
<1>2. CASE rproc_init
  BY <1>0, <1>2 DEF CellFollows, rproc_init
<1>3. CASE rproc_config_fails
  BY <1>0, <1>3 DEF CellFollows, rproc_config_fails
<1>4. CASE rproc_start
  BY <1>0, <1>4 DEF CellFollows, rproc_start
<1>5. CASE mica_stop \/ mica_remove
  BY <1>0, <1>5 DEF CellFollows, mica_stop, mica_remove, ShutdownBegins
<1>6. CASE ShutdownFails
  BY <1>0, <1>6 DEF CellFollows, ShutdownFails
<1>7. CASE ShutdownEnds
  BY <1>7 DEF CellFollows, ShutdownEnds
<1>8. CASE rproc_remove
  BY <1>8 DEF CellFollows, rproc_remove, If
<1>9. ASSUME NEW t \in Thread, ThreadStep(t) PROVE CellFollows'
  BY <1>1, <1>9 DEF ThreadStep, MakePipe, Poll, HandleInterrupt, Leave
<1>10. CASE CellRings
  BY <1>1, <1>10 DEF CellRings
<1> QED
  BY <1>2, <1>3, <1>4, <1>5, <1>6, <1>7, <1>8, <1>9, <1>10 DEF CellNext

(***************************************************************************)
(* A thread that is alone makes a pipe, uses it and closes it.             *)
(***************************************************************************)
LEMMA WaiterStep ==
    ASSUME CellInv, CellNext
    PROVE  /\ WaiterReachable'
           /\ "overlap" \notin mishap' =>
                  \A s, t \in Thread : Alive(s)' /\ Alive(t)' => s = t
<1> DEFINE One == "overlap" \notin mishap =>
                      \A s, t \in Thread : Alive(s) /\ Alive(t) => s = t
<1>0. CellTypeOK /\ WaiterReachable /\ One /\ Defined
  BY DEF CellInv, CellNext
<1>1. CASE rproc_init
  <2>1. \A t \in Thread : ~Alive(t)
    BY <1>0, <1>1 DEF Defined, SomeAlive, rproc_init
  <2> QED BY <1>0, <1>1, <2>1 DEF WaiterReachable, Alive, rproc_init
<1>2. CASE rproc_start
  <2>1. CASE thread' = thread
    BY <1>2, <2>1, WaitersSame DEF rproc_start, pipes
  <2>2. CASE /\ mishap' = mishap \union If(SomeAlive, "overlap")
             /\ \E t \in Fresh : thread' = [thread EXCEPT ![t] = "new"]
    <3>1. PICK t \in Thread : thread' = [thread EXCEPT ![t] = "new"]
      BY <2>2, Zenon DEF Fresh
    <3>2. \A s \in Thread : thread'[s] = IF s = t THEN "new" ELSE thread[s]
      BY <1>0, <3>1 DEF CellTypeOK
    <3>3. "overlap" \notin mishap' => \A s \in Thread : ~Alive(s)
      BY <2>2 DEF If, SomeAlive
    <3> QED BY <3>2, <3>3 DEF WaiterReachable, Alive
  <2> QED BY <1>2, <2>1, <2>2 DEF rproc_start
<1>3. CASE rproc_config_fails \/ mica_stop \/ mica_remove \/ ShutdownFails \/ ShutdownEnds
           \/ rproc_remove \/ CellRings
  BY <1>3, WaitersSame, Zenon
  DEF rproc_config_fails, mica_stop, mica_remove, ShutdownBegins, ShutdownFails,
      ShutdownEnds, rproc_remove, CellRings, pipes
<1>4. ASSUME NEW t \in Thread, ThreadStep(t)
      PROVE  WaiterReachable' /\ One'
  <2>0. mishap \subseteq mishap' /\ Alive(t)
    BY <1>4
    DEF ThreadStep, MakePipe, Poll, HandleInterrupt, Leave, Alive
  <2>1. PICK to \in {"poll", "read", "notify", "leave", "done"} :
            thread' = [thread EXCEPT ![t] = to]
    BY <1>4 DEF ThreadStep, MakePipe, Poll, HandleInterrupt, Leave
  <2>2. \A s \in Thread : thread'[s] = IF s = t THEN to ELSE thread[s]
    BY <1>0, <2>1 DEF CellTypeOK
  <2>3. One'
    BY <1>0, <2>0, <2>2 DEF Alive
  <2>4. "overlap" \notin mishap' => \A s \in Thread \ {t} : thread'[s] \in {"none", "done"}
    BY <1>0, <2>0, <2>2 DEF Alive
  <2>5. to # "done" => (thread[t] = "new" /\ MakePipe(t)) \/ UNCHANGED <<pipe_fd, opened>>
    BY <1>0, <1>4, <2>2
    DEF ThreadStep, MakePipe, Poll, HandleInterrupt, Leave, CellTypeOK, pipes
  <2>6. CASE to = "done"
    BY <2>2, <2>3, <2>4, <2>6 DEF WaiterReachable
  <2>7. CASE to # "done" /\ thread[t] = "new"
    <3>1. pipe_fd' = t /\ t \in opened'
      BY <1>0, <1>4, <2>2, <2>7
      DEF ThreadStep, MakePipe, Poll, HandleInterrupt, Leave, CellTypeOK
    <3> QED BY <2>3, <2>4, <3>1 DEF WaiterReachable
  <2>8. CASE to # "done" /\ thread[t] # "new"
    <3>1. thread[t] \in {"poll", "read", "notify", "leave"} /\ UNCHANGED <<pipe_fd, opened>>
      BY <1>4, <2>5, <2>8
      DEF ThreadStep, MakePipe, Poll, HandleInterrupt, Leave
    <3> QED BY <1>0, <2>0, <2>3, <2>4, <3>1 DEF WaiterReachable
  <2> QED BY <2>6, <2>7, <2>8
<1> QED BY <1>1, <1>2, <1>3, <1>4 DEF CellNext

(* Every step keeps the inductive invariant. *)
LEMMA CellInductive == CellInv /\ [CellNext]_cellVars => CellInv'
<1> SUFFICES ASSUME CellInv, [CellNext]_cellVars PROVE CellInv'
  OBVIOUS
<1>1. CASE CellNext
  BY <1>1, TypeStep, CellStep, WaiterStep DEF CellInv
<1>2. CASE UNCHANGED cellVars
  <2>1. CellTypeOK' /\ CellFollows'
    BY <1>2, SMT, SMTT(30) DEF CellInv, CellTypeOK, CellFollows, cellVars, client, pipes, device
  <2> QED BY <1>2, <2>1, WaitersSame DEF CellInv, cellVars, pipes
<1> QED BY <1>1, <1>2

(* The inductive invariant holds throughout. *)
LEMMA CellInvariance == CellSpec => []CellInv
BY InitCell, CellInductive, PTL DEF CellSpec

(***************************************************************************)
(* The client of a cell keeps its types.                                   *)
(***************************************************************************)
THEOREM CellTypeCorrect == CellSpec => []CellTypeOK
<1>1. CellInv => CellTypeOK
  BY DEF CellInv
<1> QED BY <1>1, CellInvariance, PTL

(***************************************************************************)
(* A client that is OFFLINE has no running cell and one that is gone has   *)
(* no cell, whichever commands of the jailhouse tool fail, unless it is    *)
(* the last, that destroys the cell (rproc_start(), rproc_shutdown(),      *)
(* rproc_remove()).                                                        *)
(***************************************************************************)
THEOREM CellIsFollowed == CellSpec => []CellFollows
<1>1. CellInv => CellFollows
  BY DEF CellInv
<1> QED BY <1>1, CellInvariance, PTL

(***************************************************************************)
(* For any number of starts and stops, the thread that waits for the cell  *)
(* is the one the private data leads to, as long as no thread was started, *)
(* or its client removed, before the last one had ended                    *)
(* (rproc_wait_event(), rproc_shutdown()).                                 *)
(***************************************************************************)
THEOREM WaiterIsReachable == CellSpec => []WaiterReachable
<1>1. CellInv => WaiterReachable
  BY DEF CellInv
<1> QED BY <1>1, CellInvariance, PTL

(***************************************************************************)
(* The ring buffer: its indices never let one side overrun the other,      *)
(* although they wrap around, and it is a FIFO.                            *)
(***************************************************************************)

RingInv == RingTypeOK /\ NeverOverrun

-----------------------------------------------------------------------------
(* Division with remainder. *)
LEMMA DivMod ==
    ASSUME NEW i \in Nat
    PROVE  \E d \in Int, r \in 0 .. Size - 1 : r = i % Size /\ i = Size * d + r
<1>1. i % Size = i - Size * (i \div Size)
    BY RingAssumption, Z3T(30)
<1>2. PICK d \in Int : d = i \div Size
    BY RingAssumption, SMT, SMTT(30)
<1>3. PICK r \in 0 .. Size - 1 : r = i % Size
    BY RingAssumption, SMT, SMTT(30)
<1>4. r = i - Size * d
    BY <1>1, <1>2, <1>3
<1>5. i = Size * d + r
    BY <1>4, RingAssumption, SMT, SMTT(30)
<1> QED BY <1>3, <1>5

(* A multiple of Size that is the difference of two remainders is zero. *)
LEMMA SmallMultiple ==
    ASSUME NEW r \in 0 .. Size - 1, NEW t \in 0 .. Size - 1, NEW d \in Int,
           r - t = Size * d
    PROVE  r = t
<1> USE RingAssumption
<1>1. CASE d >= 1
  <2>1. Size * d >= Size BY <1>1, SMT
  <2> QED BY <2>1, SMT, SMTT(30)
<1>2. CASE d <= -1
  <2>1. Size * d <= -Size BY <1>2, SMT
  <2> QED BY <2>1, SMT, SMTT(30)
<1>3. CASE d = 0
    BY <1>3, SMT, SMTT(30)
<1> QED BY <1>1, <1>2, <1>3, SMT, SMTT(30)

(* The remainder is unique. *)
LEMMA ModUnique ==
    ASSUME NEW d \in Int, NEW r \in 0 .. Size - 1, Size * d + r \in Nat
    PROVE  (Size * d + r) % Size = r
<1> DEFINE i == Size * d + r
<1>1. i \in Nat
    OBVIOUS
<1> HIDE DEF i
<1>2. PICK e \in Int, t \in 0 .. Size - 1 : t = i % Size /\ i = Size * e + t
    BY <1>1, DivMod
<1>3. Size * d + r = Size * e + t
    BY <1>2 DEF i
<1>4. r - t = Size * (e - d)
    BY <1>3, RingAssumption, SMT, SMTT(30)
<1>5. r = t
    BY <1>4, SmallMultiple, SMT, SMTT(30)
<1> QED BY <1>2, <1>5 DEF i

(* Adding at most Size to an index moves its slot around once at most. *)
LEMMA ShiftMod ==
    ASSUME NEW i \in Nat, NEW n \in 0 .. Size
    PROVE  (i + n) % Size = IF (i % Size) + n < Size
                            THEN (i % Size) + n ELSE (i % Size) + n - Size
<1>1. PICK d \in Int, r \in 0 .. Size - 1 : r = i % Size /\ i = Size * d + r
    BY DivMod
<1>2. r = i % Size
    BY <1>1
<1>3. i = Size * d + r
    BY <1>1
<1>4. CASE r + n < Size
  <2>1. i + n = Size * d + (r + n) /\ r + n \in 0 .. Size - 1
    BY <1>3, <1>4, RingAssumption, SMT, SMTT(30)
  <2>2. (Size * d + (r + n)) % Size = r + n
    BY <2>1, ModUnique, SMT, SMTT(30)
  <2> QED BY <1>2, <1>4, <2>1, <2>2
<1>5. CASE ~(r + n < Size)
  <2>1. Size * (d + 1) = Size * d + Size
    BY RingAssumption, SMT, SMTT(30)
  <2>2. i + n = Size * (d + 1) + (r + n - Size) /\ r + n - Size \in 0 .. Size - 1
    BY <1>3, <1>5, <2>1, RingAssumption, SMT, SMTT(30)
  <2>3. (Size * (d + 1) + (r + n - Size)) % Size = r + n - Size
    BY <2>2, ModUnique, SMT, SMTT(30)
  <2> QED BY <1>2, <1>5, <2>2, <2>3
<1> QED BY <1>4, <1>5, <1>2

(***************************************************************************)
(* This is where the length matters: if it divides the number of values of *)
(* an unsigned int, the wraparound of an index does not move its slot.     *)
(***************************************************************************)
LEMMA WrapKeepsSlot ==
    ASSUME M % Size = 0, NEW i \in 0 .. M - 1, NEW n \in 0 .. Size
    PROVE  Plus(i, n) % Size = (i + n) % Size
<1> USE RingAssumption
<1>1. CASE i + n < M
    BY <1>1 DEF Plus
<1>2. CASE ~(i + n < M)
  <2>1. PICK x \in 0 .. Size - 1 : x = i + n - M
    BY <1>2, SMT, SMTT(30)
  <2>2. PICK q \in Int : M = Size * q
    <3>1. PICK q \in Int, r \in 0 .. Size - 1 : r = M % Size /\ M = Size * q + r
      BY DivMod
    <3>2. M = Size * q
      BY <3>1, SMT, SMTT(30)
    <3> QED BY <3>2
  <2>3. i + n = Size * q + x
    BY <2>1, <2>2, SMT, SMTT(30)
  <2>4. (i + n) % Size = x
    <3>1. Size * q + x \in Nat
      BY <2>3, SMT, SMTT(30)
    <3>2. (Size * q + x) % Size = x
      BY <3>1, ModUnique
    <3> QED BY <2>3, <3>2
  <2>5. Size * 0 + x = x
    BY SMT, SMTT(30)
  <2>6. x % Size = x
    BY <2>5, ModUnique, SMT, SMTT(30)
  <2>7. Plus(i, n) = x
    BY <1>2, <2>1 DEF Plus
  <2> QED BY <2>4, <2>6, <2>7
<1> QED BY <1>1, <1>2

(* The bytes after the n-th from an index are those from the index n on. *)
LEMMA PlaceAfter ==
    ASSUME M % Size = 0, NEW i \in 0 .. M - 1, NEW n \in Nat, NEW k \in Nat,
           n + k < Size
    PROVE  Place(Plus(i, n), k) = Place(i, n + k)
<1> USE RingAssumption
<1>1. n \in 0 .. Size /\ i \in Nat
    BY SMT, SMTT(30)
<1>2. PICK r \in 0 .. Size - 1 : r = i % Size
    BY <1>1, DivMod
<1>3. Plus(i, n) % Size = IF r + n < Size THEN r + n ELSE r + n - Size
    BY <1>1, <1>2, WrapKeepsSlot, ShiftMod, SMT, SMTT(30)
<1> QED BY <1>2, <1>3, SMT, SMTT(30) DEF Place

(* Different bytes of a chunk that fits lie in different slots. *)
LEMMA PlacesDiffer ==
    ASSUME NEW i \in Nat, NEW j \in 0 .. Size - 1, NEW k \in 0 .. Size - 1, j # k
    PROVE  Place(i, j) # Place(i, k)
<1>1. PICK r \in 0 .. Size - 1 : r = i % Size
    BY DivMod
<1> QED BY <1>1, RingAssumption, SMT, SMTT(30) DEF Place

-----------------------------------------------------------------------------

(* Unsigned arithmetic stays in range, and adding to in or out moves the *)
(* distance between them accordingly.                                    *)
LEMMA Unsigned ==
    ASSUME NEW i \in 0 .. M - 1, NEW j \in 0 .. M - 1
    PROVE  /\ Minus(i, j) \in 0 .. M - 1
           /\ \A n \in 0 .. Size :
                /\ Plus(i, n) \in 0 .. M - 1
                /\ Minus(i, j) + n <= Size => Minus(Plus(i, n), j) = Minus(i, j) + n
                /\ n <= Minus(i, j) => Minus(i, Plus(j, n)) = Minus(i, j) - n
BY RingAssumption, SMT, SMTT(30) DEF Plus, Minus

(* The place of a byte is a slot of the buffer. *)
LEMMA PlaceInBuffer ==
    ASSUME NEW off \in Nat, NEW k \in 0 .. Size - 1
    PROVE  Place(off, k) \in Slot
<1>1. off % Size \in 0 .. Size - 1
    BY RingAssumption, SMT, SMTT(30)
<1> QED BY <1>1, RingAssumption, SMT, SMTT(30) DEF Place, Slot

(* What the writer does keeps both sides within their bounds. *)
LEMMA WriterKeeps == RingInv /\ (ring_buffer_write \/ WriterStep) => RingInv'
<1> SUFFICES ASSUME RingInv, ring_buffer_write \/ WriterStep PROVE RingInv'
    OBVIOUS
<1> USE RingAssumption DEF RingInv, RingTypeOK, NeverOverrun, Used, reader
<1>0. Used \in 0 .. M - 1
    BY Unsigned
<1>1. CASE ring_buffer_write
  <2>1. wbuf' \in Seq(Byte) BY <1>1, SMT, SMTT(30) DEF ring_buffer_write
  <2>2. wlen = 0 BY <1>1, SMT, SMTT(30) DEF ring_buffer_write
  <2> QED BY <1>1, <2>1, <2>2, SMT, SMTT(30) DEF ring_buffer_write
<1>2. CASE KfifoIn
    BY <1>0, <1>2, SMT, SMTT(30) DEF KfifoIn, kfifo_unused, min
<1>3. CASE kfifo_copy_in
  <2>1. Place(in, wdone) \in Slot
    BY <1>0, <1>3, PlaceInBuffer, SMT, SMTT(30) DEF kfifo_copy_in
  <2>2. wbuf[wdone + 1] \in Byte
    BY <1>3, SMT, SMTT(30) DEF kfifo_copy_in
  <2> QED BY <1>3, <2>1, <2>2, SMT, SMTT(30) DEF kfifo_copy_in
<1>4. CASE Publish
  <2>1. wbuf' \in Seq(Byte)
    BY <1>4, SMT, SMTT(30) DEF Publish
  <2>2. in' \in 0 .. M - 1 /\ Minus(in', out) = Used + wlen
    <3>1. wlen \in 0 .. Size /\ Minus(in, out) + wlen <= Size
      BY <1>0, SMT, SMTT(30)
    <3>2. in' = Plus(in, wlen) BY <1>4 DEF Publish
    <3> QED BY <3>1, <3>2, Unsigned
  <2> QED BY <1>0, <1>4, <2>1, <2>2, SMT, SMTT(30) DEF Publish
<1> QED BY <1>1, <1>2, <1>3, <1>4 DEF WriterStep

(* What the reader does keeps both sides within their bounds. *)
LEMMA ReaderKeeps == RingInv /\ ReaderStep => RingInv'
<1> SUFFICES ASSUME RingInv, ReaderStep PROVE RingInv'
    OBVIOUS
<1> USE RingAssumption DEF RingInv, RingTypeOK, NeverOverrun, Used, writer
<1>0. Used \in 0 .. M - 1
    BY Unsigned
<1>1. CASE ring_buffer_read
    BY <1>0, <1>1, SMT, SMTT(30) DEF ring_buffer_read, min
<1>2. CASE kfifo_copy_out
  <2>1. Len(rbuf) \in 0 .. Size - 1
    BY <1>0, <1>2, SMT, SMTT(30) DEF kfifo_copy_out
  <2>2. data[Place(out, Len(rbuf))] \in Byte
    BY <2>1, PlaceInBuffer, SMT, SMTT(30)
  <2> QED BY <1>2, <2>2, SMT, SMTT(30) DEF kfifo_copy_out
<1>3. CASE KfifoOut
  <2>1. out' \in 0 .. M - 1 /\ Minus(in, out') = Used - rlen
    <3>1. rlen \in 0 .. Size /\ rlen <= Minus(in, out)
      BY <1>0, SMT, SMTT(30)
    <3>2. out' = Plus(out, rlen) BY <1>3 DEF KfifoOut
    <3>3. Plus(out, rlen) \in 0 .. M - 1 BY <3>1, Unsigned
    <3>4. Minus(in, Plus(out, rlen)) = Minus(in, out) - rlen
      BY <3>1, Unsigned
    <3> QED BY <3>2, <3>3, <3>4
  <2> QED BY <1>0, <1>3, <2>1, SMT, SMTT(30) DEF KfifoOut
<1> QED BY <1>1, <1>2, <1>3 DEF ReaderStep

(***************************************************************************)
(* __kfifo_in() never puts more into the buffer than there is room for,    *)
(* and __kfifo_out_peek() never takes more than was published.             *)
(***************************************************************************)
THEOREM NoOverrun == RingSpec => [](RingTypeOK /\ NeverOverrun)
<1>1. RingInit => RingInv
    BY RingAssumption, SMT, SMTT(30) DEF RingInit, RingInv, RingTypeOK, NeverOverrun, Used, Minus
<1>2. RingInv /\ [RingNext]_ringVars => RingInv'
  <2> SUFFICES ASSUME RingInv, [RingNext]_ringVars PROVE RingInv'
    OBVIOUS
  <2>1. CASE RingNext
    BY <2>1, WriterKeeps, ReaderKeeps DEF RingNext
  <2>2. CASE UNCHANGED ringVars
    BY <2>2 DEF RingInv, RingTypeOK, NeverOverrun, Used, ringVars, writer, reader
  <2> QED BY <2>1, <2>2
<1>3. RingInv => RingTypeOK /\ NeverOverrun BY DEF RingInv
<1> QED BY <1>1, <1>2, <1>3, PTL DEF RingSpec

-----------------------------------------------------------------------------
(***************************************************************************)
(* What has been copied so far is what was meant to be copied.             *)
(***************************************************************************)
CopyInv ==
    /\ wpc = "copy" => wlen > 0
    /\ wpc = "idle" => wlen = 0 /\ wdone = 0
    /\ rpc = "copy" => rlen > 0
    /\ rpc = "idle" => rlen = 0 /\ rbuf = <<>>
    /\ \A k \in 0 .. wdone - 1 : data[Place(in, k)] = wbuf[k + 1]
    /\ \A j \in 0 .. Len(rbuf) - 1 : rbuf[j + 1] = data[Place(out, j)]

(* What the invariant says of the numbers. *)
LEMMA Bounds ==
    ASSUME RingInv
    PROVE  /\ Used \in 0 .. M - 1 /\ Used \in Nat
           /\ wlen \in Nat /\ wdone \in Nat /\ rlen \in Nat /\ Len(rbuf) \in Nat
           /\ Used + wlen <= Size /\ wdone <= wlen /\ wlen <= Len(wbuf)
           /\ rlen <= Used /\ Len(rbuf) <= rlen
           /\ in \in 0 .. M - 1 /\ out \in 0 .. M - 1 /\ in \in Nat /\ out \in Nat
           /\ wbuf \in Seq(Byte) /\ rbuf \in Seq(Byte)
           /\ data \in [Slot -> Byte]
<1>1. Used \in 0 .. M - 1
    BY Unsigned DEF RingInv, RingTypeOK, Used
<1> QED BY <1>1, RingAssumption, SMT, SMTT(30) DEF RingInv, RingTypeOK, NeverOverrun

(* The first free slots follow the slots in flight. *)
LEMMA FreeSlots ==
    ASSUME M % Size = 0, RingInv, NEW k \in Nat, Used + k < Size
    PROVE  Used + k \in 0 .. Size - 1 /\ Place(in, k) = Place(out, Used + k)
<1> USE RingAssumption DEF RingInv, RingTypeOK
<1>1. Used \in 0 .. M - 1
    BY Unsigned DEF Used
<1>2. Plus(out, Used) = in
    BY <1>1, SMT, SMTT(30) DEF Used, Plus, Minus
<1>3. Place(Plus(out, Used), k) = Place(out, Used + k)
    BY <1>1, PlaceAfter, SMT, SMTT(30)
<1> QED BY <1>1, <1>2, <1>3, SMT, SMTT(30)

(* No slot being filled is in flight. *)
LEMMA Apart ==
    ASSUME M % Size = 0, RingInv, NEW k \in 0 .. wlen - 1, NEW j \in 0 .. Used - 1
    PROVE  Place(in, k) # Place(out, j)
<1> USE RingAssumption DEF RingInv, RingTypeOK, NeverOverrun
<1>1. Used \in 0 .. M - 1
    BY Unsigned DEF Used
<1>2. k \in Nat /\ Used + k < Size
    BY <1>1, SMT, SMTT(30)
<1>3. Used + k \in 0 .. Size - 1 /\ Place(in, k) = Place(out, Used + k)
    BY <1>2, FreeSlots
<1>4. j \in 0 .. Size - 1 /\ j # Used + k /\ out \in Nat
    BY <1>1, <1>2, SMT, SMTT(30)
<1>5. Place(out, j) # Place(out, Used + k)
    BY <1>3, <1>4, PlacesDiffer
<1> QED BY <1>3, <1>5

(* Every step keeps the copies right, when the length divides M. *)
LEMMA CopyKeeps ==
    ASSUME M % Size = 0, RingInv, CopyInv, [RingNext]_ringVars
    PROVE  CopyInv'
<1> USE RingAssumption DEF writer, reader
<1>0. /\ Used \in 0 .. M - 1
      /\ wlen \in Nat /\ wdone \in Nat /\ rlen \in Nat /\ Len(rbuf) \in Nat
      /\ Used + wlen <= Size /\ wdone <= wlen /\ wlen <= Len(wbuf)
      /\ rlen <= Used /\ Len(rbuf) <= rlen
      /\ in \in 0 .. M - 1 /\ out \in 0 .. M - 1 /\ in \in Nat /\ out \in Nat
      /\ wbuf \in Seq(Byte) /\ rbuf \in Seq(Byte)
      /\ data \in [Slot -> Byte]
    BY Bounds
<1>1. CASE ring_buffer_write
    BY <1>0, <1>1, SMT, SMTT(30) DEF ring_buffer_write, CopyInv
<1>2. CASE KfifoIn
  <2>1. wlen' > 0
    BY <1>0, <1>2, SMT, SMTT(30) DEF KfifoIn, min, kfifo_unused
  <2> QED BY <1>0, <1>2, <2>1 DEF KfifoIn, CopyInv
<1>3. CASE kfifo_copy_in
  <2>1. wdone \in 0 .. wlen - 1 /\ wdone \in 0 .. Size - 1
    BY <1>0, <1>3, SMT, SMTT(30) DEF kfifo_copy_in
  <2>2. Place(in, wdone) \in Slot
    BY <1>0, <2>1, PlaceInBuffer
  <2>3. \A k \in 0 .. wdone' - 1 : data'[Place(in, k)] = wbuf[k + 1]
    <3> SUFFICES ASSUME NEW k \in 0 .. wdone' - 1
                 PROVE  data'[Place(in, k)] = wbuf[k + 1]
      OBVIOUS
    <3>1. CASE k = wdone
      BY <1>0, <1>3, <2>2, <3>1 DEF kfifo_copy_in
    <3>2. CASE k # wdone
      <4>1. k \in 0 .. wdone - 1 /\ k \in 0 .. Size - 1
        BY <1>0, <1>3, <2>1, <3>2, SMT, SMTT(30) DEF kfifo_copy_in
      <4>2. Place(in, k) # Place(in, wdone)
        BY <1>0, <2>1, <3>2, <4>1, PlacesDiffer
      <4>3. data'[Place(in, k)] = data[Place(in, k)]
        BY <1>0, <1>3, <4>1, <4>2, PlaceInBuffer DEF kfifo_copy_in
      <4> QED BY <4>1, <4>3 DEF CopyInv
    <3> QED BY <3>1, <3>2
  <2>4. \A j \in 0 .. Len(rbuf) - 1 : rbuf[j + 1] = data'[Place(out, j)]
    <3> SUFFICES ASSUME NEW j \in 0 .. Len(rbuf) - 1
                 PROVE  rbuf[j + 1] = data'[Place(out, j)]
      OBVIOUS
    <3>1. j \in 0 .. Used - 1 /\ j \in 0 .. Size - 1
      BY <1>0, SMT, SMTT(30)
    <3>2. Place(in, wdone) # Place(out, j)
      BY <2>1, <3>1, Apart
    <3>3. data'[Place(out, j)] = data[Place(out, j)]
      BY <1>0, <1>3, <3>1, <3>2, PlaceInBuffer DEF kfifo_copy_in
    <3> QED BY <3>3 DEF CopyInv
  <2> QED BY <1>0, <1>3, <2>3, <2>4, SMT, SMTT(30) DEF kfifo_copy_in, CopyInv
<1>4. CASE Publish
    BY <1>0, <1>4, SMT, SMTT(30) DEF Publish, CopyInv
<1>5. CASE ring_buffer_read
  <2>1. rlen' > 0
    BY <1>0, <1>5, SMT, SMTT(30) DEF ring_buffer_read, min
  <2> QED BY <1>0, <1>5, <2>1 DEF ring_buffer_read, CopyInv
<1>6. CASE kfifo_copy_out
  <2>1. \A j \in 0 .. Len(rbuf') - 1 : rbuf'[j + 1] = data[Place(out, j)]
    <3> DEFINE b == data[Place(out, Len(rbuf))]
    <3>1. rbuf' = Append(rbuf, b)
      BY <1>6 DEF kfifo_copy_out
    <3>2. \A j \in 0 .. Len(rbuf) - 1 : rbuf[j + 1] = data[Place(out, j)]
      BY DEF CopyInv
    <3>3. Len(rbuf') = Len(rbuf) + 1 /\ rbuf'[Len(rbuf) + 1] = b
      BY <1>0, <3>1, SMT, SMTT(30)
    <3>4. \A j \in 0 .. Len(rbuf) - 1 : rbuf'[j + 1] = rbuf[j + 1]
      BY <1>0, <3>1, SMT, SMTT(30)
    <3> SUFFICES ASSUME NEW j \in 0 .. Len(rbuf') - 1
                 PROVE  rbuf'[j + 1] = data[Place(out, j)]
      OBVIOUS
    <3>5. CASE j = Len(rbuf)
      BY <3>3, <3>5
    <3>6. CASE j # Len(rbuf)
      BY <1>0, <3>2, <3>3, <3>4, <3>6, SMT, SMTT(30)
    <3> QED BY <3>5, <3>6
  <2> QED BY <1>0, <1>6, <2>1 DEF kfifo_copy_out, CopyInv
<1>7. CASE KfifoOut
    BY <1>0, <1>7, SMT, SMTT(30) DEF KfifoOut, CopyInv
<1>8. CASE UNCHANGED ringVars
    BY <1>8 DEF ringVars, CopyInv
<1> QED BY <1>1, <1>2, <1>3, <1>4, <1>5, <1>6, <1>7, <1>8
        DEF RingNext, WriterStep, ReaderStep

(* The invariant of the runs in which the length divides M. *)
THEOREM Copies == M % Size = 0 => (RingSpec => [](RingInv /\ CopyInv))
<1> SUFFICES ASSUME M % Size = 0 PROVE RingSpec => [](RingInv /\ CopyInv)
    OBVIOUS
<1>1. RingInit => CopyInv
    BY SMT, SMTT(30) DEF RingInit, CopyInv
<1>2. RingInv /\ CopyInv /\ [RingNext]_ringVars => CopyInv'
    BY CopyKeeps
<1>3. RingSpec => []RingInv
    BY NoOverrun DEF RingInv
<1> QED BY <1>1, <1>2, <1>3, PTL DEF RingSpec

(***************************************************************************)
(* The writer never fills a slot the reader still has to read, when the    *)
(* length divides M.                                                       *)
(***************************************************************************)
THEOREM SlotsStayApart == M % Size = 0 => (RingSpec => []NoSharedSlot)
<1> SUFFICES ASSUME M % Size = 0 PROVE RingSpec => []NoSharedSlot
    OBVIOUS
<1>1. RingInv => NoSharedSlot
  <2> SUFFICES ASSUME RingInv, NEW k \in wdone .. wlen - 1,
                      NEW j \in Len(rbuf) .. rlen - 1
               PROVE  Place(in, k) # Place(out, j)
    BY DEF NoSharedSlot
  <2>1. k \in 0 .. wlen - 1 /\ j \in 0 .. Used - 1
    BY RingAssumption, Bounds, SMT, SMTT(30)
  <2> QED BY <2>1, Apart
<1>2. RingSpec => []RingInv
    BY NoOverrun DEF RingInv
<1> QED BY <1>1, <1>2, PTL

-----------------------------------------------------------------------------
(* The bytes in flight are a sequence. *)
LEMMA InFlightSeq ==
    ASSUME RingInv
    PROVE  /\ Used \in Nat
           /\ InFlight \in Seq(Byte) /\ Len(InFlight) = Used
           /\ \A k \in 1..Used : InFlight[k] = data[Place(out, k - 1)]
<1>1. Used \in Nat /\ Used <= Size /\ out \in Nat /\ data \in [Slot -> Byte]
    BY RingAssumption, Bounds, SMT, SMTT(30)
<1>2. \A k \in 1..Used : data[Place(out, k - 1)] \in Byte
  <2> SUFFICES ASSUME NEW k \in 1..Used PROVE data[Place(out, k - 1)] \in Byte
    OBVIOUS
  <2>1. k - 1 \in 0 .. Size - 1
    BY <1>1, RingAssumption, SMT, SMTT(30)
  <2> QED BY <1>1, <2>1, PlaceInBuffer
<1> QED BY <1>1, <1>2, SMT, SMTT(30) DEF InFlight

(* What a concatenation is, byte by byte. *)
LEMMA ConcatIs ==
    ASSUME NEW s \in Seq(Byte), NEW t \in Seq(Byte)
    PROVE  /\ s \o t \in Seq(Byte)
           /\ Len(s \o t) = Len(s) + Len(t)
           /\ \A k \in 1..Len(s) + Len(t) : (s \o t)[k] =
                 IF k <= Len(s) THEN s[k] ELSE t[k - Len(s)]
<1>1. Len(s) \in Nat /\ Len(t) \in Nat
  BY SMT, SMTT(30)
<1>2. Len(s \o t) = Len(s) + Len(t)
  BY <1>1, SMT, SMTT(30)
<1>3. \A k \in 1..Len(s) + Len(t) : (s \o t)[k] = IF k <= Len(s) THEN s[k] ELSE t[k - Len(s)]
  BY <1>1, SMT, SMTT(30)
<1> QED BY <1>1, <1>2, <1>3, SMT, SMTT(30)

(* Publishing a chunk puts it at the end of the queue. *)
LEMMA PublishIsPut ==
    ASSUME M % Size = 0, RingInv, CopyInv, RingInv', Publish
    PROVE  Fifo!Put
<1> USE RingAssumption DEF reader
<1>0. /\ wlen \in Nat /\ wlen > 0 /\ wdone = wlen /\ wlen <= Len(wbuf)
      /\ wbuf \in Seq(Byte) /\ Used + wlen <= Size
    BY DEF RingInv, RingTypeOK, NeverOverrun, CopyInv, Publish
<1>1. /\ Used \in Nat
      /\ InFlight \in Seq(Byte) /\ Len(InFlight) = Used
      /\ \A k \in 1..Used : InFlight[k] = data[Place(out, k - 1)]
    BY InFlightSeq
<1>2. Used' = Used + wlen
  <2>1. wlen \in 0 .. Size /\ in \in 0 .. M - 1 /\ out \in 0 .. M - 1
    BY <1>0, <1>1, SMT, SMTT(30) DEF RingInv, RingTypeOK
  <2>2. Minus(in, out) + wlen <= Size
    BY <1>0 DEF Used
  <2>3. Minus(Plus(in, wlen), out) = Minus(in, out) + wlen
    BY <2>1, <2>2, Unsigned, SMT, SMTT(30)
  <2> QED BY <2>3 DEF Used, Publish
<1>3. InFlight' = InFlight \o SubSeq(wbuf, 1, wlen)
  <2> DEFINE chunk == SubSeq(wbuf, 1, wlen)
  <2>1. /\ chunk \in Seq(Byte) /\ Len(chunk) = wlen
        /\ \A k \in 1..wlen : chunk[k] = wbuf[k]
    BY <1>0, SMT, SMTT(30)
  <2>2. \A k \in 1..Used' : InFlight'[k] = data[Place(out, k - 1)]
    BY <1>1, <1>2 DEF InFlight, Publish
  <2>3. InFlight' \in Seq(Byte) /\ Len(InFlight') = Used'
    <3>1. \A k \in 1..Used' : data[Place(out, k - 1)] \in Byte
      <4> SUFFICES ASSUME NEW k \in 1..Used'
                   PROVE data[Place(out, k - 1)] \in Byte
        OBVIOUS
      <4>1. k - 1 \in 0 .. Size - 1 /\ out \in Nat
        BY <1>0, <1>1, <1>2, SMT, SMTT(30) DEF RingInv, RingTypeOK
      <4> QED BY <4>1, PlaceInBuffer DEF RingInv, RingTypeOK
    <3> QED BY <1>0, <1>1, <1>2, <3>1, SMT, SMTT(30) DEF InFlight, Publish
  <2> HIDE DEF chunk
  <2>4. /\ InFlight \o chunk \in Seq(Byte)
        /\ Len(InFlight \o chunk) = Used + wlen
        /\ \A k \in 1..Used + wlen : (InFlight \o chunk)[k] =
              IF k <= Used THEN InFlight[k] ELSE chunk[k - Used]
    <3>0. InFlight \in Seq(Byte) /\ chunk \in Seq(Byte)
      BY <1>1, <2>1
    <3>1. /\ InFlight \o chunk \in Seq(Byte)
          /\ Len(InFlight \o chunk) = Len(InFlight) + Len(chunk)
          /\ \A k \in 1..Len(InFlight) + Len(chunk) : (InFlight \o chunk)[k] =
                IF k <= Len(InFlight) THEN InFlight[k]
                ELSE chunk[k - Len(InFlight)]
      BY ONLY <3>0, ConcatIs, Zenon
    <3> QED BY <1>1, <2>1, <3>1
  <2>5. \A k \in 1..Used + wlen : InFlight'[k] = (InFlight \o chunk)[k]
    <3> SUFFICES ASSUME NEW k \in 1..Used + wlen
                 PROVE  InFlight'[k] = (InFlight \o chunk)[k]
      BY Zenon
    <3>1. CASE k <= Used
      <4>1. k \in 1..Used /\ k \in 1..Used'
        BY <1>0, <1>1, <1>2, <3>1, SMT, SMTT(30)
      <4> QED BY <1>1, <2>2, <2>4, <3>1, <4>1, ZenonT(60)
    <3>2. CASE ~(k <= Used)
      <4>1. /\ k - Used - 1 \in 0 .. wdone - 1
            /\ k - Used - 1 \in Nat /\ k - Used \in 1..wlen
            /\ Used + (k - Used - 1) = k - 1 /\ k - 1 < Size
        BY <1>0, <1>1, <3>2, SMT, SMTT(30)
      <4>2. Place(in, k - Used - 1) = Place(out, k - 1)
        BY <4>1, FreeSlots
      <4>3. data[Place(in, k - Used - 1)] = wbuf[(k - Used - 1) + 1]
        BY <4>1 DEF CopyInv
      <4>4. (k - Used - 1) + 1 = k - Used
        BY <4>1, <1>1, SMT, SMTT(30)
      <4>5. InFlight'[k] = chunk[k - Used]
        BY <1>2, <2>1, <2>2, <4>1, <4>2, <4>3, <4>4
      <4> QED BY <1>0, <1>1, <2>4, <3>2, <4>5
    <3> QED BY <3>1, <3>2, Zenon
  <2>6. InFlight' = InFlight \o chunk
    BY <1>2, <2>3, <2>4, <2>5, SMT, SMTT(30)
  <2> QED BY <2>6 DEF chunk
<1>4. /\ wlen \in 1..Len(wbuf) /\ Len(InFlight) + wlen <= Size
      /\ wbuf' = SubSeq(wbuf, wlen + 1, Len(wbuf)) /\ taken' = taken
    BY <1>0, <1>1, SMT, SMTT(30) DEF Publish
<1> QED BY <1>3, <1>4, Zenon DEF Fifo!Put

(* Advancing out takes what was read from the front of the queue. *)
LEMMA OutIsRead ==
    ASSUME M % Size = 0, RingInv, CopyInv, RingInv', KfifoOut
    PROVE  Fifo!Read
<1> USE RingAssumption DEF writer
<1>0. /\ rlen \in Nat /\ rlen > 0 /\ Len(rbuf) = rlen /\ rlen <= Used
      /\ rbuf \in Seq(Byte) /\ Used <= Size
      /\ out \in 0 .. M - 1 /\ in \in 0 .. M - 1
    BY Bounds, SMT, SMTT(30) DEF CopyInv, KfifoOut
<1>1. /\ Used \in Nat
      /\ InFlight \in Seq(Byte) /\ Len(InFlight) = Used
      /\ \A k \in 1..Used : InFlight[k] = data[Place(out, k - 1)]
    BY InFlightSeq
<1>2. Used' = Used - rlen /\ out' = Plus(out, rlen)
  <2>1. rlen \in 0 .. Size /\ rlen <= Minus(in, out)
    BY <1>0, <1>1, SMT, SMTT(30) DEF Used
  <2>2. Minus(in, Plus(out, rlen)) = Minus(in, out) - rlen
    BY <1>0, <2>1, Unsigned, SMT, SMTT(30)
  <2> QED BY <2>2 DEF Used, KfifoOut
<1>3. /\ InFlight' \in Seq(Byte) /\ Len(InFlight') = Used'
      /\ \A k \in 1..Used' : InFlight'[k] = data[Place(out', k - 1)]
  <2>1. (Used \in Nat
         /\ InFlight \in Seq(Byte) /\ Len(InFlight) = Used
         /\ \A k \in 1..Used : InFlight[k] = data[Place(out, k - 1)])'
    BY InFlightSeq, PTL
  <2> QED BY <2>1, Zenon DEF KfifoOut
<1>4. taken' = SubSeq(InFlight, 1, rlen)
  <2>1. \A k \in 1..rlen : InFlight[k] \in Byte
    BY <1>0, <1>1, SMT, SMTT(30)
  <2>2. /\ SubSeq(InFlight, 1, rlen) \in Seq(Byte)
        /\ Len(SubSeq(InFlight, 1, rlen)) = rlen
        /\ \A k \in 1..rlen : SubSeq(InFlight, 1, rlen)[k] = InFlight[k]
    BY <1>0, <2>1, SMT, SMTT(30)
  <2>3. \A k \in 1..rlen : rbuf[k] = InFlight[k]
    <3> SUFFICES ASSUME NEW k \in 1..rlen PROVE rbuf[k] = InFlight[k]
      OBVIOUS
    <3>1. k - 1 \in 0 .. Len(rbuf) - 1 /\ (k - 1) + 1 = k /\ k \in 1..Used
      BY <1>0, <1>1, SMT, SMTT(30)
    <3>2. rbuf[(k - 1) + 1] = data[Place(out, k - 1)]
      BY <3>1 DEF CopyInv
    <3> QED BY <1>1, <3>1, <3>2
  <2>4. rbuf = SubSeq(InFlight, 1, rlen)
    BY <1>0, <2>2, <2>3, SMT, SMTT(30)
  <2> QED BY <2>4 DEF KfifoOut
<1>5. InFlight' = SubSeq(InFlight, rlen + 1, Len(InFlight))
  <2> DEFINE rest == SubSeq(InFlight, rlen + 1, Used)
  <2>1. \A k \in rlen + 1 .. Used : InFlight[k] \in Byte
    BY <1>0, <1>1, SMT, SMTT(30)
  <2>2. /\ rest \in Seq(Byte) /\ Len(rest) = Used'
        /\ \A k \in 1..Used' : rest[k] = InFlight[rlen + k]
    <3>1. /\ rest \in Seq(Byte)
          /\ Len(rest) = IF rlen + 1 <= Used THEN Used - (rlen + 1) + 1 ELSE 0
          /\ \A k \in 1 .. Used - (rlen + 1) + 1 :
                rest[k] = InFlight[(rlen + 1) + k - 1]
      BY <1>0, <1>1, <2>1, SMT, SMTT(30)
    <3>2. Used - (rlen + 1) + 1 = Used'
      BY <1>0, <1>1, <1>2, SMT, SMTT(30)
    <3>3. \A k \in 1..Used' : (rlen + 1) + k - 1 = rlen + k
      BY <1>0, SMT, SMTT(30)
    <3>4. Len(rest) = Used'
      BY <1>0, <1>1, <1>2, <3>1, <3>2, SMT, SMTT(30)
    <3>5. \A k \in 1..Used' : rest[k] = InFlight[rlen + k]
      BY <3>1, <3>2, <3>3
    <3> QED BY <3>1, <3>4, <3>5
  <2> HIDE DEF rest
  <2>3. \A k \in 1..Used' : InFlight'[k] = rest[k]
    <3> SUFFICES ASSUME NEW k \in 1..Used' PROVE InFlight'[k] = rest[k]
      OBVIOUS
    <3>1. /\ k - 1 \in Nat /\ rlen + (k - 1) < Size
          /\ rlen + k \in 1..Used /\ (rlen + k) - 1 = rlen + (k - 1)
      BY <1>0, <1>1, <1>2, SMT, SMTT(30)
    <3>2. Place(out', k - 1) = Place(out, rlen + (k - 1))
      BY <1>0, <1>2, <3>1, PlaceAfter, SMT, SMTT(30)
    <3>3. InFlight[rlen + k] = data[Place(out, (rlen + k) - 1)]
      BY <1>1, <3>1
    <3>4. InFlight'[k] = data[Place(out', k - 1)]
      BY <1>3
    <3>5. rest[k] = InFlight[rlen + k]
      BY <2>2
    <3> QED BY <3>1, <3>2, <3>3, <3>4, <3>5
  <2>4. InFlight' = rest
    BY <1>3, <2>2, <2>3, SMT, SMTT(30)
  <2> QED BY <1>1, <2>4 DEF rest
<1>6. rlen \in 1..Len(InFlight) /\ wbuf' = wbuf
    BY <1>0, <1>1, SMT, SMTT(30) DEF KfifoOut
<1> QED BY <1>4, <1>5, <1>6 DEF Fifo!Read

(* Filling a free slot does not change what is in flight. *)
LEMMA CopyInStutters ==
    ASSUME M % Size = 0, RingInv, kfifo_copy_in
    PROVE  InFlight' = InFlight
<1> USE RingAssumption
<1>0. wdone \in 0 .. wlen - 1 /\ Used' = Used /\ out' = out
    BY Bounds, SMT, SMTT(30) DEF kfifo_copy_in, Used
<1>1. \A k \in 1..Used : data'[Place(out, k - 1)] = data[Place(out, k - 1)]
  <2> SUFFICES ASSUME NEW k \in 1..Used
               PROVE  data'[Place(out, k - 1)] = data[Place(out, k - 1)]
    OBVIOUS
  <2>1. k - 1 \in 0 .. Used - 1 /\ k - 1 \in 0 .. Size - 1 /\ out \in Nat
    BY Bounds, SMT, SMTT(30)
  <2>2. Place(in, wdone) # Place(out, k - 1)
    BY <1>0, <2>1, Apart
  <2>3. Place(out, k - 1) \in Slot /\ data \in [Slot -> Byte]
    BY <2>1, PlaceInBuffer, Bounds
  <2> QED BY <2>2, <2>3 DEF kfifo_copy_in
<1> QED BY <1>0, <1>1 DEF InFlight

(***************************************************************************)
(* Refinement: when the length divides M, so also for as long as no index  *)
(* has wrapped around, the ring buffer is a FIFO of bytes of capacity      *)
(* fifo->len.                                                              *)
(***************************************************************************)
THEOREM RingIsFifo == M % Size = 0 => (RingSpec => IsFifo)
<1> SUFFICES ASSUME M % Size = 0 PROVE RingSpec => IsFifo
    OBVIOUS
<1>1. RingInit => Fifo!Init
  <2> SUFFICES ASSUME RingInit PROVE InFlight = <<>>
    BY DEF RingInit, Fifo!Init
  <2>1. Used = 0
    BY SMT, SMTT(30) DEF RingInit, Used, Minus
  <2> QED BY <2>1, SMT, SMTT(30) DEF InFlight
<1>2. /\ RingInv /\ CopyInv /\ RingInv' /\ [RingNext]_ringVars
      => [Fifo!Next]_(Fifo!vars)
  <2> SUFFICES ASSUME RingInv, CopyInv, RingInv', [RingNext]_ringVars
               PROVE  [Fifo!Next]_(Fifo!vars)
    OBVIOUS
  <2>1. CASE ring_buffer_write
    <3>1. wbuf = <<>> /\ wbuf' \in Seq(Byte) \ {<<>>}
      BY <2>1, SMT, SMTT(30) DEF ring_buffer_write
    <3>2. InFlight' = InFlight /\ taken' = taken
      BY <2>1 DEF ring_buffer_write, InFlight, Used, reader
    <3> QED BY <3>1, <3>2 DEF Fifo!Next, Fifo!Write
  <2>2. CASE KfifoIn
    BY <2>2 DEF KfifoIn, reader, InFlight, Used, Fifo!vars
  <2>3. CASE kfifo_copy_in
    BY <2>3, CopyInStutters DEF kfifo_copy_in, reader, Fifo!vars
  <2>4. CASE Publish
    BY <2>4, PublishIsPut DEF Fifo!Next
  <2>5. CASE ring_buffer_read
    BY <2>5 DEF ring_buffer_read, writer, InFlight, Used, Fifo!vars
  <2>6. CASE kfifo_copy_out
    BY <2>6 DEF kfifo_copy_out, writer, InFlight, Used, Fifo!vars
  <2>7. CASE KfifoOut
    BY <2>7, OutIsRead DEF Fifo!Next
  <2>8. CASE UNCHANGED ringVars
    BY <2>8 DEF ringVars, writer, reader, InFlight, Used, Fifo!vars
  <2> QED BY <2>1, <2>2, <2>3, <2>4, <2>5, <2>6, <2>7, <2>8
          DEF RingNext, WriterStep, ReaderStep
<1>3. RingSpec => [](RingInv /\ CopyInv)
    BY Copies
<1> QED BY <1>1, <1>2, <1>3, PTL DEF RingSpec, IsFifo

(***************************************************************************)
(* The pool of shared memory.                                              *)
(***************************************************************************)

USE DEF None, Fail, Stages, Vrings, BufStage, RbufStage, DoneStage

(***************************************************************************)
(* A granted region starts at or above the first unused byte and ends      *)
(* inside the pool (shm_pool.c:57-72).                                     *)
(***************************************************************************)
LEMMA AllocGranted ==
    ASSUME NEW free \in Nat, NEW phys \in Nat, NEW len \in Nat,
           alloc_shmem_region(free, phys, len) # Fail
    PROVE  LET va == alloc_shmem_region(free, phys, len) IN
           /\ va \in Nat
           /\ free <= va
           /\ va + len <= PoolSize
           /\ phys = 0 => va = free
           /\ phys # 0 => phys = shm_pool_virt_to_phys(va)
BY PoolAssumption, SMT, SMTT(30)
   DEF alloc_shmem_region, shm_pool_phys_to_virt, shm_pool_virt_to_phys

(***************************************************************************)
(* An address inside the pool that is not below the first unused byte and  *)
(* leaves room for the region is granted as it is.                         *)
(***************************************************************************)
LEMMA AllocInPlace ==
    ASSUME NEW free \in Nat, NEW va \in Nat, NEW len \in Nat,
           free <= va, len > 0, va + len <= PoolSize
    PROVE  alloc_shmem_region(free, shm_pool_virt_to_phys(va), len) = va
BY PoolAssumption, SMT, SMTT(30)
   DEF alloc_shmem_region, shm_pool_phys_to_virt, shm_pool_virt_to_phys

(***************************************************************************)
(* The types the other proofs need of what a stage asks for.               *)
(***************************************************************************)
LEMMA RequestType ==
    ASSUME TypeOK, NEW s \in Stages
    PROVE  /\ request(s) \in Nat
           /\ size[s] \in Nat
           /\ s \in Vrings => size[s] > 0
           /\ request(s) = 0 <=> (s \in Vrings => da[s] = ANY)
           /\ request(s) # 0 => s \in Vrings /\ da[s] = request(s)
BY PoolAssumption, Zenon DEF TypeOK, request, FirmwareSize

(***************************************************************************)
(* Where a region ends is an address, a natural number.                    *)
(***************************************************************************)
LEMMA EndOfType ==
    ASSUME TypeOK, NEW s \in Stages, before[s] # None
    PROVE  /\ before[s] \in Nat
           /\ size[s] \in Nat
           /\ EndOf(s) = before[s] + size[s]
           /\ EndOf(s) \in Nat
<1>1. before[s] \in Nat
  BY DEF TypeOK
<1>2. size[s] \in Nat
  BY RequestType
<1>3. s # 0
  BY SMT, SMTT(30)
<1> QED
  BY <1>1, <1>2, <1>3, SMT, SMTT(30) DEF EndOf

(***************************************************************************)
(* What the firmware asks for is an address, or any address.               *)
(***************************************************************************)
LEMMA FirmwareDaType ==
    FirmwareDa \subseteq [Vrings -> (Nat \ {0}) \union {ANY}]
<1> SUFFICES ASSUME NEW f \in FirmwareDa
             PROVE  f \in [Vrings -> (Nat \ {0}) \union {ANY}]
  OBVIOUS
<1>1. FixedDa \union {ANY} \subseteq (Nat \ {0}) \union {ANY}
  BY PoolAssumption, Zenon
<1> HIDE DEF Vrings
<1> QED
  BY <1>1 DEF FirmwareDa

(***************************************************************************)
(* A client without regions has a well-typed place for each of them.       *)
(***************************************************************************)
LEMMA NoRegionsType ==
    /\ NoRegions \in [Stages -> Nat \union {None}]
    /\ \A s \in Stages : NoRegions[s] = None
BY DEF NoRegions

(***************************************************************************)
(* With no region handed out since the image was loaded, nothing is left   *)
(* to show about earlier regions.                                          *)
(***************************************************************************)
LEMMA NothingBefore ==
    ASSUME before = NoRegions PROVE BeforeInv
<1>1. \A s \in Stages : before[s] = None
  BY NoRegionsType
<1>2. 1 .. BufStage \subseteq Stages /\ RbufStage \in Stages
  BY PoolAssumption, SMT, SMTT(30)
<1> QED
  BY <1>1, <1>2 DEF BeforeInv

(***************************************************************************)
(* The invariant holds before the first start.                             *)
(***************************************************************************)
LEMMA InitIInv == Init => IInv
<1> SUFFICES ASSUME Init PROVE IInv
  OBVIOUS
<1>1. TypeOK
  <2>1. da \in [Vrings -> (Nat \ {0}) \union {ANY}]
    BY FirmwareDaType DEF Init
  <2>2. /\ unused \in Nat /\ pa \in Nat
        /\ stage \in 0 .. DoneStage /\ size \in FirmwareSize
    BY PoolAssumption, SMT, SMTT(30) DEF Init
  <2>3. /\ got \in [Stages -> Nat \union {None}]
        /\ before \in [Stages -> Nat \union {None}]
    BY NoRegionsType DEF Init
  <2> QED
    BY <2>1, <2>2, <2>3 DEF TypeOK
<1>2. BeforeInv
  BY NothingBefore DEF Init
<1>3. ProgressInv
  BY PoolAssumption, SMT, SMTT(30) DEF Init, ProgressInv
<1>4. RbufInv
  BY PoolAssumption, NoRegionsType, SMT, SMTT(30) DEF Init, RbufInv
<1> QED
  BY <1>1, <1>2, <1>3, <1>4 DEF IInv

(***************************************************************************)
(* A start that keeps the resource table.                                  *)
(***************************************************************************)
LEMMA InitPoolStep ==
    ASSUME IInv, init_shmem_pool PROVE IInv'
<1>1. TypeOK'
  BY PoolAssumption, NoRegionsType, SMT, SMTT(30) DEF IInv, TypeOK, init_shmem_pool
<1>2. BeforeInv'
  BY DEF IInv, BeforeInv, init_shmem_pool, EndOf, FirstRefused, Refused, request
<1>3. ProgressInv'
  BY PoolAssumption, NoRegionsType, SMT, SMTT(30) DEF ProgressInv, init_shmem_pool, EndOf
<1>4. RbufInv'
  BY PoolAssumption, NoRegionsType, SMT, SMTT(30) DEF init_shmem_pool, RbufInv
<1> QED
  BY <1>1, <1>2, <1>3, <1>4 DEF IInv

(***************************************************************************)
(* A start that loads the image.                                           *)
(***************************************************************************)
LEMMA InitAndLoadStep ==
    ASSUME IInv, InitAndLoad PROVE IInv'
<1>1. TypeOK'
  BY PoolAssumption, NoRegionsType, FirmwareDaType, SMT, SMTT(30) DEF IInv, TypeOK, InitAndLoad
<1>2. BeforeInv'
  <2>1. \A s \in Stages : before'[s] = None
    BY NoRegionsType DEF InitAndLoad
  <2>2. 1 .. BufStage \subseteq Stages /\ RbufStage \in Stages
    BY PoolAssumption, SMT, SMTT(30)
  <2> QED
    BY <2>1, <2>2 DEF BeforeInv
<1>3. ProgressInv'
  BY PoolAssumption, NoRegionsType, SMT, SMTT(30) DEF ProgressInv, InitAndLoad, EndOf
<1>4. RbufInv'
  BY PoolAssumption, NoRegionsType, SMT, SMTT(30) DEF InitAndLoad, RbufInv
<1> QED
  BY <1>1, <1>2, <1>3, <1>4 DEF IInv

(***************************************************************************)
(* The end of micad or of the client.                                      *)
(***************************************************************************)
LEMMA ForgetStep ==
    ASSUME IInv, Forget PROVE IInv'
<1>1. TypeOK'
  BY PoolAssumption, NoRegionsType, SMT, SMTT(30) DEF IInv, TypeOK, Forget
<1>2. BeforeInv'
  BY DEF IInv, BeforeInv, Forget, EndOf, FirstRefused, Refused, request
<1>3. ProgressInv'
  BY PoolAssumption, NoRegionsType, SMT, SMTT(30) DEF ProgressInv, Forget
<1>4. RbufInv'
  BY PoolAssumption, NoRegionsType, SMT, SMTT(30) DEF Forget, RbufInv
<1> QED
  BY <1>1, <1>2, <1>3, <1>4 DEF IInv

(***************************************************************************)
(* What the invariant says of the stage a start has reached: the pool      *)
(* stands where the stage before ended, and a stage that got a region      *)
(* earlier gets the same one again.                                        *)
(***************************************************************************)
LEMMA SameAgain ==
    ASSUME IInv, stage \in 1 .. BufStage, before[stage] # None
    PROVE  alloc_shmem_region(unused, request(stage), size[stage]) = before[stage]
<1> DEFINE s == stage
<1>1. s \in Stages /\ s \in 1 .. BufStage
  BY PoolAssumption, SMT, SMTT(30)
<1>2. /\ unused = EndOf(s - 1)
      /\ EndOf(s - 1) <= before[s]
      /\ before[s] + size[s] <= PoolSize
      /\ s \in Vrings => da[s] = shm_pool_virt_to_phys(before[s])
      /\ s = BufStage => before[s] = EndOf(s - 1)
  BY <1>1, PoolAssumption, SMT, SMTT(30) DEF IInv, BeforeInv, ProgressInv, EndOf
<1>3. before[s] \in Nat /\ size[s] \in Nat /\ unused \in Nat
  BY <1>1, RequestType DEF IInv, TypeOK
<1>4. CASE s \in Vrings
  <2>1. request(s) = shm_pool_virt_to_phys(before[s])
    BY <1>2, <1>3, <1>4, PoolAssumption, SMT, SMTT(30) DEF request, shm_pool_virt_to_phys
  <2>2. size[s] > 0
    BY <1>1, <1>4, RequestType DEF IInv
  <2> QED
    BY <1>2, <1>3, <2>1, <2>2, AllocInPlace, SMT, SMTT(30) DEF EndOf
<1>5. CASE s \notin Vrings
  <2>1. s = BufStage /\ request(s) = 0
    BY <1>1, <1>5, PoolAssumption, SMT, SMTT(30) DEF request
  <2> QED
    BY <1>2, <1>3, <2>1, PoolAssumption, SMT, SMTT(30) DEF alloc_shmem_region
<1> QED
  BY <1>4, <1>5

(***************************************************************************)
(* Stages up to the vdev buffer: the region is refused.                    *)
(***************************************************************************)
LEMMA RefusedStep ==
    ASSUME IInv, stage \in 1 .. BufStage,
           alloc_shmem_region(unused, request(stage), size[stage]) = Fail,
           stage' = RbufStage, UNCHANGED <<unused, da, pa, size, got, before>>
    PROVE  IInv'
<1>1. before[stage] = None
  BY SameAgain, PoolAssumption, SMT, SMTT(30) DEF IInv, TypeOK
<1>2. \A s \in stage .. BufStage : before[s] = None
  BY <1>1, SMT, SMTT(30) DEF IInv, BeforeInv
<1>3. FirstRefused(stage) /\ unused = EndOf(stage - 1)
  BY <1>2, PoolAssumption DEF IInv, ProgressInv, FirstRefused, Refused
<1>4. TypeOK'
  BY PoolAssumption, SMT, SMTT(30) DEF IInv, TypeOK
<1>5. BeforeInv'
  BY DEF IInv, BeforeInv, EndOf, FirstRefused, Refused, request
<1>6. ProgressInv'
  <2>1. \A s \in 1 .. BufStage : got[s] = before[s]
    BY <1>2, PoolAssumption, SMT, SMTT(30) DEF IInv, ProgressInv
  <2>2. got[RbufStage] = None
    BY PoolAssumption, SMT, SMTT(30) DEF IInv, ProgressInv
  <2>3. \E k \in 1 .. RbufStage : FirstRefused(k) /\ unused = EndOf(k - 1)
    BY <1>3, PoolAssumption, SMT, SMTT(30)
  <2>4. (\E k \in 1 .. RbufStage : FirstRefused(k) /\ unused = EndOf(k - 1))'
    BY <2>3 DEF EndOf, FirstRefused, Refused, request
  <2> QED
    BY <2>1, <2>2, <2>4, PoolAssumption, SMT, SMTT(30) DEF ProgressInv
<1>7. RbufInv'
  BY DEF IInv, RbufInv, shm_pool_virt_to_phys
<1> QED
  BY <1>4, <1>5, <1>6, <1>7 DEF IInv

(***************************************************************************)
(* Stages up to the vdev buffer: the region is granted.                    *)
(***************************************************************************)
LEMMA GrantedStep ==
    ASSUME IInv, stage \in 1 .. BufStage,
           NEW va, va = alloc_shmem_region(unused, request(stage), size[stage]),
           va # Fail, Take(stage, va),
           da' = IF stage \in Vrings /\ da[stage] = ANY
                 THEN [da EXCEPT ![stage] = shm_pool_virt_to_phys(va)]
                 ELSE da,
           pa' = pa, size' = size, stage' = stage + 1
    PROVE  IInv'
<1>0. /\ stage \in Stages
      /\ stage \in Nat
      /\ 1 .. BufStage \subseteq Stages
      /\ RbufStage \in Stages
      /\ RbufStage \notin 1 .. BufStage
  BY PoolAssumption, SMT, SMTT(30)
<1>1. /\ request(stage) \in Nat
      /\ size[stage] \in Nat
      /\ unused \in Nat
  BY <1>0, RequestType DEF IInv, TypeOK
<1>2. /\ va \in Nat
      /\ unused <= va
      /\ va + size[stage] <= PoolSize
      /\ request(stage) = 0 => va = unused
      /\ request(stage) # 0 => request(stage) = shm_pool_virt_to_phys(va)
  BY <1>1, AllocGranted
<1>3. unused = EndOf(stage - 1)
  BY DEF IInv, ProgressInv
<1>4. stage \in Vrings => da'[stage] = shm_pool_virt_to_phys(va)
  BY <1>0, <1>2, RequestType, PoolAssumption DEF IInv, TypeOK, request
<1>5. TypeOK'
  <2>1. shm_pool_virt_to_phys(va) \in Nat \ {0}
    BY <1>2, PoolAssumption, SMT, SMTT(30) DEF shm_pool_virt_to_phys
  <2>2. da' \in [Vrings -> (Nat \ {0}) \union {ANY}]
    <3>1. CASE stage \in Vrings /\ da[stage] = ANY
      BY <2>1, <3>1 DEF IInv, TypeOK
    <3>2. CASE ~(stage \in Vrings /\ da[stage] = ANY)
      BY <3>2 DEF IInv, TypeOK
    <3> QED
      BY <3>1, <3>2
  <2>3. /\ got' \in [Stages -> Nat \union {None}]
        /\ before' \in [Stages -> Nat \union {None}]
    BY <1>2, Zenon DEF IInv, TypeOK, Take
  <2>4. stage' \in 0 .. DoneStage /\ unused' \in Nat
    BY <1>1, <1>2, PoolAssumption, SMT, SMTT(30) DEF Take
  <2> QED
    BY <2>2, <2>3, <2>4 DEF IInv, TypeOK
<1>6. \A s \in Stages : /\ before'[s] = IF s = stage THEN va ELSE before[s]
                        /\ got'[s] = IF s = stage THEN va ELSE got[s]
  BY DEF IInv, TypeOK, Take
<1>7. \A s \in Stages : s # stage => EndOf(s)' = EndOf(s)
  BY <1>6 DEF EndOf
<1>8. \A s \in Stages : s = stage => EndOf(s)' = va + size[s]
  BY <1>6, PoolAssumption, SMT, SMTT(30) DEF EndOf
<1>zero. EndOf(0) = 0 /\ EndOf(0)' = 0
  BY DEF EndOf
<1>9. before[stage] # None => before' = before /\ da' = da
  <2> SUFFICES ASSUME before[stage] # None PROVE before' = before /\ da' = da
    OBVIOUS
  <2>1. va = before[stage]
    BY SameAgain
  <2>2. stage \in Vrings => da[stage] # ANY
    BY <1>0, PoolAssumption, SMT, SMTT(30) DEF IInv, TypeOK, BeforeInv, shm_pool_virt_to_phys
  <2> QED
    BY <2>1, <2>2, <1>0 DEF Take, IInv, TypeOK
<1>10. \A s \in 1 .. (stage - 1) : before[s] # None
  BY DEF IInv, ProgressInv
<1>11. before[stage] = None => before[RbufStage] = None
  <2> SUFFICES ASSUME before[stage] = None, before[RbufStage] # None PROVE FALSE
    OBVIOUS
  <2>1. PICK k \in 1 .. RbufStage : FirstRefused(k)
    BY DEF IInv, BeforeInv
  <2>2. k = stage
    BY <2>1, <1>10, PoolAssumption, SMT, SMTT(30) DEF FirstRefused
  <2>3. Refused(stage)
    BY <2>1, <2>2, SMT, SMTT(30) DEF FirstRefused
  <2> QED
    BY <2>3, <1>3 DEF Refused
<1>12. \A t \in 0 .. (stage - 1) : EndOf(t) \in Nat /\ EndOf(t) <= EndOf(stage - 1)
  <2> SUFFICES ASSUME NEW t \in 0 .. (stage - 1)
               PROVE  EndOf(t) \in Nat /\ EndOf(t) <= EndOf(stage - 1)
    OBVIOUS
  <2>1. \A u \in 0 .. (stage - 1) : EndOf(u) \in Nat
    <3> SUFFICES ASSUME NEW u \in 0 .. (stage - 1) PROVE EndOf(u) \in Nat
      OBVIOUS
    <3>1. CASE u = 0
      BY <3>1 DEF EndOf
    <3>2. CASE u # 0
      BY <3>2, <1>0, <1>10, EndOfType, PoolAssumption, SMT, SMTT(30) DEF IInv
    <3> QED
      BY <3>1, <3>2
  <2>2. CASE t = stage - 1
    BY <2>1, <2>2, SMT, SMTT(30)
  <2>3. CASE t < stage - 1
    <3> DEFINE u == stage - 1
    <3>1. u \in 1 .. BufStage /\ before[u] # None /\ t \in 0 .. (u - 1)
      BY <2>3, <1>10, PoolAssumption, SMT, SMTT(30)
    <3>2. EndOf(t) <= before[u]
      BY <3>1 DEF IInv, BeforeInv
    <3>3. before[u] \in Nat /\ size[u] \in Nat /\ EndOf(u) = before[u] + size[u]
      BY <3>1, <1>0, EndOfType DEF IInv
    <3> QED
      BY <2>1, <3>2, <3>3, SMT, SMTT(30)
  <2> QED
    BY <2>2, <2>3, SMT, SMTT(30)
<1>13. BeforeInv'
  <2>1. CASE before[stage] # None
    BY <2>1, <1>9, ZenonT(40) DEF IInv, BeforeInv, EndOf, FirstRefused, Refused, request
  <2>2. CASE before[stage] = None
    <3>1. \A s \in (stage + 1) .. BufStage : before[s] = None
      BY <2>2, PoolAssumption, SMT, SMTT(30) DEF IInv, BeforeInv
    <3>2. before'[RbufStage] = None
      BY <2>2, <1>0, <1>6, <1>11
    <3>3. ASSUME NEW s \in 1 .. BufStage, before'[s] # None
          PROVE  /\ \A t \in 1 .. s : before'[t] # None
                 /\ \A t \in 0 .. (s - 1) : EndOf(t)' <= before'[s]
                 /\ EndOf(s)' <= PoolSize
                 /\ s \in Vrings => da'[s] = shm_pool_virt_to_phys(before'[s])
                 /\ s = BufStage => before'[s] = EndOf(s - 1)'
      <4>1. s <= stage
        BY <3>1, <3>3, <1>0, <1>6, PoolAssumption, SMT, SMTT(30)
      <4>2. \A t \in 0 .. (s - 1) : EndOf(t)' = EndOf(t)
        BY <4>1, <1>0, <1>7, <1>zero, PoolAssumption, SMT, SMTT(30)
      <4>3. \A t \in 1 .. s : before'[t] # None
        BY <4>1, <1>0, <1>2, <1>6, <1>10, PoolAssumption, SMT, SMTT(30)
      <4>4. CASE s = stage
        <5>1. before'[s] = va /\ EndOf(s)' = va + size[s]
          BY <4>4, <1>0, <1>6, <1>8
        <5>2. s = BufStage => request(s) = 0
          BY PoolAssumption, SMT, SMTT(30) DEF request
        <5>3. \A t \in 0 .. (s - 1) : EndOf(t) <= va
          BY <4>4, <1>2, <1>3, <1>12, SMT, SMTT(30)
        <5> QED
          BY <4>2, <4>3, <4>4, <5>1, <5>2, <5>3, <1>2, <1>3, <1>4, SMT, SMTT(30)
      <4>5. CASE s # stage
        <5>1. s \in Stages /\ before'[s] = before[s] /\ EndOf(s)' = EndOf(s)
          BY <4>5, <1>0, <1>6, <1>7
        <5>2. s \in Vrings => da'[s] = da[s]
          BY <4>5 DEF IInv, TypeOK
        <5> QED
          BY <3>3, <4>2, <4>3, <5>1, <5>2, SMT, SMTT(30) DEF IInv, BeforeInv
      <4> QED
        BY <4>4, <4>5
    <3> QED
      BY <3>2, <3>3 DEF BeforeInv, shm_pool_virt_to_phys
  <2> QED
    BY <2>1, <2>2
<1>14. ProgressInv'
  <2>1. \A s \in Stages : got'[s] = IF s < stage' THEN before'[s] ELSE None
    <3> SUFFICES ASSUME NEW s \in Stages
                 PROVE  got'[s] = IF s < stage' THEN before'[s] ELSE None
      OBVIOUS
    <3>1. got[s] = IF s < stage THEN before[s] ELSE None
      BY <1>0 DEF IInv, ProgressInv
    <3>2. s \in Nat /\ stage \in Nat /\ stage' = stage + 1
      BY <1>0, PoolAssumption, SMT, SMTT(30)
    <3>3. /\ before'[s] = IF s = stage THEN va ELSE before[s]
          /\ got'[s] = IF s = stage THEN va ELSE got[s]
      BY <1>6
    <3>4. CASE s < stage
      BY <3>1, <3>2, <3>3, <3>4, SMT, SMTT(30)
    <3>5. CASE s = stage
      BY <3>2, <3>3, <3>5, SMT, SMTT(30)
    <3>6. CASE s > stage
      BY <3>1, <3>2, <3>3, <3>6, SMT, SMTT(30)
    <3> QED BY <3>2, <3>4, <3>5, <3>6, SMT, SMTT(30)
  <2>2. \A s \in 1 .. stage : before'[s] # None
    BY <1>0, <1>2, <1>6, <1>10, PoolAssumption, SMT, SMTT(30)
  <2>3. \A s \in Stages : s = stage => unused' = EndOf(s)'
    BY <1>8 DEF Take
  <2>4. stage' \in 1 .. BufStage => unused' = EndOf(stage - 1)'
    BY <2>3, <1>0, SMT, SMTT(30)
  <2>5. CASE stage' \in 1 .. BufStage
    BY <2>1, <2>2, <2>4, <2>5, PoolAssumption, SMT, SMTT(30) DEF ProgressInv
  <2>6. CASE stage' = RbufStage
    <3>1. FirstRefused(RbufStage)'
      BY <2>2, <2>6, PoolAssumption, SMT, SMTT(30) DEF FirstRefused
    <3>2. unused' = EndOf(RbufStage - 1)'
      BY <2>3, <2>6, <1>0, PoolAssumption, SMT, SMTT(30)
    <3>3. \A s \in 1 .. BufStage : got'[s] = before'[s]
      BY <2>1, <2>6, <1>0, PoolAssumption, SMT, SMTT(30)
    <3>4. got'[RbufStage] = None
      BY <2>1, <2>6, <1>0, PoolAssumption, SMT, SMTT(30)
    <3> QED
      BY <2>6, <3>1, <3>2, <3>3, <3>4, PoolAssumption, SMT, SMTT(30) DEF ProgressInv
  <2> QED
    BY <2>5, <2>6, PoolAssumption, SMT, SMTT(30)
<1>15. RbufInv'
  BY <1>0, <1>6 DEF IInv, RbufInv, shm_pool_virt_to_phys
<1> QED
  BY <1>5, <1>13, <1>14, <1>15 DEF IInv

(***************************************************************************)
(* The ring buffers: a second pass finds the pool where the first left it. *)
(***************************************************************************)
LEMMA RbufSameAgain ==
    ASSUME IInv, stage = RbufStage, before[RbufStage] # None
    PROVE  unused = before[RbufStage]
<1>1. PICK k \in 1 .. RbufStage :
          FirstRefused(k) /\ before[RbufStage] = EndOf(k - 1)
  BY DEF IInv, BeforeInv
<1>2. PICK m \in 1 .. RbufStage : FirstRefused(m) /\ unused = EndOf(m - 1)
  BY PoolAssumption, SMT, SMTT(30) DEF IInv, ProgressInv
<1>3. k = m
  BY <1>1, <1>2, PoolAssumption, SMT, SMTT(30) DEF FirstRefused
<1> QED
  BY <1>1, <1>2, <1>3

(***************************************************************************)
(* setup_rbuf_dev(): the ring buffers, granted or refused.                 *)
(***************************************************************************)
LEMMA RbufStep ==
    ASSUME IInv, NEW debug \in BOOLEAN, setup_rbuf_dev(debug) PROVE IInv'
<1>0. /\ RbufStage \in Stages
      /\ 1 .. BufStage \subseteq Stages
      /\ RbufStage \notin 1 .. BufStage
      /\ request(RbufStage) = 0
      /\ size[RbufStage] \in Nat
      /\ unused \in Nat
  BY PoolAssumption, RequestType, SMT, SMTT(30) DEF request, IInv, TypeOK
<1> DEFINE va == alloc_shmem_region(unused, request(RbufStage), size[RbufStage])
<1>1. CASE va # Fail /\ Take(RbufStage, va) /\ pa' = shm_pool_virt_to_phys(va)
  <2>1. va \in Nat /\ va = unused /\ va + size[RbufStage] <= PoolSize
    BY <1>0, <1>1, AllocGranted, SMT, SMTT(30)
  <2> HIDE DEF va
  <2>2. /\ stage = RbufStage /\ stage' = DoneStage
        /\ da' = da /\ size' = size /\ unused' = va + size[RbufStage]
        /\ pa' = shm_pool_virt_to_phys(va)
        /\ got' = [got EXCEPT ![RbufStage] = va]
        /\ before' = [before EXCEPT ![RbufStage] = va]
    BY <1>1 DEF setup_rbuf_dev, Take
  <2>3. TypeOK'
    <3>1. pa' \in Nat
      BY <2>1, <2>2, PoolAssumption, SMT, SMTT(30) DEF shm_pool_virt_to_phys
    <3> QED
      BY <3>1, <2>1, <2>2, <1>0, PoolAssumption, SMT, SMTT(30) DEF IInv, TypeOK
  <2>4. /\ \A s \in 1 .. BufStage : before'[s] = before[s] /\ got'[s] = got[s]
        /\ before'[RbufStage] = va /\ got'[RbufStage] = va
    BY <2>2, <1>0 DEF IInv, TypeOK
  <2>5. \A s \in 0 .. BufStage : EndOf(s)' = EndOf(s)
    BY <2>2, <2>4, PoolAssumption, SMT, SMTT(30) DEF EndOf
  <2>6. PICK m \in 1 .. RbufStage : FirstRefused(m) /\ unused = EndOf(m - 1)
    BY <2>2, PoolAssumption, SMT, SMTT(30) DEF IInv, ProgressInv
  <2>7. FirstRefused(m)' /\ va = EndOf(m - 1)'
    <3>1. m - 1 \in 0 .. BufStage
      BY PoolAssumption, SMT, SMTT(30)
    <3>2. m <= BufStage => Refused(m)'
      BY <3>1, <2>2, <2>5, <2>6 DEF FirstRefused, Refused, request
    <3> QED
      BY <3>1, <3>2, <2>1, <2>4, <2>5, <2>6, PoolAssumption, SMT, SMTT(30) DEF FirstRefused
  <2>8. BeforeInv'
    <3>1. EndOf(RbufStage)' <= PoolSize
      BY <2>1, <2>2, <2>4, PoolAssumption, SMT, SMTT(30) DEF EndOf
    <3>2. ASSUME NEW s \in 1 .. BufStage, before'[s] # None
          PROVE  /\ \A t \in 1 .. s : before'[t] # None
                 /\ \A t \in 0 .. (s - 1) : EndOf(t)' <= before'[s]
                 /\ EndOf(s)' <= PoolSize
                 /\ s \in Vrings => da'[s] = shm_pool_virt_to_phys(before'[s])
                 /\ s = BufStage => before'[s] = EndOf(s - 1)'
      <4>1. \A t \in 0 .. s : EndOf(t)' = EndOf(t)
        BY <2>5, PoolAssumption, SMT, SMTT(30)
      <4> QED
        BY <3>2, <4>1, <2>2, <2>4, PoolAssumption, SMT, SMTT(30) DEF IInv, BeforeInv
    <3> QED
      BY <3>1, <3>2, <2>4, <2>7 DEF BeforeInv, shm_pool_virt_to_phys
  <2>9. ProgressInv'
    BY <2>2, <2>4, PoolAssumption, SMT, SMTT(30) DEF IInv, ProgressInv
  <2>10. RbufInv'
    BY <2>2, <2>4 DEF RbufInv, shm_pool_virt_to_phys
  <2> QED
    BY <2>3, <2>8, <2>9, <2>10 DEF IInv
<1>2. CASE UNCHANGED <<unused, pa, got, before>>
  <2>1. stage = RbufStage /\ stage' = DoneStage /\ da' = da /\ size' = size
    BY DEF setup_rbuf_dev
  <2>2. TypeOK'
    BY <1>2, <2>1, PoolAssumption, SMT, SMTT(30) DEF IInv, TypeOK
  <2>3. BeforeInv'
    BY <1>2, <2>1, ZenonT(40) DEF IInv, BeforeInv, EndOf, FirstRefused, Refused, request
  <2>4. ProgressInv'
    BY <1>2, <2>1, PoolAssumption, SMT, SMTT(30) DEF IInv, ProgressInv
  <2>5. RbufInv'
    BY <1>2 DEF IInv, RbufInv, shm_pool_virt_to_phys
  <2> QED
    BY <2>2, <2>3, <2>4, <2>5 DEF IInv
<1> QED
  BY <1>1, <1>2 DEF setup_rbuf_dev

(***************************************************************************)
(* Every step keeps the invariant.                                         *)
(***************************************************************************)
LEMMA NextIInv == IInv /\ [Next]_vars => IInv'
<1> SUFFICES ASSUME IInv, [Next]_vars PROVE IInv'
  OBVIOUS
<1>1. CASE init_shmem_pool
  BY <1>1, InitPoolStep
<1>2. CASE InitAndLoad
  BY <1>2, InitAndLoadStep
<1>3. CASE SetupVring
  <2>1. stage \in 1 .. BufStage /\ stage \in Vrings
    BY <1>3, PoolAssumption, SMT, SMTT(30) DEF SetupVring
  <2> QED
    BY <1>3, <2>1, RefusedStep, GrantedStep DEF SetupVring
<1>4. CASE SetupVdevBuffer
  <2>1. stage \in 1 .. BufStage /\ stage \notin Vrings /\ stage + 1 = RbufStage
    BY <1>4, PoolAssumption, SMT, SMTT(30) DEF SetupVdevBuffer
  <2> QED
    BY <1>4, <2>1, RefusedStep, GrantedStep, ZenonT(40) DEF SetupVdevBuffer
<1>5. CASE \E debug \in BOOLEAN : setup_rbuf_dev(debug)
  BY <1>5, RbufStep
<1>6. CASE Forget
  BY <1>6, ForgetStep
<1>7. CASE UNCHANGED vars
  <2>1. TypeOK'
    BY <1>7 DEF vars, IInv, TypeOK
  <2>2. BeforeInv'
    BY <1>7 DEF vars, IInv, BeforeInv, EndOf, FirstRefused, Refused, request
  <2>3. ProgressInv'
    BY <1>7 DEF vars, IInv, ProgressInv, EndOf, FirstRefused, Refused, request
  <2>4. RbufInv'
    BY <1>7 DEF vars, IInv, RbufInv, shm_pool_virt_to_phys
  <2> QED
    BY <2>1, <2>2, <2>3, <2>4 DEF IInv
<1> QED
  BY <1>1, <1>2, <1>3, <1>4, <1>5, <1>6, <1>7 DEF Next

(***************************************************************************)
(* The inductive invariant holds in every state of every behaviour: it     *)
(* says how the regions of a start follow each other in the pool, which is *)
(* what makes the properties below true.                                   *)
(***************************************************************************)
THEOREM Invariance == Spec => []IInv
BY InitIInv, NextIInv, PTL DEF Spec

-----------------------------------------------------------------------------
(***************************************************************************)
(* ShmPool's variables always have their types.                            *)
(***************************************************************************)
THEOREM TypeCorrect == Spec => []TypeOK
<1>1. IInv => TypeOK
  BY DEF IInv
<1> QED
  BY <1>1, Invariance, PTL

(***************************************************************************)
(* Of two regions the pool has granted in one start, the later begins at   *)
(* or after the end of the earlier.                                        *)
(***************************************************************************)
LEMMA OrderedRegions ==
    ASSUME IInv, NEW s \in Stages, NEW t \in Stages,
           s < t, got[s] # None, got[t] # None
    PROVE  got[s] + size[s] <= got[t]
<1>1. /\ stage \in 0 .. DoneStage
      /\ s \in 1 .. BufStage
      /\ stage # 0
  BY PoolAssumption, NoRegionsType, SMT, SMTT(30) DEF IInv, TypeOK, ProgressInv
<1>2. got[s] = before[s] /\ before[s] # None /\ EndOf(s) = before[s] + size[s]
  <2>1. got[s] = before[s]
    BY <1>1, PoolAssumption, SMT, SMTT(30) DEF IInv, ProgressInv
  <2> QED
    BY <2>1, EndOfType DEF IInv
<1>3. CASE t \in 1 .. BufStage
  <2>1. got[t] = before[t]
    BY <1>1, <1>3, PoolAssumption, SMT, SMTT(30) DEF IInv, ProgressInv
  <2>2. EndOf(s) <= before[t]
    BY <1>3, <2>1, PoolAssumption, SMT, SMTT(30) DEF IInv, BeforeInv
  <2> QED
    BY <1>2, <2>1, <2>2
<1>4. CASE t = RbufStage
  <2>1. got[t] = before[RbufStage] /\ before[RbufStage] # None
    BY <1>1, <1>4, PoolAssumption, SMT, SMTT(30) DEF IInv, ProgressInv
  <2>2. PICK k \in 1 .. RbufStage :
            FirstRefused(k) /\ before[RbufStage] = EndOf(k - 1)
    BY <2>1 DEF IInv, BeforeInv
  <2>3. s <= k - 1
    BY <1>1, <1>2, <2>2, PoolAssumption, SMT, SMTT(30) DEF FirstRefused
  <2>4. CASE s = k - 1
    <3>1. EndOf(s) = EndOf(k - 1)
      BY <2>4
    <3>2. EndOf(s) \in Nat
      BY <1>2, EndOfType DEF IInv
    <3> QED
      BY <3>1, <3>2, <1>2, <2>1, <2>2, SMT, SMTT(30)
  <2>5. CASE s < k - 1
    <3> DEFINE u == k - 1
    <3>1. u \in 1 .. BufStage /\ u \in Stages /\ s \in 0 .. (u - 1)
      BY <2>5, PoolAssumption, SMT, SMTT(30)
    <3>2. before[u] # None
      BY <3>1, <2>2, SMT, SMTT(30) DEF FirstRefused
    <3>3. EndOf(s) <= before[u]
      BY <3>1, <3>2 DEF IInv, BeforeInv
    <3>4. before[u] \in Nat /\ size[u] \in Nat /\ EndOf(u) = before[u] + size[u]
      BY <3>1, <3>2, EndOfType DEF IInv
    <3>5. EndOf(s) \in Nat
      BY <1>2, EndOfType DEF IInv
    <3> QED
      BY <3>3, <3>4, <3>5, <1>2, <2>1, <2>2, SMT, SMTT(30)
  <2> QED
    BY <2>3, <2>4, <2>5, <1>1, PoolAssumption, SMT, SMTT(30)
<1> QED
  BY <1>3, <1>4, PoolAssumption, SMT, SMTT(30)

(***************************************************************************)
(* For every pool, every firmware and every sequence of crashes, restores  *)
(* and reloads, the regions alloc_shmem_region() hands out stay inside the *)
(* pool and apart from each other.                                         *)
(***************************************************************************)
THEOREM RegionsStaySeparate == Spec => []RegionsSeparate
<1>1. IInv => RegionsSeparate
  <2> SUFFICES ASSUME IInv PROVE RegionsSeparate
    OBVIOUS
  <2>1. ASSUME NEW s \in Stages, got[s] # None
        PROVE  got[s] + size[s] <= PoolSize
    <3>1. /\ stage \in 0 .. DoneStage
          /\ stage # 0
      BY <2>1, PoolAssumption, NoRegionsType DEF IInv, TypeOK, ProgressInv
    <3>2. got[s] = before[s]
      BY <2>1, <3>1, PoolAssumption, SMT, SMTT(30) DEF IInv, ProgressInv
    <3>3. EndOf(s) <= PoolSize
      BY <2>1, <3>2, PoolAssumption, SMT, SMTT(30) DEF IInv, BeforeInv
    <3> QED
      BY <2>1, <3>2, <3>3, EndOfType DEF IInv
  <2> QED
    BY <2>1, OrderedRegions DEF RegionsSeparate
<1> QED
  BY <1>1, Invariance, PTL

(***************************************************************************)
(* For every firmware, the address in the resource table is the one the    *)
(* host's vring is at, or the ring buffers are at.                         *)
(***************************************************************************)
THEOREM TableIsRight == Spec => []TableTellsThePlace
<1>1. IInv => TableTellsThePlace
  <2> SUFFICES ASSUME IInv, NEW i \in Vrings, got[i] # None
               PROVE  da[i] = shm_pool_virt_to_phys(got[i])
    BY DEF TableTellsThePlace, IInv, RbufInv
  <2>1. i \in Stages /\ i \in 1 .. BufStage
    BY PoolAssumption, SMT, SMTT(30)
  <2>2. stage \in 0 .. DoneStage /\ stage # 0
    BY <2>1, PoolAssumption, NoRegionsType DEF IInv, TypeOK, ProgressInv
  <2>3. got[i] = before[i]
    BY <2>1, <2>2, PoolAssumption, SMT, SMTT(30) DEF IInv, ProgressInv
  <2> QED
    BY <2>1, <2>3 DEF IInv, BeforeInv
<1> QED
  BY <1>1, Invariance, PTL

(***************************************************************************)
(* No sequence of crashes and restores moves a region of a remote that was *)
(* not reloaded.                                                           *)
(***************************************************************************)
THEOREM RestoresInPlace == Spec => RestoredInPlace
<1> DEFINE Same == \A s \in Stages :
                      before[s] # None /\ before'[s] # None => before'[s] = before[s]
<1>1. IInv /\ [Next]_vars => [Same]_vars
  <2> SUFFICES ASSUME IInv, Next PROVE Same
    BY DEF vars
  <2>1. CASE init_shmem_pool \/ Forget
    BY <2>1 DEF init_shmem_pool, Forget
  <2>2. CASE InitAndLoad
    BY <2>2, NoRegionsType DEF InitAndLoad
  <2>3. CASE SetupVring \/ SetupVdevBuffer
    <3>1. stage \in 1 .. BufStage
      BY <2>3, PoolAssumption, SMT, SMTT(30) DEF SetupVring, SetupVdevBuffer
    <3> DEFINE va == alloc_shmem_region(unused, request(stage), size[stage])
    <3>2. Take(stage, va) \/ UNCHANGED before
      BY <2>3 DEF SetupVring, SetupVdevBuffer
    <3>3. before[stage] # None => va = before[stage]
      BY <3>1, SameAgain
    <3> QED
      BY <3>2, <3>3, ZenonT(40) DEF Take, IInv, TypeOK
  <2>4. ASSUME NEW debug \in BOOLEAN, setup_rbuf_dev(debug) PROVE Same
    <3> DEFINE va == alloc_shmem_region(unused, request(RbufStage), size[RbufStage])
    <3>1. (va # Fail /\ Take(RbufStage, va)) \/ UNCHANGED before
      BY <2>4 DEF setup_rbuf_dev
    <3>2. request(RbufStage) = 0 /\ unused \in Nat
      BY PoolAssumption, SMT, SMTT(30) DEF request, IInv, TypeOK
    <3>3. va # Fail => va = unused
      BY <3>2 DEF alloc_shmem_region
    <3>4. before[RbufStage] # None => unused = before[RbufStage]
      BY <2>4, RbufSameAgain DEF setup_rbuf_dev
    <3> HIDE DEF va
    <3> QED
      BY <3>1, <3>3, <3>4, ZenonT(40) DEF Take, IInv, TypeOK
  <2> QED
    BY <2>1, <2>2, <2>3, <2>4 DEF Next
<1> QED
  BY <1>1, Invariance, PTL DEF Spec, RestoredInPlace

=============================================================================
