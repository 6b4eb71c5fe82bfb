------------------------------- MODULE ShmPool -------------------------------
(***************************************************************************)
(* The shared memory pool of one client (library/memory/shm_pool.c) and    *)
(* the code that carves the client's devices out of it when it is started: *)
(* setup_vdev() of rpmsg_vdev.c and setup_rbuf_dev() of rbuf_dev.c.        *)
(*                                                                         *)
(* The pool is a bump allocator: it knows the first unused byte and hands  *)
(* out regions at or above it.  The physical address of each vring is      *)
(* written into the resource table, which lies in memory shared with the   *)
(* remote and so survives a crash of micad; a later start that finds the   *)
(* remote alive reads the addresses back and asks the pool for exactly     *)
(* them.  The vdev buffer and the debug ring buffers are always "anywhere".*)
(*                                                                         *)
(* Virtual addresses are offsets into the pool: the pool is mapped at      *)
(* virtual offset 0 and physical address Base.                             *)
(***************************************************************************)
EXTENDS Integers, FiniteSets

CONSTANTS
    Base,        \* physical address of the pool (phys_shmem_start)
    PoolSize,    \* shmem_size; SHM_POOL_SIZE in the code
    NumVrings,   \* num_of_vrings of vdev 0
    Sizes,       \* the numbers of bytes a firmware's table may ask for
    FixedDa,     \* the addresses a firmware may fix a vring at
    ANY          \* FW_RSC_U32_ADDR_ANY

(***************************************************************************)
(* The stages of a start: one per vring, then the vdev buffer, then the    *)
(* pair of debug ring buffers.                                             *)
(***************************************************************************)
Vrings == 1 .. NumVrings
BufStage == NumVrings + 1
RbufStage == NumVrings + 2
Stages == 1 .. RbufStage
DoneStage == NumVrings + 3

(***************************************************************************)
(* A firmware never fixes a vring at physical address 0:                   *)
(* alloc_shmem_region() reads 0 as "anywhere".                             *)
(***************************************************************************)
ASSUME PoolAssumption ==
    /\ Base \in Nat \ {0}
    /\ PoolSize \in Nat
    /\ NumVrings \in Nat \ {0}
    /\ Sizes \subseteq Nat
    /\ FixedDa \subseteq Nat \ {0}
    /\ ANY \notin Nat

VARIABLES
    unused,   \* unused_shmem_start
    da,       \* resource table: the vrings' da fields
    pa,       \* resource table: the ring buffers' pa field; da is the same
    size,     \* resource table: bytes of each vring, the buffer, the rings
    got,      \* got[s]: offset of the region stage s obtained, or None
    stage,    \* the stage the start has reached; 0 when no start is running
    before    \* history: the regions handed out since the firmware was loaded

vars == <<unused, da, pa, size, got, stage, before>>

None == -1
Fail == -2

-----------------------------------------------------------------------------
(***************************************************************************)
(* metal_io_phys_to_virt() on the pool's I/O region: an address outside it *)
(* has no virtual address.                                                 *)
(***************************************************************************)
shm_pool_phys_to_virt(phys) ==
    IF phys \in Base .. (Base + PoolSize - 1) THEN phys - Base ELSE Fail

shm_pool_virt_to_phys(va) == Base + va

\* Faulty variant: the "already allocated" check is missing.
alloc_NoOverlapCheck(free, phys, len) ==
    LET va == IF phys = 0 THEN free ELSE shm_pool_phys_to_virt(phys)
    IN  IF va = Fail \/ va + len > PoolSize THEN Fail ELSE va

(***************************************************************************)
(* What alloc_shmem_region() answers when the first unused byte is free.   *)
(***************************************************************************)
alloc_shmem_region(free, phys, len) ==
    LET va == IF phys = 0 THEN free ELSE shm_pool_phys_to_virt(phys)
    IN  IF va < free \/ va + len > PoolSize THEN Fail ELSE va

(***************************************************************************)
(* The address stage s asks for: a vring's own when the table fixes it.    *)
(***************************************************************************)
request(s) == IF s \in Vrings THEN IF da[s] = ANY THEN 0 ELSE da[s] ELSE 0

(***************************************************************************)
(* Stage s takes the region at va.                                         *)
(***************************************************************************)
Take(s, va) ==
    /\ unused' = va + size[s]
    /\ got' = [got EXCEPT ![s] = va]
    /\ before' = [before EXCEPT ![s] = va]

-----------------------------------------------------------------------------
NoRegions == [s \in Stages |-> None]

FirmwareDa == [Vrings -> FixedDa \union {ANY}]

(***************************************************************************)
(* vring_size() is never 0: even a vring without descriptors has a header. *)
(***************************************************************************)
FirmwareSize == {f \in [Stages -> Sizes] : \A i \in Vrings : f[i] > 0}

Init ==
    /\ unused = 0
    /\ da \in FirmwareDa
    /\ pa = 0
    /\ size \in FirmwareSize
    /\ got = NoRegions
    /\ stage = 0
    /\ before = NoRegions

\* Faulty variant: the pool goes on where the last start left it.
init_pool_NoReset ==
    /\ stage = 0
    /\ got' = NoRegions
    /\ stage' = 1
    /\ UNCHANGED <<unused, da, pa, size, before>>

(***************************************************************************)
(* The start of a client whose remote answered: init_shmem_pool() resets   *)
(* the pool and the resource table in memory is used as it is.             *)
(***************************************************************************)
init_shmem_pool ==
    /\ stage = 0
    /\ unused' = 0
    /\ got' = NoRegions
    /\ stage' = 1
    /\ UNCHANGED <<da, pa, size, before>>

(***************************************************************************)
(* The start of a client whose remote is not there: after                  *)
(* init_shmem_pool() the image, and its resource table, are loaded anew.   *)
(***************************************************************************)
InitAndLoad ==
    /\ stage = 0
    /\ unused' = 0
    /\ got' = NoRegions
    /\ stage' = 1
    /\ da' \in FirmwareDa
    /\ pa' = 0
    /\ size' \in FirmwareSize
    /\ before' = NoRegions

\* Faulty variant: the address found for a vring is not written to the table.
SetupVring_NoWriteBack ==
    /\ stage \in Vrings
    /\ LET va == alloc_shmem_region(unused, request(stage), size[stage])
       IN \/ va # Fail /\ Take(stage, va) /\ stage' = stage + 1
          \/ /\ va = Fail
             /\ stage' = RbufStage
             /\ UNCHANGED <<unused, got, before>>
    /\ UNCHANGED <<da, pa, size>>

(***************************************************************************)
(* One turn of the vring loop of setup_vdev().  A refused region ends      *)
(* setup_vdev(); mica_start() goes on to the ring buffers all the same.    *)
(***************************************************************************)
SetupVring ==
    /\ stage \in Vrings
    /\ LET va == alloc_shmem_region(unused, request(stage), size[stage])
       IN \/ /\ va # Fail
             /\ Take(stage, va)
             /\ da' = IF da[stage] = ANY
                      THEN [da EXCEPT ![stage] = shm_pool_virt_to_phys(va)]
                      ELSE da
             /\ stage' = stage + 1
          \/ /\ va = Fail
             /\ stage' = RbufStage
             /\ UNCHANGED <<unused, da, got, before>>
    /\ UNCHANGED <<pa, size>>

(***************************************************************************)
(* The rest of setup_vdev(): the buffers the vrings' descriptors point to. *)
(***************************************************************************)
SetupVdevBuffer ==
    /\ stage = BufStage
    /\ LET va == alloc_shmem_region(unused, request(BufStage), size[BufStage])
       IN \/ va # Fail /\ Take(BufStage, va)
          \/ va = Fail /\ UNCHANGED <<unused, got, before>>
    /\ stage' = RbufStage
    /\ UNCHANGED <<da, pa, size>>

(***************************************************************************)
(* setup_rbuf_dev(), which mica_start() calls for clients created with     *)
(* debug set only.                                                         *)
(***************************************************************************)
setup_rbuf_dev(debug) ==
    /\ stage = RbufStage
    /\ LET va == alloc_shmem_region(unused, request(RbufStage), size[RbufStage])
       IN \/ /\ debug
             /\ va # Fail
             /\ Take(RbufStage, va)
             /\ pa' = shm_pool_virt_to_phys(va)
          \/ /\ debug => va = Fail
             /\ UNCHANGED <<unused, pa, got, before>>
    /\ stage' = DoneStage
    /\ UNCHANGED <<da, size>>

(***************************************************************************)
(* micad dies, or the client is stopped: the pool's bookkeeping is gone,   *)
(* the resource table is not.                                              *)
(***************************************************************************)
Forget ==
    /\ stage # 0
    /\ stage' = 0
    /\ got' = NoRegions
    /\ UNCHANGED <<unused, da, pa, size, before>>

Next ==
    \/ init_shmem_pool
    \/ InitAndLoad
    \/ SetupVring
    \/ SetupVdevBuffer
    \/ \E debug \in BOOLEAN : setup_rbuf_dev(debug)
    \/ Forget

Spec == Init /\ [][Next]_vars

-----------------------------------------------------------------------------
(***************************************************************************)
(* Type invariant.                                                         *)
(***************************************************************************)
TypeOK ==
    /\ unused \in Nat
    /\ pa \in Nat
    /\ da \in [Vrings -> (Nat \ {0}) \union {ANY}]
    /\ size \in FirmwareSize
    /\ got \in [Stages -> Nat \union {None}]
    /\ stage \in 0 .. DoneStage
    /\ before \in [Stages -> Nat \union {None}]

(***************************************************************************)
(* Regions that are in use at the same time never share a byte and never   *)
(* leave the pool, whatever mixture of fixed and free addresses the        *)
(* resource table asks alloc_shmem_region() for (shm_pool.c:46-77).        *)
(***************************************************************************)
RegionsSeparate ==
    /\ \A s \in Stages : got[s] # None => got[s] + size[s] <= PoolSize
    /\ \A s, t \in Stages :
          /\ s < t
          /\ got[s] # None
          /\ got[t] # None
          => got[s] + size[s] <= got[t]

(***************************************************************************)
(* The address the remote reads in the resource table is where the host    *)
(* placed the vring, both when the host chose the address and when it      *)
(* restored one (rpmsg_vdev.c:58-78), and where it placed the ring buffers *)
(* (rbuf_dev.c:62-64).                                                     *)
(***************************************************************************)
TableTellsThePlace ==
    /\ \A i \in Vrings : got[i] # None => da[i] = shm_pool_virt_to_phys(got[i])
    /\ got[RbufStage] # None => pa = shm_pool_virt_to_phys(got[RbufStage])

(***************************************************************************)
(* A start that restores a live remote gives every region the place it had *)
(* before, also the vdev buffer and the ring buffers, whose addresses the  *)
(* pool does not look up anywhere (rpmsg_vdev.c:81-89, rbuf_dev.c:51).     *)
(* A crash between any two stages must not change that.                    *)
(***************************************************************************)
RestoredInPlace ==
    [][\A s \in Stages :
          before[s] # None /\ before'[s] # None => before'[s] = before[s]]_vars

-----------------------------------------------------------------------------
(***************************************************************************)
(* The inductive invariant behind the properties.  Up to the vdev buffer   *)
(* the stages succeed one after the other until one is refused, and the    *)
(* resource table decides which one.                                       *)
(***************************************************************************)
EndOf(s) == IF s = 0 THEN 0 ELSE before[s] + size[s]

Refused(s) == alloc_shmem_region(EndOf(s - 1), request(s), size[s]) = Fail

FirstRefused(k) ==
    /\ \A s \in 1 .. (k - 1) : before[s] # None
    /\ \A s \in k .. BufStage : before[s] = None
    /\ k <= BufStage => Refused(k)

BeforeInv ==
    /\ \A s \in 1 .. BufStage :
          before[s] # None =>
              /\ \A t \in 1 .. s : before[t] # None
              /\ \A t \in 0 .. (s - 1) : EndOf(t) <= before[s]
              /\ EndOf(s) <= PoolSize
              /\ s \in Vrings => da[s] = shm_pool_virt_to_phys(before[s])
              /\ s = BufStage => before[s] = EndOf(s - 1)
    /\ before[RbufStage] # None =>
          /\ EndOf(RbufStage) <= PoolSize
          /\ \E k \in 1 .. RbufStage :
                FirstRefused(k) /\ before[RbufStage] = EndOf(k - 1)

ProgressInv ==
    /\ stage = 0 => got = NoRegions
    /\ stage \in 1 .. BufStage =>
          /\ unused = EndOf(stage - 1)
          /\ \A s \in Stages :
                got[s] = IF s < stage THEN before[s] ELSE None
          /\ \A s \in 1 .. (stage - 1) : before[s] # None
    /\ stage >= RbufStage =>
          /\ \A s \in 1 .. BufStage : got[s] = before[s]
          /\ stage = RbufStage =>
                /\ got[RbufStage] = None
                /\ \E k \in 1 .. RbufStage :
                      FirstRefused(k) /\ unused = EndOf(k - 1)
          /\ got[RbufStage] \in {None, before[RbufStage]}

RbufInv ==
    got[RbufStage] # None => pa = shm_pool_virt_to_phys(got[RbufStage])

IInv == TypeOK /\ BeforeInv /\ ProgressInv /\ RbufInv

=============================================================================
