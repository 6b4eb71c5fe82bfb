-------------------------- MODULE UserMessagesProofs --------------------------
(***************************************************************************)
(* Proofs about UserMessages, for any number of processes, calls, files    *)
(* and objects: the lock is accounted for, and a call that returns has the *)
(* answer to its own request.                                              *)
(***************************************************************************)
EXTENDS UserMessages, TLAPS

USE ZenonT(10), SMT, SMTT(30)

(* No message is under way in the initial state. *)
LEMMA InitIInv == Init => IInv
<1> USE MessagesAssumption
<1> SUFFICES ASSUME Init PROVE IInv
  OBVIOUS
<1>0. NoData \in Message
  BY DEF Message
<1>1. TypeOK
  <2>1. shm \in Name /\ sem \in Name
    BY SMT, SMTT(30) DEF Init, Name
  <2>2. got \in [User -> Message] /\ request \in Message /\ answer \in Message
    BY <1>0 DEF Init
  <2>3. pc \in [User -> Steps]
    BY DEF Init, Steps
  <2>4. shmOf \in [User -> 0..MaxObjects] /\ semOf \in [User -> 0..MaxObjects]
    BY SMT, SMTT(30) DEF Init
  <2>5. sent \in [User -> Nat] /\ files \in [User -> 0..MaxFiles]
    BY SMT, SMTT(30) DEF Init
  <2>6. toMicad \in [Object -> Nat] /\ toUser \in [Object -> Nat]
    BY DEF Init
  <2> QED BY <2>1, <2>2, <2>3, <2>4, <2>5, <2>6, Zenon DEF Init, TypeOK
<1>2. ObjectInv
  BY DEF Init, ObjectInv
<1>3. LockAccounted
  BY DEF Init, LockAccounted
<1>4. HolderInv /\ TokenInv
  BY DEF Init, HolderInv, TokenInv, InSection, Section
<1>5. OwnAnswer
  BY DEF Init, OwnAnswer
<1> QED BY <1>1, <1>2, <1>3, <1>4, <1>5 DEF IInv

(* A name that can be opened leads to an object, old or new. *)
LEMMA OpenedType ==
    ASSUME NEW name \in Name, CanOpen(name)
    PROVE  /\ Opened(name) \in Name
           /\ Opened(name).linked
           /\ Opened(name).made \in Nat
           /\ name.made \in Nat
           /\ name.linked => Opened(name) = name
           /\ ~name.linked => Opened(name).made = name.made + 1
           /\ ~name.linked => Opened(name).made \in Object
BY MessagesAssumption, SMT, SMTT(30) DEF Name, CanOpen, Opened, Object

(* What a call has open is an object. *)
LEMMA OpenObjects ==
    ASSUME TypeOK, ObjectInv, NEW u \in User
    PROVE  /\ pc[u] # "idle" => shmOf[u] \in Object
           /\ pc[u] \notin {"idle", "sem"} => semOf[u] \in Object
<1>1. shm.made \in 0..MaxObjects /\ sem.made \in 0..MaxObjects
  BY DEF TypeOK, Name
<1>2. \A m \in 0..MaxObjects : \A o : o \in 1..m => o \in 1..MaxObjects
  BY MessagesAssumption, SMT, SMTT(30)
<1> QED BY <1>1, <1>2 DEF ObjectInv, Object

(* Every step keeps the types. *)
LEMMA TypeStep == IInv /\ Next => TypeOK'
<1> USE MessagesAssumption
<1> SUFFICES ASSUME IInv, Next PROVE TypeOK'
  OBVIOUS
<1>0. TypeOK /\ ObjectInv
  BY DEF IInv
<1>1. ASSUME NEW u \in User, UserStep(u) PROVE TypeOK'
  <2>0. \A s \in Steps : [pc EXCEPT ![u] = s] \in [User -> Steps]
    BY <1>0 DEF TypeOK
  <2>a. MessageOf(u) \in Message
    BY <1>0 DEF TypeOK, MessageOf, Message
  <2>1. CASE OpenShm(u)
    BY <1>0, <2>0, <2>1, OpenedType, SMT, SMTT(30)
    DEF TypeOK, OpenShm, Goto, Steps, Name, objects, memory, micad, channel, history
  <2>2. CASE OpenSems(u)
    BY <1>0, <2>0, <2>2, OpenedType
    DEF TypeOK, OpenSems, Goto, Steps, Name, objects, memory, micad, channel, history
  <2>3. CASE Lock(u)
    BY <1>0, <2>0, <2>3, Zenon
    DEF TypeOK, Lock, Goto, Steps, Section, names, memory, micad, channel, history
  <2>4. CASE Copy(u)
    BY <1>0, <2>0, <2>a, <2>4, SMT, SMTT(30)
    DEF TypeOK, Copy, Goto, Steps, Section, names, objects, micad, channel, history
  <2>5. CASE CopyFails(u)
    <3>1. shmOf[u] \in Object
      BY <1>0, <2>5, OpenObjects DEF CopyFails, Goto
    <3> QED
      BY <1>0, <2>0, <2>5, <3>1, SMT, SMTT(30)
      DEF TypeOK, CopyFails, Closed, Goto, Steps, names, objects, memory, micad, channel
  <2>6. CASE Post(u)
    <3>1. semOf[u] \in Object
      BY <1>0, <2>6, OpenObjects DEF Post, Goto
    <3>2. toMicad[semOf[u]] + 1 \in Nat
      BY <1>0, <3>1, SMT, SMTT(30) DEF TypeOK
    <3>3. toMicad' \in [Object -> Nat]
      BY <1>0, <2>6, <3>2, Zenon DEF TypeOK, Post
    <3> QED
      BY <1>0, <2>0, <2>6, <3>3
      DEF TypeOK, Post, Goto, Steps, Section, names, memory, micad, channel, history
  <2>7. CASE Wait(u)
    <3>1. semOf[u] \in Object
      BY <1>0, <2>7, OpenObjects DEF Wait, Goto
    <3>2. toUser[semOf[u]] - 1 \in Nat
      BY <1>0, <2>7, <3>1, SMT, SMTT(30) DEF TypeOK, Wait
    <3> QED
      BY <1>0, <2>0, <2>7, <3>2, Zenon
      DEF TypeOK, Wait, Goto, Steps, Section, names, memory, micad, channel, history
  <2>8. CASE Take(u)
    BY <1>0, <2>0, <2>8
    DEF TypeOK, Take, Goto, Steps, Section, names, objects, memory, micad, channel,
        history
  <2>9. CASE Release(u)
    <3>1. NoData \in Message
      BY DEF Message
    <3>2. got' \in [User -> Message]
      BY <1>0, <2>9, <3>1 DEF TypeOK, Release
    <3>3. shmOf' \in [User -> 0..MaxObjects] /\ semOf' \in [User -> 0..MaxObjects]
      BY <1>0, <2>9, SMT, SMTT(30) DEF TypeOK, Release, Closed
    <3> QED
      BY <1>0, <2>0, <2>9, <3>2, <3>3, Zenon
      DEF TypeOK, Release, Goto, Steps, names, memory, micad, channel, history
  <2> QED
    BY <1>1, <2>1, <2>2, <2>3, <2>4, <2>5, <2>6, <2>7, <2>8, <2>9 DEF UserStep
<1>2. ASSUME NEW u \in User, Kill(u) PROVE TypeOK'
  BY <1>0, <1>2 DEF TypeOK, Kill, names, objects, memory, micad, channel, history
<1>3. CASE umt_service_init
  BY <1>0, <1>3, OpenedType, Zenon
  DEF TypeOK, umt_service_init, ResetLock, Mishap, memory, users, channel
<1>4. CASE umt_service_init_fails
  <2>1. shm' \in Name
    BY <1>0, <1>4, OpenedType, SMT, SMTT(30) DEF TypeOK, umt_service_init_fails
  <2>2. lock' \in [Object -> BOOLEAN]
    BY <1>0, <1>4, Zenon DEF TypeOK, umt_service_init_fails, ResetLock
  <2>3. mishap' \subseteq Mishap
    BY <1>0, <1>4, Zenon DEF TypeOK, umt_service_init_fails, ResetLock, Mishap
  <2> QED
    BY <1>0, <1>4, <2>1, <2>2, <2>3
    DEF TypeOK, umt_service_init_fails, memory, users, channel
<1>5. CASE rpmsg_umt_unbind
  BY <1>0, <1>5, Zenon
  DEF TypeOK, ObjectInv, rpmsg_umt_unbind, Name, Mishap, objects, memory, users
<1>6. CASE rpmsg_umt_tx_task
  <2>1. toMicad[sem.made] - 1 \in Nat
    BY <1>0, <1>6, SMT, SMTT(30) DEF TypeOK, ObjectInv, rpmsg_umt_tx_task
  <2>2. toMicad' \in [Object -> Nat]
    BY <1>0, <1>6, <2>1, Zenon DEF TypeOK, rpmsg_umt_tx_task
  <2>3. outgoing' \in Nat
    BY <1>0, <1>6, SMT, SMTT(30) DEF TypeOK, rpmsg_umt_tx_task
  <2>4. mishap' \subseteq Mishap
    BY <1>0, <1>6, Zenon DEF TypeOK, rpmsg_umt_tx_task, Mishap
  <2> QED
    BY <1>0, <1>6, <2>2, <2>3, <2>4
    DEF TypeOK, rpmsg_umt_tx_task, names, memory, users, micad
<1>7. CASE StaleTaskWakes \/ Crash
  BY <1>0, <1>7, Zenon
  DEF TypeOK, StaleTaskWakes, Crash, names, objects, memory, users, channel, history
<1>8. CASE rpmsg_rx_umt_callback
  <2>1. toUser[sem.made] + 1 \in Nat
    BY <1>0, <1>8, SMT, SMTT(30) DEF TypeOK, ObjectInv, rpmsg_rx_umt_callback
  <2>2. toUser' \in [Object -> Nat]
    BY <1>0, <1>8, <2>1, Zenon DEF TypeOK, rpmsg_rx_umt_callback
  <2> QED
    BY <1>0, <1>8, <2>2, SMT, SMTT(30)
    DEF TypeOK, rpmsg_rx_umt_callback, names, memory, users, micad, history
<1>9. CASE RemoteAnswers
  BY <1>0, <1>9, SMT, SMTT(30) DEF TypeOK, RemoteAnswers, names, objects, users, micad, history
<1>10. CASE AnswerDropped
  BY <1>0, <1>10, SMT, SMTT(30)
  DEF TypeOK, AnswerDropped, names, objects, memory, users, micad, history
<1> QED
  BY <1>1, <1>2, <1>3, <1>4, <1>5, <1>6, <1>7, <1>8, <1>9, <1>10 DEF Next

(* A process that moves on is where it went, and the others where they were. *)
LEMMA Moves ==
    ASSUME TypeOK, NEW u \in User, NEW from, NEW to, Goto(u, from, to)
    PROVE  /\ u \notin dead /\ pc[u] = from
           /\ \A v \in User : pc'[v] = IF v = u THEN to ELSE pc[v]
BY DEF TypeOK, Goto

(* Every step keeps what a call has open among what was made. *)
LEMMA ObjectStep == IInv /\ Next => ObjectInv'
<1> USE MessagesAssumption
<1> SUFFICES ASSUME IInv, Next PROVE ObjectInv'
  OBVIOUS
<1>0. TypeOK /\ ObjectInv
  BY DEF IInv
<1>n. shm.made \in Nat /\ sem.made \in Nat
  BY <1>0, SMT, SMTT(30) DEF TypeOK, Name
<1>1. ASSUME NEW u \in User, UserStep(u) PROVE ObjectInv'
  <2>1. CASE OpenShm(u)
    <3>1. \A v \in User : pc'[v] = IF v = u THEN "sem" ELSE pc[v]
      BY <1>0, <2>1, Moves DEF OpenShm
    <3>2. \A v \in User : shmOf'[v] = IF v = u THEN Opened(shm).made ELSE shmOf[v]
      BY <1>0, <2>1 DEF TypeOK, OpenShm
    <3>3. shm' = Opened(shm) /\ CanOpen(shm) /\ shm \in Name
      BY <1>0, <2>1 DEF TypeOK, OpenShm
    <3>4. /\ shm'.linked /\ shm'.made \in Object /\ shm'.made >= shm.made
          /\ shm'.made \in Nat
      BY <1>0, <1>n, <3>3, OpenedType, SMT, SMTT(30) DEF ObjectInv
    <3>5. \A v \in User : pc'[v] # "idle" => shmOf'[v] \in 1..shm'.made
      <4>1. shm'.made \in 1..shm'.made
        BY <3>4, SMT, SMTT(30) DEF Object
      <4>2. \A o : o \in 1..shm.made => o \in 1..shm'.made
        BY <1>n, <3>4, SMT, SMTT(30)
      <4> QED BY <1>0, <3>1, <3>2, <3>3, <4>1, <4>2 DEF ObjectInv
    <3>6. \A v \in User : pc'[v] \notin {"idle", "sem"} => semOf'[v] \in 1..sem'.made
      BY <1>0, <2>1, <3>1 DEF ObjectInv, OpenShm
    <3>7. \A o \in Object : o > shm'.made => ~lock'[o]
      BY <1>0, <1>n, <2>1, <3>4, SMT, SMTT(30) DEF ObjectInv, OpenShm, objects, Object
    <3> QED
      BY <1>0, <2>1, <3>4, <3>5, <3>6, <3>7
      DEF ObjectInv, OpenShm, objects, micad, channel
  <2>2. CASE OpenSems(u)
    <3>1. pc[u] = "sem" /\ \A v \in User : pc'[v] = IF v = u THEN "spin" ELSE pc[v]
      BY <1>0, <2>2, Moves DEF OpenSems
    <3>2. \A v \in User : semOf'[v] = IF v = u THEN Opened(sem).made ELSE semOf[v]
      BY <1>0, <2>2 DEF TypeOK, OpenSems
    <3>3. sem' = Opened(sem) /\ CanOpen(sem) /\ sem \in Name
      BY <1>0, <2>2 DEF TypeOK, OpenSems
    <3>4. /\ sem'.linked /\ sem'.made \in Object /\ sem'.made >= sem.made
          /\ sem'.made \in Nat
      BY <1>0, <1>n, <3>3, OpenedType, SMT, SMTT(30) DEF ObjectInv
    <3>5. \A v \in User : pc'[v] \notin {"idle", "sem"} => semOf'[v] \in 1..sem'.made
      <4>1. sem'.made \in 1..sem'.made
        BY <3>4, SMT, SMTT(30) DEF Object
      <4>2. \A o : o \in 1..sem.made => o \in 1..sem'.made
        BY <1>n, <3>4, SMT, SMTT(30)
      <4> QED BY <1>0, <3>1, <3>2, <3>3, <4>1, <4>2 DEF ObjectInv
    <3>6. \A v \in User : pc'[v] # "idle" => shmOf'[v] \in 1..shm'.made
      BY <1>0, <2>2, <3>1 DEF ObjectInv, OpenSems
    <3>7. \A o \in Object : o > sem'.made => toMicad'[o] = 0 /\ toUser'[o] = 0
      BY <1>0, <1>n, <2>2, <3>4, SMT, SMTT(30) DEF ObjectInv, OpenSems, objects, Object
    <3> QED
      BY <1>0, <2>2, <3>4, <3>5, <3>6, <3>7
      DEF ObjectInv, OpenSems, objects, micad, channel
  <2>3. CASE Lock(u)
    <3>1. pc[u] = "spin" /\ \A v \in User : pc'[v] = IF v = u THEN "copy" ELSE pc[v]
      BY <1>0, <2>3, Moves DEF Lock
    <3>2. shmOf[u] \in 1..shm.made /\ shm.made \in Nat
      BY <1>0, <1>n, <3>1 DEF ObjectInv
    <3>3. \A o \in Object : o > shm.made => ~lock'[o]
      BY <1>0, <2>3, <3>2, SMT, SMTT(30) DEF TypeOK, ObjectInv, Lock, Object
    <3> QED
      BY <1>0, <2>3, <3>1, <3>3 DEF ObjectInv, Lock, names, micad, channel
  <2>4. CASE Copy(u)
    BY <1>0, <2>4, Moves, SMT, SMTT(30) DEF ObjectInv, Copy, names, objects, micad, channel
  <2>5. CASE CopyFails(u)
    <3>1. \A v \in User : pc'[v] = IF v = u THEN "idle" ELSE pc[v]
      BY <1>0, <2>5, Moves DEF CopyFails
    <3>2. \A v \in User : v # u => shmOf'[v] = shmOf[v] /\ semOf'[v] = semOf[v]
      BY <1>0, <2>5 DEF TypeOK, CopyFails, Closed
    <3> QED
      BY <1>0, <2>5, <3>1, <3>2 DEF ObjectInv, CopyFails, names, objects, micad, channel
  <2>6. CASE Post(u)
    <3>1. pc[u] = "post" /\ \A v \in User : pc'[v] = IF v = u THEN "wait" ELSE pc[v]
      BY <1>0, <2>6, Moves DEF Post
    <3>2. semOf[u] \in 1..sem.made
      BY <1>0, <3>1 DEF ObjectInv
    <3>3. \A o \in Object : o > sem.made => toMicad'[o] = toMicad[o]
      BY <1>0, <1>n, <2>6, <3>2, SMT, SMTT(30) DEF TypeOK, Post, Object
    <3> QED
      BY <1>0, <2>6, <3>1, <3>3 DEF ObjectInv, Post, names, micad, channel
  <2>7. CASE Wait(u)
    <3>1. pc[u] = "wait" /\ \A v \in User : pc'[v] = IF v = u THEN "take" ELSE pc[v]
      BY <1>0, <2>7, Moves DEF Wait
    <3>2. semOf[u] \in 1..sem.made
      BY <1>0, <3>1 DEF ObjectInv
    <3>3. \A o \in Object : o > sem.made => toUser'[o] = toUser[o]
      BY <1>0, <1>n, <2>7, <3>2, SMT, SMTT(30) DEF TypeOK, Wait, Object
    <3> QED
      BY <1>0, <2>7, <3>1, <3>3 DEF ObjectInv, Wait, names, micad, channel
  <2>8. CASE Take(u)
    BY <1>0, <2>8, Moves, SMT, SMTT(30) DEF ObjectInv, Take, names, objects, micad, channel
  <2>9. CASE Release(u)
    <3>1. \A v \in User : pc'[v] = IF v = u THEN "idle" ELSE pc[v]
      BY <1>0, <2>9, Moves DEF Release
    <3>2. \A v \in User : v # u => shmOf'[v] = shmOf[v] /\ semOf'[v] = semOf[v]
      BY <1>0, <2>9 DEF TypeOK, Release, Closed
    <3>3. \A o \in Object : lock'[o] => lock[o]
      BY <1>0, <2>9 DEF TypeOK, Release
    <3> QED
      BY <1>0, <2>9, <3>1, <3>2, <3>3 DEF ObjectInv, Release, names, micad, channel
  <2> QED
    BY <1>1, <2>1, <2>2, <2>3, <2>4, <2>5, <2>6, <2>7, <2>8, <2>9 DEF UserStep

<1>2. ASSUME NEW u \in User, Kill(u) PROVE ObjectInv'
  BY <1>0, <1>2 DEF ObjectInv, Kill, names, objects, micad, channel
<1>3. CASE umt_service_init \/ umt_service_init_fails
  <2>1. /\ shm' = shm \/ (shm' = Opened(shm) /\ CanOpen(shm))
        /\ sem' = sem \/ (sem' = Opened(sem) /\ CanOpen(sem))
    BY <1>3 DEF umt_service_init, umt_service_init_fails
  <2>2. /\ shm'.made \in Nat /\ shm'.made >= shm.made
        /\ sem'.made \in Nat /\ sem'.made >= sem.made
        /\ shm'.linked => shm'.made \in Object
        /\ sem'.linked => sem'.made \in Object
        /\ sem.linked => sem'.linked
    BY <1>0, <1>n, <2>1, OpenedType, SMT, SMTT(30) DEF TypeOK, ObjectInv
  <2>3. \A o \in Object : lock'[o] => lock[o]
    BY <1>0, <1>3 DEF TypeOK, umt_service_init, umt_service_init_fails, ResetLock
  <2>4. UNCHANGED <<toMicad, toUser, users, channel>>
    BY <1>3 DEF umt_service_init, umt_service_init_fails
  <2>5. /\ \A o \in Object : o > shm'.made => ~lock'[o]
        /\ \A o \in Object : o > sem'.made => toMicad'[o] = 0 /\ toUser'[o] = 0
    BY <1>0, <1>n, <2>2, <2>3, <2>4, SMT, SMTT(30) DEF ObjectInv, Object
  <2>6. /\ \A o : o \in 1..shm.made => o \in 1..shm'.made
        /\ \A o : o \in 1..sem.made => o \in 1..sem'.made
    BY <1>n, <2>2, SMT, SMTT(30)
  <2>7. /\ \A u \in User : pc'[u] # "idle" => shmOf'[u] \in 1..shm'.made
        /\ \A u \in User : pc'[u] \notin {"idle", "sem"} => semOf'[u] \in 1..sem'.made
    BY <1>0, <2>4, <2>6 DEF ObjectInv, users
  <2>8. bound' => shm'.linked /\ sem'.linked
    <3>1. CASE umt_service_init
      <4>1. CanOpen(shm) /\ CanOpen(sem) /\ shm' = Opened(shm) /\ sem' = Opened(sem)
        BY <3>1 DEF umt_service_init
      <4>2. shm \in Name /\ sem \in Name
        BY <1>0 DEF TypeOK
      <4> QED BY <4>1, <4>2, OpenedType
    <3>2. CASE umt_service_init_fails
      BY <3>2 DEF umt_service_init_fails
    <3> QED BY <1>3, <3>1, <3>2
  <2>9. ~sem'.linked => outgoing' = 0 /\ incoming' = 0
    BY <1>0, <2>2, <2>4 DEF ObjectInv, channel
  <2> QED BY <2>2, <2>5, <2>7, <2>8, <2>9 DEF ObjectInv
<1>4. CASE rpmsg_umt_unbind
  <2>1. /\ shm'.made = shm.made /\ ~shm'.linked
        /\ sem'.made = sem.made /\ ~sem'.linked
    BY <1>0, <1>4 DEF TypeOK, Name, rpmsg_umt_unbind
  <2> QED BY <1>0, <1>4, <2>1 DEF ObjectInv, rpmsg_umt_unbind, objects, users
<1>5. CASE rpmsg_umt_tx_task
  <2>1. \A o \in Object : o > sem.made => toMicad'[o] = toMicad[o]
    BY <1>0, <1>n, <1>5, SMT, SMTT(30) DEF TypeOK, rpmsg_umt_tx_task, Object
  <2>2. sem.linked
    BY <1>0, <1>5 DEF ObjectInv, rpmsg_umt_tx_task
  <2> QED BY <1>0, <1>5, <2>1, <2>2 DEF ObjectInv, rpmsg_umt_tx_task, names, users, micad
<1>6. CASE StaleTaskWakes \/ Crash
  BY <1>0, <1>6, SMT, SMTT(30) DEF ObjectInv, StaleTaskWakes, Crash, names, objects, users, channel
<1>7. CASE rpmsg_rx_umt_callback
  <2>1. \A o \in Object : o > sem.made => toUser'[o] = toUser[o]
    BY <1>0, <1>n, <1>7, SMT, SMTT(30) DEF TypeOK, rpmsg_rx_umt_callback, Object
  <2>2. sem.linked
    BY <1>0, <1>7 DEF ObjectInv, rpmsg_rx_umt_callback
  <2> QED
    BY <1>0, <1>7, <2>1, <2>2 DEF ObjectInv, rpmsg_rx_umt_callback, names, users, micad
<1>8. CASE RemoteAnswers \/ AnswerDropped
  <2>1. sem.linked
    BY <1>0, <1>8, SMT, SMTT(30) DEF ObjectInv, RemoteAnswers, AnswerDropped
  <2> QED
    BY <1>0, <1>8, <2>1, SMT, SMTT(30)
    DEF ObjectInv, RemoteAnswers, AnswerDropped, names, objects, users, micad
<1> QED BY <1>1, <1>2, <1>3, <1>4, <1>5, <1>6, <1>7, <1>8 DEF Next

(* Every lock that a step leaves held is accounted for. *)
LEMMA LockStep == IInv /\ Next => LockAccounted'
<1> SUFFICES ASSUME IInv, Next PROVE LockAccounted'
  OBVIOUS
<1>0. TypeOK /\ ObjectInv /\ LockAccounted
  BY DEF IInv
<1>1. ASSUME NEW u \in User, NEW from, NEW to \in Steps, Goto(u, from, to),
             from \in Section => to \in Section,
             \A v \in User : v # u => shmOf'[v] = shmOf[v],
             from \in Section => shmOf'[u] = shmOf[u],
             leaked' = leaked, lock' = lock
      PROVE  LockAccounted'
  <2>1. pc[u] = from /\ \A v \in User : pc'[v] = IF v = u THEN to ELSE pc[v]
    BY <1>0, <1>1, Moves
  <2>2. \A v \in User : InSection(v) => InSection(v)' /\ shmOf'[v] = shmOf[v]
    BY <1>1, <2>1 DEF InSection
  <2> QED BY <1>0, <1>1, <2>2 DEF LockAccounted
<1>2. ASSUME NEW u \in User, UserStep(u) PROVE LockAccounted'
  <2>1. CASE OpenShm(u)
    <3>1. \A v \in User : v # u => shmOf'[v] = shmOf[v]
      BY <1>0, <2>1 DEF TypeOK, OpenShm
    <3> QED BY <1>1, <2>1, <3>1 DEF OpenShm, Steps, Section, objects, history
  <2>2. CASE OpenSems(u)
    BY <1>1, <2>2 DEF OpenSems, Steps, Section, objects, history
  <2>3. CASE Lock(u)
    <3>1. pc[u] = "spin" /\ \A v \in User : pc'[v] = IF v = u THEN "copy" ELSE pc[v]
      BY <1>0, <2>3, Moves DEF Lock
    <3>2. shmOf[u] \in Object
      BY <1>0, <3>1, OpenObjects
    <3>3. \A o \in Object : lock'[o] => lock[o] \/ o = shmOf[u]
      BY <1>0, <2>3 DEF TypeOK, Lock
    <3>4. \A v \in User : InSection(v) \/ v = u => InSection(v)'
      BY <3>1 DEF InSection, Section
    <3>5. leaked' = leaked /\ shmOf' = shmOf
      BY <2>3 DEF Lock, history
    <3> QED BY <1>0, <3>3, <3>4, <3>5 DEF LockAccounted
  <2>4. CASE Copy(u)
    BY <1>1, <2>4 DEF Copy, Steps, Section, objects, history
  <2>5. CASE CopyFails(u)
    <3>1. \A v \in User : v # u => pc'[v] = pc[v] /\ shmOf'[v] = shmOf[v]
      BY <1>0, <2>5, Moves, SMT, SMTT(30) DEF TypeOK, CopyFails, Closed
    <3>2. \A v \in User : v # u /\ InSection(v) => InSection(v)'
      BY <3>1 DEF InSection
    <3> QED BY <1>0, <2>5, <3>1, <3>2 DEF LockAccounted, CopyFails, objects
  <2>6. CASE Post(u)
    BY <1>1, <2>6 DEF Post, Steps, Section, history
  <2>7. CASE Wait(u)
    BY <1>1, <2>7 DEF Wait, Steps, Section, history
  <2>8. CASE Take(u)
    BY <1>1, <2>8 DEF Take, Steps, Section, objects, history
  <2>9. CASE Release(u)
    <3>1. \A v \in User : v # u => pc'[v] = pc[v] /\ shmOf'[v] = shmOf[v]
      BY <1>0, <2>9, Moves, SMT, SMTT(30) DEF TypeOK, Release, Closed
    <3>2. \A v \in User : v # u /\ InSection(v) => InSection(v)'
      BY <3>1 DEF InSection
    <3>3. \A o \in Object : lock'[o] => lock[o] /\ o # shmOf[u]
      BY <1>0, <2>9 DEF TypeOK, Release
    <3> QED BY <1>0, <2>9, <3>1, <3>2, <3>3 DEF LockAccounted, Release, history
  <2> QED
    BY <1>2, <2>1, <2>2, <2>3, <2>4, <2>5, <2>6, <2>7, <2>8, <2>9 DEF UserStep
<1>3. CASE UNCHANGED <<pc, shmOf, leaked>> /\ \A o \in Object : lock'[o] => lock[o]
  BY <1>0, <1>3 DEF LockAccounted, InSection
<1>4. ASSUME NEW u \in User, Kill(u) PROVE LockAccounted'
  BY <1>3, <1>4 DEF Kill, objects, history
<1>5. CASE umt_service_init \/ umt_service_init_fails
  <2>1. \A o \in Object : lock'[o] => lock[o]
    BY <1>0, <1>5 DEF TypeOK, umt_service_init, umt_service_init_fails, ResetLock
  <2> QED BY <1>3, <1>5, <2>1 DEF umt_service_init, umt_service_init_fails, users
<1>6. CASE \/ rpmsg_umt_unbind \/ rpmsg_umt_tx_task \/ StaleTaskWakes
           \/ rpmsg_rx_umt_callback \/ Crash \/ RemoteAnswers \/ AnswerDropped
  BY <1>3, <1>6
  DEF rpmsg_umt_unbind, rpmsg_umt_tx_task, StaleTaskWakes, rpmsg_rx_umt_callback,
      Crash, RemoteAnswers, AnswerDropped, users, objects, history
<1> QED BY <1>2, <1>4, <1>5, <1>6 DEF Next

(* No step takes a mishap back. *)
LEMMA SoundBefore == Next /\ Sound' => Sound
<1> SUFFICES ASSUME Next PROVE mishap \subseteq mishap'
  BY DEF Sound
<1>1. ASSUME NEW u \in User, UserStep(u) \/ Kill(u) PROVE mishap' = mishap
  BY <1>1, Zenon DEF UserStep, OpenShm, OpenSems, Lock, Copy, CopyFails, Post, Wait, Take,
              Release, Kill, history
<1>2. CASE umt_service_init \/ umt_service_init_fails
  BY <1>2 DEF umt_service_init, umt_service_init_fails, ResetLock
<1>3. CASE rpmsg_umt_unbind \/ rpmsg_umt_tx_task
  BY <1>3 DEF rpmsg_umt_unbind, rpmsg_umt_tx_task
<1>4. CASE StaleTaskWakes \/ rpmsg_rx_umt_callback \/ Crash
  BY <1>4 DEF StaleTaskWakes, rpmsg_rx_umt_callback, Crash, history
<1>5. CASE RemoteAnswers \/ AnswerDropped
  BY <1>5 DEF RemoteAnswers, AnswerDropped, history
<1> QED BY <1>1, <1>2, <1>3, <1>4, <1>5 DEF Next

(* Every step keeps one process at most inside the section of a lock. *)
LEMMA HolderStep == IInv /\ Next /\ Sound' => HolderInv'
<1> SUFFICES ASSUME IInv, Next, Sound' PROVE HolderInv'
  OBVIOUS
<1>0. TypeOK /\ ObjectInv /\ HolderInv
  BY SoundBefore DEF IInv
<1>1. ASSUME NEW u \in User, NEW from, NEW to \in Steps, Goto(u, from, to),
             from \notin {"idle", "sem"}, to \notin {"idle", "sem"},
             from \in Section <=> to \in Section,
             UNCHANGED <<names, shmOf, semOf, dead, lock>>
      PROVE  HolderInv'
  <2>1. pc[u] = from /\ \A v \in User : pc'[v] = IF v = u THEN to ELSE pc[v]
    BY <1>0, <1>1, Moves
  <2>2. \A v \in User : /\ InSection(v)' <=> InSection(v)
                        /\ pc'[v] # "idle" => pc[v] # "idle"
                        /\ pc'[v] \notin {"idle", "sem"} => pc[v] \notin {"idle", "sem"}
    BY <1>1, <2>1 DEF InSection
  <2> QED BY <1>0, <1>1, <2>2 DEF HolderInv, names
<1>2. ASSUME NEW u \in User, Goto(u, pc[u], "idle"), InSection(u), Closed(u),
             UNCHANGED <<names, dead>>,
             \A o \in Object : o # shmOf[u] => lock'[o] = lock[o]
      PROVE  HolderInv'
  <2>1. \A v \in User : pc'[v] = IF v = u THEN "idle" ELSE pc[v]
    BY <1>0, <1>2, Moves
  <2>2. \A v \in User : v # u => shmOf'[v] = shmOf[v] /\ semOf'[v] = semOf[v]
    BY <1>0, <1>2 DEF TypeOK, Closed
  <2>3. \A v \in User : InSection(v)' <=> InSection(v) /\ v # u
    BY <2>1 DEF InSection, Section
  <2>4. \A v \in User : InSection(v)' => shmOf[v] \in Object /\ shmOf[v] # shmOf[u]
    BY <1>0, <1>2, <2>3, OpenObjects DEF HolderInv, InSection, Section
  <2>5. \A v \in User : InSection(v)' => lock'[shmOf'[v]]
    BY <1>0, <1>2, <2>2, <2>3, <2>4 DEF HolderInv
  <2>6. \A v, w \in User : InSection(v)' /\ InSection(w)' /\ shmOf'[v] = shmOf'[w] => v = w
    BY <1>0, <2>2, <2>3 DEF HolderInv
  <2>7. \A v \in User \ dead : pc'[v] # "idle" => shm.linked /\ shmOf'[v] = shm.made
    BY <1>0, <2>1, <2>2 DEF HolderInv
  <2>8. \A v \in User \ dead :
            pc'[v] \notin {"idle", "sem"} => sem.linked /\ semOf'[v] = sem.made
    BY <1>0, <2>1, <2>2 DEF HolderInv
  <2> QED BY <1>0, <1>2, <2>5, <2>6, <2>7, <2>8 DEF HolderInv, names
<1>3. ASSUME NEW u \in User, UserStep(u) PROVE HolderInv'
  <2>1. CASE OpenShm(u)
    <3>1. /\ pc[u] = "idle" /\ u \notin dead
          /\ \A v \in User : pc'[v] = IF v = u THEN "sem" ELSE pc[v]
      BY <1>0, <2>1, Moves DEF OpenShm
    <3>2. \A v \in User : shmOf'[v] = IF v = u THEN shm'.made ELSE shmOf[v]
      BY <1>0, <2>1 DEF TypeOK, OpenShm
    <3>3. shm'.linked /\ (shm.linked => shm' = shm)
      BY <1>0, <2>1, OpenedType DEF TypeOK, OpenShm
    <3>4. \A v \in User : InSection(v)' <=> InSection(v)
      BY <3>1 DEF InSection, Section
    <3>5. \A v \in User : InSection(v) => v # u
      BY <3>1 DEF InSection, Section
    <3>6. UNCHANGED <<sem, semOf, dead, lock>>
      BY <2>1 DEF OpenShm, objects
    <3>7. \A v \in User \ dead : pc'[v] # "idle" => shmOf'[v] = shm'.made
      BY <1>0, <3>1, <3>2, <3>3 DEF HolderInv
    <3>8. \A v \in User \ dead :
              pc'[v] \notin {"idle", "sem"} => sem.linked /\ semOf[v] = sem.made
      BY <1>0, <3>1 DEF HolderInv
    <3>9. \A v \in User : InSection(v)' => lock[shmOf'[v]]
      BY <1>0, <3>2, <3>4, <3>5 DEF HolderInv
    <3>10. \A v, w \in User :
               InSection(v)' /\ InSection(w)' /\ shmOf'[v] = shmOf'[w] => v = w
      BY <1>0, <3>2, <3>4, <3>5 DEF HolderInv
    <3> QED BY <3>3, <3>6, <3>7, <3>8, <3>9, <3>10 DEF HolderInv
  <2>2. CASE OpenSems(u)
    <3>1. /\ pc[u] = "sem" /\ u \notin dead
          /\ \A v \in User : pc'[v] = IF v = u THEN "spin" ELSE pc[v]
      BY <1>0, <2>2, Moves DEF OpenSems
    <3>2. \A v \in User : semOf'[v] = IF v = u THEN sem'.made ELSE semOf[v]
      BY <1>0, <2>2 DEF TypeOK, OpenSems
    <3>3. sem'.linked /\ (sem.linked => sem' = sem)
      BY <1>0, <2>2, OpenedType DEF TypeOK, OpenSems
    <3>4. \A v \in User : InSection(v)' <=> InSection(v)
      BY <3>1 DEF InSection, Section
    <3>5. UNCHANGED <<shm, shmOf, dead, lock>>
      BY <2>2 DEF OpenSems, objects
    <3>6. shm.linked
      BY <1>0, <3>1 DEF HolderInv
    <3>7. \A v \in User \ dead : pc'[v] # "idle" => shmOf[v] = shm.made
      BY <1>0, <3>1 DEF HolderInv
    <3>8. \A v \in User \ dead : pc'[v] \notin {"idle", "sem"} => semOf'[v] = sem'.made
      BY <1>0, <3>1, <3>2, <3>3 DEF HolderInv
    <3> QED BY <1>0, <3>3, <3>4, <3>5, <3>6, <3>7, <3>8 DEF HolderInv
  <2>3. CASE Lock(u)
    <3>1. /\ pc[u] = "spin" /\ u \notin dead
          /\ \A v \in User : pc'[v] = IF v = u THEN "copy" ELSE pc[v]
      BY <1>0, <2>3, Moves DEF Lock
    <3>2. shmOf[u] \in Object /\ ~lock[shmOf[u]]
      BY <1>0, <2>3, <3>1, OpenObjects DEF Lock
    <3>3. \A o \in Object : lock'[o] <=> lock[o] \/ o = shmOf[u]
      BY <1>0, <2>3 DEF TypeOK, Lock
    <3>4. \A v \in User : InSection(v)' <=> InSection(v) \/ v = u
      BY <3>1 DEF InSection, Section
    <3>5. \A v \in User : InSection(v) => shmOf[v] \in Object /\ shmOf[v] # shmOf[u]
      BY <1>0, <3>2, OpenObjects DEF HolderInv, InSection, Section
    <3>6. UNCHANGED <<names, shmOf, semOf, dead>>
      BY <2>3 DEF Lock
    <3>7. \A v \in User : InSection(v)' => lock'[shmOf[v]]
      BY <1>0, <3>2, <3>3, <3>4, <3>5 DEF HolderInv
    <3>8. \A v, w \in User : InSection(v)' /\ InSection(w)' /\ shmOf[v] = shmOf[w] => v = w
      BY <1>0, <3>4, <3>5 DEF HolderInv
    <3>9. \A v \in User \ dead : pc'[v] # "idle" => shm.linked /\ shmOf[v] = shm.made
      BY <1>0, <3>1 DEF HolderInv
    <3>10. \A v \in User \ dead :
               pc'[v] \notin {"idle", "sem"} => sem.linked /\ semOf[v] = sem.made
      BY <1>0, <3>1 DEF HolderInv
    <3> QED BY <1>0, <3>6, <3>7, <3>8, <3>9, <3>10 DEF HolderInv, names
  <2>4. CASE Copy(u)
    BY <1>1, <2>4 DEF Copy, Steps, Section, objects
  <2>5. CASE CopyFails(u)
    BY <1>2, <2>5, Zenon DEF CopyFails, Goto, InSection, Section, objects
  <2>6. CASE Post(u)
    BY <1>1, <2>6 DEF Post, Steps, Section
  <2>7. CASE Wait(u)
    BY <1>1, <2>7 DEF Wait, Steps, Section
  <2>8. CASE Take(u)
    BY <1>1, <2>8 DEF Take, Steps, Section, objects
  <2>9. CASE Release(u)
    <3>1. \A o \in Object : o # shmOf[u] => lock'[o] = lock[o]
      BY <1>0, <2>9 DEF TypeOK, Release
    <3> QED BY <1>2, <2>9, <3>1, Zenon DEF Release, Goto, InSection, Section
  <2> QED
    BY <1>3, <2>1, <2>2, <2>3, <2>4, <2>5, <2>6, <2>7, <2>8, <2>9 DEF UserStep

<1>4. ASSUME NEW u \in User, Kill(u) PROVE HolderInv'
  BY <1>0, <1>4 DEF HolderInv, InSection, Kill, names, objects
<1>5. CASE umt_service_init \/ umt_service_init_fails
  <2>1. /\ shm' = shm \/ (shm' = Opened(shm) /\ CanOpen(shm))
        /\ sem' = sem \/ (sem' = Opened(sem) /\ CanOpen(sem))
        /\ sem' # sem => shm' = Opened(shm) /\ CanOpen(shm)
    BY <1>5 DEF umt_service_init, umt_service_init_fails
  <2>2. /\ shm.linked => shm' = shm
        /\ sem.linked => sem' = sem
        /\ sem'.linked => shm'.linked
    BY <1>0, <2>1, OpenedType, SMT, SMTT(30) DEF TypeOK, HolderInv
  <2>3. \A o \in Object : lock[o] => lock'[o]
    <3>1. lock' = lock \/ ResetLock
      BY <1>5 DEF umt_service_init, umt_service_init_fails
    <3>2. ResetLock => ~lock[Opened(shm).made]
      BY DEF ResetLock, Sound
    <3> QED BY <1>0, <3>1, <3>2 DEF TypeOK, ResetLock
  <2>4. UNCHANGED users
    BY <1>5 DEF umt_service_init, umt_service_init_fails
  <2>5. \A u \in User : InSection(u) => lock'[shmOf[u]]
    BY <1>0, <2>3, OpenObjects DEF HolderInv, InSection, Section
  <2> QED BY <1>0, <2>2, <2>4, <2>5 DEF HolderInv, InSection, users
<1>6. CASE rpmsg_umt_unbind
  <2>1. \A u \in User \ dead : pc[u] = "idle"
    BY <1>6 DEF rpmsg_umt_unbind, Sound
  <2>2. ~sem'.linked
    BY <1>0, <1>6 DEF TypeOK, Name, rpmsg_umt_unbind
  <2> QED
    BY <1>0, <1>6, <2>1, <2>2 DEF HolderInv, InSection, rpmsg_umt_unbind, users, objects
<1>7. CASE \/ rpmsg_umt_tx_task \/ StaleTaskWakes \/ rpmsg_rx_umt_callback
           \/ Crash \/ RemoteAnswers \/ AnswerDropped
  <2>1. UNCHANGED <<names, users, lock>>
    BY <1>7 DEF rpmsg_umt_tx_task, StaleTaskWakes, rpmsg_rx_umt_callback, Crash, RemoteAnswers,
        AnswerDropped, objects
  <2> QED BY <1>0, <2>1 DEF HolderInv, InSection, names, users
<1> QED BY <1>3, <1>4, <1>5, <1>6, <1>7 DEF Next

(***************************************************************************)
(* While a live process is inside the section, no other one waits for an   *)
(* answer through the objects the names lead to; before it posts and after *)
(* it has waited, nothing is under way.                                    *)
(***************************************************************************)
LEMMA OnlyAsker ==
    ASSUME HolderInv, NEW u \in User \ dead, InSection(u), NEW w \in User, Asks(w)
    PROVE  w = u
BY ZenonT(40) DEF HolderInv, InSection, Section, Asks

(* A live process in the section that does not wait has nothing under way. *)
LEMMA NothingUnderWay ==
    ASSUME TypeOK, ObjectInv, HolderInv, TokenInv,
           NEW u \in User \ dead, InSection(u), pc[u] # "wait"
    PROVE  /\ toMicad[sem.made] = 0 /\ toUser[sem.made] = 0
           /\ outgoing = 0 /\ incoming = 0
<1>1. sem.linked /\ sem.made \in Object
  BY ZenonT(40) DEF HolderInv, ObjectInv, InSection, Section
<1>2. \A w \in User : ~Asks(w)
  BY OnlyAsker DEF Asks
<1>3. toMicad[sem.made] \in Nat /\ toUser[sem.made] \in Nat
      /\ outgoing \in Nat /\ incoming \in Nat
  BY <1>1 DEF TypeOK
<1>4. ~(toMicad[sem.made] + outgoing + (incoming + toUser[sem.made]) > 0)
  BY <1>1, <1>2 DEF TokenInv
<1> QED BY <1>3, <1>4, SMT, SMTT(30)

(* Every step keeps one request at most under way, that of the process that waits. *)
LEMMA TokenStep == IInv /\ Next /\ Sound' => TokenInv'
<1> SUFFICES ASSUME IInv, Next, Sound' PROVE TokenInv'
  OBVIOUS
<1>0. TypeOK /\ ObjectInv /\ HolderInv /\ TokenInv
  BY SoundBefore DEF IInv
<1>t. /\ sem.linked => toMicad[sem.made] \in Nat /\ toUser[sem.made] \in Nat
      /\ outgoing \in Nat /\ incoming \in Nat
  BY <1>0 DEF TypeOK, ObjectInv
\* The process that waits keeps waiting, and nothing under way moves.
<1>1. ASSUME sem'.linked => /\ sem' = sem /\ shm' = shm
                            /\ toMicad' = toMicad /\ toUser' = toUser,
             UNCHANGED <<memory, channel>>,
             \A w \in User : pc[w] = "wait" => /\ pc'[w] = "wait" /\ sent'[w] = sent[w]
                                               /\ shmOf'[w] = shmOf[w]
                                               /\ semOf'[w] = semOf[w],
             \A w \in User \ dead' : pc'[w] \in {"post", "take"} =>
                 w \notin dead /\ pc'[w] = pc[w] /\ sent'[w] = sent[w]
      PROVE  TokenInv'
  <2>1. ASSUME sem'.linked, NEW w \in User, Asks(w)
        PROVE  Asks(w)' /\ MessageOf(w)' = MessageOf(w)
    BY <1>1, <2>1 DEF Asks, MessageOf, memory
  <2>2. \A w \in User \ dead' : /\ pc'[w] = "post" => request' = MessageOf(w)'
                                /\ pc'[w] = "take" => answer' = MessageOf(w)'
    BY <1>0, <1>1 DEF TokenInv, MessageOf, memory
  <2>3. ASSUME sem'.linked,
               toMicad'[sem'.made] + outgoing' + (incoming' + toUser'[sem'.made]) > 0
        PROVE  /\ toMicad'[sem'.made] + outgoing' + (incoming' + toUser'[sem'.made]) = 1
               /\ \E w \in User : /\ Asks(w)'
                                  /\ incoming' + toUser'[sem'.made] = 1 =>
                                         answer' = MessageOf(w)'
    <3>1. UNCHANGED <<sem, toMicad, toUser, outgoing, incoming, answer>>
      BY <1>1, <2>3 DEF channel, memory
    <3>2. PICK w \in User :
              /\ Asks(w)
              /\ incoming + toUser[sem.made] = 1 => answer = MessageOf(w)
      BY <1>0, <2>3, <3>1 DEF TokenInv
    <3>3. toMicad[sem.made] + outgoing + (incoming + toUser[sem.made]) = 1
      BY <1>0, <2>3, <3>1 DEF TokenInv
    <3> QED BY <2>1, <2>3, <3>1, <3>2, <3>3
  <2> QED BY <2>2, <2>3 DEF TokenInv
<1>2. ASSUME NEW u \in User, UserStep(u) PROVE TokenInv'
  <2>1. CASE OpenShm(u)
    <3>1. pc[u] = "idle" /\ \A v \in User : pc'[v] = IF v = u THEN "sem" ELSE pc[v]
      BY <1>0, <2>1, Moves DEF OpenShm
    <3>2. \A v \in User : v # u => shmOf'[v] = shmOf[v] /\ sent'[v] = sent[v]
      BY <1>0, <2>1 DEF TypeOK, OpenShm
    <3>3. sem'.linked => shm' = shm
      BY <1>0, <2>1, OpenedType DEF TypeOK, HolderInv, OpenShm
    <3> QED BY <1>1, <2>1, <3>1, <3>2, <3>3 DEF OpenShm, objects
  <2>2. CASE OpenSems(u)
    <3>1. pc[u] = "sem" /\ \A v \in User : pc'[v] = IF v = u THEN "spin" ELSE pc[v]
      BY <1>0, <2>2, Moves, Zenon DEF OpenSems
    <3>2. \A v \in User : v # u => semOf'[v] = semOf[v]
      BY <1>0, <2>2 DEF TypeOK, OpenSems
    <3>3. CASE sem.linked
      <4>1. sem' = sem
        BY <1>0, <2>2, <3>3, OpenedType DEF TypeOK, OpenSems
      <4> QED BY <1>1, <2>2, <3>1, <3>2, <4>1, Zenon DEF OpenSems, objects
    <3>4. CASE ~sem.linked
      <4>1. sem'.made \in Object /\ sem'.made > sem.made
        BY <1>0, <2>2, <3>4, OpenedType, SMT, SMTT(30) DEF TypeOK, OpenSems
      <4>2. /\ toMicad'[sem'.made] = 0 /\ toUser'[sem'.made] = 0
            /\ outgoing' = 0 /\ incoming' = 0
        BY <1>0, <2>2, <3>4, <4>1, ZenonT(40) DEF ObjectInv, OpenSems, objects, channel
      <4>3. \A w \in User \ dead' : /\ pc'[w] = "post" => request' = MessageOf(w)'
                                    /\ pc'[w] = "take" => answer' = MessageOf(w)'
        BY <1>0, <2>2, <3>1 DEF TokenInv, MessageOf, OpenSems, memory
      <4>4. toMicad'[sem'.made] + outgoing' + (incoming' + toUser'[sem'.made]) = 0
        BY <4>2, SMT, SMTT(30)
      <4>5. ~(toMicad'[sem'.made] + outgoing' + (incoming' + toUser'[sem'.made]) > 0)
        BY <4>4, SMT, SMTT(30)
      <4> QED BY <4>3, <4>5, Zenon DEF TokenInv
    <3> QED BY <3>3, <3>4
  <2>3. CASE Lock(u)
    <3>1. pc[u] = "spin" /\ \A v \in User : pc'[v] = IF v = u THEN "copy" ELSE pc[v]
      BY <1>0, <2>3, Moves DEF Lock
    <3> QED BY <1>1, <2>3, <3>1 DEF Lock, names

  <2>4. CASE Copy(u)
    <3>1. /\ pc[u] = "copy" /\ u \in User \ dead
          /\ \A v \in User : pc'[v] = IF v = u THEN "post" ELSE pc[v]
      BY <1>0, <2>4, Moves DEF Copy
    <3>2. InSection(u)
      BY <3>1 DEF InSection, Section
    <3>3. /\ toMicad[sem.made] = 0 /\ toUser[sem.made] = 0
          /\ outgoing = 0 /\ incoming = 0
      BY <1>0, <3>1, <3>2, NothingUnderWay
    <3>4. UNCHANGED <<sem, toMicad, toUser, outgoing, incoming, answer, sent, dead>>
      BY <2>4 DEF Copy, names, objects, channel
    <3>5. \A v \in User \ dead : pc'[v] = "post" => v = u
      BY <1>0, <3>1, <3>2, SMT, SMTT(30) DEF HolderInv, InSection, Section
    <3>6. request' = MessageOf(u)'
      BY <2>4, <3>4 DEF Copy, MessageOf
    <3>7. \A v \in User \ dead : pc'[v] = "take" => answer' = MessageOf(v)'
      BY <1>0, <3>1, <3>4 DEF TokenInv, MessageOf
    <3> QED BY <3>3, <3>4, <3>5, <3>6, <3>7, SMT, SMTT(30) DEF TokenInv
  <2>5. CASE CopyFails(u)
    <3>1. pc[u] = "copy" /\ \A v \in User : pc'[v] = IF v = u THEN "idle" ELSE pc[v]
      BY <1>0, <2>5, Moves DEF CopyFails
    <3>2. \A v \in User : v # u => shmOf'[v] = shmOf[v] /\ semOf'[v] = semOf[v]
      BY <1>0, <2>5 DEF TypeOK, CopyFails, Closed
    <3> QED BY <1>1, <2>5, <3>1, <3>2 DEF CopyFails, names, objects
  <2>6. CASE Post(u)
    <3>1. /\ pc[u] = "post" /\ u \in User \ dead
          /\ \A v \in User : pc'[v] = IF v = u THEN "wait" ELSE pc[v]
      BY <1>0, <2>6, Moves DEF Post
    <3>2. InSection(u)
      BY <3>1 DEF InSection, Section
    <3>3. /\ toMicad[sem.made] = 0 /\ toUser[sem.made] = 0
          /\ outgoing = 0 /\ incoming = 0
      BY <1>0, <3>1, <3>2, NothingUnderWay
    <3>4. /\ shmOf[u] = shm.made /\ semOf[u] = sem.made /\ sem.made \in Object
      BY <1>0, <3>1 DEF HolderInv, ObjectInv
    <3>5. toMicad'[sem.made] = 1
      BY <1>0, <2>6, <3>3, <3>4, SMT, SMTT(30) DEF TypeOK, Post
    <3>6. UNCHANGED <<shm, sem, toUser, request, answer, shmOf, semOf, sent, dead,
                      outgoing, incoming>>
      BY <2>6 DEF Post, names, memory, channel
    <3>7. Asks(u)'
      BY <1>0, <3>1, <3>4, <3>6 DEF Asks, TokenInv, MessageOf
    <3>8. \A v \in User \ dead : /\ pc'[v] = "post" => request' = MessageOf(v)'
                                 /\ pc'[v] = "take" => answer' = MessageOf(v)'
      BY <1>0, <3>1, <3>6 DEF TokenInv, MessageOf
    <3> QED BY <3>3, <3>5, <3>6, <3>7, <3>8, SMT, SMTT(30) DEF TokenInv
  <2>7. CASE Wait(u)
    <3>1. /\ pc[u] = "wait" /\ u \in User \ dead
          /\ \A v \in User : pc'[v] = IF v = u THEN "take" ELSE pc[v]
      BY <1>0, <2>7, Moves DEF Wait
    <3>2. InSection(u)
      BY <3>1 DEF InSection, Section
    <3>3. sem.linked /\ semOf[u] = sem.made /\ sem.made \in Object
      BY <1>0, <3>1 DEF HolderInv, ObjectInv
    <3>4. toUser[sem.made] > 0
      BY <2>7, <3>3 DEF Wait
    <3>5. /\ toMicad[sem.made] + outgoing + (incoming + toUser[sem.made]) = 1
          /\ \E w \in User : /\ Asks(w)
                             /\ incoming + toUser[sem.made] = 1 => answer = MessageOf(w)
      <4>1. toMicad[sem.made] + outgoing + (incoming + toUser[sem.made]) > 0
        BY <1>t, <3>3, <3>4, SMT, SMTT(30)
      <4> QED BY <1>0, <3>3, <4>1 DEF TokenInv
    <3>6. /\ toMicad[sem.made] = 0 /\ toUser[sem.made] = 1
          /\ outgoing = 0 /\ incoming = 0
      BY <1>t, <3>3, <3>4, <3>5, SMT, SMTT(30)
    <3>7. answer = MessageOf(u)
      BY <1>0, <3>1, <3>2, <3>5, <3>6, OnlyAsker, SMT, SMTT(30)
    <3>8. toUser'[sem.made] = 0
      BY <1>0, <2>7, <3>3, <3>6, SMT, SMTT(30) DEF TypeOK, Wait
    <3>9. UNCHANGED <<sem, toMicad, request, answer, sent, dead, outgoing, incoming>>
      BY <2>7 DEF Wait, names, memory, channel
    <3>10. \A v \in User \ dead : /\ pc'[v] = "post" => request' = MessageOf(v)'
                                  /\ pc'[v] = "take" => answer' = MessageOf(v)'
      BY <1>0, <3>1, <3>7, <3>9 DEF TokenInv, MessageOf
    <3> QED BY <3>6, <3>8, <3>9, <3>10, SMT, SMTT(30) DEF TokenInv
  <2>8. CASE Take(u)
    <3>1. pc[u] = "take" /\ \A v \in User : pc'[v] = IF v = u THEN "release" ELSE pc[v]
      BY <1>0, <2>8, Moves DEF Take
    <3> QED BY <1>1, <2>8, <3>1 DEF Take, names, objects
  <2>9. CASE Release(u)
    <3>1. pc[u] = "release" /\ \A v \in User : pc'[v] = IF v = u THEN "idle" ELSE pc[v]
      BY <1>0, <2>9, Moves DEF Release
    <3>2. \A v \in User : v # u => shmOf'[v] = shmOf[v] /\ semOf'[v] = semOf[v]
      BY <1>0, <2>9 DEF TypeOK, Release, Closed
    <3> QED BY <1>1, <2>9, <3>1, <3>2 DEF Release, names
  <2> QED
    BY <1>2, <2>1, <2>2, <2>3, <2>4, <2>5, <2>6, <2>7, <2>8, <2>9 DEF UserStep

<1>3. ASSUME NEW u \in User, Kill(u) PROVE TokenInv'
  BY <1>1, <1>3 DEF Kill, names, objects
<1>4. CASE umt_service_init \/ umt_service_init_fails
  <2>1. UNCHANGED <<toMicad, toUser, memory, users, channel>>
    BY <1>4 DEF umt_service_init, umt_service_init_fails
  <2>2. /\ shm' = shm \/ (shm' = Opened(shm) /\ CanOpen(shm))
        /\ sem' = sem \/ (sem' = Opened(sem) /\ CanOpen(sem))
    BY <1>4 DEF umt_service_init, umt_service_init_fails
  <2>3. CASE sem.linked \/ sem' = sem
    <3>1. sem'.linked => sem' = sem /\ shm' = shm
      BY <1>0, <2>2, <2>3, OpenedType DEF TypeOK, HolderInv
    <3> QED BY <1>1, <2>1, <3>1 DEF users
  <2>4. CASE ~sem.linked /\ sem' # sem
    <3>1. sem'.made \in Object /\ sem'.made > sem.made
      BY <1>0, <2>2, <2>4, OpenedType, SMT, SMTT(30) DEF TypeOK
    <3>2. /\ toMicad'[sem'.made] = 0 /\ toUser'[sem'.made] = 0
          /\ outgoing' = 0 /\ incoming' = 0
      BY <1>0, <2>1, <2>4, <3>1 DEF ObjectInv, channel
    <3>3. \A w \in User \ dead' : /\ pc'[w] = "post" => request' = MessageOf(w)'
                                  /\ pc'[w] = "take" => answer' = MessageOf(w)'
      BY <1>0, <2>1 DEF TokenInv, MessageOf, memory, users
    <3>4. toMicad'[sem'.made] + outgoing' + (incoming' + toUser'[sem'.made]) = 0
      BY <3>2, SMT, SMTT(30)
    <3>5. ~(toMicad'[sem'.made] + outgoing' + (incoming' + toUser'[sem'.made]) > 0)
      BY <3>4, SMT, SMTT(30)
    <3> QED BY <3>3, <3>5, Zenon DEF TokenInv
  <2> QED BY <2>3, <2>4
<1>5. CASE rpmsg_umt_unbind
  <2>1. \A u \in User \ dead' : pc'[u] = "idle"
    BY <1>5 DEF rpmsg_umt_unbind, Sound, users
  <2>2. ~sem'.linked
    BY <1>0, <1>5 DEF TypeOK, Name, rpmsg_umt_unbind
  <2> QED BY <2>1, <2>2 DEF TokenInv
<1>6. CASE StaleTaskWakes \/ Crash
  BY <1>1, <1>6 DEF StaleTaskWakes, Crash, names, objects, users
\* Something under way moves on, or is lost.
<1>7. ASSUME UNCHANGED <<shm, sem, users, request>>,
             sem.linked => toMicad'[sem.made] \in Nat /\ toUser'[sem.made] \in Nat,
             outgoing' \in Nat, incoming' \in Nat,
             sem.linked =>
                 LET asked == toMicad[sem.made] + outgoing
                     answered == incoming + toUser[sem.made]
                     asked1 == toMicad'[sem.made] + outgoing'
                     answered1 == incoming' + toUser'[sem.made]
                 IN  /\ asked1 + answered1 <= asked + answered
                     /\ \/ answer' = answer /\ answered1 <= answered
                        \/ answer' = request /\ asked > 0,
             answer' = answer \/ sem.linked
      PROVE  TokenInv'
  <2>1. \A u \in User : (Asks(u)' <=> Asks(u)) /\ MessageOf(u)' = MessageOf(u)
    BY <1>7, Zenon DEF Asks, MessageOf, users
  <2> DEFINE asked == toMicad[sem.made] + outgoing
             answered == incoming + toUser[sem.made]
             asked1 == toMicad'[sem.made] + outgoing'
             answered1 == incoming' + toUser'[sem.made]
  <2>2. ASSUME sem.linked, asked1 + answered1 > 0
        PROVE  /\ asked1 + answered1 = 1
               /\ \E u \in User : Asks(u) /\ (answered1 = 1 => answer' = MessageOf(u))
    <3>1. /\ asked \in Nat /\ answered \in Nat /\ asked1 \in Nat /\ answered1 \in Nat
      BY <1>t, <1>7, <2>2, SMT, SMTT(30)
    <3>2. asked1 + answered1 <= asked + answered
      BY <1>7, <2>2
    <3>3. \/ answer' = answer /\ answered1 <= answered
          \/ answer' = request /\ asked > 0
      BY <1>7, <2>2
    <3> HIDE DEF asked, answered, asked1, answered1
    <3>4. asked + answered > 0
      BY <2>2, <3>1, <3>2, SMT, SMTT(30)
    <3>5. /\ asked + answered = 1
          /\ \E u \in User : Asks(u) /\ (answered = 1 => answer = MessageOf(u))
      BY <1>0, <2>2, <3>4 DEF TokenInv, asked, answered
    <3>6. asked1 + answered1 = 1
      BY <2>2, <3>1, <3>2, <3>5, SMT, SMTT(30)
    <3>7. answered1 = 1 => answered = 1 \/ answer' = request
      BY <3>1, <3>3, <3>5, SMT, SMTT(30)
    <3>8. answered = 1 => answer' = answer
      BY <3>1, <3>3, <3>5, SMT, SMTT(30)
    <3> QED BY <3>5, <3>6, <3>7, <3>8 DEF Asks
  <2>3. \A u \in User \ dead : pc[u] = "take" => answer' = answer
    <3> SUFFICES ASSUME NEW u \in User \ dead, pc[u] = "take", sem.linked
                 PROVE  answer' = answer
      BY <1>7
    <3>1. /\ toMicad[sem.made] = 0 /\ outgoing = 0
      BY <1>0, NothingUnderWay DEF InSection, Section
    <3> QED BY <1>7, <3>1, SMT, SMTT(30)
  <2>4. \A u \in User \ dead' : /\ pc'[u] = "post" => request' = MessageOf(u)'
                                /\ pc'[u] = "take" => answer' = MessageOf(u)'
    BY <1>0, <1>7, <2>1, <2>3 DEF TokenInv, users
  <2>5. sem' = sem /\ dead' = dead
    BY <1>7 DEF users
  <2>6. ASSUME sem'.linked, asked1 + answered1 > 0
        PROVE  /\ asked1 + answered1 = 1
               /\ \E u \in User : Asks(u)' /\ (answered1 = 1 => answer' = MessageOf(u)')
    <3> HIDE DEF asked1, answered1
    <3>1. /\ asked1 + answered1 = 1
          /\ \E u \in User : Asks(u) /\ (answered1 = 1 => answer' = MessageOf(u))
      BY <2>2, <2>5, <2>6
    <3> QED BY <2>1, <3>1, Zenon
  <2>7. /\ asked1 = (toMicad[sem.made] + outgoing)'
        /\ answered1 = (incoming + toUser[sem.made])'
    BY <2>5
  <2> HIDE DEF asked1, answered1
  <2> QED BY <2>4, <2>6, <2>7, Zenon DEF TokenInv
<1>8. CASE rpmsg_umt_tx_task
  <2>1. sem.linked /\ sem.made \in Object
    BY <1>0, <1>8, Zenon DEF ObjectInv, rpmsg_umt_tx_task
  <2>2. toMicad'[sem.made] = toMicad[sem.made] - 1 /\ toMicad[sem.made] > 0
    BY <1>0, <1>8, <2>1 DEF TypeOK, rpmsg_umt_tx_task
  <2>3. UNCHANGED <<shm, sem, users, request, answer, toUser, incoming>>
    BY <1>8 DEF rpmsg_umt_tx_task, names, memory
  <2>4. outgoing' = outgoing + 1 \/ outgoing' = outgoing
    BY <1>8 DEF rpmsg_umt_tx_task
  <2>5. /\ toMicad'[sem.made] \in Nat /\ toUser'[sem.made] \in Nat
        /\ outgoing' \in Nat /\ incoming' \in Nat
    BY <1>t, <2>1, <2>2, <2>3, <2>4, SMT, SMTT(30)
  <2>6. LET asked == toMicad[sem.made] + outgoing
            answered == incoming + toUser[sem.made]
            asked1 == toMicad'[sem.made] + outgoing'
            answered1 == incoming' + toUser'[sem.made]
        IN  /\ asked1 + answered1 <= asked + answered
            /\ \/ answer' = answer /\ answered1 <= answered
               \/ answer' = request /\ asked > 0
    BY <1>t, <2>1, <2>2, <2>3, <2>4, SMT, SMTT(30)
  <2>7. UNCHANGED <<shm, sem, users, request>> /\ (answer' = answer \/ sem.linked)
    BY <2>1, <2>3
  <2> QED BY <1>7, <2>1, <2>5, <2>6, <2>7
<1>9. CASE rpmsg_rx_umt_callback
  <2>1. sem.linked /\ sem.made \in Object
    BY <1>0, <1>9 DEF ObjectInv, rpmsg_rx_umt_callback
  <2>2. toUser'[sem.made] = toUser[sem.made] + 1
    BY <1>0, <1>9, <2>1 DEF TypeOK, rpmsg_rx_umt_callback
  <2>3. UNCHANGED <<shm, sem, users, request, answer, toMicad, outgoing>>
    BY <1>9 DEF rpmsg_rx_umt_callback, names, memory
  <2>4. incoming' = incoming - 1 /\ incoming > 0
    BY <1>9 DEF rpmsg_rx_umt_callback
  <2>5. /\ toMicad'[sem.made] \in Nat /\ toUser'[sem.made] \in Nat
        /\ outgoing' \in Nat /\ incoming' \in Nat
    BY <1>t, <2>1, <2>2, <2>3, <2>4, SMT, SMTT(30)
  <2>6. LET asked == toMicad[sem.made] + outgoing
            answered == incoming + toUser[sem.made]
            asked1 == toMicad'[sem.made] + outgoing'
            answered1 == incoming' + toUser'[sem.made]
        IN  /\ asked1 + answered1 <= asked + answered
            /\ \/ answer' = answer /\ answered1 <= answered
               \/ answer' = request /\ asked > 0
    BY <1>t, <2>1, <2>2, <2>3, <2>4, SMT, SMTT(30)
  <2>7. UNCHANGED <<shm, sem, users, request>> /\ (answer' = answer \/ sem.linked)
    BY <2>1, <2>3
  <2> QED BY <1>7, <2>1, <2>5, <2>6, <2>7
<1>10. CASE RemoteAnswers \/ AnswerDropped
  <2>1. sem.linked
    <3>1. outgoing > 0 \/ incoming > 0
      BY <1>10 DEF RemoteAnswers, AnswerDropped
    <3>2. ~(outgoing = 0 /\ incoming = 0)
      BY <3>1, SMT, SMTT(30)
    <3> QED BY <1>0, <3>2, Zenon DEF ObjectInv
  <2>2. UNCHANGED <<shm, sem, users, request, toMicad, toUser>>
    BY <1>10 DEF RemoteAnswers, AnswerDropped, names, objects, memory
  <2>3. \/ /\ outgoing > 0 /\ outgoing' = outgoing - 1 /\ incoming' = incoming + 1
           /\ answer' = request
        \/ /\ incoming > 0 /\ outgoing' = outgoing /\ incoming' = incoming - 1
           /\ answer' = answer
    BY <1>10 DEF RemoteAnswers, AnswerDropped, memory
  <2>5. /\ toMicad'[sem.made] \in Nat /\ toUser'[sem.made] \in Nat
        /\ outgoing' \in Nat /\ incoming' \in Nat
    BY <1>t, <2>1, <2>2, <2>3, SMT, SMTT(30)
  <2>6. LET asked == toMicad[sem.made] + outgoing
            answered == incoming + toUser[sem.made]
            asked1 == toMicad'[sem.made] + outgoing'
            answered1 == incoming' + toUser'[sem.made]
        IN  /\ asked1 + answered1 <= asked + answered
            /\ \/ answer' = answer /\ answered1 <= answered
               \/ answer' = request /\ asked > 0
    BY <1>t, <2>1, <2>2, <2>3, SMT, SMTT(30)
  <2>7. UNCHANGED <<shm, sem, users, request>> /\ (answer' = answer \/ sem.linked)
    BY <2>1, <2>2
  <2> QED BY <1>7, <2>1, <2>5, <2>6, <2>7
<1> QED BY <1>2, <1>3, <1>4, <1>5, <1>6, <1>8, <1>9, <1>10 DEF Next

(* Every answer taken is the one to the message sent. *)
LEMMA AnswerStep == IInv /\ Next => OwnAnswer'
<1> SUFFICES ASSUME IInv, Next, Sound', NEW v \in User, pc'[v] = "release"
             PROVE  got'[v] = MessageOf(v)'
  BY DEF OwnAnswer
<1>0. TypeOK /\ TokenInv /\ (pc[v] = "release" => got[v] = MessageOf(v))
  BY SoundBefore DEF IInv, OwnAnswer
<1>1. CASE pc[v] = "release" /\ got'[v] = got[v] /\ sent'[v] = sent[v]
  BY <1>0, <1>1 DEF MessageOf
<1>2. ASSUME NEW u \in User, UserStep(u) PROVE got'[v] = MessageOf(v)'
  <2>1. CASE Take(u)
    <3>1. /\ u \in User \ dead /\ pc[u] = "take"
          /\ \A w \in User : pc'[w] = IF w = u THEN "release" ELSE pc[w]
      BY <1>0, <2>1, Moves DEF Take
    <3>2. got'[v] = IF v = u THEN answer ELSE got[v]
      BY <1>0, <2>1 DEF TypeOK, Take
    <3>3. answer = MessageOf(u)
      BY <1>0, <3>1 DEF TokenInv
    <3> QED BY <1>0, <2>1, <3>1, <3>2, <3>3 DEF Take, MessageOf
  <2>2. CASE Release(u)
    <3>0. \A w \in User : pc'[w] = IF w = u THEN "idle" ELSE pc[w]
      BY <1>0, <2>2, Moves, ZenonT(40) DEF Release
    <3>1. v # u /\ pc'[v] = pc[v]
      BY <3>0, ZenonT(40)
    <3> QED BY <1>0, <1>1, <2>2, <3>1 DEF TypeOK, Release
  <2>3. CASE OpenShm(u)
    <3>0. \A w \in User : pc'[w] = IF w = u THEN "sem" ELSE pc[w]
      BY <1>0, <2>3, Moves, Zenon DEF OpenShm
    <3>1. v # u /\ pc'[v] = pc[v]
      BY <3>0
    <3> QED BY <1>0, <1>1, <2>3, <3>1, ZenonT(40) DEF TypeOK, OpenShm
  <2>4. CASE \/ OpenSems(u) \/ Lock(u) \/ Copy(u) \/ CopyFails(u) \/ Post(u) \/ Wait(u)
    <3>1. PICK from, to \in Steps : to # "release" /\ Goto(u, from, to)
      BY <2>4, Zenon DEF OpenSems, Lock, Copy, CopyFails, Post, Wait, Steps, Section
    <3>2. pc[v] = "release"
      BY <1>0, <3>1, Moves
    <3>3. UNCHANGED <<got, sent>>
      BY <2>4, Zenon DEF OpenSems, Lock, Copy, CopyFails, Post, Wait
    <3> QED BY <1>1, <3>2, <3>3
  <2> QED BY <1>2, <2>1, <2>2, <2>3, <2>4, Zenon DEF UserStep
<1>3. CASE UNCHANGED <<pc, got, sent>>
  BY <1>1, <1>3
<1>4. ASSUME NEW u \in User, Kill(u) PROVE got'[v] = MessageOf(v)'
  BY <1>3, <1>4 DEF Kill
<1>5. CASE \/ umt_service_init \/ umt_service_init_fails \/ rpmsg_umt_unbind
           \/ rpmsg_umt_tx_task \/ StaleTaskWakes \/ rpmsg_rx_umt_callback
           \/ Crash \/ RemoteAnswers \/ AnswerDropped
  BY <1>3, <1>5
  DEF umt_service_init, umt_service_init_fails, rpmsg_umt_unbind, rpmsg_umt_tx_task,
      StaleTaskWakes, rpmsg_rx_umt_callback, Crash, RemoteAnswers, AnswerDropped, users
<1> QED BY <1>2, <1>4, <1>5 DEF Next

(***************************************************************************)
(* The invariant is inductive, so it holds throughout, and with it what it *)
(* is made of.                                                             *)
(***************************************************************************)
LEMMA Inductive == Spec => []IInv
<1>1. IInv /\ [Next]_vars => IInv'
  <2> SUFFICES ASSUME IInv, [Next]_vars PROVE IInv'
    OBVIOUS
  <2>1. CASE Next
    BY <2>1, TypeStep, ObjectStep, LockStep, HolderStep, TokenStep, AnswerStep DEF IInv
  <2>2. CASE UNCHANGED vars
    <3>1. UNCHANGED <<names, objects, memory, users, micad, channel, history>>
      BY <2>2 DEF vars
    <3>2. TypeOK' /\ ObjectInv'
      BY <3>1 DEF IInv, TypeOK, ObjectInv, names, objects, memory, users, micad,
                  channel, history
    <3>3. LockAccounted' /\ OwnAnswer'
      BY <3>1, ZenonT(40) DEF IInv, LockAccounted, OwnAnswer, Sound, InSection, MessageOf, objects,
                  users, history
    <3>4. Sound' => HolderInv' /\ TokenInv'
      BY <3>1, Zenon DEF IInv, HolderInv, TokenInv, Sound, InSection, Asks, MessageOf, names,
                  objects, memory, users, channel, history
    <3> QED BY <3>2, <3>3, <3>4 DEF IInv
  <2> QED BY <2>1, <2>2
<1> QED BY <1>1, InitIInv, PTL DEF Spec

(***************************************************************************)
(* The variables keep their types.                                         *)
(***************************************************************************)
THEOREM TypeCorrect == Spec => []TypeOK
<1>1. IInv => TypeOK
  BY DEF IInv
<1> QED BY <1>1, Inductive, PTL

(***************************************************************************)
(* However many processes call send_data_to_rtos_and_wait_rcv(), a lock    *)
(* that is held belongs to one inside the section, or was left by a call   *)
(* that could not map the remote's memory.                                 *)
(***************************************************************************)
THEOREM LockIsAccounted == Spec => []LockAccounted
<1>1. IInv => LockAccounted
  BY DEF IInv
<1> QED BY <1>1, Inductive, PTL

(***************************************************************************)
(* However many they are, and whoever is killed or fails, a call that      *)
(* returns has copied the answer to its own request, unless a bind freed a *)
(* lock that was held or an unbind took the names from an open call.       *)
(***************************************************************************)
THEOREM AnswersAreOwn == Spec => []OwnAnswer
<1>1. IInv => OwnAnswer
  BY DEF IInv
<1> QED BY <1>1, Inductive, PTL

=============================================================================
