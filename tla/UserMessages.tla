---------------------------- MODULE UserMessages ----------------------------
(***************************************************************************)
(* User processes that send data to the remote and wait for its answer     *)
(* (library/user_msg), and the service of micad that passes the requests   *)
(* on (mica/micad/services/umt/rpmsg_umt.c).                               *)
(*                                                                         *)
(* The processes and micad share, by name, a block of memory that holds a  *)
(* spin lock, and two semaphores; the data itself is in memory shared with *)
(* the remote, one half for the request and one for the answer.  An unbind *)
(* unlinks the three names, and whoever opens them next makes new objects; *)
(* whoever had them open keeps the old ones.  micad may die at any moment, *)
(* which leaves names and objects as they are, and so may a user process.  *)
(* A message is known by who sends it, and how many calls that was before; *)
(* the length goes wherever the data goes, and is left out.                *)
(***************************************************************************)
EXTENDS Integers, FiniteSets

CONSTANTS
    User,         \* the user processes
    Sends,        \* [User -> Nat]: how often each of them calls
    MaxFiles,     \* the files a process may have open
    MaxObjects    \* how often the named objects are made

ASSUME MessagesAssumption ==
    /\ Sends \in [User -> Nat]
    /\ MaxFiles \in Nat
    /\ MaxObjects \in Nat

VARIABLES
    shm, sem,     \* the names: objects made so far, is the last still linked
    lock,         \* [Object -> BOOLEAN]: process_shared_data_t.lock
    toMicad,      \* [Object -> Nat]: sem_user_to_micad
    toUser,       \* [Object -> Nat]: sem_micad_to_user
    request,      \* the memory shared with the remote, the user's half
    answer,       \* and the remote's half
    pc,           \* [User -> where it is in send_data_to_rtos_and_wait_rcv()]
    shmOf, semOf, \* [User -> the objects it has open]
    sent,         \* [User -> number of its current or last call]
    files,        \* [User -> the files it has open on /dev/mcs]
    got,          \* [User -> the answer it copied]
    dead,         \* the user processes that were killed
    bound,        \* the service has an endpoint
    stale,        \* tx tasks of unbound services: the semaphore each waits on
    outgoing,     \* messages under way to the remote
    incoming,     \* messages under way to the host
    mishap,       \* history: see Mishap
    leaked        \* history: objects whose lock a failed call never released

names == <<shm, sem>>
objects == <<lock, toMicad, toUser>>
memory == <<request, answer>>
users == <<pc, shmOf, semOf, sent, files, got, dead>>
micad == <<bound, stale>>
channel == <<outgoing, incoming>>
history == <<mishap, leaked>>
vars == <<names, objects, memory, users, micad, channel, history>>

Object == 1..MaxObjects
NoData == <<>>
Message == (User \X Nat) \union {NoData}
MessageOf(u) == <<u, sent[u]>>

(***************************************************************************)
(* A bind cleared a lock that was held; an unbind took the names away from *)
(* a process that had opened them; rpmsg_send() failed, unnoticed.         *)
(***************************************************************************)
Mishap == {"reset", "orphan", "lost"}

Section == {"copy", "post", "wait", "take", "release"}
Steps == {"idle", "sem", "spin"} \union Section

Name == [made : 0..MaxObjects, linked : BOOLEAN]
Opened(name) == IF name.linked THEN name
                ELSE [made |-> name.made + 1, linked |-> TRUE]
CanOpen(name) == name.linked \/ name.made < MaxObjects

TypeOK ==
    /\ shm \in Name /\ sem \in Name
    /\ lock \in [Object -> BOOLEAN]
    /\ toMicad \in [Object -> Nat] /\ toUser \in [Object -> Nat]
    /\ request \in Message /\ answer \in Message
    /\ pc \in [User -> Steps]
    /\ shmOf \in [User -> 0..MaxObjects] /\ semOf \in [User -> 0..MaxObjects]
    /\ sent \in [User -> Nat]
    /\ files \in [User -> 0..MaxFiles]
    /\ got \in [User -> Message]
    /\ dead \subseteq User
    /\ bound \in BOOLEAN
    /\ stale \subseteq Object
    /\ outgoing \in Nat /\ incoming \in Nat
    /\ mishap \subseteq Mishap
    /\ leaked \subseteq Object

Init ==
    /\ shm = [made |-> 0, linked |-> FALSE]
    /\ sem = [made |-> 0, linked |-> FALSE]
    /\ lock = [o \in Object |-> FALSE]
    /\ toMicad = [o \in Object |-> 0]
    /\ toUser = [o \in Object |-> 0]
    /\ request = NoData /\ answer = NoData
    /\ pc = [u \in User |-> "idle"]
    /\ shmOf = [u \in User |-> 0]
    /\ semOf = [u \in User |-> 0]
    /\ sent = [u \in User |-> 0]
    /\ files = [u \in User |-> 0]
    /\ got = [u \in User |-> NoData]
    /\ dead = {}
    /\ bound = FALSE
    /\ stale = {}
    /\ outgoing = 0 /\ incoming = 0
    /\ mishap = {}
    /\ leaked = {}

Goto(u, from, to) ==
    /\ u \notin dead
    /\ pc[u] = from
    /\ pc' = [pc EXCEPT ![u] = to]

(* A call that returns has the objects closed, or drops its handle on them. *)
Closed(u) ==
    /\ shmOf' = [shmOf EXCEPT ![u] = 0]
    /\ semOf' = [semOf EXCEPT ![u] = 0]

-----------------------------------------------------------------------------
(***************************************************************************)
(* send_data_to_rtos_and_wait_rcv().  init_process_shared_memory() makes   *)
(* the memory when there is none; it is all zeros then, which passes for   *)
(* instance 0, the only one supported.  create_sem() likewise.             *)
(***************************************************************************)
OpenShm(u) ==
    /\ Goto(u, "idle", "sem")
    /\ sent[u] < Sends[u]
    /\ CanOpen(shm)
    /\ shm' = Opened(shm)
    /\ shmOf' = [shmOf EXCEPT ![u] = Opened(shm).made]
    /\ sent' = [sent EXCEPT ![u] = @ + 1]
    /\ UNCHANGED <<sem, objects, memory, semOf, files, got, dead, micad, channel,
                   history>>

OpenSems(u) ==
    /\ Goto(u, "sem", "spin")
    /\ CanOpen(sem)
    /\ sem' = Opened(sem)
    /\ semOf' = [semOf EXCEPT ![u] = Opened(sem).made]
    /\ UNCHANGED <<shm, objects, memory, shmOf, sent, files, got, dead, micad,
                   channel, history>>

(* __sync_lock_test_and_set() until it finds the lock free. *)
Lock(u) ==
    /\ Goto(u, "spin", "copy")
    /\ ~lock[shmOf[u]]
    /\ lock' = [lock EXCEPT ![shmOf[u]] = TRUE]
    /\ UNCHANGED <<names, toMicad, toUser, memory, shmOf, semOf, sent, files, got,
                   dead, micad, channel, history>>

(***************************************************************************)
(* init_core_shared_memory() opens the device, and closes it only when     *)
(* mapping the memory fails.  When it succeeds the data is copied; when it *)
(* fails, for want of files or for some other reason, the call returns -1  *)
(* and nothing releases the lock.                                          *)
(***************************************************************************)
Copy(u) ==
    /\ Goto(u, "copy", "post")
    /\ files[u] < MaxFiles
    /\ files' = [files EXCEPT ![u] = @ + 1]
    /\ request' = MessageOf(u)
    /\ UNCHANGED <<names, objects, answer, shmOf, semOf, sent, got, dead, micad,
                   channel, history>>

CopyFails(u) ==
    /\ Goto(u, "copy", "idle")
    /\ Closed(u)
    /\ leaked' = leaked \union {shmOf[u]}
    /\ UNCHANGED <<names, objects, memory, sent, files, got, dead, micad, channel,
                   mishap>>

Post(u) ==
    /\ Goto(u, "post", "wait")
    /\ toMicad' = [toMicad EXCEPT ![semOf[u]] = @ + 1]
    /\ UNCHANGED <<names, lock, toUser, memory, shmOf, semOf, sent, files, got,
                   dead, micad, channel, history>>

\* Faulty variant: the lock is released before the answer is copied.
Wait_Release(u) ==
    /\ Goto(u, "wait", "take")
    /\ toUser[semOf[u]] > 0
    /\ toUser' = [toUser EXCEPT ![semOf[u]] = @ - 1]
    /\ lock' = [lock EXCEPT ![shmOf[u]] = FALSE]
    /\ UNCHANGED <<names, toMicad, memory, shmOf, semOf, sent, files, got, dead,
                   micad, channel, history>>

Wait(u) ==
    /\ Goto(u, "wait", "take")
    /\ toUser[semOf[u]] > 0
    /\ toUser' = [toUser EXCEPT ![semOf[u]] = @ - 1]
    /\ UNCHANGED <<names, lock, toMicad, memory, shmOf, semOf, sent, files, got,
                   dead, micad, channel, history>>

Take(u) ==
    /\ Goto(u, "take", "release")
    /\ got' = [got EXCEPT ![u] = answer]
    /\ UNCHANGED <<names, objects, memory, shmOf, semOf, sent, files, dead, micad,
                   channel, history>>

\* Faulty variant: the call returns without releasing the lock.
Release_Never(u) ==
    /\ Goto(u, "release", "idle")
    /\ Closed(u)
    /\ got' = [got EXCEPT ![u] = NoData]
    /\ UNCHANGED <<names, objects, memory, sent, files, dead, micad, channel,
                   history>>

Release(u) ==
    /\ Goto(u, "release", "idle")
    /\ lock' = [lock EXCEPT ![shmOf[u]] = FALSE]
    /\ Closed(u)
    /\ got' = [got EXCEPT ![u] = NoData]
    /\ UNCHANGED <<names, toMicad, toUser, memory, sent, files, dead, micad,
                   channel, history>>

(* The process is killed in the middle of a call, and what it holds stays. *)
Kill(u) ==
    /\ u \notin dead
    /\ pc[u] # "idle"
    /\ dead' = dead \union {u}
    /\ UNCHANGED <<names, objects, memory, pc, shmOf, semOf, sent, files, got,
                   micad, channel, history>>

-----------------------------------------------------------------------------
(***************************************************************************)
(* umt_service_init(): opens or makes the objects, frees the lock, and     *)
(* starts the tx task.  Its first message tells the remote of the endpoint *)
(* and asks for nothing.                                                   *)
(***************************************************************************)
ResetLock ==
    /\ lock' = [lock EXCEPT ![Opened(shm).made] = FALSE]
    /\ mishap' = mishap \union (IF lock[Opened(shm).made] THEN {"reset"} ELSE {})

umt_service_init ==
    /\ ~bound
    /\ CanOpen(shm) /\ CanOpen(sem)
    /\ shm' = Opened(shm)
    /\ sem' = Opened(sem)
    /\ ResetLock
    /\ bound' = TRUE
    /\ UNCHANGED <<toMicad, toUser, memory, users, stale, channel, leaked>>

(***************************************************************************)
(* It fails before it has the memory, or after it freed the lock.  When    *)
(* the semaphores are what failed, it closes pointers nobody set, and      *)
(* micad may die of it.                                                    *)
(***************************************************************************)
umt_service_init_fails ==
    /\ ~bound
    /\ \/ UNCHANGED <<shm, lock, mishap>>
       \/ CanOpen(shm) /\ shm' = Opened(shm) /\ ResetLock
    /\ stale' \in {stale, {}}
    /\ UNCHANGED <<sem, toMicad, toUser, memory, users, bound, channel, leaked>>

(***************************************************************************)
(* rpmsg_umt_unbind(), when the remote withdraws the endpoint or its       *)
(* client stops.  The names are unlinked, and what is under way is lost    *)
(* with the endpoint.  The tx task is told to end by a flag, but waits on  *)
(* a semaphore that micad no longer has mapped.                            *)
(***************************************************************************)
rpmsg_umt_unbind ==
    /\ bound
    /\ shm' = [shm EXCEPT !.linked = FALSE]
    /\ sem' = [sem EXCEPT !.linked = FALSE]
    /\ bound' = FALSE
    /\ stale' = stale \union {sem.made}
    /\ outgoing' = 0 /\ incoming' = 0
    /\ mishap' = mishap \union (IF \E u \in User \ dead : pc[u] # "idle"
                                THEN {"orphan"} ELSE {})
    /\ UNCHANGED <<objects, memory, users, leaked>>

rpmsg_umt_tx_task ==
    /\ bound
    /\ toMicad[sem.made] > 0
    /\ toMicad' = [toMicad EXCEPT ![sem.made] = @ - 1]
    /\ \/ outgoing' = outgoing + 1 /\ UNCHANGED mishap
       \/ mishap' = mishap \union {"lost"} /\ UNCHANGED outgoing
    /\ UNCHANGED <<names, lock, toUser, memory, users, micad, incoming, leaked>>

(* A task left behind is woken, finds its semaphore unmapped, and micad dies. *)
StaleTaskWakes ==
    /\ \E o \in stale : toMicad[o] > 0
    /\ bound' = FALSE
    /\ stale' = {}
    /\ UNCHANGED <<names, objects, memory, users, channel, history>>

\* Faulty variant: the callback stores the length and forgets the semaphore.
rpmsg_rx_umt_callback_NoPost ==
    /\ bound
    /\ incoming > 0
    /\ incoming' = incoming - 1
    /\ UNCHANGED <<names, objects, memory, users, micad, outgoing, history>>

(* The notifier thread, for an answer of the remote. *)
rpmsg_rx_umt_callback ==
    /\ bound
    /\ incoming > 0
    /\ incoming' = incoming - 1
    /\ toUser' = [toUser EXCEPT ![sem.made] = @ + 1]
    /\ UNCHANGED <<names, lock, toMicad, memory, users, micad, outgoing, history>>

(* micad dies: the names and the objects outlive it, and so does the remote. *)
Crash ==
    /\ bound \/ stale # {}
    /\ bound' = FALSE
    /\ stale' = {}
    /\ UNCHANGED <<names, objects, memory, users, channel, history>>

(* The remote answers what it finds in the memory when the message arrives. *)
RemoteAnswers ==
    /\ outgoing > 0
    /\ outgoing' = outgoing - 1
    /\ incoming' = incoming + 1
    /\ answer' = request
    /\ UNCHANGED <<names, objects, request, users, micad, history>>

(* An answer reaches a micad that has no such endpoint any more. *)
AnswerDropped ==
    /\ ~bound
    /\ incoming > 0
    /\ incoming' = incoming - 1
    /\ UNCHANGED <<names, objects, memory, users, micad, outgoing, history>>

UserStep(u) ==
    \/ OpenShm(u) \/ OpenSems(u) \/ Lock(u) \/ Copy(u) \/ CopyFails(u)
    \/ Post(u) \/ Wait(u) \/ Take(u) \/ Release(u)

Next ==
    \/ \E u \in User : UserStep(u) \/ Kill(u)
    \/ umt_service_init \/ umt_service_init_fails \/ rpmsg_umt_unbind
    \/ rpmsg_umt_tx_task \/ StaleTaskWakes \/ rpmsg_rx_umt_callback \/ Crash
    \/ RemoteAnswers \/ AnswerDropped

(* The processes and threads run; the remote answers what reaches it. *)
Fairness ==
    /\ \A u \in User : WF_vars(UserStep(u))
    /\ WF_vars(rpmsg_umt_tx_task)
    /\ WF_vars(rpmsg_rx_umt_callback)
    /\ WF_vars(RemoteAnswers)

Spec == Init /\ [][Next]_vars /\ Fairness

-----------------------------------------------------------------------------
InSection(u) == pc[u] \in Section
Sound == mishap \intersect {"reset", "orphan"} = {}

(***************************************************************************)
(* A call that returns 0 has copied the answer to its own request, however *)
(* processes are killed, calls fail and micad dies around it, as long as   *)
(* no bind freed a lock that was held and no unbind left an open call      *)
(* behind.                                                                 *)
(***************************************************************************)
OwnAnswer ==
    Sound => \A u \in User : pc[u] = "release" => got[u] = MessageOf(u)

(***************************************************************************)
(* A lock that is held belongs to a process inside the section, alive or   *)
(* killed there, or was left by a call that could not map the remote's     *)
(* memory: no other call leaves one behind.                                *)
(***************************************************************************)
LockAccounted ==
    \A o \in Object : lock[o] =>
        o \in leaked \/ \E u \in User : InSection(u) /\ shmOf[u] = o

(***************************************************************************)
(* While the service stays bound and nothing has gone wrong (no process    *)
(* killed, no lock left behind, no mishap), every call returns.            *)
(***************************************************************************)
Calm == bound /\ dead = {} /\ leaked = {} /\ mishap = {}
SendReturns ==
    \A u \in User : pc[u] # "idle" ~> (pc[u] = "idle" \/ ~Calm)

-----------------------------------------------------------------------------
(***************************************************************************)
(* The inductive invariant.  A call has open what was made, and what has   *)
(* not been made is as it will be then.                                    *)
(***************************************************************************)
ObjectInv ==
    /\ shm.linked => shm.made \in Object
    /\ sem.linked => sem.made \in Object
    /\ bound => shm.linked /\ sem.linked
    /\ ~sem.linked => outgoing = 0 /\ incoming = 0
    /\ \A u \in User : pc[u] # "idle" => shmOf[u] \in 1..shm.made
    /\ \A u \in User : pc[u] \notin {"idle", "sem"} => semOf[u] \in 1..sem.made
    /\ \A o \in Object : o > shm.made => ~lock[o]
    /\ \A o \in Object : o > sem.made => toMicad[o] = 0 /\ toUser[o] = 0

(***************************************************************************)
(* A process that is alive has the objects the names lead to; the lock has *)
(* one process, alive or dead, inside the section.                         *)
(***************************************************************************)
HolderInv ==
    /\ sem.linked => shm.linked
    /\ \A u \in User \ dead : pc[u] # "idle" => shm.linked /\ shmOf[u] = shm.made
    /\ \A u \in User \ dead :
           pc[u] \notin {"idle", "sem"} => sem.linked /\ semOf[u] = sem.made
    /\ \A u \in User : InSection(u) => lock[shmOf[u]]
    /\ \A u, v \in User : InSection(u) /\ InSection(v) /\ shmOf[u] = shmOf[v] => u = v

(***************************************************************************)
(* One request is under way at most: of the process inside, which waits    *)
(* for it; and when it has become an answer, that answer is in the memory. *)
(***************************************************************************)
Asks(u) ==
    /\ pc[u] = "wait" /\ shmOf[u] = shm.made /\ semOf[u] = sem.made
    /\ request = MessageOf(u)

TokenInv ==
    LET asked == toMicad[sem.made] + outgoing
        answered == incoming + toUser[sem.made]
    IN  /\ sem.linked /\ asked + answered > 0 =>
               /\ asked + answered = 1
               /\ \E u \in User : Asks(u) /\ (answered = 1 => answer = MessageOf(u))
        /\ \A u \in User \ dead : pc[u] = "post" => request = MessageOf(u)
        /\ \A u \in User \ dead : pc[u] = "take" => answer = MessageOf(u)

IInv ==
    /\ TypeOK
    /\ ObjectInv
    /\ LockAccounted
    /\ Sound => HolderInv /\ TokenInv
    /\ OwnAnswer

=============================================================================
