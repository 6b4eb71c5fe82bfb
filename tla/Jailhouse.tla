------------------------------ MODULE Jailhouse ------------------------------
(***************************************************************************)
(* A client on the Jailhouse hypervisor                                    *)
(* (library/remoteproc/jailhouse_rproc.c), driven by the commands of       *)
(* library/mica/mica.c: the cell, which the jailhouse tool creates, loads, *)
(* starts, shuts down and destroys, each of which may fail; and the thread *)
(* that waits for the cell's interrupts, one for every start, which makes  *)
(* the pipe it is told to end through, in the client's private data.       *)
(*                                                                         *)
(* The device raises an interrupt only while int_control is set, and       *)
(* clears it with every interrupt: the thread sets it again.               *)
(***************************************************************************)
EXTENDS Naturals, FiniteSets

CONSTANT MaxThreads    \* bound: starts of a waiting thread

ASSUME MaxThreadsAssumption == MaxThreads \in Nat

Thread == 1..MaxThreads
Unset == 0             \* a pipe_fd no thread has set since the last malloc()

VARIABLES
    state,        \* rproc->state, "NONE" when there is no client
    pc,           \* where the command is: a shutdown and a removal take steps
    cell,         \* the cell, as the hypervisor has it
    pipe_fd,      \* the thread whose pipe the private data names, or Unset
    snapshot,     \* rproc_shutdown()'s copy of pipe_fd
    thread,       \* per thread: where it is
    opened,       \* the threads whose pipe is open
    told,         \* the threads whose pipe was written to
    seen,         \* the threads whose last poll() found that
    uio,          \* an interrupt is waiting to be read
    int_control,  \* the device may raise an interrupt
    message,      \* the cell has put a message where the host has to look
    mishap        \* history: what has gone wrong

client == <<state, pc, cell>>
pipes == <<pipe_fd, snapshot, opened, told, seen>>
device == <<uio, int_control, message>>
cellVars == <<client, pipes, thread, device, mishap>>

Alive(t) == thread[t] \notin {"none", "done"}
SomeAlive == \E t \in Thread : Alive(t)
If(b, m) == IF b THEN {m} ELSE {}

CellTypeOK ==
    /\ state \in {"NONE", "OFFLINE", "READY", "RUNNING", "STOPPED"}
    /\ pc \in {"idle", "stop", "rm", "destroy"}
    /\ cell \in {"none", "created", "loaded", "running", "shut"}
    /\ pipe_fd \in Thread \union {Unset} /\ snapshot \in Thread \union {Unset}
    /\ thread \in [Thread -> {"none", "new", "poll", "read", "notify", "leave", "done"}]
    /\ opened \subseteq Thread /\ told \subseteq Thread /\ seen \subseteq told
    /\ uio \in BOOLEAN /\ int_control \in BOOLEAN /\ message \in BOOLEAN
    /\ mishap \subseteq {"deaf", "failed", "early", "overlap", "undestroyed"}

CellInit ==
    /\ state = "NONE" /\ pc = "idle" /\ cell = "none"
    /\ pipe_fd = Unset /\ snapshot = Unset /\ opened = {} /\ told = {} /\ seen = {}
    /\ thread = [t \in Thread |-> "none"]
    /\ uio = FALSE /\ int_control = FALSE /\ message = FALSE
    /\ mishap = {}

(***************************************************************************)
(* rproc_init(): the device is set up, and its interrupt, before the cell  *)
(* is created, which fails when the cell is already there.  A client that  *)
(* comes to nothing leaves the interrupt as it is.                         *)
(***************************************************************************)
rproc_init ==
    /\ pc = "idle" /\ state = "NONE"
    /\ int_control' = TRUE
    /\ \/ /\ cell = "none"
          /\ cell' = "created"
          /\ state' = "OFFLINE"
          /\ pipe_fd' = Unset
       \/ UNCHANGED <<cell, state, pipe_fd>>
    /\ UNCHANGED <<pc, snapshot, opened, told, seen, thread, uio, message, mishap>>

(***************************************************************************)
(* mica_start(): remoteproc_config() refuses every state but OFFLINE.      *)
(* rproc_config() loads the cell and sets READY, so that nothing is left   *)
(* to load; rproc_start() starts the cell, then the thread.  Where a step  *)
(* fails, how far the library has moved the client on is its business.     *)
(***************************************************************************)
rproc_config_fails ==
    /\ pc = "idle" /\ state = "OFFLINE"
    /\ cell' \in {cell, "loaded"}
    /\ state' \in {"OFFLINE", "READY"}
    /\ UNCHANGED <<pc, pipes, thread, device, mishap>>

Fresh == {t \in Thread : thread[t] = "none" /\ \A s \in Thread : s < t => thread[s] # "none"}

rproc_start ==
    /\ pc = "idle" /\ state = "OFFLINE"
    /\ \/ /\ cell' = "loaded"                          \* the cell does not start
          /\ state' \in {"READY", "RUNNING"}
          /\ UNCHANGED <<thread, message, mishap>>
       \/ /\ cell' = "running"                         \* no thread
          /\ state' \in {"READY", "RUNNING"}
          /\ message' = FALSE
          /\ mishap' = mishap \union {"deaf"}
          /\ UNCHANGED thread
       \/ /\ cell' = "running"
          /\ state' = "RUNNING"
          /\ message' = FALSE
          /\ mishap' = mishap \union If(SomeAlive, "overlap")
          /\ \E t \in Fresh : thread' = [thread EXCEPT ![t] = "new"]
    /\ UNCHANGED <<pc, pipes, uio, int_control>>

(***************************************************************************)
(* mica_stop() and mica_remove(): remoteproc_stop() makes a RUNNING client *)
(* STOPPED; rproc_shutdown() copies the private data, then has the cell    *)
(* shut down, then writes to the pipe of the copy.                         *)
(***************************************************************************)
ShutdownBegins(command) ==
    /\ pc = "idle" /\ state \notin {"NONE", "OFFLINE"}
    /\ pc' = command
    /\ state' = IF state = "RUNNING" THEN "STOPPED" ELSE state
    /\ snapshot' = pipe_fd
    /\ UNCHANGED <<cell, pipe_fd, opened, told, seen, thread, device, mishap>>

mica_stop == ShutdownBegins("stop")

mica_remove ==
    \/ ShutdownBegins("rm")
    \/ /\ pc = "idle" /\ state = "OFFLINE"
       /\ pc' = "destroy"
       /\ UNCHANGED <<state, cell, pipes, thread, device, mishap>>

AfterShutdown == IF pc = "stop" THEN "idle" ELSE "destroy"

\* Faulty variant: a client whose cell goes on is called OFFLINE.
ShutdownFails_Offline ==
    /\ pc \in {"stop", "rm"}
    /\ pc' = AfterShutdown
    /\ state' = "OFFLINE"
    /\ mishap' = mishap \union {"failed"}
    /\ UNCHANGED <<cell, pipes, thread, device>>

ShutdownFails ==
    /\ pc \in {"stop", "rm"}
    /\ pc' = AfterShutdown
    /\ mishap' = mishap \union {"failed"}
    /\ UNCHANGED <<state, cell, pipes, thread, device>>

(* The write reaches a thread only through a pipe that was there when the *)
(* shutdown began.                                                        *)
Reached == {t \in opened : t = snapshot}

\* Faulty variant: the thread is not told.
ShutdownEnds_Silent ==
    /\ pc \in {"stop", "rm"}
    /\ pc' = AfterShutdown
    /\ cell' = "shut"
    /\ state' = "OFFLINE"
    /\ snapshot' = Unset
    /\ mishap' = mishap \union If(\E t \in Thread : Alive(t) /\ t \notin Reached, "early")
    /\ UNCHANGED <<pipe_fd, opened, told, seen, thread, device>>

ShutdownEnds ==
    /\ pc \in {"stop", "rm"}
    /\ pc' = AfterShutdown
    /\ cell' = "shut"
    /\ state' = "OFFLINE"
    /\ told' = told \union Reached
    /\ snapshot' = Unset
    /\ mishap' = mishap \union If(\E t \in Thread : Alive(t) /\ t \notin Reached, "early")
    /\ UNCHANGED <<pipe_fd, opened, seen, thread, device>>

(***************************************************************************)
(* destory_client(), rproc_remove(), and the listener's free() of the      *)
(* client: the cell is destroyed or stays, the client goes in either case, *)
(* whatever the thread is doing.                                           *)
(***************************************************************************)
rproc_remove ==
    /\ pc = "destroy"
    /\ pc' = "idle"
    /\ state' = "NONE"
    /\ \/ cell' = "none"
       \/ UNCHANGED cell
    /\ mishap' = mishap \union If(SomeAlive, "overlap") \union If(cell' # "none", "undestroyed")
    /\ UNCHANGED <<pipes, thread, device>>

(***************************************************************************)
(* rproc_wait_event().                                                     *)
(***************************************************************************)
\* Faulty variant: a pipe is made by the first thread only.
MakePipe_Once(t) ==
    /\ thread[t] = "new"
    /\ \/ /\ thread' = [thread EXCEPT ![t] = "poll"]
          /\ pipe_fd' = IF pipe_fd = Unset THEN t ELSE pipe_fd
          /\ opened' = IF pipe_fd = Unset THEN opened \union {t} ELSE opened
          /\ UNCHANGED mishap
       \/ /\ thread' = [thread EXCEPT ![t] = "done"]
          /\ mishap' = mishap \union {"deaf"}
          /\ UNCHANGED <<pipe_fd, opened>>
    /\ UNCHANGED <<client, snapshot, told, seen, device>>

MakePipe(t) ==
    /\ thread[t] = "new"
    /\ \/ /\ thread' = [thread EXCEPT ![t] = "poll"]
          /\ pipe_fd' = t
          /\ opened' = opened \union {t}
          /\ UNCHANGED mishap
       \/ /\ thread' = [thread EXCEPT ![t] = "done"]
          /\ mishap' = mishap \union {"deaf"}
          /\ UNCHANGED <<pipe_fd, opened>>
    /\ UNCHANGED <<client, snapshot, told, seen, device>>

(* poll() returns when there is an interrupt, which is read, or the pipe *)
(* was written to, or both.                                              *)
Poll(t) ==
    /\ thread[t] = "poll"
    /\ uio \/ t \in told
    /\ uio' = FALSE
    /\ seen' = seen \union (told \intersect {t})
    /\ thread' = [thread EXCEPT ![t] = IF uio THEN "read" ELSE "leave"]
    /\ UNCHANGED <<client, pipe_fd, snapshot, opened, told, int_control, message, mishap>>

(* The interrupt is let through again, then the host looks for messages. *)
\* Faulty variant: the host looks first.
HandleInterrupt_LooksFirst(t) ==
    \/ /\ thread[t] = "read"
       /\ message' = FALSE
       /\ thread' = [thread EXCEPT ![t] = "notify"]
       /\ UNCHANGED <<client, pipes, uio, int_control, mishap>>
    \/ /\ thread[t] = "notify"
       /\ int_control' = TRUE
       /\ thread' = [thread EXCEPT ![t] = IF t \in seen THEN "leave" ELSE "poll"]
       /\ UNCHANGED <<client, pipes, uio, message, mishap>>

HandleInterrupt(t) ==
    \/ /\ thread[t] = "read"
       /\ int_control' = TRUE
       /\ thread' = [thread EXCEPT ![t] = "notify"]
       /\ UNCHANGED <<client, pipes, uio, message, mishap>>
    \/ /\ thread[t] = "notify"
       /\ message' = FALSE
       /\ thread' = [thread EXCEPT ![t] = IF t \in seen THEN "leave" ELSE "poll"]
       /\ UNCHANGED <<client, pipes, uio, int_control, mishap>>

(* The thread closes the pipe the private data names, its own or not. *)
Leave(t) ==
    /\ thread[t] = "leave"
    /\ thread' = [thread EXCEPT ![t] = "done"]
    /\ opened' = opened \ {pipe_fd}
    /\ UNCHANGED <<client, pipe_fd, snapshot, told, seen, device, mishap>>

(* The cell leaves a message and rings (external). *)
CellRings ==
    /\ cell = "running"
    /\ ~message
    /\ message' = TRUE
    /\ uio' = (uio \/ int_control)
    /\ int_control' = FALSE
    /\ UNCHANGED <<client, pipes, thread, mishap>>

ThreadStep(t) == MakePipe(t) \/ Poll(t) \/ HandleInterrupt(t) \/ Leave(t)

(* Once a thread outlives its client's private data, anything may happen. *)
Defined == state = "NONE" => ~SomeAlive

CellNext ==
    /\ Defined
    /\ \/ rproc_init \/ rproc_config_fails \/ rproc_start
       \/ mica_stop \/ mica_remove
       \/ ShutdownFails \/ ShutdownEnds \/ rproc_remove
       \/ \E t \in Thread : ThreadStep(t)
       \/ CellRings

(* The scheduler runs every thread that can go on. *)
Fairness == \A t \in Thread : WF_cellVars(Defined /\ ThreadStep(t))

CellSpec == CellInit /\ [][CellNext]_cellVars /\ Fairness

(***************************************************************************)
(* The client's state agrees with the cell through every failure of the    *)
(* jailhouse tool: a client that is OFFLINE, which may be loaded again or  *)
(* removed without a shutdown, has no running cell, and a client that is   *)
(* gone has none at all unless the tool failed to destroy it.              *)
(***************************************************************************)
CellFollows ==
    /\ state = "OFFLINE" => cell \in {"created", "loaded", "shut"}
    /\ state = "NONE" /\ cell # "none" => "undestroyed" \in mishap

(***************************************************************************)
(* A thread that waits can be told to end: its pipe is open and is the one *)
(* the private data names, after any number of stops and starts; unless a  *)
(* start, or the removal, did not wait for the thread before it to end.    *)
(***************************************************************************)
WaiterReachable ==
    "overlap" \notin mishap =>
        \A t \in Thread : thread[t] \in {"poll", "read", "notify", "leave"} => pipe_fd = t /\ t \in opened

(***************************************************************************)
(* After a stop the thread of that start ends; unless the shutdown failed, *)
(* or began before the thread had its pipe, or threads overlapped.         *)
(***************************************************************************)
WaiterEnds ==
    \A t \in Thread :
        (Alive(t) /\ state = "OFFLINE") ~>
            (~Alive(t) \/ mishap \intersect {"failed", "early", "overlap"} # {})

(***************************************************************************)
(* A message of the cell is looked for in the end, whenever its interrupt  *)
(* comes, also while the thread is busy with the one before; unless the    *)
(* client is stopped, or has no thread.                                    *)
(***************************************************************************)
MessagesSeen ==
    (message /\ state = "RUNNING" /\ cell = "running") ~>
        (~message \/ state # "RUNNING" \/ mishap # {})

-----------------------------------------------------------------------------
(***************************************************************************)
(* The inductive invariant: besides, as long as threads did not overlap    *)
(* there is one at most.                                                   *)
(***************************************************************************)
CellInv ==
    /\ CellTypeOK
    /\ CellFollows
    /\ WaiterReachable
    /\ "overlap" \notin mishap =>
           \A s, t \in Thread : Alive(s) /\ Alive(t) => s = t

=============================================================================
