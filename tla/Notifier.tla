------------------------------ MODULE Notifier ------------------------------
(***************************************************************************)
(* How an interrupt of a bare-metal remote reaches its client: the flag of *)
(* the kernel module (mcs_km/mcs_km.c), the thread that polls the device   *)
(* and walks the list of clients (library/remoteproc/baremetal_rproc.c),   *)
(* and the epoll thread that creates and removes the clients               *)
(* (mica/micad/socket_listener.c, library/remoteproc/remoteproc_core.c).   *)
(*                                                                         *)
(* There is to be one such thread, started for the first client and ended  *)
(* with the last; a flag that the thread sets itself says that it is       *)
(* there.  Every client that is created opens the device anew.  File       *)
(* descriptors are numbers, the lowest free one given out next, so that a  *)
(* thread left behind may poll a file it knows nothing of.                 *)
(***************************************************************************)
EXTENDS Naturals, Sequences, Functions

CONSTANTS
    Client,
    Jailhouse,    \* those of them that may be created on jailhouse
    Fd,           \* file descriptors: numbers other than NoFd
    MaxThreads    \* how many notifier threads are ever started

NoFd == 0
None == "none"

ASSUME NotifierAssumption ==
    /\ Jailhouse \subseteq Client /\ None \notin Client
    /\ Fd \subseteq Nat \ {NoFd}
    /\ MaxThreads \in Nat

VARIABLES
    file,         \* [Fd -> what is open under it]
    mcs_fd,       \* the device, as the last rproc_init() opened it
    pipe_fd,      \* the read end of the pipe
    notifier,     \* the flag: there is a notifier
    thread,       \* [Thread -> where it is in rproc_wait_event()]
    fds,          \* [Thread -> the two descriptors it polls]
    node,         \* [Thread -> the client its walk has come to]
    g_client_list,
    bare,         \* the clients created as bare-metal: client->ped
    heap,         \* the clients that are allocated
    units,        \* the clients with a listener
    running,      \* RPROC_RUNNING
    epoll,        \* what the epoll thread is doing
    irq_ack,      \* of the kernel module: an interrupt came
    pending,      \* the clients whose remote has sent something
    mishap        \* history: see Mishap

files == <<file, mcs_fd, pipe_fd>>
threads == <<notifier, thread, fds, node>>
clients == <<g_client_list, bare, heap, units, running>>
interrupts == <<irq_ack, pending>>
notifierVars == <<files, threads, clients, epoll, interrupts, mishap>>

Thread == 1..MaxThreads
NoFds == [mcs |-> NoFd, pipe |-> NoFd]
Idle == [op |-> "idle", client |-> None]

(***************************************************************************)
(* A client was created, or the last one removed, before the thread ran or *)
(* before an earlier one had ended; a client was removed when the walk was *)
(* at it; it was freed because it got no listener, and stayed on the list; *)
(* the device could not be opened, or was closed again, under clients that *)
(* use it.                                                                 *)
(***************************************************************************)
Mishap == {"hasty", "caught", "dangling", "closed"}
If(b, m) == IF b THEN {m} ELSE {}

Steps == {"none", "new", "poll", "walk", "done"}
Live(t) == thread[t] \notin {"none", "done"}
Listed == Range(g_client_list)

NotifierTypeOK ==
    /\ file \in [Fd -> {"none", "mcs", "pipe"}]
    /\ mcs_fd \in Fd \union {NoFd} /\ pipe_fd \in Fd \union {NoFd}
    /\ notifier \in BOOLEAN
    /\ thread \in [Thread -> Steps]
    /\ fds \in [Thread -> [mcs : Fd \union {NoFd}, pipe : Fd \union {NoFd}]]
    /\ node \in [Thread -> Client \union {None}]
    /\ g_client_list \in Seq(Client)
    /\ \A S \in {bare, heap, units, running, pending} : S \subseteq Client
    /\ epoll \in [op : {"stopped", "destroyed"}, client : Client] \union {Idle}
    /\ irq_ack \in BOOLEAN
    /\ mishap \subseteq Mishap

NotifierInit ==
    /\ file = [f \in Fd |-> "none"]
    /\ mcs_fd = NoFd /\ pipe_fd = NoFd
    /\ notifier = FALSE
    /\ thread = [t \in Thread |-> "none"]
    /\ fds = [t \in Thread |-> NoFds]
    /\ node = [t \in Thread |-> None]
    /\ g_client_list = <<>>
    /\ bare = {} /\ heap = {} /\ units = {} /\ running = {}
    /\ epoll = Idle
    /\ irq_ack = FALSE /\ pending = {}
    /\ mishap = {}

-----------------------------------------------------------------------------
(***************************************************************************)
(* create_mica_client(): mica_create(), with rproc_init() and the register *)
(* of the notifier, puts the client on the list; add_listener() may still  *)
(* fail, and the client is freed where it is.                              *)
(***************************************************************************)
Unsettled == \E t \in Thread : thread[t] = "new" \/ (Live(t) /\ ~notifier)

Enlist(c, isBare) ==
    /\ g_client_list' = Append(g_client_list, c)
    /\ bare' = bare \union If(isBare, c)
    /\ \E ok \in BOOLEAN :
        /\ heap' = heap \union If(ok, c)
        /\ units' = units \union If(ok, c)
        /\ mishap' = mishap \union If(~ok, "dangling")
                            \union If(isBare /\ Unsettled, "hasty")

OpenFails ==
    /\ mcs_fd' = NoFd
    /\ mishap' = mishap \union If(Listed \intersect bare # {}, "closed")
                        \union If(Unsettled, "hasty")
    /\ UNCHANGED <<file, pipe_fd, threads, clients>>

(* What open() and pipe() return: the lowest descriptor that is free. *)
FreeFds == {f \in Fd : file[f] = "none"}
Lowest(S) == {f \in S : \A g \in S : f <= g}

(* rproc_register_notifier() when there is one already. *)
Joins(c) ==
    /\ notifier
    /\ \E f \in Lowest(FreeFds) :
        /\ file' = [file EXCEPT ![f] = "mcs"]
        /\ mcs_fd' = f
    /\ Enlist(c, TRUE)
    /\ UNCHANGED <<pipe_fd, threads, running>>

(* And when there is none, as far as the flag knows. *)
Starts(c) ==
    /\ ~notifier
    /\ \E f \in Lowest(FreeFds) : \E p \in Lowest(FreeFds \ {f}) :
        /\ file' = [file EXCEPT ![f] = "mcs", ![p] = "pipe"]
        /\ mcs_fd' = f /\ pipe_fd' = p
    /\ \E t \in Thread :
        /\ thread[t] = "none" /\ \A u \in 1..t - 1 : thread[u] # "none"
        /\ thread' = [thread EXCEPT ![t] = "new"]
    /\ Enlist(c, TRUE)
    /\ UNCHANGED <<notifier, fds, node, running>>

(* The pipe or the thread cannot be made, and the device is closed again. *)
StartFails ==
    /\ ~notifier
    /\ \E f \in Lowest(FreeFds) : mcs_fd' = f
    /\ mishap' = mishap \union If(Listed \intersect bare # {}, "closed")
                        \union If(Unsettled, "hasty")
    /\ UNCHANGED <<file, pipe_fd, threads, clients>>

create_mica_client(c) ==
    /\ epoll = Idle
    /\ c \notin units \union Listed
    /\ \/ OpenFails \/ StartFails
       \/ Joins(c) \/ Starts(c)
       \/ c \in Jailhouse /\ Enlist(c, FALSE) /\ UNCHANGED <<files, threads, running>>
    /\ UNCHANGED <<epoll, interrupts>>

(* "start": the device boots the remote; and "stop". *)
start(c) ==
    /\ epoll = Idle
    /\ c \in units \ running
    /\ c \in bare => mcs_fd # NoFd /\ file[mcs_fd] = "mcs"
    /\ running' = running \union {c}
    /\ UNCHANGED <<files, threads, g_client_list, bare, heap, units, epoll, interrupts, mishap>>

Stopped(c) ==
    /\ running' = running \ {c}
    /\ pending' = pending \ {c}

stop(c) ==
    /\ epoll = Idle
    /\ c \in units \intersect running
    /\ Stopped(c)
    /\ UNCHANGED <<files, threads, g_client_list, bare, heap, units, epoll, irq_ack, mishap>>

-----------------------------------------------------------------------------
(***************************************************************************)
(* "rm": mica_remove() stops the client, destory_client() takes it off the *)
(* list and rproc_remove() looks for another bare-metal client; when there *)
(* is none it clears the flag, wakes the thread and closes all.  The       *)
(* client is freed with its listener.                                      *)
(***************************************************************************)
rm(c) ==
    /\ epoll = Idle
    /\ c \in units
    /\ epoll' = [op |-> "stopped", client |-> c]
    /\ Stopped(c)
    /\ UNCHANGED <<files, threads, g_client_list, bare, heap, units, irq_ack, mishap>>

(* metal_list_del() of the client's node. *)
Unlinked(list, c) ==
    LET i == CHOOSE j \in DOMAIN list : list[j] = c
    IN  SubSeq(list, 1, i - 1) \o SubSeq(list, i + 1, Len(list))

\* Faulty variant: any client left on the list keeps the notifier.
Found_AnyClient(list) == list # <<>>

Found(list) == Range(list) \intersect bare # {}

rproc_remove(list) ==
    IF Found(list)
    THEN notifier' = TRUE /\ UNCHANGED files
    ELSE /\ notifier' = FALSE
         /\ file' = [f \in Fd |-> IF f \in {mcs_fd, pipe_fd} THEN "none" ELSE file[f]]
         /\ UNCHANGED <<mcs_fd, pipe_fd>>

Hasty(list) ==
    If(~Found(list) /\ \E t \in Thread : thread[t] = "new", "hasty")

\* Faulty variant: the client is freed where it is still on the list.
destory_client_Late ==
    LET c == epoll.client IN
    /\ epoll.op = "stopped"
    /\ IF c \in heap
       THEN heap' = heap \ {c} /\ UNCHANGED <<files, threads, g_client_list, epoll, mishap>>
       ELSE /\ g_client_list' = Unlinked(g_client_list, c)
            /\ IF c \in bare THEN rproc_remove(g_client_list') ELSE UNCHANGED <<files, notifier>>
            /\ epoll' = [op |-> "destroyed", client |-> c]
            /\ mishap' = mishap \union If(\E t \in Thread : node[t] = c, "caught")
                                \union (IF c \in bare THEN Hasty(g_client_list') ELSE {})
            /\ UNCHANGED <<heap, thread, fds, node>>
    /\ UNCHANGED <<bare, units, running, interrupts>>

destory_client ==
    LET c == epoll.client IN
    /\ epoll.op = "stopped"
    /\ g_client_list' = Unlinked(g_client_list, c)
    /\ IF c \in bare THEN rproc_remove(g_client_list') ELSE UNCHANGED <<files, notifier>>
    /\ epoll' = [op |-> "destroyed", client |-> c]
    /\ mishap' = mishap \union If(\E t \in Thread : node[t] = c, "caught")
                        \union (IF c \in bare THEN Hasty(g_client_list') ELSE {})
    /\ UNCHANGED <<thread, fds, node, bare, heap, units, running, interrupts>>

free_listener_by_name ==
    /\ epoll.op = "destroyed"
    /\ heap' = heap \ {epoll.client}
    /\ units' = units \ {epoll.client}
    /\ bare' = bare \ {epoll.client}
    /\ epoll' = Idle
    /\ UNCHANGED <<files, threads, g_client_list, running, interrupts, mishap>>

-----------------------------------------------------------------------------
(***************************************************************************)
(* rproc_wait_event().  A descriptor that is closed makes poll() return at *)
(* once, with neither an input nor an error, to no effect while the flag   *)
(* is set; a negative one is ignored.                                      *)
(* mcs_poll() takes the interrupt for whichever descriptor leads to it.    *)
(***************************************************************************)
Step(t, from, to) ==
    /\ thread[t] = from
    /\ thread' = [thread EXCEPT ![t] = to]

WaitEvent(t) ==
    /\ Step(t, "new", "poll")
    /\ fds' = [fds EXCEPT ![t] = [mcs |-> mcs_fd, pipe |-> pipe_fd]]
    /\ notifier' = TRUE
    /\ UNCHANGED <<files, node, clients, epoll, interrupts, mishap>>

(* The flag is tested after every round. *)
Again == IF notifier THEN "poll" ELSE "done"

Leads(f, what) == f # NoFd /\ file[f] = what

(* The interrupt is there, and the list is not empty. *)
PollInterrupt(t) ==
    /\ Leads(fds[t].mcs, "mcs")
    /\ irq_ack
    /\ irq_ack' = FALSE
    /\ IF g_client_list = <<>>
       THEN Step(t, "poll", Again) /\ UNCHANGED node
       ELSE Step(t, "poll", "walk") /\ node' = [node EXCEPT ![t] = Head(g_client_list)]
    /\ UNCHANGED <<files, notifier, fds, clients, epoll, pending, mishap>>

(* The pipe was written to and closed, or the device closed, or the pipe's *)
(* number is now the device's, whose interrupt is taken and ignored.       *)
PollOther(t) ==
    /\ ~(Leads(fds[t].mcs, "mcs") /\ irq_ack)
    /\ \/ fds[t].mcs # NoFd /\ file[fds[t].mcs] = "none"
       \/ fds[t].pipe # NoFd /\ file[fds[t].pipe] = "none"
       \/ Leads(fds[t].pipe, "mcs") /\ irq_ack
    /\ irq_ack' = (irq_ack /\ ~Leads(fds[t].pipe, "mcs"))
    /\ Step(t, "poll", Again)
    /\ UNCHANGED <<files, notifier, fds, node, clients, epoll, pending, mishap>>

(***************************************************************************)
(* rproc_notify_all(), one client at a time.  A client that is taken off   *)
(* the list leads to itself, and the walk does not get past it.            *)
(***************************************************************************)
After(c) ==
    LET i == CHOOSE j \in DOMAIN g_client_list : g_client_list[j] = c
    IN IF i = Len(g_client_list) THEN None ELSE g_client_list[i + 1]

\* Faulty variant: the walk ends with the first client that is running.
Visit_First(t) ==
    LET c == node[t] IN
    /\ thread[t] = "walk"
    /\ c \in Listed
    /\ pending' = pending \ (IF c \in bare \intersect running THEN {c} ELSE {})
    /\ node' = [node EXCEPT ![t] = IF c \in bare \intersect running THEN None ELSE After(c)]
    /\ thread' = [thread EXCEPT ![t] = IF node'[t] = None THEN Again ELSE "walk"]
    /\ UNCHANGED <<files, notifier, fds, clients, epoll, irq_ack, mishap>>

Visit(t) ==
    LET c == node[t] IN
    /\ thread[t] = "walk"
    /\ c \in Listed
    /\ pending' = pending \ (IF c \in bare \intersect running THEN {c} ELSE {})
    /\ node' = [node EXCEPT ![t] = After(c)]
    /\ thread' = [thread EXCEPT ![t] = IF After(c) = None THEN Again ELSE "walk"]
    /\ UNCHANGED <<files, notifier, fds, clients, epoll, irq_ack, mishap>>

(* A remote has put a message in its queue and raises the interrupt:       *)
(* handle_clientos_ipi().                                                  *)
handle_clientos_ipi(c) ==
    /\ c \in bare \intersect running
    /\ c \notin pending
    /\ pending' = pending \union {c}
    /\ irq_ack' = TRUE
    /\ UNCHANGED <<files, threads, clients, epoll, mishap>>

ThreadStep(t) ==
    \/ WaitEvent(t) \/ PollInterrupt(t) \/ PollOther(t) \/ Visit(t)

EpollStep == destory_client \/ free_listener_by_name

(* Once a walk is at a client that was freed, anything may happen. *)
Defined == \A t \in Thread : node[t] # None => node[t] \in heap

NotifierNext ==
    /\ Defined
    /\ \/ \E c \in Client :
            \/ create_mica_client(c) \/ start(c) \/ stop(c) \/ rm(c)
            \/ handle_clientos_ipi(c)
       \/ EpollStep
       \/ \E t \in Thread : ThreadStep(t)

(* The threads run, and the epoll thread completes the rm it has begun. *)
Fairness ==
    /\ \A t \in Thread : WF_notifierVars(Defined /\ ThreadStep(t))
    /\ WF_notifierVars(Defined /\ EpollStep)

NotifierSpec == NotifierInit /\ [][NotifierNext]_notifierVars /\ Fairness

-----------------------------------------------------------------------------
(***************************************************************************)
(* As long as the commands leave the threads time to start and to end,     *)
(* there is one notifier while there are bare-metal clients, and it polls  *)
(* the device; and none goes on without them.                              *)
(***************************************************************************)
OneNotifier ==
    "hasty" \notin mishap =>
        /\ \A t, u \in Thread : Live(t) /\ Live(u) => t = u
        /\ Listed \intersect bare = {} => ~notifier
        /\ Listed \intersect bare # {} =>
            \E t \in Thread :
                /\ Live(t)
                /\ thread[t] # "new" => notifier /\ Leads(fds[t].mcs, "mcs")

(***************************************************************************)
(* Whatever a remote has sent is received, or its client is stopped: no    *)
(* interrupt is lost between two clients that share one flag, when it      *)
(* comes during a walk, or before the thread polls for the first time.     *)
(***************************************************************************)
EventsServed ==
    \A c \in Client : c \in pending ~> (c \notin pending \/ mishap # {})

(***************************************************************************)
(* The walk meets no freed client, unless one was freed without a listener *)
(* or removed when the walk was at it.                                     *)
(***************************************************************************)
WalkSafe ==
    mishap \intersect {"caught", "dangling"} = {} => Defined

-----------------------------------------------------------------------------
(***************************************************************************)
(* The inductive invariant behind OneNotifier and WalkSafe.  A client is   *)
(* on the list once, from create_mica_client() until destory_client().     *)
(***************************************************************************)
Leaving == IF epoll.op = "destroyed" THEN {epoll.client} ELSE {}

Orderly ==
    /\ IsInjective(g_client_list)
    /\ units \union bare \subseteq Listed \union Leaving
    /\ epoll.op = "stopped" => epoll.client \in Listed
    /\ epoll.op = "destroyed" => epoll.client \notin Listed

(* As long as none was freed on the list, a walk is at a client of the list. *)
WalksOnList ==
    mishap \intersect {"caught", "dangling"} = {} =>
        /\ Listed \subseteq heap
        /\ \A t \in Thread : node[t] # None => node[t] \in Listed

(* A thread that has yet to run finds the device open and one client to serve. *)
Attended ==
    "hasty" \notin mishap =>
        \A t \in Thread : thread[t] = "new" =>
            Leads(mcs_fd, "mcs") /\ \E c \in Client : Listed \intersect bare = {c}

NotifierInv ==
    NotifierTypeOK /\ Orderly /\ WalksOnList /\ Attended /\ OneNotifier

=============================================================================
