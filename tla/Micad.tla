-------------------------------- MODULE Micad --------------------------------
(***************************************************************************)
(* The daemon from start to exit (mica/micad/main.c and the listener part  *)
(* of socket_listener.c), and the processes of the tool that talk to it    *)
(* (mica/micactl/mica.py).  Several daemons may be started and stopped on  *)
(* one machine: the lock on the pid file is to let one of them through,    *)
(* and they all use the directory of sockets.                              *)
(*                                                                         *)
(* A pid file is a number in 1..MaxFiles, the one that has the path is     *)
(* pid_file.  A daemon has its main thread (pc) and the epoll thread       *)
(* (worker), which serves one request at a time.  A tool process works off *)
(* a list of commands, and gives up waiting for an answer after 5 seconds, *)
(* that is, at any time: its request is then still in the daemon's hands.  *)
(***************************************************************************)
EXTENDS Integers, Sequences, FiniteSets

CONSTANTS
    Daemon,      \* the processes of micad
    Tool,        \* the processes of mica that users start
    Script,      \* [Tool -> Seq(Command)]: what they ask for
    Client,      \* the names of clients
    Configured,  \* the commands of `mica create --all`
    None,        \* no daemon, no tool
    Stale,       \* a socket whose daemon has died
    MaxFiles,    \* bound: pid files made
    MaxStarts    \* bound: starts of a daemon

Command == [op : {"create", "start", "rm"}, name : Client]

ASSUME ConstantsAssumption ==
    /\ MaxFiles \in Nat /\ MaxStarts \in Nat
    /\ Daemon \intersect Tool = {}
    /\ None \notin Daemon \union Tool /\ Stale \notin Daemon \union {None}
    /\ Script \in [Tool -> Seq(Command)]
    /\ Configured \in Seq(Command)
    /\ "mica-create" \notin Client

Process == Daemon \union Tool     \* a daemon stands for its `mica create --all` too
Socket == Client \union {"mica-create"}
File == 1..MaxFiles
NoFile == 0

VARIABLES
    pid_file,   \* the file the path names, or NoFile
    made,       \* how many pid files were made
    pid_fd,     \* per daemon: the file it has open, or NoFile
    locked,     \* per file: the daemon that has the lock, or None
    pc,         \* per daemon: where main() is
    starts,     \* how often a daemon was started
    directory,  \* /run/mica is there
    bound,      \* per socket of the directory: whose it is, None or Stale
    listener_list, \* per daemon: the sockets it listens on
    listening, created, \* per daemon: the flags of the epoll thread
    worker,     \* per daemon: where the epoll thread is
    job,        \* per daemon: the request the epoll thread is serving
    queue,      \* per daemon: the requests it has not accepted
    sem_micad_stop, \* per daemon: posts that were not waited for
    signalled,  \* the daemons that were told to stop
    todo,       \* per process of the tool: the commands that are left
    waiting,    \* the tool processes that wait for an answer
    mishap      \* history: what has gone wrong

pidFile == <<pid_file, made, pid_fd, locked>>
main == <<pc, starts, sem_micad_stop, signalled>>
sockets == <<directory, bound, listener_list>>
epoll == <<listening, created, worker, job, queue>>
tool == <<todo, waiting>>
vars == <<pidFile, main, sockets, epoll, tool, mishap>>

Request == [from : Process, op : {"create", "start", "rm"}, name : Client]
PathOf(r) == IF r.op = "create" THEN "mica-create" ELSE r.name

Places == {"gone", "opened", "locked", "register", "create_all", "signals",
           "serving", "free", "rmrf", "unlock", "unlink"}

TypeOK ==
    /\ pid_file \in File \union {NoFile} /\ made \in 0..MaxFiles
    /\ pid_fd \in [Daemon -> File \union {NoFile}]
    /\ locked \in [File -> Daemon \union {None}]
    /\ pc \in [Daemon -> Places] /\ starts \in 0..MaxStarts
    /\ directory \in BOOLEAN /\ bound \in [Socket -> Daemon \union {None, Stale}]
    /\ listener_list \in [Daemon -> SUBSET Socket]
    /\ listening \in [Daemon -> BOOLEAN] /\ created \in [Daemon -> BOOLEAN]
    /\ worker \in [Daemon -> {"none", "new", "wait", "serve", "ended"}]
    /\ job \in [Daemon -> Request \union {None}] /\ queue \in [Daemon -> SUBSET Request]
    /\ sem_micad_stop \in [Daemon -> 0..1] /\ signalled \subseteq Daemon
    /\ todo \in [Process -> Seq(Command)] /\ waiting \subseteq Process
    /\ mishap \subseteq {"nameless", "killed", "busy"}

Init ==
    /\ pid_file = NoFile /\ made = 0
    /\ pid_fd = [p \in Daemon |-> NoFile]
    /\ locked = [f \in File |-> None]
    /\ pc = [p \in Daemon |-> "gone"] /\ starts = 0
    /\ sem_micad_stop = [p \in Daemon |-> 0] /\ signalled = {}
    /\ directory = FALSE
    /\ bound = [s \in Socket |-> None]
    /\ listener_list = [p \in Daemon |-> {}]
    /\ listening = [p \in Daemon |-> FALSE] /\ created = [p \in Daemon |-> FALSE]
    /\ worker = [p \in Daemon |-> "none"]
    /\ job = [p \in Daemon |-> None]
    /\ queue = [p \in Daemon |-> {}]
    /\ todo = [u \in Process |-> IF u \in Tool THEN Script[u] ELSE <<>>]
    /\ waiting = {}
    /\ mishap = {}

Step(p, from, to) == pc[p] = from /\ pc' = [pc EXCEPT ![p] = to]

(* The end of a process: what it has open is closed, its lock is gone, and *)
(* the sockets that are still in the directory lead nowhere.               *)
Exit(p) ==
    /\ pc' = [pc EXCEPT ![p] = "gone"]
    /\ pid_fd' = [pid_fd EXCEPT ![p] = NoFile]
    /\ locked' = [f \in File |-> IF locked[f] = p THEN None ELSE locked[f]]
    /\ bound' = [s \in Socket |-> IF bound[s] = p THEN Stale ELSE bound[s]]
    /\ listener_list' = [listener_list EXCEPT ![p] = {}]
    /\ listening' = [listening EXCEPT ![p] = FALSE]
    /\ created' = [created EXCEPT ![p] = FALSE]
    /\ worker' = [worker EXCEPT ![p] = "none"]
    /\ job' = [job EXCEPT ![p] = None]
    /\ queue' = [queue EXCEPT ![p] = {}]
    /\ sem_micad_stop' = [sem_micad_stop EXCEPT ![p] = 0]
    /\ signalled' = signalled \ {p}

(***************************************************************************)
(* write_pid_file(): open, or make, the file of the path; try its lock,    *)
(* and leave when another has it.  When the pid cannot be written the path *)
(* is removed and the daemon goes on.                                      *)
(***************************************************************************)
Start(p) ==
    /\ starts < MaxStarts
    /\ todo[p] = <<>>
    /\ Step(p, "gone", "opened")
    /\ starts' = starts + 1
    /\ IF pid_file = NoFile
       THEN /\ made < MaxFiles
            /\ made' = made + 1
            /\ pid_file' = made + 1
       ELSE UNCHANGED <<made, pid_file>>
    /\ pid_fd' = [pid_fd EXCEPT ![p] = pid_file']
    /\ UNCHANGED <<locked, sem_micad_stop, signalled, sockets, epoll, tool, mishap>>

NameGoes ==
    /\ pid_file' = NoFile
    /\ mishap' = mishap \union
        (IF \E q \in Daemon : pid_fd[q] = pid_file /\ pid_file # NoFile THEN {"nameless"} ELSE {})

\* Faulty variant: the daemon that is refused removes the path.
Refused_Unlinks(p) ==
    /\ pc[p] = "opened"
    /\ locked[pid_fd[p]] # None
    /\ Exit(p)
    /\ pid_file' = NoFile
    /\ UNCHANGED <<made, starts, directory, tool, mishap>>

Refused(p) ==
    /\ pc[p] = "opened"
    /\ locked[pid_fd[p]] # None
    /\ Exit(p)
    /\ UNCHANGED <<pid_file, made, starts, directory, tool, mishap>>

write_pid_file(p) ==
    /\ Step(p, "opened", "locked")
    /\ locked[pid_fd[p]] = None
    /\ locked' = [locked EXCEPT ![pid_fd[p]] = p]
    /\ \/ UNCHANGED <<pid_file, mishap>>
       \/ NameGoes
    /\ UNCHANGED <<made, pid_fd, starts, sem_micad_stop, signalled, sockets, epoll, tool>>

(***************************************************************************)
(* register_socket_listener(): clear the directory, make it, start the     *)
(* epoll thread and wait for it to say that it has got through.            *)
(***************************************************************************)
RegisterBegins(p) ==
    /\ \/ /\ Step(p, "locked", "register")
          /\ worker' = [worker EXCEPT ![p] = "new"]
          /\ directory' = TRUE
       \/ /\ Step(p, "locked", "unlock")              \* no directory, or no thread
          /\ directory' \in BOOLEAN
          /\ UNCHANGED worker
    /\ bound' = [s \in Socket |-> None]
    /\ UNCHANGED <<pidFile, starts, sem_micad_stop, signalled, listener_list,
                   listening, created, job, queue, tool, mishap>>

CanBind(s) == directory /\ bound[s] = None

WorkerListens(p) ==
    /\ worker[p] = "new"
    /\ CanBind("mica-create")
    /\ bound' = [bound EXCEPT !["mica-create"] = p]
    /\ listener_list' = [listener_list EXCEPT ![p] = {"mica-create"}]
    /\ listening' = [listening EXCEPT ![p] = TRUE]
    /\ created' = [created EXCEPT ![p] = TRUE]
    /\ worker' = [worker EXCEPT ![p] = "wait"]
    /\ UNCHANGED <<pidFile, main, directory, job, queue, tool, mishap>>

(* No epoll, no socket, or no name for it: add_listener() then takes away  *)
(* the file in its way.                                                    *)
\* Faulty variant: only a thread that got through wakes the one that waits.
WorkerFails_Silent(p) ==
    /\ worker[p] = "new"
    /\ bound' \in {bound, [bound EXCEPT !["mica-create"] = None]}
    /\ worker' = [worker EXCEPT ![p] = "ended"]
    /\ UNCHANGED <<pidFile, main, directory, listener_list, listening, created, job, queue,
                   tool, mishap>>

WorkerFails(p) ==
    /\ worker[p] = "new"
    /\ bound' \in {bound, [bound EXCEPT !["mica-create"] = None]}
    /\ created' = [created EXCEPT ![p] = TRUE]
    /\ worker' = [worker EXCEPT ![p] = "ended"]
    /\ UNCHANGED <<pidFile, main, directory, listener_list, listening, job, queue, tool, mishap>>

(* The wait is over: go on to `mica create --all`, or give up. *)
RegisterEnds(p) ==
    /\ created[p]
    /\ Step(p, "register", IF listening[p] THEN "create_all" ELSE "unlock")
    /\ todo' = [todo EXCEPT ![p] = IF listening[p] THEN Configured ELSE <<>>]
    /\ UNCHANGED <<pidFile, starts, sem_micad_stop, signalled, sockets, epoll, waiting, mishap>>

mica_create_all_ends(p) ==
    /\ todo[p] = <<>>
    /\ Step(p, "create_all", "signals")
    /\ UNCHANGED <<pidFile, starts, sem_micad_stop, signalled, sockets, epoll, tool, mishap>>

(* Until here a signal ends the process: see Killed. *)
add_signal_handler(p) ==
    /\ Step(p, "signals", "serving") \/ Step(p, "signals", "free")
    /\ UNCHANGED <<pidFile, starts, sem_micad_stop, signalled, sockets, epoll, tool, mishap>>

exit_handler(p) ==
    /\ pc[p] = "serving"
    /\ p \notin signalled
    /\ signalled' = signalled \union {p}
    /\ sem_micad_stop' = [sem_micad_stop EXCEPT ![p] = 1]
    /\ UNCHANGED <<pidFile, pc, starts, sockets, epoll, tool, mishap>>

StopBegins(p) ==
    /\ sem_micad_stop[p] > 0
    /\ Step(p, "serving", "free")
    /\ sem_micad_stop' = [sem_micad_stop EXCEPT ![p] = 0]
    /\ UNCHANGED <<pidFile, starts, signalled, sockets, epoll, tool, mishap>>

(***************************************************************************)
(* unregister_socket_listener(): free_all_listeners() frees what the epoll *)
(* thread may be using, and closes the sockets together with the requests  *)
(* that were not accepted; then the directory is removed.                  *)
(***************************************************************************)
free_all_listeners(p) ==
    /\ Step(p, "free", "rmrf")
    /\ listening' = [listening EXCEPT ![p] = FALSE]
    /\ bound' = [s \in Socket |-> IF s \in listener_list[p] THEN None ELSE bound[s]]
    /\ listener_list' = [listener_list EXCEPT ![p] = {}]
    /\ queue' = [queue EXCEPT ![p] = {}]
    /\ mishap' = mishap \union (IF worker[p] = "serve" THEN {"busy"} ELSE {})
    /\ UNCHANGED <<pidFile, starts, sem_micad_stop, signalled, directory, created, worker, job,
                   tool>>

rmrf(p) ==
    /\ Step(p, "rmrf", "unlock")
    /\ bound' = [s \in Socket |-> None]
    /\ directory' = FALSE
    /\ UNCHANGED <<pidFile, starts, sem_micad_stop, signalled, listener_list, epoll, tool, mishap>>

(* close_pid_file(): the lock goes first, the path last. *)
Unlock(p) ==
    /\ Step(p, "unlock", "unlink")
    /\ locked' = [f \in File |-> IF locked[f] = p THEN None ELSE locked[f]]
    /\ pid_fd' = [pid_fd EXCEPT ![p] = NoFile]
    /\ UNCHANGED <<pid_file, made, starts, sem_micad_stop, signalled, sockets, epoll, tool, mishap>>

\* Faulty variant: the path is left.
Unlink_Not(p) ==
    /\ pc[p] = "unlink"
    /\ Exit(p)
    /\ UNCHANGED <<pid_file, made, starts, directory, tool, mishap>>

Unlink(p) ==
    /\ pc[p] = "unlink"
    /\ NameGoes
    /\ Exit(p)
    /\ UNCHANGED <<made, starts, directory, tool>>

(* The process is killed, or gets a signal before it has its handlers. *)
Killed(p) ==
    /\ pc[p] # "gone"
    /\ Exit(p)
    /\ mishap' = mishap \union {"killed"}
    /\ UNCHANGED <<pid_file, made, starts, directory, tool>>

(***************************************************************************)
(* The epoll thread: accept and read one request (Accept), carry it out,   *)
(* answer it (create_mica_client(), client_ctrl_handler()).  The answer is *)
(* for a process that may have gone on to its next command.                *)
(***************************************************************************)
Accept(p) ==
    /\ worker[p] = "wait"
    /\ \E r \in queue[p] :
        /\ job' = [job EXCEPT ![p] = r]
        /\ queue' = [queue EXCEPT ![p] = @ \ {r}]
    /\ worker' = [worker EXCEPT ![p] = "serve"]
    /\ UNCHANGED <<pidFile, main, sockets, listening, created, tool, mishap>>

Awaits(u, r) ==
    /\ u \in waiting /\ r.from = u
    /\ Head(todo[u]) = [op |-> r.op, name |-> r.name]

(* What is left after a failure: a client that was not created is not *)
(* booted.                                                            *)
Skip(commands) ==
    IF Len(commands) > 1 /\ Head(commands).op = "create"
       /\ commands[2] = [op |-> "start", name |-> Head(commands).name]
    THEN Tail(Tail(commands))
    ELSE Tail(commands)

Answer(p, success) ==
    /\ todo' = [u \in Process |->
                  IF ~Awaits(u, job[p]) THEN todo[u]
                  ELSE IF success THEN Tail(todo[u]) ELSE Skip(todo[u])]
    /\ waiting' = {u \in waiting : ~Awaits(u, job[p])}
    /\ job' = [job EXCEPT ![p] = None]
    /\ worker' = [worker EXCEPT ![p] = IF listening[p] THEN "wait" ELSE "ended"]

(* create_mica_client(): refused when the name is taken in check_create_msg(). *)
ServeCreate(p) ==
    LET r == job[p] IN
    /\ worker[p] = "serve"
    /\ r.op = "create"
    /\ \/ /\ r.name \notin listener_list[p]
          /\ CanBind(r.name)
          /\ bound' = [bound EXCEPT ![r.name] = p]
          /\ listener_list' = [listener_list EXCEPT ![p] = @ \union {r.name}]
          /\ Answer(p, TRUE)
       \/ /\ \/ UNCHANGED bound
             \/ /\ r.name \notin listener_list[p]      \* add_listener() has failed
                /\ bound' = [bound EXCEPT ![r.name] = None]
          /\ Answer(p, FALSE)
          /\ UNCHANGED listener_list
    /\ UNCHANGED <<pidFile, main, directory, listening, created, queue, mishap>>

(* client_ctrl_handler(): start may fail; rm ends in free_listener_by_name(). *)
ServeStart(p) ==
    /\ worker[p] = "serve"
    /\ job[p].op = "start"
    /\ Answer(p, TRUE) \/ Answer(p, FALSE)
    /\ UNCHANGED <<pidFile, main, sockets, listening, created, queue, mishap>>

\* Faulty variant: the unit stays on the list.
ServeRemove_Keeps(p) ==
    LET n == job[p].name IN
    /\ worker[p] = "serve"
    /\ job[p].op = "rm"
    /\ bound' = [bound EXCEPT ![n] = None]
    /\ queue' = [queue EXCEPT ![p] = {r \in @ : PathOf(r) # n}]
    /\ Answer(p, TRUE)
    /\ UNCHANGED <<pidFile, main, directory, listener_list, listening, created, mishap>>

ServeRemove(p) ==
    LET n == job[p].name IN
    /\ worker[p] = "serve"
    /\ job[p].op = "rm"
    /\ bound' = [bound EXCEPT ![n] = None]
    /\ listener_list' = [listener_list EXCEPT ![p] = @ \ {n}]
    /\ queue' = [queue EXCEPT ![p] = {r \in @ : PathOf(r) # n}]
    /\ Answer(p, TRUE)
    /\ UNCHANGED <<pidFile, main, directory, listening, created, mishap>>

(***************************************************************************)
(* The tool: connect to the socket of the command and send it.  A process  *)
(* that finds no socket, or one that refuses, ends.  No answer within 5    *)
(* seconds, or the end of the connection, is None to the caller, which     *)
(* goes on, to the boot of a client it does not know to be there as well;  *)
(* a connection that is reset ends the process.                            *)
(***************************************************************************)
Connect(u) ==
    LET r == [from |-> u, op |-> Head(todo[u]).op, name |-> Head(todo[u]).name]
        p == bound[PathOf(r)]
    IN
    /\ todo[u] # <<>>
    /\ u \notin waiting
    /\ IF p \in Daemon
       THEN /\ waiting' = waiting \union {u}
            /\ queue' = [queue EXCEPT ![p] = @ \union {r}]
            /\ UNCHANGED todo
       ELSE /\ todo' = [todo EXCEPT ![u] = <<>>]
            /\ UNCHANGED <<waiting, queue>>
    /\ UNCHANGED <<pidFile, main, sockets, listening, created, worker, job, mishap>>

GiveUp(u) ==
    /\ u \in waiting
    /\ waiting' = waiting \ {u}
    /\ todo' = [todo EXCEPT ![u] = Tail(@)]
    /\ UNCHANGED <<pidFile, main, sockets, epoll, mishap>>

Reset(u) ==
    /\ u \in waiting
    /\ \A p \in Daemon : \A r \in queue[p] \union {job[p]} : r # None => ~Awaits(u, r)
    /\ waiting' = waiting \ {u}
    /\ todo' = [todo EXCEPT ![u] = <<>>]
    /\ UNCHANGED <<pidFile, main, sockets, epoll, mishap>>

MainStep(p) ==
    \/ Refused(p) \/ write_pid_file(p) \/ RegisterBegins(p) \/ RegisterEnds(p)
    \/ mica_create_all_ends(p) \/ add_signal_handler(p) \/ StopBegins(p)
    \/ free_all_listeners(p) \/ rmrf(p) \/ Unlock(p) \/ Unlink(p)

WorkerStep(p) ==
    \/ WorkerListens(p) \/ WorkerFails(p) \/ Accept(p)
    \/ ServeCreate(p) \/ ServeStart(p) \/ ServeRemove(p)

ToolStep(u) == Connect(u) \/ GiveUp(u) \/ Reset(u)

(* Once the epoll thread uses what was freed, or two daemons use the        *)
(* directory of sockets, the behaviour is not followed any further.         *)
Uses(p) == pc[p] \notin {"gone", "opened", "unlink"}

Defined ==
    /\ "busy" \notin mishap
    /\ \A p, q \in Daemon : Uses(p) /\ Uses(q) => p = q

Next ==
    /\ Defined
    /\ \/ \E p \in Daemon :
            Start(p) \/ MainStep(p) \/ WorkerStep(p) \/ exit_handler(p) \/ Killed(p)
       \/ \E u \in Process : ToolStep(u)

(* The scheduler runs a daemon, one or the other of its threads, together *)
(* with its `mica create --all`; no process has to be started, stopped or  *)
(* killed, and no user has to go on.                                       *)
Fairness ==
    \A p \in Daemon : WF_vars(Defined /\ (MainStep(p) \/ WorkerStep(p) \/ ToolStep(p)))

Spec == Init /\ [][Next]_vars /\ Fairness

(***************************************************************************)
(* Of the daemons that are started only one uses the directory of sockets  *)
(* ("another daemonize instance is already running, don't start up"),      *)
(* whatever the order of their opens, locks and exits, and when one is     *)
(* killed; unless a pid file has lost its path while some daemon had it    *)
(* open: close_pid_file() unlocks it before it removes the path.           *)
(***************************************************************************)
OneDaemon ==
    "nameless" \notin mishap => \A p, q \in Daemon : Uses(p) /\ Uses(q) => p = q

(***************************************************************************)
(* A daemon can be reached: every socket it listens on has its name in the *)
(* directory, and from `mica create --all` to the stop the socket for      *)
(* create is among them, whatever other daemons start, are refused and     *)
(* exit, and whatever the tools ask for in the meantime.                   *)
(***************************************************************************)
Reachable ==
    "nameless" \notin mishap =>
        \A p \in Daemon :
            /\ \A s \in listener_list[p] : directory /\ bound[s] = p
            /\ pc[p] \in {"create_all", "signals", "serving"} =>
                "mica-create" \in listener_list[p]

(***************************************************************************)
(* When no daemon runs and none was killed, no pid file and no socket is   *)
(* left, also after starts that failed and commands that came too late.    *)
(***************************************************************************)
LeavesNothing ==
    mishap = {} /\ (\A p \in Daemon : pc[p] = "gone") =>
        pid_file = NoFile /\ \A s \in Socket : bound[s] = None

(***************************************************************************)
(* A daemon that was started comes to serve or leaves, through the wait    *)
(* for its epoll thread and for `mica create --all`, which waits for that  *)
(* thread; and a daemon that was told to stop leaves.                      *)
(***************************************************************************)
StartsAndStops ==
    \A p \in Daemon :
        (pc[p] = "opened" \/ p \in signalled) ~>
            (pc[p] = "gone" \/ (pc[p] = "serving" /\ p \notin signalled) \/ ~Defined)

-----------------------------------------------------------------------------
(***************************************************************************)
(* The inductive invariant.  A daemon that uses the directory has the lock *)
(* of the file it opened, a lock is had by such a daemon, and no file that *)
(* some daemon has open has lost the path; a pid file is there on account  *)
(* of some daemon.                                                         *)
(***************************************************************************)
FileInv ==
    /\ \A p \in Daemon : Uses(p) => pid_fd[p] \in File /\ locked[pid_fd[p]] = p
    /\ \A p \in Daemon : pc[p] = "opened" => pid_fd[p] \in File
    /\ \A f \in File : locked[f] # None => Uses(locked[f])
    /\ "nameless" \notin mishap =>
          \A p \in Daemon : pid_fd[p] \in File => pid_fd[p] = pid_file
    /\ mishap = {} /\ pid_file # NoFile => \E p \in Daemon : pc[p] # "gone"

(***************************************************************************)
(* What the main thread may rely on at each of its places: how far the     *)
(* epoll thread is, what it listens on, and which requests it has.         *)
(***************************************************************************)
Silent(p) == listener_list[p] = {} /\ queue[p] = {}
Serves(p) == worker[p] \in {"wait", "serve"} /\ "mica-create" \in listener_list[p]

PlaceInv(p) ==
    /\ pc[p] \in {"gone", "opened", "locked"} =>
          worker[p] = "none" /\ Silent(p) /\ ~created[p] /\ ~listening[p]
    /\ pc[p] = "register" =>
          \/ ~created[p] /\ ~listening[p] /\ worker[p] = "new" /\ Silent(p)
          \/ created[p] /\ ~listening[p] /\ worker[p] = "ended" /\ Silent(p)
          \/ created[p] /\ listening[p] /\ Serves(p)
    /\ pc[p] \in {"create_all", "signals", "serving", "free"} => listening[p] /\ Serves(p)
    /\ pc[p] \in {"rmrf", "unlock", "unlink"} =>
          /\ Silent(p) /\ worker[p] # "new"
          /\ "busy" \notin mishap => worker[p] # "serve"
    /\ pc[p] \in {"opened", "locked", "register"} => todo[p] = <<>>
    /\ worker[p] = "serve" => job[p] \in Request

(***************************************************************************)
(* The names in the directory are those of the listeners.                  *)
(***************************************************************************)
SocketInv ==
    /\ \A s \in Socket : bound[s] \in Daemon => s \in listener_list[bound[s]]
    /\ mishap = {} => \A s \in Socket : bound[s] # Stale
    /\ "nameless" \notin mishap =>
          \A p \in Daemon : \A s \in listener_list[p] : directory /\ bound[s] = p

IInv ==
    /\ TypeOK
    /\ FileInv
    /\ \A p \in Daemon : PlaceInv(p)
    /\ SocketInv
    /\ \A u \in waiting : todo[u] # <<>>

=============================================================================
