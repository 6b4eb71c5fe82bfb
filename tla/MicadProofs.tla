----------------------------- MODULE MicadProofs -----------------------------
(***************************************************************************)
(* Proofs about Micad, for any number of daemons, tools, clients, pid      *)
(* files and starts: the lock on the pid file lets one daemon through, a   *)
(* daemon can be reached, and nothing is left behind.  At the end those    *)
(* about Terminal, whose threads are micad's.                              *)
(***************************************************************************)
EXTENDS Micad, Terminal, TLAPS

USE ZenonT(10), SMT, SMTT(30)

(***************************************************************************)
(* What is left of the commands of a tool is again a list of commands.     *)
(***************************************************************************)
LEMMA SkipType ==
    ASSUME NEW s \in Seq(Command)
    PROVE  s # <<>> => Tail(s) \in Seq(Command) /\ Skip(s) \in Seq(Command)
<1>1. \A n \in Nat : n > 1 => n - 1 # 0
  BY SMT, SMTT(30)
<1>2. Len(<<>>) = 0 /\ Len(s) \in Nat
  BY SMT, SMTT(30)
<1>3. \A t \in Seq(Command) :
        t # <<>> => Tail(t) \in Seq(Command) /\ Len(Tail(t)) = Len(t) - 1
  BY SMT, SMTT(30)
<1>4. s # <<>> /\ Len(s) > 1 => Tail(s) # <<>>
  BY <1>1, <1>2, <1>3, Zenon
<1> QED BY <1>3, <1>4, Zenon DEF Skip

(* No commands are a list of commands. *)
LEMMA EmptyList == <<>> \in Seq(Command)
BY SMT, SMTT(30)

(***************************************************************************)
(* An answer leaves the lists of commands and the epoll thread well typed. *)
(***************************************************************************)
LEMMA AnswerType ==
    ASSUME IInv, NEW p \in Daemon, NEW success \in BOOLEAN, Answer(p, success)
    PROVE  /\ todo' \in [Process -> Seq(Command)]
           /\ waiting' \subseteq Process
           /\ job' \in [Daemon -> Request \union {None}]
           /\ worker' \in [Daemon -> {"none", "new", "wait", "serve", "ended"}]
           /\ \A u \in waiting' : u \in waiting /\ todo'[u] # <<>>
<1>1. ASSUME NEW u \in Process
      PROVE  /\ todo'[u] \in Seq(Command)
             /\ ~Awaits(u, job[p]) => todo'[u] = todo[u]
  <2>1. todo[u] \in Seq(Command) /\ (u \in waiting => todo[u] # <<>>)
    BY DEF IInv, TypeOK
  <2>2. CASE Awaits(u, job[p])
    BY <2>1, <2>2, SkipType DEF Answer, Awaits
  <2>3. CASE ~Awaits(u, job[p])
    BY <2>1, <2>3 DEF Answer
  <2> QED BY <2>2, <2>3
<1>2. todo' \in [Process -> Seq(Command)]
  BY <1>1 DEF Answer
<1>3. waiting' \subseteq waiting /\ waiting \subseteq Process
  BY DEF Answer, IInv, TypeOK
<1>4. \A u \in waiting' : u \in waiting /\ todo'[u] # <<>>
  BY <1>1, <1>3 DEF Answer, IInv
<1>5. /\ job' \in [Daemon -> Request \union {None}]
      /\ worker' \in [Daemon -> {"none", "new", "wait", "serve", "ended"}]
  BY DEF Answer, IInv, TypeOK
<1> QED BY <1>2, <1>3, <1>4, <1>5

(***************************************************************************)
(* An exit leaves everything well typed.                                   *)
(***************************************************************************)
LEMMA ExitType ==
    ASSUME TypeOK, NEW p \in Daemon, Exit(p)
    PROVE  /\ pid_fd' \in [Daemon -> File \union {NoFile}]
           /\ locked' \in [File -> Daemon \union {None}]
           /\ pc' \in [Daemon -> Places]
           /\ bound' \in [Socket -> Daemon \union {None, Stale}]
           /\ listener_list' \in [Daemon -> SUBSET Socket]
           /\ listening' \in [Daemon -> BOOLEAN] /\ created' \in [Daemon -> BOOLEAN]
           /\ worker' \in [Daemon -> {"none", "new", "wait", "serve", "ended"}]
           /\ job' \in [Daemon -> Request \union {None}]
           /\ queue' \in [Daemon -> SUBSET Request]
           /\ sem_micad_stop' \in [Daemon -> 0..1] /\ signalled' \subseteq Daemon
BY SMT, SMTT(30) DEF TypeOK, Exit, Places

-----------------------------------------------------------------------------
(***************************************************************************)
(* The variables keep their types (also that what a tool waits for is at   *)
(* the head of its list).                                                  *)
(***************************************************************************)
LEMMA TypeStep ==
    ASSUME IInv, Next
    PROVE  TypeOK' /\ (\A u \in waiting : todo[u] # <<>>)'
<1> DEFINE Heads == \A u \in waiting : todo[u] # <<>>
<1> USE ConstantsAssumption
<1>0. TypeOK /\ Heads
  BY DEF IInv
<1>1. ASSUME NEW p \in Daemon, Start(p) PROVE TypeOK' /\ Heads'
  BY <1>0, <1>1, SMT, SMTT(30) DEF TypeOK, Start, Step, Places, File, NoFile, sockets, epoll, tool
<1>2. ASSUME NEW p \in Daemon, MainStep(p) PROVE TypeOK' /\ Heads'
  <2>1. CASE Refused(p) \/ Unlink(p)
    BY <1>0, <2>1, ExitType, ZenonT(60) DEF TypeOK, Refused, Unlink, NameGoes, tool
  <2>2. CASE write_pid_file(p)
    BY <1>0, <2>2, Zenon DEF TypeOK, write_pid_file, NameGoes, Step, Places, sockets, epoll, tool
  <2>3. CASE RegisterBegins(p)
    BY <1>0, <2>3, ZenonT(60) DEF TypeOK, RegisterBegins, Step, Places, pidFile, tool
  <2>4. CASE RegisterEnds(p)
    <3>1. \A u \in Process : u \in waiting => todo'[u] = todo[u]
      <4>1. p \notin waiting
        BY <1>0, <2>4 DEF IInv, PlaceInv, RegisterEnds, Step
      <4> QED BY <1>0, <2>4, <4>1 DEF RegisterEnds, TypeOK
    <3>2. todo' \in [Process -> Seq(Command)]
      <4>1. (IF listening[p] THEN Configured ELSE <<>>) \in Seq(Command)
        BY EmptyList
      <4> QED BY <1>0, <2>4, <4>1, Zenon DEF TypeOK, RegisterEnds, Process
    <3> QED
      BY <1>0, <2>4, <3>1, <3>2
      DEF TypeOK, RegisterEnds, Step, Places, pidFile, sockets, epoll
  <2>5. CASE mica_create_all_ends(p) \/ add_signal_handler(p)
    BY <1>0, <2>5, ZenonT(60)
    DEF TypeOK, mica_create_all_ends, add_signal_handler, Step, Places, pidFile, sockets,
        epoll, tool
  <2>6. CASE StopBegins(p)
    BY <1>0, <2>6, SMT, SMTT(30) DEF TypeOK, StopBegins, Step, Places, pidFile, sockets, epoll, tool
  <2>7. CASE free_all_listeners(p)
    BY <1>0, <2>7 DEF TypeOK, free_all_listeners, Step, Places, pidFile, tool
  <2>8. CASE rmrf(p)
    BY <1>0, <2>8, Zenon DEF TypeOK, rmrf, Step, Places, pidFile, epoll, tool
  <2>9. CASE Unlock(p)
    BY <1>0, <2>9 DEF TypeOK, Unlock, Step, Places, sockets, epoll, tool
  <2> QED
    BY <1>2, <2>1, <2>2, <2>3, <2>4, <2>5, <2>6, <2>7, <2>8, <2>9 DEF MainStep
<1>3. ASSUME NEW p \in Daemon, WorkerStep(p) PROVE TypeOK' /\ Heads'
  <2>1. CASE WorkerListens(p)
    BY <1>0, <2>1 DEF TypeOK, WorkerListens, Socket, pidFile, main, tool
  <2>1f. CASE WorkerFails(p)
    <3>1. bound' \in [Socket -> Daemon \union {None, Stale}]
      BY <1>0, <2>1f, Zenon DEF TypeOK, WorkerFails
    <3> QED BY <1>0, <2>1f, <3>1 DEF TypeOK, WorkerFails, pidFile, main, tool
  <2>2. CASE Accept(p)
    BY <1>0, <2>2, SMT, SMTT(30) DEF TypeOK, Accept, pidFile, main, sockets, tool
  <2>3. CASE ServeCreate(p)
    <3>1. Answer(p, TRUE) \/ Answer(p, FALSE)
      BY <2>3, Zenon DEF ServeCreate
    <3>2. /\ bound' \in [Socket -> Daemon \union {None, Stale}]
          /\ listener_list' \in [Daemon -> SUBSET Socket]
      <4> DEFINE n == job[p].name
      <4>1. n \in Socket
        BY <2>3 DEF ServeCreate, IInv, PlaceInv, Request, Socket
      <4>2. /\ bound' \in {bound, [bound EXCEPT ![n] = p], [bound EXCEPT ![n] = None]}
            /\ listener_list' \in {listener_list,
                                   [listener_list EXCEPT ![p] = @ \union {n}]}
        BY <2>3, Zenon DEF ServeCreate
      <4> HIDE DEF n
      <4>3. bound' \in [Socket -> Daemon \union {None, Stale}]
        <5>1. bound \in [Socket -> Daemon \union {None, Stale}]
          BY <1>0 DEF TypeOK
        <5>2. \A v \in Daemon \union {None, Stale} :
                [bound EXCEPT ![n] = v] \in [Socket -> Daemon \union {None, Stale}]
          BY <4>1, <5>1
        <5>3. p \in Daemon \union {None, Stale} /\ None \in Daemon \union {None, Stale}
          OBVIOUS
        <5> QED BY <4>2, <5>1, <5>2, <5>3, Zenon
      <4>4. listener_list' \in [Daemon -> SUBSET Socket]
        <5>1. listener_list \in [Daemon -> SUBSET Socket]
          BY <1>0 DEF TypeOK
        <5>2. listener_list[p] \union {n} \in SUBSET Socket
          BY <4>1, <5>1
        <5>3. [listener_list EXCEPT ![p] = @ \union {n}] \in [Daemon -> SUBSET Socket]
          BY <5>1, <5>2
        <5> QED BY <4>2, <5>1, <5>3, Zenon
      <4> QED BY <4>3, <4>4
    <3> QED
      BY <1>0, <2>3, <3>1, <3>2, AnswerType, Zenon DEF TypeOK, ServeCreate, pidFile, main
  <2>4. CASE ServeStart(p)
    <3>1. Answer(p, TRUE) \/ Answer(p, FALSE)
      BY <2>4, Zenon DEF ServeStart
    <3> QED
      BY <1>0, <2>4, <3>1, AnswerType, Zenon DEF TypeOK, ServeStart, pidFile, main, sockets
  <2>5. CASE ServeRemove(p)
    BY <1>0, <2>5, AnswerType, Zenon DEF TypeOK, ServeRemove, pidFile, main
  <2> QED BY <1>3, <2>1, <2>1f, <2>2, <2>3, <2>4, <2>5 DEF WorkerStep
<1>4. ASSUME NEW p \in Daemon, exit_handler(p) PROVE TypeOK' /\ Heads'
  BY <1>0, <1>4, SMT, SMTT(30) DEF TypeOK, exit_handler, pidFile, sockets, epoll, tool
<1>5. ASSUME NEW p \in Daemon, Killed(p) PROVE TypeOK' /\ Heads'
  BY <1>0, <1>5, ExitType DEF TypeOK, Killed, tool
<1>6. ASSUME NEW u \in Process, ToolStep(u) PROVE TypeOK' /\ Heads'
  <2>0. /\ todo[u] \in Seq(Command)
        /\ todo[u] # <<>> => Tail(todo[u]) \in Seq(Command)
        /\ todo[u] # <<>> => Head(todo[u]) \in Command
        /\ <<>> \in Seq(Command)
    BY <1>0, SkipType, SMT, SMTT(30) DEF TypeOK
  <2>1. CASE Connect(u)
    <3> DEFINE r == [from |-> u, op |-> Head(todo[u]).op, name |-> Head(todo[u]).name]
    <3>1. r \in Request
      BY <2>0, <2>1 DEF Connect, Request, Command
    <3> DEFINE p == bound[PathOf(r)]
    <3> HIDE DEF r
    <3>2. CASE p \in Daemon
      <4>1. /\ queue' = [queue EXCEPT ![p] = @ \union {r}]
            /\ waiting' = waiting \union {u}
            /\ todo' = todo /\ todo[u] # <<>>
        BY <2>1, <3>2, Zenon DEF Connect, r
      <4>2. queue' \in [Daemon -> SUBSET Request] /\ Heads'
        BY <1>0, <3>1, <4>1, ZenonT(60) DEF TypeOK
      <4> QED BY <1>0, <2>1, <4>1, <4>2 DEF TypeOK, Connect, pidFile, main, sockets
    <3>3. CASE p \notin Daemon
      <4>1. /\ todo' = [todo EXCEPT ![u] = <<>>]
            /\ waiting' = waiting /\ queue' = queue /\ u \notin waiting
        BY <2>1, <3>3 DEF Connect, r
      <4>2. todo' \in [Process -> Seq(Command)] /\ Heads'
        BY <1>0, <2>0, <4>1, Zenon DEF TypeOK
      <4> QED BY <1>0, <2>1, <4>1, <4>2 DEF TypeOK, Connect, pidFile, main, sockets
    <3> QED BY <3>2, <3>3
  <2>2. CASE GiveUp(u) \/ Reset(u)
    <3>1. PICK l \in Seq(Command) : todo' = [todo EXCEPT ![u] = l]
      BY <1>0, <2>0, <2>2, Zenon DEF GiveUp, Reset, TypeOK
    <3>2. todo' \in [Process -> Seq(Command)] /\ waiting' = waiting \ {u} /\ Heads'
      BY <1>0, <2>2, <3>1 DEF GiveUp, Reset, TypeOK
    <3> QED
      BY <1>0, <2>2, <3>2, ZenonT(60) DEF TypeOK, GiveUp, Reset, pidFile, main, sockets, epoll
  <2> QED BY <1>6, <2>1, <2>2 DEF ToolStep
<1> QED BY <1>1, <1>2, <1>3, <1>4, <1>5, <1>6 DEF Next

-----------------------------------------------------------------------------
(***************************************************************************)
(* A step that leaves the pid files alone, and no daemon starts, gets past *)
(* its lock or ends.                                                       *)
(***************************************************************************)
LEMMA FileQuiet ==
    ASSUME TypeOK, FileInv, UNCHANGED pidFile, mishap \subseteq mishap',
           \A q \in Daemon :
               /\ Uses(q)' <=> Uses(q)
               /\ pc'[q] = "opened" => pc[q] = "opened"
               /\ pc[q] # "gone" => pc'[q] # "gone"
    PROVE  FileInv'
<1>1. \A p \in Daemon : Uses(p)' => pid_fd'[p] \in File /\ locked'[pid_fd'[p]] = p
  BY DEF FileInv, pidFile, Uses
<1>2. \A p \in Daemon : pc'[p] = "opened" => pid_fd'[p] \in File
  BY DEF FileInv, pidFile, Uses
<1>3. \A f \in File : locked'[f] # None => Uses(locked[f])' /\ locked'[f] = locked[f]
  BY SMT, SMTT(30) DEF FileInv, pidFile, TypeOK, Uses
<1>4. "nameless" \notin mishap' =>
        \A p \in Daemon : pid_fd'[p] \in File => pid_fd'[p] = pid_file'
  BY DEF FileInv, pidFile, Uses
<1>5. mishap' = {} /\ pid_file' # NoFile => \E p \in Daemon : pc'[p] # "gone"
  BY DEF FileInv, pidFile, Uses
<1> QED BY <1>1, <1>2, <1>3, <1>4, <1>5 DEF FileInv, Uses

(***************************************************************************)
(* A daemon that ends gives up its lock and no other.                      *)
(***************************************************************************)
LEMMA FileExit ==
    ASSUME TypeOK, FileInv, NEW p \in Daemon, Exit(p), mishap \subseteq mishap'
    PROVE  /\ \A q \in Daemon : Uses(q)' => pid_fd'[q] \in File /\ locked'[pid_fd'[q]] = q
           /\ \A q \in Daemon : pc'[q] = "opened" => pid_fd'[q] \in File
           /\ \A f \in File : locked'[f] # None => (locked'[f] = locked[f] /\ Uses(locked[f])')
           /\ \A q \in Daemon : pid_fd'[q] \in File => q # p /\ pid_fd'[q] = pid_fd[q]
<1>1. \A q \in Daemon : pc'[q] = IF q = p THEN "gone" ELSE pc[q]
  BY DEF Exit, TypeOK
<1>2. \A q \in Daemon : pid_fd'[q] = IF q = p THEN NoFile ELSE pid_fd[q]
  BY DEF Exit, TypeOK
<1>3. \A f \in File : locked'[f] = IF locked[f] = p THEN None ELSE locked[f]
  BY DEF Exit, TypeOK
<1>4. NoFile \notin File
  BY SMT, SMTT(30) DEF NoFile, File
<1>5. \A q \in Daemon : Uses(q)' <=> q # p /\ Uses(q)
  BY <1>1 DEF Uses
<1>6. \A q \in Daemon : Uses(q)' => pid_fd'[q] \in File /\ locked'[pid_fd'[q]] = q
  BY <1>2, <1>3, <1>5 DEF FileInv
<1>7. \A q \in Daemon : pc'[q] = "opened" => pid_fd'[q] \in File
  BY <1>1, <1>2 DEF FileInv
<1>8. ASSUME NEW f \in File, locked'[f] # None
      PROVE  locked'[f] = locked[f] /\ Uses(locked[f])'
  <2>1. locked'[f] = locked[f] /\ locked[f] # p /\ locked[f] \in Daemon
    BY <1>3, <1>8 DEF TypeOK
  <2>2. Uses(locked[f])
    BY <1>8, <2>1 DEF FileInv
  <2>3. pc'[locked[f]] = pc[locked[f]]
    BY <1>1, <2>1
  <2>4. (locked[f])' = locked[f]
    BY <2>1
  <2> QED BY <2>1, <2>2, <2>3, <2>4 DEF Uses
<1> QED BY <1>2, <1>4, <1>6, <1>7, <1>8

(***************************************************************************)
(* Every step keeps FileInv: it is Start, write_pid_file() and the ways to *)
(* end that have to do with pid files.                                     *)
(***************************************************************************)
LEMMA FileStep ==
    ASSUME IInv, Next
    PROVE  FileInv'
<1> USE ConstantsAssumption
<1>0. TypeOK /\ FileInv /\ NoFile \notin File
  BY SMT, SMTT(30) DEF IInv, NoFile, File
<1>1. ASSUME NEW p \in Daemon, Start(p) PROVE FileInv'
  <2>1. \A q \in Daemon : /\ q # p => pc'[q] = pc[q] /\ pid_fd'[q] = pid_fd[q]
                          /\ q = p => pc'[q] = "opened" /\ pid_fd'[q] = pid_file'
    BY <1>0, <1>1 DEF Start, Step, TypeOK
  <2>2. pid_file' \in File /\ (pid_file \in File => pid_file' = pid_file)
    BY <1>0, <1>1, SMT, SMTT(30) DEF Start, TypeOK, File, NoFile
  <2>3. pc[p] = "gone" /\ locked' = locked /\ mishap' = mishap
    BY <1>1 DEF Start, Step
  <2>4. \A q \in Daemon : Uses(q)' <=> Uses(q)
    BY <2>1, <2>3 DEF Uses
  <2>5. \A q \in Daemon : Uses(q)' => pid_fd'[q] \in File /\ locked'[pid_fd'[q]] = q
    BY <1>0, <2>1, <2>3, <2>4 DEF FileInv, Uses
  <2>6. \A q \in Daemon : pc'[q] = "opened" => pid_fd'[q] \in File
    BY <1>0, <2>1, <2>2 DEF FileInv
  <2>7. \A f \in File : locked'[f] # None => Uses(locked[f])'
    BY <1>0, <2>1, <2>3, SMT, SMTT(30) DEF FileInv, Uses, TypeOK
  <2>8. "nameless" \notin mishap' =>
          \A q \in Daemon : pid_fd'[q] \in File => pid_fd'[q] = pid_file'
    BY <1>0, <2>1, <2>2, <2>3, SMT, SMTT(30) DEF FileInv
  <2>9. \E q \in Daemon : pc'[q] # "gone"
    BY <2>1
  <2> QED BY <2>5, <2>6, <2>7, <2>8, <2>9 DEF FileInv
<1>2. ASSUME NEW p \in Daemon, write_pid_file(p) PROVE FileInv'
  <2>1. /\ pc[p] = "opened" /\ pid_fd' = pid_fd /\ pid_fd[p] \in File
        /\ locked[pid_fd[p]] = None /\ locked' = [locked EXCEPT ![pid_fd[p]] = p]
        /\ mishap \subseteq mishap'
    BY <1>0, <1>2 DEF write_pid_file, Step, NameGoes, FileInv
  <2>2. \A q \in Daemon : pc'[q] = IF q = p THEN "locked" ELSE pc[q]
    BY <1>0, <1>2 DEF write_pid_file, Step, TypeOK
  <2>3. \A f \in File : locked'[f] = IF f = pid_fd[p] THEN p ELSE locked[f]
    BY <1>0, <2>1 DEF TypeOK
  <2>4. \A q \in Daemon : Uses(q)' => pid_fd'[q] \in File /\ locked'[pid_fd'[q]] = q
    BY <1>0, <2>1, <2>2, <2>3, SMT, SMTT(30) DEF FileInv, Uses
  <2>5. \A q \in Daemon : pc'[q] = "opened" => pid_fd'[q] \in File
    BY <1>0, <2>1, <2>2 DEF FileInv
  <2>6. \A f \in File : locked'[f] # None => Uses(locked[f])'
    <3> SUFFICES ASSUME NEW f \in File, locked'[f] # None
                 PROVE  pc'[locked'[f]] \notin {"gone", "opened", "unlink"}
      BY DEF Uses
    <3>1. CASE f = pid_fd[p]
      BY <2>2, <2>3, <3>1
    <3>2. CASE f # pid_fd[p]
      <4>1. locked'[f] = locked[f] /\ locked[f] \in Daemon
        BY <1>0, <2>3, <3>2 DEF TypeOK
      <4>2. pc[locked[f]] \notin {"gone", "opened", "unlink"}
        BY <1>0, <4>1 DEF FileInv, Uses
      <4> QED BY <2>2, <4>1, <4>2
    <3> QED BY <3>1, <3>2
  <2>7. "nameless" \notin mishap' =>
          \A q \in Daemon : pid_fd'[q] \in File => pid_fd'[q] = pid_file'
    BY <1>0, <1>2, <2>1 DEF FileInv, write_pid_file, NameGoes
  <2>8. \E q \in Daemon : pc'[q] # "gone"
    BY <2>2
  <2> QED BY <2>4, <2>5, <2>6, <2>7, <2>8 DEF FileInv
<1>3. ASSUME NEW p \in Daemon, Refused(p) PROVE FileInv'
  <2>1. Exit(p) /\ pid_file' = pid_file /\ mishap' = mishap
    BY <1>3 DEF Refused
  <2>2. \E q \in Daemon : pc'[q] # "gone"
    <3>1. PICK q \in Daemon : q = locked[pid_fd[p]] /\ Uses(q)
      BY <1>0, <1>3, SMT, SMTT(30) DEF FileInv, Refused, TypeOK
    <3>2. q # p /\ pc[q] # "gone"
      BY <1>3, <3>1 DEF Refused, Uses
    <3>3. pc'[q] = pc[q]
      BY <1>0, <2>1, <3>2 DEF Exit, TypeOK
    <3> QED BY <3>2, <3>3
  <2> QED BY <1>0, <2>1, <2>2, FileExit DEF FileInv
<1>4. ASSUME NEW p \in Daemon, Killed(p) PROVE FileInv'
  <2>1. Exit(p) /\ pid_file' = pid_file /\ mishap' = mishap \union {"killed"}
    BY <1>4 DEF Killed
  <2> QED BY <1>0, <2>1, FileExit DEF FileInv
<1>5. ASSUME NEW p \in Daemon, Unlink(p) PROVE FileInv'
  <2>1. Exit(p) /\ pid_file' = NoFile /\ mishap \subseteq mishap'
    BY <1>5 DEF Unlink, NameGoes
  <2>2. "nameless" \notin mishap' => \A q \in Daemon : pid_fd'[q] \notin File
    BY <1>0, <1>5, <2>1, FileExit, SMT, SMTT(30) DEF FileInv, Unlink, NameGoes
  <2> QED BY <1>0, <2>1, <2>2, FileExit DEF FileInv
<1>6. ASSUME NEW p \in Daemon, Unlock(p) PROVE FileInv'
  <2>1. \A q \in Daemon : pc'[q] = IF q = p THEN "unlink" ELSE pc[q]
    BY <1>0, <1>6 DEF Unlock, Step, TypeOK
  <2>2. \A q \in Daemon : pid_fd'[q] = IF q = p THEN NoFile ELSE pid_fd[q]
    BY <1>0, <1>6 DEF Unlock, TypeOK
  <2>3. \A f \in File : locked'[f] = IF locked[f] = p THEN None ELSE locked[f]
    BY <1>0, <1>6 DEF Unlock, TypeOK
  <2>4. pid_file' = pid_file /\ mishap' = mishap
    BY <1>6 DEF Unlock
  <2>5. \A q \in Daemon : Uses(q)' => pid_fd'[q] \in File /\ locked'[pid_fd'[q]] = q
    BY <1>0, <2>1, <2>2, <2>3, SMT, SMTT(30) DEF FileInv, Uses
  <2>6. \A q \in Daemon : pc'[q] = "opened" => pid_fd'[q] \in File
    BY <1>0, <2>1, <2>2 DEF FileInv
  <2>7. \A f \in File : locked'[f] # None => Uses(locked[f])'
    BY <1>0, <2>1, <2>3, SMT, SMTT(30) DEF FileInv, Uses, TypeOK
  <2>8. "nameless" \notin mishap' =>
          \A q \in Daemon : pid_fd'[q] \in File => pid_fd'[q] = pid_file'
    BY <1>0, <2>2, <2>4 DEF FileInv
  <2>9. \E q \in Daemon : pc'[q] # "gone"
    BY <2>1
  <2> QED BY <2>5, <2>6, <2>7, <2>8, <2>9 DEF FileInv
<1> DEFINE Quietly ==
        /\ UNCHANGED pidFile /\ mishap \subseteq mishap'
        /\ \A q \in Daemon :
               /\ Uses(q)' <=> Uses(q)
               /\ pc'[q] = "opened" => pc[q] = "opened"
               /\ pc[q] # "gone" => pc'[q] # "gone"
<1>7. ASSUME NEW p \in Daemon,
             \/ RegisterBegins(p) \/ RegisterEnds(p) \/ mica_create_all_ends(p)
             \/ add_signal_handler(p) \/ StopBegins(p) \/ free_all_listeners(p) \/ rmrf(p)
      PROVE  Quietly
  <2>1. UNCHANGED pidFile /\ mishap \subseteq mishap'
    BY <1>7 DEF RegisterBegins, RegisterEnds, mica_create_all_ends, add_signal_handler,
                StopBegins, free_all_listeners, rmrf
  <2>2. PICK to \in {"register", "unlock", "create_all", "signals", "serving", "free", "rmrf"} :
            /\ pc' = [pc EXCEPT ![p] = to]
            /\ Uses(p) /\ pc[p] # "opened"
    BY <1>7 DEF RegisterBegins, RegisterEnds, mica_create_all_ends, add_signal_handler,
                StopBegins, free_all_listeners, rmrf, Step, Uses
  <2>3. \A q \in Daemon : pc'[q] = IF q = p THEN to ELSE pc[q]
    BY <1>0, <2>2 DEF TypeOK
  <2> QED BY <2>1, <2>2, <2>3 DEF Uses
<1>8. ASSUME NEW p \in Daemon, WorkerStep(p) \/ exit_handler(p) PROVE Quietly
  <2>1. UNCHANGED pidFile /\ mishap' = mishap /\ pc' = pc
    BY <1>8, Zenon DEF WorkerStep, WorkerListens, WorkerFails, Accept, ServeCreate, ServeStart,
                ServeRemove, exit_handler, main
  <2> QED BY <2>1 DEF Uses
<1>9. ASSUME NEW u \in Process, ToolStep(u) PROVE Quietly
  <2>1. UNCHANGED pidFile /\ mishap' = mishap /\ pc' = pc
    BY <1>9, Zenon DEF ToolStep, Connect, GiveUp, Reset, main
  <2> QED BY <2>1 DEF Uses
<1>10. Quietly => FileInv'
  BY <1>0, FileQuiet
<1> QED
  BY <1>1, <1>2, <1>3, <1>4, <1>5, <1>6, <1>7, <1>8, <1>9, <1>10, Zenon DEF Next, MainStep

-----------------------------------------------------------------------------
(***************************************************************************)
(* A daemon is where it was if nothing of its own has changed.             *)
(***************************************************************************)
LEMMA PlaceSame ==
    ASSUME NEW q \in Daemon, PlaceInv(q),
           pc'[q] = pc[q], worker'[q] = worker[q], job'[q] = job[q],
           created'[q] = created[q], listening'[q] = listening[q],
           listener_list'[q] = listener_list[q], queue'[q] = queue[q],
           todo[q] = <<>> => todo'[q] = <<>>, mishap \subseteq mishap'
    PROVE  PlaceInv(q)'
BY DEF PlaceInv, Silent, Serves

(***************************************************************************)
(* An answer only shortens the list of a process that waits.               *)
(***************************************************************************)
LEMMA AnswerPlace ==
    ASSUME IInv, NEW p \in Daemon, NEW success \in BOOLEAN, Answer(p, success)
    PROVE  \A u \in Process : todo[u] = <<>> => todo'[u] = <<>>
BY DEF Answer, Awaits, IInv

(***************************************************************************)
(* The other daemons are not concerned by what a daemon does.              *)
(***************************************************************************)
LEMMA PlaceOthers ==
    ASSUME IInv, NEW p \in Daemon, NEW q \in Daemon, q # p,
           Start(p) \/ MainStep(p) \/ WorkerStep(p) \/ exit_handler(p) \/ Killed(p)
    PROVE  PlaceInv(q)'
<1>0. TypeOK /\ PlaceInv(q) /\ q \in Process
  BY DEF IInv, Process
<1>1. pc'[q] = pc[q]
  BY <1>0, ZenonT(60)
  DEF TypeOK, Start, MainStep, WorkerStep, exit_handler, Killed, Refused, Unlink, Exit,
      write_pid_file, RegisterBegins, RegisterEnds, mica_create_all_ends,
      add_signal_handler, StopBegins, free_all_listeners, rmrf, Unlock, Step,
      WorkerListens, WorkerFails, Accept, ServeCreate, ServeStart, ServeRemove, main
<1>2. worker'[q] = worker[q] /\ job'[q] = job[q]
  BY <1>0, ZenonT(60)
  DEF TypeOK, Start, MainStep, WorkerStep, exit_handler, Killed, Refused, Unlink, Exit,
      write_pid_file, RegisterBegins, RegisterEnds, mica_create_all_ends,
      add_signal_handler, StopBegins, free_all_listeners, rmrf, Unlock, Answer,
      WorkerListens, WorkerFails, Accept, ServeCreate, ServeStart, ServeRemove, epoll
<1>3. created'[q] = created[q] /\ listening'[q] = listening[q]
  BY <1>0, ZenonT(60)
  DEF TypeOK, Start, MainStep, WorkerStep, exit_handler, Killed, Refused, Unlink, Exit,
      write_pid_file, RegisterBegins, RegisterEnds, mica_create_all_ends,
      add_signal_handler, StopBegins, free_all_listeners, rmrf, Unlock,
      WorkerListens, WorkerFails, Accept, ServeCreate, ServeStart, ServeRemove, epoll
<1>4. listener_list'[q] = listener_list[q] /\ queue'[q] = queue[q]
  BY <1>0, ZenonT(60)
  DEF TypeOK, Start, MainStep, WorkerStep, exit_handler, Killed, Refused, Unlink, Exit,
      write_pid_file, RegisterBegins, RegisterEnds, mica_create_all_ends,
      add_signal_handler, StopBegins, free_all_listeners, rmrf, Unlock,
      WorkerListens, WorkerFails, Accept, ServeCreate, ServeStart, ServeRemove, epoll,
      sockets
<1>5. todo[q] = <<>> => todo'[q] = <<>>
  <2>1. CASE ServeCreate(p) \/ ServeStart(p) \/ ServeRemove(p)
    BY <1>0, <2>1, AnswerPlace, Zenon DEF ServeCreate, ServeStart, ServeRemove
  <2>2. CASE RegisterEnds(p)
    BY <1>0, <2>2 DEF RegisterEnds, TypeOK
  <2>3. CASE todo' = todo
    BY <2>3
  <2> QED
    BY <2>1, <2>2, <2>3, Zenon DEF Start, MainStep, WorkerStep, exit_handler, Killed, Refused, Unlink,
        write_pid_file, RegisterBegins, mica_create_all_ends,
        add_signal_handler, StopBegins, free_all_listeners, rmrf, Unlock,
        WorkerListens, WorkerFails, Accept, tool
<1>6. mishap \subseteq mishap'
  BY Zenon DEF Start, MainStep, WorkerStep, exit_handler, Killed, Refused, Unlink, NameGoes,
         write_pid_file, RegisterBegins, RegisterEnds, mica_create_all_ends,
         add_signal_handler, StopBegins, free_all_listeners, rmrf, Unlock,
         WorkerListens, WorkerFails, Accept, ServeCreate, ServeStart, ServeRemove
<1> QED BY <1>0, <1>1, <1>2, <1>3, <1>4, <1>5, <1>6, PlaceSame

(***************************************************************************)
(* A daemon at work finds its epoll thread able to serve: a request is     *)
(* carried out only before the listeners are freed.                        *)
(***************************************************************************)
LEMMA ServesWhenServing ==
    ASSUME IInv, Defined, NEW p \in Daemon, worker[p] = "serve"
    PROVE  /\ pc[p] \in {"register", "create_all", "signals", "serving", "free"}
           /\ pc[p] = "register" => created[p]
           /\ listening[p] /\ "mica-create" \in listener_list[p]
           /\ job[p] \in Request /\ job[p].name \in Client
<1>1. PlaceInv(p) /\ pc[p] \in Places /\ "busy" \notin mishap
  BY DEF IInv, TypeOK, Defined
<1>2. job[p] \in Request
  BY <1>1 DEF PlaceInv
<1>3. job[p].name \in Client
  BY <1>2 DEF Request
<1>4. pc[p] \notin {"gone", "opened", "locked", "rmrf", "unlock", "unlink"}
  BY <1>1 DEF PlaceInv
<1>5. pc[p] \in {"register", "create_all", "signals", "serving", "free"}
  BY <1>1, <1>4 DEF Places
<1> QED BY <1>1, <1>2, <1>3, <1>5 DEF PlaceInv, Serves

(***************************************************************************)
(* The daemon itself: one case for each of its steps.                      *)
(***************************************************************************)
LEMMA PlaceOwn ==
    ASSUME IInv, Defined, NEW p \in Daemon,
           Start(p) \/ MainStep(p) \/ WorkerStep(p) \/ exit_handler(p) \/ Killed(p)
    PROVE  PlaceInv(p)'
<1> USE ConstantsAssumption
<1>0. TypeOK /\ PlaceInv(p) /\ "busy" \notin mishap /\ p \in Process
  BY DEF IInv, Defined, Process
<1>1. CASE Exit(p)
  BY <1>0, <1>1, ZenonT(40) DEF PlaceInv, Exit, TypeOK, Silent
<1>2. CASE Start(p)
  BY <1>0, <1>2 DEF PlaceInv, Start, Step, TypeOK, Silent, sockets, epoll, tool
<1>3. CASE write_pid_file(p)
  BY <1>0, <1>3 DEF PlaceInv, write_pid_file, Step, TypeOK, Silent, sockets, epoll, tool
<1>4. CASE RegisterBegins(p)
  BY <1>0, <1>4 DEF PlaceInv, RegisterBegins, Step, TypeOK, Silent, tool
<1>5. CASE RegisterEnds(p)
  BY <1>0, <1>5 DEF PlaceInv, RegisterEnds, Step, TypeOK, Silent, Serves, sockets, epoll
<1>6. CASE mica_create_all_ends(p) \/ add_signal_handler(p)
  BY <1>0, <1>6, SMT, SMTT(30)
  DEF PlaceInv, mica_create_all_ends, add_signal_handler, Step, TypeOK, Serves, sockets,
      epoll, tool
<1>7. CASE StopBegins(p)
  BY <1>0, <1>7 DEF PlaceInv, StopBegins, Step, TypeOK, Serves, sockets, epoll, tool
<1>8. CASE free_all_listeners(p)
  BY <1>0, <1>8 DEF PlaceInv, free_all_listeners, Step, TypeOK, Serves, Silent, tool
<1>9. CASE rmrf(p) \/ Unlock(p)
  BY <1>0, <1>9
  DEF PlaceInv, rmrf, Unlock, Step, TypeOK, Silent, sockets, epoll, tool
<1>10. CASE WorkerListens(p)
  BY <1>0, <1>10 DEF PlaceInv, WorkerListens, TypeOK, Places, Silent, Serves, main, tool
<1>11. CASE WorkerFails(p)
  BY <1>0, <1>11 DEF PlaceInv, WorkerFails, TypeOK, Places, Silent, Serves, main, tool
<1>12. CASE Accept(p)
  BY <1>0, <1>12, SMT, SMTT(30) DEF PlaceInv, Accept, TypeOK, Silent, Serves, main, sockets, tool
<1>13. CASE ServeCreate(p) \/ ServeStart(p) \/ ServeRemove(p)
  <2>1. /\ worker'[p] = "wait"
        /\ todo[p] = <<>> => todo'[p] = <<>>
        /\ pc' = pc /\ created' = created /\ listening' = listening /\ mishap' = mishap
    <3>1. PICK success \in BOOLEAN : Answer(p, success)
      BY <1>13, ZenonT(40) DEF ServeCreate, ServeStart, ServeRemove
    <3>2. worker'[p] = "wait"
      BY <1>0, <1>13, <3>1, ServesWhenServing
      DEF Answer, ServeCreate, ServeStart, ServeRemove, TypeOK
    <3> QED
      BY <1>0, <1>13, <3>1, <3>2, AnswerPlace, Zenon
      DEF ServeCreate, ServeStart, ServeRemove, main
  <2>2. /\ pc[p] \in {"register", "create_all", "signals", "serving", "free"}
        /\ pc[p] = "register" => created[p]
        /\ listening[p]
    BY <1>13, ServesWhenServing, ZenonT(40) DEF ServeCreate, ServeStart, ServeRemove
  <2>3. "mica-create" \in listener_list'[p]
    <3>1. /\ job[p].name # "mica-create" /\ "mica-create" \in listener_list[p]
          /\ listener_list \in [Daemon -> SUBSET Socket]
      BY <1>0, <1>13, ServesWhenServing, ZenonT(60) DEF ServeCreate, ServeStart, ServeRemove, TypeOK
    <3>2. CASE ServeCreate(p) \/ ServeStart(p)
      BY <3>1, <3>2, ZenonT(60) DEF ServeCreate, ServeStart, sockets
    <3>3. CASE ServeRemove(p)
      BY <3>1, <3>3 DEF ServeRemove
    <3> QED BY <1>13, <3>2, <3>3, Zenon
  <2> QED BY <1>0, <2>1, <2>2, <2>3 DEF PlaceInv, Serves
<1>14. CASE exit_handler(p)
  BY <1>0, <1>14, PlaceSame, Zenon DEF exit_handler, sockets, epoll, tool
<1> QED
  BY <1>1, <1>2, <1>3, <1>4, <1>5, <1>6, <1>7, <1>8, <1>9, <1>10, <1>11, <1>12, <1>13, <1>14, ZenonT(40) DEF MainStep, WorkerStep, Refused, Unlink, Killed

(***************************************************************************)
(* A tool adds a request to a daemon that listens, and no other changes.   *)
(***************************************************************************)
LEMMA PlaceTool ==
    ASSUME IInv, NEW u \in Process, ToolStep(u), NEW q \in Daemon
    PROVE  PlaceInv(q)'
<1>0. TypeOK /\ PlaceInv(q) /\ SocketInv /\ q \in Process
  BY DEF IInv, Process
<1>1. /\ pc' = pc /\ worker' = worker /\ job' = job /\ created' = created
      /\ listening' = listening /\ listener_list' = listener_list /\ mishap' = mishap
  BY ZenonT(40) DEF ToolStep, Connect, GiveUp, Reset, main, sockets, epoll
<1>2. todo[q] = <<>> => todo'[q] = <<>>
  <2>1. u \in waiting => todo[u] # <<>>
    BY DEF IInv
  <2> QED BY <1>0, <2>1, Zenon DEF ToolStep, Connect, GiveUp, Reset, TypeOK
<1>3. CASE queue'[q] = queue[q]
  BY <1>0, <1>1, <1>2, <1>3, PlaceSame, ZenonT(40)
<1>4. CASE queue'[q] # queue[q]
  <2>1. \E s \in Socket : bound[s] = q
    <3> DEFINE r == [from |-> u, op |-> Head(todo[u]).op, name |-> Head(todo[u]).name]
    <3>1. Connect(u) /\ bound[PathOf(r)] = q
      BY <1>0, <1>4, Zenon DEF ToolStep, Connect, GiveUp, Reset, epoll, TypeOK
    <3>2. PathOf(r) \in Socket
      <4>1. todo[u] \in Seq(Command) /\ todo[u] # <<>>
        BY <1>0, <3>1, Zenon DEF Connect, TypeOK
      <4>2. Head(todo[u]) \in Command
        BY <4>1, SMT, SMTT(30)
      <4> QED BY <4>2 DEF PathOf, Socket, Command
    <3> QED BY <3>1, <3>2
  <2>2. listener_list[q] # {}
    BY <1>0, <2>1, SMT, SMTT(30) DEF SocketInv
  <2> QED BY <1>0, <1>1, <1>2, <2>2, Zenon DEF PlaceInv, Silent, Serves
<1> QED BY <1>3, <1>4

-----------------------------------------------------------------------------
(***************************************************************************)
(* While a daemon uses the directory no other has listeners.               *)
(***************************************************************************)
LEMMA Alone ==
    ASSUME IInv, Defined, NEW p \in Daemon, Uses(p), NEW q \in Daemon, q # p
    PROVE  listener_list[q] = {}
<1>1. PlaceInv(q) /\ ~Uses(q)
  BY Zenon DEF IInv, Defined
<1> QED BY <1>1, ZenonT(40) DEF PlaceInv, Uses, Silent

(***************************************************************************)
(* A daemon whose epoll thread is under way uses the directory.            *)
(***************************************************************************)
LEMMA WorkerUses ==
    ASSUME IInv, Defined, NEW p \in Daemon, worker[p] \in {"new", "serve"}
    PROVE  Uses(p) /\ (worker[p] = "new" => listener_list[p] = {})
<1>1. PlaceInv(p) /\ "busy" \notin mishap /\ pc[p] \in Places
  BY DEF IInv, Defined, TypeOK
<1>2. CASE worker[p] = "new"
  BY <1>1, <1>2 DEF PlaceInv, Places, Uses, Silent, Serves
<1>3. CASE worker[p] = "serve"
  BY <1>3, ServesWhenServing DEF Uses
<1> QED BY <1>2, <1>3

(***************************************************************************)
(* Names and listeners stay together.                                      *)
(***************************************************************************)
LEMMA SocketStep ==
    ASSUME IInv, Next
    PROVE  SocketInv'
<1> USE ConstantsAssumption
<1>0. TypeOK /\ SocketInv /\ Defined
  BY DEF IInv, Next
<1>1. CASE UNCHANGED sockets /\ mishap \subseteq mishap'
  BY <1>0, <1>1 DEF SocketInv, sockets
<1>2. ASSUME NEW p \in Daemon, RegisterBegins(p) \/ rmrf(p) PROVE SocketInv'
  <2>1. Uses(p) /\ listener_list[p] = {}
    BY <1>2 DEF IInv, PlaceInv, RegisterBegins, rmrf, Step, Uses, Silent
  <2>2. \A q \in Daemon : listener_list'[q] = {}
    BY <1>0, <1>2, <2>1, Alone DEF RegisterBegins, rmrf
  <2>3. \A s \in Socket : bound'[s] = None
    BY <1>2 DEF RegisterBegins, rmrf
  <2> QED BY <2>2, <2>3 DEF SocketInv
<1>3. ASSUME NEW p \in Daemon, Exit(p), directory' = directory, mishap \subseteq mishap',
             listener_list[p] = {} \/ mishap' # {}
      PROVE  SocketInv'
  <2>1. \A s \in Socket : bound'[s] = IF bound[s] = p THEN Stale ELSE bound[s]
    BY <1>3 DEF Exit
  <2>2. \A q \in Daemon : listener_list'[q] = IF q = p THEN {} ELSE listener_list[q]
    BY <1>0, <1>3 DEF Exit, TypeOK
  <2>3. \A s \in Socket : bound'[s] \in Daemon => s \in listener_list'[bound'[s]]
    BY <1>0, <2>1, <2>2, Zenon DEF SocketInv
  <2>4. mishap' = {} => \A s \in Socket : bound'[s] # Stale
    BY <1>0, <1>3, <2>1, SMT, SMTT(30) DEF SocketInv
  <2>5. "nameless" \notin mishap' =>
          \A q \in Daemon : \A s \in listener_list'[q] : directory' /\ bound'[s] = q
    BY <1>0, <1>3, <2>1, <2>2, SMT, SMTT(30) DEF SocketInv, TypeOK
  <2> QED BY <2>3, <2>4, <2>5 DEF SocketInv
<1>4. ASSUME NEW p \in Daemon, Uses(p), NEW n \in Socket, CanBind(n),
             bound' = [bound EXCEPT ![n] = p], mishap' = mishap, directory' = directory,
             listener_list' = [listener_list EXCEPT ![p] = @ \union {n}]
      PROVE  SocketInv'
  <2>1. \A s \in Socket : bound'[s] = IF s = n THEN p ELSE bound[s]
    BY <1>0, <1>4 DEF TypeOK
  <2>2. \A q \in Daemon : listener_list'[q] =
            IF q = p THEN listener_list[p] \union {n} ELSE {}
    BY <1>0, <1>4, Alone, Zenon DEF TypeOK
  <2>3. \A s \in Socket : bound'[s] \in Daemon => s \in listener_list'[bound'[s]]
    <3>1. \A s \in Socket : bound[s] \in Daemon => bound[s] = p /\ s \in listener_list[p]
      BY <1>0, <1>4, Alone, SMT, SMTT(30) DEF SocketInv
    <3>2. listener_list'[p] = listener_list[p] \union {n}
      BY <2>2, Zenon
    <3>3. \A s \in Socket :
              bound'[s] \in Daemon => bound'[s] = p /\ (s = n \/ s \in listener_list[p])
      BY <2>1, <3>1, Zenon
    <3> QED BY <3>2, <3>3, Zenon
  <2>4. mishap' = {} => \A s \in Socket : bound'[s] # Stale
    BY <1>0, <1>4, <2>1, SMT, SMTT(30) DEF SocketInv
  <2>5. "nameless" \notin mishap' =>
          \A q \in Daemon : \A s \in listener_list'[q] : directory' /\ bound'[s] = q
    BY <1>0, <1>4, <2>1, <2>2, SMT, SMTT(30) DEF SocketInv, TypeOK, CanBind
  <2> QED BY <2>3, <2>4, <2>5 DEF SocketInv
<1>5. ASSUME NEW p \in Daemon, Uses(p), NEW S \in SUBSET Socket, directory' = directory,
             mishap \subseteq mishap',
             bound' = [s \in Socket |-> IF s \in S THEN None ELSE bound[s]],
             listener_list' = [listener_list EXCEPT ![p] = @ \ S]
      PROVE  SocketInv'
  <2>1. \A s \in Socket : bound'[s] = IF s \in S THEN None ELSE bound[s]
    BY <1>5
  <2>2. \A q \in Daemon : listener_list'[q] = IF q = p THEN listener_list[p] \ S ELSE {}
    BY <1>0, <1>5, Alone, Zenon DEF TypeOK
  <2>3. \A s \in Socket : bound'[s] \in Daemon => s \in listener_list'[bound'[s]]
    <3>1. \A s \in Socket : bound[s] \in Daemon => bound[s] = p /\ s \in listener_list[p]
      BY <1>0, <1>5, Alone, SMT, SMTT(30) DEF SocketInv
    <3> QED BY <2>1, <2>2, <3>1
  <2>4. mishap' = {} => \A s \in Socket : bound'[s] # Stale
    BY <1>0, <1>5, <2>1 DEF SocketInv
  <2>5. "nameless" \notin mishap' =>
          \A q \in Daemon : \A s \in listener_list'[q] : directory' /\ bound'[s] = q
    BY <1>0, <1>5, <2>1, <2>2, SMT, SMTT(30) DEF SocketInv, TypeOK
  <2> QED BY <2>3, <2>4, <2>5 DEF SocketInv
<1>6. ASSUME NEW p \in Daemon, Start(p) \/ exit_handler(p) PROVE SocketInv'
  BY <1>1, <1>6 DEF Start, exit_handler
<1>7. ASSUME NEW p \in Daemon, Killed(p) PROVE SocketInv'
  BY <1>3, <1>7 DEF Killed
<1>8. ASSUME NEW p \in Daemon, MainStep(p) PROVE SocketInv'
  <2>1. CASE Refused(p) \/ Unlink(p)
    <3>1. listener_list[p] = {}
      BY <2>1 DEF IInv, PlaceInv, Silent, Refused, Unlink
    <3> QED BY <1>3, <2>1, <3>1 DEF Refused, Unlink, NameGoes
  <2>2. CASE free_all_listeners(p)
    <3>1. Uses(p) /\ listener_list[p] \in SUBSET Socket
      BY <1>0, <2>2 DEF free_all_listeners, Step, Uses, TypeOK
    <3>2. listener_list' = [listener_list EXCEPT ![p] = @ \ listener_list[p]]
      BY <1>0, <2>2, ZenonT(60) DEF free_all_listeners, TypeOK
    <3> QED BY <1>5, <2>2, <3>1, <3>2, Zenon DEF free_all_listeners
  <2>3. CASE write_pid_file(p) \/ RegisterEnds(p) \/ mica_create_all_ends(p)
             \/ add_signal_handler(p) \/ StopBegins(p) \/ Unlock(p)
    BY <1>1, <2>3 DEF write_pid_file, NameGoes, RegisterEnds, mica_create_all_ends,
                      add_signal_handler, StopBegins, Unlock
  <2> QED BY <1>2, <1>8, <2>1, <2>2, <2>3 DEF MainStep
<1>9. ASSUME NEW p \in Daemon, WorkerStep(p) PROVE SocketInv'
  <2>1. CASE Accept(p) \/ ServeStart(p)
    BY <1>1, <2>1, Zenon DEF Accept, ServeStart
  <2>2. CASE WorkerListens(p)
    <3>1. Uses(p) /\ listener_list[p] = {} /\ "mica-create" \in Socket
      BY <1>0, <2>2, WorkerUses DEF WorkerListens, Socket
    <3>2. listener_list' = [listener_list EXCEPT ![p] = @ \union {"mica-create"}]
      BY <1>0, <2>2, <3>1 DEF WorkerListens, TypeOK
    <3> QED BY <1>4, <2>2, <3>1, <3>2, Zenon DEF WorkerListens
  <2>3. CASE WorkerFails(p)
    <3>1. Uses(p) /\ listener_list[p] = {} /\ "mica-create" \in Socket
      BY <1>0, <2>3, WorkerUses DEF WorkerFails, Socket
    <3>2. PICK S \in SUBSET Socket :
              bound' = [s \in Socket |-> IF s \in S THEN None ELSE bound[s]]
      <4>1. CASE bound' = bound
        <5>1. bound' = [s \in Socket |-> IF s \in {} THEN None ELSE bound[s]]
          BY <1>0, <4>1 DEF TypeOK
        <5> QED BY <5>1, Zenon
      <4>2. CASE bound' = [bound EXCEPT !["mica-create"] = None]
        <5>1. bound' = [s \in Socket |-> IF s \in {"mica-create"} THEN None ELSE bound[s]]
          BY <1>0, <4>2, Zenon DEF TypeOK
        <5> QED BY <3>1, <5>1, Zenon
      <4> QED BY <2>3, <4>1, <4>2, Zenon DEF WorkerFails
    <3>3. listener_list' = [listener_list EXCEPT ![p] = @ \ S]
      BY <1>0, <2>3, <3>1, SMT, SMTT(30) DEF WorkerFails, TypeOK
    <3> QED BY <1>5, <2>3, <3>1, <3>2, <3>3, Zenon DEF WorkerFails
  <2>4. CASE ServeCreate(p)
    <3> DEFINE n == job[p].name
    <3>1. Uses(p) /\ n \in Socket
      BY <1>0, <2>4, WorkerUses, ServesWhenServing DEF ServeCreate, Socket
    <3>2. directory' = directory /\ mishap' = mishap
      BY <2>4 DEF ServeCreate
    <3> HIDE DEF n
    <3>3. CASE /\ CanBind(n) /\ bound' = [bound EXCEPT ![n] = p]
               /\ listener_list' = [listener_list EXCEPT ![p] = @ \union {n}]
      BY <1>4, <3>1, <3>2, <3>3, Zenon
    <3>4. CASE bound' = bound /\ listener_list' = listener_list
      BY <1>1, <3>2, <3>4 DEF sockets
    <3>5. CASE /\ n \notin listener_list[p] /\ bound' = [bound EXCEPT ![n] = None]
               /\ listener_list' = listener_list
      <4>1. bound' = [s \in Socket |-> IF s \in {n} THEN None ELSE bound[s]]
        BY <1>0, <3>1, <3>5, Zenon DEF TypeOK
      <4>2. listener_list' = [listener_list EXCEPT ![p] = @ \ {n}]
        BY <1>0, <3>5, SMT, SMTT(30) DEF TypeOK
      <4>3. {n} \in SUBSET Socket /\ mishap \subseteq mishap'
        BY <3>1, <3>2
      <4> QED BY <1>5, <3>1, <3>2, <4>1, <4>2, <4>3, Zenon
    <3> QED BY <2>4, <3>3, <3>4, <3>5, ZenonT(40) DEF ServeCreate, n
  <2>5. CASE ServeRemove(p)
    <3> DEFINE n == job[p].name
    <3>1. Uses(p) /\ n \in Socket
      BY <1>0, <2>5, WorkerUses, ServesWhenServing, Zenon DEF ServeRemove, Socket
    <3>2. /\ directory' = directory /\ mishap' = mishap
          /\ listener_list' = [listener_list EXCEPT ![p] = @ \ {n}]
          /\ bound' = [bound EXCEPT ![n] = None]
      BY <2>5, Zenon DEF ServeRemove
    <3> HIDE DEF n
    <3>3. bound' = [s \in Socket |-> IF s \in {n} THEN None ELSE bound[s]]
      BY <1>0, <3>1, <3>2, ZenonT(40) DEF TypeOK
    <3> QED BY <1>5, <3>1, <3>2, <3>3, ZenonT(60)
  <2> QED BY <1>9, <2>1, <2>2, <2>3, <2>4, <2>5 DEF WorkerStep
<1>10. ASSUME NEW u \in Process, ToolStep(u) PROVE SocketInv'
  BY <1>1, <1>10, Zenon DEF ToolStep, Connect, GiveUp, Reset
<1> QED BY <1>6, <1>7, <1>8, <1>9, <1>10 DEF Next

-----------------------------------------------------------------------------
(* No daemon has started in the initial state. *)
LEMMA InitIInv == Init => IInv
<1> USE ConstantsAssumption
<1> SUFFICES ASSUME Init PROVE IInv
  OBVIOUS
<1>1. todo \in [Process -> Seq(Command)]
  BY EmptyList, Zenon DEF Init, Process
<1>2. TypeOK
  <2>1. /\ pid_file \in File \union {NoFile} /\ made \in 0..MaxFiles /\ starts \in 0..MaxStarts
        /\ sem_micad_stop \in [Daemon -> 0..1]
    BY SMT, SMTT(30) DEF Init
  <2>2. /\ pid_fd \in [Daemon -> File \union {NoFile}]
        /\ locked \in [File -> Daemon \union {None}]
        /\ pc \in [Daemon -> Places]
        /\ bound \in [Socket -> Daemon \union {None, Stale}]
        /\ listener_list \in [Daemon -> SUBSET Socket]
    BY DEF Init, Places
  <2>3. /\ directory \in BOOLEAN
        /\ listening \in [Daemon -> BOOLEAN] /\ created \in [Daemon -> BOOLEAN]
        /\ worker \in [Daemon -> {"none", "new", "wait", "serve", "ended"}]
        /\ job \in [Daemon -> Request \union {None}] /\ queue \in [Daemon -> SUBSET Request]
        /\ signalled \subseteq Daemon /\ waiting \subseteq Process
        /\ mishap \subseteq {"nameless", "killed", "busy"}
    BY Zenon DEF Init
  <2> QED BY <1>1, <2>1, <2>2, <2>3 DEF TypeOK
<1>3. FileInv /\ SocketInv
  BY DEF Init, FileInv, SocketInv, Uses, NoFile
<1>4. \A p \in Daemon : PlaceInv(p)
  BY DEF Init, PlaceInv, Silent
<1> QED BY <1>2, <1>3, <1>4 DEF IInv, Init

(* Every step keeps the inductive invariant. *)
LEMMA NextIInv == IInv /\ [Next]_vars => IInv'
<1> SUFFICES ASSUME IInv, [Next]_vars PROVE IInv'
  OBVIOUS
<1>1. CASE Next
  <2>1. \A q \in Daemon : PlaceInv(q)'
    BY <1>1, PlaceOthers, PlaceOwn, PlaceTool DEF Next
  <2> QED BY <1>1, <2>1, TypeStep, FileStep, SocketStep DEF IInv
<1>2. CASE UNCHANGED vars
  <2>1. TypeOK'
    BY <1>2 DEF IInv, TypeOK, vars, pidFile, main, sockets, epoll, tool
  <2>2. FileInv'
    BY <1>2, ZenonT(40) DEF IInv, FileInv, Uses, vars, pidFile, main
  <2>3. \A p \in Daemon : PlaceInv(p)'
    BY <1>2, PlaceSame, ZenonT(40) DEF IInv, vars, main, sockets, epoll, tool
  <2>4. SocketInv' /\ \A u \in waiting' : todo'[u] # <<>>
    BY <1>2, Zenon DEF IInv, SocketInv, vars, sockets, tool
  <2> QED BY <2>1, <2>2, <2>3, <2>4 DEF IInv
<1> QED BY <1>1, <1>2

(***************************************************************************)
(* The invariant holds of every behaviour.                                 *)
(***************************************************************************)
LEMMA Invariance == Spec => []IInv
BY InitIInv, NextIInv, PTL DEF Spec

(***************************************************************************)
(* The variables of micad and its tools keep their types.                  *)
(***************************************************************************)
THEOREM TypeCorrect == Spec => []TypeOK
<1>1. IInv => TypeOK
  BY DEF IInv
<1> QED BY <1>1, Invariance, PTL

(***************************************************************************)
(* The lock on the pid file lets one daemon at a time use the directory of *)
(* sockets, for any number of daemons, starts, kills and exits, as long as *)
(* no pid file loses its path while a daemon has it open                   *)
(* (write_pid_file(), close_pid_file()).                                   *)
(***************************************************************************)
THEOREM LockExcludes == Spec => []OneDaemon
<1>1. IInv => OneDaemon
  BY SMT, SMTT(30) DEF IInv, FileInv, OneDaemon
<1> QED BY <1>1, Invariance, PTL

(***************************************************************************)
(* A daemon that serves has the socket for create, and each socket it      *)
(* listens on has its name, for any number of daemons, tools and clients   *)
(* (register_socket_listener(), add_listener(), free_listener_by_name()).  *)
(***************************************************************************)
THEOREM StaysReachable == Spec => []Reachable
<1>1. IInv => Reachable
  BY DEF IInv, PlaceInv, SocketInv, Reachable, Serves
<1> QED BY <1>1, Invariance, PTL

(***************************************************************************)
(* The last daemon to leave removes the pid file and all sockets, unless   *)
(* one was killed (close_pid_file(), unregister_socket_listener()).        *)
(***************************************************************************)
THEOREM NothingIsLeft == Spec => []LeavesNothing
<1>1. IInv => LeavesNothing
  BY SMT, SMTT(30) DEF IInv, TypeOK, FileInv, PlaceInv, SocketInv, LeavesNothing, Silent
<1> QED BY <1>1, Invariance, PTL

-----------------------------------------------------------------------------
(***************************************************************************)
(* Proofs about Terminal, for any number of indices and terminals: the     *)
(* table, the links and the terminals agree, and a terminal is freed only  *)
(* when nothing leads to it.                                               *)
(***************************************************************************)

(* No terminal has been made in the initial state. *)
LEMMA TerminalInitInv == TerminalInit => TerminalInv
<1> USE TerminalAssumption
<1> SUFFICES ASSUME TerminalInit PROVE TerminalInv
  OBVIOUS
<1>1. TerminalTypeOK
  <2>1. /\ tty_id \in [Index -> BOOLEAN] /\ link \in [Index -> 0..MaxBinds]
        /\ index \in [Tty -> Index]
    BY SMT, SMTT(30) DEF TerminalInit, Index
  <2>2. allocated \in 0..MaxBinds /\ task \in [Tty -> Steps]
    BY SMT, SMTT(30) DEF TerminalInit, Steps
  <2>3. at \in [Thread -> Doing]
    BY DEF TerminalInit, Doing
  <2> QED BY <2>1, <2>2, <2>3, Zenon DEF TerminalInit, TerminalTypeOK
<1>2. Life
  BY DEF TerminalInit, Life, Idle, Running
<1>3. Table
  BY DEF TerminalInit, Table
<1> QED BY <1>1, <1>2, <1>3 DEF TerminalInv

(* What a thread can be doing. *)
LEMMA AtType ==
    ASSUME TerminalTypeOK, NEW x \in Thread
    PROVE  \/ at[x] = Idle /\ at[x].op = "idle" /\ at[x].tty = 0
           \/ at[x] # Idle /\ at[x].op \in {"bind", "unbind"} /\ at[x].tty \in Tty
<1>1. at[x] \in Doing
  BY DEF TerminalTypeOK
<1> QED BY <1>1, SMT, SMTT(30) DEF Doing, Idle

(* A thread that begins or ends a bind or an unbind is well typed. *)
LEMMA NewAt ==
    ASSUME TerminalTypeOK, NEW x \in Thread, NEW t \in Tty, NEW op \in {"bind", "unbind"}
    PROVE  /\ [at EXCEPT ![x] = [op |-> op, tty |-> t]] \in [Thread -> Doing]
           /\ [at EXCEPT ![x] = Idle] \in [Thread -> Doing]
<1>1. [op |-> op, tty |-> t] \in Doing /\ Idle \in Doing
  BY DEF Doing
<1> QED BY <1>1 DEF TerminalTypeOK

(* The next terminal is one of the terminals. *)
LEMMA TerminalNumbers ==
    /\ MaxBinds \in Nat
    /\ \A m \in 0..MaxBinds : m < MaxBinds => m + 1 \in Tty /\ m + 1 \in 0..MaxBinds
    /\ \A t \in Tty : t \in Nat /\ t # 0 /\ t \in 0..MaxBinds
    /\ 0 \in 0..MaxBinds
BY TerminalAssumption, SMT, SMTT(30) DEF Tty

(* The making of a terminal keeps the types. *)
LEMMA InitTypes ==
    ASSUME TerminalTypeOK, NEW x \in Thread, rpmsg_tty_init(x)
    PROVE  TerminalTypeOK'
<1>0. allocated + 1 \in Tty /\ allocated + 1 \in 0..MaxBinds
  BY TerminalNumbers DEF TerminalTypeOK, rpmsg_tty_init
<1>1. PICK i \in Index :
          NoPty(i) \/ NoEpt(i) \/ \E slave \in BOOLEAN : Made(x, i, slave)
  BY DEF rpmsg_tty_init, rpmsg_tty_new_index, FreeIndices
<1>2. CASE NoPty(i)
  BY <1>2 DEF TerminalTypeOK, NoPty, rpmsg_tty_init, heap, rpmsg, tasks
<1>3. CASE NoEpt(i)
  BY <1>0, <1>3 DEF TerminalTypeOK, NoEpt, rpmsg_tty_init, rpmsg, tasks
<1>4. ASSUME NEW slave \in BOOLEAN, Made(x, i, slave) PROVE TerminalTypeOK'
  <2>1. at' \in [Thread -> Doing]
    BY <1>0, <1>4, NewAt, Zenon DEF Made
  <2>2. tty_id' \in [Index -> BOOLEAN] /\ link' \in [Index -> 0..MaxBinds]
    BY <1>0, <1>4 DEF TerminalTypeOK, Made
  <2>3. index' \in [Tty -> Index] /\ allocated' \in 0..MaxBinds
    BY <1>0, <1>4 DEF TerminalTypeOK, Made
  <2>4. open' \subseteq Tty /\ epts' \subseteq Tty
    BY <1>0, <1>4 DEF TerminalTypeOK, Made, If
  <2>5. faults' \subseteq Fault
    BY <1>4 DEF TerminalTypeOK, Made, If, Fault
  <2> QED
    BY <1>4, <2>1, <2>2, <2>3, <2>4, <2>5 DEF TerminalTypeOK, Made, rpmsg_tty_init, tasks
<1> QED BY <1>1, <1>2, <1>3, <1>4

(* An unbind keeps the types. *)
LEMMA UnbindTypes ==
    ASSUME TerminalTypeOK, NEW t \in Tty, UnbindBegins(t)
    PROVE  /\ tty_id' \in [Index -> BOOLEAN] /\ link' \in [Index -> 0..MaxBinds]
           /\ list' \subseteq Tty /\ epts' \subseteq Tty /\ open' \subseteq Tty
           /\ unbound' \subseteq Tty /\ faults' \subseteq Fault
           /\ UNCHANGED <<allocated, freed, index, registered, lost>>
<1>1. tty_id' \in [Index -> BOOLEAN] /\ link' \in [Index -> 0..MaxBinds]
  BY TerminalNumbers DEF TerminalTypeOK, UnbindBegins
<1>2. faults' \subseteq Fault
  BY DEF TerminalTypeOK, UnbindBegins, If, Fault
<1> QED BY <1>1, <1>2, Zenon DEF TerminalTypeOK, UnbindBegins, heap

(* Every step keeps the types. *)
LEMMA TerminalTypes == TerminalTypeOK /\ TerminalNext => TerminalTypeOK'
<1> SUFFICES ASSUME TerminalTypeOK, TerminalNext PROVE TerminalTypeOK'
  OBVIOUS
<1>1. CASE create_tty_dev_lists \/ remove_tty_dev_lists
  BY <1>1, Zenon DEF TerminalTypeOK, create_tty_dev_lists, remove_tty_dev_lists, devices, heap, rpmsg,
              tasks, history
<1>2. ASSUME NEW x \in Thread, ThreadStep(x) PROVE TerminalTypeOK'
  <2>1. CASE rpmsg_tty_init(x)
    BY <2>1, InitTypes
  <2>2. CASE rpmsg_tty_init_ends(x)
    <3>1. at[x].tty \in Tty /\ at' \in [Thread -> Doing]
      BY <2>2, AtType, NewAt, Zenon DEF rpmsg_tty_init_ends
    <3>2. task' \in [Tty -> Steps]
      BY <2>2 DEF TerminalTypeOK, rpmsg_tty_init_ends, Steps
    <3>3. list' \subseteq Tty /\ epts' \subseteq Tty /\ freed' \subseteq Tty
      BY <2>2, <3>1 DEF TerminalTypeOK, rpmsg_tty_init_ends
    <3>4. lost' \subseteq Index
      BY <2>2, <3>1, SMT, SMTT(30) DEF TerminalTypeOK, rpmsg_tty_init_ends
    <3>5. faults' \subseteq Fault
      BY <2>2 DEF TerminalTypeOK, rpmsg_tty_init_ends, If, Fault
    <3> QED
      BY <2>2, <3>1, <3>2, <3>3, <3>4, <3>5 DEF TerminalTypeOK, rpmsg_tty_init_ends, devices
  <2>3. CASE rpmsg_tty_unbind(x)
    <3>1. PICK t \in Tty : UnbindBegins(t) /\
              at' = [at EXCEPT ![x] = [op |-> "unbind", tty |-> t]]
      BY <2>3, Zenon DEF TerminalTypeOK, rpmsg_tty_unbind
    <3>2. at' \in [Thread -> Doing]
      BY <3>1, NewAt, Zenon
    <3> QED BY <2>3, <3>1, <3>2, UnbindTypes DEF TerminalTypeOK, rpmsg_tty_unbind, tasks
  <2>4. CASE rpmsg_tty_unbind_ends(x)
    <3>1. at' \in [Thread -> Doing]
      BY <2>4, AtType, NewAt, Zenon DEF rpmsg_tty_unbind_ends
    <3> QED
      BY <2>4, <3>1
      DEF TerminalTypeOK, rpmsg_tty_unbind_ends, devices, heap, rpmsg, history
  <2> QED BY <1>2, <2>1, <2>2, <2>3, <2>4 DEF ThreadStep
<1>3. ASSUME NEW t \in Tty, TaskStep(t) \/ TaskFails(t) \/ Type(t) PROVE TerminalTypeOK'
  <2>1. CASE TaskStarts(t)
    BY <2>1 DEF TerminalTypeOK, TaskStarts, TaskMoves, Steps, If, Fault, devices, heap, rpmsg
  <2>2. CASE TaskTests(t) \/ TaskPolls(t) \/ TaskFails(t) \/ Type(t)
    BY <2>2 DEF TerminalTypeOK, TaskTests, TaskPolls, TaskFails, Type, TaskMoves, Steps, devices,
                heap, rpmsg, history
  <2>3. CASE TaskLeaves(t)
    BY <2>3 DEF TerminalTypeOK, TaskLeaves, Steps, devices, rpmsg, history
  <2>4. CASE TaskUnbinds(t)
    <3>1. task' \in [Tty -> Steps] /\ UNCHANGED <<active, typed, at>>
      BY <2>4 DEF TerminalTypeOK, TaskUnbinds, TaskMoves, Steps
    <3> QED BY <2>4, <3>1, UnbindTypes DEF TerminalTypeOK, TaskUnbinds
  <2>5. CASE TaskUnbound(t)
    BY <2>5 DEF TerminalTypeOK, TaskUnbound, TaskMoves, Steps, devices, rpmsg, history
  <2> QED BY <1>3, <2>1, <2>2, <2>3, <2>4, <2>5 DEF TaskStep
<1> QED BY <1>1, <1>2, <1>3 DEF TerminalNext

(* No step takes a mishap back. *)
LEMMA FaultsStay == TerminalNext => faults \subseteq faults'
<1> SUFFICES ASSUME TerminalNext PROVE faults \subseteq faults'
  OBVIOUS
<1>1. CASE create_tty_dev_lists \/ remove_tty_dev_lists
  BY <1>1 DEF create_tty_dev_lists, remove_tty_dev_lists, history
<1>2. ASSUME NEW x \in Thread, ThreadStep(x) PROVE faults \subseteq faults'
  BY <1>2, Zenon DEF ThreadStep, rpmsg_tty_init, NoPty, NoEpt, Made, rpmsg_tty_init_ends,
              rpmsg_tty_unbind, UnbindBegins, rpmsg_tty_unbind_ends, history
<1>3. ASSUME NEW t \in Tty, TaskStep(t) \/ TaskFails(t) \/ Type(t)
      PROVE  faults \subseteq faults'
  BY <1>3, Zenon DEF TaskStep, TaskStarts, TaskTests, TaskPolls, TaskLeaves, TaskUnbinds,
              UnbindBegins, TaskUnbound, TaskFails, Type, history
<1> QED BY <1>1, <1>2, <1>3 DEF TerminalNext

(* A terminal that is to be made is known to nothing yet. *)
LEMMA Unknown ==
    ASSUME TerminalTypeOK, Life, NEW t \in Tty, t > allocated
    PROVE  /\ t \notin epts \union list \union freed \union unbound
           /\ task[t] = "none" /\ Nobody(t)
<1>1. allocated \in Nat /\ t \in Nat /\ ~(t <= allocated)
  BY TerminalAssumption, SMT, SMTT(30) DEF TerminalTypeOK, Tty
<1>2. t \notin epts \union list \union freed \union unbound /\ task[t] = "none"
  BY <1>1 DEF Life
<1>3. ASSUME NEW x \in Thread, at[x].tty = t PROVE FALSE
  <2>1. at[x].op \in {"bind", "unbind"}
    BY <1>3, AtType, TerminalNumbers
  <2> QED BY <1>2, <1>3, <2>1 DEF Life
<1> QED BY <1>2, <1>3 DEF Nobody

(* The thread that begins to unbind a terminal is alone with it. *)
LEMMA UnbindAlone ==
    ASSUME TerminalTypeOK, Life, NEW t \in Tty, UnbindBegins(t), Quiet'
    PROVE  t \notin unbound /\ Nobody(t)
<1>1. t \notin unbound /\ \A x \in Thread : at[x] # [op |-> "bind", tty |-> t]
  BY DEF UnbindBegins, Quiet, If
<1>2. ASSUME NEW x \in Thread, at[x].tty = t PROVE FALSE
  <2>1. at[x] \in [op : {"bind", "unbind"}, tty : Tty]
    BY <1>2, TerminalNumbers, SMT, SMTT(30) DEF TerminalTypeOK, Doing, Idle
  <2>2. at[x].op = "bind"
    BY <1>1, <1>2, <2>1 DEF Life
  <2> QED BY <1>1, <1>2, <2>1, <2>2
<1> QED BY <1>1, <1>2 DEF Nobody

(* The binds and unbinds of the threads of micad keep the life of a terminal. *)
LEMMA LifeOfThreads ==
    ASSUME TerminalTypeOK, Life, NEW x \in Thread, ThreadStep(x), Quiet'
    PROVE  Life'
<1>n. allocated \in Nat
  BY TerminalAssumption, SMT, SMTT(30) DEF TerminalTypeOK
<1>1. CASE rpmsg_tty_init(x)
  <2>0. allocated + 1 \in Tty /\ allocated + 1 > allocated /\ allocated + 1 \in Nat
    BY <1>1, <1>n, TerminalNumbers, SMT, SMTT(30) DEF TerminalTypeOK, rpmsg_tty_init
  <2>1. /\ allocated + 1 \notin epts \union list \union freed \union unbound
        /\ task[allocated + 1] = "none" /\ Nobody(allocated + 1)
    BY <2>0, Unknown
  <2>2. \A t \in Tty : t <= allocated => t <= allocated + 1 /\ t # allocated + 1
    BY <1>n, SMT, SMTT(30) DEF Tty
  <2>3. PICK i \in Index :
            NoPty(i) \/ NoEpt(i) \/ \E slave \in BOOLEAN : Made(x, i, slave)
    BY <1>1 DEF rpmsg_tty_init, rpmsg_tty_new_index, FreeIndices
  <2>4. CASE NoPty(i)
    BY <2>4 DEF Life, NoPty, Nobody, heap, rpmsg, tasks
  <2>5. CASE NoEpt(i)
    <3>1. /\ allocated' = allocated + 1 /\ freed' = freed \union {allocated + 1}
          /\ UNCHANGED <<list, epts, unbound, task, active, at>>
      BY <2>5 DEF NoEpt, rpmsg, tasks
    <3>2. allocated + 1 <= allocated'
      BY <2>0, <3>1, SMT, SMTT(30)
    <3>3. \A t \in Tty : t <= allocated => t <= allocated'
      BY <2>2, <3>1
    <3> QED BY <2>1, <3>1, <3>2, <3>3 DEF TerminalTypeOK, Life, Nobody
  <2>6. ASSUME NEW slave \in BOOLEAN, Made(x, i, slave) PROVE Life'
    <3>1. /\ allocated' = allocated + 1 /\ epts' = epts \union {allocated + 1}
          /\ UNCHANGED <<list, freed, unbound, task, active>>
      BY <2>6 DEF Made, tasks
    <3>2. at[x] = Idle /\ at' = [at EXCEPT ![x] = [op |-> "bind", tty |-> allocated + 1]]
      BY <1>1, <2>6 DEF rpmsg_tty_init, Made
    <3>3. \A y \in Thread :
              at'[y] = IF y = x THEN [op |-> "bind", tty |-> allocated + 1] ELSE at[y]
      BY <3>2 DEF TerminalTypeOK
    <3>4. \A t \in Tty : t # allocated + 1 => (Nobody(t)' <=> Nobody(t))
      <4>1. at[x].tty = 0
        BY <3>2, AtType
      <4>2. \A t \in Tty : t # 0
        BY TerminalNumbers
      <4> QED BY <3>3, <4>1, <4>2, SMT, SMTT(30) DEF Nobody
    <3>5. allocated + 1 <= allocated' /\ \A t \in Tty : t <= allocated => t <= allocated' /\ t # allocated + 1
      BY <2>0, <2>2, <3>1, SMT, SMTT(30)
    <3>6. /\ list' \subseteq epts'
          /\ \A t \in epts' : t <= allocated' /\ t \notin freed' \union unbound'
          /\ \A t \in unbound' : t <= allocated'
          /\ \A t \in freed' : t <= allocated' /\ task'[t] \in {"none", "done"} /\ Nobody(t)'
      BY <2>1, <3>1, <3>4, <3>5 DEF TerminalTypeOK, Life
    <3>7. /\ \A t \in Tty : task'[t] # "none" => t <= allocated'
          /\ \A t \in Tty : task'[t] \notin {"none", "done"} => t \in epts' \union unbound'
      BY <2>1, <3>1, <3>5 DEF Life
    <3>8. /\ \A t \in Tty \ active' :
                 task'[t] \in Running => t \in unbound' /\ Nobody(t)'
          /\ \A t \in Tty : task'[t] = "unbound" => t \in unbound' /\ Nobody(t)'
      BY <2>1, <3>1, <3>4 DEF Life, Running
    <3>9. \A y \in Thread :
              /\ at'[y].op = "bind" =>
                     at'[y].tty \in epts' \ list' /\ task'[at'[y].tty] = "none"
              /\ at'[y].op = "unbind" => at'[y].tty \in unbound'
      BY <2>1, <3>1, <3>3, SMT, SMTT(30) DEF Life
    <3>10. \A y, z \in Thread : at'[y] # Idle /\ at'[y].tty = at'[z].tty => y = z
      BY <2>1, <3>3, SMT, SMTT(30) DEF Life, Nobody
    <3> QED BY <3>6, <3>7, <3>8, <3>9, <3>10 DEF Life
  <2> QED BY <2>3, <2>4, <2>5, <2>6
\* A thread that is through with a terminal leaves more to the others.
<1>2. ASSUME at' = [at EXCEPT ![x] = Idle] PROVE
          /\ \A y \in Thread : at'[y] = IF y = x THEN Idle ELSE at[y]
          /\ \A t \in Tty : Nobody(t) => Nobody(t)'
          /\ \A t \in Tty : at[x].tty = t => Nobody(t)'
          /\ \A y, z \in Thread : at'[y] # Idle /\ at'[y].tty = at'[z].tty => y = z
  <2>1. \A y \in Thread : at'[y] = IF y = x THEN Idle ELSE at[y]
    BY <1>2 DEF TerminalTypeOK
  <2>2. Idle.tty = 0 /\ \A t \in Tty : t # 0
    BY TerminalNumbers DEF Idle
  <2>3. \A t \in Tty : Nobody(t) => Nobody(t)'
    BY <2>1, <2>2 DEF Nobody
  <2>4. ASSUME NEW t \in Tty, at[x].tty = t PROVE Nobody(t)'
    <3>1. at[x] # Idle
      BY <2>2, <2>4
    <3>2. \A y \in Thread : y # x => at[y].tty # t
      BY <2>4, <3>1 DEF Life
    <3> QED BY <2>1, <2>2, <3>2 DEF Nobody
  <2>5. \A y \in Thread : at[y] # Idle => at[y].tty # 0
    BY <2>2, AtType
  <2>6. \A y, z \in Thread : at'[y] # Idle /\ at'[y].tty = at'[z].tty => y = z
    BY <2>1, <2>2, <2>5, SMT, SMTT(30) DEF Life
  <2> QED BY <2>1, <2>3, <2>4, <2>6
<1>3. CASE rpmsg_tty_init_ends(x)
  <2>0. PICK t \in Tty : at[x].tty = t /\ at[x] # Idle
    BY <1>3, AtType DEF rpmsg_tty_init_ends
  <2>1. /\ t \in epts \ list /\ task[t] = "none" /\ t <= allocated
        /\ t \notin freed \union unbound
    BY <1>3, <2>0 DEF Life, rpmsg_tty_init_ends
  <2>2. at' = [at EXCEPT ![x] = Idle] /\ UNCHANGED <<allocated, active, unbound>>
    BY <1>3 DEF rpmsg_tty_init_ends
  <2>3. /\ \A y \in Thread : at'[y] = IF y = x THEN Idle ELSE at[y]
        /\ \A s \in Tty : Nobody(s) => Nobody(s)'
        /\ Nobody(t)'
    BY <1>2, <2>0, <2>2
  <2>i. Idle.op = "idle"
    BY DEF Idle
  <2>4. \A y, z \in Thread : at'[y] # Idle /\ at'[y].tty = at'[z].tty => y = z
    BY <1>2, <2>2
  <2>5. \A y \in Thread : at'[y] # Idle => at'[y] = at[y] /\ at[y].tty # t
    BY <2>3 DEF Nobody
  <2>6. CASE list' = list \union {t} /\ task' = [task EXCEPT ![t] = "new"]
             /\ UNCHANGED <<epts, freed, lost>>
    <3>1. \A s \in Tty : task'[s] = IF s = t THEN "new" ELSE task[s]
      BY <2>6 DEF TerminalTypeOK
    <3>2. /\ list' \subseteq epts'
          /\ \A s \in epts' : s <= allocated' /\ s \notin freed' \union unbound'
          /\ \A s \in unbound' : s <= allocated'
          /\ \A s \in freed' : s <= allocated' /\ task'[s] \in {"none", "done"} /\ Nobody(s)'
      BY <2>1, <2>2, <2>3, <2>6, <3>1 DEF TerminalTypeOK, Life
    <3>3. /\ \A s \in Tty : task'[s] # "none" => s <= allocated'
          /\ \A s \in Tty : task'[s] \notin {"none", "done"} => s \in epts' \union unbound'
      BY <2>1, <2>2, <2>6, <3>1 DEF Life
    <3>4. /\ \A s \in Tty \ active' :
                 task'[s] \in Running => s \in unbound' /\ Nobody(s)'
          /\ \A s \in Tty : task'[s] = "unbound" => s \in unbound' /\ Nobody(s)'
      BY <2>2, <2>3, <3>1 DEF Life, Running
    <3>5. \A y \in Thread :
              /\ at'[y].op = "bind" =>
                     at'[y].tty \in epts' \ list' /\ task'[at'[y].tty] = "none"
              /\ at'[y].op = "unbind" => at'[y].tty \in unbound'
      BY <2>2, <2>i, <2>5, <2>6, <3>1, AtType, SMT, SMTT(30) DEF Life
    <3> QED BY <2>4, <3>2, <3>3, <3>4, <3>5 DEF Life
  <2>7. CASE epts' = epts \ {t} /\ freed' = freed \union {t} /\ UNCHANGED <<list, task>>
    <3>2. /\ list' \subseteq epts'
          /\ \A s \in epts' : s <= allocated' /\ s \notin freed' \union unbound'
          /\ \A s \in unbound' : s <= allocated'
          /\ \A s \in freed' : s <= allocated' /\ task'[s] \in {"none", "done"} /\ Nobody(s)'
      BY <2>1, <2>2, <2>3, <2>7, SMT, SMTT(30) DEF TerminalTypeOK, Life
    <3>3. /\ \A s \in Tty : task'[s] # "none" => s <= allocated'
          /\ \A s \in Tty : task'[s] \notin {"none", "done"} => s \in epts' \union unbound'
      BY <2>1, <2>2, <2>7 DEF Life
    <3>4. /\ \A s \in Tty \ active' :
                 task'[s] \in Running => s \in unbound' /\ Nobody(s)'
          /\ \A s \in Tty : task'[s] = "unbound" => s \in unbound' /\ Nobody(s)'
      BY <2>2, <2>3, <2>7 DEF Life
    <3>5. \A y \in Thread :
              /\ at'[y].op = "bind" =>
                     at'[y].tty \in epts' \ list' /\ task'[at'[y].tty] = "none"
              /\ at'[y].op = "unbind" => at'[y].tty \in unbound'
      BY <2>2, <2>i, <2>5, <2>7, SMT, SMTT(30) DEF Life
    <3> QED BY <2>4, <3>2, <3>3, <3>4, <3>5 DEF Life
  <2> QED BY <1>3, <2>0, <2>6, <2>7 DEF rpmsg_tty_init_ends

<1>4. CASE rpmsg_tty_unbind(x)
  <2>1. PICK t \in Tty : /\ t \in epts /\ UnbindBegins(t)
                         /\ at' = [at EXCEPT ![x] = [op |-> "unbind", tty |-> t]]
    BY <1>4, Zenon DEF TerminalTypeOK, Life, rpmsg_tty_unbind
  <2>2. t \notin unbound /\ Nobody(t) /\ t <= allocated
    BY <2>1, UnbindAlone DEF Life
  <2>3. /\ list' = list \ {t} /\ epts' = epts \ {t} /\ unbound' = unbound \union {t}
        /\ UNCHANGED <<allocated, freed, task, active>>
    BY <1>4, <2>1, Zenon DEF UnbindBegins, rpmsg_tty_unbind, heap, tasks
  <2>4. \A y \in Thread : at'[y] = IF y = x THEN [op |-> "unbind", tty |-> t] ELSE at[y]
    BY <2>1 DEF TerminalTypeOK
  <2>5. \A s \in Tty : s # t /\ Nobody(s) => Nobody(s)'
    <3>1. \A y \in Thread : y # x => at'[y] = at[y]
      BY <2>4, Zenon
    <3>2. at'[x] = [op |-> "unbind", tty |-> t]
      BY <2>4, ZenonT(40)
    <3>3. at'[x].tty = t
      BY <3>2, SMT, SMTT(30)
    <3> QED BY <3>1, <3>3, Zenon DEF Nobody
  <2>6. /\ list' \subseteq epts'
        /\ \A s \in epts' : s <= allocated' /\ s \notin freed' \union unbound'
        /\ \A s \in unbound' : s <= allocated'
        /\ \A s \in freed' : s <= allocated' /\ task'[s] \in {"none", "done"} /\ Nobody(s)'
    BY <2>1, <2>2, <2>3, <2>5 DEF TerminalTypeOK, Life
  <2>7. /\ \A s \in Tty : task'[s] # "none" => s <= allocated'
        /\ \A s \in Tty : task'[s] \notin {"none", "done"} => s \in epts' \union unbound'
    BY <2>3 DEF Life
  <2>8. /\ \A s \in Tty \ active' :
               task'[s] \in Running => s \in unbound' /\ Nobody(s)'
        /\ \A s \in Tty : task'[s] = "unbound" => s \in unbound' /\ Nobody(s)'
    BY <2>2, <2>3, <2>5 DEF Life
  <2>9. \A y \in Thread :
            /\ at'[y].op = "bind" =>
                   at'[y].tty \in epts' \ list' /\ task'[at'[y].tty] = "none"
            /\ at'[y].op = "unbind" => at'[y].tty \in unbound'
    BY <2>2, <2>3, <2>4, SMT, SMTT(30) DEF Life, Nobody
  <2>10. \A y, z \in Thread : at'[y] # Idle /\ at'[y].tty = at'[z].tty => y = z
    BY <2>2, <2>4, SMT, SMTT(30) DEF Life, Nobody
  <2> QED BY <2>6, <2>7, <2>8, <2>9, <2>10 DEF Life
<1>5. CASE rpmsg_tty_unbind_ends(x)
  <2>0. PICK t \in Tty : at[x].tty = t /\ at[x] # Idle /\ t \in unbound
    BY <1>5, AtType DEF rpmsg_tty_unbind_ends, Life
  <2>1. /\ at' = [at EXCEPT ![x] = Idle] /\ active' = active \ {t}
        /\ UNCHANGED <<allocated, freed, list, epts, unbound, task>>
    BY <1>5, <2>0 DEF rpmsg_tty_unbind_ends, heap, rpmsg, history
  <2>2. /\ \A y \in Thread : at'[y] = IF y = x THEN Idle ELSE at[y]
        /\ \A s \in Tty : Nobody(s) => Nobody(s)'
        /\ Nobody(t)'
    BY <1>2, <2>0, <2>1
  <2>i. Idle.op = "idle"
    BY DEF Idle
  <2>3. /\ \A s \in freed' : s <= allocated' /\ task'[s] \in {"none", "done"} /\ Nobody(s)'
    BY <2>1, <2>2 DEF TerminalTypeOK, Life
  <2>4. /\ \A s \in Tty \ active' :
               task'[s] \in Running => s \in unbound' /\ Nobody(s)'
        /\ \A s \in Tty : task'[s] = "unbound" => s \in unbound' /\ Nobody(s)'
    BY <2>0, <2>1, <2>2 DEF Life
  <2>5. \A y \in Thread :
            /\ at'[y].op = "bind" =>
                   at'[y].tty \in epts' \ list' /\ task'[at'[y].tty] = "none"
            /\ at'[y].op = "unbind" => at'[y].tty \in unbound'
    BY <2>1, <2>2, <2>i, SMT, SMTT(30) DEF Life
  <2>6. \A y, z \in Thread : at'[y] # Idle /\ at'[y].tty = at'[z].tty => y = z
    BY <1>2, <2>1
  <2> QED BY <2>1, <2>3, <2>4, <2>5, <2>6 DEF Life
<1> QED BY <1>1, <1>3, <1>4, <1>5 DEF ThreadStep

(* The tx tasks keep the life of a terminal. *)
LEMMA LifeOfTasks ==
    ASSUME TerminalTypeOK, Life, NEW t \in Tty, TaskStep(t) \/ TaskFails(t) \/ Type(t), Quiet'
    PROVE  Life'
\* A step of a running task that keeps it so, or leaves the loop.
<1>1. ASSUME NEW to \in Running \union {"unbind"}, task' = [task EXCEPT ![t] = to],
             task[t] \in Running \union {"new"},
             active' = active \union {t} \/ (active' = active /\ task[t] # "new"),
             UNCHANGED <<allocated, freed, epts, list, unbound, at>>
      PROVE  Life'
  <2>1. \A s \in Tty : task'[s] = IF s = t THEN to ELSE task[s]
    BY <1>1 DEF TerminalTypeOK
  <2>2. to \notin {"none", "done", "unbound"} /\ task[t] \notin {"none", "done", "unbound"}
    BY <1>1 DEF Running
  <2>3. \A s \in freed' : s <= allocated' /\ task'[s] \in {"none", "done"} /\ Nobody(s)'
    BY <1>1, <2>1, <2>2 DEF TerminalTypeOK, Life, Nobody
  <2>4. /\ \A s \in Tty : task'[s] # "none" => s <= allocated'
        /\ \A s \in Tty : task'[s] \notin {"none", "done"} => s \in epts' \union unbound'
    BY <1>1, <2>1, <2>2 DEF Life
  <2>5. \A s \in Tty \ active' : task'[s] \in Running => s \in unbound' /\ Nobody(s)'
    BY <1>1, <2>1 DEF Life, Nobody
  <2>6. \A s \in Tty : task'[s] = "unbound" => s \in unbound' /\ Nobody(s)'
    BY <1>1, <2>1, <2>2, SMT, SMTT(30) DEF Life, Nobody
  <2>7. \A y \in Thread :
            /\ at'[y].op = "bind" =>
                   at'[y].tty \in epts' \ list' /\ task'[at'[y].tty] = "none"
            /\ at'[y].op = "unbind" => at'[y].tty \in unbound'
    BY <1>1, <2>1, <2>2, SMT, SMTT(30) DEF TerminalTypeOK, Life
  <2> QED BY <1>1, <2>3, <2>4, <2>5, <2>6, <2>7 DEF Life
\* A task that ends frees a terminal that was unbound.
<1>2. ASSUME task' = [task EXCEPT ![t] = "done"], freed' = freed \union {t},
             t \in unbound, Nobody(t), task[t] # "none",
             active' = active \/ active' = active \ {t},
             UNCHANGED <<allocated, epts, list, unbound, at>>
      PROVE  Life'
  <2>1. \A s \in Tty : task'[s] = IF s = t THEN "done" ELSE task[s]
    BY <1>2 DEF TerminalTypeOK
  <2>2. /\ \A s \in epts' : s <= allocated' /\ s \notin freed' \union unbound'
        /\ \A s \in freed' : s <= allocated' /\ task'[s] \in {"none", "done"} /\ Nobody(s)'
    BY <1>2, <2>1, SMT, SMTT(30) DEF TerminalTypeOK, Life, Nobody
  <2>3. /\ \A s \in Tty : task'[s] # "none" => s <= allocated'
        /\ \A s \in Tty : task'[s] \notin {"none", "done"} => s \in epts' \union unbound'
    BY <1>2, <2>1 DEF Life
  <2>4. \A s \in Tty \ active' : task'[s] \in Running => s \in unbound' /\ Nobody(s)'
    BY <1>2, <2>1 DEF Life, Nobody, Running
  <2>5. \A s \in Tty : task'[s] = "unbound" => s \in unbound' /\ Nobody(s)'
    BY <1>2, <2>1, SMT, SMTT(30) DEF Life, Nobody
  <2>6. \A y \in Thread :
            /\ at'[y].op = "bind" =>
                   at'[y].tty \in epts' \ list' /\ task'[at'[y].tty] = "none"
            /\ at'[y].op = "unbind" => at'[y].tty \in unbound'
    BY <1>2, <2>1, SMT, SMTT(30) DEF TerminalTypeOK, Life
  <2> QED BY <1>2, <2>2, <2>3, <2>4, <2>5, <2>6 DEF Life
<1>3. CASE TaskStarts(t)
  BY <1>1, <1>3 DEF TaskStarts, TaskMoves, Running, heap, rpmsg
<1>4. CASE TaskTests(t)
  BY <1>1, <1>4, Zenon DEF TaskTests, TaskMoves, Running, heap, rpmsg, history
<1>5. CASE TaskPolls(t) \/ TaskFails(t)
  BY <1>1, <1>5 DEF TaskPolls, TaskFails, TaskMoves, Running, heap, rpmsg, history
<1>6. CASE TaskLeaves(t)
  <2>1. CASE t \in active
    BY <1>1, <1>6, <2>1 DEF TaskLeaves, Running, rpmsg, history
  <2>2. CASE t \notin active
    <3>1. t \in unbound /\ Nobody(t)
      BY <1>6, <2>2 DEF Life, TaskLeaves, Running
    <3> QED BY <1>2, <1>6, <2>2, <3>1 DEF TaskLeaves, rpmsg, history
  <2> QED BY <2>1, <2>2
<1>7. CASE TaskUnbinds(t)
  <2>1. t \notin unbound /\ Nobody(t) /\ t <= allocated /\ task[t] = "unbind"
    BY <1>7, UnbindAlone DEF Life, TaskUnbinds, TaskMoves
  <2>2. /\ list' = list \ {t} /\ epts' = epts \ {t} /\ unbound' = unbound \union {t}
        /\ task' = [task EXCEPT ![t] = "unbound"]
        /\ UNCHANGED <<allocated, freed, active, at>>
    BY <1>7, Zenon DEF TaskUnbinds, UnbindBegins, TaskMoves, heap
  <2>3. \A s \in Tty : task'[s] = IF s = t THEN "unbound" ELSE task[s]
    BY <2>2 DEF TerminalTypeOK
  <2>4. /\ list' \subseteq epts'
        /\ \A s \in epts' : s <= allocated' /\ s \notin freed' \union unbound'
        /\ \A s \in unbound' : s <= allocated'
        /\ \A s \in freed' : s <= allocated' /\ task'[s] \in {"none", "done"} /\ Nobody(s)'
    BY <2>1, <2>2, <2>3 DEF TerminalTypeOK, Life, Nobody
  <2>5. /\ \A s \in Tty : task'[s] # "none" => s <= allocated'
        /\ \A s \in Tty : task'[s] \notin {"none", "done"} => s \in epts' \union unbound'
    BY <2>1, <2>2, <2>3 DEF Life
  <2>6. /\ \A s \in Tty \ active' : task'[s] \in Running => s \in unbound' /\ Nobody(s)'
        /\ \A s \in Tty : task'[s] = "unbound" => s \in unbound' /\ Nobody(s)'
    BY <2>1, <2>2, <2>3, SMT, SMTT(30) DEF Life, Nobody, Running
  <2>7. \A y \in Thread :
            /\ at'[y].op = "bind" =>
                   at'[y].tty \in epts' \ list' /\ task'[at'[y].tty] = "none"
            /\ at'[y].op = "unbind" => at'[y].tty \in unbound'
    BY <2>1, <2>2, <2>3, SMT, SMTT(30) DEF TerminalTypeOK, Life, Nobody
  <2> QED BY <2>2, <2>4, <2>5, <2>6, <2>7 DEF Life
<1>8. CASE TaskUnbound(t)
  <2>1. t \in unbound /\ Nobody(t)
    BY <1>8 DEF Life, TaskUnbound, TaskMoves
  <2> QED BY <1>2, <1>8, <2>1 DEF TaskUnbound, TaskMoves, rpmsg, history
<1>9. CASE Type(t)
  BY <1>9 DEF Life, Type, Nobody, heap, rpmsg, history
<1> QED BY <1>3, <1>4, <1>5, <1>6, <1>7, <1>8, <1>9 DEF TaskStep

(* Every step keeps the life of a terminal. *)
LEMMA LifeStep == TerminalInv /\ TerminalNext /\ Quiet' => Life'
<1> SUFFICES ASSUME TerminalInv, TerminalNext, Quiet' PROVE Life'
  OBVIOUS
<1>0. TerminalTypeOK /\ Life
  BY FaultsStay DEF TerminalInv, Quiet
<1>1. CASE create_tty_dev_lists \/ remove_tty_dev_lists
  BY <1>0, <1>1, SMT, SMTT(30) DEF Life, Nobody, create_tty_dev_lists, remove_tty_dev_lists, heap,
                    rpmsg, tasks, history
<1> QED BY <1>0, <1>1, LifeOfThreads, LifeOfTasks DEF TerminalNext

(***************************************************************************)
(* The table.  A free index belongs to no terminal with an endpoint, and   *)
(* two of these never share one, as the link of an index leads to one.     *)
(***************************************************************************)
LEMMA TableOfUnbind ==
    ASSUME TerminalTypeOK, Table, NEW t \in epts, UnbindBegins(t)
    PROVE  Table'
<1>0. t \in Tty /\ index[t] \in Index
  BY DEF TerminalTypeOK
<1>1. /\ \A i \in Index : tty_id'[i] = IF i = index[t] THEN FALSE ELSE tty_id[i]
      /\ \A i \in Index : link'[i] = IF i = index[t] THEN 0 ELSE link[i]
  BY DEF TerminalTypeOK, UnbindBegins
<1>2. epts' = epts \ {t} /\ UNCHANGED <<index, lost>>
  BY Zenon DEF UnbindBegins
<1>3. \A s \in epts \ {t} : index[s] \in Index /\ index[s] # index[t]
  BY SMT, SMTT(30) DEF TerminalTypeOK, Table
<1> QED BY <1>0, <1>1, <1>2, <1>3, ZenonT(60) DEF Table

(* A terminal that is made takes a free index. *)
LEMMA TableOfInit ==
    ASSUME TerminalTypeOK, Life, Table, NEW x \in Thread, rpmsg_tty_init(x),
           "slave" \notin faults'
    PROVE  Table'
<1>0. allocated + 1 \in Tty /\ allocated + 1 > allocated
  BY TerminalNumbers, TerminalAssumption, SMT, SMTT(30) DEF TerminalTypeOK, rpmsg_tty_init
<1>1. PICK i \in Index :
          /\ ~tty_id[i]
          /\ NoPty(i) \/ NoEpt(i) \/ \E slave \in BOOLEAN : Made(x, i, slave)
  BY DEF rpmsg_tty_init, rpmsg_tty_new_index, FreeIndices
<1>2. \A s \in epts : s # allocated + 1 /\ index[s] \in Index /\ index[s] # i
  BY <1>0, <1>1, Unknown, SMT, SMTT(30) DEF TerminalTypeOK, Table
<1>3. CASE NoPty(i)
  <2>1. \A j \in Index : tty_id'[j] = IF j = i THEN TRUE ELSE tty_id[j]
    BY <1>3 DEF TerminalTypeOK, NoPty
  <2> QED BY <1>2, <1>3, <2>1, SMT, SMTT(30) DEF Table, NoPty, rpmsg
<1>4. CASE NoEpt(i)
  <2>1. /\ \A j \in Index : tty_id'[j] = IF j = i THEN TRUE ELSE tty_id[j]
        /\ \A j \in Index : link'[j] = IF j = i THEN allocated + 1 ELSE link[j]
    BY <1>4 DEF TerminalTypeOK, NoEpt
  <2> QED BY <1>2, <1>4, <2>1, SMT, SMTT(30) DEF Table, NoEpt, rpmsg
<1>5. ASSUME NEW slave \in BOOLEAN, Made(x, i, slave) PROVE Table'
  <2>0. slave
    BY <1>5 DEF Made, If
  <2>1. /\ \A j \in Index : tty_id'[j] <=> j = i \/ tty_id[j]
        /\ \A j \in Index : link'[j] = IF j = i THEN allocated + 1 ELSE link[j]
    BY <1>5, <2>0 DEF TerminalTypeOK, Made
  <2>2. \A s \in Tty : index'[s] = IF s = allocated + 1 THEN i ELSE index[s]
    BY <1>5 DEF TerminalTypeOK, Made
  <2>3. epts' = epts \union {allocated + 1} /\ lost' = lost /\ epts \subseteq Tty
    BY <1>5 DEF TerminalTypeOK, Made
  <2> DEFINE n == allocated + 1
  <2>n. n \in Tty /\ index'[n] = i /\ \A s \in epts : index'[s] = index[s]
    BY <1>0, <1>2, <2>2, <2>3
  <2> HIDE DEF n
  <2>4. \A s \in epts' : tty_id'[index'[s]] /\ link'[index'[s]] = s
    <3>1. ASSUME NEW s \in epts PROVE tty_id'[index'[s]] /\ link'[index'[s]] = s
      BY <1>2, <2>1, <2>n, SMT, SMTT(30) DEF Table
    <3>2. tty_id'[index'[n]] /\ link'[index'[n]] = n
      BY <2>1, <2>n DEF n
    <3> QED BY <2>3, <3>1, <3>2 DEF n
  <2>5. \A j \in Index : tty_id'[j] => j \in lost' \/ \E s \in epts' : index'[s] = j
    <3>1. n \in epts' /\ epts \subseteq epts' /\ lost' = lost
      BY <2>3 DEF n
    <3> QED BY <2>1, <2>n, <3>1, SMT, SMTT(30) DEF Table
  <2> QED BY <2>4, <2>5 DEF Table
<1> QED BY <1>1, <1>3, <1>4, <1>5

(* Every step keeps the table. *)
LEMMA TableStep == TerminalInv /\ TerminalNext /\ Quiet' /\ "slave" \notin faults' => Table'
<1> SUFFICES ASSUME TerminalInv, TerminalNext, Quiet', "slave" \notin faults' PROVE Table'
  OBVIOUS
<1>0. TerminalTypeOK /\ Life /\ Table
  BY FaultsStay DEF TerminalInv, Quiet
<1>1. CASE UNCHANGED <<tty_id, link, index, epts, lost>>
  BY <1>0, <1>1 DEF Table
<1>2. CASE create_tty_dev_lists \/ remove_tty_dev_lists
  BY <1>1, <1>2 DEF create_tty_dev_lists, remove_tty_dev_lists, devices, rpmsg, history
<1>3. ASSUME NEW x \in Thread, ThreadStep(x) PROVE Table'
  <2>1. CASE rpmsg_tty_init(x)
    BY <1>0, <2>1, TableOfInit
  <2>2. CASE rpmsg_tty_init_ends(x)
    BY <1>0, <2>2 DEF Table, rpmsg_tty_init_ends, devices
  <2>3. CASE rpmsg_tty_unbind(x)
    BY <1>0, <2>3, TableOfUnbind DEF Life, rpmsg_tty_unbind
  <2>4. CASE rpmsg_tty_unbind_ends(x)
    BY <1>1, <2>4 DEF rpmsg_tty_unbind_ends, devices, rpmsg, history
  <2> QED BY <1>3, <2>1, <2>2, <2>3, <2>4 DEF ThreadStep
<1>4. ASSUME NEW t \in Tty, TaskStep(t) \/ TaskFails(t) \/ Type(t) PROVE Table'
  <2>1. CASE TaskUnbinds(t)
    <3>1. t \in epts
      BY <1>0, <2>1, UnbindAlone DEF Life, TaskUnbinds, TaskMoves
    <3> QED BY <1>0, <2>1, <3>1, TableOfUnbind DEF TaskUnbinds
  <2>2. CASE ~TaskUnbinds(t)
    BY <1>1, <1>4, <2>2
    DEF TaskStep, TaskStarts, TaskTests, TaskPolls, TaskLeaves, TaskUnbound, TaskFails,
        Type, devices, rpmsg, history
  <2> QED BY <2>1, <2>2
<1> QED BY <1>2, <1>3, <1>4 DEF TerminalNext

(***************************************************************************)
(* The invariant is inductive, so it holds throughout, and with it what it *)
(* implies.                                                                *)
(***************************************************************************)
LEMMA TerminalInductive == TerminalSpec => []TerminalInv
<1>1. TerminalInv /\ [TerminalNext]_terminalVars => TerminalInv'
  <2> SUFFICES ASSUME TerminalInv, [TerminalNext]_terminalVars PROVE TerminalInv'
    OBVIOUS
  <2>1. CASE TerminalNext
    BY <2>1, TerminalTypes, LifeStep, TableStep DEF TerminalInv
  <2>2. CASE UNCHANGED terminalVars
    <3>1. UNCHANGED <<devices, heap, rpmsg, tasks, at, registered, history>>
      BY <2>2 DEF terminalVars
    <3>2. TerminalTypeOK'
      BY <3>1 DEF TerminalInv, TerminalTypeOK, devices, heap, rpmsg, tasks, history
    <3>3. Quiet' => Life'
      BY <3>1 DEF TerminalInv, Life, Quiet, Nobody, heap, rpmsg, tasks, history
    <3>4. Quiet' /\ "slave" \notin faults' => Table'
      BY <3>1 DEF TerminalInv, Table, Quiet, devices, rpmsg, history
    <3> QED BY <3>2, <3>3, <3>4 DEF TerminalInv
  <2> QED BY <2>1, <2>2
<1> QED BY <1>1, TerminalInitInv, PTL DEF TerminalSpec

(***************************************************************************)
(* The variables keep their types.                                         *)
(***************************************************************************)
THEOREM TerminalTyped == TerminalSpec => []TerminalTypeOK
<1>1. TerminalInv => TerminalTypeOK
  BY DEF TerminalInv
<1> QED BY <1>1, TerminalInductive, PTL

(***************************************************************************)
(* However many terminals come and go, tty_id, the links in /dev and the   *)
(* terminals agree, unless one was unbound twice or made without its slave *)
(* side.                                                                   *)
(***************************************************************************)
THEOREM TableAgrees == TerminalSpec => []IndicesAgree
<1>1. TerminalInv => IndicesAgree
  BY DEF TerminalInv, Life, Table, IndicesAgree
<1> QED BY <1>1, TerminalInductive, PTL

(***************************************************************************)
(* However many they are, a terminal is freed when no list, endpoint, task *)
(* or thread of micad leads to it any more, unless two unbind it.          *)
(***************************************************************************)
THEOREM FreedIsUnused == TerminalSpec => []NoUseAfterFree
<1>1. TerminalInv => NoUseAfterFree
  BY DEF TerminalInv, Life, Nobody, NoUseAfterFree
<1> QED BY <1>1, TerminalInductive, PTL

=============================================================================
