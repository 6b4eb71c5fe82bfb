------------------------------ MODULE Terminal ------------------------------
(***************************************************************************)
(* The terminals of the rpmsg-tty service (services/pty/rpmsg_pty.c): the  *)
(* table of indices, the links in /dev, and the threads that make, use and *)
(* take down a terminal without a lock.  The epoll thread registers and    *)
(* removes the service; it and the notifier thread bind terminals; either, *)
(* and the terminal's own tx task when something fails, unbinds one.       *)
(*                                                                         *)
(* An unbind is two steps, everything it takes down and the flag that it   *)
(* clears last, since the tx task decides by that flag.                    *)
(***************************************************************************)
EXTENDS Integers

CONSTANTS
    MaxTty,     \* RPMSG_TTY_MAX_DEV
    MaxBinds    \* how many terminals are ever made

ASSUME TerminalAssumption == MaxTty \in Nat \ {0} /\ MaxBinds \in Nat

VARIABLES
    tty_id,     \* [Index -> BOOLEAN]: is the index marked as used
    link,       \* [Index -> Tty or 0]: the pty that /dev/ttyRPMSG<i> leads to
    allocated,  \* the terminals allocated so far are 1..allocated
    freed,      \* and those of them freed
    index,      \* [Tty -> Index]: tty_index
    open,       \* the terminals whose pty is open
    epts,       \* the terminals with an endpoint
    list,       \* tty_dev_list
    active,     \* the terminals whose flag is set
    typed,      \* the terminals with input to be read
    task,       \* [Tty -> where its tx task is]
    at,         \* [Thread -> what it is doing]
    registered, \* the client has the service
    unbound,    \* history: the terminals some thread began to unbind
    lost,       \* history: the indices of terminals that could not be made
    faults      \* history: see Fault

devices == <<tty_id, link, index, open>>
heap == <<allocated, freed>>
rpmsg == <<epts, list>>
tasks == <<active, typed, task>>
history == <<unbound, lost, faults>>
terminalVars == <<devices, heap, rpmsg, tasks, at, registered, history>>

Tty == 1..MaxBinds
Index == 0..MaxTty - 1
Thread == {"epoll", "notifier"}
Idle == [op |-> "idle", tty |-> 0]
Doing == [op : {"bind", "unbind"}, tty : Tty] \union {Idle}

(***************************************************************************)
(* A terminal was unbound by two threads; its slave side could not be      *)
(* opened, which create_tty_device() reports as success; it was unbound    *)
(* before its tx task set the flag; it was unbound, or its service was     *)
(* removed with the list, before it was put on that list.                  *)
(***************************************************************************)
Fault == {"twice", "slave", "early", "half"}

Steps == {"none", "new", "test", "poll", "leave", "unbind", "unbound", "done"}

TerminalTypeOK ==
    /\ tty_id \in [Index -> BOOLEAN]
    /\ link \in [Index -> 0..MaxBinds]
    /\ allocated \in 0..MaxBinds
    /\ index \in [Tty -> Index]
    /\ freed \subseteq Tty /\ open \subseteq Tty
    /\ epts \subseteq Tty /\ list \subseteq Tty
    /\ active \subseteq Tty /\ typed \subseteq Tty
    /\ unbound \subseteq Tty
    /\ task \in [Tty -> Steps]
    /\ at \in [Thread -> Doing]
    /\ registered \in BOOLEAN
    /\ lost \subseteq Index
    /\ faults \subseteq Fault

TerminalInit ==
    /\ tty_id = [i \in Index |-> FALSE]
    /\ link = [i \in Index |-> 0]
    /\ allocated = 0 /\ freed = {}
    /\ index = [t \in Tty |-> 0]
    /\ open = {} /\ epts = {} /\ list = {} /\ active = {} /\ typed = {}
    /\ task = [t \in Tty |-> "none"]
    /\ at = [x \in Thread |-> Idle]
    /\ registered = FALSE
    /\ unbound = {} /\ lost = {} /\ faults = {}

If(b, m) == IF b THEN {m} ELSE {}

-----------------------------------------------------------------------------
(* create_tty_dev_lists(), when the service is registered. *)
create_tty_dev_lists ==
    /\ at["epoll"] = Idle
    /\ ~registered
    /\ registered' = TRUE
    /\ UNCHANGED <<devices, heap, rpmsg, tasks, at, history>>

\* Faulty variant: the mark of the index is not looked at.
FreeIndices_Any == Index

FreeIndices == {i \in Index : ~tty_id[i]}
rpmsg_tty_new_index == {i \in FreeIndices : \A j \in FreeIndices : i <= j}

(***************************************************************************)
(* rpmsg_tty_init() and create_tty_device().  What fails first decides     *)
(* what is left: without a pty the index stays marked; without a slave     *)
(* side the call goes on, with an index it has given back; without an      *)
(* endpoint the index, the pty and the link stay.  The other failures      *)
(* leave nothing.                                                          *)
(***************************************************************************)
NoPty(i) ==
    /\ tty_id' = [tty_id EXCEPT ![i] = TRUE]
    /\ lost' = lost \union {i}
    /\ UNCHANGED <<link, heap, index, open, rpmsg, tasks, at, unbound, faults>>

NoEpt(i) ==
    /\ tty_id' = [tty_id EXCEPT ![i] = TRUE]
    /\ link' = [link EXCEPT ![i] = allocated + 1]
    /\ allocated' = allocated + 1 /\ freed' = freed \union {allocated + 1}
    /\ open' = open \union {allocated + 1}
    /\ lost' = lost \union {i}
    /\ UNCHANGED <<index, rpmsg, tasks, at, unbound, faults>>

Made(x, i, slave) ==
    LET t == allocated + 1 IN
    /\ tty_id' = [tty_id EXCEPT ![i] = slave]
    /\ link' = [link EXCEPT ![i] = t]
    /\ allocated' = t
    /\ index' = [index EXCEPT ![t] = i]
    /\ open' = open \union If(slave, t)
    /\ epts' = epts \union {t}
    /\ at' = [at EXCEPT ![x] = [op |-> "bind", tty |-> t]]
    /\ faults' = faults \union If(~slave, "slave")
    /\ UNCHANGED <<freed, list, tasks, unbound, lost>>

rpmsg_tty_init(x) ==
    /\ at[x] = Idle
    /\ registered
    /\ allocated < MaxBinds
    /\ \E i \in rpmsg_tty_new_index :
        NoPty(i) \/ NoEpt(i) \/ \E slave \in BOOLEAN : Made(x, i, slave)
    /\ UNCHANGED registered

(* The rest of it: the list, and the thread of the tx task. *)
rpmsg_tty_init_ends(x) ==
    LET t == at[x].tty IN
    /\ at[x].op = "bind"
    /\ \/ /\ list' = list \union {t}
          /\ task' = [task EXCEPT ![t] = "new"]
          /\ UNCHANGED <<epts, freed, lost>>
       \/ /\ epts' = epts \ {t}
          /\ freed' = freed \union {t}
          /\ lost' = lost \union {index[t]}
          /\ UNCHANGED <<list, task>>
    /\ at' = [at EXCEPT ![x] = Idle]
    /\ faults' = faults \union If(~registered, "half")
    /\ UNCHANGED <<devices, allocated, active, typed, registered, unbound>>

-----------------------------------------------------------------------------
(***************************************************************************)
(* rpmsg_tty_unbind(): from the list, with its endpoint, index, link and   *)
(* pty; then the flag.                                                     *)
(***************************************************************************)
UnbindBegins(t) ==
    /\ list' = list \ {t}
    /\ epts' = epts \ {t}
    /\ tty_id' = [tty_id EXCEPT ![index[t]] = FALSE]
    /\ link' = [link EXCEPT ![index[t]] = 0]
    /\ open' = open \ {t}
    /\ unbound' = unbound \union {t}
    /\ faults' = faults \union If(t \in unbound, "twice")
                        \union If(\E x \in Thread : at[x] = [op |-> "bind", tty |-> t],
                                  "half")
    /\ UNCHANGED <<heap, index, registered, lost>>

(* By a thread of micad: a service that is removed, or an endpoint withdrawn. *)
rpmsg_tty_unbind(x) ==
    /\ at[x] = Idle
    /\ \E t \in IF x = "epoll" THEN list ELSE epts :
        /\ at' = [at EXCEPT ![x] = [op |-> "unbind", tty |-> t]]
        /\ UnbindBegins(t)
    /\ UNCHANGED tasks

\* Faulty variant: the flag is left set.
rpmsg_tty_unbind_ends_NoFlag(x) ==
    /\ at[x].op = "unbind"
    /\ at' = [at EXCEPT ![x] = Idle]
    /\ UNCHANGED <<devices, heap, rpmsg, tasks, registered, history>>

rpmsg_tty_unbind_ends(x) ==
    /\ at[x].op = "unbind"
    /\ active' = active \ {at[x].tty}
    /\ at' = [at EXCEPT ![x] = Idle]
    /\ UNCHANGED <<devices, heap, rpmsg, typed, task, registered, history>>

(* The end of remove_tty_dev_lists(), which unbinds all that is on the list. *)
remove_tty_dev_lists ==
    /\ at["epoll"] = Idle
    /\ registered
    /\ list = {}
    /\ registered' = FALSE
    /\ UNCHANGED <<devices, heap, rpmsg, tasks, at, history>>

-----------------------------------------------------------------------------
(***************************************************************************)
(* rpmsg_tty_tx_task().  It sets the flag itself; it looks at it only when *)
(* poll() returns, for which there must be input.  A pty that was closed   *)
(* meanwhile reads as an error, or as nothing.                             *)
(***************************************************************************)
TaskMoves(t, from, to) ==
    /\ task[t] = from
    /\ task' = [task EXCEPT ![t] = to]

TaskStarts(t) ==
    /\ TaskMoves(t, "new", "test")
    /\ active' = active \union {t}
    /\ faults' = faults \union If(t \in unbound, "early")
    /\ UNCHANGED <<devices, heap, rpmsg, typed, at, registered, unbound, lost>>

TaskTests(t) ==
    /\ TaskMoves(t, "test", IF t \in active THEN "poll" ELSE "leave")
    /\ UNCHANGED <<devices, heap, rpmsg, active, typed, at, registered, history>>

TaskPolls(t) ==
    /\ t \in typed
    /\ TaskMoves(t, "poll", IF t \in active THEN "poll" ELSE "leave")
    /\ typed' = typed \ (IF t \in open \/ t \notin active THEN {t} ELSE {})
    /\ UNCHANGED <<devices, heap, rpmsg, active, at, registered, history>>

TaskFails(t) ==
    /\ t \in typed
    /\ TaskMoves(t, "poll", "leave")
    /\ typed' = typed \ {t}
    /\ UNCHANGED <<devices, heap, rpmsg, active, at, registered, history>>

\* Faulty variant: the task frees its terminal without taking it down.
TaskLeaves_Frees(t) ==
    /\ task[t] = "leave"
    /\ task' = [task EXCEPT ![t] = "done"]
    /\ freed' = freed \union {t}
    /\ UNCHANGED <<devices, allocated, rpmsg, active, typed, at, registered, history>>

(* After the loop: a terminal still active is unbound, and it is freed. *)
TaskLeaves(t) ==
    /\ task[t] = "leave"
    /\ IF t \in active
       THEN task' = [task EXCEPT ![t] = "unbind"] /\ UNCHANGED freed
       ELSE task' = [task EXCEPT ![t] = "done"] /\ freed' = freed \union {t}
    /\ UNCHANGED <<devices, allocated, rpmsg, active, typed, at, registered, history>>

TaskUnbinds(t) ==
    /\ TaskMoves(t, "unbind", "unbound")
    /\ UnbindBegins(t)
    /\ UNCHANGED <<active, typed, at>>

TaskUnbound(t) ==
    /\ TaskMoves(t, "unbound", "done")
    /\ active' = active \ {t}
    /\ freed' = freed \union {t}
    /\ UNCHANGED <<devices, allocated, rpmsg, typed, at, registered, history>>

TaskStep(t) ==
    \/ TaskStarts(t) \/ TaskTests(t) \/ TaskPolls(t) \/ TaskLeaves(t)
    \/ TaskUnbinds(t) \/ TaskUnbound(t)

(* Somebody who has the terminal open types; it waits there to be read. *)
Type(t) ==
    /\ task[t] = "poll"
    /\ t \notin typed
    /\ typed' = typed \union {t}
    /\ UNCHANGED <<devices, heap, rpmsg, active, task, at, registered, history>>

ThreadStep(x) ==
    \/ rpmsg_tty_init(x) \/ rpmsg_tty_init_ends(x)
    \/ rpmsg_tty_unbind(x) \/ rpmsg_tty_unbind_ends(x)

(* After an operation on a list node nobody set, anything may happen. *)
ListSound == "half" \notin faults

TerminalNext ==
    /\ ListSound
    /\ \/ create_tty_dev_lists \/ remove_tty_dev_lists
       \/ \E x \in Thread : ThreadStep(x)
       \/ \E t \in Tty : TaskStep(t) \/ TaskFails(t) \/ Type(t)

(* The tx tasks run, and a thread in the middle of an unbind; nothing need fail. *)
TerminalFairness ==
    /\ \A t \in Tty : WF_terminalVars(ListSound /\ TaskStep(t))
    /\ \A x \in Thread : WF_terminalVars(ListSound /\ rpmsg_tty_unbind_ends(x))

TerminalSpec == TerminalInit /\ [][TerminalNext]_terminalVars /\ TerminalFairness

-----------------------------------------------------------------------------
Quiet == faults \intersect {"twice", "half"} = {}

(***************************************************************************)
(* The table, the links and the terminals agree, as long as no terminal    *)
(* was unbound twice or made without its slave side: a terminal on the     *)
(* list has its index to itself, and the link of that index leads to it;   *)
(* an index that is marked belongs to a terminal not yet unbound, or to    *)
(* one that could not be made.                                             *)
(***************************************************************************)
IndicesAgree ==
    Quiet /\ "slave" \notin faults =>
        /\ \A t \in list : tty_id[index[t]] /\ link[index[t]] = t
        /\ \A i \in Index : tty_id[i] =>
            i \in lost \/ \E t \in epts : index[t] = i

(***************************************************************************)
(* A terminal is freed when no list, no endpoint and no thread leads to it *)
(* any more, as long as only one thread unbinds it.                        *)
(***************************************************************************)
NoUseAfterFree ==
    Quiet =>
        \A t \in freed :
            /\ t \notin list \union epts
            /\ task[t] \in {"none", "done"}
            /\ \A x \in Thread : at[x].tty # t

(***************************************************************************)
(* The flag does stop the tx task of a terminal that was unbound, when     *)
(* somebody types, unless the task set the flag only after the unbind.     *)
(***************************************************************************)
TaskEnds ==
    \A t \in Tty :
        (t \in unbound /\ t \in typed) ~>
            (task[t] = "done" \/ faults \intersect {"early", "half"} # {})

-----------------------------------------------------------------------------
(***************************************************************************)
(* The inductive invariant: the life of a terminal, while only one thread  *)
(* unbinds it.  The flag of a running task is clear only when its terminal *)
(* has been unbound and the thread that did it is through.                 *)
(***************************************************************************)
Nobody(t) == \A x \in Thread : at[x].tty # t
Running == {"test", "poll", "leave"}

Life ==
    /\ list \subseteq epts
    /\ \A t \in epts : t <= allocated /\ t \notin freed \union unbound
    /\ \A t \in unbound : t <= allocated
    /\ \A t \in freed : t <= allocated /\ task[t] \in {"none", "done"} /\ Nobody(t)
    /\ \A t \in Tty : task[t] # "none" => t <= allocated
    /\ \A t \in Tty : task[t] \notin {"none", "done"} => t \in epts \union unbound
    /\ \A t \in Tty \ active : task[t] \in Running => t \in unbound /\ Nobody(t)
    /\ \A t \in Tty : task[t] = "unbound" => t \in unbound /\ Nobody(t)
    /\ \A x \in Thread :
        /\ at[x].op = "bind" => at[x].tty \in epts \ list /\ task[at[x].tty] = "none"
        /\ at[x].op = "unbind" => at[x].tty \in unbound
    /\ \A x, y \in Thread : at[x] # Idle /\ at[x].tty = at[y].tty => x = y

(***************************************************************************)
(* And, while every slave side could be opened, the table: a terminal with *)
(* an endpoint has an index, marked, with a link that leads to it.         *)
(***************************************************************************)
Table ==
    /\ \A t \in epts : tty_id[index[t]] /\ link[index[t]] = t
    /\ \A i \in Index : tty_id[i] => i \in lost \/ \E t \in epts : index[t] = i

TerminalInv ==
    /\ TerminalTypeOK
    /\ Quiet => Life
    /\ Quiet /\ "slave" \notin faults => Table

=============================================================================
