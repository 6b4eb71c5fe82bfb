--------------------------- MODULE ClientLifecycle ---------------------------
(***************************************************************************)
(* The life of one bare-metal client: the commands micad executes for it   *)
(* (library/mica/mica.c, library/remoteproc/remoteproc_core.c,             *)
(* library/remoteproc/baremetal_rproc.c, client_ctrl_handler() of          *)
(* mica/micad/socket_listener.c), the status word of the resource table it *)
(* shares with the remote, the remote itself, and crashes of micad.        *)
(*                                                                         *)
(* A command is split where the remote, or a crash, can come in between:   *)
(* around every access to the status word and around the PSCI call.        *)
(***************************************************************************)
EXTENDS Naturals, FiniteSets

VARIABLES
    (***********************************************************************)
    (* micad: lost when it dies.                                           *)
    (***********************************************************************)
    rproc,      \* client->rproc.state; "NONE" when there is no client
    debug,      \* client->debug
    pc,         \* the place in the command being executed, or "idle"
    table,      \* rproc->rsc_table is not NULL
    rdev,       \* client->rdev is not NULL
    rbuf,       \* client->rbuf_dev: "null", "live" or "dangling"
    services,   \* client->services
    (***********************************************************************)
    (* Shared memory: the status word reserved[0] of the resource table.   *)
    (***********************************************************************)
    word,       \* "ZERO", "ON", "OFF" or "RESET"
    (***********************************************************************)
    (* The remote.                                                         *)
    (***********************************************************************)
    cpu,        \* the core, as PSCI sees it
    os,         \* "none", "boot", "up", "leaving" or "hung"
    ipi,        \* an inter-processor interrupt is pending
    fresh,      \* the remote set up its vdev after the host forgot its own
    (***********************************************************************)
    (* History.                                                            *)
    (***********************************************************************)
    damaged,    \* the image was written over while the remote was running
    excuse      \* what happened to this incarnation of the remote

host == <<rproc, debug, pc, table, rdev, rbuf, services>>
remote == <<cpu, os, ipi, fresh>>
history == <<damaged, excuse>>
vars == <<host, word, remote, history>>

Running == {"boot", "up"}
Service == {"debug", "tty", "rpc", "umt"}

-----------------------------------------------------------------------------
Init ==
    /\ rproc = "NONE" /\ debug = FALSE /\ pc = "idle" /\ table = FALSE
    /\ rdev = FALSE /\ rbuf = "null" /\ services = {}
    /\ word = "ZERO"
    /\ cpu = "off" /\ os = "none" /\ ipi = FALSE /\ fresh = FALSE
    /\ damaged = FALSE /\ excuse = {}

(***************************************************************************)
(* create_mica_client() with mica_create(): the message says whether the   *)
(* client is to be debugged.                                               *)
(***************************************************************************)
mica_create ==
    /\ pc = "idle" /\ rproc = "NONE"
    /\ rproc' = "OFFLINE"
    /\ debug' \in BOOLEAN
    /\ UNCHANGED <<pc, table, rdev, rbuf, services, word, remote, history>>

-----------------------------------------------------------------------------
(***************************************************************************)
(* The command start.  remoteproc_config() refuses every state but         *)
(* OFFLINE; a refused start changes nothing.  rproc_config() sets up the   *)
(* pool and maps the resource table the image's header names.              *)
(***************************************************************************)
load_client_image ==
    /\ pc = "idle" /\ rproc = "OFFLINE"
    /\ pc' = "read"
    /\ UNCHANGED <<rproc, table, rdev, rbuf, services, word, remote, history>>

(***************************************************************************)
(* A configuration step fails: no memory information, no pool, no resource *)
(* table in the image, no mapping, or a table remoteproc_set_rsc_table()   *)
(* rejects.  Whether remoteproc_config() leaves the client READY then is   *)
(* the library's business; both are allowed for here.                      *)
(***************************************************************************)
ConfigFails ==
    /\ pc \in {"read", "restore"}
    /\ pc' = "idle"
    /\ rproc' \in {"OFFLINE", "READY"}
    /\ excuse' = IF pc = "restore" THEN excuse \union {"failed"} ELSE excuse
    /\ UNCHANGED <<table, rdev, rbuf, services, word, remote, damaged>>

(***************************************************************************)
(* Variants of get_cpu_status for checking the properties: no handshake at *)
(* all, a handshake with whatever is not zero, a restore without asking.   *)
(***************************************************************************)
get_cpu_status_NoHandshake ==
    /\ pc = "read"
    /\ pc' = "load" /\ rproc' = "READY"
    /\ UNCHANGED <<table, rdev, rbuf, services, word, remote, history>>

get_cpu_status_NotZero ==
    /\ pc = "read"
    /\ \/ word # "ZERO" /\ pc' = "reset" /\ UNCHANGED rproc
       \/ word = "ZERO" /\ pc' = "load" /\ rproc' = "READY"
    /\ UNCHANGED <<table, rdev, rbuf, services, word, remote, history>>

get_cpu_status_NoReset ==
    /\ pc = "read"
    /\ \/ word = "ON" /\ pc' = "restore" /\ UNCHANGED rproc
       \/ word # "ON" /\ pc' = "load" /\ rproc' = "READY"
    /\ UNCHANGED <<table, rdev, rbuf, services, word, remote, history>>

(***************************************************************************)
(* rproc_config() reads the status word.  Anything but CPU_ON means there  *)
(* is nothing to restore: config succeeds and the image will be loaded.    *)
(***************************************************************************)
get_cpu_status ==
    /\ pc = "read"
    /\ \/ word = "ON" /\ pc' = "reset" /\ UNCHANGED rproc
       \/ word # "ON" /\ pc' = "load" /\ rproc' = "READY"
    /\ UNCHANGED <<table, rdev, rbuf, services, word, remote, history>>

(***************************************************************************)
(* Ask the remote to set up its vdev again, then interrupt it.             *)
(***************************************************************************)
SetReset ==
    /\ pc = "reset"
    /\ word' = "RESET"
    /\ pc' = "kick"
    /\ UNCHANGED <<rproc, table, rdev, rbuf, services, remote, history>>

NotifyReset ==
    /\ pc = "kick"
    /\ ipi' = TRUE
    /\ pc' = "wait"
    /\ UNCHANGED <<rproc, table, rdev, rbuf, services, word, cpu, os, fresh,
                   history>>

(***************************************************************************)
(* wait_cpu_status_reset(): the remote cleared the word in time.           *)
(***************************************************************************)
WaitAnswered ==
    /\ pc = "wait" /\ word = "ZERO"
    /\ pc' = "restore"
    /\ UNCHANGED <<rproc, table, rdev, rbuf, services, word, remote, history>>

(* A variant of WaitTimesOut: wait for as long as the remote takes. *)
WaitTimesOut_Never ==
    /\ FALSE
    /\ UNCHANGED vars

(***************************************************************************)
(* wait_cpu_status_reset(): 200 ms have passed.  The host takes the remote *)
(* for dead; config still returns 0.                                       *)
(***************************************************************************)
WaitTimesOut ==
    /\ pc = "wait" /\ word # "ZERO"
    /\ pc' = "load"
    /\ rproc' = "READY"
    /\ excuse' = IF os \in Running THEN excuse \union {"late"} ELSE excuse
    /\ UNCHANGED <<table, rdev, rbuf, services, word, remote, damaged>>

(***************************************************************************)
(* The remote is alive: take its resource table over and put CPU_ON back,  *)
(* which makes rproc_start() skip the boot.                                *)
(***************************************************************************)
Restore ==
    /\ pc = "restore"
    /\ table' = TRUE
    /\ rproc' = "READY"
    /\ word' = "ON"
    /\ pc' = "start"
    /\ UNCHANGED <<rdev, rbuf, services, remote, history>>

(***************************************************************************)
(* Writing the image over the memory the remote runs from.                 *)
(***************************************************************************)
Overwrite ==
    /\ damaged' = (damaged \/ os \in Running)
    /\ os' \in IF os \in Running THEN {os, "hung"} ELSE {os}
    /\ UNCHANGED <<cpu, ipi, fresh, excuse>>

(***************************************************************************)
(* remoteproc_load(): the image and its resource table, whose status word  *)
(* is zero, are written to the remote's memory.                            *)
(***************************************************************************)
remoteproc_load ==
    /\ pc = "load"
    /\ Overwrite
    /\ word' = "ZERO"
    /\ table' = TRUE
    /\ pc' = "start"
    /\ UNCHANGED <<rproc, rdev, rbuf, services>>

(***************************************************************************)
(* remoteproc_load() fails, before or after it wrote to memory, with or    *)
(* without a resource table: mica_start() returns.                         *)
(***************************************************************************)
LoadFails ==
    /\ pc = "load"
    /\ \/ Overwrite /\ word' \in {word, "ZERO"}
       \/ UNCHANGED <<word, remote, history>>
    /\ table' \in BOOLEAN
    /\ pc' = "idle"
    /\ UNCHANGED <<rproc, rdev, rbuf, services>>

(***************************************************************************)
(* rproc_start(): skipped for a restored remote; otherwise IOC_CPUON,      *)
(* which PSCI refuses for a core that is on.  In the refused case the      *)
(* library may or may not have moved the client on to RUNNING.             *)
(***************************************************************************)
rproc_start ==
    /\ pc = "start"
    /\ \/ /\ word = "ON"
          /\ rproc' = "RUNNING"
          /\ pc' = "devices"
          /\ UNCHANGED <<remote, history>>
       \/ /\ word # "ON" /\ cpu = "off"
          /\ cpu' = "on" /\ os' = "boot"
          /\ damaged' = FALSE /\ excuse' = {}
          /\ pc' = "booted"
          /\ UNCHANGED <<rproc, ipi, fresh>>
       \/ /\ word # "ON" /\ cpu = "on"
          /\ rproc' \in {"READY", "RUNNING"}
          /\ pc' = "idle"
          /\ UNCHANGED <<remote, history>>
    /\ UNCHANGED <<table, rdev, rbuf, services, word>>

(***************************************************************************)
(* rproc_start() records the boot; the remote may be running by now.       *)
(***************************************************************************)
RecordBoot ==
    /\ pc = "booted"
    /\ word' = "ON"
    /\ rproc' = "RUNNING"
    /\ pc' = "devices"
    /\ UNCHANGED <<table, rdev, rbuf, services, remote, history>>

(* A variant of CreateDevices: no failure is reported. *)
CreateDevices_Unchecked ==
    /\ pc = "devices"
    /\ rdev' \in BOOLEAN
    /\ rbuf' \in IF debug THEN {"live", "dangling", rbuf} ELSE {rbuf}
    /\ pc' = "services"
    /\ UNCHANGED <<rproc, table, services, word, remote, history>>

(***************************************************************************)
(* create_rpmsg_device(), whose failure is only logged, and for debug      *)
(* clients create_rbuf_device(), whose result replaces the former's.  The  *)
(* failing create_rbuf_device() leaves a pointer to freed memory.          *)
(***************************************************************************)
CreateDevices ==
    /\ pc = "devices"
    /\ rdev' \in BOOLEAN
    /\ rbuf' \in IF debug THEN {"live", "dangling", rbuf} ELSE {rbuf}
    /\ pc' = IF (IF debug THEN rbuf' = "live" ELSE rdev')
             THEN "services" ELSE "idle"
    /\ UNCHANGED <<rproc, table, services, word, remote, history>>

(***************************************************************************)
(* The services are registered one after the other until one fails.        *)
(***************************************************************************)
RegisterServices ==
    /\ pc = "services"
    /\ services' \in IF debug
                     THEN {{}, {"debug"}, {"debug", "tty"},
                           {"debug", "tty", "rpc"}, Service}
                     ELSE {{}, {"tty"}, {"tty", "rpc"}, Service \ {"debug"}}
    /\ pc' = "idle"
    /\ UNCHANGED <<rproc, table, rdev, rbuf, word, remote, history>>

-----------------------------------------------------------------------------
(***************************************************************************)
(* Everything micad keeps in its own memory is gone.                       *)
(***************************************************************************)
LoseHost ==
    /\ rproc' = "NONE" /\ pc' = "idle" /\ table' = FALSE /\ rdev' = FALSE
    /\ rbuf' = "null" /\ services' = {}
    /\ fresh' = FALSE

(***************************************************************************)
(* rproc_shutdown() tells the remote to power itself off ...               *)
(***************************************************************************)
SetOff ==
    /\ table
    /\ word' = "OFF"
    /\ excuse' = IF os \in Running THEN excuse \union {"told_off"} ELSE excuse
    /\ UNCHANGED <<rproc, table, remote, damaged>>

(***************************************************************************)
(* mica_stop(): remove the services and the devices, then shut down.       *)
(* remoteproc_shutdown() does nothing for an OFFLINE client.               *)
(***************************************************************************)
mica_stop ==
    /\ services' = {}
    /\ rdev' = FALSE
    /\ rbuf' = IF debug /\ rbuf # "null" THEN "dangling" ELSE rbuf
    /\ \/ rproc # "OFFLINE" /\ SetOff /\ pc' = "stopping"
       \/ rproc = "OFFLINE"
          /\ UNCHANGED <<rproc, pc, table, word, remote, history>>

(***************************************************************************)
(* The command stop.                                                       *)
(***************************************************************************)
Stop ==
    /\ pc = "idle" /\ rproc # "NONE"
    /\ mica_stop

(***************************************************************************)
(* The command status: show_client_status() notices that the remote        *)
(* switched itself off and stops the client.                               *)
(***************************************************************************)
show_client_status ==
    /\ pc = "idle" /\ rproc = "RUNNING"
    /\ word = "OFF"
    /\ mica_stop

(***************************************************************************)
(* The command rm: mica_remove() stops the client if need be, then the     *)
(* listener frees it.                                                      *)
(***************************************************************************)
mica_remove ==
    /\ pc = "idle" /\ rproc # "NONE"
    /\ rdev' = FALSE /\ rbuf' = "null" /\ services' = {}
    /\ \/ rproc # "OFFLINE" /\ SetOff /\ pc' = "removing"
       \/ rproc = "OFFLINE" /\ rproc' = "NONE"
          /\ UNCHANGED <<pc, table, word, remote, history>>

(* Variant of FinishShutdown: the client stays as it was. *)
FinishShutdown_KeepState ==
    /\ pc \in {"stopping", "removing"}
    /\ ipi' = TRUE
    /\ table' = FALSE
    /\ fresh' = FALSE
    /\ pc' = "idle"
    /\ UNCHANGED <<rproc, rdev, rbuf, services, word, cpu, os, history>>

(***************************************************************************)
(* ... then interrupts it, and forgets it without waiting.                 *)
(***************************************************************************)
FinishShutdown ==
    /\ pc \in {"stopping", "removing"}
    /\ ipi' = TRUE
    /\ table' = FALSE
    /\ fresh' = FALSE
    /\ rproc' = IF pc = "stopping" THEN "OFFLINE" ELSE "NONE"
    /\ pc' = "idle"
    /\ UNCHANGED <<rdev, rbuf, services, word, cpu, os, history>>

(***************************************************************************)
(* mica_stop() runs into undefined behaviour, and micad dies of it: the    *)
(* ring buffer device is freed twice, or the status word is written        *)
(* through a resource table pointer that is NULL.                          *)
(***************************************************************************)
StopFaults ==
    /\ pc = "idle" /\ rproc # "NONE"
    /\ \/ debug /\ rbuf = "dangling"
       \/ rproc # "OFFLINE" /\ ~table
    /\ LoseHost
    /\ UNCHANGED <<word, cpu, os, ipi, history>>

(***************************************************************************)
(* micad dies, or is stopped: it leaves its clients alone.  The places     *)
(* where that cuts an exchange with the remote in two are remembered.      *)
(***************************************************************************)
Crash ==
    /\ rproc # "NONE"
    /\ LoseHost
    /\ excuse' = excuse \union
                 IF os \notin Running THEN {}
                 ELSE IF pc \in {"kick", "wait", "restore"} THEN {"torn"}
                 ELSE IF pc = "booted" THEN {"unrecorded"} ELSE {}
    /\ UNCHANGED <<word, cpu, os, ipi, damaged>>

-----------------------------------------------------------------------------
(***************************************************************************)
(* The remote.  It comes up and sets up its vdev.                          *)
(***************************************************************************)
RemoteBoots ==
    /\ os = "boot"
    /\ os' = "up"
    /\ fresh' = TRUE
    /\ UNCHANGED <<host, word, cpu, ipi, history>>

(***************************************************************************)
(* It takes the interrupt and looks at the status word.                    *)
(***************************************************************************)
RemoteHandlesIpi ==
    /\ os = "up" /\ ipi
    /\ ipi' = FALSE
    /\ \/ word = "RESET" /\ word' = "ZERO" /\ fresh' = TRUE /\ UNCHANGED os
       \/ word = "OFF" /\ os' = "leaving" /\ UNCHANGED <<word, fresh>>
       \/ word \notin {"RESET", "OFF"} /\ UNCHANGED <<word, fresh, os>>
    /\ UNCHANGED <<host, cpu, history>>

(***************************************************************************)
(* It shuts down of its own accord and says so in the status word.         *)
(***************************************************************************)
RemoteLeaves ==
    /\ os = "up"
    /\ word' = "OFF"
    /\ os' = "leaving"
    /\ UNCHANGED <<host, cpu, ipi, fresh, history>>

RemotePowersOff ==
    /\ os = "leaving"
    /\ cpu' = "off"
    /\ os' = "none"
    /\ UNCHANGED <<host, word, ipi, fresh, history>>

(***************************************************************************)
(* It stops responding, with the core left on.                             *)
(***************************************************************************)
RemoteHangs ==
    /\ os \in Running
    /\ os' = "hung"
    /\ UNCHANGED <<host, word, cpu, ipi, fresh, history>>

-----------------------------------------------------------------------------
CommandStep ==
    \/ ConfigFails \/ get_cpu_status \/ SetReset \/ NotifyReset
    \/ WaitAnswered \/ WaitTimesOut \/ Restore \/ remoteproc_load \/ LoadFails
    \/ rproc_start \/ RecordBoot \/ CreateDevices \/ RegisterServices
    \/ FinishShutdown

Command ==
    \/ load_client_image \/ Stop \/ StopFaults
    \/ show_client_status \/ mica_remove \/ Crash

Remote ==
    \/ RemoteBoots \/ RemoteHandlesIpi \/ RemoteLeaves \/ RemotePowersOff
    \/ RemoteHangs

HostStep == CommandStep /\ UNCHANGED debug

Next ==
    \/ mica_create
    \/ HostStep
    \/ Command /\ UNCHANGED debug
    \/ Remote

Spec == Init /\ [][Next]_vars

(***************************************************************************)
(* micad's thread goes on with a command it has begun, and the remote      *)
(* boots, takes its interrupts and powers off.  Nobody need give a         *)
(* command, crash, hang or leave.                                          *)
(***************************************************************************)
FairSpec ==
    /\ Spec
    /\ WF_vars(HostStep)
    /\ WF_vars(RemoteBoots)
    /\ WF_vars(RemoteHandlesIpi)
    /\ WF_vars(RemotePowersOff)

-----------------------------------------------------------------------------
(***************************************************************************)
(* Type invariant.                                                         *)
(***************************************************************************)
TypeOK ==
    /\ rproc \in {"NONE", "OFFLINE", "READY", "RUNNING"}
    /\ debug \in BOOLEAN
    /\ pc \in {"idle", "read", "reset", "kick", "wait", "restore", "load",
               "start", "booted", "devices", "services", "stopping",
               "removing"}
    /\ table \in BOOLEAN
    /\ rdev \in BOOLEAN
    /\ rbuf \in {"null", "live", "dangling"}
    /\ services \subseteq Service
    /\ word \in {"ZERO", "ON", "OFF", "RESET"}
    /\ cpu \in {"off", "on"}
    /\ os \in {"none", "boot", "up", "leaving", "hung"}
    /\ ipi \in BOOLEAN
    /\ fresh \in BOOLEAN
    /\ damaged \in BOOLEAN
    /\ excuse \subseteq {"late", "told_off", "failed", "unrecorded", "torn"}

(***************************************************************************)
(* show_client_status() and the notifier go through rsc_table of a RUNNING *)
(* client without looking (remoteproc_core.c:205-208), so it must be there *)
(* after every sequence of failed and repeated commands.                   *)
(***************************************************************************)
RunningHasTable == rproc = "RUNNING" => table

(***************************************************************************)
(* When the host runs a client whose remote is up and undamaged, the       *)
(* remote has set up its vdev since the host last lost or dropped its own: *)
(* by booting, or by answering SYSTEM_RESET (baremetal_rproc.c:305-335).   *)
(***************************************************************************)
RemoteIsFresh ==
    rproc = "RUNNING" /\ os = "up" /\ ~damaged => fresh

(***************************************************************************)
(* A running remote is written over only if it was told to power off and   *)
(* has not yet done so, if it took more than 200 ms to answer              *)
(* SYSTEM_RESET, or if micad died, or failed to take the resource table    *)
(* over, while the status word was neither here nor there.  In every other *)
(* sequence of crashes, restarts and commands it survives                  *)
(* (baremetal_rproc.c:301-335).                                            *)
(***************************************************************************)
SparesTheLiving == damaged => excuse # {}

(***************************************************************************)
(* Services are registered only on top of an rpmsg device: for a client    *)
(* without debug, the result of create_rpmsg_device() decides whether      *)
(* client_ctrl_handler() goes on (mica.c:42-52).                           *)
(***************************************************************************)
ServicesHaveDevice == ~debug /\ services # {} => rdev

(***************************************************************************)
(* A client that is told to power off and interrupted does so, although    *)
(* mica_stop() does not wait for it: unless it hangs, or a start that      *)
(* comes too early writes over the request (baremetal_rproc.c:394-396).    *)
(***************************************************************************)
StopTakesEffect ==
    ("told_off" \in excuse /\ ipi /\ word = "OFF" /\ os \in Running)
        ~> (os \in {"none", "hung"} \/ damaged)

(***************************************************************************)
(* Every command comes to an end, whatever the remote does: a start does   *)
(* not wait for ever for a remote that is dead.                            *)
(***************************************************************************)
CommandsEnd == pc # "idle" ~> pc = "idle"

-----------------------------------------------------------------------------
(***************************************************************************)
(* The inductive invariant.  What holds at each place of a command:        *)
(***************************************************************************)
PlaceInv ==
    /\ pc \in {"read", "reset", "kick", "wait", "restore"} => rproc = "OFFLINE"
    /\ pc \in {"load", "start", "booted"} => rproc = "READY"
    /\ pc \in {"devices", "services"} => rproc = "RUNNING"
    /\ pc \in {"start", "booted", "devices", "services", "stopping", "removing"}
          => table
    /\ services # {} => pc = "idle" /\ rproc = "RUNNING"
    /\ pc = "services" /\ ~debug => rdev

(***************************************************************************)
(* the status word of a remote that runs and was never put at risk says    *)
(* so, except in the middle of the handshake and right after the boot;     *)
(***************************************************************************)
WordInv ==
    os \in Running /\ excuse = {} =>
        \/ word = "ON" /\ pc \in {"idle", "read", "reset", "start", "devices",
                                  "services"}
        \/ word \in {"RESET", "ZERO"} /\ pc \in {"kick", "wait"}
        \/ word = "ZERO" /\ pc = "restore"
        \/ pc = "booted"

(***************************************************************************)
(* and a remote whose vdev is older than the host's is not yet in use.     *)
(***************************************************************************)
FreshInv ==
    os = "up" /\ ~damaged /\ ~fresh =>
        /\ rproc # "RUNNING"
        /\ pc \notin {"restore", "start", "booted", "devices", "services"}
        /\ word = "ZERO" => pc \notin {"kick", "wait"}

IInv ==
    /\ TypeOK
    /\ RunningHasTable
    /\ ServicesHaveDevice
    /\ SparesTheLiving
    /\ PlaceInv
    /\ WordInv
    /\ FreshInv

=============================================================================
