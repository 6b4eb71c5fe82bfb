---------------------------- MODULE ClientProofs ----------------------------
(***************************************************************************)
(* Proofs about a client's two sides: ClientLifecycle, for clients with    *)
(* and without debug, and Notifier, for any sets of clients and threads    *)
(* and any number of file descriptors.                                     *)
(***************************************************************************)
EXTENDS ClientLifecycle, Notifier, TLAPS

USE ZenonT(10), SMT, SMTT(30)

(* The steps of micad's commands keep the inductive invariant. *)
LEMMA HostStepKeeps == IInv /\ HostStep => IInv'
<1> SUFFICES ASSUME IInv, CommandStep, UNCHANGED debug PROVE IInv'
    BY DEF HostStep
<1> USE DEF IInv, vars, host, remote, history, Running, Service
<1>1. CASE ConfigFails
  <2>1. TypeOK' BY <1>1, SMT, SMTT(30) DEF TypeOK, ConfigFails
  <2>2. RunningHasTable' /\ ServicesHaveDevice' /\ PlaceInv'
    BY <1>1 DEF TypeOK, RunningHasTable, ServicesHaveDevice, PlaceInv,
        ConfigFails
  <2>3. SparesTheLiving' /\ WordInv'
    BY <1>1 DEF TypeOK, SparesTheLiving, PlaceInv, WordInv, ConfigFails
  <2>4. FreshInv'
    BY <1>1 DEF TypeOK, PlaceInv, FreshInv, ConfigFails
  <2> QED BY <2>1, <2>2, <2>3, <2>4
<1>2. CASE get_cpu_status
  <2>1. TypeOK' BY <1>2, SMT, SMTT(30) DEF TypeOK, get_cpu_status
  <2>2. RunningHasTable' /\ ServicesHaveDevice' /\ PlaceInv'
    BY <1>2 DEF TypeOK, RunningHasTable, ServicesHaveDevice, PlaceInv,
        get_cpu_status
  <2>3. SparesTheLiving' /\ WordInv'
    BY <1>2 DEF TypeOK, SparesTheLiving, PlaceInv, WordInv, get_cpu_status
  <2>4. FreshInv'
    BY <1>2 DEF TypeOK, PlaceInv, FreshInv, get_cpu_status
  <2> QED BY <2>1, <2>2, <2>3, <2>4
<1>3. CASE SetReset
  <2>1. TypeOK' BY <1>3, SMT, SMTT(30) DEF TypeOK, SetReset
  <2>2. RunningHasTable' /\ ServicesHaveDevice' /\ PlaceInv'
    BY <1>3 DEF TypeOK, RunningHasTable, ServicesHaveDevice, PlaceInv,
        SetReset
  <2>3. SparesTheLiving' /\ WordInv'
    BY <1>3 DEF TypeOK, SparesTheLiving, PlaceInv, WordInv, SetReset
  <2>4. FreshInv'
    BY <1>3 DEF TypeOK, PlaceInv, FreshInv, SetReset
  <2> QED BY <2>1, <2>2, <2>3, <2>4
<1>4. CASE NotifyReset
  <2>1. TypeOK' BY <1>4, SMT, SMTT(30) DEF TypeOK, NotifyReset
  <2>2. RunningHasTable' /\ ServicesHaveDevice' /\ PlaceInv'
    BY <1>4 DEF TypeOK, RunningHasTable, ServicesHaveDevice, PlaceInv,
        NotifyReset
  <2>3. SparesTheLiving' /\ WordInv'
    BY <1>4 DEF TypeOK, SparesTheLiving, PlaceInv, WordInv, NotifyReset
  <2>4. FreshInv'
    BY <1>4 DEF TypeOK, PlaceInv, FreshInv, NotifyReset
  <2> QED BY <2>1, <2>2, <2>3, <2>4
<1>5. CASE WaitAnswered
  <2>1. TypeOK' BY <1>5, SMT, SMTT(30) DEF TypeOK, WaitAnswered
  <2>2. RunningHasTable' /\ ServicesHaveDevice' /\ PlaceInv'
    BY <1>5 DEF TypeOK, RunningHasTable, ServicesHaveDevice, PlaceInv,
        WaitAnswered
  <2>3. SparesTheLiving' /\ WordInv'
    BY <1>5 DEF TypeOK, SparesTheLiving, PlaceInv, WordInv, WaitAnswered
  <2>4. FreshInv'
    BY <1>5 DEF TypeOK, PlaceInv, FreshInv, WaitAnswered
  <2> QED BY <2>1, <2>2, <2>3, <2>4
<1>6. CASE WaitTimesOut
  <2>1. TypeOK' BY <1>6, SMT, SMTT(30) DEF TypeOK, WaitTimesOut
  <2>2. RunningHasTable' /\ ServicesHaveDevice' /\ PlaceInv'
    BY <1>6 DEF TypeOK, RunningHasTable, ServicesHaveDevice, PlaceInv,
        WaitTimesOut
  <2>3. SparesTheLiving' /\ WordInv'
    BY <1>6 DEF TypeOK, SparesTheLiving, PlaceInv, WordInv, WaitTimesOut
  <2>4. FreshInv'
    BY <1>6 DEF TypeOK, PlaceInv, FreshInv, WaitTimesOut
  <2> QED BY <2>1, <2>2, <2>3, <2>4
<1>7. CASE Restore
  <2>1. TypeOK' BY <1>7 DEF TypeOK, Restore
  <2>2. RunningHasTable' /\ ServicesHaveDevice' /\ PlaceInv'
    BY <1>7 DEF TypeOK, RunningHasTable, ServicesHaveDevice, PlaceInv,
        Restore
  <2>3. SparesTheLiving' /\ WordInv'
    BY <1>7 DEF TypeOK, SparesTheLiving, PlaceInv, WordInv, Restore
  <2>4. FreshInv'
    BY <1>7 DEF TypeOK, PlaceInv, FreshInv, Restore
  <2> QED BY <2>1, <2>2, <2>3, <2>4
<1>8. CASE remoteproc_load
  <2>1. TypeOK' BY <1>8, SMT, SMTT(30) DEF TypeOK, remoteproc_load, Overwrite
  <2>2. RunningHasTable' /\ ServicesHaveDevice' /\ PlaceInv'
    BY <1>8 DEF TypeOK, RunningHasTable, ServicesHaveDevice, PlaceInv,
        remoteproc_load, Overwrite
  <2>3. SparesTheLiving' /\ WordInv'
    BY <1>8 DEF TypeOK, SparesTheLiving, PlaceInv, WordInv, remoteproc_load, Overwrite
  <2>4. FreshInv'
    BY <1>8, Zenon DEF TypeOK, PlaceInv, FreshInv, remoteproc_load, Overwrite
  <2> QED BY <2>1, <2>2, <2>3, <2>4
<1>9. CASE LoadFails
  <2>1. TypeOK'
    <3>1. CASE Overwrite /\ word' \in {word, "ZERO"}
      BY <1>9, <3>1, SMT, SMTT(30) DEF TypeOK, LoadFails, Overwrite
    <3>2. CASE UNCHANGED <<word, remote, history>>
      BY <1>9, <3>2, SMT, SMTT(30) DEF TypeOK, LoadFails
    <3> QED BY <1>9, <3>1, <3>2 DEF LoadFails
  <2>2. RunningHasTable' /\ ServicesHaveDevice' /\ PlaceInv'
    BY <1>9 DEF TypeOK, RunningHasTable, ServicesHaveDevice, PlaceInv,
        LoadFails, Overwrite
  <2>3. SparesTheLiving' /\ WordInv'
    BY <1>9, SMT, SMTT(30) DEF TypeOK, SparesTheLiving, PlaceInv, WordInv, LoadFails, Overwrite
  <2>4. FreshInv'
    BY <1>9 DEF TypeOK, PlaceInv, FreshInv, LoadFails, Overwrite
  <2> QED BY <2>1, <2>2, <2>3, <2>4
<1>10. CASE rproc_start
  <2>1. TypeOK'
    <3>1. cpu' \in {"off", "on"} /\ os' \in {"none", "boot", "up", "leaving", "hung"}
      BY <1>10 DEF TypeOK, rproc_start
    <3>2. rproc' \in {"NONE", "OFFLINE", "READY", "RUNNING"}
      BY <1>10 DEF TypeOK, rproc_start
    <3>3. pc' \in {"idle", "booted", "devices"}
      BY <1>10 DEF rproc_start
    <3>4. damaged' \in BOOLEAN 
          /\ excuse' \subseteq {"late", "told_off", "failed", "unrecorded", "torn"}
      BY <1>10, Zenon DEF TypeOK, rproc_start
    <3>5. UNCHANGED <<table, rdev, rbuf, services, word, ipi, fresh>>
      BY <1>10 DEF rproc_start
    <3> QED BY <3>1, <3>2, <3>3, <3>4, <3>5, SMT, SMTT(30) DEF TypeOK
  <2>2. RunningHasTable' /\ ServicesHaveDevice' /\ PlaceInv'
    BY <1>10 DEF TypeOK, RunningHasTable, ServicesHaveDevice, PlaceInv,
        rproc_start
  <2>3. SparesTheLiving' /\ WordInv'
    BY <1>10, SMT, SMTT(30) DEF TypeOK, SparesTheLiving, PlaceInv, WordInv, rproc_start
  <2>4. FreshInv'
    BY <1>10 DEF TypeOK, PlaceInv, FreshInv, rproc_start
  <2> QED BY <2>1, <2>2, <2>3, <2>4
<1>11. CASE RecordBoot
  <2>1. TypeOK' BY <1>11, SMT, SMTT(30) DEF TypeOK, RecordBoot
  <2>2. RunningHasTable' /\ ServicesHaveDevice' /\ PlaceInv'
    BY <1>11 DEF TypeOK, RunningHasTable, ServicesHaveDevice, PlaceInv,
        RecordBoot
  <2>3. SparesTheLiving' /\ WordInv'
    BY <1>11 DEF TypeOK, SparesTheLiving, PlaceInv, WordInv, RecordBoot
  <2>4. FreshInv'
    BY <1>11 DEF TypeOK, PlaceInv, FreshInv, RecordBoot
  <2> QED BY <2>1, <2>2, <2>3, <2>4
<1>12. CASE CreateDevices
  <2>1. TypeOK' BY <1>12, SMT, SMTT(30) DEF TypeOK, CreateDevices
  <2>2. RunningHasTable' /\ ServicesHaveDevice' /\ PlaceInv'
    BY <1>12 DEF TypeOK, RunningHasTable, ServicesHaveDevice, PlaceInv,
        CreateDevices
  <2>3. SparesTheLiving' /\ WordInv'
    BY <1>12 DEF TypeOK, SparesTheLiving, PlaceInv, WordInv, CreateDevices
  <2>4. FreshInv'
    BY <1>12 DEF TypeOK, PlaceInv, FreshInv, CreateDevices
  <2> QED BY <2>1, <2>2, <2>3, <2>4
<1>13. CASE RegisterServices
  <2>1. TypeOK' BY <1>13, SMT, SMTT(30) DEF TypeOK, RegisterServices
  <2>2. RunningHasTable' /\ ServicesHaveDevice' /\ PlaceInv'
    BY <1>13 DEF TypeOK, RunningHasTable, ServicesHaveDevice, PlaceInv,
        RegisterServices
  <2>3. SparesTheLiving' /\ WordInv'
    BY <1>13 DEF TypeOK, SparesTheLiving, PlaceInv, WordInv, RegisterServices
  <2>4. FreshInv'
    BY <1>13 DEF TypeOK, PlaceInv, FreshInv, RegisterServices
  <2> QED BY <2>1, <2>2, <2>3, <2>4
<1>14. CASE FinishShutdown
  <2>1. TypeOK' BY <1>14, ZenonT(60) DEF TypeOK, FinishShutdown
  <2>2. RunningHasTable' /\ ServicesHaveDevice' /\ PlaceInv'
    BY <1>14 DEF TypeOK, RunningHasTable, ServicesHaveDevice, PlaceInv,
        FinishShutdown
  <2>3. SparesTheLiving' /\ WordInv'
    BY <1>14 DEF TypeOK, SparesTheLiving, PlaceInv, WordInv, FinishShutdown
  <2>4. FreshInv'
    BY <1>14 DEF TypeOK, PlaceInv, FreshInv, FinishShutdown
  <2> QED BY <2>1, <2>2, <2>3, <2>4
<1> QED BY <1>1, <1>2, <1>3, <1>4, <1>5, <1>6, <1>7, <1>8, <1>9, <1>10, <1>11, <1>12, <1>13, <1>14 DEF CommandStep

(* The creation of a client keeps it. *)
LEMMA CreationKeeps == IInv /\ mica_create => IInv'
<1> SUFFICES ASSUME IInv, mica_create PROVE IInv'
    OBVIOUS
<1> USE DEF IInv, mica_create, remote, history, Running
<1>1. TypeOK' BY SMT, SMTT(30) DEF TypeOK
<1>2. RunningHasTable' /\ ServicesHaveDevice' /\ PlaceInv'
    BY DEF TypeOK, RunningHasTable, ServicesHaveDevice, PlaceInv
<1>3. SparesTheLiving' /\ WordInv'
    BY DEF TypeOK, SparesTheLiving, PlaceInv, WordInv
<1>4. FreshInv'
    BY DEF TypeOK, PlaceInv, FreshInv
<1> QED BY <1>1, <1>2, <1>3, <1>4

(* mica_stop() keeps the types. *)
LEMMA StopType == TypeOK /\ mica_stop /\ UNCHANGED debug => TypeOK'
<1> SUFFICES ASSUME TypeOK, mica_stop, UNCHANGED debug PROVE TypeOK'
    OBVIOUS
<1> USE DEF TypeOK, mica_stop, SetOff, remote, history
<1>1. debug' \in BOOLEAN /\ rdev' \in BOOLEAN /\ table' \in BOOLEAN
    BY Zenon
<1>2. ipi' \in BOOLEAN /\ fresh' \in BOOLEAN /\ damaged' \in BOOLEAN
    OBVIOUS
<1>3. /\ rproc' \in {"NONE", "OFFLINE", "READY", "RUNNING"}
      /\ cpu' \in {"off", "on"}
      /\ os' \in {"none", "boot", "up", "leaving", "hung"}
    OBVIOUS
<1>4. rbuf' \in {"null", "live", "dangling"} /\ services' \subseteq Service
    OBVIOUS
<1>5. word' \in {"ZERO", "ON", "OFF", "RESET"}
    OBVIOUS
<1>6. pc' \in {"idle", "read", "reset", "kick", "wait", "restore", "load",
               "start", "booted", "devices", "services", "stopping",
               "removing"}
    OBVIOUS
<1>7. excuse' \subseteq {"late", "told_off", "failed", "unrecorded", "torn"}
    BY Zenon
<1> HIDE DEF mica_stop, SetOff, remote, history
<1> QED BY <1>1, <1>2, <1>3, <1>4, <1>5, <1>6, <1>7

(* Commands as they arrive, faults and crashes keep it. *)
LEMMA CommandsKeep == IInv /\ Command /\ UNCHANGED debug => IInv'
<1> SUFFICES ASSUME IInv, Command, UNCHANGED debug PROVE IInv'
    OBVIOUS
<1> USE DEF IInv, vars, host, remote, history, Running, Service
<1>1. CASE load_client_image
  <2>1. TypeOK' BY <1>1, SMT, SMTT(30) DEF TypeOK, load_client_image
  <2>2. RunningHasTable' /\ ServicesHaveDevice' /\ PlaceInv'
    BY <1>1 DEF TypeOK, RunningHasTable, ServicesHaveDevice, PlaceInv,
        load_client_image
  <2>3. SparesTheLiving' /\ WordInv'
    BY <1>1 DEF TypeOK, SparesTheLiving, PlaceInv, WordInv, load_client_image
  <2>4. FreshInv'
    BY <1>1 DEF TypeOK, PlaceInv, FreshInv, load_client_image
  <2> QED BY <2>1, <2>2, <2>3, <2>4
<1>2. CASE Stop
  <2>1. TypeOK' BY <1>2, StopType DEF Stop
  <2>2. RunningHasTable' /\ ServicesHaveDevice' /\ PlaceInv'
    BY <1>2, SMT, SMTT(30) DEF TypeOK, RunningHasTable, ServicesHaveDevice, PlaceInv,
        Stop, mica_stop, SetOff
  <2>3. SparesTheLiving' /\ WordInv'
    BY <1>2, SMT, SMTT(30) DEF TypeOK, SparesTheLiving, PlaceInv, WordInv, Stop, mica_stop, SetOff
  <2>4. FreshInv'
    BY <1>2, SMT, SMTT(30) DEF TypeOK, PlaceInv, FreshInv, Stop, mica_stop, SetOff
  <2> QED BY <2>1, <2>2, <2>3, <2>4
<1>3. CASE StopFaults
  <2>1. TypeOK' BY <1>3, ZenonT(60) DEF TypeOK, StopFaults, LoseHost
  <2>2. RunningHasTable' /\ ServicesHaveDevice' /\ PlaceInv'
    BY <1>3 DEF TypeOK, RunningHasTable, ServicesHaveDevice, PlaceInv,
        StopFaults, LoseHost
  <2>3. SparesTheLiving' /\ WordInv'
    BY <1>3 DEF TypeOK, SparesTheLiving, PlaceInv, WordInv, StopFaults, LoseHost
  <2>4. FreshInv'
    BY <1>3 DEF TypeOK, PlaceInv, FreshInv, StopFaults, LoseHost
  <2> QED BY <2>1, <2>2, <2>3, <2>4
<1>4. CASE show_client_status
  <2>1. TypeOK' BY <1>4, StopType DEF show_client_status
  <2>2. RunningHasTable' /\ ServicesHaveDevice' /\ PlaceInv'
    BY <1>4 DEF TypeOK, RunningHasTable, ServicesHaveDevice, PlaceInv,
        show_client_status, mica_stop, SetOff
  <2>3. SparesTheLiving' /\ WordInv'
    BY <1>4, SMT, SMTT(30) DEF TypeOK, SparesTheLiving, PlaceInv, WordInv, show_client_status, mica_stop, SetOff
  <2>4. FreshInv'
    BY <1>4 DEF TypeOK, PlaceInv, FreshInv, show_client_status, mica_stop, SetOff
  <2> QED BY <2>1, <2>2, <2>3, <2>4
<1>5. CASE mica_remove
  <2>1. TypeOK'
    <3>1. CASE rproc # "OFFLINE" /\ SetOff /\ pc' = "removing"
      BY <1>5, <3>1, ZenonT(60) DEF TypeOK, mica_remove, SetOff
    <3>2. CASE /\ rproc = "OFFLINE" /\ rproc' = "NONE"
               /\ UNCHANGED <<pc, table, word, remote, history>>
      BY <1>5, <3>2, ZenonT(60) DEF TypeOK, mica_remove
    <3> QED BY <1>5, <3>1, <3>2 DEF mica_remove
  <2>2. RunningHasTable' /\ ServicesHaveDevice' /\ PlaceInv'
    BY <1>5, SMT, SMTT(30) DEF TypeOK, RunningHasTable, ServicesHaveDevice, PlaceInv,
        mica_remove, SetOff
  <2>3. SparesTheLiving' /\ WordInv'
    BY <1>5, SMT, SMTT(30) DEF TypeOK, SparesTheLiving, PlaceInv, WordInv, mica_remove, SetOff
  <2>4. FreshInv'
    BY <1>5, SMT, SMTT(30) DEF TypeOK, PlaceInv, FreshInv, mica_remove, SetOff
  <2> QED BY <2>1, <2>2, <2>3, <2>4
<1>6. CASE Crash
  <2>1. TypeOK' BY <1>6, ZenonT(60) DEF TypeOK, Crash, LoseHost
  <2>2. RunningHasTable' /\ ServicesHaveDevice' /\ PlaceInv'
    BY <1>6 DEF TypeOK, RunningHasTable, ServicesHaveDevice, PlaceInv,
        Crash, LoseHost
  <2>3. SparesTheLiving' /\ WordInv'
    BY <1>6 DEF TypeOK, SparesTheLiving, PlaceInv, WordInv, Crash, LoseHost
  <2>4. FreshInv'
    BY <1>6 DEF TypeOK, PlaceInv, FreshInv, Crash, LoseHost
  <2> QED BY <2>1, <2>2, <2>3, <2>4
<1> QED BY <1>1, <1>2, <1>3, <1>4, <1>5, <1>6 DEF Command

(* What the remote does keeps it. *)
LEMMA RemoteKeeps == IInv /\ Remote => IInv'
<1> SUFFICES ASSUME IInv, Remote PROVE IInv'
    OBVIOUS
<1> USE DEF IInv, vars, host, remote, history, Running, Service
<1>1. CASE RemoteBoots
  <2>1. TypeOK' BY <1>1, SMT, SMTT(30) DEF TypeOK, RemoteBoots
  <2>2. RunningHasTable' /\ ServicesHaveDevice' /\ PlaceInv'
    BY <1>1 DEF TypeOK, RunningHasTable, ServicesHaveDevice, PlaceInv,
        RemoteBoots
  <2>3. SparesTheLiving' /\ WordInv'
    BY <1>1 DEF TypeOK, SparesTheLiving, PlaceInv, WordInv, RemoteBoots
  <2>4. FreshInv'
    BY <1>1 DEF TypeOK, PlaceInv, FreshInv, RemoteBoots
  <2> QED BY <2>1, <2>2, <2>3, <2>4
<1>2. CASE RemoteHandlesIpi
  <2>1. TypeOK'
    <3>1. word' \in {"ZERO", "ON", "OFF", "RESET"}
      BY <1>2 DEF TypeOK, RemoteHandlesIpi
    <3>2. os' \in {"none", "boot", "up", "leaving", "hung"}
      BY <1>2 DEF TypeOK, RemoteHandlesIpi
    <3>3. ipi' = FALSE /\ fresh' \in BOOLEAN
      BY <1>2, Zenon DEF TypeOK, RemoteHandlesIpi
    <3>4. UNCHANGED <<rproc, pc, rbuf, services, cpu, excuse>>
      BY <1>2 DEF RemoteHandlesIpi
    <3>5. /\ debug' \in BOOLEAN /\ table' \in BOOLEAN /\ rdev' \in BOOLEAN
          /\ damaged' \in BOOLEAN
      BY <1>2 DEF TypeOK, RemoteHandlesIpi
    <3> QED BY <3>1, <3>2, <3>3, <3>4, <3>5, ZenonT(60) DEF TypeOK
  <2>2. RunningHasTable' /\ ServicesHaveDevice' /\ PlaceInv'
    BY <1>2 DEF TypeOK, RunningHasTable, ServicesHaveDevice, PlaceInv,
        RemoteHandlesIpi
  <2>3. SparesTheLiving' /\ WordInv'
    BY <1>2 DEF TypeOK, SparesTheLiving, PlaceInv, WordInv, RemoteHandlesIpi
  <2>4. FreshInv'
    BY <1>2, SMT, SMTT(30) DEF TypeOK, PlaceInv, FreshInv, RemoteHandlesIpi
  <2> QED BY <2>1, <2>2, <2>3, <2>4
<1>3. CASE RemoteLeaves
  <2>1. TypeOK' BY <1>3, SMT, SMTT(30) DEF TypeOK, RemoteLeaves
  <2>2. RunningHasTable' /\ ServicesHaveDevice' /\ PlaceInv'
    BY <1>3 DEF TypeOK, RunningHasTable, ServicesHaveDevice, PlaceInv,
        RemoteLeaves
  <2>3. SparesTheLiving' /\ WordInv'
    BY <1>3 DEF TypeOK, SparesTheLiving, PlaceInv, WordInv, RemoteLeaves
  <2>4. FreshInv'
    BY <1>3 DEF TypeOK, PlaceInv, FreshInv, RemoteLeaves
  <2> QED BY <2>1, <2>2, <2>3, <2>4
<1>4. CASE RemotePowersOff
  <2>1. TypeOK' BY <1>4, SMT, SMTT(30) DEF TypeOK, RemotePowersOff
  <2>2. RunningHasTable' /\ ServicesHaveDevice' /\ PlaceInv'
    BY <1>4 DEF TypeOK, RunningHasTable, ServicesHaveDevice, PlaceInv,
        RemotePowersOff
  <2>3. SparesTheLiving' /\ WordInv'
    BY <1>4 DEF TypeOK, SparesTheLiving, PlaceInv, WordInv, RemotePowersOff
  <2>4. FreshInv'
    BY <1>4 DEF TypeOK, PlaceInv, FreshInv, RemotePowersOff
  <2> QED BY <2>1, <2>2, <2>3, <2>4
<1>5. CASE RemoteHangs
  <2>1. TypeOK' BY <1>5, SMT, SMTT(30) DEF TypeOK, RemoteHangs
  <2>2. RunningHasTable' /\ ServicesHaveDevice' /\ PlaceInv'
    BY <1>5 DEF TypeOK, RunningHasTable, ServicesHaveDevice, PlaceInv,
        RemoteHangs
  <2>3. SparesTheLiving' /\ WordInv'
    BY <1>5 DEF TypeOK, SparesTheLiving, PlaceInv, WordInv, RemoteHangs
  <2>4. FreshInv'
    BY <1>5 DEF TypeOK, PlaceInv, FreshInv, RemoteHangs
  <2> QED BY <2>1, <2>2, <2>3, <2>4
<1> QED BY <1>1, <1>2, <1>3, <1>4, <1>5 DEF Remote

(***************************************************************************)
(* The invariant from which the properties below follow: micad's place in  *)
(* a command determines what the status word can be for a remote that runs *)
(* (rproc_config(), rproc_start(), rproc_shutdown()).                      *)
(***************************************************************************)
THEOREM Invariance == Spec => []IInv
<1>1. Init => IInv
    BY Zenon DEF Init, IInv, TypeOK, RunningHasTable,
        ServicesHaveDevice, SparesTheLiving,
        PlaceInv, WordInv, FreshInv, Running, Service
<1>2. IInv /\ [Next]_vars => IInv'
  <2> SUFFICES ASSUME IInv, [Next]_vars PROVE IInv'
    OBVIOUS
  <2>1. CASE Next
    BY <2>1, CreationKeeps, HostStepKeeps, CommandsKeep, RemoteKeeps DEF Next
  <2>2. CASE UNCHANGED vars
    BY <2>2, SMT, SMTT(30) DEF IInv, TypeOK, RunningHasTable,
        ServicesHaveDevice, SparesTheLiving, PlaceInv,
        WordInv, FreshInv, vars, host, remote, history
  <2> QED BY <2>1, <2>2
<1> QED BY <1>1, <1>2, PTL DEF Spec

(* Every variable keeps its type. *)
THEOREM TypeCorrect == Spec => []TypeOK
<1>1. IInv => TypeOK BY DEF IInv
<1> QED BY <1>1, Invariance, PTL

(* A RUNNING client has a resource table for show_client_status() to read. *)
THEOREM RunningHasItsTable == Spec => []RunningHasTable
<1>1. IInv => RunningHasTable BY DEF IInv
<1> QED BY <1>1, Invariance, PTL

(* Without debug, services stand on an rpmsg device: mica_start()'s result. *)
THEOREM ServicesStandOnDevice == Spec => []ServicesHaveDevice
<1>1. IInv => ServicesHaveDevice BY DEF IInv
<1> QED BY <1>1, Invariance, PTL

(***************************************************************************)
(* load_client_image() writes over a running remote only in the cases      *)
(* SparesTheLiving lists.                                                  *)
(***************************************************************************)
THEOREM LivingAreSpared == Spec => []SparesTheLiving
<1>1. IInv => SparesTheLiving BY DEF IInv
<1> QED BY <1>1, Invariance, PTL

(***************************************************************************)
(* A RUNNING client never talks to a remote that still uses the vdev of an *)
(* earlier micad or of an earlier start.                                   *)
(***************************************************************************)
THEOREM RemoteStaysFresh == Spec => []RemoteIsFresh
<1>1. IInv => RemoteIsFresh
    BY DEF IInv, TypeOK, FreshInv, RemoteIsFresh
<1> QED BY <1>1, Invariance, PTL

(***************************************************************************)
(* The notifier.                                                           *)
(***************************************************************************)
(* A client's node is taken off the list, and the others stay. *)
LEMMA UnlinkedIs ==
    ASSUME NEW list \in Seq(Client), IsInjective(list), NEW c \in Range(list)
    PROVE  /\ Unlinked(list, c) \in Seq(Client)
           /\ IsInjective(Unlinked(list, c))
           /\ Range(Unlinked(list, c)) = Range(list) \ {c}
<1> DEFINE n == Len(list)
           i == CHOOSE j \in DOMAIN list : list[j] = c
           L == SubSeq(list, 1, i - 1)
           R == SubSeq(list, i + 1, n)
           u == L \o R
<1>1. n \in Nat /\ DOMAIN list = 1 .. n
  BY SMT, SMTT(30)
<1>2. i \in 1 .. n /\ list[i] = c
  <2>1. \E j \in DOMAIN list : list[j] = c
    BY DEF Range
  <2> QED BY <1>1, <2>1
<1> HIDE DEF i
<1>3. L \in Seq(Client) /\ Len(L) = i - 1 /\ \A k \in 1 .. i - 1 : L[k] = list[k]
  <2>1. L \in Seq(Client) /\ Len(L) = i - 1
    BY <1>1, <1>2, SMT, SMTT(30)
  <2> QED BY <1>1, <1>2, <2>1, SMT, SMTT(30)
<1>4. R \in Seq(Client) /\ Len(R) = n - i /\ \A k \in 1 .. n - i : R[k] = list[i + k]
  <2> DEFINE m == i + 1
  <2>1. m \in 1 .. n + 1 /\ n - m + 1 = n - i /\ \A k \in 1 .. n - i : m + k - 1 = i + k
    BY <1>1, <1>2, SMT, SMTT(30)
  <2>2. R = SubSeq(list, m, n)
    OBVIOUS
  <2> HIDE DEF m
  <2>3. SubSeq(list, m, n) \in Seq(Client) /\ Len(SubSeq(list, m, n)) = n - m + 1
    BY <1>1, <2>1, SMT, SMTT(30)
  <2>4. \A k \in 1 .. n - m + 1 : SubSeq(list, m, n)[k] = list[m + k - 1]
    BY <1>1, <2>1, <2>3, SMT, SMTT(30)
  <2> QED BY <2>1, <2>2, <2>3, <2>4, Zenon
<1> HIDE DEF L, R
<1>5. u \in Seq(Client) /\ Len(u) = n - 1 /\ DOMAIN u = 1 .. n - 1
  <2>1. u \in Seq(Client) /\ Len(u) = Len(L) + Len(R)
    BY <1>3, <1>4, SMT, SMTT(30)
  <2>2. Len(L) + Len(R) = n - 1
    BY <1>1, <1>2, <1>3, <1>4, SMT, SMTT(30)
  <2> HIDE DEF u
  <2> QED BY <2>1, <2>2, SMT, SMTT(30)
<1>6. \A k \in 1 .. n - 1 : u[k] = IF k < i THEN list[k] ELSE list[k + 1]
  <2> SUFFICES ASSUME NEW k \in 1 .. n - 1
               PROVE  u[k] = IF k < i THEN list[k] ELSE list[k + 1]
    BY Zenon
  <2>1. CASE k < i
    BY <1>1, <1>2, <1>3, <1>4, <2>1, SMT, SMTT(30)
  <2>2. CASE ~(k < i)
    <3>1. k - (i - 1) \in 1 .. n - i /\ i + (k - (i - 1)) = k + 1
      BY <1>1, <1>2, <2>2, SMT, SMTT(30)
    <3>2. u[k] = R[k - (i - 1)]
      BY <1>1, <1>2, <1>3, <1>4, <2>2, <3>1, SMT, SMTT(30)
    <3> QED BY <1>4, <2>2, <3>1, <3>2
  <2> QED BY <2>1, <2>2, Zenon
<1>7. u = Unlinked(list, c)
  BY DEF u, L, R, i, Unlinked
<1> HIDE DEF u
<1>8. \A j, k \in 1 .. n : list[j] = list[k] => j = k
  BY <1>1 DEF IsInjective
<1>9. IsInjective(u)
  <2> SUFFICES ASSUME NEW j \in 1 .. n - 1, NEW k \in 1 .. n - 1, u[j] = u[k]
               PROVE  j = k
    BY <1>5 DEF IsInjective
  <2> QED BY <1>1, <1>2, <1>6, <1>8, SMT, SMTT(30)
<1>10. ASSUME NEW x \in Range(u)
       PROVE  x \in Range(list) /\ x # c
  <2>1. PICK k \in 1 .. n - 1 : u[k] = x
    BY <1>5 DEF Range
  <2>2. PICK j \in 1 .. n : j # i /\ list[j] = x
    BY <1>1, <1>2, <1>6, <2>1, SMT, SMTT(30)
  <2> QED BY <1>1, <1>2, <1>8, <2>2 DEF Range
<1>11. ASSUME NEW x \in Range(list), x # c
       PROVE  x \in Range(u)
  <2>1. PICK j \in 1 .. n : list[j] = x
    BY <1>1 DEF Range
  <2>2. j # i
    BY <1>2, <1>11, <2>1
  <2>3. \E k \in 1 .. n - 1 : u[k] = x
    <3>1. CASE j < i
      BY <1>1, <1>2, <1>6, <2>1, <3>1, SMT, SMTT(30)
    <3>2. CASE j > i
      <4>1. j - 1 \in 1 .. n - 1 /\ ~(j - 1 < i) /\ (j - 1) + 1 = j
        BY <1>1, <1>2, <3>2, SMT, SMTT(30)
      <4> QED BY <1>6, <2>1, <4>1
    <3> QED BY <1>1, <1>2, <2>2, <3>1, <3>2, SMT, SMTT(30)
  <2> QED BY <1>5, <2>3 DEF Range
<1> QED BY <1>5, <1>7, <1>9, <1>10, <1>11

(* A client is put at the end of the list. *)
LEMMA AppendedIs ==
    ASSUME NEW list \in Seq(Client), NEW c \in Client
    PROVE  /\ Append(list, c) \in Seq(Client)
           /\ Range(Append(list, c)) = Range(list) \union {c}
           /\ IsInjective(list) /\ c \notin Range(list) => IsInjective(Append(list, c))
<1> DEFINE n == Len(list)
           a == Append(list, c)
<1>1. /\ n \in Nat /\ DOMAIN list = 1 .. n /\ DOMAIN a = 1 .. n + 1 /\ a \in Seq(Client)
      /\ a[n + 1] = c /\ \A i \in 1 .. n : a[i] = list[i]
  BY SMT, SMTT(30)
<1> HIDE DEF a, n
<1>2. Range(a) = Range(list) \union {c}
  <2>1. \A x \in Range(a) : x \in Range(list) \union {c}
    BY <1>1, SMT, SMTT(30) DEF Range
  <2>2. \A x \in Range(list) : x \in Range(a)
    BY <1>1, SMT, SMTT(30) DEF Range
  <2>3. c \in Range(a)
    BY <1>1, SMT, SMTT(30) DEF Range
  <2> QED BY <2>1, <2>2, <2>3
<1>3. ASSUME IsInjective(list), c \notin Range(list)
      PROVE  IsInjective(a)
  <2> SUFFICES ASSUME NEW i \in 1 .. n + 1, NEW j \in 1 .. n + 1, a[i] = a[j]
               PROVE  i = j
    BY <1>1 DEF IsInjective
  <2>1. \A k \in 1 .. n : list[k] # c
    BY <1>1, <1>3 DEF Range
  <2>2. \A k, l \in 1 .. n : list[k] = list[l] => k = l
    BY <1>1, <1>3 DEF IsInjective
  <2> QED BY <1>1, <2>1, <2>2, SMT, SMTT(30)
<1> QED BY <1>1, <1>2, <1>3 DEF a

(* What follows a client of the list, and its head. *)
LEMMA NextIs ==
    ASSUME g_client_list \in Seq(Client)
    PROVE  /\ Listed \subseteq Client
           /\ \A c \in Listed : After(c) \in Listed \union {None}
           /\ g_client_list # <<>> => Head(g_client_list) \in Listed
<1>1. \A j \in DOMAIN g_client_list : g_client_list[j] \in Listed /\ g_client_list[j] \in Client
  BY SMT, SMTT(30) DEF Listed, Range
<1>2. ASSUME NEW c \in Listed
      PROVE  After(c) \in Listed \union {None}
  <2> DEFINE i == CHOOSE j \in DOMAIN g_client_list : g_client_list[j] = c
  <2>1. i \in DOMAIN g_client_list
    BY DEF Listed, Range
  <2>2. After(c) = IF i = Len(g_client_list) THEN None ELSE g_client_list[i + 1]
    BY DEF After
  <2> HIDE DEF i
  <2>3. i # Len(g_client_list) => i + 1 \in DOMAIN g_client_list
    BY <2>1, SMT, SMTT(30)
  <2> QED BY <1>1, <2>2, <2>3
<1>3. ASSUME g_client_list # <<>>
      PROVE  Head(g_client_list) \in Listed
  <2>1. 1 \in DOMAIN g_client_list /\ Head(g_client_list) = g_client_list[1]
    BY <1>3, SMT, SMTT(30)
  <2> QED BY <1>1, <2>1
<1>4. Listed \subseteq Client
  BY SMT, SMTT(30) DEF Listed, Range
<1> QED BY <1>2, <1>3, <1>4

(* Before the first create there is neither a client nor a thread. *)
LEMMA InitNotifier == NotifierInit => NotifierInv
<1> SUFFICES ASSUME NotifierInit
             PROVE  NotifierInv
  OBVIOUS
<1>1. Listed = {} /\ IsInjective(g_client_list)
  BY SMT, SMTT(30) DEF NotifierInit, Listed, Range, IsInjective
<1>2. NotifierTypeOK
  <2>1. /\ g_client_list \in Seq(Client) /\ mishap \subseteq Mishap
        /\ \A S \in {bare, heap, units, running, pending} : S \subseteq Client
    BY SMT, SMTT(30) DEF NotifierInit
  <2>2. fds \in [Thread -> [mcs : Fd \union {NoFd}, pipe : Fd \union {NoFd}]]
    BY DEF NotifierInit, NoFds
  <2> QED BY <2>1, <2>2, Zenon DEF NotifierInit, NotifierTypeOK, Steps
<1>3. Orderly
  BY <1>1 DEF NotifierInit, Orderly, Leaving, Idle
<1>4. WalksOnList
  BY <1>1 DEF NotifierInit, WalksOnList
<1>5. \A t \in Thread : thread[t] = "none"
  BY DEF NotifierInit
<1>6. Attended
  BY <1>5 DEF Attended
<1>7. OneNotifier
  BY <1>1, <1>5 DEF OneNotifier, Live, NotifierInit
<1> QED BY <1>2, <1>3, <1>4, <1>6, <1>7 DEF NotifierInv

(* A client is created: what Enlist() makes of the list. *)
LEMMA Enlisted ==
    ASSUME NotifierInv, epoll = Idle, UNCHANGED <<epoll, node, running, pending>>,
           NEW c \in Client, c \notin units \union Listed,
           NEW isBare \in BOOLEAN, Enlist(c, isBare)
    PROVE  /\ g_client_list' \in Seq(Client)
           /\ \A S \in {bare', heap', units', running', pending'} : S \subseteq Client
           /\ mishap' \subseteq Mishap
           /\ Orderly' /\ WalksOnList'
           /\ Listed' \intersect bare' = (Listed \intersect bare) \union If(isBare, c)
           /\ "hasty" \notin mishap' => "hasty" \notin mishap /\ (isBare => ~Unsettled)
<1>1. /\ g_client_list \in Seq(Client) /\ mishap \subseteq Mishap
      /\ bare \subseteq Client /\ heap \subseteq Client /\ units \subseteq Client
      /\ running \subseteq Client /\ pending \subseteq Client
  BY DEF NotifierInv, NotifierTypeOK
<1>2. Orderly /\ WalksOnList
  BY DEF NotifierInv
<1>3. Listed' = Listed \union {c} /\ g_client_list' \in Seq(Client) /\ IsInjective(g_client_list')
  BY <1>1, <1>2, AppendedIs DEF Enlist, Listed, Orderly
<1>4. PICK ok \in BOOLEAN :
        /\ heap' = heap \union If(ok, c)
        /\ units' = units \union If(ok, c)
        /\ mishap' = mishap \union If(~ok, "dangling") \union If(isBare /\ Unsettled, "hasty")
  BY DEF Enlist
<1>5. bare' = bare \union If(isBare, c)
  BY DEF Enlist
<1>6. mishap' \subseteq Mishap
  BY <1>1, <1>4 DEF If, Mishap
<1>7. units \union bare \subseteq Listed
  BY <1>2 DEF Orderly, Leaving, Idle
<1>8. \A S \in {bare', heap', units', running', pending'} : S \subseteq Client
  BY <1>1, <1>4, <1>5 DEF If
<1>9. Orderly'
  <2>1. (units \union bare)' \subseteq Listed'
    BY <1>3, <1>4, <1>5, <1>7 DEF If
  <2>2. epoll'.op = "idle" /\ Leaving' = {}
    BY DEF Idle, Leaving
  <2> QED BY <1>3, <2>1, <2>2 DEF Orderly
<1>10. WalksOnList'
  <2> SUFFICES ASSUME mishap' \intersect {"caught", "dangling"} = {}
               PROVE  /\ Listed' \subseteq heap'
                      /\ \A t \in Thread : node'[t] # None => node'[t] \in Listed'
    BY DEF WalksOnList
  <2>1. mishap \intersect {"caught", "dangling"} = {} /\ ok
    BY <1>4 DEF If
  <2>2. Listed \subseteq heap /\ \A t \in Thread : node[t] # None => node[t] \in Listed
    BY <1>2, <2>1 DEF WalksOnList
  <2> QED BY <1>3, <1>4, <2>1, <2>2 DEF If
<1>11. Listed' \intersect bare' = (Listed \intersect bare) \union If(isBare, c)
  BY <1>3, <1>5, <1>7 DEF If
<1>12. "hasty" \notin mishap' => "hasty" \notin mishap /\ (isBare => ~Unsettled)
  BY <1>4 DEF If
<1> QED BY <1>3, <1>6, <1>8, <1>9, <1>10, <1>11, <1>12

(* Nothing is unsettled: no thread is about to run or to end. *)
LEMMA Settled ==
    ASSUME ~Unsettled
    PROVE  /\ \A t \in Thread : thread[t] # "new"
           /\ ~notifier => \A t \in Thread : ~Live(t)
BY DEF Unsettled

(* What the mishaps of a failed creation leave of the invariant. *)
LEMMA FailureKeeps ==
    ASSUME NotifierInv, UNCHANGED <<epoll, interrupts>>,
           OpenFails \/ StartFails
    PROVE  NotifierInv'
<1>1. /\ UNCHANGED <<file, pipe_fd, notifier, thread, fds, node>>
      /\ UNCHANGED <<g_client_list, bare, heap, units, running, irq_ack, pending, epoll>>
      /\ mishap' = mishap \union If(Listed \intersect bare # {}, "closed")
                          \union If(Unsettled, "hasty")
  BY DEF OpenFails, StartFails, threads, clients, interrupts
<1>2. mcs_fd' \in Fd \union {NoFd}
  BY DEF OpenFails, StartFails, Lowest, FreeFds
<1>3. Listed' = Listed /\ Leaving' = Leaving
  BY <1>1 DEF Listed, Leaving
<1>4. NotifierTypeOK /\ Orderly /\ WalksOnList /\ Attended /\ OneNotifier
  BY DEF NotifierInv
<1>5. NotifierTypeOK'
  <2>1. mishap' \subseteq Mishap
    BY <1>1, <1>4 DEF NotifierTypeOK, If, Mishap
  <2> QED BY <1>1, <1>2, <1>4, <2>1 DEF NotifierTypeOK
<1>6. Orderly'
  BY <1>1, <1>3, <1>4 DEF Orderly
<1>7. WalksOnList'
  <2>1. mishap \subseteq mishap'
    BY <1>1
  <2> QED BY <1>1, <1>3, <1>4, <2>1 DEF WalksOnList
<1>8. "hasty" \notin mishap' => "hasty" \notin mishap /\ ~Unsettled
  BY <1>1 DEF If
<1>9. Attended'
  BY <1>1, <1>8, Settled DEF Attended
<1>10. OneNotifier'
  <2>1. \A t \in Thread : Live(t)' = Live(t)
    BY <1>1 DEF Live
  <2>2. \A f : Leads(f, "mcs")' = Leads(f, "mcs")
    BY <1>1 DEF Leads
  <2> QED BY <1>1, <1>3, <1>4, <1>8, <2>1, <2>2 DEF OneNotifier, Leads
<1> QED BY <1>5, <1>6, <1>7, <1>9, <1>10 DEF NotifierInv

(* A bare-metal client joins the others. *)
LEMMA JoinKeeps ==
    ASSUME NotifierInv, UNCHANGED <<epoll, interrupts>>, epoll = Idle,
           NEW c \in Client, c \notin units \union Listed, Joins(c)
    PROVE  NotifierInv'
<1>1. UNCHANGED <<pipe_fd, notifier, thread, fds, node, running, irq_ack, pending, epoll>>
  BY DEF Joins, threads, interrupts
<1>2. PICK f \in Lowest(FreeFds) : file' = [file EXCEPT ![f] = "mcs"] /\ mcs_fd' = f
  BY Zenon DEF Joins
<1>3. f \in Fd /\ file[f] = "none"
  BY DEF Lowest, FreeFds
<1>4. NotifierTypeOK /\ OneNotifier
  BY DEF NotifierInv
<1>5. Enlist(c, TRUE) /\ notifier
  BY Zenon DEF Joins
<1>6. /\ g_client_list' \in Seq(Client)
      /\ \A S \in {bare', heap', units', running', pending'} : S \subseteq Client
      /\ mishap' \subseteq Mishap
      /\ Orderly' /\ WalksOnList'
      /\ Listed' \intersect bare' = (Listed \intersect bare) \union {c}
      /\ "hasty" \notin mishap' => "hasty" \notin mishap /\ ~Unsettled
  BY <1>1, <1>5, Enlisted, Zenon DEF If
<1>7. NotifierTypeOK'
  <2>1. file' \in [Fd -> {"none", "mcs", "pipe"}]
    BY <1>2, <1>3, <1>4 DEF NotifierTypeOK
  <2> QED BY <1>1, <1>2, <1>3, <1>4, <1>6, <2>1 DEF NotifierTypeOK
<1>8. Attended'
  BY <1>1, <1>6, Settled DEF Attended
<1>9. OneNotifier'
  <2> SUFFICES ASSUME "hasty" \notin mishap'
               PROVE  /\ \A t, u \in Thread : Live(t)' /\ Live(u)' => t = u
                      /\ \E t \in Thread :
                           Live(t)' /\ notifier' /\ Leads(fds[t].mcs, "mcs")'
    BY <1>6, Zenon DEF OneNotifier, Leads
  <2>1. "hasty" \notin mishap /\ ~Unsettled
    BY <1>6
  <2>2. \A t, u \in Thread : Live(t) /\ Live(u) => t = u
    BY <1>4, <2>1 DEF OneNotifier
  <2>3. PICK t \in Thread : Live(t) /\ (thread[t] # "new" => notifier /\ Leads(fds[t].mcs, "mcs"))
    BY <1>4, <1>5, <2>1 DEF OneNotifier
  <2>4. thread[t] # "new"
    BY <2>1, Settled
  <2>5. Leads(fds[t].mcs, "mcs")'
    <3>1. fds[t].mcs # NoFd /\ file[fds[t].mcs] = "mcs" /\ fds[t].mcs # f
      BY <1>3, <2>3, <2>4 DEF Leads
    <3>2. fds[t].mcs \in Fd
      BY <1>4, <3>1 DEF NotifierTypeOK
    <3>3. file'[fds[t].mcs] = "mcs"
      BY <1>2, <1>4, <3>1, <3>2 DEF NotifierTypeOK
    <3> QED BY <1>1, <3>1, <3>3 DEF Leads
  <2> QED BY <1>1, <1>5, <2>2, <2>3, <2>5 DEF Live
<1> QED BY <1>6, <1>7, <1>8, <1>9 DEF NotifierInv

(* The first bare-metal client, as far as the flag knows: a thread is started. *)
LEMMA StartKeeps ==
    ASSUME NotifierInv, UNCHANGED <<epoll, interrupts>>, epoll = Idle,
           NEW c \in Client, c \notin units \union Listed, Starts(c)
    PROVE  NotifierInv'
<1>1. UNCHANGED <<notifier, fds, node, running, irq_ack, pending, epoll>>
  BY DEF Starts, interrupts
<1>2. PICK f \in Lowest(FreeFds) : \E p \in Lowest(FreeFds \ {f}) :
        /\ file' = [file EXCEPT ![f] = "mcs", ![p] = "pipe"]
        /\ mcs_fd' = f /\ pipe_fd' = p
  BY Zenon DEF Starts
<1>3. PICK p \in Lowest(FreeFds \ {f}) :
        /\ file' = [file EXCEPT ![f] = "mcs", ![p] = "pipe"]
        /\ mcs_fd' = f /\ pipe_fd' = p
  BY <1>2, Zenon
<1>4. f \in Fd /\ p \in Fd /\ f # p /\ f # NoFd
  BY NotifierAssumption DEF Lowest, FreeFds
<1>5. NotifierTypeOK /\ OneNotifier
  BY DEF NotifierInv
<1>6. Enlist(c, TRUE) /\ ~notifier
  BY Zenon DEF Starts
<1>7. /\ g_client_list' \in Seq(Client)
      /\ \A S \in {bare', heap', units', running', pending'} : S \subseteq Client
      /\ mishap' \subseteq Mishap
      /\ Orderly' /\ WalksOnList'
      /\ Listed' \intersect bare' = (Listed \intersect bare) \union {c}
      /\ "hasty" \notin mishap' => "hasty" \notin mishap /\ ~Unsettled
  BY <1>1, <1>6, Enlisted, Zenon DEF If
<1>8. PICK t \in Thread : thread[t] = "none" /\ thread' = [thread EXCEPT ![t] = "new"]
  BY Zenon DEF Starts
<1>9. /\ file' \in [Fd -> {"none", "mcs", "pipe"}] /\ file'[f] = "mcs"
      /\ thread' \in [Thread -> Steps] /\ thread'[t] = "new"
      /\ \A u \in Thread : u # t => thread'[u] = thread[u]
  BY <1>3, <1>4, <1>5, <1>8 DEF NotifierTypeOK, Steps
<1>10. NotifierTypeOK'
  BY <1>1, <1>3, <1>4, <1>5, <1>7, <1>9 DEF NotifierTypeOK
<1>11. ASSUME "hasty" \notin mishap'
       PROVE  /\ Listed' \intersect bare' = {c}
              /\ \A u \in Thread : Live(u)' => u = t
  <2>1. \A u \in Thread : ~Live(u)
    BY <1>6, <1>7, <1>11, Settled
  <2>2. Listed \intersect bare = {}
    BY <1>5, <1>7, <1>11, <2>1 DEF OneNotifier
  <2> QED BY <1>7, <1>9, <2>1, <2>2 DEF Live
<1>12. Attended'
  <2>1. Leads(mcs_fd, "mcs")'
    BY <1>3, <1>4, <1>9 DEF Leads
  <2> QED BY <1>11, <2>1 DEF Attended
<1>13. OneNotifier'
  <2>1. Live(t)' /\ thread'[t] = "new"
    BY <1>9 DEF Live
  <2> QED BY <1>1, <1>6, <1>11, <2>1, Zenon DEF OneNotifier
<1> QED BY <1>7, <1>10, <1>12, <1>13 DEF NotifierInv

(* A step that leaves the threads, the files and who is served as they are. *)
LEMMA SameNotifier ==
    ASSUME NotifierInv, UNCHANGED <<file, mcs_fd, notifier, thread, fds>>,
           Listed' \intersect bare' = Listed \intersect bare,
           "hasty" \notin mishap' => "hasty" \notin mishap
    PROVE  Attended' /\ OneNotifier'
<1>1. Attended /\ OneNotifier
  BY DEF NotifierInv
<1>2. Leads(mcs_fd, "mcs")' = Leads(mcs_fd, "mcs")
  BY DEF Leads
<1>3. \A t \in Thread : Leads(fds[t].mcs, "mcs")' = Leads(fds[t].mcs, "mcs")
  BY Zenon DEF Leads
<1>4. \A t \in Thread : Live(t)' = Live(t)
  BY DEF Live
<1>5. Attended'
  BY <1>1, <1>2 DEF Attended
<1>6. OneNotifier'
  BY <1>1, <1>3, <1>4 DEF OneNotifier
<1> QED BY <1>5, <1>6

(* A create, which may start the thread and may fail after it opened a descriptor. *)
LEMMA CreateKeeps ==
    ASSUME NotifierInv, NEW c \in Client, create_mica_client(c)
    PROVE  NotifierInv'
<1>1. epoll = Idle /\ c \notin units \union Listed /\ UNCHANGED <<epoll, interrupts>>
  BY DEF create_mica_client
<1>2. CASE OpenFails \/ StartFails
  BY <1>1, <1>2, FailureKeeps
<1>3. CASE Joins(c)
  BY <1>1, <1>3, JoinKeeps
<1>4. CASE Starts(c)
  BY <1>1, <1>4, StartKeeps
<1>5. CASE Enlist(c, FALSE) /\ UNCHANGED <<files, threads, running>>
  <2>1. /\ UNCHANGED <<file, mcs_fd, pipe_fd, notifier, thread, fds>>
        /\ UNCHANGED <<node, running, irq_ack, pending, epoll>>
    BY <1>1, <1>5 DEF files, threads, interrupts
  <2>2. /\ g_client_list' \in Seq(Client)
        /\ \A S \in {bare', heap', units', running', pending'} : S \subseteq Client
        /\ mishap' \subseteq Mishap
        /\ Orderly' /\ WalksOnList'
        /\ Listed' \intersect bare' = Listed \intersect bare
        /\ "hasty" \notin mishap' => "hasty" \notin mishap
    BY <1>1, <1>5, <2>1, Enlisted, Zenon DEF If
  <2>3. NotifierTypeOK'
    BY <2>1, <2>2 DEF NotifierInv, NotifierTypeOK
  <2> QED BY <2>1, <2>2, <2>3, SameNotifier DEF NotifierInv
<1> QED BY <1>2, <1>3, <1>4, <1>5, Zenon DEF create_mica_client

(* start, stop, the first part of rm, and an interrupt: no client comes or goes. *)
LEMMA CommandKeeps ==
    ASSUME NotifierInv, NEW c \in Client,
           start(c) \/ stop(c) \/ rm(c) \/ handle_clientos_ipi(c)
    PROVE  NotifierInv'
<1>1. /\ UNCHANGED <<file, mcs_fd, pipe_fd, notifier, thread, fds, node>>
      /\ UNCHANGED <<g_client_list, bare, heap, units, mishap>>
  BY DEF start, stop, rm, handle_clientos_ipi, files, threads, clients
<1>2. NotifierTypeOK /\ Orderly /\ WalksOnList
  BY DEF NotifierInv
<1>3. running' \subseteq Client /\ pending' \subseteq Client /\ irq_ack' \in BOOLEAN
  <2>1. running \subseteq Client /\ pending \subseteq Client /\ irq_ack \in BOOLEAN
    BY <1>2 DEF NotifierTypeOK
  <2> QED BY <2>1, Zenon DEF start, stop, rm, handle_clientos_ipi, Stopped, interrupts, clients
<1>4. \/ UNCHANGED epoll
      \/ epoll = Idle /\ c \in units /\ epoll' = [op |-> "stopped", client |-> c]
  BY DEF start, stop, rm, handle_clientos_ipi
<1>5. Listed' = Listed
  BY <1>1 DEF Listed
<1>6. NotifierTypeOK'
  <2>1. epoll' \in [op : {"stopped", "destroyed"}, client : Client] \union {Idle}
    BY <1>2, <1>4, SMT, SMTT(30) DEF NotifierTypeOK
  <2> QED BY <1>1, <1>2, <1>3, <2>1 DEF NotifierTypeOK
<1>7. Orderly'
  <2>1. CASE UNCHANGED epoll
    BY <1>1, <1>2, <1>5, <2>1 DEF Orderly, Leaving
  <2>2. CASE epoll = Idle /\ c \in units /\ epoll' = [op |-> "stopped", client |-> c]
    <3>1. epoll.op = "idle" /\ epoll'.op = "stopped" /\ epoll'.client = c
      BY <2>2 DEF Idle
    <3>2. Leaving = {} /\ Leaving' = {}
      BY <3>1 DEF Leaving
    <3> QED BY <1>1, <1>2, <1>5, <2>2, <3>1, <3>2 DEF Orderly
  <2> QED BY <1>4, <2>1, <2>2
<1>8. WalksOnList'
  BY <1>1, <1>2, <1>5 DEF WalksOnList
<1>9. Attended' /\ OneNotifier'
  BY <1>1, <1>5, SameNotifier
<1> QED BY <1>6, <1>7, <1>8, <1>9 DEF NotifierInv

(* The client is taken off the list; with the last one the notifier goes. *)
LEMMA DestroyKeeps ==
    ASSUME NotifierInv, destory_client
    PROVE  NotifierInv'
<1> DEFINE c == epoll.client
<1>1. NotifierTypeOK /\ Orderly /\ WalksOnList /\ Attended /\ OneNotifier
  BY DEF NotifierInv
<1>2. /\ UNCHANGED <<thread, fds, node, bare, heap, units, running, irq_ack, pending>>
      /\ epoll.op = "stopped" /\ epoll' = [op |-> "destroyed", client |-> c]
      /\ g_client_list' = Unlinked(g_client_list, c)
  BY DEF destory_client, interrupts
<1>3. IF c \in bare THEN rproc_remove(g_client_list') ELSE UNCHANGED <<files, notifier>>
  BY DEF destory_client
<1>4. mishap' = mishap \union If(\E t \in Thread : node[t] = c, "caught")
                      \union (IF c \in bare THEN Hasty(g_client_list') ELSE {})
  BY DEF destory_client
<1>5. c \in Listed /\ c \in Client
  BY <1>1, <1>2, NextIs DEF Orderly, NotifierTypeOK
<1>6. /\ g_client_list' \in Seq(Client) /\ IsInjective(g_client_list')
      /\ Listed' = Listed \ {c}
  BY <1>1, <1>2, <1>5, UnlinkedIs DEF Listed, Orderly, NotifierTypeOK
<1>7. epoll'.op = "destroyed" /\ epoll'.client = c /\ Leaving' = {c} /\ Leaving = {}
  BY <1>2 DEF Leaving
<1> HIDE DEF c
<1>8. NotifierTypeOK'
  <2>1. /\ file' \in [Fd -> {"none", "mcs", "pipe"}] /\ notifier' \in BOOLEAN
        /\ UNCHANGED <<mcs_fd, pipe_fd>>
    BY <1>1, <1>3, Zenon DEF rproc_remove, NotifierTypeOK, files
  <2>2. mishap' \subseteq Mishap
    BY <1>1, <1>4 DEF NotifierTypeOK, If, Hasty, Mishap
  <2>3. epoll' \in [op : {"stopped", "destroyed"}, client : Client]
    BY <1>2, <1>5
  <2> QED BY <1>1, <1>2, <1>6, <2>1, <2>2, <2>3, Zenon DEF NotifierTypeOK
<1>9. Orderly'
  BY <1>1, <1>2, <1>6, <1>7 DEF Orderly
<1>10. WalksOnList'
  <2> SUFFICES ASSUME mishap' \intersect {"caught", "dangling"} = {}
               PROVE  /\ Listed' \subseteq heap'
                      /\ \A t \in Thread : node'[t] # None => node'[t] \in Listed'
    BY DEF WalksOnList
  <2>1. mishap \intersect {"caught", "dangling"} = {} /\ ~\E t \in Thread : node[t] = c
    BY <1>4 DEF If
  <2> QED BY <1>1, <1>2, <1>6, <2>1 DEF WalksOnList
<1>11. CASE c \notin bare
  <2>1. UNCHANGED <<file, mcs_fd, notifier, thread, fds>>
    BY <1>2, <1>3, <1>11 DEF files
  <2>2. Listed' \intersect bare' = Listed \intersect bare /\ mishap \subseteq mishap'
    BY <1>2, <1>4, <1>6, <1>11, Zenon
  <2> QED BY <1>8, <1>9, <1>10, <2>1, <2>2, SameNotifier DEF NotifierInv
<1>12. CASE c \in bare
  <2> SUFFICES ASSUME "hasty" \notin mishap'
               PROVE  Attended' /\ OneNotifier'
    BY <1>8, <1>9, <1>10, Zenon DEF NotifierInv, Attended, OneNotifier
  <2>1. /\ "hasty" \notin mishap
        /\ ~Found(g_client_list') => \A t \in Thread : thread[t] # "new"
    BY <1>4, <1>12 DEF Hasty, If
  <2>2. Found(g_client_list') = (Listed' \intersect bare' # {})
    BY <1>2 DEF Found, Listed
  <2>3. c \in Listed \intersect bare
    BY <1>5, <1>12
  <2>4. \A t \in Thread : thread[t] # "new"
    <3> SUFFICES ASSUME NEW t \in Thread, thread[t] = "new"
                 PROVE  ~Found(g_client_list')
      BY <2>1
    <3>1. PICK d \in Client : Listed \intersect bare = {d}
      BY <1>1, <2>1 DEF Attended
    <3> QED BY <1>2, <1>6, <2>2, <2>3, <3>1, Zenon
  <2>5. Attended'
    BY <1>2, <2>4 DEF Attended
  <2>6. \A t \in Thread : Live(t)' = Live(t)
    BY <1>2 DEF Live
  <2>7. \A t, u \in Thread : Live(t) /\ Live(u) => t = u
    BY <1>1, <2>1 DEF OneNotifier
  <2>8. CASE Found(g_client_list')
    <3>1. notifier' = TRUE /\ UNCHANGED file
      BY <1>3, <1>12, <2>8 DEF rproc_remove, files
    <3>2. PICK t \in Thread : Live(t) /\ (thread[t] # "new" => notifier /\ Leads(fds[t].mcs, "mcs"))
      BY <1>1, <2>1, <2>3 DEF OneNotifier
    <3>3. Leads(fds[t].mcs, "mcs")'
      BY <1>2, <2>4, <3>1, <3>2 DEF Leads
    <3> QED BY <2>2, <2>5, <2>6, <2>7, <2>8, <3>1, <3>2, <3>3, ZenonT(40) DEF OneNotifier
  <2>9. CASE ~Found(g_client_list')
    <3>1. notifier' = FALSE
      BY <1>3, <1>12, <2>9 DEF rproc_remove
    <3> QED BY <2>2, <2>5, <2>6, <2>7, <2>9, <3>1, Zenon DEF OneNotifier
  <2> QED BY <2>8, <2>9
<1> QED BY <1>11, <1>12

(* The client is freed with its listener. *)
LEMMA FreeKeeps ==
    ASSUME NotifierInv, free_listener_by_name
    PROVE  NotifierInv'
<1> DEFINE c == epoll.client
<1>1. NotifierTypeOK /\ Orderly /\ WalksOnList
  BY DEF NotifierInv
<1>2. /\ UNCHANGED <<file, mcs_fd, pipe_fd, notifier, thread, fds, node>>
      /\ UNCHANGED <<g_client_list, running, irq_ack, pending, mishap>>
      /\ heap' = heap \ {c} /\ units' = units \ {c} /\ bare' = bare \ {c} /\ epoll' = Idle
      /\ epoll.op = "destroyed"
  BY DEF free_listener_by_name, files, threads, interrupts
<1>3. c \notin Listed /\ Listed' = Listed /\ Leaving = {c}
  BY <1>1, <1>2 DEF Orderly, Listed, Leaving
<1>4. epoll'.op = "idle" /\ Leaving' = {}
  BY <1>2 DEF Idle, Leaving
<1> HIDE DEF c
<1>5. NotifierTypeOK'
  <2>1. \A S \in {bare', heap', units', running', pending'} : S \subseteq Client
    BY <1>1, <1>2 DEF NotifierTypeOK
  <2> QED BY <1>1, <1>2, <2>1 DEF NotifierTypeOK
<1>6. Orderly'
  BY <1>1, <1>2, <1>3, <1>4 DEF Orderly
<1>7. WalksOnList'
  BY <1>1, <1>2, <1>3 DEF WalksOnList
<1>8. Attended' /\ OneNotifier'
  BY <1>2, <1>3, SameNotifier
<1> QED BY <1>5, <1>6, <1>7, <1>8 DEF NotifierInv

(* The thread runs for the first time. *)
LEMMA WaitKeeps ==
    ASSUME NotifierInv, NEW t \in Thread, WaitEvent(t)
    PROVE  NotifierInv'
<1>1. NotifierTypeOK /\ Orderly /\ WalksOnList /\ Attended /\ OneNotifier
  BY DEF NotifierInv
<1>2. /\ UNCHANGED <<file, mcs_fd, pipe_fd, node, g_client_list, bare, heap, units>>
      /\ UNCHANGED <<running, epoll, irq_ack, pending, mishap>>
      /\ thread[t] = "new" /\ thread' = [thread EXCEPT ![t] = "poll"] /\ notifier' = TRUE
      /\ fds' = [fds EXCEPT ![t] = [mcs |-> mcs_fd, pipe |-> pipe_fd]]
  BY DEF WaitEvent, Step, files, clients, interrupts
<1>3. /\ thread' \in [Thread -> Steps] /\ thread'[t] = "poll"
      /\ \A u \in Thread : u # t => thread'[u] = thread[u]
  BY <1>1, <1>2 DEF NotifierTypeOK, Steps
<1>4. /\ fds' \in [Thread -> [mcs : Fd \union {NoFd}, pipe : Fd \union {NoFd}]]
      /\ fds'[t].mcs = mcs_fd
  BY <1>1, <1>2 DEF NotifierTypeOK
<1>5. Listed' = Listed /\ Leaving' = Leaving
  BY <1>2 DEF Listed, Leaving
<1>6. NotifierTypeOK'
  BY <1>1, <1>2, <1>3, <1>4, Zenon DEF NotifierTypeOK
<1>7. Orderly'
  BY <1>1, <1>2, <1>5 DEF Orderly
<1>8. WalksOnList'
  BY <1>1, <1>2, <1>5 DEF WalksOnList
<1>9. \A u \in Thread : Live(u)' = Live(u)
  BY <1>2, <1>3 DEF Live
<1>10. Attended' /\ OneNotifier'
  <2> SUFFICES ASSUME "hasty" \notin mishap'
               PROVE  Attended' /\ OneNotifier'
    BY Zenon DEF Attended, OneNotifier
  <2>1. Leads(mcs_fd, "mcs") /\ Listed \intersect bare # {}
    BY <1>1, <1>2 DEF Attended
  <2>2. \A u, v \in Thread : Live(u) /\ Live(v) => u = v
    BY <1>1, <1>2 DEF OneNotifier
  <2>3. Live(t)
    BY <1>2 DEF Live
  <2>4. \A u \in Thread : thread'[u] # "new"
    <3>1. \A u \in Thread : thread[u] = "new" => Live(u)
      BY DEF Live
    <3> QED BY <1>3, <2>2, <2>3, <3>1
  <2>5. Leads(fds[t].mcs, "mcs")'
    BY <1>2, <1>4, <2>1 DEF Leads
  <2>6. Attended'
    BY <2>4 DEF Attended
  <2>7. OneNotifier'
    BY <1>2, <1>5, <1>9, <2>1, <2>2, <2>3, <2>5 DEF OneNotifier
  <2> QED BY <2>6, <2>7
<1> QED BY <1>6, <1>7, <1>8, <1>10 DEF NotifierInv

(***************************************************************************)
(* A round of a thread that polls: it may only end when the flag is down,  *)
(* and then there is no client to serve.                                   *)
(***************************************************************************)
LEMMA RoundKeeps ==
    ASSUME NotifierInv, NEW t \in Thread, thread[t] \in {"poll", "walk"},
           NEW s \in {"poll", "walk", Again}, thread' = [thread EXCEPT ![t] = s],
           UNCHANGED <<file, mcs_fd, pipe_fd, notifier, fds>>,
           UNCHANGED <<g_client_list, bare, heap, units, running, epoll, mishap>>,
           irq_ack' \in BOOLEAN, pending' \subseteq Client,
           NEW n, node' = [node EXCEPT ![t] = n], n \in Listed \union {None, node[t]}
    PROVE  NotifierInv'
<1>1. NotifierTypeOK /\ Orderly /\ WalksOnList /\ Attended /\ OneNotifier
  BY DEF NotifierInv
<1>2. Listed' = Listed /\ Leaving' = Leaving /\ Listed \subseteq Client
  BY <1>1, NextIs DEF Listed, Leaving, NotifierTypeOK
<1>3. s \in Steps /\ s \notin {"new", "none"} /\ (s = "done" => ~notifier)
  BY DEF Again, Steps
<1>4. /\ thread' \in [Thread -> Steps] /\ thread'[t] = s
      /\ \A u \in Thread : u # t => thread'[u] = thread[u]
  BY <1>1, <1>3 DEF NotifierTypeOK
<1>5. /\ node' \in [Thread -> Client \union {None}]
      /\ \A u \in Thread : node'[u] \in Listed \union {None, node[u]}
  BY <1>1, <1>2 DEF NotifierTypeOK
<1>6. NotifierTypeOK'
  <2>1. \A S \in {bare', heap', units', running', pending'} : S \subseteq Client
    BY <1>1 DEF NotifierTypeOK
  <2> QED BY <1>1, <1>4, <1>5, <2>1, Zenon DEF NotifierTypeOK
<1>7. Orderly'
  BY <1>1, <1>2 DEF Orderly
<1>8. WalksOnList'
  BY <1>1, <1>2, <1>5 DEF WalksOnList
<1>9. \A u \in Thread : thread'[u] = "new" => thread[u] = "new"
  BY <1>3, <1>4
<1>10. Attended'
  <2>1. Leads(mcs_fd, "mcs")' = Leads(mcs_fd, "mcs")
    BY DEF Leads
  <2> QED BY <1>1, <1>2, <1>9, <2>1 DEF Attended
<1>11. OneNotifier'
  <2> SUFFICES ASSUME "hasty" \notin mishap
               PROVE  OneNotifier'
    BY Zenon DEF OneNotifier
  <2>1. \A u \in Thread : Live(u)' => Live(u)
    BY <1>4 DEF Live
  <2>2. \A u, v \in Thread : Live(u)' /\ Live(v)' => u = v
    BY <1>1, <2>1 DEF OneNotifier
  <2>3. Listed \intersect bare = {} => ~notifier
    BY <1>1 DEF OneNotifier
  <2>4. ASSUME Listed \intersect bare # {}
        PROVE  \E u \in Thread : /\ Live(u)'
                                 /\ thread'[u] # "new" => notifier /\ Leads(fds[u].mcs, "mcs")
    <3>1. PICK u \in Thread : Live(u) /\ (thread[u] # "new" => notifier /\ Leads(fds[u].mcs, "mcs"))
      BY <1>1, <2>4 DEF OneNotifier
    <3>2. Live(t)
      BY DEF Live
    <3>3. u = t
      BY <1>1, <3>1, <3>2 DEF OneNotifier
    <3>4. thread[t] # "new"
      OBVIOUS
    <3>5. notifier /\ Leads(fds[t].mcs, "mcs")
      BY <3>1, <3>3, <3>4
    <3>6. Live(t)'
      BY <1>3, <1>4, <3>5 DEF Live
    <3> QED BY <3>5, <3>6
  <2>5. \A u \in Thread : Leads(fds[u].mcs, "mcs")' = Leads(fds[u].mcs, "mcs")
    BY DEF Leads
  <2> QED BY <1>2, <2>2, <2>3, <2>4, <2>5 DEF OneNotifier
<1> QED BY <1>6, <1>7, <1>8, <1>10, <1>11 DEF NotifierInv

(* The poll returns, or the walk goes on to the next client. *)
LEMMA PollKeeps ==
    ASSUME NotifierInv, NEW t \in Thread, PollInterrupt(t) \/ PollOther(t) \/ Visit(t)
    PROVE  NotifierInv'
<1>1. /\ UNCHANGED <<file, mcs_fd, pipe_fd, notifier, fds>>
      /\ UNCHANGED <<g_client_list, bare, heap, units, running, epoll, mishap>>
  BY Zenon DEF PollInterrupt, PollOther, Visit, files, clients
<1>2. NotifierTypeOK
  BY DEF NotifierInv
<1>3. irq_ack \in BOOLEAN /\ pending \subseteq Client /\ node = [node EXCEPT ![t] = node[t]]
  BY <1>2 DEF NotifierTypeOK
<1>4. irq_ack' \in BOOLEAN /\ pending' \subseteq Client
  BY <1>3, Zenon DEF PollInterrupt, PollOther, Visit, Leads
<1>5. CASE PollInterrupt(t)
  <2>1. CASE g_client_list = <<>>
    <3>1. thread[t] = "poll" /\ thread' = [thread EXCEPT ![t] = Again] /\ node' = node
      BY <1>5, <2>1 DEF PollInterrupt, Step
    <3> QED BY <1>1, <1>3, <1>4, <3>1, RoundKeeps, Zenon
  <2>2. CASE g_client_list # <<>>
    <3>1. /\ thread[t] = "poll" /\ thread' = [thread EXCEPT ![t] = "walk"]
          /\ node' = [node EXCEPT ![t] = Head(g_client_list)]
      BY <1>5, <2>2 DEF PollInterrupt, Step
    <3>2. Head(g_client_list) \in Listed
      BY <1>2, <2>2, NextIs DEF NotifierTypeOK
    <3> QED BY <1>1, <1>4, <3>1, <3>2, RoundKeeps, Zenon
  <2> QED BY <2>1, <2>2
<1>6. CASE PollOther(t)
  <2>1. thread[t] = "poll" /\ thread' = [thread EXCEPT ![t] = Again] /\ node' = node
    BY <1>6, Zenon DEF PollOther, Step
  <2> QED BY <1>1, <1>3, <1>4, <2>1, RoundKeeps, Zenon
<1>7. CASE Visit(t)
  <2> DEFINE c == node[t]
  <2>1. /\ thread[t] = "walk" /\ c \in Listed /\ node' = [node EXCEPT ![t] = After(c)]
        /\ thread' = [thread EXCEPT ![t] = IF After(c) = None THEN Again ELSE "walk"]
    BY <1>7 DEF Visit
  <2>2. After(c) \in Listed \union {None}
    BY <1>2, <2>1, NextIs DEF NotifierTypeOK
  <2> HIDE DEF c
  <2>3. CASE After(c) = None
    BY <1>1, <1>4, <2>1, <2>2, <2>3, RoundKeeps, Zenon
  <2>4. CASE After(c) # None
    BY <1>1, <1>4, <2>1, <2>2, <2>4, RoundKeeps, Zenon
  <2> QED BY <2>3, <2>4
<1> QED BY <1>5, <1>6, <1>7

(* Every step of the commands and of the notifier thread keeps the invariant. *)
LEMMA NotifierInductive == NotifierInv /\ [NotifierNext]_notifierVars => NotifierInv'
<1> SUFFICES ASSUME NotifierInv, [NotifierNext]_notifierVars
             PROVE  NotifierInv'
  OBVIOUS
<1>1. ASSUME NEW c \in Client, create_mica_client(c)
      PROVE  NotifierInv'
  BY <1>1, CreateKeeps
<1>2. ASSUME NEW c \in Client, start(c) \/ stop(c) \/ rm(c) \/ handle_clientos_ipi(c)
      PROVE  NotifierInv'
  BY <1>2, CommandKeeps
<1>3. CASE EpollStep
  BY <1>3, DestroyKeeps, FreeKeeps DEF EpollStep
<1>4. ASSUME NEW t \in Thread, ThreadStep(t)
      PROVE  NotifierInv'
  BY <1>4, WaitKeeps, PollKeeps DEF ThreadStep
<1>5. CASE UNCHANGED notifierVars
  <2>1. /\ UNCHANGED <<file, mcs_fd, pipe_fd, notifier, thread, fds, node>>
        /\ UNCHANGED <<g_client_list, bare, heap, units, running, epoll, irq_ack, pending, mishap>>
    BY <1>5 DEF notifierVars, files, threads, clients, interrupts
  <2>2. NotifierTypeOK /\ Orderly /\ WalksOnList
    BY DEF NotifierInv
  <2>3. Listed' = Listed /\ Leaving' = Leaving
    BY <2>1 DEF Listed, Leaving
  <2>4. NotifierTypeOK'
    BY <2>1, <2>2 DEF NotifierTypeOK
  <2>5. Orderly' /\ WalksOnList'
    BY <2>1, <2>2, <2>3, Zenon DEF Orderly, WalksOnList
  <2> QED BY <2>1, <2>3, <2>4, <2>5, SameNotifier DEF NotifierInv
<1> QED BY <1>1, <1>2, <1>3, <1>4, <1>5 DEF NotifierNext

(* The invariant of the notifier holds always. *)
LEMMA AlwaysNotifierInv == NotifierSpec => []NotifierInv
BY InitNotifier, NotifierInductive, PTL DEF NotifierSpec

(***************************************************************************)
(* For any clients, descriptors and threads: as long as the commands leave *)
(* the threads time to start and to end, one notifier polls the device     *)
(* while there are bare-metal clients (rproc_register_notifier(),          *)
(* rproc_wait_event(), rproc_remove()).                                    *)
(***************************************************************************)
THEOREM NotifierIsAlone == NotifierSpec => []OneNotifier
<1>1. NotifierInv => OneNotifier
  BY DEF NotifierInv
<1> QED BY <1>1, AlwaysNotifierInv, PTL

(***************************************************************************)
(* A walk of rproc_notify_all() meets a freed client only after one was    *)
(* freed without a listener, or removed when the walk was at it.           *)
(***************************************************************************)
THEOREM WalksAreSafe == NotifierSpec => []WalkSafe
<1>1. NotifierInv => WalkSafe
  BY DEF NotifierInv, WalksOnList, WalkSafe, Defined
<1> QED BY <1>1, AlwaysNotifierInv, PTL

=============================================================================
