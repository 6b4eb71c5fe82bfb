-------------------------- MODULE DebugBridgeProofs --------------------------
(***************************************************************************)
(* Proofs about DebugBridge, for any number of servers and packets and any *)
(* size of the queues: a client that is started has a server, and packets  *)
(* and answers keep their order.                                           *)
(***************************************************************************)
EXTENDS DebugBridge, SequenceTheorems, TLAPS

USE ZenonT(10), SMT, SMTT(30)

(* At first no server has the port. *)
LEMMA InitIInv == Init => IInv
<1> SUFFICES ASSUME Init PROVE IInv
  OBVIOUS
<1>1. NoServer \notin Server
  BY SMT, SMTT(30) DEF Server, NoServer
<1> QED BY <1>1 DEF Init, IInv, PortInv, Serving, Served

(* A step that leaves the servers, the port and the flag alone. *)
LEMMA ServersSame ==
    ASSUME IInv, UNCHANGED <<server, port, gdb_server_running>>, mishap \subseteq mishap',
           on' => on
    PROVE  IInv'
BY DEF IInv, PortInv, Served

(* A server is started, or the flag says that there is one. *)
LEMMA StartKeeps ==
    ASSUME IInv, UNCHANGED <<port, gdb_server_running>>,
           mishap' \in {mishap, mishap \ {"failed"}},
           NEW old \in [Server -> {"none", "new", "ended"} \union Serving],
           \A s \in Server : old[s] \in Serving <=> server[s] \in Serving,
           IF gdb_server_running THEN server' = old
           ELSE \E s \in Fresh : server' = [old EXCEPT ![s] = "new"]
    PROVE  IInv'
<1>0. NoServer \notin Server
  BY SMT, SMTT(30) DEF Server, NoServer
<1>1. server' \in [Server -> {"none", "new", "ended"} \union Serving]
  BY DEF Fresh
<1>2. \A s \in Server : server'[s] \in Serving <=> server[s] \in Serving
  BY DEF Fresh, Serving
<1>3. "leak" \notin mishap' => PortInv /\ PortInv'
  BY <1>2 DEF IInv, PortInv
<1>4. CASE gdb_server_running
  BY <1>0, <1>1, <1>3, <1>4 DEF IInv, PortInv, Served, Serving
<1>5. CASE ~gdb_server_running
  <2>1. \E s \in Server : server'[s] = "new"
    BY <1>5 DEF Fresh
  <2> QED BY <1>1, <1>3, <2>1 DEF IInv, Served
<1> QED BY <1>4, <1>5

(* Start, stop, rm and the joins that a stop waits for. *)
LEMMA CommandStep ==
    ASSUME IInv, \/ debug_start \/ mica_stop("stop") \/ mica_remove \/ CommandRaces \/ Joins
    PROVE  IInv'
<1>1. CASE debug_start
  <2>1. IF gdb_server_running THEN server' = server
        ELSE \E s \in Fresh : server' = [server EXCEPT ![s] = "new"]
    BY <1>1 DEF debug_start, StartServer
  <2> QED BY <1>1, <2>1, StartKeeps DEF IInv, debug_start, sockets
<1>2. CASE mica_stop("stop") \/ mica_remove \/ CommandRaces \/ JoinToRtos
  BY <1>2, ServersSame, SMT, SMTT(30)
  DEF mica_stop, mica_remove, CommandRaces, JoinToRtos, threads, sockets
<1>3. CASE JoinToServer
  <2>1. server' = server
        \/ server' = [s \in Server |-> IF server[s] = "halt" THEN "wait" ELSE server[s]]
    BY <1>3 DEF JoinToServer
  <2>2. server' \in [Server -> {"none", "new", "ended"} \union Serving]
    BY <2>1 DEF IInv, Serving
  <2>3. \A s \in Server : server'[s] \in Serving <=> server[s] \in Serving
    BY <2>1 DEF IInv, Serving
  <2> QED BY <1>3, <2>2, <2>3 DEF IInv, PortInv, Served, JoinToServer, sockets
<1>4. CASE CancelServer
  <2>1. CASE server' = server
    BY <1>4, <2>1, ServersSame DEF CancelServer, sockets
  <2>2. CASE server' # server
    <3>1. "leak" \in mishap'
      BY <1>4, <2>2 DEF CancelServer
    <3>2. server' \in [Server -> {"none", "new", "ended"} \union Serving]
      BY <1>4 DEF IInv, CancelServer
    <3> QED BY <1>4, <3>1, <3>2 DEF IInv, Served, CancelServer, sockets
  <2> QED BY <2>1, <2>2
<1> QED BY <1>1, <1>2, <1>3, <1>4 DEF Joins

(* A server that goes on with what it serves. *)
LEMMA ServerGoesOn ==
    ASSUME IInv, NEW s \in Server, server[s] \in Serving,
           NEW to \in Serving, server' = [server EXCEPT ![s] = to],
           UNCHANGED <<port, gdb_server_running, on>>, mishap \subseteq mishap'
    PROVE  IInv'
<1>1. server' \in [Server -> {"none", "new", "ended"} \union Serving]
  BY DEF IInv
<1>2. \A r \in Server : /\ server'[r] \in Serving <=> server[r] \in Serving
                        /\ server'[r] = "new" <=> server[r] = "new"
  BY DEF IInv, Serving
<1>3. \A r \in Server : server'[r] \notin {"none", "ended"} <=> server[r] \notin {"none", "ended"}
  BY DEF IInv, Serving
<1> QED BY <1>1, <1>2, <1>3 DEF IInv, PortInv, Served

(* The steps of a server, from its bind to its end. *)
LEMMA ServerStepKeeps ==
    ASSUME IInv, NEW s \in Server,
           \/ ServerStep(s) \/ ServerReceives(s) \/ ServerControls(s) \/ ServerHalts(s)
           \/ ServerFails(s)
    PROVE  IInv'
<1>0. NoServer \notin Server
  BY SMT, SMTT(30) DEF Server, NoServer
<1>1. CASE ServerStarts(s)
  <2>1. CASE port = NoServer
    <3>1. /\ server[s] = "new" /\ server' = [server EXCEPT ![s] = "accept"]
          /\ port' = s /\ gdb_server_running' = TRUE /\ UNCHANGED <<on, mishap>>
      BY <1>1, <2>1 DEF ServerStarts
    <3>2. /\ server' \in [Server -> {"none", "new", "ended"} \union Serving]
          /\ \A r \in Server : server'[r] = IF r = s THEN "accept" ELSE server[r]
      BY <3>1 DEF IInv, Serving
    <3>3. "leak" \notin mishap => \A r \in Server : server[r] \notin Serving
      BY <1>0, <2>1 DEF IInv, PortInv
    <3>4. "leak" \notin mishap' => PortInv'
      BY <1>0, <3>1, <3>2, <3>3 DEF PortInv, Serving
    <3>5. Served'
      BY <3>1, <3>2 DEF Served
    <3> QED BY <3>1, <3>2, <3>4, <3>5 DEF IInv
  <2>2. CASE port # NoServer
    <3>1. /\ server[s] = "new" /\ server' = [server EXCEPT ![s] = "ended"]
          /\ gdb_server_running' = FALSE /\ UNCHANGED <<port, on, mishap>>
      BY <1>1, <2>2 DEF ServerStarts
    <3>2. /\ server' \in [Server -> {"none", "new", "ended"} \union Serving]
          /\ \A r \in Server : server'[r] = IF r = s THEN "ended" ELSE server[r]
      BY <3>1 DEF IInv, Serving
    <3>3. \A r \in Server : server'[r] \in Serving <=> server[r] \in Serving
      BY <3>1, <3>2 DEF Serving
    <3>4. "leak" \notin mishap' => PortInv'
      BY <3>1, <3>3 DEF IInv, PortInv
    <3>5. "leak" \notin mishap => port \in Server /\ server'[port] \in Serving
      BY <2>2, <3>3 DEF IInv, PortInv
    <3>6. Served'
      BY <3>1, <3>5 DEF Served, Serving
    <3> QED BY <3>1, <3>2, <3>4, <3>6 DEF IInv
  <2> QED BY <2>1, <2>2
<1>2. CASE ServerAccepts(s)
  BY <1>2, ServerGoesOn, Zenon DEF ServerAccepts, Serving
<1>3. CASE ServerReceives(s)
  BY <1>3, ServerGoesOn, Zenon DEF ServerReceives, Serving, sockets
<1>4. CASE ServerControls(s)
  BY <1>4, ServersSame DEF ServerControls, threads, sockets
<1>5. CASE ServerHalts(s)
  BY <1>5, ServerGoesOn, Zenon DEF ServerHalts, Serving, sockets
<1>6. CASE ServerSends(s)
  BY <1>6, ServerGoesOn, Zenon DEF ServerSends, Serving, sockets
<1>7. CASE ServerReturns(s)
  BY <1>7 DEF IInv, Served, ServerReturns, sockets
<1>8. CASE ServerFails(s)
  <2>1. /\ server' \in [Server -> {"none", "new", "ended"} \union Serving]
        /\ \A r \in Server : server'[r] = IF r = s THEN "ended" ELSE server[r]
    BY <1>8 DEF IInv, ServerFails
  <2>2. "leak" \notin mishap => \A r \in Server : r # s => server[r] \notin Serving
    BY <1>8 DEF IInv, PortInv, ServerFails, Serving
  <2>3. "leak" \notin mishap' => PortInv'
    BY <1>0, <1>8, <2>1, <2>2 DEF PortInv, ServerFails, Serving
  <2> QED BY <1>8, <2>1, <2>3 DEF IInv, Served, ServerFails
<1>9. CASE ServerRestarts(s)
  <2>0. UNCHANGED <<port, gdb_server_running>> /\ server[s] = "wait"
    BY <1>9 DEF ServerRestarts, sockets
  <2>1. CASE UNCHANGED <<on, server>> /\ mishap' = mishap \union {"fault"}
    BY <2>0, <2>1, ServersSame
  <2>2. CASE mishap' = mishap /\ (\/ server' = [server EXCEPT ![s] = "send"]
                                  \/ \E t \in Fresh : server' = [server EXCEPT ![s] = "send",
                                                                               ![t] = "new"])
    <3>1. /\ server' \in [Server -> {"none", "new", "ended"} \union Serving]
          /\ server'[s] = "send"
      BY <2>0, <2>2 DEF IInv, Serving, Fresh
    <3>2. \A r \in Server : server'[r] \in Serving <=> server[r] \in Serving
      BY <2>0, <2>2 DEF IInv, Serving, Fresh
    <3>3. "leak" \notin mishap' => PortInv' /\ port' = s
      BY <2>0, <2>2, <3>2 DEF IInv, PortInv, Serving
    <3> QED BY <2>0, <3>1, <3>3 DEF IInv, Served
  <2> QED BY <1>9, <2>1, <2>2 DEF ServerRestarts, StartRingBufferModule
<1> QED
  BY <1>1, <1>2, <1>3, <1>4, <1>5, <1>6, <1>7, <1>8, <1>9 DEF ServerStep

(* Every step keeps the invariant of the port. *)
LEMMA Inductive == Spec => []IInv
<1>1. IInv /\ [Next]_vars => IInv'
  <2> SUFFICES ASSUME IInv, [Next]_vars PROVE IInv'
    OBVIOUS
  <2>1. CASE \/ debug_start \/ mica_stop("stop") \/ mica_remove \/ CommandRaces \/ Joins
    BY <2>1, CommandStep
  <2>2. ASSUME NEW s \in Server,
               \/ ServerStep(s) \/ ServerReceives(s) \/ ServerControls(s)
               \/ ServerHalts(s) \/ ServerFails(s)
        PROVE  IInv'
    BY <2>2, ServerStepKeeps
  <2>3. CASE ToRtosStep \/ ToServerStep
    BY <2>3, ServersSame, SMT, SMTT(30)
    DEF ToRtosStep, ToRtosReceives, ToRtosWrites, ToRtosCancelled, ToServerStep,
        ToServerReads, ToServerSends, ToServerCancelled, threads, sockets
  <2>4. ASSUME NEW s \in Server, ReceiverStep(s) PROVE IInv'
    BY <2>4, ServersSame, SMT, SMTT(30) DEF ReceiverStep, ReceiverReceives, ReceiverSends, sockets
  <2>5. CASE GdbConnects \/ GdbCloses \/ RemoteStep \/ RemoteHangs
    BY <2>5, ServersSame, SMT, SMTT(30)
    DEF GdbConnects, GdbCloses, RemoteStep, RemoteReads, RemoteAnswers, RemoteHangs,
        threads, sockets
  <2>6. CASE UNCHANGED vars
    BY <2>6, ServersSame DEF vars, threads, sockets
  <2> QED BY <2>1, <2>2, <2>3, <2>4, <2>5, <2>6 DEF Next
<1> QED BY <1>1, InitIInv, PTL DEF Spec

(***************************************************************************)
(* However often the client is started, stopped and restarted by gdb, it   *)
(* has a server that is about to bind the port or has it, unless one met   *)
(* an error since the start or left its socket open (debug_start(),        *)
(* start_proxy_server()).                                                  *)
(***************************************************************************)
THEOREM ClientIsServed == Spec => []Served
<1>1. IInv => Served
  BY DEF IInv
<1> QED BY <1>1, Inductive, PTL

-----------------------------------------------------------------------------
(***************************************************************************)
(* What becomes of a line of packets: one joins it, the first one leaves   *)
(* it, or some are dropped.                                                *)
(***************************************************************************)
Before(a, b) == \A i \in DOMAIN a, j \in DOMAIN b : a[i] < b[j]

(* A line of two parts is in order if both are, and the first comes before the second. *)
LEMMA BetweenConcat ==
    ASSUME NEW a \in Seq(Nat), NEW b \in Seq(Nat), NEW low \in Nat, NEW high \in Nat
    PROVE  /\ a \o b \in Seq(Nat)
           /\ Between(low, a \o b, high) <=>
                  Between(low, a, high) /\ Between(low, b, high) /\ Before(a, b)
<1> DEFINE c == a \o b
           m == Len(a)
           n == Len(b)
<1>1. /\ c \in Seq(Nat) /\ Len(c) = m + n
      /\ \A i \in 1 .. m + n : c[i] = IF i <= m THEN a[i] ELSE b[i - m]
  BY ConcatProperties, Zenon
<1>2. /\ a \in [1 .. m -> Nat] /\ b \in [1 .. n -> Nat] /\ c \in [1 .. m + n -> Nat]
      /\ m \in Nat /\ n \in Nat
  BY <1>1, LenProperties, Zenon
<1> SUFFICES Between(low, c, high) <=>
                 Between(low, a, high) /\ Between(low, b, high) /\ Before(a, b)
  BY <1>1
<1> HIDE DEF c, m, n
<1>3. DOMAIN a = 1 .. m /\ DOMAIN b = 1 .. n /\ DOMAIN c = 1 .. m + n
  BY <1>2
<1>4. \A i \in 1 .. m : i \in 1 .. m + n /\ c[i] = a[i]
  BY <1>1, <1>2, SMT, SMTT(30)
<1>5. \A j \in 1 .. n : m + j \in 1 .. m + n /\ c[m + j] = b[j]
  BY <1>1, <1>2, SMT, SMTT(30)
<1>6. ASSUME Between(low, c, high)
      PROVE  Between(low, a, high) /\ Between(low, b, high) /\ Before(a, b)
  <2>1. /\ \A i \in 1 .. m + n : low < c[i] /\ c[i] <= high
        /\ \A i, j \in 1 .. m + n : i < j => c[i] < c[j]
    BY <1>3, <1>6, Zenon DEF Between
  <2>2. /\ \A i \in 1 .. m : low < a[i] /\ a[i] <= high
        /\ \A i, j \in 1 .. m : i < j => a[i] < a[j]
    BY <1>2, <1>4, <2>1
  <2>3. /\ \A i \in 1 .. n : low < b[i] /\ b[i] <= high
        /\ \A i, j \in 1 .. n : i < j => b[i] < b[j]
    BY <1>2, <1>5, <2>1, SMT, SMTT(30)
  <2>4. \A i \in 1 .. m, j \in 1 .. n : a[i] < b[j]
    BY <1>2, <1>4, <1>5, <2>1, SMT, SMTT(30)
  <2> QED BY <1>3, <2>2, <2>3, <2>4 DEF Between, Before
<1>7. ASSUME Between(low, a, high), Between(low, b, high), Before(a, b)
      PROVE  Between(low, c, high)
  <2>1. /\ \A i \in 1 .. m : low < a[i] /\ a[i] <= high
        /\ \A i, j \in 1 .. m : i < j => a[i] < a[j]
    BY <1>3, <1>7, Zenon DEF Between
  <2>2. /\ \A i \in 1 .. n : low < b[i] /\ b[i] <= high
        /\ \A i, j \in 1 .. n : i < j => b[i] < b[j]
    BY <1>3, <1>7, Zenon DEF Between
  <2>3. \A i \in 1 .. m, j \in 1 .. n : a[i] < b[j]
    BY <1>3, <1>7 DEF Before
  <2>4. ASSUME NEW i \in 1 .. m + n
        PROVE  \/ i \in 1 .. m /\ c[i] = a[i]
               \/ i > m /\ i - m \in 1 .. n /\ c[i] = b[i - m]
    BY <1>1, <1>2, SMT, SMTT(30)
  <2>5. \A i \in 1 .. m + n : low < c[i] /\ c[i] <= high
    BY <2>1, <2>2, <2>4
  <2>6. ASSUME NEW i \in 1 .. m + n, NEW j \in 1 .. m + n, i < j PROVE c[i] < c[j]
    <3>1. CASE j \in 1 .. m
      BY <1>2, <1>4, <2>1, <2>6, <3>1, SMT, SMTT(30)
    <3>2. CASE i \in 1 .. m /\ j > m
      BY <1>2, <2>3, <2>4, <3>2, SMT, SMTT(30)
    <3>3. CASE i > m
      <4>1. i - m < j - m /\ j > m
        BY <1>2, <2>6, <3>3, SMT, SMTT(30)
      <4>2. i - m \in 1 .. n /\ c[i] = b[i - m] /\ j - m \in 1 .. n /\ c[j] = b[j - m]
        BY <1>2, <2>4, <3>3, <4>1, SMT, SMTT(30)
      <4> QED BY <2>2, <4>1, <4>2
    <3> QED BY <1>2, <3>1, <3>2, <3>3, SMT, SMTT(30)
  <2> QED BY <1>3, <2>5, <2>6 DEF Between
<1> QED BY <1>6, <1>7

(* A packet with a higher number joins the line. *)
LEMMA LineJoined ==
    ASSUME NEW a \in Seq(Nat), NEW low \in Nat, NEW high \in Nat, NEW p \in Nat,
           high < p, low < p, Between(low, a, high)
    PROVE  /\ Between(low, a \o <<p>>, p)
           /\ Len(a \o <<p>>) = Len(a) + 1
           /\ Numbered(low, a) /\ p = low + Len(a) + 1 => Numbered(low, a \o <<p>>)
<1>1. /\ <<p>> \in Seq(Nat) /\ Len(<<p>>) = 1 /\ DOMAIN <<p>> = {1} /\ <<p>>[1] = p
      /\ Len(a) \in Nat /\ DOMAIN a = 1 .. Len(a)
  BY LenProperties, SMT, SMTT(30)
<1>2. /\ Len(a \o <<p>>) = Len(a) + 1 /\ DOMAIN (a \o <<p>>) = 1 .. Len(a) + 1
      /\ \A i \in 1 .. Len(a) + 1 :
             (a \o <<p>>)[i] = IF i <= Len(a) THEN a[i] ELSE <<p>>[i - Len(a)]
  BY <1>1, ConcatProperties, LenProperties, SMT, SMTT(30)
<1>3. Between(low, a, p) /\ Between(low, <<p>>, p) /\ Before(a, <<p>>)
  <2>1. \A i \in 1 .. Len(a) : a[i] \in Nat
    BY ElementOfSeq
  <2> QED BY <1>1, <2>1, SMT, SMTT(30) DEF Between, Before
<1>4. Between(low, a \o <<p>>, p)
  BY <1>1, <1>3, BetweenConcat, Zenon
<1>5. Numbered(low, a) /\ p = low + Len(a) + 1 => Numbered(low, a \o <<p>>)
  <2> SUFFICES ASSUME Numbered(low, a), p = low + Len(a) + 1,
                      NEW i \in 1 .. Len(a) + 1
               PROVE  (a \o <<p>>)[i] = low + i
    BY <1>2 DEF Numbered
  <2>1. CASE i <= Len(a)
    BY <1>1, <1>2, <2>1, SMT, SMTT(30) DEF Numbered
  <2>2. CASE i = Len(a) + 1
    BY <1>1, <1>2, <2>2, SMT, SMTT(30)
  <2> QED BY <1>1, <2>1, <2>2, SMT, SMTT(30)
<1> QED BY <1>2, <1>4, <1>5

(* The first packet leaves the line, and is the last one delivered. *)
LEMMA LineLeft ==
    ASSUME NEW a \in Seq(Nat), NEW low \in Nat, NEW high \in Nat, NEW p \in Nat,
           Between(low, <<p>> \o a, high)
    PROVE  /\ low < p /\ p <= high
           /\ Between(p, a, high) /\ Between(low, a, high)
           /\ Len(<<p>> \o a) = Len(a) + 1
           /\ Numbered(low, <<p>> \o a) => p = low + 1 /\ Numbered(p, a)
<1>1. /\ <<p>> \in Seq(Nat) /\ Len(<<p>>) = 1 /\ DOMAIN <<p>> = {1} /\ <<p>>[1] = p
      /\ Len(a) \in Nat /\ DOMAIN a = 1 .. Len(a)
  BY LenProperties, SMT, SMTT(30)
<1>2. /\ Len(<<p>> \o a) = Len(a) + 1 /\ DOMAIN (<<p>> \o a) = 1 .. Len(a) + 1
      /\ \A i \in 1 .. Len(a) + 1 :
             (<<p>> \o a)[i] = IF i <= 1 THEN <<p>>[i] ELSE a[i - 1]
  BY <1>1, ConcatProperties, LenProperties, SMT, SMTT(30)
<1>3. Between(low, <<p>>, high) /\ Between(low, a, high) /\ Before(<<p>>, a)
  BY <1>1, BetweenConcat, Zenon
<1>4. low < p /\ p <= high /\ Between(p, a, high)
  BY <1>1, <1>3 DEF Between, Before
<1>5. Numbered(low, <<p>> \o a) => p = low + 1 /\ Numbered(p, a)
  <2> SUFFICES ASSUME Numbered(low, <<p>> \o a)
               PROVE  p = low + 1 /\ Numbered(p, a)
    OBVIOUS
  <2>1. p = low + 1
    BY <1>1, <1>2, SMT, SMTT(30) DEF Numbered
  <2>2. \A i \in 1 .. Len(a) : a[i] = (<<p>> \o a)[i + 1] /\ i + 1 \in 1 .. Len(a) + 1
    BY <1>1, <1>2, SMT, SMTT(30)
  <2>3. \A i \in 1 .. Len(a) : a[i] = low + (i + 1)
    BY <1>2, <2>2, Zenon DEF Numbered
  <2> QED BY <1>1, <2>1, <2>3, SMT, SMTT(30) DEF Numbered
<1> QED BY <1>2, <1>3, <1>4, <1>5

-----------------------------------------------------------------------------
(***************************************************************************)
(* The lines are sequences of numbers.                                     *)
(***************************************************************************)
LEMMA HeldType == ASSUME NEW p \in Nat PROVE Held(p) \in Seq(Nat)
BY SMT, SMTT(30) DEF Held

(* What the server and the receiver hold, and both lines. *)
LEMMA LineType ==
    ASSUME FlowType
    PROVE  /\ InServer \in Seq(Nat) /\ Inbound \in Seq(Nat)
           /\ InReceiver \in Seq(Nat) /\ Outbound \in Seq(Nat)
<1>1. InServer \in Seq(Nat)
  BY SMT, SMTT(30) DEF FlowType, InServer
<1>2. InReceiver \in Seq(Nat)
  <2>1. CASE \E s \in Server : receiver[s] = "send"
    <3>1. (CHOOSE s \in Server : receiver[s] = "send") \in Server
      BY <2>1
    <3> QED BY <3>1, SMT, SMTT(30) DEF FlowType, InReceiver
  <2> QED BY <2>1, SMT, SMTT(30) DEF InReceiver
<1>3. /\ Held(to_rtos_buf) \in Seq(Nat) /\ Held(to_srv_buf) \in Seq(Nat)
      /\ Held(remote) \in Seq(Nat)
  BY HeldType, Zenon DEF FlowType
<1> QED BY <1>1, <1>2, <1>3, SMT, SMTT(30) DEF FlowType, Inbound, Outbound

(* At first nothing is under way. *)
LEMMA InitFlow == Init => FlowInv
<1> SUFFICES ASSUME Init PROVE FlowInv
  OBVIOUS
<1>1. FlowType
  BY SMT, SMTT(30) DEF Init, FlowType, NoPacket
<1>2. OnePort
  BY DEF Init, OnePort, Serving
<1>3. Holding /\ Halting
  BY DEF Init, Holding, Halting
<1>4. InServer = <<>> /\ InReceiver = <<>> /\ Held(NoPacket) = <<>>
  BY DEF Init, InServer, InReceiver, Held
<1>5. Inbound = <<>> /\ Outbound = <<>>
  BY <1>4, SMT, SMTT(30) DEF Init, Inbound, Outbound
<1> QED
  BY <1>1, <1>2, <1>3, <1>5, SMT, SMTT(30)
  DEF FlowInv, PacketsInOrder, Between, Numbered, Init

(* Every step keeps the types of queues, buffers and hands. *)
LEMMA FlowTypeStep == FlowType /\ Next => FlowType'
<1> SUFFICES ASSUME FlowType, Next PROVE FlowType'
  OBVIOUS
<1> USE DEF NoPacket
<1>1. CASE debug_start
  <2>1. server' \in [Server -> {"none", "new", "ended"} \union Serving]
    BY <1>1, Zenon DEF FlowType, debug_start, StartServer, Fresh
  <2> QED BY <1>1, <2>1, SMT, SMTT(30) DEF FlowType, debug_start, StartRingBufferModule, ends
<1>2. CASE mica_stop("stop") \/ mica_remove \/ CommandRaces \/ JoinToRtos
  BY <1>2 DEF FlowType, mica_stop, mica_remove, CommandRaces, JoinToRtos,
              threads, forward, backward, rtos, ends
<1>3. CASE JoinToServer
  BY <1>3, SMT, SMTT(30) DEF FlowType, JoinToServer, Serving, ends
<1>4. CASE CancelServer
  BY <1>4 DEF FlowType, CancelServer, forward, backward, rtos, ends
<1>5. CASE ToRtosStep
  <2>1. CASE ToRtosReceives
    <3>1. Head(from_server) \in Nat /\ Tail(from_server) \in Seq(Nat)
      BY <2>1, HeadTailProperties DEF FlowType, ToRtosReceives
    <3> QED BY <2>1, <3>1 DEF FlowType, ToRtosReceives, threads, backward, rtos, ends
  <2>2. CASE ToRtosWrites
    BY <2>2, SMT, SMTT(30) DEF FlowType, ToRtosWrites, threads, backward, rtos, ends
  <2>3. CASE ToRtosCancelled
    BY <2>3 DEF FlowType, ToRtosCancelled, threads, backward, rtos, ends
  <2> QED BY <1>5, <2>1, <2>2, <2>3 DEF ToRtosStep
<1>6. CASE ToServerStep
  <2>1. CASE ToServerReads
    <3>1. Head(rx_buffer) \in Nat /\ Tail(rx_buffer) \in Seq(Nat)
      BY <2>1, HeadTailProperties DEF FlowType, ToServerReads
    <3> QED BY <2>1, <3>1 DEF FlowType, ToServerReads, threads, forward, rtos, ends
  <2>2. CASE ToServerSends
    BY <2>2, SMT, SMTT(30) DEF FlowType, ToServerSends, threads, forward, rtos, ends
  <2>3. CASE ToServerCancelled
    BY <2>3 DEF FlowType, ToServerCancelled, threads, forward, rtos, ends
  <2> QED BY <1>6, <2>1, <2>2, <2>3 DEF ToServerStep
<1>7. ASSUME NEW s \in Server, ServerStep(s) PROVE FlowType'
  <2>1. CASE ServerStarts(s) \/ ServerReturns(s)
    BY <2>1, Zenon DEF FlowType, ServerStarts, ServerReturns, Serving, forward, backward, rtos, ends
  <2>2. CASE ServerAccepts(s)
    BY <2>2 DEF FlowType, ServerAccepts, Serving, forward, backward, rtos, ends
  <2>3. CASE ServerSends(s)
    BY <2>3, SMT, SMTT(30) DEF FlowType, ServerSends, Serving, backward, rtos, ends
  <2>4. CASE ServerRestarts(s)
    <3>1. server' \in [Server -> {"none", "new", "ended"} \union Serving]
      BY <2>4, Zenon DEF FlowType, ServerRestarts, Fresh, Serving
    <3>2. /\ UNCHANGED <<receiver, reply_buf, from_server, to_server, to_rtos_buf, to_srv_buf,
                         done, sent, back>>
          /\ tx_buffer' \in {tx_buffer, <<>>} /\ rx_buffer' \in {rx_buffer, <<>>}
          /\ remote' \in {remote, NoPacket}
      BY <2>4 DEF ServerRestarts, StartRingBufferModule, forward, backward, rtos, ends
    <3>3. tx_buffer' \in Seq(Nat) /\ rx_buffer' \in Seq(Nat) /\ remote' \in Nat
      <4>1. <<>> \in Seq(Nat)
        BY SMT, SMTT(30)
      <4>2. tx_buffer' \in Seq(Nat) /\ rx_buffer' \in Seq(Nat)
        BY <3>2, <4>1, Zenon DEF FlowType
      <4>3. remote' \in Nat
        BY <3>2, SMT, SMTT(30) DEF FlowType
      <4> QED BY <4>2, <4>3
    <3> QED BY <3>1, <3>2, <3>3 DEF FlowType
  <2> QED BY <1>7, <2>1, <2>2, <2>3, <2>4 DEF ServerStep
<1>8. ASSUME NEW s \in Server,
             ServerReceives(s) \/ ServerControls(s) \/ ServerHalts(s) \/ ServerFails(s)
      PROVE  FlowType'
  <2>1. CASE ServerReceives(s) \/ ServerHalts(s)
    <3>1. /\ server' \in [Server -> {"none", "new", "ended"} \union Serving]
          /\ sent' = sent + 1
      BY <2>1, Zenon DEF FlowType, ServerReceives, ServerHalts, Serving
    <3> QED BY <2>1, <3>1, SMT, SMTT(30) DEF FlowType, ServerReceives, ServerHalts, forward, backward, rtos
  <2>2. CASE ServerControls(s)
    BY <2>2 DEF FlowType, ServerControls, threads, forward, backward, rtos, ends
  <2>3. CASE ServerFails(s)
    BY <2>3 DEF FlowType, ServerFails, forward, backward, rtos, ends
  <2> QED BY <1>8, <2>1, <2>2, <2>3
<1>9. ASSUME NEW s \in Server, ReceiverStep(s) PROVE FlowType'
  <2>1. CASE ReceiverReceives(s)
    <3>1. Head(to_server) \in Nat /\ Tail(to_server) \in Seq(Nat)
      BY <2>1, HeadTailProperties DEF FlowType, ReceiverReceives
    <3> QED BY <2>1, <3>1 DEF FlowType, ReceiverReceives, forward, rtos, ends
  <2>2. CASE ReceiverSends(s)
    BY <2>2, Zenon DEF FlowType, ReceiverSends, forward, backward, rtos
  <2> QED BY <1>9, <2>1, <2>2 DEF ReceiverStep
<1>10. CASE GdbConnects \/ GdbCloses \/ RemoteHangs
  BY <1>10 DEF FlowType, GdbConnects, GdbCloses, RemoteHangs, threads, forward, backward, rtos,
               ends
<1>11. CASE RemoteStep
  <2>1. CASE RemoteReads
    <3>1. Head(tx_buffer) \in Nat /\ Tail(tx_buffer) \in Seq(Nat)
      BY <2>1, HeadTailProperties DEF FlowType, RemoteReads
    <3> QED BY <2>1, <3>1 DEF FlowType, RemoteReads, threads, backward, ends
  <2>2. CASE RemoteAnswers
    BY <2>2, SMT, SMTT(30) DEF FlowType, RemoteAnswers, threads, forward, ends
  <2> QED BY <1>11, <2>1, <2>2 DEF RemoteStep
<1> QED
  BY <1>1, <1>2, <1>3, <1>4, <1>5, <1>6, <1>7, <1>8, <1>9, <1>10, <1>11 DEF Next, Joins

(***************************************************************************)
(* The server and the receiver of the bound socket are the only ones.      *)
(***************************************************************************)
LEMMA OnePortStep == FlowType /\ OnePort /\ Next => OnePort'
<1> SUFFICES ASSUME FlowType, OnePort, Next PROVE OnePort'
  OBVIOUS
<1>0. NoServer \notin Server
  BY SMT, SMTT(30) DEF Server, NoServer
<1> DEFINE Kept(s) == /\ server'[s] \in Serving => server[s] \in Serving
                      /\ receiver'[s] # "none" => receiver[s] # "none"
                      /\ server'[s] \in {"none", "new", "accept"} =>
                             server[s] \in {"none", "new", "accept"} \/ receiver'[s] = "none"
<1>1. ASSUME port' = port, \A s \in Server : Kept(s) PROVE OnePort'
  BY <1>1 DEF OnePort
<1>2. CASE UNCHANGED <<server, receiver, port>>
  BY <1>1, <1>2
<1>3. CASE debug_start
  <2>1. \A s \in Server : server'[s] = server[s] \/ (server[s] = "none" /\ server'[s] = "new")
    BY <1>3 DEF FlowType, debug_start, StartServer, Fresh
  <2> QED BY <1>1, <1>3, <2>1 DEF debug_start, sockets, Serving
<1>4. CASE JoinToServer
  <2>1. \A s \in Server : server'[s] = server[s] \/ (server[s] = "halt" /\ server'[s] = "wait")
    BY <1>4 DEF FlowType, JoinToServer
  <2> QED BY <1>1, <1>4, <2>1 DEF JoinToServer, sockets, Serving
<1>5. CASE CancelServer
  <2>1. \A s \in Server : server'[s] = server[s] \/ server'[s] = "ended"
    BY <1>5 DEF FlowType, CancelServer
  <2> QED BY <1>1, <1>5, <2>1 DEF CancelServer, sockets, Serving
<1>6. ASSUME NEW s \in Server, ServerStarts(s) PROVE OnePort'
  <2>1. CASE port = NoServer
    <3>1. /\ \A r \in Server : server'[r] = IF r = s THEN "accept" ELSE server[r]
          /\ receiver' = receiver /\ port' = s /\ server[s] = "new"
      BY <1>6, <2>1 DEF FlowType, ServerStarts
    <3>2. \A r \in Server : server[r] \notin Serving /\ receiver[r] = "none"
      BY <1>0, <2>1 DEF OnePort
    <3> QED BY <3>1, <3>2 DEF OnePort
  <2>2. CASE port # NoServer
    <3>1. /\ \A r \in Server : server'[r] = IF r = s THEN "ended" ELSE server[r]
          /\ receiver' = receiver /\ port' = port
      BY <1>6, <2>2 DEF FlowType, ServerStarts
    <3> QED BY <1>1, <3>1 DEF Serving
  <2> QED BY <2>1, <2>2
<1>7. ASSUME NEW s \in Server, ServerAccepts(s) PROVE OnePort'
  <2>1. /\ \A r \in Server : /\ server'[r] = IF r = s THEN "recv" ELSE server[r]
                             /\ receiver'[r] = IF r = s THEN "recv" ELSE receiver[r]
        /\ port' = port /\ server[s] = "accept"
    BY <1>7 DEF FlowType, ServerAccepts
  <2> QED BY <2>1 DEF OnePort, Serving
<1>8. ASSUME NEW s \in Server, ServerReturns(s) \/ ServerSends(s) \/ ServerReceives(s)
                               \/ ServerHalts(s)
      PROVE  OnePort'
  <2>1. /\ \A r \in Server : r # s => server'[r] = server[r]
        /\ server[s] \in Serving /\ server'[s] \in {"ended", "recv", "send", "halt"}
        /\ receiver' = receiver /\ port' = port
    BY <1>8 DEF FlowType, ServerReturns, ServerSends, ServerReceives, ServerHalts, Serving,
                sockets
  <2> QED BY <1>1, <2>1
<1>9. ASSUME NEW s \in Server, ServerRestarts(s) PROVE OnePort'
  <2>1. /\ \A r \in Server : \/ server'[r] = server[r]
                             \/ r = s /\ server'[r] = "send"
                             \/ server[r] = "none" /\ server'[r] = "new"
        /\ server[s] = "wait" /\ receiver' = receiver /\ port' = port
    BY <1>9 DEF FlowType, ServerRestarts, Fresh, sockets
  <2> QED BY <1>1, <2>1 DEF Serving
<1>10. ASSUME NEW s \in Server, ServerFails(s) PROVE OnePort'
  <2>1. /\ \A r \in Server : /\ server'[r] = IF r = s THEN "ended" ELSE server[r]
                             /\ receiver'[r] = IF r = s THEN "none" ELSE receiver[r]
        /\ server[s] \in Serving
    BY <1>10 DEF FlowType, ServerFails, Serving
  <2>2. \A r \in Server : r # s => server[r] \notin Serving /\ receiver[r] = "none"
    BY <2>1 DEF OnePort
  <2> QED BY <2>1, <2>2 DEF OnePort, Serving
<1>11. ASSUME NEW s \in Server, ReceiverStep(s) PROVE OnePort'
  <2>1. /\ \A r \in Server : r # s => receiver'[r] = receiver[r]
        /\ receiver[s] # "none" /\ server' = server /\ port' = port
    BY <1>11 DEF FlowType, ReceiverStep, ReceiverReceives, ReceiverSends, sockets
  <2> QED BY <2>1 DEF OnePort
<1>12. CASE \/ mica_stop("stop") \/ mica_remove \/ CommandRaces \/ JoinToRtos
            \/ ToRtosStep \/ ToServerStep
  BY <1>2, <1>12
  DEF mica_stop, mica_remove, CommandRaces, JoinToRtos, ToRtosStep, ToRtosReceives,
      ToRtosWrites, ToRtosCancelled, ToServerStep, ToServerReads, ToServerSends,
      ToServerCancelled, threads, sockets
<1>13. ASSUME NEW s \in Server, ServerControls(s) PROVE OnePort'
  BY <1>2, <1>13 DEF ServerControls, threads, sockets
<1>14. CASE GdbConnects \/ GdbCloses \/ RemoteStep \/ RemoteHangs
  BY <1>2, <1>14
  DEF GdbConnects, GdbCloses, RemoteStep, RemoteReads, RemoteAnswers, RemoteHangs,
      threads, sockets
<1> QED
  BY <1>3, <1>4, <1>5, <1>6, <1>7, <1>8, <1>9, <1>10, <1>11, <1>12, <1>13, <1>14
  DEF Next, Joins, ServerStep

(* A packet in a queue or a ring buffer has a number. *)
LEMMA HeadIsPacket ==
    ASSUME FlowType, PacketsInOrder,
           NEW b \in {from_server, to_server, tx_buffer, rx_buffer}, b # <<>>
    PROVE  Head(b) # NoPacket
<1>1. /\ b \in Seq(Nat) /\ done \in Nat /\ back \in Nat /\ sent \in Nat
      /\ tx_buffer \in Seq(Nat) /\ rx_buffer \in Seq(Nat)
      /\ from_server \in Seq(Nat) /\ to_server \in Seq(Nat)
      /\ Held(to_rtos_buf) \in Seq(Nat) /\ Held(to_srv_buf) \in Seq(Nat)
      /\ Held(remote) \in Seq(Nat) /\ InServer \in Seq(Nat) /\ InReceiver \in Seq(Nat)
  BY LineType, HeldType, Zenon DEF FlowType
<1>2. /\ tx_buffer \o Held(to_rtos_buf) \in Seq(Nat)
      /\ tx_buffer \o Held(to_rtos_buf) \o from_server \in Seq(Nat)
      /\ InReceiver \o to_server \in Seq(Nat)
      /\ InReceiver \o to_server \o Held(to_srv_buf) \in Seq(Nat)
      /\ InReceiver \o to_server \o Held(to_srv_buf) \o rx_buffer \in Seq(Nat)
  BY <1>1, BetweenConcat, ZenonT(40)
<1>3. Between(done, tx_buffer, sent) /\ Between(done, from_server, sent)
  <2>1. Between(done, tx_buffer \o Held(to_rtos_buf) \o from_server, sent)
    BY <1>1, <1>2, BetweenConcat, Zenon DEF PacketsInOrder, Inbound
  <2>2. Between(done, tx_buffer \o Held(to_rtos_buf), sent) /\ Between(done, from_server, sent)
    BY <1>1, <1>2, <2>1, BetweenConcat, ZenonT(40)
  <2> QED BY <1>1, <2>2, BetweenConcat, Zenon
<1>4. Between(back, to_server, done) /\ Between(back, rx_buffer, done)
  <2>1. Between(back, InReceiver \o to_server \o Held(to_srv_buf) \o rx_buffer, done)
    BY <1>1, <1>2, BetweenConcat, Zenon DEF PacketsInOrder, Outbound
  <2>2. /\ Between(back, InReceiver \o to_server \o Held(to_srv_buf), done)
        /\ Between(back, rx_buffer, done)
    BY <1>1, <1>2, <2>1, BetweenConcat, ZenonT(40)
  <2>3. Between(back, InReceiver \o to_server, done)
    BY <1>1, <1>2, <2>2, BetweenConcat, Zenon
  <2> QED BY <1>1, <2>2, <2>3, BetweenConcat
<1>5. 1 \in DOMAIN b /\ Head(b) = b[1]
  BY <1>1, LenProperties, EmptySeq, SMT, SMTT(30)
<1>6. \E low, high \in Nat : Between(low, b, high)
  BY <1>1, <1>3, <1>4
<1>7. b[1] \in Nat
  BY <1>1, <1>5, LenProperties, ElementOfSeq
<1> QED BY <1>5, <1>6, <1>7, SMT, SMTT(30) DEF Between, NoPacket

(***************************************************************************)
(* Who holds a packet, and what a stop finds and leaves.                   *)
(***************************************************************************)
LEMMA HoldingStep == FlowInv /\ Next => Holding'
<1> SUFFICES ASSUME FlowInv, Next PROVE Holding'
  OBVIOUS
<1>0. FlowType /\ Holding /\ Halting /\ PacketsInOrder
  BY DEF FlowInv
<1>1. CASE UNCHANGED <<to_rtos, to_rtos_buf, to_srv, to_srv_buf>>
  BY <1>0, <1>1 DEF Holding
<1>2. CASE debug_start
  BY <1>0, <1>2 DEF Holding, Halting, debug_start, StartRingBufferModule
<1>3. CASE ToRtosReceives
  <2>1. Head(from_server) # NoPacket
    BY <1>0, <1>3, HeadIsPacket DEF FlowType, ToRtosReceives
  <2> QED BY <1>0, <1>3, <2>1 DEF Holding, ToRtosReceives, backward
<1>4. CASE ToServerReads
  <2>1. Head(rx_buffer) # NoPacket
    BY <1>0, <1>4, HeadIsPacket DEF FlowType, ToServerReads
  <2> QED BY <1>0, <1>4, <2>1 DEF Holding, ToServerReads, forward
<1>5. CASE ToRtosWrites \/ ToRtosCancelled
  BY <1>0, <1>5 DEF Holding, ToRtosWrites, ToRtosCancelled, backward
<1>6. CASE ToServerSends \/ ToServerCancelled
  BY <1>0, <1>6 DEF Holding, ToServerSends, ToServerCancelled, forward
<1>7. ASSUME NEW s \in Server, ServerRestarts(s) PROVE Holding'
  BY <1>0, <1>7 DEF Holding, Halting, ServerRestarts, StartRingBufferModule, forward, backward
<1>8. CASE \/ mica_stop("stop") \/ mica_remove \/ CommandRaces \/ Joins
  BY <1>1, <1>8 DEF mica_stop, mica_remove, CommandRaces, Joins, JoinToRtos, JoinToServer, CancelServer,
      forward, backward
<1>9. ASSUME NEW s \in Server,
             \/ ServerStarts(s) \/ ServerAccepts(s) \/ ServerReturns(s) \/ ServerReceives(s)
             \/ ServerControls(s) \/ ServerHalts(s) \/ ServerFails(s)
      PROVE  Holding'
  BY <1>1, <1>9 DEF ServerStarts, ServerAccepts, ServerReturns, ServerReceives, ServerControls,
      ServerHalts, ServerFails, forward, backward
<1>10. ASSUME NEW s \in Server, ServerSends(s) \/ ReceiverStep(s) PROVE Holding'
  BY <1>1, <1>10 DEF ServerSends, ReceiverStep, ReceiverReceives, ReceiverSends, forward, backward
<1>11. CASE GdbConnects \/ GdbCloses \/ RemoteStep \/ RemoteHangs
  BY <1>1, <1>11
  DEF GdbConnects, GdbCloses, RemoteStep, RemoteReads, RemoteAnswers, RemoteHangs,
      forward, backward
<1> QED
  BY <1>2, <1>3, <1>4, <1>5, <1>6, <1>7, <1>8, <1>9, <1>10, <1>11
  DEF Next, ServerStep, ToRtosStep, ToServerStep

(* How far a stop has come, and what is empty once the bridge is down. *)
LEMMA HaltingStep == FlowInv /\ Next => Halting'
<1> SUFFICES ASSUME FlowInv, Next PROVE Halting'
  OBVIOUS
<1>0. FlowType /\ OnePort /\ Holding /\ Halting
  BY DEF FlowInv
<1> DEFINE NoNewWait == \A s \in Server : server'[s] = "wait" => server[s] = "wait"
<1>1. ASSUME UNCHANGED <<stopping, on, tx_buffer, rx_buffer, remote>>, NoNewWait,
             to_rtos' = to_rtos \/ to_rtos # "none", to_srv' = to_srv \/ to_srv # "none",
             stage = "to_srv" => to_rtos' = to_rtos,
             mishap \subseteq mishap', "failed" \in mishap' => "failed" \in mishap
      PROVE  Halting'
  BY <1>0, <1>1 DEF Halting, stopping
<1>2. CASE debug_start
  <2>1. NoNewWait
    BY <1>0, <1>2 DEF FlowType, debug_start, StartServer, Fresh
  <2>2. \A s \in Server : server[s] # "wait"
    BY <1>2 DEF debug_start, Restarting
  <2> QED BY <1>0, <1>2, <2>1, <2>2
          DEF Halting, debug_start, StartRingBufferModule, stopping
<1>3. CASE mica_stop("stop") \/ mica_remove
  <2>1. \A s \in Server : server'[s] # "wait"
    BY <1>3 DEF mica_stop, mica_remove, Restarting, threads
  <2> QED BY <1>0, <1>3, <2>1
          DEF Halting, mica_stop, mica_remove, forward, backward, rtos
<1>4. CASE JoinToRtos
  BY <1>0, <1>4 DEF Halting, JoinToRtos, threads, forward, backward, rtos
<1>5. CASE JoinToServer
  <2>1. \A s \in Server : server[s] # "wait"
    BY <1>0, <1>5 DEF Halting, JoinToServer
  <2>2. /\ stopper = "rm" => stage' = "kill" /\ UNCHANGED <<stopper, server>>
        /\ stopper # "rm" => stage' = "none" /\ stopper' = "nobody"
    BY <1>5 DEF JoinToServer
  <2> QED BY <1>0, <1>5, <2>1, <2>2 DEF Halting, JoinToServer
<1>6. CASE CancelServer
  <2>1. NoNewWait
    BY <1>0, <1>6 DEF FlowType, CancelServer
  <2> QED BY <1>0, <1>6, <2>1 DEF Halting, CancelServer, forward, backward, rtos
<1>7. CASE CommandRaces
  BY <1>1, <1>7 DEF CommandRaces, threads, forward, backward, rtos
<1>8. CASE ToRtosReceives \/ ToRtosCancelled
  BY <1>1, <1>8, <1>0 DEF ToRtosReceives, ToRtosCancelled, Halting, threads, backward, rtos
<1>9. CASE ToRtosWrites
  BY <1>0, <1>9 DEF ToRtosWrites, Halting, stopping, threads, backward, rtos
<1>10. CASE ToServerReads \/ ToServerSends
  BY <1>0, <1>10 DEF ToServerReads, ToServerSends, Halting, stopping, threads, forward, rtos
<1>11. CASE ToServerCancelled
  BY <1>1, <1>11 DEF ToServerCancelled, threads, forward, rtos
<1>12. ASSUME NEW s \in Server, ServerStarts(s) \/ ServerAccepts(s) \/ ServerReturns(s)
                                \/ ServerReceives(s) \/ ServerSends(s)
       PROVE  Halting'
  <2>1. NoNewWait
    BY <1>0, <1>12 DEF FlowType, ServerStarts, ServerAccepts, ServerReturns, ServerReceives,
                       ServerSends
  <2> QED
    BY <1>1, <1>12, <2>1, SMT, SMTT(30) DEF ServerStarts, ServerAccepts, ServerReturns, ServerReceives, ServerSends, forward,
        backward, rtos
<1>13. ASSUME NEW s \in Server, ServerRestarts(s) PROVE Halting'
  <2>1. ~on /\ stage = "none" /\ server[s] = "wait"
    BY <1>0, <1>13 DEF Halting, ServerRestarts
  <2>2. \A r \in Server : server[r] = "wait" => r = s
    BY <1>0, <2>1 DEF OnePort, Serving
  <2>3. CASE UNCHANGED <<on, server, forward, backward, rtos>>
             /\ mishap' = mishap \union {"fault"}
    BY <1>1, <1>13, <2>3 DEF ServerRestarts, forward, backward, rtos
  <2>4. CASE StartRingBufferModule /\ mishap' = mishap
             /\ \/ server' = [server EXCEPT ![s] = "send"]
                \/ \E t \in Fresh : server' = [server EXCEPT ![s] = "send", ![t] = "new"]
    <3>1. \A r \in Server : server'[r] # "wait"
      BY <1>0, <2>1, <2>2, <2>4, Zenon DEF FlowType, Fresh
    <3> QED BY <1>0, <1>13, <2>1, <2>4, <3>1
            DEF Halting, ServerRestarts, StartRingBufferModule, stopping
  <2> QED BY <1>13, <2>3, <2>4 DEF ServerRestarts
<1>14. ASSUME NEW s \in Server, ServerHalts(s) PROVE Halting'
  <2>1. /\ server[s] = "recv"
        /\ \A r \in Server : server'[r] = IF r = s THEN "halt" ELSE server[r]
    BY <1>0, <1>14 DEF FlowType, ServerHalts
  <2>2. \A r \in Server : server'[r] # "wait"
    BY <1>0, <2>1 DEF OnePort, Serving
  <2> QED BY <1>0, <1>14, <2>2, SMT, SMTT(30) DEF Halting, ServerHalts, stopping, forward, backward, rtos
<1>15. ASSUME NEW s \in Server, ServerFails(s) PROVE Halting'
  <2>1. NoNewWait
    BY <1>0, <1>15 DEF FlowType, ServerFails
  <2> QED BY <1>0, <1>15, <2>1 DEF Halting, ServerFails, stopping, forward, backward, rtos
<1>16. ASSUME NEW s \in Server, ServerControls(s) PROVE Halting'
  BY <1>1, <1>16 DEF ServerControls, threads, forward, backward, rtos
<1>17. ASSUME NEW s \in Server, ReceiverStep(s) PROVE Halting'
  BY <1>1, <1>17, SMT, SMTT(30) DEF ReceiverStep, ReceiverReceives, ReceiverSends, forward, backward, rtos
<1>18. CASE GdbConnects \/ GdbCloses \/ RemoteHangs
  BY <1>1, <1>18 DEF GdbConnects, GdbCloses, RemoteHangs, threads, forward, backward, rtos
<1>19. CASE RemoteStep
  BY <1>0, <1>19
  DEF RemoteStep, RemoteReads, RemoteAnswers, Halting, stopping, threads, forward, backward
<1> QED
  BY <1>2, <1>3, <1>4, <1>5, <1>6, <1>7, <1>8, <1>9, <1>10, <1>11, <1>12, <1>13, <1>14,
     <1>15, <1>16, <1>17, <1>18, <1>19
  DEF Next, Joins, ServerStep, ToRtosStep, ToServerStep

-----------------------------------------------------------------------------
(***************************************************************************)
(* A packet that goes from one place to the next is in the same line.      *)
(***************************************************************************)
LEMMA Assoc == \A a, b, c \in Seq(Nat) : (a \o b) \o c = a \o (b \o c)
BY ConcatAssociative, SMT, SMTT(30)

(* A thread that holds no packet adds nothing to its line. *)
LEMMA NoneHeld == \A a \in Seq(Nat) : a \o <<>> = a /\ <<>> \o a = a
BY ConcatEmptySeq

(* A line is its first packet and the others. *)
LEMMA HeadAndTail ==
    ASSUME NEW a \in Seq(Nat), a # <<>>
    PROVE  /\ Head(a) \in Nat /\ Tail(a) \in Seq(Nat) /\ <<Head(a)>> \in Seq(Nat)
           /\ a = <<Head(a)>> \o Tail(a)
<1> DEFINE h == Head(a)
           t == Tail(a)
           c == <<h>> \o t
<1>1. /\ h \in Nat /\ t \in Seq(Nat) /\ Len(t) = Len(a) - 1 /\ h = a[1]
      /\ \A i \in 1 .. Len(t) : t[i] = a[i + 1]
      /\ Len(a) \in Nat \ {0}
  BY HeadTailProperties, EmptySeq, SMT, SMTT(30)
<1>2. /\ <<h>> \in Seq(Nat) /\ Len(<<h>>) = 1 /\ <<h>>[1] = h
  BY <1>1, SMT, SMTT(30)
<1>3. /\ c \in Seq(Nat) /\ Len(c) = 1 + Len(t)
      /\ \A i \in 1 .. 1 + Len(t) : c[i] = IF i <= 1 THEN <<h>>[i] ELSE t[i - 1]
  BY <1>1, <1>2, ConcatProperties, SMT, SMTT(30)
<1> HIDE DEF c, h, t
<1>4. Len(c) = Len(a) /\ \A i \in 1 .. Len(a) : c[i] = a[i]
  <2>1. Len(c) = Len(a) /\ 1 + Len(t) = Len(a)
    BY <1>1, <1>3, SMT, SMTT(30)
  <2>2. ASSUME NEW i \in 1 .. Len(a) PROVE c[i] = a[i]
    <3>1. CASE i = 1
      <4>1. 1 \in 1 .. 1 + Len(t)
        BY <1>1, <2>1, SMT, SMTT(30)
      <4> QED BY <1>1, <1>2, <1>3, <3>1, <4>1, SMT, SMTT(30)
    <3>2. CASE i # 1
      <4>1. i \in 1 .. 1 + Len(t) /\ ~(i <= 1) /\ i - 1 \in 1 .. Len(t) /\ (i - 1) + 1 = i
        BY <1>1, <2>1, <3>2, SMT, SMTT(30)
      <4>2. c[i] = t[i - 1]
        BY <1>3, <4>1
      <4> QED BY <1>1, <4>1, <4>2
    <3> QED BY <3>1, <3>2
  <2> QED BY <2>1, <2>2
<1>5. c = a
  BY <1>3, <1>4, SeqEqual, Zenon
<1> QED BY <1>1, <1>2, <1>5 DEF c, h, t

(* What is lost leaves the others in order. *)
LEMMA LineCut ==
    ASSUME NEW a \in Seq(Nat), NEW b \in Seq(Nat), NEW c \in Seq(Nat),
           NEW low \in Nat, NEW high \in Nat, Between(low, (a \o b) \o c, high)
    PROVE  Between(low, a \o c, high)
<1>1. a \o b \in Seq(Nat)
  BY BetweenConcat
<1>2. Between(low, a \o b, high) /\ Between(low, c, high) /\ Before(a \o b, c)
  BY <1>1, BetweenConcat, Zenon
<1>3. Between(low, a, high)
  BY <1>2, BetweenConcat
<1>4. Before(a, c)
  <2>1. /\ DOMAIN a = 1 .. Len(a) /\ DOMAIN (a \o b) = 1 .. Len(a \o b)
        /\ Len(a) \in Nat /\ Len(b) \in Nat
    BY <1>1, LenProperties
  <2>2. /\ Len(a \o b) = Len(a) + Len(b)
        /\ \A i \in 1 .. Len(a) + Len(b) :
               (a \o b)[i] = IF i <= Len(a) THEN a[i] ELSE b[i - Len(a)]
    BY ConcatProperties
  <2>3. \A i \in DOMAIN a : i \in DOMAIN (a \o b) /\ (a \o b)[i] = a[i]
    BY <2>1, <2>2, SMT, SMTT(30)
  <2> QED BY <1>2, <2>3 DEF Before
<1> QED BY <1>2, <1>3, <1>4, BetweenConcat

-----------------------------------------------------------------------------
(***************************************************************************)
(* What a step does to the two lines.                                      *)
(***************************************************************************)
Ordered ==
    /\ back <= done /\ done <= sent
    /\ PacketsInOrder
    /\ mishap = {} => Numbered(done, Inbound) /\ Numbered(back, Outbound)

(* A packet passes from one place of its line to the next. *)
LEMMA LinesSame ==
    ASSUME Ordered, Inbound' = Inbound, Outbound' = Outbound, UNCHANGED <<sent, done, back>>,
           mishap' = {} => mishap = {}
    PROVE  Ordered'
BY DEF Ordered, PacketsInOrder, Between, Numbered

(* Packets are lost: the others stay in order, and the loss is on record. *)
LEMMA LinesCut ==
    ASSUME Ordered, UNCHANGED <<sent, done, back>>, mishap' # {},
           Between(done, Inbound', sent), Between(back, Outbound', done)
    PROVE  Ordered'
BY DEF Ordered, PacketsInOrder, Between

(* A packet of gdb joins the line to the remote. *)
LEMMA LinesSent ==
    ASSUME FlowType, Ordered, Inbound' = Inbound \o <<sent + 1>>, Outbound' = Outbound,
           sent' = sent + 1, UNCHANGED <<done, back>>, mishap' = {} => mishap = {}
    PROVE  Ordered'
<1>1. /\ Inbound \in Seq(Nat) /\ sent \in Nat /\ done \in Nat /\ back \in Nat
      /\ sent + 1 \in Nat /\ sent < sent + 1 /\ done < sent + 1 /\ done <= sent + 1
      /\ Len(Inbound) \in Nat
  BY LineType, LenProperties, SMT, SMTT(30) DEF FlowType, Ordered
<1>2. /\ Between(done, Inbound, sent) /\ Between(back, Outbound, done) /\ back <= done
      /\ mishap = {} => /\ Len(Inbound) = sent - done /\ Len(Outbound) = done - back
                        /\ Numbered(done, Inbound) /\ Numbered(back, Outbound)
  BY DEF Ordered, PacketsInOrder
<1>3. /\ Between(done, Inbound', sent + 1) /\ Len(Inbound') = Len(Inbound) + 1
      /\ Numbered(done, Inbound) /\ sent + 1 = done + Len(Inbound) + 1 =>
             Numbered(done, Inbound')
  <2> DEFINE p == sent + 1
  <2>1. /\ Inbound \in Seq(Nat) /\ done \in Nat /\ sent \in Nat /\ p \in Nat
        /\ sent < p /\ done < p /\ Between(done, Inbound, sent)
    BY <1>1, <1>2, Zenon
  <2> HIDE DEF p
  <2>2. /\ Between(done, Inbound \o <<p>>, p) /\ Len(Inbound \o <<p>>) = Len(Inbound) + 1
        /\ Numbered(done, Inbound) /\ p = done + Len(Inbound) + 1 =>
               Numbered(done, Inbound \o <<p>>)
    BY <2>1, LineJoined, ZenonT(40)
  <2> QED BY <2>2, Zenon DEF p
<1>4. mishap' = {} => /\ Len(Inbound') = sent' - done' /\ Len(Outbound') = done' - back'
                      /\ Numbered(done', Inbound') /\ Numbered(back', Outbound')
  <2> SUFFICES ASSUME mishap' = {}
               PROVE  /\ Len(Inbound') = sent' - done' /\ Len(Outbound') = done' - back'
                      /\ Numbered(done', Inbound') /\ Numbered(back', Outbound')
    OBVIOUS
  <2>1. Len(Inbound) = sent - done /\ sent + 1 = done + Len(Inbound) + 1
    BY <1>1, <1>2, SMT, SMTT(30)
  <2>2. Len(Inbound') = sent' - done' /\ Numbered(done, Inbound')
    BY <1>1, <1>2, <1>3, <2>1, SMT, SMTT(30)
  <2> QED BY <1>2, <2>2
<1>5. back' <= done' /\ done' <= sent'
  BY <1>1, <1>2
<1>6. Between(done', Inbound', sent') /\ Between(back', Outbound', done')
  BY <1>2, <1>3
<1> QED BY <1>4, <1>5, <1>6 DEF Ordered, PacketsInOrder, Between, Numbered

(* The remote takes a packet and owes the answer. *)
LEMMA LinesRead ==
    ASSUME FlowType, Ordered, NEW p \in Nat, NEW rest \in Seq(Nat),
           Inbound = <<p>> \o rest, Inbound' = rest, Outbound' = Outbound \o <<p>>,
           done' = p, UNCHANGED <<sent, back, mishap>>
    PROVE  Ordered'
<1>1. /\ Outbound \in Seq(Nat) /\ sent \in Nat /\ done \in Nat /\ back \in Nat
      /\ Len(Outbound) \in Nat /\ Len(rest) \in Nat
  BY LineType, LenProperties DEF FlowType
<1>2. /\ Between(done, Inbound, sent) /\ Between(back, Outbound, done) /\ back <= done
      /\ mishap = {} => /\ Len(Inbound) = sent - done /\ Len(Outbound) = done - back
                        /\ Numbered(done, Inbound) /\ Numbered(back, Outbound)
  BY DEF Ordered, PacketsInOrder
<1>3. /\ done < p /\ p <= sent /\ Between(p, rest, sent) /\ Len(Inbound) = Len(rest) + 1
      /\ Numbered(done, Inbound) => p = done + 1 /\ Numbered(p, rest)
  <2>1. Between(done, <<p>> \o rest, sent) /\ sent \in Nat /\ done \in Nat
    BY <1>1, <1>2, Zenon
  <2>2. /\ done < p /\ p <= sent /\ Between(p, rest, sent)
        /\ Len(<<p>> \o rest) = Len(rest) + 1
        /\ Numbered(done, <<p>> \o rest) => p = done + 1 /\ Numbered(p, rest)
    BY <2>1, LineLeft, ZenonT(40)
  <2> QED BY <2>2
<1>4. back < p /\ back <= p
  BY <1>1, <1>2, <1>3, SMT, SMTT(30)
<1>5. /\ Between(back, Outbound', p) /\ Len(Outbound') = Len(Outbound) + 1
      /\ Numbered(back, Outbound) /\ p = back + Len(Outbound) + 1 => Numbered(back, Outbound')
  <2>1. /\ Outbound \in Seq(Nat) /\ back \in Nat /\ done \in Nat /\ done < p /\ back < p
        /\ Between(back, Outbound, done)
    BY <1>1, <1>2, <1>3, <1>4, Zenon
  <2>2. /\ Between(back, Outbound \o <<p>>, p) /\ Len(Outbound \o <<p>>) = Len(Outbound) + 1
        /\ Numbered(back, Outbound) /\ p = back + Len(Outbound) + 1 =>
               Numbered(back, Outbound \o <<p>>)
    BY <2>1, LineJoined, ZenonT(40)
  <2> QED BY <2>2, Zenon
<1>6. mishap' = {} => /\ Len(Inbound') = sent' - done' /\ Len(Outbound') = done' - back'
                      /\ Numbered(done', Inbound') /\ Numbered(back', Outbound')
  <2> SUFFICES ASSUME mishap' = {}
               PROVE  /\ Len(Inbound') = sent' - done' /\ Len(Outbound') = done' - back'
                      /\ Numbered(done', Inbound') /\ Numbered(back', Outbound')
    OBVIOUS
  <2>1. p = done + 1 /\ Numbered(p, rest) /\ Len(Inbound') = sent' - done'
    BY <1>1, <1>2, <1>3, SMT, SMTT(30)
  <2>2. p = back + Len(Outbound) + 1 /\ Len(Outbound') = done' - back'
    BY <1>1, <1>2, <1>5, <2>1, SMT, SMTT(30)
  <2> QED BY <1>2, <1>5, <2>1, <2>2, Zenon
<1>7. Between(done', Inbound', sent') /\ Between(back', Outbound', done')
  BY <1>3, <1>5
<1> QED BY <1>3, <1>4, <1>6, <1>7 DEF Ordered, PacketsInOrder, Between, Numbered

(* An answer reaches gdb. *)
LEMMA LinesAnswered ==
    ASSUME FlowType, Ordered, NEW p \in Nat, NEW rest \in Seq(Nat),
           Outbound = <<p>> \o rest, Outbound' = rest, Inbound' = Inbound,
           back' = p, UNCHANGED <<sent, done, mishap>>
    PROVE  Ordered'
<1>1. sent \in Nat /\ done \in Nat /\ back \in Nat /\ Len(rest) \in Nat
  BY LenProperties DEF FlowType
<1>2. /\ Between(done, Inbound, sent) /\ Between(back, Outbound, done) /\ done <= sent
      /\ mishap = {} => /\ Len(Inbound) = sent - done /\ Len(Outbound) = done - back
                        /\ Numbered(done, Inbound) /\ Numbered(back, Outbound)
  BY DEF Ordered, PacketsInOrder
<1>3. /\ back < p /\ p <= done /\ Between(p, rest, done) /\ Len(Outbound) = Len(rest) + 1
      /\ Numbered(back, Outbound) => p = back + 1 /\ Numbered(p, rest)
  BY <1>1, <1>2, LineLeft, SMT, SMTT(30)
<1>4. mishap' = {} => /\ Len(Inbound') = sent' - done' /\ Len(Outbound') = done' - back'
                      /\ Numbered(done', Inbound') /\ Numbered(back', Outbound')
  BY <1>1, <1>2, <1>3, SMT, SMTT(30)
<1>5. Between(done', Inbound', sent') /\ Between(back', Outbound', done')
  BY <1>2, <1>3
<1> QED BY <1>2, <1>3, <1>4, <1>5 DEF Ordered, PacketsInOrder, Between, Numbered

-----------------------------------------------------------------------------
(***************************************************************************)
(* The ends of the lines: a server with a packet, a receiver with an       *)
(* answer.                                                                 *)
(***************************************************************************)
Busy == {"send", "halt", "wait"}

(* The server in charge keeps what it holds. *)
LEMMA InServerSame ==
    ASSUME sent' = sent, \A s \in Server : server'[s] \in Busy <=> server[s] \in Busy
    PROVE  InServer' = InServer
BY DEF InServer, Busy

(* A server that waits for gdb holds nothing. *)
LEMMA InServerIdle ==
    ASSUME OnePort, NEW s \in Server, server[s] \in {"accept", "recv"}
    PROVE  InServer = <<>>
BY DEF OnePort, InServer, Serving

(* The one receiver holds the answer it is about to send, if any. *)
LEMMA InReceiverOf ==
    ASSUME OnePort, NEW s \in Server, receiver[s] # "none"
    PROVE  InReceiver = IF receiver[s] = "send" THEN <<reply_buf[s]>> ELSE <<>>
<1>1. \A r \in Server : receiver[r] # "none" => r = s
  BY DEF OnePort
<1>2. CASE receiver[s] = "send"
  <2> DEFINE c == CHOOSE r \in Server : receiver[r] = "send"
  <2>1. c \in Server /\ receiver[c] = "send"
    BY <1>2
  <2>2. c = s
    BY <1>1, <2>1
  <2> QED BY <1>2, <2>2, Zenon DEF InReceiver
<1>3. CASE receiver[s] # "send"
  BY <1>1, <1>3 DEF InReceiver
<1> QED BY <1>2, <1>3

(* The same in the state that a step leads to. *)
LEMMA InReceiverNext ==
    ASSUME OnePort', NEW s \in Server, receiver'[s] # "none"
    PROVE  InReceiver' = IF receiver'[s] = "send" THEN <<reply_buf'[s]>> ELSE <<>>
<1>1. \A r \in Server : receiver'[r] # "none" => r = s
  BY DEF OnePort
<1>2. CASE receiver'[s] = "send"
  <2> DEFINE c == CHOOSE r \in Server : receiver'[r] = "send"
  <2>1. c \in Server /\ receiver'[c] = "send"
    BY <1>2
  <2>2. c = s
    BY <1>1, <2>1
  <2> QED BY <1>2, <2>2, Zenon DEF InReceiver
<1>3. CASE receiver'[s] # "send"
  BY <1>1, <1>3 DEF InReceiver
<1> QED BY <1>2, <1>3

(***************************************************************************)
(* The steps of the threads that pass a packet on.                         *)
(***************************************************************************)
LEMMA ForwardStep ==
    ASSUME FlowInv, ToRtosStep PROVE Inbound' = Inbound
<1>1. /\ tx_buffer \in Seq(Nat) /\ from_server \in Seq(Nat) /\ to_rtos_buf \in Nat
      /\ InServer' = InServer
  BY InServerSame DEF FlowInv, FlowType, ToRtosStep, ToRtosReceives, ToRtosWrites,
                      ToRtosCancelled, threads, ends
<1>2. CASE ToRtosReceives
  <2> DEFINE h == Head(from_server)
             t == Tail(from_server)
  <2>1. h \in Nat /\ h # NoPacket /\ t \in Seq(Nat) /\ <<h>> \in Seq(Nat)
        /\ from_server = <<h>> \o t
    <3>1. from_server # <<>>
      BY <1>2 DEF ToRtosReceives
    <3>2. Head(from_server) # NoPacket
      BY <3>1, HeadIsPacket DEF FlowInv
    <3> QED BY <1>1, <3>1, <3>2, HeadAndTail
  <2>2. Held(to_rtos_buf) = <<>> /\ Held(to_rtos_buf') = <<h>>
    BY <1>2, <2>1 DEF ToRtosReceives, Held, FlowInv, Holding
  <2>3. tx_buffer' = tx_buffer /\ from_server' = t
    BY <1>2 DEF ToRtosReceives
  <2> HIDE DEF h, t
  <2>4. (tx_buffer \o <<>>) \o (<<h>> \o t) = (tx_buffer \o <<h>>) \o t
    <3>1. (tx_buffer \o <<h>>) \o t = tx_buffer \o (<<h>> \o t)
      BY <1>1, <2>1, Assoc, ZenonT(40)
    <3>2. tx_buffer \o <<>> = tx_buffer
      BY <1>1, NoneHeld
    <3> QED BY <3>1, <3>2
  <2>5. (tx_buffer' \o Held(to_rtos_buf')) \o from_server'
            = (tx_buffer \o Held(to_rtos_buf)) \o from_server
    BY <2>1, <2>2, <2>3, <2>4
  <2> QED BY <1>1, <2>5 DEF Inbound
<1>3. CASE ToRtosWrites
  <2>1. to_rtos_buf # NoPacket
    BY <1>3 DEF ToRtosWrites, FlowInv, Holding
  <2>2. /\ Held(to_rtos_buf) = <<to_rtos_buf>> /\ Held(to_rtos_buf') = <<>>
        /\ from_server' = from_server /\ tx_buffer' = Append(tx_buffer, to_rtos_buf)
    BY <1>3, <2>1 DEF ToRtosWrites, Held
  <2>3. /\ Append(tx_buffer, to_rtos_buf) = tx_buffer \o <<to_rtos_buf>>
        /\ Append(tx_buffer, to_rtos_buf) \in Seq(Nat)
    BY <1>1, AppendIsConcat, AppendProperties
  <2>4. tx_buffer' \o Held(to_rtos_buf') = tx_buffer \o Held(to_rtos_buf)
    BY <2>2, <2>3, NoneHeld
  <2> QED BY <1>1, <2>2, <2>4 DEF Inbound
<1>4. CASE ToRtosCancelled
  BY <1>1, <1>4 DEF ToRtosCancelled, Inbound
<1> QED BY <1>2, <1>3, <1>4 DEF ToRtosStep

(* An answer passes from the ring buffer to the queue of the receiver. *)
LEMMA BackwardStep ==
    ASSUME FlowInv, ToServerReads \/ ToServerSends PROVE Outbound' = Outbound
<1>1. /\ rx_buffer \in Seq(Nat) /\ to_server \in Seq(Nat) /\ to_srv_buf \in Nat
      /\ InReceiver \in Seq(Nat) /\ InReceiver \o to_server \in Seq(Nat)
      /\ InReceiver' = InReceiver /\ remote' = remote
  <2>1. InReceiver \in Seq(Nat) /\ rx_buffer \in Seq(Nat) /\ to_server \in Seq(Nat)
        /\ to_srv_buf \in Nat
    BY LineType DEF FlowInv, FlowType
  <2>2. InReceiver \o to_server \in Seq(Nat)
    BY <2>1, BetweenConcat
  <2>3. InReceiver' = InReceiver /\ remote' = remote
    BY Zenon DEF InReceiver, ToServerReads, ToServerSends, threads, rtos
  <2> QED BY <2>1, <2>2, <2>3
<1>2. CASE ToServerReads
  <2> DEFINE h == Head(rx_buffer)
             t == Tail(rx_buffer)
  <2>1. h \in Nat /\ h # NoPacket /\ t \in Seq(Nat) /\ <<h>> \in Seq(Nat)
        /\ rx_buffer = <<h>> \o t
    <3>1. rx_buffer # <<>>
      BY <1>2 DEF ToServerReads
    <3>2. Head(rx_buffer) # NoPacket
      BY <3>1, HeadIsPacket DEF FlowInv
    <3> QED BY <1>1, <3>1, <3>2, HeadAndTail
  <2>2. Held(to_srv_buf) = <<>> /\ Held(to_srv_buf') = <<h>>
    BY <1>2, <2>1 DEF ToServerReads, Held, FlowInv, Holding
  <2>3. to_server' = to_server /\ rx_buffer' = t
    BY <1>2 DEF ToServerReads
  <2> HIDE DEF h, t
  <2>4. ((InReceiver \o to_server) \o <<>>) \o (<<h>> \o t)
            = ((InReceiver \o to_server) \o <<h>>) \o t
    <3>1. ((InReceiver \o to_server) \o <<h>>) \o t = (InReceiver \o to_server) \o (<<h>> \o t)
      BY <1>1, <2>1, Assoc, ZenonT(40)
    <3>2. (InReceiver \o to_server) \o <<>> = InReceiver \o to_server
      BY <1>1, NoneHeld
    <3> QED BY <3>1, <3>2
  <2>5. ((InReceiver' \o to_server') \o Held(to_srv_buf')) \o rx_buffer'
            = ((InReceiver \o to_server) \o Held(to_srv_buf)) \o rx_buffer
    BY <1>1, <2>1, <2>2, <2>3, <2>4
  <2> QED BY <1>1, <2>5 DEF Outbound
<1>3. CASE ToServerSends
  <2>1. to_srv_buf # NoPacket
    BY <1>3 DEF ToServerSends, FlowInv, Holding
  <2>2. /\ Held(to_srv_buf) = <<to_srv_buf>> /\ Held(to_srv_buf') = <<>>
        /\ rx_buffer' = rx_buffer /\ to_server' = Append(to_server, to_srv_buf)
    BY <1>3, <2>1 DEF ToServerSends, Held
  <2>3. /\ Append(to_server, to_srv_buf) = to_server \o <<to_srv_buf>>
        /\ <<to_srv_buf>> \in Seq(Nat)
        /\ InReceiver \o Append(to_server, to_srv_buf) \in Seq(Nat)
    BY <1>1, AppendIsConcat, AppendProperties, BetweenConcat, SMT, SMTT(30)
  <2>4. (InReceiver \o Append(to_server, to_srv_buf)) \o <<>>
            = (InReceiver \o to_server) \o <<to_srv_buf>>
    BY <1>1, <2>3, Assoc, NoneHeld, SMT, SMTT(30)
  <2>5. (InReceiver' \o to_server') \o Held(to_srv_buf')
            = (InReceiver \o to_server) \o Held(to_srv_buf)
    BY <1>1, <2>2, <2>4
  <2> QED BY <1>1, <2>2, <2>5, Zenon DEF Outbound
<1> QED BY <1>2, <1>3

(* The two threads of the bridge pass packets on, or drop one when they end. *)
LEMMA OrderedThreads ==
    ASSUME FlowInv, Ordered, ToRtosStep \/ ToServerStep PROVE Ordered'
<1>1. CASE ToRtosStep
  <2>1. Inbound' = Inbound
    BY <1>1, ForwardStep
  <2>2. Outbound' = Outbound /\ UNCHANGED <<sent, done, back, mishap>>
    BY <1>1, Zenon DEF ToRtosStep, ToRtosReceives, ToRtosWrites, ToRtosCancelled, threads, backward,
                rtos, ends, Outbound, InReceiver
  <2> QED BY <2>1, <2>2, LinesSame
<1>2. CASE ToServerStep
  <2>1. Inbound' = Inbound /\ UNCHANGED <<sent, done, back>>
    BY <1>2 DEF ToServerStep, ToServerReads, ToServerSends, ToServerCancelled, threads, forward,
                rtos, ends, Inbound, InServer
  <2>2. CASE ToServerReads \/ ToServerSends
    <3>1. Outbound' = Outbound /\ mishap' = mishap
      BY <2>2, BackwardStep DEF ToServerReads, ToServerSends
    <3> QED BY <2>1, <3>1, LinesSame
  <2>3. CASE ToServerCancelled
    <3>1. /\ UNCHANGED <<to_server, rx_buffer, remote>> /\ InReceiver' = InReceiver
          /\ Held(to_srv_buf') = <<>>
      BY <2>3 DEF ToServerCancelled, threads, rtos, InReceiver, Held
    <3>2. CASE to_srv # "send"
      <4>1. Held(to_srv_buf) = <<>>
        BY <3>2 DEF FlowInv, Holding, Held
      <4>2. Outbound' = Outbound /\ mishap' = mishap
        BY <2>3, <3>1, <3>2, <4>1 DEF Outbound, ToServerCancelled
      <4> QED BY <2>1, <4>2, LinesSame
    <3>3. CASE to_srv = "send"
      <4> DEFINE a == InReceiver \o to_server
                 b == Held(to_srv_buf)
                 c == rx_buffer
                 d == Held(remote)
      <4>1. /\ InReceiver \in Seq(Nat) /\ to_server \in Seq(Nat) /\ b \in Seq(Nat)
            /\ c \in Seq(Nat) /\ d \in Seq(Nat) /\ done \in Nat /\ back \in Nat
        BY LineType, HeldType, Zenon DEF FlowInv, FlowType
      <4>2. /\ a \in Seq(Nat) /\ Outbound = ((a \o b) \o c) \o d
            /\ Outbound' = ((a \o <<>>) \o c) \o d
        BY <3>1, <4>1, BetweenConcat DEF Outbound
      <4>3. Between(back, Outbound, done) /\ Between(done, Inbound, sent)
        BY DEF Ordered, PacketsInOrder
      <4> HIDE DEF a, b, c, d
      <4>4. a \o b \in Seq(Nat) /\ c \o d \in Seq(Nat)
        BY <4>1, <4>2, BetweenConcat
      <4>5. Outbound = (a \o b) \o (c \o d) /\ Outbound' = a \o (c \o d)
        <5>1. ((a \o b) \o c) \o d = (a \o b) \o (c \o d)
          <6>1. a \o b \in Seq(Nat) /\ c \in Seq(Nat) /\ d \in Seq(Nat)
            BY <4>1, <4>4
          <6> QED BY <6>1, Assoc, Zenon
        <5>2. (a \o c) \o d = a \o (c \o d)
          <6>1. a \in Seq(Nat) /\ c \in Seq(Nat) /\ d \in Seq(Nat)
            BY <4>1, <4>2
          <6> QED BY <6>1, Assoc, Zenon
        <5>3. a \o <<>> = a
          BY <4>2, NoneHeld
        <5> QED BY <4>2, <5>1, <5>2, <5>3
      <4>6. Between(back, Outbound', done)
        <5>1. Between(back, (a \o b) \o (c \o d), done)
          BY <4>3, <4>5
        <5>2. Between(back, a \o (c \o d), done)
          BY <4>1, <4>2, <4>4, <5>1, LineCut, Zenon
        <5> QED BY <4>5, <5>2
      <4>7. mishap' # {}
        BY <2>3, <3>3 DEF ToServerCancelled
      <4> QED BY <2>1, <4>3, <4>6, <4>7, LinesCut
    <3> QED BY <3>2, <3>3
  <2> QED BY <1>2, <2>2, <2>3 DEF ToServerStep
<1> QED BY <1>1, <1>2

(***************************************************************************)
(* The steps of the remote.                                                *)
(***************************************************************************)
LEMMA OrderedRemote ==
    ASSUME FlowInv, Ordered, RemoteStep PROVE Ordered'
<1> DEFINE w == InReceiver \o to_server
           y == w \o Held(to_srv_buf)
<1>1. /\ tx_buffer \in Seq(Nat) /\ rx_buffer \in Seq(Nat) /\ from_server \in Seq(Nat)
      /\ Held(to_rtos_buf) \in Seq(Nat) /\ InServer \in Seq(Nat) /\ remote \in Nat
      /\ InServer' = InServer /\ InReceiver' = InReceiver
      /\ InReceiver \in Seq(Nat) /\ to_server \in Seq(Nat) /\ Held(to_srv_buf) \in Seq(Nat)
  <2>1. InServer' = InServer /\ InReceiver' = InReceiver
    BY Zenon DEF RemoteStep, RemoteReads, RemoteAnswers, threads, ends, InServer, InReceiver
  <2> QED BY <2>1, LineType, HeldType, Zenon DEF FlowInv, FlowType
<1>2. y \in Seq(Nat) /\ Outbound = (y \o rx_buffer) \o Held(remote)
  <2>1. w \in Seq(Nat)
    BY <1>1, BetweenConcat
  <2> QED BY <1>1, <2>1, BetweenConcat DEF Outbound
<1>3. CASE RemoteReads
  <2> DEFINE h == Head(tx_buffer)
             t == Tail(tx_buffer)
             r == ((t \o Held(to_rtos_buf)) \o from_server) \o InServer
  <2>1. h \in Nat /\ h # NoPacket /\ t \in Seq(Nat) /\ <<h>> \in Seq(Nat)
        /\ tx_buffer = <<h>> \o t
    <3>1. tx_buffer # <<>>
      BY <1>3 DEF RemoteReads
    <3>2. Head(tx_buffer) # NoPacket
      BY <3>1, HeadIsPacket DEF FlowInv
    <3> QED BY <1>1, <3>1, <3>2, HeadAndTail
  <2>2. Inbound' = r
    BY <1>1, <1>3 DEF Inbound, RemoteReads
  <2>3. /\ remote = NoPacket /\ remote' = h /\ done' = h /\ UNCHANGED <<sent, back, mishap>>
        /\ Outbound' = (y \o rx_buffer) \o Held(remote')
    BY <1>1, <1>3 DEF Outbound, RemoteReads, ends, backward
  <2> HIDE DEF h, t, y
  <2>4. Outbound = y \o rx_buffer /\ Outbound' = Outbound \o <<h>>
    <3>1. y \o rx_buffer \in Seq(Nat)
      BY <1>1, <1>2, BetweenConcat
    <3>2. Held(remote) = <<>> /\ Held(remote') = <<h>>
      BY <2>1, <2>3 DEF Held
    <3>3. (y \o rx_buffer) \o <<>> = y \o rx_buffer
      BY <3>1, NoneHeld
    <3> QED BY <1>2, <2>3, <3>2, <3>3
  <2>5. r \in Seq(Nat) /\ Inbound = <<h>> \o r
    <3>0. /\ <<h>> \in Seq(Nat) /\ t \in Seq(Nat) /\ Held(to_rtos_buf) \in Seq(Nat)
          /\ from_server \in Seq(Nat) /\ InServer \in Seq(Nat)
      BY <1>1, <2>1
    <3>1. t \o Held(to_rtos_buf) \in Seq(Nat)
      BY <1>1, <2>1, BetweenConcat
    <3>2. (t \o Held(to_rtos_buf)) \o from_server \in Seq(Nat)
      BY <1>1, <3>1, BetweenConcat
    <3>3. (<<h>> \o t) \o Held(to_rtos_buf) = <<h>> \o (t \o Held(to_rtos_buf))
      BY <3>0, Assoc, ZenonT(40)
    <3>4. (<<h>> \o (t \o Held(to_rtos_buf))) \o from_server
              = <<h>> \o ((t \o Held(to_rtos_buf)) \o from_server)
      <4>1. <<h>> \in Seq(Nat) /\ t \o Held(to_rtos_buf) \in Seq(Nat) /\ from_server \in Seq(Nat)
        BY <3>0, <3>1
      <4> QED BY <4>1, Assoc, Zenon
    <3>5. (<<h>> \o ((t \o Held(to_rtos_buf)) \o from_server)) \o InServer = <<h>> \o r
      <4>1. /\ <<h>> \in Seq(Nat) /\ InServer \in Seq(Nat)
            /\ (t \o Held(to_rtos_buf)) \o from_server \in Seq(Nat)
        BY <3>0, <3>2
      <4> QED BY <4>1, Assoc, Zenon DEF r
    <3>6. Inbound = <<h>> \o r
      BY <2>1, <3>3, <3>4, <3>5 DEF Inbound
    <3> QED BY <1>1, <3>2, <3>6, BetweenConcat
  <2> HIDE DEF r
  <2> QED BY <2>1, <2>2, <2>3, <2>4, <2>5, LinesRead, Zenon DEF FlowInv
<1>4. CASE RemoteAnswers
  <2>1. /\ remote # NoPacket /\ remote' = NoPacket /\ rx_buffer' = Append(rx_buffer, remote)
        /\ UNCHANGED <<sent, done, back, mishap>> /\ Inbound' = Inbound
        /\ Outbound' = (y \o rx_buffer') \o Held(remote')
    BY <1>1, <1>4 DEF RemoteAnswers, ends, forward, Outbound, Inbound
  <2> HIDE DEF y
  <2>2. Held(remote) = <<remote>> /\ Held(remote') = <<>> /\ <<remote>> \in Seq(Nat)
    BY <1>1, <2>1, SMT, SMTT(30) DEF Held
  <2>3. rx_buffer' = rx_buffer \o <<remote>> /\ rx_buffer' \in Seq(Nat)
    BY <1>1, <2>1, AppendIsConcat, AppendProperties
  <2>4. y \o rx_buffer' \in Seq(Nat)
    BY <1>2, <2>3, BetweenConcat
  <2>5. Outbound' = y \o (rx_buffer \o <<remote>>)
    BY <2>1, <2>2, <2>3, <2>4, NoneHeld
  <2>6. Outbound' = Outbound
    <3>1. (y \o rx_buffer) \o <<remote>> = y \o (rx_buffer \o <<remote>>)
      <4>1. y \in Seq(Nat) /\ rx_buffer \in Seq(Nat) /\ <<remote>> \in Seq(Nat)
        BY <1>1, <1>2, <2>2
      <4> QED BY <4>1, Assoc, Zenon
    <3> QED BY <1>2, <2>2, <2>5, <3>1
  <2> QED BY <2>1, <2>6, LinesSame
<1> QED BY <1>3, <1>4 DEF RemoteStep

(* The answer the receiver has is the first of its line. *)
LEMMA FirstAnswer ==
    ASSUME FlowType
    PROVE  LET rest == ((to_server \o Held(to_srv_buf)) \o rx_buffer) \o Held(remote)
           IN  rest \in Seq(Nat) /\ Outbound = InReceiver \o rest
<1> DEFINE a == InReceiver
           b == to_server
           c == Held(to_srv_buf)
           d == rx_buffer
           e == Held(remote)
<1>1. a \in Seq(Nat) /\ b \in Seq(Nat) /\ c \in Seq(Nat) /\ d \in Seq(Nat) /\ e \in Seq(Nat)
  BY LineType, HeldType, Zenon DEF FlowType
<1>2. Outbound = (((a \o b) \o c) \o d) \o e
  BY DEF Outbound
<1> SUFFICES /\ ((b \o c) \o d) \o e \in Seq(Nat)
             /\ (((a \o b) \o c) \o d) \o e = a \o (((b \o c) \o d) \o e)
  BY <1>2
<1> HIDE DEF a, b, c, d, e
<1>3. b \o c \in Seq(Nat)
  BY <1>1, BetweenConcat
<1>4. (b \o c) \o d \in Seq(Nat)
  BY <1>1, <1>3, BetweenConcat
<1>5. ((b \o c) \o d) \o e \in Seq(Nat)
  BY <1>1, <1>4, BetweenConcat
<1>6. (a \o b) \o c = a \o (b \o c)
  BY <1>1, Assoc, ZenonT(40)
<1>7. (a \o (b \o c)) \o d = a \o ((b \o c) \o d)
  <2>1. a \in Seq(Nat) /\ b \o c \in Seq(Nat) /\ d \in Seq(Nat)
    BY <1>1, <1>3
  <2> QED BY <2>1, Assoc, Zenon
<1>8. (a \o ((b \o c) \o d)) \o e = a \o (((b \o c) \o d) \o e)
  <2>1. a \in Seq(Nat) /\ (b \o c) \o d \in Seq(Nat) /\ e \in Seq(Nat)
    BY <1>1, <1>4
  <2> QED BY <2>1, Assoc, Zenon
<1> QED BY <1>5, <1>6, <1>7, <1>8

(* Without it, the others are in order. *)
LEMMA AnswerLost ==
    ASSUME FlowInv, Between(back, Outbound, done)
    PROVE  Between(back, (((<<>> \o to_server) \o Held(to_srv_buf)) \o rx_buffer)
                             \o Held(remote), done)
<1> DEFINE rest == ((to_server \o Held(to_srv_buf)) \o rx_buffer) \o Held(remote)
<1>1. /\ rest \in Seq(Nat) /\ Outbound = InReceiver \o rest /\ InReceiver \in Seq(Nat)
      /\ back \in Nat /\ done \in Nat /\ to_server \in Seq(Nat)
  BY FirstAnswer, LineType, Zenon DEF FlowInv, FlowType
<1>2. <<>> \o to_server = to_server
  BY <1>1, NoneHeld
<1> SUFFICES Between(back, rest, done)
  BY <1>2
<1> HIDE DEF rest
<1> QED BY <1>1, BetweenConcat

(***************************************************************************)
(* The steps of the servers and their receivers.                           *)
(***************************************************************************)
LEMMA OrderedServer ==
    ASSUME FlowInv, Ordered, NEW s \in Server,
           \/ ServerStep(s) \/ ServerReceives(s) \/ ServerControls(s) \/ ServerHalts(s)
           \/ ServerFails(s)
    PROVE  Ordered'
<1> DEFINE x == tx_buffer \o Held(to_rtos_buf)
           z == x \o from_server
<1>1. /\ from_server \in Seq(Nat) /\ InServer \in Seq(Nat) /\ sent \in Nat /\ done \in Nat
      /\ x \in Seq(Nat) /\ z \in Seq(Nat) /\ Inbound = z \o InServer
      /\ server \in [Server -> {"none", "new", "ended"} \union Serving]
  <2>1. /\ tx_buffer \in Seq(Nat) /\ Held(to_rtos_buf) \in Seq(Nat)
        /\ from_server \in Seq(Nat) /\ InServer \in Seq(Nat) /\ sent \in Nat /\ done \in Nat
        /\ server \in [Server -> {"none", "new", "ended"} \union Serving]
    BY LineType, HeldType, Zenon DEF FlowInv, FlowType
  <2>2. x \in Seq(Nat)
    BY <2>1, BetweenConcat
  <2>3. z \in Seq(Nat)
    BY <2>1, <2>2, BetweenConcat
  <2> QED BY <2>1, <2>2, <2>3 DEF Inbound
<1>2. ASSUME UNCHANGED <<server, receiver, reply_buf, sent, forward, backward, rtos, ends>>,
             mishap' = {} => mishap = {}
      PROVE  Ordered'
  <2>1. InServer' = InServer /\ InReceiver' = InReceiver
    BY <1>2 DEF InServer, InReceiver
  <2> QED BY <1>2, <2>1, LinesSame DEF Inbound, Outbound, forward, backward, rtos, ends
<1>3. ASSUME UNCHANGED <<receiver, reply_buf, forward, backward, rtos, ends>>,
             mishap' = {} => mishap = {},
             \A r \in Server : server'[r] \in Busy <=> server[r] \in Busy
      PROVE  Ordered'
  <2>1. InServer' = InServer /\ InReceiver' = InReceiver
    BY <1>3, InServerSame DEF InReceiver, ends
  <2> QED BY <1>3, <2>1, LinesSame DEF Inbound, Outbound, forward, backward, rtos, ends
<1>4. CASE ServerStarts(s)
  <2>1. \A r \in Server : server'[r] \in Busy <=> server[r] \in Busy
    BY <1>1, <1>4 DEF ServerStarts, Busy
  <2> QED BY <1>3, <1>4, <2>1 DEF ServerStarts
<1>5. CASE ServerAccepts(s)
  <2>1. /\ \A r \in Server : server'[r] \in Busy <=> server[r] \in Busy
        /\ \A r \in Server : receiver'[r] = "send" <=> receiver[r] = "send"
        /\ \A r \in Server : receiver[r] # "send"
    BY <1>1, <1>5, Zenon DEF ServerAccepts, Busy, FlowInv, FlowType, OnePort, Serving
  <2>2. InServer' = InServer /\ InReceiver = <<>> /\ InReceiver' = <<>>
    BY <1>5, <2>1, InServerSame DEF InReceiver, ends, ServerAccepts
  <2> QED BY <1>5, <2>2, LinesSame
          DEF ServerAccepts, Inbound, Outbound, forward, backward, rtos, ends
<1>6. CASE ServerReturns(s)
  <2>1. \A r \in Server : server'[r] \in Busy <=> server[r] \in Busy
    BY <1>1, <1>6 DEF ServerReturns, Busy
  <2> QED BY <1>3, <1>6, <2>1 DEF ServerReturns
<1>7. CASE ServerControls(s)
  BY <1>2, <1>7 DEF ServerControls, threads, ends
<1>8. CASE ServerSends(s)
  <2>1. /\ server[s] = "send" /\ \A r \in Server : server'[r] \notin Busy
    BY <1>1, <1>8 DEF ServerSends, Busy, FlowInv, OnePort, Serving
  <2>2. InServer = <<sent>> /\ InServer' = <<>>
    BY <2>1, Zenon DEF InServer, Busy
  <2>3. /\ Inbound' = (x \o from_server') \o <<>> /\ from_server' = Append(from_server, sent)
        /\ Outbound' = Outbound /\ UNCHANGED <<sent, done, back, mishap>>
    BY <1>8, <2>2 DEF ServerSends, Inbound, Outbound, InReceiver, backward, rtos, ends
  <2> HIDE DEF x
  <2>4. from_server' = from_server \o <<sent>> /\ from_server' \in Seq(Nat)
        /\ <<sent>> \in Seq(Nat)
    <3>1. from_server \in Seq(Nat) /\ sent \in Nat
      BY <1>1
    <3>2. /\ Append(from_server, sent) = from_server \o <<sent>>
          /\ Append(from_server, sent) \in Seq(Nat)
      BY <3>1, AppendIsConcat, AppendProperties
    <3>3. <<sent>> \in Seq(Nat)
      BY <3>1, SMT, SMTT(30)
    <3>4. from_server' = Append(from_server, sent)
      BY <2>3
    <3> QED BY <3>2, <3>3, <3>4
  <2>5. x \o from_server' \in Seq(Nat)
    BY <1>1, <2>4, BetweenConcat
  <2>6. Inbound' = x \o from_server'
    BY <2>3, <2>5, NoneHeld
  <2>7. (x \o from_server) \o <<sent>> = x \o (from_server \o <<sent>>)
    <3>1. x \in Seq(Nat) /\ from_server \in Seq(Nat) /\ <<sent>> \in Seq(Nat)
      BY <1>1, <2>4
    <3> QED BY <3>1, Assoc, Zenon
  <2>8. Inbound' = Inbound
    BY <1>1, <2>2, <2>4, <2>6, <2>7
  <2> QED BY <2>3, <2>8, LinesSame
<1>9. CASE ServerRestarts(s)
  <2>1. server[s] = "wait" /\ ~on
        /\ tx_buffer = <<>> /\ rx_buffer = <<>> /\ remote = NoPacket
    BY <1>9 DEF ServerRestarts, FlowInv, Halting
  <2>2. \A r \in Server : server'[r] \in Busy <=> server[r] \in Busy
    BY <1>1, <1>9, Zenon DEF ServerRestarts, Fresh, Busy
  <2>3. InServer' = InServer /\ InReceiver' = InReceiver
    BY <1>9, <2>2, InServerSame DEF InReceiver, ServerRestarts, ends
  <2>4. /\ UNCHANGED <<tx_buffer, to_rtos_buf, from_server, rx_buffer, to_srv_buf, to_server,
                       remote, done, sent, back>>
        /\ mishap' = {} => mishap = {}
    BY <1>9, <2>1
    DEF ServerRestarts, StartRingBufferModule, forward, backward, rtos, ends
  <2> QED BY <2>3, <2>4, LinesSame DEF Inbound, Outbound
<1>10. CASE ServerReceives(s) \/ ServerHalts(s)
  <2>1. InServer = <<>>
    BY <1>10, InServerIdle DEF ServerReceives, ServerHalts, FlowInv
  <2>2. server'[s] \in Busy /\ sent' = sent + 1 /\ (mishap' = {} => mishap = {})
    BY <1>1, <1>10 DEF ServerReceives, ServerHalts, Busy
  <2>3. InServer' = <<sent + 1>>
    BY <2>2 DEF InServer, Busy
  <2>4. Inbound = z
    BY <1>1, <2>1, NoneHeld
  <2>5. Inbound' = z \o <<sent + 1>> /\ Outbound' = Outbound /\ UNCHANGED <<done, back>>
    BY <1>10, <2>3, Zenon
    DEF ServerReceives, ServerHalts, Inbound, Outbound, InReceiver, forward, backward, rtos, ends
  <2> HIDE DEF z
  <2> QED BY <2>2, <2>4, <2>5, LinesSent DEF FlowInv
<1>11. CASE ServerFails(s)
  <2> DEFINE w == to_server \o Held(to_srv_buf)
  <2>1. /\ \A r \in Server : receiver'[r] # "send" /\ server'[r] \notin Busy
        /\ mishap' # {} /\ UNCHANGED <<sent, done, back>>
    BY <1>1, <1>11 DEF ServerFails, FlowInv, FlowType, OnePort, Serving, Busy, rtos, ends
  <2>2. InServer' = <<>> /\ InReceiver' = <<>>
    BY <2>1 DEF InServer, InReceiver, Busy
  <2>3. /\ Inbound' = z \o <<>>
        /\ Outbound' = (((<<>> \o to_server) \o Held(to_srv_buf)) \o rx_buffer) \o Held(remote)
    BY <1>11, <2>2 DEF ServerFails, Inbound, Outbound, forward, backward, rtos
  <2>4. Between(done, Inbound, sent) /\ Between(back, Outbound, done)
    BY DEF Ordered, PacketsInOrder
  <2>5. Between(done, Inbound', sent)
    <3> HIDE DEF z
    <3>1. Inbound' = z
      BY <1>1, <2>3, NoneHeld
    <3> QED BY <1>1, <2>4, <3>1, BetweenConcat
  <2>6. Between(back, Outbound', done)
    BY <2>3, <2>4, AnswerLost
  <2> QED BY <2>1, <2>5, <2>6, LinesCut, ZenonT(40)
<1> QED
  BY <1>4, <1>5, <1>6, <1>7, <1>8, <1>9, <1>10, <1>11 DEF ServerStep

(* The receiver takes an answer, sends it to gdb, or ends with it. *)
LEMMA OrderedReceiver ==
    ASSUME FlowInv, Ordered, OnePort', NEW s \in Server, ReceiverStep(s) PROVE Ordered'
<1> DEFINE rest == ((to_server \o Held(to_srv_buf)) \o rx_buffer) \o Held(remote)
<1>1. /\ rest \in Seq(Nat) /\ Outbound = InReceiver \o rest
      /\ to_server \in Seq(Nat) /\ reply_buf \in [Server -> Nat]
      /\ receiver \in [Server -> {"none", "recv", "send"}]
  BY FirstAnswer, Zenon DEF FlowInv, FlowType
<1>2. Inbound' = Inbound /\ UNCHANGED <<sent, done>>
  BY DEF ReceiverStep, ReceiverReceives, ReceiverSends, forward, rtos, ends, Inbound, InServer
<1>3. CASE ReceiverReceives(s)
  <2>1. InReceiver = <<>>
    BY <1>3, InReceiverOf DEF ReceiverReceives, FlowInv
  <2>2. receiver'[s] = "send" /\ reply_buf'[s] = Head(to_server)
    BY <1>1, <1>3 DEF ReceiverReceives
  <2>3. InReceiver' = <<Head(to_server)>>
    BY <2>2, InReceiverNext
  <2>4. to_server = <<Head(to_server)>> \o Tail(to_server)
    BY <1>1, <1>3, HeadAndTail DEF ReceiverReceives
  <2>5. <<>> \o to_server = to_server
    BY <1>1, NoneHeld
  <2>6. InReceiver' \o to_server' = InReceiver \o to_server
    BY <1>3, <2>1, <2>3, <2>4, <2>5 DEF ReceiverReceives
  <2>7. Outbound' = Outbound /\ UNCHANGED <<back, mishap>>
    BY <1>3, <2>6, Zenon DEF ReceiverReceives, Outbound, rtos, ends
  <2> QED BY <1>2, <2>7, LinesSame
<1>4. CASE ReceiverSends(s)
  <2>1. InReceiver = <<reply_buf[s]>> /\ reply_buf[s] \in Nat
    BY <1>1, <1>4, InReceiverOf DEF ReceiverSends, FlowInv
  <2>2. \A r \in Server : receiver'[r] # "send"
    BY <1>1, <1>4, Zenon DEF ReceiverSends, FlowInv, OnePort
  <2>3. InReceiver' = <<>>
    BY <2>2 DEF InReceiver
  <2>4. Outbound' = (((<<>> \o to_server) \o Held(to_srv_buf)) \o rx_buffer) \o Held(remote)
    BY <1>4, <2>3 DEF ReceiverSends, Outbound, backward, rtos
  <2>5. CASE gdb = s /\ accepted
    <3>1. Outbound' = rest
      BY <1>1, <2>4, NoneHeld
    <3>2. back' = reply_buf[s] /\ mishap' = mishap
      BY <1>4, <2>5 DEF ReceiverSends
    <3> HIDE DEF rest
    <3> QED BY <1>1, <1>2, <2>1, <3>1, <3>2, LinesAnswered DEF FlowInv
  <2>6. CASE ~(gdb = s /\ accepted)
    <3>1. back' = back /\ mishap' # {}
      BY <1>4, <2>6 DEF ReceiverSends
    <3>2. Between(back, Outbound, done) /\ Between(done, Inbound, sent)
      BY DEF Ordered, PacketsInOrder
    <3>3. Between(back, Outbound', done)
      BY <2>4, <3>2, AnswerLost
    <3> QED BY <1>2, <3>1, <3>2, <3>3, LinesCut
  <2> QED BY <2>5, <2>6
<1> QED BY <1>3, <1>4 DEF ReceiverStep

(***************************************************************************)
(* The commands.                                                           *)
(***************************************************************************)
LEMMA OrderedCommand ==
    ASSUME FlowInv, Ordered,
           \/ debug_start \/ mica_stop("stop") \/ mica_remove \/ CommandRaces \/ Joins
           \/ GdbConnects \/ GdbCloses \/ RemoteHangs
    PROVE  Ordered'
<1> DEFINE x == tx_buffer \o Held(to_rtos_buf)
           z == x \o from_server
<1>1. /\ tx_buffer \in Seq(Nat) /\ from_server \in Seq(Nat) /\ Held(to_rtos_buf) \in Seq(Nat)
      /\ InServer \in Seq(Nat) /\ sent \in Nat /\ done \in Nat /\ back \in Nat
      /\ server \in [Server -> {"none", "new", "ended"} \union Serving]
      /\ x \in Seq(Nat) /\ z \in Seq(Nat) /\ Inbound = z \o InServer
  <2>1. /\ tx_buffer \in Seq(Nat) /\ from_server \in Seq(Nat) /\ Held(to_rtos_buf) \in Seq(Nat)
        /\ InServer \in Seq(Nat) /\ sent \in Nat /\ done \in Nat /\ back \in Nat
        /\ server \in [Server -> {"none", "new", "ended"} \union Serving]
    BY LineType, HeldType, Zenon DEF FlowInv, FlowType
  <2>2. x \in Seq(Nat)
    BY <2>1, BetweenConcat
  <2>3. z \in Seq(Nat)
    BY <2>1, <2>2, BetweenConcat
  <2> QED BY <2>1, <2>2, <2>3 DEF Inbound
<1>2. Between(done, Inbound, sent) /\ Between(back, Outbound, done)
  BY DEF Ordered, PacketsInOrder
<1>3. CASE \/ mica_stop("stop") \/ mica_remove \/ CommandRaces \/ JoinToRtos
           \/ GdbConnects \/ GdbCloses \/ RemoteHangs
  <2>1. /\ UNCHANGED <<tx_buffer, to_rtos_buf, from_server, rx_buffer, to_srv_buf, to_server,
                       remote, server, receiver, reply_buf, done, sent, back>>
        /\ mishap \subseteq mishap'
    BY <1>3, Zenon DEF mica_stop, mica_remove, CommandRaces, JoinToRtos, GdbConnects, GdbCloses,
                RemoteHangs, threads, forward, backward, rtos, ends
  <2>2. Inbound' = Inbound /\ Outbound' = Outbound
    BY <2>1 DEF Inbound, Outbound, InServer, InReceiver
  <2> QED BY <2>1, <2>2, LinesSame
<1>4. CASE debug_start
  <2>1. tx_buffer = <<>> /\ rx_buffer = <<>> /\ remote = NoPacket
    BY <1>4 DEF debug_start, FlowInv, Halting
  <2>2. \A r \in Server : server'[r] \in Busy <=> server[r] \in Busy
    BY <1>1, <1>4 DEF debug_start, StartServer, Fresh, Busy
  <2>3. InServer' = InServer /\ InReceiver' = InReceiver
    BY <1>4, <2>2, InServerSame, Zenon DEF debug_start, InReceiver, ends
  <2>4. UNCHANGED <<tx_buffer, to_rtos_buf, from_server, rx_buffer, to_srv_buf, to_server,
                    remote, done, sent, back>>
    BY <1>4, <2>1 DEF debug_start, StartRingBufferModule, ends
  <2>5. mishap' = {} => mishap = {}
    BY <1>4, SMT, SMTT(30) DEF debug_start, FlowInv, Halting
  <2> QED BY <2>3, <2>4, <2>5, LinesSame DEF Inbound, Outbound
<1>5. CASE JoinToServer
  <2>1. Held(to_rtos_buf) = <<>> /\ Held(to_srv_buf) = <<>>
    BY <1>5 DEF JoinToServer, FlowInv, Holding, Halting, Held
  <2>2. \A r \in Server : server'[r] \in Busy <=> server[r] \in Busy
    BY <1>1, <1>5 DEF JoinToServer, Busy
  <2>3. InServer' = InServer /\ InReceiver' = InReceiver
    BY <1>5, <2>2, InServerSame DEF JoinToServer, InReceiver, ends
  <2>4. /\ UNCHANGED <<to_rtos_buf, from_server, to_srv_buf, to_server, done, sent, back>>
        /\ tx_buffer' = <<>> /\ rx_buffer' = <<>> /\ Held(remote') = <<>> /\ mishap' # {}
    BY <1>5 DEF JoinToServer, ends, Held
  <2>5. Between(done, Inbound', sent)
    <3>1. Inbound' = ((<<>> \o <<>>) \o from_server) \o InServer
      BY <2>1, <2>3, <2>4 DEF Inbound
    <3>2. <<>> \o <<>> = <<>> /\ <<>> \o from_server = from_server
      BY <1>1, NoneHeld, EmptySeq
    <3>3. (x \o from_server) \o InServer = x \o (from_server \o InServer)
      <4> HIDE DEF x
      <4>1. x \in Seq(Nat) /\ from_server \in Seq(Nat) /\ InServer \in Seq(Nat)
        BY <1>1
      <4> QED BY <4>1, Assoc, Zenon
    <3>4. from_server \o InServer \in Seq(Nat)
      BY <1>1, BetweenConcat
    <3>5. Between(done, x \o (from_server \o InServer), sent)
      BY <1>1, <1>2, <3>3
    <3> HIDE DEF x
    <3>6. Between(done, from_server \o InServer, sent)
      BY <1>1, <3>4, <3>5, BetweenConcat, Zenon
    <3> QED BY <3>1, <3>2, <3>6
  <2>6. Between(back, Outbound', done)
    <3> DEFINE w == InReceiver \o to_server
    <3>1. /\ InReceiver \in Seq(Nat) /\ to_server \in Seq(Nat) /\ rx_buffer \in Seq(Nat)
          /\ Held(remote) \in Seq(Nat)
      BY LineType, HeldType, Zenon DEF FlowInv, FlowType
    <3>2. w \in Seq(Nat)
      BY <3>1, BetweenConcat
    <3>3. Outbound = ((w \o <<>>) \o rx_buffer) \o Held(remote)
          /\ Outbound' = ((w \o <<>>) \o <<>>) \o <<>>
      BY <2>1, <2>3, <2>4 DEF Outbound
    <3> HIDE DEF w
    <3>4. w \o <<>> = w
      BY <3>2, NoneHeld
    <3>5. w \o rx_buffer \in Seq(Nat)
      BY <3>1, <3>2, BetweenConcat
    <3>6. Between(back, w \o rx_buffer, done)
      BY <1>1, <1>2, <3>1, <3>3, <3>4, <3>5, BetweenConcat, Zenon
    <3>7. Between(back, w, done)
      BY <1>1, <3>1, <3>2, <3>6, BetweenConcat
    <3> QED BY <3>3, <3>4, <3>7
  <2> QED BY <2>4, <2>5, <2>6, LinesCut
<1>6. CASE CancelServer
  <2>1. /\ UNCHANGED <<tx_buffer, to_rtos_buf, from_server, rx_buffer, to_srv_buf, to_server,
                       remote, receiver, reply_buf, done, sent, back>>
        /\ server' # server => mishap' # {}
        /\ server' = server => mishap' = mishap
        /\ \A r \in Server : server'[r] \in {server[r], "ended"}
    BY <1>1, <1>6, Zenon DEF CancelServer, forward, backward, rtos, ends
  <2>2. Outbound' = Outbound /\ Inbound' = z \o InServer'
    BY <2>1 DEF Outbound, InReceiver, Inbound
  <2>3. CASE server' = server
    <3>1. InServer' = InServer
      BY <2>1, <2>3 DEF InServer
    <3> QED BY <1>1, <2>1, <2>2, <2>3, <3>1, LinesSame
  <2>4. CASE server' # server
    <3>1. InServer' = InServer \/ InServer' = <<>>
      BY <2>1 DEF InServer
    <3> HIDE DEF z
    <3>2. Between(done, z, sent)
      BY <1>1, <1>2, BetweenConcat
    <3>3. z \o <<>> = z
      BY <1>1, NoneHeld
    <3>4. Between(done, Inbound', sent)
      BY <1>1, <1>2, <2>2, <3>1, <3>2, <3>3, Zenon
    <3> QED BY <1>2, <2>1, <2>2, <2>4, <3>4, LinesCut
  <2> QED BY <2>3, <2>4
<1> QED BY <1>3, <1>4, <1>5, <1>6 DEF Joins

-----------------------------------------------------------------------------
(* Every step keeps the invariant of the two lines. *)
LEMMA FlowInductive == Spec => []FlowInv
<1>1. ASSUME FlowInv, [Next]_vars PROVE FlowInv'
  <2>1. CASE Next
    <3>1. FlowType' /\ OnePort' /\ Holding' /\ Halting'
      BY <1>1, <2>1, FlowTypeStep, OnePortStep, HoldingStep, HaltingStep DEF FlowInv
    <3>2. Ordered
      BY <1>1 DEF FlowInv, Ordered
    <3>3. Ordered'
      BY <1>1, <2>1, <3>1, <3>2, OrderedThreads, OrderedRemote, OrderedServer, OrderedReceiver,
         OrderedCommand DEF Next
    <3> QED BY <3>1, <3>3 DEF FlowInv, Ordered
  <2>2. CASE UNCHANGED vars
    <3> USE <2>2 DEF vars, stopping, threads, sockets, forward, backward, rtos, ends
    <3>1. FlowType' /\ OnePort' /\ Holding' /\ Halting'
      BY <1>1, Zenon DEF FlowInv, FlowType, OnePort, Holding, Halting
    <3>2. Inbound' = Inbound /\ Outbound' = Outbound
      BY DEF Inbound, Outbound, InServer, InReceiver
    <3>3. UNCHANGED <<sent, done, back, mishap>>
      OBVIOUS
    <3>4. Ordered
      BY <1>1 DEF FlowInv, Ordered
    <3>5. Ordered'
      BY <3>2, <3>3, <3>4, LinesSame
    <3> QED BY <3>1, <3>5 DEF FlowInv, Ordered
  <2> QED BY <1>1, <2>1, <2>2
<1> QED BY <1>1, InitFlow, PTL DEF Spec

(***************************************************************************)
(* Packets reach the remote and answers gdb in the order they were sent,   *)
(* whatever stops, restarts, sessions and cancelled threads come between,  *)
(* and none is lost until something is stopped or fails: for any number of *)
(* servers and packets and any size of the queues and ring buffers.        *)
(***************************************************************************)
THEOREM PacketsKeepOrder == Spec => []PacketsInOrder
<1>1. FlowInv => PacketsInOrder
  BY DEF FlowInv
<1> QED BY <1>1, FlowInductive, PTL

=============================================================================
