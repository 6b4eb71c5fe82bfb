----------------------------- MODULE DebugBridge -----------------------------
(***************************************************************************)
(* The debug service of a client (mica/micad/services/debug): gdb talks to *)
(* a proxy server thread, the packets go through a message queue to a      *)
(* thread that writes them to the ring buffer of the remote, and the       *)
(* answers come back through another ring buffer, thread and queue to a    *)
(* thread of the server.  The commands start, stop and rm of the epoll     *)
(* thread and gdb's run command, which the server thread carries out by    *)
(* itself, start and end the two threads in the middle; the queues, the    *)
(* server and its sockets live on.                                         *)
(*                                                                         *)
(* Packets are numbered as gdb sends them, the remote answers each one.    *)
(***************************************************************************)
EXTENDS Integers, Sequences

CONSTANTS
    MaxServers,   \* bound: server threads that are ever started
    MaxPackets,   \* bound: packets gdb sends
    QueueSize,    \* MAX_QUEUE_SIZE
    RingSize      \* packets that fit in a ring buffer

ASSUME ConstantsAssumption ==
    /\ MaxServers \in Nat /\ MaxPackets \in Nat
    /\ QueueSize \in Nat \ {0} /\ RingSize \in Nat \ {0}

Server == 1..MaxServers
NoServer == 0
Packet == 1..MaxPackets
NoPacket == 0

VARIABLES
    on,           \* the client is started, with its debug service
    stopper,      \* who is in debug_stop(): nobody, a command, or gdb's run
    stage,        \* which thread debug_stop() waits for
    gdb_server_running,
    gdb_server_thread,  \* client->gdb_server_thread, or NoServer
    server,       \* per server thread: where it is
    receiver,     \* per server: where its recv_from_shared_mem_thread is
    port,         \* the server whose listening socket is open, or NoServer
    gdb,          \* the server gdb is connected to, or NoServer
    accepted,     \* that connection was accepted
    from_server, to_server,  \* the message queues
    to_rtos, to_rtos_buf,    \* data_to_rtos_thread and the packet it holds
    to_srv, to_srv_buf,      \* data_to_server_thread and the answer it holds
    tx_buffer, rx_buffer,    \* the ring buffers
    reply_buf,    \* per server: the answer its receiver holds
    remote,       \* the packet the remote is working on, or NoPacket
    hung,         \* the remote has stopped working
    sent,         \* the last packet the server got from gdb
    done,         \* the last packet the remote got
    back,         \* the last answer gdb got
    mishap        \* history: what has gone wrong

stopping == <<stopper, stage>>
threads == <<gdb_server_running, gdb_server_thread, server, receiver, reply_buf>>
sockets == <<port, gdb, accepted>>
forward == <<from_server, to_rtos, to_rtos_buf, tx_buffer>>
backward == <<rx_buffer, to_srv, to_srv_buf, to_server>>
rtos == <<remote, hung, done>>
ends == <<sent, back>>
vars == <<on, stopping, threads, sockets, forward, backward, rtos, ends, mishap>>

TypeOK ==
    /\ on \in BOOLEAN
    /\ stopper \in {"nobody", "stop", "rm", "run"}
    /\ stage \in {"none", "to_rtos", "to_srv", "kill"}
    /\ gdb_server_running \in BOOLEAN /\ gdb_server_thread \in Server \union {NoServer}
    /\ server \in [Server -> {"none", "new", "accept", "recv", "send", "halt", "wait", "ended"}]
    /\ receiver \in [Server -> {"none", "recv", "send"}]
    /\ reply_buf \in [Server -> Packet \union {NoPacket}]
    /\ port \in Server \union {NoServer} /\ gdb \in Server \union {NoServer}
    /\ accepted \in BOOLEAN
    /\ \A q \in {from_server, to_server} : q \in Seq(Packet) /\ Len(q) <= QueueSize
    /\ \A r \in {tx_buffer, rx_buffer} : r \in Seq(Packet) /\ Len(r) <= RingSize
    /\ to_rtos \in {"none", "recv", "write"} /\ to_rtos_buf \in Packet \union {NoPacket}
    /\ to_srv \in {"none", "read", "send"} /\ to_srv_buf \in Packet \union {NoPacket}
    /\ remote \in Packet \union {NoPacket} /\ hung \in BOOLEAN
    /\ sent \in 0..MaxPackets /\ done \in 0..MaxPackets /\ back \in 0..MaxPackets
    /\ mishap \subseteq {"cut", "leak", "failed", "fault", "race"}

Init ==
    /\ on = FALSE /\ stopper = "nobody" /\ stage = "none"
    /\ gdb_server_running = FALSE /\ gdb_server_thread = NoServer
    /\ server = [s \in Server |-> "none"] /\ receiver = [s \in Server |-> "none"]
    /\ reply_buf = [s \in Server |-> NoPacket]
    /\ port = NoServer /\ gdb = NoServer /\ accepted = FALSE
    /\ from_server = <<>> /\ to_server = <<>> /\ tx_buffer = <<>> /\ rx_buffer = <<>>
    /\ to_rtos = "none" /\ to_rtos_buf = NoPacket
    /\ to_srv = "none" /\ to_srv_buf = NoPacket
    /\ remote = NoPacket /\ hung = FALSE
    /\ sent = 0 /\ done = 0 /\ back = 0
    /\ mishap = {}

(***************************************************************************)
(* debug_start(), for the command start and for gdb's run: the queues are  *)
(* opened with what is in them, the ring buffers are empty, and a server   *)
(* is started unless one has said that it runs.                            *)
(***************************************************************************)
Fresh == {s \in Server : server[s] = "none" /\ \A r \in Server : r < s => server[r] # "none"}

StartRingBufferModule ==
    /\ on' = TRUE
    /\ to_rtos' = "recv" /\ to_srv' = "read"
    /\ tx_buffer' = <<>> /\ rx_buffer' = <<>>
    /\ remote' = NoPacket /\ hung' = FALSE
    /\ UNCHANGED <<from_server, to_server, to_rtos_buf, to_srv_buf, done>>

(* Anything that is not a server that is known to run: start one. *)
StartServer ==
    IF gdb_server_running
    THEN UNCHANGED <<gdb_server_thread, server>>
    ELSE \E s \in Fresh :
            /\ gdb_server_thread' = s
            /\ server' = [server EXCEPT ![s] = "new"]

Restarting == \E s \in Server : server[s] \in {"halt", "wait"}

debug_start ==
    /\ ~on /\ stopper = "nobody" /\ ~Restarting
    /\ StartRingBufferModule
    /\ StartServer
    /\ mishap' = mishap \ {"failed"}
    /\ UNCHANGED <<stopping, gdb_server_running, receiver, reply_buf, sockets, ends>>

(***************************************************************************)
(* debug_stop(), for the commands stop and rm and for gdb's run, by way of *)
(* mica_stop(): cancel one thread, wait for it, cancel the other, wait for *)
(* it, clear the ring buffers.  rm then cancels the server, where it waits *)
(* for gdb or for room in the queue: its sockets stay open, and            *)
(* gdb_server_running stays set.                                           *)
(***************************************************************************)
mica_stop(command) ==
    /\ on /\ stopper = "nobody" /\ ~Restarting
    /\ stopper' = command /\ stage' = "to_rtos"
    /\ UNCHANGED <<on, threads, sockets, forward, backward, rtos, ends, mishap>>

mica_remove ==
    \/ mica_stop("rm")
    \/ /\ ~on /\ stopper = "nobody" /\ ~Restarting
       /\ gdb_server_thread # NoServer
       /\ stopper' = "rm" /\ stage' = "kill"
       /\ UNCHANGED <<on, threads, sockets, forward, backward, rtos, ends, mishap>>

(* A command comes while gdb's run has the client stopped and started. *)
CommandRaces ==
    /\ Restarting
    /\ mishap' = mishap \union {"race"}
    /\ UNCHANGED <<on, stopping, threads, sockets, forward, backward, rtos, ends>>

JoinToRtos ==
    /\ stage = "to_rtos" /\ to_rtos = "none"
    /\ stage' = "to_srv"
    /\ UNCHANGED <<on, stopper, threads, sockets, forward, backward, rtos, ends, mishap>>

JoinToServer ==
    /\ stage = "to_srv" /\ to_srv = "none"
    /\ on' = FALSE
    /\ tx_buffer' = <<>> /\ rx_buffer' = <<>> /\ remote' = NoPacket
    /\ IF stopper = "rm"
       THEN stage' = "kill" /\ UNCHANGED <<stopper, server>>
       ELSE /\ stage' = "none" /\ stopper' = "nobody"
            /\ server' = [s \in Server |-> IF server[s] = "halt" THEN "wait" ELSE server[s]]
    /\ mishap' = mishap \union {"cut"}
    /\ UNCHANGED <<gdb_server_running, gdb_server_thread, receiver, reply_buf, sockets, to_rtos,
                   to_rtos_buf, from_server, to_srv, to_srv_buf, to_server, hung, done, ends>>

CancelServer ==
    /\ stage = "kill"
    /\ gdb_server_thread # NoServer => server[gdb_server_thread] # "new"
    /\ stopper' = "nobody" /\ stage' = "none"
    /\ gdb_server_thread' = NoServer
    /\ server' = [s \in Server |-> IF s = gdb_server_thread THEN "ended" ELSE server[s]]
    /\ mishap' = mishap \union
        (IF server'= server THEN {} ELSE {"cut", "leak"})
    /\ UNCHANGED <<on, gdb_server_running, receiver, reply_buf, sockets, forward, backward, rtos,
                   ends>>

(***************************************************************************)
(* data_to_rtos_thread(): cancelled while it waits for a packet, never     *)
(* while it waits for room in the ring buffer.                             *)
(***************************************************************************)
ToRtosReceives ==
    /\ to_rtos = "recv" /\ from_server # <<>>
    /\ to_rtos' = "write"
    /\ to_rtos_buf' = Head(from_server)
    /\ from_server' = Tail(from_server)
    /\ UNCHANGED <<on, stopping, threads, sockets, tx_buffer, backward, rtos, ends, mishap>>

ToRtosWrites ==
    /\ to_rtos = "write" /\ Len(tx_buffer) < RingSize
    /\ to_rtos' = "recv"
    /\ tx_buffer' = Append(tx_buffer, to_rtos_buf)
    /\ to_rtos_buf' = NoPacket
    /\ UNCHANGED <<on, stopping, threads, sockets, from_server, backward, rtos, ends, mishap>>

ToRtosCancelled ==
    /\ stage = "to_rtos" /\ to_rtos = "recv"
    /\ to_rtos' = "none"
    /\ UNCHANGED <<on, stopping, threads, sockets, from_server, to_rtos_buf, tx_buffer, backward,
                   rtos, ends, mishap>>

(***************************************************************************)
(* data_to_server_thread(): polls the ring buffer, and looks whether it is *)
(* cancelled each time.                                                    *)
(***************************************************************************)
ToServerReads ==
    /\ to_srv = "read" /\ rx_buffer # <<>>
    /\ to_srv' = "send"
    /\ to_srv_buf' = Head(rx_buffer)
    /\ rx_buffer' = Tail(rx_buffer)
    /\ UNCHANGED <<on, stopping, threads, sockets, forward, to_server, rtos, ends, mishap>>

ToServerSends ==
    /\ to_srv = "send" /\ Len(to_server) < QueueSize
    /\ to_srv' = "read"
    /\ to_server' = Append(to_server, to_srv_buf)
    /\ to_srv_buf' = NoPacket
    /\ UNCHANGED <<on, stopping, threads, sockets, forward, rx_buffer, rtos, ends, mishap>>

\* Faulty variant: cancelled in mq_send() only.
ToServerCancelled_Sending ==
    /\ stage = "to_srv" /\ to_srv = "send"
    /\ to_srv' = "none"
    /\ to_srv_buf' = NoPacket
    /\ mishap' = mishap \union {"cut"}
    /\ UNCHANGED <<on, stopping, threads, sockets, forward, rx_buffer, to_server, rtos, ends>>

ToServerCancelled ==
    /\ stage = "to_srv" /\ to_srv # "none"
    /\ to_srv' = "none"
    /\ to_srv_buf' = NoPacket
    /\ mishap' = mishap \union (IF to_srv = "send" THEN {"cut"} ELSE {})
    /\ UNCHANGED <<on, stopping, threads, sockets, forward, rx_buffer, to_server, rtos, ends>>

(***************************************************************************)
(* start_proxy_server().  The port can be bound while no listening socket  *)
(* is open on it.  A server that cannot bind clears gdb_server_running,    *)
(* also when another one runs.                                             *)
(***************************************************************************)
ServerStarts(s) ==
    /\ server[s] = "new"
    /\ IF port = NoServer
       THEN /\ server' = [server EXCEPT ![s] = "accept"]
            /\ port' = s
            /\ gdb_server_running' = TRUE
       ELSE /\ server' = [server EXCEPT ![s] = "ended"]
            /\ gdb_server_running' = FALSE
            /\ UNCHANGED port
    /\ UNCHANGED <<on, stopping, gdb_server_thread, receiver, reply_buf, gdb, accepted, forward,
                   backward, rtos, ends, mishap>>

ServerAccepts(s) ==
    /\ server[s] = "accept" /\ gdb = s /\ ~accepted
    /\ accepted' = TRUE
    /\ server' = [server EXCEPT ![s] = "recv"]
    /\ receiver' = [receiver EXCEPT ![s] = "recv"]
    /\ UNCHANGED <<on, stopping, gdb_server_running, gdb_server_thread, reply_buf, port, gdb,
                   forward, backward, rtos, ends, mishap>>

(* A packet from gdb: Ctrl-C and run look into the resource table, which a *)
(* client that is stopped does not have.                                   *)
ServerReceives(s) ==
    /\ server[s] = "recv" /\ gdb = s /\ accepted
    /\ sent < MaxPackets
    /\ sent' = sent + 1
    /\ server' = [server EXCEPT ![s] = "send"]
    /\ UNCHANGED <<on, stopping, gdb_server_running, gdb_server_thread, receiver, reply_buf,
                   sockets, forward, backward, rtos, back, mishap>>

ServerControls(s) ==
    /\ server[s] = "recv" /\ gdb = s /\ accepted
    /\ ~on
    /\ mishap' = mishap \union {"fault"}
    /\ UNCHANGED <<on, stopping, threads, sockets, forward, backward, rtos, ends>>

(* restart_client(): stop the client, wait for the remote to say so, in    *)
(* memory the stop may have unmapped, and start it again.                  *)
ServerHalts(s) ==
    /\ server[s] = "recv" /\ gdb = s /\ accepted
    /\ on
    /\ sent < MaxPackets
    /\ sent' = sent + 1
    /\ server' = [server EXCEPT ![s] = "halt"]
    /\ IF stopper = "nobody"
       THEN stopper' = "run" /\ stage' = "to_rtos" /\ UNCHANGED mishap
       ELSE mishap' = mishap \union {"race"} /\ UNCHANGED stopping
    /\ UNCHANGED <<on, gdb_server_running, gdb_server_thread, receiver, reply_buf, sockets,
                   forward, backward, rtos, back>>

ServerRestarts(s) ==
    /\ server[s] = "wait"
    /\ \/ /\ mishap' = mishap \union {"fault"}
          /\ UNCHANGED <<on, gdb_server_thread, server, forward, backward, rtos>>
       \/ /\ ~hung
          /\ StartRingBufferModule
          /\ IF gdb_server_running
             THEN /\ server' = [server EXCEPT ![s] = "send"]
                  /\ UNCHANGED gdb_server_thread
             ELSE \E t \in Fresh :
                    /\ server' = [server EXCEPT ![s] = "send", ![t] = "new"]
                    /\ gdb_server_thread' = t
          /\ UNCHANGED mishap
    /\ UNCHANGED <<stopping, gdb_server_running, receiver, reply_buf, sockets, ends>>

(* The packet goes into the queue when there is room. *)
\* Faulty variant: it goes in with a higher priority.
ServerSends_First(s) ==
    /\ server[s] = "send" /\ Len(from_server) < QueueSize
    /\ server' = [server EXCEPT ![s] = "recv"]
    /\ from_server' = <<sent>> \o from_server
    /\ UNCHANGED <<on, stopping, gdb_server_running, gdb_server_thread, receiver, reply_buf,
                   sockets, to_rtos, to_rtos_buf, tx_buffer, backward, rtos, ends, mishap>>

ServerSends(s) ==
    /\ server[s] = "send" /\ Len(from_server) < QueueSize
    /\ server' = [server EXCEPT ![s] = "recv"]
    /\ from_server' = Append(from_server, sent)
    /\ UNCHANGED <<on, stopping, gdb_server_running, gdb_server_thread, receiver, reply_buf,
                   sockets, to_rtos, to_rtos_buf, tx_buffer, backward, rtos, ends, mishap>>

(* gdb has closed the connection: the server returns, and leaves its *)
(* sockets and its receiver as they are.                             *)
ServerReturns(s) ==
    /\ server[s] = "recv" /\ ~(gdb = s /\ accepted)
    /\ server' = [server EXCEPT ![s] = "ended"]
    /\ gdb_server_running' = FALSE
    /\ mishap' = mishap \union {"leak"}
    /\ UNCHANGED <<on, stopping, gdb_server_thread, receiver, reply_buf, sockets, forward,
                   backward, rtos, ends>>

(* An error: no connection or no thread, a failing recv(), a control packet *)
(* or a restart that does not work out.  The server closes its sockets.     *)
\* Faulty variant: the listening socket stays open.
ServerFails_Listens(s) ==
    /\ server[s] \in {"accept", "recv", "wait"}
    /\ server' = [server EXCEPT ![s] = "ended"]
    /\ receiver' = [receiver EXCEPT ![s] = "none"]
    /\ reply_buf' = [reply_buf EXCEPT ![s] = NoPacket]
    /\ gdb' = IF gdb = s THEN NoServer ELSE gdb
    /\ accepted' = FALSE
    /\ gdb_server_running' = FALSE
    /\ mishap' = mishap \union {"cut", "failed"}
    /\ UNCHANGED <<on, stopping, gdb_server_thread, port, forward, backward, rtos, ends>>

ServerFails(s) ==
    /\ server[s] \in {"accept", "recv", "wait"}
    /\ server' = [server EXCEPT ![s] = "ended"]
    /\ receiver' = [receiver EXCEPT ![s] = "none"]
    /\ reply_buf' = [reply_buf EXCEPT ![s] = NoPacket]
    /\ gdb' = IF gdb = s THEN NoServer ELSE gdb
    /\ accepted' = FALSE
    /\ port' = NoServer
    /\ gdb_server_running' = FALSE
    /\ mishap' = mishap \union {"cut", "failed"}
    /\ UNCHANGED <<on, stopping, gdb_server_thread, forward, backward, rtos, ends>>

(***************************************************************************)
(* recv_from_shared_mem_thread(): ends with the first answer it cannot     *)
(* send.                                                                   *)
(***************************************************************************)
ReceiverReceives(s) ==
    /\ receiver[s] = "recv" /\ to_server # <<>>
    /\ receiver' = [receiver EXCEPT ![s] = "send"]
    /\ reply_buf' = [reply_buf EXCEPT ![s] = Head(to_server)]
    /\ to_server' = Tail(to_server)
    /\ UNCHANGED <<on, stopping, gdb_server_running, gdb_server_thread, server, sockets, forward,
                   rx_buffer, to_srv, to_srv_buf, rtos, ends, mishap>>

ReceiverSends(s) ==
    /\ receiver[s] = "send"
    /\ reply_buf' = [reply_buf EXCEPT ![s] = NoPacket]
    /\ IF gdb = s /\ accepted
       THEN /\ back' = reply_buf[s]
            /\ receiver' = [receiver EXCEPT ![s] = "recv"]
            /\ UNCHANGED mishap
       ELSE /\ receiver' = [receiver EXCEPT ![s] = "none"]
            /\ mishap' = mishap \union {"cut"}
            /\ UNCHANGED back
    /\ UNCHANGED <<on, stopping, gdb_server_running, gdb_server_thread, server, sockets, forward,
                   backward, rtos, sent>>

(***************************************************************************)
(* gdb and the remote (external).                                          *)
(***************************************************************************)
GdbConnects ==
    /\ gdb = NoServer /\ port # NoServer
    /\ gdb' = port /\ accepted' = FALSE
    /\ UNCHANGED <<on, stopping, threads, port, forward, backward, rtos, ends, mishap>>

GdbCloses ==
    /\ gdb # NoServer
    /\ gdb' = NoServer /\ accepted' = FALSE
    /\ UNCHANGED <<on, stopping, threads, port, forward, backward, rtos, ends, mishap>>

RemoteReads ==
    /\ ~hung /\ remote = NoPacket /\ tx_buffer # <<>>
    /\ remote' = Head(tx_buffer) /\ done' = Head(tx_buffer)
    /\ tx_buffer' = Tail(tx_buffer)
    /\ UNCHANGED <<on, stopping, threads, sockets, from_server, to_rtos, to_rtos_buf, backward,
                   hung, ends, mishap>>

RemoteAnswers ==
    /\ ~hung /\ remote # NoPacket /\ Len(rx_buffer) < RingSize
    /\ rx_buffer' = Append(rx_buffer, remote)
    /\ remote' = NoPacket
    /\ UNCHANGED <<on, stopping, threads, sockets, forward, to_srv, to_srv_buf, to_server, hung,
                   done, ends, mishap>>

RemoteHangs ==
    /\ on /\ ~hung
    /\ hung' = TRUE
    /\ UNCHANGED <<on, stopping, threads, sockets, forward, backward, remote, done, ends, mishap>>

Joins == JoinToRtos \/ JoinToServer \/ CancelServer
ToRtosStep == ToRtosReceives \/ ToRtosWrites \/ ToRtosCancelled
ToServerStep == ToServerReads \/ ToServerSends \/ ToServerCancelled
ServerStep(s) ==
    \/ ServerStarts(s) \/ ServerAccepts(s) \/ ServerSends(s) \/ ServerReturns(s)
    \/ ServerRestarts(s)
ReceiverStep(s) == ReceiverReceives(s) \/ ReceiverSends(s)
RemoteStep == RemoteReads \/ RemoteAnswers

(* Once micad has used memory that is not mapped, or two threads have      *)
(* stopped or started the client at a time, anything may happen.           *)
Defined == mishap \intersect {"fault", "race"} = {}

Next ==
    /\ Defined
    /\ \/ debug_start \/ mica_stop("stop") \/ mica_remove \/ CommandRaces
       \/ Joins \/ ToRtosStep \/ ToServerStep
       \/ \E s \in Server :
            \/ ServerStep(s) \/ ReceiverStep(s)
            \/ ServerReceives(s) \/ ServerControls(s) \/ ServerHalts(s) \/ ServerFails(s)
       \/ GdbConnects \/ GdbCloses \/ RemoteStep \/ RemoteHangs

(* The scheduler runs every thread; a remote that does not hang goes on.   *)
(* The answers pile up when gdb takes none, which no thread waits for but  *)
(* one that can be cancelled.                                              *)
Fairness ==
    /\ WF_vars(Defined /\ Joins)
    /\ WF_vars(Defined /\ ToRtosStep) /\ WF_vars(Defined /\ ToServerStep)
    /\ WF_vars(Defined /\ RemoteStep)
    /\ WF_vars(Defined /\ \E s \in Server : ServerStarts(s))

Spec == Init /\ [][Next]_vars /\ Fairness

(***************************************************************************)
(* Packets reach the remote, and answers gdb, in the order they were sent, *)
(* across stops, restarts by gdb and sessions, and none is lost as long as *)
(* nothing was stopped: what is on its way is all there is between the     *)
(* last one delivered and the last one sent.                               *)
(***************************************************************************)
Held(p) == IF p = NoPacket THEN <<>> ELSE <<p>>
InServer == IF \E s \in Server : server[s] \in {"send", "halt", "wait"} THEN <<sent>> ELSE <<>>
Inbound == tx_buffer \o Held(to_rtos_buf) \o from_server \o InServer
InReceiver == IF \E s \in Server : receiver[s] = "send"
              THEN <<reply_buf[CHOOSE s \in Server : receiver[s] = "send"]>> ELSE <<>>
Outbound == InReceiver \o to_server \o Held(to_srv_buf) \o rx_buffer \o Held(remote)

Between(low, line, high) ==
    /\ \A i \in DOMAIN line : low < line[i] /\ line[i] <= high
    /\ \A i, j \in DOMAIN line : i < j => line[i] < line[j]

PacketsInOrder ==
    /\ Between(done, Inbound, sent)
    /\ Between(back, Outbound, done)
    /\ mishap = {} => Len(Inbound) = sent - done /\ Len(Outbound) = done - back

(***************************************************************************)
(* A client that is started has a server: one that is about to bind the    *)
(* port or that has it; unless that server has met an error since the last *)
(* start, or an earlier one ended with its socket open: start_proxy_server *)
(* returns without closing it when gdb hangs up, and rm cancels it.        *)
(***************************************************************************)
Served ==
    on /\ mishap \intersect {"leak", "failed"} = {} =>
        \E s \in Server :
            server[s] = "new" \/ (server[s] \notin {"none", "ended"} /\ port = s)

(***************************************************************************)
(* A stop comes to its end, whatever the threads it waits for are doing;   *)
(* unless the remote hangs and a packet waits for room in its ring buffer. *)
(***************************************************************************)
StopReturns == (stopper # "nobody") ~> (stopper = "nobody" \/ hung \/ ~Defined)

-----------------------------------------------------------------------------
(***************************************************************************)
(* The inductive invariant behind Served.  Until a socket is left open,    *)
(* the server that has the port is one that has bound it, and the only     *)
(* one; and gdb_server_running is not set without it.                      *)
(***************************************************************************)
Serving == {"accept", "recv", "send", "halt", "wait"}

PortInv ==
    /\ \A s \in Server : server[s] \in Serving <=> port = s
    /\ gdb_server_running => port # NoServer

IInv ==
    /\ server \in [Server -> {"none", "new", "ended"} \union Serving]
    /\ port \in Server \union {NoServer}
    /\ "leak" \notin mishap => PortInv
    /\ Served

(***************************************************************************)
(* The inductive invariant behind PacketsInOrder.  One server has a packet *)
(* at a time, and one receiver an answer: the ones of the socket that is   *)
(* bound.  A thread holds a packet when it is about to pass it on, the     *)
(* threads of a client that is off are gone and its ring buffers empty, a  *)
(* stop waits for threads of a client that is on, and gdb's run starts     *)
(* again a client that was stopped, with what that cost.  Until something  *)
(* is lost, the packets on the way bear consecutive numbers.               *)
(***************************************************************************)
FlowType ==
    /\ server \in [Server -> {"none", "new", "ended"} \union Serving]
    /\ receiver \in [Server -> {"none", "recv", "send"}]
    /\ reply_buf \in [Server -> Nat]
    /\ from_server \in Seq(Nat) /\ to_server \in Seq(Nat)
    /\ tx_buffer \in Seq(Nat) /\ rx_buffer \in Seq(Nat)
    /\ to_rtos_buf \in Nat /\ to_srv_buf \in Nat /\ remote \in Nat
    /\ sent \in Nat /\ done \in Nat /\ back \in Nat

OnePort ==
    \A s \in Server :
        /\ server[s] \in Serving \/ receiver[s] # "none" => port = s
        /\ server[s] \in {"none", "new", "accept"} => receiver[s] = "none"

Holding ==
    /\ to_rtos = "write" <=> to_rtos_buf # NoPacket
    /\ to_srv = "send" <=> to_srv_buf # NoPacket

Halting ==
    /\ stage = "none" <=> stopper = "nobody"
    /\ stage \in {"to_rtos", "to_srv"} => on
    /\ stage = "to_srv" => to_rtos = "none"
    /\ ~on => /\ to_rtos = "none" /\ to_srv = "none"
              /\ tx_buffer = <<>> /\ rx_buffer = <<>> /\ remote = NoPacket
    /\ \A s \in Server : server[s] = "wait" => ~on /\ stage = "none" /\ "cut" \in mishap
    /\ "failed" \in mishap => "cut" \in mishap

Numbered(low, line) == \A i \in DOMAIN line : line[i] = low + i

FlowInv ==
    /\ FlowType /\ OnePort /\ Holding /\ Halting
    /\ back <= done /\ done <= sent /\ PacketsInOrder
    /\ mishap = {} => Numbered(done, Inbound) /\ Numbered(back, Outbound)

=============================================================================
