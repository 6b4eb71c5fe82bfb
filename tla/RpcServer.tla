------------------------------ MODULE RpcServer ------------------------------
(***************************************************************************)
(* The RPC service of micad: threads of the remote operating system call   *)
(* functions of the host by messages on one rpmsg endpoint.                *)
(*                                                                         *)
(* rpmsg_rpc_server_cb() runs in the notifier thread.  It looks the        *)
(* function up and runs its handler at once or, in a build with            *)
(* MULTI_WORKERS, puts the request into a ring that a fixed set of worker  *)
(* threads empties (rpc_backend.c, rpc_workers.c).  A call is named by the *)
(* thread that makes it and its number, which stands for the trace id; a   *)
(* FILE handle is named by the call that opened it.                        *)
(***************************************************************************)
EXTENDS RpcHandlers, FiniteSets, Integers

CONSTANTS
    Thread,         \* the calling threads of the remote
    Worker,         \* WORKERS threads of the server
    QueueSize,      \* MAX_QUEUE_SIZE
    Names,          \* the functions called; a name without a handler is an unknown id
    MaxCalls,       \* bound: calls of each thread
    MaxStuck        \* bound: calls that block in the host for ever

ASSUME RpcAssumption ==
    /\ QueueSize \in Nat \ {0}
    /\ MaxCalls \in Nat
    /\ MaxStuck \in Nat
    /\ "notifier" \notin Worker

VARIABLES
    client,     \* per thread: its calls so far, whether it waits, the handle it holds
    inbox,      \* requests on their way to the server, in order
    out,        \* answers on their way back, in order
    q,          \* rx_q.q
    head,       \* rx_q.head
    tail,       \* rx_q.tail
    exec,       \* what each thread that runs handlers does
    open,       \* the FILEs open in the server
    ended,      \* history: calls the server is done with, answered or not
    misused,    \* history: handles used or closed when no longer open
    hurried     \* history: handles closed by a client with a use still under way

ring == <<q, head, tail>>
vars == <<client, inbox, out, ring, exec, open, ended, misused, hurried>>

-----------------------------------------------------------------------------
Trace == Thread \X (1..MaxCalls)
NoTrace == <<>>

Request ==
    [trace : Trace, name : Names, handle : Trace \union {NoTrace}]
Answer ==
    [id : Names \union {h.id : h \in Handlers} \union {h.reply : h \in Handlers},
     trace : Trace \union {NoTrace}, opened : Trace \union {NoTrace}]
NoRequest == [trace |-> NoTrace, name |-> None, handle |-> NoTrace]

(***************************************************************************)
(* The threads that run handlers: the workers of a build with              *)
(* MULTI_WORKERS, the notifier of a build without.                         *)
(***************************************************************************)
Executor == DOMAIN exec
MultiWorkers == "notifier" \notin Executor

Ready == [pc |-> "ready", req |-> NoRequest, service |-> None]
Asleep == [Ready EXCEPT !.pc = "sleep"]

Known == {h.name : h \in Handlers}
IdOf(name) == IF name \in Known THEN Handler(name).id ELSE name
FileUse(name) == IF name \in Known THEN Handler(name).file ELSE None
Answered(name) == name \in Known => Handler(name).reply # None
Found == [name \in Names |-> find_service(IdOf(name))]

(***************************************************************************)
(* The requests in the ring, oldest first.                                 *)
(***************************************************************************)
Queued ==
    [i \in 1..((tail - head) % QueueSize) |-> q[(head + i - 1) % QueueSize]]

InHand == {e \in Executor : exec[e].pc \in {"run", "stuck"}}

Pending ==
    {inbox[i] : i \in 1..Len(inbox)}
        \union {Queued[i] : i \in 1..Len(Queued)}
        \union {exec[e].req : e \in InHand}

-----------------------------------------------------------------------------
Init ==
    /\ client = [t \in Thread |-> [calls |-> 0, waits |-> FALSE, holds |-> NoTrace]]
    /\ inbox = <<>>
    /\ out = <<>>
    /\ q = [i \in 0..(QueueSize - 1) |-> NoRequest]
    /\ head = 0
    /\ tail = 0
    /\ \E threads \in {Worker, {"notifier"}} :
         exec = [e \in threads |-> Ready]
    /\ open = {}
    /\ ended = {}
    /\ misused = {}
    /\ hurried = {}

(***************************************************************************)
(* The remote, as a user of stdio: a thread waits for the answer of a call *)
(* that has one, and gives up the handle it closes or reopens.             *)
(***************************************************************************)
ClientCalls(t) ==
    /\ ~client[t].waits
    /\ client[t].calls < MaxCalls
    /\ \E name \in Names :
         LET use == FileUse(name)
             onFile == use \in {"uses", "closes", "reopens"}
             gone == use \in {"closes", "reopens"}
             handle == IF onFile THEN client[t].holds ELSE NoTrace
             n == client[t].calls + 1
         IN  /\ onFile => handle # NoTrace
             /\ client' = [client EXCEPT ![t] =
                     [calls |-> n, waits |-> Answered(name),
                      holds |-> IF gone THEN NoTrace ELSE @.holds]]
             /\ inbox' = Append(inbox,
                     [trace |-> <<t, n>>, name |-> name, handle |-> handle])
             /\ hurried' = IF gone /\ \E r \in Pending : r.handle = handle
                           THEN hurried \union {handle} ELSE hurried
    /\ UNCHANGED <<out, ring, exec, open, ended, misused>>

(***************************************************************************)
(* An answer is taken by the call with its trace id if that still waits,   *)
(* and ignored otherwise.                                                  *)
(***************************************************************************)
ClientReceives ==
    /\ out # <<>>
    /\ out' = Tail(out)
    /\ client' = [t \in Thread |->
            IF client[t].waits /\ Head(out).trace = <<t, client[t].calls>>
            THEN [client[t] EXCEPT !.waits = FALSE,
                     !.holds = IF Head(out).opened # NoTrace
                               THEN Head(out).opened ELSE @]
            ELSE client[t]]
    /\ UNCHANGED <<inbox, ring, exec, open, ended, misused, hurried>>

(***************************************************************************)
(* A caller that waits in vain gives up.                                   *)
(***************************************************************************)
ClientTimesOut(t) ==
    /\ client[t].waits
    /\ client' = [client EXCEPT ![t].waits = FALSE]
    /\ UNCHANGED <<inbox, out, ring, exec, open, ended, misused, hurried>>

-----------------------------------------------------------------------------
(***************************************************************************)
(* rpc_server_send(): the answer goes out, or it is too long or the        *)
(* endpoint refuses it; no handler does anything about a failure.          *)
(***************************************************************************)
rpc_server_send(id, trace, opened) ==
    \/ out' = Append(out, [id |-> id, trace |-> trace, opened |-> opened])
    \/ UNCHANGED out

(***************************************************************************)
(* An error found before there is a handler: the answer has no parameters, *)
(* and so no trace id.                                                     *)
(***************************************************************************)
Refuse(r) ==
    /\ rpc_server_send(IdOf(r.name), NoTrace, NoTrace)
    /\ ended' = ended \union {r.trace}
    /\ UNCHANGED <<ring, exec>>

(***************************************************************************)
(* pthread_cond_signal() wakes one sleeping worker if there is one.        *)
(***************************************************************************)
signal ==
    LET sleepers == {w \in Executor : exec[w] = Asleep}
    IN  IF sleepers = {} THEN UNCHANGED exec
        ELSE \E w \in sleepers : exec' = [exec EXCEPT ![w] = Ready]

(***************************************************************************)
(* __enqueue() finds no room: one slot always stays empty.  (The names with *)
(* a suffix, here and below, are faulty variants a property must detect.)  *)
(***************************************************************************)
Full_NoWrap == tail + 1 = head

Full == (tail + 1) % QueueSize = head

(***************************************************************************)
(* enqueue_req(): a request that finds the ring full is forgotten.         *)
(***************************************************************************)
enqueue_NoSignal(r) ==
    IF Full
    THEN /\ ended' = ended \union {r.trace}
         /\ UNCHANGED <<ring, exec>>
    ELSE /\ q' = [q EXCEPT ![tail] = r]
         /\ tail' = IF tail + 1 = QueueSize THEN 0 ELSE tail + 1
         /\ UNCHANGED <<head, exec, ended>>

enqueue(r) ==
    IF Full
    THEN /\ ended' = ended \union {r.trace}
         /\ UNCHANGED <<ring, exec>>
    ELSE /\ q' = [q EXCEPT ![tail] = r]
         /\ tail' = IF tail + 1 = QueueSize THEN 0 ELSE tail + 1
         /\ signal
         /\ UNCHANGED <<head, ended>>

(***************************************************************************)
(* build_req() has no memory: enqueue_req() returns at once.               *)
(***************************************************************************)
build_req_Fails(r) ==
    /\ ended' = ended \union {r.trace}
    /\ UNCHANGED <<ring, exec>>

(***************************************************************************)
(* rpmsg_rpc_server_cb(): a message is refused if it is too long or, with  *)
(* workers, if there is no memory to copy it, and if its id is unknown.    *)
(* Without workers the handler runs here, and the notifier with it.        *)
(***************************************************************************)
rpmsg_rpc_server_cb ==
    /\ inbox # <<>>
    /\ ~MultiWorkers => exec["notifier"].pc = "ready"
    /\ inbox' = Tail(inbox)
    /\ LET r == Head(inbox)
           service == Found[r.name]
       IN  \/ Refuse(r)
           \/ /\ service # None
              /\ MultiWorkers
              /\ enqueue(r) \/ build_req_Fails(r)
              /\ UNCHANGED out
           \/ /\ service # None
              /\ ~MultiWorkers
              /\ exec' = [exec EXCEPT !["notifier"] =
                      [pc |-> "run", req |-> r, service |-> service]]
              /\ UNCHANGED <<ring, out, ended>>
    /\ UNCHANGED <<client, open, misused, hurried>>

-----------------------------------------------------------------------------
(***************************************************************************)
(* worker_thread() and dequeue(): take the oldest request or, the ring     *)
(* empty, wait on the condition once and look again.                       *)
(***************************************************************************)
dequeue_Newest(w) ==
    /\ MultiWorkers
    /\ exec[w] = Ready
    /\ LET last == (tail - 1) % QueueSize
       IN  IF head = tail
           THEN /\ exec' = [exec EXCEPT ![w] = Asleep]
                /\ UNCHANGED tail
           ELSE /\ exec' = [exec EXCEPT ![w] =
                        [pc |-> "run", req |-> q[last],
                         service |-> Found[q[last].name]]]
                /\ tail' = last
    /\ UNCHANGED <<client, inbox, out, q, head, open, ended, misused, hurried>>

dequeue(w) ==
    /\ MultiWorkers
    /\ exec[w] = Ready
    /\ IF head = tail
       THEN /\ exec' = [exec EXCEPT ![w] = Asleep]
            /\ UNCHANGED head
       ELSE /\ exec' = [exec EXCEPT ![w] =
                    [pc |-> "run", req |-> q[head],
                     service |-> Found[q[head].name]]]
            /\ head' = IF head + 1 = QueueSize THEN 0 ELSE head + 1
    /\ UNCHANGED <<client, inbox, out, q, tail, open, ended, misused, hurried>>

(***************************************************************************)
(* pthread_cond_wait() may return without a signal.                        *)
(***************************************************************************)
SpuriousWakeup(w) ==
    /\ exec[w] = Asleep
    /\ exec' = [exec EXCEPT ![w] = Ready]
    /\ UNCHANGED <<client, inbox, out, ring, open, ended, misused, hurried>>

(***************************************************************************)
(* What a handler does with FILEs: the ones it leaves open.  Opening and   *)
(* reopening may fail, and a stream that cannot be reopened is closed.     *)
(***************************************************************************)
FileEffect(use, r, works) ==
    CASE use = "opens" /\ works -> open \union {r.trace}
      [] use = "closes" \/ (use = "reopens" /\ ~works) -> open \ {r.handle}
      [] OTHER -> open

Opened_SameHandle(use, r, works) ==
    CASE use = "opens" /\ works -> r.trace
      [] use = "reopens" -> r.handle
      [] OTHER -> NoTrace

Opened(use, r, works) ==
    CASE use = "opens" /\ works -> r.trace
      [] use = "reopens" /\ works -> r.handle
      [] OTHER -> NoTrace

(***************************************************************************)
(* A handler runs to its end: it may refuse its arguments; otherwise it    *)
(* makes the call and sends what answer it has.  Its thread is then free   *)
(* for the next request.                                                   *)
(***************************************************************************)
Handle(e) ==
    /\ exec[e].pc = "run"
    /\ LET r == exec[e].req
           h == Handler(exec[e].service)
       IN  /\ \/ /\ h.rejects
                 /\ UNCHANGED <<open, misused, out>>
              \/ \E works \in BOOLEAN :
                    /\ open' = FileEffect(h.file, r, works)
                    /\ misused' = IF r.handle = NoTrace \/ r.handle \in open
                                  THEN misused ELSE misused \union {r.handle}
                    /\ IF h.reply = None THEN UNCHANGED out
                       ELSE rpc_server_send(h.reply, r.trace, Opened(h.file, r, works))
           /\ ended' = ended \union {r.trace}
    /\ exec' = [exec EXCEPT ![e] = Ready]
    /\ UNCHANGED <<client, inbox, ring, hurried>>

(***************************************************************************)
(* The call blocks in the host for ever, as read() or accept() may.        *)
(***************************************************************************)
Stick(e) ==
    /\ exec[e].pc = "run"
    /\ Cardinality({x \in Executor : exec[x].pc = "stuck"}) < MaxStuck
    /\ exec' = [exec EXCEPT ![e].pc = "stuck"]
    /\ UNCHANGED <<client, inbox, out, ring, open, ended, misused, hurried>>

Finished ==
    /\ \A t \in Thread : client[t].calls = MaxCalls /\ ~client[t].waits
    /\ out = <<>>
    /\ UNCHANGED vars

Next ==
    \/ \E t \in Thread : ClientCalls(t) \/ ClientTimesOut(t)
    \/ ClientReceives
    \/ rpmsg_rpc_server_cb
    \/ \E e \in Executor :
          dequeue(e) \/ SpuriousWakeup(e) \/ Handle(e) \/ Stick(e)
    \/ Finished

Spec == Init /\ [][Next]_vars

(***************************************************************************)
(* The notifier keeps receiving, every worker keeps running, and a call    *)
(* that does not block for ever returns.                                   *)
(***************************************************************************)
FairSpec ==
    /\ Spec
    /\ WF_vars(rpmsg_rpc_server_cb)
    /\ \A e \in Worker \union {"notifier"} :
         WF_vars(e \in Executor /\ (dequeue(e) \/ Handle(e)))

-----------------------------------------------------------------------------
(***************************************************************************)
(* Type invariant.                                                         *)
(***************************************************************************)
TypeOK ==
    /\ client \in [Thread -> [calls : 0..MaxCalls, waits : BOOLEAN,
                              holds : Trace \union {NoTrace}]]
    /\ inbox \in Seq(Request)
    /\ out \in Seq(Answer)
    /\ q \in [0..(QueueSize - 1) -> Request \union {NoRequest}]
    /\ head \in 0..(QueueSize - 1)
    /\ tail \in 0..(QueueSize - 1)
    /\ Executor \in {Worker, {"notifier"}}
    /\ exec \in [Executor -> [pc : {"ready", "sleep", "run", "stuck"},
                              req : Request \union {NoRequest},
                              service : Known \union {None}]]
    /\ open \subseteq Trace
    /\ ended \subseteq Trace
    /\ misused \subseteq Trace
    /\ hurried \subseteq Trace

(* The requests that wait, oldest first. *)
Line == Queued \o inbox

Older(r1, r2) == r1.trace[1] = r2.trace[1] => r1.trace[2] < r2.trace[2]

(* The calls made are those that wait or are carried out and those done with. *)
Accounted ==
    /\ {r.trace : r \in Pending} \union ended
         = {c \in Trace : c[2] <= client[c[1]].calls}
    /\ \A r \in Pending : r.trace \notin ended
    /\ \A i \in 1..Len(out) : out[i].trace \in ended \union {NoTrace}

(***************************************************************************)
(* Every call ever made is in exactly one place: on its way to the server, *)
(* in a slot of the ring between head and tail, in the hands of one        *)
(* thread, or done with.  So no worker runs a request a second time, a     *)
(* ring that is full or wraps around neither overwrites nor repeats one,   *)
(* and only a call the server is done with is answered (__enqueue(),       *)
(* __dequeue(), worker_thread()).                                          *)
(***************************************************************************)
EachCallOnce ==
    /\ Accounted
    /\ \A i, j \in 1..Len(Line) : i # j => Line[i].trace # Line[j].trace
    /\ \A e \in InHand :
         /\ \A i \in 1..Len(Line) : exec[e].req.trace # Line[i].trace
         /\ \A f \in InHand \ {e} : exec[e].req.trace # exec[f].req.trace

(***************************************************************************)
(* The calls of a thread are taken up in the order it made them: of two    *)
(* that still wait the older is ahead, and one that was taken up is older  *)
(* than all that wait (the endpoint's callback, the ring of rpc_workers.c).*)
(***************************************************************************)
TakenInOrder ==
    \A j \in 1..Len(Line) :
        /\ \A i \in 1..(j - 1) : Older(Line[i], Line[j])
        /\ \A e \in InHand : Older(exec[e].req, Line[j])

(***************************************************************************)
(* The calls on a FILE take effect in the order a thread makes them, so    *)
(* that none finds its FILE closed by a later one.  With workers, a FILE   *)
(* is used or closed after it was closed only if the client closed it      *)
(* while a use was still under way: a call without an answer, or one given *)
(* up after a timeout.  Without workers it is never, even then             *)
(* (rpc_backend.c, rpc_workers.c).                                         *)
(***************************************************************************)
MisusedOnlyInHaste == misused \subseteq IF MultiWorkers THEN hurried ELSE {}

(***************************************************************************)
(* The id of a function leads to the handler of that function, setvbuf     *)
(* excepted, whose id is the one of fileno and is found there.             *)
(***************************************************************************)
IdsLeadHome == \A name \in Known \ {"setvbuf"} : find_service(IdOf(name)) = name

(***************************************************************************)
(* Every one of the 83 functions of the service table is dispatched to its *)
(* handler, setvbuf excepted; and a request that waited in the ring is     *)
(* carried out where its id leads (find_service(), rpc_backend.c).         *)
(***************************************************************************)
Dispatched ==
    /\ IdsLeadHome
    /\ \A e \in InHand : exec[e].service = Found[exec[e].req.name]

(***************************************************************************)
(* As long as one worker is not blocked, what is in the ring is taken out: *)
(* the signal of enqueue() is not lost between the test for an empty ring  *)
(* and the wait in dequeue().  The callers make MaxCalls calls at most, so *)
(* that each request has left the ring when it is empty.                   *)
(***************************************************************************)
QueueDrains == head # tail ~> head = tail

-----------------------------------------------------------------------------
(***************************************************************************)
(* The inductive invariant behind EachCallOnce, TakenInOrder,              *)
(* MisusedOnlyInHaste and Dispatched.  The slots between head and tail,    *)
(* and the threads that run a handler, have requests, in line; a handle is *)
(* the thread's own and was opened by a call that has ended.  A FILE that  *)
(* was not closed in haste is open while a request on it is pending or its *)
(* thread has the handle, or is about to get it; and a request that closes *)
(* or reopens it is the last one on it, and with workers the only one.     *)
(***************************************************************************)
Placed ==
    /\ \A i \in 1..Len(Queued) : Queued[i] \in Request /\ Found[Queued[i].name] # None
    /\ \A e \in InHand : /\ exec[e].req \in Request
                         /\ exec[e].service = Found[exec[e].req.name]
                         /\ exec[e].service # None
    /\ ~MultiWorkers => head = tail

InLine ==
    /\ \A i, j \in 1..Len(Queued) : i < j => Older(Queued[i], Queued[j])
    /\ \A i, j \in 1..Len(inbox) : i < j => Older(inbox[i], inbox[j])
    /\ \A i \in 1..Len(Queued), j \in 1..Len(inbox) : Older(Queued[i], inbox[j])
    /\ \A e \in InHand : /\ \A j \in 1..Len(Queued) : Older(exec[e].req, Queued[j])
                         /\ \A j \in 1..Len(inbox) : Older(exec[e].req, inbox[j])
    /\ \A e, f \in InHand : e # f => exec[e].req.trace # exec[f].req.trace

OwnHandles ==
    /\ \A r \in Pending : r.handle # NoTrace =>
            r.handle[1] = r.trace[1] /\ r.handle \in ended
    /\ \A t \in Thread : client[t].holds # NoTrace =>
            client[t].holds[1] = t /\ client[t].holds \in ended
    /\ \A i \in 1..Len(out) : out[i].opened # NoTrace =>
            /\ out[i].trace # NoTrace /\ out[i].opened[1] = out[i].trace[1]
            /\ out[i].opened \in ended
    /\ open \subseteq ended /\ hurried \subseteq ended

Gone(r) == FileUse(r.name) \in {"closes", "reopens"}
InHaste(h) == MultiWorkers /\ h \in hurried
Has(h) ==
    LET c == client[h[1]]
    IN  \/ c.holds = h
        \/ c.waits /\ \E i \in 1..Len(out) :
                           out[i].opened = h /\ out[i].trace = <<h[1], c.calls>>

FilesLast ==
    \A h \in Trace : ~InHaste(h) =>
        /\ \A r \in Pending : r.handle = h => h \in open
        /\ \A r1, r2 \in Pending :
               r1.handle = h /\ r2.handle = h /\ Gone(r1) /\ r1.trace # r2.trace =>
                   ~MultiWorkers /\ r2.trace[2] < r1.trace[2]
        /\ Has(h) => h \in open /\ \A r \in Pending : r.handle = h => ~Gone(r)

RpcInv ==
    /\ TypeOK /\ Placed /\ InLine /\ Accounted /\ OwnHandles /\ FilesLast
    /\ MisusedOnlyInHaste

=============================================================================
