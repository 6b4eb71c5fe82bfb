--------------------------- MODULE ServiceRegistry ---------------------------
(***************************************************************************)
(* How the endpoints a remote announces meet the services of its client    *)
(* (library/rpmsg_device/rpmsg_service.c), and how the bound endpoints are *)
(* recorded in the resource table, from which a restarted micad restores   *)
(* them (library/remoteproc/mica_rsc_table.c).                             *)
(*                                                                         *)
(* Two threads of micad are at work without a lock: the epoll thread       *)
(* starts and stops clients and registers their services; the notifier     *)
(* thread handles announcements.  An operation on a linked list is taken   *)
(* to be atomic; the threads interleave between such operations, and       *)
(* between the accesses to the table.                                      *)
(***************************************************************************)
EXTENDS Naturals, Sequences, Functions

CONSTANTS
    Client,
    Ept,          \* the endpoints of all remotes
    OwnerOf,      \* [Ept -> Client]
    KindOf,       \* [Ept -> kind of service]: what rpmsg_ns_match() compares
    Kinds,        \* the services in the order a start registers them
    MaxEpts       \* MAX_NUM_OF_EPTS

ASSUME RegistryAssumption ==
    /\ OwnerOf \in [Ept -> Client] /\ "none" \notin Ept
    /\ Kinds \in Seq(Range(Kinds)) /\ Kinds # <<>>
    /\ MaxEpts \in Nat

VARIABLES
    running,    \* [Client -> BOOLEAN]: RPROC_RUNNING, with an rpmsg device
    services,   \* [Client -> SUBSET kinds]: client->services
    waiting,    \* remote_ept_list, of all clients
    bound,      \* [Client -> Seq(entry)]: rdev->endpoints
    table,      \* [Client -> num_of_epts and endpoints[]], in shared memory
    epoll,      \* the epoll thread
    notifier,   \* the notifier thread
    update,     \* [Actor -> where it is in rsc_update_ept_table()]
    alive,      \* the clients whose remote is running
    announced,  \* the endpoints their remote has announced
    peer,       \* [Ept -> Nat]: the host address the remote's end talks to
    raced,      \* history: clients whose last updates of the table overlapped
    fate        \* [Ept -> SUBSET Fate]: past, what happened to it since
                \* its remote was started

host == <<running, services, waiting, bound, epoll, notifier, update>>
remote == <<alive, announced, peer>>
past == <<raced, fate>>
registryVars == <<host, table, remote, past>>

(***************************************************************************)
(* An entry is a remote endpoint with its host address, 0 standing for     *)
(* RPMSG_ADDR_ANY.  A slot of the table that is all zeros is Empty.        *)
(***************************************************************************)
ANY == 0
Unbound == [ept : Ept, host : {ANY}]
Binding == [ept : {e \in Ept : KindOf[e] \in Range(Kinds)}, host : Nat \ {ANY}]
Empty == [ept |-> "none", host |-> 0]
NoTable == [num |-> 0, slot |-> [i \in 0..MaxEpts - 1 |-> Empty]]

Actor == {"epoll", "notifier"}
Resting == [at |-> "idle"]
Registering == [at : {"restore", "scan", "update", "add"}, client : Client,
                nth : 1 .. Len(Kinds), pos : Nat \ {0}]
Announcing == [at : {"update", "append"}, entry : Unbound]
Rewriting == [at : {"clear", "index", "write", "store"}, client : Client,
              nth : Nat \ {0}, i : Nat]

(***************************************************************************)
(* An endpoint was still listed, or another client had bound it, when its  *)
(* remote was started again; it was refused the host address recorded for  *)
(* it; it found no room in the table; two updates at the same time may     *)
(* have left it out; micad died before it was recorded for the first time, *)
(* or while the table that used to list it was being rebuilt; it went on   *)
(* the list when the service it waits for had walked through it.           *)
(***************************************************************************)
Fate == {"leftover", "refused", "nospace", "raced", "new", "torn", "missed"}

Befalls(E, m) ==
    fate' = [e \in Ept |-> fate[e] \union (IF e \in E THEN {m} ELSE {})]

-----------------------------------------------------------------------------
(***************************************************************************)
(* The service's rpmsg_ns_bind_cb(), which creates the host's end with     *)
(* rpmsg_create_ept(): the address asked for, or the lowest free one.  An  *)
(* address that is taken is refused, and the callback says nothing.  The   *)
(* remote's end learns the first address it hears from, and keeps to it.   *)
(***************************************************************************)
Hosts(c) == {b.host : b \in Range(bound[c])}

LowestFree(c) ==
    {h \in 1 .. Len(bound[c]) + 1 : h \notin Hosts(c) /\ 1 .. h - 1 \subseteq Hosts(c)}

(* Faulty variant: a recorded address is not asked for. *)
Address_Any(c, entry) == LowestFree(c)

Address(c, entry) ==
    IF entry.host = ANY THEN LowestFree(c) ELSE {entry.host} \ Hosts(c)

ns_bind_cb(c, entry) ==
    \/ /\ Address(c, entry) = {}
       /\ Befalls({entry.ept}, "refused")
       /\ UNCHANGED <<bound, peer>>
    \/ \E h \in Address(c, entry) :
          /\ bound' = [bound EXCEPT ![c] = Append(@, [ept |-> entry.ept, host |-> h])]
          /\ peer' = IF OwnerOf[entry.ept] = c /\ peer[entry.ept] = ANY
                     THEN [peer EXCEPT ![entry.ept] = h] ELSE peer
          /\ UNCHANGED fate

RegistryInit ==
    /\ running = [c \in Client |-> FALSE]
    /\ services = [c \in Client |-> {}]
    /\ waiting = <<>>
    /\ bound = [c \in Client |-> <<>>]
    /\ table = [c \in Client |-> NoTable]
    /\ epoll = Resting /\ notifier = Resting
    /\ update = [t \in Actor |-> Resting]
    /\ alive = {} /\ announced = {}
    /\ peer = [e \in Ept |-> ANY]
    /\ raced = {}
    /\ fate = [e \in Ept |-> {}]

-----------------------------------------------------------------------------
(***************************************************************************)
(* rsc_update_ept_table() in thread t, which set update[t] to "clear":     *)
(* zero the table; then for each endpoint of the device read num_of_epts,  *)
(* write the endpoint into that slot, and increment num_of_epts, a load    *)
(* and a store.                                                            *)
(***************************************************************************)
Goes(t, step, c, n, num) ==
    update' = [update EXCEPT ![t] = [at |-> step, client |-> c, nth |-> n, i |-> num]]

Begin(t, c) == Goes(t, "clear", c, 1, 0)

Updating(t, c) == update[t] # Resting /\ update[t].client = c

UpdateClear(t) ==
    /\ update[t].at = "clear"
    /\ LET c == update[t].client
       IN  /\ table' = [table EXCEPT ![c] = NoTable]
           /\ Goes(t, "index", c, 1, 0)
           /\ raced' = IF \E u \in Actor \ {t} : Updating(u, c)
                       THEN raced \union {c} ELSE raced \ {c}
    /\ UNCHANGED <<running, services, waiting, bound, epoll, notifier, remote,
                   fate>>

UpdateIndex(t) ==
    /\ update[t].at = "index"
    /\ LET c == update[t].client
           n == update[t].nth
       IN  /\ n <= Len(bound[c]) /\ table[c].num < MaxEpts
           /\ Goes(t, "write", c, n, table[c].num)
    /\ UNCHANGED <<running, services, waiting, bound, table, epoll, notifier,
                   remote, past>>

UpdateWrite(t) ==
    /\ update[t].at = "write"
    /\ LET c == update[t].client
           n == update[t].nth
       IN  /\ table' = [table EXCEPT ![c].slot[update[t].i] = bound[c][n]]
           /\ Goes(t, "store", c, n, table[c].num)
    /\ UNCHANGED <<running, services, waiting, bound, epoll, notifier, remote,
                   past>>

(***************************************************************************)
(* Faulty variant: num_of_epts is not incremented.                         *)
(***************************************************************************)
UpdateStore_NoIncrement(t) ==
    /\ update[t].at = "store"
    /\ Goes(t, "index", update[t].client, update[t].nth + 1, 0)
    /\ UNCHANGED <<running, services, waiting, bound, table, epoll, notifier,
                   remote, past>>

UpdateStore(t) ==
    /\ update[t].at = "store"
    /\ table' = [table EXCEPT ![update[t].client].num = update[t].i + 1]
    /\ Goes(t, "index", update[t].client, update[t].nth + 1, 0)
    /\ UNCHANGED <<running, services, waiting, bound, epoll, notifier, remote,
                   past>>

(***************************************************************************)
(* Faulty variant: a bound entry stays on the list.                        *)
(***************************************************************************)
UpdateEnds_KeepEntry(t) ==
    /\ update[t].at = "index"
    /\ LET c == update[t].client
       IN  update[t].nth > Len(bound[c]) \/ table[c].num >= MaxEpts
    /\ update' = [update EXCEPT ![t] = Resting]
    /\ IF t = "epoll"
       THEN epoll' = [epoll EXCEPT !.at = "scan"] /\ UNCHANGED notifier
       ELSE notifier' = Resting /\ UNCHANGED epoll
    /\ UNCHANGED <<running, services, waiting, bound, table, remote, past>>

(* metal_list_del() of the i-th entry. *)
Deleted(list, i) == SubSeq(list, 1, i - 1) \o SubSeq(list, i + 1, Len(list))

(***************************************************************************)
(* The end of the list of endpoints, or -ENOSPC.  The epoll thread takes   *)
(* the entry off the list and goes on with its scan; the notifier is done. *)
(***************************************************************************)
UpdateEnds(t) ==
    /\ update[t].at = "index"
    /\ LET c == update[t].client
           n == update[t].nth
       IN  /\ n > Len(bound[c]) \/ table[c].num >= MaxEpts
           /\ Befalls({bound[c][j].ept : j \in n .. Len(bound[c])}, "nospace")
    /\ update' = [update EXCEPT ![t] = Resting]
    /\ IF t = "epoll"
       THEN /\ waiting' = Deleted(waiting, epoll.pos)
            /\ epoll' = [epoll EXCEPT !.at = "scan"]
            /\ UNCHANGED notifier
       ELSE /\ notifier' = Resting
            /\ UNCHANGED <<waiting, epoll>>
    /\ UNCHANGED <<running, services, bound, table, remote, raced>>

rsc_update_ept_table(t) ==
    \/ UpdateClear(t) \/ UpdateIndex(t) \/ UpdateWrite(t) \/ UpdateStore(t)
    \/ UpdateEnds(t)

-----------------------------------------------------------------------------
(***************************************************************************)
(* Endpoint e is on the list, or the notifier is about to put it there.    *)
(***************************************************************************)
Listed(e) ==
    \/ \E i \in 1..Len(waiting) : waiting[i].ept = e
    \/ notifier.at = "append" /\ notifier.entry.ept = e

(***************************************************************************)
(* A running client has bound endpoint e, or has it in its table.          *)
(***************************************************************************)
InUse(e) ==
    \E c \in alive : e \in {x.ept : x \in Range(bound[c]) \union Range(table[c].slot)}

(***************************************************************************)
(* Where the registration of the n-th service of client c starts.          *)
(***************************************************************************)
Scanning(c, n) == [at |-> "scan", client |-> c, nth |-> n, pos |-> 1]

(***************************************************************************)
(* mica_start() up to the rpmsg device, for a remote that is off: the      *)
(* image is loaded with an empty table.                                    *)
(***************************************************************************)
StartFresh(c) ==
    /\ epoll = Resting /\ ~running[c] /\ c \notin alive
    /\ running' = [running EXCEPT ![c] = TRUE]
    /\ table' = [table EXCEPT ![c] = NoTable]
    /\ alive' = alive \union {c}
    /\ announced' = {e \in announced : OwnerOf[e] # c}
    /\ peer' = [e \in Ept |-> IF OwnerOf[e] = c THEN ANY ELSE peer[e]]
    /\ fate' = [e \in Ept |-> IF OwnerOf[e] # c THEN fate[e]
                               ELSE IF Listed(e) \/ InUse(e) THEN {"leftover"} ELSE {}]
    /\ raced' = raced \ {c}
    /\ epoll' = Scanning(c, 1)
    /\ UNCHANGED <<services, waiting, bound, notifier, update>>

(***************************************************************************)
(* mica_start() for a remote that outlived micad: handle_mica_rsc() puts   *)
(* the recorded endpoints on the list, one by one, before the rpmsg device *)
(* is made.  What num_of_epts may count beyond the table is not modelled.  *)
(***************************************************************************)
Restore(c) ==
    /\ epoll = Resting /\ ~running[c] /\ c \in alive
    /\ epoll' = [at |-> "restore", client |-> c, nth |-> 1, pos |-> 1]
    /\ UNCHANGED <<running, services, waiting, bound, table, notifier, update, remote,
                   past>>

InTable(c, n) == n <= table[c].num /\ n <= MaxEpts

handle_mica_rsc ==
    /\ epoll.at = "restore" /\ InTable(epoll.client, epoll.pos)
    /\ LET entry == table[epoll.client].slot[epoll.pos - 1]
       IN  waiting' = IF entry = Empty THEN waiting ELSE Append(waiting, entry)
    /\ epoll' = [epoll EXCEPT !.pos = @ + 1]
    /\ UNCHANGED <<running, services, bound, table, notifier, update, remote, past>>

RestoreEnds ==
    /\ epoll.at = "restore" /\ ~InTable(epoll.client, epoll.pos)
    /\ running' = [running EXCEPT ![epoll.client] = TRUE]
    /\ epoll' = Scanning(epoll.client, 1)
    /\ UNCHANGED <<services, waiting, bound, table, notifier, update, remote, past>>

(***************************************************************************)
(* mica_register_service() for the next service: walk through the list,    *)
(* whoever its entries belong to.                                          *)
(***************************************************************************)
Scan ==
    /\ epoll.at = "scan" /\ epoll.pos <= Len(waiting)
    /\ LET entry == waiting[epoll.pos]
       IN  IF KindOf[entry.ept] = Kinds[epoll.nth]
           THEN /\ ns_bind_cb(epoll.client, entry)
                /\ Begin("epoll", epoll.client)
                /\ epoll' = [epoll EXCEPT !.at = "update"]
           ELSE /\ epoll' = [epoll EXCEPT !.pos = @ + 1]
                /\ UNCHANGED <<bound, peer, fate, update>>
    /\ UNCHANGED <<running, services, waiting, table, notifier, alive,
                   announced, raced>>

(***************************************************************************)
(* The end of the list is reached.                                         *)
(***************************************************************************)
ScanEnds ==
    /\ epoll.at = "scan" /\ epoll.pos > Len(waiting)
    /\ epoll' = [epoll EXCEPT !.at = "add"]
    /\ UNCHANGED <<running, services, waiting, bound, table, notifier, update,
                   remote, past>>

(***************************************************************************)
(* Faulty variant: the next service does not start at the list's head.     *)
(***************************************************************************)
AddService_Onward ==
    /\ epoll.at = "add"
    /\ services' = [services EXCEPT
                        ![epoll.client] = @ \union {Kinds[epoll.nth]}]
    /\ epoll' = IF epoll.nth = Len(Kinds) THEN Resting
                ELSE [epoll EXCEPT !.at = "scan", !.nth = @ + 1]
    /\ UNCHANGED <<running, waiting, bound, table, notifier, update, remote,
                   past>>

(***************************************************************************)
(* The service becomes visible to announcements, and it is the next one's  *)
(* turn.                                                                   *)
(***************************************************************************)
AddService ==
    /\ epoll.at = "add"
    /\ services' = [services EXCEPT
                        ![epoll.client] = @ \union {Kinds[epoll.nth]}]
    /\ epoll' = IF epoll.nth = Len(Kinds) THEN Resting
                ELSE Scanning(epoll.client, epoll.nth + 1)
    /\ UNCHANGED <<running, waiting, bound, table, notifier, update, remote,
                   past>>

-----------------------------------------------------------------------------
(***************************************************************************)
(* The remote announces an endpoint and mica_ns_bind_cb() looks for a      *)
(* service: the first that matches is bound, otherwise the endpoint is to  *)
(* go on the list.                                                         *)
(***************************************************************************)
mica_ns_bind_cb(e) ==
    LET c == OwnerOf[e]
        entry == [ept |-> e, host |-> ANY]
    IN  /\ notifier = Resting /\ running[c] /\ c \in alive /\ e \notin announced
        /\ announced' = announced \union {e}
        /\ IF KindOf[e] \in services[c]
           THEN /\ ns_bind_cb(c, entry)
                /\ Begin("notifier", c)
                /\ notifier' = [at |-> "update", entry |-> entry]
           ELSE /\ notifier' = [at |-> "append", entry |-> entry]
                /\ UNCHANGED <<bound, peer, fate, update>>
        /\ UNCHANGED <<running, services, waiting, table, epoll, alive, raced>>

(***************************************************************************)
(* The service of kind k has seen all of the list.                         *)
(***************************************************************************)
ScanOver(c, k) ==
    \/ k \in services[c]
    \/ epoll.at = "add" /\ epoll.client = c /\ Kinds[epoll.nth] = k

NsAppend ==
    /\ notifier.at = "append"
    /\ waiting' = Append(waiting, notifier.entry)
    /\ LET e == notifier.entry.ept
       IN  Befalls({x \in {e} : ScanOver(OwnerOf[x], KindOf[x])}, "missed")
    /\ notifier' = Resting
    /\ UNCHANGED <<running, services, bound, table, epoll, update, remote,
                   raced>>

-----------------------------------------------------------------------------
(***************************************************************************)
(* mica_stop(): the services go with their endpoints, the remote powers    *)
(* off.  What is on the list stays there.                                  *)
(***************************************************************************)
Stop(c) ==
    /\ epoll = Resting /\ running[c] /\ ~Updating("notifier", c)
    /\ running' = [running EXCEPT ![c] = FALSE]
    /\ services' = [services EXCEPT ![c] = {}]
    /\ bound' = [bound EXCEPT ![c] = <<>>]
    /\ alive' = alive \ {c}
    /\ UNCHANGED <<waiting, table, epoll, notifier, update, announced, peer,
                   past>>

AllRest == epoll = Resting /\ notifier = Resting

BeingBound(e) ==
    LET entry == [ept |-> e, host |-> ANY]
    IN  \/ epoll.at = "update" /\ waiting[epoll.pos] = entry
        \/ notifier.at = "update" /\ notifier.entry = entry

Recorded(c) ==
    {table[c].slot[i] : i \in {n \in 0 .. MaxEpts - 1 : n < table[c].num}} \ {Empty}

Unrecorded(e) ==
    peer[e] # ANY /\ [ept |-> e, host |-> peer[e]] \notin Recorded(OwnerOf[e])

(***************************************************************************)
(* micad dies, at any moment: the remotes and the tables live on.          *)
(***************************************************************************)
Crash ==
    /\ running' = [c \in Client |-> FALSE]
    /\ services' = [c \in Client |-> {}]
    /\ waiting' = <<>>
    /\ bound' = [c \in Client |-> <<>>]
    /\ epoll' = Resting /\ notifier' = Resting
    /\ update' = [t \in Actor |-> Resting]
    /\ fate' = [e \in Ept |-> fate[e]
           \union (IF OwnerOf[e] \in raced THEN {"raced"} ELSE {})
           \union (IF AllRest \/ ~Unrecorded(e) THEN {}
                   ELSE IF BeingBound(e) THEN {"new"} ELSE {"torn"})]
    /\ UNCHANGED <<table, remote, raced>>

(***************************************************************************)
(* mica_stop() frees the device the notifier is working on.                *)
(***************************************************************************)
StopFaults(c) ==
    /\ epoll = Resting /\ running[c] /\ Updating("notifier", c)
    /\ Crash

RegistryNext ==
    \/ \E c \in Client : StartFresh(c) \/ Restore(c) \/ Stop(c) \/ StopFaults(c)
    \/ \E t \in Actor : rsc_update_ept_table(t)
    \/ handle_mica_rsc \/ RestoreEnds \/ Scan \/ ScanEnds \/ AddService
    \/ \E e \in Ept : mica_ns_bind_cb(e)
    \/ NsAppend
    \/ Crash

RegistrySpec == RegistryInit /\ [][RegistryNext]_registryVars

-----------------------------------------------------------------------------
(***************************************************************************)
(* Type invariant.  What is bound has the kind of some service and a host  *)
(* address; an entry of the list was announced, with any address, or was   *)
(* bound once and restored.                                                *)
(***************************************************************************)
RegistryTypeOK ==
    /\ running \in [Client -> BOOLEAN]
    /\ services \in [Client -> SUBSET Range(Kinds)]
    /\ waiting \in Seq(Unbound \union Binding)
    /\ bound \in [Client -> Seq(Binding)]
    /\ table \in [Client -> [num : Nat,
                             slot : [0 .. MaxEpts - 1 -> Binding \union {Empty}]]]
    /\ epoll \in {Resting} \union Registering
    /\ notifier \in {Resting} \union Announcing
    /\ update \in [Actor -> {Resting} \union Rewriting]
    /\ alive \subseteq Client /\ announced \subseteq Ept
    /\ peer \in [Ept -> Nat]
    /\ raced \subseteq Client
    /\ fate \in [Ept -> SUBSET Fate]

(***************************************************************************)
(* Unless two updates overlapped, the table lists every bound endpoint, or *)
(* is full, whenever no thread is at work (mica_rsc_table.c:57-80).        *)
(***************************************************************************)
TableComplete ==
    AllRest => \A c \in Client \ raced :
        running[c] => Range(bound[c]) \subseteq Recorded(c) \/ table[c].num >= MaxEpts

(***************************************************************************)
(* No endpoint is bound twice, by one client or by two, although an        *)
(* announcement, a waiting entry and a table entry may all stand for it,   *)
(* and a scan takes entries whoever they belong to; the one exception is   *)
(* an entry that was left on the list, or with another client, when its    *)
(* client was stopped (rpmsg_service.c:69-84, 108-160).                    *)
(***************************************************************************)
BoundOnce ==
    \A c, d \in Client : \A i \in 1 .. Len(bound[c]), j \in 1 .. Len(bound[d]) :
        bound[c][i].ept = bound[d][j].ept =>
            (c = d /\ i = j) \/ "leftover" \in fate[bound[c][i].ept]

(***************************************************************************)
(* An endpoint does not wait for a service that is registered, whatever    *)
(* the order in which announcements and registrations arrive; excused is   *)
(* one that was put on the list, after a look at the services, when its    *)
(* service had walked through the list already (rpmsg_service.c:69-84,     *)
(* 146-149: "If no service is matched, append this endpoint to             *)
(* remote_ept_list and wait for a register").                              *)
(***************************************************************************)
NotStranded ==
    AllRest => \A i \in 1..Len(waiting) :
        LET e == waiting[i].ept
            c == OwnerOf[e]
        IN  running[c] /\ KindOf[e] \in services[c] => "missed" \in fate[e]

Lost(e) ==
    LET c == OwnerOf[e]
    IN  /\ running[c] /\ peer[e] # ANY
        /\ [ept |-> e, host |-> peer[e]] \notin Range(bound[c])

(***************************************************************************)
(* Once a client is up again after a crash, every endpoint the remote      *)
(* talks through is bound to the address the remote knows.  Excused are    *)
(* an endpoint whose address was given to another one before its service   *)
(* was registered again, one that was not in the table when micad died in  *)
(* the middle of rebuilding it, and the other cases; whatever is in the    *)
(* table at a crash comes back, after any number of crashes during         *)
(* recoveries (mica_rsc_table.c:18-47, rpmsg_service.c:69-84).             *)
(***************************************************************************)
Restored == AllRest => \A e \in Ept : Lost(e) => fate[e] \ {"missed"} # {}

-----------------------------------------------------------------------------
(***************************************************************************)
(* The inductive invariant behind these four.  First, where the threads    *)
(* are: what runs an update belongs to a running client, and a client that *)
(* is not running has neither services nor bound endpoints.                *)
(***************************************************************************)
EpollPlace ==
    /\ epoll.at = "update" <=> update["epoll"] # Resting
    /\ epoll.at = "update" =>
           update["epoll"].client = epoll.client /\ epoll.pos <= Len(waiting)
    /\ epoll.at = "scan" => epoll.pos <= Len(waiting) + 1
    /\ epoll.at \in {"scan", "update", "add"} => running[epoll.client]
    /\ epoll.at = "restore" => ~running[epoll.client] /\ epoll.client \in alive

UpdatePlace(t) ==
    /\ update[t] # Resting => running[update[t].client]
    /\ update[t].at \in {"write", "store"} => update[t].nth <= Len(bound[update[t].client])
    /\ update[t].at = "write" => update[t].i < MaxEpts

ClientPlace(c) ==
    /\ running[c] => c \in alive
    /\ ~running[c] => bound[c] = <<>> /\ services[c] = {}

Lockstep ==
    /\ EpollPlace
    /\ notifier.at = "update" <=> update["notifier"] # Resting
    /\ \A t \in Actor : UpdatePlace(t)
    /\ \A c \in Client : ClientPlace(c)

(***************************************************************************)
(* An update that no other one overlaps has written a prefix of the bound  *)
(* endpoints; once it is over, what is missing found no room.              *)
(***************************************************************************)
Rebuilding(t, c) == Updating(t, c) /\ update[t].at # "clear"

Written(c, n) ==
    /\ table[c].num = n /\ n <= Len(bound[c]) /\ n <= MaxEpts
    /\ \A j \in 1 .. n : table[c].slot[j - 1] = bound[c][j]

NextWritten(t, c) ==
    LET n == update[t].nth
    IN  /\ update[t].at \in {"write", "store"} => update[t].i = n - 1
        /\ update[t].at = "store" => n <= MaxEpts /\ table[c].slot[n - 1] = bound[c][n]

AllWritten(c) ==
    \A j \in 1 .. Len(bound[c]) :
        \/ InTable(c, j) /\ table[c].slot[j - 1] = bound[c][j]
        \/ /\ table[c].num >= MaxEpts
           /\ fate[bound[c][j].ept] \intersect {"nospace", "leftover"} # {}

InTheTable(c) ==
    /\ \A t \in Actor : Rebuilding(t, c) =>
           /\ Written(c, update[t].nth - 1) /\ NextWritten(t, c)
           /\ \A u \in Actor \ {t} : ~Rebuilding(u, c)
    /\ running[c] /\ (\A t \in Actor : ~Updating(t, c)) => AllWritten(c)

TableInv == \A c \in Client \ raced : InTheTable(c)

(***************************************************************************)
(* The registration under way will still come to the i-th entry.  It will  *)
(* to every restored one, and to every entry whose service is registered   *)
(* and that was not too late; behind it, it leaves no entry that matches.  *)
(***************************************************************************)
Due(i) ==
    LET k == KindOf[waiting[i].ept]
    IN  \/ epoll.at = "restore" /\ k \in Range(Kinds)
        \/ epoll.at \in {"scan", "update"} /\ i >= epoll.pos /\ k = Kinds[epoll.nth]
        \/ /\ epoll.at \in {"scan", "update", "add"}
           /\ \E n \in epoll.nth + 1 .. Len(Kinds) : k = Kinds[n]

WaitsWell(i) ==
    LET e == waiting[i].ept
    IN  /\ ScanOver(OwnerOf[e], KindOf[e]) => "missed" \in fate[e] \/ Due(i)
        /\ waiting[i].host # ANY => Due(i)
        /\ epoll.at \in {"scan", "update"} /\ i < epoll.pos =>
               KindOf[e] # Kinds[epoll.nth]

WaitInv == \A i \in 1 .. Len(waiting) : WaitsWell(i)

(***************************************************************************)
(* Entry i is on the list, and is not being bound.                         *)
(***************************************************************************)
Waits(i) == i \in 1 .. Len(waiting) /\ ~(epoll.at = "update" /\ i = epoll.pos)

BeingRestored(c, x) ==
    /\ epoll # Resting /\ epoll.client = c
    /\ \E i \in 1 .. Len(waiting) : Waits(i) /\ waiting[i] = x

(***************************************************************************)
(* Whatever stands for a bound endpoint stands for the same one: it        *)
(* belongs to the same client and has the same address, so that it cannot  *)
(* be bound a second time; and no announcement is left that could be.      *)
(***************************************************************************)
Holds(c, x) ==
    \/ x \in Range(bound[c])
    \/ c \in alive /\ x \in Range(table[c].slot)
    \/ BeingRestored(c, x)

Pending(e) == notifier.at = "append" /\ notifier.entry.ept = e
New(i, e) == Waits(i) /\ waiting[i] = [ept |-> e, host |-> ANY]

NewOnce(e) ==
    /\ \A i \in 1 .. Len(waiting) : New(i, e) =>
           ~Pending(e) /\ e \in announced /\ peer[e] = ANY
    /\ \A i, j \in 1 .. Len(waiting) : New(i, e) /\ New(j, e) => i = j
    /\ Pending(e) => e \in announced /\ peer[e] = ANY

HeldOnce(e) ==
    \A c \in Client, x \in Binding : x.ept = e /\ Holds(c, x) =>
        /\ e \in announced /\ ~Pending(e)
        /\ \A i \in 1 .. Len(waiting) : ~New(i, e)
        /\ peer[e] = IF OwnerOf[e] = c THEN x.host ELSE ANY
        /\ \A d \in Client, y \in Binding : y.ept = e /\ Holds(d, y) => c = d /\ x = y

Apart(e) ==
    \A c \in Client : \A i, j \in 1 .. Len(bound[c]) :
        bound[c][i].ept = e /\ bound[c][j].ept = e => i = j

Once(e) ==
    /\ e \notin announced => peer[e] = ANY
    /\ NewOnce(e) /\ HeldOnce(e) /\ Apart(e)

OnceInv == \A e \in Ept : "leftover" \notin fate[e] => Once(e)

(***************************************************************************)
(* What a remote talks through, and nothing happened to, is bound, or on   *)
(* the way from the table to being bound, or in the table.                 *)
(***************************************************************************)
Found(c, x) ==
    /\ running[c] => x \in Range(bound[c]) \/ BeingRestored(c, x)
    /\ c \in alive /\ ~running[c] => x \in Recorded(c)
    /\ epoll.at = "restore" /\ epoll.client = c =>
           \/ BeingRestored(c, x)
           \/ \E j \in 1 .. MaxEpts :
                 j >= epoll.pos /\ InTable(c, j) /\ table[c].slot[j - 1] = x

PeerInv ==
    \A e \in Ept : fate[e] \subseteq {"missed"} /\ peer[e] # ANY =>
        Found(OwnerOf[e], [ept |-> e, host |-> peer[e]])

RegistryInv ==
    RegistryTypeOK /\ Lockstep /\ TableInv /\ WaitInv /\ OnceInv /\ PeerInv

=============================================================================
