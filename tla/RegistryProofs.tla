---------------------------- MODULE RegistryProofs ----------------------------
(***************************************************************************)
(* Proofs about ServiceRegistry, for any number of clients, endpoints and  *)
(* services and every size of the table: every step keeps the types, the   *)
(* places of the threads (Lockstep), what is in the table (TableInv) and   *)
(* what is on the list (WaitInv).  RegistryBindProofs goes on from there.  *)
(***************************************************************************)
EXTENDS ServiceRegistry, TLAPS

USE ZenonT(10), SMT, SMTT(30)

(* What the epoll thread can be doing. *)
LEMMA EpollCases ==
    ASSUME RegistryTypeOK
    PROVE  \/ epoll = Resting /\ epoll.at = "idle"
           \/ /\ epoll # Resting /\ epoll \in Registering
              /\ epoll.at \in {"restore", "scan", "update", "add"}
              /\ epoll.client \in Client /\ epoll.nth \in 1 .. Len(Kinds)
              /\ epoll.pos \in Nat \ {0}
<1>1. epoll \in {Resting} \union Registering
  BY DEF RegistryTypeOK
<1> QED BY <1>1, SMT, SMTT(30) DEF Resting, Registering

(* What the notifier thread can be doing. *)
LEMMA NotifierCases ==
    ASSUME RegistryTypeOK
    PROVE  \/ notifier = Resting /\ notifier.at = "idle"
           \/ /\ notifier # Resting /\ notifier \in Announcing
              /\ notifier.at \in {"update", "append"}
              /\ notifier.entry \in Unbound
<1>1. notifier \in {Resting} \union Announcing
  BY DEF RegistryTypeOK
<1> QED BY <1>1, SMT, SMTT(30) DEF Resting, Announcing

(* Where a thread can be in its update of the table. *)
LEMMA UpdateCases ==
    ASSUME RegistryTypeOK, NEW t \in Actor
    PROVE  \/ update[t] = Resting /\ update[t].at = "idle"
           \/ /\ update[t] # Resting /\ update[t] \in Rewriting
              /\ update[t].at \in {"clear", "index", "write", "store"}
              /\ update[t].client \in Client /\ update[t].nth \in Nat \ {0}
              /\ update[t].i \in Nat
<1>1. update[t] \in {Resting} \union Rewriting
  BY DEF RegistryTypeOK
<1> QED BY <1>1, SMT, SMTT(30) DEF Resting, Rewriting

(* What a table can hold. *)
LEMMA TableTypes ==
    ASSUME RegistryTypeOK, NEW c \in Client
    PROVE  /\ table[c] = [num |-> table[c].num, slot |-> table[c].slot]
           /\ table[c].num \in Nat
           /\ table[c].slot \in [0 .. MaxEpts - 1 -> Binding \union {Empty}]
           /\ \A i \in 0 .. MaxEpts - 1 : table[c].slot[i] \in Binding \union {Empty}
<1>1. table[c] \in [num : Nat, slot : [0 .. MaxEpts - 1 -> Binding \union {Empty}]]
  BY DEF RegistryTypeOK
<1>2. table[c].slot \in [0 .. MaxEpts - 1 -> Binding \union {Empty}]
  BY <1>1
<1> QED BY <1>1, <1>2

(* The services are a non-empty sequence. *)
LEMMA KindsSeq ==
    /\ Len(Kinds) \in Nat /\ 1 \in 1 .. Len(Kinds)
    /\ \A n \in 1 .. Len(Kinds) : Kinds[n] \in Range(Kinds)
<1>1. Kinds \in Seq(Range(Kinds)) /\ Kinds # <<>>
  BY RegistryAssumption
<1>2. DOMAIN Kinds = 1 .. Len(Kinds) /\ Len(Kinds) \in Nat
  BY <1>1, SMT, SMTT(30)
<1>3. Len(Kinds) # 0
  BY <1>1, <1>2, SMT, SMTT(30)
<1> QED BY <1>2, <1>3, SMT, SMTT(30) DEF Range

(* A kind of a service is one of the sequence. *)
LEMMA KindsIndex ==
    ASSUME NEW k \in Range(Kinds)
    PROVE  \E n \in 1 .. Len(Kinds) : k = Kinds[n]
<1>1. Kinds \in Seq(Range(Kinds))
  BY RegistryAssumption
<1>2. DOMAIN Kinds = 1 .. Len(Kinds)
  BY <1>1, SMT, SMTT(30)
<1> QED BY <1>2 DEF Range

(* A sequence and its range. *)
LEMMA SeqRange ==
    ASSUME NEW S, NEW s \in Seq(S)
    PROVE  /\ Range(s) \subseteq S
           /\ \A x : x \in Range(s) <=> \E i \in 1 .. Len(s) : s[i] = x
           /\ Range(<<>>) = {}
BY SMT, SMTT(30) DEF Range

(* Appending to a sequence. *)
LEMMA AppendRange ==
    ASSUME NEW S, NEW s \in Seq(S), NEW x \in S
    PROVE  /\ Append(s, x) \in Seq(S)
           /\ Len(Append(s, x)) = Len(s) + 1 /\ Len(s) \in Nat
           /\ \A i \in 1 .. Len(s) : Append(s, x)[i] = s[i]
           /\ Append(s, x)[Len(s) + 1] = x
           /\ Range(Append(s, x)) = Range(s) \union {x}
<1>1. /\ Append(s, x) \in Seq(S)
      /\ Len(Append(s, x)) = Len(s) + 1 /\ Len(s) \in Nat
      /\ \A i \in 1 .. Len(s) : Append(s, x)[i] = s[i]
      /\ Append(s, x)[Len(s) + 1] = x
  BY SMT, SMTT(30)
<1>2. \A y : y \in Range(Append(s, x)) <=> y \in Range(s) \union {x}
  <2> TAKE y
  <2>1. y \in Range(Append(s, x)) <=> \E i \in 1 .. Len(s) + 1 : Append(s, x)[i] = y
    <3> DEFINE a == Append(s, x)
    <3>1. a \in Seq(S) /\ Len(a) = Len(s) + 1
      BY <1>1
    <3> HIDE DEF a
    <3>2. y \in Range(a) <=> \E i \in 1 .. Len(a) : a[i] = y
      BY <3>1, SeqRange
    <3> QED BY <3>1, <3>2 DEF a
  <2>2. y \in Range(s) <=> \E i \in 1 .. Len(s) : s[i] = y
    BY SeqRange
  <2>3. \A i \in 1 .. Len(s) + 1 : i \in 1 .. Len(s) \/ i = Len(s) + 1
    BY <1>1, SMT, SMTT(30)
  <2>4. \A i \in 1 .. Len(s) : i \in 1 .. Len(s) + 1
    BY <1>1, SMT, SMTT(30)
  <2>5. Len(s) + 1 \in 1 .. Len(s) + 1
    BY <1>1, SMT, SMTT(30)
  <2> QED BY <1>1, <2>1, <2>2, <2>3, <2>4, <2>5
<1> QED BY <1>1, <1>2

(* Deleting from a sequence. *)
LEMMA DeletedIs ==
    ASSUME NEW S, NEW s \in Seq(S), NEW i \in 1 .. Len(s)
    PROVE  /\ Deleted(s, i) \in Seq(S)
           /\ Len(Deleted(s, i)) = Len(s) - 1
           /\ \A j \in 1 .. Len(s) - 1 :
                Deleted(s, i)[j] = IF j < i THEN s[j] ELSE s[j + 1]
<1> DEFINE a == SubSeq(s, 1, i - 1)
<1> DEFINE b == SubSeq(s, i + 1, Len(s))
<1>0. Len(s) \in Nat /\ i \in Nat /\ 1 <= i /\ i <= Len(s)
  BY SMT, SMTT(30)
<1>1. a \in Seq(S) /\ Len(a) = i - 1 /\ \A j \in 1 .. i - 1 : a[j] = s[j]
  BY <1>0, SMT, SMTT(30)
<1>2. b \in Seq(S) /\ Len(b) = Len(s) - i /\ \A j \in 1 .. Len(s) - i : b[j] = s[j + i]
  BY <1>0, SMT, SMTT(30)
<1>3. Deleted(s, i) = a \o b
  BY DEF Deleted
<1> HIDE DEF a, b
<1>4. a \o b \in Seq(S) /\ Len(a \o b) = Len(s) - 1
  <2>1. a \in Seq(S) /\ b \in Seq(S)
    BY <1>1, <1>2
  <2>2. a \o b \in Seq(S) /\ Len(a \o b) = Len(a) + Len(b)
    BY <2>1, SMT, SMTT(30)
  <2>3. Len(a) + Len(b) = Len(s) - 1
    BY <1>0, <1>1, <1>2, SMT, SMTT(30)
  <2> QED BY <2>2, <2>3
<1>5. ASSUME NEW j \in 1 .. Len(s) - 1, j < i PROVE (a \o b)[j] = s[j]
  <2>1. j \in 1 .. Len(a)
    BY <1>0, <1>1, <1>5, SMT, SMTT(30)
  <2> QED BY <1>0, <1>1, <1>2, <1>5, <2>1, SMT, SMTT(30)
<1>6. ASSUME NEW j \in 1 .. Len(s) - 1, ~(j < i) PROVE (a \o b)[j] = s[j + 1]
  <2>1. j \in Len(a) + 1 .. Len(a) + Len(b) /\ j - Len(a) \in 1 .. Len(s) - i
    BY <1>0, <1>1, <1>2, <1>6, SMT, SMTT(30)
  <2>2. (a \o b)[j] = b[j - Len(a)]
    BY <1>1, <1>2, <2>1, SMT, SMTT(30)
  <2>3. b[j - Len(a)] = s[j - Len(a) + i]
    BY <1>2, <2>1
  <2>4. j - Len(a) + i = j + 1
    BY <1>0, <1>1, SMT, SMTT(30)
  <2> QED BY <2>2, <2>3, <2>4
<1> QED BY <1>3, <1>4, <1>5, <1>6

-----------------------------------------------------------------------------
(* What the service's bind callback does: it is refused an address that is *)
(* taken, or binds the endpoint to a free one, the one asked for if any.   *)
Refused(c, entry) ==
    /\ entry.host # ANY => entry.host \in Hosts(c)
    /\ fate' = [fate EXCEPT ![entry.ept] = @ \union {"refused"}]
    /\ bound' = bound /\ peer' = peer

Bound(c, entry, x) ==
    /\ x.ept = entry.ept /\ x.host \notin Hosts(c)
    /\ entry.host # ANY => x = entry
    /\ bound' = [bound EXCEPT ![c] = Append(@, x)]
    /\ peer' = IF OwnerOf[x.ept] = c /\ peer[x.ept] = ANY
               THEN [peer EXCEPT ![x.ept] = x.host] ELSE peer
    /\ fate' = fate

(* A service's bind callback refuses the entry or binds it. *)
LEMMA BindCases ==
    ASSUME RegistryTypeOK, NEW c \in Client, NEW entry \in Unbound \union Binding,
           KindOf[entry.ept] \in Range(Kinds), ns_bind_cb(c, entry)
    PROVE  Refused(c, entry) \/ \E x \in Binding : Bound(c, entry, x)
<1>0. entry.ept \in Ept /\ entry.host \in Nat /\ bound[c] \in Seq(Binding)
  BY SMT, SMTT(30) DEF Unbound, Binding, ANY, RegistryTypeOK
<1>1. CASE Address(c, entry) = {} /\ Befalls({entry.ept}, "refused") /\ UNCHANGED <<bound, peer>>
  <2>1. fate' = [fate EXCEPT ![entry.ept] = @ \union {"refused"}]
    BY <1>0, <1>1 DEF Befalls, RegistryTypeOK
  <2>2. entry.host # ANY => entry.host \in Hosts(c)
    BY <1>1 DEF Address
  <2> QED BY <1>1, <2>1, <2>2 DEF Refused
<1>2. ASSUME NEW h \in Address(c, entry),
             bound' = [bound EXCEPT ![c] = Append(@, [ept |-> entry.ept, host |-> h])],
             peer' = IF OwnerOf[entry.ept] = c /\ peer[entry.ept] = ANY
                     THEN [peer EXCEPT ![entry.ept] = h] ELSE peer,
             UNCHANGED fate
      PROVE  \E x \in Binding : Bound(c, entry, x)
  <2> DEFINE x == [ept |-> entry.ept, host |-> h]
  <2>1. h \in Nat \ {ANY} /\ h \notin Hosts(c)
    BY <1>0, SMT, SMTT(30) DEF Address, LowestFree, ANY
  <2>2. x \in Binding
    BY <1>0, <2>1 DEF Binding
  <2>3. entry.host # ANY => x = entry
    <3> SUFFICES ASSUME entry.host # ANY PROVE x = entry
      OBVIOUS
    <3>1. entry \in Binding
      BY DEF Unbound
    <3>2. h = entry.host
      BY DEF Address
    <3> QED BY <3>1, <3>2 DEF Binding
  <2>4. x.ept = entry.ept /\ x.host = h
    OBVIOUS
  <2> HIDE DEF x
  <2>5. bound' = [bound EXCEPT ![c] = Append(@, x)]
    BY <1>2 DEF x
  <2> QED BY <1>2, <2>1, <2>2, <2>3, <2>4, <2>5 DEF Bound
<1> QED BY <1>1, <1>2 DEF ns_bind_cb

-----------------------------------------------------------------------------
(* Nothing has been registered yet: the initial state is well typed. *)
LEMMA RegistryInitTypes == RegistryInit => RegistryTypeOK
<1> SUFFICES ASSUME RegistryInit PROVE RegistryTypeOK
  OBVIOUS
<1>1. MaxEpts \in Nat /\ OwnerOf \in [Ept -> Client]
  BY RegistryAssumption
<1>2. NoTable \in [num : Nat, slot : [0 .. MaxEpts - 1 -> Binding \union {Empty}]]
  BY DEF NoTable
<1>3. table \in [Client -> [num : Nat, slot : [0 .. MaxEpts - 1 -> Binding \union {Empty}]]]
  BY <1>2 DEF RegistryInit
<1>4. /\ running \in [Client -> BOOLEAN] /\ services \in [Client -> SUBSET Range(Kinds)]
      /\ waiting \in Seq(Unbound \union Binding) /\ bound \in [Client -> Seq(Binding)]
  BY SMT, SMTT(30) DEF RegistryInit
<1>5. /\ epoll \in {Resting} \union Registering /\ notifier \in {Resting} \union Announcing
      /\ update \in [Actor -> {Resting} \union Rewriting]
  BY DEF RegistryInit
<1>6. /\ alive \subseteq Client /\ announced \subseteq Ept /\ peer \in [Ept -> Nat]
      /\ raced \subseteq Client /\ fate \in [Ept -> SUBSET Fate]
  BY DEF RegistryInit, ANY
<1> QED BY <1>3, <1>4, <1>5, <1>6 DEF RegistryTypeOK

(* A bound endpoint or a refusal keeps the types. *)
LEMMA BindTypes ==
    ASSUME RegistryTypeOK, NEW c \in Client, NEW entry \in Unbound \union Binding,
           KindOf[entry.ept] \in Range(Kinds), ns_bind_cb(c, entry)
    PROVE  /\ bound' \in [Client -> Seq(Binding)]
           /\ peer' \in [Ept -> Nat]
           /\ fate' \in [Ept -> SUBSET Fate]
<1>0. entry.ept \in Ept
  BY DEF Unbound, Binding
<1>1. CASE Refused(c, entry)
  <2>1. "refused" \in Fate
    BY DEF Fate
  <2> QED BY <1>0, <1>1, <2>1 DEF Refused, RegistryTypeOK
<1>2. ASSUME NEW x \in Binding, Bound(c, entry, x)
      PROVE  /\ bound' \in [Client -> Seq(Binding)]
             /\ peer' \in [Ept -> Nat]
             /\ fate' \in [Ept -> SUBSET Fate]
  <2>1. x.ept \in Ept /\ x.host \in Nat
    BY DEF Binding
  <2>2. Append(bound[c], x) \in Seq(Binding)
    BY AppendRange DEF RegistryTypeOK
  <2> QED BY <1>2, <2>1, <2>2 DEF Bound, RegistryTypeOK
<1> QED BY <1>1, <1>2, BindCases

(* The epoll thread moves on. *)
LEMMA MovedAt ==
    ASSUME NEW r \in Registering, NEW a \in {"restore", "scan", "update", "add"}
    PROVE  [r EXCEPT !.at = a] \in Registering
BY DEF Registering

(* A registration that moves along the list is still a registration. *)
LEMMA MovedPos ==
    ASSUME NEW r \in Registering, NEW p \in Nat \ {0}
    PROVE  [r EXCEPT !.pos = p] \in Registering
BY DEF Registering

(* A scan for the n-th service is a registration. *)
LEMMA ScanningType ==
    ASSUME NEW c \in Client, NEW n \in 1 .. Len(Kinds)
    PROVE  Scanning(c, n) \in Registering
BY SMT, SMTT(30) DEF Registering, Scanning

(* The next step of an update of the table is well typed. *)
LEMMA GoesTypes ==
    ASSUME RegistryTypeOK, NEW t \in Actor, NEW c \in Client,
           NEW step \in {"clear", "index", "write", "store"},
           NEW n \in Nat \ {0}, NEW num \in Nat, Goes(t, step, c, n, num)
    PROVE  update' \in [Actor -> {Resting} \union Rewriting]
<1>1. [at |-> step, client |-> c, nth |-> n, i |-> num] \in Rewriting
  BY DEF Rewriting
<1> QED BY <1>1 DEF Goes, RegistryTypeOK

(* An update of the table that begins is well typed. *)
LEMMA BeginTypes ==
    ASSUME RegistryTypeOK, NEW t \in Actor, NEW c \in Client, Begin(t, c)
    PROVE  update' \in [Actor -> {Resting} \union Rewriting]
BY GoesTypes, SMT, SMTT(30) DEF Begin

(* Changing one field of a table. *)
LEMMA OneField ==
    ASSUME NEW A, NEW B, NEW q \in [num : A, slot : B], NEW n, NEW y
    PROVE  /\ [q EXCEPT !.slot = y] = [num |-> q.num, slot |-> y]
           /\ [q EXCEPT !.num = n] = [num |-> n, slot |-> q.slot]
<1>1. [q EXCEPT !.slot = y] = [num |-> q.num, slot |-> y]
  BY SMT, SMTT(30)
<1>2. [q EXCEPT !.num = n] = [num |-> n, slot |-> q.slot]
  BY SMT, SMTT(30)
<1> QED BY <1>1, <1>2

(* Writing a slot, and the number of endpoints. *)
LEMMA SlotSet ==
    ASSUME RegistryTypeOK, NEW c \in Client, NEW i \in 0 .. MaxEpts - 1, NEW x \in Binding,
           table' = [table EXCEPT ![c].slot[i] = x]
    PROVE  table' = [table EXCEPT ![c] =
                        [num |-> table[c].num, slot |-> [table[c].slot EXCEPT ![i] = x]]]
<1> DEFINE y == [table[c].slot EXCEPT ![i] = x]
<1>1. table' = [table EXCEPT ![c] = [table[c] EXCEPT !.slot = y]]
  BY DEF RegistryTypeOK
<1> HIDE DEF y
<1>2. [table[c] EXCEPT !.slot = y] = [num |-> table[c].num, slot |-> y]
  <2>1. table[c] \in [num : Nat, slot : [0 .. MaxEpts - 1 -> Binding \union {Empty}]]
    BY DEF RegistryTypeOK
  <2> QED BY <2>1, OneField, SMT, SMTT(30)
<1> QED BY <1>1, <1>2 DEF y

(* Writing the number of endpoints leaves the slots alone. *)
LEMMA NumSet ==
    ASSUME RegistryTypeOK, NEW c \in Client, NEW n \in Nat,
           table' = [table EXCEPT ![c].num = n]
    PROVE  table' = [table EXCEPT ![c] = [num |-> n, slot |-> table[c].slot]]
<1>1. table' = [table EXCEPT ![c] = [table[c] EXCEPT !.num = n]]
  BY DEF RegistryTypeOK
<1>2. [table[c] EXCEPT !.num = n] = [num |-> n, slot |-> table[c].slot]
  <2>1. table[c] \in [num : Nat, slot : [0 .. MaxEpts - 1 -> Binding \union {Empty}]]
    BY DEF RegistryTypeOK
  <2> QED BY <2>1, OneField, SMT, SMTT(30)
<1> QED BY <1>1, <1>2

(* Every step keeps the types. *)
LEMMA RegistryTypes ==
    ASSUME RegistryTypeOK, Lockstep, RegistryNext
    PROVE  RegistryTypeOK'
<1>1. \A c \in Client : StartFresh(c) => RegistryTypeOK'
  <2> SUFFICES ASSUME NEW c \in Client, StartFresh(c) PROVE RegistryTypeOK'
    OBVIOUS
  <2>1. MaxEpts \in Nat
    BY RegistryAssumption
  <2>2. NoTable \in [num : Nat, slot : [0 .. MaxEpts - 1 -> Binding \union {Empty}]]
    BY DEF NoTable
  <2>3. epoll' \in Registering
    BY KindsSeq, SMT, SMTT(30) DEF StartFresh, Registering, Scanning
  <2>4. fate' \in [Ept -> SUBSET Fate]
    BY DEF StartFresh, RegistryTypeOK, Fate
  <2>5. peer' \in [Ept -> Nat]
    BY DEF StartFresh, RegistryTypeOK, ANY
  <2>6. /\ running' \in [Client -> BOOLEAN]
        /\ table' \in [Client -> [num : Nat, slot : [0 .. MaxEpts - 1 -> Binding \union {Empty}]]]
        /\ alive' \subseteq Client /\ announced' \subseteq Ept /\ raced' \subseteq Client
    BY <2>2 DEF StartFresh, RegistryTypeOK
  <2> QED BY <2>3, <2>4, <2>5, <2>6 DEF StartFresh, RegistryTypeOK
<1>2. \A c \in Client : Restore(c) => RegistryTypeOK'
  <2> SUFFICES ASSUME NEW c \in Client, Restore(c) PROVE RegistryTypeOK'
    OBVIOUS
  <2>1. epoll' \in Registering
    BY KindsSeq, SMT, SMTT(30) DEF Restore, Registering
  <2> QED BY <2>1 DEF Restore, RegistryTypeOK, remote, past
<1>3. handle_mica_rsc => RegistryTypeOK'
  <2> SUFFICES ASSUME handle_mica_rsc PROVE RegistryTypeOK'
    OBVIOUS
  <2>0. epoll \in Registering /\ epoll.client \in Client /\ epoll.pos \in Nat \ {0}
    BY EpollCases DEF handle_mica_rsc
  <2>1. epoll' \in Registering
    <3>1. epoll' = [epoll EXCEPT !.pos = epoll.pos + 1] /\ epoll.pos + 1 \in Nat \ {0}
      BY <2>0, SMT, SMTT(30) DEF handle_mica_rsc
    <3> QED BY <2>0, <3>1, MovedPos
  <2>2. epoll.pos - 1 \in 0 .. MaxEpts - 1
    BY <2>0, RegistryAssumption, SMT, SMTT(30) DEF handle_mica_rsc, InTable
  <2>3. table[epoll.client].slot[epoll.pos - 1] \in Binding \union {Empty}
    BY <2>0, <2>2, TableTypes
  <2>4. waiting' \in Seq(Unbound \union Binding)
    <3> DEFINE entry == table[epoll.client].slot[epoll.pos - 1]
    <3>1. waiting' = IF entry = Empty THEN waiting ELSE Append(waiting, entry)
      BY DEF handle_mica_rsc
    <3>2. waiting \in Seq(Unbound \union Binding) /\ entry \in Binding \union {Empty}
      BY <2>3 DEF RegistryTypeOK
    <3> HIDE DEF entry
    <3> QED BY <3>1, <3>2, AppendRange
  <2> QED BY <2>1, <2>4 DEF handle_mica_rsc, RegistryTypeOK, remote, past
<1>4. RestoreEnds => RegistryTypeOK'
  <2> SUFFICES ASSUME RestoreEnds PROVE RegistryTypeOK'
    OBVIOUS
  <2>0. epoll \in Registering /\ epoll.client \in Client
    BY EpollCases DEF RestoreEnds
  <2>1. epoll' \in Registering
    <3>1. epoll' = Scanning(epoll.client, 1)
      BY DEF RestoreEnds
    <3> QED BY <2>0, <3>1, ScanningType, KindsSeq
  <2> QED BY <2>0, <2>1 DEF RestoreEnds, RegistryTypeOK, remote, past
<1>5. Scan => RegistryTypeOK'
  <2> SUFFICES ASSUME Scan PROVE RegistryTypeOK'
    OBVIOUS
  <2>0. epoll \in Registering /\ epoll.client \in Client /\ epoll.pos \in Nat \ {0}
    BY EpollCases DEF Scan
  <2>1. waiting[epoll.pos] \in Unbound \union Binding
    BY <2>0, SMT, SMTT(30) DEF Scan, RegistryTypeOK
  <2>2. CASE KindOf[waiting[epoll.pos].ept] = Kinds[epoll.nth]
    <3>1. ns_bind_cb(epoll.client, waiting[epoll.pos]) /\ Begin("epoll", epoll.client)
      BY <2>2 DEF Scan
    <3>2. KindOf[waiting[epoll.pos].ept] \in Range(Kinds)
      BY <2>0, <2>2, KindsSeq DEF Registering
    <3>3. /\ bound' \in [Client -> Seq(Binding)] /\ peer' \in [Ept -> Nat]
          /\ fate' \in [Ept -> SUBSET Fate]
      BY <2>0, <2>1, <3>1, <3>2, BindTypes
    <3>4. update' \in [Actor -> {Resting} \union Rewriting]
      BY <2>0, <3>1, BeginTypes DEF Actor
    <3>5. epoll' \in Registering
      <4>1. epoll' = [epoll EXCEPT !.at = "update"]
        BY <2>2 DEF Scan
      <4> QED BY <2>0, <4>1, MovedAt
    <3> QED BY <3>3, <3>4, <3>5 DEF Scan, RegistryTypeOK
  <2>3. CASE KindOf[waiting[epoll.pos].ept] # Kinds[epoll.nth]
    <3>1. epoll' \in Registering
      <4>1. epoll' = [epoll EXCEPT !.pos = epoll.pos + 1] /\ epoll.pos + 1 \in Nat \ {0}
        BY <2>0, <2>3, SMT, SMTT(30) DEF Scan
      <4> QED BY <2>0, <4>1, MovedPos
    <3> QED BY <2>3, <3>1 DEF Scan, RegistryTypeOK
  <2> QED BY <2>2, <2>3
<1>6. ScanEnds => RegistryTypeOK'
  <2> SUFFICES ASSUME ScanEnds PROVE RegistryTypeOK'
    OBVIOUS
  <2>0. epoll \in Registering
    BY EpollCases DEF ScanEnds
  <2>1. epoll' \in Registering
    <3>1. epoll' = [epoll EXCEPT !.at = "add"]
      BY DEF ScanEnds
    <3> QED BY <2>0, <3>1, MovedAt
  <2> QED BY <2>1 DEF ScanEnds, RegistryTypeOK, remote, past
<1>7. AddService => RegistryTypeOK'
  <2> SUFFICES ASSUME AddService PROVE RegistryTypeOK'
    OBVIOUS
  <2>0. epoll \in Registering /\ epoll.client \in Client /\ epoll.nth \in 1 .. Len(Kinds)
    BY EpollCases DEF AddService
  <2>1. epoll' \in {Resting} \union Registering
    <3>1. CASE epoll.nth = Len(Kinds)
      BY <3>1 DEF AddService
    <3>2. CASE epoll.nth # Len(Kinds)
      <4>1. /\ epoll' = Scanning(epoll.client, epoll.nth + 1)
            /\ epoll.nth + 1 \in 1 .. Len(Kinds)
        BY <2>0, <3>2, KindsSeq, SMT, SMTT(30) DEF AddService
      <4> QED BY <2>0, <4>1, ScanningType
    <3> QED BY <3>1, <3>2
  <2>2. services' \in [Client -> SUBSET Range(Kinds)]
    BY <2>0, KindsSeq DEF AddService, RegistryTypeOK
  <2> QED BY <2>1, <2>2 DEF AddService, RegistryTypeOK, remote, past
<1>8. \A e \in Ept : mica_ns_bind_cb(e) => RegistryTypeOK'
  <2> SUFFICES ASSUME NEW e \in Ept, mica_ns_bind_cb(e) PROVE RegistryTypeOK'
    OBVIOUS
  <2> DEFINE c == OwnerOf[e]
  <2> DEFINE entry == [ept |-> e, host |-> ANY]
  <2>0. c \in Client /\ entry \in Unbound /\ entry.ept = e
    BY RegistryAssumption DEF Unbound
  <2>1. announced' \subseteq Ept
    BY DEF mica_ns_bind_cb, RegistryTypeOK
  <2>2. CASE KindOf[e] \in services[c]
    <3>1. /\ ns_bind_cb(c, entry) /\ Begin("notifier", c)
          /\ notifier' = [at |-> "update", entry |-> entry]
      BY <2>2 DEF mica_ns_bind_cb
    <3> HIDE DEF entry, c
    <3>2. KindOf[entry.ept] \in Range(Kinds)
      BY <2>0, <2>2 DEF RegistryTypeOK
    <3>3. /\ bound' \in [Client -> Seq(Binding)] /\ peer' \in [Ept -> Nat]
          /\ fate' \in [Ept -> SUBSET Fate]
      BY <2>0, <3>1, <3>2, BindTypes
    <3>4. update' \in [Actor -> {Resting} \union Rewriting]
      BY <2>0, <3>1, BeginTypes DEF Actor
    <3>5. notifier' \in Announcing
      BY <2>0, <3>1 DEF Announcing
    <3> QED BY <2>1, <3>3, <3>4, <3>5 DEF mica_ns_bind_cb, RegistryTypeOK
  <2>3. CASE KindOf[e] \notin services[c]
    <3>1. notifier' = [at |-> "append", entry |-> entry] /\ UNCHANGED <<bound, peer, fate, update>>
      BY <2>3 DEF mica_ns_bind_cb
    <3> HIDE DEF entry, c
    <3>2. notifier' \in Announcing
      BY <2>0, <3>1 DEF Announcing
    <3> QED BY <2>1, <3>1, <3>2 DEF mica_ns_bind_cb, RegistryTypeOK
  <2> QED BY <2>2, <2>3
<1>9. NsAppend => RegistryTypeOK'
  <2> SUFFICES ASSUME NsAppend PROVE RegistryTypeOK'
    OBVIOUS
  <2>0. notifier.entry \in Unbound
    BY NotifierCases DEF NsAppend
  <2>1. waiting' \in Seq(Unbound \union Binding)
    BY <2>0, AppendRange DEF NsAppend, RegistryTypeOK
  <2>2. fate' \in [Ept -> SUBSET Fate]
    BY DEF NsAppend, Befalls, RegistryTypeOK, Fate
  <2> QED BY <2>1, <2>2 DEF NsAppend, RegistryTypeOK, remote
<1>10. \A c \in Client : Stop(c) => RegistryTypeOK'
  <2> SUFFICES ASSUME NEW c \in Client, Stop(c) PROVE RegistryTypeOK'
    OBVIOUS
  <2>1. bound' \in [Client -> Seq(Binding)]
    BY SMT, SMTT(30) DEF Stop, RegistryTypeOK
  <2>2. services' \in [Client -> SUBSET Range(Kinds)]
    BY DEF Stop, RegistryTypeOK
  <2> QED BY <2>1, <2>2 DEF Stop, RegistryTypeOK, past
<1>11. Crash => RegistryTypeOK'
  <2> SUFFICES ASSUME Crash PROVE RegistryTypeOK'
    OBVIOUS
  <2>1. bound' \in [Client -> Seq(Binding)] /\ waiting' \in Seq(Unbound \union Binding)
    BY SMT, SMTT(30) DEF Crash
  <2>2. /\ running' \in [Client -> BOOLEAN] /\ services' \in [Client -> SUBSET Range(Kinds)]
        /\ update' \in [Actor -> {Resting} \union Rewriting]
        /\ epoll' \in {Resting} \union Registering /\ notifier' \in {Resting} \union Announcing
    BY DEF Crash
  <2>3. fate' \in [Ept -> SUBSET Fate]
    BY DEF Crash, RegistryTypeOK, Fate
  <2> QED BY <2>1, <2>2, <2>3 DEF Crash, RegistryTypeOK, remote
<1>12. \A t \in Actor : UpdateClear(t) => RegistryTypeOK'
  <2> SUFFICES ASSUME NEW t \in Actor, UpdateClear(t) PROVE RegistryTypeOK'
    OBVIOUS
  <2> DEFINE c == update[t].client
  <2>0. c \in Client
    BY UpdateCases DEF UpdateClear
  <2>1. NoTable \in [num : Nat, slot : [0 .. MaxEpts - 1 -> Binding \union {Empty}]]
    BY DEF NoTable
  <2>2. update' \in [Actor -> {Resting} \union Rewriting]
    BY <2>0, GoesTypes, SMT, SMTT(30) DEF UpdateClear
  <2>3. table' \in [Client -> [num : Nat, slot : [0 .. MaxEpts - 1 -> Binding \union {Empty}]]]
    BY <2>0, <2>1 DEF UpdateClear, RegistryTypeOK
  <2>4. raced' \subseteq Client
    BY <2>0 DEF UpdateClear, RegistryTypeOK
  <2> QED BY <2>2, <2>3, <2>4 DEF UpdateClear, RegistryTypeOK, remote
<1>13. \A t \in Actor : UpdateIndex(t) => RegistryTypeOK'
  <2> SUFFICES ASSUME NEW t \in Actor, UpdateIndex(t) PROVE RegistryTypeOK'
    OBVIOUS
  <2> DEFINE c == update[t].client
  <2>0. c \in Client /\ update[t].nth \in Nat \ {0} /\ table[c].num \in Nat
    BY UpdateCases, TableTypes DEF UpdateIndex
  <2>1. Goes(t, "write", c, update[t].nth, table[c].num)
    BY DEF UpdateIndex
  <2>2. update' \in [Actor -> {Resting} \union Rewriting]
    BY <2>0, <2>1, GoesTypes
  <2> QED BY <2>2 DEF UpdateIndex, RegistryTypeOK, remote, past
<1>14. \A t \in Actor : UpdateWrite(t) => RegistryTypeOK'
  <2> SUFFICES ASSUME NEW t \in Actor, UpdateWrite(t) PROVE RegistryTypeOK'
    OBVIOUS
  <2> DEFINE c == update[t].client
  <2> DEFINE n == update[t].nth
  <2>0. c \in Client /\ n \in Nat \ {0} /\ table[c].num \in Nat /\ update[t].i \in Nat
    BY UpdateCases, TableTypes DEF UpdateWrite
  <2>1. Goes(t, "store", c, n, table[c].num)
    BY DEF UpdateWrite
  <2>2. update' \in [Actor -> {Resting} \union Rewriting]
    BY <2>0, <2>1, GoesTypes
  <2>3. n <= Len(bound[c]) /\ update[t].i < MaxEpts
    BY DEF UpdateWrite, Lockstep, UpdatePlace
  <2>4. update[t].i \in 0 .. MaxEpts - 1
    BY <2>0, <2>3, RegistryAssumption, SMT, SMTT(30)
  <2>5. bound[c][n] \in Binding
    BY <2>0, <2>3, SMT, SMTT(30) DEF RegistryTypeOK
  <2>6. table' = [table EXCEPT ![c].slot[update[t].i] = bound[c][n]]
    BY DEF UpdateWrite
  <2>7. table' \in [Client -> [num : Nat, slot : [0 .. MaxEpts - 1 -> Binding \union {Empty}]]]
    <3>1. [table[c].slot EXCEPT ![update[t].i] = bound[c][n]]
              \in [0 .. MaxEpts - 1 -> Binding \union {Empty}]
      BY <2>0, <2>4, <2>5, TableTypes
    <3>2. [num |-> table[c].num, slot |-> [table[c].slot EXCEPT ![update[t].i] = bound[c][n]]]
              \in [num : Nat, slot : [0 .. MaxEpts - 1 -> Binding \union {Empty}]]
      BY <2>0, <3>1
    <3> HIDE DEF c, n
    <3> QED BY <2>0, <2>4, <2>5, <2>6, <3>2, SlotSet DEF RegistryTypeOK
  <2> QED BY <2>2, <2>7 DEF UpdateWrite, RegistryTypeOK, remote, past
<1>15. \A t \in Actor : UpdateStore(t) => RegistryTypeOK'
  <2> SUFFICES ASSUME NEW t \in Actor, UpdateStore(t) PROVE RegistryTypeOK'
    OBVIOUS
  <2> DEFINE c == update[t].client
  <2>0. c \in Client /\ update[t].nth + 1 \in Nat \ {0} /\ update[t].i + 1 \in Nat
    BY UpdateCases, SMT, SMTT(30) DEF UpdateStore
  <2>1. Goes(t, "index", c, update[t].nth + 1, 0)
    BY DEF UpdateStore
  <2>2. update' \in [Actor -> {Resting} \union Rewriting]
    BY <2>0, <2>1, GoesTypes
  <2>3. table' \in [Client -> [num : Nat, slot : [0 .. MaxEpts - 1 -> Binding \union {Empty}]]]
    <3>1. table' = [table EXCEPT ![c].num = update[t].i + 1]
      BY DEF UpdateStore
    <3> HIDE DEF c
    <3> QED BY <2>0, <3>1 DEF RegistryTypeOK
  <2> QED BY <2>2, <2>3 DEF UpdateStore, RegistryTypeOK, remote, past
<1>16. \A t \in Actor : UpdateEnds(t) => RegistryTypeOK'
  <2> SUFFICES ASSUME NEW t \in Actor, UpdateEnds(t) PROVE RegistryTypeOK'
    OBVIOUS
  <2>1. update' \in [Actor -> {Resting} \union Rewriting]
    BY DEF UpdateEnds, RegistryTypeOK
  <2>2. fate' \in [Ept -> SUBSET Fate]
    BY DEF UpdateEnds, RegistryTypeOK, Befalls, Fate
  <2>3. CASE t = "epoll"
    <3>1. epoll.at = "update" /\ epoll.pos <= Len(waiting)
      BY <2>3, UpdateCases DEF Lockstep, EpollPlace, UpdateEnds
    <3>2. epoll \in Registering /\ epoll.pos \in Nat \ {0}
      BY <3>1, EpollCases
    <3>3. epoll.pos \in 1 .. Len(waiting)
      BY <3>1, <3>2, SMT, SMTT(30) DEF RegistryTypeOK
    <3>4. waiting' \in Seq(Unbound \union Binding)
      BY <2>3, <3>3, DeletedIs, SMT, SMTT(30) DEF UpdateEnds, RegistryTypeOK
    <3>5. epoll' \in Registering
      BY <2>3, <3>2, MovedAt DEF UpdateEnds
    <3> QED BY <2>1, <2>2, <2>3, <3>4, <3>5 DEF UpdateEnds, RegistryTypeOK, remote
  <2>4. CASE t # "epoll"
    BY <2>1, <2>2, <2>4 DEF UpdateEnds, RegistryTypeOK, remote
  <2> QED BY <2>3, <2>4
<1>17. ASSUME NEW c \in Client, StartFresh(c) \/ Restore(c) \/ Stop(c) \/ StopFaults(c)
      PROVE  RegistryTypeOK'
  BY <1>17, <1>1, <1>2, <1>10, <1>11 DEF StopFaults
<1>18. ASSUME NEW t \in Actor, rsc_update_ept_table(t) PROVE RegistryTypeOK'
  BY <1>18, <1>12, <1>13, <1>14, <1>15,
     <1>16 DEF rsc_update_ept_table
<1>19. CASE handle_mica_rsc \/ RestoreEnds \/ Scan \/ ScanEnds \/ AddService \/ NsAppend \/ Crash
  BY <1>19, <1>3, <1>4, <1>5, <1>6, <1>7,
     <1>9, <1>11
<1>20. ASSUME NEW e \in Ept, mica_ns_bind_cb(e) PROVE RegistryTypeOK'
  BY <1>20, <1>8
<1> QED BY <1>17, <1>18, <1>19, <1>20 DEF RegistryNext


(* A thread that goes on is at the step it goes to; the other one is where it was. *)
LEMMA GoesTo ==
    ASSUME RegistryTypeOK, NEW t \in Actor, NEW c, NEW step, NEW n, NEW num,
           Goes(t, step, c, n, num)
    PROVE  /\ update'[t] = [at |-> step, client |-> c, nth |-> n, i |-> num]
           /\ \A u \in Actor \ {t} : update'[u] = update[u]
BY DEF Goes, RegistryTypeOK

(* The two threads. *)
LEMMA TwoActors ==
    /\ "epoll" \in Actor /\ "notifier" \in Actor /\ "epoll" # "notifier"
    /\ \A t \in Actor : t = "epoll" \/ t = "notifier"
BY DEF Actor

(* The steps of the epoll thread within a registration. *)
LEMMA MovedAtIs ==
    ASSUME NEW q \in Registering, NEW a \in {"restore", "scan", "update", "add"},
           epoll' = [q EXCEPT !.at = a]
    PROVE  /\ epoll' # Resting /\ epoll'.at = a /\ epoll'.client = q.client
           /\ epoll'.nth = q.nth /\ epoll'.pos = q.pos
<1>1. /\ epoll'.at = a /\ epoll'.client = q.client /\ epoll'.nth = q.nth /\ epoll'.pos = q.pos
  BY DEF Registering
<1>2. epoll' # Resting
  BY <1>1 DEF Resting
<1> QED BY <1>1, <1>2

(* What a registration that moves along the list is. *)
LEMMA MovedPosIs ==
    ASSUME NEW q \in Registering, NEW p, epoll' = [q EXCEPT !.pos = p]
    PROVE  /\ epoll' # Resting /\ epoll'.at = q.at /\ epoll'.client = q.client
           /\ epoll'.nth = q.nth /\ epoll'.pos = p
<1>1. /\ epoll'.at = q.at /\ epoll'.client = q.client /\ epoll'.nth = q.nth /\ epoll'.pos = p
  BY DEF Registering
<1>2. epoll' # Resting
  <2>1. q.at # "idle"
    BY DEF Registering
  <2> QED BY <1>1, <2>1 DEF Resting
<1> QED BY <1>1, <1>2

(* What a scan is. *)
LEMMA ScanningIs ==
    ASSUME NEW c, NEW n, epoll' = Scanning(c, n)
    PROVE  /\ epoll' # Resting /\ epoll'.at = "scan" /\ epoll'.client = c
           /\ epoll'.nth = n /\ epoll'.pos = 1
<1>1. /\ epoll'.at = "scan" /\ epoll'.client = c /\ epoll'.nth = n /\ epoll'.pos = 1
  BY DEF Scanning
<1>2. epoll' # Resting
  BY <1>1, SMT, SMTT(30) DEF Resting
<1> QED BY <1>1, <1>2

(* A thread at rest is idle. *)
LEMMA RestingAt == Resting.at = "idle"
BY DEF Resting

-----------------------------------------------------------------------------
(* No thread is at work in the initial state. *)
LEMMA RegistryInitLockstep == RegistryInit => Lockstep
<1> SUFFICES ASSUME RegistryInit PROVE Lockstep
  OBVIOUS
<1>1. \A t \in Actor : update[t] = Resting
  BY DEF RegistryInit
<1>2. EpollPlace
  BY <1>1, RestingAt, TwoActors DEF RegistryInit, EpollPlace
<1>3. \A t \in Actor : UpdatePlace(t)
  BY <1>1, RestingAt DEF UpdatePlace
<1>4. \A c \in Client : ClientPlace(c)
  BY DEF RegistryInit, ClientPlace
<1> QED BY <1>1, <1>2, <1>3, <1>4, RestingAt, TwoActors DEF RegistryInit, Lockstep

(* A bind adds at most one endpoint, to the client it is for. *)
LEMMA BoundGrows ==
    ASSUME RegistryTypeOK, NEW c \in Client, NEW entry \in Unbound \union Binding,
           KindOf[entry.ept] \in Range(Kinds), ns_bind_cb(c, entry)
    PROVE  \A d \in Client :
               /\ Len(bound[d]) \in Nat /\ Len(bound'[d]) \in Nat
               /\ Len(bound[d]) <= Len(bound'[d])
               /\ \A j \in 1 .. Len(bound[d]) : bound'[d][j] = bound[d][j]
               /\ d # c => bound'[d] = bound[d]
<1>0. \A d \in Client : bound[d] \in Seq(Binding) /\ Len(bound[d]) \in Nat
  BY SMT, SMTT(30) DEF RegistryTypeOK
<1>1. CASE Refused(c, entry)
  BY <1>0, <1>1, SMT, SMTT(30) DEF Refused
<1>2. ASSUME NEW x \in Binding, Bound(c, entry, x), NEW d \in Client
      PROVE  /\ Len(bound[d]) \in Nat /\ Len(bound'[d]) \in Nat
             /\ Len(bound[d]) <= Len(bound'[d])
             /\ \A j \in 1 .. Len(bound[d]) : bound'[d][j] = bound[d][j]
             /\ d # c => bound'[d] = bound[d]
  <2>1. bound' = [bound EXCEPT ![c] = Append(bound[c], x)]
    BY <1>2 DEF Bound
  <2>2. CASE d = c
    <3>1. bound'[d] = Append(bound[d], x)
      BY <2>1, <2>2 DEF RegistryTypeOK
    <3> QED BY <1>0, <2>2, <3>1, AppendRange, SMT, SMTT(30)
  <2>3. CASE d # c
    BY <1>0, <2>1, <2>3, SMT, SMTT(30) DEF RegistryTypeOK
  <2> QED BY <2>2, <2>3
<1> QED BY <1>1, <1>2, BindCases

(* A step of an update that does not end it. *)
LEMMA GoesLockstep ==
    ASSUME RegistryTypeOK, Lockstep, NEW t \in Actor,
           NEW step \in {"index", "write", "store"}, NEW n \in Nat, NEW num \in Nat,
           update[t] # Resting, Goes(t, step, update[t].client, n, num),
           step \in {"write", "store"} => n <= Len(bound[update[t].client]),
           step = "write" => num < MaxEpts,
           UNCHANGED <<running, services, waiting, bound, epoll, notifier, alive>>
    PROVE  Lockstep'
<1>1. /\ update'[t] # Resting /\ update'[t].at = step /\ update'[t].client = update[t].client
      /\ update'[t].nth = n /\ update'[t].i = num
      /\ \A u \in Actor \ {t} : update'[u] = update[u]
  <2> DEFINE c == update[t].client
  <2>1. Goes(t, step, c, n, num) /\ step \in {"clear", "index", "write", "store"}
    OBVIOUS
  <2> HIDE DEF c
  <2>2. /\ update'[t] # Resting /\ update'[t].at = step /\ update'[t].client = c
        /\ update'[t].nth = n /\ update'[t].i = num
        /\ \A u \in Actor \ {t} : update'[u] = update[u]
    <3>1. update'[t] = [at |-> step, client |-> c, nth |-> n, i |-> num]
      BY <2>1 DEF Goes, RegistryTypeOK
    <3>2. \A u \in Actor \ {t} : update'[u] = update[u]
      BY <2>1 DEF Goes, RegistryTypeOK
    <3>3. update'[t] # Resting
      <4>1. step # "idle" /\ update'[t].at = step
        BY <2>1, <3>1, SMT, SMTT(30)
      <4> QED BY <4>1, RestingAt
    <3> QED BY <3>1, <3>2, <3>3, SMT, SMTT(30)
  <2> QED BY <2>2 DEF c
<1>2. \A u \in Actor : (update'[u] # Resting <=> update[u] # Resting)
                     /\ (update[u] # Resting => update'[u].client = update[u].client)
  BY <1>1
<1>3. EpollPlace'
  BY <1>2, TwoActors DEF Lockstep, EpollPlace
<1>4. \A u \in Actor : UpdatePlace(u)'
  BY <1>1, <1>2 DEF Lockstep, UpdatePlace
<1>5. notifier'.at = "update" <=> update'["notifier"] # Resting
  BY <1>2, TwoActors DEF Lockstep
<1>6. \A c \in Client : ClientPlace(c)'
  BY DEF Lockstep, ClientPlace
<1> QED BY <1>3, <1>4, <1>5, <1>6 DEF Lockstep

(* Every step keeps the places of the threads consistent with the services and the list. *)
LEMMA LockstepStep ==
    ASSUME RegistryTypeOK, Lockstep, RegistryNext
    PROVE  Lockstep'
<1>1. \A c \in Client : StartFresh(c) => Lockstep'
  <2> SUFFICES ASSUME NEW c \in Client, StartFresh(c) PROVE Lockstep'
    OBVIOUS
  <2>1. /\ running' = [running EXCEPT ![c] = TRUE] /\ alive' = alive \union {c}
        /\ UNCHANGED <<services, waiting, bound, notifier, update>>
    BY DEF StartFresh
  <2>2. epoll'.at = "scan" /\ epoll'.client = c /\ epoll'.pos = 1
    BY ScanningIs DEF StartFresh
  <2>3. update["epoll"] = Resting
    BY RestingAt DEF StartFresh, Lockstep, EpollPlace
  <2>4. EpollPlace'
    BY <2>1, <2>2, <2>3, SMT, SMTT(30) DEF EpollPlace, RegistryTypeOK
  <2>5. \A t \in Actor : UpdatePlace(t)'
    BY <2>1, UpdateCases DEF Lockstep, UpdatePlace, RegistryTypeOK
  <2>6. \A d \in Client : ClientPlace(d)'
    BY <2>1 DEF Lockstep, ClientPlace, RegistryTypeOK
  <2> QED BY <2>1, <2>4, <2>5, <2>6 DEF Lockstep
<1>2. \A c \in Client : Restore(c) => Lockstep'
  <2> SUFFICES ASSUME NEW c \in Client, Restore(c) PROVE Lockstep'
    OBVIOUS
  <2>1. UNCHANGED <<running, services, waiting, bound, notifier, update, alive>>
    BY DEF Restore, remote
  <2>2. epoll'.at = "restore" /\ epoll'.client = c
    BY DEF Restore
  <2>3. update["epoll"] = Resting /\ ~running[c] /\ c \in alive
    BY RestingAt DEF Restore, Lockstep, EpollPlace
  <2>4. EpollPlace'
    BY <2>1, <2>2, <2>3 DEF EpollPlace
  <2> QED BY <2>1, <2>4 DEF Lockstep, UpdatePlace, ClientPlace
<1>3. handle_mica_rsc => Lockstep'
  <2> SUFFICES ASSUME handle_mica_rsc PROVE Lockstep'
    OBVIOUS
  <2>0. epoll \in Registering /\ epoll.at = "restore"
    BY EpollCases DEF handle_mica_rsc
  <2>1. UNCHANGED <<running, services, bound, notifier, update, alive>>
    BY DEF handle_mica_rsc, remote
  <2>2. epoll'.at = "restore" /\ epoll'.client = epoll.client
    <3>1. epoll' = [epoll EXCEPT !.pos = epoll.pos + 1]
      BY DEF handle_mica_rsc
    <3> QED BY <2>0, <3>1, MovedPosIs
  <2>4. EpollPlace'
    BY <2>0, <2>1, <2>2 DEF Lockstep, EpollPlace
  <2> QED BY <2>1, <2>4 DEF Lockstep, UpdatePlace, ClientPlace
<1>4. RestoreEnds => Lockstep'
  <2> SUFFICES ASSUME RestoreEnds PROVE Lockstep'
    OBVIOUS
  <2> DEFINE c == epoll.client
  <2>0. c \in Client /\ c \in alive /\ update["epoll"] = Resting
    BY EpollCases DEF RestoreEnds, Lockstep, EpollPlace
  <2>1. /\ running' = [running EXCEPT ![c] = TRUE]
        /\ UNCHANGED <<services, waiting, bound, notifier, update, alive>>
    BY DEF RestoreEnds, remote
  <2>2. epoll'.at = "scan" /\ epoll'.client = c /\ epoll'.pos = 1
    BY ScanningIs DEF RestoreEnds
  <2> HIDE DEF c
  <2>4. EpollPlace'
    BY <2>0, <2>1, <2>2, SMT, SMTT(30) DEF EpollPlace, RegistryTypeOK
  <2>5. \A t \in Actor : UpdatePlace(t)'
    BY <2>0, <2>1, UpdateCases DEF Lockstep, UpdatePlace, RegistryTypeOK
  <2>6. \A d \in Client : ClientPlace(d)'
    BY <2>0, <2>1 DEF Lockstep, ClientPlace, RegistryTypeOK
  <2> QED BY <2>1, <2>4, <2>5, <2>6 DEF Lockstep
<1>5. Scan => Lockstep'
  <2> SUFFICES ASSUME Scan PROVE Lockstep'
    OBVIOUS
  <2> DEFINE c == epoll.client
  <2> DEFINE entry == waiting[epoll.pos]
  <2>0. /\ epoll \in Registering /\ c \in Client /\ epoll.pos \in Nat \ {0} /\ epoll.at = "scan"
        /\ epoll.pos <= Len(waiting) /\ Len(waiting) \in Nat /\ epoll.nth \in 1 .. Len(Kinds)
    BY EpollCases, SMT, SMTT(30) DEF Scan, RegistryTypeOK
  <2>1. running[c] /\ c \in alive /\ update["epoll"] = Resting
    BY <2>0 DEF Lockstep, EpollPlace, ClientPlace
  <2>2. UNCHANGED <<running, services, waiting, notifier, alive>>
    BY DEF Scan
  <2>3. CASE KindOf[entry.ept] = Kinds[epoll.nth]
    <3>1. ns_bind_cb(c, entry) /\ Goes("epoll", "clear", c, 1, 0)
      BY <2>3 DEF Scan, Begin
    <3>2. entry \in Unbound \union Binding /\ KindOf[entry.ept] \in Range(Kinds)
      BY <2>0, <2>3, KindsSeq, SMT, SMTT(30) DEF RegistryTypeOK
    <3>3. epoll'.at = "update" /\ epoll'.client = c /\ epoll'.pos = epoll.pos
      <4>1. epoll' = [epoll EXCEPT !.at = "update"]
        BY <2>3 DEF Scan
      <4> QED BY <2>0, <4>1, MovedAtIs
    <3> HIDE DEF c, entry
    <3>4. /\ update'["epoll"] # Resting /\ update'["epoll"].at = "clear"
          /\ update'["epoll"].client = c /\ update'["notifier"] = update["notifier"]
      <4>1. /\ update'["epoll"] = [at |-> "clear", client |-> c, nth |-> 1, i |-> 0]
            /\ \A u \in Actor \ {"epoll"} : update'[u] = update[u]
        BY <3>1, GoesTo, TwoActors
      <4> QED BY <4>1, TwoActors, SMT, SMTT(30) DEF Resting
    <3>5. EpollPlace'
      BY <2>0, <2>1, <2>2, <3>3, <3>4 DEF EpollPlace
    <3>6. \A d \in Client :
              /\ Len(bound[d]) \in Nat /\ Len(bound'[d]) \in Nat
              /\ Len(bound[d]) <= Len(bound'[d])
              /\ d # c => bound'[d] = bound[d]
      BY <2>0, <3>1, <3>2, BoundGrows
    <3>7. UpdatePlace("notifier")'
      BY <2>2, <3>4, <3>6, TwoActors, UpdateCases, SMT, SMTT(30) DEF Lockstep, UpdatePlace
    <3>8. UpdatePlace("epoll")'
      BY <2>1, <2>2, <3>4 DEF UpdatePlace
    <3>9. \A d \in Client : ClientPlace(d)'
      BY <2>1, <2>2, <3>6 DEF Lockstep, ClientPlace
    <3> QED BY <2>2, <3>4, <3>5, <3>7, <3>8, <3>9, TwoActors DEF Lockstep
  <2>4. CASE KindOf[entry.ept] # Kinds[epoll.nth]
    <3>1. UNCHANGED <<bound, update>>
      BY <2>4 DEF Scan
    <3>2. epoll'.at = "scan" /\ epoll'.client = c /\ epoll'.pos = epoll.pos + 1
      <4>1. epoll' = [epoll EXCEPT !.pos = epoll.pos + 1]
        BY <2>4 DEF Scan
      <4> QED BY <2>0, <4>1, MovedPosIs
    <3>3. EpollPlace'
      BY <2>0, <2>1, <2>2, <3>1, <3>2, SMT, SMTT(30) DEF EpollPlace
    <3> QED BY <2>2, <3>1, <3>3 DEF Lockstep, UpdatePlace, ClientPlace
  <2> QED BY <2>3, <2>4
<1>6. ScanEnds => Lockstep'
  <2> SUFFICES ASSUME ScanEnds PROVE Lockstep'
    OBVIOUS
  <2>0. epoll \in Registering /\ epoll.at = "scan"
    BY EpollCases DEF ScanEnds
  <2>1. UNCHANGED <<running, services, waiting, bound, notifier, update, alive>>
    BY DEF ScanEnds, remote
  <2>2. epoll'.at = "add" /\ epoll'.client = epoll.client
    BY <2>0, MovedAtIs DEF ScanEnds
  <2>3. EpollPlace'
    BY <2>0, <2>1, <2>2 DEF Lockstep, EpollPlace
  <2> QED BY <2>1, <2>3 DEF Lockstep, UpdatePlace, ClientPlace
<1>7. AddService => Lockstep'
  <2> SUFFICES ASSUME AddService PROVE Lockstep'
    OBVIOUS
  <2> DEFINE c == epoll.client
  <2>0. epoll \in Registering /\ epoll.at = "add" /\ c \in Client
    BY EpollCases DEF AddService
  <2>1. UNCHANGED <<running, waiting, bound, notifier, update, alive>>
    BY DEF AddService, remote
  <2>2. running[c] /\ update["epoll"] = Resting
    BY <2>0 DEF Lockstep, EpollPlace
  <2>3. epoll'.at = "idle" \/ (epoll'.at = "scan" /\ epoll'.client = c /\ epoll'.pos = 1)
    BY ScanningIs, RestingAt DEF AddService
  <2>4. \A d \in Client : d # c => services'[d] = services[d]
    BY DEF AddService, RegistryTypeOK
  <2> HIDE DEF c
  <2>5. EpollPlace'
    BY <2>0, <2>1, <2>2, <2>3, SMT, SMTT(30) DEF EpollPlace, RegistryTypeOK
  <2>6. \A d \in Client : ClientPlace(d)'
    BY <2>1, <2>2, <2>4 DEF Lockstep, ClientPlace
  <2> QED BY <2>1, <2>5, <2>6 DEF Lockstep, UpdatePlace
<1>8. \A e \in Ept : mica_ns_bind_cb(e) => Lockstep'
  <2> SUFFICES ASSUME NEW e \in Ept, mica_ns_bind_cb(e) PROVE Lockstep'
    OBVIOUS
  <2> DEFINE c == OwnerOf[e]
  <2> DEFINE entry == [ept |-> e, host |-> ANY]
  <2>0. c \in Client /\ entry \in Unbound /\ entry.ept = e
    BY RegistryAssumption DEF Unbound
  <2>1. /\ notifier = Resting /\ running[c] /\ update["notifier"] = Resting
        /\ UNCHANGED <<running, services, waiting, epoll, alive>>
    BY RestingAt DEF mica_ns_bind_cb, Lockstep
  <2>2. CASE KindOf[e] \in services[c]
    <3>1. /\ ns_bind_cb(c, entry) /\ Goes("notifier", "clear", c, 1, 0)
          /\ notifier'.at = "update"
      BY <2>2, SMT, SMTT(30) DEF mica_ns_bind_cb, Begin
    <3> HIDE DEF entry, c
    <3>2. KindOf[entry.ept] \in Range(Kinds)
      BY <2>0, <2>2 DEF RegistryTypeOK
    <3>3. /\ update'["notifier"] # Resting /\ update'["notifier"].at = "clear"
          /\ update'["notifier"].client = c /\ update'["epoll"] = update["epoll"]
      <4>1. /\ update'["notifier"] = [at |-> "clear", client |-> c, nth |-> 1, i |-> 0]
            /\ \A u \in Actor \ {"notifier"} : update'[u] = update[u]
        BY <3>1, GoesTo, TwoActors
      <4> QED BY <4>1, TwoActors, SMT, SMTT(30) DEF Resting
    <3>4. \A d \in Client :
              /\ Len(bound[d]) \in Nat /\ Len(bound'[d]) \in Nat
              /\ Len(bound[d]) <= Len(bound'[d])
              /\ d # c => bound'[d] = bound[d]
      BY <2>0, <3>1, <3>2, BoundGrows
    <3>5. EpollPlace'
      BY <2>1, <3>3 DEF Lockstep, EpollPlace
    <3>6. UpdatePlace("epoll")'
      BY <2>1, <3>3, <3>4, TwoActors, UpdateCases, SMT, SMTT(30) DEF Lockstep, UpdatePlace
    <3>7. UpdatePlace("notifier")'
      BY <2>1, <3>3 DEF UpdatePlace
    <3>8. \A d \in Client : ClientPlace(d)'
      BY <2>1, <3>4 DEF Lockstep, ClientPlace
    <3> QED BY <3>1, <3>3, <3>5, <3>6, <3>7, <3>8, TwoActors DEF Lockstep
  <2>3. CASE KindOf[e] \notin services[c]
    <3>1. notifier'.at = "append" /\ UNCHANGED <<bound, update>>
      BY <2>3, SMT, SMTT(30) DEF mica_ns_bind_cb
    <3> QED BY <2>1, <3>1 DEF Lockstep, EpollPlace, UpdatePlace, ClientPlace
  <2> QED BY <2>2, <2>3
<1>9. NsAppend => Lockstep'
  <2> SUFFICES ASSUME NsAppend PROVE Lockstep'
    OBVIOUS
  <2>0. notifier.entry \in Unbound /\ notifier.at = "append"
    BY NotifierCases DEF NsAppend
  <2>1. /\ UNCHANGED <<running, services, bound, epoll, update, alive>>
        /\ notifier'.at = "idle" /\ waiting' = Append(waiting, notifier.entry)
    BY RestingAt DEF NsAppend, remote
  <2>2. Len(waiting') = Len(waiting) + 1 /\ Len(waiting) \in Nat
    BY <2>0, <2>1, AppendRange, SMT, SMTT(30) DEF RegistryTypeOK
  <2>3. EpollPlace'
    BY <2>1, <2>2, EpollCases, SMT, SMTT(30) DEF Lockstep, EpollPlace
  <2> QED BY <2>0, <2>1, <2>3 DEF Lockstep, UpdatePlace, ClientPlace
<1>10. \A c \in Client : Stop(c) => Lockstep'
  <2> SUFFICES ASSUME NEW c \in Client, Stop(c) PROVE Lockstep'
    OBVIOUS
  <2>1. /\ running' = [running EXCEPT ![c] = FALSE] /\ services' = [services EXCEPT ![c] = {}]
        /\ bound' = [bound EXCEPT ![c] = <<>>] /\ alive' = alive \ {c}
        /\ UNCHANGED <<waiting, epoll, notifier, update>> /\ epoll = Resting
        /\ ~Updating("notifier", c)
    BY DEF Stop
  <2>2. update["epoll"] = Resting
    BY <2>1, RestingAt DEF Lockstep, EpollPlace
  <2>3. EpollPlace'
    BY <2>1, <2>2, RestingAt DEF EpollPlace
  <2>4. \A t \in Actor : update[t] # Resting => update[t].client \in Client \ {c}
    BY <2>1, <2>2, UpdateCases, TwoActors DEF Updating
  <2>5. \A t \in Actor : UpdatePlace(t)'
    BY <2>1, <2>4, UpdateCases DEF Lockstep, UpdatePlace, RegistryTypeOK
  <2>6. \A d \in Client : ClientPlace(d)'
    BY <2>1 DEF Lockstep, ClientPlace, RegistryTypeOK
  <2> QED BY <2>1, <2>3, <2>5, <2>6 DEF Lockstep
<1>11. Crash => Lockstep'
  <2> SUFFICES ASSUME Crash PROVE Lockstep'
    OBVIOUS
  <2>1. /\ running' = [c \in Client |-> FALSE] /\ services' = [c \in Client |-> {}]
        /\ bound' = [c \in Client |-> <<>>] /\ epoll' = Resting /\ notifier' = Resting
        /\ update' = [t \in Actor |-> Resting]
    BY DEF Crash
  <2>2. EpollPlace'
    BY <2>1, RestingAt, TwoActors DEF EpollPlace
  <2>3. \A t \in Actor : UpdatePlace(t)'
    BY <2>1, RestingAt DEF UpdatePlace
  <2>4. \A c \in Client : ClientPlace(c)'
    BY <2>1 DEF ClientPlace
  <2> QED BY <2>1, <2>2, <2>3, <2>4, RestingAt, TwoActors DEF Lockstep
<1>12. \A t \in Actor : (UpdateClear(t) \/ UpdateIndex(t) \/ UpdateWrite(t) \/ UpdateStore(t)) => Lockstep'
  <2> SUFFICES ASSUME NEW t \in Actor, UpdateClear(t) \/ UpdateIndex(t) \/ UpdateWrite(t) \/ UpdateStore(t) PROVE Lockstep'
    OBVIOUS
  <2> DEFINE c == update[t].client
  <2> DEFINE n == update[t].nth
  <2>0. /\ update[t] # Resting /\ c \in Client /\ n \in Nat \ {0}
        /\ table[c].num \in Nat
    BY UpdateCases, TableTypes DEF UpdateClear, UpdateIndex, UpdateWrite, UpdateStore
  <2>1. UNCHANGED <<running, services, waiting, bound, epoll, notifier, alive>>
    BY DEF UpdateClear, UpdateIndex, UpdateWrite, UpdateStore, remote
  <2>2. CASE UpdateClear(t)
    <3>1. Goes(t, "index", c, 1, 0)
      BY <2>2 DEF UpdateClear
    <3> QED BY <2>0, <2>1, <3>1, GoesLockstep
  <2>3. CASE UpdateIndex(t)
    <3>1. Goes(t, "write", c, n, table[c].num) /\ n <= Len(bound[c]) /\ table[c].num < MaxEpts
      BY <2>3 DEF UpdateIndex
    <3> QED BY <2>0, <2>1, <3>1, GoesLockstep
  <2>4. CASE UpdateWrite(t)
    <3>1. Goes(t, "store", c, n, table[c].num)
      BY <2>4 DEF UpdateWrite
    <3>2. n <= Len(bound[c])
      BY <2>4 DEF UpdateWrite, Lockstep, UpdatePlace
    <3> QED BY <2>0, <2>1, <3>1, <3>2, GoesLockstep
  <2>5. CASE UpdateStore(t)
    <3>1. Goes(t, "index", c, n + 1, 0) /\ n + 1 \in Nat
      BY <2>0, <2>5, SMT, SMTT(30) DEF UpdateStore
    <3> QED BY <2>0, <2>1, <3>1, GoesLockstep
  <2> QED BY <2>2, <2>3, <2>4, <2>5
<1>13. \A t \in Actor : UpdateEnds(t) => Lockstep'
  <2> SUFFICES ASSUME NEW t \in Actor, UpdateEnds(t) PROVE Lockstep'
    OBVIOUS
  <2>0. update[t] # Resting
    BY UpdateCases, RestingAt DEF UpdateEnds
  <2>1. /\ UNCHANGED <<running, services, bound, alive>>
        /\ update' = [update EXCEPT ![t] = Resting]
    BY DEF UpdateEnds, remote
  <2>2. update'[t] = Resting /\ \A u \in Actor \ {t} : update'[u] = update[u]
    BY <2>1 DEF RegistryTypeOK
  <2>3. \A u \in Actor : UpdatePlace(u)'
    BY <2>1, <2>2, RestingAt DEF Lockstep, UpdatePlace
  <2>4. \A c \in Client : ClientPlace(c)'
    BY <2>1 DEF Lockstep, ClientPlace
  <2>5. CASE t = "epoll"
    <3>1. epoll.at = "update" /\ epoll.pos <= Len(waiting)
      BY <2>0, <2>5 DEF Lockstep, EpollPlace
    <3>2. epoll \in Registering /\ epoll.pos \in Nat \ {0} /\ Len(waiting) \in Nat
      BY <3>1, EpollCases, SMT, SMTT(30) DEF RegistryTypeOK
    <3>3. epoll' = [epoll EXCEPT !.at = "scan"] /\ waiting' = Deleted(waiting, epoll.pos)
          /\ notifier' = notifier
      BY <2>5 DEF UpdateEnds
    <3>4. Len(waiting') = Len(waiting) - 1
      <4>1. epoll.pos \in 1 .. Len(waiting)
        BY <3>1, <3>2, SMT, SMTT(30)
      <4> QED BY <3>3, <4>1, DeletedIs DEF RegistryTypeOK
    <3>5. epoll'.at = "scan" /\ epoll'.client = epoll.client /\ epoll'.pos = epoll.pos
      BY <3>2, <3>3, MovedAtIs
    <3>6. EpollPlace'
      BY <2>1, <2>2, <2>5, <3>1, <3>2, <3>4, <3>5, SMT, SMTT(30) DEF Lockstep, EpollPlace
    <3> QED BY <2>2, <2>3, <2>4, <2>5, <3>3, <3>6, TwoActors DEF Lockstep
  <2>6. CASE t = "notifier"
    <3>1. notifier' = Resting /\ UNCHANGED <<waiting, epoll>>
      BY <2>6, TwoActors DEF UpdateEnds
    <3>2. EpollPlace'
      BY <2>1, <2>2, <2>6, <3>1, TwoActors DEF Lockstep, EpollPlace
    <3> QED BY <2>2, <2>3, <2>4, <2>6, <3>1, <3>2, RestingAt DEF Lockstep
  <2> QED BY <2>5, <2>6, TwoActors
<1>14. ASSUME NEW c \in Client, StartFresh(c) \/ Restore(c) \/ Stop(c) \/ StopFaults(c)
      PROVE  Lockstep'
  BY <1>14, <1>1, <1>2, <1>10, <1>11 DEF StopFaults
<1>15. ASSUME NEW t \in Actor, rsc_update_ept_table(t) PROVE Lockstep'
  BY <1>15, <1>12, <1>13 DEF rsc_update_ept_table
<1>16. CASE handle_mica_rsc \/ RestoreEnds \/ Scan \/ ScanEnds \/ AddService \/ NsAppend \/ Crash
  BY <1>16, <1>3, <1>4, <1>5, <1>6,
     <1>7, <1>9, <1>11
<1>17. ASSUME NEW e \in Ept, mica_ns_bind_cb(e) PROVE Lockstep'
  BY <1>17, <1>8
<1> QED BY <1>14, <1>15, <1>16, <1>17 DEF RegistryNext


Excused(e) == fate[e] \intersect {"nospace", "leftover"} # {}

(* What is bound is a sequence of bindings. *)
LEMMA BoundTypes ==
    ASSUME RegistryTypeOK, NEW c \in Client
    PROVE  /\ bound[c] \in Seq(Binding) /\ Len(bound[c]) \in Nat
           /\ \A j \in 1 .. Len(bound[c]) :
                /\ bound[c][j] \in Binding /\ bound[c][j].ept \in Ept
                /\ bound[c][j] \in Range(bound[c])
<1>1. bound[c] \in Seq(Binding) /\ Len(bound[c]) \in Nat
  BY SMT, SMTT(30) DEF RegistryTypeOK
<1>2. \A j \in 1 .. Len(bound[c]) : bound[c][j] \in Binding
  BY <1>1, SMT, SMTT(30)
<1>3. \A x \in Binding : x.ept \in Ept
  BY DEF Binding
<1>4. \A j \in 1 .. Len(bound[c]) : bound[c][j] \in Range(bound[c])
  BY <1>1, SeqRange
<1> QED BY <1>1, <1>2, <1>3, <1>4

(* A step that leaves alone the table of a client, its bound endpoints and *)
(* the updates for it.                                                     *)
LEMMA SameTable ==
    ASSUME NEW c \in Client, InTheTable(c), bound'[c] = bound[c], table'[c] = table[c],
           running'[c] => running[c],
           \A t \in Actor : Updating(t, c)' <=> Updating(t, c),
           \A t \in Actor : Updating(t, c) => update'[t] = update[t],
           \A j \in 1 .. Len(bound[c]) : running[c] /\ Excused(bound[c][j].ept) =>
               Excused(bound[c][j].ept)'
    PROVE  InTheTable(c)'
<1>1. \A t \in Actor : Rebuilding(t, c)' <=> Rebuilding(t, c)
  BY DEF Rebuilding
<1>2. ASSUME NEW t \in Actor, Rebuilding(t, c)'
      PROVE  /\ Written(c, update[t].nth - 1)' /\ NextWritten(t, c)'
             /\ \A u \in Actor \ {t} : ~Rebuilding(u, c)'
  <2>1. Rebuilding(t, c) /\ update'[t] = update[t]
    BY <1>1, <1>2 DEF Rebuilding
  <2>2. /\ Written(c, update[t].nth - 1) /\ NextWritten(t, c)
        /\ \A u \in Actor \ {t} : ~Rebuilding(u, c)
    BY <2>1 DEF InTheTable
  <2>3. Written(c, update[t].nth - 1)'
    BY <2>1, <2>2 DEF Written
  <2>4. NextWritten(t, c)'
    BY <2>1, <2>2 DEF NextWritten
  <2> QED BY <1>1, <2>2, <2>3, <2>4
<1>3. ASSUME running'[c], \A t \in Actor : ~Updating(t, c)'
      PROVE  AllWritten(c)'
  <2>1. AllWritten(c) /\ running[c]
    BY <1>3 DEF InTheTable
  <2> QED BY <2>1 DEF AllWritten, InTable, Excused
<1> QED BY <1>2, <1>3 DEF InTheTable

(* No client runs in the initial state, so its table promises nothing. *)
LEMMA RegistryInitTable == RegistryInit => TableInv
<1> SUFFICES ASSUME RegistryInit, NEW c \in Client PROVE InTheTable(c)
  BY DEF TableInv
<1>1. \A t \in Actor : ~Updating(t, c)
  BY DEF RegistryInit, Updating
<1>2. ~running[c]
  BY DEF RegistryInit
<1> QED BY <1>1, <1>2 DEF InTheTable, Rebuilding

(* Nothing of the table changes, and fates only add up. *)
LEMMA TableFrame ==
    ASSUME RegistryTypeOK, TableInv, UNCHANGED <<running, bound, table, update, raced>>,
           \A e \in Ept : fate[e] \subseteq fate'[e]
    PROVE  TableInv'
<1> SUFFICES ASSUME NEW c \in Client \ raced PROVE InTheTable(c)'
  BY DEF TableInv
<1>1. InTheTable(c)
  BY DEF TableInv
<1>2. \A t \in Actor : (Updating(t, c)' <=> Updating(t, c)) /\ update'[t] = update[t]
  BY DEF Updating
<1>3. \A j \in 1 .. Len(bound[c]) : bound[c][j].ept \in Ept
  BY BoundTypes
<1>4. \A e \in Ept : Excused(e) => Excused(e)'
  BY DEF Excused
<1> QED BY <1>1, <1>2, <1>3, <1>4, SameTable

(* No thread updates the table of a client that does not run. *)
LEMMA NobodyUpdates ==
    ASSUME RegistryTypeOK, Lockstep, NEW c \in Client, ~running[c]
    PROVE  \A t \in Actor : ~Updating(t, c)
BY DEF Lockstep, UpdatePlace, Updating

(* A bind adds fates and takes none away. *)
LEMMA BindFates ==
    ASSUME RegistryTypeOK, NEW c \in Client, NEW entry \in Unbound \union Binding,
           KindOf[entry.ept] \in Range(Kinds), ns_bind_cb(c, entry)
    PROVE  \A e \in Ept : fate[e] \subseteq fate'[e]
<1>1. CASE Refused(c, entry)
  BY <1>1 DEF Refused, RegistryTypeOK
<1>2. ASSUME NEW x \in Binding, Bound(c, entry, x) PROVE fate' = fate
  BY <1>2 DEF Bound
<1> QED BY <1>1, <1>2, BindCases

(* A bind begins the update that will record it, so the table is not yet due. *)
LEMMA BindTable ==
    ASSUME RegistryTypeOK, Lockstep, TableInv, NEW t \in Actor, NEW d \in Client,
           NEW entry \in Unbound \union Binding, KindOf[entry.ept] \in Range(Kinds),
           ns_bind_cb(d, entry), Begin(t, d), update[t] = Resting,
           UNCHANGED <<running, table, raced>>
    PROVE  TableInv'
<1> SUFFICES ASSUME NEW c \in Client \ raced PROVE InTheTable(c)'
  BY DEF TableInv
<1>1. InTheTable(c)
  BY DEF TableInv
<1>2. /\ update'[t] # Resting /\ update'[t].at = "clear" /\ update'[t].client = d
      /\ \A u \in Actor \ {t} : update'[u] = update[u]
  <2>1. /\ update'[t] = [at |-> "clear", client |-> d, nth |-> 1, i |-> 0]
        /\ \A u \in Actor \ {t} : update'[u] = update[u]
    BY GoesTo DEF Begin
  <2> QED BY <2>1, SMT, SMTT(30) DEF Resting
<1>3. /\ Len(bound[c]) \in Nat /\ Len(bound'[c]) \in Nat /\ Len(bound[c]) <= Len(bound'[c])
      /\ \A j \in 1 .. Len(bound[c]) : bound'[c][j] = bound[c][j]
  BY BoundGrows
<1>4. \A u \in Actor : Rebuilding(u, c)' => Rebuilding(u, c) /\ u # t /\ update'[u] = update[u]
  BY <1>2 DEF Rebuilding, Updating
<1>5. ASSUME NEW u \in Actor, Rebuilding(u, c)'
      PROVE  /\ Written(c, update[u].nth - 1)' /\ NextWritten(u, c)'
             /\ \A v \in Actor \ {u} : ~Rebuilding(v, c)'
  <2>1. Rebuilding(u, c) /\ update'[u] = update[u]
    BY <1>4, <1>5
  <2>2. /\ Written(c, update[u].nth - 1) /\ NextWritten(u, c)
        /\ \A v \in Actor \ {u} : ~Rebuilding(v, c)
    BY <1>1, <2>1 DEF InTheTable
  <2>3. update[u].nth \in Nat \ {0} /\ update[u].client = c
    BY <2>1, UpdateCases DEF Rebuilding, Updating
  <2> DEFINE n == update[u].nth - 1
  <2>n. n \in Nat /\ n' = n
    BY <2>1, <2>3, SMT, SMTT(30)
  <2>4. Written(c, n)'
    <3> HIDE DEF n
    <3>1. Written(c, n)
      BY <2>2 DEF n
    <3>2. \A j \in 1 .. n : bound'[c][j] = bound[c][j]
      BY <1>3, <2>n, <3>1, SMT, SMTT(30) DEF Written
    <3>3. n <= Len(bound'[c])
      BY <1>3, <2>n, <3>1, SMT, SMTT(30) DEF Written
    <3> QED BY <2>n, <3>1, <3>2, <3>3 DEF Written
  <2>5. update[u].at \in {"write", "store"} => update[u].nth <= Len(bound[c])
    BY <2>3 DEF Lockstep, UpdatePlace
  <2>6. NextWritten(u, c)'
    BY <1>3, <2>1, <2>2, <2>3, <2>5, SMT, SMTT(30) DEF NextWritten
  <2> QED BY <1>4, <2>2, <2>n, <2>4, <2>6
<1>6. CASE c = d
  <2>1. Updating(t, c)'
    BY <1>2, <1>6 DEF Updating
  <2> QED BY <1>5, <2>1 DEF InTheTable
<1>7. CASE c # d
  <2>1. bound'[c] = bound[c]
    <3>1. CASE Refused(d, entry)
      BY <3>1 DEF Refused
    <3>2. ASSUME NEW x \in Binding, Bound(d, entry, x) PROVE bound'[c] = bound[c]
      BY <1>7, <3>2 DEF Bound, RegistryTypeOK
    <3> QED BY <3>1, <3>2, BindCases
  <2>2. \A u \in Actor : (Updating(u, c)' <=> Updating(u, c)) /\ (Updating(u, c) => u # t)
    BY <1>2, <1>7 DEF Updating
  <2>3. \A e \in Ept : Excused(e) => Excused(e)'
    BY BindFates DEF Excused
  <2>4. \A j \in 1 .. Len(bound[c]) : bound[c][j].ept \in Ept
    BY BoundTypes
  <2> QED BY <1>1, <1>2, <2>1, <2>2, <2>3, <2>4, SameTable
<1> QED BY <1>6, <1>7

(* An update of the table of another client leaves that of c alone. *)
LEMMA OtherTable ==
    ASSUME RegistryTypeOK, NEW t \in Actor, update[t] # Resting,
           NEW c \in Client, c # update[t].client, InTheTable(c),
           UNCHANGED <<bound, running>>, table'[c] = table[c],
           \A u \in Actor \ {t} : update'[u] = update[u],
           update'[t] = Resting \/ update'[t].client = update[t].client,
           \A e \in Ept : fate[e] \subseteq fate'[e]
    PROVE  InTheTable(c)'
<1>1. \A u \in Actor : (Updating(u, c)' <=> Updating(u, c)) /\ (Updating(u, c) => u # t)
  BY DEF Updating
<1>2. \A e \in Ept : Excused(e) => Excused(e)'
  BY DEF Excused
<1>3. \A j \in 1 .. Len(bound[c]) : bound[c][j].ept \in Ept
  BY BoundTypes
<1> QED BY <1>1, <1>2, <1>3, SameTable

(* The only update of the table of c goes on. *)
LEMMA GoesOn ==
    ASSUME NEW t \in Actor, NEW c \in Client, InTheTable(c), Rebuilding(t, c),
           \A u \in Actor \ {t} : update'[u] = update[u],
           update'[t] # Resting, update'[t].client = c,
           Written(c, update[t].nth - 1)', NextWritten(t, c)'
    PROVE  InTheTable(c)'
<1>1. \A u \in Actor \ {t} : ~Rebuilding(u, c)'
  BY DEF InTheTable, Rebuilding, Updating
<1>2. Updating(t, c)'
  BY DEF Updating
<1> QED BY <1>1, <1>2 DEF InTheTable

(* One slot of the table of c is written, or its count. *)
SlotWritten(c, i, x) == table' = [table EXCEPT ![c].slot[i] = x]
CountWritten(c, n) == table' = [table EXCEPT ![c].num = n]

(* Writing slot i of the table of c writes nothing else. *)
LEMMA SlotWrittenIs ==
    ASSUME RegistryTypeOK, NEW c \in Client, NEW i \in 0 .. MaxEpts - 1, NEW x \in Binding,
           SlotWritten(c, i, x)
    PROVE  /\ table'[c].num = table[c].num /\ table'[c].slot[i] = x
           /\ \A j \in 0 .. MaxEpts - 1 : j # i => table'[c].slot[j] = table[c].slot[j]
           /\ \A d \in Client \ {c} : table'[d] = table[d]
<1> DEFINE y == [table[c].slot EXCEPT ![i] = x]
<1>1. table' = [table EXCEPT ![c] = [num |-> table[c].num, slot |-> y]]
  <2>1. table' = [table EXCEPT ![c] = [table[c] EXCEPT !.slot = y]]
    BY DEF RegistryTypeOK, SlotWritten
  <2> HIDE DEF y
  <2>2. table[c] \in [num : Nat, slot : [0 .. MaxEpts - 1 -> Binding \union {Empty}]]
    BY DEF RegistryTypeOK
  <2>3. [table[c] EXCEPT !.slot = y] = [num |-> table[c].num, slot |-> y]
    BY <2>2, OneField, SMT, SMTT(30)
  <2> QED BY <2>1, <2>3
<1>2. table[c].slot \in [0 .. MaxEpts - 1 -> Binding \union {Empty}]
  BY TableTypes
<1>3. y[i] = x /\ \A j \in 0 .. MaxEpts - 1 : j # i => y[j] = table[c].slot[j]
  BY <1>2
<1> HIDE DEF y
<1>4. table'[c] = [num |-> table[c].num, slot |-> y]
  BY <1>1 DEF RegistryTypeOK
<1>5. table'[c].num = table[c].num /\ table'[c].slot = y
  BY <1>4, SMT, SMTT(30)
<1>6. \A d \in Client \ {c} : table'[d] = table[d]
  BY <1>1 DEF RegistryTypeOK
<1> QED BY <1>3, <1>5, <1>6

(* Writing the count of the table of c writes nothing else. *)
LEMMA CountWrittenIs ==
    ASSUME RegistryTypeOK, NEW c \in Client, NEW n \in Nat, CountWritten(c, n)
    PROVE  /\ table'[c].num = n /\ table'[c].slot = table[c].slot
           /\ \A d \in Client \ {c} : table'[d] = table[d]
<1>1. table' = [table EXCEPT ![c] = [num |-> n, slot |-> table[c].slot]]
  BY NumSet DEF CountWritten
<1>4. table'[c] = [num |-> n, slot |-> table[c].slot]
  BY <1>1 DEF RegistryTypeOK
<1>5. table'[c].num = n /\ table'[c].slot = table[c].slot
  BY <1>4, SMT, SMTT(30)
<1>6. \A d \in Client \ {c} : table'[d] = table[d]
  BY <1>1 DEF RegistryTypeOK
<1> QED BY <1>5, <1>6

(* Every step keeps the tables in step with what is bound and the updates under way. *)
LEMMA TableStep ==
    ASSUME RegistryTypeOK, Lockstep, TableInv, RegistryNext
    PROVE  TableInv'
<1>1. \A d \in Client : StartFresh(d) => TableInv'
  <2> SUFFICES ASSUME NEW d \in Client, StartFresh(d) PROVE TableInv'
    OBVIOUS
  <2> SUFFICES ASSUME NEW c \in Client \ raced' PROVE InTheTable(c)'
    BY DEF TableInv
  <2>1. /\ running' = [running EXCEPT ![d] = TRUE] /\ ~running[d]
        /\ table' = [table EXCEPT ![d] = NoTable] /\ raced' = raced \ {d}
        /\ UNCHANGED <<bound, update>>
    BY DEF StartFresh
  <2>u. \A t \in Actor : (Updating(t, c)' <=> Updating(t, c)) /\ update'[t] = update[t]
    BY <2>1 DEF Updating
  <2>2. CASE c = d
    <3>1. bound[c] = <<>>
      BY <2>1, <2>2 DEF Lockstep, ClientPlace
    <3>2. AllWritten(c)'
      BY <2>1, <3>1, SMT, SMTT(30) DEF AllWritten
    <3>3. \A t \in Actor : ~Updating(t, c)'
      BY <2>1, <2>2, <2>u, NobodyUpdates
    <3> QED BY <3>2, <3>3 DEF InTheTable, Rebuilding
  <2>3. CASE c # d
    <3>1. InTheTable(c)
      BY <2>1, <2>3 DEF TableInv
    <3>2. bound'[c] = bound[c] /\ table'[c] = table[c] /\ running'[c] = running[c]
      BY <2>1, <2>3 DEF RegistryTypeOK
    <3>3. ASSUME NEW j \in 1 .. Len(bound[c]), running[c], Excused(bound[c][j].ept)
          PROVE  Excused(bound[c][j].ept)'
      <4> DEFINE e == bound[c][j].ept
      <4>1. e \in Ept /\ bound[c][j] \in Range(bound[c])
        BY BoundTypes
      <4>2. c \in alive
        BY <3>3 DEF Lockstep, ClientPlace
      <4>3. InUse(e)
        BY <4>1, <4>2 DEF InUse
      <4> HIDE DEF e
      <4>4. fate'[e] = IF OwnerOf[e] # d THEN fate[e] ELSE {"leftover"}
        BY <4>1, <4>3 DEF StartFresh
      <4>5. fate'[e] \intersect {"nospace", "leftover"} # {}
        BY <3>3, <4>4 DEF Excused, e
      <4>6. bound'[c][j].ept = e
        BY <3>2 DEF e
      <4> QED BY <4>5, <4>6 DEF Excused
    <3> QED BY <2>u, <3>1, <3>2, <3>3, SameTable
  <2> QED BY <2>2, <2>3
<1>2. RestoreEnds => TableInv'
  <2> SUFFICES ASSUME RestoreEnds PROVE TableInv'
    OBVIOUS
  <2> SUFFICES ASSUME NEW c \in Client \ raced' PROVE InTheTable(c)'
    BY DEF TableInv
  <2> DEFINE d == epoll.client
  <2>1. /\ running' = [running EXCEPT ![d] = TRUE] /\ UNCHANGED <<bound, table, update, raced, fate>>
    BY DEF RestoreEnds, past
  <2>d. d \in Client /\ ~running[d]
    BY EpollCases DEF RestoreEnds, Lockstep, EpollPlace
  <2> HIDE DEF d
  <2>u. \A t \in Actor : (Updating(t, c)' <=> Updating(t, c)) /\ update'[t] = update[t]
    BY <2>1 DEF Updating
  <2>2. CASE c = d
    <3>1. bound[c] = <<>>
      BY <2>d, <2>2 DEF Lockstep, ClientPlace
    <3>2. AllWritten(c)'
      BY <2>1, <3>1, SMT, SMTT(30) DEF AllWritten
    <3>3. \A t \in Actor : ~Updating(t, c)'
      BY <2>d, <2>2, <2>u, NobodyUpdates
    <3> QED BY <3>2, <3>3 DEF InTheTable, Rebuilding
  <2>3. CASE c # d
    <3>1. InTheTable(c)
      BY <2>1 DEF TableInv
    <3>2. bound'[c] = bound[c] /\ table'[c] = table[c] /\ running'[c] = running[c]
      BY <2>1, <2>3 DEF RegistryTypeOK
    <3>3. \A j \in 1 .. Len(bound[c]) : Excused(bound[c][j].ept) => Excused(bound[c][j].ept)'
      BY <2>1 DEF Excused
    <3> QED BY <2>u, <3>1, <3>2, <3>3, SameTable
  <2> QED BY <2>2, <2>3
<1>3. \A d \in Client : Stop(d) => TableInv'
  <2> SUFFICES ASSUME NEW d \in Client, Stop(d) PROVE TableInv'
    OBVIOUS
  <2> SUFFICES ASSUME NEW c \in Client \ raced PROVE InTheTable(c)'
    BY DEF TableInv, Stop, past
  <2>1. /\ running' = [running EXCEPT ![d] = FALSE] /\ bound' = [bound EXCEPT ![d] = <<>>]
        /\ UNCHANGED <<table, update, raced, fate>> /\ epoll = Resting /\ ~Updating("notifier", d)
    BY DEF Stop, past
  <2>u. \A t \in Actor : (Updating(t, c)' <=> Updating(t, c)) /\ update'[t] = update[t]
    BY <2>1 DEF Updating
  <2>2. CASE c = d
    <3>1. ~running'[c]
      BY <2>1, <2>2 DEF RegistryTypeOK
    <3>2. update["epoll"] = Resting
      BY <2>1, RestingAt DEF Lockstep, EpollPlace
    <3>3. \A t \in Actor : ~Updating(t, c)'
      BY <2>1, <2>2, <2>u, <3>2, TwoActors DEF Updating
    <3> QED BY <3>1, <3>3 DEF InTheTable, Rebuilding
  <2>3. CASE c # d
    <3>1. InTheTable(c)
      BY <2>1 DEF TableInv
    <3>2. bound'[c] = bound[c] /\ table'[c] = table[c] /\ running'[c] = running[c]
      BY <2>1, <2>3 DEF RegistryTypeOK
    <3>3. \A j \in 1 .. Len(bound[c]) : Excused(bound[c][j].ept) => Excused(bound[c][j].ept)'
      BY <2>1, <3>2 DEF Excused
    <3> QED BY <2>u, <3>1, <3>2, <3>3, SameTable
  <2> QED BY <2>2, <2>3
<1>4. Crash => TableInv'
  <2> SUFFICES ASSUME Crash PROVE TableInv'
    OBVIOUS
  <2> SUFFICES ASSUME NEW c \in Client PROVE InTheTable(c)'
    BY DEF TableInv
  <2>1. ~running'[c] /\ \A t \in Actor : ~Updating(t, c)'
    BY DEF Crash, Updating
  <2> QED BY <2>1 DEF InTheTable, Rebuilding
<1>5. Scan => TableInv'
  <2> SUFFICES ASSUME Scan PROVE TableInv'
    OBVIOUS
  <2> DEFINE c == epoll.client
  <2> DEFINE entry == waiting[epoll.pos]
  <2>0. c \in Client /\ entry \in Unbound \union Binding /\ epoll.nth \in 1 .. Len(Kinds)
    BY EpollCases, SMT, SMTT(30) DEF Scan, RegistryTypeOK
  <2>1. UNCHANGED <<running, table, raced>>
    BY DEF Scan
  <2>2. CASE KindOf[entry.ept] = Kinds[epoll.nth]
    <3>1. ns_bind_cb(c, entry) /\ Begin("epoll", c)
      BY <2>2 DEF Scan
    <3>2. update["epoll"] = Resting
      BY DEF Scan, Lockstep, EpollPlace
    <3>3. KindOf[entry.ept] \in Range(Kinds)
      BY <2>0, <2>2, KindsSeq
    <3> HIDE DEF c, entry
    <3> QED BY <2>0, <2>1, <3>1, <3>2, <3>3, TwoActors, BindTable
  <2>3. CASE KindOf[entry.ept] # Kinds[epoll.nth]
    <3>1. UNCHANGED <<bound, update, fate>>
      BY <2>3 DEF Scan
    <3> QED BY <2>1, <3>1, TableFrame
  <2> QED BY <2>2, <2>3
<1>6. \A e \in Ept : mica_ns_bind_cb(e) => TableInv'
  <2> SUFFICES ASSUME NEW e \in Ept, mica_ns_bind_cb(e) PROVE TableInv'
    OBVIOUS
  <2> DEFINE c == OwnerOf[e]
  <2> DEFINE entry == [ept |-> e, host |-> ANY]
  <2>0. c \in Client /\ entry \in Unbound /\ entry.ept = e
    BY RegistryAssumption DEF Unbound
  <2>1. UNCHANGED <<running, table, raced>>
    BY DEF mica_ns_bind_cb
  <2>2. CASE KindOf[e] \in services[c]
    <3>1. ns_bind_cb(c, entry) /\ Begin("notifier", c)
      BY <2>2 DEF mica_ns_bind_cb
    <3>2. update["notifier"] = Resting
      BY RestingAt DEF mica_ns_bind_cb, Lockstep
    <3>3. KindOf[entry.ept] \in Range(Kinds)
      BY <2>0, <2>2 DEF RegistryTypeOK
    <3> HIDE DEF c, entry
    <3> QED BY <2>0, <2>1, <3>1, <3>2, <3>3, TwoActors, BindTable
  <2>3. CASE KindOf[e] \notin services[c]
    <3>1. UNCHANGED <<bound, update, fate>>
      BY <2>3 DEF mica_ns_bind_cb
    <3> QED BY <2>1, <3>1, TableFrame
  <2> QED BY <2>2, <2>3
<1>7. \A t \in Actor : UpdateClear(t) => TableInv'
  <2> SUFFICES ASSUME NEW t \in Actor, UpdateClear(t) PROVE TableInv'
    OBVIOUS
  <2> DEFINE d == update[t].client
  <2>0. /\ update[t] # Resting /\ d \in Client
        /\ bound[d] \in Seq(Binding) /\ Len(bound[d]) \in Nat /\ MaxEpts \in Nat
    BY UpdateCases, RestingAt, BoundTypes, RegistryAssumption DEF UpdateClear
  <2>1. /\ UNCHANGED <<running, bound, fate>> /\ table' = [table EXCEPT ![d] = NoTable]
        /\ Goes(t, "index", d, 1, 0)
        /\ raced' = IF \E u \in Actor \ {t} : Updating(u, d) THEN raced \union {d} ELSE raced \ {d}
    BY DEF UpdateClear
  <2>2. /\ update'[t] # Resting /\ update'[t].at = "index" /\ update'[t].client = d
        /\ update'[t].nth = 1 /\ \A u \in Actor \ {t} : update'[u] = update[u]
    <3>1. Goes(t, "index", d, 1, 0)
      BY <2>1
    <3> HIDE DEF d
    <3>2. /\ update'[t] = [at |-> "index", client |-> d, nth |-> 1, i |-> 0]
          /\ \A u \in Actor \ {t} : update'[u] = update[u]
      BY <3>1, GoesTo
    <3> QED BY <3>2, SMT, SMTT(30) DEF Resting
  <2> SUFFICES ASSUME NEW c \in Client \ raced' PROVE InTheTable(c)'
    BY DEF TableInv
  <2>3. CASE c # d
    <3>1. InTheTable(c) /\ table'[c] = table[c]
      BY <2>0, <2>1, <2>3 DEF TableInv, RegistryTypeOK
    <3> QED BY <2>0, <2>1, <2>2, <2>3, <3>1, OtherTable
  <2>4. CASE c = d
    <3>1. \A u \in Actor \ {t} : ~Updating(u, c)'
      BY <2>1, <2>2, <2>4 DEF Updating
    <3>2. Updating(t, c)'
      BY <2>2, <2>4 DEF Updating
    <3>3. table'[c].num = 0
      BY <2>1, <2>4 DEF RegistryTypeOK, NoTable
    <3>4. Written(c, update[t].nth - 1)'
      BY <2>0, <2>1, <2>2, <2>4, <3>3, SMT, SMTT(30) DEF Written
    <3>5. NextWritten(t, c)'
      BY <2>2 DEF NextWritten
    <3> QED BY <3>1, <3>2, <3>4, <3>5 DEF InTheTable, Rebuilding
  <2> QED BY <2>3, <2>4
<1>8. \A t \in Actor : UpdateIndex(t) => TableInv'
  <2> SUFFICES ASSUME NEW t \in Actor, UpdateIndex(t) PROVE TableInv'
    OBVIOUS
  <2> DEFINE d == update[t].client
  <2> DEFINE n == update[t].nth
  <2>0. update[t] # Resting /\ d \in Client /\ n \in Nat \ {0} /\ table[d].num \in Nat
    BY UpdateCases, RestingAt, TableTypes DEF UpdateIndex
  <2>1. /\ UNCHANGED <<running, bound, table, raced, fate>> /\ update[t].at = "index"
        /\ Goes(t, "write", d, n, table[d].num)
    BY DEF UpdateIndex, past
  <2>2. /\ update'[t] # Resting /\ update'[t].at = "write" /\ update'[t].client = d
        /\ update'[t].nth = n /\ update'[t].i = table[d].num
        /\ \A u \in Actor \ {t} : update'[u] = update[u]
    <3>1. Goes(t, "write", d, n, table[d].num)
      BY <2>1
    <3> HIDE DEF d, n
    <3>2. /\ update'[t] = [at |-> "write", client |-> d, nth |-> n, i |-> table[d].num]
          /\ \A u \in Actor \ {t} : update'[u] = update[u]
      BY <3>1, GoesTo
    <3> QED BY <3>2, SMT, SMTT(30) DEF Resting
  <2> SUFFICES ASSUME NEW c \in Client \ raced PROVE InTheTable(c)'
    BY <2>1 DEF TableInv
  <2>i. InTheTable(c)
    BY DEF TableInv
  <2>3. CASE c # d
    BY <2>0, <2>1, <2>2, <2>3, <2>i, OtherTable
  <2>4. CASE c = d
    <3>1. Rebuilding(t, c)
      BY <2>0, <2>1, <2>4 DEF Rebuilding, Updating
    <3>2. Written(c, n - 1)
      BY <2>i, <3>1 DEF InTheTable
    <3>3. Written(c, update[t].nth - 1)'
      BY <2>1, <2>2, <3>2 DEF Written
    <3>4. NextWritten(t, c)'
      BY <2>2, <2>4, <3>2 DEF NextWritten, Written
    <3> QED BY <2>2, <2>4, <2>i, <3>1, <3>3, <3>4, GoesOn
  <2> QED BY <2>3, <2>4
<1>9. \A t \in Actor : UpdateWrite(t) => TableInv'
  <2> SUFFICES ASSUME NEW t \in Actor, UpdateWrite(t) PROVE TableInv'
    OBVIOUS
  <2> DEFINE d == update[t].client
  <2> DEFINE n == update[t].nth
  <2> DEFINE i == update[t].i
  <2> DEFINE x == bound[d][n]
  <2>0. /\ update[t] # Resting /\ d \in Client /\ n \in Nat \ {0} /\ table[d].num \in Nat
        /\ i \in Nat /\ MaxEpts \in Nat
    BY UpdateCases, RestingAt, TableTypes, RegistryAssumption DEF UpdateWrite
  <2>1. /\ UNCHANGED <<running, bound, raced, fate>> /\ update[t].at = "write"
        /\ SlotWritten(d, i, x) /\ Goes(t, "store", d, n, table[d].num)
    BY DEF UpdateWrite, past, SlotWritten
  <2>2. /\ update'[t] # Resting /\ update'[t].at = "store" /\ update'[t].client = d
        /\ update'[t].nth = n /\ update'[t].i = table[d].num
        /\ \A u \in Actor \ {t} : update'[u] = update[u]
    <3>1. Goes(t, "store", d, n, table[d].num)
      BY <2>1
    <3> HIDE DEF d, n
    <3>2. /\ update'[t] = [at |-> "store", client |-> d, nth |-> n, i |-> table[d].num]
          /\ \A u \in Actor \ {t} : update'[u] = update[u]
      BY <3>1, GoesTo
    <3> QED BY <3>2, SMT, SMTT(30) DEF Resting
  <2>3. i \in 0 .. MaxEpts - 1 /\ x \in Binding
    <3>1. i < MaxEpts /\ n <= Len(bound[d])
      BY <2>1 DEF Lockstep, UpdatePlace
    <3> QED BY <2>0, <3>1, BoundTypes, SMT, SMTT(30)
  <2>5. /\ table'[d].num = table[d].num /\ table'[d].slot[i] = x
        /\ \A j \in 0 .. MaxEpts - 1 : j # i => table'[d].slot[j] = table[d].slot[j]
        /\ \A c \in Client \ {d} : table'[c] = table[c]
    <3>1. SlotWritten(d, i, x)
      BY <2>1
    <3> HIDE DEF d, i, x
    <3> QED BY <2>0, <2>3, <3>1, SlotWrittenIs
  <2> SUFFICES ASSUME NEW c \in Client \ raced PROVE InTheTable(c)'
    BY <2>1 DEF TableInv
  <2>i. InTheTable(c)
    BY DEF TableInv
  <2>6. CASE c # d
    <3>1. table'[c] = table[c]
      BY <2>5, <2>6
    <3> QED BY <2>0, <2>1, <2>2, <2>6, <2>i, <3>1, OtherTable
  <2>7. CASE c = d
    <3>1. Rebuilding(t, c)
      BY <2>0, <2>1, <2>7 DEF Rebuilding, Updating
    <3>2. Written(c, n - 1) /\ i = n - 1
      BY <2>1, <2>i, <3>1 DEF InTheTable, NextWritten
    <3>5. Written(c, update[t].nth - 1)'
      <4>1. table'[c].num = n - 1 /\ n - 1 <= Len(bound[c]) /\ n - 1 <= MaxEpts
        BY <2>5, <2>7, <3>2 DEF Written
      <4>2. ASSUME NEW j \in 1 .. n - 1 PROVE table'[c].slot[j - 1] = bound[c][j]
        <5>1. j - 1 \in 0 .. MaxEpts - 1 /\ j - 1 # i
          BY <2>0, <3>2, <4>1, SMT, SMTT(30)
        <5>2. table[c].slot[j - 1] = bound[c][j]
          BY <3>2 DEF Written
        <5> QED BY <2>5, <2>7, <5>1, <5>2
      <4>3. update'[t].nth - 1 = n - 1 /\ bound' = bound
        BY <2>1, <2>2
      <4> HIDE DEF n
      <4> QED BY <4>1, <4>2, <4>3 DEF Written
    <3>6. NextWritten(t, c)'
      <4>1. table'[c].slot[n - 1] = bound[c][n] /\ n <= MaxEpts
        BY <2>0, <2>3, <2>5, <2>7, <3>2, SMT, SMTT(30)
      <4>2. table[d].num = n - 1
        BY <2>7, <3>2 DEF Written
      <4> QED BY <2>1, <2>2, <4>1, <4>2 DEF NextWritten
    <3> QED BY <2>2, <2>7, <2>i, <3>1, <3>5, <3>6, GoesOn
  <2> QED BY <2>6, <2>7
<1>10. \A t \in Actor : UpdateStore(t) => TableInv'
  <2> SUFFICES ASSUME NEW t \in Actor, UpdateStore(t) PROVE TableInv'
    OBVIOUS
  <2> DEFINE d == update[t].client
  <2> DEFINE n == update[t].nth
  <2> DEFINE i == update[t].i
  <2>0. /\ update[t] # Resting /\ d \in Client /\ n \in Nat \ {0} /\ i \in Nat /\ MaxEpts \in Nat
    BY UpdateCases, RestingAt, RegistryAssumption DEF UpdateStore
  <2>1. /\ UNCHANGED <<running, bound, raced, fate>> /\ update[t].at = "store"
        /\ CountWritten(d, i + 1) /\ Goes(t, "index", d, n + 1, 0)
    BY DEF UpdateStore, past, CountWritten
  <2>2. /\ update'[t] # Resting /\ update'[t].at = "index" /\ update'[t].client = d
        /\ update'[t].nth = n + 1
        /\ \A u \in Actor \ {t} : update'[u] = update[u]
    <3>1. Goes(t, "index", d, n + 1, 0)
      BY <2>1
    <3> HIDE DEF d, n
    <3>2. /\ update'[t] = [at |-> "index", client |-> d, nth |-> n + 1, i |-> 0]
          /\ \A u \in Actor \ {t} : update'[u] = update[u]
      BY <3>1, GoesTo
    <3> QED BY <3>2, SMT, SMTT(30) DEF Resting
  <2>5. /\ table'[d].num = i + 1 /\ table'[d].slot = table[d].slot
        /\ \A c \in Client \ {d} : table'[c] = table[c]
    <3>1. CountWritten(d, i + 1) /\ i + 1 \in Nat
      BY <2>0, <2>1, SMT, SMTT(30)
    <3> HIDE DEF d, i
    <3> QED BY <2>0, <3>1, CountWrittenIs
  <2> SUFFICES ASSUME NEW c \in Client \ raced PROVE InTheTable(c)'
    BY <2>1 DEF TableInv
  <2>i. InTheTable(c)
    BY DEF TableInv
  <2>6. CASE c # d
    <3>1. table'[c] = table[c]
      BY <2>5, <2>6
    <3> QED BY <2>0, <2>1, <2>2, <2>6, <2>i, <3>1, OtherTable
  <2>7. CASE c = d
    <3>1. Rebuilding(t, c)
      BY <2>0, <2>1, <2>7 DEF Rebuilding, Updating
    <3>2. /\ Written(c, n - 1) /\ i = n - 1 /\ n <= MaxEpts
          /\ table[c].slot[n - 1] = bound[c][n]
      BY <2>1, <2>i, <3>1 DEF InTheTable, NextWritten
    <3>3. n <= Len(bound[c])
      BY <2>1, <2>7 DEF Lockstep, UpdatePlace
    <3>5. Written(c, update[t].nth - 1)'
      <4>1. table'[c].num = n
        BY <2>0, <2>5, <2>7, <3>2, SMT, SMTT(30)
      <4>2. ASSUME NEW j \in 1 .. n PROVE table'[c].slot[j - 1] = bound[c][j]
        <5>1. CASE j = n
          BY <2>5, <2>7, <3>2, <5>1
        <5>2. CASE j # n
          <6>1. j \in 1 .. n - 1
            BY <2>0, <5>2, SMT, SMTT(30)
          <6> QED BY <2>5, <2>7, <3>2, <6>1 DEF Written
        <5> QED BY <5>1, <5>2
      <4>3. update'[t].nth - 1 = n /\ bound' = bound
        BY <2>0, <2>1, <2>2, SMT, SMTT(30)
      <4> HIDE DEF n
      <4> QED BY <3>2, <3>3, <4>1, <4>2, <4>3 DEF Written
    <3>6. NextWritten(t, c)'
      BY <2>2 DEF NextWritten
    <3> QED BY <2>2, <2>7, <2>i, <3>1, <3>5, <3>6, GoesOn
  <2> QED BY <2>6, <2>7
<1>11. \A t \in Actor : UpdateEnds(t) => TableInv'
  <2> SUFFICES ASSUME NEW t \in Actor, UpdateEnds(t) PROVE TableInv'
    OBVIOUS
  <2> DEFINE d == update[t].client
  <2> DEFINE n == update[t].nth
  <2> DEFINE E == {bound[d][j].ept : j \in n .. Len(bound[d])}
  <2>0. update[t] # Resting /\ d \in Client /\ n \in Nat \ {0} /\ MaxEpts \in Nat
    BY UpdateCases, RestingAt, RegistryAssumption DEF UpdateEnds
  <2>1. /\ UNCHANGED <<running, bound, table, raced>> /\ update[t].at = "index"
        /\ n > Len(bound[d]) \/ table[d].num >= MaxEpts
        /\ Befalls(E, "nospace") /\ update' = [update EXCEPT ![t] = Resting]
    BY DEF UpdateEnds
  <2>2. update'[t] = Resting /\ \A u \in Actor \ {t} : update'[u] = update[u]
    BY <2>1 DEF RegistryTypeOK
  <2>f. /\ \A e \in Ept : fate[e] \subseteq fate'[e]
        /\ \A e \in Ept \intersect E : "nospace" \in fate'[e]
    <3> HIDE DEF E
    <3> QED BY <2>1 DEF Befalls
  <2> SUFFICES ASSUME NEW c \in Client \ raced PROVE InTheTable(c)'
    BY <2>1 DEF TableInv
  <2>i. InTheTable(c)
    BY DEF TableInv
  <2>3. CASE c # d
    BY <2>0, <2>1, <2>2, <2>3, <2>f, <2>i, OtherTable
  <2>4. CASE c = d
    <3>1. Rebuilding(t, c)
      BY <2>0, <2>1, <2>4 DEF Rebuilding, Updating
    <3>2. Written(c, n - 1) /\ \A u \in Actor \ {t} : ~Rebuilding(u, c)
      BY <2>i, <3>1 DEF InTheTable
    <3>3. \A u \in Actor : ~Rebuilding(u, c)'
      BY <2>2, <3>2 DEF Rebuilding, Updating
    <3>4. ASSUME NEW j \in 1 .. Len(bound[c])
          PROVE  \/ InTable(c, j)' /\ table'[c].slot[j - 1] = bound'[c][j]
                 \/ table'[c].num >= MaxEpts /\ Excused(bound[c][j].ept)'
      <4>1. CASE j <= n - 1
        BY <2>0, <2>1, <3>2, <4>1, SMT, SMTT(30) DEF Written, InTable
      <4>2. CASE ~(j <= n - 1)
        <5>1. j \in n .. Len(bound[c]) /\ Len(bound[c]) \in Nat
          BY <2>0, <4>2, BoundTypes, SMT, SMTT(30)
        <5>2. table[c].num >= MaxEpts
          BY <2>0, <2>1, <2>4, <5>1, SMT, SMTT(30)
        <5>3. bound[c][j].ept \in E /\ bound[c][j].ept \in Ept
          BY <2>4, <5>1, BoundTypes
        <5>4. "nospace" \in fate'[bound[c][j].ept]
          BY <2>f, <5>3
        <5> QED BY <2>1, <5>2, <5>4 DEF Excused
      <4> QED BY <4>1, <4>2
    <3>5. AllWritten(c)'
      BY <2>1, <3>4 DEF AllWritten, Excused
    <3> QED BY <3>3, <3>5 DEF InTheTable
  <2> QED BY <2>3, <2>4
<1>12. NsAppend => TableInv'
  <2> SUFFICES ASSUME NsAppend PROVE TableInv'
    OBVIOUS
  <2>1. UNCHANGED <<running, bound, table, update, raced>>
    BY DEF NsAppend
  <2>2. \A e \in Ept : fate[e] \subseteq fate'[e]
    BY DEF NsAppend, Befalls
  <2> QED BY <2>1, <2>2, TableFrame
<1>13. ASSUME NEW c \in Client, StartFresh(c) \/ Stop(c) \/ StopFaults(c)
      PROVE  TableInv'
  BY <1>13, <1>1, <1>3, <1>4 DEF StopFaults
<1>14. ASSUME NEW t \in Actor, rsc_update_ept_table(t) PROVE TableInv'
  BY <1>14, <1>7, <1>8, <1>9, <1>10,
     <1>11 DEF rsc_update_ept_table
<1>15. ASSUME \/ \E c \in Client : Restore(c)
             \/ handle_mica_rsc \/ ScanEnds \/ AddService
      PROVE  TableInv'
  <2>1. UNCHANGED <<running, bound, table, update, raced, fate>>
    BY <1>15 DEF Restore, handle_mica_rsc, ScanEnds, AddService, past
  <2> QED BY <2>1, TableFrame
<1>16. ASSUME NEW e \in Ept, mica_ns_bind_cb(e) PROVE TableInv'
  BY <1>16, <1>6
<1> QED BY <1>13, <1>14, <1>15, <1>16, <1>2, <1>5, <1>12, <1>4
        DEF RegistryNext


(* The list is empty in the initial state. *)
LEMMA RegistryInitWait == RegistryInit => WaitInv
BY SMT, SMTT(30) DEF RegistryInit, WaitInv

(* The entries of the list. *)
LEMMA WaitingTypes ==
    ASSUME RegistryTypeOK
    PROVE  /\ waiting \in Seq(Unbound \union Binding) /\ Len(waiting) \in Nat
           /\ \A i \in 1 .. Len(waiting) :
                /\ waiting[i] \in Unbound \union Binding
                /\ waiting[i].ept \in Ept /\ OwnerOf[waiting[i].ept] \in Client
<1>1. waiting \in Seq(Unbound \union Binding) /\ Len(waiting) \in Nat
  BY SMT, SMTT(30) DEF RegistryTypeOK
<1>2. \A i \in 1 .. Len(waiting) : waiting[i] \in Unbound \union Binding
  BY <1>1, SMT, SMTT(30)
<1>3. \A x \in Unbound \union Binding : x.ept \in Ept /\ OwnerOf[x.ept] \in Client
  BY RegistryAssumption DEF Unbound, Binding
<1> QED BY <1>1, <1>2, <1>3

(* Nothing of the list or the registration changes, and fates only add up. *)
LEMMA WaitFrame ==
    ASSUME RegistryTypeOK, WaitInv, UNCHANGED <<services, waiting, epoll>>,
           \A e \in Ept : fate[e] \subseteq fate'[e]
    PROVE  WaitInv'
<1> SUFFICES ASSUME NEW i \in 1 .. Len(waiting) PROVE WaitsWell(i)'
  BY DEF WaitInv
<1>1. WaitsWell(i) /\ waiting[i].ept \in Ept
  BY WaitingTypes DEF WaitInv
<1>2. (Due(i)' <=> Due(i)) /\ fate[waiting[i].ept] \subseteq fate'[waiting[i].ept]
  BY <1>1 DEF Due
<1>3. \A c, k : ScanOver(c, k)' <=> ScanOver(c, k)
  BY DEF ScanOver
<1> QED BY <1>1, <1>2, <1>3 DEF WaitsWell

(* While no registration is under way, nothing is due. *)
LEMMA NotDue ==
    ASSUME epoll = Resting, NEW i
    PROVE  ~Due(i)
BY RestingAt DEF Due

(* Every step keeps the entries of the list either due to a service or beyond every service. *)
LEMMA WaitStep ==
    ASSUME RegistryTypeOK, Lockstep, WaitInv, RegistryNext
    PROVE  WaitInv'
(* The registration under way may come to all that matches. *)
<1>1. \A c \in Client : StartFresh(c) => WaitInv'
  <2> SUFFICES ASSUME NEW c \in Client, StartFresh(c) PROVE WaitInv'
    OBVIOUS
  <2>1. /\ UNCHANGED <<services, waiting>> /\ epoll = Resting /\ ~running[c]
        /\ epoll' = Scanning(c, 1)
        /\ \A e \in Ept : OwnerOf[e] # c => fate'[e] = fate[e]
    BY DEF StartFresh
  <2>2. epoll'.at = "scan" /\ epoll'.pos = 1
    BY <2>1, ScanningIs
  <2> SUFFICES ASSUME NEW i \in 1 .. Len(waiting) PROVE WaitsWell(i)'
    BY <2>1 DEF WaitInv
  <2> DEFINE e == waiting[i].ept
  <2>3. WaitsWell(i) /\ e \in Ept /\ ~Due(i)
    BY <2>1, WaitingTypes, NotDue DEF WaitInv
  <2>4. waiting[i].host = ANY
    BY <2>3 DEF WaitsWell
  <2>5. ASSUME ScanOver(OwnerOf[e], KindOf[e])' PROVE "missed" \in fate'[e]
    <3>1. KindOf[e] \in services[OwnerOf[e]]
      BY <2>1, <2>2, <2>5 DEF ScanOver
    <3>2. services[c] = {}
      BY <2>1 DEF Lockstep, ClientPlace
    <3>3. OwnerOf[e] # c
      BY <3>1, <3>2
    <3>4. "missed" \in fate[e]
      BY <2>3, <3>1 DEF WaitsWell, ScanOver
    <3> QED BY <2>1, <2>3, <3>3, <3>4
  <2> QED BY <2>1, <2>2, <2>4, <2>5, SMT, SMTT(30) DEF WaitsWell
<1>2. \A c \in Client : Restore(c) => WaitInv'
  <2> SUFFICES ASSUME NEW c \in Client, Restore(c) PROVE WaitInv'
    OBVIOUS
  <2>1. /\ UNCHANGED <<services, waiting, fate>> /\ epoll = Resting /\ epoll'.at = "restore"
    BY DEF Restore, past
  <2> SUFFICES ASSUME NEW i \in 1 .. Len(waiting) PROVE WaitsWell(i)'
    BY <2>1 DEF WaitInv
  <2> DEFINE e == waiting[i].ept
  <2>3. WaitsWell(i) /\ ~Due(i)
    BY <2>1, NotDue DEF WaitInv
  <2>5. ASSUME ScanOver(OwnerOf[e], KindOf[e])' PROVE "missed" \in fate[e]
    <3>1. KindOf[e] \in services[OwnerOf[e]]
      BY <2>1, <2>5 DEF ScanOver
    <3> QED BY <2>3, <3>1 DEF WaitsWell, ScanOver
  <2> QED BY <2>1, <2>3, <2>5 DEF WaitsWell
<1>3. handle_mica_rsc => WaitInv'
  <2> SUFFICES ASSUME handle_mica_rsc PROVE WaitInv'
    OBVIOUS
  <2> DEFINE c == epoll.client
  <2> DEFINE x == table[c].slot[epoll.pos - 1]
  <2>0. /\ epoll \in Registering /\ c \in Client /\ epoll.pos \in Nat \ {0}
        /\ epoll.at = "restore" /\ epoll.pos <= MaxEpts /\ MaxEpts \in Nat
    BY EpollCases, RegistryAssumption DEF handle_mica_rsc, InTable
  <2>1. /\ UNCHANGED <<services, fate>> /\ epoll' = [epoll EXCEPT !.pos = epoll.pos + 1]
        /\ waiting' = IF x = Empty THEN waiting ELSE Append(waiting, x)
    BY <2>0 DEF handle_mica_rsc, past, Registering
  <2>2. epoll'.at = "restore"
    <3>1. epoll' = [epoll EXCEPT !.pos = epoll.pos + 1]
      BY <2>1
    <3> QED BY <2>0, <3>1 DEF Registering
  <2>3. x \in Binding \union {Empty}
    <3>1. epoll.pos - 1 \in 0 .. MaxEpts - 1
      BY <2>0, SMT, SMTT(30)
    <3> QED BY <2>0, <3>1, TableTypes
  <2>4. x # Empty => x \in Binding
    BY <2>3
  <2> HIDE DEF x
  <2>5. \A c1, k : ScanOver(c1, k)' <=> ScanOver(c1, k)
    BY <2>0, <2>1, <2>2 DEF ScanOver
  <2>6. ASSUME NEW i \in 1 .. Len(waiting), waiting'[i] = waiting[i] PROVE WaitsWell(i)'
    <3>1. WaitsWell(i)
      BY DEF WaitInv
    <3>2. Due(i) => Due(i)'
      BY <2>0, <2>2, <2>6 DEF Due
    <3> QED BY <2>1, <2>2, <2>5, <2>6, <3>1, <3>2 DEF WaitsWell
  <2>7. CASE x = Empty
    BY <2>1, <2>6, <2>7 DEF WaitInv
  <2>8. CASE x # Empty
    <3>1. waiting' = Append(waiting, x) /\ x \in Unbound \union Binding
      BY <2>1, <2>4, <2>8
    <3>2. /\ Len(waiting') = Len(waiting) + 1 /\ Len(waiting) \in Nat
          /\ waiting'[Len(waiting) + 1] = x
          /\ \A i \in 1 .. Len(waiting) : waiting'[i] = waiting[i]
      BY <3>1, WaitingTypes, AppendRange, SMT, SMTT(30)
    <3>3. ASSUME NEW i, waiting'[i] = x PROVE WaitsWell(i)'
      <4>1. KindOf[x.ept] \in Range(Kinds)
        BY <2>4, <2>8 DEF Binding
      <4>2. Due(i)'
        BY <2>2, <3>3, <4>1 DEF Due
      <4> QED BY <2>2, <4>2 DEF WaitsWell
    <3>4. ASSUME NEW i \in 1 .. Len(waiting') PROVE WaitsWell(i)'
      <4>1. i \in 1 .. Len(waiting) \/ i = Len(waiting) + 1
        BY <3>2, SMT, SMTT(30)
      <4> QED BY <2>6, <3>2, <3>3, <4>1
    <3> QED BY <3>4 DEF WaitInv
  <2> QED BY <2>7, <2>8
<1>4. RestoreEnds => WaitInv'
  <2> SUFFICES ASSUME RestoreEnds PROVE WaitInv'
    OBVIOUS
  <2>1. /\ UNCHANGED <<services, waiting, fate>> /\ epoll.at = "restore"
        /\ epoll' = Scanning(epoll.client, 1)
    BY DEF RestoreEnds, past
  <2>2. epoll'.at = "scan" /\ epoll'.pos = 1 /\ epoll'.nth = 1
    BY <2>1, ScanningIs
  <2> SUFFICES ASSUME NEW i \in 1 .. Len(waiting) PROVE WaitsWell(i)'
    BY <2>1 DEF WaitInv
  <2> DEFINE e == waiting[i].ept
  <2>3. WaitsWell(i) /\ Len(waiting) \in Nat
    BY WaitingTypes DEF WaitInv
  <2>4. Due(i) => Due(i)'
    <3> SUFFICES ASSUME Due(i) PROVE Due(i)'
      OBVIOUS
    <3>1. KindOf[e] \in Range(Kinds)
      BY <2>1 DEF Due
    <3>2. PICK n \in 1 .. Len(Kinds) : KindOf[e] = Kinds[n]
      BY <3>1, KindsIndex
    <3>3. CASE n = 1
      BY <2>1, <2>2, <2>3, <3>2, <3>3, SMT, SMTT(30) DEF Due
    <3>4. CASE n # 1
      <4>1. n \in 1 + 1 .. Len(Kinds)
        BY <3>4, KindsSeq, SMT, SMTT(30)
      <4> QED BY <2>1, <2>2, <3>2, <4>1 DEF Due
    <3> QED BY <3>3, <3>4
  <2>5. ScanOver(OwnerOf[e], KindOf[e])' => ScanOver(OwnerOf[e], KindOf[e])
    BY <2>1, <2>2 DEF ScanOver
  <2> QED BY <2>1, <2>2, <2>3, <2>4, <2>5, SMT, SMTT(30) DEF WaitsWell
<1>5. Scan => WaitInv'
  <2> SUFFICES ASSUME Scan PROVE WaitInv'
    OBVIOUS
  <2> DEFINE c == epoll.client
  <2> DEFINE entry == waiting[epoll.pos]
  <2>0. /\ epoll \in Registering /\ c \in Client /\ epoll.pos \in Nat \ {0} /\ epoll.at = "scan"
        /\ epoll.pos <= Len(waiting) /\ Len(waiting) \in Nat /\ epoll.nth \in 1 .. Len(Kinds)
        /\ entry \in Unbound \union Binding
    BY EpollCases, WaitingTypes, SMT, SMTT(30) DEF Scan
  <2>1. UNCHANGED <<services, waiting>>
    BY DEF Scan
  <2> SUFFICES ASSUME NEW i \in 1 .. Len(waiting) PROVE WaitsWell(i)'
    BY <2>1 DEF WaitInv
  <2> DEFINE e == waiting[i].ept
  <2>w. WaitsWell(i) /\ e \in Ept
    BY WaitingTypes DEF WaitInv
  <2>2. CASE KindOf[entry.ept] = Kinds[epoll.nth]
    <3>1. ns_bind_cb(c, entry) /\ epoll' = [epoll EXCEPT !.at = "update"]
      BY <2>2 DEF Scan
    <3>2. KindOf[entry.ept] \in Range(Kinds)
      BY <2>0, <2>2, KindsSeq
    <3>3. fate[e] \subseteq fate'[e]
      <4> HIDE DEF c, entry
      <4> QED BY <2>0, <2>w, <3>1, <3>2, BindFates
    <3>4. epoll'.at = "update" /\ epoll'.nth = epoll.nth /\ epoll'.pos = epoll.pos
      BY <2>0, <3>1, MovedAtIs
    <3>5. Due(i)' <=> Due(i)
      BY <2>0, <2>1, <3>4 DEF Due
    <3>6. ScanOver(OwnerOf[e], KindOf[e])' => ScanOver(OwnerOf[e], KindOf[e])
      BY <2>1, <3>4 DEF ScanOver
    <3> QED BY <2>0, <2>1, <2>w, <3>3, <3>4, <3>5, <3>6 DEF WaitsWell
  <2>3. CASE KindOf[entry.ept] # Kinds[epoll.nth]
    <3>1. epoll' = [epoll EXCEPT !.pos = epoll.pos + 1] /\ fate' = fate
      BY <2>3 DEF Scan
    <3>4. epoll'.at = "scan" /\ epoll'.nth = epoll.nth /\ epoll'.pos = epoll.pos + 1
      BY <2>0, <3>1 DEF Registering
    <3>5. i = epoll.pos => KindOf[e] # Kinds[epoll.nth]
      BY <2>3
    <3>6. Due(i) => Due(i)'
      <4> SUFFICES ASSUME Due(i) PROVE Due(i)'
        OBVIOUS
      <4>1. CASE i >= epoll.pos /\ KindOf[e] = Kinds[epoll.nth]
        <5>1. i >= epoll.pos + 1
          BY <2>0, <3>5, <4>1, SMT, SMTT(30)
        <5> QED BY <2>1, <3>4, <4>1, <5>1 DEF Due
      <4>2. CASE \E n \in epoll.nth + 1 .. Len(Kinds) : KindOf[e] = Kinds[n]
        BY <2>1, <3>4, <4>2 DEF Due
      <4> QED BY <2>0, <4>1, <4>2 DEF Due
    <3>7. i < epoll.pos + 1 => KindOf[e] # Kinds[epoll.nth]
      BY <2>0, <2>w, <3>5, SMT, SMTT(30) DEF WaitsWell
    <3>8. ScanOver(OwnerOf[e], KindOf[e])' => ScanOver(OwnerOf[e], KindOf[e])
      BY <2>1, <3>4 DEF ScanOver
    <3> QED BY <2>1, <2>w, <3>1, <3>4, <3>6, <3>7, <3>8 DEF WaitsWell
  <2> QED BY <2>2, <2>3
<1>6. ScanEnds => WaitInv'
  <2> SUFFICES ASSUME ScanEnds PROVE WaitInv'
    OBVIOUS
  <2>0. /\ epoll \in Registering /\ epoll.at = "scan" /\ epoll.pos \in Nat
        /\ epoll.pos > Len(waiting) /\ Len(waiting) \in Nat /\ epoll.nth \in 1 .. Len(Kinds)
    BY EpollCases, WaitingTypes DEF ScanEnds
  <2>1. UNCHANGED <<services, waiting, fate>> /\ epoll' = [epoll EXCEPT !.at = "add"]
    BY DEF ScanEnds, past
  <2>2. /\ epoll'.at = "add" /\ epoll'.nth = epoll.nth /\ epoll'.client = epoll.client
    BY <2>0, <2>1, MovedAtIs
  <2> SUFFICES ASSUME NEW i \in 1 .. Len(waiting) PROVE WaitsWell(i)'
    BY <2>1 DEF WaitInv
  <2> DEFINE e == waiting[i].ept
  <2>w. WaitsWell(i) /\ i < epoll.pos
    BY <2>0, SMT, SMTT(30) DEF WaitInv
  <2>3. KindOf[e] # Kinds[epoll.nth]
    BY <2>0, <2>w DEF WaitsWell
  <2>4. Due(i) => Due(i)'
    BY <2>0, <2>1, <2>2, <2>3 DEF Due
  <2>5. ScanOver(OwnerOf[e], KindOf[e])' => ScanOver(OwnerOf[e], KindOf[e])
    BY <2>1, <2>2, <2>3 DEF ScanOver
  <2> QED BY <2>1, <2>2, <2>w, <2>4, <2>5 DEF WaitsWell
<1>7. AddService => WaitInv'
  <2> SUFFICES ASSUME AddService PROVE WaitInv'
    OBVIOUS
  <2> DEFINE c == epoll.client
  <2> DEFINE k == Kinds[epoll.nth]
  <2>0. /\ epoll \in Registering /\ epoll.at = "add" /\ c \in Client
        /\ epoll.nth \in 1 .. Len(Kinds) /\ Len(Kinds) \in Nat
    BY EpollCases, KindsSeq DEF AddService
  <2>1. /\ UNCHANGED <<waiting, fate>> /\ services' = [services EXCEPT ![c] = @ \union {k}]
        /\ epoll' = IF epoll.nth = Len(Kinds) THEN Resting ELSE Scanning(c, epoll.nth + 1)
    BY DEF AddService, past
  <2> SUFFICES ASSUME NEW i \in 1 .. Len(waiting) PROVE WaitsWell(i)'
    BY <2>1 DEF WaitInv
  <2> DEFINE e == waiting[i].ept
  <2>w. WaitsWell(i) /\ e \in Ept /\ OwnerOf[e] \in Client /\ Len(waiting) \in Nat
    BY WaitingTypes DEF WaitInv
  <2>3. CASE epoll.nth = Len(Kinds)
    <3>1. epoll' = Resting /\ epoll'.at = "idle"
      BY <2>1, <2>3, RestingAt
    <3>2. ~Due(i)
      BY <2>0, <2>3, SMT, SMTT(30) DEF Due
    <3>3. ScanOver(OwnerOf[e], KindOf[e])' => ScanOver(OwnerOf[e], KindOf[e])
      BY <2>0, <2>1, <2>w, <3>1 DEF ScanOver, RegistryTypeOK
    <3> QED BY <2>1, <2>w, <3>1, <3>2, <3>3 DEF WaitsWell
  <2>4. CASE epoll.nth # Len(Kinds)
    <3>0. epoll' = Scanning(c, epoll.nth + 1)
      BY <2>1, <2>4
    <3>1. epoll'.at = "scan" /\ epoll'.nth = epoll.nth + 1 /\ epoll'.pos = 1
      BY <3>0, ScanningIs
    <3>2. Due(i) => Due(i)'
      <4> SUFFICES ASSUME Due(i) PROVE Due(i)'
        OBVIOUS
      <4>1. PICK n \in epoll.nth + 1 .. Len(Kinds) : KindOf[e] = Kinds[n]
        BY <2>0 DEF Due
      <4>2. CASE n = epoll.nth + 1
        BY <2>1, <2>w, <3>1, <4>1, <4>2, SMT, SMTT(30) DEF Due
      <4>3. CASE n # epoll.nth + 1
        <5>1. n \in (epoll.nth + 1) + 1 .. Len(Kinds)
          BY <2>0, <4>1, <4>3, SMT, SMTT(30)
        <5> QED BY <2>1, <3>1, <4>1, <5>1 DEF Due
      <4> QED BY <4>2, <4>3
    <3>3. ScanOver(OwnerOf[e], KindOf[e])' => ScanOver(OwnerOf[e], KindOf[e])
      BY <2>0, <2>1, <2>w, <3>1 DEF ScanOver, RegistryTypeOK
    <3> QED BY <2>1, <2>w, <3>1, <3>2, <3>3, SMT, SMTT(30) DEF WaitsWell
  <2> QED BY <2>3, <2>4
<1>8. \A t \in Actor : UpdateEnds(t) => WaitInv'
  <2> SUFFICES ASSUME NEW t \in Actor, UpdateEnds(t) PROVE WaitInv'
    OBVIOUS
  <2>1. services' = services /\ \A e \in Ept : fate[e] \subseteq fate'[e]
    BY DEF UpdateEnds, Befalls
  <2>2. CASE t # "epoll"
    <3>1. UNCHANGED <<waiting, epoll>>
      BY <2>2 DEF UpdateEnds
    <3> QED BY <2>1, <3>1, WaitFrame
  <2>3. CASE t = "epoll"
    <3> DEFINE p == epoll.pos
    <3>0. /\ waiting' = Deleted(waiting, p) /\ epoll' = [epoll EXCEPT !.at = "scan"]
          /\ update["epoll"].at = "index"
      BY <2>3 DEF UpdateEnds
    <3>1. epoll.at = "update"
      BY <3>0, RestingAt DEF Lockstep, EpollPlace
    <3>2. /\ epoll \in Registering /\ p \in Nat \ {0} /\ p <= Len(waiting)
          /\ epoll.nth \in 1 .. Len(Kinds) /\ Len(waiting) \in Nat
      BY <3>1, EpollCases, WaitingTypes DEF Lockstep, EpollPlace
    <3>3. epoll'.at = "scan" /\ epoll'.nth = epoll.nth /\ epoll'.pos = p
      BY <3>0, <3>2, MovedAtIs
    <3>4. /\ Len(waiting') = Len(waiting) - 1
          /\ \A j \in 1 .. Len(waiting) - 1 :
                waiting'[j] = IF j < p THEN waiting[j] ELSE waiting[j + 1]
      <4> HIDE DEF p
      <4> QED BY <3>0, <3>2, WaitingTypes, DeletedIs, SMT, SMTT(30)
    <3> SUFFICES ASSUME NEW j \in 1 .. Len(waiting) - 1 PROVE WaitsWell(j)'
      BY <3>4 DEF WaitInv
    <3>5. PICK i \in 1 .. Len(waiting) :
                waiting'[j] = waiting[i] /\ i = IF j < p THEN j ELSE j + 1
      BY <3>2, <3>4, SMT, SMTT(30)
    <3>6. WaitsWell(i)
      BY DEF WaitInv
    <3>e. PICK e \in Ept : e = waiting[i].ept
      BY WaitingTypes
    <3>7. Due(i) => Due(j)'
      BY <3>1, <3>2, <3>3, <3>5, SMT, SMTT(30) DEF Due
    <3>8. ScanOver(OwnerOf[e], KindOf[e])' => ScanOver(OwnerOf[e], KindOf[e])
      BY <2>1, <3>3 DEF ScanOver
    <3>9. ASSUME j < p PROVE KindOf[e] # Kinds[epoll.nth]
      <4>1. i < epoll.pos
        BY <3>5, <3>9
      <4> QED BY <3>1, <3>6, <3>e, <4>1 DEF WaitsWell
    <3>10. fate[e] \subseteq fate'[e]
      BY <2>1
    <3>11. waiting'[j].ept = e /\ waiting'[j].host = waiting[i].host
      BY <3>5, <3>e
    <3>12. /\ ScanOver(OwnerOf[e], KindOf[e]) => "missed" \in fate[e] \/ Due(i)
           /\ waiting[i].host # ANY => Due(i)
      BY <3>6, <3>e DEF WaitsWell
    <3> HIDE DEF p
    <3> QED BY <3>3, <3>7, <3>8, <3>9, <3>10, <3>11, <3>12 DEF WaitsWell
  <2> QED BY <2>2, <2>3
<1>9. NsAppend => WaitInv'
  <2> SUFFICES ASSUME NsAppend PROVE WaitInv'
    OBVIOUS
  <2> DEFINE x == notifier.entry
  <2>0. x \in Unbound /\ x.ept \in Ept /\ x.host = ANY
    BY NotifierCases DEF NsAppend, Unbound
  <2>1. /\ UNCHANGED <<services, epoll>> /\ waiting' = Append(waiting, x)
        /\ Befalls({y \in {x.ept} : ScanOver(OwnerOf[y], KindOf[y])}, "missed")
    BY DEF NsAppend
  <2>2. /\ \A e \in Ept : fate[e] \subseteq fate'[e]
        /\ ScanOver(OwnerOf[x.ept], KindOf[x.ept]) => "missed" \in fate'[x.ept]
    BY <2>0, <2>1 DEF Befalls
  <2> HIDE DEF x
  <2>3. /\ Len(waiting') = Len(waiting) + 1 /\ Len(waiting) \in Nat
        /\ waiting'[Len(waiting) + 1] = x
        /\ \A i \in 1 .. Len(waiting) : waiting'[i] = waiting[i]
    BY <2>0, <2>1, WaitingTypes, AppendRange, SMT, SMTT(30)
  <2>4. \A c, k : ScanOver(c, k)' <=> ScanOver(c, k)
    BY <2>1 DEF ScanOver
  <2>5. ASSUME NEW i \in 1 .. Len(waiting) PROVE WaitsWell(i)'
    <3>1. WaitsWell(i) /\ waiting[i].ept \in Ept /\ waiting'[i] = waiting[i]
      BY <2>3, WaitingTypes DEF WaitInv
    <3>2. Due(i)' <=> Due(i)
      BY <2>1, <3>1 DEF Due
    <3>3. fate[waiting[i].ept] \subseteq fate'[waiting[i].ept]
      BY <2>2, <3>1
    <3> QED BY <2>1, <2>4, <3>1, <3>2, <3>3 DEF WaitsWell
  <2>6. ASSUME NEW i, i = Len(waiting) + 1 PROVE WaitsWell(i)'
    <3>1. waiting'[i] = x
      BY <2>3, <2>6
    <3>2. epoll.at \in {"scan", "update"} => ~(i < epoll.pos)
      BY <2>3, <2>6, EpollCases, SMT, SMTT(30) DEF Lockstep, EpollPlace
    <3> QED BY <2>0, <2>1, <2>2, <2>4, <3>1, <3>2 DEF WaitsWell
  <2>7. \A i \in 1 .. Len(waiting') : i \in 1 .. Len(waiting) \/ i = Len(waiting) + 1
    BY <2>3, SMT, SMTT(30)
  <2> QED BY <2>5, <2>6, <2>7 DEF WaitInv
<1>10. \A c \in Client : Stop(c) => WaitInv'
  <2> SUFFICES ASSUME NEW c \in Client, Stop(c) PROVE WaitInv'
    OBVIOUS
  <2>1. /\ UNCHANGED <<waiting, epoll, fate>> /\ services' = [services EXCEPT ![c] = {}]
    BY DEF Stop, past
  <2> SUFFICES ASSUME NEW i \in 1 .. Len(waiting) PROVE WaitsWell(i)'
    BY <2>1 DEF WaitInv
  <2> DEFINE e == waiting[i].ept
  <2>2. WaitsWell(i) /\ OwnerOf[e] \in Client
    BY WaitingTypes DEF WaitInv
  <2>3. Due(i)' <=> Due(i)
    BY <2>1 DEF Due
  <2>4. ScanOver(OwnerOf[e], KindOf[e])' => ScanOver(OwnerOf[e], KindOf[e])
    BY <2>1, <2>2 DEF ScanOver, RegistryTypeOK
  <2> QED BY <2>1, <2>2, <2>3, <2>4 DEF WaitsWell
<1>11. Crash => WaitInv'
  <2> SUFFICES ASSUME Crash PROVE WaitInv'
    OBVIOUS
  <2> QED BY SMT, SMTT(30) DEF Crash, WaitInv
<1>12. \A e \in Ept : mica_ns_bind_cb(e) => WaitInv'
  <2> SUFFICES ASSUME NEW e \in Ept, mica_ns_bind_cb(e) PROVE WaitInv'
    OBVIOUS
  <2> DEFINE c == OwnerOf[e]
  <2> DEFINE entry == [ept |-> e, host |-> ANY]
  <2>0. c \in Client /\ entry \in Unbound /\ entry.ept = e
    BY RegistryAssumption DEF Unbound
  <2>1. UNCHANGED <<services, waiting, epoll>>
    BY DEF mica_ns_bind_cb
  <2>2. CASE KindOf[e] \in services[c]
    <3>1. ns_bind_cb(c, entry)
      BY <2>2 DEF mica_ns_bind_cb
    <3>3. KindOf[entry.ept] \in Range(Kinds)
      BY <2>0, <2>2 DEF RegistryTypeOK
    <3> HIDE DEF c, entry
    <3>4. \A z \in Ept : fate[z] \subseteq fate'[z]
      BY <2>0, <3>1, <3>3, BindFates
    <3> QED BY <2>1, <3>4, WaitFrame
  <2>3. CASE KindOf[e] \notin services[c]
    <3>1. fate' = fate
      BY <2>3 DEF mica_ns_bind_cb
    <3> QED BY <2>1, <3>1, WaitFrame
  <2> QED BY <2>2, <2>3
<1>13. ASSUME NEW c \in Client, StartFresh(c) \/ Restore(c) \/ Stop(c) \/ StopFaults(c)
      PROVE  WaitInv'
  BY <1>13, <1>1, <1>2, <1>10, <1>11 DEF StopFaults
<1>14. ASSUME NEW t \in Actor, rsc_update_ept_table(t) PROVE WaitInv'
  <2>1. CASE UpdateEnds(t)
    BY <2>1, <1>8
  <2>2. CASE UpdateClear(t) \/ UpdateIndex(t) \/ UpdateWrite(t) \/ UpdateStore(t)
    <3>1. UNCHANGED <<services, waiting, epoll, fate>>
      BY <2>2 DEF UpdateClear, UpdateIndex, UpdateWrite, UpdateStore, past
    <3> QED BY <3>1, WaitFrame
  <2> QED BY <1>14, <2>1, <2>2 DEF rsc_update_ept_table
<1>16. ASSUME NEW e \in Ept, mica_ns_bind_cb(e) PROVE WaitInv'
  BY <1>16, <1>12
<1> QED BY <1>13, <1>14, <1>16, <1>3, <1>4, <1>5, <1>6,
        <1>7, <1>9, <1>11 DEF RegistryNext

=============================================================================
