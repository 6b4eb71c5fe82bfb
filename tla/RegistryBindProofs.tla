-------------------------- MODULE RegistryBindProofs --------------------------
(***************************************************************************)
(* Proofs about ServiceRegistry, continued: every step keeps each endpoint *)
(* bound once (OnceInv) and within reach of a restored micad (PeerInv),    *)
(* and the theorems that follow from the inductive invariant.              *)
(***************************************************************************)
EXTENDS RegistryProofs

USE ZenonT(10), SMT, SMTT(30)

(* What is in the table of a client. *)
LEMMA SlotRange ==
    ASSUME RegistryTypeOK, NEW c \in Client
    PROVE  \A x : x \in Range(table[c].slot) <=> \E i \in 0 .. MaxEpts - 1 : table[c].slot[i] = x
<1>1. table[c].slot \in [0 .. MaxEpts - 1 -> Binding \union {Empty}]
  BY TableTypes
<1>2. DOMAIN table[c].slot = 0 .. MaxEpts - 1
  BY <1>1
<1> QED BY <1>2 DEF Range

(* What the slots of a table hold after a step. *)
LEMMA SlotRangeNext ==
    ASSUME RegistryTypeOK', NEW c \in Client
    PROVE  \A x : x \in Range(table'[c].slot) <=> \E i \in 0 .. MaxEpts - 1 : table'[c].slot[i] = x
<1>1. table'[c] \in [num : Nat, slot : [0 .. MaxEpts - 1 -> Binding \union {Empty}]]
  BY DEF RegistryTypeOK
<1>2. table'[c].slot \in [0 .. MaxEpts - 1 -> Binding \union {Empty}]
  BY <1>1
<1>3. DOMAIN table'[c].slot = 0 .. MaxEpts - 1
  BY <1>2
<1> QED BY <1>3 DEF Range

(* The empty sequence holds nothing. *)
LEMMA EmptyRange == Range(<<>>) = {}
BY SMT, SMTT(30) DEF Range

(* An empty slot is no binding. *)
LEMMA EmptyUnbound == Empty \notin Binding
BY RegistryAssumption DEF Empty, Binding

(* Nothing is held in the initial state. *)
LEMMA RegistryInitOnce == RegistryInit => OnceInv
<1> SUFFICES ASSUME RegistryInit, NEW e \in Ept PROVE Once(e)
  BY DEF OnceInv
<1>0. RegistryTypeOK
  BY RegistryInitTypes
<1>1. peer[e] = ANY
  BY DEF RegistryInit
<1>2. ~Pending(e) /\ Len(waiting) = 0
  BY RestingAt DEF RegistryInit, Pending
<1>3. NewOnce(e)
  BY <1>2, SMT, SMTT(30) DEF NewOnce, New
<1>4. \A c \in Client, x \in Binding : ~Holds(c, x)
  <2> SUFFICES ASSUME NEW c \in Client, NEW x \in Binding PROVE ~Holds(c, x)
    OBVIOUS
  <2>1. bound[c] = <<>> /\ alive = {} /\ epoll = Resting
    BY DEF RegistryInit
  <2>2. x \notin Range(bound[c])
    BY <2>1, EmptyRange
  <2> QED BY <2>1, <2>2 DEF Holds, BeingRestored
<1>5. HeldOnce(e)
  BY <1>4 DEF HeldOnce
<1>6. Apart(e)
  BY SMT, SMTT(30) DEF Apart, RegistryInit
<1> QED BY <1>1, <1>3, <1>5, <1>6 DEF Once

(* Nothing new comes to stand for endpoint e. *)
LEMMA OnceKept ==
    ASSUME NEW e \in Ept, Once(e), e \in announced => e \in announced', peer'[e] = peer[e],
           Pending(e)' => Pending(e),
           \A i \in 1 .. Len(waiting') : New(i, e)' => \E k \in 1 .. Len(waiting) : New(k, e),
           \A i, j \in 1 .. Len(waiting') : New(i, e)' /\ New(j, e)' => i = j,
           \A c \in Client, x \in Binding : x.ept = e /\ Holds(c, x)' => Holds(c, x),
           Apart(e)'
    PROVE  Once(e)'
<1>1. e \notin announced' => peer'[e] = ANY
  BY DEF Once
<1>2. NewOnce(e)'
  <2>1. NewOnce(e)
    BY DEF Once
  <2> QED BY <2>1 DEF NewOnce
<1>3. HeldOnce(e)'
  <2>1. HeldOnce(e)
    BY DEF Once
  <2> QED BY <2>1 DEF HeldOnce
<1> QED BY <1>1, <1>2, <1>3 DEF Once

(* A client holds no binding it did not hold when nothing is bound and its table gains nothing. *)
LEMMA HoldsLess ==
    ASSUME UNCHANGED <<bound, alive>>, NEW c \in Client, NEW x \in Binding,
           c \in alive /\ x \in Range(table'[c].slot) =>
               x \in Range(table[c].slot) \/ x \in Range(bound[c]),
           BeingRestored(c, x)' => BeingRestored(c, x)
    PROVE  Holds(c, x)' => Holds(c, x)
BY DEF Holds

(* Neither the announcements nor the list change, and no table grows. *)
LEMMA OnceFrame ==
    ASSUME RegistryTypeOK, OnceInv,
           UNCHANGED <<waiting, notifier, peer, announced, bound>>,
           \A i : Waits(i)' => Waits(i),
           \A e \in Ept : "leftover" \in fate[e] => "leftover" \in fate'[e],
           \A c \in Client, x \in Binding : Holds(c, x)' => Holds(c, x)
    PROVE  OnceInv'
<1> SUFFICES ASSUME NEW e \in Ept, "leftover" \notin fate'[e] PROVE Once(e)'
  BY DEF OnceInv
<1>1. Once(e)
  BY DEF OnceInv
<1>2. Pending(e)' => Pending(e)
  BY DEF Pending
<1>3. \A i : New(i, e)' => New(i, e)
  BY DEF New
<1>4. Apart(e)'
  BY <1>1, SMT, SMTT(30) DEF Once, Apart
<1>5. \A i, j \in 1 .. Len(waiting) : New(i, e) /\ New(j, e) => i = j
  BY <1>1 DEF Once, NewOnce
<1> QED BY <1>1, <1>2, <1>3, <1>4, <1>5, OnceKept

(* The registration goes on, with the same list. *)
LEMMA SameList ==
    ASSUME waiting' = waiting, epoll.at = "update" => epoll' = epoll
    PROVE  \A i : Waits(i)' => Waits(i)
BY DEF Waits

(* Nothing is restored anew while the list and the client registered stay the same. *)
LEMMA SameRegistration ==
    ASSUME waiting' = waiting, \A i : Waits(i)' => Waits(i),
           epoll' # Resting => epoll # Resting /\ epoll'.client = epoll.client,
           NEW c, NEW x
    PROVE  BeingRestored(c, x)' => BeingRestored(c, x)
BY DEF BeingRestored

(* While no registration is under way, no entry of the list is a restored one. *)
LEMMA NoneRestored ==
    ASSUME RegistryTypeOK, WaitInv, epoll = Resting
    PROVE  \A i \in 1 .. Len(waiting) : waiting[i] \notin Binding
<1> SUFFICES ASSUME NEW i \in 1 .. Len(waiting) PROVE waiting[i] \notin Binding
  OBVIOUS
<1>1. waiting[i].host = ANY
  BY NotDue DEF WaitInv, WaitsWell
<1>2. \A x \in Binding : x.host # ANY
  BY DEF Binding
<1> QED BY <1>1, <1>2

(* What a binding changes. *)
LEMMA BoundIs ==
    ASSUME RegistryTypeOK, NEW c \in Client, NEW entry, NEW x \in Binding, Bound(c, entry, x)
    PROVE  /\ \A d \in Client \ {c} : bound'[d] = bound[d]
           /\ Len(bound[c]) \in Nat /\ Len(bound'[c]) = Len(bound[c]) + 1
           /\ bound'[c][Len(bound[c]) + 1] = x
           /\ \A j \in 1 .. Len(bound[c]) : bound'[c][j] = bound[c][j]
           /\ Range(bound'[c]) = Range(bound[c]) \union {x}
           /\ x.ept \in Ept /\ x.host # ANY /\ fate' = fate
           /\ \A e \in Ept \ {x.ept} : peer'[e] = peer[e]
           /\ peer'[x.ept] = IF OwnerOf[x.ept] = c /\ peer[x.ept] = ANY THEN x.host
                             ELSE peer[x.ept]
<1>1. bound' = [bound EXCEPT ![c] = Append(bound[c], x)] /\ fate' = fate
  BY DEF Bound
<1>2. \A d \in Client \ {c} : bound'[d] = bound[d]
  BY <1>1 DEF RegistryTypeOK
<1>3. bound'[c] = Append(bound[c], x)
  BY <1>1 DEF RegistryTypeOK
<1>4. /\ Len(bound[c]) \in Nat /\ Len(bound'[c]) = Len(bound[c]) + 1
      /\ bound'[c][Len(bound[c]) + 1] = x
      /\ \A j \in 1 .. Len(bound[c]) : bound'[c][j] = bound[c][j]
      /\ Range(bound'[c]) = Range(bound[c]) \union {x}
  BY <1>3, BoundTypes, AppendRange, SMT, SMTT(30)
<1>5. x.ept \in Ept /\ x.host # ANY
  BY DEF Binding
<1>6. peer' = IF OwnerOf[x.ept] = c /\ peer[x.ept] = ANY
              THEN [peer EXCEPT ![x.ept] = x.host] ELSE peer
  BY DEF Bound
<1>7. \A e \in Ept \ {x.ept} : peer'[e] = peer[e]
  BY <1>6 DEF RegistryTypeOK
<1>8. peer'[x.ept] = IF OwnerOf[x.ept] = c /\ peer[x.ept] = ANY THEN x.host ELSE peer[x.ept]
  BY <1>5, <1>6 DEF RegistryTypeOK
<1> QED BY <1>1, <1>2, <1>4, <1>5, <1>7, <1>8

(* A bind makes its client hold the new binding and no other. *)
LEMMA BindHolds ==
    ASSUME RegistryTypeOK, NEW c \in Client, NEW entry, NEW x \in Binding, Bound(c, entry, x),
           UNCHANGED <<alive, table>>, NEW d \in Client, NEW y \in Binding,
           BeingRestored(d, y)' => BeingRestored(d, y), Holds(d, y)'
    PROVE  Holds(d, y) \/ (d = c /\ y = x)
<1>1. y \in Range(bound'[d]) => y \in Range(bound[d]) \/ (d = c /\ y = x)
  BY BoundIs, SMT, SMTT(30)
<1> QED BY <1>1 DEF Holds

(* Another endpoint is bound. *)
LEMMA OthersOnce ==
    ASSUME RegistryTypeOK, OnceInv, NEW c \in Client, NEW entry, NEW x \in Binding,
           Bound(c, entry, x), UNCHANGED <<alive, table, waiting>>,
           \A d \in Client, y \in Binding : BeingRestored(d, y)' => BeingRestored(d, y),
           \A i : Waits(i)' => Waits(i), NEW e \in Ept, e # x.ept, "leftover" \notin fate'[e],
           e \in announced => e \in announced', Pending(e)' => Pending(e)
    PROVE  Once(e)'
<1>1. Once(e) /\ peer'[e] = peer[e]
  BY BoundIs, SMT, SMTT(30) DEF OnceInv
<1>2. ASSUME NEW d \in Client, NEW y \in Binding, y.ept = e PROVE Holds(d, y)' => Holds(d, y)
  BY <1>2, BindHolds
<1>3. \A i : New(i, e)' => New(i, e)
  BY DEF New
<1>4. \A i, j \in 1 .. Len(waiting) : New(i, e) /\ New(j, e) => i = j
  BY <1>1 DEF Once, NewOnce
<1>5. Apart(e)'
  <2> SUFFICES ASSUME NEW d \in Client, NEW i \in 1 .. Len(bound'[d]), NEW j \in 1 .. Len(bound'[d]),
                      bound'[d][i].ept = e, bound'[d][j].ept = e
               PROVE  i = j
    BY DEF Apart
  <2>1. Apart(e)
    BY <1>1 DEF Once
  <2>2. CASE d # c
    BY <2>1, <2>2, BoundIs, SMT, SMTT(30) DEF Apart
  <2>3. CASE d = c
    <3>1. i \in 1 .. Len(bound[d]) /\ j \in 1 .. Len(bound[d])
      BY <2>3, BoundIs, SMT, SMTT(30)
    <3>2. bound[d][i].ept = e /\ bound[d][j].ept = e
      BY <2>3, <3>1, BoundIs, SMT, SMTT(30)
    <3> QED BY <2>1, <3>1, <3>2 DEF Apart
  <2> QED BY <2>2, <2>3
<1> QED BY <1>1, <1>2, <1>3, <1>4, <1>5, OnceKept

(* An endpoint is bound that nothing stands for. *)
LEMMA FreshOnce ==
    ASSUME RegistryTypeOK, NEW c \in Client, NEW entry, NEW x \in Binding,
           Bound(c, entry, x), UNCHANGED <<alive, table>>,
           \A d \in Client, y \in Binding : BeingRestored(d, y)' => BeingRestored(d, y),
           \A d \in Client, y \in Binding : y.ept = x.ept => ~Holds(d, y),
           \A i : ~New(i, x.ept)', ~Pending(x.ept)', x.ept \in announced', peer[x.ept] = ANY
    PROVE  Once(x.ept)'
<1> DEFINE e == x.ept
<1>1. ASSUME NEW d \in Client, NEW y \in Binding, y.ept = e, Holds(d, y)' PROVE d = c /\ y = x
  BY <1>1, BindHolds
<1>2. peer'[e] = IF OwnerOf[e] = c THEN x.host ELSE ANY
  BY BoundIs
<1>3. HeldOnce(e)'
  BY <1>1, <1>2 DEF HeldOnce
<1>4. NewOnce(e)'
  BY DEF NewOnce
<1>5. \A d \in Client : \A j \in 1 .. Len(bound[d]) : bound[d][j].ept # e
  BY BoundTypes DEF Holds
<1>6. \A d \in Client : \A j \in 1 .. Len(bound'[d]) :
          bound'[d][j].ept = e => d = c /\ j = Len(bound[c]) + 1
  BY <1>5, BoundIs, SMT, SMTT(30)
<1>7. Apart(e)'
  BY <1>6 DEF Apart
<1> QED BY <1>3, <1>4, <1>7 DEF Once

(* A restored entry is bound to the address it stood for. *)
LEMMA AgainOnce ==
    ASSUME RegistryTypeOK, NEW c \in Client, NEW x \in Binding, Bound(c, x, x),
           UNCHANGED <<alive, table, waiting>>, Once(x.ept), Holds(c, x),
           \A d \in Client, y \in Binding : BeingRestored(d, y)' => BeingRestored(d, y),
           \A i : Waits(i)' => Waits(i),
           x.ept \in announced', Pending(x.ept)' => Pending(x.ept)
    PROVE  Once(x.ept)'
<1> DEFINE e == x.ept
<1>0. e \in Ept /\ HeldOnce(e) /\ NewOnce(e)
  BY BoundIs DEF Once
<1>1. ASSUME NEW d \in Client, NEW y \in Binding, y.ept = e, Holds(d, y)' PROVE Holds(d, y)
  BY <1>1, BindHolds
<1>2. peer[e] = IF OwnerOf[e] = c THEN x.host ELSE ANY
  BY <1>0 DEF HeldOnce
<1>3. peer'[e] = peer[e]
  BY <1>2, BoundIs, SMT, SMTT(30)
<1>4. x.host \notin Hosts(c)
  BY DEF Bound
<1>5. ASSUME NEW d \in Client, NEW j \in 1 .. Len(bound[d]), bound[d][j].ept = e PROVE FALSE
  <2>1. bound[d][j] \in Binding /\ bound[d][j] \in Range(bound[d])
    BY BoundTypes
  <2>2. Holds(d, bound[d][j])
    BY <2>1 DEF Holds
  <2>3. d = c /\ bound[d][j] = x
    BY <1>0, <1>5, <2>1, <2>2 DEF HeldOnce
  <2> QED BY <1>4, <2>1, <2>3 DEF Hosts
<1>6. \A d \in Client : \A j \in 1 .. Len(bound'[d]) :
          bound'[d][j].ept = e => d = c /\ j = Len(bound[c]) + 1
  <2>1. /\ \A d \in Client \ {c} : bound'[d] = bound[d]
        /\ Len(bound[c]) \in Nat /\ Len(bound'[c]) = Len(bound[c]) + 1
        /\ \A j \in 1 .. Len(bound[c]) : bound'[c][j] = bound[c][j]
    BY BoundIs
  <2> QED BY <1>5, <2>1, SMT, SMTT(30)
<1>7. Apart(e)'
  BY <1>6 DEF Apart
<1>8. \A i : New(i, e)' => New(i, e)
  BY DEF New
<1>9. \A i, j \in 1 .. Len(waiting) : New(i, e) /\ New(j, e) => i = j
  BY <1>0 DEF NewOnce
<1> QED BY <1>0, <1>1, <1>3, <1>7, <1>8, <1>9, OnceKept

(* Every step keeps every endpoint held at most once. *)
LEMMA OnceStep ==
    ASSUME RegistryTypeOK, RegistryTypeOK', Lockstep, WaitInv, OnceInv, RegistryNext
    PROVE  OnceInv'
<1>1. \A t \in Actor : UpdateClear(t) => OnceInv'
  <2> SUFFICES ASSUME NEW t \in Actor, UpdateClear(t) PROVE OnceInv'
    OBVIOUS
  <2> DEFINE d == update[t].client
  <2>0. d \in Client
    BY UpdateCases DEF UpdateClear
  <2>1. /\ UNCHANGED <<waiting, notifier, peer, announced, bound, alive, epoll, fate>>
        /\ table' = [table EXCEPT ![d] = NoTable]
    BY DEF UpdateClear, remote
  <2>2. \A i : Waits(i)' => Waits(i)
    BY <2>1 DEF Waits
  <2>3. ASSUME NEW c \in Client, NEW x \in Binding PROVE Holds(c, x)' => Holds(c, x)
    <3>1. BeingRestored(c, x)' => BeingRestored(c, x)
      BY <2>1, <2>2, SameRegistration
    <3>2. x \in Range(table'[c].slot) => x \in Range(table[c].slot)
      <4>1. CASE c = d
        <5>1. table'[c] = NoTable
          BY <2>1, <4>1 DEF RegistryTypeOK
        <5>2. \A i \in 0 .. MaxEpts - 1 : table'[c].slot[i] = Empty
          BY <5>1, SMT, SMTT(30) DEF NoTable
        <5>3. x \in Range(table'[c].slot) <=> \E i \in 0 .. MaxEpts - 1 : table'[c].slot[i] = x
          BY SlotRangeNext
        <5> QED BY <5>2, <5>3, EmptyUnbound
      <4>2. CASE c # d
        BY <2>1, <4>2 DEF RegistryTypeOK
      <4> QED BY <4>1, <4>2
    <3> QED BY <2>1, <3>1, <3>2, HoldsLess
  <2> QED BY <2>1, <2>2, <2>3, OnceFrame
<1>2. \A t \in Actor : UpdateIndex(t) => OnceInv'
  <2> SUFFICES ASSUME NEW t \in Actor, UpdateIndex(t) PROVE OnceInv'
    OBVIOUS
  <2>1. UNCHANGED <<waiting, notifier, peer, announced, bound, alive, epoll, fate, table>>
    BY DEF UpdateIndex, remote, past
  <2>2. \A i : Waits(i)' => Waits(i)
    BY <2>1 DEF Waits
  <2>3. ASSUME NEW c \in Client, NEW x \in Binding PROVE Holds(c, x)' => Holds(c, x)
    <3>1. BeingRestored(c, x)' => BeingRestored(c, x)
      BY <2>1, <2>2, SameRegistration
    <3> QED BY <2>1, <3>1, HoldsLess
  <2> QED BY <2>1, <2>2, <2>3, OnceFrame
<1>3. \A t \in Actor : UpdateWrite(t) => OnceInv'
  <2> SUFFICES ASSUME NEW t \in Actor, UpdateWrite(t) PROVE OnceInv'
    OBVIOUS
  <2> DEFINE d == update[t].client
  <2> DEFINE n == update[t].nth
  <2> DEFINE i == update[t].i
  <2> DEFINE y == bound[d][n]
  <2>0. d \in Client /\ n \in Nat \ {0} /\ i \in Nat /\ MaxEpts \in Nat
    BY UpdateCases, RegistryAssumption DEF UpdateWrite
  <2>1. /\ UNCHANGED <<waiting, notifier, peer, announced, bound, alive, epoll, fate>>
        /\ SlotWritten(d, i, y)
    BY DEF UpdateWrite, remote, past, SlotWritten
  <2>2. \A j : Waits(j)' => Waits(j)
    BY <2>1 DEF Waits
  <2>3. i \in 0 .. MaxEpts - 1 /\ y \in Binding /\ y \in Range(bound[d])
    <3>1. i < MaxEpts /\ n <= Len(bound[d])
      BY DEF Lockstep, UpdatePlace, UpdateWrite
    <3> QED BY <2>0, <3>1, BoundTypes, SMT, SMTT(30)
  <2>5. /\ table'[d].slot[i] = y
        /\ \A j \in 0 .. MaxEpts - 1 : j # i => table'[d].slot[j] = table[d].slot[j]
        /\ \A c \in Client \ {d} : table'[c] = table[c]
    <3>1. SlotWritten(d, i, y)
      BY <2>1
    <3> HIDE DEF d, i, y
    <3> QED BY <2>0, <2>3, <3>1, SlotWrittenIs
  <2> HIDE DEF d, i, y
  <2>6. ASSUME NEW c \in Client, NEW x \in Binding PROVE Holds(c, x)' => Holds(c, x)
    <3>1. BeingRestored(c, x)' => BeingRestored(c, x)
      BY <2>1, <2>2, SameRegistration
    <3>2. ASSUME x \in Range(table'[c].slot)
          PROVE  x \in Range(table[c].slot) \/ x \in Range(bound[c])
      <4>1. CASE c = d
        <5>1. PICK j \in 0 .. MaxEpts - 1 : table'[c].slot[j] = x
          BY <3>2, SlotRangeNext
        <5>2. CASE j = i
          BY <2>3, <2>5, <4>1, <5>1, <5>2
        <5>3. CASE j # i
          <6>1. table[c].slot[j] = x
            BY <2>5, <4>1, <5>1, <5>3
          <6> QED BY <6>1, SlotRange
        <5> QED BY <5>2, <5>3
      <4>2. CASE c # d
        BY <2>5, <3>2, <4>2
      <4> QED BY <4>1, <4>2
    <3> QED BY <2>1, <3>1, <3>2, HoldsLess
  <2> QED BY <2>1, <2>2, <2>6, OnceFrame
<1>4. \A t \in Actor : UpdateStore(t) => OnceInv'
  <2> SUFFICES ASSUME NEW t \in Actor, UpdateStore(t) PROVE OnceInv'
    OBVIOUS
  <2> DEFINE d == update[t].client
  <2>0. d \in Client /\ update[t].i + 1 \in Nat
    BY UpdateCases, SMT, SMTT(30) DEF UpdateStore
  <2>1. /\ UNCHANGED <<waiting, notifier, peer, announced, bound, alive, epoll, fate>>
        /\ CountWritten(d, update[t].i + 1)
    BY DEF UpdateStore, remote, past, CountWritten
  <2>2. \A j : Waits(j)' => Waits(j)
    BY <2>1 DEF Waits
  <2>5. \A c \in Client : table'[c].slot = table[c].slot
    <3>1. CountWritten(d, update[t].i + 1)
      BY <2>1
    <3> HIDE DEF d
    <3>2. table'[d].slot = table[d].slot /\ \A c \in Client \ {d} : table'[c] = table[c]
      BY <2>0, <3>1, CountWrittenIs
    <3> QED BY <3>2
  <2>6. ASSUME NEW c \in Client, NEW x \in Binding PROVE Holds(c, x)' => Holds(c, x)
    <3>1. BeingRestored(c, x)' => BeingRestored(c, x)
      BY <2>1, <2>2, SameRegistration
    <3> QED BY <2>1, <2>5, <3>1, HoldsLess
  <2> QED BY <2>1, <2>2, <2>6, OnceFrame
<1>5. \A d \in Client : Restore(d) => OnceInv'
  <2> SUFFICES ASSUME NEW d \in Client, Restore(d) PROVE OnceInv'
    OBVIOUS
  <2>1. /\ UNCHANGED <<waiting, notifier, peer, announced, bound, alive, fate, table>>
        /\ epoll = Resting
    BY DEF Restore, remote, past
  <2>2. \A i : Waits(i)' => Waits(i)
    BY <2>1, RestingAt, SameList
  <2>3. ASSUME NEW c \in Client, NEW x \in Binding PROVE Holds(c, x)' => Holds(c, x)
    <3>1. ~BeingRestored(c, x)'
      BY <2>1, NoneRestored DEF BeingRestored
    <3> QED BY <2>1, <3>1, HoldsLess
  <2> QED BY <2>1, <2>2, <2>3, OnceFrame
<1>6. (RestoreEnds \/ ScanEnds \/ AddService) => OnceInv'
  <2> SUFFICES ASSUME RestoreEnds \/ ScanEnds \/ AddService PROVE OnceInv'
    OBVIOUS
  <2>0. epoll \in Registering /\ epoll # Resting /\ epoll.at # "update"
    BY EpollCases DEF RestoreEnds, ScanEnds, AddService
  <2>1. UNCHANGED <<waiting, notifier, peer, announced, bound, alive, fate, table>>
    BY DEF RestoreEnds, ScanEnds, AddService, remote, past
  <2>2. \A i : Waits(i)' => Waits(i)
    BY <2>0, <2>1, SameList
  <2>3. epoll' # Resting => epoll'.client = epoll.client
    <3>1. CASE RestoreEnds
      BY <3>1, ScanningIs DEF RestoreEnds
    <3>2. CASE ScanEnds
      BY <2>0, <3>2, MovedAtIs DEF ScanEnds
    <3>3. CASE AddService
      BY <3>3, ScanningIs DEF AddService
    <3> QED BY <3>1, <3>2, <3>3
  <2>4. ASSUME NEW c \in Client, NEW x \in Binding PROVE Holds(c, x)' => Holds(c, x)
    <3>1. BeingRestored(c, x)' => BeingRestored(c, x)
      BY <2>0, <2>1, <2>2, <2>3, SameRegistration
    <3> QED BY <2>1, <3>1, HoldsLess
  <2> QED BY <2>1, <2>2, <2>4, OnceFrame
<1>7. \A d \in Client : Stop(d) => OnceInv'
  <2> SUFFICES ASSUME NEW d \in Client, Stop(d) PROVE OnceInv'
    OBVIOUS
  <2>1. /\ UNCHANGED <<waiting, notifier, peer, announced, epoll, fate, table>>
        /\ bound' = [bound EXCEPT ![d] = <<>>] /\ alive' = alive \ {d}
    BY DEF Stop, past
  <2>2. \A i : Waits(i)' <=> Waits(i)
    BY <2>1 DEF Waits
  <2>3. \A c \in Client : bound'[c] = bound[c] \/ bound'[c] = <<>>
    BY <2>1 DEF RegistryTypeOK
  <2>4. ASSUME NEW c \in Client, NEW x \in Binding PROVE Holds(c, x)' => Holds(c, x)
    <3>1. BeingRestored(c, x)' => BeingRestored(c, x)
      BY <2>1, <2>2, SameRegistration
    <3>2. x \in Range(bound'[c]) => x \in Range(bound[c])
      BY <2>3, EmptyRange
    <3> QED BY <2>1, <3>1, <3>2 DEF Holds
  <2> SUFFICES ASSUME NEW e \in Ept, "leftover" \notin fate[e] PROVE Once(e)'
    BY <2>1 DEF OnceInv
  <2>5. Once(e)
    BY DEF OnceInv
  <2>6. Pending(e)' <=> Pending(e)
    BY <2>1 DEF Pending
  <2>7. \A i : New(i, e)' <=> New(i, e)
    BY <2>1, <2>2 DEF New
  <2>8. Apart(e)'
    <3> SUFFICES ASSUME NEW c \in Client, NEW i \in 1 .. Len(bound'[c]), NEW j \in 1 .. Len(bound'[c]),
                        bound'[c][i].ept = e, bound'[c][j].ept = e
                 PROVE  i = j
      BY DEF Apart
    <3>1. bound'[c] = bound[c]
      BY <2>3, SMT, SMTT(30)
    <3> QED BY <2>5, <3>1 DEF Once, Apart
  <2>9. \A i, j \in 1 .. Len(waiting) : New(i, e) /\ New(j, e) => i = j
    BY <2>5 DEF Once, NewOnce
  <2> QED BY <2>1, <2>4, <2>5, <2>6, <2>7, <2>8, <2>9, OnceKept
<1>8. Crash => OnceInv'
  <2> SUFFICES ASSUME Crash PROVE OnceInv'
    OBVIOUS
  <2>1. /\ UNCHANGED <<table, alive, announced, peer>> /\ waiting' = <<>>
        /\ bound' = [c \in Client |-> <<>>] /\ epoll' = Resting /\ notifier' = Resting
    BY DEF Crash, remote
  <2>2. \A e \in Ept : fate[e] \subseteq fate'[e]
    BY DEF Crash
  <2>3. ASSUME NEW c \in Client, NEW x \in Binding PROVE Holds(c, x)' => Holds(c, x)
    <3>1. ~BeingRestored(c, x)'
      BY <2>1 DEF BeingRestored
    <3>2. x \notin Range(bound'[c])
      BY <2>1, EmptyRange
    <3> QED BY <2>1, <3>1, <3>2 DEF Holds
  <2> SUFFICES ASSUME NEW e \in Ept, "leftover" \notin fate'[e] PROVE Once(e)'
    BY DEF OnceInv
  <2>5. Once(e)
    BY <2>2 DEF OnceInv
  <2>6. ~Pending(e)'
    BY <2>1, RestingAt DEF Pending
  <2>7. Len(waiting') = 0
    BY <2>1
  <2>8. Apart(e)'
    BY <2>1, SMT, SMTT(30) DEF Apart
  <2> QED BY <2>1, <2>3, <2>5, <2>6, <2>7, <2>8, OnceKept, SMT, SMTT(30)
<1>9. \A d \in Client : StartFresh(d) => OnceInv'
  <2> SUFFICES ASSUME NEW d \in Client, StartFresh(d) PROVE OnceInv'
    OBVIOUS
  <2>1. /\ UNCHANGED <<waiting, notifier, bound>> /\ epoll = Resting
        /\ announced' = {e \in announced : OwnerOf[e] # d}
        /\ table' = [table EXCEPT ![d] = NoTable] /\ alive' = alive \union {d}
        /\ epoll' = Scanning(d, 1)
    BY DEF StartFresh
  <2>2. \A i : Waits(i)' <=> Waits(i)
    <3>1. epoll'.at = "scan" /\ epoll.at = "idle"
      BY <2>1, ScanningIs, RestingAt
    <3> QED BY <2>1, <3>1 DEF Waits
  <2>3. \A c \in Client, x \in Binding : ~BeingRestored(c, x)'
    BY <2>1, NoneRestored DEF BeingRestored
  <2>4. ASSUME NEW c \in Client, NEW x \in Binding, c \in alive', x \in Range(table'[c].slot)
        PROVE  c \in alive /\ x \in Range(table[c].slot)
    <3>1. PICK i \in 0 .. MaxEpts - 1 : table'[c].slot[i] = x
      BY <2>4, SlotRangeNext
    <3>2. c # d
      <4> SUFFICES ASSUME c = d PROVE FALSE
        OBVIOUS
      <4>1. table'[c] = NoTable
        BY <2>1 DEF RegistryTypeOK
      <4>2. x = Empty
        BY <3>1, <4>1, SMT, SMTT(30) DEF NoTable
      <4> QED BY <4>2, EmptyUnbound
    <3> QED BY <2>1, <2>4, <3>2 DEF RegistryTypeOK
  <2>5. ASSUME NEW c \in Client, NEW x \in Binding PROVE Holds(c, x)' => Holds(c, x)
    BY <2>1, <2>3, <2>4 DEF Holds
  <2> SUFFICES ASSUME NEW e \in Ept, "leftover" \notin fate'[e] PROVE Once(e)'
    BY DEF OnceInv
  <2>6. Pending(e)' <=> Pending(e)
    BY <2>1 DEF Pending
  <2>7. \A i : New(i, e)' <=> New(i, e)
    BY <2>1, <2>2 DEF New
  <2>8. CASE OwnerOf[e] # d
    <3>1. fate'[e] = fate[e] /\ peer'[e] = peer[e] /\ (e \in announced => e \in announced')
      BY <2>1, <2>8 DEF StartFresh
    <3>2. Once(e)
      BY <3>1 DEF OnceInv
    <3>3. Apart(e)'
      BY <2>1, <3>2 DEF Once, Apart
    <3>4. \A i, j \in 1 .. Len(waiting) : New(i, e) /\ New(j, e) => i = j
      BY <3>2 DEF Once, NewOnce
    <3> QED BY <2>1, <2>5, <2>6, <2>7, <3>1, <3>2, <3>3, <3>4, OnceKept
  <2>9. CASE OwnerOf[e] = d
    <3>1. ~Listed(e) /\ ~InUse(e) /\ peer'[e] = ANY
      BY <2>9 DEF StartFresh
    <3>2. ~Pending(e)' /\ \A i : ~New(i, e)'
      BY <2>6, <2>7, <3>1, SMT, SMTT(30) DEF Listed, Pending, New, Waits
    <3>3. \A c \in Client : \A j \in 1 .. Len(bound[c]) : bound[c][j].ept # e
      <4> SUFFICES ASSUME NEW c \in Client, NEW j \in 1 .. Len(bound[c]), bound[c][j].ept = e
                   PROVE  FALSE
        OBVIOUS
      <4>1. running[c]
        BY SMT, SMTT(30) DEF Lockstep, ClientPlace
      <4>2. c \in alive /\ bound[c][j] \in Range(bound[c])
        BY <4>1, BoundTypes DEF Lockstep, ClientPlace
      <4> QED BY <3>1, <4>2 DEF InUse
    <3>4. \A c \in Client, x \in Binding : x.ept = e => ~Holds(c, x)'
      <4> SUFFICES ASSUME NEW c \in Client, NEW x \in Binding, x.ept = e PROVE ~Holds(c, x)'
        OBVIOUS
      <4>1. x \notin Range(bound[c])
        <5>1. x \in Range(bound[c]) <=> \E j \in 1 .. Len(bound[c]) : bound[c][j] = x
          <6>1. bound[c] \in Seq(Binding)
            BY BoundTypes
          <6> QED BY <6>1, SeqRange, SMT, SMTT(30)
        <5> QED BY <3>3, <5>1
      <4>2. ~(c \in alive' /\ x \in Range(table'[c].slot))
        BY <2>4, <3>1 DEF InUse
      <4> QED BY <2>1, <2>3, <4>1, <4>2 DEF Holds
    <3>5. NewOnce(e)'
      BY <3>2 DEF NewOnce
    <3>6. HeldOnce(e)'
      BY <3>4 DEF HeldOnce
    <3>7. Apart(e)'
      BY <2>1, <3>3 DEF Apart
    <3> QED BY <3>1, <3>5, <3>6, <3>7 DEF Once
  <2> QED BY <2>8, <2>9
<1>10. handle_mica_rsc => OnceInv'
  <2> SUFFICES ASSUME handle_mica_rsc PROVE OnceInv'
    OBVIOUS
  <2> DEFINE d == epoll.client
  <2> DEFINE y == table[d].slot[epoll.pos - 1]
  <2>0. /\ epoll \in Registering /\ epoll # Resting /\ d \in Client /\ epoll.pos \in Nat \ {0}
        /\ epoll.at = "restore" /\ epoll.pos <= MaxEpts /\ MaxEpts \in Nat /\ d \in alive
    BY EpollCases, RegistryAssumption DEF handle_mica_rsc, InTable, Lockstep, EpollPlace
  <2>1. /\ UNCHANGED <<fate, bound, table, notifier, alive, announced, peer>>
        /\ epoll' = [epoll EXCEPT !.pos = epoll.pos + 1]
        /\ waiting' = IF y = Empty THEN waiting ELSE Append(waiting, y)
    BY <2>0 DEF handle_mica_rsc, past, remote, Registering
  <2>2. epoll'.at = "restore" /\ epoll'.client = d
    BY <2>0, <2>1 DEF Registering
  <2>3. y \in Binding \union {Empty} /\ y \in Range(table[d].slot)
    <3>1. epoll.pos - 1 \in 0 .. MaxEpts - 1
      BY <2>0, SMT, SMTT(30)
    <3>2. y \in Binding \union {Empty}
      BY <2>0, <3>1, TableTypes
    <3>3. y \in Range(table[d].slot)
      BY <2>0, <3>1, SlotRange
    <3> QED BY <3>2, <3>3
  <2> HIDE DEF y, d
  <2>4. ASSUME NEW i \in 1 .. Len(waiting')
        PROVE  \/ i \in 1 .. Len(waiting) /\ waiting'[i] = waiting[i]
               \/ waiting'[i] = y /\ y \in Binding
    <3>1. CASE y = Empty
      BY <2>1, <3>1
    <3>2. CASE y # Empty
      <4>1. y \in Unbound \union Binding /\ y \in Binding /\ waiting' = Append(waiting, y)
        BY <2>1, <2>3, <3>2
      <4>2. /\ Len(waiting') = Len(waiting) + 1 /\ Len(waiting) \in Nat
            /\ waiting'[Len(waiting) + 1] = y
            /\ \A j \in 1 .. Len(waiting) : waiting'[j] = waiting[j]
        BY <4>1, WaitingTypes, AppendRange, SMT, SMTT(30)
      <4> QED BY <4>1, <4>2, SMT, SMTT(30)
    <3> QED BY <3>1, <3>2
  <2>5. \A i : Waits(i) <=> i \in 1 .. Len(waiting)
    BY <2>0 DEF Waits
  <2>6. \A i : Waits(i)' => i \in 1 .. Len(waiting')
    BY DEF Waits
  <2>7. ASSUME NEW c \in Client, NEW x \in Binding PROVE Holds(c, x)' => Holds(c, x)
    <3>1. BeingRestored(c, x)' => BeingRestored(c, x) \/ (c = d /\ x = y)
      BY <2>0, <2>1, <2>2, <2>4, <2>5, <2>6 DEF BeingRestored, d
    <3> QED BY <2>0, <2>1, <2>3, <3>1 DEF Holds
  <2> SUFFICES ASSUME NEW e \in Ept, "leftover" \notin fate[e] PROVE Once(e)'
    BY <2>1 DEF OnceInv
  <2>8. Once(e)
    BY DEF OnceInv
  <2>9. Pending(e)' <=> Pending(e)
    BY <2>1 DEF Pending
  <2>10. ASSUME NEW i \in 1 .. Len(waiting'), New(i, e)' PROVE New(i, e) /\ i \in 1 .. Len(waiting)
    <3>1. waiting'[i].host = ANY
      BY <2>10, SMT, SMTT(30) DEF New
    <3>2. y \in Binding => y.host # ANY
      BY DEF Binding
    <3> QED BY <2>4, <2>5, <2>10, <3>1, <3>2 DEF New
  <2>11. Apart(e)'
    BY <2>1, <2>8 DEF Once, Apart
  <2>12. \A i, j \in 1 .. Len(waiting) : New(i, e) /\ New(j, e) => i = j
    BY <2>8 DEF Once, NewOnce
  <2>13. \A i, j \in 1 .. Len(waiting') : New(i, e)' /\ New(j, e)' => i = j
    BY <2>10, <2>12
  <2> QED BY <2>1, <2>7, <2>8, <2>9, <2>10, <2>11, <2>13, OnceKept
<1>11. \A t \in Actor : UpdateEnds(t) => OnceInv'
  <2> SUFFICES ASSUME NEW t \in Actor, UpdateEnds(t) PROVE OnceInv'
    OBVIOUS
  <2>1. /\ UNCHANGED <<bound, table, alive, announced, peer>>
        /\ \A e \in Ept : fate[e] \subseteq fate'[e]
    BY DEF UpdateEnds, Befalls, remote
  <2>2. CASE t # "epoll"
    <3>1. UNCHANGED <<waiting, epoll>> /\ notifier' = Resting
      BY <2>2 DEF UpdateEnds
    <3>2. \A i : Waits(i)' => Waits(i)
      BY <3>1 DEF Waits
    <3>3. ASSUME NEW c \in Client, NEW x \in Binding PROVE Holds(c, x)' => Holds(c, x)
      <4>1. BeingRestored(c, x)' => BeingRestored(c, x)
        BY <3>1, <3>2, SameRegistration
      <4> QED BY <2>1, <4>1, HoldsLess
    <3> SUFFICES ASSUME NEW e \in Ept, "leftover" \notin fate'[e] PROVE Once(e)'
      BY DEF OnceInv
    <3>4. Once(e)
      BY <2>1 DEF OnceInv
    <3>5. ~Pending(e)'
      BY <3>1, RestingAt DEF Pending
    <3>6. \A i : New(i, e)' => New(i, e)
      BY <3>1, <3>2 DEF New
    <3>7. Apart(e)'
      BY <2>1, <3>4, SMT, SMTT(30) DEF Once, Apart
    <3>8. \A i, j \in 1 .. Len(waiting) : New(i, e) /\ New(j, e) => i = j
      BY <3>4 DEF Once, NewOnce
    <3> QED BY <2>1, <3>1, <3>3, <3>4, <3>5, <3>6, <3>7, <3>8, OnceKept
  <2>3. CASE t = "epoll"
    <3> DEFINE p == epoll.pos
    <3>0. /\ waiting' = Deleted(waiting, p) /\ epoll' = [epoll EXCEPT !.at = "scan"]
          /\ update["epoll"].at = "index" /\ notifier' = notifier
      BY <2>3 DEF UpdateEnds
    <3>1. epoll.at = "update"
      BY <3>0, RestingAt DEF Lockstep, EpollPlace
    <3>2. /\ epoll \in Registering /\ epoll # Resting /\ p \in Nat \ {0} /\ p <= Len(waiting)
          /\ Len(waiting) \in Nat
      BY <3>1, EpollCases, WaitingTypes DEF Lockstep, EpollPlace
    <3>3. epoll'.at = "scan" /\ epoll'.client = epoll.client
      BY <3>0, <3>2, MovedAtIs
    <3>4. /\ Len(waiting') = Len(waiting) - 1
          /\ \A j \in 1 .. Len(waiting) - 1 :
                waiting'[j] = IF j < p THEN waiting[j] ELSE waiting[j + 1]
      <4> HIDE DEF p
      <4> QED BY <3>0, <3>2, WaitingTypes, DeletedIs, SMT, SMTT(30)
    <3> DEFINE was(j) == IF j < p THEN j ELSE j + 1
    <3>5. \A j \in 1 .. Len(waiting') :
              was(j) \in 1 .. Len(waiting) /\ was(j) # p /\ waiting'[j] = waiting[was(j)]
      BY <3>2, <3>4, SMT, SMTT(30)
    <3>6. \A i, j \in 1 .. Len(waiting') : was(i) = was(j) => i = j
      BY <3>2, SMT, SMTT(30)
    <3>7. \A i \in 1 .. Len(waiting) : Waits(i) <=> i # p
      BY <3>1 DEF Waits
    <3>8. \A j : Waits(j)' => j \in 1 .. Len(waiting')
      BY DEF Waits
    <3> HIDE DEF was, p
    <3>9. ASSUME NEW c \in Client, NEW x \in Binding PROVE Holds(c, x)' => Holds(c, x)
      <4>1. BeingRestored(c, x)' => BeingRestored(c, x)
        BY <3>2, <3>3, <3>5, <3>7, <3>8 DEF BeingRestored
      <4> QED BY <2>1, <4>1, HoldsLess
    <3> SUFFICES ASSUME NEW e \in Ept, "leftover" \notin fate'[e] PROVE Once(e)'
      BY DEF OnceInv
    <3>10. Once(e)
      BY <2>1 DEF OnceInv
    <3>11. Pending(e)' => Pending(e)
      BY <3>0 DEF Pending
    <3>12. \A j \in 1 .. Len(waiting') : New(j, e)' => New(was(j), e) /\ was(j) \in 1 .. Len(waiting)
      BY <3>5, <3>7, <3>8 DEF New
    <3>13. Apart(e)'
      BY <2>1, <3>10, SMT, SMTT(30) DEF Once, Apart
    <3>14. \A i, j \in 1 .. Len(waiting) : New(i, e) /\ New(j, e) => i = j
      BY <3>10 DEF Once, NewOnce
    <3>15. \A i, j \in 1 .. Len(waiting') : New(i, e)' /\ New(j, e)' => i = j
      BY <3>6, <3>12, <3>14
    <3> QED BY <2>1, <3>9, <3>10, <3>11, <3>12, <3>13, <3>15, OnceKept
  <2> QED BY <2>2, <2>3
<1>12. NsAppend => OnceInv'
  <2> SUFFICES ASSUME NsAppend PROVE OnceInv'
    OBVIOUS
  <2> DEFINE y == notifier.entry
  <2>0. y \in Unbound /\ y = [ept |-> y.ept, host |-> ANY] /\ notifier.at = "append" /\ y.host = ANY
    BY NotifierCases DEF NsAppend, Unbound
  <2>1. /\ UNCHANGED <<bound, table, epoll, alive, announced, peer>>
        /\ waiting' = Append(waiting, y) /\ notifier' = Resting
    BY DEF NsAppend, remote
  <2>2. \A e \in Ept : fate[e] \subseteq fate'[e]
    BY DEF NsAppend, Befalls
  <2>p. \A e : Pending(e) <=> e = y.ept
    BY <2>0 DEF Pending
  <2>q. \A e : ~Pending(e)'
    BY <2>1, RestingAt DEF Pending
  <2> HIDE DEF y
  <2>3. /\ Len(waiting') = Len(waiting) + 1 /\ Len(waiting) \in Nat
        /\ waiting'[Len(waiting) + 1] = y
        /\ \A i \in 1 .. Len(waiting) : waiting'[i] = waiting[i]
    BY <2>0, <2>1, WaitingTypes, AppendRange, SMT, SMTT(30)
  <2>4. \A i : Waits(i)' => Waits(i) \/ i = Len(waiting) + 1
    BY <2>1, <2>3, SMT, SMTT(30) DEF Waits
  <2>5. \A i : Waits(i)' /\ Waits(i) => waiting'[i] = waiting[i]
    BY <2>3 DEF Waits
  <2>6. ASSUME NEW c \in Client, NEW x \in Binding PROVE Holds(c, x)' => Holds(c, x)
    <3>1. x # y
      BY <2>0 DEF Binding
    <3>2. BeingRestored(c, x)' => BeingRestored(c, x)
      <4> SUFFICES ASSUME BeingRestored(c, x)' PROVE BeingRestored(c, x)
        OBVIOUS
      <4>1. PICK i \in 1 .. Len(waiting') : Waits(i)' /\ waiting'[i] = x
        BY DEF BeingRestored
      <4>2. Waits(i) /\ waiting[i] = x
        BY <2>3, <2>4, <2>5, <3>1, <4>1
      <4>3. i \in 1 .. Len(waiting)
        BY <4>2 DEF Waits
      <4> QED BY <2>1, <4>2, <4>3 DEF BeingRestored
    <3> QED BY <2>1, <3>2, HoldsLess
  <2> SUFFICES ASSUME NEW e \in Ept, "leftover" \notin fate'[e] PROVE Once(e)'
    BY DEF OnceInv
  <2>7. Once(e)
    BY <2>2 DEF OnceInv
  <2>8. Apart(e)'
    BY <2>1, <2>7 DEF Once, Apart
  <2>9. CASE e # y.ept
    <3>1. \A i \in 1 .. Len(waiting') : New(i, e)' => New(i, e) /\ i \in 1 .. Len(waiting)
      <4> SUFFICES ASSUME NEW i \in 1 .. Len(waiting'), New(i, e)'
                   PROVE  New(i, e) /\ i \in 1 .. Len(waiting)
        OBVIOUS
      <4>1. Waits(i)' /\ waiting'[i].ept = e /\ waiting'[i] = [ept |-> e, host |-> ANY]
        BY SMT, SMTT(30) DEF New
      <4>2. Waits(i)
        BY <2>3, <2>4, <2>9, <4>1
      <4> QED BY <2>5, <4>1, <4>2 DEF New, Waits
    <3>2. \A i, j \in 1 .. Len(waiting) : New(i, e) /\ New(j, e) => i = j
      BY <2>7 DEF Once, NewOnce
    <3>3. \A i, j \in 1 .. Len(waiting') : New(i, e)' /\ New(j, e)' => i = j
      BY <3>1, <3>2
    <3> QED BY <2>1, <2>6, <2>7, <2>8, <2>q, <3>1, <3>3, <2>9, OnceKept
  <2>10. CASE e = y.ept
    <3>1. Pending(e) /\ NewOnce(e) /\ HeldOnce(e)
      BY <2>7, <2>10, <2>p DEF Once
    <3>2. e \in announced /\ peer[e] = ANY /\ \A i \in 1 .. Len(waiting) : ~New(i, e)
      BY <3>1 DEF NewOnce
    <3>3. \A i \in 1 .. Len(waiting') : New(i, e)' => i = Len(waiting) + 1
      <4> SUFFICES ASSUME NEW i \in 1 .. Len(waiting'), New(i, e)', Waits(i) PROVE FALSE
        BY <2>4 DEF New
      <4>1. waiting[i] = waiting'[i] /\ i \in 1 .. Len(waiting)
        BY <2>5 DEF New, Waits
      <4> QED BY <3>2, <4>1 DEF New
    <3>4. NewOnce(e)'
      BY <2>1, <2>q, <3>2, <3>3 DEF NewOnce
    <3>5. \A c \in Client, x \in Binding : x.ept = e => ~Holds(c, x)
      BY <3>1 DEF HeldOnce
    <3>6. HeldOnce(e)'
      BY <2>6, <3>5 DEF HeldOnce
    <3> QED BY <2>1, <2>8, <3>2, <3>4, <3>6 DEF Once
  <2> QED BY <2>9, <2>10
<1>13. \A z \in Ept : mica_ns_bind_cb(z) => OnceInv'
  <2> SUFFICES ASSUME NEW z \in Ept, mica_ns_bind_cb(z) PROVE OnceInv'
    OBVIOUS
  <2> DEFINE c == OwnerOf[z]
  <2> DEFINE entry == [ept |-> z, host |-> ANY]
  <2>0. /\ c \in Client /\ entry \in Unbound /\ entry.ept = z /\ entry.host = ANY
        /\ notifier = Resting /\ z \notin announced
    BY RegistryAssumption DEF Unbound, mica_ns_bind_cb
  <2>1. UNCHANGED <<waiting, table, epoll, alive>> /\ announced' = announced \union {z}
    BY DEF mica_ns_bind_cb
  <2>2. \A i : Waits(i)' <=> Waits(i)
    BY <2>1 DEF Waits
  <2>3. \A d \in Client, y \in Binding : BeingRestored(d, y)' => BeingRestored(d, y)
    BY <2>1, <2>2, SameRegistration
  <2>4. \A e : ~Pending(e)
    BY <2>0, RestingAt DEF Pending
  <2>5. \A i, e : New(i, e)' <=> New(i, e)
    BY <2>1, <2>2 DEF New
  <2>6. ASSUME "leftover" \notin fate[z]
        PROVE  /\ Once(z) /\ peer[z] = ANY /\ \A i : ~New(i, z)
               /\ \A d \in Client, y \in Binding : y.ept = z => ~Holds(d, y)
    <3>1. Once(z)
      BY <2>6 DEF OnceInv
    <3>2. peer[z] = ANY /\ NewOnce(z) /\ HeldOnce(z)
      BY <2>0, <3>1 DEF Once
    <3>3. \A d \in Client, y \in Binding : y.ept = z => ~Holds(d, y)
      BY <2>0, <3>2 DEF HeldOnce
    <3>4. \A i : ~New(i, z)
      BY <2>0, <3>2 DEF NewOnce, New, Waits
    <3> QED BY <3>1, <3>2, <3>3, <3>4
  <2>7. CASE KindOf[z] \in services[c]
    <3>1. ns_bind_cb(c, entry) /\ notifier'.at = "update"
      BY <2>7, SMT, SMTT(30) DEF mica_ns_bind_cb
    <3>2. KindOf[entry.ept] \in Range(Kinds)
      BY <2>0, <2>7 DEF RegistryTypeOK
    <3>3. \A e : ~Pending(e)'
      BY <3>1 DEF Pending
    <3> HIDE DEF c, entry
    <3> SUFFICES ASSUME NEW e \in Ept, "leftover" \notin fate'[e] PROVE Once(e)'
      BY DEF OnceInv
    <3>4. CASE Refused(c, entry)
      <4>1. bound' = bound /\ peer' = peer /\ fate[e] \subseteq fate'[e]
        BY <2>0, <3>1, <3>2, <3>4, BindFates DEF Refused
      <4>2. Once(e)
        BY <4>1 DEF OnceInv
      <4>3. Apart(e)' /\ \A i, j \in 1 .. Len(waiting) : New(i, e) /\ New(j, e) => i = j
        BY <4>1, <4>2 DEF Once, Apart, NewOnce
      <4>4. \A d \in Client, y \in Binding : Holds(d, y)' => Holds(d, y)
        BY <2>1, <2>3, <4>1, HoldsLess
      <4> QED BY <2>1, <2>5, <3>3, <4>1, <4>2, <4>3, <4>4, OnceKept
    <3>5. ASSUME NEW x \in Binding, Bound(c, entry, x) PROVE Once(e)'
      <4>1. x.ept = z /\ fate' = fate
        BY <2>0, <3>5 DEF Bound
      <4>2. CASE e # z
        BY <2>0, <2>1, <2>2, <2>3, <3>3, <3>5, <4>1, <4>2, OthersOnce
      <4>3. CASE e = z
        <5>1. peer[z] = ANY /\ \A i : ~New(i, z)
          BY <2>6, <4>1, <4>3
        <5>2. \A d \in Client, y \in Binding : y.ept = z => ~Holds(d, y)
          BY <2>6, <4>1, <4>3
        <5>3. z \in announced'
          BY <2>1
        <5> QED BY <2>0, <2>1, <2>3, <2>5, <3>3, <3>5, <4>1, <4>3, <5>1, <5>2, <5>3, FreshOnce, SMT, SMTT(30)
      <4> QED BY <4>2, <4>3
    <3> QED BY <2>0, <3>1, <3>2, <3>4, <3>5, BindCases
  <2>8. CASE KindOf[z] \notin services[c]
    <3>1. notifier' = [at |-> "append", entry |-> entry] /\ UNCHANGED <<bound, peer, fate>>
      BY <2>8 DEF mica_ns_bind_cb
    <3>2. \A e : Pending(e)' <=> e = z
      BY <2>0, <3>1 DEF Pending
    <3>3. \A d \in Client, y \in Binding : Holds(d, y)' => Holds(d, y)
      BY <2>1, <2>3, <3>1, HoldsLess
    <3> SUFFICES ASSUME NEW e \in Ept, "leftover" \notin fate[e] PROVE Once(e)'
      BY <3>1 DEF OnceInv
    <3>4. Once(e)
      BY DEF OnceInv
    <3>5. Apart(e)' /\ \A i, j \in 1 .. Len(waiting) : New(i, e) /\ New(j, e) => i = j
      BY <3>1, <3>4 DEF Once, Apart, NewOnce
    <3>6. CASE e # z
      BY <2>1, <2>5, <3>1, <3>2, <3>3, <3>4, <3>5, <3>6, OnceKept
    <3>7. CASE e = z
      <4>1. peer'[e] = ANY /\ e \in announced'
        BY <2>1, <2>6, <3>1, <3>7
      <4>2. NewOnce(e)'
        BY <2>5, <2>6, <3>7, <4>1 DEF NewOnce
      <4>3. \A d \in Client, y \in Binding : y.ept = z => ~Holds(d, y)
        BY <2>6, <3>7
      <4>4. HeldOnce(e)'
        BY <3>3, <3>7, <4>3 DEF HeldOnce
      <4> QED BY <3>5, <4>1, <4>2, <4>4 DEF Once
    <3> QED BY <3>6, <3>7
  <2> QED BY <2>7, <2>8
<1>14. Scan => OnceInv'
  <2> SUFFICES ASSUME Scan PROVE OnceInv'
    OBVIOUS
  <2> DEFINE c == epoll.client
  <2> DEFINE p == epoll.pos
  <2> DEFINE entry == waiting[p]
  <2>0. /\ epoll \in Registering /\ c \in Client /\ p \in 1 .. Len(waiting)
        /\ epoll.at = "scan" /\ epoll # Resting
        /\ entry \in Unbound \union Binding /\ epoll.nth \in 1 .. Len(Kinds)
    BY EpollCases, WaitingTypes, RestingAt, SMT, SMTT(30) DEF Scan
  <2>1. UNCHANGED <<waiting, notifier, announced, table, alive>>
    BY DEF Scan
  <2>2. CASE KindOf[entry.ept] = Kinds[epoll.nth]
    <3>1. ns_bind_cb(c, entry) /\ epoll' = [epoll EXCEPT !.at = "update"]
      BY <2>2 DEF Scan
    <3>2. KindOf[entry.ept] \in Range(Kinds)
      BY <2>0, <2>2, KindsSeq
    <3>3. epoll'.at = "update" /\ epoll'.client = c /\ epoll'.pos = p
      BY <2>0, <3>1, MovedAtIs
    <3>4. \A i : Waits(i)' <=> Waits(i) /\ i # p
      BY <2>0, <2>1, <3>3 DEF Waits
    <3>5. Waits(p)
      BY <2>0 DEF Waits
    <3>6. \A d \in Client, y \in Binding : BeingRestored(d, y)' => BeingRestored(d, y)
      BY <2>0, <2>1, <3>3, <3>4, SameRegistration
    <3>7. \A e : Pending(e)' <=> Pending(e)
      BY <2>1 DEF Pending
    <3>8. \A i : \A e : New(i, e)' <=> New(i, e) /\ i # p
      BY <2>1, <3>4 DEF New
    <3>9. entry.host = ANY => New(p, entry.ept)
      BY <2>0, <3>5 DEF New, Unbound, Binding
    <3>10. entry.host # ANY => BeingRestored(c, entry) /\ entry \in Binding
      BY <2>0, <3>5 DEF BeingRestored, Unbound
    <3> HIDE DEF c, entry, p
    <3>11. CASE Refused(c, entry)
      <4>1. bound' = bound /\ peer' = peer /\ \A e \in Ept : fate[e] \subseteq fate'[e]
        BY <2>0, <3>1, <3>2, <3>11, BindFates DEF Refused
      <4>2. \A d \in Client, y \in Binding : Holds(d, y)' => Holds(d, y)
        BY <2>1, <3>6, <4>1, HoldsLess
      <4> QED BY <2>1, <3>4, <4>1, <4>2, OnceFrame
    <3>12. ASSUME NEW x \in Binding, Bound(c, entry, x) PROVE OnceInv'
      <4>1. x.ept = entry.ept /\ x.ept \in Ept /\ fate' = fate /\ (entry.host # ANY => x = entry)
        BY <2>0, <3>12, BoundIs DEF Bound
      <4> SUFFICES ASSUME NEW e \in Ept, "leftover" \notin fate'[e] PROVE Once(e)'
        BY DEF OnceInv
      <4>2. CASE e # x.ept
        BY <2>0, <2>1, <3>4, <3>6, <3>7, <3>12, <4>2, OthersOnce
      <4>3. CASE e = x.ept /\ entry.host = ANY
        <5>1. Once(e) /\ New(p, e)
          BY <3>9, <4>1, <4>3 DEF OnceInv
        <5>2. ~Pending(e) /\ e \in announced /\ peer[e] = ANY
          BY <2>0, <5>1 DEF Once, NewOnce
        <5>3. \A i : ~New(i, e)'
          BY <2>0, <3>8, <5>1 DEF Once, NewOnce, New, Waits
        <5>4. \A d \in Client, y \in Binding : y.ept = e => ~Holds(d, y)
          BY <2>0, <5>1 DEF Once, HeldOnce
        <5> QED BY <2>0, <2>1, <3>6, <3>7, <3>12, <4>3, <5>2, <5>3, <5>4, FreshOnce
      <4>4. CASE e = x.ept /\ entry.host # ANY
        <5>1. x = entry /\ Holds(c, x) /\ Once(e)
          BY <3>10, <4>1, <4>4 DEF Holds, OnceInv
        <5>2. e \in announced
          BY <2>0, <4>4, <5>1 DEF Once, HeldOnce
        <5>3. Bound(c, x, x)
          BY <3>12, <5>1
        <5> QED BY <2>0, <2>1, <3>4, <3>6, <3>7, <4>4, <5>1, <5>2, <5>3, AgainOnce
      <4> QED BY <4>2, <4>3, <4>4
    <3> QED BY <2>0, <3>1, <3>2, <3>11, <3>12, BindCases
  <2>3. CASE KindOf[entry.ept] # Kinds[epoll.nth]
    <3>1. epoll' = [epoll EXCEPT !.pos = p + 1] /\ UNCHANGED <<bound, peer, fate>>
      BY <2>3 DEF Scan
    <3>2. epoll'.at = "scan" /\ epoll'.client = c
      BY <2>0, <3>1, MovedPosIs
    <3>3. \A i : Waits(i)' => Waits(i)
      BY <2>0, <2>1, SameList
    <3>4. \A d \in Client, y \in Binding : BeingRestored(d, y)' => BeingRestored(d, y)
      BY <2>0, <2>1, <3>2, <3>3, SameRegistration
    <3>5. \A d \in Client, y \in Binding : Holds(d, y)' => Holds(d, y)
      BY <2>1, <3>1, <3>4, HoldsLess
    <3> QED BY <2>1, <3>1, <3>3, <3>5, OnceFrame
  <2> QED BY <2>2, <2>3
<1>15. ASSUME NEW c \in Client, StartFresh(c) \/ Restore(c) \/ Stop(c) \/ StopFaults(c)
      PROVE  OnceInv'
  BY <1>15, <1>9, <1>5, <1>7, <1>8 DEF StopFaults
<1>16. ASSUME NEW t \in Actor, rsc_update_ept_table(t) PROVE OnceInv'
  BY <1>16, <1>1, <1>2, <1>3, <1>4,
     <1>11 DEF rsc_update_ept_table
<1>17. ASSUME NEW e \in Ept, mica_ns_bind_cb(e) PROVE OnceInv'
  BY <1>17, <1>13
<1> QED BY <1>15, <1>16, <1>17, <1>10, <1>6, <1>14, <1>12,
        <1>8 DEF RegistryNext


(* One endpoint at a time. *)
LEMMA PeerNext ==
    ASSUME \A e \in Ept : \A x :
               /\ fate'[e] \subseteq {"missed"} /\ peer'[e] # ANY
               /\ x = [ept |-> e, host |-> peer'[e]]
               => Found(OwnerOf[e], x)'
    PROVE  PeerInv'
BY DEF PeerInv, Found

(* An endpoint that has a peer is found with it. *)
LEMMA PeerNow ==
    ASSUME PeerInv, NEW e \in Ept, NEW x, fate[e] \subseteq {"missed"}, peer[e] # ANY,
           x = [ept |-> e, host |-> peer[e]]
    PROVE  Found(OwnerOf[e], x)
BY DEF PeerInv

(* A step that takes no bound endpoint and no restored entry away. *)
LEMMA FoundKept ==
    ASSUME NEW c \in Client, NEW x, Found(c, x), running'[c] = running[c],
           c \in alive' => c \in alive, Range(bound[c]) \subseteq Range(bound'[c]),
           ~running[c] => table'[c] = table[c],
           BeingRestored(c, x) => BeingRestored(c, x)' \/ (running[c] /\ x \in Range(bound'[c])),
           epoll'.at = "restore" /\ epoll'.client = c =>
               /\ epoll.at = "restore" /\ epoll.client = c /\ epoll'.pos = epoll.pos
               /\ ~running[c]
    PROVE  Found(c, x)'
<1>1. running'[c] => x \in Range(bound'[c]) \/ BeingRestored(c, x)'
  BY DEF Found
<1>2. c \in alive' /\ ~running'[c] => x \in Recorded(c)'
  BY DEF Found, Recorded
<1>3. epoll'.at = "restore" /\ epoll'.client = c =>
           \/ BeingRestored(c, x)'
           \/ \E j \in 1 .. MaxEpts :
                 j >= epoll'.pos /\ InTable(c, j)' /\ table'[c].slot[j - 1] = x
  BY DEF Found, InTable
<1> QED BY <1>1, <1>2, <1>3 DEF Found

(* No peer changes and whatever was found still is. *)
LEMMA PeerFrame ==
    ASSUME PeerInv, peer' = peer, \A e \in Ept : fate[e] \subseteq fate'[e],
           \A c \in Client : \A x : Found(c, x) => Found(c, x)'
    PROVE  PeerInv'
<1> SUFFICES ASSUME NEW e \in Ept, NEW x, fate'[e] \subseteq {"missed"}, peer'[e] # ANY,
                    x = [ept |-> e, host |-> peer'[e]]
             PROVE  Found(OwnerOf[e], x)'
  BY PeerNext
<1>1. fate[e] \subseteq {"missed"}
  OBVIOUS
<1>2. Found(OwnerOf[e], x)
  BY <1>1, PeerNow
<1>3. OwnerOf[e] \in Client
  BY RegistryAssumption
<1> QED BY <1>2, <1>3

(* Nothing is being restored when the epoll thread is idle, or for another *)
(* client than the one it is at.                                           *)
LEMMA NotRestored ==
    ASSUME NEW c, NEW x, epoll = Resting \/ epoll.client # c
    PROVE  ~BeingRestored(c, x)
BY DEF BeingRestored

(* No endpoint has a peer in the initial state. *)
LEMMA RegistryInitPeer == RegistryInit => PeerInv
BY DEF RegistryInit, PeerInv, ANY

-----------------------------------------------------------------------------

(* What the remote hears from for the first time is the address bound. *)
LEMMA BindPeer ==
    ASSUME RegistryTypeOK, PeerInv, NEW d \in Client, NEW entry \in Unbound \union Binding,
           KindOf[entry.ept] \in Range(Kinds), ns_bind_cb(d, entry), running[d],
           UNCHANGED <<running, table, alive>>,
           \A c \in Client, x \in [ept : Ept, host : Nat \ {ANY}] : BeingRestored(c, x) =>
               BeingRestored(c, x)' \/ (c = d /\ x = entry),
           epoll'.at = "restore" => epoll' = epoll /\ ~running[epoll.client]
    PROVE  PeerInv'
<1> SUFFICES ASSUME NEW e \in Ept, NEW x, fate'[e] \subseteq {"missed"}, peer'[e] # ANY,
                    x = [ept |-> e, host |-> peer'[e]]
             PROVE  Found(OwnerOf[e], x)'
  BY PeerNext
<1>0. OwnerOf[e] \in Client /\ fate[e] \subseteq {"missed"} /\ entry.ept \in Ept
  BY BindFates, RegistryAssumption DEF Unbound, Binding
<1>1. CASE Refused(d, entry)
  <2>1. peer' = peer /\ bound' = bound /\ entry.ept # e
    BY <1>0, <1>1 DEF Refused, RegistryTypeOK
  <2>2. Found(OwnerOf[e], x)
    BY <1>0, <2>1, PeerNow
  <2>4. x.ept = e /\ peer'[e] \in Nat
    BY <2>1 DEF RegistryTypeOK
  <2>5. x # entry /\ x \in [ept : Ept, host : Nat \ {ANY}]
    BY <2>1, <2>4
  <2>3. BeingRestored(OwnerOf[e], x) => BeingRestored(OwnerOf[e], x)'
    BY <1>0, <2>5
  <2> QED BY <1>0, <2>1, <2>2, <2>3, FoundKept
<1>2. ASSUME NEW y \in Binding, Bound(d, entry, y) PROVE Found(OwnerOf[e], x)'
  <2>0. y \in Range(bound'[d])
    BY <1>2, BoundIs, SMT, SMTT(30)
  <2>1. y \in Range(bound'[d]) /\ y.ept = entry.ept /\ (entry.host # ANY => y = entry)
    BY <1>2, <2>0 DEF Bound
  <2>2. CASE peer'[e] = peer[e]
    <3>1. Found(OwnerOf[e], x) /\ x \in [ept : Ept, host : Nat \ {ANY}] /\ x.host # ANY
      BY <1>0, <2>2, PeerNow DEF RegistryTypeOK
    <3>2. x = entry => x \in Range(bound'[d])
      BY <2>1, <3>1
    <3>3. BeingRestored(OwnerOf[e], x) =>
              BeingRestored(OwnerOf[e], x)' \/ (running[OwnerOf[e]] /\ x \in Range(bound'[OwnerOf[e]]))
      BY <1>0, <3>1, <3>2
    <3>4. Range(bound[OwnerOf[e]]) \subseteq Range(bound'[OwnerOf[e]])
      BY <1>0, <1>2, BoundIs
    <3> QED BY <1>0, <3>1, <3>3, <3>4, FoundKept
  <2>3. CASE peer'[e] # peer[e]
    <3>1. e = y.ept /\ OwnerOf[e] = d /\ peer'[e] = y.host
      BY <1>2, <2>3, BoundIs, SMT, SMTT(30)
    <3>2. x = y
      BY <3>1 DEF Binding
    <3>3. OwnerOf[e] = d /\ x \in Range(bound'[OwnerOf[e]]) /\ running'[OwnerOf[e]]
      BY <2>1, <3>1, <3>2
    <3> QED BY <3>3 DEF Found
  <2> QED BY <2>2, <2>3
<1> QED BY <1>1, <1>2, BindCases

(* Every step keeps the endpoints that have a peer where a restore finds them. *)
LEMMA PeerStep ==
    ASSUME RegistryTypeOK, Lockstep, TableInv, WaitInv, PeerInv, RegistryNext
    PROVE  PeerInv'
<1>1. \A t \in Actor : (UpdateClear(t) \/ UpdateIndex(t) \/ UpdateWrite(t) \/ UpdateStore(t)) => PeerInv'
  <2> SUFFICES ASSUME NEW t \in Actor, UpdateClear(t) \/ UpdateIndex(t) \/ UpdateWrite(t) \/ UpdateStore(t) PROVE PeerInv'
    OBVIOUS
  <2> DEFINE d == update[t].client
  <2>1. UNCHANGED <<running, bound, waiting, epoll, alive, peer, fate>>
    <3>1. CASE UpdateClear(t)
      BY <3>1 DEF UpdateClear, remote
    <3>2. CASE UpdateIndex(t)
      BY <3>2 DEF UpdateIndex, remote, past
    <3>3. CASE UpdateWrite(t)
      BY <3>3 DEF UpdateWrite, remote, past
    <3>4. CASE UpdateStore(t)
      BY <3>4 DEF UpdateStore, remote, past
    <3> QED BY <3>1, <3>2, <3>3, <3>4
  <2>2. update[t] # Resting /\ running[d]
    <3>1. update[t].at \in {"clear", "index", "write", "store"}
      BY DEF UpdateClear, UpdateIndex, UpdateWrite, UpdateStore
    <3>2. update[t] # Resting
      BY <3>1, RestingAt
    <3> QED BY <3>2 DEF Lockstep, UpdatePlace
  <2>3. \A c \in Client \ {d} : table'[c] = table[c]
    <3>1. CASE UpdateClear(t)
      BY <3>1 DEF UpdateClear, RegistryTypeOK
    <3>2. CASE UpdateIndex(t)
      BY <3>2 DEF UpdateIndex
    <3>3. CASE UpdateWrite(t)
      BY <3>3 DEF UpdateWrite, RegistryTypeOK
    <3>4. CASE UpdateStore(t)
      BY <3>4 DEF UpdateStore, RegistryTypeOK
    <3> QED BY <3>1, <3>2, <3>3, <3>4
  <2> HIDE DEF d
  <2>4. ASSUME NEW c \in Client, NEW x, Found(c, x) PROVE Found(c, x)'
    <3>1. BeingRestored(c, x) => BeingRestored(c, x)'
      BY <2>1 DEF BeingRestored, Waits
    <3>2. ~running[c] => table'[c] = table[c]
      BY <2>2, <2>3
    <3>3. epoll.at = "restore" /\ epoll.client = c => ~running[c]
      BY DEF Lockstep, EpollPlace
    <3> QED BY <2>1, <2>4, <3>1, <3>2, <3>3, FoundKept
  <2> QED BY <2>1, <2>4, PeerFrame
(* The entry that was being bound goes; the others stay. *)
<1>2. \A t \in Actor : UpdateEnds(t) => PeerInv'
  <2> SUFFICES ASSUME NEW t \in Actor, UpdateEnds(t) PROVE PeerInv'
    OBVIOUS
  <2>1. /\ UNCHANGED <<running, bound, table, alive, peer>>
        /\ \A e \in Ept : fate[e] \subseteq fate'[e]
    BY DEF UpdateEnds, Befalls, remote
  <2>2. ASSUME NEW c \in Client, NEW x, BeingRestored(c, x) PROVE BeingRestored(c, x)'
    <3>1. CASE t # "epoll"
      <4>1. UNCHANGED <<waiting, epoll>>
        BY <3>1 DEF UpdateEnds
      <4> QED BY <2>2, <4>1 DEF BeingRestored, Waits
    <3>2. CASE t = "epoll"
      <4> DEFINE p == epoll.pos
      <4>0. /\ waiting' = Deleted(waiting, p) /\ epoll' = [epoll EXCEPT !.at = "scan"]
            /\ update["epoll"].at = "index"
        BY <3>2 DEF UpdateEnds
      <4>1. epoll.at = "update"
        BY <4>0, RestingAt DEF Lockstep, EpollPlace
      <4>2. /\ epoll \in Registering /\ p \in 1 .. Len(waiting) /\ Len(waiting) \in Nat
        BY <4>1, EpollCases, WaitingTypes, SMT, SMTT(30) DEF Lockstep, EpollPlace
      <4>3. epoll'.at = "scan" /\ epoll'.client = epoll.client /\ epoll' # Resting
        BY <4>0, <4>2, MovedAtIs
      <4>4. /\ Len(waiting') = Len(waiting) - 1
            /\ \A j \in 1 .. Len(waiting) - 1 :
                  waiting'[j] = IF j < p THEN waiting[j] ELSE waiting[j + 1]
        <5> HIDE DEF p
        <5> QED BY <4>0, <4>2, WaitingTypes, DeletedIs
      <4>5. epoll.client = c
        BY <2>2 DEF BeingRestored
      <4>6. PICK i \in 1 .. Len(waiting) : i # p /\ waiting[i] = x
        BY <2>2, <4>1 DEF BeingRestored, Waits
      <4>7. PICK j \in 1 .. Len(waiting') : waiting'[j] = x
        <5>1. CASE i < p
          BY <4>2, <4>4, <4>6, <5>1, SMT, SMTT(30)
        <5>2. CASE i > p
          <6>1. i - 1 \in 1 .. Len(waiting) - 1 /\ ~(i - 1 < p) /\ i - 1 + 1 = i
            BY <4>2, <5>2, SMT, SMTT(30)
          <6> QED BY <4>4, <4>6, <6>1
        <5> QED BY <4>2, <4>6, <5>1, <5>2, SMT, SMTT(30)
      <4>8. Waits(j)'
        BY <4>3 DEF Waits
      <4> QED BY <4>3, <4>5, <4>7, <4>8 DEF BeingRestored
    <3> QED BY <3>1, <3>2
  <2>3. epoll'.at = "restore" => epoll' = epoll
    <3>1. CASE t # "epoll"
      BY <3>1 DEF UpdateEnds
    <3>2. CASE t = "epoll"
      <4>1. epoll' = [epoll EXCEPT !.at = "scan"] /\ update["epoll"].at = "index"
        BY <3>2 DEF UpdateEnds
      <4>2. epoll.at = "update"
        BY <4>1, RestingAt DEF Lockstep, EpollPlace
      <4>3. epoll \in Registering
        BY <4>2, EpollCases
      <4> QED BY <4>1, <4>3, MovedAtIs
    <3> QED BY <3>1, <3>2
  <2>4. ASSUME NEW c \in Client, NEW x, Found(c, x) PROVE Found(c, x)'
    <3>1. epoll.at = "restore" /\ epoll.client = c => ~running[c]
      BY DEF Lockstep, EpollPlace
    <3> QED BY <2>1, <2>2, <2>3, <2>4, <3>1, FoundKept
  <2> QED BY <2>1, <2>4, PeerFrame
(* Its own endpoints forget their peers. *)
<1>3. \A d \in Client : StartFresh(d) => PeerInv'
  <2> SUFFICES ASSUME NEW d \in Client, StartFresh(d) PROVE PeerInv'
    OBVIOUS
  <2>1. /\ epoll = Resting /\ bound' = bound /\ alive' = alive \union {d}
        /\ peer' = [e \in Ept |-> IF OwnerOf[e] = d THEN ANY ELSE peer[e]]
        /\ epoll' = Scanning(d, 1)
    BY DEF StartFresh
  <2>2. \A e \in Ept : OwnerOf[e] # d => fate'[e] = fate[e]
    BY DEF StartFresh
  <2>3. \A c \in Client \ {d} : running'[c] = running[c] /\ table'[c] = table[c]
    BY DEF StartFresh, RegistryTypeOK
  <2>4. epoll'.at = "scan"
    BY <2>1, ScanningIs
  <2> SUFFICES ASSUME NEW e \in Ept, NEW x, fate'[e] \subseteq {"missed"}, peer'[e] # ANY,
                      x = [ept |-> e, host |-> peer'[e]]
               PROVE  Found(OwnerOf[e], x)'
    BY PeerNext
  <2>5. OwnerOf[e] \in Client \ {d} /\ peer'[e] = peer[e]
    BY <2>1, RegistryAssumption
  <2>6. Found(OwnerOf[e], x)
    BY <2>2, <2>5, PeerNow
  <2>7. ~BeingRestored(OwnerOf[e], x)
    BY <2>1, NotRestored
  <2> QED BY <2>1, <2>3, <2>4, <2>5, <2>6, <2>7, FoundKept
(* All that is recorded is ahead of the walk through the table. *)
<1>4. \A d \in Client : Restore(d) => PeerInv'
  <2> SUFFICES ASSUME NEW d \in Client, Restore(d) PROVE PeerInv'
    OBVIOUS
  <2>1. /\ UNCHANGED <<running, bound, table, alive, peer, fate>>
        /\ epoll = Resting /\ ~running[d] /\ d \in alive
        /\ epoll' = [at |-> "restore", client |-> d, nth |-> 1, pos |-> 1]
    BY DEF Restore, remote, past
  <2>2. epoll'.client = d /\ epoll'.pos = 1
    BY <2>1
  <2>3. ASSUME NEW c \in Client, NEW x, Found(c, x) PROVE Found(c, x)'
    <3>1. ~BeingRestored(c, x)
      BY <2>1, NotRestored
    <3>2. CASE c # d
      BY <2>1, <2>2, <2>3, <3>1, <3>2, FoundKept
    <3>3. CASE c = d
      <4>1. x \in Recorded(c)
        BY <2>1, <2>3, <3>3 DEF Found
      <4>2. PICK n \in 0 .. MaxEpts - 1 : n < table[c].num /\ table[c].slot[n] = x
        BY <4>1 DEF Recorded
      <4>3. n + 1 \in 1 .. MaxEpts /\ n + 1 >= 1 /\ InTable(c, n + 1) /\ n + 1 - 1 = n
        <5>1. table[c].num \in Nat /\ MaxEpts \in Nat
          BY TableTypes, RegistryAssumption
        <5> QED BY <4>2, <5>1, SMT, SMTT(30) DEF InTable
      <4>4. \E j \in 1 .. MaxEpts : j >= 1 /\ InTable(c, j) /\ table[c].slot[j - 1] = x
        BY <4>2, <4>3, SMT, SMTT(30)
      <4>5. x \in Recorded(c)'
        BY <2>1, <4>1 DEF Recorded
      <4>6. \A j : InTable(c, j)' <=> InTable(c, j)
        BY <2>1 DEF InTable
      <4> QED BY <2>1, <2>2, <3>3, <4>4, <4>5, <4>6 DEF Found
    <3> QED BY <3>2, <3>3
  <2> QED BY <2>1, <2>3, PeerFrame
(* An entry that the walk leaves behind is on the list. *)
<1>5. handle_mica_rsc => PeerInv'
  <2> SUFFICES ASSUME handle_mica_rsc PROVE PeerInv'
    OBVIOUS
  <2> DEFINE d == epoll.client
  <2> DEFINE p == epoll.pos
  <2> DEFINE entry == table[d].slot[p - 1]
  <2>0. /\ epoll \in Registering /\ epoll # Resting /\ d \in Client /\ p \in Nat \ {0}
        /\ epoll.at = "restore" /\ ~running[d] /\ d \in alive
    BY EpollCases, RestingAt DEF handle_mica_rsc, Lockstep, EpollPlace
  <2>1. /\ UNCHANGED <<running, bound, table, alive, peer, fate>>
        /\ waiting' = IF entry = Empty THEN waiting ELSE Append(waiting, entry)
        /\ epoll' = [epoll EXCEPT !.pos = p + 1]
    BY DEF handle_mica_rsc, remote, past
  <2>2. epoll' # Resting /\ epoll'.at = "restore" /\ epoll'.client = d /\ epoll'.pos = p + 1
    BY <2>0, <2>1, MovedPosIs
  <2> HIDE DEF d, p, entry
  <2>3. /\ Len(waiting) \in Nat /\ Len(waiting') >= Len(waiting)
        /\ \A i \in 1 .. Len(waiting) : waiting'[i] = waiting[i]
        /\ entry # Empty => Len(waiting') = Len(waiting) + 1 /\ waiting'[Len(waiting) + 1] = entry
    BY <2>1, WaitingTypes, SMT, SMTT(30)
  <2>4. \A i : Waits(i)' <=> i \in 1 .. Len(waiting')
    BY <2>2 DEF Waits
  <2> SUFFICES ASSUME NEW e \in Ept, NEW x, fate'[e] \subseteq {"missed"}, peer'[e] # ANY,
                      x = [ept |-> e, host |-> peer'[e]]
               PROVE  Found(OwnerOf[e], x)'
    BY PeerNext
  <2> DEFINE c == OwnerOf[e]
  <2>5. c \in Client /\ Found(c, x) /\ x # Empty
    <3>1. c \in Client /\ e # "none"
      BY RegistryAssumption
    <3>2. Found(c, x)
      BY <2>1, PeerNow
    <3>3. x.ept = e /\ Empty.ept = "none"
      BY DEF Empty
    <3> QED BY <3>1, <3>2, <3>3
  <2> HIDE DEF c
  <2>6. BeingRestored(c, x) => BeingRestored(c, x)'
    <3> SUFFICES ASSUME BeingRestored(c, x) PROVE BeingRestored(c, x)'
      OBVIOUS
    <3>1. PICK i \in 1 .. Len(waiting) : waiting[i] = x
      BY DEF BeingRestored
    <3>2. i \in 1 .. Len(waiting') /\ waiting'[i] = x
      BY <2>3, <3>1, SMT, SMTT(30)
    <3> QED BY <2>2, <2>4, <3>2 DEF BeingRestored, d
  <2>7. CASE c # d
    <3>1. Found(c, x)'
      BY <2>1, <2>2, <2>5, <2>6, <2>7, FoundKept
    <3> QED BY <3>1 DEF c
  <2>8. CASE c = d
    <3>1. x \in Recorded(c)'
      BY <2>0, <2>1, <2>5, <2>8 DEF Found, Recorded
    <3>2. ASSUME NEW j \in 1 .. MaxEpts, j >= p, InTable(c, j), table[c].slot[j - 1] = x
          PROVE  \/ BeingRestored(c, x)'
                 \/ j >= p + 1 /\ InTable(c, j)' /\ table'[c].slot[j - 1] = x
      <4>1. CASE j = p
        <5>1. entry = x
          BY <2>8, <3>2, <4>1 DEF entry
        <5>2. Len(waiting) + 1 \in 1 .. Len(waiting') /\ waiting'[Len(waiting) + 1] = x
          BY <2>3, <2>5, <5>1, SMT, SMTT(30)
        <5> QED BY <2>2, <2>4, <2>8, <5>2 DEF BeingRestored
      <4>2. CASE j # p
        <5>1. j >= p + 1
          BY <2>0, <3>2, <4>2, SMT, SMTT(30)
        <5> QED BY <2>1, <3>2, <5>1 DEF InTable
      <4> QED BY <4>1, <4>2
    <3>3. \/ BeingRestored(c, x)
          \/ \E j \in 1 .. MaxEpts : j >= p /\ InTable(c, j) /\ table[c].slot[j - 1] = x
      BY <2>0, <2>5, <2>8 DEF Found, d, p
    <3>4. \/ BeingRestored(c, x)'
          \/ \E j \in 1 .. MaxEpts :
                j >= epoll'.pos /\ InTable(c, j)' /\ table'[c].slot[j - 1] = x
      BY <2>2, <2>6, <3>2, <3>3
    <3> QED BY <2>0, <2>1, <2>8, <3>1, <3>4 DEF Found, c
  <2> QED BY <2>7, <2>8
(* After the walk, all of it is on the list. *)
<1>6. RestoreEnds => PeerInv'
  <2> SUFFICES ASSUME RestoreEnds PROVE PeerInv'
    OBVIOUS
  <2> DEFINE d == epoll.client
  <2>0. epoll # Resting /\ d \in Client /\ epoll.pos \in Nat /\ epoll.at = "restore"
    BY EpollCases, RestingAt DEF RestoreEnds
  <2>1. /\ UNCHANGED <<waiting, bound, table, alive, peer, fate>> /\ ~InTable(d, epoll.pos)
        /\ running' = [running EXCEPT ![d] = TRUE] /\ epoll' = Scanning(d, 1)
    BY DEF RestoreEnds, remote, past
  <2>2. epoll' # Resting /\ epoll'.at = "scan" /\ epoll'.client = d
    BY <2>1, ScanningIs
  <2>3. running'[d] /\ \A c \in Client \ {d} : running'[c] = running[c]
    BY <2>0, <2>1 DEF RegistryTypeOK
  <2>4. \A x : BeingRestored(d, x) => BeingRestored(d, x)'
    BY <2>0, <2>1, <2>2 DEF BeingRestored, Waits
  <2>5. ASSUME NEW c \in Client, NEW x, Found(c, x) PROVE Found(c, x)'
    <3>1. CASE c # d
      <4>1. ~BeingRestored(c, x)
        BY <3>1, NotRestored
      <4> QED BY <2>1, <2>2, <2>3, <2>5, <3>1, <4>1, FoundKept
    <3>2. CASE c = d
      <4>1. ASSUME NEW j \in 1 .. MaxEpts, j >= epoll.pos, InTable(c, j) PROVE FALSE
        <5>1. j <= table[d].num /\ j <= MaxEpts /\ table[d].num \in Nat /\ MaxEpts \in Nat
          BY <2>0, <3>2, <4>1, TableTypes, RegistryAssumption DEF InTable
        <5>2. ~(epoll.pos <= table[d].num /\ epoll.pos <= MaxEpts)
          BY <2>1 DEF InTable
        <5> HIDE DEF d
        <5> QED BY <2>0, <4>1, <5>1, <5>2, SMT, SMTT(30)
      <4>2. BeingRestored(c, x)
        BY <2>0, <2>5, <3>2, <4>1 DEF Found
      <4> QED BY <2>2, <2>3, <2>4, <3>2, <4>2 DEF Found
    <3> QED BY <3>1, <3>2
  <2> QED BY <2>1, <2>5, PeerFrame
(* The last service is registered: no restored entry is left to bind. *)
<1>7. (ScanEnds \/ AddService) => PeerInv'
  <2> SUFFICES ASSUME ScanEnds \/ AddService PROVE PeerInv'
    OBVIOUS
  <2>0. /\ epoll \in Registering /\ epoll # Resting /\ epoll.nth \in 1 .. Len(Kinds)
        /\ epoll.at # "update" /\ (AddService => epoll.at = "add")
    BY EpollCases, RestingAt DEF ScanEnds, AddService
  <2>1. UNCHANGED <<running, waiting, bound, table, alive, peer, fate>>
    BY DEF ScanEnds, AddService, remote, past
  <2>2. CASE AddService /\ epoll.nth = Len(Kinds)
    <3>1. epoll' = Resting /\ epoll.at = "add"
      BY <2>2 DEF AddService
    <3> SUFFICES ASSUME NEW e \in Ept, NEW x, fate'[e] \subseteq {"missed"}, peer'[e] # ANY,
                        x = [ept |-> e, host |-> peer'[e]]
                 PROVE  Found(OwnerOf[e], x)'
      BY PeerNext
    <3>2. OwnerOf[e] \in Client /\ Found(OwnerOf[e], x)
      BY <2>1, PeerNow, RegistryAssumption
    <3>3. ~BeingRestored(OwnerOf[e], x)
      <4> SUFFICES ASSUME NEW i \in 1 .. Len(waiting), waiting[i] = x PROVE FALSE
        BY DEF BeingRestored
      <4>1. waiting[i].host # ANY
        BY <2>1, SMT, SMTT(30)
      <4>2. Due(i)
        BY <4>1 DEF WaitInv, WaitsWell
      <4>3. ~\E n \in epoll.nth + 1 .. Len(Kinds) : TRUE
        BY <2>0, <2>2, SMT, SMTT(30)
      <4> QED BY <3>1, <4>2, <4>3 DEF Due
    <3> QED BY <2>1, <3>1, <3>2, <3>3, RestingAt, FoundKept
  <2>3. CASE ~(AddService /\ epoll.nth = Len(Kinds))
    <3>1. epoll' # Resting /\ epoll'.client = epoll.client /\ epoll'.at \in {"scan", "add"}
      <4>1. CASE ScanEnds
        <5>1. epoll' = [epoll EXCEPT !.at = "add"]
          BY <4>1 DEF ScanEnds
        <5> QED BY <2>0, <5>1, MovedAtIs
      <4>2. CASE AddService
        <5>1. epoll' = Scanning(epoll.client, epoll.nth + 1)
          BY <2>3, <4>2 DEF AddService
        <5> QED BY <5>1, ScanningIs
      <4> QED BY <4>1, <4>2
    <3>2. \A c, x : BeingRestored(c, x) => BeingRestored(c, x)'
      BY <2>1, <3>1 DEF BeingRestored, Waits
    <3>3. ASSUME NEW c \in Client, NEW x, Found(c, x) PROVE Found(c, x)'
      BY <2>1, <3>1, <3>2, <3>3, FoundKept
    <3> QED BY <2>1, <3>3, PeerFrame
  <2> QED BY <2>2, <2>3
<1>8. Scan => PeerInv'
  <2> SUFFICES ASSUME Scan PROVE PeerInv'
    OBVIOUS
  <2> DEFINE d == epoll.client
  <2> DEFINE p == epoll.pos
  <2> DEFINE entry == waiting[p]
  <2>0. /\ epoll \in Registering /\ epoll # Resting /\ d \in Client /\ p \in 1 .. Len(waiting)
        /\ epoll.at = "scan" /\ running[d]
        /\ entry \in Unbound \union Binding /\ epoll.nth \in 1 .. Len(Kinds)
    BY EpollCases, WaitingTypes, RestingAt, SMT, SMTT(30) DEF Scan, Lockstep, EpollPlace
  <2>1. UNCHANGED <<running, waiting, table, alive>>
    BY DEF Scan
  <2>2. CASE KindOf[entry.ept] = Kinds[epoll.nth]
    <3>1. ns_bind_cb(d, entry) /\ epoll' = [epoll EXCEPT !.at = "update"]
      BY <2>2 DEF Scan
    <3>2. KindOf[entry.ept] \in Range(Kinds)
      BY <2>0, <2>2, KindsSeq
    <3>3. epoll' # Resting /\ epoll'.at = "update" /\ epoll'.client = d /\ epoll'.pos = p
      BY <2>0, <3>1, MovedAtIs
    <3>4. \A c, x : BeingRestored(c, x) => BeingRestored(c, x)' \/ (c = d /\ x = entry)
      BY <2>1, <3>3 DEF BeingRestored, Waits
    <3> HIDE DEF d, p, entry
    <3> QED BY <2>0, <2>1, <3>1, <3>2, <3>3, <3>4, BindPeer
  <2>3. CASE KindOf[entry.ept] # Kinds[epoll.nth]
    <3>1. epoll' = [epoll EXCEPT !.pos = p + 1] /\ UNCHANGED <<bound, peer, fate>>
      BY <2>3 DEF Scan
    <3>2. epoll' # Resting /\ epoll'.at = "scan" /\ epoll'.client = d
      BY <2>0, <3>1, MovedPosIs
    <3>3. \A c, x : BeingRestored(c, x) => BeingRestored(c, x)'
      BY <2>0, <2>1, <3>2 DEF BeingRestored, Waits
    <3>4. ASSUME NEW c \in Client, NEW x, Found(c, x) PROVE Found(c, x)'
      BY <2>1, <3>1, <3>2, <3>3, <3>4, FoundKept
    <3> QED BY <3>1, <3>4, PeerFrame
  <2> QED BY <2>2, <2>3
<1>9. \A z \in Ept : mica_ns_bind_cb(z) => PeerInv'
  <2> SUFFICES ASSUME NEW z \in Ept, mica_ns_bind_cb(z) PROVE PeerInv'
    OBVIOUS
  <2> DEFINE d == OwnerOf[z]
  <2> DEFINE entry == [ept |-> z, host |-> ANY]
  <2>0. d \in Client /\ running[d] /\ entry \in Unbound /\ entry.ept = z
    BY RegistryAssumption DEF Unbound, mica_ns_bind_cb
  <2>1. UNCHANGED <<running, waiting, table, epoll, alive>>
    BY DEF mica_ns_bind_cb
  <2>2. \A c, x : BeingRestored(c, x) => BeingRestored(c, x)'
    BY <2>1 DEF BeingRestored, Waits
  <2>3. epoll.at = "restore" => ~running[epoll.client]
    BY DEF Lockstep, EpollPlace
  <2>4. CASE KindOf[z] \in services[d]
    <3>1. ns_bind_cb(d, entry)
      BY <2>4 DEF mica_ns_bind_cb
    <3>2. KindOf[entry.ept] \in Range(Kinds)
      BY <2>0, <2>4 DEF RegistryTypeOK
    <3> HIDE DEF d, entry
    <3> QED BY <2>0, <2>1, <2>2, <2>3, <3>1, <3>2, BindPeer
  <2>5. CASE KindOf[z] \notin services[d]
    <3>1. UNCHANGED <<bound, peer, fate>>
      BY <2>5 DEF mica_ns_bind_cb
    <3>2. ASSUME NEW c \in Client, NEW x, Found(c, x) PROVE Found(c, x)'
      BY <2>1, <2>2, <2>3, <3>1, <3>2, FoundKept
    <3> QED BY <3>1, <3>2, PeerFrame
  <2> QED BY <2>4, <2>5
<1>10. NsAppend => PeerInv'
  <2> SUFFICES ASSUME NsAppend PROVE PeerInv'
    OBVIOUS
  <2>1. /\ UNCHANGED <<running, bound, table, epoll, alive, peer>>
        /\ waiting' = Append(waiting, notifier.entry)
        /\ \A e \in Ept : fate[e] \subseteq fate'[e]
    BY DEF NsAppend, Befalls, remote
  <2>2. /\ Len(waiting) \in Nat /\ Len(waiting') = Len(waiting) + 1
        /\ \A i \in 1 .. Len(waiting) : waiting'[i] = waiting[i]
    BY <2>1, WaitingTypes, SMT, SMTT(30)
  <2>3. \A i : Waits(i) => Waits(i)' /\ waiting'[i] = waiting[i]
    BY <2>1, <2>2, SMT, SMTT(30) DEF Waits
  <2>4. \A c, x : BeingRestored(c, x) => BeingRestored(c, x)'
    <3> SUFFICES ASSUME NEW c, NEW x, BeingRestored(c, x) PROVE BeingRestored(c, x)'
      OBVIOUS
    <3>1. PICK i \in 1 .. Len(waiting) : Waits(i) /\ waiting[i] = x
      BY DEF BeingRestored
    <3>2. i \in 1 .. Len(waiting') /\ Waits(i)' /\ waiting'[i] = x
      BY <2>2, <2>3, <3>1, SMT, SMTT(30)
    <3> QED BY <2>1, <3>2 DEF BeingRestored
  <2>5. epoll.at = "restore" => ~running[epoll.client]
    BY DEF Lockstep, EpollPlace
  <2>6. ASSUME NEW c \in Client, NEW x, Found(c, x) PROVE Found(c, x)'
    BY <2>1, <2>4, <2>5, <2>6, FoundKept
  <2> QED BY <2>1, <2>6, PeerFrame
<1>11. \A d \in Client : Stop(d) => PeerInv'
  <2> SUFFICES ASSUME NEW d \in Client, Stop(d) PROVE PeerInv'
    OBVIOUS
  <2>1. /\ UNCHANGED <<waiting, table, epoll, peer, fate>> /\ epoll = Resting
        /\ alive' = alive \ {d}
    BY DEF Stop, past
  <2>2. ~running'[d] /\ \A c \in Client \ {d} : running'[c] = running[c] /\ bound'[c] = bound[c]
    BY DEF Stop, RegistryTypeOK
  <2>3. ASSUME NEW c \in Client, NEW x, Found(c, x) PROVE Found(c, x)'
    <3>1. CASE c = d
      BY <2>1, <2>2, <3>1, RestingAt DEF Found
    <3>2. CASE c # d
      <4>1. ~BeingRestored(c, x)
        BY <2>1, NotRestored
      <4> QED BY <2>1, <2>2, <2>3, <3>2, <4>1, RestingAt, FoundKept
    <3> QED BY <3>1, <3>2
  <2> QED BY <2>1, <2>3, PeerFrame
(* A table that no update was rewriting lists all that was bound. *)
<1>12. Crash => PeerInv'
  <2> SUFFICES ASSUME Crash PROVE PeerInv'
    OBVIOUS
  <2>1. /\ UNCHANGED <<table, alive, peer>> /\ epoll' = Resting
        /\ \A c \in Client : ~running'[c]
    BY DEF Crash, remote
  <2> SUFFICES ASSUME NEW e \in Ept, NEW x, fate'[e] \subseteq {"missed"}, peer'[e] # ANY,
                      x = [ept |-> e, host |-> peer'[e]]
               PROVE  Found(OwnerOf[e], x)'
    BY PeerNext
  <2> DEFINE c == OwnerOf[e]
  <2>2. /\ c \in Client /\ c \notin raced /\ fate[e] \subseteq {"missed"}
        /\ AllRest \/ ~Unrecorded(e)
    <3>1. fate'[e] = fate[e]
             \union (IF c \in raced THEN {"raced"} ELSE {})
             \union (IF AllRest \/ ~Unrecorded(e) THEN {}
                     ELSE IF BeingBound(e) THEN {"new"} ELSE {"torn"})
      BY DEF Crash
    <3>2. c \in raced => "raced" \in fate'[e]
      BY <3>1
    <3>3. ~(AllRest \/ ~Unrecorded(e)) => "new" \in fate'[e] \/ "torn" \in fate'[e]
      BY <3>1
    <3>4. "raced" # "missed" /\ "new" # "missed" /\ "torn" # "missed"
      OBVIOUS
    <3> QED BY <3>1, <3>2, <3>3, <3>4, RegistryAssumption
  <2>3. Found(c, x)
    BY <2>1, <2>2, PeerNow
  <2>4. ASSUME c \in alive PROVE x \in Recorded(c)
    <3>1. CASE ~Unrecorded(e)
      BY <2>1, <3>1 DEF Unrecorded
    <3>2. CASE AllRest /\ ~running[c]
      BY <2>3, <2>4, <3>2 DEF Found
    <3>3. CASE AllRest /\ running[c]
      <4>1. ~BeingRestored(c, x)
        BY <3>3, NotRestored DEF AllRest
      <4>2. x \in Range(bound[c])
        BY <2>3, <3>3, <4>1 DEF Found
      <4>3. PICK j \in 1 .. Len(bound[c]) : bound[c][j] = x
        BY <2>2, <4>2, BoundTypes, SMT, SMTT(30) DEF Range
      <4>4. \A t \in Actor : update[t] = Resting
        BY <3>3, TwoActors, RestingAt DEF AllRest, Lockstep, EpollPlace
      <4>5. AllWritten(c)
        BY <2>2, <3>3, <4>4 DEF TableInv, InTheTable, Updating
      <4>6. x.ept = e
        OBVIOUS
      <4>7. InTable(c, j) /\ table[c].slot[j - 1] = x
        BY <2>2, <4>3, <4>5, <4>6 DEF AllWritten
      <4>8. j - 1 \in 0 .. MaxEpts - 1 /\ j - 1 < table[c].num
        <5>1. table[c].num \in Nat /\ MaxEpts \in Nat /\ Len(bound[c]) \in Nat
          BY <2>2, TableTypes, BoundTypes, RegistryAssumption
        <5> HIDE DEF c
        <5> QED BY <4>7, <5>1, SMT, SMTT(30) DEF InTable
      <4>9. x # Empty
        <5>1. Empty.ept = "none" /\ "none" \notin Ept
          BY RegistryAssumption DEF Empty
        <5> QED BY <4>6, <5>1
      <4> QED BY <4>7, <4>8, <4>9 DEF Recorded
    <3> QED BY <2>2, <3>1, <3>2, <3>3
  <2>5. c \in alive' => x \in Recorded(c)'
    BY <2>1, <2>4 DEF Recorded
  <2> QED BY <2>1, <2>2, <2>5, RestingAt DEF Found
<1>13. ASSUME NEW c \in Client, StartFresh(c) \/ Restore(c) \/ Stop(c) \/ StopFaults(c)
      PROVE  PeerInv'
  BY <1>13, <1>3, <1>4, <1>11, <1>12 DEF StopFaults
<1>14. ASSUME NEW t \in Actor, rsc_update_ept_table(t) PROVE PeerInv'
  BY <1>14, <1>1, <1>2 DEF rsc_update_ept_table
<1>15. ASSUME NEW e \in Ept, mica_ns_bind_cb(e) PROVE PeerInv'
  BY <1>15, <1>9
<1> QED BY <1>13, <1>14, <1>15, <1>5, <1>6, <1>7, <1>8,
        <1>10, <1>12 DEF RegistryNext

-----------------------------------------------------------------------------
(* The six parts of the invariant, together. *)
LEMMA RegistryInitInv == RegistryInit => RegistryInv
BY RegistryInitTypes, RegistryInitLockstep, RegistryInitTable, RegistryInitWait,
   RegistryInitOnce, RegistryInitPeer DEF RegistryInv

(* A stuttering step keeps the invariant. *)
LEMMA RegistryStutters ==
    ASSUME RegistryInv, UNCHANGED registryVars
    PROVE  RegistryInv'
<1>1. UNCHANGED <<running, services, waiting, bound, epoll, notifier, update, table, alive,
                  announced, peer, raced, fate>>
  BY DEF registryVars, host, remote, past
<1>2. RegistryTypeOK'
  BY <1>1 DEF RegistryInv, RegistryTypeOK
<1>3. Lockstep'
  BY <1>1 DEF RegistryInv, Lockstep, EpollPlace, UpdatePlace, ClientPlace
<1>4. TableInv'
  BY <1>1, TableFrame DEF RegistryInv
<1>5. WaitInv'
  BY <1>1, WaitFrame DEF RegistryInv
<1>6. \A i : Waits(i)' <=> Waits(i)
  BY <1>1 DEF Waits
<1>7. \A c, x : BeingRestored(c, x)' <=> BeingRestored(c, x)
  BY <1>1, <1>6 DEF BeingRestored
<1>8. \A c \in Client, x \in Binding : Holds(c, x)' => Holds(c, x)
  BY <1>1, <1>7, HoldsLess
<1>9. OnceInv'
  BY <1>1, <1>6, <1>8, OnceFrame DEF RegistryInv
<1>10. ASSUME NEW c \in Client, NEW x, Found(c, x) PROVE Found(c, x)'
  <2>1. epoll.at = "restore" /\ epoll.client = c => ~running[c]
    BY DEF RegistryInv, Lockstep, EpollPlace
  <2> QED BY <1>1, <1>7, <1>10, <2>1, FoundKept
<1>11. PeerInv'
  BY <1>1, <1>10, PeerFrame DEF RegistryInv
<1> QED BY <1>2, <1>3, <1>4, <1>5, <1>9, <1>11 DEF RegistryInv

(* Every step keeps the inductive invariant. *)
LEMMA RegistryInvStep ==
    ASSUME RegistryInv, [RegistryNext]_registryVars
    PROVE  RegistryInv'
<1>1. CASE RegistryNext
  <2>1. RegistryTypeOK /\ Lockstep /\ TableInv /\ WaitInv /\ OnceInv /\ PeerInv
    BY DEF RegistryInv
  <2>2. RegistryTypeOK'
    BY <1>1, <2>1, RegistryTypes
  <2>3. Lockstep'
    BY <1>1, <2>1, LockstepStep
  <2>4. TableInv' /\ WaitInv'
    BY <1>1, <2>1, TableStep, WaitStep
  <2>5. OnceInv' /\ PeerInv'
    BY <1>1, <2>1, <2>2, OnceStep, PeerStep
  <2> QED BY <2>2, <2>3, <2>4, <2>5 DEF RegistryInv
<1>2. CASE UNCHANGED registryVars
  BY <1>2, RegistryStutters
<1> QED BY <1>1, <1>2

(* At rest, no update is under way. *)
LEMMA RestIsComplete == RegistryInv => TableComplete
<1> SUFFICES ASSUME RegistryInv, AllRest, NEW c \in Client \ raced, running[c],
                    NEW x \in Range(bound[c])
             PROVE  x \in Recorded(c) \/ table[c].num >= MaxEpts
  BY DEF TableComplete
<1>0. RegistryTypeOK /\ Lockstep /\ TableInv /\ c \in Client
  BY DEF RegistryInv
<1>1. \A t \in Actor : update[t] = Resting
  BY <1>0, TwoActors, RestingAt DEF AllRest, Lockstep, EpollPlace
<1>2. AllWritten(c)
  BY <1>0, <1>1 DEF TableInv, InTheTable, Updating
<1>3. PICK j \in 1 .. Len(bound[c]) : bound[c][j] = x
  BY <1>0, BoundTypes, SMT, SMTT(30) DEF Range
<1>4. x \in Binding
  BY <1>0, <1>3, BoundTypes
<1>5. x # Empty
  <2>1. Empty.ept = "none" /\ "none" \notin Ept /\ x.ept \in Ept
    BY <1>4, RegistryAssumption DEF Empty, Binding
  <2> QED BY <2>1
<1>6. CASE InTable(c, j) /\ table[c].slot[j - 1] = x
  <2>1. table[c].num \in Nat /\ MaxEpts \in Nat /\ Len(bound[c]) \in Nat
    BY <1>0, TableTypes, BoundTypes, RegistryAssumption
  <2>2. j - 1 \in 0 .. MaxEpts - 1 /\ j - 1 < table[c].num
    BY <1>6, <2>1, SMT, SMTT(30) DEF InTable
  <2> QED BY <1>5, <1>6, <2>2 DEF Recorded
<1> QED BY <1>2, <1>3, <1>6 DEF AllWritten

(* An endpoint held at most once is bound at most once. *)
LEMMA HeldIsBoundOnce == RegistryInv => BoundOnce
<1> SUFFICES ASSUME RegistryInv, NEW c \in Client, NEW d \in Client,
                    NEW i \in 1 .. Len(bound[c]), NEW j \in 1 .. Len(bound[d]),
                    bound[c][i].ept = bound[d][j].ept,
                    "leftover" \notin fate[bound[c][i].ept]
             PROVE  c = d /\ i = j
  BY DEF BoundOnce
<1>1. RegistryTypeOK /\ OnceInv
  BY DEF RegistryInv
<1>2. bound[c][i] \in Binding /\ bound[d][j] \in Binding
  BY <1>1, BoundTypes
<1>3. PICK e \in Ept : e = bound[c][i].ept
  BY <1>2 DEF Binding
<1>4. HeldOnce(e) /\ Apart(e)
  BY <1>1, <1>3 DEF OnceInv, Once
<1>5. Holds(c, bound[c][i]) /\ Holds(d, bound[d][j])
  BY <1>1, <1>2, BoundTypes DEF Holds
<1>6. c = d
  BY <1>2, <1>3, <1>4, <1>5 DEF HeldOnce
<1> QED BY <1>3, <1>4, <1>6 DEF Apart

(* An entry due to no service is not stranded when nothing is under way. *)
LEMMA NoneIsStranded == RegistryInv => NotStranded
<1> SUFFICES ASSUME RegistryInv, AllRest, NEW i \in 1 .. Len(waiting),
                    KindOf[waiting[i].ept] \in services[OwnerOf[waiting[i].ept]]
             PROVE  "missed" \in fate[waiting[i].ept]
  BY DEF NotStranded
<1>1. WaitsWell(i) /\ ~Due(i)
  BY NotDue DEF RegistryInv, WaitInv, AllRest
<1> QED BY <1>1 DEF WaitsWell, ScanOver

(* An endpoint found with its peer is restored once nothing is under way. *)
LEMMA FoundIsRestored == RegistryInv => Restored
<1> SUFFICES ASSUME RegistryInv, AllRest, NEW e \in Ept, Lost(e), fate[e] \ {"missed"} = {}
             PROVE  FALSE
  BY DEF Restored
<1> DEFINE x == [ept |-> e, host |-> peer[e]]
<1>1. fate[e] \subseteq {"missed"}
  OBVIOUS
<1>2. running[OwnerOf[e]] /\ peer[e] # ANY /\ x \notin Range(bound[OwnerOf[e]])
  BY DEF Lost
<1>3. Found(OwnerOf[e], x)
  BY <1>1, <1>2 DEF RegistryInv, PeerInv
<1> HIDE DEF x
<1>4. ~BeingRestored(OwnerOf[e], x)
  BY NotRestored DEF AllRest
<1> QED BY <1>2, <1>3, <1>4 DEF Found

(***************************************************************************)
(* The invariant is inductive, for any number of clients, endpoints,       *)
(* kinds of service and slots: what the two threads do to the list, the    *)
(* device and the table, with crashes and restarts at any moment, keeps it *)
(* (rpmsg_service.c:69-160, mica_rsc_table.c:18-80).                       *)
(***************************************************************************)
THEOREM RegistryInductive == RegistrySpec => []RegistryInv
BY RegistryInitInv, RegistryInvStep, PTL DEF RegistrySpec

(***************************************************************************)
(* The registry's variables keep their types.                              *)
(***************************************************************************)
THEOREM RegistryTyped == RegistrySpec => []RegistryTypeOK
<1>1. RegistryInv => RegistryTypeOK
  BY DEF RegistryInv
<1> QED BY <1>1, RegistryInductive, PTL

(***************************************************************************)
(* rsc_update_ept_table() leaves a table that lists all that is bound, or  *)
(* is full, unless two threads rewrote it at the same time.                *)
(***************************************************************************)
THEOREM TableIsComplete == RegistrySpec => []TableComplete
BY RegistryInductive, RestIsComplete, PTL

(***************************************************************************)
(* No endpoint is bound twice, by one client or by two, whether it comes   *)
(* from an announcement, from the list or from the table, except one left  *)
(* over from an earlier start.                                             *)
(***************************************************************************)
THEOREM NoneBoundTwice == RegistrySpec => []BoundOnce
BY RegistryInductive, HeldIsBoundOnce, PTL

(***************************************************************************)
(* No endpoint waits on the list for a service that is registered, except  *)
(* one put there after the service had walked through the list.            *)
(***************************************************************************)
THEOREM NoneStranded == RegistrySpec => []NotStranded
BY RegistryInductive, NoneIsStranded, PTL

(***************************************************************************)
(* After any number of crashes of micad, also in the middle of a recovery, *)
(* every endpoint the remote talks through, and none of the listed fates   *)
(* befell, is bound again to the address the remote knows.                 *)
(***************************************************************************)
THEOREM AllRestored == RegistrySpec => []Restored
BY RegistryInductive, FoundIsRestored, PTL

=============================================================================
