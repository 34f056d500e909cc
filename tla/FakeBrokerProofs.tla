-------------------------- MODULE FakeBrokerProofs --------------------------
(***************************************************************************)
(* Proofs about fake brokers, for any number of them and of their devices: *)
(* every device for which asking did not fail has an address that no other *)
(* such device has, what is sent to an address goes to the broker it was   *)
(* given to, and no command is answered twice, or by another device, which *)
(* counts commands and answers on their way.                               *)
(***************************************************************************)
EXTENDS FakeBroker, FiniteSetTheorems, TLAPS

----------------------------------------------------------------------------
\* Types: packages with addresses that were given out.
PackageBelow(n) == [src : 0 .. n - 1, dst : 0 .. n - 1, kind : Kind]
\* What a broker may have as an address.
Given(n) == (0 .. n - 1) \ {Master, UIAddress}

BrokerOK ==
    /\ pc \in [Broker -> {"ask", "recv ip", "register", "serve"}]
    /\ registered \in [Broker -> 0 .. Devices] /\ ip \in [Broker -> Given(ip_count)]
    /\ ipRequests \in SUBSET Broker /\ ipReplies \in [Broker -> Seq(Given(ip_count) \ {NoAddress})]
    /\ DOMAIN address \in SUBSET (Broker \X Nat) /\ \A x \in DOMAIN address : address[x] \in Given(ip_count)
ManagerOK ==
    /\ ip_count \in Nat /\ ip_count >= 3 /\ down \in Nat
    /\ DOMAIN route \in SUBSET (UIAddress .. ip_count - 1)
QueuesOK ==
    /\ toManager \in [Connection -> Seq(PackageBelow(ip_count))]
    /\ toClient \in [Connection -> Seq(PackageBelow(ip_count))]
    /\ commands \in Seq(Nat) /\ answered \in Seq(PackageBelow(ip_count))
TypeInv == BrokerOK /\ ManagerOK /\ QueuesOK

\* A broker waits for one reply at a time, describes its devices in their order,
\* and has an address for the next one unless asking for it failed.
AskInv == \A b \in Broker :
    /\ b \in ipRequests => pc[b] = "recv ip" /\ ipReplies[b] = <<>>
    /\ ipReplies[b] # <<>> => pc[b] = "recv ip" /\ Len(ipReplies[b]) = 1
    /\ pc[b] # "serve" => registered[b] < Devices
    /\ pc[b] = "register" /\ Current(b) \notin failed => ip[b] # NoAddress
    /\ \A k \in Nat : <<b, k>> \in failed => k <= registered[b] \/ (k = registered[b] + 1 /\ pc[b] = "register")
    /\ \A k \in Nat : <<b, k>> \in DOMAIN address <=> k \in 1 .. registered[b]

\* An address is given to one broker: in a reply or just received it is fresh,
\* and then it is that of a device.  Descriptions and routes are of devices.
Describes(q, k, a) == k \in 1 .. Len(q) /\ q[k].kind = "describe" /\ q[k].src = a
Owns(b, a) == a # NoAddress /\ \E k \in Nat : <<b, k>> \in DOMAIN address /\ address[<<b, k>>] = a
Fresh(b, a) == \/ pc[b] = "register" /\ Current(b) \notin failed /\ ip[b] = a
               \/ ipReplies[b] # <<>> /\ Head(ipReplies[b]) = a
Has(b, a) == Owns(b, a) \/ Fresh(b, a)
GivenInv ==
    /\ \A b, e \in Broker, a \in Nat : Has(b, a) /\ Has(e, a) => b = e
    /\ \A b \in Broker, a \in Nat : Fresh(b, a) => a # NoAddress /\ ~ Owns(b, a)
    /\ \A b \in Broker : ip[b] # NoAddress => Has(b, ip[b])
    /\ \A b \in Broker, k, a \in Nat : Describes(toManager[b], k, a) /\ a # NoAddress => Owns(b, a)
    /\ \A a \in DOMAIN route \ {UIAddress} : Owns(route[a], a)
    /\ \A x, y \in DOMAIN address \ failed : address[x] = address[y] => x = y

\* What is on its way: descriptions, commands of the interface to devices, answers of a
\* broker to them and, once the interface has withdrawn, notices of the manager and their answers.
Device == DOMAIN route \ {UIAddress}
Known(b) == {a \in Device : route[a] = b}
FromBroker(K) == [src : Nat \ {NoAddress, Master, UIAddress}, dst : {Master}, kind : {"describe"}]
                 \cup {Description(NoAddress)} \cup [src : K, dst : {Master, UIAddress}, kind : {"ReadResponse"}]
ToBroker(K) == [src : {Master, UIAddress}, dst : K, kind : Kind]
FromUI(D) == [src : {UIAddress}, dst : D, kind : {"ReadRequest", "Write"}]
             \cup {Package(UIAddress, Master, "Management")}
ToUI(D) == [src : D, dst : {UIAddress}, kind : Kind]
WayInv ==
    /\ \A a \in DOMAIN route : IF a = UIAddress THEN route[a] = UI ELSE route[a] \in Broker
    /\ \A b \in Broker : toManager[b] \in Seq(FromBroker(Known(b))) /\ toClient[b] \in Seq(ToBroker(Known(b)))
    /\ toManager[UI] \in Seq(FromUI(Device)) /\ toClient[UI] \in Seq(ToUI(Device))
    /\ answered \in Seq(ToUI(Device))

\* How many of q are in S; a command to device a is one that was answered, or is on its way, or its answer is.
Count(q, S) == Cardinality({k \in 1 .. Len(q) : q[k] \in S})
From(a) == [src : {a}, dst : Nat, kind : Kind]
Back(a) == [src : {a}, dst : {UIAddress}, kind : Kind]
For(a) == [src : {UIAddress}, dst : {a}, kind : Kind]
TalkInv == \A a \in Device :
    Count(answered, From(a)) + Count(toClient[UI], From(a)) + Count(toManager[route[a]], Back(a))
        + Count(toClient[route[a]], For(a)) + Count(toManager[UI], For(a))
    <= Count(commands, {a})

IInv == TypeInv /\ AskInv /\ GivenInv /\ WayInv /\ TalkInv

----------------------------------------------------------------------------
\* Sequences, and counting in them.

LEMMA Shorter ==
    ASSUME NEW S, NEW q \in Seq(S), q # <<>>
    PROVE  /\ Tail(q) \in Seq(S) /\ Head(q) \in S /\ Head(q) = q[1] /\ 1 \in 1 .. Len(q)
           /\ Len(q) \in Nat \ {0} /\ Len(Tail(q)) = Len(q) - 1
           /\ \A k \in 1 .. Len(Tail(q)) : k + 1 \in 1 .. Len(q) /\ Tail(q)[k] = q[k + 1]
OBVIOUS

LEMMA Longer ==
    ASSUME NEW S, NEW q \in Seq(S), NEW e \in S
    PROVE  /\ Append(q, e) \in Seq(S) /\ Len(q) \in Nat /\ Len(Append(q, e)) = Len(q) + 1
           /\ \A k \in 1 .. Len(q) : Append(q, e)[k] = q[k]
           /\ Append(q, e)[Len(q) + 1] = e /\ Append(q, e) # <<>>
OBVIOUS

LEMMA Wider == ASSUME NEW S, NEW T, S \subseteq T, NEW q \in Seq(S) PROVE q \in Seq(T)
OBVIOUS

LEMMA CountType ==
    ASSUME NEW S, NEW q \in Seq(S), NEW X
    PROVE  IsFiniteSet({k \in 1 .. Len(q) : q[k] \in X}) /\ Count(q, X) \in Nat
<1>1. Len(q) \in Nat
  OBVIOUS
<1>2. IsFiniteSet(1 .. Len(q))
  BY <1>1, FS_Interval
<1>3. {k \in 1 .. Len(q) : q[k] \in X} \in SUBSET (1 .. Len(q))
  OBVIOUS
<1> QED BY <1>2, <1>3, FS_Subset, FS_CardinalityType DEF Count

LEMMA CountNone ==
    ASSUME NEW S, NEW q \in Seq(S), NEW X, \A k \in 1 .. Len(q) : q[k] \notin X
    PROVE  Count(q, X) = 0
<1>1. {k \in 1 .. Len(q) : q[k] \in X} = {}
  OBVIOUS
<1> QED BY <1>1, FS_EmptySet DEF Count

LEMMA CountAppend ==
    ASSUME NEW S, NEW q \in Seq(S), NEW e \in S, NEW X
    PROVE  /\ Count(q, X) \in Nat
           /\ Count(Append(q, e), X) = IF e \in X THEN Count(q, X) + 1 ELSE Count(q, X)
<1> DEFINE C == {k \in 1 .. Len(q) : q[k] \in X}
           l == Append(q, e)
           D == {k \in 1 .. Len(l) : l[k] \in X}
<1>1. PICK n \in Nat : n = Len(q)
  OBVIOUS
<1>2. Len(l) = n + 1 /\ l[n + 1] = e /\ \A k \in 1 .. n : l[k] = q[k]
  BY <1>1, Longer
<1>3. 1 .. n + 1 = (1 .. n) \cup {n + 1}
  OBVIOUS
<1>4. D = IF e \in X THEN C \cup {n + 1} ELSE C
  <2> HIDE DEF l
  <2> QED BY <1>1, <1>2, <1>3
<1>5. IsFiniteSet(C) /\ Count(q, X) = Cardinality(C) /\ Count(q, X) \in Nat /\ n + 1 \notin C
  BY <1>1, CountType DEF Count
<1>6. Count(l, X) = Cardinality(D)
  BY DEF Count
<1> HIDE DEF C, D, l
<1>7. Cardinality(C \cup {n + 1}) = Cardinality(C) + 1
  BY <1>5, FS_AddElement
<1> QED BY <1>4, <1>5, <1>6, <1>7 DEF l

LEMMA CountGrows ==
    ASSUME NEW S
    PROVE  \A X : \A q \in Seq(S), e \in S :
               /\ Count(q, X) \in Nat /\ Count(Append(q, e), X) \in Nat
               /\ (e \in X => Count(Append(q, e), X) = Count(q, X) + 1)
               /\ (e \notin X => Count(Append(q, e), X) = Count(q, X))
<1> SUFFICES ASSUME NEW X, NEW q \in Seq(S), NEW e \in S
             PROVE  /\ Count(q, X) \in Nat /\ Count(Append(q, e), X) \in Nat
                    /\ (e \in X => Count(Append(q, e), X) = Count(q, X) + 1)
                    /\ (e \notin X => Count(Append(q, e), X) = Count(q, X))
  OBVIOUS
<1>1. /\ Count(q, X) \in Nat
      /\ Count(Append(q, e), X) = IF e \in X THEN Count(q, X) + 1 ELSE Count(q, X)
  BY CountAppend
<1>2. PICK m, k : m = Count(q, X) /\ k = Count(Append(q, e), X)
  OBVIOUS
<1>3. m \in Nat /\ (e \in X => k = m + 1) /\ (e \notin X => k = m)
  BY <1>1, <1>2
<1>4. k \in Nat
  BY <1>3
<1> QED BY <1>2, <1>3, <1>4

LEMMA CountTail ==
    ASSUME NEW S, NEW q \in Seq(S), q # <<>>, NEW X
    PROVE  /\ Count(Tail(q), X) \in Nat
           /\ Count(q, X) = IF Head(q) \in X THEN Count(Tail(q), X) + 1 ELSE Count(Tail(q), X)
<1> DEFINE C == {k \in 1 .. Len(q) : q[k] \in X}
           l == Tail(q)
           D == {k \in 1 .. Len(l) : l[k] \in X}
           f == [k \in D |-> k + 1]
<1>1. PICK n \in Nat : Len(l) = n /\ Len(q) = n + 1 /\ l \in Seq(S)
  BY Shorter
<1>2. \A k \in 1 .. n : k + 1 \in 1 .. n + 1 /\ l[k] = q[k + 1]
  BY <1>1, Shorter
<1>3. \A k \in 1 .. n + 1 : k # 1 => k - 1 \in 1 .. n /\ (k - 1) + 1 = k
  OBVIOUS
<1>4. D \subseteq 1 .. n /\ C \subseteq 1 .. n + 1
  BY <1>1
<1>5. f \in Bijection(D, C \ {1})
  <2>1. \A k \in D : k + 1 \in C \ {1}
    BY <1>1, <1>2, <1>4
  <2>2. \A k \in D, m \in D : k + 1 = m + 1 => k = m
    BY <1>4
  <2>3. \A k \in C \ {1} : k - 1 \in D /\ k = (k - 1) + 1
    BY <1>1, <1>2, <1>3, <1>4
  <2> HIDE DEF C, D
  <2> QED BY <2>1, <2>2, <2>3 DEF Bijection, Injection, Surjection, IsInjective
<1>6. ExistsBijection(D, C \ {1})
  BY <1>5 DEF ExistsBijection
<1>7. IsFiniteSet(C) /\ Count(q, X) = Cardinality(C)
  BY CountType DEF Count
<1>8. IsFiniteSet(D) /\ Count(l, X) = Cardinality(D) /\ Count(l, X) \in Nat
  BY <1>1, CountType DEF Count
<1>9. 1 \in C <=> Head(q) \in X
  BY Shorter
<1> HIDE DEF C, D, l, f
<1>10. Cardinality(C \ {1}) = Cardinality(D)
  BY <1>6, <1>8, FS_Bijection
<1>11. Cardinality(C) \in Nat
  BY <1>7, FS_CardinalityType
<1>12. Cardinality(C \ {1}) = IF 1 \in C THEN Cardinality(C) - 1 ELSE Cardinality(C)
  BY <1>7, FS_RemoveElement
<1> QED BY <1>7, <1>8, <1>9, <1>10, <1>11, <1>12 DEF l

----------------------------------------------------------------------------
\* What the manager does with the packages that may come.

LEMMA Packages ==
    ASSUME NEW n \in Nat
    PROVE  /\ \A p \in PackageBelow(n) : /\ p.src \in 0 .. n - 1 /\ p.dst \in 0 .. n - 1 /\ p.kind \in Kind
                                         /\ p = Package(p.src, p.dst, p.kind)
           /\ \A s, d \in 0 .. n - 1, k \in Kind : Package(s, d, k) \in PackageBelow(n)
           /\ PackageBelow(n) \subseteq PackageBelow(n + 1)
<1>1. 0 .. n - 1 \subseteq 0 .. (n + 1) - 1
  OBVIOUS
<1> QED BY <1>1 DEF PackageBelow, Package

LEMMA Numbers ==
    ASSUME NEW n \in Nat, n >= 3
    PROVE  /\ NoAddress \in 0 .. n - 1 /\ Master \in 0 .. n - 1 /\ UIAddress \in UIAddress .. n - 1
           /\ UIAddress .. n - 1 \subseteq (0 .. n - 1) \ {NoAddress, Master} /\ 0 .. n - 1 \subseteq Nat
           /\ Given(n) \subseteq 0 .. n - 1 /\ Given(n) \subseteq Given(n + 1) /\ NoAddress \in Given(n)
           /\ n \in Given(n + 1) \ {NoAddress} /\ n \notin 0 .. n - 1 /\ n + 1 \in Nat /\ n + 1 >= 3
           /\ UIAddress .. n - 1 \subseteq UIAddress .. (n + 1) - 1
           /\ NoAddress # Master /\ NoAddress # UIAddress /\ Master # UIAddress
BY DEF NoAddress, Master, UIAddress, Given

LEMMA Descriptions ==
    ASSUME NEW n \in Nat, n >= 3, NEW a \in Given(n)
    PROVE  /\ Description(a) \in PackageBelow(n) /\ \A K : Description(a) \in FromBroker(K)
           /\ Description(a).src = a /\ Description(a).kind = "describe" /\ Description(a).dst # UIAddress
<1>1. a \in 0 .. n - 1 /\ NoAddress \in 0 .. n - 1 /\ Master \in 0 .. n - 1 /\ a \in Nat \ {Master, UIAddress}
  BY Numbers DEF Given
<1>2. Description(a).src = a /\ Description(a).kind = "describe" /\ Description(a).dst # UIAddress
  BY Numbers DEF Description, Package
<1>3. Description(a) \in PackageBelow(n)
  BY <1>1, Packages DEF Description, Kind
<1>4. \A K : Description(a) \in FromBroker(K)
  BY <1>1 DEF FromBroker, Description, Package
<1> QED BY <1>2, <1>3, <1>4

LEMMA BrokerPackages ==
    ASSUME NEW K, NEW p \in FromBroker(K)
    PROVE  /\ p = Package(p.src, p.dst, p.kind) /\ p.kind \in {"describe", "ReadResponse"}
           /\ p.kind = "describe" /\ p.src # NoAddress =>
                  p.dst = Master /\ p.src \in Nat \ {NoAddress, Master, UIAddress}
           /\ p.kind = "ReadResponse" => p.dst \in {Master, UIAddress} /\ p.src \in K
BY DEF FromBroker, Description, Package

LEMMA UIPackages ==
    ASSUME NEW D, NEW p \in FromUI(D)
    PROVE  /\ p = Package(p.src, p.dst, p.kind) /\ p.src = UIAddress
           /\ \/ p = Package(UIAddress, Master, "Management")
              \/ p.dst \in D /\ p.kind \in {"ReadRequest", "Write"}
BY DEF FromUI, Package

LEMMA OtherPackages ==
    ASSUME NEW K, NEW a
    PROVE  /\ \A p \in ToBroker(K) : /\ p = Package(p.src, p.dst, p.kind) /\ p.src \in {Master, UIAddress}
                                     /\ p.dst \in K /\ p.kind \in Kind
           /\ \A p \in ToUI(K) : p = Package(p.src, p.dst, p.kind) /\ p.src \in K /\ p.dst = UIAddress
           /\ \A s, d, k : /\ Package(s, d, k).src = s /\ Package(s, d, k).dst = d /\ Package(s, d, k).kind = k
                           /\ Package(s, d, k) \in From(a) <=> s = a /\ d \in Nat /\ k \in Kind
                           /\ Package(s, d, k) \in Back(a) <=> s = a /\ d = UIAddress /\ k \in Kind
                           /\ Package(s, d, k) \in For(a) <=> s = UIAddress /\ d = a /\ k \in Kind
BY DEF ToBroker, ToUI, Package, From, Back, For

LEMMA Wide ==
    ASSUME NEW K, NEW L, K \subseteq L
    PROVE  /\ FromBroker(K) \subseteq FromBroker(L) /\ ToBroker(K) \subseteq ToBroker(L)
           /\ FromUI(K) \subseteq FromUI(L) /\ ToUI(K) \subseteq ToUI(L)
BY DEF FromBroker, ToBroker, FromUI, ToUI

Takes(c, p) ==
    /\ toManager[c] # <<>> /\ p = Head(toManager[c]) /\ toManager' = [toManager EXCEPT ![c] = Tail(@)]
    /\ UNCHANGED <<broker, short, ip_count, down, devices, commands, answered>>
Registers(c, p) ==
    /\ c \in Broker /\ p.kind = "describe" /\ p.src \in Nat \ {NoAddress, Master, UIAddress} /\ UNCHANGED toClient
    /\ route' = [a \in DOMAIN route \cup {p.src} |-> IF a = p.src THEN c ELSE route[a]]
Forgets(c, p) ==
    /\ c = UI /\ p = Package(UIAddress, Master, "Management") /\ UNCHANGED toClient
    /\ route' = [a \in DOMAIN route \ {UIAddress} |-> route[a]]
Ignores(c, p) ==
    /\ c \in Broker /\ p.kind = "ReadResponse" /\ p.dst = Master /\ UNCHANGED <<route, toClient>>
Answers(c, p) ==
    /\ c \in Broker /\ p.kind = "ReadResponse" /\ p.dst = UIAddress /\ p.src \in Known(c)
    /\ toClient' = [toClient EXCEPT ![UI] = Append(@, p)] /\ UNCHANGED route
Notifies(c, p) ==
    /\ c \in Broker /\ p.kind = "ReadResponse" /\ p.dst = UIAddress /\ p.src \in Known(c)
    /\ toClient' = [toClient EXCEPT ![c] = Append(@, Package(Master, p.src, "Management"))] /\ UNCHANGED route
Commands(c, p) ==
    /\ c = UI /\ p.src = UIAddress /\ p.dst \in Device /\ p.kind \in {"ReadRequest", "Write"}
    /\ toClient' = [toClient EXCEPT ![route[p.dst]] = Append(@, p)] /\ UNCHANGED route
Handles(c, p) ==
    \/ Registers(c, p) \/ Forgets(c, p) \/ Ignores(c, p) \/ Answers(c, p) \/ Notifies(c, p) \/ Commands(c, p)

LEMMA Handled ==
    ASSUME TypeInv, WayInv, NEW c \in Connection, Handle(c)
    PROVE  \E p \in PackageBelow(ip_count) : /\ Takes(c, p) /\ Handles(c, p) /\ p = Package(p.src, p.dst, p.kind)
                                             /\ c \in Broker => p \in FromBroker(Known(c))
                                             /\ c = UI => p \in FromUI(Device)
<1> DEFINE p == Head(toManager[c])
<1>1. toManager[c] # <<>> /\ toManager[c] \in Seq(PackageBelow(ip_count))
  BY DEF Handle, TypeInv, QueuesOK
<1>2. p \in PackageBelow(ip_count)
  BY <1>1, Shorter
<1>3. Takes(c, p)
  BY DEF Handle, Takes
<1>4. (Manage(c, p) \/ Route(c, p)) /\ UIAddress # Master /\ p.src # NoAddress
  BY DEF Handle, Complete, UIAddress, Master
<1>5. c \in Broker => p \in FromBroker(Known(c))
  <2>1. c \in Broker => toManager[c] \in Seq(FromBroker(Known(c)))
    BY DEF WayInv
  <2> QED BY <1>1, <2>1, Shorter
<1>6. c = UI => p \in FromUI(Device)
  <2>1. c = UI => toManager[c] \in Seq(FromUI(Device))
    BY DEF WayInv
  <2> QED BY <1>1, <2>1, Shorter
<1>7. p = Package(p.src, p.dst, p.kind)
  BY <1>2, Packages DEF TypeInv, ManagerOK
<1> HIDE DEF p
<1> SUFFICES Handles(c, p)
  BY <1>2, <1>3, <1>5, <1>6, <1>7
<1>8. CASE c \in Broker
  <2>1. /\ p.kind \in {"describe", "ReadResponse"}
        /\ p.kind = "describe" => p.dst = Master /\ p.src \in Nat \ {NoAddress, Master, UIAddress}
        /\ p.kind = "ReadResponse" => p.dst \in {Master, UIAddress} /\ p.src \in Known(c)
    BY <1>4, <1>5, <1>8, BrokerPackages
  <2>2. CASE p.kind = "describe"
    BY <1>4, <1>8, <2>1, <2>2 DEF Manage, Route, Registers, Handles
  <2>3. CASE p.kind = "ReadResponse" /\ p.dst = Master
    BY <1>4, <1>8, <2>1, <2>3 DEF Manage, Route, Ignores, Handles
  <2>4. CASE p.kind = "ReadResponse" /\ p.dst = UIAddress
    <3>1. Route(c, p)
      BY <1>4, <2>4 DEF Manage
    <3>2. CASE UIAddress \in DOMAIN route
      <4>1. route[UIAddress] = UI
        BY <3>2 DEF WayInv
      <4> QED BY <1>8, <2>1, <2>4, <3>1, <3>2, <4>1 DEF Route, Answers, Handles
    <3>3. CASE UIAddress \notin DOMAIN route
      BY <1>8, <2>1, <2>4, <3>1, <3>3 DEF Route, Notifies, Handles
    <3> QED BY <3>2, <3>3
  <2> QED BY <2>1, <2>2, <2>3, <2>4
<1>9. CASE c = UI
  <2>1. \/ p = Package(UIAddress, Master, "Management")
        \/ p.src = UIAddress /\ p.dst \in Device /\ p.kind \in {"ReadRequest", "Write"}
    BY <1>6, <1>9, UIPackages
  <2>2. CASE p = Package(UIAddress, Master, "Management")
    <3>1. p.dst = Master /\ p.kind = "Management" /\ p.src = UIAddress
      BY <2>2 DEF Package
    <3> QED BY <1>4, <1>9, <2>2, <3>1 DEF Manage, Route, Forgets, Handles
  <2>3. CASE p.src = UIAddress /\ p.dst \in Device /\ p.kind \in {"ReadRequest", "Write"}
    <3>1. p.dst # Master
      BY <2>3, Numbers DEF Device, TypeInv, ManagerOK
    <3> QED BY <1>4, <1>9, <2>3, <3>1 DEF Manage, Route, Commands, Handles, Device
  <2> QED BY <2>1, <2>2, <2>3
<1> QED BY <1>8, <1>9 DEF Connection

----------------------------------------------------------------------------
\* Types.

LEMMA TypesWiden ==
    ASSUME NEW n \in Nat, n >= 3
    PROVE  /\ \A q \in Seq(PackageBelow(n)) : q \in Seq(PackageBelow(n + 1))
           /\ \A Q \in [Connection -> Seq(PackageBelow(n))] : Q \in [Connection -> Seq(PackageBelow(n + 1))]
           /\ \A Q \in [Broker -> Seq(Given(n) \ {NoAddress})] : Q \in [Broker -> Seq(Given(n + 1) \ {NoAddress})]
           /\ \A f \in [Broker -> Given(n)] : f \in [Broker -> Given(n + 1)]
           /\ \A T \in SUBSET (UIAddress .. n - 1) : T \in SUBSET (UIAddress .. (n + 1) - 1)
<1>1. /\ PackageBelow(n) \subseteq PackageBelow(n + 1) /\ Given(n) \subseteq Given(n + 1)
      /\ Given(n) \ {NoAddress} \subseteq Given(n + 1) \ {NoAddress} /\ UIAddress .. n - 1 \subseteq UIAddress .. (n + 1) - 1
  BY Packages, Numbers
<1>2. \A S, T : S \subseteq T => \A q \in Seq(S) : q \in Seq(T)
  BY Wider
<1>3. \A q \in Seq(PackageBelow(n)) : q \in Seq(PackageBelow(n + 1))
  BY <1>1, <1>2
<1>4. \A q \in Seq(Given(n) \ {NoAddress}) : q \in Seq(Given(n + 1) \ {NoAddress})
  BY <1>1, <1>2
<1>5. \A Q \in [Connection -> Seq(PackageBelow(n))] : Q \in [Connection -> Seq(PackageBelow(n + 1))]
  BY <1>3
<1>6. \A Q \in [Broker -> Seq(Given(n) \ {NoAddress})] : Q \in [Broker -> Seq(Given(n + 1) \ {NoAddress})]
  BY <1>4
<1>7. \A f \in [Broker -> Given(n)] : f \in [Broker -> Given(n + 1)]
  BY <1>1
<1>8. \A T \in SUBSET (UIAddress .. n - 1) : T \in SUBSET (UIAddress .. (n + 1) - 1)
  BY <1>1
<1> QED BY <1>3, <1>5, <1>6, <1>7, <1>8

LEMMA Sends ==
    ASSUME NEW S, NEW Q \in [Connection -> Seq(S)], NEW c \in Connection
    PROVE  /\ \A e \in S : [Q EXCEPT ![c] = Append(@, e)] \in [Connection -> Seq(S)]
           /\ Q[c] # <<>> => [Q EXCEPT ![c] = Tail(@)] \in [Connection -> Seq(S)] /\ Head(Q[c]) \in S
<1>1. Q[c] \in Seq(S)
  OBVIOUS
<1>2. \A e \in S : Append(Q[c], e) \in Seq(S)
  BY <1>1
<1>3. Q[c] # <<>> => Tail(Q[c]) \in Seq(S) /\ Head(Q[c]) \in S
  BY <1>1
<1> QED BY <1>2, <1>3

LEMMA TypeInit == Init => TypeInv
<1> SUFFICES ASSUME Init PROVE TypeInv
  OBVIOUS
<1>0. ip_count = 3
  BY DEF Init, UIAddress
<1>1. BrokerOK
  <2>1. NoAddress \in Given(3)
    BY Numbers
  <2>2. DOMAIN address = {}
    BY DEF Init
  <2> QED BY <1>0, <2>1, <2>2, DevicesAssumption DEF BrokerOK, Init
<1>2. ManagerOK
  BY <1>0 DEF ManagerOK, Init, UIAddress
<1>3. QueuesOK
  BY DEF QueuesOK, Init
<1> QED BY <1>1, <1>2, <1>3 DEF TypeInv

LEMMA TypeStep ==
    ASSUME TypeInv, WayInv, AskInv, [Next]_vars
    PROVE  TypeInv'
<1> USE DEF TypeInv
<1>1. PICK n \in Nat : n = ip_count /\ n >= 3
  BY DEF ManagerOK
<1>2. /\ NoAddress \in 0 .. n - 1 /\ Master \in 0 .. n - 1 /\ UIAddress \in 0 .. n - 1
      /\ \A s, d \in 0 .. n - 1, k \in Kind : Package(s, d, k) \in PackageBelow(n)
      /\ \A p \in PackageBelow(n) : p.src \in 0 .. n - 1 /\ p.dst \in 0 .. n - 1
      /\ UI \in Connection /\ \A b \in Broker : b \in Connection
  BY <1>1, Packages, Numbers DEF Connection
<1>3. /\ toManager \in [Connection -> Seq(PackageBelow(n))] /\ toClient \in [Connection -> Seq(PackageBelow(n))]
      /\ commands \in Seq(Nat) /\ answered \in Seq(PackageBelow(n)) /\ DOMAIN route \in SUBSET (UIAddress .. n - 1)
  BY <1>1 DEF QueuesOK, ManagerOK
<1>4. CASE UNCHANGED vars
  BY <1>4 DEF vars, broker, short, devices, BrokerOK, ManagerOK, QueuesOK
<1>5. ASSUME NEW b \in Broker, Ask(b) PROVE TypeInv'
  <2>1. BrokerOK'
    BY <1>5 DEF BrokerOK, Ask, Goes
  <2> QED BY <1>5, <2>1 DEF Ask, ManagerOK, QueuesOK
<1>6. ASSUME NEW b \in Broker, ReceiveIp(b) PROVE TypeInv'
  <2>0. PICK G : G = Given(n) \ {NoAddress}
    OBVIOUS
  <2>1. ipReplies[b] \in Seq(G) /\ ipReplies[b] # <<>>
    BY <1>1, <1>6, <2>0 DEF ReceiveIp, BrokerOK
  <2>2. Head(ipReplies[b]) \in G
    BY <2>1
  <2>3. Head(ipReplies[b]) \in Given(n)
    BY <2>0, <2>2
  <2>4. ip' \in [Broker -> Given(n)] /\ pc' \in [Broker -> {"ask", "recv ip", "register", "serve"}]
    BY <1>1, <1>6, <2>3 DEF BrokerOK, ReceiveIp, Goes
  <2>5. ipReplies' \in [Broker -> Seq(G)]
    <3>1. ipReplies \in [Broker -> Seq(G)]
      BY <1>1, <2>0 DEF BrokerOK
    <3>3. <<>> \in Seq(G)
      OBVIOUS
    <3>2. ipReplies' = [ipReplies EXCEPT ![b] = <<>>]
      BY <1>6 DEF ReceiveIp
    <3> QED BY <3>1, <3>2, <3>3
  <2>6. BrokerOK'
    BY <1>1, <1>6, <2>0, <2>4, <2>5 DEF BrokerOK, ReceiveIp, devices
  <2> QED BY <1>6, <2>6 DEF ReceiveIp, ManagerOK, QueuesOK
<1>7. ASSUME NEW b \in Broker, Register(b) PROVE TypeInv'
  <2>1. registered[b] < Devices /\ registered[b] \in 0 .. Devices /\ ip[b] \in Given(n)
    BY <1>1, <1>7 DEF Register, AskInv, BrokerOK
  <2>2. registered[b] + 1 \in 0 .. Devices
    BY <2>1, DevicesAssumption
  <2>3. Current(b) \in Broker \X Nat
    BY <2>2, DevicesAssumption DEF Current
  <2>4. DOMAIN address' \in SUBSET (Broker \X Nat) /\ \A x \in DOMAIN address' : address'[x] \in Given(n)
    <3>1. /\ DOMAIN address' = DOMAIN address \cup {Current(b)}
          /\ \A x \in DOMAIN address' : address'[x] = IF x = Current(b) THEN ip[b] ELSE address[x]
      BY <1>7 DEF Register, DescribedAs
    <3> QED BY <1>1, <2>1, <2>3, <3>1 DEF BrokerOK
  <2>5. BrokerOK'
    BY <1>1, <1>7, <2>2, <2>4 DEF BrokerOK, Register, Goes, short
  <2>6. Description(ip[b]) \in PackageBelow(n)
    BY <1>1, <2>1, Descriptions
  <2>7. toManager' \in [Connection -> Seq(PackageBelow(n))]
    BY <1>2, <1>3, <1>7, <2>6, Sends DEF Register
  <2> QED BY <1>1, <1>7, <2>5, <2>7 DEF Register, ManagerOK, QueuesOK
<1>8. ASSUME NEW b \in Broker, Serve(b) PROVE TypeInv'
  <2>1. Head(toClient[b]) \in PackageBelow(n) /\ toClient' \in [Connection -> Seq(PackageBelow(n))]
    BY <1>2, <1>3, <1>8, Sends DEF Serve
  <2>2. AnswerOf(Head(toClient[b])) \in PackageBelow(n)
    BY <1>2, <2>1 DEF AnswerOf, Kind
  <2>3. toManager' \in [Connection -> Seq(PackageBelow(n))]
    BY <1>2, <1>3, <1>8, <2>2, Sends DEF Serve
  <2> QED BY <1>1, <1>8, <2>1, <2>3 DEF Serve, BrokerOK, ManagerOK, QueuesOK, broker, short, devices
<1>9. ASSUME NEW c \in Connection, Handle(c) PROVE TypeInv'
  <2>1. PICK p \in PackageBelow(n) : Takes(c, p) /\ Handles(c, p)
    BY <1>1, <1>9, Handled
  <2>2. toManager' \in [Connection -> Seq(PackageBelow(n))]
    BY <1>3, <2>1, Sends DEF Takes
  <2>3. toClient' \in [Connection -> Seq(PackageBelow(n))] /\ DOMAIN route' \in SUBSET (UIAddress .. n - 1)
    <3>1. CASE Registers(c, p)
      <4>1. p.src \in UIAddress .. n - 1
        BY <1>2, <3>1 DEF Registers, NoAddress, Master, UIAddress
      <4>2. DOMAIN route' = DOMAIN route \cup {p.src}
        BY <3>1 DEF Registers
      <4> QED BY <1>3, <3>1, <4>1, <4>2 DEF Registers
    <3>2. CASE Forgets(c, p)
      BY <1>3, <3>2 DEF Forgets
    <3>3. CASE Ignores(c, p)
      BY <1>3, <3>3 DEF Ignores
    <3>4. CASE Answers(c, p)
      BY <1>2, <1>3, <3>4, Sends DEF Answers
    <3>5. CASE Notifies(c, p)
      <4>1. Package(Master, p.src, "Management") \in PackageBelow(n)
        BY <1>2 DEF Kind
      <4> QED BY <1>2, <1>3, <3>5, <4>1, Sends DEF Notifies
    <3>6. CASE Commands(c, p)
      <4>1. route[p.dst] \in Broker
        BY <3>6 DEF Commands, Device, WayInv
      <4> QED BY <1>2, <1>3, <3>6, <4>1, Sends DEF Commands
    <3> QED BY <2>1, <3>1, <3>2, <3>3, <3>4, <3>5, <3>6 DEF Handles
  <2> QED BY <1>1, <2>1, <2>2, <2>3 DEF Takes, BrokerOK, ManagerOK, QueuesOK, broker, short, devices
<1>10. ASSUME NEW b \in Broker, GiveIp(b) PROVE TypeInv'
  <2>0. PICK m \in Nat : m = n + 1
    OBVIOUS
  <2>1. ip_count' = m /\ m >= 3 /\ n \in Given(m) \ {NoAddress} /\ Given(n) \subseteq Given(m)
    BY <1>1, <1>10, <2>0, Numbers DEF GiveIp
  <2>2. /\ ipReplies \in [Broker -> Seq(Given(m) \ {NoAddress})] /\ ip \in [Broker -> Given(m)]
        /\ DOMAIN route \in SUBSET (UIAddress .. m - 1)
        /\ toManager \in [Connection -> Seq(PackageBelow(m))] /\ toClient \in [Connection -> Seq(PackageBelow(m))]
        /\ answered \in Seq(PackageBelow(m))
    BY <1>1, <1>3, <2>0, TypesWiden DEF BrokerOK
  <2>3. <<n>> \in Seq(Given(m) \ {NoAddress})
    BY <2>1
  <2>4. ipReplies' \in [Broker -> Seq(Given(m) \ {NoAddress})]
    BY <1>1, <1>10, <2>2, <2>3 DEF GiveIp
  <2>5. BrokerOK'
    BY <1>1, <1>10, <2>1, <2>2, <2>4 DEF BrokerOK, GiveIp, broker, devices
  <2> QED BY <1>3, <1>10, <2>1, <2>2, <2>5 DEF GiveIp, ManagerOK, QueuesOK
<1>11. CASE Stops
  <2>1. down' \in Nat
    BY <1>11 DEF Stops, ManagerOK
  <2> QED BY <1>11, <2>1 DEF Stops, BrokerOK, ManagerOK, QueuesOK, broker, short, devices
<1>12. CASE UIReads
  <2>1. Head(toClient[UI]) \in PackageBelow(n) /\ toClient' \in [Connection -> Seq(PackageBelow(n))]
    BY <1>2, <1>3, <1>12, Sends DEF UIReads
  <2>2. answered' \in Seq(PackageBelow(n))
    BY <1>3, <1>12, <2>1 DEF UIReads
  <2> QED BY <1>1, <1>12, <2>1, <2>2 DEF UIReads, BrokerOK, ManagerOK, QueuesOK, broker, short, devices
<1>13. CASE Withdraw
  <2>1. Package(UIAddress, Master, "Management") \in PackageBelow(n)
    BY <1>2 DEF Kind
  <2>2. toManager' \in [Connection -> Seq(PackageBelow(n))]
    BY <1>2, <1>3, <1>13, <2>1, Sends DEF Withdraw
  <2> QED BY <1>1, <1>13, <2>2 DEF Withdraw, BrokerOK, ManagerOK, QueuesOK, broker, short, devices
<1>14. ASSUME NEW a \in Device, NEW kind \in {"ReadRequest", "Write"}, Command(a, kind) PROVE TypeInv'
  <2>1. a \in 0 .. n - 1 /\ a \in Nat
    BY <1>1, <1>3, <1>14, Numbers DEF Device
  <2>2. Package(UIAddress, a, kind) \in PackageBelow(n)
    BY <1>2, <2>1 DEF Kind
  <2>3. toManager' \in [Connection -> Seq(PackageBelow(n))]
    BY <1>2, <1>3, <1>14, <2>2, Sends DEF Command
  <2>4. commands' \in Seq(Nat)
    BY <1>3, <1>14, <2>1 DEF Command
  <2> QED BY <1>1, <1>14, <2>3, <2>4 DEF Command, BrokerOK, ManagerOK, QueuesOK, broker, short, devices
<1> QED BY <1>4, <1>5, <1>6, <1>7, <1>8, <1>9, <1>10, <1>11, <1>12, <1>13, <1>14
        DEF Next, BrokerStep, ManagerStep, Connection, Device

----------------------------------------------------------------------------
\* What is on its way stays what it is.

\* For any sets of known devices K (of each broker) and D.
Way(K, D, TM, TC, ans) ==
    /\ \A b \in Broker : TM[b] \in Seq(FromBroker(K[b])) /\ TC[b] \in Seq(ToBroker(K[b]))
    /\ TM[UI] \in Seq(FromUI(D)) /\ TC[UI] \in Seq(ToUI(D))
    /\ ans \in Seq(ToUI(D))
KnownBy == [b \in Broker |-> Known(b)]
RoutesOK == \A a \in DOMAIN route : IF a = UIAddress THEN route[a] = UI ELSE route[a] \in Broker

LEMMA WayParts ==
    /\ WayInv <=> RoutesOK /\ Way(KnownBy, Device, toManager, toClient, answered)
    /\ WayInv' <=> RoutesOK' /\ Way(KnownBy', Device', toManager', toClient', answered')
<1>1. WayInv <=> RoutesOK /\ Way(KnownBy, Device, toManager, toClient, answered)
  BY DEF WayInv, RoutesOK, Way, KnownBy
<1>2. WayInv' <=> RoutesOK' /\ Way(KnownBy', Device', toManager', toClient', answered')
  BY DEF WayInv, RoutesOK, Way, KnownBy
<1> QED BY <1>1, <1>2

LEMMA WayWider ==
    ASSUME NEW K \in [Broker -> SUBSET Nat], NEW L \in [Broker -> SUBSET Nat], NEW D, NEW E, NEW TM, NEW TC, NEW ans,
           Way(K, D, TM, TC, ans), D \subseteq E, \A b \in Broker : K[b] \subseteq L[b]
    PROVE  Way(L, E, TM, TC, ans)
<1>1. FromUI(D) \subseteq FromUI(E) /\ ToUI(D) \subseteq ToUI(E)
  BY Wide
<1>2. ASSUME NEW b \in Broker PROVE FromBroker(K[b]) \subseteq FromBroker(L[b]) /\ ToBroker(K[b]) \subseteq ToBroker(L[b])
  BY Wide
<1>3. TM[UI] \in Seq(FromUI(E)) /\ TC[UI] \in Seq(ToUI(E)) /\ ans \in Seq(ToUI(E))
  BY <1>1, Wider DEF Way
<1>4. ASSUME NEW b \in Broker PROVE TM[b] \in Seq(FromBroker(L[b])) /\ TC[b] \in Seq(ToBroker(L[b]))
  BY <1>2, Wider DEF Way
<1> QED BY <1>3, <1>4 DEF Way

\* The five ways a package moves.
LEMMA WayMoves ==
    ASSUME NEW K \in [Broker -> SUBSET Nat], NEW D, NEW S, NEW TM \in [Connection -> Seq(S)],
           NEW TC \in [Connection -> Seq(S)], NEW ans, Way(K, D, TM, TC, ans)
    PROVE  /\ \A c \in Connection : TM[c] # <<>> => Way(K, D, [TM EXCEPT ![c] = Tail(@)], TC, ans)
           /\ \A c \in Connection : TC[c] # <<>> => Way(K, D, TM, [TC EXCEPT ![c] = Tail(@)], ans)
           /\ \A b \in Broker : \A e \in FromBroker(K[b]) : Way(K, D, [TM EXCEPT ![b] = Append(@, e)], TC, ans)
           /\ \A b \in Broker : \A e \in ToBroker(K[b]) : Way(K, D, TM, [TC EXCEPT ![b] = Append(@, e)], ans)
           /\ \A e \in FromUI(D) : Way(K, D, [TM EXCEPT ![UI] = Append(@, e)], TC, ans)
           /\ \A e \in ToUI(D) : /\ Way(K, D, TM, [TC EXCEPT ![UI] = Append(@, e)], ans)
                                 /\ Way(K, D, TM, TC, Append(ans, e))
<1>1. UI \in Connection /\ UI \notin Broker /\ \A b \in Broker : b \in Connection
  BY BrokerAssumption DEF Connection
<1>2. \A T : \A q \in Seq(T) : (q # <<>> => Tail(q) \in Seq(T)) /\ \A e \in T : Append(q, e) \in Seq(T)
  OBVIOUS
<1>3. \A b \in Broker : TM[b] \in Seq(FromBroker(K[b])) /\ TC[b] \in Seq(ToBroker(K[b]))
  BY DEF Way
<1>4. TM[UI] \in Seq(FromUI(D)) /\ TC[UI] \in Seq(ToUI(D)) /\ ans \in Seq(ToUI(D))
  BY DEF Way
<1>5. \A v : \A c \in Connection : /\ [TM EXCEPT ![c] = v][c] = v /\ [TC EXCEPT ![c] = v][c] = v
                               /\ \A d \in Connection : d # c => /\ [TM EXCEPT ![c] = v][d] = TM[d]
                                                                 /\ [TC EXCEPT ![c] = v][d] = TC[d]
  OBVIOUS
<1>6. ASSUME NEW c \in Connection, TM[c] # <<>> PROVE Way(K, D, [TM EXCEPT ![c] = Tail(@)], TC, ans)
  BY <1>1, <1>2, <1>3, <1>4, <1>5, <1>6 DEF Way
<1>7. ASSUME NEW c \in Connection, TC[c] # <<>> PROVE Way(K, D, TM, [TC EXCEPT ![c] = Tail(@)], ans)
  BY <1>1, <1>2, <1>3, <1>4, <1>5, <1>7 DEF Way
<1>8. ASSUME NEW b \in Broker, NEW e \in FromBroker(K[b]) PROVE Way(K, D, [TM EXCEPT ![b] = Append(@, e)], TC, ans)
  BY <1>1, <1>2, <1>3, <1>4, <1>5 DEF Way
<1>9. ASSUME NEW b \in Broker, NEW e \in ToBroker(K[b]) PROVE Way(K, D, TM, [TC EXCEPT ![b] = Append(@, e)], ans)
  BY <1>1, <1>2, <1>3, <1>4, <1>5 DEF Way
<1>10. ASSUME NEW e \in FromUI(D) PROVE Way(K, D, [TM EXCEPT ![UI] = Append(@, e)], TC, ans)
  BY <1>1, <1>2, <1>3, <1>4, <1>5 DEF Way
<1>11. ASSUME NEW e \in ToUI(D) PROVE Way(K, D, TM, [TC EXCEPT ![UI] = Append(@, e)], ans) /\ Way(K, D, TM, TC, Append(ans, e))
  BY <1>1, <1>2, <1>3, <1>4, <1>5 DEF Way
<1> QED BY <1>6, <1>7, <1>8, <1>9, <1>10, <1>11

LEMMA WayInit == Init => WayInv
<1> SUFFICES ASSUME Init PROVE WayInv
  OBVIOUS
<1>1.  toManager[UI] = <<>> /\ toClient[UI] = <<>> /\ \A b \in Broker : toManager[b] = <<>> /\ toClient[b] = <<>>
  BY DEF Init, Connection
<1>2. \A T : <<>> \in Seq(T)
  OBVIOUS
<1>3. answered = <<>> /\ DOMAIN route = {UIAddress} /\ route[UIAddress] = UI
  BY DEF Init
<1> QED BY <1>1, <1>2, <1>3 DEF WayInv

\* What describes a device that is in the table comes from where it was registered.
LEMMA SameBroker ==
    ASSUME TypeInv, WayInv, GivenInv, NEW c \in Connection, NEW p, Takes(c, p), Registers(c, p), p.src \in DOMAIN route
    PROVE  route[p.src] = c
<1>1. PICK a \in Nat \ {NoAddress, Master, UIAddress} : a = p.src
  BY DEF Registers
<1>2. c \in Broker /\ p.kind = "describe"
  BY DEF Registers
<1>3. PICK S : toManager[c] \in Seq(S)
  BY DEF TypeInv, QueuesOK
<1>4. toManager[c] # <<>> /\ p = Head(toManager[c])
  BY DEF Takes
<1>5. p = toManager[c][1] /\ 1 \in 1 .. Len(toManager[c])
  BY <1>3, <1>4, Shorter
<1>6. Describes(toManager[c], 1, a)
  BY <1>1, <1>2, <1>5 DEF Describes
<1>7. Owns(c, a)
  BY <1>1, <1>2, <1>6 DEF GivenInv
<1>8. route[a] \in Broker /\ Owns(route[a], a)
  BY <1>1 DEF GivenInv, WayInv
<1> QED BY <1>1, <1>2, <1>7, <1>8 DEF GivenInv, Has

LEMMA WayStep ==
    ASSUME TypeInv, WayInv, AskInv, GivenInv, [Next]_vars
    PROVE  WayInv'
<1>1. PICK n \in Nat : n = ip_count /\ n >= 3
  BY DEF TypeInv, ManagerOK
<1>2. PICK K, D : K = KnownBy /\ D = Device
  OBVIOUS
<1>3. /\ K \in [Broker -> SUBSET Nat] /\ D \subseteq Nat \ {Master, UIAddress} /\ \A b \in Broker : K[b] = Known(b) /\ K[b] \subseteq D
      /\ DOMAIN route \subseteq Nat
  <2>1. DOMAIN route \subseteq (0 .. n - 1) \ {Master} /\ 0 .. n - 1 \subseteq Nat
    BY <1>1, Numbers DEF TypeInv, ManagerOK
  <2> QED BY <1>2, <2>1 DEF KnownBy, Known, Device
<1>4. PICK S : S = PackageBelow(n)
  OBVIOUS
<1>5. /\ toManager \in [Connection -> Seq(S)] /\ toClient \in [Connection -> Seq(S)]
      /\ Way(K, D, toManager, toClient, answered) /\ RoutesOK
  BY <1>1, <1>2, <1>4, WayParts DEF TypeInv, QueuesOK
<1>6. UI \in Connection /\ UI \notin Broker /\ \A b \in Broker : b \in Connection
  BY BrokerAssumption DEF Connection
<1>7. ASSUME route' = route, Way(K, D, toManager', toClient', answered') PROVE WayInv'
  <2>1. KnownBy' = K /\ Device' = D /\ RoutesOK'
    BY <1>2, <1>5, <1>7 DEF KnownBy, Known, Device, RoutesOK
  <2> QED BY <1>7, <2>1, WayParts
<1>8. CASE UNCHANGED vars
  BY <1>5, <1>7, <1>8 DEF vars
<1>9. ASSUME NEW b \in Broker, Ask(b) \/ ReceiveIp(b) \/ GiveIp(b) PROVE WayInv'
  BY <1>5, <1>7, <1>9 DEF Ask, ReceiveIp, GiveIp
<1>10. ASSUME NEW b \in Broker, Register(b) PROVE WayInv'
  <2>1. ip[b] \in Given(n)
    BY <1>1 DEF TypeInv, BrokerOK
  <2>2. Description(ip[b]) \in FromBroker(K[b])
    BY <1>1, <2>1, Descriptions
  <2>3. Way(K, D, toManager', toClient, answered)
    BY <1>3, <1>5, <1>10, <2>2, WayMoves DEF Register
  <2> QED BY <1>7, <1>10, <2>3 DEF Register
<1>11. ASSUME NEW b \in Broker, Serve(b) PROVE WayInv'
  <2>1. toClient[b] \in Seq(ToBroker(K[b])) /\ toClient[b] # <<>>
    BY <1>5, <1>11 DEF Serve, Way
  <2>2. Head(toClient[b]) \in ToBroker(K[b])
    BY <2>1
  <2>3. AnswerOf(Head(toClient[b])) \in FromBroker(K[b])
    BY <2>2, OtherPackages DEF Package, FromBroker, AnswerOf
  <2>4. PICK TC : TC = toClient'
    OBVIOUS
  <2>5. TC \in [Connection -> Seq(S)] /\ Way(K, D, toManager, TC, answered)
    BY <1>3, <1>5, <1>6, <1>11, <2>4, WayMoves, Sends DEF Serve
  <2>6. Way(K, D, toManager', TC, answered)
    BY <1>3, <1>5, <1>11, <2>3, <2>5, WayMoves DEF Serve
  <2> QED BY <1>7, <1>11, <2>4, <2>6 DEF Serve
<1>12. ASSUME NEW c \in Connection, Handle(c) PROVE WayInv'
  <2>1. PICK p \in S : /\ Takes(c, p) /\ Handles(c, p) /\ p = Package(p.src, p.dst, p.kind)
                       /\ c \in Broker => p \in FromBroker(Known(c))
                       /\ c = UI => p \in FromUI(Device)
    BY <1>1, <1>4, <1>12, Handled
  <2>2. PICK TM : TM = toManager'
    OBVIOUS
  <2>3. TM \in [Connection -> Seq(S)] /\ Way(K, D, TM, toClient, answered) /\ answered' = answered
    BY <1>3, <1>5, <2>1, <2>2, WayMoves, Sends DEF Takes
  <2>4. ASSUME RoutesOK', D \subseteq Device', \A b \in Broker : K[b] \subseteq Known(b)', DOMAIN route' \subseteq Nat, toClient' = toClient
        PROVE  WayInv'
    <3>1. PICK L, E : L = KnownBy' /\ E = Device'
      OBVIOUS
    <3>2. L \in [Broker -> SUBSET Nat] /\ D \subseteq E /\ \A b \in Broker : K[b] \subseteq L[b]
      BY <2>4, <3>1 DEF KnownBy, Known, Device
    <3>3. Way(L, E, TM, toClient, answered)
      BY <1>3, <2>3, <3>2, WayWider
    <3> QED BY <2>2, <2>3, <2>4, <3>1, <3>3, WayParts
  <2>5. CASE Registers(c, p)
    <3>1. PICK a \in Nat \ {NoAddress, Master, UIAddress} : a = p.src
      BY <2>5 DEF Registers
    <3>2. c \in Broker /\ DOMAIN route' = DOMAIN route \cup {a} /\ toClient' = toClient
      BY <2>5, <3>1 DEF Registers
    <3>3. a \in DOMAIN route => route[a] = c
      BY <2>1, <2>5, <3>1, SameBroker
    <3>4. route'[a] = c /\ \A x \in DOMAIN route : route'[x] = route[x]
      BY <2>5, <3>1, <3>3 DEF Registers
    <3>5. D \subseteq Device' /\ \A b \in Broker : K[b] \subseteq Known(b)'
      BY <1>2, <3>2, <3>4 DEF Device, KnownBy, Known
    <3>6. RoutesOK'
      BY <1>5, <3>1, <3>2, <3>4 DEF RoutesOK
    <3> QED BY <1>3, <2>4, <3>2, <3>5, <3>6
  <2>6. CASE Forgets(c, p)
    <3>1. DOMAIN route' = DOMAIN route \ {UIAddress} /\ toClient' = toClient /\ \A x \in DOMAIN route' : route'[x] = route[x]
      BY <2>6 DEF Forgets
    <3>2. D \subseteq Device' /\ \A b \in Broker : K[b] \subseteq Known(b)'
      BY <1>2, <3>1 DEF Device, KnownBy, Known
    <3>3. RoutesOK'
      BY <1>5, <3>1 DEF RoutesOK
    <3> QED BY <1>3, <2>4, <3>1, <3>2, <3>3
  <2>7. CASE Ignores(c, p)
    BY <1>7, <2>2, <2>3, <2>7 DEF Ignores
  <2>8. CASE Answers(c, p)
    <3>1. p \in ToUI(D)
      BY <1>2, <1>3, <2>1, <2>8, OtherPackages DEF Answers, ToUI, Package, Kind
    <3>2. Way(K, D, TM, toClient', answered)
      BY <1>3, <1>5, <2>3, <2>8, <3>1, WayMoves DEF Answers
    <3> QED BY <1>7, <2>2, <2>3, <2>8, <3>2 DEF Answers
  <2>9. CASE Notifies(c, p)
    <3>1. Package(Master, p.src, "Management") \in ToBroker(K[c]) /\ c \in Broker
      BY <1>3, <2>9 DEF Notifies, ToBroker, Package, Kind
    <3>2. Way(K, D, TM, toClient', answered)
      BY <1>3, <1>5, <2>3, <2>9, <3>1, WayMoves DEF Notifies
    <3> QED BY <1>7, <2>2, <2>3, <2>9, <3>2 DEF Notifies
  <2>10. CASE Commands(c, p)
    <3>1. PICK b \in Broker : b = route[p.dst]
      BY <1>5, <2>10 DEF Commands, Device, RoutesOK
    <3>2. p.dst \in K[b]
      BY <1>3, <2>10, <3>1 DEF Known, Commands
    <3>3. p \in ToBroker(K[b])
      BY <2>1, <2>10, <3>2 DEF Commands, ToBroker, Package, Kind
    <3>4. Way(K, D, TM, toClient', answered)
      BY <1>3, <1>5, <2>3, <2>10, <3>1, <3>3, WayMoves DEF Commands
    <3> QED BY <1>7, <2>2, <2>3, <2>10, <3>4 DEF Commands
  <2> QED BY <2>1, <2>5, <2>6, <2>7, <2>8, <2>9, <2>10 DEF Handles
<1>13. CASE Stops
  BY <1>5, <1>7, <1>13 DEF Stops
<1>14. CASE UIReads
  <2>1. toClient[UI] \in Seq(ToUI(D)) /\ toClient[UI] # <<>>
    BY <1>5, <1>14 DEF UIReads, Way
  <2>2. Head(toClient[UI]) \in ToUI(D)
    BY <2>1
  <2>3. PICK TC : TC = toClient'
    OBVIOUS
  <2>4. TC \in [Connection -> Seq(S)] /\ Way(K, D, toManager, TC, answered)
    BY <1>3, <1>5, <1>6, <1>14, <2>3, WayMoves, Sends DEF UIReads
  <2>5. Way(K, D, toManager, TC, answered')
    BY <1>3, <1>5, <1>14, <2>2, <2>4, WayMoves DEF UIReads
  <2> QED BY <1>7, <1>14, <2>3, <2>5 DEF UIReads
<1>15. CASE Withdraw
  <2>1. Package(UIAddress, Master, "Management") \in FromUI(D)
    BY DEF FromUI
  <2>2. Way(K, D, toManager', toClient, answered)
    BY <1>3, <1>5, <1>15, <2>1, WayMoves DEF Withdraw
  <2> QED BY <1>7, <1>15, <2>2 DEF Withdraw
<1>16. ASSUME NEW a \in Device, NEW kind \in {"ReadRequest", "Write"}, Command(a, kind) PROVE WayInv'
  <2>1. Package(UIAddress, a, kind) \in FromUI(D)
    BY <1>2 DEF FromUI, Package
  <2>2. Way(K, D, toManager', toClient, answered)
    BY <1>3, <1>5, <1>16, <2>1, WayMoves DEF Command
  <2> QED BY <1>7, <1>16, <2>2 DEF Command
<1> QED BY <1>8, <1>9, <1>10, <1>11, <1>12, <1>13, <1>14, <1>15, <1>16
        DEF Next, BrokerStep, ManagerStep, Connection, Device

----------------------------------------------------------------------------
\* A broker asks for one address at a time, and an address is given out once.

\* AskInv of one broker.
AskOK(b) ==
    /\ b \in ipRequests => pc[b] = "recv ip" /\ ipReplies[b] = <<>>
    /\ ipReplies[b] # <<>> => pc[b] = "recv ip" /\ Len(ipReplies[b]) = 1
    /\ pc[b] # "serve" => registered[b] < Devices
    /\ pc[b] = "register" /\ Current(b) \notin failed => ip[b] # NoAddress
    /\ \A k \in Nat : <<b, k>> \in failed => k <= registered[b] \/ (k = registered[b] + 1 /\ pc[b] = "register")
    /\ \A k \in Nat : <<b, k>> \in DOMAIN address <=> k \in 1 .. registered[b]

LEMMA AskInit == Init => AskInv /\ GivenInv
<1> SUFFICES ASSUME Init PROVE AskInv /\ GivenInv
  OBVIOUS
<1>1. /\ \A b \in Broker : /\ pc[b] = "ask" /\ ipReplies[b] = <<>> /\ toManager[b] = <<>> /\ registered[b] = 0
                           /\ b \notin ipRequests /\ ip[b] = NoAddress
      /\ failed = {} /\ DOMAIN address = {} /\ DOMAIN route = {UIAddress}
  BY DEF Init, Connection
<1>2. \A k, a : ~ Describes(<<>>, k, a)
  BY DEF Describes
<1>3. \A b \in Broker, a \in Nat : ~ Has(b, a)
  BY <1>1 DEF Has, Owns, Fresh
<1>4. 0 < Devices /\ \A k \in Nat : k \notin 1 .. 0
  BY DevicesAssumption
<1>5. ASSUME NEW b \in Broker PROVE AskOK(b)
  BY <1>1, <1>4 DEF AskOK
<1>6. AskInv
  BY <1>5 DEF AskInv, AskOK
<1>7. GivenInv
  BY <1>1, <1>2, <1>3 DEF GivenInv, Has
<1> QED BY <1>6, <1>7

LEMMA AskStep ==
    ASSUME TypeInv, WayInv, AskInv, [Next]_vars
    PROVE  AskInv'
<1> SUFFICES ASSUME NEW b \in Broker PROVE AskOK(b)'
  BY DEF AskInv, AskOK
<1>1. AskOK(b)
  BY DEF AskInv, AskOK
<1>2. PICK G : G = Given(ip_count) \ {NoAddress}
  OBVIOUS
<1>3. /\ pc \in [Broker -> {"ask", "recv ip", "register", "serve"}] /\ registered \in [Broker -> 0 .. Devices]
      /\ ipReplies \in [Broker -> Seq(G)] /\ ip \in [Broker -> Given(ip_count)]
  BY <1>2 DEF TypeInv, BrokerOK
<1>4. PICK r \in Nat : r = registered[b]
  <2>1. registered[b] \in 0 .. Devices
    BY <1>3
  <2> QED BY <2>1, DevicesAssumption
<1>5. \A d, k, m : <<d, k>> = <<b, m>> <=> d = b /\ k = m
  OBVIOUS
<1>6. ASSUME UNCHANGED <<pc[b], registered[b], ip[b], address>>, b \in ipRequests' => b \in ipRequests,
             ipReplies'[b] = ipReplies[b], \A k : <<b, k>> \in failed' <=> <<b, k>> \in failed
      PROVE  AskOK(b)'
  BY <1>1, <1>6 DEF AskOK, Current
<1>7. ASSUME UNCHANGED <<broker, short, devices>> PROVE AskOK(b)'
  BY <1>6, <1>7 DEF broker, short, devices
<1>8. CASE UNCHANGED vars
  BY <1>7, <1>8 DEF vars
<1>9. ASSUME NEW d \in Broker, Ask(d) PROVE AskOK(b)'
  <2>1. pc[d] = "ask" /\ UNCHANGED <<registered, ip, ipReplies, address>>
    BY <1>9 DEF Ask
  <2>2. CASE d # b
    <3>1. \A k : <<b, k>> \in failed' <=> <<b, k>> \in failed
      <4>1. \A k : <<b, k>> # Current(d)
        BY <2>2 DEF Current
      <4>2. failed' = failed \/ failed' = failed \cup {Current(d)}
        BY <1>9 DEF Ask
      <4> QED BY <4>1, <4>2
    <3>2. pc'[b] = pc[b] /\ (b \in ipRequests' => b \in ipRequests)
      BY <1>3, <1>9, <2>2 DEF Ask, Goes
    <3> QED BY <1>6, <2>1, <3>1, <3>2
  <2>3. CASE d = b
    <3>1. ipReplies[b] = <<>> /\ b \notin ipRequests /\ r < Devices
      BY <1>1, <1>4, <2>1, <2>3 DEF AskOK
    <3>2. \A k \in Nat : <<b, k>> \in failed => k <= r
      BY <1>1, <1>4, <2>1, <2>3 DEF AskOK
    <3>3. CASE failed' = failed /\ pc'[b] = "recv ip"
      BY <1>1, <1>4, <2>1, <3>1, <3>2, <3>3 DEF AskOK
    <3>4. CASE failed' = failed \cup {Current(d)} /\ pc'[b] = "register" /\ ipRequests' = ipRequests
      <4>1. \A k \in Nat : <<b, k>> \in failed' => k <= r \/ k = r + 1
        BY <1>4, <1>5, <2>3, <3>2, <3>4 DEF Current
      <4>2. Current(b)' \in failed'
        BY <2>1, <2>3, <3>4 DEF Current
      <4> QED BY <1>1, <1>4, <2>1, <3>1, <3>4, <4>1, <4>2 DEF AskOK
    <3> QED BY <1>3, <1>9, <2>3, <3>3, <3>4 DEF Ask, Goes
  <2> QED BY <2>2, <2>3
<1>10. ASSUME NEW d \in Broker, ReceiveIp(d) PROVE AskOK(b)'
  <2>1. CASE d = b
    <3>1. ipReplies[b] \in Seq(G) /\ ipReplies[b] # <<>> /\ pc[b] = "recv ip"
      BY <1>3, <1>10, <2>1 DEF ReceiveIp
    <3>2. Head(ipReplies[b]) \in G
      BY <3>1, Shorter
    <3>3. /\ ip'[b] = Head(ipReplies[b]) /\ pc'[b] = "register" /\ ipReplies'[b] = <<>> /\ b \notin ipRequests'
          /\ UNCHANGED <<registered, failed, address>>
      BY <1>1, <1>3, <1>10, <2>1 DEF ReceiveIp, Goes, AskOK, devices
    <3>4. ip'[b] # NoAddress
      BY <1>2, <3>2, <3>3
    <3> QED BY <1>1, <1>10, <3>1, <3>3, <3>4 DEF AskOK
  <2>2. CASE d # b
    BY <1>3, <1>6, <1>10, <2>2 DEF ReceiveIp, Goes, devices
  <2> QED BY <2>1, <2>2
<1>11. ASSUME NEW d \in Broker, Register(d) PROVE AskOK(b)'
  <2>1. UNCHANGED <<ip, ipRequests, ipReplies, failed>> /\ pc[d] = "register"
    BY <1>11 DEF Register, short
  <2>2. DOMAIN address' = DOMAIN address \cup {Current(d)}
    BY <1>11 DEF Register, DescribedAs
  <2>3. CASE d # b
    <3>1. \A k : <<b, k>> \in DOMAIN address' <=> <<b, k>> \in DOMAIN address
      BY <1>5, <2>2, <2>3 DEF Current
    <3>2. pc'[b] = pc[b] /\ registered'[b] = registered[b]
      BY <1>3, <1>11, <2>3 DEF Register, Goes
    <3> QED BY <1>1, <2>1, <3>1, <3>2 DEF AskOK, Current
  <2>4. CASE d = b
    <3>1. ipReplies[b] = <<>> /\ b \notin ipRequests /\ r < Devices
      BY <1>1, <1>4, <2>1, <2>4 DEF AskOK
    <3>2. registered'[b] = r + 1 /\ pc'[b] \in {"ask", "serve"} /\ (pc'[b] # "serve" => r + 1 # Devices)
      BY <1>3, <1>4, <1>11, <2>4 DEF Register, Goes, LastDevice
    <3>3. \A k \in Nat : <<b, k>> \in failed => k <= r + 1
      <4>1. \A k \in Nat : <<b, k>> \in failed => k <= r \/ k = r + 1
        BY <1>1, <1>4 DEF AskOK
      <4> QED BY <4>1
    <3>4. \A k \in Nat : <<b, k>> \in DOMAIN address' <=> k \in 1 .. r + 1
      <4>1. \A k \in Nat : <<b, k>> \in DOMAIN address <=> k \in 1 .. r
        BY <1>1, <1>4 DEF AskOK
      <4>2. \A k \in Nat : k \in 1 .. r + 1 <=> k \in 1 .. r \/ k = r + 1
        OBVIOUS
      <4>3. \A k \in Nat : <<b, k>> \in DOMAIN address' <=> <<b, k>> \in DOMAIN address \/ k = r + 1
        BY <1>4, <1>5, <2>2, <2>4 DEF Current
      <4> QED BY <4>1, <4>2, <4>3
    <3>5. r + 1 # Devices => r + 1 < Devices
      BY <3>1, DevicesAssumption
    <3> QED BY <2>1, <3>1, <3>2, <3>3, <3>4, <3>5 DEF AskOK
  <2> QED BY <2>3, <2>4
<1>12. ASSUME NEW d \in Broker, Serve(d) PROVE AskOK(b)'
  BY <1>7, <1>12 DEF Serve
<1>13. ASSUME NEW c \in Connection, Handle(c) PROVE AskOK(b)'
  BY <1>7, <1>13 DEF Handle
<1>14. ASSUME NEW d \in Broker, GiveIp(d) PROVE AskOK(b)'
  <2>1. CASE d = b
    <3>1. pc[b] = "recv ip" /\ b \notin ipRequests' /\ ipReplies'[b] = <<ip_count>> /\ Len(ipReplies'[b]) = 1
      BY <1>1, <1>3, <1>14, <2>1 DEF GiveIp, AskOK
    <3> QED BY <1>1, <1>14, <3>1 DEF GiveIp, AskOK, Current, broker, devices
  <2>2. CASE d # b
    BY <1>3, <1>6, <1>14, <2>2 DEF GiveIp, broker, devices
  <2> QED BY <2>1, <2>2
<1>15. CASE Stops \/ UIReads \/ Withdraw
  BY <1>7, <1>15 DEF Stops, UIReads, Withdraw
<1>16. ASSUME NEW a \in Device, NEW kind \in {"ReadRequest", "Write"}, Command(a, kind) PROVE AskOK(b)'
  BY <1>7, <1>16 DEF Command
<1> QED BY <1>8, <1>9, <1>10, <1>11, <1>12, <1>13, <1>14, <1>15, <1>16
        DEF Next, BrokerStep, ManagerStep, Connection, Device

\* What may be in a broker's queue, when a package that describes nothing is put into it.
LEMMA SendsOther ==
    ASSUME NEW S, toManager \in [Connection -> Seq(S)], NEW d \in Connection, NEW e \in S,
           d \in Broker => e.kind # "describe",
           toManager' = [toManager EXCEPT ![d] = Append(@, e)]
    PROVE  \A b \in Broker, k, a \in Nat : Describes(toManager'[b], k, a) => Describes(toManager[b], k, a)
<1> TAKE b \in Broker, k, a \in Nat
<1>1. b \in Connection
  BY DEF Connection
<1>2. CASE b # d
  BY <1>1, <1>2
<1>3. CASE b = d
  <2>1. PICK q \in Seq(S), m \in Nat : q = toManager[b] /\ m = Len(q)
    BY <1>1
  <2>2. toManager'[b] = Append(q, e) /\ e.kind # "describe"
    BY <1>3, <2>1
  <2>3. Len(Append(q, e)) = m + 1 /\ Append(q, e)[m + 1] = e /\ \A j \in 1 .. m : Append(q, e)[j] = q[j]
    BY <2>1, Longer
  <2>4. \A j \in 1 .. m + 1 : j \in 1 .. m \/ j = m + 1
    OBVIOUS
  <2> QED BY <2>1, <2>2, <2>3, <2>4 DEF Describes
<1> QED BY <1>2, <1>3

LEMMA GivenStep ==
    ASSUME TypeInv, WayInv, AskInv, GivenInv, [Next]_vars
    PROVE  GivenInv'
<1>0. PICK n \in Nat : n = ip_count /\ n >= 3
  BY DEF TypeInv, ManagerOK
<1>1. PICK S : S = PackageBelow(n)
  OBVIOUS
<1>2. /\ toManager \in [Connection -> Seq(S)] /\ toClient \in [Connection -> Seq(S)]
      /\ UI \in Connection /\ UI \notin Broker /\ \A b \in Broker : b \in Connection
  BY <1>0, <1>1, BrokerAssumption DEF TypeInv, QueuesOK, Connection
<1>3. /\ pc \in [Broker -> {"ask", "recv ip", "register", "serve"}] /\ ip \in [Broker -> Given(n)]
      /\ ipReplies \in [Broker -> Seq(Given(n) \ {NoAddress})] /\ registered \in [Broker -> 0 .. Devices]
      /\ \A x \in DOMAIN address : address[x] \in Given(n)
  BY <1>0 DEF TypeInv, BrokerOK
<1>4. Given(n) \subseteq 0 .. n - 1 /\ 0 .. n - 1 \subseteq Nat /\ n \notin 0 .. n - 1 /\ n # NoAddress
  BY <1>0, Numbers
<1>5. \A d, e, k, m : <<d, k>> = <<e, m>> <=> d = e /\ k = m
  OBVIOUS
\* No address changes hands.
<1>6. ASSUME \A b \in Broker, a \in Nat : (Owns(b, a)' <=> Owns(b, a)) /\ (Fresh(b, a)' <=> Fresh(b, a)),
             \A b \in Broker : ip'[b] # NoAddress => ip'[b] \in Nat /\ (ip'[b] = ip[b] \/ Fresh(b, ip'[b])),
             \A b \in Broker, k, a \in Nat : Describes(toManager'[b], k, a) => \E j \in Nat : Describes(toManager[b], j, a),
             \A a \in DOMAIN route' \ {UIAddress} : a \in Nat /\ route'[a] \in Broker /\ Owns(route'[a], a),
             address' = address, failed \subseteq failed'
      PROVE  GivenInv'
  <2>1. \A b, e \in Broker, a \in Nat : (Has(b, a) /\ Has(e, a) => b = e)'
    BY <1>6 DEF GivenInv, Has
  <2>2. \A b \in Broker, a \in Nat : (Fresh(b, a) => a # NoAddress /\ ~ Owns(b, a))'
    BY <1>6 DEF GivenInv
  <2>3. \A b \in Broker : (ip[b] # NoAddress => Has(b, ip[b]))'
    BY <1>6 DEF GivenInv, Has
  <2>4. \A b \in Broker, k, a \in Nat : (Describes(toManager[b], k, a) /\ a # NoAddress => Owns(b, a))'
    BY <1>6 DEF GivenInv
  <2>5. \A a \in DOMAIN route' \ {UIAddress} : Owns(route[a], a)'
    BY <1>6
  <2>6. \A x, y \in (DOMAIN address \ failed)' : (address[x] = address[y] => x = y)'
    BY <1>6 DEF GivenInv
  <2> QED BY <2>1, <2>2, <2>3, <2>4, <2>5, <2>6 DEF GivenInv
<1>7. \A a \in DOMAIN route \ {UIAddress} : a \in Nat /\ route[a] \in Broker /\ Owns(route[a], a)
  BY <1>0, <1>4, Numbers DEF TypeInv, ManagerOK, WayInv, GivenInv
<1>8. \A b \in Broker : ip[b] \in Nat
  BY <1>3, <1>4
\* Only packages move.
<1>9. ASSUME UNCHANGED <<broker, short, devices>>,
             \A b \in Broker, k, a \in Nat : Describes(toManager'[b], k, a) => \E j \in Nat : Describes(toManager[b], j, a),
             \A a \in DOMAIN route' \ {UIAddress} : a \in Nat /\ route'[a] \in Broker /\ Owns(route'[a], a)
      PROVE  GivenInv'
  <2>1. UNCHANGED <<pc, registered, ip, ipReplies, failed, address>>
    BY <1>9 DEF broker, short, devices
  <2>2. \A b \in Broker, a \in Nat : (Owns(b, a)' <=> Owns(b, a)) /\ (Fresh(b, a)' <=> Fresh(b, a))
    BY <2>1 DEF Owns, Fresh, Current
  <2> QED BY <1>6, <1>8, <1>9, <2>1, <2>2
<1>10. ASSUME UNCHANGED <<broker, short, devices, route>>,
              \A b \in Broker, k, a \in Nat : Describes(toManager'[b], k, a) => Describes(toManager[b], k, a)
       PROVE  GivenInv'
  BY <1>7, <1>9, <1>10
<1>11. CASE UNCHANGED vars
  BY <1>10, <1>11 DEF vars
<1>12. ASSUME NEW d \in Broker, Ask(d) PROVE GivenInv'
  <2>1. pc[d] = "ask" /\ UNCHANGED <<registered, ip, ipReplies, toManager, route, address>> /\ failed \subseteq failed'
    BY <1>12 DEF Ask
  <2>2. ASSUME NEW b \in Broker, NEW a \in Nat PROVE Fresh(b, a)' <=> Fresh(b, a)
    <3>1. CASE b = d
      <4>1. pc'[b] = "register" => Current(b)' \in failed'
        BY <1>3, <1>12, <2>1, <3>1 DEF Ask, Goes, Current
      <4> QED BY <2>1, <3>1, <4>1 DEF Fresh
    <3>2. CASE b # d
      <4>1. pc'[b] = pc[b]
        BY <1>3, <1>12, <3>2 DEF Ask, Goes
      <4>2. Current(b)' = Current(b) /\ (Current(b) \in failed' <=> Current(b) \in failed)
        BY <1>5, <1>12, <2>1, <3>2 DEF Ask, Current
      <4> QED BY <2>1, <4>1, <4>2 DEF Fresh
    <3> QED BY <3>1, <3>2
  <2>3. \A b \in Broker, a \in Nat : Owns(b, a)' <=> Owns(b, a)
    BY <2>1 DEF Owns
  <2> QED BY <1>6, <1>7, <1>8, <2>1, <2>2, <2>3
<1>13. ASSUME NEW d \in Broker, ReceiveIp(d) PROVE GivenInv'
  <2>1. /\ pc[d] = "recv ip" /\ ipReplies[d] # <<>> /\ UNCHANGED <<registered, toManager, route, failed, address>>
        /\ ipReplies' = [ipReplies EXCEPT ![d] = <<>>] /\ ip' = [ip EXCEPT ![d] = Head(ipReplies[d])]
        /\ pc' = [pc EXCEPT ![d] = "register"]
    BY <1>13 DEF ReceiveIp, devices, Goes
  <2>2. PICK x : x = Head(ipReplies[d])
    OBVIOUS
  <2>3. x \in Nat
    <3>1. ipReplies[d] \in Seq(Given(n) \ {NoAddress})
      BY <1>3
    <3>2. x \in Given(n)
      BY <2>1, <2>2, <3>1, Shorter
    <3> QED BY <1>4, <3>2
  <2>4. Current(d) \notin failed
    <3>1. PICK r \in Nat : r = registered[d]
      <4>1. registered[d] \in 0 .. Devices
        BY <1>3
      <4> QED BY <4>1, DevicesAssumption
    <3>2. r + 1 \in Nat /\ ~ (r + 1 <= r)
      OBVIOUS
    <3>3. \A k \in Nat : <<d, k>> \in failed => k <= r
      BY <2>1, <3>1 DEF AskInv
    <3> QED BY <3>1, <3>2, <3>3 DEF Current
  <2>5. ASSUME NEW b \in Broker, NEW a \in Nat PROVE Fresh(b, a)' <=> Fresh(b, a)
    <3>1. CASE b = d
      <4>1. Fresh(b, a) <=> x = a
        BY <2>1, <2>2, <3>1 DEF Fresh
      <4>2. pc'[d] = "register" /\ ip'[d] = x /\ ipReplies'[d] = <<>> /\ Current(d)' \notin failed'
        BY <1>3, <2>1, <2>2, <2>4 DEF Current
      <4>3. Fresh(b, a)' <=> x = a
        BY <3>1, <4>2 DEF Fresh
      <4> QED BY <4>1, <4>3
    <3>2. CASE b # d
      <4>1. pc'[b] = pc[b] /\ ip'[b] = ip[b] /\ ipReplies'[b] = ipReplies[b] /\ Current(b)' = Current(b)
        BY <1>3, <2>1, <3>2 DEF Current
      <4> QED BY <2>1, <4>1 DEF Fresh
    <3> QED BY <3>1, <3>2
  <2>6. \A b \in Broker, a \in Nat : Owns(b, a)' <=> Owns(b, a)
    BY <2>1 DEF Owns
  <2>7. Fresh(d, x) /\ ip'[d] = x
    BY <1>3, <2>1, <2>2 DEF Fresh
  <2>8. \A b \in Broker : b # d => ip'[b] = ip[b]
    BY <1>3, <2>1
  <2>9. \A b \in Broker : ip'[b] # NoAddress => ip'[b] \in Nat /\ (ip'[b] = ip[b] \/ Fresh(b, ip'[b]))
    BY <1>8, <2>3, <2>7, <2>8
  <2> QED BY <1>6, <1>7, <2>1, <2>5, <2>6, <2>9
<1>14. ASSUME NEW d \in Broker, Register(d) PROVE GivenInv'
  <2>1. /\ pc[d] = "register" /\ UNCHANGED <<ip, ipReplies, route, failed>> /\ address' = DescribedAs(d, ip[d])
        /\ toManager' = [toManager EXCEPT ![d] = Append(@, Description(ip[d]))]
    BY <1>14 DEF Register, short
  <2>2. PICK r \in Nat : r = registered[d]
    <3>1. registered[d] \in 0 .. Devices
      BY <1>3
    <3> QED BY <3>1, DevicesAssumption
  <2>3. PICK x, z : x = ip[d] /\ z = Current(d) /\ x \in Nat
    BY <1>8
  <2>4. z = <<d, r + 1>> /\ z \notin DOMAIN address /\ r + 1 \in Nat
    <3>1. r + 1 \in Nat /\ r + 1 \notin 1 .. r
      OBVIOUS
    <3>2. z = <<d, r + 1>>
      BY <2>2, <2>3 DEF Current
    <3> QED BY <2>2, <3>1, <3>2 DEF AskInv
  <2>5. DOMAIN address' = DOMAIN address \cup {z} /\ address'[z] = x /\ \A y \in DOMAIN address : address'[y] = address[y]
    BY <2>1, <2>3, <2>4 DEF DescribedAs
  <2>6. ASSUME NEW b \in Broker, NEW a \in Nat
        PROVE  Owns(b, a)' <=> Owns(b, a) \/ (b = d /\ a = x /\ a # NoAddress)
    <3>1. ASSUME Owns(b, a)' PROVE Owns(b, a) \/ (b = d /\ a = x /\ a # NoAddress)
      <4>1. PICK k \in Nat : <<b, k>> \in DOMAIN address' /\ address'[<<b, k>>] = a /\ a # NoAddress
        BY <3>1 DEF Owns
      <4>2. CASE <<b, k>> = z
        BY <1>5, <2>4, <2>5, <4>1, <4>2
      <4>3. CASE <<b, k>> \in DOMAIN address
        BY <2>5, <4>1, <4>3 DEF Owns
      <4> QED BY <2>5, <4>1, <4>2, <4>3
    <3>2. ASSUME Owns(b, a) PROVE Owns(b, a)'
      BY <2>5, <3>2 DEF Owns
    <3>3. ASSUME b = d, a = x, a # NoAddress PROVE Owns(b, a)'
      BY <2>4, <2>5, <3>3 DEF Owns
    <3> QED BY <3>1, <3>2, <3>3
  <2>7. ipReplies[d] = <<>> /\ pc'[d] # "register"
    BY <1>3, <1>14, <2>1 DEF Register, Goes, AskInv
  <2>8. ASSUME NEW b \in Broker, NEW a \in Nat PROVE Fresh(b, a)' <=> Fresh(b, a) /\ b # d
    <3>1. CASE b = d
      BY <2>1, <2>7, <3>1 DEF Fresh
    <3>2. CASE b # d
      <4>1. pc'[b] = pc[b] /\ Current(b)' = Current(b)
        BY <1>3, <1>14, <3>2 DEF Register, Goes, Current
      <4> QED BY <2>1, <3>2, <4>1 DEF Fresh
    <3> QED BY <3>1, <3>2
  <2>9. x # NoAddress => Has(d, x)
    BY <2>3 DEF GivenInv
  <2>10. ASSUME NEW b \in Broker, NEW a \in Nat, Has(b, a)' PROVE Has(b, a)
    BY <2>6, <2>8, <2>9, <2>10 DEF Has
  <2>11. \A b, e \in Broker, a \in Nat : (Has(b, a) /\ Has(e, a) => b = e)'
    BY <2>10 DEF GivenInv
  <2>12. ASSUME NEW b \in Broker, NEW a \in Nat, Fresh(b, a)' PROVE a # NoAddress /\ ~ Owns(b, a)'
    BY <2>6, <2>8, <2>12 DEF GivenInv
  <2>13. ASSUME NEW b \in Broker, ip[b] # NoAddress PROVE Has(b, ip[b])'
    <3>1. PICK y \in Nat : y = ip[b]
      BY <1>8
    <3>2. Has(b, y)
      BY <2>13, <3>1 DEF GivenInv
    <3>3. Owns(b, y)' \/ Fresh(b, y)'
      BY <2>3, <2>6, <2>8, <2>13, <3>1, <3>2 DEF Has
    <3> QED BY <2>1, <3>1, <3>3 DEF Has
  <2>14. ASSUME NEW b \in Broker, NEW k \in Nat, NEW a \in Nat, Describes(toManager'[b], k, a), a # NoAddress
         PROVE  Owns(b, a)'
    <3>1. CASE b # d
      <4>1. Describes(toManager[b], k, a)
        BY <1>2, <2>1, <2>14, <3>1
      <4>2. Owns(b, a)
        BY <2>14, <4>1 DEF GivenInv
      <4> QED BY <2>6, <4>2
    <3>2. CASE b = d
      <4>1. PICK q \in Seq(S), m \in Nat : q = toManager[d] /\ m = Len(q)
        BY <1>2
      <4>2. PICK e \in S : e = Description(x) /\ e.src = x
        <5>1. x \in Given(n)
          BY <1>3, <2>3
        <5> QED BY <1>0, <1>1, <5>1, Descriptions
      <4>3. toManager'[d] = Append(q, e)
        BY <1>2, <2>1, <2>3, <4>1, <4>2
      <4>4. Len(Append(q, e)) = m + 1 /\ Append(q, e)[m + 1] = e /\ \A j \in 1 .. m : Append(q, e)[j] = q[j]
        BY <4>1, Longer
      <4>5. \A j \in 1 .. m + 1 : j \in 1 .. m \/ j = m + 1
        OBVIOUS
      <4>6. Describes(toManager[d], k, a) \/ a = x
        BY <2>14, <3>2, <4>1, <4>2, <4>3, <4>4, <4>5 DEF Describes
      <4>7. Owns(d, a) \/ a = x
        BY <2>14, <4>6 DEF GivenInv
      <4> QED BY <2>6, <2>14, <3>2, <4>7
    <3> QED BY <3>1, <3>2
  <2>15. \A a \in DOMAIN route' \ {UIAddress} : Owns(route[a], a)'
    <3> TAKE a \in DOMAIN route' \ {UIAddress}
    <3>1. PICK b \in Broker : b = route[a] /\ b = route'[a] /\ Owns(b, a) /\ a \in Nat
      BY <1>7, <2>1
    <3>2. Owns(b, a)'
      BY <2>6, <3>1
    <3> QED BY <3>1, <3>2
  <2>16. \A v, y \in (DOMAIN address \ failed)' : (address[v] = address[y] => v = y)'
    <3>1. ASSUME NEW y \in DOMAIN address \ failed, z \notin failed PROVE address[y] # x
      <4>1. Fresh(d, x)
        BY <2>1, <2>3, <3>1 DEF Fresh
      <4>2. x # NoAddress /\ ~ Owns(d, x)
        BY <2>3, <4>1 DEF GivenInv
      <4>3. PICK e \in Broker, k \in Nat : y = <<e, k>>
        <5>1. y \in Broker \X Nat
          BY DEF TypeInv, BrokerOK
        <5> QED BY <5>1
      <4>4. address[y] = x => Owns(e, x)
        BY <4>2, <4>3 DEF Owns
      <4> QED BY <2>3, <4>1, <4>2, <4>4 DEF GivenInv, Has
    <3>2. \A v, y \in DOMAIN address \ failed : address[v] = address[y] => v = y
      BY DEF GivenInv
    <3> QED BY <2>1, <2>5, <3>1, <3>2
  <2> QED BY <2>1, <2>11, <2>12, <2>13, <2>14, <2>15, <2>16 DEF GivenInv
<1>15. ASSUME NEW d \in Broker, Serve(d) PROVE GivenInv'
  <2>1. PICK e \in S : toManager' = [toManager EXCEPT ![d] = Append(@, e)] /\ e.kind = "ReadResponse"
    <3>1. Head(toClient[d]) \in S
      BY <1>2, <1>15, Sends DEF Serve
    <3>2. AnswerOf(Head(toClient[d])) \in S /\ AnswerOf(Head(toClient[d])).kind = "ReadResponse"
      BY <1>1, <3>1, Packages DEF AnswerOf, Kind, Package
    <3> QED BY <1>15, <3>2 DEF Serve
  <2> QED BY <1>2, <1>10, <1>15, <2>1, SendsOther DEF Serve
<1>16. ASSUME NEW c \in Connection, Handle(c) PROVE GivenInv'
  <2>1. PICK p \in S : Takes(c, p) /\ Handles(c, p)
    BY <1>0, <1>1, <1>16, Handled
  <2>2. PICK q \in Seq(S) : q = toManager[c] /\ q # <<>> /\ p = q[1]
    BY <1>2, <2>1, Shorter DEF Takes
  <2>3. \A k \in 1 .. Len(Tail(q)) : Tail(q)[k] = q[k + 1] /\ k + 1 \in 1 .. Len(q) /\ k + 1 \in Nat
    BY <2>2, Shorter
  <2>4. toManager'[c] = Tail(q) /\ \A b \in Broker : b # c => toManager'[b] = toManager[b]
    BY <1>2, <2>1, <2>2 DEF Takes
  <2>5. ASSUME NEW b \in Broker, NEW k \in Nat, NEW a \in Nat, Describes(toManager'[b], k, a)
        PROVE  \E j \in Nat : Describes(toManager[b], j, a)
    <3>1. CASE b = c
      BY <2>2, <2>3, <2>4, <2>5, <3>1 DEF Describes
    <3>2. CASE b # c
      BY <2>4, <2>5, <3>2
    <3> QED BY <3>1, <3>2
  <2>6. ASSUME NEW a \in DOMAIN route' \ {UIAddress} PROVE a \in Nat /\ route'[a] \in Broker /\ Owns(route'[a], a)
    <3>1. CASE Registers(c, p)
      <4>1. c \in Broker /\ p.src \in Nat \ {NoAddress, UIAddress} /\ DOMAIN route' = DOMAIN route \cup {p.src}
            /\ route'[a] = IF a = p.src THEN c ELSE route[a]
        BY <2>6, <3>1 DEF Registers
      <4>2. Describes(toManager[c], 1, p.src)
        <5>1. 1 \in 1 .. Len(q)
          BY <2>2, Shorter
        <5> QED BY <2>2, <3>1, <5>1 DEF Describes, Registers
      <4>3. Owns(c, p.src)
        BY <4>1, <4>2 DEF GivenInv
      <4> QED BY <1>7, <2>6, <4>1, <4>3
    <3>2. CASE ~ Registers(c, p)
      <4>1. a \in DOMAIN route /\ route'[a] = route[a]
        BY <2>1, <2>6, <3>2 DEF Handles, Forgets, Ignores, Answers, Notifies, Commands
      <4> QED BY <1>7, <2>6, <4>1
    <3> QED BY <3>1, <3>2
  <2> QED BY <1>9, <2>1, <2>5, <2>6 DEF Takes
<1>17. ASSUME NEW d \in Broker, GiveIp(d) PROVE GivenInv'
  <2>1. /\ pc[d] = "recv ip" /\ ipReplies[d] = <<>> /\ ipReplies' = [ipReplies EXCEPT ![d] = <<n>>]
        /\ UNCHANGED <<pc, registered, ip, toManager, route, failed, address>>
    BY <1>0, <1>17 DEF GiveIp, AskInv, broker, devices
  <2>2. ASSUME NEW b \in Broker PROVE ~ Owns(b, n) /\ ~ Fresh(b, n)
    <3>1. \A k \in Nat : <<b, k>> \in DOMAIN address => address[<<b, k>>] # n
      BY <1>3, <1>4
    <3>2. ip[b] # n
      BY <1>3, <1>4
    <3>3. ipReplies[b] # <<>> => Head(ipReplies[b]) # n
      <4>1. ipReplies[b] \in Seq(Given(n) \ {NoAddress})
        BY <1>3
      <4>2. ipReplies[b] # <<>> => Head(ipReplies[b]) \in Given(n)
        BY <4>1, Shorter
      <4> QED BY <1>4, <4>2
    <3> QED BY <3>1, <3>2, <3>3 DEF Owns, Fresh
  <2>3. ASSUME NEW b \in Broker, NEW a \in Nat PROVE Owns(b, a)' <=> Owns(b, a)
    BY <2>1 DEF Owns
  <2>4. ASSUME NEW b \in Broker, NEW a \in Nat PROVE Fresh(b, a)' <=> IF b = d THEN a = n ELSE Fresh(b, a)
    <3>1. CASE b = d
      <4>1. ipReplies'[b] = <<n>> /\ <<n>> # <<>> /\ Head(<<n>>) = n
        <5>1. <<n>> # <<>> /\ Head(<<n>>) = n
          OBVIOUS
        <5> QED BY <1>3, <2>1, <3>1, <5>1
      <4> QED BY <2>1, <3>1, <4>1 DEF Fresh
    <3>2. CASE b # d
      <4>1. ipReplies'[b] = ipReplies[b]
        BY <1>3, <2>1, <3>2
      <4> QED BY <2>1, <3>2, <4>1 DEF Fresh, Current
    <3> QED BY <3>1, <3>2
  <2>5. \A a \in Nat : ~ Fresh(d, a)
    BY <2>1 DEF Fresh
  <2>6. \A b, e \in Broker, a \in Nat : (Has(b, a) /\ Has(e, a) => b = e)'
    <3> TAKE b, e \in Broker, a \in Nat
    <3>1. CASE a = n
      BY <2>2, <2>3, <2>4, <3>1 DEF Has
    <3>2. CASE a # n
      BY <2>3, <2>4, <3>2 DEF Has, GivenInv
    <3> QED BY <3>1, <3>2
  <2>7. ASSUME NEW b \in Broker, NEW a \in Nat, Fresh(b, a)' PROVE a # NoAddress /\ ~ Owns(b, a)'
    BY <1>4, <2>2, <2>3, <2>4, <2>7 DEF GivenInv
  <2>8. ASSUME NEW b \in Broker, ip[b] # NoAddress PROVE Has(b, ip[b])'
    <3>1. PICK y \in Nat : y = ip[b]
      BY <1>8
    <3>2. Has(b, y)
      BY <2>8, <3>1 DEF GivenInv
    <3>3. Owns(b, y)' \/ Fresh(b, y)'
      BY <2>3, <2>4, <2>5, <3>2 DEF Has
    <3> QED BY <2>1, <3>1, <3>3 DEF Has
  <2>9. \A b \in Broker, k, a \in Nat : (Describes(toManager[b], k, a) /\ a # NoAddress => Owns(b, a))'
    BY <2>1, <2>3 DEF GivenInv
  <2>10. \A a \in DOMAIN route' \ {UIAddress} : Owns(route[a], a)'
    BY <1>7, <2>1, <2>3
  <2>11. \A x, y \in (DOMAIN address \ failed)' : (address[x] = address[y] => x = y)'
    BY <2>1 DEF GivenInv
  <2> QED BY <2>1, <2>6, <2>7, <2>8, <2>9, <2>10, <2>11 DEF GivenInv
<1>18. CASE Stops \/ UIReads
  BY <1>10, <1>18 DEF Stops, UIReads
<1>19. CASE Withdraw
  <2>1. \A b \in Broker : toManager'[b] = toManager[b]
    BY <1>2, <1>19 DEF Withdraw
  <2> QED BY <1>10, <1>19, <2>1 DEF Withdraw
<1>20. ASSUME NEW a \in Device, NEW kind \in {"ReadRequest", "Write"}, Command(a, kind) PROVE GivenInv'
  <2>1. \A b \in Broker : toManager'[b] = toManager[b]
    BY <1>2, <1>20 DEF Command
  <2> QED BY <1>10, <1>20, <2>1 DEF Command
<1> QED BY <1>11, <1>12, <1>13, <1>14, <1>15, <1>16, <1>17, <1>18, <1>19, <1>20
        DEF Next, BrokerStep, ManagerStep, Connection, Device

\* Two devices of one address are of the same broker, and so is its route.
LEMMA OwnedAddresses ==
    ASSUME TypeInv, WayInv, GivenInv
    PROVE  OwnAddresses
<1> SUFFICES ASSUME NEW x \in DOMAIN address, NEW y \in DOMAIN address
             PROVE  /\ address[x] = address[y] /\ x # y => x \in failed \/ y \in failed
                    /\ address[x] \in DOMAIN route => route[address[x]] = x[1]
  BY DEF OwnAddresses
<1>1. address[x] = address[y] /\ x # y => x \in failed \/ y \in failed
  BY DEF GivenInv
<1>2. ASSUME address[x] \in DOMAIN route PROVE route[address[x]] = x[1]
  <2>1. PICK b \in Broker, k \in Nat : x = <<b, k>>
    <3>1. x \in Broker \X Nat
      BY DEF TypeInv, BrokerOK
    <3> QED BY <3>1
  <2>2. PICK n \in Nat : n = ip_count /\ n >= 3
    BY DEF TypeInv, ManagerOK
  <2>3. PICK a : a = address[x]
    OBVIOUS
  <2>4. a \in Given(n) /\ a \in UIAddress .. n - 1
    BY <1>2, <2>2, <2>3 DEF TypeInv, BrokerOK, ManagerOK
  <2>5. a \in Nat /\ a # NoAddress /\ a # UIAddress
    BY <2>2, <2>4, Numbers DEF Given
  <2>6. Owns(b, a)
    BY <2>1, <2>3, <2>5 DEF Owns
  <2>7. route[a] \in Broker /\ Owns(route[a], a)
    BY <1>2, <2>3, <2>5 DEF WayInv, GivenInv
  <2>8. route[a] = b
    BY <2>5, <2>6, <2>7 DEF GivenInv, Has
  <2> QED BY <2>1, <2>3, <2>8
<1> QED BY <1>1, <1>2

----------------------------------------------------------------------------
\* Who commands, is answered once: what is counted in TalkInv, for one device.

Talk(a) ==
    Count(answered, From(a)) + Count(toClient[UI], From(a)) + Count(toManager[route[a]], Back(a))
        + Count(toClient[route[a]], For(a)) + Count(toManager[UI], For(a))
    <= Count(commands, {a})

LEMMA TalkInit == Init => TalkInv
BY DEF Init, TalkInv, Device

LEMMA SortsOfPackages ==
    ASSUME NEW a \in Nat \ {NoAddress, Master, UIAddress}, NEW s, NEW d, NEW k \in Kind
    PROVE  /\ Package(s, d, k) \in From(a) <=> s = a /\ d \in Nat
           /\ Package(s, d, k) \in Back(a) <=> s = a /\ d = UIAddress
           /\ Package(s, d, k) \in For(a) <=> s = UIAddress /\ d = a
BY DEF Package, From, Back, For, NoAddress, Master, UIAddress

\* A new device has been neither commanded nor heard.
LEMMA NewTalk ==
    ASSUME TypeInv, WayInv, GivenInv, NEW c \in Connection, NEW p \in PackageBelow(ip_count),
           Takes(c, p), Registers(c, p), p.src \notin Device
    PROVE  Talk(p.src)'
<1>1. PICK a \in Nat \ {NoAddress, Master, UIAddress} : a = p.src
  BY DEF Registers
<1>2. a \notin Device /\ c \in Broker /\ UI \notin Broker /\ route'[a] = c
  BY <1>1, BrokerAssumption DEF Registers
<1>3. /\ answered \in Seq(ToUI(Device)) /\ toClient[UI] \in Seq(ToUI(Device)) /\ toManager[UI] \in Seq(FromUI(Device))
      /\ toManager[c] \in Seq(FromBroker(Known(c))) /\ toClient[c] \in Seq(ToBroker(Known(c)))
  BY <1>2 DEF WayInv
<1>4. toManager \in [Connection -> Seq(PackageBelow(ip_count))] /\ UI \in Connection /\ UI # c
  BY <1>2 DEF TypeInv, QueuesOK, Connection
<1>5. /\ answered' = answered /\ toClient' = toClient /\ toManager'[UI] = toManager[UI] /\ toManager'[c] = Tail(toManager[c])
      /\ toManager[c] # <<>> /\ commands' = commands
  BY <1>4 DEF Takes, Registers
<1>6. \A e \in ToUI(Device) : e \notin From(a)
  BY <1>2 DEF ToUI, From
<1>7. \A e \in FromUI(Device) : e \notin For(a)
  BY <1>2 DEF FromUI, For, Package, Master
<1>8. a \notin Known(c)
  BY <1>2 DEF Known
<1>9. (\A e \in FromBroker(Known(c)) : e \notin Back(a)) /\ (\A e \in ToBroker(Known(c)) : e \notin For(a))
  BY <1>8 DEF FromBroker, Description, Package, Back, ToBroker, For, NoAddress, Master, UIAddress
<1>10. \A T, X : (\A e \in T : e \notin X) => \A q \in Seq(T) : Count(q, X) = 0
  <2> TAKE T, X
  <2> HAVE \A e \in T : e \notin X
  <2> TAKE q \in Seq(T)
  <2>1. \A k \in 1 .. Len(q) : q[k] \in T
    OBVIOUS
  <2> QED BY <2>1, CountNone
<1>11. Tail(toManager[c]) \in Seq(FromBroker(Known(c)))
  BY <1>3, <1>5, Shorter
<1>12. /\ Count(answered, From(a)) = 0 /\ Count(toClient[UI], From(a)) = 0 /\ Count(Tail(toManager[c]), Back(a)) = 0
       /\ Count(toClient[c], For(a)) = 0 /\ Count(toManager[UI], For(a)) = 0
  BY <1>3, <1>6, <1>7, <1>9, <1>10, <1>11
<1>13. Count(commands, {a}) \in Nat
  BY CountType DEF TypeInv, QueuesOK
<1>14. 0 + 0 + 0 + 0 + 0 <= Count(commands, {a})
  BY <1>13
<1> QED BY <1>1, <1>2, <1>5, <1>12, <1>14 DEF Talk

\* A device that is there.
LEMMA OldTalk ==
    ASSUME TypeInv, WayInv, NEW a \in Device, a \in Device', route'[a] = route[a], Talk(a), [Next]_vars
    PROVE  Talk(a)'
<1>0. PICK n \in Nat : n = ip_count /\ n >= 3
  BY DEF TypeInv, ManagerOK
<1>1. PICK S : S = PackageBelow(n)
  OBVIOUS
<1>2. /\ toManager \in [Connection -> Seq(S)] /\ toClient \in [Connection -> Seq(S)] /\ DOMAIN route \in SUBSET (UIAddress .. n - 1)
      /\ answered \in Seq(S) /\ commands \in Seq(Nat)
      /\ UI \in Connection /\ UI \notin Broker /\ \A c \in Broker : c \in Connection
  BY <1>0, <1>1, BrokerAssumption DEF TypeInv, QueuesOK, ManagerOK, Connection
<1>3. PICK b \in Broker : b = route[a] /\ b = route'[a] /\ b # UI
  BY BrokerAssumption DEF WayInv, Device
<1>4. a \in Nat \ {NoAddress, Master, UIAddress}
  BY <1>0, <1>2, Numbers DEF Device
<1>5. PICK F, B, O : F = From(a) /\ B = Back(a) /\ O = For(a)
  OBVIOUS
<1>6. PICK A, U, M, T, V \in Seq(S) : A = answered /\ U = toClient[UI] /\ M = toManager[b] /\ T = toClient[b] /\ V = toManager[UI]
  BY <1>2
<1>7. PICK x1, x2, x3, x4, x5, g \in Nat :
          /\ x1 = Count(A, F) /\ x2 = Count(U, F) /\ x3 = Count(M, B) /\ x4 = Count(T, O) /\ x5 = Count(V, O)
          /\ g = Count(commands, {a}) /\ x1 + x2 + x3 + x4 + x5 <= g
  BY <1>2, <1>3, <1>5, <1>6, CountType DEF Talk
<1>8. ASSUME NEW y1 \in Nat, NEW y2 \in Nat, NEW y3 \in Nat, NEW y4 \in Nat, NEW y5 \in Nat, NEW h \in Nat,
             y1 = Count(answered', F), y2 = Count(toClient'[UI], F), y3 = Count(toManager'[b], B),
             y4 = Count(toClient'[b], O), y5 = Count(toManager'[UI], O), h = Count(commands', {a}),
             y1 + y2 + y3 + y4 + y5 <= h
      PROVE  Talk(a)'
  BY <1>3, <1>5, <1>8 DEF Talk
\* Appending and taking, for each of the sorts.
<1>9. \A X : \A q \in Seq(S), e \in S :
          /\ Count(q, X) \in Nat /\ Count(Append(q, e), X) \in Nat
          /\ (e \in X => Count(Append(q, e), X) = Count(q, X) + 1)
          /\ (e \notin X => Count(Append(q, e), X) = Count(q, X))
  BY CountGrows
<1>10. \A X : \A q \in Seq(S) : q # <<>> =>
          ( /\ Count(Tail(q), X) \in Nat
            /\ (Head(q) \in X => Count(q, X) = Count(Tail(q), X) + 1)
            /\ (Head(q) \notin X => Count(q, X) = Count(Tail(q), X)) )
  BY CountTail
<1>23. x1 + x2 + x3 + x4 + x5 <= g
  BY <1>7
<1>11. \A q \in Seq(S) : q # <<>> => Tail(q) \in Seq(S) /\ Head(q) \in S
  BY Shorter
\* Nothing that is counted changes.
<1>12. ASSUME UNCHANGED <<answered, toClient, commands>>, toManager'[UI] = V, toManager'[b] = M PROVE Talk(a)'
  BY <1>6, <1>7, <1>8, <1>12
<1>13. CASE UNCHANGED vars
  BY <1>6, <1>12, <1>13 DEF vars
<1>14. ASSUME NEW d \in Broker, Ask(d) \/ ReceiveIp(d) \/ GiveIp(d) PROVE Talk(a)'
  BY <1>6, <1>12, <1>14 DEF Ask, ReceiveIp, GiveIp
<1>15. CASE Stops
  BY <1>6, <1>12, <1>15 DEF Stops
<1>16. ASSUME NEW d \in Broker, Register(d) PROVE Talk(a)'
  <2>1. toManager'[UI] = V /\ UNCHANGED <<answered, toClient, commands>>
    BY <1>2, <1>6, <1>16 DEF Register
  <2>2. CASE d # b
    <3>1. toManager'[b] = M
      BY <1>2, <1>6, <1>16, <2>2 DEF Register
    <3> QED BY <1>12, <2>1, <3>1
  <2>3. CASE d = b
    <3>1. PICK e \in S : e = Description(ip[d]) /\ e.dst # UIAddress
      <4>1. ip[d] \in Given(n)
        BY <1>0 DEF TypeInv, BrokerOK
      <4> QED BY <1>0, <1>1, <4>1, Descriptions
    <3>2. e \notin B
      BY <1>5, <3>1 DEF Back
    <3>3. toManager'[b] = Append(M, e)
      BY <1>2, <1>6, <1>16, <2>3, <3>1 DEF Register
    <3>4. Count(Append(M, e), B) = x3
      BY <1>6, <1>7, <1>9, <3>2
    <3> QED BY <1>6, <1>7, <1>8, <2>1, <3>3, <3>4
  <2> QED BY <2>2, <2>3
<1>17. ASSUME NEW d \in Broker, Serve(d) PROVE Talk(a)'
  <2>1. toManager'[UI] = V /\ toClient'[UI] = U /\ UNCHANGED <<answered, commands>>
    BY <1>2, <1>6, <1>17 DEF Serve
  <2>2. CASE d # b
    <3>1. toManager'[b] = M /\ toClient'[b] = T
      BY <1>2, <1>6, <1>17, <2>2 DEF Serve
    <3> QED BY <1>6, <1>7, <1>8, <2>1, <3>1
  <2>3. CASE d = b
    <3>1. T # <<>> /\ toClient'[b] = Tail(T) /\ toManager'[b] = Append(M, AnswerOf(Head(T)))
      BY <1>2, <1>6, <1>17, <2>3 DEF Serve
    <3>2. PICK p \in S : p = Head(T)
      BY <1>11, <3>1
    <3>3. PICK e \in S : e = AnswerOf(p)
      BY <1>1, <3>2, Packages DEF AnswerOf, Kind
    <3>4. e \in B <=> p \in O
      <4>1. p = Package(p.src, p.dst, p.kind) /\ p.kind \in Kind /\ "ReadResponse" \in Kind
        BY <1>1, <3>2, Packages DEF Kind
      <4>2. p \in O <=> p.src = UIAddress /\ p.dst = a
        BY <1>4, <1>5, <4>1, SortsOfPackages
      <4>3. e \in B <=> p.dst = a /\ p.src = UIAddress
        BY <1>4, <1>5, <3>3, <4>1, SortsOfPackages DEF AnswerOf
      <4> QED BY <4>2, <4>3
    <3>5. PICK y4 \in Nat : y4 = Count(Tail(T), O)
      BY <1>6, <1>7, <1>10, <3>1, <3>2
    <3>5b. (p \in O => x4 = y4 + 1) /\ (p \notin O => x4 = y4)
      BY <3>5, <1>6, <1>7, <1>10, <3>1, <3>2
    <3>6. PICK y3 \in Nat : y3 = Count(Append(M, e), B)
      BY <1>6, <1>7, <1>9
    <3>6b. (e \in B => y3 = x3 + 1) /\ (e \notin B => y3 = x3)
      BY <3>6, <1>6, <1>7, <1>9
    <3>7. x1 + x2 + y3 + y4 + x5 <= g
      <4>1. CASE p \in O
        <5>1. x4 = y4 + 1 /\ y3 = x3 + 1
          BY <3>4, <3>5b, <3>6b, <4>1
        <5> QED BY <1>23, <5>1
      <4>2. CASE p \notin O
        <5>1. x4 = y4 /\ y3 = x3
          BY <3>4, <3>5b, <3>6b, <4>2
        <5> QED BY <1>23, <5>1
      <4> QED BY <4>1, <4>2
    <3>8. y4 = Count(toClient'[b], O) /\ y3 = Count(toManager'[b], B)
      BY <3>1, <3>2, <3>3, <3>5, <3>6
    <3> QED BY <1>6, <1>7, <1>8, <2>1, <3>7, <3>8
  <2> QED BY <2>2, <2>3
<1>18. ASSUME NEW c \in Connection, Handle(c) PROVE Talk(a)'
  <2>1. PICK p \in S : /\ Takes(c, p) /\ Handles(c, p) /\ p = Package(p.src, p.dst, p.kind)
    BY <1>0, <1>1, <1>18, Handled
  <2>2. p.kind \in Kind /\ UNCHANGED <<answered, commands>>
    BY <1>1, <2>1, Packages DEF Takes
  <2>3. /\ p \in F <=> p.src = a /\ p.dst \in Nat
        /\ p \in B <=> p.src = a /\ p.dst = UIAddress
        /\ p \in O <=> p.src = UIAddress /\ p.dst = a
    BY <1>4, <1>5, <2>1, <2>2, SortsOfPackages
  <2>4. CASE c \in Broker
    <3>1. toManager'[UI] = V
      BY <1>2, <1>6, <2>1, <2>4 DEF Takes
    <3>2. PICK y3 \in Nat : y3 = Count(toManager'[b], B)
      <4>1. toManager'[b] \in Seq(S)
        BY <1>2, <2>1, Sends DEF Takes
      <4> QED BY <4>1, CountType
    <3>2b. (c = b /\ p \in B => x3 = y3 + 1) /\ (c # b \/ p \notin B => x3 = y3)
      <4>1. CASE c = b
        <5>1. M # <<>> /\ p = Head(M) /\ toManager'[b] = Tail(M)
          BY <1>2, <1>6, <2>1, <4>1 DEF Takes
        <5> QED BY <1>6, <1>7, <1>10, <3>2, <4>1, <5>1
      <4>2. CASE c # b
        <5>1. toManager'[b] = M
          BY <1>2, <1>6, <2>1, <4>2 DEF Takes
        <5> QED BY <1>7, <3>2, <4>2, <5>1
      <4> QED BY <4>1, <4>2
    <3>3. x1 + x2 + y3 + x4 + x5 <= g
      <4>1. y3 <= x3
        BY <3>2b
      <4> QED BY <1>23, <4>1
    <3>4. CASE Registers(c, p) \/ Ignores(c, p)
      <4>1. toClient' = toClient
        BY <3>4 DEF Registers, Ignores
      <4> QED BY <1>6, <1>7, <1>8, <2>2, <3>1, <3>2, <3>3, <4>1
    <3>5. CASE Answers(c, p)
      <4>1. toClient'[b] = T /\ toClient'[UI] = Append(U, p)
        BY <1>2, <1>3, <1>6, <3>5 DEF Answers
      <4>2. p \in F => c = b /\ p \in B
        BY <1>3, <2>3, <3>5 DEF Answers, Known
      <4>3. PICK y2 \in Nat : y2 = Count(Append(U, p), F)
        BY <1>6, <1>7, <1>9
      <4>3b. (p \in F => y2 = x2 + 1) /\ (p \notin F => y2 = x2)
        BY <4>3, <1>6, <1>7, <1>9
      <4>4. x1 + y2 + y3 + x4 + x5 <= g
        <5>1. CASE p \in F
          <6>1. x3 = y3 + 1 /\ y2 = x2 + 1
            BY <3>2b, <4>2, <4>3b, <5>1
          <6> QED BY <1>23, <6>1
        <5>2. CASE p \notin F
          <6>1. y2 = x2 /\ x1 + x2 + y3 + x4 + x5 <= g
            BY <3>3, <4>3b, <5>2
          <6> QED BY <6>1
        <5> QED BY <5>1, <5>2
      <4> QED BY <1>6, <1>7, <1>8, <2>2, <3>1, <3>2, <4>1, <4>3, <4>4
    <3>6. CASE Notifies(c, p)
      <4>1. toClient'[UI] = U
        BY <1>2, <1>6, <2>4, <3>6 DEF Notifies
      <4>2. CASE c # b
        <5>1. toClient'[b] = T
          BY <1>2, <1>6, <2>4, <3>6, <4>2 DEF Notifies
        <5> QED BY <1>6, <1>7, <1>8, <2>2, <3>1, <3>2, <3>3, <4>1, <5>1
      <4>3. CASE c = b
        <5>1. PICK e \in S : e = Package(Master, p.src, "Management")
          <6>1. Master \in 0 .. n - 1 /\ p.src \in 0 .. n - 1
            BY <1>0, <1>1, Packages, Numbers
          <6> QED BY <1>1, <6>1, Packages DEF Kind
        <5>2. e \notin O
          BY <1>4, <1>5, <5>1, SortsOfPackages DEF Kind, Master, UIAddress
        <5>3. toClient'[b] = Append(T, e)
          BY <1>2, <1>6, <3>6, <4>3, <5>1 DEF Notifies
        <5>4. Count(Append(T, e), O) = x4
          BY <1>6, <1>7, <1>9, <5>2
        <5> QED BY <1>6, <1>7, <1>8, <2>2, <3>1, <3>2, <3>3, <4>1, <5>3, <5>4
      <4> QED BY <4>2, <4>3
    <3> QED BY <1>2, <2>1, <2>4, <3>4, <3>5, <3>6 DEF Handles, Forgets, Commands
  <2>5. CASE c = UI
    <3>1. V # <<>> /\ p = Head(V) /\ toManager'[UI] = Tail(V) /\ toManager'[b] = M
      BY <1>2, <1>3, <1>6, <2>1, <2>5 DEF Takes
    <3>2. PICK y5 \in Nat : y5 = Count(Tail(V), O)
      BY <1>6, <1>7, <1>10, <3>1
    <3>2b. (p \in O => x5 = y5 + 1) /\ (p \notin O => x5 = y5)
      BY <3>2, <1>6, <1>7, <1>10, <3>1
    <3>3. CASE Forgets(c, p)
      <4>1. toClient' = toClient
        BY <3>3 DEF Forgets
      <4>2. x1 + x2 + x3 + x4 + y5 <= g
        <5>1. y5 <= x5
          BY <3>2b
        <5> QED BY <1>23, <5>1
      <4> QED BY <1>6, <1>7, <1>8, <2>2, <3>1, <3>2, <4>1, <4>2
    <3>4. CASE Commands(c, p)
      <4>1. PICK d \in Broker : d = route[p.dst] /\ d # UI
        BY <1>2, <3>4 DEF Commands, WayInv, Device
      <4>2. toClient'[UI] = U
        BY <1>2, <1>6, <3>4, <4>1 DEF Commands
      <4>3. p \in O => d = b
        BY <1>3, <2>3, <4>1
      <4>4. PICK y4 \in Nat : y4 = Count(toClient'[b], O)
        <5>1. toClient'[b] \in Seq(S)
          BY <1>2, <3>4, <4>1, Sends DEF Commands
        <5> QED BY <5>1, CountType
      <4>4b. (p \in O => y4 = x4 + 1) /\ (p \notin O => y4 = x4)
        <5>1. CASE d = b
          <6>1. toClient'[b] = Append(T, p)
            BY <1>2, <1>6, <3>4, <4>1, <5>1 DEF Commands
          <6>2. /\ p \in O => Count(Append(T, p), O) = x4 + 1
                /\ p \notin O => Count(Append(T, p), O) = x4
            BY <1>6, <1>7, <1>9
          <6> QED BY <4>4, <6>1, <6>2
        <5>2. CASE d # b
          <6>1. toClient'[b] = T
            BY <1>2, <1>6, <3>4, <4>1, <5>2 DEF Commands
          <6> QED BY <1>7, <4>3, <4>4, <5>2, <6>1
        <5> QED BY <5>1, <5>2
      <4>5. x1 + x2 + x3 + y4 + y5 <= g
        <5>1. CASE p \in O
          <6>1. y4 = x4 + 1 /\ x5 = y5 + 1
            BY <3>2b, <4>4b, <5>1
          <6> QED BY <1>23, <6>1
        <5>2. CASE p \notin O
          <6>1. y4 = x4 /\ x5 = y5
            BY <3>2b, <4>4b, <5>2
          <6> QED BY <1>23, <6>1
        <5> QED BY <5>1, <5>2
      <4> QED BY <1>6, <1>7, <1>8, <2>2, <3>1, <3>2, <4>2, <4>4, <4>5
    <3> QED BY <1>2, <2>1, <2>5, <3>3, <3>4 DEF Handles, Registers, Ignores, Answers, Notifies
  <2> QED BY <2>4, <2>5 DEF Connection
<1>19. CASE UIReads
  <2>1. /\ U # <<>> /\ toClient'[UI] = Tail(U) /\ toClient'[b] = T /\ answered' = Append(A, Head(U))
        /\ UNCHANGED <<toManager, commands>>
    BY <1>2, <1>3, <1>6, <1>19 DEF UIReads
  <2>2. PICK e \in S : e = Head(U)
    BY <1>11, <2>1
  <2>3. PICK y2 \in Nat : y2 = Count(Tail(U), F)
    BY <1>6, <1>7, <1>10, <2>1, <2>2
  <2>3b. (e \in F => x2 = y2 + 1) /\ (e \notin F => x2 = y2)
    BY <2>3, <1>6, <1>7, <1>10, <2>1, <2>2
  <2>4. PICK y1 \in Nat : y1 = Count(Append(A, e), F)
    BY <1>6, <1>7, <1>9
  <2>4b. (e \in F => y1 = x1 + 1) /\ (e \notin F => y1 = x1)
    BY <2>4, <1>6, <1>7, <1>9
  <2>5. y1 + y2 + x3 + x4 + x5 <= g
    <3>1. CASE e \in F
      <4>1. x2 = y2 + 1 /\ y1 = x1 + 1
        BY <2>3b, <2>4b, <3>1
      <4> QED BY <1>23, <4>1
    <3>2. CASE e \notin F
      <4>1. x2 = y2 /\ y1 = x1
        BY <2>3b, <2>4b, <3>2
      <4> QED BY <1>23, <4>1
    <3> QED BY <3>1, <3>2
  <2> QED BY <1>6, <1>7, <1>8, <2>1, <2>2, <2>3, <2>4, <2>5
<1>20. Master \in 0 .. n - 1 /\ UIAddress \in 0 .. n - 1 /\ UIAddress .. n - 1 \subseteq 0 .. n - 1
  BY <1>0, Numbers
<1>21. CASE Withdraw
  <2>1. PICK e \in S : e = Package(UIAddress, Master, "Management")
    BY <1>1, <1>20, Packages DEF Kind
  <2>2. e \notin O
    BY <1>4, <1>5, <2>1, SortsOfPackages DEF Kind
  <2>3. toManager'[UI] = Append(V, e) /\ toManager'[b] = M /\ UNCHANGED <<answered, toClient, commands>>
    BY <1>2, <1>3, <1>6, <1>21, <2>1 DEF Withdraw
  <2>4. Count(Append(V, e), O) = x5
    BY <1>6, <1>7, <1>9, <2>2
  <2> QED BY <1>6, <1>7, <1>8, <2>3, <2>4
<1>22. ASSUME NEW x \in Device, NEW kind \in {"ReadRequest", "Write"}, Command(x, kind) PROVE Talk(a)'
  <2>1. x \in 0 .. n - 1 /\ x \in Nat
    BY <1>2, <1>20 DEF Device
  <2>2. PICK e \in S : e = Package(UIAddress, x, kind)
    BY <1>1, <1>20, <2>1, Packages DEF Kind
  <2>3. e \in O <=> x = a
    BY <1>4, <1>5, <2>2, SortsOfPackages DEF Kind
  <2>4. /\ toManager'[UI] = Append(V, e) /\ toManager'[b] = M /\ UNCHANGED <<answered, toClient>>
        /\ commands' = Append(commands, x)
    BY <1>2, <1>3, <1>6, <1>22, <2>2 DEF Command
  <2>5. PICK y5 \in Nat : y5 = Count(Append(V, e), O)
    BY <1>6, <1>7, <1>9
  <2>5b. (e \in O => y5 = x5 + 1) /\ (e \notin O => y5 = x5)
    BY <2>5, <1>6, <1>7, <1>9
  <2>5c. PICK N : N = Nat
    OBVIOUS
  <2>5d. \A X : \A q \in Seq(N), m \in N :
            /\ Count(q, X) \in Nat /\ Count(Append(q, m), X) \in Nat
            /\ (m \in X => Count(Append(q, m), X) = Count(q, X) + 1)
            /\ (m \notin X => Count(Append(q, m), X) = Count(q, X))
    BY CountGrows
  <2>5e. commands \in Seq(N) /\ x \in N
    BY <1>2, <2>1, <2>5c
  <2>6. PICK h \in Nat : h = Count(Append(commands, x), {a})
    BY <2>5d, <2>5e
  <2>6b. (x = a => h = g + 1) /\ (x # a => h = g)
    <3>1. x \in {a} <=> x = a
      OBVIOUS
    <3>2. Count(Append(commands, x), {a}) = IF x \in {a} THEN Count(commands, {a}) + 1 ELSE Count(commands, {a})
      BY <2>5d, <2>5e
    <3> QED BY <1>7, <2>6, <3>1, <3>2
  <2>7. x1 + x2 + x3 + x4 + y5 <= h
    <3>1. CASE x = a
      <4>1. y5 = x5 + 1 /\ h = g + 1
        BY <2>3, <2>5b, <2>6b, <3>1
      <4> QED BY <1>23, <4>1
    <3>2. CASE x # a
      <4>1. y5 = x5 /\ h = g
        BY <2>3, <2>5b, <2>6b, <3>2
      <4> QED BY <1>23, <4>1
    <3> QED BY <3>1, <3>2
  <2> QED BY <1>6, <1>7, <1>8, <2>4, <2>5, <2>6, <2>7
<1> QED BY <1>13, <1>14, <1>15, <1>16, <1>17, <1>18, <1>19, <1>21, <1>22
        DEF Next, BrokerStep, ManagerStep, Connection, Device

LEMMA TalkStep ==
    ASSUME TypeInv, WayInv, AskInv, GivenInv, TalkInv, [Next]_vars
    PROVE  TalkInv'
<1> SUFFICES ASSUME NEW a \in Device' PROVE Talk(a)'
  BY DEF TalkInv, Talk
<1>1. ASSUME a \in Device, route'[a] = route[a] PROVE Talk(a)'
  <2>1. Talk(a)
    BY <1>1 DEF TalkInv, Talk
  <2> QED BY <1>1, <2>1, OldTalk
<1>2. CASE route' = route
  BY <1>1, <1>2 DEF Device
<1>3. ASSUME NEW c \in Connection, Handle(c) PROVE Talk(a)'
  <2>1. PICK p \in PackageBelow(ip_count) : Takes(c, p) /\ Handles(c, p)
    BY <1>3, Handled
  <2>2. CASE Registers(c, p)
    <3>1. a \in Device \/ a = p.src
      BY <2>2 DEF Registers, Device
    <3>2. CASE p.src \in DOMAIN route
      <4>1. route[p.src] = c /\ p.src # UIAddress
        BY <2>1, <2>2, <3>2, SameBroker DEF Registers
      <4>2. a \in Device /\ route'[a] = route[a]
        BY <2>2, <3>1, <3>2, <4>1 DEF Registers, Device
      <4> QED BY <1>1, <4>2
    <3>3. CASE p.src \notin DOMAIN route
      <4>1. a \in Device => route'[a] = route[a]
        BY <2>2, <3>3 DEF Registers, Device
      <4>2. p.src \notin Device
        BY <3>3 DEF Device
      <4>3. Talk(p.src)'
        BY <2>1, <2>2, <4>2, NewTalk
      <4> QED BY <1>1, <3>1, <4>1, <4>3
    <3> QED BY <3>2, <3>3
  <2>3. CASE Forgets(c, p)
    BY <1>1, <2>3 DEF Forgets, Device
  <2>4. CASE route' = route
    BY <1>2, <2>4
  <2> QED BY <2>1, <2>2, <2>3, <2>4 DEF Handles, Ignores, Answers, Notifies, Commands
<1>4. \/ route' = route \/ \E c \in Connection : Handle(c)
  BY DEF Next, vars, BrokerStep, ManagerStep, Ask, ReceiveIp, Register, Serve, GiveIp, Stops, UIReads, Withdraw, Command
<1> QED BY <1>2, <1>3, <1>4

\* An answer came back for each command at most.
LEMMA TalkAnswers ==
    ASSUME TypeInv, WayInv, TalkInv
    PROVE  AnswerFromTarget
<1>1. PICK n \in Nat : n = ip_count /\ n >= 3
  BY DEF TypeInv, ManagerOK
<1>2. PICK S : S = PackageBelow(n)
  OBVIOUS
<1>3. answered \in Seq(S) /\ answered \in Seq(ToUI(Device)) /\ commands \in Seq(Nat)
      /\ toManager \in [Connection -> Seq(S)] /\ toClient \in [Connection -> Seq(S)] /\ UI \in Connection
      /\ \A b \in Broker : b \in Connection
  BY <1>1, <1>2 DEF TypeInv, QueuesOK, WayInv, Connection
<1> SUFFICES ASSUME NEW k \in 1 .. Len(answered), NEW a, a = answered[k].src
             PROVE  Cardinality({j \in 1 .. Len(answered) : answered[j].src = a})
                        <= Cardinality({j \in 1 .. Len(commands) : commands[j] = a})
  BY DEF AnswerFromTarget
<1>4. answered[k] \in ToUI(Device)
  BY <1>3
<1>5. a \in Device /\ a \in Nat
  <2>1. DOMAIN route \subseteq UIAddress .. n - 1
    BY <1>1 DEF TypeInv, ManagerOK
  <2>2. DOMAIN route \subseteq Nat
    BY <1>1, <2>1, Numbers
  <2> QED BY <1>4, <2>2 DEF ToUI, Device
<1>6. route[a] \in Broker
  BY <1>5 DEF WayInv, Device
<1>7. PICK b \in Connection : b = route[a]
  BY <1>3, <1>6
<1>8. PICK x1, x2, x3, x4, x5, g \in Nat :
          /\ x1 = Count(answered, From(a)) /\ x2 = Count(toClient[UI], From(a)) /\ x3 = Count(toManager[b], Back(a))
          /\ x4 = Count(toClient[b], For(a)) /\ x5 = Count(toManager[UI], For(a)) /\ g = Count(commands, {a})
  <2>1. toClient[UI] \in Seq(S) /\ toManager[b] \in Seq(S) /\ toClient[b] \in Seq(S) /\ toManager[UI] \in Seq(S)
    BY <1>3
  <2> QED BY <1>3, <2>1, CountType
<1>9. x1 + x2 + x3 + x4 + x5 <= g
  BY <1>5, <1>7, <1>8 DEF TalkInv
<1>10. x1 <= g
  BY <1>9
<1>11. {j \in 1 .. Len(answered) : answered[j].src = a} = {j \in 1 .. Len(answered) : answered[j] \in From(a)}
  <2>1. ASSUME NEW j \in 1 .. Len(answered) PROVE answered[j].src = a <=> answered[j] \in From(a)
    <3>1. answered[j] \in ToUI(Device)
      BY <1>3
    <3> QED BY <3>1 DEF ToUI, From, UIAddress
  <2> QED BY <2>1
<1>12. {j \in 1 .. Len(commands) : commands[j] = a} = {j \in 1 .. Len(commands) : commands[j] \in {a}}
  OBVIOUS
<1> QED BY <1>8, <1>10, <1>11, <1>12 DEF Count

----------------------------------------------------------------------------
\* The specification.

LEMMA InitInv == Init => IInv
BY TypeInit, WayInit, AskInit, TalkInit DEF IInv

LEMMA NextInv == IInv /\ [Next]_vars => IInv'
BY TypeStep, WayStep, AskStep, GivenStep, TalkStep DEF IInv

LEMMA Invariant == Spec => []IInv
BY InitInv, NextInv, PTL DEF Spec

\* Types, and that no address is on its way to the manager or at a broker
\* before it was given out.
THEOREM Types == Spec => []TypeOK
<1>1. ASSUME TypeInv PROVE TypeOK
  <2>1. PICK n \in Nat : n = ip_count /\ n >= 3
    BY <1>1 DEF TypeInv, ManagerOK
  <2>2. BrokerOK /\ toManager \in [Connection -> Seq(PackageBelow(n))]
    BY <1>1, <2>1 DEF TypeInv, QueuesOK
  <2>3. ASSUME NEW c \in Connection, NEW k \in 1 .. Len(toManager[c])
        PROVE  toManager[c][k].kind \in Kind /\ toManager[c][k].src < n /\ toManager[c][k].dst < n
    <3>1. toManager[c][k] \in PackageBelow(n)
      BY <2>2
    <3> QED BY <3>1 DEF PackageBelow
  <2>4. ip \in [Broker -> 0 .. n - 1]
    <3>1. Given(n) \subseteq 0 .. n - 1 /\ ip \in [Broker -> Given(n)]
      BY <2>1, <2>2, Numbers DEF BrokerOK
    <3> QED BY <3>1
  <2> QED BY <2>1, <2>2, <2>3, <2>4 DEF TypeOK, BrokerOK
<1>2. IInv => TypeOK
  BY <1>1 DEF IInv
<1> QED BY <1>2, Invariant, PTL

\* Every device for which asking did not fail has an address that no other such
\* device has, and no address leads to another broker than the one it was given
\* to: what goes on with the address of the device before, after a connect that
\* failed, is of the same broker (faker_register).
THEOREM AddressesOwn == Spec => []OwnAddresses
<1>1. IInv => OwnAddresses
  BY OwnedAddresses DEF IInv
<1> QED BY <1>1, Invariant, PTL

\* The interface gets one answer at most to each command, and from the device
\* it was for: an answer stands for a command that no other answer stands for,
\* and that nothing on the way is still to answer.
THEOREM AnswersOnce == Spec => []AnswerFromTarget
<1>1. IInv => AnswerFromTarget
  BY TalkAnswers DEF IInv
<1> QED BY <1>1, Invariant, PTL
==============================================================================
