---------------------------- MODULE ManagerProofs ----------------------------
(***************************************************************************)
(* Proofs about Manager, for every number of slots, connections, devices   *)
(* and commands.  The invariants are proved one on top of the other: types *)
(* and the walk of main_server_loop first (they need each other), then the *)
(* registry and the routes, then the addresses given out and that the      *)
(* manager implements Registry.                                            *)
(*                                                                         *)
(* An address travels: from the reply to a request through the client's    *)
(* pool and its registration to the manager's table.  AddressInv says that *)
(* it is at one place of that way at a time; the uniqueness of addresses   *)
(* follows.  SettledInv says that whatever names an address, but for its   *)
(* registration, comes after the registration; that a deleted address      *)
(* never returns follows.                                                  *)
(***************************************************************************)
EXTENDS Manager, TLAPS

\* Types, tables, walk and listen queue: inductive together.
LoopInv == TypeOK /\ SlotsAgree /\ WalkOK /\ QueueOK

----------------------------------------------------------------------------
\* What the constructors of packages make, and what the body of a package of
\* each kind holds.

LEMMA ZeroBodyPackage ==
    ASSUME NEW sor \in Addr, NEW des \in Addr
    PROVE  create_package(sor, des, ZeroBody) \in Package
BY DEF create_package, ZeroBody, Package, Body

LEMMA RegistrationPackage ==
    ASSUME NEW a \in Addr, NEW d \in DevID
    PROVE  create_package(a, Master, [tag |-> "IOTDEV", devID |-> d]) \in Package
BY DEF create_package, Package, Body, Addr

LEMMA CommandPackage ==
    ASSUME NEW sor \in Addr, NEW des \in Addr, NEW v \in Addr,
           NEW t \in CommandType, NEW id \in CommandID
    PROVE  create_package(sor, des, Cmd(t, id, v)) \in Package
BY DEF create_package, Package, Body, Cmd

LEMMA ListPackage ==
    ASSUME NEW des \in Addr, NEW ips \in SUBSET Addr
    PROVE  create_package(Master, des, [tag |-> "devices", ips |-> ips]) \in Package
BY DEF create_package, Package, Body, Addr

LEMMA PackageFields ==
    ASSUME NEW p \in Package
    PROVE  /\ p.sor \in Addr /\ p.des \in Addr
           /\ p.body.tag = "IOTDEV" => p.body.devID \in DevID
           /\ p.body.tag = "devices" => p.body.ips \subseteq Addr
<1>1. p.sor \in Addr /\ p.des \in Addr /\ p.body \in Body
  BY DEF Package
<1>2. p.body.tag = "IOTDEV" => p.body.devID \in DevID
  BY <1>1 DEF Body
<1>3. p.body.tag = "devices" => p.body.ips \subseteq Addr
  BY <1>1 DEF Body
<1> QED BY <1>1, <1>2, <1>3

\* Taking a nonempty sequence apart keeps its elements in the set they are in.
LEMMA HeadTail ==
    ASSUME NEW S, NEW q \in Seq(S), q # <<>>
    PROVE  /\ Head(q) \in S /\ Tail(q) \in Seq(S) /\ Len(q) \in Nat \ {0}
           /\ Len(Tail(q)) = Len(q) - 1 /\ Head(q) = q[1]
           /\ \A m \in 1 .. Len(q) - 1 : Tail(q)[m] = q[m + 1]
OBVIOUS

LEMMA Pieces ==
    ASSUME NEW S, NEW q \in Seq(S), NEW n \in 0 .. Len(q)
    PROVE  /\ SubSeq(q, 1, n) \in Seq(S) /\ Len(SubSeq(q, 1, n)) = n
           /\ SubSeq(q, n + 1, Len(q)) \in Seq(S)
OBVIOUS

----------------------------------------------------------------------------
\* send keeps the clients' queues typed.
LEMMA SendType ==
    ASSUME TypeOK, NEW s \in Slot, NEW p \in Package, Send(s, p)
    PROVE  down' \in [Conn -> Seq(Package)]
<1> DEFINE c == client_socket[s]
<1>1. CASE c = NULL \/ c \in hungup
  BY <1>1 DEF TypeOK, Send
<1>2. CASE ~ (c = NULL \/ c \in hungup)
  <2>1. c \in Conn /\ down \in [Conn -> Seq(Package)]
    BY <1>2 DEF TypeOK
  <2>2. down' = [down EXCEPT ![c] = Append(@, p)]
    BY <1>2 DEF Send
  <2>3. Append(down[c], p) \in Seq(Package)
    BY <2>1
  <2> HIDE DEF c
  <2> QED BY <2>1, <2>2, <2>3
<1> QED BY <1>1, <1>2

\* The handlers change nothing but the registry, the clients' queues and the
\* history, and keep them typed.
LEMMA HandlerType ==
    ASSUME TypeOK, NEW s \in Slot, client_socket[s] # NULL,
           NEW p \in Package, handle_package(s, p)
    PROVE  /\ registed_devices' \in [DevSlot -> IoT_Device_Info \cup {NULL}]
           /\ ip_count' \in Nat
           /\ down' \in [Conn -> Seq(Package)]
           /\ owner' \in [DevSlot -> Conn \cup {NULL}] /\ gone' \subseteq Addr
<1> USE DEF registry
<1>0. p.sor \in Addr /\ p.des \in Addr
  BY PackageFields
<1>1. CASE handle_ip_request_package(s, p)
  <2>1. ip_count \in Addr /\ Master \in Addr
    BY DEF TypeOK, Addr, Ip
  <2>2. down' \in [Conn -> Seq(Package)]
    BY <1>1, <2>1, ZeroBodyPackage, SendType DEF handle_ip_request_package
  <2> QED BY <1>1, <2>2 DEF handle_ip_request_package, TypeOK
<1>2. CASE add_new_device(s, p)
  <2>1. ASSUME NEW k \in DevSlot, StoreDevice(k, s, p)
        PROVE  /\ registed_devices' \in [DevSlot -> IoT_Device_Info \cup {NULL}]
               /\ owner' \in [DevSlot -> Conn \cup {NULL}]
    <3>1. p.body.devID \in DevID
      BY <1>2, PackageFields DEF add_new_device, IsRegistration
    <3>2. [ip |-> p.sor, socket_index |-> s, devID |-> p.body.devID, proxied |-> 0]
             \in IoT_Device_Info
      BY <1>0, <3>1 DEF IoT_Device_Info
    <3> QED BY <2>1, <3>2 DEF StoreDevice, TypeOK
  <2> QED BY <1>2, <2>1 DEF add_new_device, TypeOK
<1>3. CASE discover_package_replier(s, p)
  <2>1. \A k \in DevSlot : registed_devices[k] # NULL => registed_devices[k].ip \in Addr
    BY DEF TypeOK, IoT_Device_Info
  <2>2. DiscoverList(p.body.ID, p.sor) \subseteq Addr
    BY <2>1 DEF DiscoverList, encodeAllDevices_except_one, encodePxdDevices_except_one
  <2>3. create_package(Master, p.sor,
            [tag |-> "devices", ips |-> DiscoverList(p.body.ID, p.sor)]) \in Package
    BY <1>0, <2>2, ListPackage
  <2> QED BY <1>3, <2>3, SendType DEF discover_package_replier, TypeOK
<1>4. CASE DeleteDevice(p)
  BY <1>4 DEF DeleteDevice, TypeOK
<1>5. CASE SetProxied(p)
  <2>1. CASE SlotsWithIp(p.body.Value) # {}
    <3> DEFINE b == IF p.body.ID = "Prx_Add" THEN 1 ELSE 0
    <3>1. PICK k \in DevSlot :
             /\ registed_devices[k] # NULL
             /\ registed_devices' = [registed_devices EXCEPT ![k].proxied = b]
      BY <1>5, <2>1 DEF SetProxied, SlotsWithIp, IsFirst
    <3>2. [registed_devices[k] EXCEPT !.proxied = b] \in IoT_Device_Info
      BY <3>1 DEF TypeOK, IoT_Device_Info
    <3>3. registed_devices' = [registed_devices EXCEPT ![k] =
                                  [registed_devices[k] EXCEPT !.proxied = b]]
      BY <3>1
    <3> QED BY <1>5, <3>2, <3>3 DEF SetProxied, TypeOK
  <2>2. CASE SlotsWithIp(p.body.Value) = {}
    BY <1>5, <2>2 DEF SetProxied, TypeOK
  <2> QED BY <2>1, <2>2
<1>6. CASE IgnoredByManager(p)
  BY <1>6 DEF IgnoredByManager, TypeOK
<1>7. CASE handle_forwarding_package(s, p)
  <2>1. create_package(Master, p.sor, Cmd("Management", "Del_Dev", p.des)) \in Package
    BY <1>0, CommandPackage DEF Addr, CommandType, CommandID, ManageID
  <2>2. \A k \in DevSlot : registed_devices[k] # NULL
                             => registed_devices[k].socket_index \in Slot
    BY DEF TypeOK, IoT_Device_Info
  <2>3. down' \in [Conn -> Seq(Package)]
    BY <1>7, <2>1, <2>2, SendType
       DEF handle_forwarding_package, SlotsWithIp, IsFirst
  <2> QED BY <1>7, <1>0, <2>3 DEF handle_forwarding_package, TypeOK
<1> QED BY <1>1, <1>2, <1>3, <1>4, <1>5, <1>6, <1>7
        DEF handle_package, handle_managent_package

----------------------------------------------------------------------------
\* The loop invariant, one lemma for each group of actions.

LEMMA LoopInit == Init => LoopInv
BY SizesAssumption, NamesAssumption
   DEF Init, LoopInv, TypeOK, SlotsAgree, WalkOK, QueueOK, Slot, DevSlot

LEMMA LoopSelect == LoopInv /\ Select => LoopInv'
BY NamesAssumption
   DEF LoopInv, TypeOK, SlotsAgree, WalkOK, QueueOK, Select, registry, network, clients

\* A connection that leaves the listen queue was in no slot, and no connection
\* is left twice in it.
LEMMA LoopAccept == LoopInv /\ Accept => LoopInv'
<1> SUFFICES ASSUME LoopInv, Accept PROVE LoopInv'
  OBVIOUS
<1> DEFINE c == Head(backlog)
<1> USE DEF registry, clients
<1>1. /\ backlog # <<>> /\ backlog \in Seq(Conn)
      /\ i = NULL /\ Listener \in readfds /\ readfds' = readfds \ {Listener}
      /\ tcp' = [tcp EXCEPT ![c] = "accepted"] /\ backlog' = Tail(backlog)
  BY DEF LoopInv, TypeOK, WalkOK, Accept
<1>2. /\ c \in Conn /\ c = backlog[1] /\ backlog' \in Seq(Conn)
      /\ Len(backlog) \in Nat \ {0} /\ Len(backlog') = Len(backlog) - 1
      /\ \A m \in 1 .. Len(backlog') : backlog'[m] = backlog[m + 1]
  BY <1>1, HeadTail
<1>3. tcp[c] = "pending"
  BY <1>2 DEF LoopInv, QueueOK
<1>4. QueueOK'
  <2>1. \A m \in 1 .. Len(backlog') : backlog'[m] # c /\ backlog'[m] \in Conn
    BY <1>2 DEF LoopInv, QueueOK
  <2>2. \A m \in 1 .. Len(backlog') : tcp'[backlog'[m]] = "pending"
    BY <1>1, <1>2, <2>1 DEF LoopInv, QueueOK, TypeOK
  <2>3. \A m, n \in 1 .. Len(backlog') : backlog'[m] = backlog'[n] => m = n
    BY <1>2 DEF LoopInv, QueueOK
  <2> QED BY <2>2, <2>3 DEF QueueOK
<1>7. low' \subseteq Conn
  BY <1>2 DEF Accept, TakeDescriptor, LoopInv, TypeOK
<1> HIDE DEF c
<1>5. CASE FreeSlots # {}
  <2>1. PICK s \in Slot :
           /\ client_socket[s] = NULL
           /\ client_socket' = [client_socket EXCEPT ![s] = c]
           /\ packageBuffer' = [packageBuffer EXCEPT ![s] = <<>>]
           /\ master' = master \cup {c}
    BY <1>5 DEF Accept, FreeSlots, IsFirst, c
  <2>2. TypeOK'
    BY <1>1, <1>2, <1>7, <2>1 DEF LoopInv, TypeOK, Accept
  <2>3. SlotsAgree'
    <3>1. \A t \in Slot : client_socket[t] # c
      BY <1>2, <1>3, NamesAssumption DEF LoopInv, SlotsAgree
    <3>2. \A t \in Slot : client_socket'[t] = IF t = s THEN c ELSE client_socket[t]
      BY <2>1 DEF LoopInv, TypeOK
    <3>3. master' = {client_socket'[t] : t \in Slot} \ {NULL}
      BY <1>2, <2>1, <3>2, NamesAssumption DEF LoopInv, SlotsAgree
    <3>4. \A t \in Slot : packageBuffer'[t] = NULL <=> client_socket'[t] = NULL
      <4>1. <<>> # NULL
        <5>1. <<>> \in Seq(Package)
          OBVIOUS
        <5> QED BY <5>1, NullAssumption
      <4> QED BY <1>2, <2>1, <3>2, <4>1, NamesAssumption DEF LoopInv, SlotsAgree, TypeOK
    <3>5. \A t \in Slot : client_socket'[t] # NULL => tcp'[client_socket'[t]] = "accepted"
      BY <1>1, <1>2, <3>1, <3>2 DEF LoopInv, SlotsAgree, TypeOK
    <3>6. i' = NULL
      BY <1>1 DEF Accept
    <3> QED BY <3>1, <3>2, <3>3, <3>4, <3>5, <3>6 DEF LoopInv, SlotsAgree
  <2>4. WalkOK'
    BY <1>1, <2>1 DEF LoopInv, WalkOK, Accept
  <2> QED BY <1>4, <2>2, <2>3, <2>4 DEF LoopInv
<1>6. CASE FreeSlots = {}
  <2>1. UNCHANGED <<client_socket, packageBuffer, master, i>>
    BY <1>6 DEF Accept
  <2>2. TypeOK'
    BY <1>1, <1>2, <1>7, <2>1 DEF LoopInv, TypeOK, Accept
  <2>3. SlotsAgree'
    <3>1. \A t \in Slot : client_socket[t] # c
      BY <1>2, <1>3, NamesAssumption DEF LoopInv, SlotsAgree
    <3> QED BY <1>1, <1>2, <2>1, <3>1 DEF LoopInv, SlotsAgree, TypeOK
  <2>4. WalkOK'
    BY <1>1, <2>1 DEF LoopInv, WalkOK
  <2> QED BY <1>4, <2>2, <2>3, <2>4 DEF LoopInv
<1> QED BY <1>5, <1>6

\* The slot AtSlot finds holds an accepted connection that no other slot holds.
LEMMA LoopDisconnect ==
    ASSUME LoopInv, NEW s \in Slot, Disconnect(s)
    PROVE  LoopInv'
<1> DEFINE c == client_socket[s]
<1> USE DEF registry, clients
<1>1. /\ i = NULL /\ i' = NULL /\ Listener \notin readfds /\ c \in readfds
      /\ c \in Conn /\ c # NULL
  BY NamesAssumption
     DEF LoopInv, TypeOK, SlotsAgree, WalkOK, Disconnect, AtSlot, IsFirst, ReadySlots
<1>2. /\ readfds' = readfds \ {c} /\ master' = master \ {c}
      /\ tcp' = [tcp EXCEPT ![c] = "closed"]
      /\ client_socket' = [client_socket EXCEPT ![s] = NULL]
      /\ packageBuffer' = [packageBuffer EXCEPT ![s] = NULL]
      /\ UNCHANGED <<backlog, wire, down, hungup, gone, registry, clients>>
  BY DEF Disconnect
<1> HIDE DEF c
<1>3. tcp[c] = "accepted" /\ \A t \in Slot : client_socket[t] = c => t = s
  BY <1>1 DEF LoopInv, SlotsAgree, c
<1>4. TypeOK'
  <2>1. low' \subseteq Conn
    BY DEF Disconnect, LoopInv, TypeOK
  <2> QED BY <1>1, <1>2, <2>1 DEF LoopInv, TypeOK
<1>5. SlotsAgree'
  <2>1. \A t \in Slot : /\ client_socket'[t] = IF t = s THEN NULL ELSE client_socket[t]
                        /\ packageBuffer'[t] = IF t = s THEN NULL ELSE packageBuffer[t]
    BY <1>2 DEF LoopInv, TypeOK
  <2>2. master' = {client_socket'[t] : t \in Slot} \ {NULL}
    BY <1>1, <1>2, <1>3, <2>1 DEF LoopInv, SlotsAgree, c
  <2>3. \A t \in Slot : client_socket'[t] # NULL => tcp'[client_socket'[t]] = "accepted"
    BY <1>2, <1>3, <2>1 DEF LoopInv, SlotsAgree, TypeOK
  <2> QED BY <1>1, <2>1, <2>2, <2>3 DEF LoopInv, SlotsAgree
<1>6. WalkOK'
  BY <1>1, <1>2 DEF LoopInv, WalkOK
<1>7. QueueOK'
  BY <1>2, <1>3 DEF LoopInv, QueueOK, TypeOK
<1> QED BY <1>4, <1>5, <1>6, <1>7 DEF LoopInv

LEMMA LoopReceive ==
    ASSUME LoopInv, NEW s \in Slot, NEW n \in 1 .. MaxWire, Receive(s, n)
    PROVE  LoopInv'
<1> DEFINE c == client_socket[s]
<1> USE DEF registry, clients
<1>1. /\ i = NULL /\ Listener \notin readfds /\ c \in readfds
      /\ c \in Conn /\ c # NULL
  BY NamesAssumption
     DEF LoopInv, TypeOK, SlotsAgree, WalkOK, Receive, AtSlot, IsFirst, ReadySlots
<1>2. /\ n \in 1 .. Len(wire[c]) /\ i' = s
      /\ packageBuffer' = [packageBuffer EXCEPT ![s] = @ \o SubSeq(wire[c], 1, n)]
      /\ wire' = [wire EXCEPT ![c] = SubSeq(@, n + 1, Len(@))]
      /\ UNCHANGED <<readfds, master, low, client_socket, registry,
                     tcp, backlog, down, hungup, clients, gone>>
  BY DEF Receive
<1>3. packageBuffer[s] \in Seq(Package) /\ wire[c] \in Seq(Package)
  BY <1>1 DEF LoopInv, TypeOK, SlotsAgree, c
<1> DEFINE new == packageBuffer[s] \o SubSeq(wire[c], 1, n)
<1>4. /\ new \in Seq(Package) /\ Len(new) > 0
      /\ SubSeq(wire[c], n + 1, Len(wire[c])) \in Seq(Package)
  <2>1. /\ SubSeq(wire[c], 1, n) \in Seq(Package) /\ Len(SubSeq(wire[c], 1, n)) = n
        /\ SubSeq(wire[c], n + 1, Len(wire[c])) \in Seq(Package)
    BY <1>2, <1>3, Pieces
  <2> HIDE DEF c
  <2>2. /\ new \in Seq(Package)
        /\ Len(new) = Len(packageBuffer[s]) + Len(SubSeq(wire[c], 1, n))
    BY <1>3, <2>1
  <2> QED BY <1>2, <1>3, <2>1, <2>2
<1> HIDE DEF c
<1>5. packageBuffer' = [packageBuffer EXCEPT ![s] = new]
  BY <1>2
<1> HIDE DEF new
<1>6. TypeOK'
  BY <1>1, <1>2, <1>4, <1>5 DEF LoopInv, TypeOK
<1>7. SlotsAgree'
  <2>1. new # NULL /\ new # <<>>
    BY <1>4, NullAssumption
  <2>2. packageBuffer'[s] = new /\ \A t \in Slot : t # s => packageBuffer'[t] = packageBuffer[t]
    BY <1>5 DEF LoopInv, TypeOK
  <2>3. client_socket' = client_socket /\ client_socket[s] # NULL /\ i' = s
    BY <1>1, <1>2 DEF c
  <2>4. \A t \in Slot : packageBuffer'[t] = NULL <=> client_socket'[t] = NULL
    BY <2>1, <2>2, <2>3 DEF LoopInv, SlotsAgree
  <2>5. i' # NULL => client_socket'[i'] # NULL /\ packageBuffer'[i'] # <<>>
    BY <2>1, <2>2, <2>3
  <2> QED BY <1>2, <2>4, <2>5 DEF LoopInv, SlotsAgree
<1>8. WalkOK'
  BY <1>1, <1>2 DEF LoopInv, WalkOK, c
<1>9. QueueOK'
  BY <1>2 DEF LoopInv, QueueOK
<1> QED BY <1>6, <1>7, <1>8, <1>9 DEF LoopInv

LEMMA LoopHandle == LoopInv /\ Handle => LoopInv'
<1> SUFFICES ASSUME LoopInv, Handle PROVE LoopInv'
  OBVIOUS
<1> DEFINE p == Head(packageBuffer[i])
<1>1. /\ i \in Slot /\ client_socket[i] # NULL /\ client_socket[i] \in readfds
      /\ packageBuffer[i] \in Seq(Package) /\ packageBuffer[i] # <<>>
      /\ Listener \notin readfds
  BY DEF LoopInv, TypeOK, SlotsAgree, WalkOK, Handle
<1>2. p \in Package /\ Tail(packageBuffer[i]) \in Seq(Package)
      /\ Len(packageBuffer[i]) \in Nat \ {0}
      /\ Len(Tail(packageBuffer[i])) = Len(packageBuffer[i]) - 1
  BY <1>1, HeadTail
<1>3. /\ packageBuffer' = [packageBuffer EXCEPT ![i] = Tail(@)]
      /\ handle_package(i, p)
      /\ IF Len(packageBuffer[i]) > 1
         THEN UNCHANGED <<i, readfds>>
         ELSE i' = NULL /\ readfds' = readfds \ {client_socket[i]}
      /\ UNCHANGED <<master, low, client_socket, tcp, backlog, wire, hungup, clients>>
  BY DEF Handle
<1> HIDE DEF p
<1>4. TypeOK'
  <2>1. /\ registed_devices' \in [DevSlot -> IoT_Device_Info \cup {NULL}]
        /\ ip_count' \in Nat
        /\ down' \in [Conn -> Seq(Package)]
        /\ owner' \in [DevSlot -> Conn \cup {NULL}] /\ gone' \subseteq Addr
    BY <1>1, <1>2, <1>3, HandlerType DEF LoopInv
  <2> QED BY <1>1, <1>2, <1>3, <2>1 DEF LoopInv, TypeOK, clients
<1>5. SlotsAgree'
  <2>1. Tail(packageBuffer[i]) # NULL
    BY <1>2, NullAssumption
  <2>2. /\ packageBuffer'[i] = Tail(packageBuffer[i])
        /\ \A t \in Slot : t # i => packageBuffer'[t] = packageBuffer[t]
    BY <1>1, <1>3 DEF LoopInv, TypeOK
  <2>3. i' # NULL => i' = i /\ Len(packageBuffer'[i]) > 0
    BY <1>2, <1>3, <2>2
  <2> QED BY <1>1, <1>3, <2>1, <2>2, <2>3 DEF LoopInv, SlotsAgree
<1>6. WalkOK'
  BY <1>1, <1>3 DEF LoopInv, WalkOK
<1>7. QueueOK'
  BY <1>3 DEF LoopInv, QueueOK
<1> QED BY <1>4, <1>5, <1>6, <1>7 DEF LoopInv

\* Clients touch the wires, their own knowledge, and the listen queue.
LEMMA LoopSend ==
    ASSUME LoopInv, NEW c \in Conn, NEW p \in Package, ClientSend(c, p),
           asked' \in Nat, requests' \in Nat, pool' \subseteq Addr,
           mine' \in [Conn -> SUBSET Addr], known' \subseteq Addr
    PROVE  LoopInv'
<1>1. wire' \in [Conn -> Seq(Package)]
  <2>1. Append(wire[c], p) \in Seq(Package)
    BY DEF LoopInv, TypeOK
  <2> QED BY <2>1 DEF LoopInv, TypeOK, ClientSend
<1>2. TypeOK'
  BY <1>1 DEF LoopInv, TypeOK, ClientSend, server, registry
<1> QED BY <1>2 DEF LoopInv, SlotsAgree, WalkOK, QueueOK, ClientSend, server

LEMMA LoopConnect ==
    ASSUME LoopInv, NEW c \in Conn, Connect(c)
    PROVE  LoopInv'
<1>1. /\ tcp[c] = "new" /\ tcp' = [tcp EXCEPT ![c] = "pending"]
      /\ backlog' = Append(backlog, c) /\ backlog \in Seq(Conn)
      /\ UNCHANGED <<server, registry, wire, down, hungup, clients, gone>>
  BY DEF LoopInv, TypeOK, Connect
<1>2. /\ backlog' \in Seq(Conn) /\ Len(backlog) \in Nat /\ backlog' # <<>>
      /\ Len(backlog') = Len(backlog) + 1 /\ backlog'[Len(backlog) + 1] = c
      /\ \A m \in 1 .. Len(backlog) : backlog'[m] = backlog[m] /\ backlog[m] \in Conn
  BY <1>1
<1>3. TypeOK'
  BY <1>1, <1>2 DEF LoopInv, TypeOK, server, registry, clients
<1>4. SlotsAgree'
  <2>1. \A t \in Slot : client_socket[t] # c \/ client_socket[t] = NULL
    BY <1>1 DEF LoopInv, SlotsAgree
  <2> QED BY <1>1, <2>1 DEF LoopInv, TypeOK, SlotsAgree, server
<1>5. WalkOK'
  BY <1>1, <1>2 DEF LoopInv, WalkOK, server
<1>6. QueueOK'
  <2>1. \A m \in 1 .. Len(backlog) : backlog'[m] # c /\ tcp'[backlog'[m]] = "pending"
    BY <1>1, <1>2 DEF LoopInv, QueueOK, TypeOK
  <2>2. tcp'[c] = "pending"
    BY <1>1 DEF LoopInv, TypeOK
  <2>3. \A m \in 1 .. Len(backlog') : m \in 1 .. Len(backlog) \/ m = Len(backlog) + 1
    BY <1>2
  <2>4. \A m, n \in 1 .. Len(backlog) : backlog'[m] = backlog'[n] => m = n
    BY <1>2 DEF LoopInv, QueueOK
  <2> QED BY <1>2, <2>1, <2>2, <2>3, <2>4 DEF QueueOK
<1> QED BY <1>3, <1>4, <1>5, <1>6 DEF LoopInv

LEMMA LoopRead ==
    ASSUME LoopInv, NEW c \in Conn, Read(c)
    PROVE  LoopInv'
<1> DEFINE p == Head(down[c])
<1>1. down[c] \in Seq(Package) /\ down[c] # <<>>
  BY DEF LoopInv, TypeOK, Read
<1>2. p \in Package /\ Tail(down[c]) \in Seq(Package)
  BY <1>1, HeadTail
<1>3. /\ p.sor \in Addr /\ p.des \in Addr
      /\ p.body.tag = "devices" => p.body.ips \subseteq Addr
  BY <1>2, PackageFields
<1>4. pool' \subseteq Addr /\ known' \subseteq Addr
  BY <1>3 DEF Read, LoopInv, TypeOK
<1>5. TypeOK'
  BY <1>2, <1>4 DEF Read, LoopInv, TypeOK, server, registry
<1> QED BY <1>5 DEF Read, LoopInv, SlotsAgree, WalkOK, QueueOK, server

LEMMA LoopHangUp ==
    ASSUME LoopInv, NEW c \in Conn, NEW kept \in 0 .. Len(wire[c]), HangUp(c, kept)
    PROVE  LoopInv'
<1>1. wire[c] \in Seq(Package)
  BY DEF LoopInv, TypeOK
<1>2. SubSeq(wire[c], 1, kept) \in Seq(Package) /\ <<>> \in Seq(Package)
  BY <1>1, Pieces
<1>3. TypeOK'
  BY <1>2 DEF HangUp, LoopInv, TypeOK, server, registry
<1> QED BY <1>3 DEF HangUp, LoopInv, SlotsAgree, WalkOK, QueueOK, server

LEMMA LoopClient == LoopInv /\ ClientNext => LoopInv'
<1> SUFFICES ASSUME LoopInv, NEW c \in Conn,
                    \/ Connect(c)
                    \/ AskIp(c)
                    \/ \E a \in pool, d \in DevID : RegisterDevice(c, a, d)
                    \/ \E from \in mine[c] \cup {Zero}, cmd \in Command :
                          \E value \in CommandValues(c, cmd.ID) : SendCommand(c, from, cmd, value)
                    \/ \E from \in mine[c], to \in known : Forward(c, from, to)
                    \/ Read(c)
                    \/ \E kept \in 0 .. Len(wire[c]) : HangUp(c, kept)
             PROVE  LoopInv'
  BY DEF ClientNext
<1>0. /\ Zero \in Addr /\ Master \in Addr
      /\ asked \in Nat /\ requests \in Nat /\ pool \subseteq Addr
      /\ mine \in [Conn -> SUBSET Addr] /\ known \subseteq Addr
  BY DEF LoopInv, TypeOK, Addr
<1>1. CASE AskIp(c)
  <2>1. create_package(Zero, Zero, ZeroBody) \in Package
    BY <1>0, ZeroBodyPackage
  <2> QED BY <1>0, <1>1, <2>1, LoopSend DEF AskIp
<1>2. ASSUME NEW a \in pool, NEW d \in DevID, RegisterDevice(c, a, d)
      PROVE  LoopInv'
  <2>1. create_package(a, Master, [tag |-> "IOTDEV", devID |-> d]) \in Package
    BY <1>0, RegistrationPackage
  <2>2. mine' \in [Conn -> SUBSET Addr]
    BY <1>0, <1>2 DEF RegisterDevice
  <2> QED BY <1>0, <1>2, <2>1, <2>2, LoopSend DEF RegisterDevice
<1>3. ASSUME NEW from \in mine[c] \cup {Zero}, NEW cmd \in Command,
             NEW value \in CommandValues(c, cmd.ID), SendCommand(c, from, cmd, value)
      PROVE  LoopInv'
  <2>1. from \in Addr /\ cmd.type \in CommandType /\ cmd.ID \in CommandID
    BY <1>0, CommandAssumption
  <2>2. value \in Addr
    BY <1>0 DEF CommandValues
  <2>3. create_package(from, Master, Cmd(cmd.type, cmd.ID, value)) \in Package
    BY <1>0, <2>1, <2>2, CommandPackage
  <2>4. requests' \in Nat
    BY <1>0, <1>3 DEF SendCommand, CountRequest
  <2> QED BY <1>0, <1>3, <2>3, <2>4, LoopSend DEF SendCommand, CountRequest
<1>4. ASSUME NEW from \in mine[c], NEW to \in known, Forward(c, from, to)
      PROVE  LoopInv'
  <2>1. create_package(from, to, Cmd("ReadRequest", "component", Zero)) \in Package
    BY <1>0, CommandPackage DEF CommandType, CommandID
  <2>2. requests' \in Nat
    BY <1>0, <1>4 DEF Forward, CountRequest
  <2> QED BY <1>0, <1>4, <2>1, <2>2, LoopSend DEF Forward, CountRequest
<1> QED BY <1>1, <1>2, <1>3, <1>4, LoopConnect, LoopRead, LoopHangUp

LEMMA LoopStep == LoopInv /\ [Next]_vars => LoopInv'
<1> SUFFICES ASSUME LoopInv, [Next]_vars PROVE LoopInv'
  OBVIOUS
<1>1. CASE ServerNext
  BY <1>1, LoopSelect, LoopAccept, LoopDisconnect, LoopReceive, LoopHandle DEF ServerNext
<1>2. CASE ClientNext
  BY <1>2, LoopClient
<1>3. CASE UNCHANGED vars
  BY <1>3 DEF vars, server, registry, network, clients,
              LoopInv, TypeOK, SlotsAgree, WalkOK, QueueOK
<1> QED BY <1>1, <1>2, <1>3 DEF Next

THEOREM LoopInvariant == Spec => []LoopInv
BY LoopInit, LoopStep, PTL DEF Spec

\* The variables of the manager keep their types, whatever clients send.
THEOREM TypeCorrect == Spec => []TypeOK
BY LoopInvariant, PTL DEF LoopInv

\* master, client_socket and packageBuffer always agree.
THEOREM TablesAgree == Spec => []SlotsAgree
BY LoopInvariant, PTL DEF LoopInv

\* What select reported holds until the walk of the loop comes to it.
THEOREM WalkIsSound == Spec => []WalkOK
BY LoopInvariant, PTL DEF LoopInv

----------------------------------------------------------------------------
\* The registry changes in three ways only: handling a registration stores a
\* device in one slot, handling Del_Dev empties one, and Prx_Add and Prx_Rmv
\* set a flag of one.

Arrived == Head(packageBuffer[i])   \* the package being handled

Stored(k) ==
    /\ i # NULL /\ IsRegistration(Arrived) /\ StoreDevice(k, i, Arrived)
    /\ \/ k \in SlotsWithID(Arrived.body.devID)
       \/ k \in FreeDevSlots /\ SlotsWithID(Arrived.body.devID) = {}

Deleted(k) ==
    /\ i # NULL /\ IsManagement(Arrived, {"Del_Dev"})
    /\ k \in SlotsWithIp(Arrived.body.Value)
    /\ registed_devices' = [registed_devices EXCEPT ![k] = NULL]
    /\ owner' = [owner EXCEPT ![k] = NULL]

Flagged(k) ==
    /\ registed_devices[k] # NULL
    /\ \E b \in {0, 1} : registed_devices' = [registed_devices EXCEPT ![k].proxied = b]
    /\ UNCHANGED owner

LEMMA RegistryStep ==
    ASSUME LoopInv, [Next]_vars
    PROVE  \/ UNCHANGED <<registed_devices, owner>>
           \/ /\ Handle
              /\ \E k \in DevSlot : Stored(k) \/ Deleted(k) \/ Flagged(k)
<1>1. CASE Handle
  <2>1. handle_package(i, Arrived) /\ i # NULL
    BY <1>1 DEF Handle, Arrived
  <2>2. CASE add_new_device(i, Arrived)
    BY <1>1, <2>1, <2>2 DEF add_new_device, Stored, IsFirst
  <2>3. CASE DeleteDevice(Arrived)
    BY <1>1, <2>1, <2>3 DEF DeleteDevice, Deleted, IsFirst
  <2>4. CASE SetProxied(Arrived)
    <3>1. CASE SlotsWithIp(Arrived.body.Value) # {}
      <4> DEFINE b == IF Arrived.body.ID = "Prx_Add" THEN 1 ELSE 0
      <4>1. PICK k \in DevSlot :
               /\ registed_devices[k] # NULL
               /\ registed_devices' = [registed_devices EXCEPT ![k].proxied = b]
        BY <2>4, <3>1 DEF SetProxied, SlotsWithIp, IsFirst
      <4>2. b \in {0, 1}
        OBVIOUS
      <4>3. Flagged(k)
        BY <2>4, <4>1, <4>2, Zenon DEF SetProxied, Flagged
      <4> QED BY <1>1, <4>3
    <3>2. CASE SlotsWithIp(Arrived.body.Value) = {}
      BY <2>4, <3>2 DEF SetProxied
    <3> QED BY <3>1, <3>2
  <2>5. CASE \/ handle_ip_request_package(i, Arrived)
             \/ discover_package_replier(i, Arrived)
             \/ IgnoredByManager(Arrived)
             \/ handle_forwarding_package(i, Arrived)
    BY <2>5 DEF handle_ip_request_package, discover_package_replier, IgnoredByManager,
                handle_forwarding_package, registry
  <2> QED BY <2>1, <2>2, <2>3, <2>4, <2>5 DEF handle_package, handle_managent_package
<1>2. CASE ServerNext /\ ~ Handle
  BY <1>2 DEF ServerNext, Select, Accept, Disconnect, Receive, registry
<1>3. CASE ClientNext
  BY <1>3 DEF ClientNext, Connect, AskIp, RegisterDevice, SendCommand, Forward, Read, HangUp,
              ClientSend, registry
<1>4. CASE UNCHANGED vars
  BY <1>4 DEF vars, registry
<1> QED BY <1>1, <1>2, <1>3, <1>4 DEF Next

\* What each of the three does to a slot.
LEMMA SlotStep ==
    ASSUME LoopInv, NEW k \in DevSlot, NEW l \in DevSlot
    PROVE  /\ Stored(k) => IF l = k
                           THEN /\ registed_devices'[k] # NULL
                                /\ registed_devices'[k].devID = Arrived.body.devID
                                /\ registed_devices'[k].socket_index = i
                                /\ registed_devices'[k].ip = Arrived.sor
                                /\ owner'[k] = client_socket[i]
                           ELSE /\ registed_devices'[l] = registed_devices[l]
                                /\ owner'[l] = owner[l]
           /\ Deleted(k) => IF l = k
                            THEN registed_devices'[k] = NULL
                            ELSE /\ registed_devices'[l] = registed_devices[l]
                                 /\ owner'[l] = owner[l]
           /\ Flagged(k) => /\ registed_devices'[l] = NULL <=> registed_devices[l] = NULL
                            /\ registed_devices[l] # NULL =>
                                 /\ registed_devices'[l].devID = registed_devices[l].devID
                                 /\ registed_devices'[l].socket_index = registed_devices[l].socket_index
                                 /\ registed_devices'[l].ip = registed_devices[l].ip
                            /\ owner'[l] = owner[l]
<1>0. /\ registed_devices \in [DevSlot -> IoT_Device_Info \cup {NULL}]
      /\ owner \in [DevSlot -> Conn \cup {NULL}]
  BY DEF LoopInv, TypeOK
<1>1. ASSUME Stored(k)
      PROVE  IF l = k
             THEN /\ registed_devices'[k] # NULL
                  /\ registed_devices'[k].devID = Arrived.body.devID
                  /\ registed_devices'[k].socket_index = i
                  /\ registed_devices'[k].ip = Arrived.sor
                  /\ owner'[k] = client_socket[i]
             ELSE /\ registed_devices'[l] = registed_devices[l]
                  /\ owner'[l] = owner[l]
  <2> DEFINE new == [ip |-> Arrived.sor, socket_index |-> i,
                     devID |-> Arrived.body.devID, proxied |-> 0]
  <2>1. /\ registed_devices' = [registed_devices EXCEPT ![k] = new]
        /\ owner' = [owner EXCEPT ![k] = client_socket[i]]
    BY <1>1 DEF Stored, StoreDevice
  <2>2. new # NULL
    <3>1. i \in Slot /\ packageBuffer[i] \in Seq(Package) /\ packageBuffer[i] # <<>>
      BY <1>1 DEF LoopInv, TypeOK, SlotsAgree, Stored
    <3>2. Arrived \in Package
      BY <3>1, HeadTail DEF Arrived
    <3>3. Arrived.sor \in Addr /\ Arrived.body.devID \in DevID
      BY <1>1, <3>2, PackageFields DEF Stored, IsRegistration
    <3>4. new \in IoT_Device_Info
      BY <3>1, <3>3 DEF IoT_Device_Info
    <3> QED BY <3>4, NullAssumption
  <2> QED BY <1>0, <2>1, <2>2
<1>2. ASSUME Deleted(k)
      PROVE  IF l = k
             THEN registed_devices'[k] = NULL
             ELSE /\ registed_devices'[l] = registed_devices[l]
                  /\ owner'[l] = owner[l]
  BY <1>0, <1>2 DEF Deleted
<1>3. ASSUME Flagged(k)
      PROVE  /\ registed_devices'[l] = NULL <=> registed_devices[l] = NULL
             /\ registed_devices[l] # NULL =>
                  /\ registed_devices'[l].devID = registed_devices[l].devID
                  /\ registed_devices'[l].socket_index = registed_devices[l].socket_index
                  /\ registed_devices'[l].ip = registed_devices[l].ip
             /\ owner'[l] = owner[l]
  <2>1. PICK b \in {0, 1} : registed_devices' = [registed_devices EXCEPT ![k].proxied = b]
    BY <1>3 DEF Flagged
  <2>2. registed_devices[k] \in IoT_Device_Info
    BY <1>0, <1>3 DEF Flagged
  <2> DEFINE new == [registed_devices[k] EXCEPT !.proxied = b]
  <2>3. /\ new \in IoT_Device_Info /\ new.devID = registed_devices[k].devID
        /\ new.socket_index = registed_devices[k].socket_index /\ new.ip = registed_devices[k].ip
    BY <2>2 DEF IoT_Device_Info
  <2>4. registed_devices'[l] = IF l = k THEN new ELSE registed_devices[l]
    BY <1>0, <2>1
  <2> HIDE DEF new
  <2>5. new # NULL /\ registed_devices[k] # NULL
    BY <1>3, <2>3, NullAssumption DEF Flagged
  <2> QED BY <1>3, <2>3, <2>4, <2>5 DEF Flagged
<1> QED BY <1>1, <1>2, <1>3

----------------------------------------------------------------------------
\* A device that registers again is found by its identity, so there is never a
\* second entry for it.
LEMMA UniqueDevIDStep == LoopInv /\ UniqueDevID /\ [Next]_vars => UniqueDevID'
<1> SUFFICES ASSUME LoopInv, UniqueDevID, [Next]_vars,
                    NEW k \in DevSlot, NEW l \in DevSlot,
                    registed_devices'[k] # NULL, registed_devices'[l] # NULL,
                    registed_devices'[k].devID = registed_devices'[l].devID
             PROVE  k = l
  BY DEF UniqueDevID
<1>1. CASE UNCHANGED <<registed_devices, owner>>
  BY <1>1 DEF UniqueDevID
<1>2. ASSUME NEW n \in DevSlot, Stored(n) PROVE k = l
  <2>1. \A m \in DevSlot : m # n /\ registed_devices[m] # NULL
                            => registed_devices[m].devID # Arrived.body.devID
    BY <1>2 DEF Stored, SlotsWithID, UniqueDevID
  <2> QED BY <1>2, <2>1, SlotStep DEF UniqueDevID
<1>3. ASSUME NEW n \in DevSlot, Deleted(n) PROVE k = l
  BY <1>3, SlotStep DEF UniqueDevID
<1>4. ASSUME NEW n \in DevSlot, Flagged(n) PROVE k = l
  BY <1>4, SlotStep DEF UniqueDevID
<1> QED BY <1>1, <1>2, <1>3, <1>4, RegistryStep

\* No identity is registered twice, whatever registers, in whatever order and
\* however full the table is.
THEOREM DevicesUnique == Spec => []UniqueDevID
<1>1. Init => UniqueDevID
  BY DEF Init, UniqueDevID
<1> QED BY <1>1, LoopInvariant, UniqueDevIDStep, PTL DEF Spec

\* A registration only ever stores its own device or takes an empty slot.
THEOREM DevicesStay == Spec => NoEviction
<1>1. ASSUME LoopInv, [Next]_vars, NEW k \in DevSlot, registed_devices[k] # NULL
      PROVE  \/ /\ registed_devices'[k] # NULL
                /\ registed_devices'[k].devID = registed_devices[k].devID
             \/ /\ i # NULL
                /\ IsManagement(Arrived, {"Del_Dev"})
                /\ Arrived.body.Value = registed_devices[k].ip
  <2>1. ASSUME NEW n \in DevSlot, Stored(n)
        PROVE  registed_devices'[k] # NULL /\ registed_devices'[k].devID = registed_devices[k].devID
    BY <1>1, <2>1, SlotStep DEF Stored, SlotsWithID, FreeDevSlots
  <2>2. ASSUME NEW n \in DevSlot, Deleted(n), n = k
        PROVE  /\ i # NULL
               /\ IsManagement(Arrived, {"Del_Dev"})
               /\ Arrived.body.Value = registed_devices[k].ip
    BY <2>2 DEF Deleted, SlotsWithIp
  <2>3. ASSUME NEW n \in DevSlot, Deleted(n), n # k
        PROVE  registed_devices'[k] = registed_devices[k]
    BY <1>1, <2>3, SlotStep
  <2>4. ASSUME NEW n \in DevSlot, Flagged(n)
        PROVE  registed_devices'[k] # NULL /\ registed_devices'[k].devID = registed_devices[k].devID
    BY <1>1, <2>4, SlotStep
  <2> QED BY <1>1, <2>1, <2>2, <2>3, <2>4, RegistryStep
<1> DEFINE Stays == \A k \in DevSlot : registed_devices[k] # NULL =>
        \/ /\ registed_devices'[k] # NULL
           /\ registed_devices'[k].devID = registed_devices[k].devID
        \/ /\ i # NULL
           /\ IsManagement(Head(packageBuffer[i]), {"Del_Dev"})
           /\ Head(packageBuffer[i]).body.Value = registed_devices[k].ip
<1>2. LoopInv /\ [Next]_vars => Stays
  BY <1>1 DEF Arrived
<1>3. Spec => [][Stays]_vars
  <2> HIDE DEF Stays
  <2> QED BY <1>2, LoopInvariant, PTL DEF Spec
<1> QED BY <1>3 DEF NoEviction

----------------------------------------------------------------------------
\* An accepted connection keeps its slot until it is closed, and a closed one
\* is never accepted again, so a route recorded once stays right.
LEMMA SocketStep ==
    ASSUME LoopInv, [Next]_vars, ~ Handle, NEW c \in Conn, NEW s \in Slot
    PROVE  /\ tcp[c] = "closed" => tcp'[c] = "closed"
           /\ tcp[c] = "accepted" => tcp'[c] \in {"accepted", "closed"}
           /\ tcp[c] = "accepted" /\ tcp'[c] = "accepted" /\ client_socket[s] = c
                => client_socket'[s] = c
<1>1. CASE Accept
  <2> DEFINE d == Head(backlog)
  <2>1. /\ d \in Conn /\ tcp[d] = "pending" /\ tcp' = [tcp EXCEPT ![d] = "accepted"]
    <3>1. backlog \in Seq(Conn) /\ backlog # <<>>
      BY <1>1 DEF LoopInv, TypeOK, WalkOK, Accept
    <3>2. d \in Conn /\ d = backlog[1] /\ Len(backlog) \in Nat \ {0}
      BY <3>1, HeadTail
    <3> QED BY <1>1, <3>2 DEF LoopInv, QueueOK, Accept
  <2> HIDE DEF d
  <2>2. /\ tcp[c] = "closed" => tcp'[c] = "closed"
        /\ tcp[c] = "accepted" => tcp'[c] \in {"accepted", "closed"}
    BY <2>1 DEF LoopInv, TypeOK
  <2>3. client_socket[s] = c => client_socket'[s] = c
    BY <1>1, NamesAssumption DEF Accept, FreeSlots, IsFirst, LoopInv, TypeOK
  <2> QED BY <2>2, <2>3
<1>2. ASSUME NEW t \in Slot, Disconnect(t)
      PROVE  /\ tcp[c] = "closed" => tcp'[c] = "closed"
             /\ tcp[c] = "accepted" => tcp'[c] \in {"accepted", "closed"}
             /\ tcp[c] = "accepted" /\ tcp'[c] = "accepted" /\ client_socket[s] = c
                  => client_socket'[s] = c
  <2>1. /\ tcp' = [tcp EXCEPT ![client_socket[t]] = "closed"]
        /\ client_socket' = [client_socket EXCEPT ![t] = NULL]
    BY <1>2 DEF Disconnect
  <2> QED BY <2>1 DEF LoopInv, TypeOK
<1>3. CASE ServerNext /\ ~ Accept /\ \A t \in Slot : ~ Disconnect(t)
  BY <1>3 DEF ServerNext, Select, Receive, network
<1>4. CASE ClientNext
  <2>1. CASE \E d \in Conn : Connect(d)
    BY <2>1 DEF Connect, server, LoopInv, TypeOK
  <2>2. CASE ~ \E d \in Conn : Connect(d)
    BY <1>4, <2>2 DEF ClientNext, AskIp, RegisterDevice, SendCommand, Forward, Read, HangUp,
                      ClientSend, server
  <2> QED BY <2>1, <2>2
<1>5. CASE UNCHANGED vars
  BY <1>5 DEF vars, server, network
<1> QED BY <1>1, <1>2, <1>3, <1>4, <1>5 DEF Next, ServerNext

LEMMA RoutesStep == LoopInv /\ RoutesOK /\ [Next]_vars => RoutesOK'
<1> SUFFICES ASSUME LoopInv, RoutesOK, [Next]_vars,
                    NEW k \in DevSlot, registed_devices'[k] # NULL
             PROVE  /\ owner'[k] \in Conn /\ tcp'[owner'[k]] \in {"accepted", "closed"}
                    /\ tcp'[owner'[k]] = "accepted" =>
                          client_socket'[registed_devices'[k].socket_index] = owner'[k]
  BY DEF RoutesOK
<1>1. CASE Handle
  <2>1. UNCHANGED <<tcp, client_socket>>
    BY <1>1 DEF Handle
  <2>2. /\ i \in Slot /\ client_socket[i] \in Conn /\ tcp[client_socket[i]] = "accepted"
    BY <1>1 DEF Handle, LoopInv, TypeOK, SlotsAgree
  <2>3. CASE UNCHANGED <<registed_devices, owner>>
    BY <2>1, <2>3 DEF RoutesOK
  <2>4. ASSUME NEW n \in DevSlot, Stored(n) \/ Deleted(n) \/ Flagged(n)
        PROVE  /\ owner'[k] \in Conn /\ tcp[owner'[k]] \in {"accepted", "closed"}
               /\ tcp[owner'[k]] = "accepted" =>
                     client_socket[registed_devices'[k].socket_index] = owner'[k]
    BY <2>2, <2>4, SlotStep DEF RoutesOK
  <2> QED BY <2>1, <2>3, <2>4, RegistryStep
<1>2. CASE ~ Handle
  <2>1. UNCHANGED <<registed_devices, owner>>
    BY <1>2, RegistryStep
  <2>2. registed_devices[k].socket_index \in Slot
    BY <2>1 DEF LoopInv, TypeOK, IoT_Device_Info
  <2> QED BY <1>2, <2>1, <2>2, SocketStep DEF RoutesOK
<1> QED BY <1>1, <1>2

\* A device whose broker is still connected is always reached through the slot
\* kept with it.
THEOREM RoutesRight == Spec => []RoutedWhileOpen
<1>1. Init => RoutesOK
  BY DEF Init, RoutesOK
<1>2. LoopInv /\ RoutesOK => RoutedWhileOpen
  BY DEF RoutesOK, RoutedWhileOpen
<1> QED BY <1>1, <1>2, LoopInvariant, RoutesStep, PTL DEF Spec

----------------------------------------------------------------------------
\* Where an address can be after it was given out: a package carries it if it is
\* the reply to an address request, or the registration that uses it up.
Carried(p) ==
    IF IsRegistration(p) THEN {p.sor}
    ELSE IF p.body.tag = "0" THEN {p.des} \cap Nat ELSE {}

CarriedBy(q) == UNION {Carried(q[m]) : m \in 1 .. Len(q)}
CarriedBefore(q, m) == UNION {Carried(q[n]) : n \in 1 .. m - 1}

\* No address is carried twice in a queue.
EachOnce(q) == \A m, n \in 1 .. Len(q) : m # n => Carried(q[m]) \cap Carried(q[n]) = {}

Buffered == [s \in Slot |-> IF packageBuffer[s] = NULL THEN <<>> ELSE packageBuffer[s]]

\* The places that hold addresses.
Pool == <<"pool", 0>>
DownOf(c) == <<"down", c>>
WireOf(c) == <<"wire", c>>
BufferOf(s) == <<"buffer", s>>
EntryOf(k) == <<"entry", k>>
Waiting == {Pool} \cup {DownOf(c) : c \in Conn} \cup {WireOf(c) : c \in Conn} \cup {BufferOf(s) : s \in Slot}
Place == Waiting \cup {EntryOf(k) : k \in DevSlot}

Held == [x \in Place |->
    CASE x[1] = "pool" -> pool
      [] x[1] = "down" -> CarriedBy(down[x[2]])
      [] x[1] = "wire" -> CarriedBy(wire[x[2]])
      [] x[1] = "buffer" -> CarriedBy(Buffered[x[2]])
      [] x[1] = "entry" -> IF registed_devices[x[2]] = NULL THEN {} ELSE {registed_devices[x[2]].ip}]

GivenOut == 0 .. ip_count - 1

\* Every address that was given out is in one place at most, and once there.
Apart == \A x, y \in Place : x # y => Held[x] \cap Held[y] = {}
AllOnce == /\ \A c \in Conn : EachOnce(down[c]) /\ EachOnce(wire[c])
           /\ \A s \in Slot : EachOnce(Buffered[s])
AllGivenOut == \A x \in Place : Held[x] \subseteq GivenOut

\* What clients send and are sent: address requests are anonymous and their
\* replies name an address, descriptions go to the manager.
FromClient == {p \in Package : /\ p.body.tag # "devices"
                               /\ p.body.tag = "0" => IsIpRequest(p)
                               /\ p.body.tag = "IOTDEV" => p.des = Master}
ToClient == {p \in Package : p.body.tag = "0" => p.des \in Nat}
PackagesOK ==
    /\ wire \in [Conn -> Seq(FromClient)] /\ Buffered \in [Slot -> Seq(FromClient)]
    /\ down \in [Conn -> Seq(ToClient)]

AddressInv == Apart /\ AllOnce /\ AllGivenOut /\ PackagesOK

\* The addresses that may still be registered, and those that may not.
Pending == UNION {Held[x] : x \in Waiting}
Settled == GivenOut \ Pending

----------------------------------------------------------------------------
\* What the queues' operations do to the addresses they carry.

\* A stretch of a queue carries no more than the queue.
LEMMA CarriedStretch ==
    ASSUME NEW q, NEW t, NEW d \in Nat, Len(q) \in Nat, Len(t) \in Nat,
           \A m \in 1 .. Len(t) : m + d \in 1 .. Len(q) /\ t[m] = q[m + d]
    PROVE  CarriedBy(t) \subseteq CarriedBy(q) /\ (EachOnce(q) => EachOnce(t))
<1>1. ASSUME NEW m \in 1 .. Len(t) PROVE Carried(t[m]) \subseteq CarriedBy(q)
  <2>1. m + d \in 1 .. Len(q) /\ t[m] = q[m + d]
    OBVIOUS
  <2> QED BY <2>1 DEF CarriedBy
<1>2. ASSUME EachOnce(q), NEW m \in 1 .. Len(t), NEW n \in 1 .. Len(t), m # n
      PROVE  Carried(t[m]) \cap Carried(t[n]) = {}
  <2>1. /\ m + d \in 1 .. Len(q) /\ t[m] = q[m + d]
        /\ n + d \in 1 .. Len(q) /\ t[n] = q[n + d] /\ m + d # n + d
    BY <1>2
  <2> QED BY <1>2, <2>1 DEF EachOnce
<1>3. CarriedBy(t) \subseteq CarriedBy(q)
  BY <1>1 DEF CarriedBy
<1> QED BY <1>2, <1>3 DEF EachOnce

LEMMA CarriedTail ==
    ASSUME NEW q \in Seq(Package), q # <<>>
    PROVE  /\ CarriedBy(Tail(q)) \subseteq CarriedBy(q)
           /\ Carried(Head(q)) \subseteq CarriedBy(q)
           /\ EachOnce(q) => /\ EachOnce(Tail(q))
                             /\ CarriedBy(Tail(q)) \cap Carried(Head(q)) = {}
<1> DEFINE t == Tail(q)
           h == Head(q)
<1>0. /\ Len(q) \in Nat \ {0} /\ Len(t) = Len(q) - 1 /\ h = q[1]
      /\ \A m \in 1 .. Len(t) : t[m] = q[m + 1]
  BY HeadTail
<1> HIDE DEF t, h
<1>1. CarriedBy(t) \subseteq CarriedBy(q) /\ (EachOnce(q) => EachOnce(t))
  <2>1. \A m \in 1 .. Len(t) : m + 1 \in 1 .. Len(q) /\ t[m] = q[m + 1]
    BY <1>0
  <2>2. 1 \in Nat /\ Len(q) \in Nat /\ Len(t) \in Nat
    BY <1>0
  <2> QED BY <2>1, <2>2, CarriedStretch, Zenon
<1>2. Carried(h) \subseteq CarriedBy(q)
  <2>1. 1 \in 1 .. Len(q)
    BY <1>0
  <2> QED BY <1>0, <2>1 DEF CarriedBy
<1>3. ASSUME EachOnce(q), NEW m \in 1 .. Len(t)
      PROVE  Carried(t[m]) \cap Carried(h) = {}
  <2>1. m + 1 \in 1 .. Len(q) /\ t[m] = q[m + 1] /\ 1 \in 1 .. Len(q) /\ m + 1 # 1
    BY <1>0
  <2> QED BY <1>0, <1>3, <2>1 DEF EachOnce
<1>4. EachOnce(q) => CarriedBy(t) \cap Carried(h) = {}
  BY <1>3 DEF CarriedBy
<1> QED BY <1>1, <1>2, <1>4 DEF t, h

LEMMA CarriedPieces ==
    ASSUME NEW q \in Seq(Package), NEW n \in 0 .. Len(q)
    PROVE  /\ CarriedBy(SubSeq(q, 1, n)) \subseteq CarriedBy(q)
           /\ CarriedBy(SubSeq(q, n + 1, Len(q))) \subseteq CarriedBy(q)
           /\ EachOnce(q) => /\ EachOnce(SubSeq(q, 1, n)) /\ EachOnce(SubSeq(q, n + 1, Len(q)))
                             /\ CarriedBy(SubSeq(q, 1, n)) \cap CarriedBy(SubSeq(q, n + 1, Len(q))) = {}
<1> DEFINE a == SubSeq(q, 1, n)
           b == SubSeq(q, n + 1, Len(q))
<1>1. /\ Len(q) \in Nat /\ Len(a) = n /\ Len(b) = Len(q) - n
      /\ \A m \in 1 .. n : a[m] = q[m]
      /\ \A m \in 1 .. Len(b) : b[m] = q[m + n]
  OBVIOUS
<1> HIDE DEF a, b
<1>2. CarriedBy(a) \subseteq CarriedBy(q) /\ (EachOnce(q) => EachOnce(a))
  <2>1. \A m \in 1 .. Len(a) : m + 0 \in 1 .. Len(q) /\ a[m] = q[m + 0]
    BY <1>1
  <2>2. 0 \in Nat /\ Len(q) \in Nat /\ Len(a) \in Nat
    BY <1>1
  <2> QED BY <2>1, <2>2, CarriedStretch, Zenon
<1>3. CarriedBy(b) \subseteq CarriedBy(q) /\ (EachOnce(q) => EachOnce(b))
  <2>1. \A m \in 1 .. Len(b) : m + n \in 1 .. Len(q) /\ b[m] = q[m + n]
    BY <1>1
  <2>2. n \in Nat /\ Len(q) \in Nat /\ Len(b) \in Nat
    BY <1>1
  <2> QED BY <2>1, <2>2, CarriedStretch, Zenon
<1>4. ASSUME EachOnce(q), NEW m \in 1 .. Len(a), NEW l \in 1 .. Len(b)
      PROVE  Carried(a[m]) \cap Carried(b[l]) = {}
  <2>1. /\ m \in 1 .. Len(q) /\ a[m] = q[m]
        /\ l + n \in 1 .. Len(q) /\ b[l] = q[l + n] /\ m # l + n
    BY <1>1
  <2> QED BY <1>4, <2>1 DEF EachOnce
<1>5. EachOnce(q) => CarriedBy(a) \cap CarriedBy(b) = {}
  <2> SUFFICES ASSUME EachOnce(q), NEW x \in CarriedBy(a), x \in CarriedBy(b) PROVE FALSE
    OBVIOUS
  <2>1. PICK m \in 1 .. Len(a) : x \in Carried(a[m])
    BY DEF CarriedBy
  <2>2. PICK l \in 1 .. Len(b) : x \in Carried(b[l])
    BY DEF CarriedBy
  <2> QED BY <1>4, <2>1, <2>2
<1> QED BY <1>2, <1>3, <1>5 DEF a, b

LEMMA CarriedJoined ==
    ASSUME NEW q \in Seq(Package), NEW r \in Seq(Package)
    PROVE  /\ CarriedBy(q \o r) = CarriedBy(q) \cup CarriedBy(r)
           /\ EachOnce(q) /\ EachOnce(r) /\ CarriedBy(q) \cap CarriedBy(r) = {} => EachOnce(q \o r)
<1> DEFINE w == q \o r
<1>1. /\ Len(q) \in Nat /\ Len(r) \in Nat /\ Len(w) = Len(q) + Len(r)
      /\ \A m \in 1 .. Len(q) : w[m] = q[m]
      /\ \A m \in 1 .. Len(r) : w[m + Len(q)] = r[m]
      /\ \A m \in 1 .. Len(w) : m > Len(q) => w[m] = r[m - Len(q)] /\ m - Len(q) \in 1 .. Len(r)
  OBVIOUS
<1> HIDE DEF w
<1>2. ASSUME NEW m \in 1 .. Len(w)
      PROVE  \/ m \in 1 .. Len(q) /\ w[m] = q[m]
             \/ m - Len(q) \in 1 .. Len(r) /\ w[m] = r[m - Len(q)]
  BY <1>1
<1>3. CarriedBy(w) \subseteq CarriedBy(q) \cup CarriedBy(r)
  BY <1>2 DEF CarriedBy
<1>4. CarriedBy(q) \subseteq CarriedBy(w)
  BY <1>1 DEF CarriedBy
<1>5. CarriedBy(r) \subseteq CarriedBy(w)
  <2> SUFFICES ASSUME NEW m \in 1 .. Len(r) PROVE Carried(r[m]) \subseteq CarriedBy(w)
    BY DEF CarriedBy
  <2>1. m + Len(q) \in 1 .. Len(w) /\ w[m + Len(q)] = r[m]
    BY <1>1
  <2> QED BY <2>1 DEF CarriedBy
<1>6. ASSUME EachOnce(q), EachOnce(r), CarriedBy(q) \cap CarriedBy(r) = {},
             NEW m \in 1 .. Len(w), NEW n \in 1 .. Len(w), m # n
      PROVE  Carried(w[m]) \cap Carried(w[n]) = {}
  <2>1. \A l \in 1 .. Len(q) : Carried(q[l]) \subseteq CarriedBy(q)
    BY DEF CarriedBy
  <2>2. \A l \in 1 .. Len(r) : Carried(r[l]) \subseteq CarriedBy(r)
    BY DEF CarriedBy
  <2>3. m - Len(q) # n - Len(q)
    BY <1>1, <1>6
  <2> QED BY <1>2, <1>6, <2>1, <2>2, <2>3 DEF EachOnce
<1> QED BY <1>3, <1>4, <1>5, <1>6 DEF w, EachOnce

LEMMA CarriedAppend ==
    ASSUME NEW q \in Seq(Package), NEW p \in Package
    PROVE  /\ CarriedBy(Append(q, p)) = CarriedBy(q) \cup Carried(p)
           /\ EachOnce(q) /\ CarriedBy(q) \cap Carried(p) = {} => EachOnce(Append(q, p))
<1>1. /\ <<p>> \in Seq(Package) /\ Append(q, p) = q \o <<p>>
      /\ Len(<<p>>) = 1 /\ <<p>>[1] = p
  OBVIOUS
<1>2. CarriedBy(<<p>>) = Carried(p) /\ EachOnce(<<p>>)
  BY <1>1 DEF CarriedBy, EachOnce
<1> QED BY <1>1, <1>2, CarriedJoined

----------------------------------------------------------------------------
\* The places, and what is held at each.
LEMMA HeldAt ==
    /\ Held[Pool] = pool
    /\ \A c \in Conn : Held[DownOf(c)] = CarriedBy(down[c]) /\ Held[WireOf(c)] = CarriedBy(wire[c])
    /\ \A s \in Slot : Held[BufferOf(s)] = CarriedBy(Buffered[s])
    /\ \A k \in DevSlot : Held[EntryOf(k)] =
          IF registed_devices[k] = NULL THEN {} ELSE {registed_devices[k].ip}
BY DEF Held, Place, Waiting, Pool, DownOf, WireOf, BufferOf, EntryOf

LEMMA HeldAtNext ==
    /\ Held'[Pool] = pool'
    /\ \A c \in Conn : Held'[DownOf(c)] = CarriedBy(down'[c]) /\ Held'[WireOf(c)] = CarriedBy(wire'[c])
    /\ \A s \in Slot : Held'[BufferOf(s)] = CarriedBy(Buffered'[s])
    /\ \A k \in DevSlot : Held'[EntryOf(k)] =
          IF registed_devices'[k] = NULL THEN {} ELSE {registed_devices'[k].ip}
BY DEF Held, Place, Waiting, Pool, DownOf, WireOf, BufferOf, EntryOf

LEMMA Places ==
    /\ Pool \in Waiting
    /\ \A c \in Conn : DownOf(c) \in Waiting /\ WireOf(c) \in Waiting
    /\ \A s \in Slot : BufferOf(s) \in Waiting
    /\ Waiting \subseteq Place
    /\ \A k \in DevSlot : EntryOf(k) \in Place \ Waiting
    /\ \A x \in Place : \/ x = Pool
                        \/ \E c \in Conn : x = DownOf(c) \/ x = WireOf(c)
                        \/ \E s \in Slot : x = BufferOf(s)
                        \/ \E k \in DevSlot : x = EntryOf(k)
    /\ \A c, d \in Conn : /\ DownOf(c) # Pool /\ WireOf(c) # Pool /\ DownOf(c) # WireOf(d)
                          /\ DownOf(c) = DownOf(d) => c = d
                          /\ WireOf(c) = WireOf(d) => c = d
    /\ \A s \in Slot : /\ BufferOf(s) # Pool
                       /\ \A c \in Conn : BufferOf(s) # DownOf(c) /\ BufferOf(s) # WireOf(c)
                       /\ \A t \in Slot : BufferOf(s) = BufferOf(t) => s = t
    /\ \A k, l \in DevSlot : EntryOf(k) = EntryOf(l) => k = l
BY DEF Place, Waiting, Pool, DownOf, WireOf, BufferOf, EntryOf

\* No address is ever in two places if those that come to a place are new or
\* leave the place they were in.
Moved(M, dst) ==
    /\ \A z \in Place \ {dst} : Held'[z] \subseteq Held[z] \ M
    /\ Held'[dst] \subseteq Held[dst] \cup M

\* What becomes pending in a step was so before, or is new.
PendingStep == \A a \in Pending' : a \in Pending \/ a \notin GivenOut

LEMMA MoreGivenOut ==
    ASSUME NEW a \in Nat, NEW b \in Nat, b >= a
    PROVE  0 .. a - 1 \subseteq 0 .. b - 1
OBVIOUS

LEMMA MovedApart ==
    ASSUME Apart, AllGivenOut, NEW M, NEW dst \in Place, Moved(M, dst),
           M \subseteq Pending \/ M \cap GivenOut = {},
           M \subseteq GivenOut', ip_count \in Nat, ip_count' \in Nat, ip_count' >= ip_count
    PROVE  Apart' /\ AllGivenOut' /\ PendingStep
<1>1. Apart'
  <2> SUFFICES ASSUME NEW x \in Place, NEW y \in Place, x # y PROVE Held'[x] \cap Held'[y] = {}
    BY DEF Apart
  <2> QED BY DEF Apart, Moved
<1>2. GivenOut \subseteq GivenOut'
  BY MoreGivenOut DEF GivenOut
<1>3. AllGivenOut'
  BY <1>2 DEF AllGivenOut, Moved
<1>4. PendingStep
  BY Places DEF PendingStep, Pending, Moved
<1> QED BY <1>1, <1>3, <1>4

LEMMA MovedFrom ==
    ASSUME Apart, NEW M, NEW src \in Place, NEW dst \in Place, src # dst,
           M \subseteq Held[src], Held'[src] \subseteq Held[src] \ M,
           Held'[dst] \subseteq Held[dst] \cup M,
           \A z \in Place \ {src, dst} : Held'[z] \subseteq Held[z]
    PROVE  Moved(M, dst)
<1> SUFFICES ASSUME NEW z \in Place, z # dst PROVE Held'[z] \subseteq Held[z] \ M
  BY DEF Moved
<1> QED BY DEF Apart

LEMMA MovedNew ==
    ASSUME AllGivenOut, NEW M, NEW dst \in Place, M \cap GivenOut = {},
           Held'[dst] \subseteq Held[dst] \cup M,
           \A z \in Place \ {dst} : Held'[z] \subseteq Held[z]
    PROVE  Moved(M, dst)
BY DEF AllGivenOut, Moved

LEMMA MovedNot ==
    ASSUME \A z \in Place : Held'[z] \subseteq Held[z]
    PROVE  Moved({}, Pool)
BY Places DEF Moved

\* A step in which at most one of the places loses something, and none gains.
Kept == \A z \in Place : Held'[z] \subseteq Held[z]

LEMMA KeptApart ==
    ASSUME LoopInv, Apart, AllGivenOut, Kept, ip_count' = ip_count
    PROVE  Apart' /\ AllGivenOut' /\ PendingStep
<1>1. Moved({}, Pool) /\ Pool \in Place
  BY MovedNot, Places DEF Kept
<1>2. ip_count \in Nat
  BY DEF LoopInv, TypeOK
<1>3. ip_count >= ip_count
  BY <1>2
<1> QED BY <1>1, <1>2, <1>3, MovedApart

\* The entry of a slot keeps its address or goes.
SameIp(k) == registed_devices'[k] # NULL =>
    registed_devices[k] # NULL /\ registed_devices'[k].ip = registed_devices[k].ip

\* It is enough to say so of each kind of place, those of X left out.
LEMMA KeptElsewhere ==
    ASSUME NEW X,
           Pool \in X \/ pool' \subseteq pool,
           \A c \in Conn : /\ DownOf(c) \in X \/ CarriedBy(down'[c]) \subseteq CarriedBy(down[c])
                           /\ WireOf(c) \in X \/ CarriedBy(wire'[c]) \subseteq CarriedBy(wire[c]),
           \A s \in Slot : BufferOf(s) \in X \/ CarriedBy(Buffered'[s]) \subseteq CarriedBy(Buffered[s]),
           \A k \in DevSlot : EntryOf(k) \in X \/ SameIp(k)
    PROVE  \A z \in Place \ X : Held'[z] \subseteq Held[z]
<1> SUFFICES ASSUME NEW z \in Place, z \notin X PROVE Held'[z] \subseteq Held[z]
  OBVIOUS
<1>1. CASE z = Pool
  BY <1>1, HeldAt, HeldAtNext
<1>2. ASSUME NEW c \in Conn, z = DownOf(c) \/ z = WireOf(c) PROVE Held'[z] \subseteq Held[z]
  BY <1>2, HeldAt, HeldAtNext
<1>3. ASSUME NEW s \in Slot, z = BufferOf(s) PROVE Held'[z] \subseteq Held[z]
  BY <1>3, HeldAt, HeldAtNext
<1>4. ASSUME NEW k \in DevSlot, z = EntryOf(k) PROVE Held'[z] \subseteq Held[z]
  BY <1>4, HeldAt, HeldAtNext DEF SameIp
<1> QED BY <1>1, <1>2, <1>3, <1>4, Places

LEMMA KeptEach ==
    ASSUME pool' \subseteq pool,
           \A c \in Conn : /\ CarriedBy(down'[c]) \subseteq CarriedBy(down[c])
                           /\ CarriedBy(wire'[c]) \subseteq CarriedBy(wire[c]),
           \A s \in Slot : CarriedBy(Buffered'[s]) \subseteq CarriedBy(Buffered[s]),
           \A k \in DevSlot : SameIp(k)
    PROVE  Kept
<1>1. \A z \in Place \ {} : Held'[z] \subseteq Held[z]
  BY KeptElsewhere
<1> QED BY <1>1 DEF Kept

LEMMA EmptyQueue == CarriedBy(<<>>) = {} /\ EachOnce(<<>>)
BY DEF CarriedBy, EachOnce

\* The actions that leave all queues and the registry alone.
LEMMA AddressQuiet ==
    ASSUME LoopInv, AddressInv, Buffered' = Buffered,
           UNCHANGED <<pool, down, wire, registed_devices, ip_count>>
    PROVE  AddressInv' /\ PendingStep
<1>1. Kept
  BY KeptEach DEF SameIp
<1>2. Apart' /\ AllGivenOut' /\ PendingStep
  BY <1>1, KeptApart DEF AddressInv
<1> QED BY <1>2 DEF AddressInv, AllOnce, PackagesOK

LEMMA AcceptBuffer ==
    ASSUME LoopInv, Accept
    PROVE  /\ Buffered' = Buffered
           /\ \A s \in Slot, c \in Conn : client_socket[s] = c => client_socket'[s] = c
<1>1. CASE UNCHANGED <<packageBuffer, client_socket>>
  BY <1>1 DEF Buffered
<1>2. CASE ~ UNCHANGED <<packageBuffer, client_socket>>
  <2>1. PICK s \in Slot : /\ client_socket[s] = NULL
                          /\ client_socket' = [client_socket EXCEPT ![s] = Head(backlog)]
                          /\ packageBuffer' = [packageBuffer EXCEPT ![s] = <<>>]
    BY <1>2 DEF Accept, FreeSlots, IsFirst
  <2>2. packageBuffer[s] = NULL /\ packageBuffer \in [Slot -> Seq(Package) \cup {NULL}]
    BY <2>1 DEF LoopInv, TypeOK, SlotsAgree
  <2>3. Buffered' = Buffered
    BY <2>1, <2>2 DEF Buffered
  <2>4. \A t \in Slot, c \in Conn : client_socket[t] = c => client_socket'[t] = c
    BY <2>1, NamesAssumption DEF LoopInv, TypeOK
  <2> QED BY <2>3, <2>4
<1> QED BY <1>1, <1>2

LEMMA AddressAccept ==
    ASSUME LoopInv, AddressInv, Accept
    PROVE  AddressInv' /\ PendingStep
BY AcceptBuffer, AddressQuiet DEF Accept, registry, clients

LEMMA DisconnectBuffer ==
    ASSUME LoopInv, NEW s \in Slot, Disconnect(s)
    PROVE  /\ \A t \in Slot : Buffered'[t] = IF t = s THEN <<>> ELSE Buffered[t]
           /\ \A t \in Slot : t # s => client_socket'[t] = client_socket[t]
           /\ UNCHANGED <<pool, down, wire, mine, known, gone, registed_devices, ip_count>>
BY DEF Disconnect, LoopInv, TypeOK, Buffered, registry, clients

LEMMA AddressDisconnect ==
    ASSUME LoopInv, AddressInv, NEW s \in Slot, Disconnect(s)
    PROVE  AddressInv' /\ PendingStep
<1>1. /\ \A t \in Slot : Buffered'[t] = IF t = s THEN <<>> ELSE Buffered[t]
      /\ UNCHANGED <<pool, down, wire, registed_devices, ip_count>>
  BY DisconnectBuffer
<1>2. Kept
  BY <1>1, EmptyQueue, KeptEach DEF SameIp
<1>3. Apart' /\ AllGivenOut' /\ PendingStep
  BY <1>1, <1>2, KeptApart DEF AddressInv
<1>4. AllOnce'
  BY <1>1, EmptyQueue DEF AddressInv, AllOnce
<1>5. PackagesOK'
  <2>1. Buffered' = [t \in Slot |-> Buffered'[t]]
    BY DEF Buffered
  <2>2. \A t \in Slot : Buffered'[t] \in Seq(FromClient)
    <3>1. <<>> \in Seq(FromClient)
      OBVIOUS
    <3> QED BY <1>1, <3>1 DEF AddressInv, PackagesOK
  <2> QED BY <1>1, <2>1, <2>2 DEF AddressInv, PackagesOK
<1> QED BY <1>3, <1>4, <1>5 DEF AddressInv

LEMMA AddressHangUp ==
    ASSUME LoopInv, AddressInv, NEW c \in Conn, NEW kept \in 0 .. Len(wire[c]), HangUp(c, kept)
    PROVE  AddressInv' /\ PendingStep
<1>1. /\ wire' = [wire EXCEPT ![c] = SubSeq(@, 1, kept)] /\ down' = [down EXCEPT ![c] = <<>>]
      /\ UNCHANGED <<pool, packageBuffer, registed_devices, ip_count>>
  BY DEF HangUp, server, registry
<1>2. /\ wire \in [Conn -> Seq(Package)] /\ wire \in [Conn -> Seq(FromClient)]
      /\ down \in [Conn -> Seq(Package)] /\ down \in [Conn -> Seq(ToClient)]
  BY DEF LoopInv, TypeOK, AddressInv, PackagesOK
<1>3. /\ CarriedBy(SubSeq(wire[c], 1, kept)) \subseteq CarriedBy(wire[c])
      /\ EachOnce(wire[c]) => EachOnce(SubSeq(wire[c], 1, kept))
  BY <1>2, CarriedPieces
<1>4. SubSeq(wire[c], 1, kept) \in Seq(FromClient)
  BY <1>2, Pieces
<1> DEFINE new == SubSeq(wire[c], 1, kept)
<1>5. wire' = [wire EXCEPT ![c] = new]
  BY <1>1
<1> HIDE DEF new
<1>6. Buffered' = Buffered
  BY <1>1 DEF Buffered
<1>7. Kept
  BY <1>1, <1>2, <1>3, <1>5, <1>6, EmptyQueue, KeptEach DEF new, SameIp
<1>8. Apart' /\ AllGivenOut' /\ PendingStep
  BY <1>1, <1>7, KeptApart DEF AddressInv
<1>9. AllOnce'
  BY <1>1, <1>2, <1>3, <1>5, <1>6, EmptyQueue DEF AddressInv, AllOnce, new
<1>10. PackagesOK'
  BY <1>1, <1>2, <1>4, <1>5, <1>6 DEF AddressInv, PackagesOK, new
<1> QED BY <1>8, <1>9, <1>10 DEF AddressInv

\* recv moves the first n packages of a connection to its buffer.
Front(s, n) == SubSeq(wire[client_socket[s]], 1, n)
Rest(s, n) == SubSeq(wire[client_socket[s]], n + 1, Len(wire[client_socket[s]]))
Grown(s, n) == Buffered[s] \o Front(s, n)

LEMMA ReceiveQueues ==
    ASSUME LoopInv, AddressInv, NEW s \in Slot, NEW n \in 1 .. MaxWire, Receive(s, n)
    PROVE  /\ client_socket[s] \in Conn /\ n \in 0 .. Len(wire[client_socket[s]])
           /\ Front(s, n) \in Seq(FromClient) /\ Front(s, n) \in Seq(Package)
           /\ Rest(s, n) \in Seq(FromClient) /\ Rest(s, n) \in Seq(Package)
           /\ Grown(s, n) \in Seq(FromClient) /\ Buffered[s] \in Seq(Package)
           /\ wire' = [wire EXCEPT ![client_socket[s]] = Rest(s, n)]
           /\ Buffered' = [Buffered EXCEPT ![s] = Grown(s, n)]
           /\ UNCHANGED <<client_socket, pool, down, mine, known, gone, registed_devices, ip_count>>
<1> DEFINE c == client_socket[s]
           front == SubSeq(wire[c], 1, n)
           rest == SubSeq(wire[c], n + 1, Len(wire[c]))
           grown == Buffered[s] \o front
<1>1. /\ c \in Conn /\ n \in 0 .. Len(wire[c])
      /\ packageBuffer' = [packageBuffer EXCEPT ![s] = @ \o front]
      /\ wire' = [wire EXCEPT ![c] = rest]
      /\ UNCHANGED <<client_socket, pool, down, mine, known, gone, registed_devices, ip_count>>
  BY NamesAssumption
     DEF LoopInv, TypeOK, SlotsAgree, WalkOK, Receive, AtSlot, IsFirst, ReadySlots, registry, clients
<1> HIDE DEF c
<1>2. /\ wire \in [Conn -> Seq(Package)] /\ wire \in [Conn -> Seq(FromClient)]
      /\ packageBuffer \in [Slot -> Seq(Package) \cup {NULL}] /\ packageBuffer[s] # NULL
      /\ Buffered \in [Slot -> Seq(FromClient)] /\ Buffered[s] = packageBuffer[s]
  BY <1>1, NamesAssumption DEF LoopInv, TypeOK, SlotsAgree, AddressInv, PackagesOK, Buffered, c
<1>3. /\ front \in Seq(FromClient) /\ rest \in Seq(FromClient)
      /\ front \in Seq(Package) /\ rest \in Seq(Package)
  BY <1>1, <1>2, Pieces
<1> HIDE DEF front, rest
<1>4. grown \in Seq(FromClient) /\ grown \in Seq(Package) /\ Buffered[s] \in Seq(Package)
  BY <1>2, <1>3
<1>5. Buffered' = [Buffered EXCEPT ![s] = grown]
  <2>1. grown # NULL
    BY <1>4, NullAssumption
  <2> QED BY <1>1, <1>2, <2>1 DEF Buffered
<1> QED BY <1>1, <1>3, <1>4, <1>5 DEF c, front, rest, Front, Rest, Grown

LEMMA AddressReceive ==
    ASSUME LoopInv, AddressInv, NEW s \in Slot, NEW n \in 1 .. MaxWire, Receive(s, n)
    PROVE  AddressInv' /\ PendingStep
<1> DEFINE c == client_socket[s]
           front == Front(s, n)
           rest == Rest(s, n)
           joined == Grown(s, n)
<1>1. /\ c \in Conn /\ n \in 0 .. Len(wire[c])
      /\ wire' = [wire EXCEPT ![c] = rest] /\ Buffered' = [Buffered EXCEPT ![s] = joined]
      /\ UNCHANGED <<pool, down, registed_devices, ip_count>>
  BY ReceiveQueues
<1>2. /\ wire \in [Conn -> Seq(Package)] /\ wire \in [Conn -> Seq(FromClient)]
      /\ Buffered \in [Slot -> Seq(FromClient)]
  BY DEF LoopInv, TypeOK, AddressInv, PackagesOK
<1>3. /\ front \in Seq(Package) /\ rest \in Seq(FromClient) /\ joined \in Seq(FromClient)
      /\ Buffered[s] \in Seq(Package)
  BY ReceiveQueues
<1>4. /\ CarriedBy(front) \subseteq CarriedBy(wire[c]) /\ EachOnce(front) /\ EachOnce(rest)
      /\ CarriedBy(rest) \subseteq CarriedBy(wire[c]) \ CarriedBy(front)
  <2>1. EachOnce(wire[c])
    BY <1>1 DEF AddressInv, AllOnce
  <2> QED BY <1>1, <1>2, <2>1, CarriedPieces DEF Front, Rest
<1>5. CarriedBy(joined) = CarriedBy(Buffered[s]) \cup CarriedBy(front)
  BY <1>3, CarriedJoined DEF Grown
<1> HIDE DEF c, front, rest, joined
<1>6. wire'[c] = rest /\ \A d \in Conn : d # c => wire'[d] = wire[d]
  BY <1>1, <1>2
<1>7. Buffered'[s] = joined /\ \A t \in Slot : t # s => Buffered'[t] = Buffered[t]
  BY <1>1, <1>2
<1>8. /\ Held[WireOf(c)] = CarriedBy(wire[c]) /\ Held'[WireOf(c)] = CarriedBy(rest)
      /\ Held[BufferOf(s)] = CarriedBy(Buffered[s]) /\ Held'[BufferOf(s)] = CarriedBy(joined)
      /\ WireOf(c) \in Place /\ BufferOf(s) \in Place /\ WireOf(c) # BufferOf(s)
  BY <1>1, <1>6, <1>7, HeldAt, HeldAtNext, Places
<1>9. \A z \in Place \ {WireOf(c), BufferOf(s)} : Held'[z] \subseteq Held[z]
  <2>1. \A d \in Conn : /\ CarriedBy(down'[d]) = CarriedBy(down[d])
                        /\ WireOf(d) \in {WireOf(c), BufferOf(s)} \/ CarriedBy(wire'[d]) = CarriedBy(wire[d])
    BY <1>1, <1>6
  <2>2. \A t \in Slot : BufferOf(t) \in {WireOf(c), BufferOf(s)} \/ CarriedBy(Buffered'[t]) = CarriedBy(Buffered[t])
    BY <1>7
  <2> QED BY <1>1, <2>1, <2>2, KeptElsewhere DEF SameIp
<1>10. Moved(CarriedBy(front), BufferOf(s))
  BY <1>4, <1>5, <1>8, <1>9, MovedFrom DEF AddressInv
<1>11. Apart' /\ AllGivenOut' /\ PendingStep
  <2>1. CarriedBy(front) \subseteq GivenOut /\ GivenOut' = GivenOut
    BY <1>1, <1>4, <1>8 DEF AddressInv, AllGivenOut, GivenOut
  <2>2. ip_count \in Nat /\ ip_count' >= ip_count
    BY <1>1 DEF LoopInv, TypeOK
  <2>3. CarriedBy(front) \subseteq Pending
    BY <1>1, <1>4, <1>8, Places DEF Pending
  <2> QED BY <1>1, <1>8, <1>10, <2>1, <2>2, <2>3, MovedApart DEF AddressInv
<1>12. AllOnce'
  <2>1. EachOnce(Buffered[s]) /\ CarriedBy(Buffered[s]) \cap CarriedBy(front) = {}
    BY <1>4, <1>8 DEF AddressInv, AllOnce, Apart
  <2>2. EachOnce(joined)
    BY <1>3, <1>4, <2>1, CarriedJoined DEF joined, front, Grown
  <2> QED BY <1>1, <1>4, <1>6, <1>7, <2>2 DEF AddressInv, AllOnce
<1>13. PackagesOK'
  BY <1>1, <1>2, <1>3 DEF AddressInv, PackagesOK
<1> QED BY <1>11, <1>12, <1>13 DEF AddressInv

\* A client sends a package; what it carries, if anything, comes from the pool.
LEMMA AddressSend ==
    ASSUME LoopInv, AddressInv, NEW c \in Conn, NEW p \in FromClient, ClientSend(c, p),
           Carried(p) \subseteq pool, pool' = pool \ Carried(p)
    PROVE  AddressInv' /\ PendingStep
<1> DEFINE new == Append(wire[c], p)
<1>1. /\ wire' = [wire EXCEPT ![c] = new]
      /\ UNCHANGED <<down, packageBuffer, registed_devices, ip_count>>
  BY DEF ClientSend, server, registry
<1>2. /\ wire \in [Conn -> Seq(Package)] /\ wire \in [Conn -> Seq(FromClient)] /\ p \in Package
  BY DEF LoopInv, TypeOK, AddressInv, PackagesOK, FromClient
<1>3. CarriedBy(new) = CarriedBy(wire[c]) \cup Carried(p)
  BY <1>2, CarriedAppend
<1>4. new \in Seq(FromClient)
  BY <1>2
<1>5. Held[WireOf(c)] = CarriedBy(wire[c]) /\ Held[Pool] = pool /\ Held'[Pool] = pool'
      /\ WireOf(c) \in Place /\ Pool \in Place /\ WireOf(c) # Pool
  BY HeldAt, HeldAtNext, Places
<1>6. EachOnce(new)
  BY <1>2, <1>5, CarriedAppend DEF AddressInv, Apart, AllOnce
<1> HIDE DEF new
<1>7. wire'[c] = new /\ (\A d \in Conn : d # c => wire'[d] = wire[d]) /\ Buffered' = Buffered
  BY <1>1, <1>2 DEF Buffered
<1>8. Held'[WireOf(c)] \subseteq Held[WireOf(c)] \cup Carried(p)
  BY <1>3, <1>5, <1>7, HeldAtNext
<1>9. \A z \in Place \ {Pool, WireOf(c)} : Held'[z] \subseteq Held[z]
  <2>1. \A d \in Conn : /\ CarriedBy(down'[d]) = CarriedBy(down[d])
                        /\ WireOf(d) \in {Pool, WireOf(c)} \/ CarriedBy(wire'[d]) = CarriedBy(wire[d])
    BY <1>1, <1>7
  <2> QED BY <1>1, <1>7, <2>1, KeptElsewhere DEF SameIp
<1>10. Moved(Carried(p), WireOf(c))
  BY <1>5, <1>8, <1>9, MovedFrom DEF AddressInv
<1>11. Apart' /\ AllGivenOut' /\ PendingStep
  <2>1. Carried(p) \subseteq GivenOut /\ GivenOut' = GivenOut
    BY <1>1, <1>5 DEF AddressInv, AllGivenOut, GivenOut
  <2>2. ip_count \in Nat /\ ip_count' >= ip_count
    BY <1>1 DEF LoopInv, TypeOK
  <2>3. Carried(p) \subseteq Pending
    BY <1>5, Places DEF Pending
  <2> QED BY <1>1, <1>5, <1>10, <2>1, <2>2, <2>3, MovedApart DEF AddressInv
<1>12. AllOnce'
  BY <1>1, <1>6, <1>7 DEF AddressInv, AllOnce
<1>13. PackagesOK'
  BY <1>1, <1>2, <1>4, <1>7 DEF AddressInv, PackagesOK
<1> QED BY <1>11, <1>12, <1>13 DEF AddressInv

\* What clients send carries nothing but a registration.
LEMMA ClientPackages ==
    /\ create_package(Zero, Zero, ZeroBody) \in FromClient
    /\ Carried(create_package(Zero, Zero, ZeroBody)) = {}
    /\ \A a \in Addr, d \in DevID :
         LET p == create_package(a, Master, [tag |-> "IOTDEV", devID |-> d])
         IN  p \in FromClient /\ Carried(p) = {a}
    /\ \A from, to, v \in Addr, t \in CommandType, id \in CommandID :
         LET p == create_package(from, to, Cmd(t, id, v))
         IN  p \in FromClient /\ Carried(p) = {} /\ ~ IsRegistration(p)
<1>0. Zero \in Addr /\ Master \in Addr /\ Zero \notin Nat
  BY NamesAssumption DEF Addr
<1>1. /\ create_package(Zero, Zero, ZeroBody) \in FromClient
      /\ Carried(create_package(Zero, Zero, ZeroBody)) = {}
  <2>1. create_package(Zero, Zero, ZeroBody) \in Package
    BY <1>0, ZeroBodyPackage
  <2> QED BY <1>0, <2>1
          DEF FromClient, Carried, IsRegistration, IsIpRequest, create_package, ZeroBody
<1>2. ASSUME NEW a \in Addr, NEW d \in DevID
      PROVE  LET p == create_package(a, Master, [tag |-> "IOTDEV", devID |-> d])
             IN  p \in FromClient /\ Carried(p) = {a}
  BY RegistrationPackage DEF FromClient, Carried, IsRegistration, create_package
<1>3. ASSUME NEW from \in Addr, NEW to \in Addr, NEW v \in Addr,
             NEW t \in CommandType, NEW id \in CommandID
      PROVE  LET p == create_package(from, to, Cmd(t, id, v))
             IN  p \in FromClient /\ Carried(p) = {} /\ ~ IsRegistration(p)
  BY CommandPackage DEF FromClient, Carried, IsRegistration, create_package, Cmd
<1> QED BY <1>1, <1>2, <1>3

\* The values clients put into commands, and the senders they give, are addresses.
LEMMA ClientValues ==
    ASSUME TypeOK, NEW c \in Conn
    PROVE  /\ mine[c] \cup {Zero} \subseteq Addr /\ known \subseteq Addr
           /\ \A id \in CommandID : CommandValues(c, id) \subseteq Addr
BY DEF TypeOK, CommandValues, Addr

LEMMA AddressClientSends ==
    ASSUME LoopInv, AddressInv, NEW c \in Conn,
           \/ AskIp(c)
           \/ \E a \in pool, d \in DevID : RegisterDevice(c, a, d)
           \/ \E from \in mine[c] \cup {Zero}, cmd \in Command :
                 \E value \in CommandValues(c, cmd.ID) : SendCommand(c, from, cmd, value)
           \/ \E from \in mine[c], to \in known : Forward(c, from, to)
    PROVE  AddressInv' /\ PendingStep
<1>0. TypeOK /\ Master \in Addr
  BY DEF LoopInv, Addr
<1>1. CASE AskIp(c)
  BY <1>1, AddressSend, ClientPackages DEF AskIp
<1>2. ASSUME NEW a \in pool, NEW d \in DevID, RegisterDevice(c, a, d) PROVE AddressInv' /\ PendingStep
  <2>1. a \in Addr
    BY <1>0 DEF TypeOK
  <2> QED BY <1>2, <2>1, AddressSend, ClientPackages DEF RegisterDevice
<1>3. ASSUME NEW from \in mine[c] \cup {Zero}, NEW cmd \in Command,
             NEW value \in CommandValues(c, cmd.ID), SendCommand(c, from, cmd, value)
      PROVE  AddressInv' /\ PendingStep
  <2>1. cmd.type \in CommandType /\ cmd.ID \in CommandID
    BY CommandAssumption
  <2>2. from \in Addr /\ value \in Addr
    BY <1>0, <2>1, ClientValues
  <2>3. pool' = pool
    BY <1>3 DEF SendCommand, CountRequest
  <2> DEFINE p == create_package(from, Master, Cmd(cmd.type, cmd.ID, value))
  <2>4. p \in FromClient /\ Carried(p) = {}
    BY <1>0, <2>1, <2>2, ClientPackages
  <2>5. ClientSend(c, p)
    BY <1>3 DEF SendCommand
  <2> QED BY <2>3, <2>4, <2>5, AddressSend
<1>4. ASSUME NEW from \in mine[c], NEW to \in known, Forward(c, from, to) PROVE AddressInv' /\ PendingStep
  <2>1. from \in Addr /\ to \in Addr /\ Zero \in Addr
    BY <1>0, ClientValues DEF Addr
  <2>2. pool' = pool
    BY <1>4 DEF Forward, CountRequest
  <2> DEFINE p == create_package(from, to, Cmd("ReadRequest", "component", Zero))
  <2>3. p \in FromClient /\ Carried(p) = {}
    BY <2>1, ClientPackages DEF CommandType, CommandID
  <2>4. ClientSend(c, p)
    BY <1>4 DEF Forward
  <2> QED BY <2>2, <2>3, <2>4, AddressSend
<1> QED BY <1>1, <1>2, <1>3, <1>4

\* A client that reads the reply to an address request has the address in its pool.
LEMMA AddressRead ==
    ASSUME LoopInv, AddressInv, NEW c \in Conn, Read(c)
    PROVE  AddressInv' /\ PendingStep
<1> DEFINE q == down[c]
           p == Head(down[c])
           rest == Tail(down[c])
<1>1. /\ q # <<>> /\ down' = [down EXCEPT ![c] = rest]
      /\ pool' = IF p.body.tag = "0" THEN pool \cup {p.des} ELSE pool
      /\ UNCHANGED <<wire, packageBuffer, registed_devices, ip_count>>
  BY DEF Read, server, registry
<1>2. down \in [Conn -> Seq(Package)] /\ down \in [Conn -> Seq(ToClient)]
  BY DEF LoopInv, TypeOK, AddressInv, PackagesOK
<1>3. rest \in Seq(ToClient) /\ p \in ToClient
  BY <1>1, <1>2, HeadTail
<1>4. /\ Carried(p) \subseteq CarriedBy(q) /\ EachOnce(rest)
      /\ CarriedBy(rest) \subseteq CarriedBy(q) \ Carried(p)
  <2>1. EachOnce(q)
    BY DEF AddressInv, AllOnce
  <2> QED BY <1>1, <1>2, <2>1, CarriedTail
<1> HIDE DEF p, rest, q
<1>5. pool' \subseteq pool \cup Carried(p)
  BY <1>1, <1>3 DEF ToClient, Carried, IsRegistration
<1>6. down'[c] = rest /\ (\A d \in Conn : d # c => down'[d] = down[d]) /\ Buffered' = Buffered
  BY <1>1, <1>2 DEF Buffered
<1>7. /\ Held[Pool] = pool /\ Held'[Pool] = pool'
      /\ Held[DownOf(c)] = CarriedBy(q) /\ Held'[DownOf(c)] = CarriedBy(rest)
      /\ DownOf(c) \in Place /\ Pool \in Place /\ DownOf(c) # Pool
  BY <1>6, HeldAt, HeldAtNext, Places DEF q
<1>8. \A z \in Place \ {DownOf(c), Pool} : Held'[z] \subseteq Held[z]
  <2>1. \A d \in Conn : /\ CarriedBy(wire'[d]) = CarriedBy(wire[d])
                        /\ DownOf(d) \in {DownOf(c), Pool} \/ CarriedBy(down'[d]) = CarriedBy(down[d])
    BY <1>1, <1>6
  <2> QED BY <1>1, <1>6, <2>1, KeptElsewhere DEF SameIp
<1>9. Moved(Carried(p), Pool)
  BY <1>4, <1>5, <1>7, <1>8, MovedFrom DEF AddressInv
<1>10. Apart' /\ AllGivenOut' /\ PendingStep
  <2>1. Carried(p) \subseteq GivenOut /\ GivenOut' = GivenOut
    BY <1>1, <1>4, <1>7 DEF AddressInv, AllGivenOut, GivenOut
  <2>2. ip_count \in Nat /\ ip_count' >= ip_count
    BY <1>1 DEF LoopInv, TypeOK
  <2>3. Carried(p) \subseteq Pending
    BY <1>4, <1>7, Places DEF Pending
  <2> QED BY <1>1, <1>7, <1>9, <2>1, <2>2, <2>3, MovedApart DEF AddressInv
<1>11. AllOnce'
  BY <1>1, <1>4, <1>6 DEF AddressInv, AllOnce
<1>12. PackagesOK'
  BY <1>1, <1>2, <1>3, <1>6 DEF AddressInv, PackagesOK
<1> QED BY <1>10, <1>11, <1>12 DEF AddressInv

\* What every handling does to the buffer, whatever the package says.
LEMMA HandleBuffer ==
    ASSUME LoopInv, AddressInv, Handle
    PROVE  /\ i \in Slot /\ packageBuffer[i] # <<>> /\ packageBuffer[i] = Buffered[i]
           /\ Buffered[i] \in Seq(Package) /\ Buffered[i] \in Seq(FromClient)
           /\ Arrived \in FromClient /\ Arrived \in Package
           /\ client_socket[i] \in Conn
           /\ handle_package(i, Arrived)
           /\ UNCHANGED <<pool, wire>>
           /\ Buffered'[i] = Tail(Buffered[i])
           /\ \A s \in Slot : s # i => Buffered'[s] = Buffered[s]
           /\ Buffered' \in [Slot -> Seq(FromClient)]
           /\ \A s \in Slot : EachOnce(Buffered'[s])
           /\ Carried(Arrived) \subseteq CarriedBy(Buffered[i])
           /\ CarriedBy(Buffered'[i]) \subseteq CarriedBy(Buffered[i]) \ Carried(Arrived)
<1>1. /\ i \in Slot /\ packageBuffer[i] # NULL /\ packageBuffer[i] # <<>>
      /\ packageBuffer \in [Slot -> Seq(Package) \cup {NULL}]
      /\ client_socket[i] \in Conn
  BY DEF LoopInv, TypeOK, SlotsAgree, Handle
<1>2. /\ packageBuffer' = [packageBuffer EXCEPT ![i] = Tail(@)]
      /\ UNCHANGED <<pool, wire>> /\ handle_package(i, Arrived)
  BY DEF Handle, clients, Arrived
<1>3. /\ packageBuffer[i] = Buffered[i] /\ Buffered[i] \in Seq(Package) /\ Buffered[i] \in Seq(FromClient)
      /\ Buffered \in [Slot -> Seq(FromClient)]
  BY <1>1 DEF Buffered, AddressInv, PackagesOK
<1>4. /\ Arrived \in Package /\ Arrived \in FromClient
      /\ Tail(Buffered[i]) \in Seq(Package) /\ Tail(Buffered[i]) \in Seq(FromClient)
  BY <1>1, <1>3, HeadTail DEF Arrived
<1>5. Buffered'[i] = Tail(Buffered[i]) /\ \A s \in Slot : s # i => Buffered'[s] = Buffered[s]
  <2>1. Tail(packageBuffer[i]) # NULL
    BY <1>3, <1>4, NullAssumption
  <2> QED BY <1>1, <1>2, <1>3, <2>1 DEF Buffered
<1>6. Buffered' \in [Slot -> Seq(FromClient)]
  <2>1. Buffered' = [s \in Slot |-> Buffered'[s]]
    BY DEF Buffered
  <2> QED BY <1>3, <1>4, <1>5, <2>1
<1>7. /\ Carried(Arrived) \subseteq CarriedBy(Buffered[i])
      /\ CarriedBy(Buffered'[i]) \subseteq CarriedBy(Buffered[i]) \ Carried(Arrived)
      /\ EachOnce(Buffered'[i])
  BY <1>1, <1>3, <1>5, CarriedTail DEF AddressInv, AllOnce, Arrived
<1>8. \A s \in Slot : EachOnce(Buffered'[s])
  BY <1>5, <1>7 DEF AddressInv, AllOnce
<1> QED BY <1>1, <1>2, <1>3, <1>4, <1>5, <1>6, <1>7, <1>8

\* A handling that gives nothing out and registers nobody.
LEMMA HandleKeeps ==
    ASSUME LoopInv, AddressInv, Handle, ip_count' = ip_count,
           down' \in [Conn -> Seq(ToClient)],
           \A c \in Conn : CarriedBy(down'[c]) \subseteq CarriedBy(down[c]) /\ EachOnce(down'[c]),
           \A k \in DevSlot : SameIp(k)
    PROVE  AddressInv' /\ PendingStep
<1>1. \A s \in Slot : CarriedBy(Buffered'[s]) \subseteq CarriedBy(Buffered[s])
  BY HandleBuffer
<1>2. pool' = pool /\ wire' = wire
  BY HandleBuffer
<1>3. Kept
  BY <1>1, <1>2, KeptEach
<1>4. Apart' /\ AllGivenOut' /\ PendingStep
  BY <1>3, KeptApart DEF AddressInv
<1> QED BY <1>2, <1>4, HandleBuffer DEF AddressInv, AllOnce, PackagesOK

\* send appends the package to one queue, or loses it.
LEMMA SendOne ==
    ASSUME TypeOK, NEW s \in Slot, NEW p, Send(s, p)
    PROVE  \/ down' = down
           \/ \E c \in Conn : down' = [down EXCEPT ![c] = Append(@, p)]
BY DEF TypeOK, Send

\* A package that carries no address leaves the places as they are.
LEMMA SendCarriesNothing ==
    ASSUME LoopInv, AddressInv, NEW s \in Slot, NEW p \in ToClient, Send(s, p), Carried(p) = {}
    PROVE  /\ down' \in [Conn -> Seq(ToClient)]
           /\ \A c \in Conn : CarriedBy(down'[c]) \subseteq CarriedBy(down[c]) /\ EachOnce(down'[c])
<1>1. down \in [Conn -> Seq(Package)] /\ down \in [Conn -> Seq(ToClient)] /\ p \in Package
  BY DEF LoopInv, TypeOK, AddressInv, PackagesOK, ToClient
<1>2. CASE down' = down
  BY <1>1, <1>2 DEF AddressInv, AllOnce
<1>3. ASSUME NEW c \in Conn, down' = [down EXCEPT ![c] = Append(@, p)]
      PROVE  /\ down' \in [Conn -> Seq(ToClient)]
             /\ \A d \in Conn : CarriedBy(down'[d]) \subseteq CarriedBy(down[d]) /\ EachOnce(down'[d])
  <2> DEFINE new == Append(down[c], p)
  <2>1. new \in Seq(ToClient)
    BY <1>1
  <2>2. CarriedBy(new) = CarriedBy(down[c]) /\ EachOnce(new)
    BY <1>1, CarriedAppend DEF AddressInv, AllOnce
  <2>3. down' = [down EXCEPT ![c] = new]
    BY <1>3
  <2> HIDE DEF new
  <2> QED BY <1>1, <2>1, <2>2, <2>3 DEF AddressInv, AllOnce
<1> QED BY <1>2, <1>3, SendOne DEF LoopInv

\* A package that is forwarded carries no address.
LEMMA ForwardedCarriesNothing ==
    ASSUME NEW p \in FromClient, IsForwarding(p)
    PROVE  Carried(p) = {} /\ p \in ToClient
BY DEF FromClient, ToClient, IsForwarding, IsIpRequest, Carried, IsRegistration

\* The manager's own packages, the reply to an address request left out.
LEMMA ManagerPackages ==
    ASSUME NEW des \in Addr
    PROVE  /\ \A ips \in SUBSET Addr :
                LET p == create_package(Master, des, [tag |-> "devices", ips |-> ips])
                IN  p \in ToClient /\ Carried(p) = {}
           /\ \A v \in Addr :
                LET p == create_package(Master, des, Cmd("Management", "Del_Dev", v))
                IN  p \in ToClient /\ Carried(p) = {}
<1>1. ASSUME NEW ips \in SUBSET Addr
      PROVE  LET p == create_package(Master, des, [tag |-> "devices", ips |-> ips])
             IN  p \in ToClient /\ Carried(p) = {}
  BY ListPackage DEF ToClient, Carried, IsRegistration, create_package
<1>2. ASSUME NEW v \in Addr
      PROVE  LET p == create_package(Master, des, Cmd("Management", "Del_Dev", v))
             IN  p \in ToClient /\ Carried(p) = {}
  <2>1. create_package(Master, des, Cmd("Management", "Del_Dev", v)) \in Package
    BY CommandPackage DEF Addr, CommandType, CommandID, ManageID
  <2> QED BY <2>1 DEF ToClient, Carried, IsRegistration, create_package, Cmd
<1> QED BY <1>1, <1>2

\* The lists of a discovery reply name addresses of registered devices.
Registered == {registed_devices[k].ip : k \in {k \in DevSlot : registed_devices[k] # NULL}}

LEMMA DiscoverListed ==
    ASSUME TypeOK, NEW id, NEW asker
    PROVE  DiscoverList(id, asker) \subseteq Registered /\ Registered \subseteq Addr
<1>1. DiscoverList(id, asker) \subseteq Registered
  BY DEF DiscoverList, Registered, encodeAllDevices_except_one, encodePxdDevices_except_one
<1>2. Registered \subseteq Addr
  BY DEF TypeOK, IoT_Device_Info, Registered
<1> QED BY <1>1, <1>2

LEMMA AddressHandleKeeps ==
    ASSUME LoopInv, AddressInv, Handle,
           \/ discover_package_replier(i, Arrived)
           \/ DeleteDevice(Arrived)
           \/ SetProxied(Arrived)
           \/ IgnoredByManager(Arrived)
           \/ handle_forwarding_package(i, Arrived)
    PROVE  AddressInv' /\ PendingStep
<1>0. /\ TypeOK /\ i \in Slot /\ Arrived \in FromClient /\ Arrived.sor \in Addr /\ Arrived.des \in Addr
      /\ down \in [Conn -> Seq(ToClient)]
      /\ \A c \in Conn : EachOnce(down[c])
      /\ registed_devices \in [DevSlot -> IoT_Device_Info \cup {NULL}]
  BY HandleBuffer, PackageFields DEF LoopInv, TypeOK, AddressInv, AllOnce, PackagesOK
<1>1. CASE discover_package_replier(i, Arrived)
  <2> DEFINE r == create_package(Master, Arrived.sor,
                     [tag |-> "devices", ips |-> DiscoverList(Arrived.body.ID, Arrived.sor)])
  <2>1. r \in ToClient /\ Carried(r) = {}
    BY <1>0, DiscoverListed, ManagerPackages
  <2>2. Send(i, r) /\ ip_count' = ip_count /\ registed_devices' = registed_devices
    BY <1>1 DEF discover_package_replier, registry
  <2> HIDE DEF r
  <2> QED BY <1>0, <2>1, <2>2, SendCarriesNothing, HandleKeeps DEF SameIp
<1>2. CASE DeleteDevice(Arrived)
  <2>1. down' = down /\ ip_count' = ip_count
    BY <1>2 DEF DeleteDevice
  <2>2. \A k \in DevSlot : SameIp(k)
    BY <1>0, <1>2 DEF DeleteDevice, SameIp
  <2> QED BY <1>0, <2>1, <2>2, HandleKeeps
<1>3. CASE SetProxied(Arrived)
  <2>1. down' = down /\ ip_count' = ip_count
    BY <1>3 DEF SetProxied
  <2>2. CASE SlotsWithIp(Arrived.body.Value) # {}
    <3> DEFINE b == IF Arrived.body.ID = "Prx_Add" THEN 1 ELSE 0
    <3>1. PICK k \in DevSlot :
             /\ registed_devices[k] # NULL
             /\ registed_devices' = [registed_devices EXCEPT ![k].proxied = b]
      BY <1>3, <2>2 DEF SetProxied, SlotsWithIp, IsFirst
    <3>2. /\ registed_devices[k] \in IoT_Device_Info
          /\ [registed_devices[k] EXCEPT !.proxied = b].ip = registed_devices[k].ip
      BY <1>0, <3>1 DEF IoT_Device_Info
    <3> HIDE DEF b
    <3>3. \A l \in DevSlot : IF l = k THEN registed_devices'[l].ip = registed_devices[k].ip
                                     ELSE registed_devices'[l] = registed_devices[l]
      BY <1>0, <3>1, <3>2
    <3>4. \A l \in DevSlot : SameIp(l)
      BY <3>1, <3>3 DEF SameIp
    <3> QED BY <1>0, <2>1, <3>4, HandleKeeps
  <2>3. CASE SlotsWithIp(Arrived.body.Value) = {}
    <3>1. registed_devices' = registed_devices
      BY <1>3, <2>3 DEF SetProxied
    <3> QED BY <1>0, <2>1, <3>1, HandleKeeps DEF SameIp
  <2> QED BY <2>2, <2>3
<1>4. CASE IgnoredByManager(Arrived)
  <2>1. down' = down /\ ip_count' = ip_count /\ registed_devices' = registed_devices
    BY <1>4 DEF IgnoredByManager, registry
  <2> QED BY <1>0, <2>1, HandleKeeps DEF SameIp
<1>5. CASE handle_forwarding_package(i, Arrived)
  <2>1. ip_count' = ip_count /\ registed_devices' = registed_devices /\ IsForwarding(Arrived)
    BY <1>5 DEF handle_forwarding_package, registry
  <2>2. PICK s \in Slot, r \in ToClient : Send(s, r) /\ Carried(r) = {}
    <3>1. CASE SlotsWithIp(Arrived.des) = {}
      <4> DEFINE r == create_package(Master, Arrived.sor, Cmd("Management", "Del_Dev", Arrived.des))
      <4>1. r \in ToClient /\ Carried(r) = {}
        BY <1>0, ManagerPackages
      <4>2. Send(i, r)
        BY <1>5, <3>1 DEF handle_forwarding_package
      <4> HIDE DEF r
      <4> QED BY <1>0, <4>1, <4>2
    <3>2. CASE SlotsWithIp(Arrived.des) # {}
      <4>1. PICK k \in DevSlot : registed_devices[k] # NULL /\ Send(registed_devices[k].socket_index, Arrived)
        BY <1>5, <3>2 DEF handle_forwarding_package, SlotsWithIp, IsFirst
      <4>2. registed_devices[k].socket_index \in Slot
        BY <1>0, <4>1 DEF IoT_Device_Info
      <4> QED BY <1>0, <2>1, <4>1, <4>2, ForwardedCarriesNothing
    <3> QED BY <3>1, <3>2
  <2> QED BY <2>1, <2>2, SendCarriesNothing, HandleKeeps DEF SameIp
<1> QED BY <1>1, <1>2, <1>3, <1>4, <1>5

\* A registration takes its address out of the buffer and into the table.
LEMMA AddressRegister ==
    ASSUME LoopInv, AddressInv, Handle, add_new_device(i, Arrived)
    PROVE  AddressInv' /\ PendingStep
<1>1. ip_count' = ip_count /\ down' = down /\ IsRegistration(Arrived)
  BY DEF add_new_device
<1>2. /\ down \in [Conn -> Seq(ToClient)] /\ \A c \in Conn : EachOnce(down[c])
      /\ registed_devices \in [DevSlot -> IoT_Device_Info \cup {NULL}]
  BY DEF LoopInv, TypeOK, AddressInv, AllOnce, PackagesOK
<1>3. CASE registed_devices' = registed_devices
  BY <1>1, <1>2, <1>3, HandleKeeps DEF SameIp
<1>4. ASSUME NEW k \in DevSlot, StoreDevice(k, i, Arrived) PROVE AddressInv' /\ PendingStep
  <2>1. Carried(Arrived) = {Arrived.sor}
    BY <1>1 DEF Carried
  <2>2. registed_devices' = [registed_devices EXCEPT ![k] =
           [ip |-> Arrived.sor, socket_index |-> i, devID |-> Arrived.body.devID, proxied |-> 0]]
    BY <1>4 DEF StoreDevice
  <2>3. /\ registed_devices'[k].ip = Arrived.sor
        /\ \A l \in DevSlot : l # k => registed_devices'[l] = registed_devices[l]
    BY <1>2, <2>2
  <2>4. /\ BufferOf(i) \in Place /\ EntryOf(k) \in Place /\ BufferOf(i) # EntryOf(k)
        /\ Held[BufferOf(i)] = CarriedBy(Buffered[i]) /\ Held'[BufferOf(i)] = CarriedBy(Buffered'[i])
    BY HandleBuffer, HeldAt, HeldAtNext, Places
  <2>5. Held'[EntryOf(k)] \subseteq {Arrived.sor}
    BY <2>3, HeldAtNext
  <2>6. \A z \in Place \ {BufferOf(i), EntryOf(k)} : Held'[z] \subseteq Held[z]
    <3> DEFINE X == {BufferOf(i), EntryOf(k)}
    <3>1. pool' = pool /\ \A c \in Conn : /\ CarriedBy(down'[c]) = CarriedBy(down[c])
                                          /\ CarriedBy(wire'[c]) = CarriedBy(wire[c])
      BY <1>1, HandleBuffer
    <3>2. \A s \in Slot : BufferOf(s) \in X \/ CarriedBy(Buffered'[s]) = CarriedBy(Buffered[s])
      BY HandleBuffer
    <3>3. \A l \in DevSlot : EntryOf(l) \in X \/ SameIp(l)
      BY <2>3 DEF SameIp
    <3> HIDE DEF X
    <3>4. \A z \in Place \ X : Held'[z] \subseteq Held[z]
      BY <3>1, <3>2, <3>3, KeptElsewhere
    <3> QED BY <3>4 DEF X
  <2>7. Moved({Arrived.sor}, EntryOf(k))
    BY <2>1, <2>4, <2>5, <2>6, MovedFrom, HandleBuffer DEF AddressInv
  <2>8. Apart' /\ AllGivenOut' /\ PendingStep
    <3>1. {Arrived.sor} \subseteq GivenOut /\ GivenOut' = GivenOut
      BY <1>1, <2>1, <2>4, HandleBuffer DEF AddressInv, AllGivenOut, GivenOut
    <3>2. ip_count \in Nat /\ ip_count' >= ip_count
      BY <1>1 DEF LoopInv, TypeOK
    <3>3. {Arrived.sor} \subseteq Pending
      BY <2>1, <2>4, Places, HandleBuffer DEF Pending
    <3> QED BY <1>1, <2>4, <2>7, <3>1, <3>2, <3>3, MovedApart DEF AddressInv
  <2> QED BY <1>1, <1>2, <2>8, HandleBuffer DEF AddressInv, AllOnce, PackagesOK
<1> QED BY <1>3, <1>4 DEF add_new_device

\* The reply to an address request carries an address nobody ever had.
LEMMA AddressGive ==
    ASSUME LoopInv, AddressInv, Handle, handle_ip_request_package(i, Arrived)
    PROVE  AddressInv' /\ PendingStep
<1> DEFINE r == create_package(Master, ip_count, ZeroBody)
<1>1. ip_count' = ip_count + 1 /\ registed_devices' = registed_devices /\ Send(i, r)
  BY DEF handle_ip_request_package
<1>2. ip_count \in Nat
  BY DEF LoopInv, TypeOK
<1>3. r \in Package /\ r \in ToClient /\ Carried(r) = {ip_count}
  <2>1. r \in Package
    BY <1>2, ZeroBodyPackage DEF Addr, Ip
  <2> QED BY <1>2, <2>1 DEF ToClient, Carried, IsRegistration, create_package, ZeroBody
<1> HIDE DEF r
<1>4. /\ down \in [Conn -> Seq(ToClient)] /\ down \in [Conn -> Seq(Package)]
      /\ \A c \in Conn : EachOnce(down[c])
  BY DEF LoopInv, TypeOK, AddressInv, AllOnce, PackagesOK
<1>5. ip_count \notin GivenOut /\ ip_count \in GivenOut'
  BY <1>1, <1>2 DEF GivenOut
<1>6. pool' = pool /\ wire' = wire /\ \A s \in Slot : CarriedBy(Buffered'[s]) \subseteq CarriedBy(Buffered[s])
  BY HandleBuffer
<1>7. CASE down' = down
  <2>1. Kept
    BY <1>1, <1>6, <1>7, KeptEach DEF SameIp
  <2>2. Moved({}, Pool)
    BY <2>1, MovedNot DEF Kept
  <2>3. Apart' /\ AllGivenOut' /\ PendingStep
    BY <1>1, <1>2, <2>2, MovedApart, Places DEF AddressInv
  <2> QED BY <1>4, <1>7, <2>3, HandleBuffer DEF AddressInv, AllOnce, PackagesOK
<1>8. ASSUME NEW c \in Conn, down' = [down EXCEPT ![c] = Append(@, r)] PROVE AddressInv' /\ PendingStep
  <2> DEFINE new == Append(down[c], r)
  <2>1. new \in Seq(ToClient) /\ CarriedBy(new) = CarriedBy(down[c]) \cup {ip_count}
    BY <1>3, <1>4, CarriedAppend
  <2>2. DownOf(c) \in Place /\ Held[DownOf(c)] = CarriedBy(down[c])
    BY HeldAt, Places
  <2>3. EachOnce(new)
    BY <1>3, <1>4, <1>5, <2>2, CarriedAppend DEF AddressInv, AllGivenOut
  <2> HIDE DEF new
  <2>4. down'[c] = new /\ \A d \in Conn : d # c => down'[d] = down[d]
    BY <1>4, <1>8 DEF new
  <2>5. Held'[DownOf(c)] = Held[DownOf(c)] \cup {ip_count}
    BY <2>1, <2>2, <2>4, HeldAtNext
  <2>6. \A z \in Place \ {DownOf(c)} : Held'[z] \subseteq Held[z]
    <3>1. \A d \in Conn : DownOf(d) \in {DownOf(c)} \/ CarriedBy(down'[d]) = CarriedBy(down[d])
      BY <2>4
    <3> QED BY <1>1, <1>6, <3>1, KeptElsewhere DEF SameIp
  <2>7. Moved({ip_count}, DownOf(c))
    BY <1>5, <2>2, <2>5, <2>6, MovedNew DEF AddressInv
  <2>8. Apart' /\ AllGivenOut' /\ PendingStep
    BY <1>1, <1>2, <1>5, <2>2, <2>7, MovedApart DEF AddressInv
  <2>9. down' \in [Conn -> Seq(ToClient)] /\ \A d \in Conn : EachOnce(down'[d])
    BY <1>4, <1>8, <2>1, <2>3, <2>4 DEF new
  <2> QED BY <2>8, <2>9, <1>6, HandleBuffer DEF AddressInv, AllOnce, PackagesOK
<1> QED BY <1>1, <1>7, <1>8, SendOne, HandleBuffer DEF LoopInv

LEMMA AddressInit == Init => AddressInv
<1> SUFFICES ASSUME Init PROVE AddressInv
  OBVIOUS
<1>1. /\ pool = {} /\ wire = [c \in Conn |-> <<>>] /\ down = [c \in Conn |-> <<>>]
      /\ registed_devices = [k \in DevSlot |-> NULL] /\ packageBuffer = [s \in Slot |-> NULL]
  BY DEF Init
<1>2. Buffered = [s \in Slot |-> <<>>]
  BY <1>1 DEF Buffered
<1>3. \A x \in Place : Held[x] = {}
  BY <1>1, <1>2, EmptyQueue, HeldAt, Places
<1>4. <<>> \in Seq(FromClient) /\ <<>> \in Seq(ToClient)
  OBVIOUS
<1> QED BY <1>1, <1>2, <1>3, <1>4, EmptyQueue DEF AddressInv, Apart, AllOnce, AllGivenOut, PackagesOK

LEMMA AddressStep == LoopInv /\ AddressInv /\ [Next]_vars => AddressInv' /\ PendingStep
<1> SUFFICES ASSUME LoopInv, AddressInv, [Next]_vars PROVE AddressInv' /\ PendingStep
  OBVIOUS
<1>1. CASE Select \/ (\E c \in Conn : Connect(c)) \/ UNCHANGED vars
  <2>1. packageBuffer' = packageBuffer /\ UNCHANGED <<pool, down, wire, registed_devices, ip_count>>
    BY <1>1 DEF Select, Connect, vars, server, registry, network, clients
  <2>2. Buffered' = Buffered
    BY <2>1 DEF Buffered
  <2> QED BY <2>1, <2>2, AddressQuiet
<1>2. CASE Handle
  BY <1>2, AddressHandleKeeps, AddressRegister, AddressGive, HandleBuffer
     DEF handle_package, handle_managent_package
<1>3. CASE ServerNext /\ ~ Select /\ ~ Handle
  BY <1>3, AddressAccept, AddressDisconnect, AddressReceive DEF ServerNext
<1>4. CASE ClientNext
  BY <1>1, <1>4, AddressClientSends, AddressRead, AddressHangUp DEF ClientNext
<1> QED BY <1>1, <1>2, <1>3, <1>4 DEF Next, ServerNext

THEOREM AddressInvariant == Spec => []AddressInv
BY AddressInit, AddressStep, LoopInvariant, PTL DEF Spec

\* No two registered devices ever have the same address, however requests,
\* replies and registrations of different clients interleave.
THEOREM AddressesUnique == Spec => []UniqueAddress
<1>1. AddressInv => UniqueAddress
  <2> SUFFICES ASSUME AddressInv, NEW k \in DevSlot, NEW l \in DevSlot,
                      registed_devices[k] # NULL, registed_devices[l] # NULL,
                      registed_devices[k].ip = registed_devices[l].ip, k # l
               PROVE  FALSE
    BY DEF UniqueAddress
  <2> QED BY HeldAt, Places DEF AddressInv, Apart
<1> QED BY <1>1, AddressInvariant, PTL

----------------------------------------------------------------------------
\* Addresses that were given out and can no longer be registered anew.

\* The packages aimed at, and those that mention, such addresses only.
Aimed(X) == {p \in Package : IsForwarding(p) => p.des \in X}
Learnt(X) == {p \in Package : /\ p.sor \in Nat => p.sor \in X
                              /\ p.body.tag = "devices" => p.body.ips \subseteq X}

\* A client speaks for an address only after its registration: X are the
\* addresses that were registered before the queue begins.
SourcesOK(q, X) ==
    \A m \in 1 .. Len(q) :
        q[m].sor \in Nat /\ ~ IsRegistration(q[m]) => q[m].sor \in X \cup CarriedBefore(q, m)

\* The registrations of a client that the manager has received.
Received(c) == UNION {Held[BufferOf(s)] : s \in {s \in Slot : client_socket[s] = c}}

\* With the settled ones, the addresses a client may speak for in what comes next.
Spoken(c) == Settled \cup Received(c)

SettledInv ==
    /\ known \subseteq Settled /\ gone \subseteq Settled
    /\ wire \in [Conn -> Seq(Aimed(Settled))]
    /\ Buffered \in [Slot -> Seq(Aimed(Settled))]
    /\ down \in [Conn -> Seq(Learnt(Settled))]
    /\ \A c \in Conn : /\ mine[c] \subseteq Spoken(c) \cup CarriedBy(wire[c])
                       /\ SourcesOK(wire[c], Spoken(c))
    /\ \A s \in Slot : SourcesOK(Buffered[s], Settled)
    /\ GoneForGood

\* w is q followed by r.
Joined(w, q, r) ==
    /\ Len(q) \in Nat /\ Len(r) \in Nat /\ Len(w) = Len(q) + Len(r)
    /\ \A m \in 1 .. Len(q) : w[m] = q[m]
    /\ \A m \in 1 .. Len(r) : w[m + Len(q)] = r[m]

LEMMA JoinedQueues ==
    ASSUME NEW S, NEW q \in Seq(S)
    PROVE  /\ \A r \in Seq(S) : Joined(q \o r, q, r)
           /\ \A p \in S : Joined(Append(q, p), q, <<p>>)
           /\ q # <<>> => Joined(q, <<Head(q)>>, Tail(q))
           /\ \A n \in 0 .. Len(q) : Joined(q, SubSeq(q, 1, n), SubSeq(q, n + 1, Len(q)))
<1>1. \A r \in Seq(S) : Joined(q \o r, q, r)
  BY DEF Joined
<1>2. \A p \in S : Joined(Append(q, p), q, <<p>>)
  BY DEF Joined
<1>3. q # <<>> => Joined(q, <<Head(q)>>, Tail(q))
  BY DEF Joined
<1>4. ASSUME NEW n \in 0 .. Len(q) PROVE Joined(q, SubSeq(q, 1, n), SubSeq(q, n + 1, Len(q)))
  <2> DEFINE a == SubSeq(q, 1, n)
             b == SubSeq(q, n + 1, Len(q))
  <2>1. Len(q) \in Nat /\ Len(a) = n /\ Len(b) = Len(q) - n
    OBVIOUS
  <2>2. (\A m \in 1 .. n : a[m] = q[m]) /\ \A m \in 1 .. Len(q) - n : b[m] = q[m + n]
    OBVIOUS
  <2> HIDE DEF a, b
  <2>3. Len(a) \in Nat /\ Len(b) \in Nat /\ Len(q) = Len(a) + Len(b)
    BY <2>1
  <2>4. (\A m \in 1 .. Len(a) : q[m] = a[m]) /\ \A m \in 1 .. Len(b) : q[m + Len(a)] = b[m]
    BY <2>1, <2>2
  <2>5. Joined(q, a, b)
    BY <2>3, <2>4, Zenon DEF Joined
  <2> QED BY <2>5 DEF a, b
<1> QED BY <1>1, <1>2, <1>3, <1>4

LEMMA BeforeJoined ==
    ASSUME NEW w, NEW q, NEW r, Joined(w, q, r)
    PROVE  /\ \A m \in 1 .. Len(q) : CarriedBefore(w, m) = CarriedBefore(q, m)
           /\ \A m \in 1 .. Len(r) :
                 CarriedBefore(w, m + Len(q)) = CarriedBy(q) \cup CarriedBefore(r, m)
<1>1. ASSUME NEW m \in 1 .. Len(q) PROVE CarriedBefore(w, m) = CarriedBefore(q, m)
  <2>1. \A n \in 1 .. m - 1 : w[n] = q[n]
    BY DEF Joined
  <2> QED BY <2>1 DEF CarriedBefore
<1>2. ASSUME NEW m \in 1 .. Len(r)
      PROVE  CarriedBefore(w, m + Len(q)) = CarriedBy(q) \cup CarriedBefore(r, m)
  <2>1. ASSUME NEW n \in 1 .. (m + Len(q)) - 1
        PROVE  Carried(w[n]) \subseteq CarriedBy(q) \cup CarriedBefore(r, m)
    <3>1. CASE n <= Len(q)
      <4>1. n \in 1 .. Len(q) /\ w[n] = q[n]
        BY <3>1 DEF Joined
      <4> QED BY <4>1 DEF CarriedBy
    <3>2. CASE n > Len(q)
      <4>1. /\ n - Len(q) \in 1 .. m - 1 /\ n - Len(q) \in 1 .. Len(r)
            /\ (n - Len(q)) + Len(q) = n
        BY <3>2 DEF Joined
      <4>2. w[n] = r[n - Len(q)]
        BY <4>1 DEF Joined
      <4> QED BY <4>1, <4>2 DEF CarriedBefore
    <3> QED BY <3>1, <3>2 DEF Joined
  <2>2. ASSUME NEW n \in 1 .. Len(q) PROVE Carried(q[n]) \subseteq CarriedBefore(w, m + Len(q))
    <3>1. n \in 1 .. (m + Len(q)) - 1 /\ w[n] = q[n]
      BY DEF Joined
    <3> QED BY <3>1 DEF CarriedBefore
  <2>3. ASSUME NEW n \in 1 .. m - 1 PROVE Carried(r[n]) \subseteq CarriedBefore(w, m + Len(q))
    <3>1. n + Len(q) \in 1 .. (m + Len(q)) - 1 /\ w[n + Len(q)] = r[n]
      BY DEF Joined
    <3> QED BY <3>1 DEF CarriedBefore
  <2>4. CarriedBefore(w, m + Len(q)) \subseteq CarriedBy(q) \cup CarriedBefore(r, m)
    BY <2>1 DEF CarriedBefore
  <2>5. CarriedBy(q) \subseteq CarriedBefore(w, m + Len(q))
    BY <2>2 DEF CarriedBy
  <2>6. CarriedBefore(r, m) \subseteq CarriedBefore(w, m + Len(q))
    <3>1. \A x \in CarriedBefore(r, m) : \E n \in 1 .. m - 1 : x \in Carried(r[n])
      BY DEF CarriedBefore
    <3> QED BY <2>3, <3>1
  <2> QED BY <2>4, <2>5, <2>6
<1> QED BY <1>1, <1>2

\* What is before the second of two queues is what the first one carries.
LEMMA SourcesJoined ==
    ASSUME NEW w, NEW q, NEW r, NEW X, Joined(w, q, r)
    PROVE  SourcesOK(w, X) <=> SourcesOK(q, X) /\ SourcesOK(r, X \cup CarriedBy(q))
<1>1. ASSUME SourcesOK(w, X), NEW m \in 1 .. Len(q), q[m].sor \in Nat /\ ~ IsRegistration(q[m])
      PROVE  q[m].sor \in X \cup CarriedBefore(q, m)
  <2>1. m \in 1 .. Len(w) /\ w[m] = q[m]
    BY DEF Joined
  <2> QED BY <1>1, <2>1, BeforeJoined DEF SourcesOK
<1>2. ASSUME SourcesOK(w, X), NEW m \in 1 .. Len(r), r[m].sor \in Nat /\ ~ IsRegistration(r[m])
      PROVE  r[m].sor \in (X \cup CarriedBy(q)) \cup CarriedBefore(r, m)
  <2>1. m + Len(q) \in 1 .. Len(w) /\ w[m + Len(q)] = r[m]
    BY DEF Joined
  <2>2. r[m].sor \in X \cup CarriedBefore(w, m + Len(q))
    BY <1>2, <2>1, Zenon DEF SourcesOK
  <2> QED BY <2>2, BeforeJoined
<1>3. ASSUME SourcesOK(q, X), SourcesOK(r, X \cup CarriedBy(q)),
             NEW m \in 1 .. Len(w), w[m].sor \in Nat /\ ~ IsRegistration(w[m])
      PROVE  w[m].sor \in X \cup CarriedBefore(w, m)
  <2>1. CASE m <= Len(q)
    <3>1. m \in 1 .. Len(q) /\ w[m] = q[m]
      BY <2>1 DEF Joined
    <3> QED BY <1>3, <3>1, BeforeJoined DEF SourcesOK
  <2>2. CASE m > Len(q)
    <3> DEFINE n == m - Len(q)
    <3>1. n \in 1 .. Len(r) /\ m = n + Len(q)
      BY <2>2 DEF Joined
    <3> HIDE DEF n
    <3>2. w[m] = r[n]
      BY <3>1 DEF Joined
    <3>3. w[m].sor \in (X \cup CarriedBy(q)) \cup CarriedBefore(r, n)
      BY <1>3, <3>1, <3>2 DEF SourcesOK
    <3>4. CarriedBefore(w, m) = CarriedBy(q) \cup CarriedBefore(r, n)
      BY <3>1, BeforeJoined
    <3> QED BY <3>3, <3>4
  <2> QED BY <2>1, <2>2 DEF Joined
<1> QED BY <1>1, <1>2, <1>3 DEF SourcesOK

LEMMA SourcesMore ==
    ASSUME NEW q, NEW X, NEW Y, SourcesOK(q, X), X \subseteq Y
    PROVE  SourcesOK(q, Y)
BY DEF SourcesOK

\* A queue of a set's members is a queue of a larger set's members.
LEMMA SeqMore ==
    ASSUME NEW S, NEW T, S \subseteq T
    PROVE  Seq(S) \subseteq Seq(T)
OBVIOUS

LEMMA SetsMore ==
    ASSUME NEW X, NEW Y, X \subseteq Y
    PROVE  Seq(Aimed(X)) \subseteq Seq(Aimed(Y)) /\ Seq(Learnt(X)) \subseteq Seq(Learnt(Y))
<1>1. Aimed(X) \subseteq Aimed(Y)
  BY DEF Aimed
<1>2. Learnt(X) \subseteq Learnt(Y)
  BY DEF Learnt
<1> HIDE DEF Aimed, Learnt
<1> QED BY <1>1, <1>2, SeqMore

LEMMA JoinedCarries ==
    ASSUME NEW w, NEW q, NEW r, Joined(w, q, r)
    PROVE  CarriedBy(w) \subseteq CarriedBy(q) \cup CarriedBy(r)
<1> SUFFICES ASSUME NEW m \in 1 .. Len(w) PROVE Carried(w[m]) \subseteq CarriedBy(q) \cup CarriedBy(r)
  BY DEF CarriedBy
<1>1. CASE m <= Len(q)
  <2>1. m \in 1 .. Len(q) /\ w[m] = q[m]
    BY <1>1 DEF Joined
  <2> QED BY <2>1 DEF CarriedBy
<1>2. CASE m > Len(q)
  <2> DEFINE n == m - Len(q)
  <2>1. n \in 1 .. Len(r) /\ m = n + Len(q)
    BY <1>2 DEF Joined
  <2> HIDE DEF n
  <2>2. w[m] = r[n]
    BY <2>1 DEF Joined
  <2> QED BY <2>1, <2>2 DEF CarriedBy
<1> QED BY <1>1, <1>2 DEF Joined

LEMMA OneCarries == \A p : CarriedBy(<<p>>) = Carried(p)
BY DEF CarriedBy

\* The count moves by the handling of an address request only.
LEMMA IpCountStep ==
    ASSUME LoopInv, [Next]_vars
    PROVE  /\ ip_count \in Nat
           /\ \/ ip_count' = ip_count
              \/ ip_count' = ip_count + 1 /\ registed_devices' = registed_devices
<1>1. CASE Handle
  <2>1. handle_package(i, Arrived)
    BY <1>1 DEF Handle, Arrived
  <2> QED BY <2>1
          DEF handle_package, handle_ip_request_package, handle_managent_package, add_new_device,
              discover_package_replier, DeleteDevice, SetProxied, IgnoredByManager,
              handle_forwarding_package, registry, LoopInv, TypeOK
<1>2. CASE ServerNext /\ ~ Handle
  BY <1>2 DEF ServerNext, Select, Accept, Disconnect, Receive, registry, LoopInv, TypeOK
<1>3. CASE ClientNext
  BY <1>3 DEF ClientNext, Connect, AskIp, RegisterDevice, SendCommand, Forward, Read, HangUp,
              ClientSend, registry, LoopInv, TypeOK
<1>4. CASE UNCHANGED vars
  BY <1>4 DEF vars, registry, LoopInv, TypeOK
<1> QED BY <1>1, <1>2, <1>3, <1>4 DEF Next

\* Nothing settled is ever pending again.
LEMMA SettledGrows ==
    ASSUME LoopInv, AddressInv, [Next]_vars
    PROVE  Settled \subseteq Settled'
<1>1. GivenOut \subseteq GivenOut'
  <2>1. ip_count \in Nat /\ ip_count' \in Nat /\ ip_count' >= ip_count
    BY IpCountStep
  <2> QED BY <2>1, MoreGivenOut DEF GivenOut
<1>2. PendingStep
  BY AddressStep
<1> QED BY <1>1, <1>2 DEF Settled, PendingStep

\* What leaves its place without coming to another one that waits is settled.
LEMMA LeftIsSettled ==
    ASSUME AddressInv, NEW src \in Waiting, NEW M, M \subseteq Held[src],
           Held'[src] \cap M = {}, ip_count' = ip_count,
           \A z \in Waiting \ {src} : Held'[z] \subseteq Held[z]
    PROVE  M \subseteq Settled'
<1> SUFFICES ASSUME NEW a \in M PROVE a \in GivenOut' /\ \A z \in Waiting : a \notin Held'[z]
  BY DEF Settled, Pending
<1>1. a \in GivenOut'
  BY Places DEF AddressInv, AllGivenOut, GivenOut
<1>2. \A z \in Waiting : a \notin Held'[z]
  BY Places DEF AddressInv, Apart
<1> QED BY <1>1, <1>2

\* An address is settled when its registration has been handled, whether the
\* device found room or not, and when its registration is thrown away.
LEMMA HandleSettles ==
    ASSUME LoopInv, AddressInv, Handle
    PROVE  Carried(Arrived) \subseteq Settled'
<1>1. CASE ~ IsRegistration(Arrived)
  <2>1. Carried(Arrived) = {}
    BY <1>1, HandleBuffer, NamesAssumption DEF Carried, FromClient, IsIpRequest
  <2> QED BY <2>1
<1>2. CASE IsRegistration(Arrived)
  <2>1. down' = down /\ ip_count' = ip_count
    BY <1>2, HandleBuffer, NamesAssumption
       DEF handle_package, handle_ip_request_package, handle_managent_package, add_new_device,
           discover_package_replier, DeleteDevice, SetProxied, IgnoredByManager,
           handle_forwarding_package, IsRegistration, IsIpRequest, IsManagement, IsForwarding
  <2>2. /\ BufferOf(i) \in Waiting /\ Held[BufferOf(i)] = CarriedBy(Buffered[i])
        /\ Held'[BufferOf(i)] = CarriedBy(Buffered'[i])
    BY HandleBuffer, HeldAt, HeldAtNext, Places
  <2>3. \A z \in Waiting \ {BufferOf(i)} : Held'[z] \subseteq Held[z]
    <3>1. \A z \in Waiting \ {BufferOf(i)} :
             \/ z = Pool
             \/ \E c \in Conn : z = DownOf(c) \/ z = WireOf(c)
             \/ \E s \in Slot : s # i /\ z = BufferOf(s)
      BY DEF Waiting
    <3>2. /\ UNCHANGED <<pool, down, wire>>
          /\ \A s \in Slot : s # i => Buffered'[s] = Buffered[s]
      BY <2>1, HandleBuffer
    <3> QED BY <3>1, <3>2, HeldAt, HeldAtNext
  <2> QED BY <2>1, <2>2, <2>3, HandleBuffer, LeftIsSettled
<1> QED BY <1>1, <1>2

LEMMA DisconnectSettles ==
    ASSUME LoopInv, AddressInv, NEW s \in Slot, Disconnect(s)
    PROVE  CarriedBy(Buffered[s]) \subseteq Settled'
<1>1. /\ BufferOf(s) \in Waiting /\ Held[BufferOf(s)] = CarriedBy(Buffered[s])
      /\ Held'[BufferOf(s)] = {}
  BY DisconnectBuffer, EmptyQueue, HeldAt, HeldAtNext, Places
<1>2. \A z \in Waiting \ {BufferOf(s)} : Held'[z] \subseteq Held[z]
  <2>1. \A z \in Waiting \ {BufferOf(s)} :
           \/ z = Pool
           \/ \E c \in Conn : z = DownOf(c) \/ z = WireOf(c)
           \/ \E t \in Slot : t # s /\ z = BufferOf(t)
    BY DEF Waiting
  <2> QED BY <2>1, DisconnectBuffer, HeldAt, HeldAtNext
<1> QED BY <1>1, <1>2, DisconnectBuffer, LeftIsSettled

LEMMA SpokenGrows ==
    ASSUME LoopInv, AddressInv, [Next]_vars, NEW c \in Conn
    PROVE  Spoken(c) \subseteq Spoken(c)'
<1>1. Settled \subseteq Settled'
  BY SettledGrows
<1>2. ASSUME NEW s \in Slot, client_socket[s] = c, NEW a \in CarriedBy(Buffered[s])
      PROVE  \/ a \in Settled'
             \/ client_socket'[s] = c /\ a \in CarriedBy(Buffered'[s])
  <2>1. CASE Handle
    <3>1. client_socket' = client_socket
      BY <2>1 DEF Handle
    <3>2. CarriedBy(Buffered[i]) \subseteq Carried(Arrived) \cup CarriedBy(Buffered'[i])
      <4>1. Joined(Buffered[i], <<Head(Buffered[i])>>, Tail(Buffered[i]))
        BY <2>1, HandleBuffer, JoinedQueues
      <4>2. Head(Buffered[i]) = Arrived
        BY <2>1, HandleBuffer DEF Arrived
      <4> QED BY <2>1, <4>1, <4>2, JoinedCarries, OneCarries, HandleBuffer
    <3> QED BY <1>2, <2>1, <3>1, <3>2, HandleBuffer, HandleSettles
  <2>2. ASSUME NEW t \in Slot, Disconnect(t)
        PROVE  \/ a \in Settled'
               \/ client_socket'[s] = c /\ a \in CarriedBy(Buffered'[s])
    BY <1>2, <2>2, DisconnectBuffer, DisconnectSettles
  <2>3. ASSUME NEW t \in Slot, NEW n \in 1 .. MaxWire, Receive(t, n)
        PROVE  client_socket'[s] = c /\ a \in CarriedBy(Buffered'[s])
    <3>1. CarriedBy(Buffered[t]) \subseteq CarriedBy(Grown(t, n))
      BY <2>3, ReceiveQueues, CarriedJoined DEF Grown
    <3>2. /\ client_socket' = client_socket /\ Buffered \in [Slot -> Seq(FromClient)]
          /\ Buffered' = [Buffered EXCEPT ![t] = Grown(t, n)]
      BY <2>3, ReceiveQueues DEF AddressInv, PackagesOK
    <3> QED BY <1>2, <3>1, <3>2
  <2>4. CASE Accept
    BY <1>2, <2>4, AcceptBuffer
  <2>5. CASE Select \/ ClientNext \/ UNCHANGED vars
    <3>1. packageBuffer' = packageBuffer /\ client_socket' = client_socket
      BY <2>5 DEF Select, ClientNext, Connect, AskIp, RegisterDevice, SendCommand, Forward, Read,
                  HangUp, ClientSend, server, vars
    <3> QED BY <1>2, <3>1 DEF Buffered
  <2> QED BY <2>1, <2>2, <2>3, <2>4, <2>5 DEF Next, ServerNext
<1> QED BY <1>1, <1>2, HeldAt, HeldAtNext DEF Spoken, Received

\* What was true of the queues stays true of them as they were.
LEMMA SettledMore ==
    ASSUME LoopInv, AddressInv, SettledInv, [Next]_vars
    PROVE  /\ Settled \subseteq Settled' /\ known \subseteq Settled' /\ gone \subseteq Settled'
           /\ wire \in [Conn -> Seq(Aimed(Settled'))]
           /\ Buffered \in [Slot -> Seq(Aimed(Settled'))]
           /\ down \in [Conn -> Seq(Learnt(Settled'))]
           /\ \A c \in Conn : /\ mine[c] \subseteq Spoken(c)' \cup CarriedBy(wire[c])
                              /\ SourcesOK(wire[c], Spoken(c)')
           /\ \A s \in Slot : SourcesOK(Buffered[s], Settled')
<1>1. Settled \subseteq Settled'
  BY SettledGrows
<1>2. Seq(Aimed(Settled)) \subseteq Seq(Aimed(Settled')) /\ Seq(Learnt(Settled)) \subseteq Seq(Learnt(Settled'))
  BY <1>1, SetsMore
<1>3. \A c \in Conn : /\ mine[c] \subseteq Spoken(c)' \cup CarriedBy(wire[c])
                      /\ SourcesOK(wire[c], Spoken(c)')
  BY SpokenGrows, SourcesMore DEF SettledInv
<1>4. \A s \in Slot : SourcesOK(Buffered[s], Settled')
  BY <1>1, SourcesMore DEF SettledInv
<1> QED BY <1>1, <1>2, <1>3, <1>4 DEF SettledInv

LEMMA GoneKept ==
    ASSUME GoneForGood, gone' = gone, \A k \in DevSlot : SameIp(k)
    PROVE  GoneForGood'
BY DEF GoneForGood, SameIp

LEMMA EmptySources == \A X : SourcesOK(<<>>, X)
BY DEF SourcesOK

LEMMA SettledQuiet ==
    ASSUME LoopInv, AddressInv, SettledInv, [Next]_vars, Buffered' = Buffered,
           UNCHANGED <<wire, down, mine, known, gone, registed_devices>>
    PROVE  SettledInv'
<1>1. GoneForGood'
  BY DEF SettledInv, GoneForGood
<1> QED BY <1>1, SettledMore DEF SettledInv

LEMMA SettledDisconnect ==
    ASSUME LoopInv, AddressInv, SettledInv, NEW s \in Slot, Disconnect(s)
    PROVE  SettledInv'
<1>1. [Next]_vars
  BY DEF Next, ServerNext
<1>2. /\ \A t \in Slot : Buffered'[t] = IF t = s THEN <<>> ELSE Buffered[t]
      /\ UNCHANGED <<wire, down, mine, known, gone, registed_devices>>
  BY DisconnectBuffer
<1>3. Buffered' \in [Slot -> Seq(Aimed(Settled'))]
  <2>1. Buffered' = [t \in Slot |-> Buffered'[t]]
    BY DEF Buffered
  <2>2. <<>> \in Seq(Aimed(Settled'))
    OBVIOUS
  <2> QED BY <1>1, <1>2, <2>1, <2>2, SettledMore
<1>4. \A t \in Slot : SourcesOK(Buffered'[t], Settled')
  BY <1>1, <1>2, SettledMore, EmptySources
<1>5. GoneForGood'
  BY <1>2 DEF SettledInv, GoneForGood
<1> QED BY <1>1, <1>2, <1>3, <1>4, <1>5, SettledMore DEF SettledInv

LEMMA SettledHangUp ==
    ASSUME LoopInv, AddressInv, SettledInv, NEW c \in Conn, NEW kept \in 0 .. Len(wire[c]),
           HangUp(c, kept), [Next]_vars
    PROVE  SettledInv'
<1> DEFINE new == SubSeq(wire[c], 1, kept)
<1>1. /\ wire' = [wire EXCEPT ![c] = new] /\ down' = [down EXCEPT ![c] = <<>>]
      /\ mine' = [mine EXCEPT ![c] = {}]
      /\ UNCHANGED <<known, gone, packageBuffer, registed_devices>>
  BY DEF HangUp, server, registry
<1>2. new \in Seq(Aimed(Settled')) /\ SourcesOK(new, Spoken(c)')
  <2>1. wire[c] \in Seq(Aimed(Settled')) /\ SourcesOK(wire[c], Spoken(c)')
    BY SettledMore
  <2>2. Joined(wire[c], new, SubSeq(wire[c], kept + 1, Len(wire[c])))
    BY <2>1, JoinedQueues
  <2>3. new \in Seq(Aimed(Settled'))
    BY <2>1, Pieces
  <2>4. SourcesOK(new, Spoken(c)')
    <3> DEFINE rest == SubSeq(wire[c], kept + 1, Len(wire[c]))
               X == Spoken(c)'
    <3> HIDE DEF new, rest, X
    <3>1. SourcesOK(wire[c], X) /\ Joined(wire[c], new, rest)
      BY <2>1, <2>2 DEF rest, X
    <3>2. SourcesOK(new, X)
      BY <3>1, SourcesJoined
    <3> QED BY <3>2 DEF X
  <2> QED BY <2>3, <2>4
<1> HIDE DEF new
<1>3. wire' \in [Conn -> Seq(Aimed(Settled'))] /\ down' \in [Conn -> Seq(Learnt(Settled'))]
  BY <1>1, <1>2, SettledMore
<1>4. Buffered' = Buffered
  BY <1>1 DEF Buffered
<1>5. \A d \in Conn : d # c => wire'[d] = wire[d] /\ mine'[d] = mine[d]
  BY <1>1 DEF LoopInv, TypeOK
<1>6. wire'[c] = new /\ mine'[c] = {}
  BY <1>1 DEF LoopInv, TypeOK
<1>7. \A d \in Conn : /\ mine'[d] \subseteq Spoken(d)' \cup CarriedBy(wire'[d])
                      /\ SourcesOK(wire'[d], Spoken(d)')
  BY <1>2, <1>5, <1>6, SettledMore
<1>8. GoneForGood'
  BY <1>1 DEF SettledInv, GoneForGood
<1> QED BY <1>1, <1>3, <1>4, <1>7, <1>8, SettledMore DEF SettledInv

\* recv moves registrations and what follows them together.
LEMMA SettledReceive ==
    ASSUME LoopInv, AddressInv, SettledInv, NEW s \in Slot, NEW n \in 1 .. MaxWire, Receive(s, n)
    PROVE  SettledInv'
<1>c. PICK c \in Conn : c = client_socket[s]
  BY ReceiveQueues
<1> DEFINE front == Front(s, n)
           rest == Rest(s, n)
           grown == Grown(s, n)
<1>0. [Next]_vars
  BY DEF Next, ServerNext
<1>1. /\ n \in 0 .. Len(wire[c])
      /\ wire' = [wire EXCEPT ![c] = rest] /\ Buffered' = [Buffered EXCEPT ![s] = grown]
      /\ UNCHANGED <<client_socket, down, mine, known, gone, registed_devices>>
  BY <1>c, ReceiveQueues
<1>2. /\ wire \in [Conn -> Seq(Aimed(Settled'))] /\ Buffered \in [Slot -> Seq(Aimed(Settled'))]
  BY <1>0, SettledMore
<1>3. front \in Seq(Aimed(Settled')) /\ rest \in Seq(Aimed(Settled'))
  BY <1>c, <1>1, <1>2, Pieces DEF Front, Rest
<1>4. Joined(wire[c], front, rest) /\ Joined(grown, Buffered[s], front)
  <2>1. Joined(wire[c], front, rest)
    BY <1>c, <1>1, <1>2, JoinedQueues DEF Front, Rest
  <2> HIDE DEF front, rest
  <2>2. grown = Buffered[s] \o front
    BY DEF Grown, front
  <2> QED BY <1>2, <1>3, <2>1, <2>2, JoinedQueues
<1>5. grown \in Seq(Aimed(Settled'))
  <2> HIDE DEF front
  <2>1. grown = Buffered[s] \o front
    BY DEF Grown, front
  <2> QED BY <1>2, <1>3, <2>1
<1> HIDE DEF front, rest, grown
<1>6. wire' \in [Conn -> Seq(Aimed(Settled'))] /\ Buffered' \in [Slot -> Seq(Aimed(Settled'))]
  BY <1>1, <1>2, <1>3, <1>5
<1>7. /\ wire'[c] = rest /\ \A d \in Conn : d # c => wire'[d] = wire[d]
      /\ Buffered'[s] = grown /\ \A t \in Slot : t # s => Buffered'[t] = Buffered[t]
  BY <1>1, <1>2
<1>8. Spoken(c) = Settled \cup CarriedBy(Buffered[s])
  <2>1. \A t \in Slot : client_socket[t] = c <=> t = s
    BY <1>c, <1>1, NamesAssumption DEF LoopInv, SlotsAgree
  <2> QED BY <2>1, HeldAt DEF Spoken, Received
<1>9. CarriedBy(grown) \subseteq Spoken(c)' /\ CarriedBy(front) \subseteq CarriedBy(grown)
  <2>1. client_socket'[s] = c /\ Buffered'[s] = grown
    BY <1>c, <1>1, <1>7
  <2>2. Held'[BufferOf(s)] = CarriedBy(grown)
    BY <2>1, HeldAtNext
  <2>4. CarriedBy(grown) \subseteq Received(c)'
    BY <2>1, <2>2 DEF Received
  <2>3. CarriedBy(front) \subseteq CarriedBy(grown)
    BY ReceiveQueues, CarriedJoined DEF grown, front, Grown
  <2> QED BY <2>3, <2>4 DEF Spoken
<1>10. /\ SourcesOK(front, Settled \cup CarriedBy(Buffered[s]))
       /\ SourcesOK(rest, Spoken(c) \cup CarriedBy(front))
  <2>1. SourcesOK(wire[c], Spoken(c))
    BY <1>1 DEF SettledInv
  <2>2. SourcesOK(front, Spoken(c)) /\ SourcesOK(rest, Spoken(c) \cup CarriedBy(front))
    BY <1>4, <2>1, SourcesJoined, Zenon
  <2> QED BY <1>8, <2>2
<1>11. SourcesOK(rest, Spoken(c)')
  <2>1. Spoken(c) \cup CarriedBy(front) \subseteq Spoken(c)'
    BY <1>0, <1>1, <1>9, SpokenGrows
  <2> QED BY <1>10, <2>1, SourcesMore, Zenon
<1>12. SourcesOK(grown, Settled')
  BY <1>0, <1>4, <1>10, SourcesJoined, SourcesMore, SettledMore DEF SettledInv
<1>13. mine[c] \subseteq Spoken(c)' \cup CarriedBy(rest)
  <2>1. mine[c] \subseteq Spoken(c)' \cup CarriedBy(wire[c])
    BY <1>0, <1>1, SettledMore
  <2>2. CarriedBy(wire[c]) \subseteq CarriedBy(front) \cup CarriedBy(rest)
    BY <1>4, JoinedCarries, Zenon
  <2> QED BY <1>9, <2>1, <2>2
<1>14. GoneForGood'
  BY <1>1 DEF SettledInv, GoneForGood
<1>15. \A d \in Conn : /\ mine'[d] \subseteq Spoken(d)' \cup CarriedBy(wire'[d])
                       /\ SourcesOK(wire'[d], Spoken(d)')
  <2> SUFFICES ASSUME NEW d \in Conn
               PROVE  mine[d] \subseteq Spoken(d)' \cup CarriedBy(wire'[d]) /\ SourcesOK(wire'[d], Spoken(d)')
    BY <1>1
  <2>1. CASE d = c
    BY <1>7, <1>11, <1>13, <2>1
  <2>2. CASE d # c
    BY <1>0, <1>7, <2>2, SettledMore
  <2> QED BY <2>1, <2>2
<1>16. \A t \in Slot : SourcesOK(Buffered'[t], Settled')
  BY <1>0, <1>7, <1>12, SettledMore
<1> QED BY <1>0, <1>1, <1>6, <1>14, <1>15, <1>16, SettledMore DEF SettledInv

\* A client sends in the name of an address it has registered, or is about to.
LEMMA SettledSend ==
    ASSUME LoopInv, AddressInv, SettledInv, [Next]_vars,
           NEW c \in Conn, NEW p \in Aimed(Settled), ClientSend(c, p),
           p.sor \in Nat /\ ~ IsRegistration(p) => p.sor \in mine[c],
           mine' = [mine EXCEPT ![c] = @ \cup Carried(p)], known' = known
    PROVE  SettledInv'
<1> DEFINE new == Append(wire[c], p)
<1>1. /\ wire' = [wire EXCEPT ![c] = new]
      /\ UNCHANGED <<down, packageBuffer, gone, registed_devices>>
  BY DEF ClientSend, server, registry
<1>2. p \in Aimed(Settled') /\ p \in Package /\ wire[c] \in Seq(Package)
  BY SettledMore DEF Aimed, LoopInv, TypeOK
<1>3. new \in Seq(Aimed(Settled')) /\ CarriedBy(new) = CarriedBy(wire[c]) \cup Carried(p)
  BY <1>2, SettledMore, CarriedAppend
<1>4. SourcesOK(new, Spoken(c)')
  <2> DEFINE X == Spoken(c)'
  <2>1. Joined(new, wire[c], <<p>>)
    BY <1>2, JoinedQueues
  <2>2. SourcesOK(wire[c], X) /\ mine[c] \subseteq X \cup CarriedBy(wire[c])
    BY SettledMore
  <2> HIDE DEF new, X
  <2>3. SourcesOK(<<p>>, X \cup CarriedBy(wire[c]))
    BY <2>2 DEF SourcesOK
  <2>4. SourcesOK(new, X)
    BY <2>1, <2>2, <2>3, SourcesJoined
  <2> QED BY <2>4 DEF X
<1> HIDE DEF new
<1>5. /\ wire'[c] = new /\ \A d \in Conn : d # c => wire'[d] = wire[d] /\ mine'[d] = mine[d]
      /\ mine'[c] = mine[c] \cup Carried(p)
  BY <1>1 DEF LoopInv, TypeOK
<1>6. \A d \in Conn : /\ mine'[d] \subseteq Spoken(d)' \cup CarriedBy(wire'[d])
                      /\ SourcesOK(wire'[d], Spoken(d)')
  <2> SUFFICES ASSUME NEW d \in Conn
               PROVE  mine'[d] \subseteq Spoken(d)' \cup CarriedBy(wire'[d]) /\ SourcesOK(wire'[d], Spoken(d)')
    OBVIOUS
  <2>1. CASE d = c
    BY <1>3, <1>4, <1>5, <2>1, SettledMore
  <2>2. CASE d # c
    BY <1>5, <2>2, SettledMore
  <2> QED BY <2>1, <2>2
<1>7. wire' \in [Conn -> Seq(Aimed(Settled'))]
  BY <1>1, <1>3, SettledMore
<1>8. Buffered' = Buffered /\ GoneForGood'
  BY <1>1 DEF Buffered, SettledInv, GoneForGood
<1> QED BY <1>1, <1>6, <1>7, <1>8, SettledMore DEF SettledInv

LEMMA SettledClientSends ==
    ASSUME LoopInv, AddressInv, SettledInv, [Next]_vars, NEW c \in Conn,
           \/ AskIp(c)
           \/ \E a \in pool, d \in DevID : RegisterDevice(c, a, d)
           \/ \E from \in mine[c] \cup {Zero}, cmd \in Command :
                 \E value \in CommandValues(c, cmd.ID) : SendCommand(c, from, cmd, value)
           \/ \E from \in mine[c], to \in known : Forward(c, from, to)
    PROVE  SettledInv'
<1>0. TypeOK /\ Master \in Addr /\ mine \in [Conn -> SUBSET Addr]
  BY DEF LoopInv, TypeOK, Addr
<1>1. CASE AskIp(c)
  <2> DEFINE p == create_package(Zero, Zero, ZeroBody)
  <2>1. p \in Package /\ Carried(p) = {} /\ p.sor \notin Nat /\ ~ IsForwarding(p)
    BY ClientPackages, NamesAssumption DEF FromClient, IsForwarding, IsIpRequest, create_package
  <2>2. ClientSend(c, p) /\ mine' = mine /\ known' = known
    BY <1>1 DEF AskIp
  <2> HIDE DEF p
  <2> QED BY <1>0, <2>1, <2>2, SettledSend DEF Aimed
<1>2. ASSUME NEW a \in pool, NEW d \in DevID, RegisterDevice(c, a, d) PROVE SettledInv'
  <2> DEFINE p == create_package(a, Master, [tag |-> "IOTDEV", devID |-> d])
  <2>1. p \in Package /\ Carried(p) = {a} /\ IsRegistration(p) /\ ~ IsForwarding(p)
    <3>1. a \in Addr
      BY <1>0 DEF TypeOK
    <3>2. p \in FromClient /\ Carried(p) = {a}
      BY <3>1, ClientPackages
    <3> QED BY <3>2 DEF FromClient, IsRegistration, IsForwarding, create_package
  <2>2. ClientSend(c, p) /\ mine' = [mine EXCEPT ![c] = @ \cup {a}] /\ known' = known
    BY <1>2 DEF RegisterDevice
  <2> HIDE DEF p
  <2> QED BY <1>0, <2>1, <2>2, SettledSend DEF Aimed
<1>3. ASSUME NEW from \in mine[c] \cup {Zero}, NEW cmd \in Command,
             NEW value \in CommandValues(c, cmd.ID), SendCommand(c, from, cmd, value)
      PROVE  SettledInv'
  <2> DEFINE p == create_package(from, Master, Cmd(cmd.type, cmd.ID, value))
  <2>1. p \in Package /\ Carried(p) = {} /\ p.sor = from /\ ~ IsForwarding(p)
    <3>1. cmd.type \in CommandType /\ cmd.ID \in CommandID
      BY CommandAssumption
    <3>2. from \in Addr /\ value \in Addr
      BY <1>0, <3>1, ClientValues
    <3>3. p \in FromClient /\ Carried(p) = {}
      BY <1>0, <3>1, <3>2, ClientPackages
    <3> QED BY <3>3 DEF FromClient, IsForwarding, create_package
  <2>2. ClientSend(c, p) /\ mine' = mine /\ known' = known
    BY <1>3 DEF SendCommand, CountRequest
  <2> HIDE DEF p
  <2> QED BY <1>0, <2>1, <2>2, SettledSend, NamesAssumption DEF Aimed
<1>4. ASSUME NEW from \in mine[c], NEW to \in known, Forward(c, from, to) PROVE SettledInv'
  <2> DEFINE p == create_package(from, to, Cmd("ReadRequest", "component", Zero))
  <2>1. p \in Package /\ Carried(p) = {} /\ p.sor = from /\ p.des = to
    <3>1. from \in Addr /\ to \in Addr /\ Zero \in Addr
      BY <1>0, ClientValues DEF Addr
    <3>2. p \in FromClient /\ Carried(p) = {}
      BY <3>1, ClientPackages DEF CommandType, CommandID
    <3> QED BY <3>2 DEF FromClient, create_package
  <2>2. ClientSend(c, p) /\ mine' = mine /\ known' = known /\ to \in Settled
    BY <1>4 DEF Forward, CountRequest, SettledInv
  <2> HIDE DEF p
  <2> QED BY <1>0, <2>1, <2>2, SettledSend DEF Aimed
<1> QED BY <1>1, <1>2, <1>3, <1>4

\* What a client learns is settled, for the manager only speaks of the registered.
LEMMA SettledRead ==
    ASSUME LoopInv, AddressInv, SettledInv, [Next]_vars, NEW c \in Conn, Read(c)
    PROVE  SettledInv'
<1> DEFINE p == Head(down[c])
           rest == Tail(down[c])
<1>1. /\ down[c] # <<>> /\ down' = [down EXCEPT ![c] = rest]
      /\ known' = CASE p.body.tag = "devices" -> known \cup p.body.ips
                    [] p.sor \in Ip -> known \cup {p.sor}
                    [] OTHER -> known
      /\ UNCHANGED <<wire, packageBuffer, mine, gone, registed_devices>>
  BY DEF Read, server, registry
<1>2. p \in Learnt(Settled') /\ rest \in Seq(Learnt(Settled'))
  BY <1>1, SettledMore, HeadTail
<1> HIDE DEF p, rest
<1>3. known' \subseteq Settled'
  BY <1>1, <1>2, SettledMore DEF Learnt, Ip
<1>4. down' \in [Conn -> Seq(Learnt(Settled'))]
  BY <1>1, <1>2, SettledMore
<1>5. Buffered' = Buffered /\ GoneForGood'
  BY <1>1 DEF Buffered, SettledInv, GoneForGood
<1> QED BY <1>1, <1>3, <1>4, <1>5, SettledMore DEF SettledInv

\* The addresses of registered devices are settled.
LEMMA RegisteredSettled ==
    ASSUME AddressInv
    PROVE  Registered \subseteq Settled
<1> SUFFICES ASSUME NEW k \in DevSlot, registed_devices[k] # NULL
             PROVE  registed_devices[k].ip \in Settled
  BY DEF Registered
<1>1. EntryOf(k) \in Place \ Waiting /\ Held[EntryOf(k)] = {registed_devices[k].ip}
  BY HeldAt, Places
<1> QED BY <1>1, Places DEF AddressInv, Apart, AllGivenOut, Settled, Pending

\* send hands out settled addresses only.
LEMMA SendLearnt ==
    ASSUME TypeOK, NEW s \in Slot, NEW X, NEW p \in Learnt(X), Send(s, p),
           down \in [Conn -> Seq(Learnt(X))]
    PROVE  down' \in [Conn -> Seq(Learnt(X))]
<1>1. CASE down' = down
  BY <1>1
<1>2. ASSUME NEW c \in Conn, down' = [down EXCEPT ![c] = Append(@, p)]
      PROVE  down' \in [Conn -> Seq(Learnt(X))]
  <2>1. Append(down[c], p) \in Seq(Learnt(X))
    OBVIOUS
  <2> QED BY <1>2, <2>1
<1> QED BY <1>1, <1>2, SendOne

\* A package's sender is settled when the package comes to be handled.
LEMMA ArrivedSettled ==
    ASSUME LoopInv, AddressInv, SettledInv, Handle
    PROVE  /\ Arrived \in Aimed(Settled)
           /\ Arrived.sor \in Nat /\ ~ IsRegistration(Arrived) => Arrived.sor \in Settled
           /\ SourcesOK(Tail(Buffered[i]), Settled')
           /\ Tail(Buffered[i]) \in Seq(Aimed(Settled'))
<1>0. [Next]_vars
  BY DEF Next, ServerNext
<1>1. Arrived = Head(Buffered[i]) /\ Buffered[i] # <<>> /\ i \in Slot /\ Buffered[i] \in Seq(Package)
  BY HandleBuffer DEF Arrived
<1>2. Arrived \in Aimed(Settled) /\ Tail(Buffered[i]) \in Seq(Aimed(Settled'))
  BY <1>0, <1>1, HeadTail, SettledMore DEF SettledInv
<1>3. ASSUME Arrived.sor \in Nat /\ ~ IsRegistration(Arrived) PROVE Arrived.sor \in Settled
  <2>1. 1 \in 1 .. Len(Buffered[i]) /\ Buffered[i][1] = Arrived
    BY <1>1, HeadTail
  <2>2. CarriedBefore(Buffered[i], 1) = {}
    BY DEF CarriedBefore
  <2>3. Arrived.sor \in Settled \cup CarriedBefore(Buffered[i], 1)
    BY <1>1, <1>3, <2>1 DEF SettledInv, SourcesOK
  <2> QED BY <2>2, <2>3
<1>4. SourcesOK(Tail(Buffered[i]), Settled')
  <2> DEFINE q == <<Head(Buffered[i])>>
             r == Tail(Buffered[i])
             X == Settled'
  <2>1. Joined(Buffered[i], q, r)
    BY <1>1, JoinedQueues
  <2>2. SourcesOK(Buffered[i], X)
    BY <1>0, <1>1, SettledMore
  <2>3. X \cup CarriedBy(q) = X
    BY <1>1, OneCarries, HandleSettles
  <2> HIDE DEF q, r, X
  <2>4. SourcesOK(r, X)
    BY <2>1, <2>2, <2>3, SourcesJoined
  <2> QED BY <2>4 DEF r, X
<1> QED BY <1>2, <1>3, <1>4

\* What is left to show of each handler.
LEMMA SettledHandled ==
    ASSUME LoopInv, AddressInv, SettledInv, Handle,
           down' \in [Conn -> Seq(Learnt(Settled'))], gone' \subseteq Settled', GoneForGood'
    PROVE  SettledInv'
<1>0. [Next]_vars
  BY DEF Next, ServerNext
<1>1. UNCHANGED <<wire, mine, known>> /\ Buffered' \in [Slot -> Seq(FromClient)]
  BY HandleBuffer DEF Handle, clients
<1>2. \A s \in Slot : Buffered'[s] \in Seq(Aimed(Settled')) /\ SourcesOK(Buffered'[s], Settled')
  <2> SUFFICES ASSUME NEW s \in Slot
               PROVE  Buffered'[s] \in Seq(Aimed(Settled')) /\ SourcesOK(Buffered'[s], Settled')
    OBVIOUS
  <2>1. CASE s = i
    BY <2>1, ArrivedSettled, HandleBuffer
  <2>2. CASE s # i
    BY <1>0, <2>2, SettledMore, HandleBuffer
  <2> QED BY <2>1, <2>2
<1>3. Buffered' \in [Slot -> Seq(Aimed(Settled'))]
  BY <1>1, <1>2
<1> QED BY <1>0, <1>1, <1>2, <1>3, SettledMore DEF SettledInv

LEMMA SettledHandle ==
    ASSUME LoopInv, AddressInv, SettledInv, Handle
    PROVE  SettledInv'
<1> DEFINE X == Settled'
<1>0. [Next]_vars
  BY DEF Next, ServerNext
<1>1. /\ i \in Slot /\ Arrived \in Package /\ Arrived.sor \in Addr /\ Arrived.des \in Addr
      /\ TypeOK /\ handle_package(i, Arrived) /\ Master \notin Nat
  BY HandleBuffer, PackageFields, NamesAssumption DEF LoopInv
<1>2. Settled \subseteq X /\ gone \subseteq X /\ down \in [Conn -> Seq(Learnt(X))]
  BY <1>0, SettledMore
<1>3. ASSUME gone' = gone, \A k \in DevSlot : ~ Stored(k) PROVE gone' \subseteq X /\ GoneForGood'
  <2>1. \A k \in DevSlot : SameIp(k)
    BY <1>0, <1>3, RegistryStep, SlotStep DEF SameIp
  <2> QED BY <1>2, <1>3, <2>1, GoneKept DEF SettledInv
<1>4. CASE handle_ip_request_package(i, Arrived)
  <2> DEFINE r == create_package(Master, ip_count, ZeroBody)
  <2>1. Send(i, r) /\ gone' = gone /\ registed_devices' = registed_devices
    BY <1>4 DEF handle_ip_request_package
  <2>2. r \in Learnt(X)
    <3>1. r \in Package
      BY ZeroBodyPackage DEF LoopInv, TypeOK, Addr, Ip
    <3> QED BY <1>1, <3>1 DEF Learnt, create_package, ZeroBody
  <2>3. GoneForGood'
    BY <2>1 DEF SettledInv, GoneForGood
  <2> HIDE DEF r
  <2> QED BY <1>1, <1>2, <2>1, <2>2, <2>3, SendLearnt, SettledHandled
<1>5. CASE add_new_device(i, Arrived)
  <2>1. down' = down /\ gone' = gone /\ IsRegistration(Arrived)
    BY <1>5 DEF add_new_device
  <2>2. Arrived.sor \notin gone
    <3>1. Arrived.sor \in CarriedBy(Buffered[i])
      BY <2>1, HandleBuffer DEF Carried
    <3>2. Arrived.sor \in Pending
      BY <1>1, <3>1, HeldAt, Places DEF Pending
    <3> QED BY <3>2 DEF SettledInv, Settled
  <2>3. GoneForGood'
    <3> SUFFICES ASSUME NEW k \in DevSlot, registed_devices'[k] # NULL
                 PROVE  registed_devices'[k].ip \notin gone
      BY <2>1 DEF GoneForGood
    <3>1. ASSUME NEW n \in DevSlot, Stored(n) PROVE registed_devices'[k].ip \notin gone
      BY <2>2, <3>1, SlotStep DEF SettledInv, GoneForGood
    <3>2. CASE \A n \in DevSlot : ~ Stored(n)
      BY <1>3, <2>1, <3>2 DEF GoneForGood
    <3> QED BY <3>1, <3>2
  <2> QED BY <1>2, <2>1, <2>3, SettledHandled
<1>6. CASE discover_package_replier(i, Arrived)
  <2> DEFINE r == create_package(Master, Arrived.sor,
                     [tag |-> "devices", ips |-> DiscoverList(Arrived.body.ID, Arrived.sor)])
  <2>1. Send(i, r) /\ gone' = gone /\ registed_devices' = registed_devices
    BY <1>6 DEF discover_package_replier, registry
  <2>2. r \in Learnt(X)
    <3>1. DiscoverList(Arrived.body.ID, Arrived.sor) \subseteq X
      BY <1>1, <1>2, DiscoverListed, RegisteredSettled
    <3>2. r \in Package
      BY <1>1, DiscoverListed, ListPackage
    <3> QED BY <1>1, <3>1, <3>2 DEF Learnt, create_package
  <2>3. GoneForGood'
    BY <2>1 DEF SettledInv, GoneForGood
  <2> HIDE DEF r
  <2> QED BY <1>1, <1>2, <2>1, <2>2, <2>3, SendLearnt, SettledHandled
<1>7. CASE DeleteDevice(Arrived) \/ SetProxied(Arrived) \/ IgnoredByManager(Arrived)
  <2>1. down' = down /\ gone' = gone
    BY <1>7 DEF DeleteDevice, SetProxied, IgnoredByManager
  <2>2. ~ IsRegistration(Arrived)
    BY <1>7 DEF DeleteDevice, SetProxied, IgnoredByManager, IsRegistration, IsManagement
  <2>3. \A k \in DevSlot : ~ Stored(k)
    BY <2>2 DEF Stored
  <2> QED BY <1>2, <1>3, <2>1, <2>3, SettledHandled
<1>8. CASE handle_forwarding_package(i, Arrived)
  <2>1. registed_devices' = registed_devices /\ IsForwarding(Arrived)
    BY <1>8 DEF handle_forwarding_package, registry
  <2>2. Arrived.des \in Settled /\ (Arrived.sor \in Nat => Arrived.sor \in Settled)
    BY <2>1, ArrivedSettled DEF Aimed, IsForwarding, IsRegistration
  <2>3. CASE SlotsWithIp(Arrived.des) = {}
    <3> DEFINE r == create_package(Master, Arrived.sor, Cmd("Management", "Del_Dev", Arrived.des))
    <3>1. Send(i, r) /\ gone' = gone \cup {Arrived.des}
      BY <1>8, <2>3 DEF handle_forwarding_package
    <3>2. r \in Learnt(X)
      <4>1. r \in Package
        BY <1>1, CommandPackage DEF Addr, CommandType, CommandID, ManageID
      <4> QED BY <1>1, <4>1 DEF Learnt, create_package, Cmd
    <3>3. GoneForGood'
      BY <2>1, <2>3, <3>1 DEF SettledInv, GoneForGood, SlotsWithIp
    <3> HIDE DEF r
    <3> QED BY <1>1, <1>2, <2>2, <3>1, <3>2, <3>3, SendLearnt, SettledHandled
  <2>4. CASE SlotsWithIp(Arrived.des) # {}
    <3>1. PICK s \in Slot : Send(s, Arrived)
      <4>1. PICK k \in DevSlot : registed_devices[k] # NULL /\ Send(registed_devices[k].socket_index, Arrived)
        BY <1>8, <2>4 DEF handle_forwarding_package, SlotsWithIp, IsFirst
      <4>2. registed_devices[k].socket_index \in Slot
        BY <4>1 DEF LoopInv, TypeOK, IoT_Device_Info
      <4> QED BY <4>1, <4>2
    <3>2. Arrived \in Learnt(X)
      BY <1>1, <1>2, <2>2, HandleBuffer DEF Learnt, FromClient
    <3>3. gone' = gone /\ GoneForGood'
      BY <1>8, <2>1, <2>4 DEF handle_forwarding_package, SettledInv, GoneForGood
    <3> QED BY <1>1, <1>2, <3>1, <3>2, <3>3, SendLearnt, SettledHandled
  <2> QED BY <2>3, <2>4
<1> QED BY <1>1, <1>4, <1>5, <1>6, <1>7, <1>8 DEF handle_package, handle_managent_package

LEMMA SettledInit == Init => SettledInv
<1> SUFFICES ASSUME Init PROVE SettledInv
  OBVIOUS
<1>1. /\ known = {} /\ gone = {} /\ mine = [c \in Conn |-> {}]
      /\ wire = [c \in Conn |-> <<>>] /\ down = [c \in Conn |-> <<>>]
      /\ registed_devices = [k \in DevSlot |-> NULL] /\ packageBuffer = [s \in Slot |-> NULL]
  BY DEF Init
<1>2. Buffered = [s \in Slot |-> <<>>]
  BY <1>1 DEF Buffered
<1>3. <<>> \in Seq(Aimed(Settled)) /\ <<>> \in Seq(Learnt(Settled))
  OBVIOUS
<1> QED BY <1>1, <1>2, <1>3, EmptySources DEF SettledInv, GoneForGood

LEMMA SettledStep == LoopInv /\ AddressInv /\ SettledInv /\ [Next]_vars => SettledInv'
<1> SUFFICES ASSUME LoopInv, AddressInv, SettledInv, [Next]_vars PROVE SettledInv'
  OBVIOUS
<1>1. CASE Select \/ (\E c \in Conn : Connect(c)) \/ UNCHANGED vars
  <2>1. packageBuffer' = packageBuffer /\ UNCHANGED <<wire, down, mine, known, gone, registed_devices>>
    BY <1>1 DEF Select, Connect, vars, server, registry, network, clients
  <2>2. Buffered' = Buffered
    BY <2>1 DEF Buffered
  <2> QED BY <2>1, <2>2, SettledQuiet
<1>2. CASE Accept
  BY <1>2, AcceptBuffer, SettledQuiet DEF Accept, registry, clients
<1>3. CASE ServerNext /\ ~ Select /\ ~ Accept
  BY <1>3, SettledDisconnect, SettledReceive, SettledHandle DEF ServerNext
<1>4. CASE ClientNext
  BY <1>1, <1>4, SettledClientSends, SettledRead, SettledHangUp DEF ClientNext
<1> QED BY <1>1, <1>2, <1>3, <1>4 DEF Next, ServerNext

\* A device the manager has told somebody to delete never appears again under
\* the address it had: a Del_Dev notice is right for good.
THEOREM DeletedForGood == Spec => []GoneForGood
<1>1. Spec => []SettledInv
  BY SettledInit, SettledStep, LoopInvariant, AddressInvariant, PTL DEF Spec
<1>2. SettledInv => GoneForGood
  BY DEF SettledInv
<1> QED BY <1>1, <1>2, PTL

----------------------------------------------------------------------------
\* The refinement: the table, read as a book, changes as module Registry says.

BookOf(T) ==
    [d \in DevID |->
        LET S == {k \in DevSlot : T[k] # NULL /\ T[k].devID = d}
        IN  IF S = {} THEN NULL
            ELSE LET e == T[CHOOSE k \in DevSlot : IsFirst(k, S)]
                 IN  [ip |-> e.ip, proxied |-> e.proxied]]

Table == [DevSlot -> IoT_Device_Info \cup {NULL}]
OneEach(T) == \A k, l \in DevSlot :
    T[k] # NULL /\ T[l] # NULL /\ T[k].devID = T[l].devID => k = l

LEMMA BookIsBookOf == book = BookOf(registed_devices) /\ book' = BookOf(registed_devices')
BY DEF book, BookOf, SlotsWithID

LEMMA BookAt ==
    ASSUME NEW T \in Table, OneEach(T), NEW d \in DevID
    PROVE  /\ \A k \in DevSlot : T[k] # NULL /\ T[k].devID = d
                 => BookOf(T)[d] = [ip |-> T[k].ip, proxied |-> T[k].proxied]
           /\ (\A k \in DevSlot : ~ (T[k] # NULL /\ T[k].devID = d)) => BookOf(T)[d] = NULL
<1> DEFINE S == {k \in DevSlot : T[k] # NULL /\ T[k].devID = d}
<1>1. ASSUME NEW k \in DevSlot, T[k] # NULL /\ T[k].devID = d
      PROVE  BookOf(T)[d] = [ip |-> T[k].ip, proxied |-> T[k].proxied]
  <2>1. S = {k}
    BY <1>1 DEF OneEach
  <2>2. \A l \in DevSlot : IsFirst(l, S) <=> l = k
    BY <2>1 DEF IsFirst, DevSlot
  <2>3. (CHOOSE l \in DevSlot : IsFirst(l, S)) = k
    BY <2>2
  <2> QED BY <2>1, <2>3 DEF BookOf
<1>2. ASSUME \A k \in DevSlot : ~ (T[k] # NULL /\ T[k].devID = d)
      PROVE  BookOf(T)[d] = NULL
  <2>1. S = {}
    BY <1>2
  <2> QED BY <2>1 DEF BookOf
<1> QED BY <1>1, <1>2

\* A change of one slot, from and to the same identity, changes one entry.
LEMMA BookChange ==
    ASSUME NEW T \in Table, NEW U \in Table, OneEach(T), OneEach(U),
           NEW k \in DevSlot, NEW d \in DevID,
           \A l \in DevSlot : l # k => U[l] = T[l],
           T[k] # NULL => T[k].devID = d,
           U[k] # NULL => U[k].devID = d,
           T[k] # NULL \/ U[k] # NULL
    PROVE  BookOf(U) = [BookOf(T) EXCEPT ![d] =
              IF U[k] = NULL THEN NULL ELSE [ip |-> U[k].ip, proxied |-> U[k].proxied]]
<1> DEFINE e == IF U[k] = NULL THEN NULL ELSE [ip |-> U[k].ip, proxied |-> U[k].proxied]
<1>1. BookOf(U)[d] = e
  <2>1. CASE U[k] = NULL
    <3>1. \A l \in DevSlot : ~ (U[l] # NULL /\ U[l].devID = d)
      BY <2>1 DEF OneEach
    <3> QED BY <2>1, <3>1, BookAt
  <2>2. CASE U[k] # NULL
    BY <2>2, BookAt
  <2> QED BY <2>1, <2>2
<1>2. ASSUME NEW f \in DevID, f # d PROVE BookOf(U)[f] = BookOf(T)[f]
  <2>1. CASE \E l \in DevSlot : T[l] # NULL /\ T[l].devID = f
    <3>1. PICK l \in DevSlot : T[l] # NULL /\ T[l].devID = f
      BY <2>1
    <3>2. U[l] = T[l]
      BY <1>2, <3>1
    <3>3. BookOf(T)[f] = [ip |-> T[l].ip, proxied |-> T[l].proxied]
      BY <3>1, BookAt
    <3>4. BookOf(U)[f] = [ip |-> U[l].ip, proxied |-> U[l].proxied]
      BY <3>1, <3>2, BookAt
    <3> QED BY <3>2, <3>3, <3>4
  <2>2. CASE \A l \in DevSlot : ~ (T[l] # NULL /\ T[l].devID = f)
    <3>1. \A l \in DevSlot : ~ (U[l] # NULL /\ U[l].devID = f)
      BY <1>2, <2>2
    <3> QED BY <2>2, <3>1, BookAt
  <2> QED BY <2>1, <2>2
<1>3. /\ BookOf(T) = [f \in DevID |-> BookOf(T)[f]]
      /\ BookOf(U) = [f \in DevID |-> BookOf(U)[f]]
  BY DEF BookOf
<1> HIDE DEF e
<1>4. BookOf(U) = [BookOf(T) EXCEPT ![d] = e]
  BY <1>1, <1>2, <1>3
<1> QED BY <1>4 DEF e

LEMMA EntryNotNull ==
    \A e \in IoT_Device_Info : [ip |-> e.ip, proxied |-> e.proxied] # NULL
BY NullAssumption DEF IoT_Device_Info

\* Every step of the manager is a step of the registry or none at all.
LEMMA RegistryNext ==
    ASSUME LoopInv, UniqueDevID, AddressInv, TypeOK', UniqueDevID', [Next]_vars
    PROVE  [Abstract!Next]_<<book, ip_count>>
<1> DEFINE T == registed_devices
           U == registed_devices'
<1>0. /\ T \in Table /\ U \in Table /\ OneEach(T) /\ OneEach(U) /\ ip_count \in Nat
      /\ book = BookOf(T) /\ book' = BookOf(U)
  BY BookIsBookOf DEF LoopInv, TypeOK, UniqueDevID, OneEach, Table
<1>1. CASE U = T
  <2>1. book' = book
    BY <1>0, <1>1
  <2> QED BY <2>1, IpCountStep DEF Abstract!Next, Abstract!HandOut
<1>2. ASSUME U # T PROVE ip_count' = ip_count
  BY <1>2, IpCountStep
<1>3. ASSUME Handle, U # T, NEW k \in DevSlot, Stored(k) PROVE Abstract!Next
  <2> DEFINE d == Arrived.body.devID
             a == Arrived.sor
  <2>1. /\ d \in DevID /\ IsRegistration(Arrived)
        /\ U = [T EXCEPT ![k] = [ip |-> a, socket_index |-> i, devID |-> d, proxied |-> 0]]
        /\ T[k] # NULL => T[k].devID = d
    BY <1>3, HandleBuffer, PackageFields
       DEF Stored, StoreDevice, IsRegistration, SlotsWithID, FreeDevSlots
  <2>2. /\ U[k].ip = a /\ U[k].devID = d /\ U[k].proxied = 0
        /\ \A l \in DevSlot : l # k => U[l] = T[l]
    BY <1>0, <2>1 DEF Table
  <2>3. U[k] # NULL
    BY <1>3, SlotStep
  <2> HIDE DEF d, a, T, U
  <2>4. BookOf(U) = [BookOf(T) EXCEPT ![d] = [ip |-> a, proxied |-> 0]]
    <3>1. /\ d \in DevID /\ U[k].devID = d /\ (T[k] # NULL => T[k].devID = d)
          /\ \A l \in DevSlot : l # k => U[l] = T[l]
      BY <2>1, <2>2
    <3>2. BookOf(U) = [BookOf(T) EXCEPT ![d] =
              IF U[k] = NULL THEN NULL ELSE [ip |-> U[k].ip, proxied |-> U[k].proxied]]
      BY <1>0, <2>3, <3>1, BookChange
    <3> QED BY <2>2, <2>3, <3>2
  <2>5. /\ a \in CarriedBy(Buffered[i]) /\ BufferOf(i) \in Waiting
        /\ Held[BufferOf(i)] = CarriedBy(Buffered[i])
    BY <1>3, <2>1, HandleBuffer, HeldAt, Places DEF Carried, a
  <2>6. a \in 0 .. ip_count - 1 /\ a \notin Registered
    BY <2>5, RegisteredSettled, Places DEF AddressInv, AllGivenOut, GivenOut, Settled, Pending
  <2>7. a \notin Abstract!Taken
    <3> SUFFICES ASSUME NEW f \in DevID, book[f] # NULL PROVE book[f].ip \in Registered
      BY <2>6 DEF Abstract!Taken
    <3>1. PICK l \in DevSlot : T[l] # NULL /\ T[l].devID = f
      BY <1>0, BookAt
    <3>2. book[f] = [ip |-> T[l].ip, proxied |-> T[l].proxied]
      BY <1>0, <3>1, BookAt
    <3> QED BY <3>1, <3>2 DEF Registered, T
  <2>8. Abstract!Register(d, a)
    BY <1>0, <1>2, <1>3, <2>4, <2>6, <2>7 DEF Abstract!Register
  <2>9. a \in 0 .. ip_count
    BY <1>0, <2>6
  <2> QED BY <2>1, <2>8, <2>9 DEF Abstract!Next
<1>4. ASSUME Handle, U # T, NEW k \in DevSlot, Deleted(k) PROVE Abstract!Next
  <2> DEFINE d == T[k].devID
  <2>1. T[k] # NULL /\ U[k] = NULL /\ \A l \in DevSlot : l # k => U[l] = T[l]
    BY <1>4, SlotStep DEF Deleted, SlotsWithIp
  <2>2. d \in DevID /\ T[k] \in IoT_Device_Info
    BY <1>0, <2>1 DEF Table, IoT_Device_Info
  <2> HIDE DEF T, U
  <2>3. BookOf(U) = [BookOf(T) EXCEPT ![d] = NULL]
    <3>1. BookOf(U) = [BookOf(T) EXCEPT ![d] =
              IF U[k] = NULL THEN NULL ELSE [ip |-> U[k].ip, proxied |-> U[k].proxied]]
      BY <1>0, <2>1, <2>2, BookChange DEF d
    <3> QED BY <2>1, <3>1
  <2>4. BookOf(T)[d] # NULL
    <3>1. BookOf(T)[d] = [ip |-> T[k].ip, proxied |-> T[k].proxied]
      BY <1>0, <2>1, <2>2, BookAt
    <3> QED BY <2>2, <3>1, EntryNotNull
  <2> HIDE DEF d
  <2>5. Abstract!Delete(d)
    BY <1>0, <1>2, <1>4, <2>3, <2>4 DEF Abstract!Delete
  <2> QED BY <2>2, <2>5 DEF Abstract!Next
<1>5. ASSUME Handle, U # T, NEW k \in DevSlot, Flagged(k) PROVE Abstract!Next
  <2> DEFINE d == T[k].devID
  <2>1. PICK b \in {0, 1} : T[k] # NULL /\ U = [T EXCEPT ![k].proxied = b]
    BY <1>5 DEF Flagged
  <2>2. d \in DevID /\ T[k] \in IoT_Device_Info
    BY <1>0, <2>1 DEF Table, IoT_Device_Info
  <2>3. /\ U[k].ip = T[k].ip /\ U[k].devID = d /\ U[k].proxied = b
        /\ \A l \in DevSlot : l # k => U[l] = T[l]
    BY <1>0, <2>1, <2>2 DEF Table, IoT_Device_Info
  <2>4. U[k] # NULL
    BY <1>5, <2>1, SlotStep
  <2> HIDE DEF T, U
  <2>5. BookOf(U) = [BookOf(T) EXCEPT ![d] = [ip |-> T[k].ip, proxied |-> b]]
    <3>1. BookOf(U) = [BookOf(T) EXCEPT ![d] =
              IF U[k] = NULL THEN NULL ELSE [ip |-> U[k].ip, proxied |-> U[k].proxied]]
      <4>1. /\ T[k] # NULL /\ T[k].devID = d /\ U[k].devID = d
            /\ \A l \in DevSlot : l # k => U[l] = T[l]
        BY <2>1, <2>3 DEF d
      <4> QED BY <1>0, <2>2, <2>4, <4>1, BookChange
    <3> QED BY <2>3, <2>4, <3>1
  <2>6. BookOf(T)[d] = [ip |-> T[k].ip, proxied |-> T[k].proxied]
    BY <1>0, <2>1, <2>2, BookAt
  <2>7. BookOf(T)[d] # NULL
    BY <2>2, <2>6, EntryNotNull
  <2> HIDE DEF d
  <2>8. BookOf(U) = [BookOf(T) EXCEPT ![d].proxied = b]
    <3>1. [BookOf(T)[d] EXCEPT !.proxied = b] = [ip |-> T[k].ip, proxied |-> b]
      BY <2>6
    <3> QED BY <2>5, <3>1
  <2>9. Abstract!Proxy(d, b)
    BY <1>0, <1>2, <1>5, <2>7, <2>8 DEF Abstract!Proxy
  <2> QED BY <2>1, <2>2, <2>9 DEF Abstract!Next
<1> QED BY <1>1, <1>3, <1>4, <1>5, RegistryStep

\* The manager, with all its sockets, buffers and packages, implements Registry.
THEOREM RegistryImplemented == Spec => ImplementsRegistry
<1>1. Init => Abstract!Init
  <2> SUFFICES ASSUME Init PROVE book = [d \in DevID |-> NULL] /\ ip_count = 0
    BY DEF Abstract!Init
  <2>1. registed_devices = [k \in DevSlot |-> NULL] /\ ip_count = 0
    BY DEF Init
  <2>2. \A d \in DevID : SlotsWithID(d) = {}
    BY <2>1 DEF SlotsWithID
  <2> QED BY <2>1, <2>2 DEF book
<1>2. LoopInv /\ UniqueDevID /\ AddressInv /\ TypeOK' /\ UniqueDevID' /\ [Next]_vars
        => [Abstract!Next]_<<book, ip_count>>
  BY RegistryNext
<1>3. Spec => []TypeOK
  BY TypeCorrect
<1> QED BY <1>1, <1>2, <1>3, LoopInvariant, DevicesUnique, AddressInvariant, PTL
        DEF Spec, ImplementsRegistry, Abstract!Spec
=============================================================================
