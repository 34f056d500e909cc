------------------------------ MODULE Manager ------------------------------
(***************************************************************************)
(* The IoT manager: the one thread that runs main_server_loop, together    *)
(* with the registry of devices it keeps and the clients it talks to.      *)
(*                                                                         *)
(* The server thread waits in select, takes at most one new connection,    *)
(* then walks its table of clients, reads from each ready one and handles  *)
(* every complete package it holds before it looks at the next.  Clients   *)
(* (brokers and user interfaces) run at any speed between its steps.       *)
(*                                                                         *)
(* Packages are whole here: how they are cut out of the byte stream, and   *)
(* what overflow and corruption do to it, is module PackageStream.         *)
(***************************************************************************)
EXTENDS Integers, Sequences, FiniteSets

CONSTANTS
    MAXCLIENTS,       \* length of client_socket and packageBuffer
    MAXDEVICECOUNT,   \* length of registed_devices
    Conn,             \* every TCP connection a client ever opens
    DevID,            \* device identities found in device descriptions
    UI,               \* the identities whose FunctionGroup is "UI"
    Command,          \* the IOTCMD bodies clients send
    Master,           \* ServerIP, the manager's own address
    Zero,             \* "0", the address of a client that has none yet
    NULL,             \* an empty slot of a table
    Listener,         \* the listening socket, as a member of readfds
    LowFds,           \* descriptors below select's nfds that sockets can have
    SendBuffer,       \* packages the kernel holds for a client before send blocks
    MaxWire,          \* bound: packages under way from one client
    MaxIp,            \* bound: addresses clients ask for
    MaxRequests       \* bound: commands and requests sent; NULL for no bound

ASSUME SizesAssumption ==
    /\ MAXCLIENTS \in Nat \ {0} /\ MAXDEVICECOUNT \in Nat \ {0}
    /\ SendBuffer \in Nat \ {0} /\ LowFds \in Nat /\ MaxWire \in Nat /\ MaxIp \in Nat
    /\ MaxRequests \in Nat \cup {NULL}

ASSUME NamesAssumption ==
    /\ Master \notin Nat /\ Zero \notin Nat /\ Master # Zero
    /\ NULL \notin Conn \cup Nat /\ Listener \notin Conn /\ NULL # Listener
    /\ UI \subseteq DevID

Slot == 0 .. MAXCLIENTS - 1
DevSlot == 0 .. MAXDEVICECOUNT - 1
Ip == Nat                     \* n stands for the address "DEV.n"
Addr == Ip \cup {Master, Zero}

DiscoverID == {"Dis_All", "Dis_Pxd", "Dis_NPx", "Dis_"}   \* "Dis_": any other Dis_*
ManageID == DiscoverID \cup {"Del_Dev", "Prx_Add", "Prx_Rmv", "Re_Conf"}
CommandID == ManageID \cup {"component"}                   \* an end device's own command
CommandType == {"ReadRequest", "ReadResponse", "Write", "Management"}

\* The commands clients send to the manager; Value is left to the sender.
ASSUME CommandAssumption == Command \subseteq [type : CommandType, ID : CommandID]

----------------------------------------------------------------------------
\* Packages.  A body is a device description, a command, a list of devices
\* or the "0" of an address request and its reply.

Body == [tag : {"0"}]
   \cup [tag : {"IOTDEV"}, devID : DevID]
   \cup [tag : {"IOTCMD"}, type : CommandType, ID : CommandID, Value : Addr]
   \cup [tag : {"devices"}, ips : SUBSET Addr]

Package == [des : Addr, sor : Addr, body : Body]

ZeroBody == [tag |-> "0"]
Cmd(type, id, value) == [tag |-> "IOTCMD", type |-> type, ID |-> id, Value |-> value]

create_package(sor, des, body) == [des |-> des, sor |-> sor, body |-> body]

IsIpRequest(p) == p.des = Zero /\ p.sor = Zero
IsRegistration(p) == p.des = Master /\ p.body.tag = "IOTDEV"
IsManagement(p, ids) == /\ p.des = Master /\ p.body.tag = "IOTCMD"
                        /\ p.body.type = "Management" /\ p.body.ID \in ids
IsForwarding(p) == p.des # Master /\ ~ IsIpRequest(p)

IoT_Device_Info == [ip : Addr, socket_index : Slot, devID : DevID, proxied : {0, 1}]

ASSUME NullAssumption ==
    NULL \notin Seq(Package) \cup IoT_Device_Info \cup [ip : Addr, proxied : {0, 1}]

----------------------------------------------------------------------------
VARIABLES
    \* the server thread
    readfds,          \* what select reported and the loop has not come to yet
    i,                \* the slot whose buffer is being drained, or NULL
    master,           \* the sockets select watches, the listener left out
    low,              \* the accepted sockets whose descriptor is below nfds
    client_socket,    \* slot -> connection, or NULL for the 0 of the code
    packageBuffer,    \* slot -> packages received and not handled, or NULL
    \* the registry
    registed_devices, \* device slot -> IoT_Device_Info, or NULL
    ip_count,         \* the next address to give out
    \* the network, as the server sees each connection
    tcp,              \* "new", "pending" in the listen queue, "accepted", "closed"
    backlog,          \* the listen queue
    wire,             \* packages a client has sent, not yet received
    down,             \* packages sent to a client, not yet read by it
    hungup,           \* connections the client has closed
    \* the clients
    asked,            \* address requests sent so far
    requests,         \* commands and requests sent so far, if they are bounded
    pool,             \* addresses obtained and not yet used to register
    mine,             \* connection -> addresses registered over it, while it is open
    known,            \* addresses learnt from lists and from packages
    \* history
    owner,            \* device slot -> connection its registration came over
    gone              \* addresses somebody was told to delete

server == <<readfds, i, master, low, client_socket, packageBuffer>>
registry == <<registed_devices, ip_count, owner>>
network == <<tcp, backlog, wire, down, hungup>>
clients == <<asked, requests, pool, mine, known>>
vars == <<server, registry, network, clients, gone>>

\* init_server_info, and no client yet.
Init ==
    /\ readfds = {} /\ i = NULL /\ master = {} /\ low = {}
    /\ client_socket = [s \in Slot |-> NULL]
    /\ packageBuffer = [s \in Slot |-> NULL]
    /\ registed_devices = [k \in DevSlot |-> NULL]
    /\ ip_count = 0
    /\ tcp = [c \in Conn |-> "new"] /\ backlog = <<>>
    /\ wire = [c \in Conn |-> <<>>] /\ down = [c \in Conn |-> <<>>]
    /\ hungup = {}
    /\ asked = 0 /\ requests = 0 /\ pool = {} /\ mine = [c \in Conn |-> {}] /\ known = {}
    /\ owner = [k \in DevSlot |-> NULL] /\ gone = {}

----------------------------------------------------------------------------
\* The registry and its lookups.  Every search loop of the code returns the
\* first match, so a search is the set of matches and its least element.

IsFirst(x, S) == x \in S /\ \A y \in S : x <= y

FreeDevSlots == {k \in DevSlot : registed_devices[k] = NULL}

\* Mutant: the search begins at the second entry.
FirstPassedOver(a) == {k \in DevSlot \ {0} : registed_devices[k] # NULL /\ registed_devices[k].ip = a}
SlotsWithIp(a) == {k \in DevSlot : registed_devices[k] # NULL /\ registed_devices[k].ip = a}
SlotsWithID(d) == {k \in DevSlot : registed_devices[k] # NULL /\ registed_devices[k].devID = d}

\* The addresses a discovery reply lists: everything but the one who asks
\* and the user interfaces.
encodeAllDevices_except_one(except) ==
    {registed_devices[k].ip : k \in {k \in DevSlot :
        /\ registed_devices[k] # NULL
        /\ registed_devices[k].ip # except
        /\ registed_devices[k].devID \notin UI}}

encodePxdDevices_except_one(except, isProxied) ==
    {registed_devices[k].ip : k \in {k \in DevSlot :
        /\ registed_devices[k] # NULL
        /\ registed_devices[k].ip # except
        /\ registed_devices[k].proxied = isProxied
        /\ registed_devices[k].devID \notin UI}}

DiscoverList(id, asker) ==
    CASE id = "Dis_All" -> encodeAllDevices_except_one(asker)
      [] id = "Dis_Pxd" -> encodePxdDevices_except_one(asker, 1)
      [] id = "Dis_NPx" -> encodePxdDevices_except_one(asker, 0)
      [] OTHER -> {}

\* send on the socket of slot s.  A closed slot (send on 0) and a client that
\* has hung up lose the package; a full kernel buffer blocks the thread.
Send(s, p) ==
    LET c == client_socket[s] IN
    IF c = NULL \/ c \in hungup
    THEN UNCHANGED down
    ELSE /\ Len(down[c]) < SendBuffer
         /\ down' = [down EXCEPT ![c] = Append(@, p)]

----------------------------------------------------------------------------
\* Handlers, each for a package p received on slot s.

\* Mutant: ip_count++ is lost.
IpCountNotAdvanced(s, p) ==
    /\ IsIpRequest(p)
    /\ Send(s, create_package(Master, ip_count, ZeroBody))
    /\ UNCHANGED <<registed_devices, ip_count, owner, gone>>

handle_ip_request_package(s, p) ==
    /\ IsIpRequest(p)
    /\ ip_count' = ip_count + 1
    /\ Send(s, create_package(Master, ip_count, ZeroBody))
    /\ UNCHANGED <<registed_devices, owner, gone>>

\* Mutant: newDevice->proxied is left as malloc found it.
ProxiedNotInitialised(k, s, p) ==
    /\ registed_devices' = [registed_devices EXCEPT ![k] =
          [ip |-> p.sor, socket_index |-> s, devID |-> p.body.devID, proxied |-> NULL]]
    /\ owner' = [owner EXCEPT ![k] = client_socket[s]]

\* Mutant: a device that registers again keeps its old socket_index.
SocketIndexKept(k, s, p) ==
    /\ registed_devices' = [registed_devices EXCEPT ![k] =
          [ip |-> p.sor, socket_index |-> IF @ = NULL THEN s ELSE @.socket_index,
           devID |-> p.body.devID, proxied |-> 0]]
    /\ owner' = [owner EXCEPT ![k] = client_socket[s]]

StoreDevice(k, s, p) ==
    /\ registed_devices' = [registed_devices EXCEPT ![k] =
          [ip |-> p.sor, socket_index |-> s, devID |-> p.body.devID, proxied |-> 0]]
    /\ owner' = [owner EXCEPT ![k] = client_socket[s]]

\* Mutant: no search for a device of the same identity.
AddWithoutLookup(s, p) ==
    /\ IsRegistration(p)
    /\ IF FreeDevSlots # {}
       THEN \E k \in DevSlot : IsFirst(k, FreeDevSlots) /\ StoreDevice(k, s, p)
       ELSE UNCHANGED <<registed_devices, owner>>
    /\ UNCHANGED <<ip_count, down, gone>>

\* Mutant: the loop over the table takes the first slot, empty or not.
AddInFirstSlot(s, p) ==
    /\ IsRegistration(p)
    /\ StoreDevice(0, s, p)
    /\ UNCHANGED <<ip_count, down, gone>>

\* A known identity is replaced where it stands, a new one takes the first
\* empty slot, and with no empty slot it is forgotten without a word.
add_new_device(s, p) ==
    /\ IsRegistration(p)
    /\ IF SlotsWithID(p.body.devID) # {}
       THEN \E k \in DevSlot : IsFirst(k, SlotsWithID(p.body.devID)) /\ StoreDevice(k, s, p)
       ELSE IF FreeDevSlots # {}
       THEN \E k \in DevSlot : IsFirst(k, FreeDevSlots) /\ StoreDevice(k, s, p)
       ELSE UNCHANGED <<registed_devices, owner>>
    /\ UNCHANGED <<ip_count, down, gone>>

discover_package_replier(s, p) ==
    /\ IsManagement(p, DiscoverID)
    /\ Send(s, create_package(Master, p.sor,
                 [tag |-> "devices", ips |-> DiscoverList(p.body.ID, p.sor)]))
    /\ UNCHANGED <<registry, gone>>

DeleteDevice(p) ==
    /\ IsManagement(p, {"Del_Dev"})
    /\ IF SlotsWithIp(p.body.Value) # {}
       THEN \E k \in DevSlot :
              /\ IsFirst(k, SlotsWithIp(p.body.Value))
              /\ registed_devices' = [registed_devices EXCEPT ![k] = NULL]
              /\ owner' = [owner EXCEPT ![k] = NULL]
       ELSE UNCHANGED <<registed_devices, owner>>
    /\ UNCHANGED <<ip_count, down, gone>>

SetProxied(p) ==
    /\ IsManagement(p, {"Prx_Add", "Prx_Rmv"})
    /\ IF SlotsWithIp(p.body.Value) # {}
       THEN \E k \in DevSlot :
              /\ IsFirst(k, SlotsWithIp(p.body.Value))
              /\ registed_devices' = [registed_devices EXCEPT ![k].proxied =
                     IF p.body.ID = "Prx_Add" THEN 1 ELSE 0]
       ELSE UNCHANGED registed_devices
    /\ UNCHANGED <<ip_count, owner, down, gone>>

\* A body that is neither IOTDEV nor IOTCMD matches no branch, a command that is
\* not a Management one returns early, Re_Conf and unknown commands only log.
IgnoredByManager(p) ==
    /\ p.des = Master
    /\ \/ p.body.tag \notin {"IOTDEV", "IOTCMD"}
       \/ p.body.tag = "IOTCMD" /\ p.body.type # "Management"
       \/ p.body.tag = "IOTCMD" /\ p.body.ID \in {"Re_Conf", "component"}
    /\ UNCHANGED <<registry, down, gone>>

handle_managent_package(s, p) ==
    \/ add_new_device(s, p)
    \/ discover_package_replier(s, p)
    \/ DeleteDevice(p)
    \/ SetProxied(p)
    \/ IgnoredByManager(p)

\* An address nobody has is answered by a Del_Dev notice to the sender.
handle_forwarding_package(s, p) ==
    /\ IsForwarding(p)
    /\ IF SlotsWithIp(p.des) = {}
       THEN /\ Send(s, create_package(Master, p.sor, Cmd("Management", "Del_Dev", p.des)))
            /\ gone' = gone \cup {p.des}
       ELSE /\ \E k \in DevSlot : /\ IsFirst(k, SlotsWithIp(p.des))
                                  /\ Send(registed_devices[k].socket_index, p)
            /\ UNCHANGED gone
    /\ UNCHANGED registry

handle_package(s, p) ==
    \/ handle_ip_request_package(s, p)
    \/ handle_managent_package(s, p)
    \/ handle_forwarding_package(s, p)

----------------------------------------------------------------------------
\* main_server_loop.  A turn of the loop is a call of select and then a walk over
\* what it reported: the listener first, then the slots in order.  readfds holds
\* what is left of the walk and i the slot being drained, so that the loop is
\* back at select when both are empty.

Readable(c) == wire[c] # <<>> \/ c \in hungup

\* Mutant: the listener is looked at only when no client has anything.
SelectClientsFirst ==
    /\ i = NULL /\ readfds = {}
    /\ readfds' = IF \E c \in master \cap low : Readable(c)
                  THEN {c \in master \cap low : Readable(c)}
                  ELSE IF backlog # <<>> THEN {Listener} ELSE {}
    /\ readfds' # {}
    /\ UNCHANGED <<i, master, low, client_socket, packageBuffer,
                   registry, network, clients, gone>>

\* With nothing to report select waits; its timeout only makes it wait again.
\* Its nfds is MAXCLIENTS, so it says nothing of sockets with higher descriptors.
Select ==
    /\ i = NULL /\ readfds = {}
    /\ readfds' = {c \in master \cap low : Readable(c)}
                    \cup (IF backlog # <<>> THEN {Listener} ELSE {})
    /\ readfds' # {}
    /\ UNCHANGED <<i, master, low, client_socket, packageBuffer,
                   registry, network, clients, gone>>

FreeSlots == {s \in Slot : client_socket[s] = NULL}

\* accept returns the least unused descriptor: one below nfds if there is any.
TakeDescriptor(c) == low' = IF Cardinality(low) < LowFds THEN low \cup {c} ELSE low

\* Mutant: the listener is taken for ready until the next select.
AcceptAgain ==
    /\ i = NULL /\ Listener \in readfds /\ backlog # <<>>
    /\ tcp' = [tcp EXCEPT ![Head(backlog)] = "accepted"]
    /\ TakeDescriptor(Head(backlog))
    /\ backlog' = Tail(backlog)
    /\ IF FreeSlots # {}
       THEN \E s \in Slot :
              /\ IsFirst(s, FreeSlots)
              /\ client_socket' = [client_socket EXCEPT ![s] = Head(backlog)]
              /\ packageBuffer' = [packageBuffer EXCEPT ![s] = <<>>]
              /\ master' = master \cup {Head(backlog)}
       ELSE UNCHANGED <<client_socket, packageBuffer, master>>
    /\ UNCHANGED <<i, readfds, registry, wire, down, hungup, clients, gone>>

\* With every slot taken the new socket is neither stored nor closed.
Accept ==
    /\ i = NULL /\ Listener \in readfds
    /\ readfds' = readfds \ {Listener}
    /\ tcp' = [tcp EXCEPT ![Head(backlog)] = "accepted"]
    /\ TakeDescriptor(Head(backlog))
    /\ backlog' = Tail(backlog)
    /\ IF FreeSlots # {}
       THEN \E s \in Slot :
              /\ IsFirst(s, FreeSlots)
              /\ client_socket' = [client_socket EXCEPT ![s] = Head(backlog)]
              /\ packageBuffer' = [packageBuffer EXCEPT ![s] = <<>>]
              /\ master' = master \cup {Head(backlog)}
       ELSE UNCHANGED <<client_socket, packageBuffer, master>>
    /\ UNCHANGED <<i, registry, wire, down, hungup, clients, gone>>

ReadySlots == {s \in Slot : client_socket[s] \in readfds}

\* The walk has come to slot s.
AtSlot(s) == i = NULL /\ Listener \notin readfds /\ IsFirst(s, ReadySlots)

\* Mutant: no FD_CLR.
DisconnectWithoutClear(s) ==
    /\ AtSlot(s) /\ wire[client_socket[s]] = <<>>
    /\ readfds' = readfds \ {client_socket[s]}
    /\ tcp' = [tcp EXCEPT ![client_socket[s]] = "closed"]
    /\ client_socket' = [client_socket EXCEPT ![s] = NULL]
    /\ packageBuffer' = [packageBuffer EXCEPT ![s] = NULL]
    /\ low' = low \ {client_socket[s]}
    /\ UNCHANGED <<i, master, registry, backlog, wire, down, hungup, clients, gone>>

\* recv has nothing left to return: the client has hung up.
Disconnect(s) ==
    /\ AtSlot(s) /\ wire[client_socket[s]] = <<>>
    /\ readfds' = readfds \ {client_socket[s]}
    /\ master' = master \ {client_socket[s]}
    /\ low' = low \ {client_socket[s]}
    /\ tcp' = [tcp EXCEPT ![client_socket[s]] = "closed"]
    /\ client_socket' = [client_socket EXCEPT ![s] = NULL]
    /\ packageBuffer' = [packageBuffer EXCEPT ![s] = NULL]
    /\ UNCHANGED <<i, registry, backlog, wire, down, hungup, clients, gone>>

\* recv returns some of what has arrived, at least one byte: n whole packages.
Receive(s, n) ==
    /\ AtSlot(s)
    /\ LET c == client_socket[s] IN
         /\ n \in 1 .. Len(wire[c])
         /\ packageBuffer' = [packageBuffer EXCEPT ![s] = @ \o SubSeq(wire[c], 1, n)]
         /\ wire' = [wire EXCEPT ![c] = SubSeq(@, n + 1, Len(@))]
    /\ i' = s
    /\ UNCHANGED <<readfds, master, low, client_socket, registry,
                   tcp, backlog, down, hungup, clients, gone>>

\* Mutant: after one slot the loop goes back to select.
HandleThenSelect ==
    /\ i # NULL
    /\ packageBuffer' = [packageBuffer EXCEPT ![i] = Tail(@)]
    /\ handle_package(i, Head(packageBuffer[i]))
    /\ IF Len(packageBuffer[i]) > 1
       THEN UNCHANGED <<i, readfds>>
       ELSE i' = NULL /\ readfds' = {}
    /\ UNCHANGED <<master, low, client_socket, tcp, backlog, wire, hungup, clients>>

\* The do-while over getCompletedPackage, a package a step; after the last one
\* the walk goes on.
Handle ==
    /\ i # NULL
    /\ packageBuffer' = [packageBuffer EXCEPT ![i] = Tail(@)]
    /\ handle_package(i, Head(packageBuffer[i]))
    /\ IF Len(packageBuffer[i]) > 1
       THEN UNCHANGED <<i, readfds>>
       ELSE i' = NULL /\ readfds' = readfds \ {client_socket[i]}
    /\ UNCHANGED <<master, low, client_socket, tcp, backlog, wire, hungup, clients>>

ServerNext ==
    \/ Select
    \/ Accept
    \/ \E s \in Slot : Disconnect(s) \/ \E n \in 1 .. MaxWire : Receive(s, n)
    \/ Handle

----------------------------------------------------------------------------
\* Clients: FakeBroker, the XBee and BLE brokers and the user interfaces,
\* as far as the manager can tell them apart.

Connected(c) == tcp[c] # "new" /\ c \notin hungup

Connect(c) ==
    /\ tcp[c] = "new"
    /\ tcp' = [tcp EXCEPT ![c] = "pending"]
    /\ backlog' = Append(backlog, c)
    /\ UNCHANGED <<server, registry, wire, down, hungup, clients, gone>>

ClientSend(c, p) ==
    /\ Connected(c) /\ Len(wire[c]) < MaxWire
    /\ wire' = [wire EXCEPT ![c] = Append(@, p)]
    /\ UNCHANGED <<server, registry, tcp, backlog, down, hungup, gone>>

\* ask_a_faker_IoTIP and its siblings in the other brokers.
AskIp(c) ==
    /\ asked < MaxIp
    /\ ClientSend(c, create_package(Zero, Zero, ZeroBody))
    /\ asked' = asked + 1
    /\ UNCHANGED <<requests, pool, mine, known>>

\* Every registration uses an address asked for that purpose.
RegisterDevice(c, a, d) ==
    /\ ClientSend(c, create_package(a, Master, [tag |-> "IOTDEV", devID |-> d]))
    /\ pool' = pool \ {a}
    /\ mine' = [mine EXCEPT ![c] = @ \cup {a}]
    /\ UNCHANGED <<asked, requests, known>>

CountRequest ==
    /\ MaxRequests # NULL => requests < MaxRequests
    /\ requests' = IF MaxRequests = NULL THEN requests ELSE requests + 1
    /\ UNCHANGED <<asked, pool, mine, known>>

\* A broker deletes its own devices, anyone proxies a device it has heard of.
CommandValues(c, id) ==
    CASE id = "Del_Dev" -> mine[c]
      [] id \in {"Prx_Add", "Prx_Rmv"} -> known
      [] OTHER -> {Zero}

SendCommand(c, from, cmd, value) ==
    /\ ClientSend(c, create_package(from, Master, Cmd(cmd.type, cmd.ID, value)))
    /\ CountRequest

\* A request to a known device, or the response of a device to who asked it.
Forward(c, from, to) ==
    /\ ClientSend(c, create_package(from, to, Cmd("ReadRequest", "component", Zero)))
    /\ CountRequest

\* What a client learns from a package it reads.
Read(c) ==
    /\ Connected(c) /\ down[c] # <<>>
    /\ down' = [down EXCEPT ![c] = Tail(@)]
    /\ LET p == Head(down[c]) IN
         /\ pool' = IF p.body.tag = "0" THEN pool \cup {p.des} ELSE pool
         /\ known' = CASE p.body.tag = "devices" -> known \cup p.body.ips
                       [] p.sor \in Ip -> known \cup {p.sor}
                       [] OTHER -> known
    /\ UNCHANGED <<server, registry, tcp, backlog, wire, hungup, asked, requests, mine, gone>>

\* A client that closes with packages it has not read resets the connection,
\* and then what it sent last may be lost.
HangUp(c, kept) ==
    /\ Connected(c)
    /\ hungup' = hungup \cup {c}
    /\ (down[c] = <<>> => kept = Len(wire[c]))
    /\ wire' = [wire EXCEPT ![c] = SubSeq(@, 1, kept)]
    /\ down' = [down EXCEPT ![c] = <<>>]
    /\ mine' = [mine EXCEPT ![c] = {}]
    /\ UNCHANGED <<server, registry, tcp, backlog, asked, requests, pool, known, gone>>

ClientNext ==
    \E c \in Conn :
        \/ Connect(c)
        \/ AskIp(c)
        \/ \E a \in pool, d \in DevID : RegisterDevice(c, a, d)
        \/ \E from \in mine[c] \cup {Zero}, cmd \in Command :
              \E value \in CommandValues(c, cmd.ID) : SendCommand(c, from, cmd, value)
        \/ \E from \in mine[c], to \in known : Forward(c, from, to)
        \/ Read(c)
        \/ \E kept \in 0 .. Len(wire[c]) : HangUp(c, kept)

Next == ServerNext \/ ClientNext

Spec == Init /\ [][Next]_vars

\* The server thread never stops by itself, and clients keep reading: without
\* the latter one client that does not read blocks send, and with it everyone.
FairSpec == Spec /\ WF_vars(ServerNext) /\ \A c \in Conn : WF_vars(Read(c))

----------------------------------------------------------------------------
\* Type correctness: the state stays in the shape the C declarations give it.
TypeOK ==
    /\ readfds \subseteq Conn \cup {Listener} /\ i \in Slot \cup {NULL}
    /\ master \subseteq Conn /\ low \subseteq Conn
    /\ client_socket \in [Slot -> Conn \cup {NULL}]
    /\ packageBuffer \in [Slot -> Seq(Package) \cup {NULL}]
    /\ registed_devices \in [DevSlot -> IoT_Device_Info \cup {NULL}]
    /\ ip_count \in Nat
    /\ tcp \in [Conn -> {"new", "pending", "accepted", "closed"}]
    /\ backlog \in Seq(Conn)
    /\ wire \in [Conn -> Seq(Package)] /\ down \in [Conn -> Seq(Package)]
    /\ hungup \subseteq Conn
    /\ asked \in Nat /\ requests \in Nat /\ pool \subseteq Addr
    /\ mine \in [Conn -> SUBSET Addr] /\ known \subseteq Addr
    /\ owner \in [DevSlot -> Conn \cup {NULL}] /\ gone \subseteq Addr

\* The three tables of main_server_loop agree: select watches exactly the
\* sockets in client_socket, none stands in two slots, each is open on the
\* server's side, and a slot has a buffer just when it has a socket (a drain of
\* an emptied slot would follow a NULL packageBuffer).
SlotsAgree ==
    /\ master = {client_socket[s] : s \in Slot} \ {NULL}
    /\ \A s, t \in Slot : client_socket[s] = client_socket[t] /\ s # t => client_socket[s] = NULL
    /\ \A s \in Slot : client_socket[s] # NULL => tcp[client_socket[s]] = "accepted"
    /\ \A s \in Slot : packageBuffer[s] = NULL <=> client_socket[s] = NULL
    /\ i # NULL => client_socket[i] # NULL /\ packageBuffer[i] # <<>>

\* What the walk of main_server_loop relies on between its steps: what select
\* reported stays true until the loop comes to it, although clients go on, and
\* the slot being drained is one it reported.
WalkOK ==
    /\ Listener \in readfds => backlog # <<>>
    /\ readfds \ {Listener} \subseteq master
    /\ i # NULL => Listener \notin readfds /\ client_socket[i] \in readfds

\* The listen queue holds connections nobody has accepted, each once.
QueueOK ==
    /\ \A m \in 1 .. Len(backlog) : tcp[backlog[m]] = "pending"
    /\ \A m, n \in 1 .. Len(backlog) : backlog[m] = backlog[n] => m = n

\* A device identity is registered at most once: a device that registers again
\* replaces its old entry (add_new_device), however the table was filled.
UniqueDevID ==
    \A k, l \in DevSlot :
        registed_devices[k] # NULL /\ registed_devices[l] # NULL
        /\ registed_devices[k].devID = registed_devices[l].devID => k = l

\* No two registered devices share an address, so that the first match of
\* find_device_with_ip is the only one; it rests on ip_count never giving an
\* address twice and on UniqueDevID.
UniqueAddress ==
    \A k, l \in DevSlot :
        registed_devices[k] # NULL /\ registed_devices[l] # NULL
        /\ registed_devices[k].ip = registed_devices[l].ip => k = l

\* As long as the server has not closed the connection a device was registered
\* over, the socket_index kept with the device leads to that connection.
RoutedWhileOpen ==
    \A k \in DevSlot :
        registed_devices[k] # NULL /\ tcp[owner[k]] # "closed"
        => client_socket[registed_devices[k].socket_index] = owner[k]

\* The same, with what an induction needs: a device's connection has been
\* accepted at some time, so it cannot come back to another slot.
RoutesOK ==
    \A k \in DevSlot : registed_devices[k] # NULL =>
        /\ owner[k] \in Conn /\ tcp[owner[k]] \in {"accepted", "closed"}
        /\ tcp[owner[k]] = "accepted" =>
              client_socket[registed_devices[k].socket_index] = owner[k]

\* An address the manager has told somebody to delete (the Del_Dev notice of
\* handle_forwarding_package) never becomes a registered device's address:
\* nobody throws away a device that is there, or will be.
GoneForGood ==
    \A k \in DevSlot : registed_devices[k] # NULL => registed_devices[k].ip \notin gone

\* A device leaves the registry only because a Del_Dev names its address or
\* because it registers again, never because another device registers, a client
\* leaves or the table is full.
NoEviction ==
    [][\A k \in DevSlot : registed_devices[k] # NULL =>
          \/ /\ registed_devices'[k] # NULL
             /\ registed_devices'[k].devID = registed_devices[k].devID
          \/ /\ i # NULL
             /\ IsManagement(Head(packageBuffer[i]), {"Del_Dev"})
             /\ Head(packageBuffer[i]).body.Value = registed_devices[k].ip]_vars

\* Whatever a client is asked to read is addressed to it: a package forwarded
\* to a device goes to the connection that device was registered over.
ForwardReachesOwner ==
    [][\A c \in Conn :
          Len(down'[c]) > Len(down[c]) /\ down'[c][Len(down'[c])].sor # Master =>
          \E k \in DevSlot : /\ registed_devices[k] # NULL /\ owner[k] = c
                             /\ registed_devices[k].ip = down'[c][Len(down'[c])].des]_vars

\* Every connection the server has accepted and not closed is in its table.
AcceptedIsServed == \A c \in Conn : tcp[c] = "accepted" => c \in master

\* A client waiting in the listen queue is accepted in the end, however much
\* the clients already connected have to say.
EventuallyAccepted == \A c \in Conn : tcp[c] = "pending" ~> tcp[c] = "accepted"

\* No client starves another: a slot with something to read is read from, or
\* closed, in the end, if its descriptor is below select's nfds (main_server_loop
\* passes MAXCLIENTS, so a client with a higher one is never read).
EventuallyRead ==
    \A s \in Slot :
        client_socket[s] \in low /\ Readable(client_socket[s])
        ~> i = s \/ client_socket[s] = NULL
----------------------------------------------------------------------------
\* The tables of the manager, seen as the book of module Registry.

book ==
    [d \in DevID |->
        IF SlotsWithID(d) = {} THEN NULL
        ELSE LET e == registed_devices[CHOOSE k \in DevSlot : IsFirst(k, SlotsWithID(d))]
             IN  [ip |-> e.ip, proxied |-> e.proxied]]

Abstract == INSTANCE Registry WITH NoEntry <- NULL, next <- ip_count

\* The manager keeps the promises of Registry: every package it handles hands
\* out an address, enters, replaces, deletes or (un)proxies the one device it
\* names, or leaves the book as it is.
ImplementsRegistry == Abstract!Spec

=============================================================================
