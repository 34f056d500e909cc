----------------------------- MODULE FakeBroker -----------------------------
(***************************************************************************)
(* The fake broker: it gets an address for each of its devices over a      *)
(* short connection, registers them over its long one, and then answers    *)
(* every package that comes, whatever it is.  Two of them, a user          *)
(* interface and the manager, of which only the routing is here (the rest  *)
(* is module Manager): who answers everything, and is talked to by others  *)
(* that do, may talk for ever.                                             *)
(***************************************************************************)
EXTENDS Integers, Sequences, FiniteSets

CONSTANTS
    Broker,       \* fake brokers, each with a long connection
    UI,           \* the connection of a user interface
    Devices,      \* number of descriptions in faker_register
    MaxCommands,  \* bound: commands the user interface sends
    MaxDown       \* 1 if the manager may stop, else 0

ASSUME BrokerAssumption == IsFiniteSet(Broker) /\ UI \notin Broker
ASSUME DevicesAssumption == Devices \in Nat \ {0} /\ MaxDown \in Nat

Connection == Broker \cup {UI}
NoAddress == 0     \* the empty text of generate_iot_package
Master == 1        \* ServerIP
UIAddress == 2     \* the interface has registered already
Kind == {"describe", "ReadRequest", "Write", "Management", "ReadResponse"}
Package(src, dst, kind) == [src |-> src, dst |-> dst, kind |-> kind]

VARIABLES
    pc,           \* what each broker is at: "ask", "recv ip", "register", "serve"
    registered,   \* how many of its devices it has registered
    ip,           \* the address in its ip_request_package
    ipRequests,   \* address requests on short connections, by broker
    ipReplies,    \* broker -> replies on its short connection
    toManager,    \* connection -> packages on their way to the manager
    toClient,     \* connection -> packages on their way from it
    ip_count,
    route,        \* address -> connection, of the registered devices
    down,         \* the manager has stopped
    failed,       \* history: devices, <<broker, number>>, for which asking failed
    address,      \* history: device -> the address it was described with
    commands,     \* history: commands the interface sent, in order
    answered      \* history: what it got back

broker == <<pc, registered, ip>>
short == <<ipRequests, ipReplies>>
devices == <<failed, address>>
vars == <<broker, short, toManager, toClient, ip_count, route, down, devices, commands, answered>>

Init ==
    /\ pc = [b \in Broker |-> "ask"] /\ registered = [b \in Broker |-> 0] /\ ip = [b \in Broker |-> NoAddress]
    /\ ipRequests = {} /\ ipReplies = [b \in Broker |-> <<>>]
    /\ toManager = [c \in Connection |-> <<>>] /\ toClient = [c \in Connection |-> <<>>]
    /\ ip_count = UIAddress + 1 /\ route = [a \in {UIAddress} |-> UI]
    /\ down = 0 /\ failed = {} /\ address = [x \in {} |-> NoAddress]
    /\ commands = <<>> /\ answered = <<>>

----------------------------------------------------------------------------
\* The thread faker_listen_to_manager_loop, first in faker_register.

Goes(b, to) == pc' = [pc EXCEPT ![b] = to]

\* The device that is registered next.
Current(b) == <<b, registered[b] + 1>>

\* ask_a_faker_IoTIP: connect a new socket and ask.  If there is none or it does
\* not connect, faker_register goes on with what ip_request_package holds.
Ask(b) ==
    /\ pc[b] = "ask"
    /\ \/ down = 0 /\ ipRequests' = ipRequests \cup {b} /\ Goes(b, "recv ip") /\ UNCHANGED failed
       \/ failed' = failed \cup {Current(b)} /\ Goes(b, "register") /\ UNCHANGED ipRequests
    /\ UNCHANGED <<registered, ip, ipReplies, toManager, toClient, ip_count, route, down, address, commands, answered>>

\* Its loop ends with the reply: end of file and errors are read again.
ReceiveIp(b) ==
    /\ pc[b] = "recv ip" /\ ipReplies[b] # <<>>
    /\ ip' = [ip EXCEPT ![b] = Head(ipReplies[b])]
    /\ ipReplies' = [ipReplies EXCEPT ![b] = <<>>]
    /\ Goes(b, "register")
    /\ UNCHANGED <<registered, ipRequests, toManager, toClient, ip_count, route, down, devices, commands, answered>>

LastDevice(b) == registered[b] + 1 = Devices

\* The address given and the one who gave it, or neither.
Description(a) == Package(a, IF a = NoAddress THEN NoAddress ELSE Master, "describe")
DescribedAs(b, a) == [x \in DOMAIN address \cup {Current(b)} |-> IF x = Current(b) THEN a ELSE address[x]]

\* Mutant: the first address is used for all.
RegisterFirst(b) ==
    /\ pc[b] = "register"
    /\ toManager' = [toManager EXCEPT ![b] = Append(@, Description(ip[b]))]
    /\ registered' = [registered EXCEPT ![b] = @ + 1] /\ address' = DescribedAs(b, ip[b])
    /\ Goes(b, IF LastDevice(b) THEN "serve" ELSE "register")
    /\ UNCHANGED <<ip, short, toClient, ip_count, route, down, failed, commands, answered>>

Register(b) ==
    /\ pc[b] = "register"
    /\ toManager' = [toManager EXCEPT ![b] = Append(@, Description(ip[b]))]
    /\ registered' = [registered EXCEPT ![b] = @ + 1] /\ address' = DescribedAs(b, ip[b])
    /\ Goes(b, IF LastDevice(b) THEN "serve" ELSE "ask")
    /\ UNCHANGED <<ip, short, toClient, ip_count, route, down, failed, commands, answered>>

\* Mutant: source and destination stay as they were.
Forwarded(p) == Package(p.src, p.dst, "ReadResponse")
\* A ReadResponse of every package, back to where it came from.
AnswerOf(p) == Package(p.dst, p.src, "ReadResponse")

\* Mutant: the package is answered and stays in the buffer.
ServeAgain(b) ==
    /\ pc[b] = "serve" /\ toClient[b] # <<>>
    /\ toManager' = [toManager EXCEPT ![b] = Append(@, AnswerOf(Head(toClient[b])))]
    /\ UNCHANGED <<broker, short, toClient, ip_count, route, down, devices, commands, answered>>

Serve(b) ==
    /\ pc[b] = "serve" /\ toClient[b] # <<>>
    /\ toClient' = [toClient EXCEPT ![b] = Tail(@)]
    /\ toManager' = [toManager EXCEPT ![b] = Append(@, AnswerOf(Head(toClient[b])))]
    /\ UNCHANGED <<broker, short, ip_count, route, down, devices, commands, answered>>

----------------------------------------------------------------------------
\* The manager.

\* Mutant: the counter is read after it was counted up, and behind it.
GiveNext(b) ==
    /\ down = 0 /\ b \in ipRequests /\ ipRequests' = ipRequests \ {b}
    /\ ipReplies' = [ipReplies EXCEPT ![b] = <<ip_count + 1>>] /\ ip_count' = ip_count + 1
    /\ UNCHANGED <<broker, toManager, toClient, route, down, devices, commands, answered>>

GiveIp(b) ==
    /\ down = 0 /\ b \in ipRequests /\ ipRequests' = ipRequests \ {b}
    /\ ipReplies' = [ipReplies EXCEPT ![b] = <<ip_count>>] /\ ip_count' = ip_count + 1
    /\ UNCHANGED <<broker, toManager, toClient, route, down, devices, commands, answered>>

\* handle_managent_package: a description is registered; of commands only those
\* of type Management do something, here the deletion of the interface.
Manage(c, p) ==
    /\ p.dst = Master
    /\ route' = CASE p.kind = "describe" ->
                       [a \in DOMAIN route \cup {p.src} |-> IF a = p.src THEN c ELSE route[a]]
                  [] p.kind = "Management" -> [a \in DOMAIN route \ {p.src} |-> route[a]]
                  [] OTHER -> route
    /\ UNCHANGED toClient

\* handle_forwarding_package: on to the device, or a Del_Dev back to the sender.
Route(c, p) ==
    /\ p.dst # Master
    /\ LET known == p.dst \in DOMAIN route
           to == IF known THEN route[p.dst] ELSE c
       IN toClient' = [toClient EXCEPT ![to] = Append(@, IF known THEN p ELSE Package(Master, p.src, "Management"))]
    /\ UNCHANGED route

\* isCompleteHeader: a field of the header that is empty is one that has not
\* come.  What follows stays in the buffer with it: the descriptions of one
\* broker do not fill that, and nothing is asked of devices that are not known.
Complete(p) == p.src # NoAddress

Handle(c) ==
    /\ down = 0 /\ toManager[c] # <<>> /\ Complete(Head(toManager[c]))
    /\ toManager' = [toManager EXCEPT ![c] = Tail(@)]
    /\ Manage(c, Head(toManager[c])) \/ Route(c, Head(toManager[c]))
    /\ UNCHANGED <<broker, short, ip_count, down, devices, commands, answered>>

Stops ==
    /\ down < MaxDown /\ down' = down + 1
    /\ UNCHANGED <<broker, short, toManager, toClient, ip_count, route, devices, commands, answered>>

\* The interface sends commands to registered devices, reads what comes, and
\* may withdraw.
Command(a, kind) ==
    /\ Len(commands) < MaxCommands /\ a \in DOMAIN route /\ UIAddress \in DOMAIN route
    /\ toManager' = [toManager EXCEPT ![UI] = Append(@, Package(UIAddress, a, kind))]
    /\ commands' = Append(commands, a)
    /\ UNCHANGED <<broker, short, toClient, ip_count, route, down, devices, answered>>

Withdraw ==
    /\ Len(commands) = MaxCommands /\ UIAddress \in DOMAIN route
    /\ toManager[UI] = <<>>
    /\ toManager' = [toManager EXCEPT ![UI] = Append(@, Package(UIAddress, Master, "Management"))]
    /\ UNCHANGED <<broker, short, toClient, ip_count, route, down, devices, commands, answered>>

UIReads ==
    /\ toClient[UI] # <<>> /\ toClient' = [toClient EXCEPT ![UI] = Tail(@)]
    /\ answered' = Append(answered, Head(toClient[UI]))
    /\ UNCHANGED <<broker, short, toManager, ip_count, route, down, devices, commands>>

BrokerStep(b) == Ask(b) \/ ReceiveIp(b) \/ Register(b) \/ Serve(b)
ManagerStep == \E c \in Connection : Handle(c) \/ (c # UI /\ GiveIp(c))

Next ==
    \/ \E b \in Broker : BrokerStep(b)
    \/ ManagerStep \/ Stops \/ UIReads \/ Withdraw
    \/ \E a \in DOMAIN route \ {UIAddress}, kind \in {"ReadRequest", "Write"} : Command(a, kind)

Spec == Init /\ [][Next]_vars

\* The broker's thread and the manager's run on, and the interface reads.
FairSpec == Spec /\ (\A b \in Broker : WF_vars(BrokerStep(b))) /\ WF_vars(ManagerStep) /\ WF_vars(UIReads)

----------------------------------------------------------------------------
\* Types; an address is known only after it was given out.
TypeOK ==
    /\ pc \in [Broker -> {"ask", "recv ip", "register", "serve"}]
    /\ registered \in [Broker -> 0 .. Devices] /\ ip \in [Broker -> 0 .. ip_count - 1]
    /\ \A c \in Connection : \A p \in {toManager[c][k] : k \in 1 .. Len(toManager[c])} :
          p.kind \in Kind /\ p.src < ip_count /\ p.dst < ip_count

\* Every device for which asking did not fail has an address that no other such
\* device has, and what is sent to it goes to its broker, even if another took
\* its address over: a device for which asking failed is described with that of
\* the one before it, of the same broker (faker_register).
OwnAddresses ==
    \A x, y \in DOMAIN address :
        /\ address[x] = address[y] /\ x # y => x \in failed \/ y \in failed
        /\ address[x] \in DOMAIN route => route[address[x]] = x[1]

\* The interface gets one answer at most to each command, and from the device
\* it was for.
AnswerFromTarget ==
    \A a \in {answered[k].src : k \in 1 .. Len(answered)} :
        Cardinality({k \in 1 .. Len(answered) : answered[k].src = a})
            <= Cardinality({k \in 1 .. Len(commands) : commands[k] = a})

\* Unless the manager stops, all the devices are described in the end and
\* everybody is silent, and a broker whose packages the manager cannot read is
\* one that got no first address: although the broker answers everything, an answer is
\* never answered, since it goes to the interface, and the answer to a notice of
\* the manager goes to the manager, which ignores it.
Quiet == \A c \in Connection : toClient[c] = <<>> /\ (toManager[c] = <<>> \/ <<c, 1>> \in failed)
TalkEnds == <>[](down > 0 \/ (Quiet /\ \A b \in Broker : registered[b] = Devices))
==============================================================================
