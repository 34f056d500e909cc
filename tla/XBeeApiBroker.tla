---------------------------- MODULE XBeeApiBroker ----------------------------
(***************************************************************************)
(* The broker for XBee radios in API mode.  start_xbee_api_broker runs the *)
(* listener thread, which takes packages from the manager and has them     *)
(* answered by end devices, and goes on, in the main thread, to scan for   *)
(* devices and register them.  Both threads send and read on the one       *)
(* serial line, without a lock: a frame goes to the thread that reads it   *)
(* first.  Frames are whole here; how they are read is module XBeeFrame.   *)
(*                                                                         *)
(* The modem, the radio and the end devices are the environment: a command *)
(* sent is acknowledged by a TX status, heard by its device, and answered  *)
(* by it in one RX frame or two, in any order.  Any of this may be lost,   *)
(* or arrive after the broker has given it up, if given says so; given     *)
(* also says whether the scan comes first or is over, and how many         *)
(* packages the manager forwards.                                          *)
(***************************************************************************)
EXTENDS Integers, Sequences, FiniteSets

CONSTANTS
    Dev,             \* the end devices, by their radio address
    Reads,           \* the numbers of the manager's packages that are ReadRequests
    MAXDEVICECOUNT,  \* length of xbee_api_devices
    max_fail_times,  \* failed reads that end the discovery
    Conditions,      \* the conditions given may start with: see there
    NULL

ASSUME DevAssumption == IsFiniteSet(Dev)
ASSUME ReadsAssumption == Reads \subseteq Nat \ {0}
ASSUME LimitsAssumption == MAXDEVICECOUNT \in Nat /\ max_fail_times \in Nat \ {0}
ASSUME ConditionsAssumption ==
    Conditions \subseteq [scan : BOOLEAN, lossy : BOOLEAN, late : BOOLEAN, calls : Nat, blanks : Nat]

\* No device, no address and no entry of the table.
ASSUME NullAssumption == NULL \notin Dev \cup Nat \cup [addr : Dev, ip : Nat \cup {NULL}]

Slot == 0 .. MAXDEVICECOUNT - 1
Call(n) == [kind |-> "call", n |-> n]
SYN == [kind |-> "SYN", n |-> 0]
DES == [kind |-> "DES", n |-> 0]
Command == {Call(n) : n \in Reads} \cup {SYN, DES}

\* What stands on the serial line.  The part of an answer says which of the
\* start and end codes it holds: "all", "first" (only the start), "last", or
\* "none"; "empty" holds both and nothing between them.
Part == {"all", "first", "last", "none", "empty"}
RxFrame == [api : {"ZB_RX_RESPONSE"}, from : Dev, cmd : Command, part : Part]
StatusFrame == [api : {"ZB_TX_STATUS_RESPONSE"}, ok : BOOLEAN]
AtFrame == [api : {"AT_COMMAND_RESPONSE"}, status : {"ok", "error"}, dev : Dev \cup {NULL}]
Frame == RxFrame \cup StatusFrame \cup AtFrame

VARIABLES
    given,            \* chosen at the start: [scan, lossy, late, calls, blanks]
    \* the broker
    xbee_api_devices, \* slot -> [addr, ip], or NULL; ip is NULL until it is updated
    listener,         \* [pc, buf]: where it is, and the frames of the answer so far
    main,             \* [pc, i, fails, ip, buf]: the same for the main thread
    xbee_mac_addrs,   \* the addresses discovery found
    \* the serial line, the radio and the devices
    rx,               \* frames the modem has written and nobody has read
    statuses,         \* commands sent whose TX status the modem still owes
    air,              \* device -> commands on their way to it
    out,              \* device -> frames of its answers on their way back
    silent,           \* devices that have not yet answered the discovery
    blanks,           \* discovery frames without a device so far
    \* the manager, as the broker sees it
    calls,            \* packages forwarded and not yet taken: the address each is for
    ip_count,         \* next address the manager gives out
    registered,       \* <<ip, the device whose description came with it>>
    \* history
    asked,            \* the device each call taken so far was sent to, or NULL
    open,             \* the call being served, or 0
    answers           \* answers sent to the manager

scanner == <<xbee_api_devices, main, xbee_mac_addrs>>
onAir == <<statuses, air, out, silent, blanks>>
radio == <<rx, onAir>>
manager == <<calls, ip_count, registered>>
history == <<given, asked, open, answers>>
vars == <<listener, scanner, radio, manager, history>>

Lossy == given.lossy       \* commands, answers, discovery frames, address requests may be lost
Late == given.late         \* a timeout may come while an answer is under way
MaxCalls == given.calls    \* bound: packages the manager forwards
MaxBlank == given.blanks   \* bound: frames of the discovery that name no device

MainAt(pc) == [pc |-> pc, i |-> 1, fails |-> 0, ip |-> NULL, buf |-> <<>>]

InitLine ==
    /\ given \in Conditions
    /\ rx = <<>> /\ statuses = 0 /\ blanks = 0
    /\ air = [d \in Dev |-> <<>>] /\ out = [d \in Dev |-> <<>>]
    /\ listener = [pc |-> "recv", buf |-> <<>>]
    /\ calls = <<>> /\ asked = <<>> /\ open = 0 /\ answers = <<>>

\* start_xbee_api_broker: an empty table, the listener running, the main
\* thread about to send the discovery command.
InitScanning ==
    /\ InitLine /\ given.scan
    /\ xbee_api_devices = [k \in Slot |-> NULL]
    /\ main = MainAt("scan") /\ xbee_mac_addrs = <<>>
    /\ silent = {} /\ ip_count = 0 /\ registered = {}

\* The same after a scan that found every device: addresses given in turn.
InitServing ==
    /\ InitLine /\ ~ given.scan
    /\ \E order \in [0 .. Cardinality(Dev) - 1 -> Dev] :
         /\ \A j, k \in DOMAIN order : order[j] = order[k] => j = k
         /\ xbee_api_devices = [k \in Slot |->
               IF k \in DOMAIN order THEN [addr |-> order[k], ip |-> k] ELSE NULL]
         /\ registered = {<<k, order[k]>> : k \in DOMAIN order}
         /\ xbee_mac_addrs = [k \in 1 .. Cardinality(Dev) |-> order[k - 1]]
    /\ main = MainAt("done")
    /\ silent = {} /\ ip_count = Cardinality(Dev)

----------------------------------------------------------------------------
\* The device table.

First(S) == CHOOSE k \in S : \A j \in S : k <= j
find_XBee_api_device_index(addr) ==
    {k \in Slot : xbee_api_devices[k] # NULL /\ xbee_api_devices[k].addr = addr}

is_XBee_api_device_exists(addr) == find_XBee_api_device_index(addr) # {}

\* An entry whose ip has not been written yet holds whatever malloc found there:
\* any of them may compare equal.  (One written without an address counts as such.)
find_XBee_api_device_index_by_IoTIp(ip, chance) ==
    {k \in Slot : /\ xbee_api_devices[k] # NULL
                  /\ xbee_api_devices[k].ip = ip \/ (xbee_api_devices[k].ip = NULL /\ k \in chance)}

add_new_XBee_api_device(addr) ==
    LET free == {k \in Slot : xbee_api_devices[k] = NULL} IN
    IF is_XBee_api_device_exists(addr) \/ free = {}
    THEN UNCHANGED xbee_api_devices
    ELSE xbee_api_devices' = [xbee_api_devices EXCEPT ![First(free)] = [addr |-> addr, ip |-> NULL]]

\* Mutant: the new address goes to the first entry instead of the device's own.
UpdateFirstEntry(addr, ip) ==
    xbee_api_devices' = [xbee_api_devices EXCEPT
        ![First({k \in Slot : xbee_api_devices[k] # NULL})].ip = ip]

update_XBee_api_iot_ip(addr, ip) ==
    LET found == find_XBee_api_device_index(addr) IN
    IF found = {} THEN UNCHANGED xbee_api_devices
    ELSE xbee_api_devices' = [xbee_api_devices EXCEPT ![First(found)].ip = ip]

----------------------------------------------------------------------------
\* The serial line, as both threads use it.

send_command_to_api_end_device(d, cmd) ==
    /\ air' = [air EXCEPT ![d] = Append(@, cmd)]
    /\ statuses' = statuses + 1

\* recv_response_api_mode reads one frame, whatever its type ...
FrameRead == rx # <<>> /\ rx' = Tail(rx)

UnderWay == \/ rx # <<>> \/ statuses # 0 \/ silent # {}
            \/ \E d \in Dev : air[d] # <<>> \/ out[d] # <<>>

\* ... and it gives up after ACK_TIMEOUT.
TimedOut == ~ Late => ~ UnderWay

\* recv_command_from_api_end_device looks for the start code at the front of
\* what it has received, and for the end code behind it.
HasStart(chunk) == chunk.part \in {"all", "first", "empty"}
HasEnd(chunk) == chunk.part \in {"all", "last", "empty"}
Completed(buf) == buf # <<>> /\ HasStart(Head(buf)) /\ HasEnd(buf[Len(buf)])

\* Frames of other types are dropped; RX frames are put together, whoever they
\* come from.
Collect(f, buf) == IF f.api = "ZB_RX_RESPONSE" THEN Append(buf, f) ELSE buf

\* clear_XBee_api_recv_buff: less than 100 bytes are waiting, and all go.
clear_XBee_api_recv_buff == rx' = <<>>

----------------------------------------------------------------------------
\* The listener thread, xbee_api_listen_to_manager_loop.

ListenerAt(pc) == listener' = [listener EXCEPT !.pc = pc]

\* recv and getCompletedPackage: a package for no device of the table is dropped.
UnknownDevice(chance) ==
    /\ listener.pc = "recv" /\ calls # <<>>
    /\ find_XBee_api_device_index_by_IoTIp(Head(calls), chance) = {}
    /\ calls' = Tail(calls) /\ asked' = Append(asked, NULL)
    /\ UNCHANGED <<given, listener, scanner, radio, ip_count, registered, open, answers>>

\* Otherwise its command goes to the device.
ForwardCommand(chance) ==
    LET found == find_XBee_api_device_index_by_IoTIp(Head(calls), chance)
        n == Len(asked) + 1
        d == xbee_api_devices[First(found)].addr IN
    /\ listener.pc = "recv" /\ calls # <<>> /\ found # {}
    /\ calls' = Tail(calls) /\ asked' = Append(asked, d) /\ open' = n
    /\ send_command_to_api_end_device(d, Call(n))
    /\ ListenerAt("status")
    /\ UNCHANGED <<given, scanner, rx, out, silent, blanks, ip_count, registered, answers>>

\* Mutant: temp_buf and offset outlive the command they were filled for.
KeepBuffer(t) == t.buf

\* The locals of recv_command_from_api_end_device.
FreshBuffer(t) == <<>>

\* The TX status, or whatever comes in its place, does not matter; only a
\* ReadRequest is answered.
AfterStatus ==
    IF open \in Reads
    THEN /\ listener' = [listener EXCEPT !.pc = "answer", !.buf = FreshBuffer(listener)]
         /\ UNCHANGED open
    ELSE ListenerAt("recv") /\ open' = 0

ListenerStatus ==
    /\ listener.pc = "status"
    /\ \/ FrameRead
       \/ TimedOut /\ UNCHANGED rx
    /\ AfterStatus
    /\ UNCHANGED <<given, scanner, onAir, manager, asked, answers>>

\* One turn of the loop in recv_command_from_api_end_device.
ListenerCollects ==
    /\ listener.pc = "answer" /\ FrameRead
    /\ LET buf == Collect(Head(rx), listener.buf) IN
       listener' = [listener EXCEPT !.buf = buf,
                                    !.pc = IF Completed(buf) THEN "completed" ELSE "answer"]
    /\ UNCHANGED <<scanner, onAir, manager, history>>

ListenerTimeout ==
    /\ listener.pc = "answer" /\ TimedOut
    /\ ListenerAt("timeout")
    /\ UNCHANGED <<scanner, radio, manager, history>>

Content(buf) == {[n |-> buf[k].cmd.n, dev |-> buf[k].from] : k \in 1 .. Len(buf)}

\* An answer of no bytes (len > 0) is not passed on, nor is a timeout.
HasAnswer == listener.pc = "completed" /\ Head(listener.buf).part # "empty"

\* The end of recv_command and the rest of the turn: the line is cleared, and
\* what was received goes to who asked as a ReadResponse.
ListenerAnswers ==
    /\ listener.pc \in {"completed", "timeout"}
    /\ clear_XBee_api_recv_buff
    /\ answers' = IF HasAnswer
                  THEN Append(answers, [to |-> open, carries |-> Content(listener.buf)])
                  ELSE answers
    /\ open' = 0
    /\ ListenerAt("recv")
    /\ UNCHANGED <<given, scanner, onAir, manager, asked>>

----------------------------------------------------------------------------
\* The main thread: scan_XBee_api_devices and XBee_api_dev_register.

MainGoes(pc) == main' = [main EXCEPT !.pc = pc]
NextDevice == main' = [MainAt("syn") EXCEPT !.i = main.i + 1]
Addr == xbee_mac_addrs[main.i]

SendDiscovery ==
    /\ main.pc = "scan"
    /\ silent' = Dev
    /\ MainGoes("discover")
    /\ UNCHANGED <<listener, xbee_api_devices, xbee_mac_addrs, rx, statuses, air, out, blanks,
                   manager, history>>

\* A successful AT response whose 16-bit address is not zero names a device.
Found(f) == f.api = "AT_COMMAND_RESPONSE" /\ f.status = "ok" /\ f.dev # NULL

\* Mutant: > for >=.
OneFailureMore(fails) ==
    main' = [main EXCEPT !.fails = fails,
                         !.pc = IF fails > max_fail_times THEN "syn" ELSE "discover"]

\* One turn of the loop that reads the answers: max_fail_times failures in a
\* row end it, and a frame of another type is a failure.
AfterDiscovery(fails) ==
    main' = [main EXCEPT !.fails = fails,
                         !.pc = IF fails >= max_fail_times THEN "syn" ELSE "discover"]

ReadDiscovery ==
    /\ main.pc = "discover" /\ FrameRead
    /\ LET f == Head(rx) IN
       /\ xbee_mac_addrs' = IF Found(f) THEN Append(xbee_mac_addrs, f.dev) ELSE xbee_mac_addrs
       /\ AfterDiscovery(IF f.api = "AT_COMMAND_RESPONSE" /\ f.status = "ok"
                         THEN 0 ELSE main.fails + 1)
    /\ UNCHANGED <<listener, xbee_api_devices, onAir, manager, history>>

\* Mutant: a timeout is not counted as a failure.
TimeoutNotCounted ==
    /\ main.pc = "discover" /\ TimedOut
    /\ AfterDiscovery(main.fails)
    /\ UNCHANGED <<listener, xbee_api_devices, xbee_mac_addrs, radio, manager, history>>

DiscoveryTimeout ==
    /\ main.pc = "discover" /\ TimedOut
    /\ AfterDiscovery(main.fails + 1)
    /\ UNCHANGED <<listener, xbee_api_devices, xbee_mac_addrs, radio, manager, history>>

SendSyn ==
    /\ main.pc = "syn"
    /\ IF main.i > Len(xbee_mac_addrs)
       THEN MainGoes("done") /\ UNCHANGED <<air, statuses>>
       ELSE send_command_to_api_end_device(Addr, SYN) /\ MainGoes("synstatus")
    /\ UNCHANGED <<listener, xbee_api_devices, xbee_mac_addrs, rx, out, silent, blanks,
                   manager, history>>

SynStatus ==
    /\ main.pc = "synstatus"
    /\ \/ /\ FrameRead
          /\ IF Head(rx).api = "ZB_TX_STATUS_RESPONSE" /\ Head(rx).ok
             THEN MainGoes("ack") ELSE NextDevice
       \/ TimedOut /\ UNCHANGED rx /\ NextDevice
    /\ UNCHANGED <<listener, xbee_api_devices, xbee_mac_addrs, onAir, manager, history>>

IsAck(f) == f.api = "ZB_RX_RESPONSE" /\ f.cmd = SYN

\* Anybody's ACK will do.  Then the device is put into the table.
ReadAck ==
    /\ main.pc = "ack"
    /\ \/ /\ FrameRead
          /\ IF IsAck(Head(rx))
             THEN add_new_XBee_api_device(Addr) /\ MainGoes("ip")
             ELSE NextDevice /\ UNCHANGED xbee_api_devices
       \/ TimedOut /\ UNCHANGED rx /\ NextDevice /\ UNCHANGED xbee_api_devices
    /\ UNCHANGED <<listener, xbee_mac_addrs, onAir, manager, history>>

\* ask_a_IoTIP_for_XBee_api: it waits as long as it takes the manager.  If its new
\* socket does not connect there is no address, and all goes on without one.
AskIp ==
    /\ main.pc = "ip"
    /\ \E ip \in {ip_count} \cup (IF Lossy THEN {NULL} ELSE {}) :
         /\ ip_count' = IF ip = NULL THEN ip_count ELSE ip_count + 1
         /\ update_XBee_api_iot_ip(Addr, ip)
         /\ main' = [main EXCEPT !.pc = "des", !.ip = ip]
    /\ UNCHANGED <<listener, xbee_mac_addrs, radio, calls, registered, history>>

SendDes ==
    /\ main.pc = "des"
    /\ send_command_to_api_end_device(Addr, DES)
    /\ MainGoes("desstatus")
    /\ UNCHANGED <<listener, xbee_api_devices, xbee_mac_addrs, rx, out, silent, blanks,
                   manager, history>>

DesStatus ==
    /\ main.pc = "desstatus"
    /\ FrameRead \/ (TimedOut /\ UNCHANGED rx)
    /\ main' = [main EXCEPT !.pc = "description", !.buf = FreshBuffer(main)]
    /\ UNCHANGED <<listener, xbee_api_devices, xbee_mac_addrs, onAir, manager, history>>

MainCollects ==
    /\ main.pc = "description" /\ FrameRead
    /\ LET buf == Collect(Head(rx), main.buf) IN
       main' = [main EXCEPT !.buf = buf,
                            !.pc = IF Completed(buf) THEN "completed" ELSE "description"]
    /\ UNCHANGED <<listener, xbee_api_devices, xbee_mac_addrs, onAir, manager, history>>

MainTimeout ==
    /\ main.pc = "description" /\ TimedOut
    /\ MainGoes("timeout")
    /\ UNCHANGED <<listener, xbee_api_devices, xbee_mac_addrs, radio, manager, history>>

\* Only all the frames of one description have the right checksum at their end.
check_sum(buf) ==
    /\ \A k \in 1 .. Len(buf) : buf[k].cmd = DES /\ buf[k].from = Head(buf).from
    /\ Len(buf) = 1 \/ (Len(buf) = 2 /\ Head(buf).part = "first")

\* What the manager can read is a description with an address.
Readable == main.pc = "completed" /\ check_sum(main.buf) /\ main.ip # NULL

\* The end of XBee_api_dev_register, from the clearing of the line on.
Register ==
    /\ main.pc \in {"completed", "timeout"}
    /\ clear_XBee_api_recv_buff
    /\ registered' = IF Readable
                     THEN registered \cup {<<main.ip, Head(main.buf).from>>} ELSE registered
    /\ NextDevice
    /\ UNCHANGED <<listener, xbee_api_devices, xbee_mac_addrs, onAir, calls, ip_count, history>>

----------------------------------------------------------------------------
\* The environment.

\* The manager forwards a package for an address it knows, or did know.
ManagerCalls(ip) ==
    /\ Len(asked) + Len(calls) < MaxCalls
    /\ calls' = Append(calls, ip)
    /\ UNCHANGED <<listener, scanner, radio, ip_count, registered, history>>

TxStatus(ok) ==
    /\ statuses > 0 /\ statuses' = statuses - 1
    /\ rx' = Append(rx, [api |-> "ZB_TX_STATUS_RESPONSE", ok |-> ok])
    /\ UNCHANGED <<listener, scanner, air, out, silent, blanks, manager, history>>

Discovered(d) ==
    /\ d \in silent /\ silent' = silent \ {d}
    /\ \/ rx' = Append(rx, [api |-> "AT_COMMAND_RESPONSE", status |-> "ok", dev |-> d])
       \/ Lossy /\ UNCHANGED rx
    /\ UNCHANGED <<listener, scanner, statuses, air, out, blanks, manager, history>>

\* The modem's own answers: nobody there, or an error.
DiscoveredNobody(status) ==
    /\ main.pc = "discover" /\ blanks < MaxBlank /\ blanks' = blanks + 1
    /\ rx' = Append(rx, [api |-> "AT_COMMAND_RESPONSE", status |-> status, dev |-> NULL])
    /\ UNCHANGED <<listener, scanner, statuses, air, out, silent, manager, history>>

RxOf(d, cmd, part) == [api |-> "ZB_RX_RESPONSE", from |-> d, cmd |-> cmd, part |-> part]
AnswersOf(d, cmd) ==
    IF cmd = SYN THEN {<<RxOf(d, SYN, "none")>>}
    ELSE {<<RxOf(d, cmd, "all")>>, <<RxOf(d, cmd, "first"), RxOf(d, cmd, "last")>>}
         \cup (IF cmd = DES THEN {} ELSE {<<RxOf(d, cmd, "empty")>>})
IsAnswered(cmd) == cmd.kind = "call" => cmd.n \in Reads

DeviceHears(d) ==
    /\ air[d] # <<>> /\ air' = [air EXCEPT ![d] = Tail(@)]
    /\ LET cmd == Head(air[d]) IN
       \/ /\ IsAnswered(cmd)
          /\ \E s \in AnswersOf(d, cmd) : out' = [out EXCEPT ![d] = @ \o s]
       \/ (~ IsAnswered(cmd) \/ Lossy) /\ UNCHANGED out
    /\ UNCHANGED <<listener, scanner, rx, statuses, silent, blanks, manager, history>>

RadioDelivers(d) ==
    /\ out[d] # <<>> /\ out' = [out EXCEPT ![d] = Tail(@)]
    /\ rx' = Append(rx, Head(out[d])) \/ (Lossy /\ UNCHANGED rx)
    /\ UNCHANGED <<listener, scanner, statuses, air, silent, blanks, manager, history>>

----------------------------------------------------------------------------
Listener ==
    \/ \E chance \in SUBSET Slot : UnknownDevice(chance) \/ ForwardCommand(chance)
    \/ ListenerStatus \/ ListenerCollects \/ ListenerTimeout \/ ListenerAnswers

Main == \/ SendDiscovery \/ ReadDiscovery \/ DiscoveryTimeout \/ SendSyn \/ SynStatus \/ ReadAck
        \/ AskIp \/ SendDes \/ DesStatus \/ MainCollects \/ MainTimeout \/ Register

Environment ==
    \/ \E ip \in 0 .. Cardinality(Dev) - 1 : ManagerCalls(ip)
    \/ \E ok \in BOOLEAN : TxStatus(ok)
    \/ \E d \in Dev : Discovered(d) \/ DeviceHears(d) \/ RadioDelivers(d)
    \/ \E status \in {"ok", "error"} : DiscoveredNobody(status)

Init == InitScanning \/ InitServing
Next == Listener \/ Main \/ Environment

Spec == Init /\ [][Next]_vars

\* Both threads run on, and the manager answers address requests (AskIp).  What
\* is under way arrives or is lost in the end, or else no timeout would come.
Fairness ==
    /\ WF_vars(Main) /\ WF_vars(Listener) /\ WF_vars(\E ok \in BOOLEAN : TxStatus(ok))
    /\ \A d \in Dev : WF_vars(Discovered(d)) /\ WF_vars(DeviceHears(d)) /\ WF_vars(RadioDelivers(d))

FairSpec == Spec /\ Fairness

----------------------------------------------------------------------------
\* Types of the broker's state, and the count of failures within its limit.
TypeOK ==
    /\ xbee_api_devices \in [Slot -> [addr : Dev, ip : Nat \cup {NULL}] \cup {NULL}]
    /\ listener.pc \in {"recv", "status", "answer", "completed", "timeout"}
    /\ listener.buf \in Seq(RxFrame) /\ main.buf \in Seq(RxFrame)
    /\ main.i \in Nat /\ main.ip \in Nat \cup {NULL} /\ main.fails \in 0 .. max_fail_times
    /\ xbee_mac_addrs \in Seq(Dev)
    /\ rx \in Seq(Frame) /\ open \in 0 .. MaxCalls

\* What the manager will forward by is what the broker will look up: each
\* address registered at the manager stands in the table; and, where no device
\* is late and no package came in during the scan, its entry is the radio whose
\* description was registered with it (XBee_api_dev_register).
RegisteredIsReachable ==
    \A r \in registered : \E k \in Slot :
        /\ xbee_api_devices[k] # NULL /\ xbee_api_devices[k].ip = r[1]
        /\ ~ Late /\ asked = <<>> => xbee_api_devices[k].addr = r[2]

\* The scan comes to an end, however many of its reads fail; and the listener
\* comes back for the next package, however late the devices are.
ThreadsReturn ==
    /\ <>(main.pc = "done")
    /\ listener.pc # "recv" ~> listener.pc = "recv"

\* What the broker promises the manager, while the listener has the line for
\* itself.
Served(value, start) == IF given.scan THEN start ELSE value
Promise == INSTANCE RequestAnswer WITH
    late <- Late, asked <- Served(asked, <<>>), open <- Served(open, 0), answers <- Served(answers, <<>>)
ImplementsRequestAnswer == Promise!Spec
==============================================================================
