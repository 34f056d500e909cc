---------------------------- MODULE XBeeAtBroker ----------------------------
(***************************************************************************)
(* The broker for XBee radios in transparent (AT) mode.  There is one      *)
(* destination, kept by the modem: to reach a device a thread enters the   *)
(* modem's command mode, sets the destination, leaves command mode and     *)
(* writes; what the devices say comes back mixed with the modem's replies. *)
(* start_xbee_at_broker leaves two threads at this, the listener and the   *)
(* main thread that scans, without a lock.                                 *)
(*                                                                         *)
(* The line is counted in units of three bytes, the length of "OK\r" and   *)
(* of "ACK"; "ERROR\r" is two of them.  The modem, the radio and the end   *)
(* devices are the environment; the radios share the high word of their    *)
(* addresses, as those of one maker do.                                    *)
(***************************************************************************)
EXTENDS Integers, Sequences, FiniteSets

CONSTANTS
    Dev,             \* the end devices, by their radio address
    Reads,           \* the numbers of the manager's packages that devices answer
    MAXDEVICECOUNT,  \* length of xbee_at_devices
    Conditions,      \* the conditions given may start with: see there
    NULL

ASSUME DevAssumption == IsFiniteSet(Dev)
ASSUME LimitsAssumption == MAXDEVICECOUNT \in Nat
ASSUME ConditionsAssumption == Conditions \subseteq
    [scan : BOOLEAN, lossy : BOOLEAN, refuses : BOOLEAN, late : BOOLEAN, calls : Nat]

\* No device, no address and no entry of the table.
ASSUME NullAssumption == NULL \notin Dev \cup Nat \cup [addr : Dev, ip : Nat \cup {NULL}]

Slot == 0 .. MAXDEVICECOUNT - 1
Thread == {"listener", "main"}
SYN == [kind |-> "SYN", n |-> 0]
DES == [kind |-> "DES", n |-> 0]
Call(n) == [kind |-> "call", n |-> n]
Command == [kind : {"call"}, n : Nat] \cup {SYN, DES}

\* What a thread writes on the line: an order for the modem, with its
\* parameter, or data for the device it means to talk to.
Order == [op : {"+++", "ATDH", "ATDL", "ATCN", "ATND"}, dev : Dev \cup {NULL}]
Data == [op : {"data"}, dev : Dev, cmd : Command]
ToModem(op, d) == [op |-> op, dev |-> d]

\* What stands on the line for the threads to read: replies, the list of
\* devices found, and units of answers ("all" and "first" hold the start code,
\* "all" and "last" the end code).
Reply == [unit : {"OK", "ERR", "OR", "end of list"}]
Listed == [unit : {"found"}, dev : Dev]
Answer == [unit : {"answer"}, from : Dev, cmd : Command, part : {"all", "first", "last", "none"}]
Unit == Reply \cup Listed \cup Answer

VARIABLES
    given,           \* chosen at the start: [scan, lossy, refuses, late, calls]
    \* the broker
    xbee_at_devices, \* slot -> [addr, ip], or NULL; ip is NULL until it is updated
    thread,          \* what each thread is at: see ThreadState
    found,           \* the devices the scan found
    i,               \* the main thread's place in found
    ip,              \* the address just given to the main thread, NULL if none was
    \* the modem, the radio and the devices
    tx,              \* written by the broker, not yet read by the modem
    rx,              \* written by the modem, not yet read by the broker
    command_mode,    \* the modem is in command mode
    dh, dl,          \* its destination: high word set or zero, low word
    air,             \* device -> commands on their way to it
    out,             \* device -> units of its answers on their way back
    \* the manager, as the broker sees it
    calls, ip_count, registered,
    \* history
    asked, open, answers

broker == <<xbee_at_devices, thread, found, i, ip>>
modem == <<command_mode, dh, dl>>
radio == <<tx, rx, modem, air, out>>
manager == <<calls, ip_count, registered>>
history == <<given, asked, open, answers>>
vars == <<broker, radio, manager, history>>

Lossy == given.lossy       \* replies, commands, answers and address requests may be lost
Refuses == given.refuses   \* the modem may answer ERROR to an order it did not understand
Late == given.late         \* a timeout may come while a reply or an answer is under way
MaxCalls == given.calls    \* bound: packages the manager forwards

\* todo: orders still to be written, before the phase is over; got: the replies
\* to those written; buf: units of an answer so far.
ThreadState == [phase : {"recv", "scan", "list", "next", "connect", "ack", "ip", "answer",
                         "completed", "timeout", "disconnect", "done"},
                dev : Dev \cup {NULL}, todo : Seq(Order), waiting : BOOLEAN,
                got : Seq({"OK", "ERROR", "timeout"}), buf : Seq(Unit)]

Fresh(phase, d, todo) ==
    [phase |-> phase, dev |-> d, todo |-> todo, waiting |-> FALSE, got |-> <<>>, buf |-> <<>>]

InitLine ==
    /\ given \in Conditions
    /\ tx = <<>> /\ rx = <<>> /\ command_mode = FALSE /\ dh = FALSE /\ dl = NULL
    /\ air = [d \in Dev |-> <<>>] /\ out = [d \in Dev |-> <<>>]
    /\ i = 1 /\ ip = NULL /\ calls = <<>> /\ asked = <<>> /\ open = 0 /\ answers = <<>>

\* start_xbee_at_broker: an empty table, and both threads running.
InitScanning ==
    /\ InitLine /\ given.scan
    /\ xbee_at_devices = [k \in Slot |-> NULL]
    /\ thread = [t \in Thread |-> IF t = "main"
          THEN Fresh("scan", NULL, <<ToModem("+++", NULL)>>) ELSE Fresh("recv", NULL, <<>>)]
    /\ found = <<>> /\ ip_count = 0 /\ registered = {}

\* The same after a scan that found every device.
InitServing ==
    /\ InitLine /\ ~ given.scan
    /\ \E order \in [0 .. Cardinality(Dev) - 1 -> Dev] :
         /\ \A j, k \in DOMAIN order : order[j] = order[k] => j = k
         /\ xbee_at_devices = [k \in Slot |->
               IF k \in DOMAIN order THEN [addr |-> order[k], ip |-> k] ELSE NULL]
         /\ registered = {<<k, order[k]>> : k \in DOMAIN order}
    /\ thread = [t \in Thread |-> Fresh(IF t = "main" THEN "done" ELSE "recv", NULL, <<>>)]
    /\ found = <<>> /\ ip_count = Cardinality(Dev)

----------------------------------------------------------------------------
\* The device table.

First(S) == CHOOSE k \in S : \A j \in S : k <= j
find_XBee_at_device_index(addr) ==
    {k \in Slot : xbee_at_devices[k] # NULL /\ xbee_at_devices[k].addr = addr}
is_XBee_at_device_exists(addr) == find_XBee_at_device_index(addr) # {}
find_XBee_at_device_index_by_IoTIp(a) ==
    {k \in Slot : xbee_at_devices[k] # NULL /\ xbee_at_devices[k].ip = a}

add_new_XBee_at_device(addr) ==
    LET free == {k \in Slot : xbee_at_devices[k] = NULL} IN
    IF is_XBee_at_device_exists(addr) \/ free = {}
    THEN UNCHANGED xbee_at_devices
    ELSE xbee_at_devices' = [xbee_at_devices EXCEPT ![First(free)] = [addr |-> addr, ip |-> NULL]]

\* Mutant: the new address goes to the first entry instead of the device's own.
UpdateFirstEntry(addr, a) ==
    xbee_at_devices' = [xbee_at_devices EXCEPT
        ![First({k \in Slot : xbee_at_devices[k] # NULL})].ip = a]

update_XBee_at_iot_ip(addr, a) ==
    LET at == find_XBee_at_device_index(addr) IN
    IF at = {} THEN UNCHANGED xbee_at_devices
    ELSE xbee_at_devices' = [xbee_at_devices EXCEPT ![First(at)].ip = a]

----------------------------------------------------------------------------
\* What both threads do on the line.

Goes(t, state) == thread' = [thread EXCEPT ![t] = state]

\* enter_command_mode, conn_XBee_at_device, exit_command_mode, in that order;
\* and the same with disconn_xbee_at_device.
ConnectOrders(d) == <<ToModem("+++", NULL), ToModem("ATDH", d), ToModem("ATDL", d), ToModem("ATCN", NULL)>>
DisconnectOrders == ConnectOrders(NULL)

\* Mutant: the reply to the last order is left on the line.
ReplyLeft(t) ==
    /\ thread[t].todo # <<>>
    /\ tx' = Append(tx, Head(thread[t].todo))
    /\ Goes(t, [thread[t] EXCEPT !.todo = Tail(@), !.waiting = Tail(thread[t].todo) # <<>>])
    /\ UNCHANGED <<xbee_at_devices, found, i, ip, rx, modem, air, out, manager, history>>

UnderWay == \/ tx # <<>> \/ rx # <<>>
            \/ \E d \in Dev : air[d] # <<>> \/ out[d] # <<>>
TimedOut == ~ Late => ~ UnderWay

\* RS232_SendBuf of the next order.
WriteOrder(t) ==
    /\ thread[t].todo # <<>> /\ ~ thread[t].waiting
    /\ tx' = Append(tx, Head(thread[t].todo))
    /\ Goes(t, [thread[t] EXCEPT !.todo = Tail(@), !.waiting = TRUE])
    /\ UNCHANGED <<xbee_at_devices, found, i, ip, rx, modem, air, out, manager, history>>

\* recv_char_from_XBee_at of three bytes, whatever they are, or its timeout.
ReadReply(t) ==
    /\ thread[t].waiting
    /\ \/ /\ rx # <<>> /\ rx' = Tail(rx)
          /\ Goes(t, [thread[t] EXCEPT !.waiting = FALSE,
                !.got = Append(@, IF Head(rx).unit = "OK" THEN "OK" ELSE "ERROR")])
       \/ /\ TimedOut /\ UNCHANGED rx
          /\ Goes(t, [thread[t] EXCEPT !.waiting = FALSE, !.got = Append(@, "timeout")])
    /\ UNCHANGED <<xbee_at_devices, found, i, ip, tx, modem, air, out, manager, history>>

Idle(t, phase) == thread[t].phase = phase /\ thread[t].todo = <<>> /\ ~ thread[t].waiting

\* Mutant: the result of conn_XBee_at_device is not looked at.
ConnectionAssumed(t) == TRUE

\* The results of enter and exit are not looked at; both halves of the
\* destination must have been taken.
conn_status_succeed(t) == thread[t].got[2] = "OK" /\ thread[t].got[3] = "OK"

\* send_command_to_end_device.
send_command_to_end_device(d, cmd) == tx' = Append(tx, [op |-> "data", dev |-> d, cmd |-> cmd])

\* Mutant: temp_buf and offset outlive the command they were filled for.
KeepBuffer(t) == thread[t].buf
FreshBuffer(t) == <<>>

\* recv_command_from_end_device: the start code must be the first byte, the end
\* code is looked for in what comes from then on.
HasStart(u) == u.unit = "answer" /\ u.part \in {"all", "first"}
HasEnd(u) == u.unit = "answer" /\ u.part \in {"all", "last"}
Completed(buf) == HasStart(Head(buf)) /\ HasEnd(buf[Len(buf)])

Collect(t) ==
    /\ Idle(t, "answer") /\ rx # <<>> /\ rx' = Tail(rx)
    /\ LET buf == Append(thread[t].buf, Head(rx)) IN
       Goes(t, [thread[t] EXCEPT !.buf = buf, !.phase = IF Completed(buf) THEN "completed" ELSE @])
    /\ UNCHANGED <<xbee_at_devices, found, i, ip, tx, modem, air, out, manager, history>>

CollectTimeout(t) ==
    /\ Idle(t, "answer") /\ TimedOut
    /\ Goes(t, [thread[t] EXCEPT !.phase = "timeout"])
    /\ UNCHANGED <<xbee_at_devices, found, i, ip, radio, manager, history>>

\* clear_XBee_at_recv_buff: less than 100 bytes are waiting, and all go.
clear_XBee_at_recv_buff == rx' = <<>>
Answered(t) == thread[t].phase \in {"completed", "timeout"}

----------------------------------------------------------------------------
\* The listener thread, xbee_at_listen_to_manager_loop.

TakeCall ==
    LET at == find_XBee_at_device_index_by_IoTIp(Head(calls)) IN
    /\ Idle("listener", "recv") /\ calls # <<>>
    /\ calls' = Tail(calls)
    /\ IF at = {}
       THEN /\ asked' = Append(asked, NULL)
            /\ UNCHANGED <<thread, open>>
       ELSE LET d == xbee_at_devices[First(at)].addr IN
            /\ asked' = Append(asked, d) /\ open' = Len(asked) + 1
            /\ Goes("listener", [thread["listener"] EXCEPT
                  !.phase = "connect", !.dev = d, !.todo = ConnectOrders(d), !.got = <<>>])
    /\ UNCHANGED <<xbee_at_devices, found, i, ip, radio, ip_count, registered, given, answers>>

ListenerDisconnects(state) == [state EXCEPT !.phase = "disconnect", !.todo = DisconnectOrders]

\* The command goes out if the connection stands; of every type, it is waited for.
SendCall ==
    LET me == thread["listener"] IN
    /\ Idle("listener", "connect")
    /\ IF conn_status_succeed("listener")
       THEN /\ send_command_to_end_device(me.dev, Call(open))
            /\ Goes("listener", [me EXCEPT !.phase = "answer", !.buf = FreshBuffer("listener")])
            /\ UNCHANGED open
       ELSE /\ Goes("listener", ListenerDisconnects(me))
            /\ open' = 0
            /\ UNCHANGED tx
    /\ UNCHANGED <<xbee_at_devices, found, i, ip, rx, modem, air, out, manager, given, asked, answers>>

Content(buf) == {IF u.unit = "answer" THEN [n |-> u.cmd.n, dev |-> u.from] ELSE [n |-> 0, dev |-> NULL] :
                    u \in {buf[k] : k \in 1 .. Len(buf)}}

HasAnswer == thread["listener"].phase = "completed"

SendAnswer ==
    LET me == thread["listener"] IN
    /\ Answered("listener") /\ clear_XBee_at_recv_buff
    /\ answers' = IF HasAnswer THEN Append(answers, [to |-> open, carries |-> Content(me.buf)])
                  ELSE answers
    /\ open' = 0
    /\ Goes("listener", ListenerDisconnects(me))
    /\ UNCHANGED <<xbee_at_devices, found, i, ip, tx, modem, air, out, manager, given, asked>>

Disconnected ==
    /\ Idle("listener", "disconnect")
    /\ Goes("listener", [thread["listener"] EXCEPT !.phase = "recv", !.dev = NULL, !.got = <<>>])
    /\ UNCHANGED <<xbee_at_devices, found, i, ip, radio, manager, history>>

----------------------------------------------------------------------------
\* The main thread: scan_XBee_at_devices and XBee_at_dev_register.

me == thread["main"]

\* "ATND": no reply is read, the list of devices is.
AskForList ==
    /\ Idle("main", "scan")
    /\ tx' = Append(tx, ToModem("ATND", NULL))
    /\ Goes("main", Fresh("list", NULL, <<>>))
    /\ UNCHANGED <<xbee_at_devices, found, i, ip, rx, modem, air, out, manager, history>>

\* Mutant: the end code is a device like the others.
EndNotSeen ==
    /\ Idle("main", "list") /\ rx # <<>> /\ rx' = Tail(rx)
    /\ found' = IF Head(rx).unit = "found" THEN Append(found, Head(rx).dev) ELSE found
    /\ UNCHANGED <<xbee_at_devices, thread, i, ip, tx, modem, air, out, manager, history>>

\* The loop has no timeout: it ends with the end of the list.
ReadList ==
    /\ Idle("main", "list") /\ rx # <<>> /\ rx' = Tail(rx)
    /\ found' = IF Head(rx).unit = "found" THEN Append(found, Head(rx).dev) ELSE found
    /\ IF Head(rx).unit = "end of list"
       THEN Goes("main", Fresh("next", NULL, <<ToModem("ATCN", NULL)>>))
       ELSE UNCHANGED thread
    /\ UNCHANGED <<xbee_at_devices, i, ip, tx, modem, air, out, manager, history>>

NextDevice ==
    /\ Idle("main", "next")
    /\ IF i > Len(found)
       THEN Goes("main", Fresh("done", NULL, <<>>)) /\ UNCHANGED rx
       ELSE clear_XBee_at_recv_buff /\ Goes("main", Fresh("connect", found[i], ConnectOrders(found[i])))
    /\ UNCHANGED <<xbee_at_devices, found, i, ip, tx, modem, air, out, manager, history>>

\* A device that cannot be connected to is left, without a disconnect.
SendSyn ==
    /\ Idle("main", "connect")
    /\ IF conn_status_succeed("main")
       THEN /\ send_command_to_end_device(me.dev, SYN)
            /\ Goes("main", Fresh("ack", me.dev, <<>>))
            /\ UNCHANGED i
       ELSE Goes("main", Fresh("next", NULL, <<>>)) /\ i' = i + 1 /\ UNCHANGED tx
    /\ UNCHANGED <<xbee_at_devices, found, ip, rx, modem, air, out, manager, history>>

IsAck(u) == u.unit = "answer" /\ u.cmd = SYN
MainDisconnects == Goes("main", Fresh("next", NULL, DisconnectOrders)) /\ i' = i + 1

ReadAck ==
    /\ Idle("main", "ack")
    /\ \/ /\ rx # <<>> /\ rx' = Tail(rx)
          /\ IF IsAck(Head(rx))
             THEN /\ add_new_XBee_at_device(me.dev)
                  /\ Goes("main", Fresh("ip", me.dev, <<>>)) /\ UNCHANGED i
             ELSE MainDisconnects /\ UNCHANGED xbee_at_devices
       \/ TimedOut /\ MainDisconnects /\ UNCHANGED <<xbee_at_devices, rx>>
    /\ UNCHANGED <<found, ip, tx, modem, air, out, manager, history>>

\* ask_a_IoTIP_for_XBee_at, and then the description is asked for.  If its new
\* socket does not connect there is no address, and all goes on without one.
AskIp ==
    /\ Idle("main", "ip")
    /\ \/ ip' = ip_count /\ ip_count' = ip_count + 1
       \/ Lossy /\ ip' = NULL /\ UNCHANGED ip_count
    /\ update_XBee_at_iot_ip(me.dev, ip')
    /\ send_command_to_end_device(me.dev, DES)
    /\ Goes("main", Fresh("answer", me.dev, <<>>))
    /\ UNCHANGED <<found, i, rx, modem, air, out, calls, registered, history>>

\* Only all the units of one description have the right checksum at their end.
check_sum(buf) ==
    /\ \A k \in 1 .. Len(buf) : buf[k].unit = "answer" /\ buf[k].cmd = DES /\ buf[k].from = Head(buf).from
    /\ Len(buf) = 1 \/ (Len(buf) = 2 /\ Head(buf).part = "first")

\* What the manager can read is a description with an address.
Readable == me.phase = "completed" /\ check_sum(me.buf) /\ ip # NULL

Register ==
    /\ Answered("main") /\ clear_XBee_at_recv_buff
    /\ registered' = IF Readable
                     THEN registered \cup {<<ip, Head(me.buf).from>>} ELSE registered
    /\ MainDisconnects
    /\ UNCHANGED <<xbee_at_devices, found, ip, tx, modem, air, out, calls, ip_count, history>>

----------------------------------------------------------------------------
\* The environment.

ManagerCalls(a) ==
    /\ Len(asked) + Len(calls) < MaxCalls
    /\ calls' = Append(calls, a)
    /\ UNCHANGED <<broker, radio, ip_count, registered, history>>

Says(units) == rx' = rx \o units
OK == <<[unit |-> "OK"]>>
SetDestination(x) ==
    IF x.op = "ATDH" THEN dh' = (x.dev # NULL) /\ UNCHANGED dl ELSE dl' = x.dev /\ UNCHANGED dh

\* In command mode the modem obeys, or it refuses and changes nothing; its
\* reply may be lost.  Data is not sent on.
ModemObeys(x) ==
    /\ command_mode
    /\ \/ /\ x.op \in {"ATDH", "ATDL"} /\ SetDestination(x) /\ Says(OK) /\ UNCHANGED command_mode
       \/ /\ x.op = "ATCN" /\ command_mode' = FALSE /\ Says(OK) /\ UNCHANGED <<dh, dl>>
       \/ /\ x.op = "ATND"
          /\ \E S \in SUBSET Dev, f \in [1 .. Cardinality(Dev) -> Dev] :
               /\ {f[k] : k \in 1 .. Cardinality(S)} = S
               /\ Says([k \in 1 .. Cardinality(S) |-> [unit |-> "found", dev |-> f[k]]]
                       \o <<[unit |-> "end of list"]>>)
          /\ UNCHANGED modem
       \/ /\ x.op \in {"ATDH", "ATDL", "+++", "data"}
          /\ (Refuses /\ Says(<<[unit |-> "ERR"], [unit |-> "OR"]>>)) \/ (Lossy /\ Says(<<>>))
          /\ UNCHANGED modem
    /\ UNCHANGED air

\* In transparent mode "+++" enters command mode, if the silence around it was
\* long enough; all the rest goes to the destination, where only data matters.
ModemSends(x) ==
    /\ ~ command_mode
    /\ \/ /\ x.op = "+++" /\ command_mode' = TRUE
          /\ Says(OK) \/ (Lossy /\ Says(<<>>))
          /\ UNCHANGED <<dh, dl, air>>
       \/ /\ x.op \in {"+++", "ATDH", "ATDL", "ATCN", "ATND"} /\ (x.op = "+++" => Lossy)
          /\ Says(<<>>) /\ UNCHANGED <<modem, air>>
       \/ /\ x.op = "data"
          /\ IF dh /\ dl # NULL THEN air' = [air EXCEPT ![dl] = Append(@, x)] ELSE UNCHANGED air
          /\ Says(<<>>) /\ UNCHANGED modem

ModemReads ==
    /\ tx # <<>> /\ tx' = Tail(tx)
    /\ ModemObeys(Head(tx)) \/ ModemSends(Head(tx))
    /\ UNCHANGED <<broker, out, manager, history>>

\* Left alone for long, the modem leaves command mode by itself.
ModemLeaves ==
    /\ command_mode /\ command_mode' = FALSE /\ Lossy
    /\ UNCHANGED <<broker, tx, rx, dh, dl, air, out, manager, history>>

UnitOf(d, cmd, part) == [unit |-> "answer", from |-> d, cmd |-> cmd, part |-> part]
AnswersOf(d, cmd) ==
    IF cmd = SYN THEN {<<UnitOf(d, SYN, "none")>>}
    ELSE {<<UnitOf(d, cmd, "all")>>, <<UnitOf(d, cmd, "first"), UnitOf(d, cmd, "last")>>}
IsAnswered(cmd) == cmd.kind = "call" => cmd.n \in Reads

DeviceHears(d) ==
    /\ air[d] # <<>> /\ air' = [air EXCEPT ![d] = Tail(@)]
    /\ LET cmd == Head(air[d]).cmd IN
       \/ /\ IsAnswered(cmd)
          /\ \E s \in AnswersOf(d, cmd) : out' = [out EXCEPT ![d] = @ \o s]
       \/ (~ IsAnswered(cmd) \/ Lossy) /\ UNCHANGED out
    /\ UNCHANGED <<broker, tx, rx, modem, manager, history>>

RadioDelivers(d) ==
    /\ out[d] # <<>> /\ out' = [out EXCEPT ![d] = Tail(@)]
    /\ Says(<<Head(out[d])>>) \/ (Lossy /\ UNCHANGED rx)
    /\ UNCHANGED <<broker, tx, modem, air, manager, history>>

----------------------------------------------------------------------------
Step(t) == WriteOrder(t) \/ ReadReply(t) \/ Collect(t) \/ CollectTimeout(t)
Listener == Step("listener") \/ TakeCall \/ SendCall \/ SendAnswer \/ Disconnected
Main == \/ Step("main") \/ AskForList \/ ReadList \/ NextDevice \/ SendSyn \/ ReadAck \/ AskIp
        \/ Register
Environment ==
    \/ \E a \in 0 .. Cardinality(Dev) - 1 : ManagerCalls(a)
    \/ ModemReads \/ ModemLeaves
    \/ \E d \in Dev : DeviceHears(d) \/ RadioDelivers(d)

Init == InitScanning \/ InitServing
Next == Listener \/ Main \/ Environment

Fairness == /\ WF_vars(Listener) /\ WF_vars(Main) /\ WF_vars(ModemReads)
            /\ \A d \in Dev : WF_vars(DeviceHears(d)) /\ WF_vars(RadioDelivers(d))

Spec == Init /\ [][Next]_vars

\* Both threads run on, the manager answers address requests, and the modem
\* reads what is written to it.
FairSpec == Spec /\ Fairness

----------------------------------------------------------------------------
\* Types of the broker's state; a thread waits for the reply to one order at
\* a time, and looks at the connection only when it has four.
TypeOK ==
    /\ xbee_at_devices \in [Slot -> [addr : Dev, ip : Nat \cup {NULL}] \cup {NULL}]
    /\ thread \in [Thread -> ThreadState]
    /\ \A t \in Thread : Idle(t, "connect") => Len(thread[t].got) = 4
    /\ found \in Seq(Dev) /\ i \in Nat /\ ip \in Nat \cup {NULL}
    /\ rx \in Seq(Unit) /\ tx \in Seq(Order \cup Data)

\* One thread at a time uses the line: no package comes before the scan is over.
Alone == given.scan => MaxCalls = 0

\* Where no reply is late, the modem refuses nothing and one thread uses it, a
\* command reaches the device it is meant for or none, whatever the modem
\* ignores or loses on the way to the connection and back.
RightDevice ==
    Alone /\ ~ Late /\ ~ Refuses => \A d \in Dev : \A k \in 1 .. Len(air[d]) : air[d][k].dev = d

\* And each address registered at the manager stands in the table, with the radio
\* that sent the description.
OwnDescription ==
    Alone /\ ~ Late /\ ~ Refuses => \A r \in registered : \E k \in Slot :
        /\ xbee_at_devices[k] # NULL
        /\ xbee_at_devices[k].ip = r[1] /\ xbee_at_devices[k].addr = r[2]

\* The scan ends, if the modem loses nothing of its list; and the listener
\* comes back for the next package, however late the replies are.
ThreadsReturn ==
    /\ <>(Lossy \/ me.phase = "done")
    /\ thread["listener"].phase # "recv" ~> thread["listener"].phase = "recv"

\* What the broker promises the manager, while the listener has the modem for
\* itself and the modem takes its orders: a connection that was not made may be
\* found good after a refusal, or an order that was lost before a late reply.
\* Where replies are late, the modem's may stand between the units of an answer:
\* the promise is then about what devices said.
Obeys == ~ Refuses /\ ~ (Late /\ Lossy)
Served(value, start) == IF given.scan \/ ~ Obeys THEN start ELSE value
SaidByDevices(a) == IF Late THEN [a EXCEPT !.carries = {s \in @ : s.dev # NULL}] ELSE a
Promise == INSTANCE RequestAnswer WITH
    late <- Late, asked <- Served(asked, <<>>), open <- Served(open, 0),
    answers <- Served([k \in DOMAIN answers |-> SaidByDevices(answers[k])], <<>>)
ImplementsRequestAnswer == Promise!Spec
==============================================================================
