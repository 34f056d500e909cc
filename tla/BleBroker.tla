------------------------------ MODULE BleBroker ------------------------------
(***************************************************************************)
(* The broker for Bluetooth devices.  One modem holds one connection: a    *)
(* thread that wants a device dials it, talks, and hangs up.  "AT" does    *)
(* for clearing and for hanging up: the modem answers OK, or hangs up and  *)
(* says so.  start_ble_broker leaves two threads at this, the listener and *)
(* the main thread that scans, without a lock.                             *)
(*                                                                         *)
(* The modem, the radio, the end devices and the manager are the           *)
(* environment.  What it may do wrong (a reply or an answer lost, a        *)
(* connection broken, a reply that comes after its timeout, a manager that *)
(* is not reached for an address) is counted in faults.                    *)
(***************************************************************************)
EXTENDS Integers, Sequences, FiniteSets

CONSTANTS
    Dev,             \* the end devices, by their radio address
    Reads,           \* the numbers of the manager's packages that devices answer
    MAXDEVICECOUNT,  \* length of ble_devices
    max_try_times,   \* disconn_ble_device: tries after the first
    Conditions,      \* the conditions given may start with: see there
    MaxFaults,       \* bound: faults of the environment
    NULL

ASSUME DevAssumption == IsFiniteSet(Dev)
ASSUME LimitsAssumption == MAXDEVICECOUNT \in Nat /\ max_try_times \in Nat /\ MaxFaults \in Nat
ASSUME ConditionsAssumption == Conditions \subseteq [scan : BOOLEAN, calls : Nat]

\* No device, no address and no entry of the table.
ASSUME NullAssumption == NULL \notin Dev \cup Nat \cup [addr : Dev, ip : Nat \cup {NULL}]

Slot == 0 .. MAXDEVICECOUNT - 1
Thread == {"listener", "main"}
SYN == [kind |-> "SYN", n |-> 0]
DES == [kind |-> "DES", n |-> 0]
Call(n) == [kind |-> "call", n |-> n]
Command == [kind : {"call"}, n : Nat] \cup {SYN, DES}

\* What a thread writes: an order for the modem, or data for the device it
\* means to talk to.
Order == [op : {"AT", "AT+CON", "AT+DISC?"}, dev : Dev \cup {NULL}]
Data == [op : {"data"}, dev : Dev, cmd : Command]

\* What it reads: replies, which all begin with "OK", devices found, and units
\* of answers ("all" and "first" hold the start code, "all" and "last" the end).
\* Of a reply of eight bytes a read of seven leaves the last.
Reply == [unit : {"OK", "OK+LOST", "OK+CONNA", "OK+CONN", "OK+CONNF", "OK+DISCE"}]
Listed == [unit : {"DIS0:"}, dev : Dev]
Answer == [unit : {"answer"}, from : Dev, cmd : Command, part : {"all", "first", "last", "none"}]
Rest == [unit : {"rest"}]
Unit == Reply \cup Listed \cup Answer \cup Rest

VARIABLES
    given,           \* chosen at the start: [scan, calls]
    \* the broker
    ble_devices,     \* slot -> [addr, ip], or NULL; ip is NULL until it is updated
    thread,          \* what each thread is at: see ThreadState
    found,           \* the devices the scan found
    i,               \* the main thread's place in found
    ip,              \* the address just given to the main thread, NULL if none was
    \* the modem, the radio and the devices
    tx, rx,          \* written for the modem, and by it
    dialing,         \* the device the modem is connecting to
    linked,          \* the device it is connected to
    air, out,        \* on the connection: commands to the device, its answers
    faults,
    \* the manager, as the broker sees it
    calls, ip_count,
    registered,      \* the descriptions sent to it, <<address, device>>, NULL without one
    \* history
    asked, open, answers

broker == <<ble_devices, thread, found, i, ip>>
link == <<dialing, linked, air, out>>
manager == <<calls, ip_count, registered>>
history == <<given, asked, open, answers>>
vars == <<broker, tx, rx, link, faults, manager, history>>

MaxCalls == given.calls    \* bound: packages the manager forwards

\* pc: the place in conn_ble_device and disconn_ble_device, "idle" outside;
\* phase: what is done then; ok: the last connection stands; tries: of
\* disconn_ble_device; buf: units of an answer so far.
ThreadState ==
    [phase : {"recv", "scan", "list", "next", "syn", "ack", "register", "send", "answer",
              "completed", "timeout", "registered", "retry", "close", "done"},
     pc : {"idle", "clear", "drain", "dial", "conna", "conn", "hang up", "lost", "clear again",
           "drain again"},
     dev : Dev \cup {NULL}, ok : BOOLEAN, tries : 0 .. max_try_times, buf : Seq(Unit)]

At(phase, pc, d) ==
    [phase |-> phase, pc |-> pc, dev |-> d, ok |-> FALSE, tries |-> 0, buf |-> <<>>]

InitLine ==
    /\ given \in Conditions
    /\ tx = <<>> /\ rx = <<>> /\ dialing = NULL /\ linked = NULL /\ air = <<>> /\ out = <<>>
    /\ faults = 0 /\ found = <<>> /\ i = 1 /\ ip = NULL
    /\ calls = <<>> /\ asked = <<>> /\ open = 0 /\ answers = <<>>

\* start_ble_broker: an empty table, and both threads running.
InitScanning ==
    /\ InitLine /\ given.scan
    /\ ble_devices = [k \in Slot |-> NULL]
    /\ thread = [t \in Thread |-> IF t = "main" THEN At("scan", "clear", NULL)
                                               ELSE At("recv", "idle", NULL)]
    /\ ip_count = 0 /\ registered = {}

\* The same after a scan that found every device.
InitServing ==
    /\ InitLine /\ ~ given.scan
    /\ \E order \in [0 .. Cardinality(Dev) - 1 -> Dev] :
         /\ \A j, k \in DOMAIN order : order[j] = order[k] => j = k
         /\ ble_devices = [k \in Slot |->
               IF k \in DOMAIN order THEN [addr |-> order[k], ip |-> k] ELSE NULL]
         /\ registered = {<<k, order[k]>> : k \in DOMAIN order}
    /\ thread = [t \in Thread |-> At(IF t = "main" THEN "done" ELSE "recv", "idle", NULL)]
    /\ ip_count = Cardinality(Dev)

----------------------------------------------------------------------------
\* The device table.

First(S) == CHOOSE k \in S : \A j \in S : k <= j
find_device_index(addr) == {k \in Slot : ble_devices[k] # NULL /\ ble_devices[k].addr = addr}
is_ble_device_exists(addr) == find_device_index(addr) # {}
find_BLE_device_index_by_IoTIp(a) == {k \in Slot : ble_devices[k] # NULL /\ ble_devices[k].ip = a}

\* add_new_ble_device.
Added(addr) ==
    LET free == {k \in Slot : ble_devices[k] = NULL} IN
    IF is_ble_device_exists(addr) \/ free = {} THEN ble_devices
    ELSE [ble_devices EXCEPT ![First(free)] = [addr |-> addr, ip |-> NULL]]

\* Mutant: the new address goes to the first entry instead of the device's own.
UpdateFirstEntry(table, addr, a) == [table EXCEPT ![First({k \in Slot : table[k] # NULL})].ip = a]

\* update_iot_ip.
Updated(table, addr, a) ==
    LET at == {k \in Slot : table[k] # NULL /\ table[k].addr = addr} IN
    IF at = {} THEN table ELSE [table EXCEPT ![First(at)].ip = a]

----------------------------------------------------------------------------
\* What both threads do with the modem.

me(t) == thread[t]
Goes(t, state) == thread' = [thread EXCEPT ![t] = state]
AtPc(t, pc) == me(t).pc = pc
ToPc(t, pc) == Goes(t, [me(t) EXCEPT !.pc = pc])
Idle(t, phase) == me(t).phase = phase /\ AtPc(t, "idle")

Conn(state, d, phase) == [state EXCEPT !.phase = phase, !.pc = "clear", !.dev = d, !.ok = FALSE]
Disconn(state, phase) == [state EXCEPT !.phase = phase, !.pc = "clear", !.tries = 0]
\* Whether the clearing is that of conn_ble_device.
Dials(t) == me(t).phase \in {"syn", "send"}

Write(op, d) == tx' = Append(tx, [op |-> op, dev |-> d])
UnderWay == tx # <<>> \/ rx # <<>> \/ dialing # NULL \/ air # <<>> \/ out # <<>>

Fault == faults < MaxFaults /\ faults' = faults + 1

\* Mutant: reads without a timeout.
WaitForever == FALSE /\ UNCHANGED faults
\* A read ends without an answer when there will be none, or by a fault when
\* there is one under way.
Timeout == \/ ~ UnderWay /\ UNCHANGED faults
           \/ UnderWay /\ Fault

\* clear_recv_buff: "AT", and all that comes until the time is over is dropped.
Clear(t) ==
    /\ AtPc(t, "clear") \/ AtPc(t, "clear again")
    /\ Write("AT", NULL)
    /\ ToPc(t, IF AtPc(t, "clear") THEN "drain" ELSE "drain again")
    /\ UNCHANGED <<ble_devices, found, i, ip, rx, link, faults, manager, history>>

\* Mutant: one try more than there may be.
OneTryMore(t) == me(t).tries > max_try_times
LastTry(t) == me(t).tries = max_try_times

Drain(t) ==
    /\ AtPc(t, "drain") \/ AtPc(t, "drain again")
    /\ \/ tx = <<>> /\ UNCHANGED faults
       \/ tx # <<>> /\ Fault
    /\ rx' = <<>>
    /\ IF AtPc(t, "drain again")
       THEN IF LastTry(t) THEN ToPc(t, "idle")
            ELSE Goes(t, [me(t) EXCEPT !.pc = "clear", !.tries = @ + 1])
       ELSE ToPc(t, IF Dials(t) THEN "dial" ELSE IF me(t).phase = "scan" THEN "idle" ELSE "hang up")
    /\ UNCHANGED <<ble_devices, found, i, ip, tx, link, manager, history>>

Dial(t) ==
    /\ AtPc(t, "dial") /\ Write("AT+CON", me(t).dev) /\ ToPc(t, "conna")
    /\ UNCHANGED <<ble_devices, found, i, ip, rx, link, faults, manager, history>>

\* A read of strlen("OK+CONN") or strlen("OK+LOST") leaves the end of a longer
\* reply on the line.
RestOf(u) == IF u.unit \in {"OK+CONNA", "OK+CONNF", "OK+DISCE"} THEN <<[unit |-> "rest"]>> ELSE <<>>

\* The two replies conn_ble_device asks for, in their order: "OK+CONNF", which
\* says that there is no connection, begins like the second.
IsConn(t, u) ==
    u.unit \in IF AtPc(t, "conna") THEN {"OK+CONNA"} ELSE {"OK+CONN", "OK+CONNA", "OK+CONNF"}

ReadConn(t) ==
    /\ AtPc(t, "conna") \/ AtPc(t, "conn")
    /\ \/ /\ rx # <<>> /\ UNCHANGED faults
          /\ rx' = (IF AtPc(t, "conn") THEN RestOf(Head(rx)) ELSE <<>>) \o Tail(rx)
          /\ IF ~ IsConn(t, Head(rx)) THEN ToPc(t, "idle")
             ELSE IF AtPc(t, "conna") THEN ToPc(t, "conn")
             ELSE Goes(t, [me(t) EXCEPT !.pc = "idle", !.ok = TRUE])
       \/ Timeout /\ ToPc(t, "idle") /\ UNCHANGED rx
    /\ UNCHANGED <<ble_devices, found, i, ip, tx, link, manager, history>>

HangUp(t) ==
    /\ AtPc(t, "hang up") /\ Write("AT", NULL) /\ ToPc(t, "lost")
    /\ UNCHANGED <<ble_devices, found, i, ip, rx, link, faults, manager, history>>

\* Any reply is good, since all begin with "OK".
ReadLost(t) ==
    /\ AtPc(t, "lost")
    /\ \/ /\ rx # <<>> /\ rx' = RestOf(Head(rx)) \o Tail(rx) /\ UNCHANGED faults
          /\ ToPc(t, IF Head(rx) \in Reply THEN "idle" ELSE "clear again")
       \/ Timeout /\ ToPc(t, "clear again") /\ UNCHANGED rx
    /\ UNCHANGED <<ble_devices, found, i, ip, tx, link, manager, history>>

send_command_to_ble_device(d, cmd) == tx' = Append(tx, [op |-> "data", dev |-> d, cmd |-> cmd])

\* Mutant: temp_buf and offset outlive the command they were filled for.
KeepBuffer(t) == me(t).buf
FreshBuffer(t) == <<>>

\* recv_command_from_ble_device: the start code must be the first byte, the end
\* code is looked for in what comes from then on.
HasStart(u) == u.unit = "answer" /\ u.part \in {"all", "first"}
HasEnd(u) == u.unit = "answer" /\ u.part \in {"all", "last"}
Completed(buf) == HasStart(Head(buf)) /\ HasEnd(buf[Len(buf)])

Collect(t) ==
    /\ Idle(t, "answer")
    /\ \/ /\ rx # <<>> /\ rx' = Tail(rx) /\ UNCHANGED faults
          /\ LET buf == Append(me(t).buf, Head(rx)) IN
             Goes(t, [me(t) EXCEPT !.buf = buf, !.phase = IF Completed(buf) THEN "completed" ELSE @])
       \/ Timeout /\ UNCHANGED rx /\ Goes(t, [me(t) EXCEPT !.phase = "timeout"])
    /\ UNCHANGED <<ble_devices, found, i, ip, tx, link, manager, history>>

Answered(t) == Idle(t, "completed") \/ Idle(t, "timeout")

----------------------------------------------------------------------------
\* The listener thread, ble_listen_to_manager_loop.

TakeCall ==
    LET at == find_BLE_device_index_by_IoTIp(Head(calls)) IN
    /\ Idle("listener", "recv") /\ calls # <<>>
    /\ calls' = Tail(calls)
    /\ IF at = {}
       THEN asked' = Append(asked, NULL) /\ UNCHANGED <<thread, open>>
       ELSE LET d == ble_devices[First(at)].addr IN
            /\ asked' = Append(asked, d) /\ open' = Len(asked) + 1
            /\ Goes("listener", Conn(me("listener"), d, "send"))
    /\ UNCHANGED <<ble_devices, found, i, ip, tx, rx, link, faults, ip_count, registered, given, answers>>

\* The command goes out if the connection stands; of every type, it is waited for.
SendCall ==
    LET self == me("listener") IN
    /\ Idle("listener", "send")
    /\ IF self.ok
       THEN /\ send_command_to_ble_device(self.dev, Call(open))
            /\ Goes("listener", [self EXCEPT !.phase = "answer", !.buf = FreshBuffer("listener")])
            /\ UNCHANGED open
       ELSE Goes("listener", Disconn(self, "close")) /\ open' = 0 /\ UNCHANGED tx
    /\ UNCHANGED <<ble_devices, found, i, ip, rx, link, faults, manager, given, asked, answers>>

Content(buf) == {IF u.unit = "answer" THEN [n |-> u.cmd.n, dev |-> u.from] ELSE [n |-> 0, dev |-> NULL] :
                    u \in {buf[k] : k \in 1 .. Len(buf)}}

\* Mutant: the connection is left as it is after an answer.
KeepConnection ==
    LET self == me("listener") IN
    /\ Answered("listener")
    /\ answers' = IF self.phase = "completed"
                  THEN Append(answers, [to |-> open, carries |-> Content(self.buf)]) ELSE answers
    /\ open' = 0
    /\ Goes("listener", [self EXCEPT !.phase = "close"])
    /\ UNCHANGED <<ble_devices, found, i, ip, tx, rx, link, faults, manager, given, asked>>

SendAnswer ==
    LET self == me("listener") IN
    /\ Answered("listener")
    /\ answers' = IF self.phase = "completed"
                  THEN Append(answers, [to |-> open, carries |-> Content(self.buf)]) ELSE answers
    /\ open' = 0
    /\ Goes("listener", Disconn(self, "close"))
    /\ UNCHANGED <<ble_devices, found, i, ip, tx, rx, link, faults, manager, given, asked>>

Disconnected ==
    /\ Idle("listener", "close")
    /\ Goes("listener", [me("listener") EXCEPT !.phase = "recv", !.dev = NULL])
    /\ UNCHANGED <<ble_devices, found, i, ip, tx, rx, link, faults, manager, history>>

----------------------------------------------------------------------------
\* The main thread: scan_ble_devices and ble_dev_register.

self == me("main")

Discover ==
    /\ Idle("main", "scan") /\ Write("AT+DISC?", NULL) /\ Goes("main", At("list", "idle", NULL))
    /\ UNCHANGED <<ble_devices, found, i, ip, rx, link, faults, manager, history>>

\* The loop has no timeout: it ends with the end of the list.
ReadList ==
    /\ Idle("main", "list") /\ rx # <<>> /\ rx' = Tail(rx)
    /\ found' = IF Head(rx).unit = "DIS0:" THEN Append(found, Head(rx).dev) ELSE found
    /\ IF Head(rx).unit = "OK+DISCE" THEN Goes("main", At("next", "idle", NULL)) ELSE UNCHANGED thread
    /\ UNCHANGED <<ble_devices, i, ip, tx, link, faults, manager, history>>

NextDevice ==
    /\ Idle("main", "next")
    /\ Goes("main", IF i > Len(found) THEN At("done", "idle", NULL) ELSE Conn(self, found[i], "syn"))
    /\ UNCHANGED <<ble_devices, found, i, ip, tx, rx, link, faults, manager, history>>

\* A device that cannot be connected to is left, without a disconnect.
SendSyn ==
    /\ Idle("main", "syn")
    /\ IF self.ok
       THEN send_command_to_ble_device(self.dev, SYN) /\ Goes("main", At("ack", "idle", self.dev)) /\ UNCHANGED i
       ELSE Goes("main", At("next", "idle", NULL)) /\ i' = i + 1 /\ UNCHANGED tx
    /\ UNCHANGED <<ble_devices, found, ip, rx, link, faults, manager, history>>

LeaveDevice == Goes("main", Disconn(self, "next")) /\ i' = i + 1

ReadAck ==
    /\ Idle("main", "ack")
    /\ \/ /\ rx # <<>> /\ rx' = Tail(rx) /\ UNCHANGED faults
          /\ IF Head(rx).unit = "answer" /\ Head(rx).cmd = SYN
             THEN Goes("main", Disconn(self, "register")) /\ UNCHANGED i
             ELSE LeaveDevice
       \/ Timeout /\ LeaveDevice /\ UNCHANGED rx
    /\ UNCHANGED <<ble_devices, found, ip, tx, link, manager, history>>

\* A new entry, an address from ask_a_IoTIP, and the device is dialed again.  If
\* its new socket does not connect there is no address, and all goes on without.
Enter ==
    /\ Idle("main", "register")
    /\ \/ ip' = ip_count /\ ip_count' = ip_count + 1 /\ UNCHANGED faults
       \/ ip' = NULL /\ Fault /\ UNCHANGED ip_count
    /\ ble_devices' = Updated(Added(self.dev), self.dev, ip')
    /\ Goes("main", Conn(self, self.dev, "send"))
    /\ UNCHANGED <<found, i, tx, rx, link, calls, registered, history>>

\* The result of conn_ble_device is not looked at.
SendDes ==
    /\ Idle("main", "send") /\ send_command_to_ble_device(self.dev, DES)
    /\ Goes("main", At("answer", "idle", self.dev))
    /\ UNCHANGED <<ble_devices, found, i, ip, rx, link, faults, manager, history>>

\* Only all the units of one description have the right checksum at their end.
check_sum(buf) ==
    /\ \A k \in 1 .. Len(buf) : buf[k].unit = "answer" /\ buf[k].cmd = DES /\ buf[k].from = Head(buf).from
    /\ Len(buf) = 1 \/ (Len(buf) = 2 /\ Head(buf).part = "first")

\* Mutant: one try at the description is all.
TryOnce ==
    /\ Answered("main")
    /\ Goes("main", Disconn(self, IF self.phase = "completed" /\ check_sum(self.buf)
                                  THEN "registered" ELSE "next"))
    /\ UNCHANGED <<ble_devices, found, i, ip, tx, rx, link, faults, manager, history>>

\* The description is asked for again until it is good, however often.
TryDescription ==
    /\ Answered("main")
    /\ Goes("main", Disconn(self, IF self.phase = "completed" /\ check_sum(self.buf)
                                  THEN "registered" ELSE "retry"))
    /\ UNCHANGED <<ble_devices, found, i, ip, tx, rx, link, faults, manager, history>>

TryAgain ==
    /\ Idle("main", "retry") /\ Goes("main", Conn(self, self.dev, "send"))
    /\ UNCHANGED <<ble_devices, found, i, ip, tx, rx, link, faults, manager, history>>

Register ==
    /\ Idle("main", "registered")
    /\ registered' = registered \cup {<<ip, Head(self.buf).from>>}
    /\ LeaveDevice
    /\ UNCHANGED <<ble_devices, found, ip, tx, rx, link, faults, calls, ip_count, history>>

----------------------------------------------------------------------------
\* The environment.

ManagerCalls(a) ==
    /\ Len(asked) + Len(calls) < MaxCalls
    /\ calls' = Append(calls, a)
    /\ UNCHANGED <<broker, tx, rx, link, faults, ip_count, registered, history>>

Says(unit) == rx' = Append(rx, [unit |-> unit])
NoLink == dialing' = NULL /\ linked' = NULL /\ air' = <<>> /\ out' = <<>>

ModemHangsUp(x) ==
    /\ x.op = "AT" /\ NoLink
    /\ \/ Says(IF linked # NULL THEN "OK+LOST" ELSE "OK") /\ UNCHANGED faults
       \/ Fault /\ UNCHANGED rx
ModemDials(x) ==
    /\ x.op = "AT+CON" /\ linked = NULL /\ dialing' = x.dev
    /\ \/ Says("OK+CONNA") /\ UNCHANGED faults
       \/ Fault /\ UNCHANGED rx
    /\ UNCHANGED <<linked, air, out>>
\* Of the devices there are any may be heard; the end of the list may be lost.
ModemLists(x) ==
    /\ x.op = "AT+DISC?" /\ linked = NULL
    /\ \E S \in SUBSET Dev, f \in [1 .. Cardinality(Dev) -> Dev] :
         LET list == [k \in 1 .. Cardinality(S) |-> [unit |-> "DIS0:", dev |-> f[k]]] IN
         /\ {f[k] : k \in 1 .. Cardinality(S)} = S
         /\ \/ rx' = rx \o list \o <<[unit |-> "OK+DISCE"]>> /\ UNCHANGED faults
            \/ rx' = rx \o list /\ Fault
    /\ UNCHANGED link
\* On a connection all but "AT" goes to the device, where only data matters;
\* without one, data means nothing.
ModemForwards(x) ==
    /\ x.op = "data" \/ (linked # NULL /\ x.op # "AT")
    /\ air' = IF x.op = "data" /\ linked # NULL THEN Append(air, x) ELSE air
    /\ UNCHANGED <<rx, dialing, linked, out, faults>>

ModemReads ==
    /\ tx # <<>> /\ tx' = Tail(tx)
    /\ LET x == Head(tx) IN ModemHangsUp(x) \/ ModemDials(x) \/ ModemLists(x) \/ ModemForwards(x)
    /\ UNCHANGED <<broker, manager, history>>

ModemConnects ==
    /\ dialing # NULL /\ dialing' = NULL
    /\ \/ linked' = dialing /\ Says("OK+CONN") /\ UNCHANGED faults
       \/ Fault /\ Says("OK+CONNF") /\ UNCHANGED linked
    /\ UNCHANGED <<broker, tx, air, out, manager, history>>

ConnectionBreaks ==
    /\ linked # NULL /\ Fault /\ NoLink /\ Says("OK+LOST")
    /\ UNCHANGED <<broker, tx, manager, history>>

UnitOf(cmd, part) == [unit |-> "answer", from |-> linked, cmd |-> cmd, part |-> part]
AnswersOf(cmd) ==
    IF cmd = SYN THEN {<<UnitOf(SYN, "none")>>}
    ELSE {<<UnitOf(cmd, "all")>>, <<UnitOf(cmd, "first"), UnitOf(cmd, "last")>>}

DeviceHears ==
    /\ air # <<>> /\ air' = Tail(air)
    /\ LET cmd == Head(air).cmd IN
       IF cmd.kind = "call" /\ cmd.n \notin Reads THEN UNCHANGED <<out, faults>>
       ELSE \/ (\E s \in AnswersOf(cmd) : out' = out \o s) /\ UNCHANGED faults
            \/ Fault /\ UNCHANGED out
    /\ UNCHANGED <<broker, tx, rx, dialing, linked, manager, history>>

RadioDelivers ==
    /\ out # <<>> /\ out' = Tail(out)
    /\ \/ rx' = Append(rx, Head(out)) /\ UNCHANGED faults
       \/ Fault /\ UNCHANGED rx
    /\ UNCHANGED <<broker, tx, dialing, linked, air, manager, history>>

----------------------------------------------------------------------------
Step(t) == Clear(t) \/ Drain(t) \/ Dial(t) \/ ReadConn(t) \/ HangUp(t) \/ ReadLost(t) \/ Collect(t)
Listener == Step("listener") \/ TakeCall \/ SendCall \/ SendAnswer \/ Disconnected
Main == \/ Step("main") \/ Discover \/ ReadList \/ NextDevice \/ SendSyn \/ ReadAck \/ Enter
        \/ SendDes \/ TryDescription \/ TryAgain \/ Register
Modem == ModemReads \/ ModemConnects \/ DeviceHears \/ RadioDelivers
Environment ==
    \/ \E a \in 0 .. Cardinality(Dev) - 1 : ManagerCalls(a)
    \/ Modem \/ ConnectionBreaks

Init == InitScanning \/ InitServing
Next == Listener \/ Main \/ Environment

\* Both threads run on, the manager answers the address requests that reach it,
\* and the modem and the devices do what they do.
Fairness == WF_vars(Listener) /\ WF_vars(Main) /\ WF_vars(Modem)

Spec == Init /\ [][Next]_vars
FairSpec == Spec /\ Fairness

----------------------------------------------------------------------------
\* Types of the broker's state.
TypeOK ==
    /\ ble_devices \in [Slot -> [addr : Dev, ip : Nat \cup {NULL}] \cup {NULL}]
    /\ thread \in [Thread -> ThreadState]
    /\ found \in Seq(Dev) /\ i \in 1 .. Len(found) + 1 /\ ip \in Nat \cup {NULL}
    /\ rx \in Seq(Unit) /\ tx \in Seq(Order \cup Data)

\* When the listener is done with a device the connection is closed: there is
\* one, and the next device could not be reached (disconn_ble_device).  The
\* scan does leave one open: that of a device it gave up while it was dialed.
HungUp ==
    ~ given.scan /\ Idle("listener", "recv") =>
        linked = NULL \/ \E k \in 1 .. Len(tx) : tx[k].op = "AT"

\* No package comes while the scan runs: the threads would take each other's
\* replies.
Alone == given.scan => MaxCalls = 0

\* Each description sent to the manager has the address that stands in the
\* table, or none, with the radio that sent it.
OwnDescription ==
    Alone => \A r \in registered : \E k \in Slot :
        /\ ble_devices[k] # NULL
        /\ ble_devices[k].ip = r[1] /\ ble_devices[k].addr = r[2]

\* A device that acknowledged is described to the manager in the end, however
\* many of its first descriptions are lost (ble_dev_register).
EnteredIsRegistered ==
    \A d \in Dev : is_ble_device_exists(d) ~> \E r \in registered : r[2] = d

\* The end of the list of devices is lost: the loop that waits for it has no
\* timeout, and the main thread stays there (scan_ble_devices).
WaitsForList == Idle("main", "list") /\ ~ UnderWay

\* The scan ends, whatever else is lost or late up to MaxFaults faults, and the
\* listener comes back for the next package.
ThreadsReturn ==
    /\ <>(Idle("main", "done") \/ WaitsForList)
    /\ ~ Idle("listener", "recv") ~> Idle("listener", "recv")

\* Hanging up drops what a late device still says, so the answers are the
\* target's own even where replies and answers are late.  Without a limit of
\* the faults it takes a modem that reads each order before clear_recv_buff
\* ends: if it lags behind for whole commands, the replies to dialing for one
\* are taken for those of the next.
Promise == INSTANCE RequestAnswer WITH late <- FALSE
ImplementsRequestAnswer == Promise!Spec
==============================================================================
