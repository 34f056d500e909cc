------------------------------ MODULE XBeeThreads ------------------------------
(***************************************************************************)
(* The threaded XBee broker.  The reader takes frames from the modem: what *)
(* devices send, and the status of what was sent to them.  The writer      *)
(* takes packages from the manager and sends them to their devices in      *)
(* chunks, the next when the last was acknowledged.  A thread for each     *)
(* registration asks the manager for an address.  All use the table of     *)
(* devices, where the lock protects no more than the flag for the          *)
(* acknowledgement; the writer frees the entry of a device that does not   *)
(* acknowledge in time.                                                    *)
(*                                                                         *)
(* Frames and packages are whole: see XBeeFrame and PackageStream.         *)
(***************************************************************************)
EXTENDS Integers, Sequences, FiniteSets

CONSTANTS
    Dev,             \* the end devices, by their radio address
    MAXDEVICECOUNT,  \* length of xbee_devices
    MaxChunks,       \* bound: chunks of a package, 1 or more
    Conditions,      \* the conditions given may start with: see there
    NULL

ASSUME DevAssumption == IsFiniteSet(Dev)
ASSUME LimitsAssumption == MAXDEVICECOUNT \in Nat \ {0} /\ MaxChunks \in Nat
ASSUME ConditionsAssumption == Conditions \subseteq [timeouts : BOOLEAN, calls : Nat, frames : Nat]

\* No entry of the table, no address and no frame.
ASSUME NullAssumption ==
    NULL \notin Nat \cup [addr : Dev, ip : Nat \cup {NULL}, ready_to_receive : {0, 1}, isAlive : {0, 1}]
                 \cup [api : {"ZB_RX_RESPONSE"}, from : Dev, body : {"register", "other"}]

Slot == 0 .. MAXDEVICECOUNT - 1
DEFAULT_FRAME_ID == 1

VARIABLES
    given,         \* chosen at the start: [timeouts, calls, frames]
    \* the broker
    xbee_devices,  \* slot -> [addr, ip, ready_to_receive, isAlive], or NULL; ip may be NULL
    reader,        \* [pc, index, frame]
    writer,        \* [pc, index, left]
    registering,   \* the registration threads: [n, addr, pc, index, ip]
    \* the modem, and the radio behind it
    rx,            \* frames the modem has written and nobody has read
    statuses,      \* frame id -> statuses the modem still owes
    \* the manager, as the broker sees it
    calls,         \* packages from it and not yet taken: [ip, chunks]
    ip_count,
    \* history
    asked,         \* packages the manager sent so far
    heard,         \* frames the devices sent so far
    told           \* device -> the addresses it was told, in order

threads == <<reader, writer, registering>>
modem == <<rx, statuses>>
manager == <<calls, ip_count>>
history == <<given, asked, heard, told>>
vars == <<xbee_devices, threads, modem, manager, history>>

timeouts == given.timeouts   \* a status may fail, be lost or come too late
MaxCalls == given.calls      \* bound: packages from the manager
MaxFrames == given.frames    \* bound: frames the devices send

Init ==
    /\ given \in Conditions
    /\ xbee_devices = [k \in Slot |-> NULL]
    /\ reader = [pc |-> "read", index |-> 0, frame |-> NULL]
    /\ writer = [pc |-> "recv", index |-> 0, left |-> 0]
    /\ registering = {}
    /\ rx = <<>> /\ statuses = [f \in 1 .. MAXDEVICECOUNT |-> 0]
    /\ calls = <<>> /\ ip_count = 0
    /\ asked = 0 /\ heard = 0 /\ told = [d \in Dev |-> <<>>]

----------------------------------------------------------------------------
\* The table.

First(S) == CHOOSE k \in S : \A j \in S : k <= j
Entries == {k \in Slot : xbee_devices[k] # NULL}
\* -1, or the entry of the device.
find_device_index(addr) ==
    LET S == {k \in Entries : xbee_devices[k].addr = addr} IN IF S = {} THEN -1 ELSE First(S)

\* The loop of add_new_xbee_device ends at the first free slot, or past the last.
FirstFree == IF Entries = Slot THEN MAXDEVICECOUNT ELSE First(Slot \ Entries)

\* An entry whose ip has not been written yet holds whatever malloc found there:
\* any of them may compare equal.
find_xbee_addr_by_iotip(ip, chance) ==
    {k \in Entries : xbee_devices[k].ip = ip \/ (xbee_devices[k].ip = NULL /\ k \in chance)}

Exists(k) == k \in Entries
\* To follow an entry that is not there ends the process.
Crash ==
    /\ reader' = [reader EXCEPT !.pc = "crashed"] /\ writer' = [writer EXCEPT !.pc = "crashed"]
    /\ registering' = {}
    /\ UNCHANGED <<xbee_devices, modem, manager, history>>
crashed == reader.pc = "crashed"
SetReady(k, flag) == xbee_devices' = [xbee_devices EXCEPT ![k].ready_to_receive = flag]

----------------------------------------------------------------------------
\* listen_to_end_device_loop.

ReaderAt(pc, k, f) == reader' = [pc |-> pc, index |-> k, frame |-> f]

\* An RX frame: the device is found, or added.
ReadPackage ==
    /\ reader.pc = "read" /\ rx # <<>> /\ Head(rx).api = "ZB_RX_RESPONSE" /\ rx' = Tail(rx)
    /\ LET f == Head(rx)
           k == find_device_index(f.from)
           new == FirstFree
       IN IF k >= 0
          THEN ReaderAt("package", k, f) /\ UNCHANGED xbee_devices
          ELSE /\ ReaderAt("package", new, f)
               /\ xbee_devices' = IF new \notin Slot THEN xbee_devices
                     ELSE [xbee_devices EXCEPT ![new] =
                             [addr |-> f.from, ip |-> NULL, ready_to_receive |-> 1, isAlive |-> 1]]
    /\ UNCHANGED <<writer, registering, statuses, manager, history>>

\* A thread is numbered, so that two may register one device: the first number free.
Free(n) == \A t \in registering : t.n # n
start_IoT_register(addr) ==
    \E n \in 1 .. MaxFrames :
        /\ Free(n) /\ \A m \in 1 .. n - 1 : ~ Free(m)
        /\ registering' = registering
              \cup {[n |-> n, addr |-> addr, pc |-> "ask", index |-> -1, ip |-> NULL]}

\* Then its data goes to the buffer of that entry, and out of it as a package:
\* a registration gets a thread, all else goes on to the manager.
TakePackage ==
    /\ reader.pc = "package" /\ Exists(reader.index)
    /\ IF reader.frame.body = "register" THEN start_IoT_register(reader.frame.from)
       ELSE UNCHANGED registering
    /\ ReaderAt("read", 0, NULL)
    /\ UNCHANGED <<xbee_devices, writer, modem, manager, history>>

IndexOf(frameId) == frameId - 1

\* A TX status other than SUCCESS is only logged.
ReadStatus ==
    /\ reader.pc = "read" /\ rx # <<>> /\ Head(rx).api = "ZB_TX_STATUS_RESPONSE" /\ rx' = Tail(rx)
    /\ LET k == IndexOf(Head(rx).frameId) IN
       IF Head(rx).ok /\ Exists(k) THEN ReaderAt("status", k, NULL) ELSE UNCHANGED reader
    /\ UNCHANGED <<xbee_devices, writer, registering, statuses, manager, history>>

SetDeviceReady ==
    /\ reader.pc = "status" /\ Exists(reader.index)
    /\ SetReady(reader.index, 1)
    /\ ReaderAt("read", 0, NULL)
    /\ UNCHANGED <<writer, registering, modem, manager, history>>

ReaderCrashes == reader.pc \in {"package", "status"} /\ ~ Exists(reader.index) /\ Crash

----------------------------------------------------------------------------
\* listen_to_manager_loop.

WriterAt(pc) == writer' = [writer EXCEPT !.pc = pc]

\* A package for an address no device has is dropped.
TakeCall(chance) ==
    LET at == find_xbee_addr_by_iotip(Head(calls).ip, chance)
        addr == xbee_devices[First(at)].addr
    IN
    /\ writer.pc = "recv" /\ calls # <<>> /\ calls' = Tail(calls)
    /\ IF at = {} THEN UNCHANGED writer
       ELSE writer' = [pc |-> "chunk", index |-> find_device_index(addr),
                       left |-> Head(calls).chunks]
    /\ UNCHANGED <<xbee_devices, reader, registering, modem, ip_count, history>>

\* wait_device_ready begins by looking at isAlive.  (Where the chunk goes is read
\* from *targetAddress, which lies in the entry, or where it was.)
BeginChunk ==
    /\ writer.pc = "chunk" /\ Exists(writer.index)
    /\ WriterAt(IF xbee_devices[writer.index].isAlive = 0 THEN "remove" ELSE "wait")
    /\ UNCHANGED <<xbee_devices, reader, registering, modem, manager, history>>

\* The flag is looked at under the lock, and cleared under it a moment later.
SeeReady ==
    /\ writer.pc = "wait" /\ xbee_devices[writer.index].ready_to_receive = 1
    /\ WriterAt("clear")
    /\ UNCHANGED <<xbee_devices, reader, registering, modem, manager, history>>

\* Mutant: the flag stays set.
FlagStays ==
    /\ writer.pc = "clear" /\ WriterAt("send")
    /\ UNCHANGED <<xbee_devices, reader, registering, modem, manager, history>>

ClearReady ==
    /\ writer.pc = "clear" /\ SetReady(writer.index, 0) /\ WriterAt("send")
    /\ UNCHANGED <<reader, registering, modem, manager, history>>

\* Mutant: no limit to the wait.
WaitForever == FALSE
\* A status that comes at all comes before ACK_TIMEOUT, unless timeouts says no.
AckTimeout == timeouts

NotReady ==
    /\ writer.pc = "wait" /\ AckTimeout /\ xbee_devices[writer.index].ready_to_receive = 0
    /\ xbee_devices' = [xbee_devices EXCEPT ![writer.index].isAlive = 0]
    /\ WriterAt("remove")
    /\ UNCHANGED <<reader, registering, modem, manager, history>>

NextChunk ==
    writer' = [writer EXCEPT !.left = @ - 1,
                             !.pc = IF writer.left = 1 THEN "recv" ELSE "chunk"]

\* xbee.send, with the entry's frame id.
SendChunk ==
    /\ writer.pc = "send"
    /\ statuses' = [statuses EXCEPT ![writer.index + 1] = @ + 1]
    /\ NextChunk
    /\ UNCHANGED <<xbee_devices, reader, registering, rx, manager, history>>

\* remove_xbee_device tells the manager and frees the entry; the loop goes on
\* with what is left of the package.
RemoveDevice ==
    /\ writer.pc = "remove"
    /\ xbee_devices' = [xbee_devices EXCEPT ![writer.index] = NULL]
    /\ NextChunk
    /\ UNCHANGED <<reader, registering, modem, manager, history>>

WriterCrashes == writer.pc = "chunk" /\ ~ Exists(writer.index) /\ Crash

----------------------------------------------------------------------------
\* xbee_register, a thread each.

Ends(t) == registering' = registering \ {t}
Becomes(t, new) == registering' = (registering \ {t}) \cup {new}

\* A thread whose new socket does not connect returns: the device is told nothing.
AskIp(t) ==
    /\ t.pc = "ask"
    /\ \/ ip_count' = ip_count + 1 /\ Becomes(t, [t EXCEPT !.ip = ip_count, !.pc = "find"])
       \/ Ends(t) /\ UNCHANGED ip_count
    /\ UNCHANGED <<xbee_devices, reader, writer, modem, calls, history>>

\* update_iot_ip finds the entry ...
FindEntry(t) ==
    /\ t.pc = "find"
    /\ LET k == find_device_index(t.addr) IN
       Becomes(t, [t EXCEPT !.index = k, !.pc = IF k >= 0 THEN "write" ELSE "reply"])
    /\ UNCHANGED <<xbee_devices, reader, writer, modem, manager, history>>

\* ... and writes to it.
WriteIp(t) ==
    /\ t.pc = "write" /\ Exists(t.index)
    /\ xbee_devices' = [xbee_devices EXCEPT ![t.index].ip = t.ip, ![t.index].isAlive = 1]
    /\ Becomes(t, [t EXCEPT !.pc = "reply"])
    /\ UNCHANGED <<reader, writer, modem, manager, history>>

\* Mutant: the device is told as soon as the address is known.
ToldFirst(t) == t.pc \in {"find", "write", "reply"}
Updated(t) == t.pc = "reply"

\* The device is told, in a frame whose id nobody set.
Reply(t) ==
    /\ Updated(t)
    /\ statuses' = [statuses EXCEPT ![DEFAULT_FRAME_ID] = @ + 1]
    /\ told' = [told EXCEPT ![t.addr] = Append(@, t.ip)]
    /\ Ends(t)
    /\ UNCHANGED <<xbee_devices, reader, writer, rx, manager, given, asked, heard>>

RegisterCrashes(t) == t.pc = "write" /\ ~ Exists(t.index) /\ Crash

----------------------------------------------------------------------------
\* The environment.

\* A device registers, or sends something else.
DeviceSends(d, body) ==
    /\ heard < MaxFrames /\ heard' = heard + 1
    /\ rx' = Append(rx, [api |-> "ZB_RX_RESPONSE", from |-> d, body |-> body])
    /\ UNCHANGED <<xbee_devices, threads, statuses, manager, given, asked, told>>

ModemReports(f) ==
    /\ statuses[f] > 0 /\ statuses' = [statuses EXCEPT ![f] = @ - 1]
    /\ \/ \E ok \in {TRUE} \cup (IF timeouts THEN {FALSE} ELSE {}) :
             rx' = Append(rx, [api |-> "ZB_TX_STATUS_RESPONSE", frameId |-> f, ok |-> ok])
       \/ timeouts /\ UNCHANGED rx
    /\ UNCHANGED <<xbee_devices, threads, manager, history>>

ManagerCalls(ip, chunks) ==
    /\ asked < MaxCalls /\ asked' = asked + 1
    /\ calls' = Append(calls, [ip |-> ip, chunks |-> chunks])
    /\ UNCHANGED <<xbee_devices, threads, modem, ip_count, given, heard, told>>

----------------------------------------------------------------------------
Reader == ReadPackage \/ TakePackage \/ ReadStatus \/ SetDeviceReady \/ ReaderCrashes
Writer == \/ \E chance \in SUBSET Slot : TakeCall(chance)
          \/ BeginChunk \/ SeeReady \/ ClearReady \/ NotReady \/ SendChunk \/ RemoveDevice \/ WriterCrashes
Registering(t) == AskIp(t) \/ FindEntry(t) \/ WriteIp(t) \/ Reply(t) \/ RegisterCrashes(t)
Environment ==
    \/ \E d \in Dev, body \in {"register", "other"} : DeviceSends(d, body)
    \/ \E f \in 1 .. MAXDEVICECOUNT : ModemReports(f)
    \/ \E ip \in 0 .. ip_count - 1, chunks \in 1 .. MaxChunks : ManagerCalls(ip, chunks)

Next == Reader \/ Writer \/ (\E t \in registering : Registering(t)) \/ Environment

Spec == Init /\ [][Next]_vars

\* The reader and the writer run on, and the modem reports what it owes.
FairSpec == /\ Spec /\ WF_vars(Reader) /\ WF_vars(Writer)
            /\ WF_vars(\E f \in 1 .. MAXDEVICECOUNT : ModemReports(f))

----------------------------------------------------------------------------
\* While no status is late or lost, the next chunk to a device waits for the
\* status of the last: its flag, or the status under way, is one at any time
\* (wait_device_ready).  Not so for the first entry, whose frame id is also that
\* of the replies to registrations.
Underway(k) ==
    statuses[k + 1]
    + Cardinality({m \in 1 .. Len(rx) : rx[m].api = "ZB_TX_STATUS_RESPONSE" /\ rx[m].frameId = k + 1})
    + (IF reader.pc = "status" /\ reader.index = k THEN 1 ELSE 0)
    + (IF writer.pc = "send" /\ writer.index = k THEN 1 ELSE 0)
OneInFlight ==
    ~ timeouts => \A k \in Entries \ {0} : xbee_devices[k].ready_to_receive + Underway(k) = 1

\* A device that was told one address, and is not telling again, can be reached
\* by it, while none is removed (xbee_register).
ToldIsReachable ==
    ~ timeouts => \A d \in Dev : Len(told[d]) = 1 /\ (\A t \in registering : t.addr # d) =>
        \E k \in Entries : xbee_devices[k].addr = d /\ xbee_devices[k].ip = told[d][1]

\* Where no device is removed, no thread follows an entry that is not there; and
\* the writer is done with each package, or has crashed, however many statuses
\* are lost.
ThreadsReturn ==
    /\ [](timeouts \/ ~ crashed)
    /\ writer.pc # "recv" ~> writer.pc \in {"recv", "crashed"}
==============================================================================
