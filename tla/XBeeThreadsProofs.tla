--------------------------- MODULE XBeeThreadsProofs ---------------------------
(***************************************************************************)
(* Proofs about the threaded XBee broker, for any number of devices,       *)
(* packages and frames.  TypeInv holds always.  KeptInv, TellInv and       *)
(* FlightInv hold where every status comes in time and the table has room  *)
(* for all the devices: then no entry is ever removed, so that the threads *)
(* may follow what they found in the table, although none holds the lock.  *)
(***************************************************************************)
EXTENDS XBeeThreads, FiniteSetTheorems, FunctionTheorems, TLAPS

----------------------------------------------------------------------------
\* Types.
Condition == [timeouts : BOOLEAN, calls : Nat, frames : Nat]
Entry == [addr : Dev, ip : Nat \cup {NULL}, ready_to_receive : {0, 1}, isAlive : {0, 1}]
RxFrame == [api : {"ZB_RX_RESPONSE"}, from : Dev, body : {"register", "other"}]
StatusFrame == [api : {"ZB_TX_STATUS_RESPONSE"}, frameId : 1 .. MAXDEVICECOUNT, ok : BOOLEAN]
Thread == [n : Nat, addr : Dev, pc : {"ask", "find", "write", "reply"}, index : Int, ip : Nat \cup {NULL}]
Sending == {"chunk", "wait", "clear", "send", "remove"}

ReaderOK ==
    /\ reader \in [pc : {"read", "package", "status", "crashed"}, index : Int, frame : RxFrame \cup {NULL}]
    /\ reader.pc = "package" => reader.frame \in RxFrame
WriterOK ==
    /\ writer \in [pc : Sending \cup {"recv", "crashed"}, index : Int, left : Nat]
    /\ writer.pc \in Sending => writer.index \in Slot /\ writer.left > 0
    /\ writer.pc \in Sending \ {"chunk"} => Exists(writer.index)
ThreadsOK ==
    /\ registering \subseteq Thread
    /\ \A t \in registering : t.pc # "ask" => t.ip \in Nat
TableOK ==
    /\ given \in Condition
    /\ xbee_devices \in [Slot -> Entry \cup {NULL}]
ModemOK ==
    /\ rx \in Seq(RxFrame \cup StatusFrame)
    /\ statuses \in [1 .. MAXDEVICECOUNT -> Nat]
ManagerOK ==
    /\ calls \in Seq([ip : Nat, chunks : 1 .. MaxChunks]) /\ ip_count \in Nat
    /\ told \in [Dev -> Seq(Nat)]

TypeInv == ReaderOK /\ WriterOK /\ ThreadsOK /\ TableOK /\ ModemOK /\ ManagerOK

----------------------------------------------------------------------------
\* No entry goes, and who has found one may follow it.
Has(k, d) == Exists(k) /\ xbee_devices[k].addr = d
KeptInv ==
    /\ reader.pc # "crashed" /\ writer.pc \notin {"crashed", "remove"}
    /\ \A k \in Entries : xbee_devices[k].isAlive = 1
    /\ \A j, k \in Entries : xbee_devices[j].addr = xbee_devices[k].addr => j = k
    /\ writer.pc \in Sending => Exists(writer.index)
    /\ reader.pc = "package" => Has(reader.index, reader.frame.from)
    /\ reader.pc = "status" => Exists(reader.index)
    /\ \A t \in registering : /\ \E k \in Slot : Has(k, t.addr)
                              /\ t.pc = "write" => Has(t.index, t.addr)

\* The address in a device's entry is one that a thread is about to tell the
\* device, or has told it.
Telling(d) == {t \in registering : t.addr = d /\ t.pc = "reply"}
ToldOf(d) == {told[d][j] : j \in 1 .. Len(told[d])}
TellAt(k) ==
    LET d == xbee_devices[k].addr IN
    IF xbee_devices[k].ip = NULL THEN told[d] = <<>> /\ Telling(d) = {}
    ELSE xbee_devices[k].ip \in {t.ip : t \in Telling(d)} \cup ToldOf(d)
TellInv ==
    /\ \A d \in Dev : told[d] # <<>> => \E k \in Slot : Has(k, d)
    /\ \A k \in Entries : TellAt(k)

\* For each entry but the first, the flag is out or one status is under way:
\* owed by the modem, in rx, in the reader's hands or about to be asked for.
IsStatus(f, k) == f.api = "ZB_TX_STATUS_RESPONSE" /\ f.frameId = k + 1
StatusesIn(q, k) == {m \in 1 .. Len(q) : IsStatus(q[m], k)}
OnWay(k) == Cardinality(StatusesIn(rx, k))
AtReader(k) == IF reader.pc = "status" /\ reader.index = k THEN 1 ELSE 0
AtWriter(k) == IF writer.pc = "send" /\ writer.index = k THEN 1 ELSE 0
Cleared(k) == IF Exists(k) THEN 1 - xbee_devices[k].ready_to_receive ELSE 0
Balanced(k) == statuses[k + 1] + OnWay(k) + AtReader(k) + AtWriter(k) = Cleared(k)
FlightInv ==
    /\ \A m \in 1 .. Len(rx) : rx[m].api = "ZB_TX_STATUS_RESPONSE" => rx[m].ok
    /\ writer.pc = "clear" => xbee_devices[writer.index].ready_to_receive = 1
    /\ \A k \in Slot \ {0} : Balanced(k)

----------------------------------------------------------------------------
\* Sequences, and the table.

LEMMA Shorter ==
    ASSUME NEW S, NEW q \in Seq(S), q # <<>>
    PROVE  /\ Tail(q) \in Seq(S) /\ Head(q) \in S /\ Head(q) = q[1] /\ 1 \in 1 .. Len(q)
           /\ Len(q) \in Nat \ {0} /\ Len(Tail(q)) = Len(q) - 1
           /\ \A k \in 1 .. Len(Tail(q)) : k + 1 \in 1 .. Len(q) /\ Tail(q)[k] = q[k + 1]
OBVIOUS

LEMMA Longer ==
    ASSUME NEW S, NEW q \in Seq(S), NEW e \in S
    PROVE  /\ Append(q, e) \in Seq(S) /\ Len(q) \in Nat /\ Len(Append(q, e)) = Len(q) + 1
           /\ \A k \in 1 .. Len(q) : Append(q, e)[k] = q[k]
           /\ Append(q, e)[Len(q) + 1] = e /\ Append(q, e) # <<>>
OBVIOUS

LEMMA Frames ==
    /\ \A f \in RxFrame : /\ f.api = "ZB_RX_RESPONSE" /\ f.from \in Dev /\ f # NULL
                          /\ \A k : ~ IsStatus(f, k)
    /\ \A f \in StatusFrame : f.api = "ZB_TX_STATUS_RESPONSE" /\ f.frameId \in 1 .. MAXDEVICECOUNT
    /\ \A f \in RxFrame \cup StatusFrame : /\ f.api = "ZB_RX_RESPONSE" => f \in RxFrame
                                           /\ f.api = "ZB_TX_STATUS_RESPONSE" => f \in StatusFrame
BY NullAssumption DEF RxFrame, StatusFrame, IsStatus

LEMMA EntryIsEntry ==
    \A e \in Entry : /\ e # NULL /\ e.addr \in Dev /\ e.ip \in Nat \cup {NULL}
                     /\ e.ready_to_receive \in {0, 1} /\ e.isAlive \in {0, 1}
BY NullAssumption DEF Entry

\* A set of slots has a least element.
LEMMA FirstIn ==
    ASSUME NEW S \in SUBSET Slot, S # {}
    PROVE  First(S) \in S
<1> DEFINE Less == {p \in Nat \X Nat : p[1] < p[2]}
<1>1. OpToRel(<, Nat) = Less
  BY Zenon DEF OpToRel
<1>2. S \subseteq Nat
  BY LimitsAssumption DEF Slot
<1>3. \E k \in S : \A j \in S : ~ (<<j, k>> \in Less)
  <2> HIDE DEF Less
  <2> QED BY <1>1, <1>2, NatLessThanWellFounded, WFMin, Zenon
<1>4. \E k \in S : \A j \in S : k <= j
  <2>1. \A j, k \in Nat : j < k => <<j, k>> \in Less
    OBVIOUS
  <2> HIDE DEF Less
  <2>2. PICK k \in S : \A j \in S : ~ (<<j, k>> \in Less)
    BY <1>3
  <2>3. \A j \in S : ~ (j < k)
    BY <1>2, <2>1, <2>2
  <2> QED BY <1>2, <2>2, <2>3
<1> QED BY <1>4 DEF First

LEMMA EntryOf == ASSUME TypeInv, NEW k, Exists(k) PROVE k \in Slot /\ xbee_devices[k] \in Entry
BY DEF TypeInv, TableOK, Exists, Entries

\* An entry is written or added.
LEMMA TableSet ==
    ASSUME TypeInv, NEW k \in Slot, NEW e \in Entry, xbee_devices' = [xbee_devices EXCEPT ![k] = e]
    PROVE  /\ xbee_devices' \in [Slot -> Entry \cup {NULL}]
           /\ \A j \in Slot : xbee_devices'[j] = IF j = k THEN e ELSE xbee_devices[j]
           /\ Entries' = Entries \cup {k}
<1>1. /\ xbee_devices' \in [Slot -> Entry \cup {NULL}]
      /\ \A j \in Slot : xbee_devices'[j] = IF j = k THEN e ELSE xbee_devices[j]
  BY DEF TypeInv, TableOK
<1> QED BY <1>1, EntryIsEntry DEF Entries

LEMMA ReadySet ==
    ASSUME TypeInv, NEW k, Exists(k), NEW flag \in {0, 1}, SetReady(k, flag)
    PROVE  /\ xbee_devices' \in [Slot -> Entry \cup {NULL}] /\ Entries' = Entries
           /\ \A j \in Entries : j # k => xbee_devices'[j] = xbee_devices[j]
           /\ xbee_devices'[k].addr = xbee_devices[k].addr /\ xbee_devices'[k].ip = xbee_devices[k].ip
           /\ xbee_devices'[k].isAlive = xbee_devices[k].isAlive
           /\ xbee_devices'[k].ready_to_receive = flag
<1> DEFINE e == [xbee_devices[k] EXCEPT !.ready_to_receive = flag]
<1>1. k \in Slot /\ xbee_devices[k] \in Entry /\ k \in Entries
  BY EntryOf DEF Exists
<1>2. /\ e \in Entry /\ e.addr = xbee_devices[k].addr /\ e.ip = xbee_devices[k].ip
      /\ e.isAlive = xbee_devices[k].isAlive /\ e.ready_to_receive = flag
  BY <1>1 DEF Entry
<1>3. xbee_devices' = [xbee_devices EXCEPT ![k] = e]
  BY DEF SetReady
<1> HIDE DEF e
<1>4. /\ xbee_devices' \in [Slot -> Entry \cup {NULL}] /\ Entries' = Entries \cup {k}
      /\ \A j \in Slot : xbee_devices'[j] = IF j = k THEN e ELSE xbee_devices[j]
  BY <1>1, <1>2, <1>3, TableSet
<1> QED BY <1>1, <1>2, <1>4 DEF Entries

\* What the reader looks up: the entry of the device, or a free one, or neither.
LEMMA FindIndex ==
    ASSUME TypeInv, NEW d
    PROVE  /\ find_device_index(d) \in Slot \cup {-1}
           /\ find_device_index(d) >= 0 <=> find_device_index(d) \in Slot
           /\ find_device_index(d) \in Slot => Has(find_device_index(d), d)
           /\ find_device_index(d) \notin Slot => \A k \in Slot : ~ Has(k, d)
<1> DEFINE S == {k \in Entries : xbee_devices[k].addr = d}
<1>1. S \in SUBSET Slot /\ \A k \in Slot : k \in S <=> Has(k, d)
  BY DEF Entries, Exists, Has
<1>2. find_device_index(d) = IF S = {} THEN -1 ELSE First(S)
  BY DEF find_device_index
<1>3. -1 \notin Slot /\ \A k \in Slot : k >= 0
  BY DEF Slot
<1> HIDE DEF S
<1>4. CASE S = {}
  BY <1>1, <1>2, <1>3, <1>4
<1>5. CASE S # {}
  <2>1. First(S) \in S
    BY <1>1, <1>5, FirstIn
  <2> QED BY <1>1, <1>2, <1>3, <1>5, <2>1
<1> QED BY <1>4, <1>5

LEMMA FreeSlot ==
    /\ FirstFree \in Slot <=> Entries # Slot
    /\ FirstFree \in Slot => ~ Exists(FirstFree)
    /\ FirstFree \in Int
<1>1. Entries \subseteq Slot /\ Slot \ Entries \in SUBSET Slot
  BY DEF Entries
<1>2. MAXDEVICECOUNT \notin Slot /\ MAXDEVICECOUNT \in Int /\ Slot \subseteq Int
  BY LimitsAssumption DEF Slot
<1>3. CASE Entries = Slot
  BY <1>2, <1>3 DEF FirstFree
<1>4. CASE Entries # Slot
  <2>1. First(Slot \ Entries) \in Slot \ Entries
    BY <1>1, <1>4, FirstIn
  <2> QED BY <1>2, <1>4, <2>1 DEF FirstFree, Exists
<1> QED BY <1>3, <1>4

LEMMA TypeInit == Init => TypeInv
<1> SUFFICES ASSUME Init PROVE TypeInv
  OBVIOUS
<1>1. ReaderOK
  BY DEF Init, ReaderOK
<1>2. WriterOK
  BY DEF Init, WriterOK, Sending
<1>3. ThreadsOK /\ TableOK
  BY ConditionsAssumption DEF Init, ThreadsOK, TableOK, Condition
<1>4. ModemOK /\ ManagerOK
  <2>1. \A S : <<>> \in Seq(S)
    OBVIOUS
  <2> QED BY <2>1 DEF Init, ModemOK, ManagerOK
<1> QED BY <1>1, <1>2, <1>3, <1>4 DEF TypeInv

\* A thread follows an entry that is not there.
LEMMA TypeCrash == TypeInv /\ Crash => TypeInv'
<1> SUFFICES ASSUME TypeInv, Crash PROVE TypeInv'
  OBVIOUS
<1>1. /\ reader' = [reader EXCEPT !.pc = "crashed"] /\ writer' = [writer EXCEPT !.pc = "crashed"]
      /\ registering' = {} /\ UNCHANGED <<xbee_devices, modem, manager, history>>
  BY DEF Crash
<1>2. ReaderOK' /\ WriterOK' /\ ThreadsOK'
  BY <1>1 DEF TypeInv, ReaderOK, WriterOK, ThreadsOK, Sending
<1> QED BY <1>1, <1>2 DEF TypeInv, TableOK, ModemOK, ManagerOK, modem, manager, history

\* The reader's steps.
\* A thread that starts is for the device of the frame.
LEMMA ThreadStarts ==
    ASSUME ReaderOK, TakePackage
    PROVE  \/ registering' = registering
           \/ \E t \in Thread : /\ t.addr = reader.frame.from /\ t.pc = "ask"
                                /\ registering' = registering \cup {t}
<1>1. CASE ~ start_IoT_register(reader.frame.from)
  BY <1>1 DEF TakePackage
<1>2. CASE start_IoT_register(reader.frame.from)
  <2>1. PICK n \in 1 .. MaxFrames :
          registering' = registering
              \cup {[n |-> n, addr |-> reader.frame.from, pc |-> "ask", index |-> -1, ip |-> NULL]}
    BY <1>2 DEF start_IoT_register
  <2>2. PICK t : t = [n |-> n, addr |-> reader.frame.from, pc |-> "ask", index |-> -1, ip |-> NULL]
    OBVIOUS
  <2>3. reader.frame.from \in Dev
    BY Frames DEF TakePackage, ReaderOK
  <2>4. n \in Nat
    BY <2>1
  <2>5. t \in Thread /\ t.addr = reader.frame.from /\ t.pc = "ask"
    BY <2>2, <2>3, <2>4 DEF Thread
  <2> QED BY <2>1, <2>2, <2>5
<1> QED BY <1>1, <1>2

LEMMA TypeReader == TypeInv /\ Reader => TypeInv'
<1> SUFFICES ASSUME TypeInv, Reader PROVE TypeInv'
  OBVIOUS
<1> USE DEF threads, modem, manager, history
<1>0. /\ ReaderOK /\ WriterOK /\ ThreadsOK /\ TableOK /\ ModemOK /\ ManagerOK
      /\ rx \in Seq(RxFrame \cup StatusFrame)
  BY DEF TypeInv, ModemOK
<1>1. ASSUME NEW pc \in {"read", "package", "status"}, NEW k \in Int, NEW f \in RxFrame \cup {NULL},
             pc = "package" => f \in RxFrame, ReaderAt(pc, k, f)
      PROVE  ReaderOK'
  BY <1>1 DEF ReaderOK, ReaderAt
<1>2. ASSUME ReadPackage PROVE TypeInv'
  <2> DEFINE k == find_device_index(Head(rx).from)
  <2>1. PICK f : f = Head(rx)
    OBVIOUS
  <2>2. /\ rx # <<>> /\ f.api = "ZB_RX_RESPONSE" /\ rx' = Tail(rx)
        /\ UNCHANGED <<writer, registering, statuses, manager, history>>
    BY <1>2, <2>1 DEF ReadPackage
  <2>3. f \in RxFrame /\ f.from \in Dev /\ rx' \in Seq(RxFrame \cup StatusFrame)
    BY <1>0, <2>1, <2>2, Shorter, Frames
  <2>4. CASE k >= 0
    <3>1. k \in Slot
      BY <2>4, FindIndex
    <3>2. ReaderAt("package", k, f) /\ UNCHANGED xbee_devices
      BY <1>2, <2>1, <2>4 DEF ReadPackage
    <3>3. k \in Int
      BY <3>1 DEF Slot
    <3> HIDE DEF k
    <3>4. ReaderOK'
      BY <1>1, <2>3, <3>2, <3>3
    <3> QED BY <1>0, <2>2, <2>3, <3>2, <3>4
            DEF TypeInv, WriterOK, ThreadsOK, TableOK, ModemOK, ManagerOK, Exists, Entries
  <2>5. CASE ~ (k >= 0)
    <3> DEFINE e == [addr |-> f.from, ip |-> NULL, ready_to_receive |-> 1, isAlive |-> 1]
    <3>1. /\ ReaderAt("package", FirstFree, f)
          /\ \/ FirstFree \notin Slot /\ UNCHANGED xbee_devices
             \/ FirstFree \in Slot /\ xbee_devices' = [xbee_devices EXCEPT ![FirstFree] = e]
      BY <1>2, <2>1, <2>5 DEF ReadPackage
    <3>2. FirstFree \in Int /\ e \in Entry
      BY <2>3, FreeSlot DEF Entry
    <3>3. ReaderOK'
      BY <1>1, <2>3, <3>1, <3>2
    <3> HIDE DEF e
    <3>4. xbee_devices' \in [Slot -> Entry \cup {NULL}] /\ Entries \subseteq Entries'
      <4>1. CASE UNCHANGED xbee_devices
        BY <1>0, <4>1 DEF TableOK, Entries
      <4>2. CASE FirstFree \in Slot /\ xbee_devices' = [xbee_devices EXCEPT ![FirstFree] = e]
        BY <3>2, <4>2, TableSet
      <4> QED BY <3>1, <4>1, <4>2
    <3>5. WriterOK'
      BY <1>0, <2>2, <3>4 DEF WriterOK, Exists
    <3> QED BY <1>0, <2>2, <2>3, <3>3, <3>4, <3>5
            DEF TypeInv, ThreadsOK, TableOK, ModemOK, ManagerOK
  <2> QED BY <2>4, <2>5
<1>3. ASSUME TakePackage PROVE TypeInv'
  <2>1. /\ reader.pc = "package" /\ ReaderAt("read", 0, NULL)
        /\ UNCHANGED <<xbee_devices, writer, modem, manager, history>>
    BY <1>3 DEF TakePackage
  <2>2. \/ registering' = registering
        \/ \E t \in Thread : t.pc = "ask" /\ registering' = registering \cup {t}
    BY <1>0, <1>3, ThreadStarts
  <2>3. ThreadsOK'
    BY <1>0, <2>2 DEF ThreadsOK
  <2>4. ReaderOK'
    BY <1>1, <2>1
  <2> QED BY <1>0, <2>1, <2>3, <2>4 DEF TypeInv, WriterOK, TableOK, ModemOK, ManagerOK, Exists, Entries
<1>4. ASSUME ReadStatus PROVE TypeInv'
  <2> DEFINE k == IndexOf(Head(rx).frameId)
  <2>1. /\ rx # <<>> /\ rx' = Tail(rx)
        /\ ReaderAt("status", k, NULL) \/ UNCHANGED reader
        /\ Head(rx).api = "ZB_TX_STATUS_RESPONSE"
        /\ UNCHANGED <<xbee_devices, writer, registering, statuses, manager, history>>
    BY <1>4 DEF ReadStatus
  <2>2. Head(rx) \in StatusFrame /\ rx' \in Seq(RxFrame \cup StatusFrame)
    BY <1>0, <2>1, Shorter, Frames
  <2>3. k \in Int
    BY <2>2, LimitsAssumption, Frames DEF IndexOf
  <2> HIDE DEF k
  <2>4. ReaderOK'
    BY <1>0, <1>1, <2>1, <2>3 DEF ReaderOK
  <2> QED BY <1>0, <2>1, <2>2, <2>4
          DEF TypeInv, WriterOK, ThreadsOK, TableOK, ModemOK, ManagerOK, Exists, Entries
<1>5. ASSUME SetDeviceReady PROVE TypeInv'
  <2>1. /\ reader.pc = "status" /\ Exists(reader.index) /\ SetReady(reader.index, 1)
        /\ ReaderAt("read", 0, NULL) /\ UNCHANGED <<writer, registering, modem, manager, history>>
    BY <1>5 DEF SetDeviceReady
  <2>2. xbee_devices' \in [Slot -> Entry \cup {NULL}] /\ Entries' = Entries
    BY <2>1, ReadySet
  <2>3. ReaderOK'
    BY <1>1, <2>1
  <2> QED BY <1>0, <2>1, <2>2, <2>3 DEF TypeInv, WriterOK, ThreadsOK, TableOK, ModemOK, ManagerOK, Exists
<1> QED BY <1>2, <1>3, <1>4, <1>5, TypeCrash DEF Reader, ReaderCrashes

\* One status more is owed.
LEMMA Owed ==
    ASSUME TypeInv, NEW f \in 1 .. MAXDEVICECOUNT, statuses' = [statuses EXCEPT ![f] = @ + 1]
    PROVE  /\ statuses' \in [1 .. MAXDEVICECOUNT -> Nat]
           /\ \A g \in 1 .. MAXDEVICECOUNT : statuses'[g] = IF g = f THEN statuses[f] + 1 ELSE statuses[g]
<1>1. statuses \in [1 .. MAXDEVICECOUNT -> Nat] /\ statuses[f] + 1 \in Nat
  BY DEF TypeInv, ModemOK
<1> QED BY <1>1

LEMMA FrameIds == /\ DEFAULT_FRAME_ID \in 1 .. MAXDEVICECOUNT
                  /\ \A k \in Slot : k + 1 \in 1 .. MAXDEVICECOUNT
BY LimitsAssumption DEF DEFAULT_FRAME_ID, Slot

\* The writer's steps.
LEMMA WriterFields ==
    ASSUME TypeInv, NEW pc \in Sending \cup {"recv"}, WriterAt(pc), pc \in Sending => writer.pc \in Sending
    PROVE  /\ writer' \in [pc : Sending \cup {"recv", "crashed"}, index : Int, left : Nat]
           /\ writer'.pc = pc /\ writer'.index = writer.index /\ writer'.left = writer.left
           /\ writer'.pc \in Sending => writer'.index \in Slot /\ writer'.left > 0
<1>1. /\ writer \in [pc : Sending \cup {"recv", "crashed"}, index : Int, left : Nat]
      /\ writer' = [writer EXCEPT !.pc = pc]
  BY DEF TypeInv, WriterOK, WriterAt
<1>2. /\ writer' \in [pc : Sending \cup {"recv", "crashed"}, index : Int, left : Nat]
      /\ writer'.pc = pc /\ writer'.index = writer.index /\ writer'.left = writer.left
  BY <1>1
<1> QED BY <1>2 DEF TypeInv, WriterOK

LEMMA NextFields ==
    ASSUME TypeInv, writer.pc \in Sending, NextChunk
    PROVE  /\ writer' \in [pc : Sending \cup {"recv", "crashed"}, index : Int, left : Nat]
           /\ writer'.pc \in {"recv", "chunk"} /\ writer'.index = writer.index
           /\ writer'.pc \in Sending => writer'.index \in Slot /\ writer'.left > 0
<1>1. /\ writer \in [pc : Sending \cup {"recv", "crashed"}, index : Int, left : Nat]
      /\ writer.left > 0 /\ writer.index \in Slot
      /\ writer' = [writer EXCEPT !.left = writer.left - 1, !.pc = IF writer.left = 1 THEN "recv" ELSE "chunk"]
  BY DEF TypeInv, WriterOK, NextChunk
<1>2. writer.left - 1 \in Nat /\ (writer.left # 1 => writer.left - 1 > 0)
  BY <1>1
<1>3. "chunk" \in Sending /\ "recv" \notin Sending
  BY DEF Sending
<1>4. /\ writer' \in [pc : Sending \cup {"recv", "crashed"}, index : Int, left : Nat]
      /\ writer'.pc = (IF writer.left = 1 THEN "recv" ELSE "chunk") /\ writer'.index = writer.index
      /\ writer'.left = writer.left - 1
  BY <1>1, <1>2, <1>3
<1> QED BY <1>1, <1>2, <1>3, <1>4

LEMMA TypeWriter == TypeInv /\ Writer => TypeInv'
<1> SUFFICES ASSUME TypeInv, Writer PROVE TypeInv'
  OBVIOUS
<1> USE DEF threads, modem, manager, history
<1>0. /\ ReaderOK /\ WriterOK /\ ThreadsOK /\ TableOK /\ ModemOK /\ ManagerOK
      /\ writer \in [pc : Sending \cup {"recv", "crashed"}, index : Int, left : Nat]
  BY DEF TypeInv, WriterOK
<1>1. ASSUME NEW chance \in SUBSET Slot, TakeCall(chance) PROVE TypeInv'
  <2> DEFINE at == find_xbee_addr_by_iotip(Head(calls).ip, chance)
             k == find_device_index(xbee_devices[First(at)].addr)
  <2>1. /\ writer.pc = "recv" /\ calls # <<>> /\ calls' = Tail(calls)
        /\ \/ at = {} /\ UNCHANGED writer
           \/ at # {} /\ writer' = [pc |-> "chunk", index |-> k, left |-> Head(calls).chunks]
        /\ UNCHANGED <<xbee_devices, reader, registering, modem, ip_count, history>>
    BY <1>1 DEF TakeCall
  <2>2. /\ calls' \in Seq([ip : Nat, chunks : 1 .. MaxChunks])
        /\ Head(calls) \in [ip : Nat, chunks : 1 .. MaxChunks]
    BY <1>0, <2>1, Shorter DEF ManagerOK
  <2>3. Head(calls).chunks \in Nat /\ Head(calls).chunks > 0
    BY <2>2, LimitsAssumption
  <2>4. at # {} => k \in Slot
    <3>1. at \in SUBSET Slot /\ \A j \in at : j \in Entries
      BY DEF find_xbee_addr_by_iotip, Entries
    <3> HIDE DEF at
    <3>2. at # {} => First(at) \in Slot /\ Exists(First(at))
      BY <3>1, FirstIn DEF Exists
    <3>3. at # {} => Has(First(at), xbee_devices[First(at)].addr)
      BY <3>2 DEF Has
    <3> QED BY <3>2, <3>3, FindIndex
  <2>5. Slot \subseteq Int /\ "chunk" \in Sending
    BY DEF Slot, Sending
  <2> HIDE DEF at, k
  <2>6. WriterOK'
    <3>1. CASE UNCHANGED writer
      BY <1>0, <2>1, <3>1 DEF WriterOK, Exists, Entries
    <3>2. CASE at # {} /\ writer' = [pc |-> "chunk", index |-> k, left |-> Head(calls).chunks]
      BY <2>3, <2>4, <2>5, <3>2 DEF WriterOK
    <3> QED BY <2>1, <3>1, <3>2
  <2> QED BY <1>0, <2>1, <2>2, <2>6 DEF TypeInv, ReaderOK, ThreadsOK, TableOK, ModemOK, ManagerOK
<1>2. CASE BeginChunk
  <2>1. /\ writer.pc = "chunk" /\ Exists(writer.index)
        /\ WriterAt("remove") \/ WriterAt("wait")
        /\ UNCHANGED <<xbee_devices, reader, registering, modem, manager, history>>
    BY <1>2 DEF BeginChunk
  <2>2. WriterOK'
    BY <2>1, WriterFields DEF WriterOK, Sending, Exists, Entries
  <2> QED BY <1>0, <2>1, <2>2 DEF TypeInv, ReaderOK, ThreadsOK, TableOK, ModemOK, ManagerOK
<1>3. CASE SeeReady
  <2>1. /\ writer.pc = "wait" /\ WriterAt("clear")
        /\ UNCHANGED <<xbee_devices, reader, registering, modem, manager, history>>
    BY <1>3 DEF SeeReady
  <2>2. Exists(writer.index)
    BY <1>0, <2>1 DEF WriterOK, Sending
  <2>3. WriterOK'
    BY <2>1, <2>2, WriterFields DEF WriterOK, Sending, Exists, Entries
  <2> QED BY <1>0, <2>1, <2>3 DEF TypeInv, ReaderOK, ThreadsOK, TableOK, ModemOK, ManagerOK
<1>4. CASE ClearReady
  <2>1. /\ writer.pc = "clear" /\ SetReady(writer.index, 0) /\ WriterAt("send")
        /\ UNCHANGED <<reader, registering, modem, manager, history>>
    BY <1>4 DEF ClearReady
  <2>2. Exists(writer.index)
    BY <1>0, <2>1 DEF WriterOK, Sending
  <2>3. xbee_devices' \in [Slot -> Entry \cup {NULL}] /\ Entries' = Entries
    BY <2>1, <2>2, ReadySet
  <2>4. WriterOK'
    BY <2>1, <2>2, <2>3, WriterFields DEF WriterOK, Sending, Exists
  <2> QED BY <1>0, <2>1, <2>3, <2>4 DEF TypeInv, ReaderOK, ThreadsOK, TableOK, ModemOK, ManagerOK
<1>5. CASE NotReady
  <2>1. /\ writer.pc = "wait" /\ xbee_devices' = [xbee_devices EXCEPT ![writer.index].isAlive = 0]
        /\ WriterAt("remove") /\ UNCHANGED <<reader, registering, modem, manager, history>>
    BY <1>5 DEF NotReady
  <2>2. Exists(writer.index)
    BY <1>0, <2>1 DEF WriterOK, Sending
  <2>3. xbee_devices' \in [Slot -> Entry \cup {NULL}] /\ Entries' = Entries
    <3> DEFINE e == [xbee_devices[writer.index] EXCEPT !.isAlive = 0]
    <3>1. writer.index \in Slot /\ xbee_devices[writer.index] \in Entry
      BY <2>2, EntryOf
    <3>2. e \in Entry
      BY <3>1 DEF Entry
    <3>3. xbee_devices' = [xbee_devices EXCEPT ![writer.index] = e]
      BY <2>1
    <3> HIDE DEF e
    <3>4. xbee_devices' \in [Slot -> Entry \cup {NULL}] /\ Entries' = Entries \cup {writer.index}
      BY <3>1, <3>2, <3>3, TableSet
    <3> QED BY <2>2, <3>4 DEF Exists
  <2>4. WriterOK'
    BY <2>1, <2>2, <2>3, WriterFields DEF WriterOK, Sending, Exists
  <2> QED BY <1>0, <2>1, <2>3, <2>4 DEF TypeInv, ReaderOK, ThreadsOK, TableOK, ModemOK, ManagerOK
<1>6. CASE SendChunk
  <2>1. /\ writer.pc = "send" /\ statuses' = [statuses EXCEPT ![writer.index + 1] = @ + 1] /\ NextChunk
        /\ UNCHANGED <<xbee_devices, reader, registering, rx, manager, history>>
    BY <1>6 DEF SendChunk
  <2>2. statuses' \in [1 .. MAXDEVICECOUNT -> Nat]
    BY <1>0, <2>1, FrameIds, Owed DEF WriterOK, Sending
  <2>3. WriterOK'
    BY <2>1, NextFields DEF WriterOK, Sending
  <2> QED BY <1>0, <2>1, <2>2, <2>3 DEF TypeInv, ReaderOK, ThreadsOK, TableOK, ModemOK, ManagerOK
<1>7. CASE RemoveDevice
  <2>1. /\ writer.pc = "remove" /\ xbee_devices' = [xbee_devices EXCEPT ![writer.index] = NULL] /\ NextChunk
        /\ UNCHANGED <<reader, registering, modem, manager, history>>
    BY <1>7 DEF RemoveDevice
  <2>2. TableOK'
    BY <1>0, <2>1 DEF TableOK
  <2>3. WriterOK'
    BY <2>1, NextFields DEF WriterOK, Sending
  <2> QED BY <1>0, <2>1, <2>2, <2>3 DEF TypeInv, ReaderOK, ThreadsOK, ModemOK, ManagerOK
<1> QED BY <1>1, <1>2, <1>3, <1>4, <1>5, <1>6, <1>7, TypeCrash DEF Writer, WriterCrashes

\* The registrations' steps, and the environment's.
LEMMA IpWritten ==
    ASSUME TypeInv, NEW t \in registering, WriteIp(t)
    PROVE  /\ xbee_devices' \in [Slot -> Entry \cup {NULL}] /\ Entries' = Entries /\ Exists(t.index)
           /\ \A j \in Entries : j # t.index => xbee_devices'[j] = xbee_devices[j]
           /\ xbee_devices'[t.index].addr = xbee_devices[t.index].addr
           /\ xbee_devices'[t.index].ip = t.ip /\ xbee_devices'[t.index].isAlive = 1
           /\ xbee_devices'[t.index].ready_to_receive = xbee_devices[t.index].ready_to_receive
<1> DEFINE e == [xbee_devices[t.index] EXCEPT !.ip = t.ip, !.isAlive = 1]
<1>1. /\ t.pc = "write" /\ Exists(t.index)
      /\ xbee_devices' = [xbee_devices EXCEPT ![t.index].ip = t.ip, ![t.index].isAlive = 1]
  BY DEF WriteIp
<1>2. t.index \in Slot /\ xbee_devices[t.index] \in Entry /\ t.ip \in Nat
  BY <1>1, EntryOf DEF TypeInv, ThreadsOK
<1>3. /\ e \in Entry /\ e.addr = xbee_devices[t.index].addr /\ e.ip = t.ip /\ e.isAlive = 1
      /\ e.ready_to_receive = xbee_devices[t.index].ready_to_receive
  BY <1>2 DEF Entry
<1>4. xbee_devices' = [xbee_devices EXCEPT ![t.index] = e]
  BY <1>1, <1>2 DEF TypeInv, TableOK, Entry
<1> HIDE DEF e
<1>5. /\ xbee_devices' \in [Slot -> Entry \cup {NULL}] /\ Entries' = Entries \cup {t.index}
      /\ \A j \in Slot : xbee_devices'[j] = IF j = t.index THEN e ELSE xbee_devices[j]
  BY <1>2, <1>3, <1>4, TableSet
<1> QED BY <1>1, <1>2, <1>3, <1>5 DEF Entries, Exists

LEMMA TypeRegistering == TypeInv /\ (\E t \in registering : Registering(t)) => TypeInv'
<1> SUFFICES ASSUME TypeInv, NEW t \in registering, Registering(t) PROVE TypeInv'
  OBVIOUS
<1> USE DEF threads, modem, manager, history
<1>0. /\ ReaderOK /\ WriterOK /\ ThreadsOK /\ TableOK /\ ModemOK /\ ManagerOK
      /\ t \in Thread /\ (t.pc # "ask" => t.ip \in Nat)
  BY DEF TypeInv, ThreadsOK
<1>1. ASSUME NEW u \in Thread, u.pc # "ask" => u.ip \in Nat, Becomes(t, u) PROVE ThreadsOK'
  BY <1>0, <1>1 DEF Becomes, ThreadsOK
<1>2. CASE AskIp(t)
  <2>1. /\ \/ ip_count' = ip_count + 1 /\ Becomes(t, [t EXCEPT !.ip = ip_count, !.pc = "find"])
           \/ registering' = registering \ {t} /\ UNCHANGED ip_count
        /\ UNCHANGED <<xbee_devices, reader, writer, modem, calls, history>> /\ ip_count \in Nat
    BY <1>0, <1>2 DEF AskIp, Ends, ManagerOK
  <2>2. [t EXCEPT !.ip = ip_count, !.pc = "find"] \in Thread /\ [t EXCEPT !.ip = ip_count, !.pc = "find"].ip = ip_count
    BY <1>0, <2>1 DEF Thread
  <2>3. ThreadsOK'
    BY <1>0, <1>1, <2>1, <2>2 DEF ThreadsOK
  <2> QED BY <1>0, <2>1, <2>3 DEF TypeInv, ReaderOK, WriterOK, TableOK, ModemOK, ManagerOK, Exists, Entries
<1>3. CASE FindEntry(t)
  <2>1. PICK k : k = find_device_index(t.addr)
    OBVIOUS
  <2>2. /\ t.pc = "find" /\ Becomes(t, [t EXCEPT !.index = k, !.pc = IF k >= 0 THEN "write" ELSE "reply"])
        /\ UNCHANGED <<xbee_devices, reader, writer, modem, manager, history>>
    BY <1>3, <2>1 DEF FindEntry
  <2>3. k \in Int
    <3>1. k \in Slot \cup {-1}
      BY <2>1, FindIndex
    <3> QED BY <3>1 DEF Slot
  <2>4. LET u == [t EXCEPT !.index = k, !.pc = IF k >= 0 THEN "write" ELSE "reply"] IN
        u \in Thread /\ u.ip = t.ip
    BY <1>0, <2>3 DEF Thread
  <2>5. ThreadsOK'
    BY <1>0, <1>1, <2>2, <2>4
  <2> QED BY <1>0, <2>2, <2>5 DEF TypeInv, ReaderOK, WriterOK, TableOK, ModemOK, ManagerOK, Exists, Entries
<1>4. CASE WriteIp(t)
  <2>1. /\ t.pc = "write" /\ Becomes(t, [t EXCEPT !.pc = "reply"])
        /\ UNCHANGED <<reader, writer, modem, manager, history>>
    BY <1>4 DEF WriteIp
  <2>2. [t EXCEPT !.pc = "reply"] \in Thread /\ [t EXCEPT !.pc = "reply"].ip = t.ip
    BY <1>0 DEF Thread
  <2>3. ThreadsOK'
    BY <1>0, <1>1, <2>1, <2>2
  <2>4. xbee_devices' \in [Slot -> Entry \cup {NULL}] /\ Entries' = Entries
    BY <1>4, IpWritten
  <2> QED BY <1>0, <2>1, <2>3, <2>4 DEF TypeInv, ReaderOK, WriterOK, TableOK, ModemOK, ManagerOK, Exists
<1>5. CASE Reply(t)
  <2>1. /\ t.pc = "reply" /\ statuses' = [statuses EXCEPT ![DEFAULT_FRAME_ID] = @ + 1]
        /\ told' = [told EXCEPT ![t.addr] = Append(@, t.ip)] /\ registering' = registering \ {t}
        /\ UNCHANGED <<xbee_devices, reader, writer, rx, manager, given, asked, heard>>
    BY <1>5 DEF Reply, Updated, Ends
  <2>2. statuses' \in [1 .. MAXDEVICECOUNT -> Nat]
    BY <2>1, FrameIds, Owed
  <2>3. told' \in [Dev -> Seq(Nat)]
    <3>1. t.addr \in Dev /\ t.ip \in Nat
      BY <1>0, <2>1 DEF Thread
    <3>2. Append(told[t.addr], t.ip) \in Seq(Nat)
      BY <1>0, <3>1, Longer DEF ManagerOK
    <3> QED BY <1>0, <2>1, <3>2 DEF ManagerOK
  <2> QED BY <1>0, <2>1, <2>2, <2>3
          DEF TypeInv, ReaderOK, WriterOK, ThreadsOK, TableOK, ModemOK, ManagerOK, Exists, Entries
<1> QED BY <1>2, <1>3, <1>4, <1>5, TypeCrash DEF Registering, RegisterCrashes

LEMMA TypeEnvironment == TypeInv /\ Environment => TypeInv'
<1> SUFFICES ASSUME TypeInv, Environment PROVE TypeInv'
  OBVIOUS
<1> USE DEF threads, modem, manager, history
<1>0. ReaderOK /\ WriterOK /\ ThreadsOK /\ TableOK /\ ModemOK /\ ManagerOK
  BY DEF TypeInv
<1>1. UNCHANGED <<xbee_devices, threads, given, ip_count, told>>
  BY DEF Environment, DeviceSends, ModemReports, ManagerCalls
<1>2. ModemOK'
  <2>1. ASSUME NEW f \in RxFrame \cup StatusFrame, rx' = Append(rx, f) \/ UNCHANGED rx
        PROVE  rx' \in Seq(RxFrame \cup StatusFrame)
    BY <1>0, <2>1, Longer DEF ModemOK
  <2>2. ASSUME NEW d \in Dev, NEW body \in {"register", "other"}, DeviceSends(d, body) PROVE ModemOK'
    <3> DEFINE f == [api |-> "ZB_RX_RESPONSE", from |-> d, body |-> body]
    <3>1. f \in RxFrame
      BY DEF RxFrame
    <3>2. rx' = Append(rx, f) /\ UNCHANGED statuses
      BY <2>2 DEF DeviceSends
    <3> HIDE DEF f
    <3> QED BY <1>0, <2>1, <3>1, <3>2 DEF ModemOK
  <2>3. ASSUME NEW n \in 1 .. MAXDEVICECOUNT, ModemReports(n) PROVE ModemOK'
    <3>1. PICK ok \in BOOLEAN : \/ UNCHANGED rx
                                \/ rx' = Append(rx, [api |-> "ZB_TX_STATUS_RESPONSE", frameId |-> n, ok |-> ok])
      BY <2>3 DEF ModemReports
    <3> DEFINE f == [api |-> "ZB_TX_STATUS_RESPONSE", frameId |-> n, ok |-> ok]
    <3>2. f \in StatusFrame
      BY DEF StatusFrame
    <3>3. statuses' \in [1 .. MAXDEVICECOUNT -> Nat]
      BY <1>0, <2>3 DEF ModemReports, ModemOK
    <3> HIDE DEF f
    <3>4. rx' = Append(rx, f) \/ UNCHANGED rx
      BY <3>1 DEF f
    <3> QED BY <2>1, <3>2, <3>3, <3>4 DEF ModemOK
  <2>4. ASSUME NEW ip \in 0 .. ip_count - 1, NEW n \in 1 .. MaxChunks, ManagerCalls(ip, n) PROVE ModemOK'
    BY <1>0, <2>4 DEF ManagerCalls, ModemOK
  <2> QED BY <2>2, <2>3, <2>4 DEF Environment
<1>3. calls' \in Seq([ip : Nat, chunks : 1 .. MaxChunks])
  <2>1. CASE UNCHANGED calls
    BY <1>0, <2>1 DEF ManagerOK
  <2>2. ASSUME NEW ip \in 0 .. ip_count - 1, NEW n \in 1 .. MaxChunks, ManagerCalls(ip, n)
        PROVE  calls' \in Seq([ip : Nat, chunks : 1 .. MaxChunks])
    <3> DEFINE c == [ip |-> ip, chunks |-> n]
    <3>1. c \in [ip : Nat, chunks : 1 .. MaxChunks]
      BY <1>0 DEF ManagerOK
    <3>2. calls' = Append(calls, c)
      BY <2>2 DEF ManagerCalls
    <3> HIDE DEF c
    <3> QED BY <1>0, <3>1, <3>2, Longer DEF ManagerOK
  <2> QED BY <2>1, <2>2 DEF Environment, DeviceSends, ModemReports
<1> QED BY <1>0, <1>1, <1>2, <1>3 DEF TypeInv, ReaderOK, WriterOK, ThreadsOK, TableOK, ManagerOK, Exists, Entries

LEMMA TypeStep == TypeInv /\ [Next]_vars => TypeInv'
<1>1. TypeInv /\ UNCHANGED vars => TypeInv'
  BY DEF vars, threads, modem, manager, history, TypeInv, ReaderOK, WriterOK, ThreadsOK, TableOK,
         ModemOK, ManagerOK, Exists, Entries
<1> QED BY <1>1, TypeReader, TypeWriter, TypeRegistering, TypeEnvironment DEF Next

\* What the threads hold has its type at any time, whatever is lost or late.
THEOREM TypeInvariant == Spec => []TypeInv
BY TypeInit, TypeStep, PTL DEF Spec

----------------------------------------------------------------------------
\* No entry goes.

LEMMA StillGiven == [Next]_vars => given' = given
BY DEF Next, Reader, Writer, Registering, Environment, vars, threads, modem, manager, history,
   ReadPackage, TakePackage, ReadStatus, SetDeviceReady, ReaderCrashes, Crash,
   TakeCall, BeginChunk, SeeReady, ClearReady, NotReady, SendChunk, RemoveDevice, WriterCrashes,
   AskIp, FindEntry, WriteIp, Reply, RegisterCrashes, DeviceSends, ModemReports, ManagerCalls

LEMMA KeptInit == Init => KeptInv /\ TellInv
BY DEF Init, KeptInv, TellInv, Entries, Exists, Sending

\* There is a free slot for a device that has none.
LEMMA RoomForOne ==
    ASSUME Cardinality(Dev) <= MAXDEVICECOUNT, TypeInv, KeptInv, NEW d \in Dev, \A k \in Slot : ~ Has(k, d)
    PROVE  Entries # Slot
<1> SUFFICES ASSUME Entries = Slot PROVE FALSE
  OBVIOUS
<1>1. MAXDEVICECOUNT \in Nat /\ Cardinality(Dev) \in Nat
  BY LimitsAssumption, DevAssumption, FS_CardinalityType
<1>2. IsFiniteSet(Slot) /\ Cardinality(Slot) = MAXDEVICECOUNT
  <2>1. PICK m \in Int : m = MAXDEVICECOUNT - 1
    BY <1>1
  <2>2. 0 \in Int
    OBVIOUS
  <2>3. IsFiniteSet(0 .. m) /\ Cardinality(0 .. m) = IF 0 > m THEN 0 ELSE m - 0 + 1
    BY <2>2, FS_Interval, Zenon
  <2> QED BY <1>1, <2>1, <2>3 DEF Slot
<1>3. IsFiniteSet(Dev \ {d}) /\ Cardinality(Dev \ {d}) = Cardinality(Dev) - 1
  BY DevAssumption, FS_RemoveElement
<1> DEFINE f == [k \in Slot |-> xbee_devices[k].addr]
<1>4. f \in [Slot -> Dev \ {d}]
  <2> SUFFICES ASSUME NEW k \in Slot PROVE xbee_devices[k].addr \in Dev \ {d}
    OBVIOUS
  <2>1. Exists(k)
    BY DEF Exists
  <2>2. xbee_devices[k] \in Entry /\ ~ Has(k, d)
    BY <2>1, EntryOf
  <2> QED BY <2>1, <2>2, EntryIsEntry DEF Has
<1>5. Cardinality(Dev \ {d}) < Cardinality(Slot)
  BY <1>1, <1>2, <1>3
<1> HIDE DEF f
<1>6. \E j, k \in Slot : j # k /\ f[j] = f[k]
  BY <1>2, <1>3, <1>4, <1>5, FS_PigeonHole
<1> QED BY <1>6 DEF f, KeptInv

\* The entry a package belongs to: there already, or new and empty.
EntryFor(f, k, new) ==
    /\ k \in Entries' /\ xbee_devices'[k].addr = f.from
    /\ IF new THEN /\ \A j \in Slot : ~ Has(j, f.from)
                   /\ ~ Exists(k) /\ Entries' = Entries \cup {k}
                   /\ \A j \in Entries : xbee_devices'[j] = xbee_devices[j]
                   /\ xbee_devices'[k] = [addr |-> f.from, ip |-> NULL, ready_to_receive |-> 1, isAlive |-> 1]
       ELSE UNCHANGED xbee_devices /\ Entries' = Entries

LEMMA PackageRead ==
    ASSUME Cardinality(Dev) <= MAXDEVICECOUNT, TypeInv, KeptInv, ReadPackage
    PROVE  LET f == Head(rx) IN
           /\ f \in RxFrame /\ f.from \in Dev /\ rx # <<>> /\ rx' = Tail(rx)
           /\ reader'.pc = "package" /\ reader'.frame = f
           /\ \E k \in Slot, new \in BOOLEAN : reader'.index = k /\ EntryFor(f, k, new)
<1> DEFINE k == find_device_index(Head(rx).from)
<1>1. PICK f : f = Head(rx)
  OBVIOUS
<1>2. /\ rx # <<>> /\ f.api = "ZB_RX_RESPONSE" /\ rx' = Tail(rx)
  BY <1>1 DEF ReadPackage
<1>3. f \in RxFrame /\ f.from \in Dev
  BY <1>1, <1>2, Shorter, Frames DEF TypeInv, ModemOK
<1>4. CASE k >= 0
  <2>1. k \in Slot /\ Has(k, f.from)
    BY <1>1, <1>4, FindIndex
  <2>2. reader' = [pc |-> "package", index |-> k, frame |-> f] /\ UNCHANGED xbee_devices
    BY <1>1, <1>4 DEF ReadPackage, ReaderAt
  <2> HIDE DEF k
  <2>3. EntryFor(f, k, FALSE)
    BY <2>1, <2>2 DEF EntryFor, Has, Exists, Entries
  <2>4. reader'.pc = "package" /\ reader'.frame = f /\ reader'.index = k
    BY <2>2
  <2> QED BY <1>1, <1>2, <1>3, <2>1, <2>3, <2>4
<1>5. CASE ~ (k >= 0)
  <2> DEFINE e == [addr |-> f.from, ip |-> NULL, ready_to_receive |-> 1, isAlive |-> 1]
             s == FirstFree
  <2>1. \A j \in Slot : ~ Has(j, f.from)
    BY <1>1, <1>5, FindIndex
  <2>2. s \in Slot /\ ~ Exists(s)
    BY <1>3, <2>1, RoomForOne, FreeSlot
  <2>3. /\ reader' = [pc |-> "package", index |-> s, frame |-> f]
        /\ xbee_devices' = [xbee_devices EXCEPT ![s] = e]
    BY <1>1, <1>5, <2>2 DEF ReadPackage, ReaderAt
  <2>4. e \in Entry /\ e.addr = f.from
    BY <1>3 DEF Entry
  <2> HIDE DEF s
  <2>5. /\ Entries' = Entries \cup {s}
        /\ \A j \in Slot : xbee_devices'[j] = IF j = s THEN e ELSE xbee_devices[j]
    <3> HIDE DEF e
    <3> QED BY <2>2, <2>3, <2>4, TableSet
  <2>6. EntryFor(f, s, TRUE)
    BY <2>1, <2>2, <2>4, <2>5 DEF EntryFor, Has, Exists, Entries
  <2>7. reader'.pc = "package" /\ reader'.frame = f /\ reader'.index = s
    BY <2>3
  <2> QED BY <1>1, <1>2, <1>3, <2>2, <2>6, <2>7
<1> QED BY <1>4, <1>5

\* The table stays as it is, but for the flags.
SameTable ==
    /\ Entries' = Entries
    /\ \A k \in Entries : /\ xbee_devices'[k].addr = xbee_devices[k].addr
                          /\ xbee_devices'[k].ip = xbee_devices[k].ip
                          /\ xbee_devices'[k].isAlive = xbee_devices[k].isAlive
TableKept ==
    /\ \A k \in Entries : xbee_devices[k].isAlive = 1
    /\ \A j, k \in Entries : xbee_devices[j].addr = xbee_devices[k].addr => j = k

LEMMA SameEntries ==
    /\ KeptInv => TableKept
    /\ UNCHANGED xbee_devices => SameTable
    /\ TypeInv /\ SetDeviceReady => SameTable
    /\ TypeInv /\ ClearReady => SameTable
    /\ SameTable => /\ \A k, d : Has(k, d)' <=> Has(k, d)
                    /\ \A k : Exists(k)' <=> Exists(k)
                    /\ TableKept => TableKept'
<1>1. KeptInv => TableKept
  BY DEF KeptInv, TableKept
<1>2. UNCHANGED xbee_devices => SameTable
  BY DEF SameTable, Entries
<1>3. ASSUME TypeInv, SetDeviceReady PROVE SameTable
  <2>1. Exists(reader.index) /\ SetReady(reader.index, 1)
    BY <1>3 DEF SetDeviceReady
  <2> QED BY <1>3, <2>1, ReadySet DEF SameTable, Exists
<1>4. ASSUME TypeInv, ClearReady PROVE SameTable
  <2>1. Exists(writer.index) /\ SetReady(writer.index, 0)
    BY <1>4 DEF ClearReady, TypeInv, WriterOK, Sending
  <2> QED BY <1>4, <2>1, ReadySet DEF SameTable, Exists
<1>5. ASSUME SameTable
      PROVE  /\ \A k, d : Has(k, d)' <=> Has(k, d)
             /\ \A k : Exists(k)' <=> Exists(k)
             /\ TableKept => TableKept'
  BY <1>5 DEF SameTable, Has, Exists, TableKept
<1> QED BY <1>1, <1>2, <1>3, <1>4, <1>5

LEMMA KeptReader ==
    ASSUME Cardinality(Dev) <= MAXDEVICECOUNT, TypeInv, KeptInv, Reader
    PROVE  KeptInv' /\ ~ Crash
<1> USE DEF threads, modem, manager, history
<1>0. /\ reader.pc # "crashed" /\ writer.pc \notin {"crashed", "remove"} /\ TableKept
      /\ writer.pc \in Sending => Exists(writer.index)
      /\ reader.pc = "package" => Has(reader.index, reader.frame.from)
      /\ reader.pc = "status" => Exists(reader.index)
      /\ \A t \in registering : /\ \E k \in Slot : Has(k, t.addr)
                                /\ t.pc = "write" => Has(t.index, t.addr)
      /\ reader \in [pc : {"read", "package", "status", "crashed"}, index : Int, frame : RxFrame \cup {NULL}]
  BY SameEntries DEF KeptInv, TypeInv, ReaderOK
<1>1. ~ ReaderCrashes
  BY <1>0 DEF ReaderCrashes, Has
<1>2. ASSUME reader'.pc \in {"read", "package", "status"} PROVE ~ Crash
  BY <1>0, <1>2 DEF Crash
<1>3. CASE ReadPackage
  <2>0. PICK f : f = Head(rx)
    OBVIOUS
  <2>1. PICK k \in Slot, new \in BOOLEAN :
          reader'.pc = "package" /\ reader'.frame = f /\ reader'.index = k /\ EntryFor(f, k, new)
    <3>1. /\ reader'.pc = "package" /\ reader'.frame = f
          /\ \E k \in Slot, new \in BOOLEAN : reader'.index = k /\ EntryFor(f, k, new)
      BY <1>3, <2>0, PackageRead
    <3> QED BY <3>1, Zenon
  <2>2. UNCHANGED <<writer, registering>>
    BY <1>3 DEF ReadPackage
  <2>3. CASE new
    <3>1. /\ k \in Entries' /\ xbee_devices'[k].addr = f.from /\ xbee_devices'[k].isAlive = 1
          /\ \A j \in Slot : ~ Has(j, f.from)
          /\ ~ Exists(k) /\ Entries' = Entries \cup {k}
          /\ \A j \in Entries : xbee_devices'[j] = xbee_devices[j]
      BY <2>1, <2>3 DEF EntryFor
    <3>2. TableKept'
      <4>1. \A j \in Entries : xbee_devices[j].addr # f.from
        BY <3>1 DEF Has, Exists, Entries
      <4> QED BY <1>0, <3>1, <4>1 DEF TableKept
    <3>3. /\ \A j, d : Has(j, d) => Has(j, d)'
          /\ \A j : Exists(j) => Exists(j)'
      BY <3>1 DEF Has, Exists
    <3>4. Has(reader.index, reader.frame.from)'
      BY <2>1, <3>1 DEF Has, Exists
    <3> QED BY <1>0, <1>2, <2>1, <2>2, <3>2, <3>3, <3>4 DEF KeptInv, TableKept
  <2>4. CASE ~ new
    <3>1. k \in Entries' /\ xbee_devices'[k].addr = f.from /\ UNCHANGED xbee_devices
      BY <2>1, <2>4 DEF EntryFor
    <3>2. SameTable
      BY <3>1, SameEntries
    <3>3. Has(reader.index, reader.frame.from)'
      BY <2>1, <3>1 DEF Has, Exists
    <3> QED BY <1>0, <1>2, <2>1, <2>2, <3>2, <3>3, SameEntries DEF KeptInv, TableKept
  <2> QED BY <2>3, <2>4
<1>4. CASE TakePackage
  <2>1. /\ reader.pc = "package" /\ reader' = [pc |-> "read", index |-> 0, frame |-> NULL]
        /\ UNCHANGED <<xbee_devices, writer>> /\ Exists(reader.index)
    BY <1>4 DEF TakePackage, ReaderAt
  <2>2. \/ registering' = registering
        \/ \E t \in Thread : /\ t.addr = reader.frame.from /\ t.pc = "ask"
                             /\ registering' = registering \cup {t}
    BY <1>4, ThreadStarts DEF TypeInv
  <2>3. SameTable
    BY <2>1, SameEntries
  <2>4. reader'.pc = "read"
    BY <2>1
  <2>5. reader.index \in Slot
    BY <2>1 DEF Exists, Entries
  <2>6. \A u \in registering' : /\ \E k \in Slot : Has(k, u.addr)
                                /\ u.pc = "write" => Has(u.index, u.addr)
    BY <1>0, <2>1, <2>2, <2>5
  <2> QED BY <1>0, <1>2, <2>1, <2>3, <2>4, <2>6, SameEntries DEF KeptInv, TableKept
<1>5. CASE ReadStatus
  <2>1. /\ reader.pc = "read" /\ UNCHANGED <<xbee_devices, writer, registering>>
        /\ \/ UNCHANGED reader
           \/ \E k : reader' = [pc |-> "status", index |-> k, frame |-> NULL] /\ Exists(k)
    BY <1>5 DEF ReadStatus, ReaderAt
  <2>2. SameTable
    BY <2>1, SameEntries
  <2>3. reader'.pc \in {"read", "status"} /\ (reader'.pc = "status" => Exists(reader'.index))
    BY <2>1
  <2>4. (reader.pc = "status" => Exists(reader.index))'
    BY <2>2, <2>3, SameEntries
  <2> QED BY <1>0, <1>2, <2>1, <2>2, <2>3, <2>4, SameEntries DEF KeptInv, TableKept
<1>6. CASE SetDeviceReady
  <2>1. SameTable /\ UNCHANGED <<writer, registering>> /\ reader' = [pc |-> "read", index |-> 0, frame |-> NULL]
    BY <1>6, SameEntries DEF SetDeviceReady, ReaderAt
  <2>2. reader'.pc = "read"
    BY <2>1
  <2> QED BY <1>0, <1>2, <2>1, <2>2, SameEntries DEF KeptInv, TableKept
<1> QED BY <1>1, <1>3, <1>4, <1>5, <1>6 DEF Reader

LEMMA KeptAgain ==
    ASSUME KeptInv, TableKept', \A k, d : Has(k, d) => Has(k, d)', UNCHANGED reader,
           writer'.pc \notin {"crashed", "remove"}, (writer.pc \in Sending => Exists(writer.index))',
           (\A t \in registering : /\ \E k \in Slot : Has(k, t.addr)
                                   /\ t.pc = "write" => Has(t.index, t.addr))'
    PROVE  KeptInv'
<1>1. /\ reader'.pc # "crashed"
      /\ (reader.pc = "package" => Has(reader.index, reader.frame.from))'
  BY DEF KeptInv
<1>2. (reader.pc = "status" => Exists(reader.index))'
  <2>1. \A k : Exists(k) => Exists(k)'
    BY DEF Has
  <2> QED BY <2>1 DEF KeptInv
<1> QED BY <1>1, <1>2 DEF KeptInv, TableKept

\* The writer removes nothing, and has an entry for what it sends.
LEMMA NoneRemoved ==
    ASSUME TypeInv, KeptInv, ~ timeouts
    PROVE  ~ NotReady /\ ~ RemoveDevice /\ ~ WriterCrashes
BY DEF KeptInv, Sending, NotReady, AckTimeout, RemoveDevice, WriterCrashes

LEMMA CallTaken ==
    ASSUME TypeInv, NEW chance \in SUBSET Slot, TakeCall(chance)
    PROVE  /\ writer.pc = "recv"
           /\ writer'.pc = "recv" \/ (writer'.pc = "chunk" /\ Exists(writer'.index))
<1> DEFINE at == find_xbee_addr_by_iotip(Head(calls).ip, chance)
<1>1. CASE at = {}
  BY <1>1 DEF TakeCall
<1>2. CASE at # {}
  <2>1. PICK j : j = First(at)
    OBVIOUS
  <2>2. PICK k : k = find_device_index(xbee_devices[j].addr)
    OBVIOUS
  <2>3. writer.pc = "recv" /\ writer' = [pc |-> "chunk", index |-> k, left |-> Head(calls).chunks]
    BY <1>2, <2>1, <2>2 DEF TakeCall
  <2>4. j \in Slot /\ Has(j, xbee_devices[j].addr)
    <3>1. at \in SUBSET Entries /\ at \in SUBSET Slot
      BY DEF find_xbee_addr_by_iotip, Entries
    <3>2. j \in at
      BY <1>2, <2>1, <3>1, FirstIn
    <3> QED BY <3>1, <3>2 DEF Has, Exists
  <2>5. Exists(k)
    BY <2>2, <2>4, FindIndex DEF Has
  <2> QED BY <2>3, <2>5
<1> QED BY <1>1, <1>2

LEMMA KeptWriter ==
    ASSUME TypeInv, KeptInv, ~ timeouts, Writer
    PROVE  KeptInv'
<1> USE DEF threads, modem, manager, history
<1>0. /\ writer.pc \notin {"crashed", "remove"} /\ TableKept
      /\ writer.pc \in Sending => Exists(writer.index)
      /\ \A t \in registering : /\ \E k \in Slot : Has(k, t.addr)
                                /\ t.pc = "write" => Has(t.index, t.addr)
  BY SameEntries DEF KeptInv
<1>1. UNCHANGED <<reader, registering>> /\ SameTable
  <2>1. UNCHANGED <<reader, registering>>
    BY NoneRemoved DEF Writer, TakeCall, BeginChunk, SeeReady, ClearReady, SendChunk
  <2>2. UNCHANGED xbee_devices \/ ClearReady
    BY NoneRemoved DEF Writer, TakeCall, BeginChunk, SeeReady, SendChunk
  <2> QED BY <2>1, <2>2, SameEntries
<1>2. /\ writer'.pc \notin {"crashed", "remove"}
      /\ writer'.pc \in Sending => Exists(writer'.index)
  <2>1. ASSUME NEW chance \in SUBSET Slot, TakeCall(chance) PROVE <1>2!1 /\ <1>2!2
    BY <2>1, CallTaken DEF Sending
  <2>2. ASSUME NEW pc \in {"wait", "clear", "send"}, WriterAt(pc), writer.pc \in Sending PROVE <1>2!1 /\ <1>2!2
    <3>1. writer'.pc = pc /\ writer'.index = writer.index
      BY <2>2, WriterFields DEF Sending
    <3> QED BY <1>0, <2>2, <3>1
  <2>3. CASE BeginChunk
    <3>1. writer.pc = "chunk" /\ Exists(writer.index) /\ xbee_devices[writer.index].isAlive = 1
      BY <1>0, <2>3 DEF BeginChunk, TableKept, Exists
    <3>2. WriterAt("wait")
      BY <2>3, <3>1 DEF BeginChunk
    <3> QED BY <2>2, <3>1, <3>2 DEF Sending
  <2>4. CASE SeeReady
    BY <2>2, <2>4 DEF SeeReady, Sending
  <2>5. CASE ClearReady
    BY <2>2, <2>5 DEF ClearReady, Sending
  <2>6. CASE SendChunk
    <3>1. writer.pc \in Sending /\ NextChunk
      BY <2>6 DEF SendChunk, Sending
    <3> QED BY <1>0, <3>1, NextFields
  <2> QED BY <2>1, <2>3, <2>4, <2>5, <2>6, NoneRemoved DEF Writer
<1>3. (writer.pc \in Sending => Exists(writer.index))'
  BY <1>1, <1>2, SameEntries
<1>4. (\A t \in registering : /\ \E k \in Slot : Has(k, t.addr)
                              /\ t.pc = "write" => Has(t.index, t.addr))'
  BY <1>0, <1>1, SameEntries
<1>5. TableKept' /\ \A k, d : Has(k, d) => Has(k, d)'
  BY <1>0, <1>1, SameEntries
<1> QED BY <1>1, <1>2, <1>3, <1>4, <1>5, KeptAgain

\* A thread that registers finds the entry of its device.
LEMMA EntryFound ==
    ASSUME TypeInv, KeptInv, NEW t \in registering
    PROVE  /\ ~ RegisterCrashes(t)
           /\ find_device_index(t.addr) \in Slot /\ find_device_index(t.addr) >= 0
           /\ Has(find_device_index(t.addr), t.addr)
<1>1. (\E k \in Slot : Has(k, t.addr)) /\ (t.pc = "write" => Has(t.index, t.addr))
  BY DEF KeptInv
<1>2. ~ RegisterCrashes(t)
  BY <1>1 DEF RegisterCrashes, Has
<1> QED BY <1>1, <1>2, FindIndex

\* The threads and the table after a step of a thread.
LEMMA ThreadMoves ==
    ASSUME TypeInv, KeptInv, NEW t \in registering, Registering(t)
    PROVE  /\ UNCHANGED <<reader, writer>> /\ Entries' = Entries
           /\ SameTable \/ WriteIp(t)
           /\ \A k, d : Has(k, d)' <=> Has(k, d)
           /\ \/ Reply(t) /\ registering' = registering \ {t}
              \/ AskIp(t) /\ registering' = registering \ {t}
              \/ \E u \in Thread :
                    /\ Becomes(t, u) /\ u.addr = t.addr
                    /\ \/ AskIp(t) /\ u.pc = "find"
                       \/ FindEntry(t) /\ u.pc = "write" /\ Has(u.index, u.addr)
                       \/ WriteIp(t) /\ u.pc = "reply" /\ u.ip = t.ip
<1> USE DEF threads, modem, manager, history
<1>0. t \in Thread /\ (t.pc # "ask" => t.ip \in Nat) /\ ip_count \in Nat
  BY DEF TypeInv, ThreadsOK, ManagerOK
<1>1. CASE AskIp(t)
  <2>0. CASE Ends(t)
    <3>1. UNCHANGED <<reader, writer, xbee_devices>> /\ registering' = registering \ {t}
      BY <1>1, <2>0 DEF AskIp, Ends
    <3>2. SameTable
      BY <3>1, SameEntries
    <3> QED BY <1>1, <3>1, <3>2, SameEntries DEF SameTable
  <2>1. [t EXCEPT !.ip = ip_count, !.pc = "find"] \in Thread
    BY <1>0 DEF Thread
  <2>2. PICK u \in Thread : u = [t EXCEPT !.ip = ip_count, !.pc = "find"]
    BY <2>1
  <2>3. u.addr = t.addr /\ u.pc = "find"
    BY <1>0, <2>2 DEF Thread
  <2>4. UNCHANGED <<reader, writer, xbee_devices>> /\ (~ Ends(t) => Becomes(t, u))
    BY <1>1, <2>2 DEF AskIp
  <2>5. SameTable
    BY <2>4, SameEntries
  <2> QED BY <1>1, <2>0, <2>3, <2>4, <2>5, SameEntries DEF SameTable
<1>2. CASE FindEntry(t)
  <2>1. PICK k \in Slot : k = find_device_index(t.addr) /\ Has(k, t.addr) /\ k >= 0
    BY EntryFound
  <2>2. k \in Int
    BY <2>1 DEF Slot
  <2>3. [t EXCEPT !.index = k, !.pc = "write"] \in Thread
    BY <1>0, <2>2 DEF Thread
  <2>4. PICK u \in Thread : u = [t EXCEPT !.index = k, !.pc = "write"]
    BY <2>3
  <2>5. u.addr = t.addr /\ u.pc = "write" /\ u.index = k
    BY <1>0, <2>4 DEF Thread
  <2>6. Becomes(t, u) /\ UNCHANGED <<reader, writer, xbee_devices>>
    BY <1>2, <2>1, <2>4 DEF FindEntry
  <2>7. SameTable
    BY <2>6, SameEntries
  <2> QED BY <1>2, <2>1, <2>5, <2>6, <2>7, SameEntries DEF SameTable
<1>3. CASE WriteIp(t)
  <2>1. [t EXCEPT !.pc = "reply"] \in Thread
    BY <1>0 DEF Thread
  <2>2. PICK u \in Thread : u = [t EXCEPT !.pc = "reply"]
    BY <2>1
  <2>3. u.addr = t.addr /\ u.pc = "reply" /\ u.ip = t.ip
    BY <1>0, <2>2 DEF Thread
  <2>4. Becomes(t, u) /\ UNCHANGED <<reader, writer>>
    BY <1>3, <2>2 DEF WriteIp
  <2>5. /\ Entries' = Entries
        /\ \A j \in Entries : xbee_devices'[j].addr = xbee_devices[j].addr
    BY <1>3, IpWritten
  <2>6. \A k, d : Has(k, d)' <=> Has(k, d)
    BY <2>5 DEF Has, Exists
  <2> QED BY <1>3, <2>3, <2>4, <2>5, <2>6
<1>4. CASE Reply(t)
  <2>1. UNCHANGED <<reader, writer, xbee_devices>> /\ registering' = registering \ {t}
    BY <1>4 DEF Reply, Ends
  <2>2. SameTable
    BY <2>1, SameEntries
  <2> QED BY <1>4, <2>1, <2>2, SameEntries DEF SameTable
<1> QED BY <1>1, <1>2, <1>3, <1>4, EntryFound DEF Registering

LEMMA KeptRegistering ==
    ASSUME TypeInv, KeptInv, NEW t \in registering, Registering(t)
    PROVE  KeptInv'
<1>0. /\ writer.pc \notin {"crashed", "remove"} /\ TableKept
      /\ writer.pc \in Sending => Exists(writer.index)
      /\ \A u \in registering : /\ \E k \in Slot : Has(k, u.addr)
                                /\ u.pc = "write" => Has(u.index, u.addr)
  BY SameEntries DEF KeptInv
<1>1. /\ UNCHANGED <<reader, writer>> /\ Entries' = Entries /\ (SameTable \/ WriteIp(t))
      /\ \A k, d : Has(k, d)' <=> Has(k, d)
  BY ThreadMoves
<1>2. TableKept'
  <2>1. CASE SameTable
    BY <1>0, <2>1, SameEntries
  <2>2. CASE WriteIp(t)
    <3>1. \A j \in Entries : /\ xbee_devices'[j].addr = xbee_devices[j].addr
                             /\ xbee_devices'[j].isAlive = 1
      BY <1>0, <2>2, IpWritten DEF TableKept
    <3> QED BY <1>0, <1>1, <3>1 DEF TableKept
  <2> QED BY <1>1, <2>1, <2>2
<1>3. \A u \in registering' : u \in registering \/ (u.addr = t.addr /\ (u.pc = "write" => Has(u.index, u.addr)))
  BY ThreadMoves DEF Becomes
<1>4. (\A u \in registering : /\ \E k \in Slot : Has(k, u.addr)
                              /\ u.pc = "write" => Has(u.index, u.addr))'
  BY <1>0, <1>1, <1>3
<1>5. (writer.pc \in Sending => Exists(writer.index))'
  BY <1>0, <1>1 DEF Exists
<1> QED BY <1>0, <1>1, <1>2, <1>4, <1>5, KeptAgain

LEMMA KeptStep ==
    ASSUME Cardinality(Dev) <= MAXDEVICECOUNT, TypeInv, KeptInv, ~ timeouts, [Next]_vars
    PROVE  KeptInv'
<1>1. ASSUME UNCHANGED <<xbee_devices, threads>> PROVE KeptInv'
  <2>1. SameTable
    BY <1>1, SameEntries
  <2> QED BY <1>1, <2>1 DEF threads, KeptInv, Has, Exists, Entries
<1>2. CASE Environment
  BY <1>1, <1>2 DEF Environment, DeviceSends, ModemReports, ManagerCalls
<1>3. CASE UNCHANGED vars
  BY <1>1, <1>3 DEF vars
<1> QED BY <1>2, <1>3, KeptReader, KeptWriter, KeptRegistering DEF Next

----------------------------------------------------------------------------
\* The address in an entry.
LEMMA TellAgain ==
    ASSUME TypeInv, TellInv, SameTable, UNCHANGED told, \A d \in Dev : Telling(d)' = Telling(d)
    PROVE  TellInv'
<1>1. (\A d \in Dev : told[d] # <<>> => \E k \in Slot : Has(k, d))'
  BY SameEntries DEF TellInv
<1>2. ASSUME NEW k \in Entries PROVE TellAt(k)'
  <2>1. PICK d \in Dev : d = xbee_devices[k].addr
    BY <1>2, EntryOf, EntryIsEntry DEF Exists
  <2>2. xbee_devices'[k].addr = d /\ xbee_devices'[k].ip = xbee_devices[k].ip
    BY <1>2, <2>1 DEF SameTable
  <2>3. told'[d] = told[d] /\ ToldOf(d)' = ToldOf(d) /\ Telling(d)' = Telling(d)
    BY DEF ToldOf
  <2>4. IF xbee_devices[k].ip = NULL THEN told[d] = <<>> /\ Telling(d) = {}
        ELSE xbee_devices[k].ip \in {t.ip : t \in Telling(d)} \cup ToldOf(d)
    BY <1>2, <2>1 DEF TellInv, TellAt
  <2>5. IF xbee_devices'[k].ip = NULL THEN told'[d] = <<>> /\ Telling(d)' = {}
        ELSE xbee_devices'[k].ip \in {t.ip : t \in Telling(d)'} \cup ToldOf(d)'
    BY <2>2, <2>3, <2>4
  <2> QED BY <2>2, <2>5 DEF TellAt, Telling, ToldOf
<1> QED BY <1>1, <1>2 DEF TellInv, SameTable

\* A new entry belongs to a device that was told nothing.
LEMMA TellNew ==
    ASSUME Cardinality(Dev) <= MAXDEVICECOUNT, TypeInv, KeptInv, TellInv, ReadPackage
    PROVE  TellInv'
<1>1. PICK f : f = Head(rx)
  OBVIOUS
<1>2. PICK k \in Slot, new \in BOOLEAN : EntryFor(f, k, new)
  BY <1>1, PackageRead
<1>3. f.from \in Dev
  BY <1>1, PackageRead
<1>4. UNCHANGED <<registering, told>>
  BY DEF ReadPackage, history
<1>5. \A d \in Dev : Telling(d)' = Telling(d)
  BY <1>4 DEF Telling
<1>6. CASE ~ new
  <2>1. SameTable
    BY <1>2, <1>6, SameEntries DEF EntryFor
  <2> QED BY <1>4, <1>5, <2>1, TellAgain
<1>7. CASE new
  <2>1. /\ k \in Entries' /\ xbee_devices'[k].addr = f.from
        /\ \A j \in Slot : ~ Has(j, f.from)
        /\ ~ Exists(k) /\ Entries' = Entries \cup {k}
        /\ \A j \in Entries : xbee_devices'[j] = xbee_devices[j]
        /\ xbee_devices'[k].ip = NULL
    BY <1>2, <1>7 DEF EntryFor
  <2>2. told[f.from] = <<>> /\ Telling(f.from) = {}
    BY <1>3, <2>1 DEF TellInv, KeptInv, Telling
  <2>3. TellAt(k)'
    BY <1>3, <1>4, <1>5, <2>1, <2>2 DEF TellAt
  <2>4. ASSUME NEW j \in Entries PROVE TellAt(j)'
    <3>1. TellAt(j) /\ xbee_devices[j].addr \in Dev
      BY <2>4, EntryOf, EntryIsEntry DEF TellInv, Exists
    <3>2. PICK e : e = xbee_devices[j]
      OBVIOUS
    <3>3. xbee_devices'[j] = e /\ e.addr \in Dev
      BY <2>1, <3>1, <3>2
    <3>4. Telling(e.addr)' = Telling(e.addr) /\ ToldOf(e.addr)' = ToldOf(e.addr) /\ told'[e.addr] = told[e.addr]
      BY <1>4 DEF Telling, ToldOf
    <3> QED BY <3>1, <3>2, <3>3, <3>4 DEF TellAt
  <2>5. \A i, d : Has(i, d) => Has(i, d)'
    BY <2>1 DEF Has, Exists
  <2>6. (\A d \in Dev : told[d] # <<>> => \E j \in Slot : Has(j, d))'
    BY <1>4, <2>5 DEF TellInv
  <2> QED BY <2>1, <2>3, <2>4, <2>6 DEF TellInv
<1> QED BY <1>6, <1>7

\* The address is written to the entry: its thread is about to tell it.
LEMMA TellWrite ==
    ASSUME TypeInv, KeptInv, TellInv, NEW t \in registering, WriteIp(t)
    PROVE  TellInv'
<1>1. PICK u \in Thread : Becomes(t, u) /\ u.addr = t.addr /\ u.pc = "reply" /\ u.ip = t.ip
  <2>1. t.pc = "write"
    BY DEF WriteIp
  <2>2. ~ Reply(t) /\ ~ AskIp(t) /\ ~ FindEntry(t)
    BY <2>1 DEF Reply, Updated, AskIp, FindEntry
  <2> QED BY <2>2, ThreadMoves DEF Registering
<1>2. /\ t.pc = "write" /\ t.ip \in Nat /\ t.addr \in Dev /\ UNCHANGED told
      /\ Has(t.index, t.addr)
  BY DEF WriteIp, history, TypeInv, ThreadsOK, Thread, KeptInv
<1>3. /\ \A d \in Dev : d # t.addr => Telling(d)' = Telling(d)
      /\ u \in Telling(t.addr)'
  BY <1>1, <1>2 DEF Becomes, Telling
<1>4. /\ Entries' = Entries
      /\ \A j \in Entries : j # t.index => xbee_devices'[j] = xbee_devices[j]
      /\ xbee_devices'[t.index].addr = t.addr /\ xbee_devices'[t.index].ip = t.ip
  BY <1>2, IpWritten DEF Has
<1>5. \A k, d : Has(k, d)' <=> Has(k, d)
  BY ThreadMoves DEF Registering
<1>6. (\A d \in Dev : told[d] # <<>> => \E k \in Slot : Has(k, d))'
  BY <1>2, <1>5 DEF TellInv
<1>7. TellAt(t.index)'
  <2>1. PICK k : k = t.index
    OBVIOUS
  <2>2. xbee_devices'[k].addr = t.addr /\ xbee_devices'[k].ip = u.ip /\ u.ip # NULL
    BY <1>1, <1>2, <1>4, <2>1, NullAssumption
  <2>3. TellAt(k)'
    BY <1>3, <2>2 DEF TellAt
  <2> QED BY <2>1, <2>3
<1>8. ASSUME NEW j \in Entries, j # t.index PROVE TellAt(j)'
  <2>1. PICK e : e = xbee_devices[j]
    OBVIOUS
  <2>2. TellAt(j) /\ xbee_devices'[j] = e /\ e.addr \in Dev
    BY <1>4, <1>8, <2>1, EntryOf, EntryIsEntry DEF TellInv, Exists
  <2>3. e.addr # t.addr
    BY <1>2, <1>8, <2>1 DEF KeptInv, Has, Exists
  <2>4. Telling(e.addr)' = Telling(e.addr) /\ ToldOf(e.addr)' = ToldOf(e.addr) /\ told'[e.addr] = told[e.addr]
    BY <1>2, <1>3, <2>2, <2>3 DEF ToldOf
  <2> QED BY <2>1, <2>2, <2>4 DEF TellAt
<1>9. \A j \in Entries' : TellAt(j)'
  BY <1>4, <1>7, <1>8
<1> QED BY <1>6, <1>9 DEF TellInv

\* Telling the device moves the address from the thread to what was told.
LEMMA TellReply ==
    ASSUME TypeInv, KeptInv, TellInv, NEW t \in registering, Reply(t)
    PROVE  TellInv'
<1>1. /\ t.pc = "reply" /\ t.ip \in Nat /\ t.addr \in Dev /\ told \in [Dev -> Seq(Nat)]
      /\ told' = [told EXCEPT ![t.addr] = Append(told[t.addr], t.ip)]
      /\ registering' = registering \ {t} /\ UNCHANGED xbee_devices
      /\ \E k \in Slot : Has(k, t.addr)
  BY DEF Reply, Updated, Ends, TypeInv, ThreadsOK, ManagerOK, Thread, KeptInv
<1>2. SameTable
  BY <1>1, SameEntries
<1>3. PICK q \in Seq(Nat) : q = told[t.addr]
  BY <1>1
<1>4. /\ told'[t.addr] = Append(q, t.ip)
      /\ \A d \in Dev : d # t.addr => told'[d] = told[d]
  BY <1>1, <1>3
<1>5. /\ Len(q) \in Nat /\ Len(Append(q, t.ip)) = Len(q) + 1 /\ Append(q, t.ip) # <<>>
      /\ \A k \in 1 .. Len(q) : Append(q, t.ip)[k] = q[k]
      /\ Append(q, t.ip)[Len(q) + 1] = t.ip
  BY <1>1, <1>3, Longer
<1>6. ToldOf(t.addr)' = ToldOf(t.addr) \cup {t.ip}
  <2>1. PICK p : p = Append(q, t.ip)
    OBVIOUS
  <2>2. \A k \in 1 .. Len(q) + 1 : k \in 1 .. Len(q) \/ k = Len(q) + 1
    BY <1>5
  <2>3. \A k \in 1 .. Len(q) : k \in 1 .. Len(q) + 1
    BY <1>5
  <2>4. Len(q) + 1 \in 1 .. Len(q) + 1
    BY <1>5
  <2>5. {p[k] : k \in 1 .. Len(q) + 1} = {q[k] : k \in 1 .. Len(q)} \cup {t.ip}
    BY <1>5, <2>1, <2>2, <2>3, <2>4
  <2> QED BY <1>3, <1>4, <1>5, <2>1, <2>5 DEF ToldOf
<1>7. /\ Telling(t.addr)' = Telling(t.addr) \ {t}
      /\ \A d \in Dev : d # t.addr => Telling(d)' = Telling(d) /\ ToldOf(d)' = ToldOf(d)
  BY <1>1, <1>4 DEF Telling, ToldOf
<1>8. (\A d \in Dev : told[d] # <<>> => \E k \in Slot : Has(k, d))'
  <2>1. \A d \in Dev : told'[d] # <<>> => \E k \in Slot : Has(k, d)
    BY <1>1, <1>4 DEF TellInv
  <2> QED BY <1>2, <2>1, SameEntries
<1>9. ASSUME NEW k \in Entries PROVE TellAt(k)'
  <2>1. PICK e \in Entry : e = xbee_devices[k]
    BY <1>9, EntryOf DEF Exists
  <2>2. TellAt(k) /\ xbee_devices'[k] = e /\ e.addr \in Dev
    BY <1>1, <1>9, <2>1, EntryIsEntry DEF TellInv
  <2>3. CASE e.addr # t.addr
    BY <1>4, <1>7, <2>1, <2>2, <2>3 DEF TellAt
  <2>4. CASE e.addr = t.addr
    <3>1. e.ip # NULL /\ e.ip \in {u.ip : u \in Telling(t.addr)} \cup ToldOf(t.addr)
      BY <1>1, <2>1, <2>2, <2>4 DEF TellAt, Telling
    <3>2. e.ip \in {u.ip : u \in Telling(t.addr)'} \cup ToldOf(t.addr)'
      BY <1>6, <1>7, <3>1
    <3> QED BY <2>2, <2>4, <3>1, <3>2 DEF TellAt
  <2> QED BY <2>3, <2>4
<1> QED BY <1>2, <1>8, <1>9 DEF TellInv, SameTable

LEMMA TellStep ==
    ASSUME Cardinality(Dev) <= MAXDEVICECOUNT, TypeInv, KeptInv, TellInv, ~ timeouts, [Next]_vars
    PROVE  TellInv'
<1> USE DEF threads, modem, manager, history
<1>1. ASSUME SameTable, UNCHANGED told, \A u : u.pc = "reply" => (u \in registering' <=> u \in registering)
      PROVE  TellInv'
  <2>1. \A d \in Dev : Telling(d)' = Telling(d)
    BY <1>1 DEF Telling
  <2> QED BY <1>1, <2>1, TellAgain
<1>2. CASE Reader
  <2>1. ~ ReaderCrashes
    BY DEF ReaderCrashes, KeptInv, Has
  <2>2. CASE TakePackage
    <3>1. UNCHANGED <<xbee_devices, told>>
      BY <2>2 DEF TakePackage
    <3>2. \/ registering' = registering
          \/ \E t \in Thread : t.pc = "ask" /\ registering' = registering \cup {t}
      BY <2>2, ThreadStarts DEF TypeInv
    <3> QED BY <1>1, <3>1, <3>2, SameEntries
  <2>3. CASE ReadStatus
    BY <1>1, <2>3, SameEntries DEF ReadStatus
  <2>4. CASE SetDeviceReady
    BY <1>1, <2>4, SameEntries DEF SetDeviceReady
  <2> QED BY <1>2, <2>1, <2>2, <2>3, <2>4, TellNew DEF Reader
<1>3. CASE Writer
  <2>1. UNCHANGED <<told, registering>>
    BY <1>3, NoneRemoved DEF Writer, TakeCall, BeginChunk, SeeReady, ClearReady, SendChunk
  <2>2. UNCHANGED xbee_devices \/ ClearReady
    BY <1>3, NoneRemoved DEF Writer, TakeCall, BeginChunk, SeeReady, SendChunk
  <2> QED BY <1>1, <2>1, <2>2, SameEntries
<1>4. ASSUME NEW t \in registering, Registering(t) PROVE TellInv'
  <2>1. CASE AskIp(t) \/ FindEntry(t)
    <3>1. /\ t.pc \in {"ask", "find"} /\ UNCHANGED told
          /\ ~ WriteIp(t) /\ ~ Reply(t)
      BY <2>1 DEF AskIp, FindEntry, WriteIp, Reply, Updated
    <3>2. /\ SameTable
          /\ registering' = registering \ {t} \/ \E u : Becomes(t, u) /\ u.pc \in {"find", "write"}
      BY <1>4, <3>1, ThreadMoves
    <3> QED BY <1>1, <3>1, <3>2 DEF Becomes
  <2> QED BY <1>4, <2>1, TellWrite, TellReply, EntryFound DEF Registering
<1>5. CASE Environment
  BY <1>1, <1>5, SameEntries DEF Environment, DeviceSends, ModemReports, ManagerCalls
<1>6. CASE UNCHANGED vars
  BY <1>1, <1>6, SameEntries DEF vars
<1> QED BY <1>2, <1>3, <1>4, <1>5, <1>6 DEF Next

LEMMA Reachable ==
    ASSUME TypeInv, TellInv
    PROVE  ToldIsReachable
<1> SUFFICES ASSUME NEW d \in Dev, Len(told[d]) = 1, \A t \in registering : t.addr # d
             PROVE  \E k \in Entries : xbee_devices[k].addr = d /\ xbee_devices[k].ip = told[d][1]
  BY DEF ToldIsReachable
<1>1. told[d] # <<>>
  <2>1. Len(<<>>) = 0
    OBVIOUS
  <2> QED BY <2>1
<1>2. PICK k \in Entries : xbee_devices[k].addr = d
  BY <1>1 DEF TellInv, Has, Exists
<1>3. Telling(d) = {} /\ ToldOf(d) = {told[d][1]}
  <2>1. \A j \in 1 .. 1 : j = 1
    OBVIOUS
  <2> QED BY <2>1 DEF Telling, ToldOf
<1>4. TellAt(k) /\ told[d] # <<>>
  BY <1>1 DEF TellInv
<1> QED BY <1>2, <1>3, <1>4 DEF TellAt

\* Where no status is late: what the two theorems below rest on.
Kept == timeouts \/ (KeptInv /\ TellInv)

\* While there is room in the table for all the devices and no status comes too
\* late, no entry is removed (remove_xbee_device), so that no thread follows an
\* index or a pointer to an entry that is gone.
THEOREM NoneFollowsMissing ==
    ASSUME Cardinality(Dev) <= MAXDEVICECOUNT
    PROVE  Spec => [](timeouts \/ ~ crashed)
<1>1. Init => Kept
  BY KeptInit DEF Kept
<1>2. TypeInv /\ Kept /\ [Next]_vars => Kept'
  BY KeptStep, TellStep, StillGiven DEF Kept, timeouts
<1>3. Kept => timeouts \/ ~ crashed
  BY DEF Kept, KeptInv, crashed
<1> QED BY <1>1, <1>2, <1>3, TypeInvariant, PTL DEF Spec

\* And a device that was told one address, and is not telling again, can be
\* reached by it: the address stands in the entry before the device learns of it.
THEOREM AddressReachable ==
    ASSUME Cardinality(Dev) <= MAXDEVICECOUNT
    PROVE  Spec => []ToldIsReachable
<1>1. Init => Kept
  BY KeptInit DEF Kept
<1>2. TypeInv /\ Kept /\ [Next]_vars => Kept'
  BY KeptStep, TellStep, StillGiven DEF Kept, timeouts
<1>3. TypeInv /\ Kept => ToldIsReachable
  BY Reachable DEF Kept, ToldIsReachable
<1> QED BY <1>1, <1>2, <1>3, TypeInvariant, PTL DEF Spec

----------------------------------------------------------------------------
\* The statuses under way.

LEMMA CountType ==
    ASSUME NEW S, NEW q \in Seq(S), NEW k
    PROVE  IsFiniteSet(StatusesIn(q, k)) /\ Cardinality(StatusesIn(q, k)) \in Nat
<1>1. PICK n \in Nat : n = Len(q)
  OBVIOUS
<1>2. IsFiniteSet(1 .. n)
  <2>1. 1 \in Int /\ n \in Int
    BY <1>1
  <2> QED BY <2>1, FS_Interval, Zenon
<1>3. StatusesIn(q, k) \subseteq 1 .. n
  BY <1>1 DEF StatusesIn
<1> QED BY <1>2, <1>3, FS_Subset, FS_CardinalityType

LEMMA CountAppend ==
    ASSUME NEW S, NEW q \in Seq(S), NEW e \in S, NEW k
    PROVE  Cardinality(StatusesIn(Append(q, e), k)) =
             Cardinality(StatusesIn(q, k)) + (IF IsStatus(e, k) THEN 1 ELSE 0)
<1>1. PICK n \in Nat : n = Len(q)
  OBVIOUS
<1>2. PICK p : p = Append(q, e)
  OBVIOUS
<1>3. Len(p) = n + 1 /\ p[n + 1] = e /\ \A m \in 1 .. n : p[m] = q[m]
  BY <1>1, <1>2, Longer
<1>4. IsFiniteSet(StatusesIn(q, k)) /\ Cardinality(StatusesIn(q, k)) \in Nat
  BY CountType
<1>5. n + 1 \notin StatusesIn(q, k)
  BY <1>1 DEF StatusesIn
<1>6. StatusesIn(p, k) = IF IsStatus(e, k) THEN StatusesIn(q, k) \cup {n + 1} ELSE StatusesIn(q, k)
  <2>1. \A m \in 1 .. n + 1 : m \in 1 .. n \/ m = n + 1
    BY <1>1
  <2>2. n + 1 \in 1 .. n + 1 /\ n + 1 \notin 1 .. n /\ \A m \in 1 .. n : m \in 1 .. n + 1
    BY <1>1
  <2> QED BY <1>1, <1>3, <2>1, <2>2 DEF StatusesIn
<1>7. Cardinality(StatusesIn(q, k) \cup {n + 1}) = Cardinality(StatusesIn(q, k)) + 1
  BY <1>4, <1>5, FS_AddElement
<1> QED BY <1>2, <1>4, <1>6, <1>7

LEMMA CountTail ==
    ASSUME NEW S, NEW q \in Seq(S), q # <<>>, NEW k
    PROVE  Cardinality(StatusesIn(q, k)) =
                Cardinality(StatusesIn(Tail(q), k)) + (IF IsStatus(Head(q), k) THEN 1 ELSE 0)
<1>1. PICK n \in Nat \ {0} : n = Len(q)
  BY Shorter
<1>2. PICK p \in Seq(S) : p = Tail(q)
  BY Shorter
<1>3. Len(p) = n - 1 /\ Head(q) = q[1] /\ \A m \in 1 .. n - 1 : p[m] = q[m + 1]
  BY <1>1, <1>2, Shorter
<1> DEFINE A == StatusesIn(q, k) \ {1}
           B == StatusesIn(p, k)
           up == [m \in B |-> m + 1]
<1>4. IsFiniteSet(StatusesIn(q, k)) /\ IsFiniteSet(B) /\ Cardinality(B) \in Nat
  BY <1>2, CountType
<1>5. Cardinality(A) = Cardinality(B)
  <2>1. \A m \in B : m \in 1 .. n - 1 /\ IsStatus(q[m + 1], k)
    BY <1>1, <1>3 DEF StatusesIn
  <2>2. \A m \in B : m + 1 \in A
    <3>1. \A m \in 1 .. n - 1 : m + 1 \in 1 .. n /\ m + 1 # 1
      BY <1>1
    <3> QED BY <1>1, <2>1, <3>1 DEF StatusesIn
  <2>3. \A m \in A : m - 1 \in B /\ (m - 1) + 1 = m
    <3>1. ASSUME NEW m \in A PROVE m - 1 \in B /\ (m - 1) + 1 = m
      <4>1. m \in 1 .. n /\ m # 1 /\ IsStatus(q[m], k)
        BY <1>1 DEF StatusesIn
      <4>2. m - 1 \in 1 .. n - 1 /\ (m - 1) + 1 = m
        BY <1>1, <4>1
      <4>3. p[m - 1] = q[m]
        BY <1>3, <4>2
      <4> QED BY <1>3, <4>1, <4>2, <4>3 DEF StatusesIn
    <3> QED BY <3>1
  <2>4. \A m, j \in B : m + 1 = j + 1 => m = j
    BY <1>1, <2>1
  <2> HIDE DEF A, B
  <2>5. up \in [B -> A]
    BY <2>2
  <2>6. \A m, j \in B : up[m] = up[j] => m = j
    BY <2>4
  <2>7. \A m \in A : \E j \in B : up[j] = m
    BY <2>3
  <2>8. ExistsBijection(B, A)
    <3> HIDE DEF up
    <3> QED BY <2>5, <2>6, <2>7, Fun_IsBij, Fun_ExistsBij
  <2> QED BY <1>4, <2>8, FS_Bijection
<1>6. CASE IsStatus(Head(q), k)
  <2>1. 1 \in StatusesIn(q, k)
    <3>1. 1 \in 1 .. n
      BY <1>1
    <3> QED BY <1>1, <1>3, <1>6, <3>1 DEF StatusesIn
  <2>2. Cardinality(A) = Cardinality(StatusesIn(q, k)) - 1 /\ Cardinality(StatusesIn(q, k)) \in Nat
    BY <1>4, <2>1, FS_RemoveElement, FS_CardinalityType
  <2> QED BY <1>2, <1>4, <1>5, <1>6, <2>2
<1>7. CASE ~ IsStatus(Head(q), k)
  <2>1. A = StatusesIn(q, k)
    BY <1>3, <1>7 DEF StatusesIn
  <2>2. Cardinality(StatusesIn(q, k)) = Cardinality(B)
    <3> HIDE DEF A, B
    <3> QED BY <1>5, <2>1
  <2> QED BY <1>2, <1>4, <1>7, <2>2
<1> QED BY <1>6, <1>7

\* What stays, while the state it is read from does.
LEMMA Still ==
    /\ UNCHANGED xbee_devices => \A k : Cleared(k)' = Cleared(k)
    /\ UNCHANGED rx => \A k : OnWay(k)' = OnWay(k)
    /\ UNCHANGED reader => \A k : AtReader(k)' = AtReader(k)
    /\ UNCHANGED writer => \A k : AtWriter(k)' = AtWriter(k)
    /\ reader.pc # "status" => \A k : AtReader(k) = 0
    /\ reader'.pc # "status" => \A k : AtReader(k)' = 0
    /\ writer.pc # "send" => \A k : AtWriter(k) = 0
    /\ writer'.pc # "send" => \A k : AtWriter(k)' = 0
BY DEF Cleared, Exists, Entries, OnWay, StatusesIn, AtReader, AtWriter

LEMMA Numbers ==
    ASSUME TypeInv, NEW k \in Slot
    PROVE  /\ statuses[k + 1] \in Nat /\ OnWay(k) \in Nat
           /\ AtReader(k) \in {0, 1} /\ AtWriter(k) \in {0, 1} /\ Cleared(k) \in {0, 1}
           /\ Exists(k) => xbee_devices[k].ready_to_receive \in {0, 1}
<1>1. statuses[k + 1] \in Nat
  BY FrameIds DEF TypeInv, ModemOK
<1>2. OnWay(k) \in Nat
  BY CountType DEF OnWay, TypeInv, ModemOK
<1>3. Exists(k) => xbee_devices[k].ready_to_receive \in {0, 1}
  BY EntryOf, EntryIsEntry
<1> QED BY <1>1, <1>2, <1>3 DEF AtReader, AtWriter, Cleared

LEMMA FlightInit == Init => FlightInv
<1> SUFFICES ASSUME Init PROVE FlightInv
  OBVIOUS
<1>1. TypeInv /\ rx = <<>> /\ writer.pc = "recv" /\ reader.pc = "read" /\ \A k \in Slot : xbee_devices[k] = NULL
  BY TypeInit DEF Init
<1>2. ASSUME NEW k \in Slot PROVE Balanced(k)
  <2>1. statuses[k + 1] = 0
    BY FrameIds DEF Init
  <2>2. StatusesIn(rx, k) = {}
    <3>1. Len(rx) = 0 /\ 1 .. 0 = {}
      BY <1>1
    <3> QED BY <3>1 DEF StatusesIn
  <2>3. OnWay(k) = 0
    BY <2>2, FS_EmptySet DEF OnWay
  <2>4. AtReader(k) = 0 /\ AtWriter(k) = 0
    BY <1>1, Still
  <2>5. Cleared(k) = 0
    BY <1>1, <1>2 DEF Cleared, Exists, Entries
  <2> QED BY <2>1, <2>3, <2>4, <2>5 DEF Balanced
<1>3. \A m \in 1 .. Len(rx) : FALSE
  <2>1. Len(rx) = 0 /\ 1 .. 0 = {}
    BY <1>1
  <2> QED BY <2>1
<1> QED BY <1>1, <1>2, <1>3 DEF FlightInv

\* A frame is taken from rx, or added to it.
LEMMA FrameTaken ==
    ASSUME TypeInv, FlightInv, rx # <<>>, rx' = Tail(rx), NEW k
    PROVE  /\ \A m \in 1 .. Len(rx') : rx'[m].api = "ZB_TX_STATUS_RESPONSE" => rx'[m].ok
           /\ Head(rx).api = "ZB_TX_STATUS_RESPONSE" => Head(rx).ok
           /\ OnWay(k) = OnWay(k)' + (IF IsStatus(Head(rx), k) THEN 1 ELSE 0)
<1>1. rx \in Seq(RxFrame \cup StatusFrame)
  BY DEF TypeInv, ModemOK
<1>2. PICK q : q = Tail(rx)
  OBVIOUS
<1>3. /\ \A m \in 1 .. Len(q) : m + 1 \in 1 .. Len(rx) /\ q[m] = rx[m + 1]
      /\ Head(rx) = rx[1] /\ 1 \in 1 .. Len(rx)
  BY <1>1, <1>2, Shorter
<1>4. \A m \in 1 .. Len(q) : q[m].api = "ZB_TX_STATUS_RESPONSE" => q[m].ok
  BY <1>3 DEF FlightInv
<1>5. Cardinality(StatusesIn(rx, k)) = Cardinality(StatusesIn(q, k)) + (IF IsStatus(Head(rx), k) THEN 1 ELSE 0)
  BY <1>1, <1>2, CountTail
<1>6. OnWay(k)' = Cardinality(StatusesIn(q, k))
  BY <1>2 DEF OnWay, StatusesIn
<1> QED BY <1>2, <1>3, <1>4, <1>5, <1>6 DEF FlightInv, OnWay

LEMMA FrameAdded ==
    ASSUME TypeInv, FlightInv, NEW f \in RxFrame \cup StatusFrame, rx' = Append(rx, f),
           f.api = "ZB_TX_STATUS_RESPONSE" => f.ok, NEW k
    PROVE  /\ \A m \in 1 .. Len(rx') : rx'[m].api = "ZB_TX_STATUS_RESPONSE" => rx'[m].ok
           /\ OnWay(k)' = OnWay(k) + (IF IsStatus(f, k) THEN 1 ELSE 0)
<1>1. rx \in Seq(RxFrame \cup StatusFrame)
  BY DEF TypeInv, ModemOK
<1>2. PICK q : q = Append(rx, f)
  OBVIOUS
<1>3. PICK n \in Nat : n = Len(rx)
  BY <1>1
<1>4. Len(q) = n + 1 /\ q[n + 1] = f /\ \A m \in 1 .. n : q[m] = rx[m]
  BY <1>1, <1>2, <1>3, Longer
<1>5. \A m \in 1 .. n + 1 : m \in 1 .. n \/ m = n + 1
  BY <1>3
<1>6. \A m \in 1 .. Len(q) : q[m].api = "ZB_TX_STATUS_RESPONSE" => q[m].ok
  BY <1>3, <1>4, <1>5 DEF FlightInv
<1>7. Cardinality(StatusesIn(q, k)) = Cardinality(StatusesIn(rx, k)) + (IF IsStatus(f, k) THEN 1 ELSE 0)
  BY <1>1, <1>2, CountAppend
<1>8. OnWay(k)' = Cardinality(StatusesIn(q, k))
  BY <1>2 DEF OnWay, StatusesIn
<1> QED BY <1>2, <1>6, <1>7, <1>8 DEF OnWay

\* The steps of the reader.
LEMMA FlightReader ==
    ASSUME Cardinality(Dev) <= MAXDEVICECOUNT, TypeInv, KeptInv, FlightInv, Reader
    PROVE  FlightInv'
<1> USE DEF threads, modem, manager, history
<1> DEFINE AllOk(q) == \A m \in 1 .. Len(q) : q[m].api = "ZB_TX_STATUS_RESPONSE" => q[m].ok
<1>0. /\ writer.pc = "clear" => Exists(writer.index) /\ xbee_devices[writer.index].ready_to_receive = 1
      /\ \A k \in Slot \ {0} : Balanced(k)
      /\ AllOk(rx)
  BY DEF FlightInv, KeptInv, Sending
<1>1. ~ ReaderCrashes
  BY DEF KeptInv, ReaderCrashes, Has
<1>2. CASE ReadPackage
  <2>1. PICK f : f = Head(rx)
    OBVIOUS
  <2>2. PICK n \in Slot, new \in BOOLEAN : EntryFor(f, n, new)
    BY <1>2, <2>1, PackageRead
  <2>3. f \in RxFrame /\ rx # <<>> /\ rx' = Tail(rx) /\ reader.pc = "read" /\ reader'.pc = "package"
    BY <1>2, <2>1, PackageRead DEF ReadPackage
  <2>4. UNCHANGED <<writer, statuses>>
    BY <1>2 DEF ReadPackage
  <2>5. \A k \in Slot : /\ Cleared(k)' = Cleared(k)
                        /\ Exists(k) => xbee_devices'[k] = xbee_devices[k]
    <3>1. CASE ~ new
      BY <2>2, <3>1, Still DEF EntryFor
    <3>2. CASE new
      <4>1. /\ ~ Exists(n) /\ Entries' = Entries \cup {n}
            /\ \A j \in Entries : xbee_devices'[j] = xbee_devices[j]
            /\ xbee_devices'[n].ready_to_receive = 1
        BY <2>2, <3>2 DEF EntryFor
      <4> QED BY <4>1 DEF Cleared, Exists
    <3> QED BY <3>1, <3>2
  <2>6. AllOk(rx') /\ \A k \in Slot : OnWay(k)' = OnWay(k)
    <3>1. ASSUME NEW k \in Slot PROVE AllOk(rx') /\ OnWay(k) = OnWay(k)' + 0 /\ OnWay(k)' \in Nat
      <4>1. ~ IsStatus(Head(rx), k)
        BY <2>1, <2>3, Frames
      <4>2. rx' \in Seq(RxFrame \cup StatusFrame)
        BY <2>3, Shorter DEF TypeInv, ModemOK
      <4>3. OnWay(k)' \in Nat
        BY <4>2, CountType DEF OnWay, StatusesIn
      <4> QED BY <2>3, <4>1, <4>3, FrameTaken
    <3>2. 0 \in Slot
      BY LimitsAssumption DEF Slot
    <3> QED BY <3>1, <3>2
  <2>7. \A k \in Slot \ {0} : Balanced(k)'
    BY <1>0, <2>3, <2>4, <2>5, <2>6, Still DEF Balanced
  <2>8. writer'.pc = "clear" => xbee_devices'[writer'.index].ready_to_receive = 1
    BY <1>0, <2>4, <2>5 DEF Exists, Entries
  <2> QED BY <2>6, <2>7, <2>8 DEF FlightInv
<1>3. CASE TakePackage
  <2>1. reader.pc = "package" /\ reader'.pc = "read" /\ UNCHANGED <<xbee_devices, writer, rx, statuses>>
    BY <1>3 DEF TakePackage, ReaderAt
  <2>2. \A k \in Slot \ {0} : Balanced(k)'
    BY <1>0, <2>1, Still DEF Balanced
  <2> QED BY <1>0, <2>1, <2>2 DEF FlightInv
<1>4. CASE ReadStatus
  <2>1. PICK f : f = Head(rx)
    OBVIOUS
  <2>2. /\ reader.pc = "read" /\ rx # <<>> /\ f.api = "ZB_TX_STATUS_RESPONSE" /\ rx' = Tail(rx)
        /\ UNCHANGED <<xbee_devices, writer, statuses>>
        /\ IF f.ok /\ Exists(f.frameId - 1) THEN reader' = [pc |-> "status", index |-> f.frameId - 1, frame |-> NULL]
                                            ELSE UNCHANGED reader
    BY <1>4, <2>1 DEF ReadStatus, IndexOf, ReaderAt
  <2>3. f \in StatusFrame /\ f.frameId \in 1 .. MAXDEVICECOUNT
    BY <2>1, <2>2, Shorter, Frames DEF TypeInv, ModemOK
  <2>4. PICK j \in Slot : j = f.frameId - 1 /\ \A k \in Slot : IsStatus(f, k) <=> k = j
    <3>1. f.frameId - 1 \in Slot /\ \A k \in Slot : f.frameId = k + 1 <=> k = f.frameId - 1
      BY <2>3, LimitsAssumption DEF Slot
    <3> QED BY <2>2, <3>1 DEF IsStatus
  <2>5. f.ok /\ AllOk(rx') /\ \A k \in Slot : OnWay(k) = OnWay(k)' + (IF k = j THEN 1 ELSE 0)
    BY <2>1, <2>2, <2>4, FrameTaken
  <2>6. \A k \in Slot : OnWay(k)' \in Nat
    <3>1. rx' \in Seq(RxFrame \cup StatusFrame)
      BY <2>2, Shorter DEF TypeInv, ModemOK
    <3> QED BY <3>1, CountType DEF OnWay, StatusesIn
  <2>7. ASSUME NEW k \in Slot \ {0} PROVE Balanced(k)'
    <3>1. /\ AtReader(k) = 0 /\ AtWriter(k)' = AtWriter(k) /\ Cleared(k)' = Cleared(k)
          /\ statuses'[k + 1] = statuses[k + 1]
      BY <2>2, Still
    <3>2. AtReader(k)' = IF k = j THEN 1 ELSE 0
      <4>1. CASE Exists(j)
        <5>1. reader'.pc = "status" /\ reader'.index = j
          BY <2>2, <2>4, <2>5, <4>1
        <5> QED BY <5>1 DEF AtReader
      <4>2. CASE ~ Exists(j)
        <5>1. UNCHANGED reader /\ AtReader(k)' = 0
          BY <2>2, <2>4, <4>2, Still
        <5>2. k # j
          <6> SUFFICES ASSUME k = j PROVE FALSE
            OBVIOUS
          <6>1. Cleared(k) = 0
            BY <4>2 DEF Cleared
          <6> QED BY <1>0, <2>5, <2>6, <6>1, Numbers DEF Balanced
        <5> QED BY <5>1, <5>2
      <4> QED BY <4>1, <4>2
    <3>3. OnWay(k)' + AtReader(k)' = OnWay(k) + AtReader(k)
      BY <2>5, <2>6, <3>1, <3>2
    <3> QED BY <1>0, <2>6, <3>1, <3>2, <3>3, Numbers DEF Balanced
  <2> QED BY <1>0, <2>2, <2>5, <2>7 DEF FlightInv
<1>5. CASE SetDeviceReady
  <2>1. PICK j : j = reader.index
    OBVIOUS
  <2>2. /\ reader.pc = "status" /\ Exists(j) /\ SetReady(j, 1) /\ reader'.pc = "read"
        /\ UNCHANGED <<writer, statuses, rx>>
    BY <1>5, <2>1 DEF SetDeviceReady, ReaderAt
  <2>3. /\ Entries' = Entries /\ xbee_devices'[j].ready_to_receive = 1
        /\ \A k \in Entries : k # j => xbee_devices'[k] = xbee_devices[k]
    BY <2>2, ReadySet
  <2>4. ASSUME NEW k \in Slot \ {0} PROVE Balanced(k)'
    <3>1. /\ AtReader(k)' = 0 /\ AtWriter(k)' = AtWriter(k) /\ OnWay(k)' = OnWay(k)
          /\ statuses'[k + 1] = statuses[k + 1]
      BY <2>2, Still
    <3>2. AtReader(k) = IF k = j THEN 1 ELSE 0
      BY <2>1, <2>2 DEF AtReader
    <3>3. CASE k = j
      <4>1. Cleared(k)' = 0
        BY <2>2, <2>3, <3>3 DEF Cleared, Exists
      <4> QED BY <1>0, <3>1, <3>2, <3>3, <4>1, Numbers DEF Balanced
    <3>4. CASE k # j
      <4>1. Cleared(k)' = Cleared(k)
        BY <2>3, <3>4 DEF Cleared, Exists
      <4> QED BY <1>0, <3>1, <3>2, <3>4, <4>1 DEF Balanced
    <3> QED BY <3>3, <3>4
  <2>5. writer'.pc = "clear" => xbee_devices'[writer'.index].ready_to_receive = 1
    BY <1>0, <2>2, <2>3 DEF Exists
  <2> QED BY <1>0, <2>2, <2>4, <2>5 DEF FlightInv
<1> QED BY <1>1, <1>2, <1>3, <1>4, <1>5 DEF Reader

\* The steps of the writer.
LEMMA FlightWriter ==
    ASSUME TypeInv, KeptInv, FlightInv, ~ timeouts, Writer
    PROVE  FlightInv'
<1> USE DEF threads, modem, manager, history
<1>0. /\ writer.pc = "clear" => Exists(writer.index) /\ xbee_devices[writer.index].ready_to_receive = 1
      /\ \A k \in Slot \ {0} : Balanced(k)
      /\ \A m \in 1 .. Len(rx) : rx[m].api = "ZB_TX_STATUS_RESPONSE" => rx[m].ok
  BY DEF FlightInv, KeptInv, Sending
<1>1. UNCHANGED <<reader, rx>>
  BY NoneRemoved DEF Writer, TakeCall, BeginChunk, SeeReady, ClearReady, SendChunk
<1>2. ASSUME UNCHANGED <<xbee_devices, statuses>>, writer.pc # "send", writer'.pc # "send",
             writer'.pc = "clear" => xbee_devices'[writer'.index].ready_to_receive = 1
      PROVE  FlightInv'
  <2>1. \A k \in Slot \ {0} : Balanced(k)'
    BY <1>0, <1>1, <1>2, Still DEF Balanced
  <2> QED BY <1>0, <1>1, <1>2, <2>1 DEF FlightInv
<1>3. ASSUME NEW chance \in SUBSET Slot, TakeCall(chance) PROVE FlightInv'
  <2>1. writer.pc = "recv" /\ writer'.pc \in {"recv", "chunk"} /\ UNCHANGED <<xbee_devices, statuses>>
    BY <1>3, CallTaken DEF TakeCall
  <2> QED BY <1>2, <2>1
<1>4. CASE BeginChunk
  <2>1. PICK pc \in {"remove", "wait"} : WriterAt(pc)
    BY <1>4 DEF BeginChunk
  <2>2. writer.pc = "chunk" /\ UNCHANGED <<xbee_devices, statuses>>
    BY <1>4 DEF BeginChunk
  <2>3. writer'.pc = pc
    BY <2>1, <2>2, WriterFields DEF Sending
  <2> QED BY <1>2, <2>1, <2>2, <2>3
<1>5. CASE SeeReady
  <2>1. /\ writer.pc = "wait" /\ xbee_devices[writer.index].ready_to_receive = 1 /\ WriterAt("clear")
        /\ UNCHANGED <<xbee_devices, statuses>>
    BY <1>5 DEF SeeReady
  <2>2. writer'.pc = "clear" /\ writer'.index = writer.index
    BY <2>1, WriterFields DEF Sending
  <2> QED BY <1>2, <2>1, <2>2
<1>6. CASE ClearReady
  <2>1. PICK j : j = writer.index
    OBVIOUS
  <2>2. /\ writer.pc = "clear" /\ SetReady(j, 0) /\ WriterAt("send") /\ UNCHANGED statuses
        /\ Exists(j) /\ xbee_devices[j].ready_to_receive = 1
    BY <1>0, <1>6, <2>1 DEF ClearReady
  <2>3. writer'.pc = "send" /\ writer'.index = j
    BY <2>1, <2>2, WriterFields DEF Sending
  <2>4. /\ Entries' = Entries /\ xbee_devices'[j].ready_to_receive = 0
        /\ \A k \in Entries : k # j => xbee_devices'[k] = xbee_devices[k]
    BY <2>2, ReadySet
  <2>5. ASSUME NEW k \in Slot \ {0} PROVE Balanced(k)'
    <3>1. /\ AtWriter(k) = 0 /\ AtReader(k)' = AtReader(k) /\ OnWay(k)' = OnWay(k)
          /\ statuses'[k + 1] = statuses[k + 1]
      BY <1>1, <2>2, Still
    <3>2. AtWriter(k)' = IF k = j THEN 1 ELSE 0
      BY <2>3 DEF AtWriter
    <3>3. CASE k = j
      <4>1. Cleared(k) = 0 /\ Cleared(k)' = 1
        BY <2>2, <2>4, <3>3 DEF Cleared, Exists
      <4> QED BY <1>0, <3>1, <3>2, <3>3, <4>1, Numbers DEF Balanced
    <3>4. CASE k # j
      <4>1. Cleared(k)' = Cleared(k)
        BY <2>4, <3>4 DEF Cleared, Exists
      <4> QED BY <1>0, <3>1, <3>2, <3>4, <4>1 DEF Balanced
    <3> QED BY <3>3, <3>4
  <2> QED BY <1>0, <1>1, <2>3, <2>5 DEF FlightInv
<1>7. CASE SendChunk
  <2>1. PICK j \in Slot : j = writer.index
    BY <1>7 DEF SendChunk, TypeInv, WriterOK, Sending
  <2>2. /\ writer.pc = "send" /\ NextChunk /\ UNCHANGED xbee_devices
        /\ statuses' = [statuses EXCEPT ![j + 1] = @ + 1]
    BY <1>7, <2>1 DEF SendChunk
  <2>3. writer'.pc \in {"recv", "chunk"}
    BY <2>2, NextFields DEF Sending
  <2>4. \A g \in 1 .. MAXDEVICECOUNT : statuses'[g] = IF g = j + 1 THEN statuses[j + 1] + 1 ELSE statuses[g]
    BY <2>2, FrameIds, Owed
  <2>5. ASSUME NEW k \in Slot \ {0} PROVE Balanced(k)'
    <3>1. /\ AtWriter(k)' = 0 /\ AtReader(k)' = AtReader(k) /\ OnWay(k)' = OnWay(k)
          /\ Cleared(k)' = Cleared(k)
      BY <1>1, <2>2, <2>3, Still
    <3>2. AtWriter(k) = IF k = j THEN 1 ELSE 0
      BY <2>1, <2>2 DEF AtWriter
    <3>3. statuses'[k + 1] = IF k = j THEN statuses[k + 1] + 1 ELSE statuses[k + 1]
      <4>1. k + 1 \in 1 .. MAXDEVICECOUNT /\ (k + 1 = j + 1 <=> k = j)
        BY FrameIds DEF Slot
      <4> QED BY <2>4, <4>1
    <3> QED BY <1>0, <3>1, <3>2, <3>3, Numbers DEF Balanced
  <2> QED BY <1>0, <1>1, <2>3, <2>5 DEF FlightInv
<1> QED BY <1>3, <1>4, <1>5, <1>6, <1>7, NoneRemoved DEF Writer

\* The steps of the registration threads: their replies ask for statuses of the
\* first entry only.
LEMMA FlightRegistering ==
    ASSUME TypeInv, KeptInv, FlightInv, NEW t \in registering, Registering(t)
    PROVE  FlightInv'
<1> USE DEF threads, modem, manager, history
<1>0. /\ writer.pc = "clear" => Exists(writer.index) /\ xbee_devices[writer.index].ready_to_receive = 1
      /\ \A k \in Slot \ {0} : Balanced(k)
      /\ \A m \in 1 .. Len(rx) : rx[m].api = "ZB_TX_STATUS_RESPONSE" => rx[m].ok
  BY DEF FlightInv, KeptInv, Sending
<1>1. UNCHANGED <<reader, writer, rx>>
  BY EntryFound DEF Registering, AskIp, FindEntry, WriteIp, Reply
<1>2. \A k \in Slot \ {0} : statuses'[k + 1] = statuses[k + 1]
  <2>1. CASE Reply(t)
    <3>1. statuses' = [statuses EXCEPT ![DEFAULT_FRAME_ID] = @ + 1]
      BY <2>1 DEF Reply
    <3>2. \A g \in 1 .. MAXDEVICECOUNT : g # DEFAULT_FRAME_ID => statuses'[g] = statuses[g]
      BY <3>1, FrameIds, Owed
    <3>3. \A k \in Slot \ {0} : k + 1 \in 1 .. MAXDEVICECOUNT /\ k + 1 # DEFAULT_FRAME_ID
      BY FrameIds DEF Slot, DEFAULT_FRAME_ID
    <3> QED BY <3>2, <3>3
  <2>2. CASE ~ Reply(t)
    BY <2>2, EntryFound DEF Registering, AskIp, FindEntry, WriteIp
  <2> QED BY <2>1, <2>2
<1>3. Entries' = Entries /\ \A k \in Entries : xbee_devices'[k].ready_to_receive = xbee_devices[k].ready_to_receive
  <2>1. CASE WriteIp(t)
    BY <2>1, IpWritten
  <2>2. CASE ~ WriteIp(t)
    BY <2>2, EntryFound DEF Registering, AskIp, FindEntry, Reply, Entries
  <2> QED BY <2>1, <2>2
<1>4. \A k \in Slot : Cleared(k)' = Cleared(k)
  BY <1>3 DEF Cleared, Exists
<1>5. \A k \in Slot \ {0} : Balanced(k)'
  BY <1>0, <1>1, <1>2, <1>4, Still DEF Balanced
<1> QED BY <1>0, <1>1, <1>3, <1>5 DEF FlightInv, Exists

\* The devices, the modem and the manager: a status goes from what the modem owes
\* to rx.
LEMMA FlightEnvironment ==
    ASSUME TypeInv, KeptInv, FlightInv, ~ timeouts, Environment
    PROVE  FlightInv'
<1> USE DEF threads, modem, manager, history
<1>0. /\ writer.pc = "clear" => xbee_devices[writer.index].ready_to_receive = 1
      /\ \A k \in Slot \ {0} : Balanced(k)
      /\ \A m \in 1 .. Len(rx) : rx[m].api = "ZB_TX_STATUS_RESPONSE" => rx[m].ok
  BY DEF FlightInv
<1>1. UNCHANGED <<xbee_devices, reader, writer>>
  BY DEF Environment, DeviceSends, ModemReports, ManagerCalls
<1>2. 0 \in Slot
  BY LimitsAssumption DEF Slot
<1>3. ASSUME NEW d \in Dev, NEW body \in {"register", "other"}, DeviceSends(d, body) PROVE FlightInv'
  <2>1. PICK f : f = [api |-> "ZB_RX_RESPONSE", from |-> d, body |-> body]
    OBVIOUS
  <2>2. f \in RxFrame /\ rx' = Append(rx, f) /\ UNCHANGED statuses
    BY <1>3, <2>1 DEF DeviceSends, RxFrame
  <2>3. f.api # "ZB_TX_STATUS_RESPONSE" /\ \A k : ~ IsStatus(f, k)
    BY <2>2, Frames
  <2>4. \A k \in Slot : /\ \A m \in 1 .. Len(rx') : rx'[m].api = "ZB_TX_STATUS_RESPONSE" => rx'[m].ok
                        /\ OnWay(k)' = OnWay(k)
    BY <2>2, <2>3, FrameAdded, Numbers
  <2>5. \A k \in Slot \ {0} : Balanced(k)'
    BY <1>0, <1>1, <2>2, <2>4, Still DEF Balanced
  <2> QED BY <1>0, <1>1, <1>2, <2>4, <2>5 DEF FlightInv
<1>4. ASSUME NEW g \in 1 .. MAXDEVICECOUNT, ModemReports(g) PROVE FlightInv'
  <2>1. PICK f : f = [api |-> "ZB_TX_STATUS_RESPONSE", frameId |-> g, ok |-> TRUE]
    OBVIOUS
  <2>2. f \in StatusFrame /\ f.api = "ZB_TX_STATUS_RESPONSE" /\ f.frameId = g /\ f.ok
    BY <2>1 DEF StatusFrame
  <2>3. rx' = Append(rx, f) /\ statuses[g] > 0 /\ statuses' = [statuses EXCEPT ![g] = @ - 1]
    BY <1>4, <2>1 DEF ModemReports
  <2>4. \A h \in 1 .. MAXDEVICECOUNT : statuses'[h] = IF h = g THEN statuses[g] - 1 ELSE statuses[h]
    BY <2>3 DEF TypeInv, ModemOK
  <2>5. \A k \in Slot : /\ \A m \in 1 .. Len(rx') : rx'[m].api = "ZB_TX_STATUS_RESPONSE" => rx'[m].ok
                        /\ OnWay(k)' = OnWay(k) + (IF g = k + 1 THEN 1 ELSE 0)
    BY <2>2, <2>3, FrameAdded DEF IsStatus
  <2>6. \A k \in Slot \ {0} : statuses'[k + 1] + OnWay(k)' = statuses[k + 1] + OnWay(k)
    <3>1. ASSUME NEW k \in Slot \ {0} PROVE statuses'[k + 1] + OnWay(k)' = statuses[k + 1] + OnWay(k)
      <4>1. statuses[k + 1] \in Nat /\ OnWay(k) \in Nat /\ k + 1 \in 1 .. MAXDEVICECOUNT
        BY Numbers, FrameIds
      <4> QED BY <2>3, <2>4, <2>5, <4>1
    <3> QED BY <3>1
  <2>7. \A k \in Slot \ {0} : Balanced(k)'
    BY <1>0, <1>1, <2>6, Still DEF Balanced
  <2> QED BY <1>0, <1>1, <1>2, <2>5, <2>7 DEF FlightInv
<1>5. ASSUME NEW ip, NEW chunks, ManagerCalls(ip, chunks) PROVE FlightInv'
  <2>1. UNCHANGED <<rx, statuses>>
    BY <1>5 DEF ManagerCalls
  <2>2. \A k \in Slot \ {0} : Balanced(k)'
    BY <1>0, <1>1, <2>1, Still DEF Balanced
  <2> QED BY <1>0, <1>1, <2>1, <2>2 DEF FlightInv
<1> QED BY <1>3, <1>4, <1>5 DEF Environment

LEMMA FlightStep ==
    ASSUME Cardinality(Dev) <= MAXDEVICECOUNT, TypeInv, KeptInv, FlightInv, ~ timeouts, [Next]_vars
    PROVE  FlightInv'
<1>1. CASE UNCHANGED vars
  <2>1. UNCHANGED <<xbee_devices, reader, writer, rx, statuses>>
    BY <1>1 DEF vars, threads, modem
  <2>2. \A k \in Slot \ {0} : Balanced(k)'
    BY <2>1, Still DEF Balanced, FlightInv
  <2> QED BY <2>1, <2>2 DEF FlightInv
<1> QED BY <1>1, FlightReader, FlightWriter, FlightRegistering, FlightEnvironment DEF Next

LEMMA Flying ==
    ASSUME TypeInv, FlightInv
    PROVE  OneInFlight
<1> SUFFICES ASSUME NEW k \in Entries \ {0} PROVE xbee_devices[k].ready_to_receive + Underway(k) = 1
  BY DEF OneInFlight
<1>1. k \in Slot \ {0} /\ Exists(k)
  BY DEF Entries, Exists
<1>2. Underway(k) = statuses[k + 1] + OnWay(k) + AtReader(k) + AtWriter(k)
  BY DEF Underway, OnWay, StatusesIn, IsStatus, AtReader, AtWriter
<1>3. Balanced(k) /\ Cleared(k) = 1 - xbee_devices[k].ready_to_receive
  BY <1>1 DEF FlightInv, Cleared
<1> QED BY <1>1, <1>2, <1>3, Numbers DEF Balanced

\* While no status comes too late and there is room in the table, the next chunk
\* to a device is sent when the status of the last has come, and never before
\* (wait_device_ready): not so for the first entry, whose frame id is also that of
\* the replies to registrations.
THEOREM OneChunk ==
    ASSUME Cardinality(Dev) <= MAXDEVICECOUNT
    PROVE  Spec => []OneInFlight
<1> DEFINE Inv == timeouts \/ (KeptInv /\ FlightInv)
<1>1. Init => Inv
  BY KeptInit, FlightInit
<1>2. TypeInv /\ Inv /\ [Next]_vars => Inv'
  BY KeptStep, FlightStep, StillGiven DEF timeouts
<1>3. TypeInv /\ Inv => OneInFlight
  BY Flying DEF OneInFlight
<1> HIDE DEF Inv
<1> QED BY <1>1, <1>2, <1>3, TypeInvariant, PTL DEF Spec
================================================================================
