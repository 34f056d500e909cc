------------------------ MODULE XBeeApiBrokerProofs ------------------------
(***************************************************************************)
(* Proofs about the broker for XBee radios in API mode, for any number of  *)
(* devices, packages and conditions.  TypeInv are the types.  Exchange is  *)
(* the argument that both threads' answers rest on: a command that is      *)
(* answered is the only one of its kind under way, and when the end of its *)
(* answer has been read nothing of it is left.  ServeInv says it of the    *)
(* listener's packages, DescribeInv of the descriptions the main thread    *)
(* asks for.  PromisedInv says what the promise of a radio broker means    *)
(* for its answers, whichever broker keeps it.                             *)
(***************************************************************************)
EXTENDS XBeeApiBroker, FiniteSetTheorems, TLAPS

----------------------------------------------------------------------------
\* Types.
Condition == [scan : BOOLEAN, lossy : BOOLEAN, late : BOOLEAN, calls : Nat, blanks : Nat]
Entry == [addr : Dev, ip : Nat \cup {NULL}]
Sendable == {c \in [kind : {"call", "SYN", "DES"}, n : Nat] : c.kind # "call" => c \in {SYN, DES}}
FrameOf(d) == {f \in RxFrame : f.from = d}

ListenerPc == {"recv", "status", "answer", "completed", "timeout"}
MainPc == {"scan", "discover", "syn", "synstatus", "ack", "ip", "des", "desstatus", "description",
           "completed", "timeout", "done"}
Addressed == {"des", "desstatus", "description", "completed", "timeout"}

BrokerOK ==
    /\ given \in Condition
    /\ xbee_api_devices \in [Slot -> Entry \cup {NULL}]
    /\ xbee_mac_addrs \in Seq(Dev)
ListenerOK ==
    /\ listener \in [pc : ListenerPc, buf : Seq(RxFrame)]
    /\ listener.pc = "completed" => Completed(listener.buf)
    /\ asked \in Seq(Dev \cup {NULL})
    /\ open \in 0 .. Len(asked) /\ (open = 0 <=> listener.pc = "recv")
    /\ calls \in Seq(Nat) /\ Len(asked) + Len(calls) <= MaxCalls
MainOK ==
    /\ main \in [pc : MainPc, i : Nat \ {0}, fails : 0 .. max_fail_times,
                 ip : Nat \cup {NULL}, buf : Seq(RxFrame)]
    /\ main.pc \in {"scan", "discover"} => main.fails < max_fail_times
    /\ main.pc \in Addressed \cup {"synstatus", "ack", "ip"} => main.i \in 1 .. Len(xbee_mac_addrs)
    /\ main.pc = "completed" => Completed(main.buf)
    /\ ip_count \in Nat /\ registered \subseteq Nat \X Dev
LineOK ==
    /\ rx \in Seq(Frame) /\ statuses \in Nat /\ silent \subseteq Dev /\ blanks \in Nat
    /\ air \in [Dev -> Seq(Sendable)]
    /\ out \in [Dev -> Seq(RxFrame)] /\ \A d \in Dev : out[d] \in Seq(FrameOf(d))

TypeInv == BrokerOK /\ ListenerOK /\ MainOK /\ LineOK

----------------------------------------------------------------------------
\* The commands of C under way, and what is left of the answer to them: a are
\* the commands on the air, o the answers, r the line and b what was read.
Answering(f, C) == f.api = "ZB_RX_RESPONSE" /\ f.cmd \in C
NoneOf(q, C) == \A k \in 1 .. Len(q) : ~ Answering(q[k], C)
NoEnd(q, C) == \A k \in 1 .. Len(q) : Answering(q[k], C) => ~ HasEnd(q[k])
EndLast(q, C) == \A j, k \in 1 .. Len(q) :
    j < k /\ Answering(q[j], C) /\ HasEnd(q[j]) => ~ Answering(q[k], C)
Unsent(q, C) == \A k \in 1 .. Len(q) : q[k] \notin C

\* What is answered is of C and from d, but for acknowledgements.
Fitting(f, C, d) == f.api = "ZB_RX_RESPONSE" =>
    (f.cmd \in C /\ f.from = d) \/ (f.cmd = SYN /\ f.part = "none")
Fits(q, C, d) == \A k \in 1 .. Len(q) : Fitting(q[k], C, d)
CommandsFit(q, C, here) == \A k \in 1 .. Len(q) :
    (q[k] \in C /\ here /\ k = Len(q)) \/ q[k] = SYN \/ ~ IsAnswered(q[k])

\* The commands of C are under way once at most, and to d; nothing of the answer
\* is there before the command was heard, and nothing after its end was read.
Exchange(C, d, a, o, r, b) ==
    /\ SYN \notin C /\ \A c \in C : IsAnswered(c)
    /\ \A e \in Dev : CommandsFit(a[e], C, e = d) /\ Fits(o[e], C, d) /\ EndLast(o[e], C)
    /\ Fits(r, C, d) /\ EndLast(r, C) /\ Fits(b, C, d)
    /\ \A e \in Dev : Unsent(a[e], C) \/ ((\A f \in Dev : NoneOf(o[f], C)) /\ NoneOf(r, C) /\ NoneOf(b, C))
    /\ \A e \in Dev : NoneOf(o[e], C) \/ (NoEnd(r, C) /\ NoEnd(b, C))
    /\ NoneOf(r, C) \/ NoEnd(b, C)

----------------------------------------------------------------------------
\* The listener's packages, when no scan is going on.  All that is under way was
\* said to a device asked so far, A, or by it.
SaidTo(A, cmd, d) == cmd.kind = "call" /\ cmd.n \in 1 .. Len(A) /\ A[cmd.n] = d
CommandsTo(A, d) == {c \in Sendable : SaidTo(A, c, d)}
FramesSaid(A) == {f \in Frame : f.api = "ZB_RX_RESPONSE" => SaidTo(A, f.cmd, f.from)}

Live == IF listener.pc \in {"answer", "completed"} THEN listener.buf ELSE <<>>
Current == IF listener.pc = "timeout" THEN {} ELSE {Call(n) : n \in {open} \cap Reads}

ServedOK ==
    /\ main.pc = "done"
    /\ open # 0 => open = Len(asked) /\ asked[open] \in Dev
    /\ listener.pc \in {"answer", "completed", "timeout"} => open \in Reads
SaidOK ==
    /\ \A d \in Dev : air[d] \in Seq(CommandsTo(asked, d)) /\ out[d] \in Seq(FramesSaid(asked))
    /\ rx \in Seq(FramesSaid(asked)) /\ Live \in Seq(FramesSaid(asked))
ServeInv ==
    /\ ServedOK /\ SaidOK
    /\ ~ Late => Exchange(Current, asked[open], air, out, rx, Live)

----------------------------------------------------------------------------
\* The scan: q holds the frames on the line, m the addresses found and s the
\* devices that are silent yet.  No device is in two places.
NoneFound(q) == \A k \in 1 .. Len(q) : ~ Found(q[k])
Discovery(q, m, s) ==
    /\ \A j, k \in 1 .. Len(m) : m[j] = m[k] => j = k
    /\ \A k \in 1 .. Len(m) : m[k] \notin s
    /\ \A j \in 1 .. Len(q) : Found(q[j]) =>
          /\ q[j].dev \notin s
          /\ \A k \in 1 .. Len(m) : m[k] # q[j].dev
          /\ \A k \in 1 .. Len(q) : Found(q[k]) /\ q[j].dev = q[k].dev => j = k
DiscoveryInv ==
    /\ Discovery(rx, xbee_mac_addrs, silent)
    /\ main.pc = "scan" => silent = {} /\ xbee_mac_addrs = <<>> /\ NoneFound(rx)

\* Where the devices are in the table, by how far the registration is.
Used == {k \in Slot : xbee_api_devices[k] # NULL}
Beyond == IF main.pc \in {"syn", "synstatus", "ack"} THEN main.i ELSE main.i + 1
TableInv ==
    /\ main.pc \in {"scan", "discover"} => Used = {} /\ main.i = 1
    /\ \A j, k \in Used : xbee_api_devices[j].addr = xbee_api_devices[k].addr => j = k
    /\ main.pc # "done" => \A k \in Used, j \in 1 .. Len(xbee_mac_addrs) :
                               j >= Beyond => xbee_api_devices[k].addr # xbee_mac_addrs[j]
    /\ main.pc = "ip" => /\ \E k \in Used : xbee_api_devices[k].addr = Addr
                         /\ \A k \in Used : xbee_api_devices[k].addr = Addr
                                               => xbee_api_devices[k].ip = NULL
    /\ main.pc \in Addressed =>
           \E k \in Used : xbee_api_devices[k].addr = Addr /\ xbee_api_devices[k].ip = main.ip

Awaited == IF main.pc \in {"desstatus", "description", "completed"} THEN {DES} ELSE {}
LiveDescription == IF main.pc \in {"description", "completed"} THEN main.buf ELSE <<>>
DescribeInv ==
    ~ Late /\ asked = <<>> => Exchange(Awaited, Addr, air, out, rx, LiveDescription)

ScanInv == DiscoveryInv /\ TableInv /\ DescribeInv /\ RegisteredIsReachable
----------------------------------------------------------------------------
\* Sequences and frames.

LEMMA Shorter ==
    ASSUME NEW S, NEW q \in Seq(S), q # <<>>
    PROVE  /\ Tail(q) \in Seq(S) /\ Head(q) \in S /\ Head(q) = q[1] /\ 1 \in 1 .. Len(q)
           /\ Len(q) \in Nat \ {0} /\ Len(Tail(q)) = Len(q) - 1
           /\ \A k \in 1 .. Len(Tail(q)) : k + 1 \in 1 .. Len(q) /\ Tail(q)[k] = q[k + 1]
OBVIOUS

LEMMA Longer ==
    ASSUME NEW S, NEW q \in Seq(S), NEW e \in S
    PROVE  /\ Append(q, e) \in Seq(S) /\ Len(q) \in Nat /\ Len(Append(q, e)) = Len(q) + 1
           /\ \A k \in 1 .. Len(q) : Append(q, e)[k] = q[k]
           /\ Append(q, e)[Len(q) + 1] = e /\ Append(q, e) # <<>>
OBVIOUS

LEMMA RxFrames ==
    /\ \A f \in Frame : f.api = "ZB_RX_RESPONSE" => f \in RxFrame
    /\ \A f \in RxFrame : /\ f \in Frame /\ f.api = "ZB_RX_RESPONSE" /\ f.from \in Dev
                          /\ f.cmd \in Command /\ f.part \in Part
    /\ \A f \in AtFrame : f \in Frame /\ f.api = "AT_COMMAND_RESPONSE" /\ f.dev \in Dev \cup {NULL}
    /\ \A f \in StatusFrame : f \in Frame /\ f.api = "ZB_TX_STATUS_RESPONSE"
    /\ \A f \in Frame : f.api = "AT_COMMAND_RESPONSE" => f \in AtFrame
BY DEF Frame, RxFrame, StatusFrame, AtFrame

LEMMA Collected ==
    ASSUME NEW f \in Frame, NEW b \in Seq(RxFrame)
    PROVE  Collect(f, b) \in Seq(RxFrame)
<1>1. CASE f.api = "ZB_RX_RESPONSE"
  <2>1. f \in RxFrame
    BY <1>1, RxFrames
  <2> QED BY <1>1, <2>1, Longer DEF Collect
<1>2. CASE f.api # "ZB_RX_RESPONSE"
  BY <1>2 DEF Collect
<1> QED BY <1>1, <1>2

\* A set of slots has a least element.
LEMMA FirstIn ==
    ASSUME NEW S \in SUBSET Slot, S # {}
    PROVE  First(S) \in S
<1> DEFINE Less == {p \in Nat \X Nat : p[1] < p[2]}
<1>1. OpToRel(<, Nat) = Less
  BY Zenon DEF OpToRel
<1>2. S \subseteq Nat
  BY LimitsAssumption DEF Slot
<1>3. \E k \in S : \A j \in S : ~ (<<j, k>> \in Less)
  <2> HIDE DEF Less
  <2> QED BY <1>1, <1>2, NatLessThanWellFounded, WFMin, Zenon
<1>4. \E k \in S : \A j \in S : k <= j
  <2>1. \A j, k \in Nat : j < k => <<j, k>> \in Less
    OBVIOUS
  <2> HIDE DEF Less
  <2>2. PICK k \in S : \A j \in S : ~ (<<j, k>> \in Less)
    BY <1>3
  <2>3. \A j \in S : ~ (j < k)
    BY <1>2, <2>1, <2>2
  <2> QED BY <1>2, <2>2, <2>3
<1> QED BY <1>4 DEF First

LEMMA SendableCommands ==
    /\ SYN \in Sendable /\ DES \in Sendable /\ \A n \in Nat : Call(n) \in Sendable
    /\ \A c \in Sendable : IsAnswered(c) => c \in Command
    /\ \A n \in Nat : IsAnswered(Call(n)) <=> n \in Reads
    /\ IsAnswered(SYN) /\ IsAnswered(DES)
<1>1. /\ SYN \in Sendable /\ DES \in Sendable /\ \A n \in Nat : Call(n) \in Sendable
  BY DEF Sendable, SYN, DES, Call
<1>2. ASSUME NEW c \in Sendable, IsAnswered(c) PROVE c \in Command
  <2>1. CASE c.kind = "call"
    <3>1. c.n \in Reads /\ c = Call(c.n)
      BY <1>2, <2>1 DEF Sendable, IsAnswered, Call
    <3> QED BY <3>1 DEF Command
  <2>2. CASE c.kind # "call"
    BY <2>2 DEF Sendable, Command
  <2> QED BY <2>1, <2>2
<1>3. /\ \A n \in Nat : IsAnswered(Call(n)) <=> n \in Reads
      /\ IsAnswered(SYN) /\ IsAnswered(DES)
  BY DEF IsAnswered, Call, SYN, DES
<1> QED BY <1>1, <1>2, <1>3

\* What a device says to a command: frames of its own, the end last.
LEMMA AnswerFrames ==
    ASSUME NEW d \in Dev, NEW cmd \in Command, NEW s \in AnswersOf(d, cmd)
    PROVE  /\ s \in Seq(FrameOf(d)) /\ s \in Seq(RxFrame) /\ Len(s) \in {1, 2}
           /\ \A k \in 1 .. Len(s) : s[k].cmd = cmd /\ s[k].from = d /\ (cmd = SYN => s[k].part = "none")
           /\ Len(s) = 2 => ~ HasEnd(s[1])
<1>1. /\ \A p \in Part : RxOf(d, cmd, p) \in FrameOf(d) /\ RxOf(d, cmd, p) \in RxFrame
      /\ \A p \in Part : /\ RxOf(d, cmd, p).cmd = cmd /\ RxOf(d, cmd, p).from = d
                         /\ RxOf(d, cmd, p).part = p
  BY DEF RxOf, FrameOf, RxFrame
<1>2. \/ cmd = SYN /\ s = <<RxOf(d, SYN, "none")>>
      \/ cmd # SYN /\ \E p \in Part : s = <<RxOf(d, cmd, p)>>
      \/ cmd # SYN /\ s = <<RxOf(d, cmd, "first"), RxOf(d, cmd, "last")>>
  BY DEF AnswersOf, Part
<1>3. "none" \in Part /\ "first" \in Part /\ "last" \in Part
  BY DEF Part
<1> HIDE DEF AnswersOf
<1>4. CASE cmd = SYN /\ s = <<RxOf(d, SYN, "none")>>
  BY <1>1, <1>3, <1>4
<1>5. CASE cmd # SYN /\ \E p \in Part : s = <<RxOf(d, cmd, p)>>
  BY <1>1, <1>5
<1>6. CASE cmd # SYN /\ s = <<RxOf(d, cmd, "first"), RxOf(d, cmd, "last")>>
  <2>1. ~ HasEnd(RxOf(d, cmd, "first"))
    BY <1>1, <1>3 DEF HasEnd
  <2> QED BY <1>1, <1>3, <1>6, <2>1
<1> QED BY <1>2, <1>4, <1>5, <1>6
----------------------------------------------------------------------------
\* TypeInv, one lemma for each of the three parts of Next.

LEMMA TypeInit == Init => TypeInv
<1> SUFFICES ASSUME Init PROVE TypeInv
  OBVIOUS
<1>1. /\ given \in Condition /\ rx = <<>> /\ statuses = 0 /\ blanks = 0 /\ silent = {}
      /\ air = [d \in Dev |-> <<>>] /\ out = [d \in Dev |-> <<>>]
      /\ listener = [pc |-> "recv", buf |-> <<>>]
      /\ calls = <<>> /\ asked = <<>> /\ open = 0
      /\ main = MainAt("scan") \/ main = MainAt("done")
  BY ConditionsAssumption DEF Init, InitScanning, InitServing, InitLine, Condition
<1>2. LineOK
  BY <1>1 DEF LineOK
<1>3. ListenerOK
  BY <1>1 DEF ListenerOK, ListenerPc, MaxCalls, Condition
<1>4. Cardinality(Dev) \in Nat
  BY DevAssumption, FS_CardinalityType
<1>5. ip_count \in Nat /\ registered \subseteq Nat \X Dev
  BY <1>4 DEF Init, InitScanning, InitServing
<1>6. MainOK
  <2>1. \E pc \in {"scan", "done"} : main = [pc |-> pc, i |-> 1, fails |-> 0, ip |-> NULL, buf |-> <<>>]
    BY <1>1 DEF MainAt
  <2>2. <<>> \in Seq(RxFrame) /\ 0 \in 0 .. max_fail_times
    BY LimitsAssumption
  <2> QED BY <1>5, <2>1, <2>2, LimitsAssumption DEF MainOK, MainPc, Addressed
<1>7. xbee_api_devices \in [Slot -> Entry \cup {NULL}] /\ xbee_mac_addrs \in Seq(Dev)
  <2>1. CASE InitScanning
    BY <2>1 DEF InitScanning
  <2>2. CASE InitServing
    <3>1. PICK order \in [0 .. Cardinality(Dev) - 1 -> Dev] :
            /\ xbee_api_devices = [k \in Slot |->
                  IF k \in DOMAIN order THEN [addr |-> order[k], ip |-> k] ELSE NULL]
            /\ xbee_mac_addrs = [k \in 1 .. Cardinality(Dev) |-> order[k - 1]]
      BY <2>2 DEF InitServing
    <3>2. xbee_mac_addrs \in Seq(Dev)
      <4>1. \A k \in 1 .. Cardinality(Dev) : k - 1 \in 0 .. Cardinality(Dev) - 1
        BY <1>4
      <4>2. \A k \in 1 .. Cardinality(Dev) : order[k - 1] \in Dev
        BY <4>1
      <4>3. xbee_mac_addrs \in [1 .. Cardinality(Dev) -> Dev]
        BY <3>1, <4>2
      <4> QED BY <1>4, <4>3
    <3>3. \A k \in DOMAIN order : [addr |-> order[k], ip |-> k] \in Entry
      BY <1>4 DEF Entry
    <3> QED BY <3>1, <3>2, <3>3
  <2> QED BY <2>1, <2>2 DEF Init
<1> QED BY <1>1, <1>2, <1>3, <1>6, <1>7 DEF TypeInv, BrokerOK

\* Reading a frame, and sending a command.
LEMMA ReadType ==
    ASSUME TypeInv, FrameRead
    PROVE  rx # <<>> /\ rx \in Seq(Frame) /\ rx' = Tail(rx) /\ rx' \in Seq(Frame) /\ Head(rx) \in Frame
BY Shorter DEF TypeInv, LineOK, FrameRead

LEMMA SendType ==
    ASSUME TypeInv, NEW d \in Dev, NEW cmd \in Sendable, send_command_to_api_end_device(d, cmd)
    PROVE  /\ air' \in [Dev -> Seq(Sendable)] /\ statuses' \in Nat
           /\ \A e \in Dev : air'[e] = IF e = d THEN Append(air[d], cmd) ELSE air[e]
<1>1. Append(air[d], cmd) \in Seq(Sendable)
  BY Longer DEF TypeInv, LineOK
<1> QED BY <1>1 DEF TypeInv, LineOK, send_command_to_api_end_device

LEMMA LookupType ==
    ASSUME TypeInv, NEW S \in SUBSET Slot, S # {}, \A k \in S : xbee_api_devices[k] # NULL
    PROVE  /\ First(S) \in S /\ xbee_api_devices[First(S)] \in Entry
           /\ xbee_api_devices[First(S)].addr \in Dev
<1>1. First(S) \in S
  BY FirstIn
<1>2. xbee_api_devices[First(S)] \in Entry
  BY <1>1 DEF TypeInv, BrokerOK
<1> QED BY <1>1, <1>2 DEF Entry

LEMMA TypeListener == TypeInv /\ Listener => TypeInv'
<1> SUFFICES ASSUME TypeInv, Listener PROVE TypeInv'
  OBVIOUS
<1> USE DEF scanner, onAir, radio, manager, history
<1>1. /\ BrokerOK /\ ListenerOK /\ MainOK /\ LineOK
  BY DEF TypeInv
<1>2. /\ UNCHANGED <<given, xbee_api_devices, xbee_mac_addrs, main, ip_count, registered>>
      /\ UNCHANGED <<out, silent, blanks>>
  BY DEF Listener, UnknownDevice, ForwardCommand, ListenerStatus, ListenerCollects,
         ListenerTimeout, ListenerAnswers
<1>3. BrokerOK' /\ MainOK'
  BY <1>1, <1>2 DEF BrokerOK, MainOK, Addr
<1>4. /\ listener \in [pc : ListenerPc, buf : Seq(RxFrame)]
      /\ asked \in Seq(Dev \cup {NULL}) /\ Len(asked) \in Nat
      /\ calls \in Seq(Nat) /\ Len(calls) \in Nat
  BY <1>1 DEF ListenerOK
<1>5. ASSUME NEW chance \in SUBSET Slot, UnknownDevice(chance) PROVE TypeInv'
  <2>1. /\ asked' = Append(asked, NULL) /\ calls' = Tail(calls) /\ calls # <<>> /\ open = 0
        /\ UNCHANGED <<listener, open, rx, air, statuses>>
    BY <1>1, <1>5 DEF UnknownDevice, ListenerOK
  <2>2. /\ asked' \in Seq(Dev \cup {NULL}) /\ Len(asked') = Len(asked) + 1
        /\ calls' \in Seq(Nat) /\ Len(calls') = Len(calls) - 1
    BY <1>4, <2>1, Longer, Shorter
  <2>3. ListenerOK'
    BY <1>1, <1>2, <1>4, <2>1, <2>2 DEF ListenerOK, MaxCalls
  <2> QED BY <1>1, <1>2, <1>3, <2>1, <2>3 DEF TypeInv, LineOK
<1>6. ASSUME NEW chance \in SUBSET Slot, ForwardCommand(chance) PROVE TypeInv'
  <2> DEFINE found == find_XBee_api_device_index_by_IoTIp(Head(calls), chance)
             d == xbee_api_devices[First(found)].addr
             n == Len(asked) + 1
  <2>1. /\ asked' = Append(asked, d) /\ calls' = Tail(calls) /\ calls # <<>>
        /\ found # {} /\ open' = n /\ send_command_to_api_end_device(d, Call(n))
        /\ listener' = [listener EXCEPT !.pc = "status"] /\ UNCHANGED rx
    BY <1>6 DEF ForwardCommand, ListenerAt
  <2>2. found \in SUBSET Slot /\ \A k \in found : xbee_api_devices[k] # NULL
    BY DEF find_XBee_api_device_index_by_IoTIp
  <2>3. d \in Dev
    <3> HIDE DEF found
    <3> QED BY <2>1, <2>2, LookupType
  <2> HIDE DEF d
  <2>4. /\ asked' \in Seq(Dev \cup {NULL}) /\ Len(asked') = n
        /\ calls' \in Seq(Nat) /\ Len(calls') = Len(calls) - 1
    BY <1>4, <2>1, <2>3, Longer, Shorter
  <2>5. listener' \in [pc : ListenerPc, buf : Seq(RxFrame)] /\ listener'.pc = "status"
    BY <1>4, <2>1 DEF ListenerPc
  <2>6. ListenerOK'
    BY <1>1, <1>2, <1>4, <2>1, <2>4, <2>5 DEF ListenerOK, MaxCalls
  <2>7. air' \in [Dev -> Seq(Sendable)] /\ statuses' \in Nat
    <3>1. Call(n) \in Sendable
      BY <1>4, SendableCommands
    <3> QED BY <2>1, <2>3, <3>1, SendType
  <2> QED BY <1>1, <1>2, <1>3, <2>1, <2>6, <2>7 DEF TypeInv, LineOK
<1>7. ASSUME ListenerStatus PROVE TypeInv'
  <2>1. rx' \in Seq(Frame)
    BY <1>1, <1>7, ReadType DEF ListenerStatus, LineOK
  <2>2. /\ listener' \in [pc : ListenerPc, buf : Seq(RxFrame)] /\ listener'.pc \in {"answer", "recv"}
        /\ open' \in 0 .. Len(asked) /\ (open' = 0 <=> listener'.pc = "recv")
    <3>1. open \in 0 .. Len(asked) /\ open # 0 /\ <<>> \in Seq(RxFrame)
      BY <1>1, <1>7 DEF ListenerOK, ListenerStatus
    <3>2. CASE open \in Reads
      <4>1. listener' = [listener EXCEPT !.pc = "answer", !.buf = <<>>] /\ open' = open
        BY <1>7, <3>2 DEF ListenerStatus, AfterStatus, FreshBuffer
      <4> QED BY <1>4, <3>1, <4>1 DEF ListenerPc
    <3>3. CASE open \notin Reads
      <4>1. listener' = [listener EXCEPT !.pc = "recv"] /\ open' = 0
        BY <1>7, <3>3 DEF ListenerStatus, AfterStatus, ListenerAt
      <4>2. listener' \in [pc : ListenerPc, buf : Seq(RxFrame)] /\ listener'.pc = "recv"
        BY <1>4, <4>1 DEF ListenerPc
      <4>3. 0 \in 0 .. Len(asked)
        BY <1>4
      <4> QED BY <4>1, <4>2, <4>3
    <3> QED BY <3>2, <3>3
  <2>3. ListenerOK'
    BY <1>1, <1>2, <1>7, <2>2 DEF ListenerOK, ListenerStatus, MaxCalls
  <2> QED BY <1>1, <1>2, <1>3, <1>7, <2>1, <2>3 DEF TypeInv, LineOK, ListenerStatus
<1>8. ASSUME ListenerCollects PROVE TypeInv'
  <2>1. rx' \in Seq(Frame) /\ Head(rx) \in Frame
    BY <1>8, ReadType DEF ListenerCollects
  <2> DEFINE buf == Collect(Head(rx), listener.buf)
  <2>2. buf \in Seq(RxFrame)
    BY <1>4, <2>1, Collected
  <2>3. listener' = [listener EXCEPT !.buf = buf, !.pc = IF Completed(buf) THEN "completed" ELSE "answer"]
    BY <1>8 DEF ListenerCollects
  <2> HIDE DEF buf
  <2>4. /\ listener' \in [pc : ListenerPc, buf : Seq(RxFrame)] /\ listener'.buf = buf
        /\ listener'.pc = IF Completed(buf) THEN "completed" ELSE "answer"
    BY <1>4, <2>2, <2>3 DEF ListenerPc
  <2>5. ListenerOK'
    <3>1. UNCHANGED <<asked, open, calls>> /\ listener.pc = "answer"
      BY <1>8 DEF ListenerCollects
    <3>2. listener'.pc = "completed" => Completed(listener.buf)'
      BY <2>4 DEF Completed
    <3> QED BY <1>1, <1>2, <2>4, <3>1, <3>2 DEF ListenerOK, MaxCalls
  <2> QED BY <1>1, <1>2, <1>3, <1>8, <2>1, <2>5 DEF TypeInv, LineOK, ListenerCollects
<1>9. ASSUME ListenerTimeout PROVE TypeInv'
  <2>1. ListenerOK'
    <3>1. UNCHANGED <<asked, calls, open>> /\ listener.pc = "answer" /\ listener' = [listener EXCEPT !.pc = "timeout"]
      BY <1>9 DEF ListenerTimeout, ListenerAt
    <3>2. listener' \in [pc : ListenerPc, buf : Seq(RxFrame)] /\ listener'.pc = "timeout"
      BY <1>4, <3>1 DEF ListenerPc
    <3> QED BY <1>1, <1>2, <3>1, <3>2 DEF ListenerOK, MaxCalls
  <2> QED BY <1>1, <1>2, <1>3, <1>9, <2>1 DEF TypeInv, LineOK, ListenerTimeout
<1>10. ASSUME ListenerAnswers PROVE TypeInv'
  <2>1. ListenerOK'
    <3>1. /\ UNCHANGED <<asked, calls>> /\ open' = 0
          /\ listener' = [listener EXCEPT !.pc = "recv"]
      BY <1>10 DEF ListenerAnswers, ListenerAt
    <3>2. listener' \in [pc : ListenerPc, buf : Seq(RxFrame)] /\ listener'.pc = "recv"
      BY <1>4, <3>1 DEF ListenerPc
    <3>3. 0 \in 0 .. Len(asked)
      BY <1>4
    <3> QED BY <1>1, <1>2, <3>1, <3>2, <3>3 DEF ListenerOK, MaxCalls
  <2> QED BY <1>1, <1>2, <1>3, <1>10, <2>1
          DEF TypeInv, LineOK, ListenerAnswers, clear_XBee_api_recv_buff
<1> QED BY <1>5, <1>6, <1>7, <1>8, <1>9, <1>10 DEF Listener

\* What the main thread's steps leave alone, and what its next place asks of it.
LEMMA MainFields ==
    ASSUME TypeInv, NEW pc \in MainPc
    PROVE  /\ [main EXCEPT !.pc = pc] \in [pc : MainPc, i : Nat \ {0}, fails : 0 .. max_fail_times,
                                          ip : Nat \cup {NULL}, buf : Seq(RxFrame)]
           /\ [main EXCEPT !.pc = pc].pc = pc /\ [main EXCEPT !.pc = pc].i = main.i
           /\ [main EXCEPT !.pc = pc].fails = main.fails /\ [main EXCEPT !.pc = pc].ip = main.ip
           /\ [main EXCEPT !.pc = pc].buf = main.buf
BY DEF TypeInv, MainOK

LEMMA NextFields ==
    ASSUME TypeInv, NextDevice
    PROVE  main' = [pc |-> "syn", i |-> main.i + 1, fails |-> 0, ip |-> NULL, buf |-> <<>>]
BY DEF NextDevice, MainAt

LEMMA NextType ==
    ASSUME TypeInv, NextDevice, ip_count' = ip_count, registered' \subseteq Nat \X Dev
    PROVE  MainOK'
<1>1. main' = [pc |-> "syn", i |-> main.i + 1, fails |-> 0, ip |-> NULL, buf |-> <<>>]
  BY NextFields
<1>2. main.i + 1 \in Nat \ {0} /\ 0 \in 0 .. max_fail_times /\ <<>> \in Seq(RxFrame)
  BY LimitsAssumption DEF TypeInv, MainOK
<1>3. main' \in [pc : MainPc, i : Nat \ {0}, fails : 0 .. max_fail_times,
                 ip : Nat \cup {NULL}, buf : Seq(RxFrame)]
  BY <1>1, <1>2 DEF MainPc
<1>4. main'.pc = "syn"
  BY <1>1
<1>5. ip_count' \in Nat
  BY DEF TypeInv, MainOK
<1> QED BY <1>3, <1>4, <1>5 DEF MainOK, Addressed

LEMMA GoesType ==
    ASSUME TypeInv, NEW pc \in MainPc, MainGoes(pc),
           UNCHANGED <<xbee_mac_addrs, ip_count, registered>>,
           pc # "scan", pc # "completed", pc = "discover" => main.pc = "scan",
           pc \in Addressed => main.pc \in Addressed,
           pc \in {"synstatus", "ack", "ip"} => main.i \in 1 .. Len(xbee_mac_addrs)
    PROVE  MainOK'
<1>1. /\ main' \in [pc : MainPc, i : Nat \ {0}, fails : 0 .. max_fail_times,
                    ip : Nat \cup {NULL}, buf : Seq(RxFrame)]
      /\ main'.pc = pc /\ main'.i = main.i /\ main'.fails = main.fails /\ main'.ip = main.ip
  BY MainFields, Zenon DEF MainGoes
<1>2. MainOK
  BY DEF TypeInv
<1> QED BY <1>1, <1>2 DEF MainOK, Addressed

LEMMA TableType ==
    ASSUME TypeInv, NEW d \in Dev
    PROVE  /\ add_new_XBee_api_device(d) => xbee_api_devices' \in [Slot -> Entry \cup {NULL}]
           /\ \A ip \in Nat \cup {NULL} : update_XBee_api_iot_ip(d, ip)
                  => xbee_api_devices' \in [Slot -> Entry \cup {NULL}]
<1>1. ASSUME add_new_XBee_api_device(d) PROVE xbee_api_devices' \in [Slot -> Entry \cup {NULL}]
  <2> DEFINE e == [addr |-> d, ip |-> NULL]
             free == {k \in Slot : xbee_api_devices[k] = NULL}
  <2>1. e \in Entry
    BY DEF Entry
  <2>2. \/ UNCHANGED xbee_api_devices
        \/ xbee_api_devices' = [xbee_api_devices EXCEPT ![First(free)] = e]
    BY <1>1 DEF add_new_XBee_api_device
  <2> HIDE DEF e, free
  <2> QED BY <2>1, <2>2 DEF TypeInv, BrokerOK
<1>2. ASSUME NEW ip \in Nat \cup {NULL}, update_XBee_api_iot_ip(d, ip)
      PROVE  xbee_api_devices' \in [Slot -> Entry \cup {NULL}]
  <2> DEFINE found == find_XBee_api_device_index(d)
             e == [xbee_api_devices[First(found)] EXCEPT !.ip = ip]
  <2>1. CASE found = {}
    BY <1>2, <2>1 DEF update_XBee_api_iot_ip, TypeInv, BrokerOK
  <2>2. CASE found # {}
    <3>1. found \in SUBSET Slot /\ \A k \in found : xbee_api_devices[k] # NULL
      BY DEF find_XBee_api_device_index
    <3>2. xbee_api_devices' = [xbee_api_devices EXCEPT ![First(found)] = e]
      BY <1>2, <2>2 DEF update_XBee_api_iot_ip
    <3> HIDE DEF found
    <3>3. xbee_api_devices[First(found)] \in Entry
      BY <2>2, <3>1, LookupType
    <3>4. e \in Entry
      BY <3>3 DEF Entry
    <3> HIDE DEF e
    <3> QED BY <3>2, <3>4 DEF TypeInv, BrokerOK
  <2> QED BY <2>1, <2>2
<1> QED BY <1>1, <1>2

LEMMA AddrType ==
    ASSUME TypeInv, main.i \in 1 .. Len(xbee_mac_addrs)
    PROVE  Addr \in Dev
BY DEF TypeInv, BrokerOK, Addr

LEMMA TypeMain == TypeInv /\ Main => TypeInv'
<1> SUFFICES ASSUME TypeInv, Main PROVE TypeInv'
  OBVIOUS
<1> USE DEF scanner, onAir, radio, manager, history
<1>1. /\ BrokerOK /\ ListenerOK /\ MainOK /\ LineOK
      /\ main \in [pc : MainPc, i : Nat \ {0}, fails : 0 .. max_fail_times,
                   ip : Nat \cup {NULL}, buf : Seq(RxFrame)]
  BY DEF TypeInv, MainOK
<1>2. UNCHANGED <<given, listener, calls, asked, open, out, blanks>>
  BY DEF Main, SendDiscovery, ReadDiscovery, DiscoveryTimeout, SendSyn, SynStatus, ReadAck, AskIp,
         SendDes, DesStatus, MainCollects, MainTimeout, Register, send_command_to_api_end_device
<1>3. ListenerOK'
  BY <1>1, <1>2 DEF ListenerOK, MaxCalls, Completed
<1>4. CASE SendDiscovery
  <2>1. MainOK'
    BY <1>4, GoesType DEF SendDiscovery, MainPc, Addressed
  <2> QED BY <1>1, <1>2, <1>3, <1>4, <2>1 DEF TypeInv, SendDiscovery, BrokerOK, LineOK
<1>5. CASE ReadDiscovery
  <2>1. rx' \in Seq(Frame) /\ Head(rx) \in Frame
    BY <1>5, ReadType DEF ReadDiscovery
  <2>2. xbee_mac_addrs' \in Seq(Dev)
    <3>1. Found(Head(rx)) => Head(rx).dev \in Dev
      BY <2>1, RxFrames DEF Found
    <3>2. xbee_mac_addrs \in Seq(Dev)
      BY <1>1 DEF BrokerOK
    <3>3. xbee_mac_addrs' = IF Found(Head(rx)) THEN Append(xbee_mac_addrs, Head(rx).dev)
                            ELSE xbee_mac_addrs
      BY <1>5 DEF ReadDiscovery
    <3> QED BY <3>1, <3>2, <3>3, Longer
  <2>3. MainOK'
    <3>1. PICK fails \in {0, main.fails + 1} : AfterDiscovery(fails)
      BY <1>5 DEF ReadDiscovery
    <3>2. fails \in 0 .. max_fail_times
      BY <1>1, <1>5, <3>1, LimitsAssumption DEF ReadDiscovery, MainOK
    <3>3. main' = [main EXCEPT !.fails = fails, !.pc = IF fails >= max_fail_times THEN "syn" ELSE "discover"]
      BY <3>1 DEF AfterDiscovery
    <3>4. /\ main' \in [pc : MainPc, i : Nat \ {0}, fails : 0 .. max_fail_times,
                        ip : Nat \cup {NULL}, buf : Seq(RxFrame)]
          /\ main'.fails = fails
          /\ main'.pc = IF fails >= max_fail_times THEN "syn" ELSE "discover"
      BY <1>1, <3>2, <3>3 DEF MainPc
    <3>5. UNCHANGED <<ip_count, registered>>
      BY <1>5 DEF ReadDiscovery
    <3> QED BY <1>1, <3>2, <3>4, <3>5, LimitsAssumption DEF MainOK, Addressed
  <2> QED BY <1>1, <1>2, <1>3, <1>5, <2>1, <2>2, <2>3 DEF TypeInv, ReadDiscovery, BrokerOK, LineOK
<1>6. CASE DiscoveryTimeout
  <2>1. MainOK'
    <3> DEFINE fails == main.fails + 1
    <3>1. fails \in 0 .. max_fail_times
      BY <1>1, <1>6, LimitsAssumption DEF DiscoveryTimeout, MainOK
    <3>2. main' = [main EXCEPT !.fails = fails, !.pc = IF fails >= max_fail_times THEN "syn" ELSE "discover"]
      BY <1>6 DEF DiscoveryTimeout, AfterDiscovery
    <3> HIDE DEF fails
    <3>3. /\ main' \in [pc : MainPc, i : Nat \ {0}, fails : 0 .. max_fail_times,
                        ip : Nat \cup {NULL}, buf : Seq(RxFrame)]
          /\ main'.fails = fails
          /\ main'.pc = IF fails >= max_fail_times THEN "syn" ELSE "discover"
      BY <1>1, <3>1, <3>2 DEF MainPc
    <3>4. UNCHANGED <<ip_count, registered>>
      BY <1>6 DEF DiscoveryTimeout
    <3> QED BY <1>1, <3>1, <3>3, <3>4, LimitsAssumption DEF MainOK, Addressed
  <2> QED BY <1>1, <1>2, <1>3, <1>6, <2>1 DEF TypeInv, DiscoveryTimeout, BrokerOK, LineOK
<1>7. CASE SendSyn
  <2>1. UNCHANGED <<xbee_api_devices, xbee_mac_addrs, ip_count, registered, rx, silent>>
    BY <1>7 DEF SendSyn
  <2>2. CASE main.i > Len(xbee_mac_addrs)
    <3>1. MainGoes("done") /\ UNCHANGED <<air, statuses>>
      BY <1>7, <2>2 DEF SendSyn
    <3>2. MainOK'
      BY <2>1, <3>1, GoesType DEF MainPc, Addressed
    <3> QED BY <1>1, <1>2, <1>3, <2>1, <3>1, <3>2 DEF TypeInv, BrokerOK, LineOK
  <2>3. CASE ~ (main.i > Len(xbee_mac_addrs))
    <3>1. MainGoes("synstatus") /\ send_command_to_api_end_device(Addr, SYN)
      BY <1>7, <2>3 DEF SendSyn
    <3>2. main.i \in 1 .. Len(xbee_mac_addrs)
      BY <1>1, <2>3 DEF BrokerOK
    <3>3. MainOK'
      BY <2>1, <3>1, <3>2, GoesType DEF MainPc, Addressed
    <3>4. air' \in [Dev -> Seq(Sendable)] /\ statuses' \in Nat
      BY <3>1, <3>2, AddrType, SendType, SendableCommands
    <3> QED BY <1>1, <1>2, <1>3, <2>1, <3>3, <3>4 DEF TypeInv, BrokerOK, LineOK
  <2> QED BY <2>2, <2>3
<1>8. CASE SynStatus
  <2>1. UNCHANGED <<xbee_api_devices, xbee_mac_addrs, ip_count, registered, silent, air, statuses>>
    BY <1>8 DEF SynStatus
  <2>2. rx' \in Seq(Frame)
    BY <1>1, <1>8, ReadType DEF SynStatus, LineOK
  <2>3. registered' \subseteq Nat \X Dev /\ main.i \in 1 .. Len(xbee_mac_addrs)
    BY <1>1, <1>8, <2>1 DEF MainOK, SynStatus
  <2>4. MainGoes("ack") \/ NextDevice
    BY <1>8 DEF SynStatus
  <2>5. MainOK'
    BY <2>1, <2>3, <2>4, NextType, GoesType DEF MainPc, Addressed
  <2> QED BY <1>1, <1>2, <1>3, <2>1, <2>2, <2>5 DEF TypeInv, BrokerOK, LineOK
<1>9. CASE ReadAck
  <2>1. UNCHANGED <<xbee_mac_addrs, ip_count, registered, silent, air, statuses>>
    BY <1>9 DEF ReadAck
  <2>2. rx' \in Seq(Frame)
    BY <1>1, <1>9, ReadType DEF ReadAck, LineOK
  <2>3. registered' \subseteq Nat \X Dev /\ main.i \in 1 .. Len(xbee_mac_addrs)
    BY <1>1, <1>9, <2>1 DEF MainOK, ReadAck
  <2>4. MainGoes("ip") \/ NextDevice
    BY <1>9 DEF ReadAck
  <2>5. MainOK'
    BY <2>1, <2>3, <2>4, NextType, GoesType DEF MainPc, Addressed
  <2>6. add_new_XBee_api_device(Addr) \/ UNCHANGED xbee_api_devices
    BY <1>9 DEF ReadAck
  <2>7. xbee_api_devices' \in [Slot -> Entry \cup {NULL}]
    BY <1>1, <2>3, <2>6, TableType, AddrType DEF BrokerOK
  <2> QED BY <1>1, <1>2, <1>3, <2>1, <2>2, <2>5, <2>7 DEF TypeInv, BrokerOK, LineOK
<1>10. CASE AskIp
  <2>1. PICK a \in {ip_count, NULL} :
           /\ UNCHANGED <<xbee_mac_addrs, registered, silent, rx, air, statuses>>
           /\ update_XBee_api_iot_ip(Addr, a) /\ ip_count' \in {ip_count, ip_count + 1}
           /\ main' = [main EXCEPT !.pc = "des", !.ip = a]
    BY <1>10 DEF AskIp
  <2>2. main.i \in 1 .. Len(xbee_mac_addrs) /\ ip_count \in Nat
    BY <1>1, <1>10 DEF MainOK, AskIp
  <2>3. xbee_api_devices' \in [Slot -> Entry \cup {NULL}]
    BY <2>1, <2>2, TableType, AddrType
  <2>4. /\ main' \in [pc : MainPc, i : Nat \ {0}, fails : 0 .. max_fail_times,
                      ip : Nat \cup {NULL}, buf : Seq(RxFrame)]
        /\ main'.pc = "des" /\ main'.i = main.i /\ main'.ip = a
    BY <1>1, <2>1, <2>2 DEF MainPc
  <2>5. MainOK'
    BY <1>1, <2>1, <2>2, <2>4 DEF MainOK, Addressed
  <2> QED BY <1>1, <1>2, <1>3, <2>1, <2>3, <2>5 DEF TypeInv, BrokerOK, LineOK
<1>11. CASE SendDes
  <2>1. /\ UNCHANGED <<xbee_api_devices, xbee_mac_addrs, ip_count, registered, rx, silent>>
        /\ MainGoes("desstatus") /\ send_command_to_api_end_device(Addr, DES) /\ main.pc = "des"
    BY <1>11 DEF SendDes
  <2>2. main.i \in 1 .. Len(xbee_mac_addrs)
    BY <1>1, <2>1 DEF MainOK, Addressed
  <2>3. MainOK'
    BY <2>1, <2>2, GoesType DEF MainPc, Addressed
  <2>4. air' \in [Dev -> Seq(Sendable)] /\ statuses' \in Nat
    BY <2>1, <2>2, AddrType, SendType, SendableCommands
  <2> QED BY <1>1, <1>2, <1>3, <2>1, <2>3, <2>4 DEF TypeInv, BrokerOK, LineOK
<1>12. CASE DesStatus
  <2>1. /\ UNCHANGED <<xbee_api_devices, xbee_mac_addrs, ip_count, registered, silent, air, statuses>>
        /\ main.pc = "desstatus"
        /\ main' = [main EXCEPT !.pc = "description", !.buf = <<>>]
    BY <1>12 DEF DesStatus, FreshBuffer
  <2>2. rx' \in Seq(Frame)
    BY <1>1, <1>12, ReadType DEF DesStatus, LineOK
  <2>3. /\ main' \in [pc : MainPc, i : Nat \ {0}, fails : 0 .. max_fail_times,
                      ip : Nat \cup {NULL}, buf : Seq(RxFrame)]
        /\ main'.pc = "description" /\ main'.i = main.i /\ main'.ip = main.ip
    <3>1. "description" \in MainPc /\ <<>> \in Seq(RxFrame)
      BY DEF MainPc
    <3> QED BY <1>1, <2>1, <3>1
  <2>4. MainOK'
    BY <1>1, <2>1, <2>3 DEF MainOK, Addressed
  <2> QED BY <1>1, <1>2, <1>3, <2>1, <2>2, <2>4 DEF TypeInv, BrokerOK, LineOK
<1>13. CASE MainCollects
  <2> DEFINE buf == Collect(Head(rx), main.buf)
  <2>1. /\ UNCHANGED <<xbee_api_devices, xbee_mac_addrs, ip_count, registered, silent, air, statuses>>
        /\ main.pc = "description" /\ FrameRead
        /\ main' = [main EXCEPT !.buf = buf, !.pc = IF Completed(buf) THEN "completed" ELSE "description"]
    BY <1>13 DEF MainCollects
  <2>2. rx' \in Seq(Frame) /\ Head(rx) \in Frame
    BY <2>1, ReadType
  <2>3. buf \in Seq(RxFrame)
    BY <1>1, <2>2, Collected
  <2> HIDE DEF buf
  <2>4. /\ main' \in [pc : MainPc, i : Nat \ {0}, fails : 0 .. max_fail_times,
                      ip : Nat \cup {NULL}, buf : Seq(RxFrame)]
        /\ main'.pc = (IF Completed(buf) THEN "completed" ELSE "description")
        /\ main'.i = main.i /\ main'.ip = main.ip /\ main'.buf = buf
    BY <1>1, <2>1, <2>3 DEF MainPc
  <2>5. main'.pc = "completed" => Completed(main.buf)'
    BY <2>4 DEF Completed
  <2>6. MainOK'
    BY <1>1, <2>1, <2>4, <2>5 DEF MainOK, Addressed
  <2> QED BY <1>1, <1>2, <1>3, <2>1, <2>2, <2>6 DEF TypeInv, BrokerOK, LineOK
<1>14. CASE MainTimeout
  <2>1. MainOK'
    BY <1>14, GoesType DEF MainTimeout, MainPc, Addressed
  <2> QED BY <1>1, <1>2, <1>3, <1>14, <2>1 DEF TypeInv, MainTimeout, BrokerOK, LineOK
<1>15. CASE Register
  <2>1. /\ UNCHANGED <<xbee_api_devices, xbee_mac_addrs, ip_count, silent, air, statuses>>
        /\ NextDevice /\ main.pc \in {"completed", "timeout"} /\ rx' = <<>>
    BY <1>15 DEF Register, clear_XBee_api_recv_buff
  <2>2. main.pc = "completed" => Head(main.buf).from \in Dev
    <3>1. main.pc = "completed" => Head(main.buf) \in RxFrame
      BY <1>1, Shorter DEF MainOK, Completed
    <3> QED BY <3>1, RxFrames
  <2>3. main.ip \in Nat \cup {NULL} /\ registered \subseteq Nat \X Dev
    BY <1>1 DEF MainOK
  <2>4. registered' \subseteq registered \cup {<<main.ip, Head(main.buf).from>>}
        /\ (main.pc # "completed" \/ main.ip = NULL => registered' = registered)
    BY <1>15 DEF Register, Readable
  <2>5. registered' \subseteq Nat \X Dev
    BY <2>2, <2>3, <2>4
  <2>6. MainOK'
    BY <2>1, <2>5, NextType
  <2> QED BY <1>1, <1>2, <1>3, <2>1, <2>6 DEF TypeInv, BrokerOK, LineOK
<1> QED BY <1>4, <1>5, <1>6, <1>7, <1>8, <1>9, <1>10, <1>11, <1>12, <1>13, <1>14, <1>15 DEF Main

LEMMA TypeEnvironment == TypeInv /\ Environment => TypeInv'
<1> SUFFICES ASSUME TypeInv, Environment PROVE TypeInv'
  OBVIOUS
<1> USE DEF scanner, onAir, radio, manager, history
<1>1. /\ BrokerOK /\ ListenerOK /\ MainOK /\ LineOK
  BY DEF TypeInv
<1>2. UNCHANGED <<listener, given, scanner, ip_count, registered, asked, open>>
  BY DEF Environment, ManagerCalls, TxStatus, Discovered, DiscoveredNobody, DeviceHears, RadioDelivers
<1>3. BrokerOK' /\ MainOK'
  BY <1>1, <1>2 DEF BrokerOK, MainOK, Completed
<1>4. ASSUME NEW f \in Frame, rx' = Append(rx, f) PROVE rx' \in Seq(Frame)
  BY <1>1, <1>4, Longer DEF LineOK
<1>5. UNCHANGED calls => ListenerOK'
  BY <1>1, <1>2 DEF ListenerOK, MaxCalls, Completed
<1>6. ASSUME NEW ip \in 0 .. Cardinality(Dev) - 1, ManagerCalls(ip) PROVE TypeInv'
  <2>1. ip \in Nat
    BY DevAssumption, FS_CardinalityType
  <2>2. /\ calls' = Append(calls, ip) /\ Len(asked) + Len(calls) < MaxCalls
        /\ UNCHANGED <<rx, statuses, silent, blanks, air, out>>
    BY <1>6 DEF ManagerCalls
  <2>3. calls \in Seq(Nat) /\ Len(asked) \in Nat /\ MaxCalls \in Nat
    BY <1>1 DEF ListenerOK, BrokerOK, MaxCalls, Condition
  <2>4. calls' \in Seq(Nat) /\ Len(calls') = Len(calls) + 1 /\ Len(calls) \in Nat
    BY <2>1, <2>2, <2>3, Longer
  <2>5. ListenerOK'
    <3>1. Len(asked) + Len(calls') <= MaxCalls
      BY <2>2, <2>3, <2>4
    <3> QED BY <1>1, <1>2, <2>4, <3>1 DEF ListenerOK, MaxCalls, Completed
  <2> QED BY <1>1, <1>3, <2>2, <2>5 DEF TypeInv, LineOK
<1>7. ASSUME NEW ok \in BOOLEAN, TxStatus(ok) PROVE TypeInv'
  <2> DEFINE f == [api |-> "ZB_TX_STATUS_RESPONSE", ok |-> ok]
  <2>1. f \in Frame
    BY RxFrames DEF StatusFrame
  <2>2. rx' = Append(rx, f) /\ statuses > 0 /\ statuses' = statuses - 1
        /\ UNCHANGED <<calls, air, out, silent, blanks>>
    BY <1>7 DEF TxStatus
  <2> HIDE DEF f
  <2> QED BY <1>1, <1>3, <1>4, <1>5, <2>1, <2>2 DEF TypeInv, LineOK
<1>8. ASSUME NEW d \in Dev, Discovered(d) PROVE TypeInv'
  <2> DEFINE f == [api |-> "AT_COMMAND_RESPONSE", status |-> "ok", dev |-> d]
  <2>1. f \in Frame
    BY RxFrames DEF AtFrame
  <2>2. (rx' = Append(rx, f) \/ UNCHANGED rx) /\ silent' = silent \ {d}
        /\ UNCHANGED <<calls, air, out, statuses, blanks>>
    BY <1>8 DEF Discovered
  <2> HIDE DEF f
  <2> QED BY <1>1, <1>3, <1>4, <1>5, <2>1, <2>2 DEF TypeInv, LineOK
<1>9. ASSUME NEW status \in {"ok", "error"}, DiscoveredNobody(status) PROVE TypeInv'
  <2> DEFINE f == [api |-> "AT_COMMAND_RESPONSE", status |-> status, dev |-> NULL]
  <2>1. f \in Frame
    BY RxFrames DEF AtFrame
  <2>2. rx' = Append(rx, f) /\ blanks' = blanks + 1
        /\ UNCHANGED <<calls, air, out, statuses, silent>>
    BY <1>9 DEF DiscoveredNobody
  <2> HIDE DEF f
  <2> QED BY <1>1, <1>3, <1>4, <1>5, <2>1, <2>2 DEF TypeInv, LineOK
<1>10. ASSUME NEW d \in Dev, DeviceHears(d) PROVE TypeInv'
  <2> DEFINE cmd == Head(air[d])
  <2>1. /\ air[d] # <<>> /\ air' = [air EXCEPT ![d] = Tail(air[d])]
        /\ \/ IsAnswered(cmd) /\ \E s \in AnswersOf(d, cmd) : out' = [out EXCEPT ![d] = out[d] \o s]
           \/ UNCHANGED out
        /\ UNCHANGED <<calls, rx, statuses, silent, blanks>>
    BY <1>10 DEF DeviceHears
  <2>2. Tail(air[d]) \in Seq(Sendable) /\ cmd \in Sendable
    BY <1>1, <2>1, Shorter DEF LineOK
  <2> HIDE DEF cmd
  <2>3. air' \in [Dev -> Seq(Sendable)]
    BY <1>1, <2>1, <2>2 DEF LineOK
  <2>4. out' \in [Dev -> Seq(RxFrame)] /\ \A e \in Dev : out'[e] \in Seq(FrameOf(e))
    <3>1. CASE UNCHANGED out
      BY <1>1, <3>1 DEF LineOK
    <3>2. ASSUME IsAnswered(cmd), NEW s \in AnswersOf(d, cmd), out' = [out EXCEPT ![d] = out[d] \o s]
          PROVE  out' \in [Dev -> Seq(RxFrame)] /\ \A e \in Dev : out'[e] \in Seq(FrameOf(e))
      <4>1. s \in Seq(FrameOf(d)) /\ s \in Seq(RxFrame)
        BY <2>2, <3>2, AnswerFrames, SendableCommands
      <4>2. out[d] \in Seq(FrameOf(d)) /\ out[d] \in Seq(RxFrame)
        BY <1>1 DEF LineOK
      <4>3. out[d] \o s \in Seq(FrameOf(d)) /\ out[d] \o s \in Seq(RxFrame)
        BY <4>1, <4>2
      <4> QED BY <1>1, <3>2, <4>3 DEF LineOK
    <3> QED BY <2>1, <3>1, <3>2
  <2> QED BY <1>1, <1>3, <1>5, <2>1, <2>3, <2>4 DEF TypeInv, LineOK
<1>11. ASSUME NEW d \in Dev, RadioDelivers(d) PROVE TypeInv'
  <2>1. /\ out[d] # <<>> /\ out' = [out EXCEPT ![d] = Tail(out[d])]
        /\ rx' = Append(rx, Head(out[d])) \/ UNCHANGED rx
        /\ UNCHANGED <<calls, air, statuses, silent, blanks>>
    BY <1>11 DEF RadioDelivers
  <2>2. /\ Tail(out[d]) \in Seq(RxFrame) /\ Tail(out[d]) \in Seq(FrameOf(d))
        /\ Head(out[d]) \in Frame
    BY <1>1, <2>1, Shorter, RxFrames DEF LineOK
  <2>3. out' \in [Dev -> Seq(RxFrame)] /\ \A e \in Dev : out'[e] \in Seq(FrameOf(e))
    BY <1>1, <2>1, <2>2 DEF LineOK
  <2> QED BY <1>1, <1>3, <1>4, <1>5, <2>1, <2>2, <2>3 DEF TypeInv, LineOK
<1> QED BY <1>6, <1>7, <1>8, <1>9, <1>10, <1>11 DEF Environment

LEMMA TypeStep == TypeInv /\ [Next]_vars => TypeInv'
<1> SUFFICES ASSUME TypeInv, [Next]_vars PROVE TypeInv'
  OBVIOUS
<1>1. CASE UNCHANGED vars
  BY <1>1 DEF vars, scanner, onAir, radio, manager, history, TypeInv, BrokerOK, ListenerOK, MainOK,
              LineOK, MaxCalls, Completed
<1> QED BY <1>1, TypeListener, TypeMain, TypeEnvironment DEF Next

THEOREM TypeInvariant == Spec => []TypeInv
<1> QED BY TypeInit, TypeStep, PTL DEF Spec

\* Type correctness, the count of failed reads within its limit and the open
\* package among those forwarded, for any devices, packages and conditions.
THEOREM Types == Spec => []TypeOK
<1>1. TypeInv => TypeOK
  <2> SUFFICES ASSUME TypeInv PROVE TypeOK
    OBVIOUS
  <2>1. /\ listener \in [pc : ListenerPc, buf : Seq(RxFrame)]
        /\ main \in [pc : MainPc, i : Nat \ {0}, fails : 0 .. max_fail_times,
                     ip : Nat \cup {NULL}, buf : Seq(RxFrame)]
    BY DEF TypeInv, ListenerOK, MainOK
  <2>2. open \in 0 .. MaxCalls
    BY DEF TypeInv, ListenerOK, BrokerOK, MaxCalls, Condition
  <2> QED BY <2>1, <2>2 DEF TypeOK, TypeInv, BrokerOK, LineOK, ListenerPc, Entry
<1> QED BY <1>1, TypeInvariant, PTL

----------------------------------------------------------------------------
\* What reading, writing and joining queues of frames does to Exchange's parts.

LEMMA FramesOfRx == \A q \in Seq(RxFrame) : q \in Seq(Frame)
BY RxFrames

LEMMA QueueEmpty ==
    ASSUME NEW C, NEW d
    PROVE  /\ NoneOf(<<>>, C) /\ NoEnd(<<>>, C) /\ EndLast(<<>>, C) /\ Fits(<<>>, C, d)
           /\ Unsent(<<>>, C) /\ CommandsFit(<<>>, C, d)
BY DEF NoneOf, NoEnd, EndLast, Fits, Unsent, CommandsFit

LEMMA QueueNone ==
    ASSUME NEW q, NEW C, NoneOf(q, C)
    PROVE  NoEnd(q, C) /\ EndLast(q, C)
BY DEF NoneOf, NoEnd, EndLast

LEMMA QueueTail ==
    ASSUME NEW q \in Seq(Frame), q # <<>>, NEW C, NEW d
    PROVE  /\ NoneOf(q, C) => NoneOf(Tail(q), C) /\ ~ Answering(Head(q), C)
           /\ NoEnd(q, C) => NoEnd(Tail(q), C) /\ (Answering(Head(q), C) => ~ HasEnd(Head(q)))
           /\ EndLast(q, C) => /\ EndLast(Tail(q), C)
                               /\ Answering(Head(q), C) /\ HasEnd(Head(q)) => NoneOf(Tail(q), C)
           /\ Fits(q, C, d) => Fits(Tail(q), C, d) /\ Fitting(Head(q), C, d)
<1> DEFINE t == Tail(q)
           h == Head(q)
<1>1. /\ h = q[1] /\ 1 \in 1 .. Len(q) /\ Len(q) \in Nat /\ Len(t) = Len(q) - 1
      /\ \A k \in 1 .. Len(t) : k + 1 \in 1 .. Len(q) /\ t[k] = q[k + 1]
  BY Shorter
<1> HIDE DEF t, h
<1>2. NoneOf(q, C) => NoneOf(t, C) /\ ~ Answering(h, C)
  BY <1>1 DEF NoneOf
<1>3. NoEnd(q, C) => NoEnd(t, C) /\ (Answering(h, C) => ~ HasEnd(h))
  BY <1>1 DEF NoEnd
<1>4. ASSUME EndLast(q, C) PROVE EndLast(t, C)
  <2> SUFFICES ASSUME NEW j \in 1 .. Len(t), NEW k \in 1 .. Len(t), j < k,
                      Answering(t[j], C), HasEnd(t[j])
               PROVE  ~ Answering(t[k], C)
    BY DEF EndLast
  <2>1. /\ j + 1 \in 1 .. Len(q) /\ k + 1 \in 1 .. Len(q) /\ j + 1 < k + 1
        /\ t[j] = q[j + 1] /\ t[k] = q[k + 1]
    BY <1>1
  <2> QED BY <1>4, <2>1 DEF EndLast
<1>5. ASSUME EndLast(q, C), Answering(h, C), HasEnd(h) PROVE NoneOf(t, C)
  <2> SUFFICES ASSUME NEW k \in 1 .. Len(t) PROVE ~ Answering(t[k], C)
    BY DEF NoneOf
  <2>1. k + 1 \in 1 .. Len(q) /\ 1 < k + 1 /\ t[k] = q[k + 1]
    BY <1>1
  <2> QED BY <1>1, <1>5, <2>1 DEF EndLast
<1>6. Fits(q, C, d) => Fits(t, C, d) /\ Fitting(h, C, d)
  BY <1>1 DEF Fits
<1> QED BY <1>2, <1>3, <1>4, <1>5, <1>6 DEF t, h

LEMMA QueueJoin ==
    ASSUME NEW p \in Seq(Frame), NEW s \in Seq(Frame), NEW C, NEW d
    PROVE  /\ NoneOf(p, C) /\ NoneOf(s, C) => NoneOf(p \o s, C)
           /\ NoEnd(p, C) /\ NoEnd(s, C) => NoEnd(p \o s, C)
           /\ EndLast(p, C) /\ EndLast(s, C) /\ (NoEnd(p, C) \/ NoneOf(s, C)) => EndLast(p \o s, C)
           /\ Fits(p, C, d) /\ Fits(s, C, d) => Fits(p \o s, C, d)
<1> DEFINE t == p \o s
           m == Len(p)
           n == Len(s)
<1>1. /\ m \in Nat /\ n \in Nat /\ Len(t) = m + n
      /\ \A k \in 1 .. Len(t) : IF k <= m THEN k \in 1 .. m /\ t[k] = p[k]
                                ELSE k - m \in 1 .. n /\ t[k] = s[k - m]
  OBVIOUS
<1> HIDE DEF t, m, n
<1>2. NoneOf(p, C) /\ NoneOf(s, C) => NoneOf(t, C)
  BY <1>1 DEF NoneOf, m, n
<1>3. NoEnd(p, C) /\ NoEnd(s, C) => NoEnd(t, C)
  BY <1>1 DEF NoEnd, m, n
<1>4. Fits(p, C, d) /\ Fits(s, C, d) => Fits(t, C, d)
  BY <1>1 DEF Fits, m, n
<1>5. ASSUME EndLast(p, C), EndLast(s, C), NoEnd(p, C) \/ NoneOf(s, C) PROVE EndLast(t, C)
  <2> SUFFICES ASSUME NEW j \in 1 .. Len(t), NEW k \in 1 .. Len(t), j < k,
                      Answering(t[j], C), HasEnd(t[j]), Answering(t[k], C)
               PROVE  FALSE
    BY DEF EndLast
  <2>1. CASE k <= m
    <3>1. j \in 1 .. Len(p) /\ k \in 1 .. Len(p) /\ t[j] = p[j] /\ t[k] = p[k]
      BY <1>1, <2>1 DEF m
    <3> QED BY <1>5, <3>1 DEF EndLast
  <2>2. CASE j <= m /\ ~ (k <= m)
    <3>1. j \in 1 .. Len(p) /\ k - m \in 1 .. Len(s) /\ t[j] = p[j] /\ t[k] = s[k - m]
      BY <1>1, <2>2 DEF m, n
    <3> QED BY <1>5, <3>1 DEF NoEnd, NoneOf
  <2>3. CASE ~ (j <= m)
    <3>1. /\ j - m \in 1 .. Len(s) /\ k - m \in 1 .. Len(s) /\ j - m < k - m
          /\ t[j] = s[j - m] /\ t[k] = s[k - m]
      BY <1>1, <2>3 DEF m, n
    <3> QED BY <1>5, <3>1 DEF EndLast
  <2> QED BY <2>1, <2>2, <2>3
<1> QED BY <1>2, <1>3, <1>4, <1>5 DEF t

LEMMA QueueAppend ==
    ASSUME NEW q \in Seq(Frame), NEW f \in Frame, NEW C, NEW d
    PROVE  /\ NoneOf(q, C) /\ ~ Answering(f, C) => NoneOf(Append(q, f), C)
           /\ NoEnd(q, C) /\ (Answering(f, C) => ~ HasEnd(f)) => NoEnd(Append(q, f), C)
           /\ EndLast(q, C) /\ (Answering(f, C) => NoEnd(q, C)) => EndLast(Append(q, f), C)
           /\ Fits(q, C, d) /\ Fitting(f, C, d) => Fits(Append(q, f), C, d)
<1> DEFINE s == <<f>>
<1>1. s \in Seq(Frame) /\ Len(s) = 1 /\ s[1] = f /\ Append(q, f) = q \o s
  OBVIOUS
<1> HIDE DEF s
<1>2. /\ ~ Answering(f, C) => NoneOf(s, C)
      /\ (Answering(f, C) => ~ HasEnd(f)) => NoEnd(s, C)
      /\ EndLast(s, C)
      /\ Fitting(f, C, d) => Fits(s, C, d)
  BY <1>1 DEF NoneOf, NoEnd, EndLast, Fits
<1> QED BY <1>1, <1>2, QueueJoin

\* The same for the commands on the air.
LEMMA CommandsTail ==
    ASSUME NEW q \in Seq(Sendable), q # <<>>, NEW C, NEW here
    PROVE  /\ Unsent(q, C) => Unsent(Tail(q), C) /\ Head(q) \notin C
           /\ CommandsFit(q, C, here) =>
                /\ CommandsFit(Tail(q), C, here)
                /\ (Head(q) \in C /\ here) \/ Head(q) = SYN \/ ~ IsAnswered(Head(q))
                /\ Head(q) \in C /\ SYN \notin C /\ (\A c \in C : IsAnswered(c)) => Unsent(Tail(q), C)
<1> DEFINE t == Tail(q)
           h == Head(q)
<1>1. /\ h = q[1] /\ 1 \in 1 .. Len(q) /\ Len(q) \in Nat /\ Len(t) = Len(q) - 1
      /\ \A k \in 1 .. Len(t) : k + 1 \in 1 .. Len(q) /\ t[k] = q[k + 1]
  BY Shorter
<1> HIDE DEF t, h
<1>2. Unsent(q, C) => Unsent(t, C) /\ h \notin C
  BY <1>1 DEF Unsent
<1>3. ASSUME CommandsFit(q, C, here) PROVE CommandsFit(t, C, here)
  <2> SUFFICES ASSUME NEW k \in 1 .. Len(t)
               PROVE  (t[k] \in C /\ here /\ k = Len(t)) \/ t[k] = SYN \/ ~ IsAnswered(t[k])
    BY DEF CommandsFit
  <2>1. k + 1 \in 1 .. Len(q) /\ t[k] = q[k + 1] /\ (k + 1 = Len(q) <=> k = Len(t))
    BY <1>1
  <2> QED BY <1>3, <2>1 DEF CommandsFit
<1>4. CommandsFit(q, C, here) => (h \in C /\ here) \/ h = SYN \/ ~ IsAnswered(h)
  BY <1>1 DEF CommandsFit
<1>5. ASSUME CommandsFit(q, C, here), h \in C, SYN \notin C, \A c \in C : IsAnswered(c)
      PROVE  Unsent(t, C)
  <2>1. 1 = Len(q)
    BY <1>1, <1>5 DEF CommandsFit
  <2>2. Len(t) = Len(q) - 1 /\ Len(q) \in Nat
    BY <1>1
  <2>3. \A k \in 1 .. Len(t) : FALSE
    BY <2>1, <2>2
  <2> QED BY <2>3 DEF Unsent
<1> QED BY <1>2, <1>3, <1>4, <1>5 DEF t, h

LEMMA CommandsAppend ==
    ASSUME NEW q \in Seq(Sendable), NEW c \in Sendable, NEW C, NEW here, Unsent(q, C)
    PROVE  /\ c \notin C => Unsent(Append(q, c), C)
           /\ CommandsFit(q, C, here) /\ ((c \in C /\ here) \/ c = SYN \/ ~ IsAnswered(c))
                => CommandsFit(Append(q, c), C, here)
<1> DEFINE t == Append(q, c)
<1>1. /\ Len(q) \in Nat /\ Len(t) = Len(q) + 1 /\ t[Len(q) + 1] = c
      /\ \A k \in 1 .. Len(t) : k = Len(t) \/ (k \in 1 .. Len(q) /\ t[k] = q[k])
  BY Longer
<1> HIDE DEF t
<1>2. c \notin C => Unsent(t, C)
  BY <1>1 DEF Unsent
<1>3. ASSUME CommandsFit(q, C, here), (c \in C /\ here) \/ c = SYN \/ ~ IsAnswered(c)
      PROVE  CommandsFit(t, C, here)
  <2> SUFFICES ASSUME NEW k \in 1 .. Len(t)
               PROVE  (t[k] \in C /\ here /\ k = Len(t)) \/ t[k] = SYN \/ ~ IsAnswered(t[k])
    BY DEF CommandsFit
  <2>1. CASE k = Len(t)
    BY <1>1, <1>3, <2>1
  <2>2. CASE k # Len(t)
    <3>1. k \in 1 .. Len(q) /\ t[k] = q[k] /\ q[k] \notin C
      BY <1>1, <2>2 DEF Unsent
    <3> QED BY <1>3, <3>1 DEF CommandsFit
  <2> QED BY <2>1, <2>2
<1> QED BY <1>2, <1>3 DEF t

----------------------------------------------------------------------------
\* What a step of the modem, the devices or a thread does to an exchange.

OnLine(a, o, r, b) ==
    /\ a \in [Dev -> Seq(Sendable)] /\ o \in [Dev -> Seq(RxFrame)]
    /\ \A d \in Dev : o[d] \in Seq(FrameOf(d))
    /\ r \in Seq(Frame) /\ b \in Seq(RxFrame)

LEMMA AnswerFits ==
    ASSUME NEW e \in Dev, NEW cmd \in Command, NEW s \in AnswersOf(e, cmd), NEW C, NEW d
    PROVE  /\ s \in Seq(Frame) /\ EndLast(s, C)
           /\ cmd \notin C => NoneOf(s, C)
           /\ (cmd \in C /\ e = d) \/ cmd = SYN => Fits(s, C, d)
<1>1. /\ s \in Seq(RxFrame) /\ Len(s) \in {1, 2}
      /\ \A k \in 1 .. Len(s) : s[k].cmd = cmd /\ s[k].from = e /\ (cmd = SYN => s[k].part = "none")
      /\ Len(s) = 2 => ~ HasEnd(s[1])
  BY AnswerFrames
<1>2. s \in Seq(Frame)
  BY <1>1, FramesOfRx
<1>3. EndLast(s, C)
  BY <1>1 DEF EndLast
<1>4. cmd \notin C => NoneOf(s, C)
  BY <1>1 DEF NoneOf, Answering
<1>5. (cmd \in C /\ e = d) \/ cmd = SYN => Fits(s, C, d)
  BY <1>1 DEF Fits, Fitting
<1> QED BY <1>2, <1>3, <1>4, <1>5

\* A device hears a command, and answers it or not.
LEMMA ExchangeHears ==
    ASSUME NEW a, NEW o, NEW r, NEW b, OnLine(a, o, r, b), NEW C, NEW d, Exchange(C, d, a, o, r, b),
           NEW e \in Dev, a[e] # <<>>, NEW o2,
           \/ IsAnswered(Head(a[e])) /\ \E s \in AnswersOf(e, Head(a[e])) : o2 = [o EXCEPT ![e] = o[e] \o s]
           \/ o2 = o
    PROVE  Exchange(C, d, [a EXCEPT ![e] = Tail(a[e])], o2, r, b)
<1> DEFINE a2 == [a EXCEPT ![e] = Tail(a[e])]
           cmd == Head(a[e])
<1>1. /\ SYN \notin C /\ \A c \in C : IsAnswered(c)
      /\ \A f \in Dev : CommandsFit(a[f], C, f = d) /\ Fits(o[f], C, d) /\ EndLast(o[f], C)
      /\ Fits(r, C, d) /\ EndLast(r, C) /\ Fits(b, C, d)
      /\ \A f \in Dev : Unsent(a[f], C)
            \/ ((\A g \in Dev : NoneOf(o[g], C)) /\ NoneOf(r, C) /\ NoneOf(b, C))
      /\ \A f \in Dev : NoneOf(o[f], C) \/ (NoEnd(r, C) /\ NoEnd(b, C))
      /\ NoneOf(r, C) \/ NoEnd(b, C)
  BY DEF Exchange
<1>2. /\ a[e] \in Seq(Sendable) /\ cmd \in Sendable
      /\ \A f \in Dev : o[f] \in Seq(Frame)
      /\ \A f \in Dev : a2[f] = IF f = e THEN Tail(a[e]) ELSE a[f]
  BY Shorter, FramesOfRx DEF OnLine
<1>3. /\ \A f \in Dev : CommandsFit(a2[f], C, f = d)
      /\ \A f \in Dev : Unsent(a[f], C) => Unsent(a2[f], C)
      /\ (cmd \in C /\ e = d) \/ cmd = SYN \/ ~ IsAnswered(cmd)
      /\ cmd \in C => Unsent(a2[e], C) /\ ~ Unsent(a[e], C)
  <2> HIDE DEF a2
  <2>1. CommandsFit(a[e], C, e = d)
    BY <1>1
  <2>2. /\ Unsent(a[e], C) => Unsent(a2[e], C) /\ cmd \notin C
        /\ CommandsFit(a2[e], C, e = d)
        /\ (cmd \in C /\ e = d) \/ cmd = SYN \/ ~ IsAnswered(cmd)
        /\ cmd \in C => Unsent(a2[e], C)
    <3>1. a2[e] = Tail(a[e]) /\ a[e] \in Seq(Sendable)
      BY <1>2
    <3>2. SYN \notin C /\ \A c \in C : IsAnswered(c)
      BY <1>1
    <3>3. /\ Unsent(a[e], C) => Unsent(Tail(a[e]), C) /\ cmd \notin C
          /\ CommandsFit(Tail(a[e]), C, e = d)
          /\ (cmd \in C /\ e = d) \/ cmd = SYN \/ ~ IsAnswered(cmd)
          /\ cmd \in C => Unsent(Tail(a[e]), C)
      BY <2>1, <3>1, <3>2, CommandsTail
    <3> QED BY <3>1, <3>3
  <2> QED BY <1>1, <1>2, <2>2
<1>4. \A f \in Dev : f # d => Unsent(a[f], C)
  <2> SUFFICES ASSUME NEW f \in Dev, f # d PROVE Unsent(a[f], C)
    OBVIOUS
  <2>1. CommandsFit(a[f], C, f = d)
    BY <1>1
  <2> QED BY <1>1, <2>1 DEF CommandsFit, Unsent
<1>5. o2 \in [Dev -> Seq(RxFrame)] => TRUE
  OBVIOUS
<1> HIDE DEF a2, cmd
<1>6. CASE o2 = o
  <2>1. \A f \in Dev : Unsent(a2[f], C)
            \/ ((\A g \in Dev : NoneOf(o[g], C)) /\ NoneOf(r, C) /\ NoneOf(b, C))
    BY <1>1, <1>3
  <2> QED BY <1>1, <1>3, <1>6, <2>1 DEF Exchange, a2
<1>7. CASE IsAnswered(cmd) /\ \E s \in AnswersOf(e, cmd) : o2 = [o EXCEPT ![e] = o[e] \o s]
  <2>1. PICK s \in AnswersOf(e, cmd) : o2 = [o EXCEPT ![e] = o[e] \o s]
    BY <1>7
  <2>2. cmd \in Command
    BY <1>2, <1>7, SendableCommands
  <2>3. /\ s \in Seq(Frame) /\ EndLast(s, C) /\ (cmd \notin C => NoneOf(s, C)) /\ Fits(s, C, d)
    BY <1>3, <1>7, <2>2, AnswerFits
  <2>4. \A f \in Dev : o2[f] = IF f = e THEN o[e] \o s ELSE o[f]
    BY <2>1 DEF OnLine
  <2>5. o[e] \in Seq(Frame) /\ Fits(o[e], C, d) /\ EndLast(o[e], C)
    BY <1>1, <1>2
  <2>6. Fits(o[e] \o s, C, d)
    BY <2>3, <2>5, QueueJoin
  <2>7. CASE cmd \in C
    <3>1. (\A g \in Dev : NoneOf(o[g], C)) /\ NoneOf(r, C) /\ NoneOf(b, C)
      BY <1>1, <1>3, <2>7
    <3>2. NoEnd(r, C) /\ NoEnd(b, C) /\ NoEnd(o[e], C)
      BY <3>1, QueueNone
    <3>3. EndLast(o[e] \o s, C)
      BY <2>3, <2>5, <3>2, QueueJoin
    <3>4. \A f \in Dev : Unsent(a2[f], C)
      BY <1>3, <1>4, <2>7
    <3>5. \A f \in Dev : Fits(o2[f], C, d) /\ EndLast(o2[f], C)
      BY <1>1, <2>4, <2>6, <3>3
    <3> QED BY <1>1, <1>3, <3>2, <3>4, <3>5 DEF Exchange, a2
  <2>8. CASE cmd \notin C
    <3>1. /\ EndLast(o[e] \o s, C) /\ (NoneOf(o[e], C) => NoneOf(o[e] \o s, C))
      BY <2>3, <2>5, <2>8, QueueJoin
    <3>2. \A f \in Dev : /\ Fits(o2[f], C, d) /\ EndLast(o2[f], C)
                         /\ NoneOf(o[f], C) => NoneOf(o2[f], C)
      BY <1>1, <2>4, <2>6, <3>1
    <3>3. \A f \in Dev : Unsent(a2[f], C)
            \/ ((\A g \in Dev : NoneOf(o2[g], C)) /\ NoneOf(r, C) /\ NoneOf(b, C))
      BY <1>1, <1>3, <3>2
    <3>4. \A f \in Dev : NoneOf(o2[f], C) \/ (NoEnd(r, C) /\ NoEnd(b, C))
      BY <1>1, <3>2
    <3> QED BY <1>1, <1>3, <3>2, <3>3, <3>4 DEF Exchange, a2
  <2> QED BY <2>7, <2>8
<1> QED BY <1>6, <1>7 DEF cmd

\* The radio delivers a frame of an answer, or loses it.
LEMMA ExchangeDelivers ==
    ASSUME NEW a, NEW o, NEW r, NEW b, OnLine(a, o, r, b), NEW C, NEW d, Exchange(C, d, a, o, r, b),
           NEW e \in Dev, o[e] # <<>>, NEW r2, r2 = Append(r, Head(o[e])) \/ r2 = r
    PROVE  Exchange(C, d, a, [o EXCEPT ![e] = Tail(o[e])], r2, b)
<1> DEFINE o2 == [o EXCEPT ![e] = Tail(o[e])]
           h == Head(o[e])
<1>1. /\ SYN \notin C /\ \A c \in C : IsAnswered(c)
      /\ \A f \in Dev : CommandsFit(a[f], C, f = d) /\ Fits(o[f], C, d) /\ EndLast(o[f], C)
      /\ Fits(r, C, d) /\ EndLast(r, C) /\ Fits(b, C, d)
      /\ \A f \in Dev : Unsent(a[f], C)
            \/ ((\A g \in Dev : NoneOf(o[g], C)) /\ NoneOf(r, C) /\ NoneOf(b, C))
      /\ \A f \in Dev : NoneOf(o[f], C) \/ (NoEnd(r, C) /\ NoEnd(b, C))
      /\ NoneOf(r, C) \/ NoEnd(b, C)
  BY DEF Exchange
<1>2. /\ o[e] \in Seq(Frame) /\ r \in Seq(Frame) /\ h \in Frame
      /\ \A f \in Dev : o2[f] = IF f = e THEN Tail(o[e]) ELSE o[f]
  BY Shorter, FramesOfRx DEF OnLine
<1>3. /\ \A f \in Dev : o[f] \in Seq(FrameOf(f))
      /\ h \in FrameOf(e)
  BY Shorter DEF OnLine
<1>4. \A f \in Dev : f # d => NoneOf(o[f], C)
  <2> SUFFICES ASSUME NEW f \in Dev, f # d, NEW k \in 1 .. Len(o[f]), Answering(o[f][k], C) PROVE FALSE
    BY DEF NoneOf
  <2>1. o[f][k] \in FrameOf(f) /\ Fitting(o[f][k], C, d)
    <3>1. o[f] \in Seq(FrameOf(f)) /\ Fits(o[f], C, d)
      BY <1>1, <1>3
    <3> QED BY <3>1 DEF Fits
  <2>2. o[f][k].from = f
    BY <2>1 DEF FrameOf
  <2> QED BY <1>1, <2>1, <2>2 DEF Fitting, Answering
<1> HIDE DEF o2, h
<1>5. /\ NoneOf(o[e], C) => NoneOf(o2[e], C) /\ ~ Answering(h, C)
      /\ EndLast(o2[e], C) /\ (Answering(h, C) /\ HasEnd(h) => NoneOf(o2[e], C))
      /\ Fits(o2[e], C, d) /\ Fitting(h, C, d)
  <2>1. Fits(o[e], C, d) /\ EndLast(o[e], C) /\ o2[e] = Tail(o[e])
    BY <1>1, <1>2
  <2> QED BY <1>2, <2>1, QueueTail DEF h
<1>6. \A f \in Dev : /\ Fits(o2[f], C, d) /\ EndLast(o2[f], C)
                     /\ NoneOf(o[f], C) => NoneOf(o2[f], C)
  BY <1>1, <1>2, <1>5
<1>7. CASE r2 = r
  <2>1. \A f \in Dev : Unsent(a[f], C)
            \/ ((\A g \in Dev : NoneOf(o2[g], C)) /\ NoneOf(r, C) /\ NoneOf(b, C))
    BY <1>1, <1>6
  <2>2. \A f \in Dev : NoneOf(o2[f], C) \/ (NoEnd(r, C) /\ NoEnd(b, C))
    BY <1>1, <1>6
  <2> QED BY <1>1, <1>6, <1>7, <2>1, <2>2 DEF Exchange, o2
<1>8. CASE r2 = Append(r, h)
  <2>0. /\ NoneOf(r, C) /\ ~ Answering(h, C) => NoneOf(r2, C)
        /\ NoEnd(r, C) /\ (Answering(h, C) => ~ HasEnd(h)) => NoEnd(r2, C)
        /\ EndLast(r, C) /\ (Answering(h, C) => NoEnd(r, C)) => EndLast(r2, C)
        /\ Fits(r, C, d) /\ Fitting(h, C, d) => Fits(r2, C, d)
    BY <1>2, <1>8, QueueAppend
  <2>1. CASE Answering(h, C)
    <3>1. ~ NoneOf(o[e], C)
      BY <1>5, <2>1
    <3>2. NoEnd(r, C) /\ NoEnd(b, C) /\ \A f \in Dev : Unsent(a[f], C)
      BY <1>1, <3>1
    <3>3. Fits(r2, C, d) /\ EndLast(r2, C)
      BY <1>1, <1>5, <2>0, <3>2
    <3>4. e = d
      BY <1>4, <3>1
    <3>5. \A f \in Dev : NoneOf(o2[f], C) \/ NoEnd(r2, C)
      <4>1. CASE HasEnd(h)
        <5>1. \A f \in Dev : NoneOf(o2[f], C)
          BY <1>2, <1>4, <1>5, <2>1, <3>4, <4>1
        <5> QED BY <5>1
      <4>2. CASE ~ HasEnd(h)
        BY <2>0, <3>2, <4>2
      <4> QED BY <4>1, <4>2
    <3> QED BY <1>1, <1>6, <3>2, <3>3, <3>5 DEF Exchange, o2
  <2>2. CASE ~ Answering(h, C)
    <3>1. /\ Fits(r2, C, d) /\ EndLast(r2, C)
          /\ NoneOf(r, C) => NoneOf(r2, C)
          /\ NoEnd(r, C) => NoEnd(r2, C)
      BY <1>1, <1>5, <2>0, <2>2
    <3>2. \A f \in Dev : Unsent(a[f], C)
            \/ ((\A g \in Dev : NoneOf(o2[g], C)) /\ NoneOf(r2, C) /\ NoneOf(b, C))
      BY <1>1, <1>6, <3>1
    <3>3. \A f \in Dev : NoneOf(o2[f], C) \/ (NoEnd(r2, C) /\ NoEnd(b, C))
      BY <1>1, <1>6, <3>1
    <3>4. NoneOf(r2, C) \/ NoEnd(b, C)
      BY <1>1, <3>1
    <3> QED BY <1>1, <1>6, <3>1, <3>2, <3>3, <3>4 DEF Exchange, o2
  <2> QED BY <2>1, <2>2
<1> QED BY <1>7, <1>8 DEF h

\* A thread reads a frame, and keeps it or not.
LEMMA ExchangeReads ==
    ASSUME NEW a, NEW o, NEW r, NEW b, OnLine(a, o, r, b), NEW C, NEW d, Exchange(C, d, a, o, r, b),
           r # <<>>, NEW b2, b2 = Collect(Head(r), b) \/ b2 = b
    PROVE  Exchange(C, d, a, o, Tail(r), b2)
<1> DEFINE r2 == Tail(r)
           h == Head(r)
<1>1. /\ SYN \notin C /\ \A c \in C : IsAnswered(c)
      /\ \A f \in Dev : CommandsFit(a[f], C, f = d) /\ Fits(o[f], C, d) /\ EndLast(o[f], C)
      /\ Fits(r, C, d) /\ EndLast(r, C) /\ Fits(b, C, d)
      /\ \A f \in Dev : Unsent(a[f], C)
            \/ ((\A g \in Dev : NoneOf(o[g], C)) /\ NoneOf(r, C) /\ NoneOf(b, C))
      /\ \A f \in Dev : NoneOf(o[f], C) \/ (NoEnd(r, C) /\ NoEnd(b, C))
      /\ NoneOf(r, C) \/ NoEnd(b, C)
  BY DEF Exchange
<1>2. r \in Seq(Frame) /\ b \in Seq(Frame) /\ h \in Frame
  BY Shorter, FramesOfRx DEF OnLine
<1>3. /\ NoneOf(r, C) => NoneOf(r2, C) /\ ~ Answering(h, C)
      /\ NoEnd(r, C) => NoEnd(r2, C) /\ (Answering(h, C) => ~ HasEnd(h))
      /\ EndLast(r2, C) /\ (Answering(h, C) /\ HasEnd(h) => NoneOf(r2, C))
      /\ Fits(r2, C, d) /\ Fitting(h, C, d)
  BY <1>1, <1>2, QueueTail
<1> HIDE DEF r2, h
<1>4. CASE b2 = b
  <2>1. \A f \in Dev : Unsent(a[f], C)
            \/ ((\A g \in Dev : NoneOf(o[g], C)) /\ NoneOf(r2, C) /\ NoneOf(b, C))
    BY <1>1, <1>3
  <2>2. \A f \in Dev : NoneOf(o[f], C) \/ (NoEnd(r2, C) /\ NoEnd(b, C))
    BY <1>1, <1>3
  <2> QED BY <1>1, <1>3, <1>4, <2>1, <2>2 DEF Exchange, r2
<1>5. CASE b2 = Append(b, h)
  <2>0. /\ NoneOf(b, C) /\ ~ Answering(h, C) => NoneOf(b2, C)
        /\ NoEnd(b, C) /\ (Answering(h, C) => ~ HasEnd(h)) => NoEnd(b2, C)
        /\ Fits(b2, C, d)
    BY <1>1, <1>2, <1>3, <1>5, QueueAppend
  <2>1. CASE Answering(h, C)
    <3>1. NoEnd(b, C) /\ \A f \in Dev : Unsent(a[f], C)
      BY <1>1, <1>3, <2>1
    <3>2. CASE HasEnd(h)
      <4>1. NoneOf(r2, C) /\ \A f \in Dev : NoneOf(o[f], C)
        BY <1>1, <1>3, <2>1, <3>2
      <4> QED BY <1>1, <1>3, <2>0, <3>1, <4>1 DEF Exchange, r2
    <3>3. CASE ~ HasEnd(h)
      <4>1. NoEnd(b2, C)
        BY <2>0, <3>1, <3>3
      <4>2. \A f \in Dev : NoneOf(o[f], C) \/ NoEnd(r2, C)
        BY <1>1, <1>3
      <4> QED BY <1>1, <1>3, <2>0, <3>1, <4>1, <4>2 DEF Exchange, r2
    <3> QED BY <3>2, <3>3
  <2>2. CASE ~ Answering(h, C)
    <3>1. /\ NoneOf(b, C) => NoneOf(b2, C)
          /\ NoEnd(b, C) => NoEnd(b2, C)
      BY <2>0, <2>2
    <3>2. \A f \in Dev : Unsent(a[f], C)
            \/ ((\A g \in Dev : NoneOf(o[g], C)) /\ NoneOf(r2, C) /\ NoneOf(b2, C))
      BY <1>1, <1>3, <3>1
    <3>3. \A f \in Dev : NoneOf(o[f], C) \/ (NoEnd(r2, C) /\ NoEnd(b2, C))
      BY <1>1, <1>3, <3>1
    <3>4. NoneOf(r2, C) \/ NoEnd(b2, C)
      BY <1>1, <1>3, <3>1
    <3> QED BY <1>1, <1>3, <2>0, <3>2, <3>3, <3>4 DEF Exchange, r2
  <2> QED BY <2>1, <2>2
<1> QED BY <1>4, <1>5 DEF Collect, h

\* What a thread read is forgotten, and the line may be cleared too.
LEMMA ExchangeForgets ==
    ASSUME NEW a, NEW o, NEW r, NEW b, NEW C, NEW d, Exchange(C, d, a, o, r, b)
    PROVE  Exchange(C, d, a, o, r, <<>>) /\ Exchange(C, d, a, o, <<>>, <<>>)
BY QueueEmpty DEF Exchange

\* The modem puts a frame of its own on the line.
LEMMA ExchangeStatus ==
    ASSUME NEW a, NEW o, NEW r, NEW b, OnLine(a, o, r, b), NEW C, NEW d, Exchange(C, d, a, o, r, b),
           NEW f \in Frame, f.api # "ZB_RX_RESPONSE"
    PROVE  Exchange(C, d, a, o, Append(r, f), b)
<1>1. /\ NoneOf(r, C) => NoneOf(Append(r, f), C)
      /\ NoEnd(r, C) => NoEnd(Append(r, f), C)
      /\ EndLast(r, C) => EndLast(Append(r, f), C)
      /\ Fits(r, C, d) => Fits(Append(r, f), C, d)
  <2>1. ~ Answering(f, C) /\ Fitting(f, C, d) /\ r \in Seq(Frame)
    BY DEF Answering, Fitting, OnLine
  <2> QED BY <2>1, QueueAppend
<1> HIDE DEF Fits, EndLast, NoEnd, NoneOf
<1> QED BY <1>1 DEF Exchange

\* Nothing of C is left.
LEMMA ExchangeQuiet ==
    ASSUME NEW a, NEW o, NEW r, NEW b, NEW C, NEW d, Exchange(C, d, a, o, r, b), NEW d2,
           \A e \in Dev : Unsent(a[e], C) /\ NoneOf(o[e], C), NoneOf(r, C)
    PROVE  Exchange({}, d2, a, o, r, <<>>)
<1>1. \A e \in Dev : CommandsFit(a[e], {}, e = d2) /\ Fits(o[e], {}, d2)
  BY DEF Exchange, CommandsFit, Unsent, Fits, Fitting, NoneOf, Answering
<1>2. Fits(r, {}, d2)
  BY DEF Exchange, Fits, Fitting, NoneOf, Answering
<1>3. \A q : NoneOf(q, {}) /\ EndLast(q, {}) /\ NoEnd(q, {})
  BY DEF NoneOf, EndLast, NoEnd, Answering
<1> QED BY <1>1, <1>2, <1>3, QueueEmpty DEF Exchange

\* The end of the answer was read.
LEMMA ExchangeEnds ==
    ASSUME NEW a, NEW o, NEW r, NEW b, OnLine(a, o, r, b), NEW C, NEW d, Exchange(C, d, a, o, r, b),
           NEW d2, Completed(b)
    PROVE  Exchange({}, d2, a, o, r, <<>>)
<1>1. b \in Seq(RxFrame) /\ Len(b) \in 1 .. Len(b) /\ HasEnd(b[Len(b)])
  BY DEF OnLine, Completed
<1>2. Fitting(b[Len(b)], C, d) /\ b[Len(b)].api = "ZB_RX_RESPONSE"
  BY <1>1, RxFrames DEF Exchange, Fits
<1>3. Answering(b[Len(b)], C)
  BY <1>1, <1>2 DEF Answering, Fitting, HasEnd
<1>4. ~ NoEnd(b, C) /\ ~ NoneOf(b, C)
  BY <1>1, <1>3 DEF NoEnd, NoneOf
<1>5. (\A e \in Dev : Unsent(a[e], C) /\ NoneOf(o[e], C)) /\ NoneOf(r, C)
  BY <1>4 DEF Exchange
<1> QED BY <1>5, ExchangeQuiet

\* A command is sent while none is under way.
LEMMA ExchangeSends ==
    ASSUME NEW a, NEW o, NEW r, OnLine(a, o, r, <<>>), NEW d, Exchange({}, d, a, o, r, <<>>),
           NEW e \in Dev, NEW c \in Sendable, NEW C, NEW a2,
           \A f \in Dev : a2[f] = IF f = e THEN Append(a[e], c) ELSE a[f],
           \/ C = {c} /\ IsAnswered(c) /\ c # SYN
           \/ C = {} /\ (c = SYN \/ ~ IsAnswered(c))
    PROVE  Exchange(C, e, a2, o, r, <<>>)
<1>1. SYN \notin C /\ \A x \in C : IsAnswered(x)
  OBVIOUS
<1>2. ASSUME NEW q, Fits(q, {}, d)
      PROVE  Fits(q, C, e) /\ NoneOf(q, C) /\ EndLast(q, C) /\ NoEnd(q, C)
  <2>1. Fits(q, C, e) /\ NoneOf(q, C)
    BY <1>1, <1>2 DEF Fits, Fitting, NoneOf, Answering
  <2> QED BY <2>1, QueueNone
<1>3. ASSUME NEW f \in Dev PROVE Unsent(a[f], C) /\ CommandsFit(a[f], C, f = e)
  <2>1. CommandsFit(a[f], {}, f = d)
    BY DEF Exchange
  <2> QED BY <1>1, <2>1 DEF CommandsFit, Unsent
<1>4. a[e] \in Seq(Sendable)
  BY DEF OnLine
<1>5. CommandsFit(Append(a[e], c), C, e = e)
  <2>1. (c \in C /\ e = e) \/ c = SYN \/ ~ IsAnswered(c)
    OBVIOUS
  <2>2. Unsent(a[e], C) /\ CommandsFit(a[e], C, e = e)
    BY <1>3
  <2> QED BY <1>4, <2>1, <2>2, CommandsAppend
<1>6. \A f \in Dev : CommandsFit(a2[f], C, f = e)
  BY <1>3, <1>5
<1>7. /\ \A f \in Dev : Fits(o[f], {}, d)
      /\ Fits(r, {}, d)
  BY DEF Exchange
<1>8. /\ \A f \in Dev : Fits(o[f], C, e) /\ NoneOf(o[f], C) /\ EndLast(o[f], C)
      /\ Fits(r, C, e) /\ NoneOf(r, C) /\ EndLast(r, C) /\ NoEnd(r, C)
  BY <1>2, <1>7
<1> QED BY <1>1, <1>6, <1>8, QueueEmpty DEF Exchange

LEMMA ExchangeNothing ==
    ASSUME NEW a, NEW o, NEW r, NEW d, r = <<>>, \A e \in Dev : a[e] = <<>> /\ o[e] = <<>>
    PROVE  Exchange({}, d, a, o, r, <<>>)
<1>1. \A here : CommandsFit(<<>>, {}, here) /\ Unsent(<<>>, {})
  BY DEF CommandsFit, Unsent
<1> QED BY <1>1, QueueEmpty DEF Exchange

LEMMA ExchangeNone ==
    ASSUME NEW a, NEW o, NEW r, NEW b, NEW d, Exchange({}, d, a, o, r, b), NEW d2
    PROVE  Exchange({}, d2, a, o, r, <<>>)
<1>1. \A q : NoneOf(q, {}) /\ Unsent(q, {})
  BY DEF NoneOf, Answering, Unsent
<1> QED BY <1>1, ExchangeQuiet

----------------------------------------------------------------------------
\* ServeInv.

LEMMA SeqGrows == ASSUME NEW S, NEW T, S \subseteq T, NEW q \in Seq(S) PROVE q \in Seq(T)
OBVIOUS

LEMMA SaidGrows ==
    ASSUME NEW A \in Seq(Dev \cup {NULL}), NEW x \in Dev \cup {NULL}
    PROVE  /\ \A d \in Dev : CommandsTo(A, d) \subseteq CommandsTo(Append(A, x), d)
           /\ FramesSaid(A) \subseteq FramesSaid(Append(A, x))
<1>1. \A cmd, e : SaidTo(A, cmd, e) => SaidTo(Append(A, x), cmd, e)
  <2> SUFFICES ASSUME NEW cmd, NEW e, SaidTo(A, cmd, e) PROVE SaidTo(Append(A, x), cmd, e)
    OBVIOUS
  <2>1. cmd.n \in 1 .. Len(Append(A, x)) /\ Append(A, x)[cmd.n] = A[cmd.n]
    BY Longer DEF SaidTo
  <2> QED BY <2>1 DEF SaidTo
<1> QED BY <1>1 DEF CommandsTo, FramesSaid

LEMMA LineIsTyped ==
    ASSUME TypeInv
    PROVE  OnLine(air, out, rx, Live) /\ OnLine(air, out, rx, <<>>)
<1>1. Live \in Seq(RxFrame) /\ <<>> \in Seq(RxFrame)
  BY DEF TypeInv, ListenerOK, Live
<1> QED BY <1>1 DEF TypeInv, LineOK, OnLine

\* What may happen while a command is under way, but for the threads.
LEMMA ExchangeEnvironment ==
    ASSUME TypeInv, NEW b \in Seq(RxFrame), NEW C, NEW d, Exchange(C, d, air, out, rx, b), Environment
    PROVE  Exchange(C, d, air', out', rx', b)
<1>0. OnLine(air, out, rx, b)
  BY DEF TypeInv, LineOK, OnLine
<1>1. ASSUME NEW ip \in 0 .. Cardinality(Dev) - 1, ManagerCalls(ip)
      PROVE  Exchange(C, d, air', out', rx', b)
  BY <1>1 DEF ManagerCalls, radio, onAir
<1>2. ASSUME NEW f \in Frame, f.api # "ZB_RX_RESPONSE", rx' = Append(rx, f) \/ UNCHANGED rx,
             UNCHANGED <<air, out>>
      PROVE  Exchange(C, d, air', out', rx', b)
  BY <1>0, <1>2, ExchangeStatus
<1>3. ASSUME NEW ok \in BOOLEAN, TxStatus(ok) PROVE Exchange(C, d, air', out', rx', b)
  <2> DEFINE f == [api |-> "ZB_TX_STATUS_RESPONSE", ok |-> ok]
  <2>1. f \in Frame /\ f.api # "ZB_RX_RESPONSE"
    BY RxFrames DEF StatusFrame
  <2>2. rx' = Append(rx, f) /\ UNCHANGED <<air, out>>
    BY <1>3 DEF TxStatus
  <2> HIDE DEF f
  <2> QED BY <1>2, <2>1, <2>2
<1>4. ASSUME NEW e \in Dev, Discovered(e) PROVE Exchange(C, d, air', out', rx', b)
  <2> DEFINE f == [api |-> "AT_COMMAND_RESPONSE", status |-> "ok", dev |-> e]
  <2>1. f \in Frame /\ f.api # "ZB_RX_RESPONSE"
    BY RxFrames DEF AtFrame
  <2>2. (rx' = Append(rx, f) \/ UNCHANGED rx) /\ UNCHANGED <<air, out>>
    BY <1>4 DEF Discovered
  <2> HIDE DEF f
  <2> QED BY <1>2, <2>1, <2>2
<1>5. ASSUME NEW status \in {"ok", "error"}, DiscoveredNobody(status)
      PROVE  Exchange(C, d, air', out', rx', b)
  <2> DEFINE f == [api |-> "AT_COMMAND_RESPONSE", status |-> status, dev |-> NULL]
  <2>1. f \in Frame /\ f.api # "ZB_RX_RESPONSE"
    BY RxFrames DEF AtFrame
  <2>2. rx' = Append(rx, f) /\ UNCHANGED <<air, out>>
    BY <1>5 DEF DiscoveredNobody
  <2> HIDE DEF f
  <2> QED BY <1>2, <2>1, <2>2
<1>6. ASSUME NEW e \in Dev, DeviceHears(e) PROVE Exchange(C, d, air', out', rx', b)
  <2>1. /\ air[e] # <<>> /\ air' = [air EXCEPT ![e] = Tail(air[e])] /\ UNCHANGED rx
        /\ \/ /\ IsAnswered(Head(air[e]))
              /\ \E s \in AnswersOf(e, Head(air[e])) : out' = [out EXCEPT ![e] = out[e] \o s]
           \/ UNCHANGED out
    BY <1>6 DEF DeviceHears
  <2> QED BY <1>0, <2>1, ExchangeHears
<1>7. ASSUME NEW e \in Dev, RadioDelivers(e) PROVE Exchange(C, d, air', out', rx', b)
  <2>1. /\ out[e] # <<>> /\ out' = [out EXCEPT ![e] = Tail(out[e])] /\ UNCHANGED air
        /\ rx' = Append(rx, Head(out[e])) \/ UNCHANGED rx
    BY <1>7 DEF RadioDelivers
  <2> QED BY <1>0, <2>1, ExchangeDelivers
<1> QED BY <1>1, <1>3, <1>4, <1>5, <1>6, <1>7 DEF Environment

LEMMA ServeInit == Init /\ ~ given.scan => ServeInv
<1> SUFFICES ASSUME Init, ~ given.scan PROVE ServeInv
  OBVIOUS
<1>1. /\ rx = <<>> /\ \A d \in Dev : air[d] = <<>> /\ out[d] = <<>>
      /\ listener.pc = "recv" /\ asked = <<>> /\ open = 0 /\ main.pc = "done"
  BY DEF Init, InitScanning, InitServing, InitLine, MainAt
<1>2. Live = <<>>
  BY <1>1 DEF Live
<1>3. Current = {}
  BY <1>1, ReadsAssumption DEF Current
<1>4. Exchange({}, asked[open], air, out, rx, <<>>)
  BY <1>1, ExchangeNothing
<1>5. SaidOK
  <2>1. \A S : <<>> \in Seq(S)
    OBVIOUS
  <2> QED BY <1>1, <1>2, <2>1 DEF SaidOK
<1>6. Exchange(Current, asked[open], air, out, rx, Live)
  BY <1>2, <1>3, <1>4
<1> QED BY <1>1, <1>5, <1>6 DEF ServeInv, ServedOK

LEMMA ServeEnvironment == TypeInv /\ ServeInv /\ Environment => ServeInv'
<1> SUFFICES ASSUME TypeInv, ServeInv, Environment PROVE ServeInv'
  OBVIOUS
<1> USE DEF scanner, onAir, radio, manager, history
<1>1. UNCHANGED <<listener, given, main, asked, open>>
  BY DEF Environment, ManagerCalls, TxStatus, Discovered, DiscoveredNobody, DeviceHears, RadioDelivers
<1>2. /\ \A d \in Dev : air[d] \in Seq(CommandsTo(asked, d)) /\ out[d] \in Seq(FramesSaid(asked))
      /\ rx \in Seq(FramesSaid(asked)) /\ Live \in Seq(FramesSaid(asked))
      /\ air \in [Dev -> Seq(Sendable)] /\ out \in [Dev -> Seq(RxFrame)]
  BY DEF ServeInv, SaidOK, TypeInv, LineOK
<1>3. Live' = Live /\ Current' = Current /\ Late' = Late
  BY <1>1 DEF Live, Current, Late
<1>4. Live \in Seq(RxFrame)
  BY DEF TypeInv, ListenerOK, Live
<1>5. ~ Late => Exchange(Current, asked[open], air', out', rx', Live)
  BY <1>4, ExchangeEnvironment DEF ServeInv
<1>6. ASSUME NEW f \in Frame, f.api # "ZB_RX_RESPONSE", rx' = Append(rx, f)
      PROVE  rx' \in Seq(FramesSaid(asked))
  <2>1. f \in FramesSaid(asked)
    BY <1>6 DEF FramesSaid
  <2> QED BY <1>2, <1>6, <2>1, Longer
<1>7. /\ \A d \in Dev : air'[d] \in Seq(CommandsTo(asked, d)) /\ out'[d] \in Seq(FramesSaid(asked))
      /\ rx' \in Seq(FramesSaid(asked))
  <2>1. ASSUME NEW ip \in 0 .. Cardinality(Dev) - 1, ManagerCalls(ip) PROVE <1>7!:
    BY <1>2, <2>1 DEF ManagerCalls
  <2>2. ASSUME NEW ok \in BOOLEAN, TxStatus(ok) PROVE <1>7!:
    <3> DEFINE f == [api |-> "ZB_TX_STATUS_RESPONSE", ok |-> ok]
    <3>1. f \in Frame /\ f.api # "ZB_RX_RESPONSE"
      BY RxFrames DEF StatusFrame
    <3>2. rx' = Append(rx, f) /\ UNCHANGED <<air, out>>
      BY <2>2 DEF TxStatus
    <3> HIDE DEF f
    <3> QED BY <1>2, <1>6, <3>1, <3>2
  <2>3. ASSUME NEW e \in Dev, Discovered(e) PROVE <1>7!:
    <3> DEFINE f == [api |-> "AT_COMMAND_RESPONSE", status |-> "ok", dev |-> e]
    <3>1. f \in Frame /\ f.api # "ZB_RX_RESPONSE"
      BY RxFrames DEF AtFrame
    <3>2. (rx' = Append(rx, f) \/ UNCHANGED rx) /\ UNCHANGED <<air, out>>
      BY <2>3 DEF Discovered
    <3> HIDE DEF f
    <3> QED BY <1>2, <1>6, <3>1, <3>2
  <2>4. ASSUME NEW status \in {"ok", "error"}, DiscoveredNobody(status) PROVE <1>7!:
    BY <2>4 DEF DiscoveredNobody, ServeInv, ServedOK
  <2>5. ASSUME NEW d \in Dev, DeviceHears(d) PROVE <1>7!:
    <3> DEFINE cmd == Head(air[d])
    <3>1. /\ air[d] # <<>> /\ air' = [air EXCEPT ![d] = Tail(air[d])] /\ UNCHANGED rx
          /\ \/ IsAnswered(cmd) /\ \E s \in AnswersOf(d, cmd) : out' = [out EXCEPT ![d] = out[d] \o s]
             \/ UNCHANGED out
      BY <2>5 DEF DeviceHears
    <3>2. Tail(air[d]) \in Seq(CommandsTo(asked, d)) /\ cmd \in CommandsTo(asked, d)
      BY <1>2, <3>1, Shorter
    <3> HIDE DEF cmd
    <3>3. \A e \in Dev : air'[e] \in Seq(CommandsTo(asked, e))
      BY <1>2, <3>1, <3>2
    <3>4. \A e \in Dev : out'[e] \in Seq(FramesSaid(asked))
      <4>1. CASE UNCHANGED out
        BY <1>2, <4>1
      <4>2. ASSUME IsAnswered(cmd), NEW s \in AnswersOf(d, cmd), out' = [out EXCEPT ![d] = out[d] \o s]
            PROVE  \A e \in Dev : out'[e] \in Seq(FramesSaid(asked))
        <5>1. cmd \in Command
          BY <3>2, <4>2, SendableCommands DEF CommandsTo
        <5>2. s \in Seq(Frame) /\ \A k \in 1 .. Len(s) : s[k].cmd = cmd /\ s[k].from = d
          BY <5>1, AnswerFrames, FramesOfRx
        <5>3. \A k \in 1 .. Len(s) : s[k] \in FramesSaid(asked)
          BY <3>2, <5>2 DEF FramesSaid, CommandsTo
        <5>4. s \in Seq(FramesSaid(asked))
          BY <5>2, <5>3
        <5>5. out[d] \o s \in Seq(FramesSaid(asked))
          BY <1>2, <5>4
        <5> QED BY <1>2, <4>2, <5>5
      <4> QED BY <3>1, <4>1, <4>2
    <3> QED BY <1>2, <3>1, <3>3, <3>4
  <2>6. ASSUME NEW d \in Dev, RadioDelivers(d) PROVE <1>7!:
    <3>1. /\ out[d] # <<>> /\ out' = [out EXCEPT ![d] = Tail(out[d])] /\ UNCHANGED air
          /\ rx' = Append(rx, Head(out[d])) \/ UNCHANGED rx
      BY <2>6 DEF RadioDelivers
    <3>2. Tail(out[d]) \in Seq(FramesSaid(asked)) /\ Head(out[d]) \in FramesSaid(asked)
      BY <1>2, <3>1, Shorter
    <3>3. rx' \in Seq(FramesSaid(asked))
      <4>1. Append(rx, Head(out[d])) \in Seq(FramesSaid(asked))
        BY <1>2, <3>2, Longer
      <4> QED BY <1>2, <3>1, <4>1
    <3> QED BY <1>2, <3>1, <3>2, <3>3
  <2> QED BY <2>1, <2>2, <2>3, <2>4, <2>5, <2>6 DEF Environment
<1>8. SaidOK'
  BY <1>1, <1>2, <1>3, <1>7 DEF SaidOK
<1>9. ServedOK'
  BY <1>1 DEF ServeInv, ServedOK
<1> QED BY <1>1, <1>3, <1>5, <1>8, <1>9 DEF ServeInv

\* A timeout where no device is late: nothing is under way.
LEMMA NothingUnderWay ==
    ASSUME TypeInv, TimedOut, ~ Late
    PROVE  rx = <<>> /\ \A d \in Dev : air[d] = <<>> /\ out[d] = <<>>
BY DEF TimedOut, UnderWay

LEMMA ServeListener == TypeInv /\ ServeInv /\ Listener => ServeInv'
<1> SUFFICES ASSUME TypeInv, ServeInv, Listener PROVE ServeInv'
  OBVIOUS
<1> USE DEF scanner, onAir, radio, manager, history
<1>1. UNCHANGED <<given, main, out>> /\ Late' = Late
  BY DEF Listener, UnknownDevice, ForwardCommand, ListenerStatus, ListenerCollects,
         ListenerTimeout, ListenerAnswers, Late
<1>2. /\ \A d \in Dev : air[d] \in Seq(CommandsTo(asked, d)) /\ out[d] \in Seq(FramesSaid(asked))
      /\ rx \in Seq(FramesSaid(asked)) /\ Live \in Seq(FramesSaid(asked))
      /\ ServedOK
      /\ ~ Late => Exchange(Current, asked[open], air, out, rx, Live)
  BY DEF ServeInv, SaidOK
<1>3. /\ OnLine(air, out, rx, Live) /\ OnLine(air, out, rx, <<>>)
      /\ asked \in Seq(Dev \cup {NULL}) /\ open \in 0 .. Len(asked) /\ Len(asked) \in Nat
      /\ open = 0 <=> listener.pc = "recv"
      /\ listener \in [pc : ListenerPc, buf : Seq(RxFrame)]
      /\ \A S : <<>> \in Seq(S)
  BY LineIsTyped DEF TypeInv, ListenerOK
<1>4. listener.pc \in {"recv", "status", "timeout"} => Live = <<>>
  BY DEF Live
<1>5. listener.pc = "recv" => Current = {}
  BY <1>3, ReadsAssumption DEF Current
<1>6. ASSUME rx # <<>>
      PROVE  Tail(rx) \in Seq(FramesSaid(asked)) /\ Head(rx) \in FramesSaid(asked)
  BY <1>2, <1>6, Shorter
<1>7. ASSUME NEW x \in Dev \cup {NULL}, asked' = Append(asked, x), rx' = rx, NEW e \in Dev
      PROVE  /\ out'[e] \in Seq(FramesSaid(asked')) /\ rx' \in Seq(FramesSaid(asked'))
             /\ air[e] \in Seq(CommandsTo(asked', e))
  <2>1. /\ CommandsTo(asked, e) \subseteq CommandsTo(asked', e)
        /\ FramesSaid(asked) \subseteq FramesSaid(asked')
    BY <1>3, <1>7, SaidGrows
  <2>2. air[e] \in Seq(CommandsTo(asked, e)) /\ out[e] \in Seq(FramesSaid(asked)) /\ rx \in Seq(FramesSaid(asked))
    BY <1>2
  <2> QED BY <1>1, <1>7, <2>1, <2>2, SeqGrows
<1>8. ASSUME NEW chance \in SUBSET Slot, UnknownDevice(chance) PROVE ServeInv'
  <2>1. /\ asked' = Append(asked, NULL) /\ listener.pc = "recv"
        /\ UNCHANGED <<listener, rx, air, open>>
    BY <1>8 DEF UnknownDevice
  <2>2. open = 0 /\ Live = <<>> /\ Live' = <<>> /\ Current = {} /\ Current' = {}
    BY <1>3, <1>4, <1>5, <2>1 DEF Live, Current
  <2>3. SaidOK'
    <3>1. \A e \in Dev : /\ out'[e] \in Seq(FramesSaid(asked')) /\ rx' \in Seq(FramesSaid(asked'))
                         /\ air'[e] \in Seq(CommandsTo(asked', e))
      BY <1>7, <2>1
    <3>2. rx' \in Seq(FramesSaid(asked'))
      <4>1. FramesSaid(asked) \subseteq FramesSaid(asked')
        BY <1>3, <2>1, SaidGrows
      <4> QED BY <1>2, <2>1, <4>1, SeqGrows
    <3> QED BY <1>3, <2>2, <3>1, <3>2 DEF SaidOK
  <2>4. ~ Late => Exchange({}, asked'[open'], air', out', rx', <<>>)
    BY <1>1, <1>2, <2>1, <2>2, ExchangeNone
  <2>5. ServedOK'
    BY <1>1, <1>2, <2>1, <2>2 DEF ServedOK
  <2> QED BY <1>1, <2>2, <2>3, <2>4, <2>5 DEF ServeInv
<1>9. ASSUME NEW chance \in SUBSET Slot, ForwardCommand(chance) PROVE ServeInv'
  <2> DEFINE found == find_XBee_api_device_index_by_IoTIp(Head(calls), chance)
             n == Len(asked) + 1
  <2>1. PICK d : d = xbee_api_devices[First(found)].addr
    OBVIOUS
  <2>2. /\ asked' = Append(asked, d) /\ found # {} /\ open' = n
        /\ send_command_to_api_end_device(d, Call(n)) /\ listener.pc = "recv"
        /\ listener' = [listener EXCEPT !.pc = "status"] /\ UNCHANGED rx
    BY <1>9, <2>1 DEF ForwardCommand, ListenerAt
  <2>3. d \in Dev
    <3>1. found \in SUBSET Slot /\ \A k \in found : xbee_api_devices[k] # NULL
      BY DEF find_XBee_api_device_index_by_IoTIp
    <3> HIDE DEF found
    <3> QED BY <2>1, <2>2, <3>1, LookupType
  <2>4. n \in Nat \ {0} /\ Call(n) \in Sendable /\ (IsAnswered(Call(n)) <=> n \in Reads) /\ Call(n) # SYN
    BY <1>3, SendableCommands DEF Call, SYN
  <2>5. /\ Len(asked') = n /\ asked'[n] = d
    BY <1>3, <2>2, <2>3, Longer
  <2>6. \A e \in Dev : air'[e] = IF e = d THEN Append(air[d], Call(n)) ELSE air[e]
    BY <2>2, <2>3, <2>4, SendType
  <2>7. listener'.pc = "status" /\ Live = <<>> /\ Live' = <<>> /\ Current = {}
    BY <1>3, <1>4, <1>5, <2>2 DEF Live
  <2> HIDE DEF n
  <2>8. Current' = IF n \in Reads THEN {Call(n)} ELSE {}
    BY <2>2, <2>7 DEF Current
  <2>9. ServedOK'
    BY <1>1, <1>2, <2>2, <2>3, <2>5, <2>7 DEF ServedOK
  <2>10. SaidOK'
    <3>1. Call(n) \in CommandsTo(asked', d)
      BY <2>4, <2>5 DEF CommandsTo, SaidTo, Call
    <3>2. \A e \in Dev : air[e] \in Seq(CommandsTo(asked', e))
      BY <1>7, <2>2, <2>3
    <3>3. Append(air[d], Call(n)) \in Seq(CommandsTo(asked', d))
      BY <2>3, <3>1, <3>2, Longer
    <3>4. \A e \in Dev : air'[e] \in Seq(CommandsTo(asked', e))
      BY <2>6, <3>2, <3>3
    <3>5. /\ \A e \in Dev : out'[e] \in Seq(FramesSaid(asked'))
          /\ rx' \in Seq(FramesSaid(asked'))
      BY <1>7, <2>2, <2>3
    <3> QED BY <1>3, <2>7, <3>4, <3>5 DEF SaidOK
  <2>11. ~ Late => Exchange(Current', d, air', out', rx', <<>>)
    <3> SUFFICES ASSUME ~ Late PROVE Exchange(Current', d, air', out', rx', <<>>)
      OBVIOUS
    <3>1. Exchange({}, asked[open], air, out, rx, <<>>)
      BY <1>2, <2>7
    <3>2. Exchange({}, d, air, out, rx, <<>>)
      BY <3>1, ExchangeNone
    <3>3. \/ Current' = {Call(n)} /\ IsAnswered(Call(n)) /\ Call(n) # SYN
          \/ Current' = {} /\ ~ IsAnswered(Call(n))
      BY <2>4, <2>8
    <3>4. Exchange(Current', d, air', out, rx, <<>>)
      BY <1>3, <2>3, <2>4, <2>6, <3>2, <3>3, ExchangeSends
    <3> QED BY <1>1, <2>2, <3>4
  <2> QED BY <1>1, <2>2, <2>5, <2>7, <2>9, <2>10, <2>11 DEF ServeInv
<1>10. CASE ListenerStatus
  <2>1. /\ listener.pc = "status" /\ UNCHANGED <<air, asked>>
        /\ (rx # <<>> /\ rx' = Tail(rx)) \/ UNCHANGED rx
    BY <1>10 DEF ListenerStatus, FrameRead
  <2>2. /\ \/ open \in Reads /\ listener'.pc = "answer" /\ listener'.buf = <<>> /\ open' = open
           \/ open \notin Reads /\ listener'.pc = "recv" /\ open' = 0
        /\ Live = <<>>
    BY <1>3, <1>4, <1>10 DEF ListenerStatus, AfterStatus, FreshBuffer, ListenerAt
  <2>3. Live' = <<>>
    BY <2>2 DEF Live
  <2>4. Current' = Current
    BY <2>1, <2>2, ReadsAssumption DEF Current
  <2>5. rx' \in Seq(FramesSaid(asked))
    BY <1>2, <1>6, <2>1
  <2>6. SaidOK'
    BY <1>1, <1>2, <1>3, <2>1, <2>3, <2>5 DEF SaidOK
  <2>7. ServedOK'
    BY <1>1, <1>2, <2>1, <2>2 DEF ServedOK
  <2>8. ~ Late => Exchange(Current, asked[open], air, out, rx', <<>>)
    <3>1. ~ Late => Exchange(Current, asked[open], air, out, rx, <<>>)
      BY <1>2, <2>2
    <3>2. ~ Late /\ rx # <<>> => Exchange(Current, asked[open], air, out, Tail(rx), <<>>)
      BY <1>3, <3>1, ExchangeReads
    <3> QED BY <2>1, <3>1, <3>2
  <2>9. ~ Late => Exchange(Current', asked'[open'], air', out', rx', <<>>)
    <3>1. CASE open \in Reads
      BY <1>1, <2>1, <2>2, <2>4, <2>8, <3>1
    <3>2. CASE open \notin Reads
      <4>1. Current = {}
        BY <3>2 DEF Current
      <4> QED BY <1>1, <2>1, <2>4, <2>8, <4>1, ExchangeNone
    <3> QED BY <3>1, <3>2
  <2> QED BY <1>1, <2>3, <2>6, <2>7, <2>9 DEF ServeInv
<1>11. CASE ListenerCollects
  <2> DEFINE buf == Collect(Head(rx), listener.buf)
  <2>1. /\ listener.pc = "answer" /\ UNCHANGED <<air, asked, open>> /\ rx # <<>> /\ rx' = Tail(rx)
        /\ listener' = [listener EXCEPT !.buf = buf,
                                        !.pc = IF Completed(buf) THEN "completed" ELSE "answer"]
    BY <1>11 DEF ListenerCollects, FrameRead
  <2>2. Live = listener.buf
    BY <2>1 DEF Live
  <2>3. listener'.pc \in {"answer", "completed"} /\ listener'.buf = buf
    <3> HIDE DEF buf
    <3> QED BY <1>3, <2>1
  <2>4. Live' = buf /\ Current' = Current
    BY <2>1, <2>3 DEF Live, Current
  <2>5. buf \in Seq(FramesSaid(asked))
    BY <1>2, <1>6, <2>1, <2>2, Longer DEF Collect
  <2>6. ~ Late => Exchange(Current, asked[open], air, out, Tail(rx), buf)
    BY <1>2, <1>3, <2>1, <2>2, ExchangeReads
  <2> HIDE DEF buf
  <2>7. SaidOK'
    BY <1>1, <1>2, <1>6, <2>1, <2>4, <2>5 DEF SaidOK
  <2>8. ServedOK'
    BY <1>1, <1>2, <2>1, <2>3 DEF ServedOK
  <2> QED BY <1>1, <2>1, <2>4, <2>6, <2>7, <2>8 DEF ServeInv
<1>12. CASE ListenerTimeout
  <2>1. /\ listener.pc = "answer" /\ TimedOut /\ UNCHANGED <<air, asked, open, rx>>
        /\ listener' = [listener EXCEPT !.pc = "timeout"]
    BY <1>12 DEF ListenerTimeout, ListenerAt
  <2>2. listener'.pc = "timeout"
    BY <1>3, <2>1
  <2>3. Live' = <<>> /\ Current' = {}
    BY <2>2 DEF Live, Current
  <2>4. ~ Late => Exchange({}, asked[open], air, out, rx, <<>>)
    BY <2>1, NothingUnderWay, ExchangeNothing
  <2>5. SaidOK'
    BY <1>1, <1>2, <1>3, <2>1, <2>3 DEF SaidOK
  <2>6. ServedOK'
    BY <1>1, <1>2, <2>1, <2>2 DEF ServedOK
  <2> QED BY <1>1, <2>1, <2>3, <2>4, <2>5, <2>6 DEF ServeInv
<1>13. CASE ListenerAnswers
  <2>1. /\ listener.pc \in {"completed", "timeout"} /\ UNCHANGED <<air, asked>> /\ rx' = <<>>
        /\ listener' = [listener EXCEPT !.pc = "recv"] /\ open' = 0
    BY <1>13 DEF ListenerAnswers, ListenerAt, clear_XBee_api_recv_buff
  <2>2. listener'.pc = "recv"
    BY <1>3, <2>1
  <2>3. Live' = <<>> /\ Current' = {}
    BY <2>1, <2>2, ReadsAssumption DEF Live, Current
  <2>4. ~ Late => Exchange({}, asked[0], air, out, rx, <<>>)
    <3>1. CASE listener.pc = "completed"
      <4>1. Live = listener.buf /\ Completed(listener.buf)
        BY <3>1 DEF Live, TypeInv, ListenerOK
      <4> QED BY <1>2, <1>3, <4>1, ExchangeEnds
    <3>2. CASE listener.pc = "timeout"
      <4>1. Current = {}
        BY <3>2 DEF Current
      <4> QED BY <1>2, <4>1, ExchangeNone
    <3> QED BY <2>1, <3>1, <3>2
  <2>5. ~ Late => Exchange({}, asked[0], air, out, <<>>, <<>>)
    BY <2>4, ExchangeForgets
  <2>6. SaidOK'
    BY <1>1, <1>2, <1>3, <2>1, <2>3 DEF SaidOK
  <2>7. ServedOK'
    BY <1>1, <1>2, <2>1, <2>2 DEF ServedOK
  <2> QED BY <1>1, <2>1, <2>3, <2>5, <2>6, <2>7 DEF ServeInv
<1> QED BY <1>8, <1>9, <1>10, <1>11, <1>12, <1>13 DEF Listener

LEMMA StillGiven == [Next]_vars => given' = given
BY DEF Next, Listener, Main, Environment, vars, scanner, radio, onAir, manager, history,
   UnknownDevice, ForwardCommand, ListenerStatus, ListenerCollects, ListenerTimeout, ListenerAnswers,
   SendDiscovery, ReadDiscovery, DiscoveryTimeout, SendSyn, SynStatus, ReadAck, AskIp, SendDes,
   DesStatus, MainCollects, MainTimeout, Register,
   ManagerCalls, TxStatus, Discovered, DiscoveredNobody, DeviceHears, RadioDelivers

LEMMA ServeStep == TypeInv /\ (~ given.scan => ServeInv) /\ [Next]_vars => (~ given.scan => ServeInv)'
<1> SUFFICES ASSUME TypeInv, ~ given.scan => ServeInv, [Next]_vars, ~ given'.scan PROVE ServeInv'
  OBVIOUS
<1>1. given' = given
  BY StillGiven
<1>2. ServeInv
  BY <1>1
<1>3. CASE UNCHANGED vars
  BY <1>2, <1>3 DEF vars, scanner, radio, onAir, manager, history, ServeInv, ServedOK, SaidOK, Live, Current, Late
<1>4. ~ Main
  BY <1>2 DEF ServeInv, ServedOK, Main, SendDiscovery, ReadDiscovery, DiscoveryTimeout, SendSyn, SynStatus,
     ReadAck, AskIp, SendDes, DesStatus, MainCollects, MainTimeout, Register
<1> QED BY <1>2, <1>3, <1>4, ServeListener, ServeEnvironment DEF Next

LEMMA Serves == Spec => [](TypeInv /\ (~ given.scan => ServeInv))
<1> DEFINE Inv == TypeInv /\ (~ given.scan => ServeInv)
<1>1. Init => Inv
  BY TypeInit, ServeInit
<1>2. Inv /\ [Next]_vars => Inv'
  BY TypeStep, ServeStep
<1> QED BY <1>1, <1>2, PTL DEF Spec

----------------------------------------------------------------------------
\* The refinement.

\* What the listener passes on was said to the packages taken so far; and where
\* no device is late it is its device's answer to the package being served.
LEMMA WhatIsPassedOn ==
    ASSUME TypeInv, ServeInv, listener.pc = "completed"
    PROVE  LET S == Content(listener.buf)
               Said == {[n |-> n, dev |-> asked[n]] : n \in {n \in 1 .. Len(asked) : asked[n] # NULL}} IN
           /\ S # {} /\ S \subseteq Said
           /\ ~ Late => S = {[n |-> open, dev |-> asked[open]]}
<1> DEFINE b == listener.buf
<1>1. /\ b \in Seq(RxFrame) /\ b # <<>> /\ b \in Seq(FramesSaid(asked)) /\ Live = b
      /\ open \in Reads
      /\ ~ Late => Fits(b, Current, asked[open])
  BY DEF TypeInv, ListenerOK, ServeInv, ServedOK, SaidOK, Live, Completed, Exchange
<1> HIDE DEF b
<1>2. Len(b) \in Nat \ {0}
  BY <1>1
<1>3. ASSUME NEW k \in 1 .. Len(b)
      PROVE  /\ b[k].api = "ZB_RX_RESPONSE" /\ b[k].from \in Dev
             /\ b[k].cmd.kind = "call" /\ b[k].cmd.n \in 1 .. Len(asked) /\ asked[b[k].cmd.n] = b[k].from
  <2>1. b[k] \in RxFrame /\ b[k] \in FramesSaid(asked)
    BY <1>1
  <2> QED BY <2>1 DEF RxFrame, FramesSaid, SaidTo
<1>4. Content(b) # {}
  <2>1. [n |-> b[1].cmd.n, dev |-> b[1].from] \in Content(b)
    BY <1>2 DEF Content
  <2> QED BY <2>1
<1>5. Content(b) \subseteq {[n |-> n, dev |-> asked[n]] : n \in {n \in 1 .. Len(asked) : asked[n] # NULL}}
  BY <1>3, NullAssumption DEF Content
<1>6. ASSUME ~ Late PROVE Content(b) = {[n |-> open, dev |-> asked[open]]}
  <2>1. ASSUME NEW k \in 1 .. Len(b) PROVE b[k].cmd.n = open /\ b[k].from = asked[open]
    <3>1. Fitting(b[k], Current, asked[open])
      BY <1>1, <1>6 DEF Fits
    <3>2. b[k].cmd # SYN
      BY <1>3 DEF SYN
    <3>3. b[k].cmd \in Current /\ b[k].from = asked[open]
      BY <1>3, <3>1, <3>2 DEF Fitting
    <3> QED BY <3>3 DEF Current, Call
  <2> QED BY <1>2, <2>1 DEF Content
<1> QED BY <1>4, <1>5, <1>6 DEF b

LEMMA PromiseInit == Init => Promise!Init
<1>1. ASSUME Init PROVE asked = <<>> /\ open = 0 /\ answers = <<>> /\ given \in Conditions
  BY <1>1 DEF Init, InitScanning, InitServing, InitLine
<1>2. ASSUME Init PROVE Late \in BOOLEAN
  BY <1>1, <1>2, ConditionsAssumption DEF Late
<1> QED BY <1>1, <1>2 DEF Promise!Init, Served

LEMMA PromiseListener ==
    ASSUME TypeInv, ServeInv, ~ given.scan, Listener
    PROVE  Promise!Next \/ UNCHANGED Promise!vars
<1> USE DEF Served
<1>1. given' = given /\ Late' = Late
  BY StillGiven DEF Next, Late
<1>2. /\ asked \in Seq(Dev \cup {NULL}) /\ open \in 0 .. Len(asked)
      /\ open = 0 <=> listener.pc = "recv"
  BY DEF TypeInv, ListenerOK
<1>3. ASSUME NEW chance \in SUBSET Slot, UnknownDevice(chance) PROVE Promise!Ask(NULL)
  BY <1>1, <1>2, <1>3 DEF UnknownDevice, Promise!Ask
<1>4. ASSUME NEW chance \in SUBSET Slot, ForwardCommand(chance) PROVE \E d \in Dev : Promise!Ask(d)
  <2> DEFINE found == find_XBee_api_device_index_by_IoTIp(Head(calls), chance)
  <2>1. PICK d : d = xbee_api_devices[First(found)].addr
    OBVIOUS
  <2>2. /\ asked' = Append(asked, d) /\ found # {} /\ open' = Len(asked) + 1
        /\ listener.pc = "recv" /\ UNCHANGED answers
    BY <1>4, <2>1 DEF ForwardCommand
  <2>3. d \in Dev
    <3>1. found \in SUBSET Slot /\ \A k \in found : xbee_api_devices[k] # NULL
      BY DEF find_XBee_api_device_index_by_IoTIp
    <3> HIDE DEF found
    <3> QED BY <2>1, <2>2, <3>1, LookupType
  <2>4. d # NULL
    BY <2>3, NullAssumption
  <2> QED BY <1>1, <1>2, <2>2, <2>3, <2>4 DEF Promise!Ask
<1>5. CASE ListenerStatus
  <2>1. listener.pc = "status" /\ UNCHANGED <<asked, answers>> /\ (open' = open \/ open' = 0)
    BY <1>5 DEF ListenerStatus, AfterStatus, manager
  <2> QED BY <1>1, <1>2, <2>1 DEF Promise!vars, Promise!Next, Promise!GiveUp
<1>6. CASE ListenerCollects \/ ListenerTimeout
  <2>1. UNCHANGED <<asked, open, answers>>
    BY <1>6 DEF ListenerCollects, ListenerTimeout, history
  <2> QED BY <1>1, <2>1 DEF Promise!vars
<1>7. CASE ListenerAnswers
  <2>1. /\ open' = 0 /\ UNCHANGED asked /\ open # 0
        /\ answers' = IF HasAnswer THEN Append(answers, [to |-> open, carries |-> Content(listener.buf)])
                      ELSE answers
    BY <1>2, <1>7 DEF ListenerAnswers
  <2>2. CASE HasAnswer
    <3> DEFINE S == Content(listener.buf)
    <3>1. /\ S # {} /\ S \subseteq Promise!SaidSoFar
          /\ ~ Late => S = {[n |-> open, dev |-> asked[open]]}
      BY <2>2, WhatIsPassedOn DEF HasAnswer, Promise!SaidSoFar
    <3>2. answers' = Append(answers, [to |-> open, carries |-> S])
      BY <2>1, <2>2
    <3> HIDE DEF S
    <3>3. Promise!Answer(S)
      BY <1>1, <2>1, <3>1, <3>2 DEF Promise!Answer
    <3> QED BY <3>1, <3>3 DEF Promise!Next
  <2>3. CASE ~ HasAnswer
    BY <1>1, <2>1, <2>3 DEF Promise!Next, Promise!GiveUp
  <2> QED BY <2>2, <2>3
<1> QED BY <1>3, <1>4, <1>5, <1>6, <1>7 DEF Listener, Promise!Next

LEMMA PromiseStep ==
    ASSUME TypeInv, ~ given.scan => ServeInv, [Next]_vars
    PROVE  [Promise!Next]_(Promise!vars)
<1>1. given' = given /\ Late' = Late
  BY StillGiven DEF Late
<1>2. CASE given.scan
  BY <1>1, <1>2 DEF Promise!vars, Served
<1>3. CASE UNCHANGED <<asked, open, answers>>
  BY <1>1, <1>3 DEF Promise!vars, Served
<1>4. CASE Main \/ Environment
  <2>1. UNCHANGED history
    BY <1>4 DEF Main, Environment, SendDiscovery, ReadDiscovery, DiscoveryTimeout, SendSyn, SynStatus,
       ReadAck, AskIp, SendDes, DesStatus, MainCollects, MainTimeout, Register,
       ManagerCalls, TxStatus, Discovered, DiscoveredNobody, DeviceHears, RadioDelivers
  <2> QED BY <1>3, <2>1 DEF history
<1>5. CASE Listener /\ ~ given.scan
  BY <1>5, PromiseListener
<1> QED BY <1>2, <1>3, <1>4, <1>5 DEF Next, vars, history

\* The listener keeps the promise of a radio broker: it takes the manager's
\* packages one at a time, and answers each at most once, before the next, with
\* what its own device said to it if no device is late, and otherwise with what
\* was said to packages taken so far (xbee_api_listen_to_manager_loop).
THEOREM Implements == Spec => ImplementsRequestAnswer
<1>1. Spec => Promise!Init
  BY PromiseInit DEF Spec
<1>2. TypeInv /\ (~ given.scan => ServeInv) /\ [Next]_vars => [Promise!Next]_(Promise!vars)
  BY PromiseStep
<1> QED BY <1>1, <1>2, Serves, PTL DEF Spec, ImplementsRequestAnswer, Promise!Spec

----------------------------------------------------------------------------
\* What the promise means.  After the scan, Serving is Promise with the broker's
\* own history in it.
Serving == INSTANCE RequestAnswer WITH late <- Late

AnswerRecord == [to : Nat \ {0}, carries : SUBSET Serving!Said]
Target == Dev \cup {NULL}

\* The types, one by one: what the steps disturb differs.
AskedOK == asked \in Seq(Target)
OpenOK == open \in 0 .. Len(asked) /\ (open # 0 => open = Len(asked) /\ asked[open] # NULL)
AnswersOK == answers \in Seq(AnswerRecord)
LateOK == Late \in BOOLEAN

LEMMA TypeParts == Serving!TypeOK <=> AskedOK /\ OpenOK /\ AnswersOK /\ LateOK
BY DEF Serving!TypeOK, AskedOK, OpenOK, AnswersOK, LateOK, AnswerRecord, Target

LEMMA Appended ==
    ASSUME NEW S, NEW s \in Seq(S), NEW e \in S
    PROVE  /\ Append(s, e) \in Seq(S) /\ Len(Append(s, e)) = Len(s) + 1 /\ Len(s) \in Nat
           /\ \A k \in 1 .. Len(s) : Append(s, e)[k] = s[k] /\ s[k] \in S
           /\ Append(s, e)[Len(s) + 1] = e
OBVIOUS

\* Every answer so far is to a command.
LEMMA AnswersTo == AnswersOK => \A j \in 1 .. Len(answers) : answers[j].to \in Nat \ {0}
<1> SUFFICES ASSUME AnswersOK, NEW j \in 1 .. Len(answers) PROVE answers[j].to \in Nat \ {0} OBVIOUS
<1>1. answers[j] \in AnswerRecord
  <2> HIDE DEF AnswerRecord
  <2> QED BY DEF AnswersOK
<1> QED BY <1>1 DEF AnswerRecord

\* What may be in an answer was said by a device.
LEMMA SaidIsSaid == AskedOK => Serving!SaidSoFar \subseteq Serving!Said
<1> SUFFICES ASSUME AskedOK, NEW n \in 1 .. Len(asked), asked[n] # NULL
             PROVE  [n |-> n, dev |-> asked[n]] \in Serving!Said
  BY DEF Serving!SaidSoFar
<1>1. n \in Nat /\ asked[n] \in Target BY DEF AskedOK
<1>2. asked[n] \in Dev BY <1>1 DEF Target
<1> QED BY <1>1, <1>2 DEF Serving!Said

PromisedInv == AskedOK /\ OpenOK /\ AnswersOK /\ LateOK /\ Serving!InOrder /\ Serving!OwnAnswer

LEMMA PromisedInit == Serving!Init => PromisedInv
BY DEF Serving!Init, PromisedInv, AskedOK, OpenOK, AnswersOK, LateOK, Serving!InOrder, Serving!OwnAnswer

\* A command is taken: what was answered is older than it.
LEMMA AskStep ==
    ASSUME PromisedInv, NEW d \in Dev \cup {NULL}, Serving!Ask(d)
    PROVE  PromisedInv'
<1>1. /\ open = 0 /\ asked' = Append(asked, d) /\ answers' = answers /\ Late' = Late
      /\ open' = IF d = NULL THEN 0 ELSE Len(asked) + 1
  BY DEF Serving!Ask
<1>2. asked \in Seq(Target) /\ d \in Target /\ answers \in Seq(AnswerRecord)
  BY DEF PromisedInv, AskedOK, AnswersOK, Target
<1> DEFINE n == Len(asked)
<1>3. /\ asked' \in Seq(Target) /\ Len(asked') = n + 1 /\ n \in Nat
      /\ \A k \in 1 .. n : asked'[k] = asked[k]
      /\ asked'[n + 1] = d
  BY <1>1, <1>2, Appended
<1> HIDE DEF n
<1>4. AskedOK' BY <1>3 DEF AskedOK
<1>5. OpenOK'
  <2>1. open' = IF d = NULL THEN 0 ELSE n + 1 BY <1>1 DEF n
  <2>2. CASE d = NULL BY <1>3, <2>1, <2>2 DEF OpenOK
  <2>3. CASE d # NULL BY <1>3, <2>1, <2>3 DEF OpenOK
  <2> QED BY <2>2, <2>3
<1>6. AnswersOK' /\ LateOK' BY <1>1 DEF PromisedInv, AnswersOK, LateOK
<1>7. \A j \in 1 .. Len(answers) : answers[j].to \in Nat \ {0} /\ answers[j].to <= n
  BY AnswersTo DEF PromisedInv, Serving!InOrder, n
<1>8. Serving!InOrder'
  <2>1. \A j, k \in 1 .. Len(answers') : j < k => answers'[j].to < answers'[k].to
    BY <1>1 DEF PromisedInv, Serving!InOrder
  <2>2. \A j \in 1 .. Len(answers') : answers'[j].to <= Len(asked') /\ answers'[j].to # open'
    <3>1. open' = 0 \/ open' = n + 1 BY <1>1 DEF n
    <3> QED BY <1>1, <1>3, <1>7, <3>1
  <2> QED BY <2>1, <2>2 DEF Serving!InOrder
<1>9. Serving!OwnAnswer'
  <2>1. \A j \in 1 .. Len(answers) : asked'[answers[j].to] = asked[answers[j].to]
    <3> TAKE j \in 1 .. Len(answers)
    <3>1. answers[j].to \in 1 .. n BY <1>3, <1>7
    <3> QED BY <1>3, <3>1
  <2> SUFFICES ASSUME ~ Late', NEW j \in 1 .. Len(answers')
               PROVE  answers'[j].carries = {[n |-> answers'[j].to, dev |-> asked'[answers'[j].to]]}
    BY DEF Serving!OwnAnswer
  <2>2. ~ Late /\ j \in 1 .. Len(answers) BY <1>1
  <2>3. answers[j].carries = {[n |-> answers[j].to, dev |-> asked[answers[j].to]]}
    BY <2>2 DEF PromisedInv, Serving!OwnAnswer
  <2> QED BY <1>1, <2>1, <2>2, <2>3
<1> QED BY <1>4, <1>5, <1>6, <1>8, <1>9 DEF PromisedInv

\* The command being served is answered: it is the newest.
LEMMA AnswerStep ==
    ASSUME PromisedInv, NEW S \in SUBSET Serving!SaidSoFar, Serving!Answer(S)
    PROVE  PromisedInv'
<1> DEFINE a == [to |-> open, carries |-> S]
           m == Len(answers)
<1>1. /\ open # 0 /\ open' = 0 /\ asked' = asked /\ Late' = Late /\ answers' = Append(answers, a)
      /\ ~ Late => S = {[n |-> open, dev |-> asked[open]]}
  BY DEF Serving!Answer
<1>2. open \in Nat \ {0} /\ open = Len(asked) /\ Len(asked) \in Nat
  BY <1>1 DEF PromisedInv, OpenOK, AskedOK
<1>3. a \in AnswerRecord
  <2>1. S \in SUBSET Serving!Said BY SaidIsSaid DEF PromisedInv
  <2> QED BY <1>2, <2>1 DEF AnswerRecord
<1>4. answers \in Seq(AnswerRecord) BY DEF PromisedInv, AnswersOK
<1>5. a.to = open /\ a.carries = S OBVIOUS
<1> HIDE DEF a
<1>6. /\ answers' \in Seq(AnswerRecord) /\ Len(answers') = m + 1 /\ m \in Nat
      /\ \A k \in 1 .. m : answers'[k] = answers[k] /\ answers[k] \in AnswerRecord
      /\ answers'[m + 1] = a
  BY <1>1, <1>3, <1>4, Appended
<1> HIDE DEF m
<1>7. AskedOK' /\ OpenOK' /\ AnswersOK' /\ LateOK'
  <2>1. AskedOK' /\ LateOK' BY <1>1 DEF PromisedInv, AskedOK, LateOK
  <2>2. OpenOK' BY <1>1, <1>2 DEF OpenOK
  <2>3. AnswersOK' BY <1>6 DEF AnswersOK
  <2> QED BY <2>1, <2>2, <2>3
<1>8. \A k \in 1 .. m : answers[k].to \in Nat \ {0} /\ answers[k].to < open
  <2> TAKE k \in 1 .. m
  <2>1. answers[k].to \in Nat \ {0} BY <1>6 DEF AnswerRecord
  <2>2. answers[k].to <= Len(asked) /\ answers[k].to # open BY DEF PromisedInv, Serving!InOrder, m
  <2> QED BY <1>2, <2>1, <2>2
<1>9. Serving!InOrder'
  <2>1. ASSUME NEW j \in 1 .. Len(answers'), NEW k \in 1 .. Len(answers'), j < k
        PROVE  answers'[j].to < answers'[k].to
    <3>1. j \in 1 .. m /\ answers'[j] = answers[j] BY <1>6, <2>1
    <3>2. CASE k = m + 1 BY <1>5, <1>6, <1>8, <3>1, <3>2
    <3>3. CASE k # m + 1
      <4>1. k \in 1 .. m /\ answers'[k] = answers[k] BY <1>6, <3>3
      <4>2. answers[j].to < answers[k].to BY <2>1, <3>1, <4>1 DEF PromisedInv, Serving!InOrder, m
      <4> QED BY <3>1, <4>1, <4>2
    <3> QED BY <3>2, <3>3
  <2>2. ASSUME NEW j \in 1 .. Len(answers')
        PROVE  answers'[j].to <= Len(asked') /\ answers'[j].to # open'
    <3>1. CASE j = m + 1 BY <1>1, <1>2, <1>5, <1>6, <3>1
    <3>2. CASE j # m + 1
      <4>1. j \in 1 .. m /\ answers'[j] = answers[j] BY <1>6, <3>2
      <4>2. answers[j].to \in Nat \ {0} /\ answers[j].to < open BY <1>8, <4>1
      <4> QED BY <1>1, <1>2, <4>1, <4>2
    <3> QED BY <3>1, <3>2
  <2> QED BY <2>1, <2>2 DEF Serving!InOrder
<1>10. Serving!OwnAnswer'
  <2> SUFFICES ASSUME ~ Late', NEW j \in 1 .. Len(answers')
               PROVE  answers'[j].carries = {[n |-> answers'[j].to, dev |-> asked'[answers'[j].to]]}
    BY DEF Serving!OwnAnswer
  <2>1. ~ Late BY <1>1
  <2>2. CASE j = m + 1
    <3>1. answers'[j].to = open /\ answers'[j].carries = S BY <1>5, <1>6, <2>2
    <3> QED BY <1>1, <2>1, <3>1
  <2>3. CASE j # m + 1
    <3>1. j \in 1 .. m /\ answers'[j] = answers[j] BY <1>6, <2>3
    <3>2. answers[j].carries = {[n |-> answers[j].to, dev |-> asked[answers[j].to]]}
      BY <2>1, <3>1 DEF PromisedInv, Serving!OwnAnswer, m
    <3> QED BY <1>1, <3>1, <3>2
  <2> QED BY <2>2, <2>3
<1> QED BY <1>7, <1>9, <1>10 DEF PromisedInv

\* A command is given up: it is not answered later, for open has passed it.
LEMMA GiveUpStep ==
    ASSUME PromisedInv, Serving!GiveUp
    PROVE  PromisedInv'
<1>1. open' = 0 /\ asked' = asked /\ answers' = answers /\ Late' = Late BY DEF Serving!GiveUp
<1>2. AskedOK' /\ AnswersOK' /\ LateOK' BY <1>1 DEF PromisedInv, AskedOK, AnswersOK, LateOK
<1>3. OpenOK' BY <1>1 DEF PromisedInv, AskedOK, OpenOK
<1>4. \A j \in 1 .. Len(answers) : answers[j].to \in Nat \ {0} BY AnswersTo DEF PromisedInv
<1>5. Serving!InOrder' BY <1>1, <1>4 DEF PromisedInv, Serving!InOrder
<1>6. Serving!OwnAnswer' BY <1>1 DEF PromisedInv, Serving!OwnAnswer
<1> QED BY <1>2, <1>3, <1>5, <1>6 DEF PromisedInv

LEMMA PromisedStep == PromisedInv /\ [Serving!Next]_(Serving!vars) => PromisedInv'
<1> SUFFICES ASSUME PromisedInv, [Serving!Next]_(Serving!vars) PROVE PromisedInv' OBVIOUS
<1>1. ASSUME NEW d \in Dev \cup {NULL}, Serving!Ask(d) PROVE PromisedInv' BY <1>1, AskStep
<1>2. ASSUME NEW S \in SUBSET Serving!SaidSoFar, Serving!Answer(S) PROVE PromisedInv' BY <1>2, AnswerStep
<1>3. CASE Serving!GiveUp BY <1>3, GiveUpStep
<1>4. CASE UNCHANGED Serving!vars
  <2>1. asked' = asked /\ open' = open /\ answers' = answers /\ Late' = Late BY <1>4 DEF Serving!vars
  <2> QED BY <2>1 DEF PromisedInv, AskedOK, OpenOK, AnswersOK, LateOK, Serving!InOrder, Serving!OwnAnswer
<1> QED BY <1>1, <1>2, <1>3, <1>4 DEF Serving!Next

\* Commands are answered in the order they came, each once at most and never
\* while it is still being served; and where no device is late, an answer is
\* what the command's own device said to it.  So it is by the promise alone, for
\* any number of devices and commands.
THEOREM Promised == Serving!Spec => [](Serving!TypeOK /\ Serving!InOrder /\ Serving!OwnAnswer)
<1>1. Serving!Init => PromisedInv
  BY PromisedInit
<1>2. PromisedInv /\ [Serving!Next]_(Serving!vars) => PromisedInv'
  BY PromisedStep
<1>3. PromisedInv => Serving!TypeOK /\ Serving!InOrder /\ Serving!OwnAnswer
  BY TypeParts DEF PromisedInv
<1> QED BY <1>1, <1>2, <1>3, PTL DEF Serving!Spec

\* The manager may rely on it: after the scan the broker's answers come in the
\* order of the packages, one to each at most, and each is what the package's own
\* device said to it if no device is late (xbee_api_listen_to_manager_loop).
THEOREM AnswersInOrder == Spec => [](~ given.scan => Serving!InOrder /\ Serving!OwnAnswer)
<1> DEFINE Inv == ~ given.scan => PromisedInv
<1>1. Init => Inv
  <2> SUFFICES ASSUME Init, ~ given.scan PROVE PromisedInv
    OBVIOUS
  <2>1. Serving!Init
    BY PromiseInit DEF Served, Promise!Init, Serving!Init
  <2> QED BY <2>1, PromisedInit
<1>2. Inv /\ TypeInv /\ (~ given.scan => ServeInv) /\ [Next]_vars => Inv'
  <2> SUFFICES ASSUME PromisedInv, TypeInv, ~ given.scan => ServeInv, [Next]_vars, ~ given.scan
               PROVE  PromisedInv'
    BY StillGiven
  <2>1. [Promise!Next]_(Promise!vars)
    BY PromiseStep
  <2>2. given' = given
    BY StillGiven
  <2>3. [Serving!Next]_(Serving!vars)
    BY <2>1, <2>2 DEF Served, Promise!Next, Promise!vars, Promise!Ask, Promise!Answer, Promise!GiveUp,
       Promise!SaidSoFar, Serving!Next, Serving!vars, Serving!Ask, Serving!Answer, Serving!GiveUp,
       Serving!SaidSoFar
  <2> QED BY <2>3, PromisedStep
<1>3. Inv => (~ given.scan => Serving!InOrder /\ Serving!OwnAnswer)
  BY DEF PromisedInv
<1> QED BY <1>1, <1>2, <1>3, Serves, PTL DEF Spec

----------------------------------------------------------------------------
\* Discovery: every device is found once.

LEMMA DiscoveryReads ==
    ASSUME NEW q \in Seq(Frame), q # <<>>, NEW m \in Seq(Dev), NEW s, Discovery(q, m, s)
    PROVE  /\ Discovery(Tail(q), m, s) /\ Discovery(<<>>, m, s)
           /\ Found(Head(q)) => Discovery(Tail(q), Append(m, Head(q).dev), s)
           /\ NoneFound(q) => NoneFound(Tail(q))
<1> DEFINE t == Tail(q)
           h == Head(q)
<1>1. /\ Len(q) \in Nat \ {0} /\ Len(t) = Len(q) - 1 /\ h = q[1] /\ 1 \in 1 .. Len(q)
      /\ \A k \in 1 .. Len(t) : k + 1 \in 1 .. Len(q) /\ t[k] = q[k + 1] /\ k + 1 # 1
  BY Shorter
<1> HIDE DEF t, h
<1>2. /\ \A j, k \in 1 .. Len(m) : m[j] = m[k] => j = k
      /\ \A k \in 1 .. Len(m) : m[k] \notin s
      /\ \A j \in 1 .. Len(q) : Found(q[j]) =>
            /\ q[j].dev \notin s
            /\ \A k \in 1 .. Len(m) : m[k] # q[j].dev
            /\ \A k \in 1 .. Len(q) : Found(q[k]) /\ q[j].dev = q[k].dev => j = k
  BY DEF Discovery
<1>3. ASSUME NEW j \in 1 .. Len(t), Found(t[j])
      PROVE  /\ t[j].dev \notin s
             /\ \A k \in 1 .. Len(m) : m[k] # t[j].dev
             /\ \A k \in 1 .. Len(t) : Found(t[k]) /\ t[j].dev = t[k].dev => j = k
             /\ Found(h) => h.dev # t[j].dev
  <2>1. j + 1 \in 1 .. Len(q) /\ t[j] = q[j + 1] /\ Found(q[j + 1]) /\ j + 1 # 1
    BY <1>1, <1>3
  <2>2. q[j + 1].dev \notin s /\ \A k \in 1 .. Len(m) : m[k] # q[j + 1].dev
    BY <1>2, <2>1
  <2>3. ASSUME NEW k \in 1 .. Len(t), Found(t[k]), t[j].dev = t[k].dev PROVE j = k
    <3>1. k + 1 \in 1 .. Len(q) /\ t[k] = q[k + 1]
      BY <1>1
    <3>2. j + 1 = k + 1
      BY <1>2, <2>1, <2>3, <3>1
    <3> QED BY <3>2
  <2>4. Found(h) => h.dev # t[j].dev
    BY <1>1, <1>2, <2>1
  <2> QED BY <2>1, <2>2, <2>3, <2>4
<1>4. Discovery(t, m, s) /\ Discovery(<<>>, m, s)
  BY <1>2, <1>3 DEF Discovery
<1>5. ASSUME Found(h) PROVE Discovery(t, Append(m, h.dev), s)
  <2>1. h.dev \in Dev /\ h.dev \notin s /\ \A k \in 1 .. Len(m) : m[k] # h.dev
    <3>1. h \in Frame
      BY <1>1
    <3>2. h \in AtFrame
      BY <1>5, <3>1, RxFrames DEF Found
    <3> QED BY <1>1, <1>2, <1>5, <3>2, RxFrames DEF Found
  <2> DEFINE n == Append(m, h.dev)
  <2>2. /\ Len(m) \in Nat /\ Len(n) = Len(m) + 1 /\ n[Len(m) + 1] = h.dev
        /\ \A k \in 1 .. Len(m) : n[k] = m[k]
    BY <2>1, Longer
  <2> HIDE DEF n
  <2>3. \A k \in 1 .. Len(n) : k \in 1 .. Len(m) \/ k = Len(m) + 1
    BY <2>2
  <2>4. \A j, k \in 1 .. Len(n) : n[j] = n[k] => j = k
    BY <1>2, <2>1, <2>2, <2>3
  <2>5. \A k \in 1 .. Len(n) : n[k] \notin s
    BY <1>2, <2>1, <2>2, <2>3
  <2>6. \A j \in 1 .. Len(t) : Found(t[j]) => \A k \in 1 .. Len(n) : n[k] # t[j].dev
    BY <1>3, <1>5, <2>2, <2>3
  <2> QED BY <1>3, <2>4, <2>5, <2>6 DEF Discovery, n
<1>6. NoneFound(q) => NoneFound(t)
  BY <1>1 DEF NoneFound
<1> QED BY <1>4, <1>5, <1>6 DEF t, h

\* One frame more, of a device that was silent or none.
LEMMA DiscoveryHears ==
    ASSUME NEW q \in Seq(Frame), NEW m \in Seq(Dev), NEW s, NEW u \in SUBSET s, Discovery(q, m, s),
           NEW f \in Frame, Found(f) => f.dev \in s \ u
    PROVE  /\ Discovery(q, m, u) /\ Discovery(Append(q, f), m, u)
           /\ NoneFound(q) /\ ~ Found(f) => NoneFound(Append(q, f))
<1> DEFINE t == Append(q, f)
<1>1. /\ Len(q) \in Nat /\ Len(t) = Len(q) + 1 /\ t[Len(q) + 1] = f
      /\ \A k \in 1 .. Len(q) : t[k] = q[k]
  BY Longer
<1> HIDE DEF t
<1>2. \A k \in 1 .. Len(t) : k \in 1 .. Len(q) \/ k = Len(q) + 1
  BY <1>1
<1>3. /\ \A j, k \in 1 .. Len(m) : m[j] = m[k] => j = k
      /\ \A k \in 1 .. Len(m) : m[k] \notin s
      /\ \A j \in 1 .. Len(q) : Found(q[j]) =>
            /\ q[j].dev \notin s
            /\ \A k \in 1 .. Len(m) : m[k] # q[j].dev
            /\ \A k \in 1 .. Len(q) : Found(q[k]) /\ q[j].dev = q[k].dev => j = k
  BY DEF Discovery
<1>4. Discovery(q, m, u)
  BY <1>3 DEF Discovery
<1>5. ASSUME NEW j \in 1 .. Len(t), Found(t[j])
      PROVE  /\ t[j].dev \notin u
             /\ \A k \in 1 .. Len(m) : m[k] # t[j].dev
             /\ \A k \in 1 .. Len(t) : Found(t[k]) /\ t[j].dev = t[k].dev => j = k
  BY <1>1, <1>2, <1>3, <1>5
<1>6. Discovery(t, m, u)
  BY <1>3, <1>5 DEF Discovery
<1>7. NoneFound(q) /\ ~ Found(f) => NoneFound(t)
  BY <1>1, <1>2 DEF NoneFound
<1> QED BY <1>4, <1>6, <1>7 DEF t

LEMMA DiscoveryInit == Init => DiscoveryInv
<1>1. ASSUME Init PROVE rx = <<>> /\ silent = {}
  BY <1>1 DEF Init, InitScanning, InitServing, InitLine
<1>2. ASSUME InitScanning PROVE DiscoveryInv
  BY <1>2 DEF InitScanning, InitLine, DiscoveryInv, Discovery, NoneFound
<1>3. ASSUME InitServing PROVE DiscoveryInv
  <2>1. PICK order \in [0 .. Cardinality(Dev) - 1 -> Dev] :
          /\ \A j, k \in DOMAIN order : order[j] = order[k] => j = k
          /\ xbee_mac_addrs = [k \in 1 .. Cardinality(Dev) |-> order[k - 1]]
    BY <1>3 DEF InitServing
  <2>2. main.pc = "done"
    BY <1>3 DEF InitServing, MainAt
  <2>3. Cardinality(Dev) \in Nat
    BY FS_CardinalityType, DevAssumption
  <2>4. /\ Len(xbee_mac_addrs) = Cardinality(Dev)
        /\ \A k \in 1 .. Cardinality(Dev) : xbee_mac_addrs[k] = order[k - 1] /\ k - 1 \in DOMAIN order
    BY <2>1, <2>3
  <2>5. \A j, k \in 1 .. Len(xbee_mac_addrs) : xbee_mac_addrs[j] = xbee_mac_addrs[k] => j = k
    <3> SUFFICES ASSUME NEW j \in 1 .. Cardinality(Dev), NEW k \in 1 .. Cardinality(Dev), order[j - 1] = order[k - 1]
                 PROVE  j = k
      BY <2>4
    <3>1. j - 1 = k - 1
      BY <2>1, <2>4
    <3> QED BY <2>3, <3>1
  <2> QED BY <1>1, <1>3, <2>2, <2>5 DEF DiscoveryInv, Discovery, Init
<1> QED BY <1>2, <1>3 DEF Init

LEMMA DiscoveryStep == TypeInv /\ DiscoveryInv /\ Next => DiscoveryInv'
<1> SUFFICES ASSUME TypeInv, DiscoveryInv, Next PROVE DiscoveryInv'
  OBVIOUS
<1> USE DEF scanner, onAir, radio, manager, history
<1>0. /\ rx \in Seq(Frame) /\ xbee_mac_addrs \in Seq(Dev) /\ silent \in SUBSET Dev
      /\ main \in [pc : MainPc, i : Nat \ {0}, fails : 0 .. max_fail_times,
                   ip : Nat \cup {NULL}, buf : Seq(RxFrame)]
      /\ Discovery(rx, xbee_mac_addrs, silent)
      /\ main.pc = "scan" => silent = {} /\ xbee_mac_addrs = <<>> /\ NoneFound(rx)
      /\ NoneFound(<<>>)
  BY DEF TypeInv, BrokerOK, LineOK, MainOK, DiscoveryInv, NoneFound
<1>1. ASSUME UNCHANGED <<xbee_mac_addrs, silent>>, main'.pc = "scan" => main.pc = "scan",
             rx' = rx \/ (rx # <<>> /\ rx' = Tail(rx)) \/ rx' = <<>>
      PROVE  DiscoveryInv'
  <2>1. CASE rx' = rx
    BY <1>0, <1>1, <2>1 DEF DiscoveryInv
  <2>2. CASE rx # <<>> /\ (rx' = Tail(rx) \/ rx' = <<>>)
    <3>1. /\ Discovery(Tail(rx), xbee_mac_addrs, silent) /\ Discovery(<<>>, xbee_mac_addrs, silent)
          /\ NoneFound(rx) => NoneFound(Tail(rx))
      BY <1>0, <2>2, DiscoveryReads, Zenon
    <3> QED BY <1>0, <1>1, <2>2, <3>1 DEF DiscoveryInv
  <2> QED BY <1>1, <2>1, <2>2
<1>2. ASSUME UNCHANGED <<xbee_mac_addrs, main>>, silent' \in SUBSET silent,
             NEW f \in Frame, rx' = Append(rx, f) \/ rx' = rx, Found(f) => f.dev \in silent \ silent'
      PROVE  DiscoveryInv'
  <2>1. /\ Discovery(rx, xbee_mac_addrs, silent') /\ Discovery(Append(rx, f), xbee_mac_addrs, silent')
        /\ NoneFound(rx) /\ ~ Found(f) => NoneFound(Append(rx, f))
    BY <1>0, <1>2, DiscoveryHears, Zenon
  <2>2. main'.pc = "scan" => silent' = {} /\ xbee_mac_addrs' = <<>> /\ NoneFound(rx')
    <3>1. main'.pc = "scan" => silent = {} /\ silent' = {} /\ ~ Found(f) /\ xbee_mac_addrs = <<>> /\ NoneFound(rx)
      BY <1>0, <1>2
    <3> QED BY <1>2, <2>1, <3>1
  <2> QED BY <1>2, <2>1, <2>2 DEF DiscoveryInv
<1>3. CASE Listener
  <2>1. UNCHANGED <<xbee_mac_addrs, silent, main>>
    BY <1>3 DEF Listener, UnknownDevice, ForwardCommand, ListenerStatus, ListenerCollects,
                ListenerTimeout, ListenerAnswers
  <2>2. rx' = rx \/ (rx # <<>> /\ rx' = Tail(rx)) \/ rx' = <<>>
    BY <1>3 DEF Listener, UnknownDevice, ForwardCommand, ListenerStatus, ListenerCollects,
                ListenerTimeout, ListenerAnswers, FrameRead, clear_XBee_api_recv_buff
  <2> QED BY <1>1, <2>1, <2>2
<1>4. CASE Environment
  <2>1. ASSUME NEW ip \in 0 .. Cardinality(Dev) - 1, ManagerCalls(ip) PROVE DiscoveryInv'
    BY <1>1, <2>1 DEF ManagerCalls
  <2>2. ASSUME NEW ok \in BOOLEAN, TxStatus(ok) PROVE DiscoveryInv'
    <3> DEFINE f == [api |-> "ZB_TX_STATUS_RESPONSE", ok |-> ok]
    <3>1. f \in Frame /\ ~ Found(f)
      BY RxFrames DEF StatusFrame, Found
    <3>2. rx' = Append(rx, f) /\ UNCHANGED <<xbee_mac_addrs, main, silent>>
      BY <2>2 DEF TxStatus
    <3> HIDE DEF f
    <3> QED BY <1>2, <3>1, <3>2
  <2>3. ASSUME NEW d \in Dev, Discovered(d) PROVE DiscoveryInv'
    <3> DEFINE f == [api |-> "AT_COMMAND_RESPONSE", status |-> "ok", dev |-> d]
    <3>1. f \in Frame /\ f.dev = d
      BY RxFrames DEF AtFrame
    <3>2. /\ d \in silent /\ silent' = silent \ {d} /\ UNCHANGED <<xbee_mac_addrs, main>>
          /\ rx' = Append(rx, f) \/ rx' = rx
      BY <2>3 DEF Discovered
    <3> HIDE DEF f
    <3> QED BY <1>2, <3>1, <3>2
  <2>4. ASSUME NEW status \in {"ok", "error"}, DiscoveredNobody(status) PROVE DiscoveryInv'
    <3> DEFINE f == [api |-> "AT_COMMAND_RESPONSE", status |-> status, dev |-> NULL]
    <3>1. f \in Frame /\ ~ Found(f)
      BY RxFrames DEF AtFrame, Found
    <3>2. rx' = Append(rx, f) /\ UNCHANGED <<xbee_mac_addrs, main, silent>>
      BY <2>4 DEF DiscoveredNobody
    <3> HIDE DEF f
    <3> QED BY <1>2, <3>1, <3>2
  <2>5. ASSUME NEW d \in Dev, DeviceHears(d) PROVE DiscoveryInv'
    BY <1>1, <2>5 DEF DeviceHears
  <2>6. ASSUME NEW d \in Dev, RadioDelivers(d) PROVE DiscoveryInv'
    <3>1. /\ out[d] # <<>> /\ UNCHANGED <<xbee_mac_addrs, main, silent>>
          /\ rx' = Append(rx, Head(out[d])) \/ rx' = rx
      BY <2>6 DEF RadioDelivers
    <3>2. Head(out[d]) \in Frame /\ ~ Found(Head(out[d]))
      <4>1. Head(out[d]) \in RxFrame
        BY <3>1, Shorter DEF TypeInv, LineOK
      <4> QED BY <4>1, RxFrames DEF Found
    <3> QED BY <1>2, <3>1, <3>2
  <2> QED BY <1>4, <2>1, <2>2, <2>3, <2>4, <2>5, <2>6 DEF Environment
<1>5. CASE SendDiscovery
  <2>1. main.pc = "scan" /\ UNCHANGED <<xbee_mac_addrs, rx>> /\ main' = [main EXCEPT !.pc = "discover"]
    BY <1>5 DEF SendDiscovery, MainGoes
  <2>2. main'.pc = "discover"
    BY <1>0, <2>1
  <2>3. Discovery(rx, <<>>, silent')
    BY <1>0, <2>1 DEF Discovery, NoneFound
  <2> QED BY <1>0, <2>1, <2>2, <2>3 DEF DiscoveryInv
<1>6. CASE ReadDiscovery
  <2>1. /\ rx # <<>> /\ rx' = Tail(rx) /\ UNCHANGED silent
        /\ xbee_mac_addrs' = IF Found(Head(rx)) THEN Append(xbee_mac_addrs, Head(rx).dev) ELSE xbee_mac_addrs
    BY <1>6 DEF ReadDiscovery, FrameRead
  <2>2. PICK n : main' = [main EXCEPT !.fails = n, !.pc = IF n >= max_fail_times THEN "syn" ELSE "discover"]
    BY <1>6 DEF ReadDiscovery, AfterDiscovery
  <2>3. main'.pc # "scan"
    BY <1>0, <2>2
  <2>4. /\ Discovery(Tail(rx), xbee_mac_addrs, silent)
        /\ Found(Head(rx)) => Discovery(Tail(rx), Append(xbee_mac_addrs, Head(rx).dev), silent)
    BY <1>0, <2>1, DiscoveryReads, Zenon
  <2> QED BY <2>1, <2>3, <2>4 DEF DiscoveryInv
<1>7. ASSUME Main, ~ SendDiscovery, ~ ReadDiscovery PROVE DiscoveryInv'
  <2>1. UNCHANGED <<xbee_mac_addrs, silent>>
    BY <1>7 DEF Main, DiscoveryTimeout, SendSyn, SynStatus, ReadAck, AskIp, SendDes, DesStatus,
                MainCollects, MainTimeout, Register
  <2>2. rx' = rx \/ (rx # <<>> /\ rx' = Tail(rx)) \/ rx' = <<>>
    BY <1>7 DEF Main, DiscoveryTimeout, SendSyn, SynStatus, ReadAck, AskIp, SendDes, DesStatus,
                MainCollects, MainTimeout, Register, FrameRead, clear_XBee_api_recv_buff
  <2>3. main.pc # "scan"
    BY <1>7 DEF Main, DiscoveryTimeout, SendSyn, SynStatus, ReadAck, AskIp, SendDes, DesStatus,
                MainCollects, MainTimeout, Register
  <2>4. main'.pc # "scan"
    <3>1. ASSUME NEW pc \in MainPc \ {"scan"}, MainGoes(pc) PROVE main'.pc # "scan"
      BY <1>0, <3>1 DEF MainGoes
    <3>2. ASSUME NextDevice PROVE main'.pc # "scan"
      BY <3>2, NextFields
    <3>3. CASE DiscoveryTimeout
      <4>1. PICK n : main' = [main EXCEPT !.fails = n, !.pc = IF n >= max_fail_times THEN "syn" ELSE "discover"]
        BY <3>3 DEF DiscoveryTimeout, AfterDiscovery
      <4> QED BY <1>0, <4>1
    <3>4. CASE SendSyn
      BY <3>1, <3>4 DEF SendSyn, MainPc
    <3>5. CASE SynStatus
      BY <3>1, <3>2, <3>5 DEF SynStatus, MainPc
    <3>6. CASE ReadAck
      BY <3>1, <3>2, <3>6 DEF ReadAck, MainPc
    <3>7. CASE AskIp
      BY <1>0, <3>7 DEF AskIp
    <3>8. CASE SendDes
      BY <3>1, <3>8 DEF SendDes, MainPc
    <3>9. CASE DesStatus
      BY <1>0, <3>9 DEF DesStatus
    <3>10. CASE MainCollects
      BY <1>0, <3>10 DEF MainCollects
    <3>11. CASE MainTimeout
      BY <3>1, <3>11 DEF MainTimeout, MainPc
    <3>12. CASE Register
      BY <3>2, <3>12 DEF Register
    <3> QED BY <1>7, <3>3, <3>4, <3>5, <3>6, <3>7, <3>8, <3>9, <3>10, <3>11, <3>12 DEF Main
  <2> QED BY <1>1, <2>1, <2>2, <2>4
<1> QED BY <1>3, <1>4, <1>5, <1>6, <1>7 DEF Next

----------------------------------------------------------------------------
\* The table: no device is in it twice, and each is entered when its turn comes.

LEMMA CardinalityOfDev == Cardinality(Dev) \in Nat
BY FS_CardinalityType, DevAssumption

LEMMA EntryIsEntry == \A e \in Entry : e # NULL /\ e.addr \in Dev
BY NullAssumption DEF Entry

LEMMA TableInit == Init => TableInv
<1> SUFFICES ASSUME Init PROVE TableInv
  OBVIOUS
<1>1. CASE InitScanning
  <2>1. Used = {} /\ main.i = 1 /\ main.pc = "scan"
    BY <1>1 DEF InitScanning, Used, MainAt
  <2> QED BY <2>1 DEF TableInv, Addressed
<1>2. CASE InitServing
  <2>1. PICK order \in [0 .. Cardinality(Dev) - 1 -> Dev] :
          /\ \A j, k \in DOMAIN order : order[j] = order[k] => j = k
          /\ xbee_api_devices = [k \in Slot |->
                IF k \in DOMAIN order THEN [addr |-> order[k], ip |-> k] ELSE NULL]
    BY <1>2 DEF InitServing
  <2>2. main.pc = "done"
    BY <1>2 DEF InitServing, MainAt
  <2>3. \A k \in Used : k \in DOMAIN order /\ xbee_api_devices[k].addr = order[k]
    BY <2>1 DEF Used
  <2>4. \A j, k \in Used : xbee_api_devices[j].addr = xbee_api_devices[k].addr => j = k
    BY <2>1, <2>3
  <2> QED BY <2>2, <2>4 DEF TableInv, Addressed
<1> QED BY <1>1, <1>2 DEF Init

\* A step of the main thread that leaves the table alone.
LEMMA TableKept ==
    ASSUME TypeInv, TableInv, UNCHANGED <<xbee_api_devices, xbee_mac_addrs>>, main'.pc # "ip",
           main'.i \in Nat, main'.i >= main.i,
           main'.pc \in {"scan", "discover"} => main.pc \in {"scan", "discover"} /\ main'.i = main.i,
           main'.pc # "done" => main.pc # "done" /\ Beyond' >= Beyond,
           main'.pc \in Addressed => main.pc \in Addressed /\ main'.i = main.i /\ main'.ip = main.ip
    PROVE  TableInv'
<1>1. Used' = Used /\ Beyond \in Nat /\ Beyond' \in Nat /\ Len(xbee_mac_addrs) \in Nat
  BY DEF Used, Beyond, TypeInv, MainOK, BrokerOK
<1>2. main'.pc # "done" => \A k \in Used, j \in 1 .. Len(xbee_mac_addrs) :
          j >= Beyond' => xbee_api_devices[k].addr # xbee_mac_addrs[j]
  BY <1>1 DEF TableInv
<1>3. main'.pc \in {"scan", "discover"} => Used' = {} /\ main'.i = 1
  BY <1>1 DEF TableInv
<1>4. main'.pc \in Addressed =>
          \E k \in Used' : xbee_api_devices'[k].addr = Addr' /\ xbee_api_devices'[k].ip = main'.ip
  BY <1>1 DEF TableInv, Addr
<1>5. \A j, k \in Used' : xbee_api_devices'[j].addr = xbee_api_devices'[k].addr => j = k
  BY <1>1 DEF TableInv
<1> QED BY <1>1, <1>2, <1>3, <1>4, <1>5 DEF TableInv

\* There is room for a device that is not in the table yet.
LEMMA RoomForOne ==
    ASSUME Cardinality(Dev) <= MAXDEVICECOUNT, TypeInv, NEW d \in Dev,
           \A j, k \in Used : xbee_api_devices[j].addr = xbee_api_devices[k].addr => j = k,
           \A k \in Used : xbee_api_devices[k].addr # d
    PROVE  \E k \in Slot : xbee_api_devices[k] = NULL
<1> SUFFICES ASSUME \A k \in Slot : k \in Used PROVE FALSE
  BY DEF Used
<1>1. MAXDEVICECOUNT \in Nat /\ Cardinality(Dev) \in Nat
  BY LimitsAssumption, CardinalityOfDev
<1>2. IsFiniteSet(Slot) /\ Cardinality(Slot) = MAXDEVICECOUNT
  <2>1. PICK m \in Int : m = MAXDEVICECOUNT - 1
    BY <1>1
  <2>2. 0 \in Int
    OBVIOUS
  <2>3. IsFiniteSet(0 .. m) /\ Cardinality(0 .. m) = IF 0 > m THEN 0 ELSE m - 0 + 1
    BY <2>2, FS_Interval, Zenon
  <2> QED BY <1>1, <2>1, <2>3 DEF Slot
<1>3. IsFiniteSet(Dev \ {d}) /\ Cardinality(Dev \ {d}) = Cardinality(Dev) - 1
  BY DevAssumption, FS_RemoveElement
<1> DEFINE f == [k \in Slot |-> xbee_api_devices[k].addr]
<1>4. f \in [Slot -> Dev \ {d}]
  <2> SUFFICES ASSUME NEW k \in Slot PROVE xbee_api_devices[k].addr \in Dev \ {d}
    OBVIOUS
  <2>1. xbee_api_devices[k] \in Entry
    BY DEF Used, TypeInv, BrokerOK
  <2> QED BY <2>1, EntryIsEntry
<1>5. Cardinality(Dev \ {d}) < Cardinality(Slot)
  BY <1>1, <1>2, <1>3
<1> HIDE DEF f
<1>6. \E j, k \in Slot : j # k /\ f[j] = f[k]
  BY <1>2, <1>3, <1>4, <1>5, FS_PigeonHole
<1> QED BY <1>6 DEF f

\* ReadAck: the device gets an entry of its own.
LEMMA TableAdds ==
    ASSUME Cardinality(Dev) <= MAXDEVICECOUNT, TypeInv, DiscoveryInv, TableInv, main.pc = "ack",
           add_new_XBee_api_device(Addr), UNCHANGED xbee_mac_addrs, MainGoes("ip")
    PROVE  TableInv' /\ \A k \in Used : xbee_api_devices'[k] = xbee_api_devices[k]
<1> DEFINE free == {k \in Slot : xbee_api_devices[k] = NULL}
           e == [addr |-> Addr, ip |-> NULL]
<1>1. /\ main'.pc = "ip" /\ main'.i = main.i /\ main.i \in 1 .. Len(xbee_mac_addrs)
      /\ Len(xbee_mac_addrs) \in Nat /\ Addr' = Addr /\ Addr = xbee_mac_addrs[main.i]
  <2>1. main'.pc = "ip" /\ main'.i = main.i
    BY MainFields, Zenon DEF MainGoes, MainPc
  <2> QED BY <2>1 DEF TypeInv, MainOK, BrokerOK, Addr
<1>2. Addr \in Dev
  BY <1>1, AddrType
<1>3. \A k \in Used : xbee_api_devices[k].addr # Addr
  BY <1>1 DEF TableInv, Beyond
<1>4. free # {} /\ ~ is_XBee_api_device_exists(Addr)
  <2>1. \E k \in Slot : xbee_api_devices[k] = NULL
    BY <1>2, <1>3, RoomForOne DEF TableInv
  <2>2. find_XBee_api_device_index(Addr) = {}
    BY <1>3 DEF find_XBee_api_device_index, Used
  <2> QED BY <2>1, <2>2 DEF is_XBee_api_device_exists
<1>5. PICK s : s = First(free)
  OBVIOUS
<1>6. s \in Slot /\ xbee_api_devices[s] = NULL
  BY <1>4, <1>5, FirstIn
<1>7. e \in Entry /\ e.addr = Addr /\ e.ip = NULL /\ e # NULL
  BY <1>2, EntryIsEntry DEF Entry
<1>8. xbee_api_devices' = [xbee_api_devices EXCEPT ![s] = e]
  BY <1>4, <1>5 DEF add_new_XBee_api_device
<1> HIDE DEF free, e
<1>9. \A k \in Slot : xbee_api_devices'[k] = IF k = s THEN e ELSE xbee_api_devices[k]
  BY <1>6, <1>8 DEF TypeInv, BrokerOK
<1>10. Used' = Used \cup {s} /\ s \notin Used
  BY <1>6, <1>7, <1>9 DEF Used
<1>11. Used \subseteq Slot
  BY DEF Used
<1>12. \A k \in Used : xbee_api_devices'[k] = xbee_api_devices[k]
  BY <1>9, <1>10, <1>11
<1>13. xbee_api_devices'[s] = e
  BY <1>6, <1>9
<1>14. \A j, k \in Used' : xbee_api_devices'[j].addr = xbee_api_devices'[k].addr => j = k
  BY <1>3, <1>7, <1>10, <1>12, <1>13 DEF TableInv
<1>15. \A k \in Used', j \in 1 .. Len(xbee_mac_addrs') :
           j >= Beyond' => xbee_api_devices'[k].addr # xbee_mac_addrs'[j]
  <2> SUFFICES ASSUME NEW k \in Used', NEW j \in 1 .. Len(xbee_mac_addrs), j >= main.i + 1
               PROVE  xbee_api_devices'[k].addr # xbee_mac_addrs[j]
    BY <1>1 DEF Beyond
  <2>1. CASE k \in Used
    BY <1>1, <1>12, <2>1 DEF TableInv, Beyond
  <2>2. CASE k = s
    <3>1. j # main.i
      BY <1>1
    <3>2. xbee_mac_addrs[j] # Addr
      BY <1>1, <3>1 DEF DiscoveryInv, Discovery
    <3> QED BY <1>7, <1>13, <2>2, <3>2
  <2> QED BY <1>10, <2>1, <2>2
<1>16. \A k \in Used' : xbee_api_devices'[k].addr = Addr => k = s
  BY <1>3, <1>10, <1>12
<1>17. TableInv'
  BY <1>1, <1>7, <1>10, <1>13, <1>14, <1>15, <1>16 DEF TableInv, Addressed
<1> QED BY <1>12, <1>17

\* AskIp: the address goes into the device's own entry, which had none.
LEMMA TableUpdates ==
    ASSUME TypeInv, TableInv, AskIp
    PROVE  TableInv' /\ \A k \in Used : xbee_api_devices[k].ip # NULL =>
                            k \in Used' /\ xbee_api_devices'[k] = xbee_api_devices[k]
<1> DEFINE found == find_XBee_api_device_index(Addr)
<1>0. PICK a \in {ip_count, NULL} :
         /\ update_XBee_api_iot_ip(Addr, a) /\ main' = [main EXCEPT !.pc = "des", !.ip = a]
         /\ main.pc = "ip" /\ UNCHANGED xbee_mac_addrs
  BY DEF AskIp
<1>1. /\ main.pc = "ip" /\ main'.pc = "des" /\ main'.i = main.i /\ main'.ip = a
      /\ a \in Nat \cup {NULL} /\ UNCHANGED xbee_mac_addrs /\ Addr' = Addr /\ main.i \in Nat
      /\ Len(xbee_mac_addrs) \in Nat
  <2>1. ip_count \in Nat
    BY DEF TypeInv, MainOK, BrokerOK
  <2> QED BY <1>0, <2>1 DEF TypeInv, MainOK, BrokerOK, Addr
<1>2. \E k \in Used : xbee_api_devices[k].addr = Addr
  BY <1>1 DEF TableInv
<1>3. \A k \in Used : xbee_api_devices[k].addr = Addr => xbee_api_devices[k].ip = NULL
  BY <1>1 DEF TableInv
<1>4. found # {} /\ found \in SUBSET Slot /\ \A k \in found : k \in Used /\ xbee_api_devices[k].addr = Addr
  BY <1>2 DEF find_XBee_api_device_index, Used
<1>5. PICK s : s = First(found)
  OBVIOUS
<1>6. xbee_api_devices' = [xbee_api_devices EXCEPT ![s].ip = a]
  BY <1>0, <1>4, <1>5 DEF update_XBee_api_iot_ip
<1> HIDE DEF found
<1>7. s \in Slot /\ s \in Used /\ xbee_api_devices[s].addr = Addr /\ xbee_api_devices[s].ip = NULL
  BY <1>3, <1>4, <1>5, FirstIn
<1>8. xbee_api_devices[s] \in Entry
  BY <1>7 DEF Used, TypeInv, BrokerOK
<1> DEFINE e == [xbee_api_devices[s] EXCEPT !.ip = a]
<1>9. e \in Entry /\ e.addr = Addr /\ e.ip = a /\ e # NULL
  <2>1. e \in Entry /\ e.addr = Addr /\ e.ip = a
    BY <1>1, <1>7, <1>8 DEF Entry
  <2> QED BY <2>1, EntryIsEntry
<1>10. xbee_api_devices' = [xbee_api_devices EXCEPT ![s] = e]
  BY <1>6
<1> HIDE DEF e
<1>11. \A k \in Slot : xbee_api_devices'[k] = IF k = s THEN e ELSE xbee_api_devices[k]
  BY <1>7, <1>10 DEF TypeInv, BrokerOK
<1>12. Used' = Used
  BY <1>7, <1>9, <1>11 DEF Used
<1>13. \A k \in Used : /\ xbee_api_devices'[k].addr = xbee_api_devices[k].addr
                       /\ k # s => xbee_api_devices'[k] = xbee_api_devices[k]
  BY <1>7, <1>9, <1>11 DEF Used
<1>14. \A k \in Used, j \in 1 .. Len(xbee_mac_addrs) :
           j >= Beyond' => xbee_api_devices[k].addr # xbee_mac_addrs[j]
  BY <1>1 DEF TableInv, Beyond
<1>15. \E k \in Used : xbee_api_devices'[k].addr = Addr /\ xbee_api_devices'[k].ip = a
  BY <1>7, <1>9, <1>11
<1>16. \A j, k \in Used : xbee_api_devices[j].addr = xbee_api_devices[k].addr => j = k
  BY DEF TableInv
<1>17. TableInv'
  BY <1>1, <1>12, <1>13, <1>14, <1>15, <1>16 DEF TableInv, Addressed
<1> QED BY <1>7, <1>12, <1>13, <1>17

LEMMA TableMain ==
    ASSUME Cardinality(Dev) <= MAXDEVICECOUNT, TypeInv, DiscoveryInv, TableInv, Main
    PROVE  TableInv' /\ \A k \in Used : xbee_api_devices[k].ip # NULL =>
                            k \in Used' /\ xbee_api_devices'[k] = xbee_api_devices[k]
<1>0. /\ main \in [pc : MainPc, i : Nat \ {0}, fails : 0 .. max_fail_times,
                   ip : Nat \cup {NULL}, buf : Seq(RxFrame)]
      /\ main.i \in Nat /\ main.i >= main.i /\ main.i + 1 \in Nat /\ main.i + 1 >= main.i
  BY DEF TypeInv, MainOK
<1>1. ASSUME UNCHANGED xbee_api_devices
      PROVE  \A k \in Used : xbee_api_devices[k].ip # NULL =>
                 k \in Used' /\ xbee_api_devices'[k] = xbee_api_devices[k]
  BY <1>1 DEF Used
\* The next device's turn.
<1>2. ASSUME NextDevice, UNCHANGED <<xbee_api_devices, xbee_mac_addrs>>,
             main.pc \in {"synstatus", "ack", "completed", "timeout"}
      PROVE  TableInv'
  <2>1. main'.pc = "syn" /\ main'.i = main.i + 1
    BY <1>2, NextFields
  <2>2. Beyond' = main.i + 1 /\ Beyond \in {main.i, main.i + 1}
    BY <2>1 DEF Beyond
  <2>3. Beyond' >= Beyond
    BY <1>0, <2>2
  <2>4. main'.pc \notin Addressed /\ main'.pc \notin {"scan", "discover"} /\ main'.pc # "ip"
    BY <2>1 DEF Addressed
  <2> QED BY <1>0, <1>2, <2>1, <2>3, <2>4, TableKept, Zenon
\* Another place in the same turn.
<1>3. ASSUME UNCHANGED <<xbee_api_devices, xbee_mac_addrs>>, main'.i = main.i, main'.ip = main.ip,
             <<main.pc, main'.pc>> \in
                 {<<"scan", "discover">>, <<"discover", "discover">>, <<"discover", "syn">>,
                  <<"syn", "done">>, <<"syn", "synstatus">>, <<"synstatus", "ack">>,
                  <<"des", "desstatus">>, <<"desstatus", "description">>,
                  <<"description", "description">>, <<"description", "completed">>,
                  <<"description", "timeout">>}
      PROVE  TableInv'
  <2>1. CASE main.pc = "discover" /\ main'.pc = "syn"
    <3>1. Used = {} /\ Used' = {}
      BY <1>3, <2>1 DEF TableInv, Used
    <3> QED BY <2>1, <3>1 DEF TableInv, Addressed
  <2>2. CASE ~ (main.pc = "discover" /\ main'.pc = "syn")
    <3>1. main'.pc # "done" => main.pc # "done" /\ Beyond' >= Beyond
      <4>1. main'.pc # "done" => main.pc # "done" /\ Beyond' = Beyond
        BY <1>3, <2>2 DEF Beyond
      <4>2. Beyond \in Nat
        BY <1>0 DEF Beyond
      <4> QED BY <4>1, <4>2
    <3>2. /\ main'.pc # "ip"
          /\ main'.pc \in {"scan", "discover"} => main.pc \in {"scan", "discover"} /\ main'.i = main.i
          /\ main'.pc \in Addressed => main.pc \in Addressed /\ main'.i = main.i /\ main'.ip = main.ip
      BY <1>3 DEF Addressed
    <3>3. main'.i \in Nat /\ main'.i >= main.i
      BY <1>0, <1>3
    <3> QED BY <1>3, <3>1, <3>2, <3>3, TableKept, Zenon
  <2> QED BY <2>1, <2>2
<1>4. ASSUME NEW pc \in MainPc, MainGoes(pc)
      PROVE  main'.pc = pc /\ main'.i = main.i /\ main'.ip = main.ip
  BY <1>4, MainFields, Zenon DEF MainGoes
<1>5. ASSUME NEW n, AfterDiscovery(n)
      PROVE  main'.pc \in {"syn", "discover"} /\ main'.i = main.i /\ main'.ip = main.ip
  BY <1>0, <1>5 DEF AfterDiscovery
<1>6. CASE SendDiscovery
  <2>1. main.pc = "scan" /\ MainGoes("discover") /\ UNCHANGED <<xbee_api_devices, xbee_mac_addrs>>
    BY <1>6 DEF SendDiscovery
  <2> QED BY <1>1, <1>3, <1>4, <2>1 DEF MainPc
<1>7. CASE ReadDiscovery
  <2>1. main.pc = "discover" /\ UNCHANGED xbee_api_devices
    BY <1>7 DEF ReadDiscovery
  <2>2. main'.pc \in {"syn", "discover"} /\ main'.i = main.i
    BY <1>5, <1>7 DEF ReadDiscovery
  <2>3. Used = {} /\ Used' = {} /\ main.i = 1
    BY <2>1 DEF TableInv, Used
  <2>4. TableInv'
    BY <2>2, <2>3 DEF TableInv, Addressed
  <2> QED BY <1>1, <2>1, <2>4
<1>8. CASE DiscoveryTimeout
  <2>1. main.pc = "discover" /\ UNCHANGED <<xbee_api_devices, xbee_mac_addrs>>
    BY <1>8 DEF DiscoveryTimeout
  <2>2. main'.pc \in {"syn", "discover"} /\ main'.i = main.i /\ main'.ip = main.ip
    BY <1>5, <1>8 DEF DiscoveryTimeout
  <2> QED BY <1>1, <1>3, <2>1, <2>2
<1>9. CASE SendSyn
  <2>1. /\ main.pc = "syn" /\ UNCHANGED <<xbee_api_devices, xbee_mac_addrs>>
        /\ MainGoes("done") \/ MainGoes("synstatus")
    BY <1>9 DEF SendSyn
  <2> QED BY <1>1, <1>3, <1>4, <2>1 DEF MainPc
<1>10. CASE SynStatus
  <2>1. /\ main.pc = "synstatus" /\ UNCHANGED <<xbee_api_devices, xbee_mac_addrs>>
        /\ MainGoes("ack") \/ NextDevice
    BY <1>10 DEF SynStatus
  <2>2. ASSUME MainGoes("ack") PROVE TableInv'
    BY <1>3, <1>4, <2>1, <2>2 DEF MainPc
  <2> QED BY <1>1, <1>2, <2>1, <2>2
<1>11. CASE ReadAck
  <2>1. /\ main.pc = "ack" /\ UNCHANGED xbee_mac_addrs
        /\ \/ add_new_XBee_api_device(Addr) /\ MainGoes("ip")
           \/ NextDevice /\ UNCHANGED xbee_api_devices
    BY <1>11 DEF ReadAck
  <2>2. ASSUME add_new_XBee_api_device(Addr), MainGoes("ip")
        PROVE  TableInv' /\ \A k \in Used : k \in Used' /\ xbee_api_devices'[k] = xbee_api_devices[k]
    <3>1. TableInv' /\ \A k \in Used : xbee_api_devices'[k] = xbee_api_devices[k]
      BY <2>1, <2>2, TableAdds, Zenon
    <3> QED BY <3>1 DEF Used
  <2> QED BY <1>1, <1>2, <2>1, <2>2
<1>12. CASE AskIp
  BY <1>12, TableUpdates, Zenon
<1>13. CASE SendDes
  <2>1. main.pc = "des" /\ MainGoes("desstatus") /\ UNCHANGED <<xbee_api_devices, xbee_mac_addrs>>
    BY <1>13 DEF SendDes
  <2> QED BY <1>1, <1>3, <1>4, <2>1 DEF MainPc
<1>14. CASE DesStatus
  <2>1. /\ main.pc = "desstatus" /\ UNCHANGED <<xbee_api_devices, xbee_mac_addrs>>
        /\ main' = [main EXCEPT !.pc = "description", !.buf = FreshBuffer(main)]
    BY <1>14 DEF DesStatus
  <2>2. main'.pc = "description" /\ main'.i = main.i /\ main'.ip = main.ip
    BY <1>0, <2>1
  <2> QED BY <1>1, <1>3, <2>1, <2>2
<1>15. CASE MainCollects
  <2>1. PICK b : /\ main.pc = "description" /\ UNCHANGED <<xbee_api_devices, xbee_mac_addrs>>
                 /\ main' = [main EXCEPT !.buf = b,
                                         !.pc = IF Completed(b) THEN "completed" ELSE "description"]
    BY <1>15 DEF MainCollects
  <2>2. main'.pc \in {"completed", "description"} /\ main'.i = main.i /\ main'.ip = main.ip
    BY <1>0, <2>1
  <2> QED BY <1>1, <1>3, <2>1, <2>2
<1>16. CASE MainTimeout
  <2>1. main.pc = "description" /\ MainGoes("timeout") /\ UNCHANGED <<xbee_api_devices, xbee_mac_addrs>>
    BY <1>16 DEF MainTimeout
  <2> QED BY <1>1, <1>3, <1>4, <2>1 DEF MainPc
<1>17. CASE Register
  <2>1. main.pc \in {"completed", "timeout"} /\ NextDevice /\ UNCHANGED <<xbee_api_devices, xbee_mac_addrs>>
    BY <1>17 DEF Register
  <2> QED BY <1>1, <1>2, <2>1
<1> QED BY <1>6, <1>7, <1>8, <1>9, <1>10, <1>11, <1>12, <1>13, <1>14, <1>15, <1>16, <1>17 DEF Main

----------------------------------------------------------------------------
\* The description: while no package came in, the only answer under way is that
\* of the device whose turn it is.

LEMMA DescribeInit == Init => DescribeInv
<1> SUFFICES ASSUME Init PROVE DescribeInv
  OBVIOUS
<1>1. /\ rx = <<>> /\ \A d \in Dev : air[d] = <<>> /\ out[d] = <<>>
      /\ main.pc \in {"scan", "done"}
  BY DEF Init, InitScanning, InitServing, InitLine, MainAt
<1>2. Awaited = {} /\ LiveDescription = <<>>
  BY <1>1 DEF Awaited, LiveDescription
<1>3. Exchange({}, Addr, air, out, rx, <<>>)
  BY <1>1, ExchangeNothing
<1> QED BY <1>2, <1>3 DEF DescribeInv

\* No package was taken by a step that leaves asked empty, and none is open.
LEMMA NoPackage ==
    ASSUME TypeInv, [Next]_vars, asked' = <<>>
    PROVE  asked = <<>> /\ ~ Listener
<1>1. asked \in Seq(Dev \cup {NULL}) /\ open \in 0 .. Len(asked) /\ (open = 0 <=> listener.pc = "recv")
  BY DEF TypeInv, ListenerOK
<1>2. ASSUME NEW chance, UnknownDevice(chance) \/ ForwardCommand(chance) PROVE FALSE
  <2>1. \E x : asked' = Append(asked, x)
    BY <1>2 DEF UnknownDevice, ForwardCommand
  <2> QED BY <1>1, <2>1
<1>3. CASE asked' = asked
  <2>1. open = 0 /\ listener.pc = "recv"
    BY <1>1, <1>3
  <2>2. ~ (ListenerStatus \/ ListenerCollects \/ ListenerTimeout \/ ListenerAnswers)
    BY <2>1 DEF ListenerStatus, ListenerCollects, ListenerTimeout, ListenerAnswers
  <2> QED BY <1>2, <1>3, <2>2 DEF Listener
<1>4. asked' = asked
  <2>1. CASE UNCHANGED history \/ UNCHANGED asked
    BY <2>1 DEF history
  <2>2. CASE Listener
    BY <1>2, <2>2 DEF Listener, ListenerStatus, ListenerCollects, ListenerTimeout, ListenerAnswers, history
  <2>3. CASE Main \/ Environment
    BY <2>3 DEF Main, Environment, SendDiscovery, ReadDiscovery, DiscoveryTimeout, SendSyn, SynStatus,
       ReadAck, AskIp, SendDes, DesStatus, MainCollects, MainTimeout, Register, history,
       ManagerCalls, TxStatus, Discovered, DiscoveredNobody, DeviceHears, RadioDelivers
  <2> QED BY <2>1, <2>2, <2>3 DEF Next, vars
<1> QED BY <1>3, <1>4

LEMMA DescribeMain ==
    ASSUME TypeInv, Main, ~ Late, Exchange(Awaited, Addr, air, out, rx, LiveDescription)
    PROVE  Exchange(Awaited', Addr', air', out', rx', LiveDescription')
<1> USE DEF scanner, onAir, radio, manager, history
<1> DEFINE Goal == Exchange(Awaited', Addr', air', out', rx', LiveDescription')
<1> SUFFICES Goal
  OBVIOUS
<1> HIDE DEF Goal
<1>0. /\ main \in [pc : MainPc, i : Nat \ {0}, fails : 0 .. max_fail_times,
                   ip : Nat \cup {NULL}, buf : Seq(RxFrame)]
      /\ OnLine(air, out, rx, LiveDescription) /\ OnLine(air, out, rx, <<>>)
  <2>1. main.buf \in Seq(RxFrame) /\ <<>> \in Seq(RxFrame)
    BY DEF TypeInv, MainOK
  <2>2. LiveDescription \in Seq(RxFrame)
    BY <2>1 DEF LiveDescription
  <2> QED BY <2>1, <2>2 DEF TypeInv, MainOK, LineOK, OnLine
\* Where main is says what is awaited.
<1>1. /\ main.pc \notin {"desstatus", "description", "completed"} => Awaited = {}
      /\ main.pc \in {"desstatus", "description", "completed"} => Awaited = {DES}
      /\ main.pc \notin {"description", "completed"} => LiveDescription = <<>>
      /\ main.pc \in {"description", "completed"} => LiveDescription = main.buf
      /\ main'.pc \notin {"desstatus", "description", "completed"} => Awaited' = {}
      /\ main'.pc \in {"desstatus", "description", "completed"} => Awaited' = {DES}
      /\ main'.pc \notin {"description", "completed"} => LiveDescription' = <<>>
      /\ main'.pc \in {"description", "completed"} => LiveDescription' = main'.buf
  BY DEF Awaited, LiveDescription
\* A step between two places where nothing is awaited, which reads at most.
<1>2. ASSUME Awaited = {}, Awaited' = {}, LiveDescription' = <<>>, UNCHANGED <<air, out>>,
             rx' = rx \/ (rx # <<>> /\ rx' = Tail(rx)) \/ rx' = <<>>
      PROVE  Goal
  <2>1. Exchange({}, Addr', air, out, rx, <<>>)
    BY <1>2, ExchangeNone
  <2>2. Exchange({}, Addr', air, out, <<>>, <<>>)
    BY <2>1, ExchangeForgets
  <2>3. rx # <<>> => Exchange({}, Addr', air, out, Tail(rx), <<>>)
    BY <1>0, <2>1, ExchangeReads
  <2> QED BY <1>2, <2>1, <2>2, <2>3 DEF Goal
<1>3. ASSUME NEW pc \in MainPc, MainGoes(pc)
      PROVE  main'.pc = pc /\ main'.i = main.i /\ main'.buf = main.buf
  BY <1>3, MainFields, Zenon DEF MainGoes
<1>4. ASSUME NextDevice PROVE main'.pc = "syn"
  BY <1>4, NextFields
\* A command for the device whose turn it is.
<1>5. ASSUME NEW c \in {SYN, DES}, send_command_to_api_end_device(Addr, c), Addr \in Dev, Addr' = Addr,
             Awaited = {}, LiveDescription = <<>>, Awaited' = IF c = DES THEN {DES} ELSE {},
             LiveDescription' = <<>>, UNCHANGED <<out, rx>>
      PROVE  Goal
  <2>1. /\ c \in Sendable /\ IsAnswered(c) /\ SYN # DES
    BY SendableCommands DEF SYN, DES
  <2>2. \A e \in Dev : air'[e] = IF e = Addr THEN Append(air[Addr], c) ELSE air[e]
    BY <1>5, <2>1, SendType
  <2>3. \/ Awaited' = {c} /\ IsAnswered(c) /\ c # SYN
        \/ Awaited' = {} /\ (c = SYN \/ ~ IsAnswered(c))
    BY <1>5, <2>1
  <2>4. Exchange({}, Addr, air, out, rx, <<>>)
    BY <1>5
  <2>5. Exchange(Awaited', Addr, air', out, rx, <<>>)
    BY <1>0, <1>5, <2>1, <2>2, <2>3, <2>4, ExchangeSends
  <2> QED BY <1>5, <2>5 DEF Goal
<1>6. CASE SendDiscovery \/ DiscoveryTimeout \/ ReadDiscovery
  <2>1. /\ main.pc \in {"scan", "discover"} /\ UNCHANGED <<air, out>>
        /\ rx' = rx \/ (rx # <<>> /\ rx' = Tail(rx))
    BY <1>6 DEF SendDiscovery, DiscoveryTimeout, ReadDiscovery, FrameRead
  <2>2. main'.pc \in {"syn", "discover"}
    <3>1. ASSUME NEW n, AfterDiscovery(n) PROVE main'.pc \in {"syn", "discover"}
      BY <1>0, <3>1 DEF AfterDiscovery
    <3> QED BY <1>3, <1>6, <3>1 DEF SendDiscovery, DiscoveryTimeout, ReadDiscovery, MainPc
  <2> QED BY <1>1, <1>2, <2>1, <2>2
<1>7. CASE SendSyn
  <2>1. main.pc = "syn" /\ UNCHANGED <<out, rx, xbee_mac_addrs>>
    BY <1>7 DEF SendSyn
  <2>2. CASE MainGoes("done") /\ UNCHANGED air
    BY <1>1, <1>2, <1>3, <2>1, <2>2 DEF MainPc
  <2>3. CASE /\ send_command_to_api_end_device(Addr, SYN) /\ MainGoes("synstatus")
             /\ ~ (main.i > Len(xbee_mac_addrs))
    <3>1. main'.pc = "synstatus" /\ main'.i = main.i
      BY <1>3, <2>3 DEF MainPc
    <3>2. Addr \in Dev
      <4>1. main.i \in 1 .. Len(xbee_mac_addrs)
        BY <1>0, <2>3 DEF TypeInv, BrokerOK
      <4> QED BY <4>1, AddrType
    <3>3. Addr' = Addr
      BY <2>1, <3>1 DEF Addr
    <3>4. SYN # DES
      BY DEF SYN, DES
    <3> QED BY <1>1, <1>5, <2>1, <2>3, <3>1, <3>2, <3>3, <3>4
  <2> QED BY <1>7, <2>2, <2>3 DEF SendSyn
<1>8. CASE SynStatus \/ ReadAck
  <2>1. /\ main.pc \in {"synstatus", "ack"} /\ UNCHANGED <<air, out>>
        /\ rx' = rx \/ (rx # <<>> /\ rx' = Tail(rx))
    BY <1>8 DEF SynStatus, ReadAck, FrameRead
  <2>2. main'.pc \in {"ack", "ip", "syn"}
    BY <1>3, <1>4, <1>8 DEF SynStatus, ReadAck, MainPc
  <2> QED BY <1>1, <1>2, <2>1, <2>2
<1>9. CASE AskIp
  <2>1. PICK a : main.pc = "ip" /\ UNCHANGED <<air, out, rx>> /\ main' = [main EXCEPT !.pc = "des", !.ip = a]
    BY <1>9 DEF AskIp
  <2>2. main'.pc = "des"
    BY <1>0, <2>1
  <2> QED BY <1>1, <1>2, <2>1, <2>2
<1>10. CASE SendDes
  <2>1. /\ main.pc = "des" /\ UNCHANGED <<out, rx, xbee_mac_addrs>> /\ MainGoes("desstatus")
        /\ send_command_to_api_end_device(Addr, DES)
    BY <1>10 DEF SendDes
  <2>2. main'.pc = "desstatus" /\ main'.i = main.i
    BY <1>3, <2>1 DEF MainPc
  <2>3. Addr' = Addr /\ Addr \in Dev
    BY <2>1, <2>2, AddrType DEF Addr, TypeInv, MainOK, Addressed
  <2> QED BY <1>1, <1>5, <2>1, <2>2, <2>3
<1>11. CASE DesStatus
  <2>1. /\ main.pc = "desstatus" /\ UNCHANGED <<air, out, xbee_mac_addrs>>
        /\ rx' = rx \/ (rx # <<>> /\ rx' = Tail(rx))
        /\ main' = [main EXCEPT !.pc = "description", !.buf = <<>>]
    BY <1>11 DEF DesStatus, FrameRead, FreshBuffer
  <2>2. main'.pc = "description" /\ main'.i = main.i /\ main'.buf = <<>>
    BY <1>0, <2>1
  <2>3. Addr' = Addr
    BY <2>1, <2>2 DEF Addr
  <2>4. Exchange({DES}, Addr, air, out, rx, <<>>)
    BY <1>1, <2>1
  <2>5. rx # <<>> => Exchange({DES}, Addr, air, out, Tail(rx), <<>>)
    BY <1>0, <2>4, ExchangeReads
  <2> QED BY <1>1, <2>1, <2>2, <2>3, <2>4, <2>5 DEF Goal
<1>12. CASE MainCollects
  <2>1. PICK b : b = Collect(Head(rx), main.buf)
    OBVIOUS
  <2>2. /\ main.pc = "description" /\ UNCHANGED <<air, out, xbee_mac_addrs>> /\ rx # <<>> /\ rx' = Tail(rx)
        /\ main' = [main EXCEPT !.buf = b, !.pc = IF Completed(b) THEN "completed" ELSE "description"]
    BY <1>12, <2>1 DEF MainCollects, FrameRead
  <2>3. main'.pc \in {"description", "completed"} /\ main'.i = main.i /\ main'.buf = b
    BY <1>0, <2>2
  <2>4. Addr' = Addr
    BY <2>2, <2>3 DEF Addr
  <2>5. Exchange({DES}, Addr, air, out, rx, main.buf) /\ OnLine(air, out, rx, main.buf)
    BY <1>0, <1>1, <2>2
  <2>6. Exchange({DES}, Addr, air, out, Tail(rx), b)
    BY <2>1, <2>2, <2>5, ExchangeReads
  <2> QED BY <1>1, <2>2, <2>3, <2>4, <2>6 DEF Goal
<1>13. CASE MainTimeout
  <2>1. main.pc = "description" /\ TimedOut /\ MainGoes("timeout") /\ UNCHANGED <<air, out, rx>>
    BY <1>13 DEF MainTimeout
  <2>2. main'.pc = "timeout"
    BY <1>3, <2>1 DEF MainPc
  <2>3. Exchange({}, Addr', air, out, rx, <<>>)
    BY <2>1, NothingUnderWay, ExchangeNothing
  <2> QED BY <1>1, <2>1, <2>2, <2>3 DEF Goal
<1>14. CASE Register
  <2>1. /\ main.pc \in {"completed", "timeout"} /\ UNCHANGED <<air, out>> /\ rx' = <<>> /\ main'.pc = "syn"
    BY <1>4, <1>14 DEF Register, clear_XBee_api_recv_buff
  <2>2. CASE main.pc = "timeout"
    BY <1>1, <1>2, <2>1, <2>2
  <2>3. CASE main.pc = "completed"
    <3>1. Completed(main.buf) /\ LiveDescription = main.buf
      BY <1>1, <2>3 DEF TypeInv, MainOK
    <3>2. Exchange({}, Addr', air, out, rx, <<>>)
      BY <1>0, <3>1, ExchangeEnds
    <3>3. Exchange({}, Addr', air, out, <<>>, <<>>)
      BY <3>2, ExchangeForgets
    <3> QED BY <1>1, <2>1, <3>3 DEF Goal
  <2> QED BY <2>1, <2>2, <2>3
<1> QED BY <1>6, <1>7, <1>8, <1>9, <1>10, <1>11, <1>12, <1>13, <1>14 DEF Main

LEMMA DescribeStep == TypeInv /\ DescribeInv /\ [Next]_vars => DescribeInv'
<1> SUFFICES ASSUME TypeInv, DescribeInv, [Next]_vars, ~ Late', asked' = <<>>
             PROVE  Exchange(Awaited', Addr', air', out', rx', LiveDescription')
  BY DEF DescribeInv
<1> USE DEF scanner, onAir, radio, manager, history
<1>1. asked = <<>> /\ ~ Listener /\ ~ Late
  BY NoPackage, StillGiven DEF Late
<1>2. Exchange(Awaited, Addr, air, out, rx, LiveDescription)
  BY <1>1 DEF DescribeInv
<1>3. CASE Main
  BY <1>1, <1>2, <1>3, DescribeMain
<1>4. CASE Environment
  <2>1. UNCHANGED <<main, xbee_mac_addrs>>
    BY <1>4 DEF Environment, ManagerCalls, TxStatus, Discovered, DiscoveredNobody, DeviceHears, RadioDelivers
  <2>2. Awaited' = Awaited /\ Addr' = Addr /\ LiveDescription' = LiveDescription
    BY <2>1 DEF Awaited, Addr, LiveDescription
  <2>3. LiveDescription \in Seq(RxFrame)
    BY DEF LiveDescription, TypeInv, MainOK
  <2>4. Exchange(Awaited, Addr, air', out', rx', LiveDescription)
    BY <1>2, <1>4, <2>3, ExchangeEnvironment
  <2> QED BY <2>2, <2>4
<1>5. CASE UNCHANGED vars
  BY <1>2, <1>5 DEF vars, Awaited, Addr, LiveDescription
<1> QED BY <1>1, <1>3, <1>4, <1>5 DEF Next

----------------------------------------------------------------------------
\* What is registered is reachable.

LEMMA ReachInit == ASSUME Cardinality(Dev) <= MAXDEVICECOUNT, Init PROVE RegisteredIsReachable
<1>1. CASE InitScanning
  BY <1>1 DEF InitScanning, RegisteredIsReachable
<1>2. CASE InitServing
  <2>1. PICK order \in [0 .. Cardinality(Dev) - 1 -> Dev] :
          /\ xbee_api_devices = [k \in Slot |->
                IF k \in DOMAIN order THEN [addr |-> order[k], ip |-> k] ELSE NULL]
          /\ registered = {<<k, order[k]>> : k \in DOMAIN order}
    BY <1>2 DEF InitServing
  <2>2. ASSUME NEW k \in DOMAIN order
        PROVE  /\ k \in Slot /\ xbee_api_devices[k] # NULL
               /\ xbee_api_devices[k].ip = k /\ xbee_api_devices[k].addr = order[k]
    <3>1. k \in Slot /\ k \in Nat /\ order[k] \in Dev
      BY CardinalityOfDev, LimitsAssumption DEF Slot
    <3>2. xbee_api_devices[k] = [addr |-> order[k], ip |-> k]
      BY <2>1, <3>1
    <3>3. [addr |-> order[k], ip |-> k] \in Entry
      BY <3>1 DEF Entry
    <3> QED BY <3>1, <3>2, <3>3, EntryIsEntry
  <2>3. ASSUME NEW r \in registered
        PROVE  \E k \in Slot : /\ xbee_api_devices[k] # NULL /\ xbee_api_devices[k].ip = r[1]
                               /\ xbee_api_devices[k].addr = r[2]
    <3>1. PICK k \in DOMAIN order : r = <<k, order[k]>>
      BY <2>1
    <3>2. r[1] = k /\ r[2] = order[k]
      BY <3>1
    <3> QED BY <2>2, <3>2
  <2> QED BY <2>3 DEF RegisteredIsReachable
<1> QED BY <1>1, <1>2 DEF Init

\* A description that is complete and right is that of the device whose turn it is.
LEMMA OwnDescription ==
    ASSUME TypeInv, DescribeInv, ~ Late, asked = <<>>, main.pc = "completed", check_sum(main.buf)
    PROVE  Head(main.buf).from = Addr
<1>1. Fits(main.buf, {DES}, Addr)
  BY DEF DescribeInv, Awaited, LiveDescription, Exchange
<1>2. /\ main.buf \in Seq(RxFrame) /\ main.buf # <<>>
  BY DEF TypeInv, MainOK, Completed
<1>3. 1 \in 1 .. Len(main.buf) /\ Head(main.buf) = main.buf[1] /\ main.buf[1] \in RxFrame
  BY <1>2
<1>4. Fitting(main.buf[1], {DES}, Addr) /\ main.buf[1].cmd = DES /\ main.buf[1].api = "ZB_RX_RESPONSE"
  BY <1>1, <1>3, RxFrames DEF Fits, check_sum
<1> QED BY <1>3, <1>4 DEF Fitting, SYN, DES

LEMMA ReachStep ==
    ASSUME Cardinality(Dev) <= MAXDEVICECOUNT, TypeInv, ScanInv, [Next]_vars
    PROVE  TableInv' /\ RegisteredIsReachable'
<1> USE DEF scanner, onAir, radio, manager, history
<1>1. TableInv /\ DiscoveryInv /\ DescribeInv /\ RegisteredIsReachable /\ registered \subseteq Nat \X Dev
  BY DEF ScanInv, TypeInv, MainOK
<1>2. ~ Late' /\ asked' = <<>> => ~ Late /\ asked = <<>>
  BY NoPackage, StillGiven DEF Late
<1>3. CASE Main
  <2>1. TableInv' /\ \A k \in Used : xbee_api_devices[k].ip # NULL =>
                         k \in Used' /\ xbee_api_devices'[k] = xbee_api_devices[k]
    BY <1>1, <1>3, TableMain
  <2>2. ASSUME NEW r \in registered
        PROVE  \E k \in Slot : /\ xbee_api_devices'[k] # NULL /\ xbee_api_devices'[k].ip = r[1]
                               /\ ~ Late' /\ asked' = <<>> => xbee_api_devices'[k].addr = r[2]
    <3>1. PICK k \in Slot : /\ xbee_api_devices[k] # NULL /\ xbee_api_devices[k].ip = r[1]
                            /\ ~ Late /\ asked = <<>> => xbee_api_devices[k].addr = r[2]
      BY <1>1 DEF RegisteredIsReachable
    <3>2. k \in Used /\ r[1] # NULL
      BY <1>1, <3>1, NullAssumption DEF Used
    <3>3. k \in Used' /\ xbee_api_devices'[k] = xbee_api_devices[k]
      BY <2>1, <3>1, <3>2
    <3> QED BY <1>2, <3>1, <3>3 DEF Used
  <2>3. \/ registered' = registered
        \/ /\ main.pc = "completed" /\ check_sum(main.buf)
           /\ registered' = registered \cup {<<main.ip, Head(main.buf).from>>}
           /\ UNCHANGED xbee_api_devices
    BY <1>3 DEF Main, SendDiscovery, ReadDiscovery, DiscoveryTimeout, SendSyn, SynStatus, ReadAck, AskIp,
       SendDes, DesStatus, MainCollects, MainTimeout, Register, Readable
  <2>4. ASSUME main.pc = "completed", check_sum(main.buf), UNCHANGED xbee_api_devices
        PROVE  \E k \in Slot : /\ xbee_api_devices'[k] # NULL /\ xbee_api_devices'[k].ip = main.ip
                               /\ ~ Late' /\ asked' = <<>> => xbee_api_devices'[k].addr = Head(main.buf).from
    <3>1. PICK k \in Used : xbee_api_devices[k].addr = Addr /\ xbee_api_devices[k].ip = main.ip
      BY <1>1, <2>4 DEF TableInv, Addressed
    <3>2. ~ Late /\ asked = <<>> => Head(main.buf).from = Addr
      BY <1>1, <2>4, OwnDescription
    <3> QED BY <1>2, <2>4, <3>1, <3>2 DEF Used
  <2>5. RegisteredIsReachable'
    <3>1. ASSUME NEW r \in registered'
          PROVE  \E k \in Slot : /\ xbee_api_devices'[k] # NULL /\ xbee_api_devices'[k].ip = r[1]
                                 /\ ~ Late' /\ asked' = <<>> => xbee_api_devices'[k].addr = r[2]
      <4>1. CASE r \in registered
        BY <2>2, <4>1
      <4>2. CASE r \notin registered
        <5>1. /\ main.pc = "completed" /\ check_sum(main.buf) /\ UNCHANGED xbee_api_devices
              /\ r = <<main.ip, Head(main.buf).from>>
          BY <2>3, <4>2
        <5>2. r[1] = main.ip /\ r[2] = Head(main.buf).from
          BY <5>1
        <5> QED BY <2>4, <5>1, <5>2
      <4> QED BY <4>1, <4>2
    <3> QED BY <3>1 DEF RegisteredIsReachable
  <2> QED BY <2>1, <2>5
<1>4. CASE ~ Main
  <2>1. UNCHANGED <<scanner, registered>>
    BY <1>4 DEF Next, Listener, Environment, vars,
       UnknownDevice, ForwardCommand, ListenerStatus, ListenerCollects, ListenerTimeout, ListenerAnswers,
       ManagerCalls, TxStatus, Discovered, DiscoveredNobody, DeviceHears, RadioDelivers
  <2>2. TableInv'
    BY <1>1, <2>1 DEF TableInv, Used, Beyond, Addr
  <2>3. RegisteredIsReachable'
    BY <1>1, <1>2, <2>1 DEF RegisteredIsReachable
  <2> QED BY <2>2, <2>3
<1> QED BY <1>3, <1>4

\* What the manager will forward by is what the broker will look up, whatever is
\* lost, late or mixed up between the two threads, as long as the table holds all
\* the devices there are (XBee_api_dev_register).
THEOREM Reachable ==
    ASSUME Cardinality(Dev) <= MAXDEVICECOUNT
    PROVE  Spec => []RegisteredIsReachable
<1> DEFINE Inv == TypeInv /\ ScanInv
<1>1. Init => Inv
  BY TypeInit, DiscoveryInit, TableInit, DescribeInit, ReachInit DEF ScanInv
<1>2. Inv /\ [Next]_vars => Inv'
  <2> SUFFICES ASSUME TypeInv, ScanInv, [Next]_vars PROVE TypeInv' /\ ScanInv'
    OBVIOUS
  <2>1. DiscoveryInv'
    <3>1. CASE Next
      BY <3>1, DiscoveryStep DEF ScanInv
    <3>2. CASE UNCHANGED vars
      BY <3>2 DEF vars, scanner, radio, onAir, ScanInv, DiscoveryInv
    <3> QED BY <3>1, <3>2
  <2> QED BY <2>1, TypeStep, DescribeStep, ReachStep DEF ScanInv
<1>3. Inv => RegisteredIsReachable
  BY DEF ScanInv
<1> QED BY <1>1, <1>2, <1>3, PTL DEF Spec
=============================================================================
