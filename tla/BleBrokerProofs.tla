--------------------------- MODULE BleBrokerProofs ---------------------------
(***************************************************************************)
(* Proofs about the broker for Bluetooth devices, for any number of        *)
(* devices, packages and faults.  TypeInv are the types, HungInv says that *)
(* after an "AT" there is no connection or none for long.  LineInv is what *)
(* the answers rest on: when a thread dials, nothing is left of what was   *)
(* done before, so all that comes until it hangs up is of the device it    *)
(* dialed and answers what it said.  This takes a modem that reads what it *)
(* is sent while clear_recv_buff waits (Prompt); the radio, the devices    *)
(* and their answers may be as late as they like.  ScanInv adds, for the   *)
(* scan, that a device is found once and, from its address on, has the     *)
(* entry of the table that its description is registered for.              *)
(***************************************************************************)
EXTENDS BleBroker, FiniteSetTheorems, TLAPS

----------------------------------------------------------------------------
\* Types.
Condition == [scan : BOOLEAN, calls : Nat]
Entry == [addr : Dev, ip : Nat \cup {NULL}]

PhasesOf(t) ==
    IF t = "listener" THEN {"recv", "send", "answer", "completed", "timeout", "close"}
    ELSE {"scan", "list", "next", "syn", "ack", "register", "send", "answer", "completed", "timeout",
          "registered", "retry", "done"}
\* The phases in which a thread is about a device.
Meant == {"syn", "ack", "register", "send", "answer", "completed", "timeout", "registered", "retry"}
\* The places in conn_ble_device, and after the first "AT" of disconn_ble_device.
Dialing == {"dial", "conna", "conn"}
Hanging == {"hang up", "lost", "clear again", "drain again"}
Clearing == {"clear", "drain"}

StateOK(t, u) ==
    /\ u \in ThreadState /\ u.phase \in PhasesOf(t)
    /\ u.pc \in Dialing => u.phase \in {"syn", "send"}
    /\ u.pc \in Hanging => u.phase \in {"close", "next", "register", "registered", "retry"}
    /\ u.pc \in Clearing => u.phase \in {"scan", "syn", "send", "close", "next", "register", "registered", "retry"}
    /\ u.phase \in Meant => u.dev \in Dev
    /\ u.phase = "completed" => u.buf # <<>> /\ Completed(u.buf)

BrokerOK ==
    /\ given \in Condition
    /\ ble_devices \in [Slot -> Entry \cup {NULL}]
    /\ found \in Seq(Dev) /\ i \in 1 .. Len(found) + 1 /\ ip \in Nat \cup {NULL}
ThreadsOK ==
    /\ thread \in [Thread -> ThreadState]
    /\ \A t \in Thread : StateOK(t, thread[t])
    /\ thread["main"].phase \in Meant => i <= Len(found)
LineOK ==
    /\ tx \in Seq(Order \cup Data) /\ rx \in Seq(Unit)
    /\ air \in Seq(Data) /\ out \in Seq(Answer)
    /\ dialing \in Dev \cup {NULL} /\ linked \in Dev \cup {NULL}
    /\ dialing # NULL => linked = NULL
    /\ linked = NULL => air = <<>> /\ out = <<>>
ManagerOK ==
    /\ calls \in Seq(Nat) /\ ip_count \in Nat
    /\ asked \in Seq(Dev \cup {NULL}) /\ open \in Nat

TypeInv == BrokerOK /\ ThreadsOK /\ LineOK /\ ManagerOK

----------------------------------------------------------------------------
\* The connection.

\* The modem is not connected, or there is an "AT" last in what it is to read.
Gone == \/ tx = <<>> /\ dialing = NULL /\ linked = NULL
        \/ tx # <<>> /\ tx[Len(tx)].op = "AT"
Clean == tx = <<>> /\ rx = <<>> /\ dialing = NULL /\ linked = NULL /\ air = <<>> /\ out = <<>>

HungInv(t) ==
    /\ thread[t].pc \in {"drain"} \cup Hanging => Gone
    /\ thread[t].phase \in {"recv", "close"} /\ thread[t].pc = "idle" => Gone

IsAnswer(u) == u.unit = "answer"
NoAnswer(q) == \A k \in 1 .. Len(q) : ~ IsAnswer(q[k])

\* The modem hears of device d only, and has command c for it once at most.
OnlyFor(d, c) ==
    /\ dialing \in {NULL, d} /\ linked \in {NULL, d}
    /\ \A k \in 1 .. Len(tx) : /\ tx[k].dev = d /\ tx[k].op \in {"AT+CON", "data"}
                               /\ tx[k].op = "data" => k = Len(tx) /\ tx[k].cmd = c
    /\ Len(air) <= 1 /\ \A k \in 1 .. Len(air) : air[k].cmd = c
InTx == tx # <<>> /\ tx[Len(tx)].op = "data"

\* Nothing was said to device d yet.
Mute(d, c) == OnlyFor(d, c) /\ ~ InTx /\ air = <<>> /\ out = <<>> /\ NoAnswer(rx)

\* Command c was said to d.  w is what came since: at most the answer to c,
\* in one unit, or in two of which the second follows the first at once.
Units(w, d, c) ==
    /\ \A k \in 1 .. Len(w) : IsAnswer(w[k]) =>
          w[k].from = d /\ w[k].cmd = c /\ w[k].part \in {"all", "first", "last"}
    /\ \A j, k \in 1 .. Len(w) : IsAnswer(w[j]) /\ HasStart(w[k]) =>
          j = k \/ (j = k + 1 /\ w[j].part = "last")
ToCome(w, o, d, c) ==
    /\ \A k \in 1 .. Len(o) : o[k].from = d /\ o[k].cmd = c
    /\ \/ o = <<>>
       \/ Len(o) = 1 /\ o[1].part = "all" /\ NoAnswer(w)
       \/ Len(o) = 2 /\ o[1].part = "first" /\ o[2].part = "last" /\ NoAnswer(w)
       \/ /\ Len(o) = 1 /\ o[1].part = "last"
          /\ \A k \in 1 .. Len(w) : IsAnswer(w[k]) => k = Len(w) /\ w[k].part = "first"
Exchange(b, d, c) ==
    LET w == b \o rx IN
    /\ OnlyFor(d, c) /\ Units(w, d, c) /\ ToCome(w, out, d, c)
    /\ InTx => air = <<>>
    /\ InTx \/ air # <<>> => out = <<>> /\ NoAnswer(w)

\* All of an answer.
Whole(b, d, c) == \A k \in 1 .. Len(b) : IsAnswer(b[k]) /\ b[k].from = d /\ b[k].cmd = c

CommandOf(t) == IF t = "listener" THEN Call(open) ELSE DES
TalkInv(u, c) ==
    /\ u.phase = "send" /\ u.pc \in {"conna", "conn", "idle"} => Mute(u.dev, c)
    /\ u.phase = "answer" => Exchange(u.buf, u.dev, c)
    /\ u.phase = "completed" => Whole(u.buf, u.dev, c)
LineInv(t) ==
    /\ HungInv(t)
    /\ thread[t].pc = "dial" => Clean
    /\ \A u \in {thread[t]}, c \in {CommandOf(t)} : TalkInv(u, c)

----------------------------------------------------------------------------
\* The listener, while no scan runs.
ServedOK ==
    /\ thread["main"].phase = "done" /\ thread["main"].pc = "idle"
    /\ open = 0 <=> thread["listener"].phase \in {"recv", "close"}
    /\ open # 0 => open = Len(asked) /\ asked[open] = thread["listener"].dev
ServeInv == ServedOK /\ LineInv("listener")

\* The scan, while no package comes.
ListenerWaits ==
    /\ thread["listener"].phase = "recv" /\ thread["listener"].pc = "idle"
    /\ calls = <<>> /\ given.calls = 0
IsListed(u) == u.unit = "DIS0:"
\* What is found is found once: q is the line, f what was read of the list.
Listing(q, f) ==
    /\ \A j, k \in 1 .. Len(f) : f[j] = f[k] => j = k
    /\ \A j \in 1 .. Len(q) : IsListed(q[j]) =>
          /\ \A k \in 1 .. Len(f) : f[k] # q[j].dev
          /\ \A k \in 1 .. Len(q) : IsListed(q[k]) /\ q[j].dev = q[k].dev => j = k
Silent == dialing = NULL /\ linked = NULL
FoundInv ==
    LET u == thread["main"] IN
    /\ \A j, k \in 1 .. Len(found) : found[j] = found[k] => j = k
    /\ u.phase \in {"scan", "list"} => i = 1
    /\ u.phase = "scan" => found = <<>> /\ (u.pc = "idle" => Clean)
    /\ u.phase = "list" =>
          /\ Silent
          /\ \/ Len(tx) = 1 /\ tx[1].op = "AT+DISC?" /\ rx = <<>> /\ found = <<>>
             \/ tx = <<>> /\ Listing(rx, found)

Entered == {"send", "answer", "completed", "timeout", "registered", "retry"}
TableInv ==
    LET u == thread["main"] IN
    /\ \A j, k \in Slot : ble_devices[j] # NULL /\ ble_devices[k] # NULL
                             /\ ble_devices[j].addr = ble_devices[k].addr => j = k
    /\ u.phase \in Meant => u.dev = found[i]
    /\ u.phase \in Entered => \E k \in Slot :
          ble_devices[k] # NULL /\ ble_devices[k].ip = ip /\ ble_devices[k].addr = u.dev
    /\ u.phase = "registered" => u.buf # <<>> /\ u.buf[1].from = u.dev
    /\ \A r \in registered :
          /\ \E j \in 1 .. Len(found) : j < i /\ r[2] = found[j]
          /\ \E k \in Slot : /\ ble_devices[k] # NULL
                             /\ ble_devices[k].ip = r[1] /\ ble_devices[k].addr = r[2]
ScanInv == ListenerWaits /\ LineInv("main") /\ FoundInv /\ TableInv

\* The modem has read all it was sent when clear_recv_buff ends.
Prompt == \A t \in Thread : Drain(t) => tx = <<>>

----------------------------------------------------------------------------
\* Sequences, and what is on the line.

LEMMA Shorter ==
    ASSUME NEW S, NEW q \in Seq(S), q # <<>>
    PROVE  /\ Tail(q) \in Seq(S) /\ Head(q) \in S /\ Head(q) = q[1] /\ 1 \in 1 .. Len(q)
           /\ Len(q) \in Nat \ {0} /\ Len(Tail(q)) = Len(q) - 1
           /\ \A k \in 1 .. Len(Tail(q)) : k + 1 \in 1 .. Len(q) /\ Tail(q)[k] = q[k + 1]
OBVIOUS

LEMMA Longer ==
    ASSUME NEW S, NEW q \in Seq(S), NEW e \in S
    PROVE  /\ Append(q, e) \in Seq(S) /\ Len(q) \in Nat /\ Len(Append(q, e)) = Len(q) + 1
           /\ \A k \in 1 .. Len(q) : Append(q, e)[k] = q[k]
           /\ Append(q, e)[Len(q) + 1] = e /\ Append(q, e) # <<>>
OBVIOUS

LEMMA Joined ==
    ASSUME NEW S, NEW p \in Seq(S), NEW q \in Seq(S)
    PROVE  /\ p \o q \in Seq(S) /\ Len(p) \in Nat /\ Len(q) \in Nat /\ Len(p \o q) = Len(p) + Len(q)
           /\ \A k \in 1 .. Len(p) : (p \o q)[k] = p[k]
           /\ \A k \in 1 .. Len(p) + Len(q) : k > Len(p) => (p \o q)[k] = q[k - Len(p)]
OBVIOUS

\* Reading the next unit moves it, a new one comes to the end.
LEMMA Moves ==
    ASSUME NEW S, NEW b \in Seq(S), NEW q \in Seq(S)
    PROVE  /\ q # <<>> => Append(b, Head(q)) \o Tail(q) = b \o q
           /\ \A e \in S : b \o Append(q, e) = Append(b \o q, e)
           /\ <<>> \o q = q
<1>1. ASSUME q # <<>> PROVE Append(b, Head(q)) \o Tail(q) = b \o q
  <2>1. Append(b, Head(q)) \in Seq(S) /\ Tail(q) \in Seq(S) /\ b \o q \in Seq(S)
    BY <1>1
  <2> DEFINE l == Append(b, Head(q)) \o Tail(q)
  <2>2. l \in Seq(S) /\ Len(l) = Len(b) + Len(q) /\ Len(b \o q) = Len(b) + Len(q)
    BY <1>1, <2>1
  <2>3. ASSUME NEW k \in 1 .. Len(b) + Len(q) PROVE l[k] = (b \o q)[k]
    <3>1. CASE k <= Len(b)
      BY <1>1, <2>1, <3>1
    <3>2. CASE k = Len(b) + 1
      BY <1>1, <2>1, <3>2
    <3>3. CASE k > Len(b) + 1
      <4>1. /\ l[k] = Tail(q)[k - (Len(b) + 1)] /\ (b \o q)[k] = q[k - Len(b)]
            /\ k - (Len(b) + 1) \in 1 .. Len(Tail(q))
        BY <1>1, <2>1, <3>3
      <4> QED BY <1>1, <4>1
    <3>4. Len(b) \in Nat /\ Len(q) \in Nat
      OBVIOUS
    <3> HIDE DEF l
    <3> QED BY <3>1, <3>2, <3>3, <3>4
  <2> DEFINE m == b \o q
  <2>4. m \in Seq(S) /\ Len(l) = Len(m) /\ \A k \in 1 .. Len(m) : l[k] = m[k]
    BY <2>1, <2>2, <2>3
  <2> HIDE DEF l, m
  <2>5. l = m
    BY <2>2, <2>4
  <2> QED BY <2>5 DEF l, m
<1>2. ASSUME NEW e \in S PROVE b \o Append(q, e) = Append(b \o q, e)
  OBVIOUS
<1>3. <<>> \o q = q
  OBVIOUS
<1> QED BY <1>1, <1>2, <1>3

LEMMA UnitKinds ==
    /\ \A u \in Unit : /\ u.unit = "answer" <=> u \in Answer
                       /\ u.unit = "DIS0:" => u.dev \in Dev
    /\ \A u \in Answer : /\ u \in Unit /\ u.unit = "answer" /\ u.from \in Dev /\ u.cmd \in Command
                         /\ u.part \in {"all", "first", "last", "none"}
    /\ Reply \subseteq Unit /\ Listed \subseteq Unit /\ Rest \subseteq Unit
BY DEF Unit, Reply, Listed, Answer, Rest

LEMMA RestType == \A u : RestOf(u) \in Seq(Unit) /\ NoAnswer(RestOf(u))
<1>1. [unit |-> "rest"] \in Unit
  BY DEF Unit, Rest
<1> QED BY <1>1 DEF RestOf, NoAnswer, IsAnswer

\* A set of slots has a least element.
LEMMA FirstIn ==
    ASSUME NEW S \in SUBSET Slot, S # {}
    PROVE  First(S) \in S
<1> DEFINE Less == {p \in Nat \X Nat : p[1] < p[2]}
<1>1. OpToRel(<, Nat) = Less
  BY Zenon DEF OpToRel
<1>2. S \subseteq Nat
  BY LimitsAssumption DEF Slot
<1>3. \E k \in S : \A j \in S : ~ (<<j, k>> \in Less)
  <2> HIDE DEF Less
  <2> QED BY <1>1, <1>2, NatLessThanWellFounded, WFMin, Zenon
<1>4. \E k \in S : \A j \in S : k <= j
  <2>1. \A j, k \in Nat : j < k => <<j, k>> \in Less
    OBVIOUS
  <2> HIDE DEF Less
  <2>2. PICK k \in S : \A j \in S : ~ (<<j, k>> \in Less)
    BY <1>3
  <2>3. \A j \in S : ~ (j < k)
    BY <1>2, <2>1, <2>2
  <2> QED BY <1>2, <2>2, <2>3
<1> QED BY <1>4 DEF First

----------------------------------------------------------------------------
\* TypeInv.

LEMMA Went ==
    ASSUME TypeInv, NEW t \in Thread, NEW u \in ThreadState, Goes(t, u)
    PROVE  /\ thread' \in [Thread -> ThreadState] /\ thread'[t] = u
           /\ \A b \in Thread : b # t => thread'[b] = thread[b]
           /\ me(t) \in ThreadState
BY DEF Goes, TypeInv, ThreadsOK, me

LEMMA WentOK ==
    ASSUME TypeInv, NEW t \in Thread, NEW u, StateOK(t, u), Goes(t, u),
           i' \in Nat, Len(found') \in Nat,
           t = "main" => (u.phase \in Meant => i' <= Len(found')),
           t = "listener" => UNCHANGED <<i, found>>
    PROVE  ThreadsOK'
<1>1. u \in ThreadState
  BY DEF StateOK
<1>2. /\ thread' \in [Thread -> ThreadState] /\ thread'[t] = u
      /\ \A b \in Thread : b # t => thread'[b] = thread[b]
  BY <1>1, Went
<1>3. \A b \in Thread : StateOK(b, thread[b])
  BY DEF TypeInv, ThreadsOK
<1>4. \A b \in Thread : StateOK(b, thread'[b])
  BY <1>2, <1>3
<1>5. "main" \in Thread /\ "listener" \in Thread /\ (t = "main" \/ t = "listener")
  BY DEF Thread
<1>6. thread'["main"].phase \in Meant => i' <= Len(found')
  <2>1. CASE t = "main"
    BY <1>2, <2>1
  <2>2. CASE t = "listener"
    <3>1. thread'["main"] = thread["main"]
      BY <1>2, <1>5, <2>2
    <3> QED BY <2>2, <3>1 DEF TypeInv, ThreadsOK
  <2> QED BY <1>5, <2>1, <2>2
<1> QED BY <1>2, <1>4, <1>6 DEF ThreadsOK

\* Changes of single fields.
LEMMA Fields ==
    ASSUME NEW u \in ThreadState
    PROVE  /\ u.dev \in Dev \cup {NULL} /\ u.ok \in BOOLEAN
           /\ u.tries \in 0 .. max_try_times /\ u.buf \in Seq(Unit)
           /\ \A p \in {"idle", "clear", "drain", "dial", "conna", "conn", "hang up", "lost",
                        "clear again", "drain again"} :
                LET v == [u EXCEPT !.pc = p] IN
                /\ v \in ThreadState /\ v.phase = u.phase /\ v.pc = p /\ v.dev = u.dev
                /\ v.ok = u.ok /\ v.buf = u.buf /\ v.tries = u.tries
BY DEF ThreadState

\* What a thread's own operations on the modem leave alone, and how it goes on.
LEMMA StepKeeps ==
    ASSUME NEW t \in Thread, Step(t)
    PROVE  UNCHANGED <<ble_devices, found, i, ip, link, manager, history>>
BY DEF Step, Clear, Drain, Dial, ReadConn, HangUp, ReadLost, Collect

LEMMA ThreadIsOK ==
    ASSUME TypeInv, NEW t \in Thread
    PROVE  /\ me(t) \in ThreadState /\ StateOK(t, me(t))
           /\ me(t).buf \in Seq(Unit) /\ me(t).dev \in Dev \cup {NULL}
           /\ me(t).tries \in 0 .. max_try_times
BY Fields DEF TypeInv, ThreadsOK, me

LEMMA OrderType ==
    ASSUME TypeInv
    PROVE  \A op \in {"AT", "AT+CON", "AT+DISC?"}, d \in Dev \cup {NULL} :
               LET x == [op |-> op, dev |-> d] IN
               x \in Order /\ x.op = op /\ x.dev = d /\ Append(tx, x) \in Seq(Order \cup Data)
<1> SUFFICES ASSUME NEW op \in {"AT", "AT+CON", "AT+DISC?"}, NEW d \in Dev \cup {NULL}
             PROVE  LET x == [op |-> op, dev |-> d] IN
                    x \in Order /\ x.op = op /\ x.dev = d /\ Append(tx, x) \in Seq(Order \cup Data)
  OBVIOUS
<1>1. [op |-> op, dev |-> d] \in Order
  BY DEF Order
<1>2. tx \in Seq(Order \cup Data)
  BY DEF TypeInv, LineOK
<1> QED BY <1>1, <1>2, Longer

LEMMA DataType ==
    ASSUME TypeInv
    PROVE  \A d \in Dev, c \in Command :
               LET x == [op |-> "data", dev |-> d, cmd |-> c] IN
               x \in Data /\ Append(tx, x) \in Seq(Order \cup Data)
<1> SUFFICES ASSUME NEW d \in Dev, NEW c \in Command
             PROVE  LET x == [op |-> "data", dev |-> d, cmd |-> c] IN
                    x \in Data /\ Append(tx, x) \in Seq(Order \cup Data)
  OBVIOUS
<1>1. [op |-> "data", dev |-> d, cmd |-> c] \in Data
  BY DEF Data
<1>2. tx \in Seq(Order \cup Data)
  BY DEF TypeInv, LineOK
<1> QED BY <1>1, <1>2, Longer

\* Only its place in the procedure changes.
LEMMA PcOK ==
    ASSUME NEW t \in Thread, NEW u, StateOK(t, u),
           NEW p \in {"idle", "clear", "drain", "dial", "conna", "conn", "hang up", "lost",
                      "clear again", "drain again"},
           p \in Dialing => u.phase \in {"syn", "send"},
           p \in Hanging => u.phase \in {"close", "next", "register", "registered", "retry"},
           p \in Clearing => u.phase \in {"scan", "syn", "send", "close", "next", "register",
                                         "registered", "retry"}
    PROVE  StateOK(t, [u EXCEPT !.pc = p]) /\ [u EXCEPT !.pc = p].phase = u.phase
<1>1. u \in ThreadState
  BY DEF StateOK
<1> DEFINE v == [u EXCEPT !.pc = p]
<1>2. /\ v \in ThreadState /\ v.phase = u.phase /\ v.pc = p /\ v.dev = u.dev /\ v.buf = u.buf
  BY <1>1 DEF ThreadState
<1> HIDE DEF v
<1>3. StateOK(t, v)
  BY <1>2 DEF StateOK
<1> QED BY <1>2, <1>3 DEF v

LEMMA StepGoes ==
    ASSUME TypeInv, NEW t \in Thread, Step(t)
    PROVE  \E u : /\ Goes(t, u) /\ StateOK(t, u)
                  /\ u.phase = me(t).phase \/ me(t).phase = "answer"
<1> DEFINE s == me(t)
<1>1. s \in ThreadState /\ StateOK(t, s) /\ s.buf \in Seq(Unit)
  BY ThreadIsOK
<1> DEFINE Goal == \E u : Goes(t, u) /\ StateOK(t, u) /\ (u.phase = s.phase \/ s.phase = "answer")
<1>2. ASSUME NEW p, Goes(t, [s EXCEPT !.pc = p]), StateOK(t, [s EXCEPT !.pc = p]),
             [s EXCEPT !.pc = p].phase = s.phase
      PROVE  Goal
  BY <1>2
<1> SUFFICES Goal
  OBVIOUS
<1> HIDE DEF Goal
<1>3. CASE Clear(t)
  <2>1. PICK p : p = (IF s.pc = "clear" THEN "drain" ELSE "drain again") /\ Goes(t, [s EXCEPT !.pc = p])
                 /\ s.pc \in {"clear", "clear again"}
    BY <1>3 DEF Clear, AtPc, ToPc
  <2>2. StateOK(t, [s EXCEPT !.pc = p]) /\ [s EXCEPT !.pc = p].phase = s.phase
    <3>1. s.pc = "clear" => p = "drain" /\ s.phase \in {"scan", "syn", "send", "close", "next", "register",
                                         "registered", "retry"}
      BY <1>1, <2>1 DEF StateOK, Clearing
    <3>2. s.pc = "clear again" => p = "drain again" /\ s.phase \in {"close", "next", "register", "registered", "retry"}
      BY <1>1, <2>1 DEF StateOK, Hanging
    <3> HIDE DEF s
    <3> QED BY <1>1, <2>1, <3>1, <3>2, PcOK DEF Dialing, Hanging, Clearing
  <2> QED BY <1>2, <2>1, <2>2
<1>4. CASE Drain(t)
  <2>1. s.pc \in {"drain", "drain again"}
    BY <1>4 DEF Drain, AtPc
  <2>2. CASE s.pc = "drain"
    <3>1. PICK p : p = (IF Dials(t) THEN "dial" ELSE IF s.phase = "scan" THEN "idle" ELSE "hang up")
                   /\ Goes(t, [s EXCEPT !.pc = p])
      BY <1>4, <2>2 DEF Drain, AtPc, ToPc
    <3>2. StateOK(t, [s EXCEPT !.pc = p]) /\ [s EXCEPT !.pc = p].phase = s.phase
      <4>1. s.phase \in {"scan", "syn", "send", "close", "next", "register",
                                         "registered", "retry"}
        BY <1>1, <2>2 DEF StateOK, Clearing
      <4>2. Dials(t) <=> s.phase \in {"syn", "send"}
        BY DEF Dials
      <4>3. p = "hang up" => s.phase \in {"close", "next", "register", "registered", "retry"}
        BY <1>1, <2>2, <3>1, <4>1, <4>2 DEF StateOK, PhasesOf
      <4> HIDE DEF s
      <4> QED BY <1>1, <3>1, <4>1, <4>2, <4>3, PcOK DEF Dialing, Hanging, Clearing
    <3> QED BY <1>2, <3>1, <3>2
  <2>3. CASE s.pc = "drain again"
    <3>1. s.phase \in {"close", "next", "register", "registered", "retry"}
      BY <1>1, <2>3 DEF StateOK, Hanging
    <3>2. CASE LastTry(t)
      <4>1. Goes(t, [s EXCEPT !.pc = "idle"])
        BY <1>4, <2>3, <3>2 DEF Drain, AtPc, ToPc
      <4>2. StateOK(t, [s EXCEPT !.pc = "idle"]) /\ [s EXCEPT !.pc = "idle"].phase = s.phase
        <5> HIDE DEF s
        <5> QED BY <1>1, PcOK DEF Dialing, Hanging, Clearing
      <4> QED BY <1>2, <4>1, <4>2
    <3>3. CASE ~ LastTry(t)
      <4>1. PICK u : u = [s EXCEPT !.pc = "clear", !.tries = s.tries + 1] /\ Goes(t, u)
        BY <1>4, <2>3, <3>3 DEF Drain, AtPc
      <4>2. s.tries \in 0 .. max_try_times /\ s.tries # max_try_times
        BY <3>3, ThreadIsOK DEF LastTry
      <4>3. s.tries + 1 \in 0 .. max_try_times
        BY <4>2, LimitsAssumption
      <4>4. u \in ThreadState /\ u.pc = "clear" /\ u.phase = s.phase /\ u.dev = s.dev /\ u.buf = s.buf
        BY <1>1, <4>1, <4>3 DEF ThreadState
      <4>5. StateOK(t, u)
        BY <1>1, <3>1, <4>4 DEF StateOK, Dialing, Hanging, Clearing
      <4> QED BY <4>1, <4>4, <4>5 DEF Goal
    <3> QED BY <3>2, <3>3
  <2> QED BY <2>1, <2>2, <2>3
<1>5. CASE Dial(t)
  <2>1. s.pc = "dial" /\ Goes(t, [s EXCEPT !.pc = "conna"])
    BY <1>5 DEF Dial, AtPc, ToPc
  <2>2. StateOK(t, [s EXCEPT !.pc = "conna"]) /\ [s EXCEPT !.pc = "conna"].phase = s.phase
    <3>1. s.phase \in {"syn", "send"}
      BY <1>1, <2>1 DEF StateOK, Dialing
    <3> HIDE DEF s
    <3> QED BY <1>1, <3>1, PcOK DEF Dialing, Hanging, Clearing
  <2> QED BY <1>2, <2>1, <2>2
<1>6. CASE ReadConn(t)
  <2>1. s.pc \in {"conna", "conn"}
    BY <1>6 DEF ReadConn, AtPc
  <2>2. s.phase \in {"syn", "send"}
    BY <1>1, <2>1 DEF StateOK, Dialing
  <2>3. \/ \E p \in {"idle", "conn"} : Goes(t, [s EXCEPT !.pc = p])
        \/ Goes(t, [s EXCEPT !.pc = "idle", !.ok = TRUE])
    BY <1>6 DEF ReadConn, AtPc, ToPc
  <2>4. CASE \E p \in {"idle", "conn"} : Goes(t, [s EXCEPT !.pc = p])
    <3>1. PICK p \in {"idle", "conn"} : Goes(t, [s EXCEPT !.pc = p])
      BY <2>4
    <3>2. StateOK(t, [s EXCEPT !.pc = p]) /\ [s EXCEPT !.pc = p].phase = s.phase
      <4> HIDE DEF s
      <4> QED BY <1>1, <2>2, PcOK DEF Dialing, Hanging, Clearing
    <3> QED BY <1>2, <3>1, <3>2
  <2>5. CASE Goes(t, [s EXCEPT !.pc = "idle", !.ok = TRUE])
    <3>1. PICK u : u = [s EXCEPT !.pc = "idle", !.ok = TRUE]
      OBVIOUS
    <3>2. u \in ThreadState /\ u.pc = "idle" /\ u.phase = s.phase /\ u.dev = s.dev /\ u.buf = s.buf
      BY <1>1, <3>1 DEF ThreadState
    <3>3. StateOK(t, u)
      BY <1>1, <2>2, <3>2 DEF StateOK, Dialing, Hanging, Clearing
    <3> QED BY <2>5, <3>1, <3>2, <3>3 DEF Goal
  <2> QED BY <2>3, <2>4, <2>5
<1>7. CASE HangUp(t)
  <2>1. s.pc = "hang up" /\ Goes(t, [s EXCEPT !.pc = "lost"])
    BY <1>7 DEF HangUp, AtPc, ToPc
  <2>2. StateOK(t, [s EXCEPT !.pc = "lost"]) /\ [s EXCEPT !.pc = "lost"].phase = s.phase
    <3>1. s.phase \in {"close", "next", "register", "registered", "retry"}
      BY <1>1, <2>1 DEF StateOK, Hanging
    <3> HIDE DEF s
    <3> QED BY <1>1, <3>1, PcOK DEF Dialing, Hanging, Clearing
  <2> QED BY <1>2, <2>1, <2>2
<1>8. CASE ReadLost(t)
  <2>1. s.pc = "lost" /\ \E p \in {"idle", "clear again"} : Goes(t, [s EXCEPT !.pc = p])
    BY <1>8 DEF ReadLost, AtPc, ToPc
  <2>2. PICK p \in {"idle", "clear again"} : Goes(t, [s EXCEPT !.pc = p])
    BY <2>1
  <2>3. StateOK(t, [s EXCEPT !.pc = p]) /\ [s EXCEPT !.pc = p].phase = s.phase
    <3>1. s.phase \in {"close", "next", "register", "registered", "retry"}
      BY <1>1, <2>1 DEF StateOK, Hanging
    <3> HIDE DEF s
    <3> QED BY <1>1, <3>1, PcOK DEF Dialing, Hanging, Clearing
  <2> QED BY <1>2, <2>2, <2>3
<1>9. CASE Collect(t)
  <2>1. s.phase = "answer" /\ s.pc = "idle"
    BY <1>9 DEF Collect, Idle, AtPc
  <2>2. \/ \E b, p : /\ rx # <<>> /\ b = Append(s.buf, Head(rx))
                     /\ p = IF Completed(b) THEN "completed" ELSE s.phase
                     /\ Goes(t, [s EXCEPT !.buf = b, !.phase = p])
        \/ Goes(t, [s EXCEPT !.phase = "timeout"])
    BY <1>9 DEF Collect
  <2>3. CASE Goes(t, [s EXCEPT !.phase = "timeout"])
    <3>1. PICK u : u = [s EXCEPT !.phase = "timeout"]
      OBVIOUS
    <3>2. u \in ThreadState /\ u.pc = "idle" /\ u.phase = "timeout" /\ u.dev = s.dev
      BY <1>1, <2>1, <3>1 DEF ThreadState
    <3>3. StateOK(t, u)
      BY <1>1, <2>1, <3>2 DEF StateOK, PhasesOf, Meant, Dialing, Hanging, Clearing
    <3> QED BY <2>1, <2>3, <3>1, <3>3 DEF Goal
  <2>4. CASE \E b, p : /\ rx # <<>> /\ b = Append(s.buf, Head(rx))
                       /\ p = IF Completed(b) THEN "completed" ELSE s.phase
                       /\ Goes(t, [s EXCEPT !.buf = b, !.phase = p])
    <3>1. PICK b, p : /\ rx # <<>> /\ b = Append(s.buf, Head(rx))
                      /\ p = IF Completed(b) THEN "completed" ELSE s.phase
                      /\ Goes(t, [s EXCEPT !.buf = b, !.phase = p])
      BY <2>4
    <3>2. b \in Seq(Unit) /\ b # <<>>
      <4>1. Head(rx) \in Unit
        BY <3>1, Shorter DEF TypeInv, LineOK
      <4> QED BY <1>1, <3>1, <4>1, Longer
    <3>3. PICK u : u = [s EXCEPT !.buf = b, !.phase = p]
      OBVIOUS
    <3>4. p \in {"completed", "answer"} /\ (p = "completed" => Completed(b))
      BY <2>1, <3>1
    <3>5. u \in ThreadState /\ u.pc = "idle" /\ u.phase = p /\ u.dev = s.dev /\ u.buf = b
      BY <1>1, <2>1, <3>2, <3>3, <3>4 DEF ThreadState
    <3>6. StateOK(t, u)
      BY <1>1, <2>1, <3>2, <3>4, <3>5 DEF StateOK, PhasesOf, Meant, Dialing, Hanging, Clearing
    <3> QED BY <2>1, <3>1, <3>3, <3>6 DEF Goal
  <2> QED BY <2>2, <2>3, <2>4
<1> QED BY <1>3, <1>4, <1>5, <1>6, <1>7, <1>8, <1>9 DEF Step

LEMMA StepLine ==
    ASSUME TypeInv, NEW t \in Thread, Step(t)
    PROVE  tx' \in Seq(Order \cup Data) /\ rx' \in Seq(Unit)
<1>1. tx \in Seq(Order \cup Data) /\ rx \in Seq(Unit) /\ me(t).dev \in Dev \cup {NULL}
  BY ThreadIsOK DEF TypeInv, LineOK
<1>2. tx' \in Seq(Order \cup Data)
  <2>1. \/ UNCHANGED tx
        \/ \E op \in {"AT", "AT+CON", "AT+DISC?"}, d \in Dev \cup {NULL} : Write(op, d)
    BY <1>1 DEF Step, Clear, Drain, Dial, ReadConn, HangUp, ReadLost, Collect
  <2>2. ASSUME NEW op \in {"AT", "AT+CON", "AT+DISC?"}, NEW d \in Dev \cup {NULL}, Write(op, d)
        PROVE  tx' \in Seq(Order \cup Data)
    BY <2>2, OrderType DEF Write
  <2> QED BY <1>1, <2>1, <2>2
<1>3. rx' \in Seq(Unit)
  <2>1. \/ rx' = rx \/ rx' = <<>>
        \/ rx # <<>> /\ (rx' = Tail(rx) \/ rx' = <<>> \o Tail(rx) \/ rx' = RestOf(Head(rx)) \o Tail(rx))
    BY DEF Step, Clear, Drain, Dial, ReadConn, HangUp, ReadLost, Collect
  <2>2. rx # <<>> => Tail(rx) \in Seq(Unit)
    BY <1>1
  <2>3. rx # <<>> => RestOf(Head(rx)) \o Tail(rx) \in Seq(Unit)
    <3>1. RestOf(Head(rx)) \in Seq(Unit)
      BY RestType
    <3> QED BY <2>2, <3>1, Joined
  <2>4. rx # <<>> => <<>> \o Tail(rx) \in Seq(Unit)
    BY <2>2
  <2>5. PICK r, l : r = RestOf(Head(rx)) \o Tail(rx) /\ l = <<>> \o Tail(rx)
    OBVIOUS
  <2>6. CASE rx = <<>>
    <3>1. rx' \in {rx, <<>>}
      BY <2>1, <2>6
    <3>2. <<>> \in Seq(Unit)
      OBVIOUS
    <3> QED BY <1>1, <3>1, <3>2
  <2>7. CASE rx # <<>>
    <3>1. rx' \in {rx, <<>>, Tail(rx), r, l}
      BY <2>1, <2>5, <2>7
    <3>2. r \in Seq(Unit) /\ l \in Seq(Unit) /\ Tail(rx) \in Seq(Unit) /\ <<>> \in Seq(Unit)
      BY <2>2, <2>3, <2>4, <2>5, <2>7
    <3> QED BY <1>1, <3>1, <3>2
  <2> QED BY <2>6, <2>7
<1> QED BY <1>2, <1>3

LEMMA StepType ==
    ASSUME TypeInv, NEW t \in Thread, Step(t)
    PROVE  TypeInv'
<1>1. UNCHANGED <<ble_devices, found, i, ip, link, manager, history>>
  BY StepKeeps
<1>2. BrokerOK' /\ ManagerOK'
  BY <1>1 DEF TypeInv, BrokerOK, ManagerOK, manager, history
<1>3. LineOK'
  BY <1>1, StepLine DEF TypeInv, LineOK, link
<1>4. ThreadsOK'
  <2>1. PICK u : Goes(t, u) /\ StateOK(t, u) /\ (u.phase = me(t).phase \/ me(t).phase = "answer")
    BY StepGoes
  <2>2. i \in Nat /\ Len(found) \in Nat /\ UNCHANGED <<i, found>>
    BY <1>1 DEF TypeInv, BrokerOK
  <2>3. t = "main" => (u.phase \in Meant => i' <= Len(found'))
    BY <2>1, <2>2 DEF TypeInv, ThreadsOK, me, Meant
  <2> QED BY <2>1, <2>2, <2>3, WentOK
<1> QED BY <1>2, <1>3, <1>4 DEF TypeInv

\* The states that the threads' own actions go on to.
LEMMA ConnOK ==
    ASSUME NEW t \in Thread, NEW u \in ThreadState, NEW d \in Dev, NEW phase \in PhasesOf(t),
           phase \in {"syn", "send"}
    PROVE  LET v == Conn(u, d, phase) IN
           StateOK(t, v) /\ v.phase = phase /\ v.pc = "clear" /\ v.dev = d
<1> DEFINE v == Conn(u, d, phase)
<1>1. v \in ThreadState /\ v.phase = phase /\ v.pc = "clear" /\ v.dev = d
  BY DEF Conn, ThreadState
<1> HIDE DEF v
<1>2. StateOK(t, v)
  BY <1>1 DEF StateOK, Dialing, Hanging, Clearing
<1> QED BY <1>1, <1>2 DEF v

LEMMA DisconnOK ==
    ASSUME NEW t \in Thread, NEW u \in ThreadState, NEW phase \in PhasesOf(t),
           phase \in {"close", "next", "register", "registered", "retry"},
           phase \in Meant => u.dev \in Dev
    PROVE  LET v == Disconn(u, phase) IN
           StateOK(t, v) /\ v.phase = phase /\ v.pc = "clear" /\ v.dev = u.dev /\ v.buf = u.buf
<1> DEFINE v == Disconn(u, phase)
<1>0. 0 \in 0 .. max_try_times
  BY LimitsAssumption
<1>1. v \in ThreadState /\ v.phase = phase /\ v.pc = "clear" /\ v.dev = u.dev /\ v.buf = u.buf
  BY <1>0 DEF Disconn, ThreadState
<1> HIDE DEF v
<1>2. StateOK(t, v)
  BY <1>1 DEF StateOK, Dialing, Hanging, Clearing
<1> QED BY <1>1, <1>2 DEF v

LEMMA AtOK ==
    ASSUME NEW t \in Thread, NEW phase \in PhasesOf(t), phase # "completed",
           NEW d \in Dev \cup {NULL}, phase \in Meant => d \in Dev
    PROVE  LET v == At(phase, "idle", d) IN
           StateOK(t, v) /\ v.phase = phase /\ v.pc = "idle" /\ v.dev = d /\ v.buf = <<>>
<1> DEFINE v == At(phase, "idle", d)
<1>1. v \in ThreadState /\ v.phase = phase /\ v.pc = "idle" /\ v.dev = d /\ v.buf = <<>>
  BY LimitsAssumption DEF At, ThreadState, PhasesOf
<1> HIDE DEF v
<1>2. StateOK(t, v)
  BY <1>1 DEF StateOK, Dialing, Hanging, Clearing
<1> QED BY <1>1, <1>2 DEF v

LEMMA Threads == "main" \in Thread /\ "listener" \in Thread /\ "main" # "listener"
BY DEF Thread

LEMMA LookupType ==
    ASSUME TypeInv, NEW S \in SUBSET Slot, S # {}, \A k \in S : ble_devices[k] # NULL
    PROVE  First(S) \in S /\ ble_devices[First(S)] \in Entry /\ ble_devices[First(S)].addr \in Dev
<1>1. First(S) \in S
  BY FirstIn
<1>2. ble_devices[First(S)] \in Entry
  BY <1>1 DEF TypeInv, BrokerOK
<1> QED BY <1>1, <1>2 DEF Entry

LEMMA TypeInit == Init => TypeInv
<1> SUFFICES ASSUME Init PROVE TypeInv
  OBVIOUS
<1>1. /\ given \in Condition /\ tx = <<>> /\ rx = <<>> /\ dialing = NULL /\ linked = NULL
      /\ air = <<>> /\ out = <<>> /\ found = <<>> /\ i = 1 /\ ip = NULL
      /\ calls = <<>> /\ asked = <<>> /\ open = 0
  BY ConditionsAssumption DEF Init, InitScanning, InitServing, InitLine, Condition
<1>2. LineOK
  BY <1>1 DEF LineOK
<1>3. Cardinality(Dev) \in Nat
  BY DevAssumption, FS_CardinalityType
<1>4. ManagerOK
  BY <1>1, <1>3 DEF ManagerOK, Init, InitScanning, InitServing
<1>5. ble_devices \in [Slot -> Entry \cup {NULL}]
  <2>1. CASE InitScanning
    BY <2>1 DEF InitScanning
  <2>2. CASE InitServing
    <3>1. PICK order \in [0 .. Cardinality(Dev) - 1 -> Dev] :
            ble_devices = [k \in Slot |->
                  IF k \in DOMAIN order THEN [addr |-> order[k], ip |-> k] ELSE NULL]
      BY <2>2 DEF InitServing
    <3>2. \A k \in DOMAIN order : [addr |-> order[k], ip |-> k] \in Entry
      BY <1>3 DEF Entry
    <3> QED BY <3>1, <3>2
  <2> QED BY <2>1, <2>2 DEF Init
<1>6. BrokerOK
  BY <1>1, <1>5 DEF BrokerOK
<1>7. ThreadsOK
  <2>1. /\ thread = [t \in Thread |-> thread[t]]
        /\ thread["listener"] = At("recv", "idle", NULL)
        /\ \/ thread["main"] = At("scan", "clear", NULL) \/ thread["main"] = At("done", "idle", NULL)
    BY Threads DEF Init, InitScanning, InitServing
  <2>2. StateOK("listener", At("recv", "idle", NULL))
    BY AtOK, Threads DEF PhasesOf, Meant
  <2>3. StateOK("main", At("done", "idle", NULL)) /\ At("done", "idle", NULL).phase = "done"
    BY AtOK, Threads DEF PhasesOf, Meant
  <2>4. StateOK("main", At("scan", "clear", NULL)) /\ At("scan", "clear", NULL).phase = "scan"
    <3> DEFINE v == At("scan", "clear", NULL)
    <3>1. v \in ThreadState /\ v.phase = "scan" /\ v.pc = "clear"
      BY LimitsAssumption DEF At, ThreadState
    <3> HIDE DEF v
    <3>2. StateOK("main", v)
      BY <3>1, Threads DEF StateOK, PhasesOf, Meant, Dialing, Hanging, Clearing
    <3> QED BY <3>1, <3>2 DEF v
  <2>5. \A t \in Thread : StateOK(t, thread[t])
    <3>1. StateOK("main", thread["main"]) /\ StateOK("listener", thread["listener"])
      BY <2>1, <2>2, <2>3, <2>4
    <3> QED BY <3>1 DEF Thread
  <2>6. thread \in [Thread -> ThreadState]
    <3>1. \A t \in Thread : thread[t] \in ThreadState
      BY <2>5 DEF StateOK
    <3> QED BY <2>1, <3>1
  <2>7. thread["main"].phase \notin Meant
    BY <2>1, <2>3, <2>4 DEF Meant
  <2> QED BY <2>5, <2>6, <2>7 DEF ThreadsOK
<1> QED BY <1>2, <1>4, <1>6, <1>7 DEF TypeInv

LEMMA TypeListener == TypeInv /\ Listener => TypeInv'
<1> SUFFICES ASSUME TypeInv, Listener PROVE TypeInv'
  OBVIOUS
<1> USE Threads DEF manager, history, link
<1> DEFINE s == me("listener")
<1>1. s \in ThreadState /\ StateOK("listener", s) /\ s.dev \in Dev \cup {NULL}
  BY ThreadIsOK
<1>2. /\ BrokerOK /\ ThreadsOK /\ LineOK /\ ManagerOK
  BY DEF TypeInv
<1>3. CASE Step("listener")
  BY <1>3, StepType
<1>4. ASSUME UNCHANGED <<ble_devices, found, i, ip, given>>,
             NEW u, StateOK("listener", u), Goes("listener", u)
      PROVE  BrokerOK' /\ ThreadsOK'
  <2>1. BrokerOK'
    BY <1>2, <1>4 DEF BrokerOK
  <2>2. i' \in Nat /\ Len(found') \in Nat
    BY <1>2, <1>4 DEF BrokerOK
  <2>3. ThreadsOK'
    BY <1>4, <2>2, WentOK
  <2> QED BY <2>1, <2>3
<1>5. CASE TakeCall
  <2> DEFINE at == find_BLE_device_index_by_IoTIp(Head(calls))
  <2>1. /\ calls # <<>> /\ calls' = Tail(calls)
        /\ UNCHANGED <<ble_devices, found, i, ip, given, tx, rx, link, ip_count>>
    BY <1>5 DEF TakeCall
  <2>2. LineOK'
    BY <1>2, <2>1 DEF LineOK
  <2>3. calls' \in Seq(Nat) /\ ip_count' \in Nat
    BY <1>2, <2>1 DEF ManagerOK
  <2>4. CASE at = {}
    <3>1. asked' = Append(asked, NULL) /\ UNCHANGED <<thread, open>>
      BY <1>5, <2>4 DEF TakeCall
    <3>2. ManagerOK'
      BY <1>2, <2>3, <3>1, Longer DEF ManagerOK
    <3>3. BrokerOK' /\ ThreadsOK'
      BY <1>2, <2>1, <3>1 DEF BrokerOK, ThreadsOK
    <3> QED BY <2>2, <3>2, <3>3 DEF TypeInv
  <2>5. CASE at # {}
    <3>1. PICK d : d = ble_devices[First(at)].addr
      OBVIOUS
    <3>2. d \in Dev
      BY <2>5, <3>1, LookupType DEF find_BLE_device_index_by_IoTIp
    <3>3. asked' = Append(asked, d) /\ open' = Len(asked) + 1 /\ Goes("listener", Conn(s, d, "send"))
      BY <1>5, <2>5, <3>1 DEF TakeCall
    <3>4. StateOK("listener", Conn(s, d, "send"))
      BY <1>1, <3>2, ConnOK DEF PhasesOf
    <3>5. BrokerOK' /\ ThreadsOK'
      BY <1>4, <2>1, <3>3, <3>4
    <3>6. ManagerOK'
      BY <1>2, <2>3, <3>2, <3>3, Longer DEF ManagerOK
    <3> QED BY <2>2, <3>5, <3>6 DEF TypeInv
  <2> QED BY <2>4, <2>5
<1>6. CASE SendCall
  <2>1. /\ s.phase = "send" /\ s.pc = "idle"
        /\ UNCHANGED <<ble_devices, found, i, ip, given, rx, link, manager, asked>>
    BY <1>6 DEF SendCall, Idle, AtPc
  <2>2. CASE s.ok
    <3>1. /\ send_command_to_ble_device(s.dev, Call(open)) /\ UNCHANGED open
          /\ Goes("listener", [s EXCEPT !.phase = "answer", !.buf = <<>>])
      BY <1>6, <2>2 DEF SendCall, FreshBuffer
    <3>2. PICK u : u = [s EXCEPT !.phase = "answer", !.buf = <<>>]
      OBVIOUS
    <3>3. u \in ThreadState /\ u.phase = "answer" /\ u.pc = "idle" /\ u.dev = s.dev
      <4>1. <<>> \in Seq(Unit)
        OBVIOUS
      <4> HIDE DEF s
      <4> QED BY <1>1, <2>1, <3>2, <4>1 DEF ThreadState
    <3>4. StateOK("listener", u)
      BY <1>1, <2>1, <3>3 DEF StateOK, PhasesOf, Meant, Dialing, Hanging, Clearing
    <3>5. BrokerOK' /\ ThreadsOK'
      BY <1>4, <2>1, <3>1, <3>2, <3>4
    <3>6. s.dev \in Dev /\ Call(open) \in Command
      <4>1. s.dev \in Dev
        BY <1>1, <2>1 DEF StateOK, Meant
      <4>2. Call(open) \in Command
        BY <1>2 DEF ManagerOK, Call, Command
      <4> QED BY <4>1, <4>2
    <3>7. tx' \in Seq(Order \cup Data)
      BY <3>1, <3>6, DataType DEF send_command_to_ble_device
    <3> QED BY <1>2, <2>1, <3>1, <3>5, <3>7 DEF TypeInv, LineOK, ManagerOK
  <2>3. CASE ~ s.ok
    <3>1. Goes("listener", Disconn(s, "close")) /\ open' = 0 /\ UNCHANGED tx
      BY <1>6, <2>3 DEF SendCall
    <3>2. StateOK("listener", Disconn(s, "close"))
      BY <1>1, DisconnOK DEF PhasesOf, Meant
    <3>3. BrokerOK' /\ ThreadsOK'
      BY <1>4, <2>1, <3>1, <3>2
    <3> QED BY <1>2, <2>1, <3>1, <3>3 DEF TypeInv, LineOK, ManagerOK
  <2> QED BY <2>2, <2>3
<1>7. CASE SendAnswer
  <2>1. /\ open' = 0 /\ Goes("listener", Disconn(s, "close"))
        /\ UNCHANGED <<ble_devices, found, i, ip, tx, rx, link, manager, given, asked>>
    BY <1>7 DEF SendAnswer
  <2>2. StateOK("listener", Disconn(s, "close"))
    BY <1>1, DisconnOK DEF PhasesOf, Meant
  <2>3. BrokerOK' /\ ThreadsOK'
    BY <1>4, <2>1, <2>2
  <2> QED BY <1>2, <2>1, <2>3 DEF TypeInv, LineOK, ManagerOK
<1>8. CASE Disconnected
  <2>1. /\ s.phase = "close" /\ s.pc = "idle" /\ Goes("listener", [s EXCEPT !.phase = "recv", !.dev = NULL])
        /\ UNCHANGED <<ble_devices, found, i, ip, tx, rx, link, manager, history>>
    BY <1>8 DEF Disconnected, Idle, AtPc
  <2>2. PICK u : u = [s EXCEPT !.phase = "recv", !.dev = NULL]
    OBVIOUS
  <2>3. u \in ThreadState /\ u.phase = "recv" /\ u.pc = "idle"
    BY <1>1, <2>1, <2>2 DEF ThreadState
  <2>4. StateOK("listener", u)
    BY <2>3 DEF StateOK, PhasesOf, Meant, Dialing, Hanging, Clearing
  <2>5. BrokerOK' /\ ThreadsOK'
    BY <1>4, <2>1, <2>2, <2>4
  <2> QED BY <1>2, <2>1, <2>5 DEF TypeInv, LineOK, ManagerOK
<1> QED BY <1>3, <1>5, <1>6, <1>7, <1>8 DEF Listener

LEMMA TableType ==
    ASSUME TypeInv, NEW d \in Dev, NEW a \in Nat \cup {NULL}
    PROVE  /\ Added(d) \in [Slot -> Entry \cup {NULL}]
           /\ \A table \in [Slot -> Entry \cup {NULL}] :
                 Updated(table, d, a) \in [Slot -> Entry \cup {NULL}]
<1>1. Added(d) \in [Slot -> Entry \cup {NULL}]
  <2>1. PICK e : e = [addr |-> d, ip |-> NULL]
    OBVIOUS
  <2>2. e \in Entry
    BY <2>1 DEF Entry
  <2>3. PICK free \in SUBSET Slot : free = {k \in Slot : ble_devices[k] = NULL}
    OBVIOUS
  <2>4. Added(d) = IF is_ble_device_exists(d) \/ free = {} THEN ble_devices
                   ELSE [ble_devices EXCEPT ![First(free)] = e]
    BY <2>1, <2>3 DEF Added
  <2>5. ble_devices \in [Slot -> Entry \cup {NULL}]
    BY DEF TypeInv, BrokerOK
  <2>6. [ble_devices EXCEPT ![First(free)] = e] \in [Slot -> Entry \cup {NULL}]
    BY <2>2, <2>5
  <2> QED BY <2>4, <2>5, <2>6
<1>2. ASSUME NEW table \in [Slot -> Entry \cup {NULL}]
      PROVE  Updated(table, d, a) \in [Slot -> Entry \cup {NULL}]
  <2> DEFINE at == {k \in Slot : table[k] # NULL /\ table[k].addr = d}
  <2>1. CASE at = {}
    BY <2>1 DEF Updated
  <2>2. CASE at # {}
    <3>1. PICK k : k = First(at)
      OBVIOUS
    <3>2. k \in at
      BY <2>2, <3>1, FirstIn
    <3>3. [table[k] EXCEPT !.ip = a] \in Entry
      BY <3>2 DEF Entry
    <3>4. Updated(table, d, a) = [table EXCEPT ![k].ip = a]
      BY <2>2, <3>1 DEF Updated
    <3>5. [table EXCEPT ![k].ip = a] \in [Slot -> Entry \cup {NULL}]
      BY <3>2, <3>3
    <3> QED BY <3>4, <3>5
  <2> QED BY <2>1, <2>2
<1> QED BY <1>1, <1>2

LEMMA TypeMain == TypeInv /\ Main => TypeInv'
<1> SUFFICES ASSUME TypeInv, Main PROVE TypeInv'
  OBVIOUS
<1> USE Threads DEF manager, history, link
<1> DEFINE s == me("main")
<1>1. /\ s \in ThreadState /\ StateOK("main", s) /\ s.dev \in Dev \cup {NULL}
      /\ s.phase \in Meant => s.dev \in Dev /\ i \in 1 .. Len(found)
      /\ s.buf \in Seq(Unit)
  <2>1. s \in ThreadState /\ StateOK("main", s) /\ s.dev \in Dev \cup {NULL} /\ s.buf \in Seq(Unit)
    BY ThreadIsOK
  <2>2. s.phase \in Meant => s.dev \in Dev
    BY <2>1 DEF StateOK
  <2>3. s.phase \in Meant => i \in 1 .. Len(found)
    BY DEF TypeInv, ThreadsOK, BrokerOK, me
  <2> QED BY <2>1, <2>2, <2>3
<1>2. /\ BrokerOK /\ ThreadsOK /\ LineOK /\ ManagerOK
  BY DEF TypeInv
<1>3. CASE Step("main")
  BY <1>3, StepType
<1>4. ASSUME NEW u, StateOK("main", u), Goes("main", u), BrokerOK', u.phase \in Meant => i' <= Len(found')
      PROVE  ThreadsOK'
  <2>1. i' \in Nat /\ Len(found') \in Nat
    BY <1>4 DEF BrokerOK
  <2> QED BY <1>4, <2>1, WentOK
<1>5. ASSUME UNCHANGED <<ble_devices, found, i, ip, given>> PROVE BrokerOK'
  BY <1>2, <1>5 DEF BrokerOK
<1>6. ASSUME UNCHANGED <<ble_devices, found, ip, given>>, i' = i + 1, s.phase \in Meant PROVE BrokerOK'
  BY <1>1, <1>2, <1>6 DEF BrokerOK
<1>7. ASSUME UNCHANGED <<link, ip_count, calls, asked, open>>, tx' \in Seq(Order \cup Data), rx' \in Seq(Unit)
      PROVE  LineOK' /\ ManagerOK'
  BY <1>2, <1>7 DEF LineOK, ManagerOK
<1>8. tx \in Seq(Order \cup Data) /\ rx \in Seq(Unit) /\ i \in Nat /\ i + 1 \in Nat /\ Len(found) \in Nat
  BY <1>2 DEF LineOK, BrokerOK
<1>9. ASSUME LeaveDevice
      PROVE  i' = i + 1 /\ \E u : StateOK("main", u) /\ Goes("main", u) /\ u.phase \notin Meant
  <2>1. Goes("main", Disconn(s, "next")) /\ i' = i + 1
    BY <1>9 DEF LeaveDevice, self, me
  <2>2. StateOK("main", Disconn(s, "next")) /\ Disconn(s, "next").phase = "next"
    BY <1>1, DisconnOK DEF PhasesOf, Meant
  <2>3. "next" \notin Meant
    BY DEF Meant
  <2> QED BY <2>1, <2>2, <2>3
<1>10. CASE Discover
  <2>1. /\ Write("AT+DISC?", NULL) /\ Goes("main", At("list", "idle", NULL))
        /\ UNCHANGED <<ble_devices, found, i, ip, rx, link, manager, history>>
    BY <1>10 DEF Discover
  <2>2. StateOK("main", At("list", "idle", NULL)) /\ At("list", "idle", NULL).phase \notin Meant
    BY AtOK DEF PhasesOf, Meant
  <2>3. BrokerOK'
    BY <1>5, <2>1
  <2>4. ThreadsOK'
    BY <1>4, <2>1, <2>2, <2>3
  <2>5. tx' \in Seq(Order \cup Data)
    BY <2>1, OrderType DEF Write
  <2>6. LineOK' /\ ManagerOK'
    BY <1>7, <1>8, <2>1, <2>5
  <2> QED BY <2>3, <2>4, <2>6 DEF TypeInv
<1>11. CASE ReadList
  <2>1. /\ rx # <<>> /\ rx' = Tail(rx) /\ s.phase = "list"
        /\ found' = IF Head(rx).unit = "DIS0:" THEN Append(found, Head(rx).dev) ELSE found
        /\ Goes("main", At("next", "idle", NULL)) \/ UNCHANGED thread
        /\ UNCHANGED <<ble_devices, i, ip, tx, link, manager, history>>
    BY <1>11 DEF ReadList, Idle
  <2>2. rx' \in Seq(Unit) /\ Head(rx) \in Unit
    BY <1>8, <2>1
  <2>3. found' \in Seq(Dev) /\ Len(found') \in Nat /\ Len(found') >= Len(found)
    <3>1. Head(rx).unit = "DIS0:" => Head(rx).dev \in Dev
      BY <2>2, UnitKinds
    <3> QED BY <1>2, <2>1, <3>1, Longer DEF BrokerOK
  <2>4. BrokerOK'
    BY <1>2, <1>8, <2>1, <2>3 DEF BrokerOK
  <2>5. ThreadsOK'
    <3>1. StateOK("main", At("next", "idle", NULL)) /\ At("next", "idle", NULL).phase \notin Meant
      BY AtOK DEF PhasesOf, Meant
    <3>2. CASE Goes("main", At("next", "idle", NULL))
      BY <1>4, <2>4, <3>1, <3>2
    <3>3. CASE UNCHANGED thread
      BY <1>2, <2>1, <3>3 DEF ThreadsOK, me, Meant
    <3> QED BY <2>1, <3>2, <3>3
  <2>6. LineOK' /\ ManagerOK'
    BY <1>7, <1>8, <2>1, <2>2
  <2> QED BY <2>4, <2>5, <2>6 DEF TypeInv
<1>12. CASE NextDevice
  <2>1. /\ Goes("main", IF i > Len(found) THEN At("done", "idle", NULL) ELSE Conn(s, found[i], "syn"))
        /\ UNCHANGED <<ble_devices, found, i, ip, tx, rx, link, manager, history>>
    BY <1>12 DEF NextDevice, self, me
  <2>2. BrokerOK'
    BY <1>5, <2>1
  <2>3. ThreadsOK'
    <3>1. CASE i > Len(found)
      <4>1. StateOK("main", At("done", "idle", NULL)) /\ At("done", "idle", NULL).phase \notin Meant
        BY AtOK DEF PhasesOf, Meant
      <4> QED BY <1>4, <2>1, <2>2, <3>1, <4>1
    <3>2. CASE ~ (i > Len(found))
      <4>1. found[i] \in Dev /\ i <= Len(found)
        BY <1>2, <3>2 DEF BrokerOK
      <4>2. StateOK("main", Conn(s, found[i], "syn"))
        BY <1>1, <4>1, ConnOK DEF PhasesOf
      <4> QED BY <1>4, <2>1, <2>2, <3>2, <4>1, <4>2
    <3> QED BY <3>1, <3>2
  <2>4. LineOK' /\ ManagerOK'
    BY <1>7, <1>8, <2>1
  <2> QED BY <2>2, <2>3, <2>4 DEF TypeInv
<1>13. CASE SendSyn
  <2>1. s.phase = "syn" /\ UNCHANGED <<ble_devices, found, ip, rx, link, manager, history>>
    BY <1>13 DEF SendSyn, Idle
  <2>2. s.phase \in Meant /\ s.dev \in Dev /\ i <= Len(found)
    BY <1>1, <2>1 DEF Meant
  <2>3. CASE s.ok
    <3>1. /\ send_command_to_ble_device(s.dev, SYN) /\ UNCHANGED i
          /\ Goes("main", At("ack", "idle", s.dev))
      BY <1>13, <2>3 DEF SendSyn, self, me
    <3>2. StateOK("main", At("ack", "idle", s.dev))
      BY <2>2, AtOK DEF PhasesOf
    <3>3. BrokerOK'
      BY <1>5, <2>1, <3>1
    <3>4. ThreadsOK'
      BY <1>4, <2>1, <2>2, <3>1, <3>2, <3>3
    <3>5. tx' \in Seq(Order \cup Data)
      BY <2>2, <3>1, DataType DEF send_command_to_ble_device, Command
    <3>6. LineOK' /\ ManagerOK'
      BY <1>7, <1>8, <2>1, <3>5
    <3> QED BY <3>3, <3>4, <3>6 DEF TypeInv
  <2>4. CASE ~ s.ok
    <3>1. Goes("main", At("next", "idle", NULL)) /\ i' = i + 1 /\ UNCHANGED tx
      BY <1>13, <2>4 DEF SendSyn, self, me
    <3>2. StateOK("main", At("next", "idle", NULL)) /\ At("next", "idle", NULL).phase \notin Meant
      BY AtOK DEF PhasesOf, Meant
    <3>3. BrokerOK'
      BY <1>6, <2>1, <2>2, <3>1
    <3>4. ThreadsOK'
      BY <1>4, <3>1, <3>2, <3>3
    <3>5. LineOK' /\ ManagerOK'
      BY <1>7, <1>8, <2>1, <3>1
    <3> QED BY <3>3, <3>4, <3>5 DEF TypeInv
  <2> QED BY <2>3, <2>4
<1>14. CASE ReadAck
  <2>1. /\ s.phase = "ack" /\ UNCHANGED <<ble_devices, found, ip, tx, link, manager, history>>
        /\ UNCHANGED rx \/ (rx # <<>> /\ rx' = Tail(rx))
        /\ LeaveDevice \/ (Goes("main", Disconn(s, "register")) /\ UNCHANGED i)
    BY <1>14 DEF ReadAck, Idle, self, me
  <2>2. s.phase \in Meant /\ s.dev \in Dev /\ i <= Len(found)
    BY <1>1, <2>1 DEF Meant
  <2>3. LineOK' /\ ManagerOK'
    BY <1>7, <1>8, <2>1
  <2>4. CASE LeaveDevice
    <3>1. BrokerOK'
      BY <1>6, <1>9, <2>1, <2>2, <2>4
    <3>2. ThreadsOK'
      BY <1>4, <1>9, <2>4, <3>1
    <3> QED BY <2>3, <3>1, <3>2 DEF TypeInv
  <2>5. CASE Goes("main", Disconn(s, "register")) /\ UNCHANGED i
    <3>1. StateOK("main", Disconn(s, "register"))
      BY <1>1, <2>2, DisconnOK DEF PhasesOf
    <3>2. BrokerOK'
      BY <1>5, <2>1, <2>5
    <3>3. ThreadsOK'
      BY <1>4, <2>1, <2>2, <2>5, <3>1, <3>2
    <3> QED BY <2>3, <3>2, <3>3 DEF TypeInv
  <2> QED BY <2>1, <2>4, <2>5
<1>15. CASE Enter
  <2>1. /\ s.phase = "register" /\ (ip' = ip_count \/ ip' = NULL) /\ (ip_count' = ip_count + 1 \/ ip_count' = ip_count)
        /\ ble_devices' = Updated(Added(s.dev), s.dev, ip')
        /\ Goes("main", Conn(s, s.dev, "send"))
        /\ UNCHANGED <<found, i, tx, rx, link, calls, registered, history>>
    BY <1>15 DEF Enter, Idle, self, me
  <2>2. s.phase \in Meant /\ s.dev \in Dev /\ i <= Len(found) /\ ip_count \in Nat
    BY <1>1, <1>2, <2>1 DEF Meant, ManagerOK
  <2>3. ble_devices' \in [Slot -> Entry \cup {NULL}]
    <3>1. PICK a \in Nat \cup {NULL} : a = ip'
      BY <2>1, <2>2
    <3> QED BY <2>1, <2>2, <3>1, TableType
  <2>4. BrokerOK'
    BY <1>2, <2>1, <2>2, <2>3 DEF BrokerOK
  <2>5. StateOK("main", Conn(s, s.dev, "send"))
    BY <1>1, <2>2, ConnOK DEF PhasesOf
  <2>6. ThreadsOK'
    BY <1>4, <2>1, <2>2, <2>4, <2>5
  <2>7. LineOK' /\ ManagerOK'
    BY <1>2, <2>1, <2>2 DEF LineOK, ManagerOK
  <2> QED BY <2>4, <2>6, <2>7 DEF TypeInv
<1>16. CASE SendDes
  <2>1. /\ s.phase = "send" /\ send_command_to_ble_device(s.dev, DES)
        /\ Goes("main", At("answer", "idle", s.dev))
        /\ UNCHANGED <<ble_devices, found, i, ip, rx, link, manager, history>>
    BY <1>16 DEF SendDes, Idle, self, me
  <2>2. s.phase \in Meant /\ s.dev \in Dev /\ i <= Len(found)
    BY <1>1, <2>1 DEF Meant
  <2>3. StateOK("main", At("answer", "idle", s.dev))
    BY <2>2, AtOK DEF PhasesOf
  <2>4. BrokerOK'
    BY <1>5, <2>1
  <2>5. ThreadsOK'
    BY <1>4, <2>1, <2>2, <2>3, <2>4
  <2>6. tx' \in Seq(Order \cup Data)
    BY <2>1, <2>2, DataType DEF send_command_to_ble_device, Command
  <2>7. LineOK' /\ ManagerOK'
    BY <1>7, <1>8, <2>1, <2>6
  <2> QED BY <2>4, <2>5, <2>7 DEF TypeInv
<1>17. CASE TryDescription
  <2>1. /\ s.phase \in {"completed", "timeout"}
        /\ \E phase \in {"registered", "retry"} : Goes("main", Disconn(s, phase))
        /\ UNCHANGED <<ble_devices, found, i, ip, tx, rx, link, manager, history>>
    BY <1>17 DEF TryDescription, Answered, Idle, self, me
  <2>2. PICK phase \in {"registered", "retry"} : Goes("main", Disconn(s, phase))
    BY <2>1
  <2>3. s.dev \in Dev /\ i <= Len(found)
    BY <1>1, <2>1 DEF Meant
  <2>4. StateOK("main", Disconn(s, phase))
    BY <1>1, <2>3, DisconnOK DEF PhasesOf
  <2>5. BrokerOK'
    BY <1>5, <2>1
  <2>6. ThreadsOK'
    BY <1>4, <2>1, <2>2, <2>3, <2>4, <2>5
  <2>7. LineOK' /\ ManagerOK'
    BY <1>7, <1>8, <2>1
  <2> QED BY <2>5, <2>6, <2>7 DEF TypeInv
<1>18. CASE TryAgain
  <2>1. /\ s.phase = "retry" /\ Goes("main", Conn(s, s.dev, "send"))
        /\ UNCHANGED <<ble_devices, found, i, ip, tx, rx, link, manager, history>>
    BY <1>18 DEF TryAgain, Idle, self, me
  <2>2. s.dev \in Dev /\ i <= Len(found)
    BY <1>1, <2>1 DEF Meant
  <2>3. StateOK("main", Conn(s, s.dev, "send"))
    BY <1>1, <2>2, ConnOK DEF PhasesOf
  <2>4. BrokerOK'
    BY <1>5, <2>1
  <2>5. ThreadsOK'
    BY <1>4, <2>1, <2>2, <2>3, <2>4
  <2>6. LineOK' /\ ManagerOK'
    BY <1>7, <1>8, <2>1
  <2> QED BY <2>4, <2>5, <2>6 DEF TypeInv
<1>19. CASE Register
  <2>1. /\ s.phase = "registered" /\ LeaveDevice
        /\ UNCHANGED <<ble_devices, found, ip, tx, rx, link, calls, ip_count, history>>
    BY <1>19 DEF Register, Idle
  <2>2. s.phase \in Meant
    BY <2>1 DEF Meant
  <2>3. BrokerOK'
    BY <1>6, <1>9, <2>1, <2>2
  <2>4. ThreadsOK'
    BY <1>4, <1>9, <2>1, <2>3
  <2>5. LineOK' /\ ManagerOK'
    BY <1>7, <1>8, <2>1
  <2> QED BY <2>3, <2>4, <2>5 DEF TypeInv
<1> QED BY <1>3, <1>10, <1>11, <1>12, <1>13, <1>14, <1>15, <1>16, <1>17, <1>18, <1>19 DEF Main

\* What the devices say to a command.
LEMMA AnswerUnits ==
    ASSUME TypeInv, linked # NULL, NEW c \in Command, NEW s \in AnswersOf(c)
    PROVE  /\ s \in Seq(Answer) /\ \A k \in 1 .. Len(s) : s[k].from = linked /\ s[k].cmd = c
           /\ c.kind # "SYN" => \/ Len(s) = 1 /\ s[1].part = "all"
                                \/ Len(s) = 2 /\ s[1].part = "first" /\ s[2].part = "last"
<1>1. \A p \in {"all", "first", "last", "none"} :
          /\ UnitOf(c, p) \in Answer /\ UnitOf(c, p).from = linked /\ UnitOf(c, p).cmd = c
          /\ UnitOf(c, p).part = p
  BY DEF TypeInv, LineOK, UnitOf, Answer
<1>2. \/ c = SYN /\ s = <<UnitOf(c, "none")>>
      \/ c # SYN /\ s = <<UnitOf(c, "all")>>
      \/ c # SYN /\ s = <<UnitOf(c, "first"), UnitOf(c, "last")>>
  BY DEF AnswersOf
<1>3. c = SYN => c.kind = "SYN"
  BY DEF SYN
<1> HIDE DEF AnswersOf, UnitOf
<1>4. CASE c = SYN /\ s = <<UnitOf(c, "none")>>
  BY <1>1, <1>3, <1>4
<1>5. CASE c # SYN /\ s = <<UnitOf(c, "all")>>
  BY <1>1, <1>5
<1>6. CASE c # SYN /\ s = <<UnitOf(c, "first"), UnitOf(c, "last")>>
  BY <1>1, <1>6
<1> QED BY <1>2, <1>4, <1>5, <1>6

LEMMA SaysType ==
    ASSUME TypeInv
    PROVE  \A u \in Reply : Append(rx, u) \in Seq(Unit)
BY UnitKinds, Longer DEF TypeInv, LineOK

LEMMA Replies ==
    \A u \in {"OK", "OK+LOST", "OK+CONNA", "OK+CONN", "OK+CONNF", "OK+DISCE"} :
        [unit |-> u] \in Reply /\ [unit |-> u].unit = u
BY DEF Reply

\* The list of the devices found, each once.
ListedOnce(l) == \A j, k \in 1 .. Len(l) : IsListed(l[j]) /\ IsListed(l[k]) /\ l[j].dev = l[k].dev => j = k

LEMMA ListUnits ==
    ASSUME NEW S \in SUBSET Dev, NEW f \in [1 .. Cardinality(Dev) -> Dev],
           {f[k] : k \in 1 .. Cardinality(S)} = S
    PROVE  LET p == [k \in 1 .. Cardinality(S) |-> [unit |-> "DIS0:", dev |-> f[k]]]
               l == p \o <<[unit |-> "OK+DISCE"]>>
           IN /\ l \in Seq(Unit) /\ p \in Seq(Unit) /\ <<[unit |-> "OK+DISCE"]>> \in Seq(Unit)
              /\ ListedOnce(l) /\ ListedOnce(p)
<1>1. PICK n : n = Cardinality(S)
  OBVIOUS
<1>2. IsFiniteSet(S) /\ n \in Nat /\ n <= Cardinality(Dev) /\ Cardinality(Dev) \in Nat
  BY <1>1, DevAssumption, FS_Subset, FS_CardinalityType
<1>3. \A k \in 1 .. n : f[k] \in Dev
  BY <1>2
<1>4. PICK p : p = [k \in 1 .. n |-> [unit |-> "DIS0:", dev |-> f[k]]]
  OBVIOUS
<1>5. p \in Seq(Unit) /\ Len(p) = n /\ \A k \in 1 .. n : p[k].unit = "DIS0:" /\ p[k].dev = f[k]
  <2>1. \A k \in 1 .. n : [unit |-> "DIS0:", dev |-> f[k]] \in Unit
    BY <1>3 DEF Unit, Listed
  <2>2. p \in [1 .. n -> Unit]
    BY <1>4, <2>1
  <2>3. p \in Seq(Unit) /\ Len(p) = n
    BY <1>2, <2>2
  <2>4. \A k \in 1 .. n : p[k].unit = "DIS0:" /\ p[k].dev = f[k]
    BY <1>4
  <2> QED BY <2>3, <2>4
<1>6. PICK e : e = [unit |-> "OK+DISCE"]
  OBVIOUS
<1>7. e \in Unit /\ ~ IsListed(e)
  BY <1>6 DEF Unit, Reply, IsListed
<1>8. PICK l : l = p \o <<e>>
  OBVIOUS
<1>9. l \in Seq(Unit) /\ Len(l) = n + 1 /\ l[n + 1] = e /\ \A k \in 1 .. n : l[k] = p[k]
  BY <1>2, <1>5, <1>7, <1>8
<1>10. \A j, k \in 1 .. n : f[j] = f[k] => j = k
  <2>1. PICK g : g = [k \in 1 .. n |-> f[k]]
    OBVIOUS
  <2>2. g \in [1 .. n -> S]
    BY <1>1, <2>1
  <2>3. \A y \in S : \E k \in 1 .. n : g[k] = y
    BY <1>1, <2>1
  <2>4. g \in Surjection(1 .. n, S)
    BY <2>2, <2>3 DEF Surjection
  <2>5. IsFiniteSet(1 .. n) /\ Cardinality(1 .. n) = n
    <3>1. 1 \in Int /\ n \in Int
      BY <1>2
    <3>2. IsFiniteSet(1 .. n) /\ Cardinality(1 .. n) = IF 1 > n THEN 0 ELSE n - 1 + 1
      BY <3>1, FS_Interval, Zenon
    <3> QED BY <1>2, <3>2
  <2>6. g \in Injection(1 .. n, S)
    BY <1>1, <2>4, <2>5, FS_SurjSameCardinalityImpliesInj
  <2> QED BY <2>1, <2>6 DEF Injection, IsInjective
<1>11. ListedOnce(l)
  <2> SUFFICES ASSUME NEW j \in 1 .. Len(l), NEW k \in 1 .. Len(l), IsListed(l[j]), IsListed(l[k]),
                      l[j].dev = l[k].dev
               PROVE  j = k
    BY DEF ListedOnce
  <2>1. j \in 1 .. n /\ k \in 1 .. n
    BY <1>2, <1>7, <1>9
  <2> QED BY <1>5, <1>9, <1>10, <2>1
<1>12. <<e>> \in Seq(Unit)
  BY <1>7
<1>13. ListedOnce(p)
  BY <1>5, <1>10 DEF ListedOnce
<1> QED BY <1>1, <1>4, <1>5, <1>6, <1>8, <1>9, <1>11, <1>12, <1>13

\* The list, and its end unless that is lost.
LEMMA ModemsList ==
    ASSUME NEW x, ModemLists(x)
    PROVE  /\ \E p, q \in Seq(Unit) : rx' = rx \o p \o q /\ p \o q \in Seq(Unit) /\ ListedOnce(p \o q)
           /\ UNCHANGED link
<1>1. PICK S \in SUBSET Dev, f \in [1 .. Cardinality(Dev) -> Dev] :
         LET list == [k \in 1 .. Cardinality(S) |-> [unit |-> "DIS0:", dev |-> f[k]]] IN
         /\ {f[k] : k \in 1 .. Cardinality(S)} = S
         /\ rx' = rx \o list \o <<[unit |-> "OK+DISCE"]>> \/ rx' = rx \o list
  BY DEF ModemLists
<1>2. PICK p, q : /\ p = [k \in 1 .. Cardinality(S) |-> [unit |-> "DIS0:", dev |-> f[k]]]
                  /\ q = <<[unit |-> "OK+DISCE"]>>
  OBVIOUS
<1>3. /\ p \in Seq(Unit) /\ q \in Seq(Unit) /\ p \o q \in Seq(Unit) /\ ListedOnce(p \o q) /\ ListedOnce(p)
      /\ rx' = rx \o p \o q \/ rx' = rx \o p
  BY <1>1, <1>2, ListUnits
<1>4. CASE rx' = rx \o p \o q
  BY <1>3, <1>4 DEF ModemLists
<1>5. CASE rx' = rx \o p
  <2>1. <<>> \in Seq(Unit) /\ p \o <<>> = p
    BY <1>3
  <2>2. (rx \o p) \o <<>> = rx \o p
    OBVIOUS
  <2> QED BY <1>3, <1>5, <2>1, <2>2 DEF ModemLists
<1> QED BY <1>3, <1>4, <1>5

LEMMA ReadHead ==
    ASSUME TypeInv, tx # <<>>
    PROVE  /\ Tail(tx) \in Seq(Order \cup Data) /\ Head(tx) = tx[1] /\ Head(tx) \in Order \cup Data
           /\ Head(tx).dev \in Dev \cup {NULL} /\ (Head(tx).op = "data" => Head(tx) \in Data)
           /\ Head(tx).op \in {"AT", "AT+CON", "AT+DISC?", "data"}
<1>1. /\ Tail(tx) \in Seq(Order \cup Data) /\ Head(tx) = tx[1] /\ Head(tx) \in Order \cup Data
  BY Shorter DEF TypeInv, LineOK
<1>2. /\ Head(tx).dev \in Dev \cup {NULL} /\ (Head(tx).op = "data" => Head(tx) \in Data)
      /\ Head(tx).op \in {"AT", "AT+CON", "AT+DISC?", "data"}
  BY <1>1 DEF Order, Data
<1> QED BY <1>1, <1>2

LEMMA EnvironmentKeeps ==
    ASSUME Environment
    PROVE  UNCHANGED <<broker, ip_count, registered, history>>
BY DEF Environment, ManagerCalls, Modem, ModemReads, ModemConnects, DeviceHears, RadioDelivers,
       ConnectionBreaks, manager, history

LEMMA TypeEnvironment == TypeInv /\ Environment => TypeInv'
<1> SUFFICES ASSUME TypeInv, Environment PROVE TypeInv'
  OBVIOUS
<1> USE DEF manager, history, broker
<1>1. UNCHANGED <<broker, ip_count, registered, history>>
  BY EnvironmentKeeps
<1>2. BrokerOK' /\ ThreadsOK'
  BY <1>1 DEF TypeInv, BrokerOK, ThreadsOK
<1>3. /\ tx \in Seq(Order \cup Data) /\ rx \in Seq(Unit) /\ air \in Seq(Data) /\ out \in Seq(Answer)
      /\ dialing \in Dev \cup {NULL} /\ linked \in Dev \cup {NULL}
      /\ dialing # NULL => linked = NULL
      /\ linked = NULL => air = <<>> /\ out = <<>>
      /\ ManagerOK
  BY DEF TypeInv, LineOK
<1>4. ASSUME NoLink PROVE dialing' = NULL /\ linked' = NULL /\ air' = <<>> /\ out' = <<>>
  BY <1>4 DEF NoLink
<1>5. ASSUME NEW u, Says(u), u \in {"OK", "OK+LOST", "OK+CONNA", "OK+CONN", "OK+CONNF", "OK+DISCE"}
      PROVE  rx' \in Seq(Unit)
  <2>1. rx' = Append(rx, [unit |-> u]) /\ [unit |-> u] \in Reply
    BY <1>5, Replies DEF Says
  <2> QED BY <2>1, SaysType
<1>6. ASSUME UNCHANGED calls PROVE ManagerOK'
  BY <1>1, <1>3, <1>6 DEF ManagerOK
<1>7. ASSUME NEW a \in 0 .. Cardinality(Dev) - 1, ManagerCalls(a) PROVE TypeInv'
  <2>1. calls' = Append(calls, a) /\ UNCHANGED <<tx, rx, link>>
    BY <1>7 DEF ManagerCalls
  <2>2. a \in Nat
    BY DevAssumption, FS_CardinalityType
  <2>3. ManagerOK'
    BY <1>1, <1>3, <2>1, <2>2, Longer DEF ManagerOK
  <2>4. LineOK'
    BY <1>3, <2>1 DEF LineOK, link
  <2> QED BY <1>2, <2>3, <2>4 DEF TypeInv
<1>8. CASE ModemReads
  <2>1. /\ tx # <<>> /\ tx' = Tail(tx) /\ UNCHANGED calls
        /\ LET x == Head(tx) IN ModemHangsUp(x) \/ ModemDials(x) \/ ModemLists(x) \/ ModemForwards(x)
    BY <1>8 DEF ModemReads
  <2>2. PICK x : x = Head(tx)
    OBVIOUS
  <2>3. /\ tx' \in Seq(Order \cup Data) /\ x.dev \in Dev \cup {NULL} /\ (x.op = "data" => x \in Data)
    BY <2>1, <2>2, ReadHead
  <2>4. ASSUME ModemHangsUp(x) PROVE LineOK'
    <3>1. UNCHANGED rx \/ Says("OK+LOST") \/ Says("OK")
      BY <2>4 DEF ModemHangsUp
    <3>2. rx' \in Seq(Unit)
      BY <1>3, <1>5, <3>1
    <3> QED BY <1>3, <1>4, <2>3, <2>4, <3>2 DEF LineOK, ModemHangsUp
  <2>5. ASSUME ModemDials(x) PROVE LineOK'
    <3>1. UNCHANGED rx \/ Says("OK+CONNA")
      BY <2>5 DEF ModemDials
    <3>2. rx' \in Seq(Unit)
      BY <1>3, <1>5, <3>1
    <3> QED BY <1>3, <2>3, <2>5, <3>2 DEF LineOK, ModemDials
  <2>6. ASSUME ModemLists(x) PROVE LineOK'
    <3>3. PICK p, q \in Seq(Unit) : rx' = rx \o p \o q
      BY <2>6, ModemsList
    <3>4. rx' \in Seq(Unit)
      BY <1>3, <3>3
    <3> QED BY <1>3, <2>3, <2>6, <3>4 DEF LineOK, ModemLists, link
  <2>7. ASSUME ModemForwards(x) PROVE LineOK'
    <3>1. /\ UNCHANGED <<rx, dialing, linked, out>>
          /\ air' = IF x.op = "data" /\ linked # NULL THEN Append(air, x) ELSE air
      BY <2>7 DEF ModemForwards
    <3>2. air' \in Seq(Data) /\ (linked = NULL => air' = air)
      BY <1>3, <2>3, <3>1, Longer
    <3> QED BY <1>3, <2>3, <3>1, <3>2 DEF LineOK
  <2> QED BY <1>2, <1>6, <2>1, <2>2, <2>4, <2>5, <2>6, <2>7 DEF TypeInv
<1>9. CASE ModemConnects
  <2>1. /\ dialing # NULL /\ dialing' = NULL /\ UNCHANGED <<tx, air, out, calls>>
        /\ \/ linked' = dialing /\ Says("OK+CONN")
           \/ Says("OK+CONNF") /\ UNCHANGED linked
    BY <1>9 DEF ModemConnects
  <2>2. rx' \in Seq(Unit)
    BY <1>5, <2>1
  <2>3. LineOK'
    BY <1>3, <2>1, <2>2 DEF LineOK
  <2> QED BY <1>2, <1>6, <2>1, <2>3 DEF TypeInv
<1>10. CASE ConnectionBreaks
  <2>1. NoLink /\ Says("OK+LOST") /\ UNCHANGED <<tx, calls>>
    BY <1>10 DEF ConnectionBreaks
  <2>2. rx' \in Seq(Unit)
    BY <1>5, <2>1
  <2>3. LineOK'
    BY <1>3, <1>4, <2>1, <2>2 DEF LineOK
  <2> QED BY <1>2, <1>6, <2>1, <2>3 DEF TypeInv
<1>11. CASE DeviceHears
  <2>1. /\ air # <<>> /\ air' = Tail(air) /\ UNCHANGED <<tx, rx, dialing, linked, calls>>
        /\ UNCHANGED out \/ \E s \in AnswersOf(Head(air).cmd) : out' = out \o s
    BY <1>11 DEF DeviceHears
  <2>2. linked # NULL /\ air' \in Seq(Data) /\ Head(air) \in Data
    BY <1>3, <2>1
  <2>3. Head(air).cmd \in Command
    BY <2>2 DEF Data
  <2>4. out' \in Seq(Answer)
    <3>1. ASSUME NEW s \in AnswersOf(Head(air).cmd), out' = out \o s PROVE out' \in Seq(Answer)
      <4>1. s \in Seq(Answer)
        BY <2>2, <2>3, AnswerUnits
      <4> QED BY <1>3, <3>1, <4>1
    <3> QED BY <1>3, <2>1, <3>1
  <2>5. LineOK'
    BY <1>3, <2>1, <2>2, <2>4 DEF LineOK
  <2> QED BY <1>2, <1>6, <2>1, <2>5 DEF TypeInv
<1>12. CASE RadioDelivers
  <2>1. /\ out # <<>> /\ out' = Tail(out) /\ UNCHANGED <<tx, dialing, linked, air, calls>>
        /\ UNCHANGED rx \/ rx' = Append(rx, Head(out))
    BY <1>12 DEF RadioDelivers
  <2>2. linked # NULL /\ out' \in Seq(Answer) /\ Head(out) \in Answer
    BY <1>3, <2>1, Shorter
  <2>3. rx' \in Seq(Unit)
    <3>1. Head(out) \in Unit
      BY <2>2, UnitKinds
    <3>2. Append(rx, Head(out)) \in Seq(Unit)
      BY <1>3, <3>1, Longer
    <3>3. rx' = rx \/ rx' = Append(rx, Head(out))
      BY <2>1
    <3> QED BY <1>3, <3>2, <3>3
  <2>4. LineOK'
    BY <1>3, <2>1, <2>2, <2>3 DEF LineOK
  <2> QED BY <1>2, <1>6, <2>1, <2>4 DEF TypeInv
<1> QED BY <1>7, <1>8, <1>9, <1>10, <1>11, <1>12 DEF Environment, Modem

LEMMA TypeStep == TypeInv /\ [Next]_vars => TypeInv'
<1>1. TypeInv /\ Next => TypeInv'
  BY TypeListener, TypeMain, TypeEnvironment DEF Next
<1>2. TypeInv /\ UNCHANGED vars => TypeInv'
  BY DEF vars, TypeInv, BrokerOK, ThreadsOK, LineOK, ManagerOK, broker, link, manager, history
<1> QED BY <1>1, <1>2

THEOREM TypeInvariant == Spec => []TypeInv
<1> QED BY TypeInit, TypeStep, PTL DEF Spec

\* The broker's state is of its types, whatever the threads take from each other
\* and however many faults there are (the tries of disconn_ble_device stay
\* within their limit, an entry of the table is a device's).
THEOREM Types == Spec => []TypeOK
<1>1. TypeInv => TypeOK
  BY DEF TypeInv, TypeOK, BrokerOK, ThreadsOK, LineOK, Entry
<1> QED BY <1>1, TypeInvariant, PTL

----------------------------------------------------------------------------
\* HungUp.

LEMMA PcFields ==
    ASSUME TypeInv, NEW t \in Thread,
           NEW p \in {"idle", "clear", "drain", "dial", "conna", "conn", "hang up", "lost",
                      "clear again", "drain again"},
           ToPc(t, p)
    PROVE  /\ thread'[t].pc = p /\ thread'[t].phase = thread[t].phase
           /\ thread'[t].dev = thread[t].dev /\ thread'[t].buf = thread[t].buf
           /\ thread'[t].ok = thread[t].ok
           /\ \A b \in Thread : b # t => thread'[b] = thread[b]
<1> DEFINE v == [me(t) EXCEPT !.pc = p]
<1>1. me(t) \in ThreadState
  BY ThreadIsOK
<1>2. /\ v \in ThreadState /\ v.phase = me(t).phase /\ v.pc = p /\ v.dev = me(t).dev
      /\ v.ok = me(t).ok /\ v.buf = me(t).buf
  BY <1>1 DEF ThreadState
<1>3. Goes(t, v)
  BY DEF ToPc
<1> HIDE DEF v
<1> QED BY <1>2, <1>3, Went DEF me

\* Where each operation on the modem leads.
LEMMA StepPlaces ==
    ASSUME TypeInv, NEW t \in Thread, Step(t)
    PROVE  /\ \A b \in Thread : b # t => thread'[b] = thread[b]
           /\ thread'[t].phase = thread[t].phase \/ thread'[t].phase \in {"completed", "timeout"}
           /\ thread'[t].phase = "timeout" \/ thread'[t].buf = thread[t].buf \/ Collect(t)
           /\ thread'[t].dev = thread[t].dev
           /\ \/ Clear(t) /\ thread'[t].pc \in {"drain", "drain again"}
              \/ Drain(t) /\ thread'[t].pc = "dial" /\ thread[t].pc = "drain" /\ thread[t].phase \in {"syn", "send"}
              \/ Drain(t) /\ thread'[t].pc = "idle" /\ thread[t].pc = "drain" /\ thread[t].phase = "scan"
              \/ Drain(t) /\ thread'[t].pc = "hang up" /\ thread[t].pc = "drain"
                    /\ thread[t].phase \notin {"syn", "send", "scan"}
              \/ Drain(t) /\ thread'[t].pc \in {"idle", "clear"} /\ thread[t].pc = "drain again"
              \/ Dial(t) /\ thread[t].pc = "dial" /\ thread'[t].pc = "conna"
              \/ ReadConn(t) /\ thread[t].pc \in {"conna", "conn"} /\ thread'[t].pc \in {"idle", "conn"}
              \/ HangUp(t) /\ thread[t].pc = "hang up" /\ thread'[t].pc = "lost"
              \/ ReadLost(t) /\ thread[t].pc = "lost" /\ thread'[t].pc \in {"idle", "clear again"}
              \/ Collect(t) /\ thread[t].phase = "answer" /\ thread[t].pc = "idle" /\ thread'[t].pc = "idle"
                    /\ thread'[t].phase \in {"answer", "completed", "timeout"}
<1> DEFINE s == thread[t]
           Pcs == {"idle", "clear", "drain", "dial", "conna", "conn", "hang up", "lost",
                   "clear again", "drain again"}
           Others == \A b \in Thread : b # t => thread'[b] = thread[b]
<1>1. s \in ThreadState /\ s = me(t)
  BY DEF TypeInv, ThreadsOK, me
<1>2. ASSUME NEW p \in Pcs, ToPc(t, p)
      PROVE  /\ thread'[t].pc = p /\ thread'[t].phase = s.phase
             /\ thread'[t].dev = s.dev /\ thread'[t].buf = s.buf /\ Others
  BY <1>2, PcFields
<1>3. ASSUME NEW u \in ThreadState, Goes(t, u)
      PROVE  thread'[t] = u /\ Others
  BY <1>3, Went
<1> HIDE DEF s, Others
<1>4. CASE Clear(t)
  <2>1. PICK p \in {"drain", "drain again"} : ToPc(t, p)
    BY <1>4 DEF Clear
  <2> QED BY <1>2, <1>4, <2>1 DEF s, Others
<1>5. CASE Drain(t)
  <2>1. CASE s.pc = "drain"
    <3>1. PICK p \in Pcs : /\ ToPc(t, p)
                           /\ p = IF s.phase \in {"syn", "send"} THEN "dial"
                                  ELSE IF s.phase = "scan" THEN "idle" ELSE "hang up"
      BY <1>1, <1>5, <2>1 DEF Drain, AtPc, Dials
    <3>2. /\ thread'[t].pc = p /\ thread'[t].phase = s.phase
          /\ thread'[t].dev = s.dev /\ thread'[t].buf = s.buf /\ Others
      BY <1>2, <3>1
    <3> QED BY <1>5, <2>1, <3>1, <3>2 DEF s, Others
  <2>2. CASE s.pc # "drain"
    <3>1. s.pc = "drain again"
      BY <1>1, <1>5, <2>2 DEF Drain, AtPc
    <3>2. CASE LastTry(t)
      <4>1. ToPc(t, "idle")
        BY <1>1, <1>5, <3>1, <3>2 DEF Drain, AtPc
      <4> QED BY <1>2, <1>5, <3>1, <4>1 DEF s, Others
    <3>3. CASE ~ LastTry(t)
      <4>1. PICK u : u = [s EXCEPT !.pc = "clear", !.tries = s.tries + 1]
        OBVIOUS
      <4>2. Goes(t, u)
        BY <1>1, <1>5, <3>1, <3>3, <4>1 DEF Drain, AtPc
      <4>3. s.tries \in 0 .. max_try_times /\ s.tries # max_try_times
        BY <1>1, <3>3, ThreadIsOK DEF LastTry
      <4>4. s.tries + 1 \in 0 .. max_try_times
        BY <4>3, LimitsAssumption
      <4>5. u \in ThreadState /\ u.pc = "clear" /\ u.phase = s.phase /\ u.dev = s.dev /\ u.buf = s.buf
        BY <1>1, <4>1, <4>4 DEF ThreadState
      <4> QED BY <1>3, <1>5, <3>1, <4>2, <4>5 DEF s, Others
    <3> QED BY <3>2, <3>3
  <2> QED BY <2>1, <2>2
<1>6. CASE Dial(t)
  <2>1. s.pc = "dial" /\ ToPc(t, "conna")
    BY <1>1, <1>6 DEF Dial, AtPc
  <2> QED BY <1>2, <1>6, <2>1 DEF s, Others
<1>7. CASE ReadConn(t)
  <2>1. s.pc \in {"conna", "conn"}
    BY <1>1, <1>7 DEF ReadConn, AtPc
  <2>2. \/ \E p \in {"idle", "conn"} : ToPc(t, p)
        \/ Goes(t, [s EXCEPT !.pc = "idle", !.ok = TRUE])
    BY <1>1, <1>7 DEF ReadConn, AtPc
  <2>3. CASE \E p \in {"idle", "conn"} : ToPc(t, p)
    BY <1>2, <1>7, <2>1, <2>3 DEF s, Others
  <2>4. CASE Goes(t, [s EXCEPT !.pc = "idle", !.ok = TRUE])
    <3>1. PICK u : u = [s EXCEPT !.pc = "idle", !.ok = TRUE]
      OBVIOUS
    <3>2. u \in ThreadState /\ u.pc = "idle" /\ u.phase = s.phase /\ u.dev = s.dev /\ u.buf = s.buf
      BY <1>1, <3>1 DEF ThreadState
    <3> QED BY <1>3, <1>7, <2>1, <2>4, <3>1, <3>2 DEF s, Others
  <2> QED BY <2>2, <2>3, <2>4
<1>8. CASE HangUp(t)
  <2>1. s.pc = "hang up" /\ ToPc(t, "lost")
    BY <1>1, <1>8 DEF HangUp, AtPc
  <2> QED BY <1>2, <1>8, <2>1 DEF s, Others
<1>9. CASE ReadLost(t)
  <2>1. s.pc = "lost"
    BY <1>1, <1>9 DEF ReadLost, AtPc
  <2>2. PICK p \in {"idle", "clear again"} : ToPc(t, p)
    BY <1>9 DEF ReadLost
  <2> QED BY <1>2, <1>9, <2>1, <2>2 DEF s, Others
<1>10. CASE Collect(t)
  <2>1. s.phase = "answer" /\ s.pc = "idle"
    BY <1>1, <1>10 DEF Collect, Idle, AtPc
  <2>2. \/ \E b, p : /\ rx # <<>> /\ b = Append(s.buf, Head(rx))
                     /\ p \in {"completed", "answer"}
                     /\ Goes(t, [s EXCEPT !.buf = b, !.phase = p])
        \/ Goes(t, [s EXCEPT !.phase = "timeout"])
    BY <1>1, <1>10, <2>1 DEF Collect
  <2>3. CASE Goes(t, [s EXCEPT !.phase = "timeout"])
    <3>1. PICK u : u = [s EXCEPT !.phase = "timeout"]
      OBVIOUS
    <3>2. u \in ThreadState /\ u.pc = "idle" /\ u.phase = "timeout" /\ u.dev = s.dev
      BY <1>1, <2>1, <3>1 DEF ThreadState
    <3> QED BY <1>3, <1>10, <2>1, <2>3, <3>1, <3>2 DEF s, Others
  <2>4. CASE \E b, p : /\ rx # <<>> /\ b = Append(s.buf, Head(rx))
                       /\ p \in {"completed", "answer"}
                       /\ Goes(t, [s EXCEPT !.buf = b, !.phase = p])
    <3>1. PICK b, p : /\ rx # <<>> /\ b = Append(s.buf, Head(rx))
                      /\ p \in {"completed", "answer"}
                      /\ Goes(t, [s EXCEPT !.buf = b, !.phase = p])
      BY <2>4
    <3>2. b \in Seq(Unit)
      <4>1. Head(rx) \in Unit
        BY <3>1, Shorter DEF TypeInv, LineOK
      <4>2. s.buf \in Seq(Unit)
        BY <1>1 DEF ThreadState
      <4> QED BY <3>1, <4>1, <4>2, Longer
    <3>3. PICK u : u = [s EXCEPT !.buf = b, !.phase = p]
      OBVIOUS
    <3>4. u \in ThreadState /\ u.pc = "idle" /\ u.phase = p /\ u.dev = s.dev
      BY <1>1, <2>1, <3>1, <3>2, <3>3 DEF ThreadState
    <3> QED BY <1>3, <1>10, <2>1, <3>1, <3>3, <3>4 DEF s, Others
  <2> QED BY <2>2, <2>3, <2>4
<1> QED BY <1>4, <1>5, <1>6, <1>7, <1>8, <1>9, <1>10 DEF Step

LEMMA GoneByWriting ==
    ASSUME TypeInv, Write("AT", NULL)
    PROVE  Gone'
<1>1. PICK x : x = [op |-> "AT", dev |-> NULL]
  OBVIOUS
<1>2. x \in Order /\ x.op = "AT" /\ tx' = Append(tx, x)
  BY <1>1 DEF Order, Write
<1>3. tx' # <<>> /\ Len(tx') = Len(tx) + 1 /\ tx'[Len(tx) + 1] = x
  BY <1>2, Longer DEF TypeInv, LineOK
<1> QED BY <1>2, <1>3 DEF Gone

LEMMA GoneStays ==
    ASSUME TypeInv, Environment, Gone
    PROVE  Gone'
<1>1. tx \in Seq(Order \cup Data)
  BY DEF TypeInv, LineOK
<1>2. CASE UNCHANGED tx /\ tx # <<>>
  BY <1>2 DEF Gone
<1>3. CASE UNCHANGED tx /\ tx = <<>>
  <2>1. dialing = NULL /\ linked = NULL
    BY <1>3 DEF Gone
  <2>2. dialing' = NULL /\ linked' = NULL
    BY <1>3, <2>1 DEF Environment, Modem, ManagerCalls, ModemReads, ModemConnects, DeviceHears,
                      RadioDelivers, ConnectionBreaks, link
  <2> QED BY <1>3, <2>2 DEF Gone
<1>4. CASE ModemReads
  <2>1. /\ tx # <<>> /\ tx' = Tail(tx)
        /\ LET x == Head(tx) IN ModemHangsUp(x) \/ ModemDials(x) \/ ModemLists(x) \/ ModemForwards(x)
    BY <1>4 DEF ModemReads
  <2>2. tx[Len(tx)].op = "AT"
    BY <2>1 DEF Gone
  <2>3. CASE Len(tx) = 1
    <3>1. Head(tx).op = "AT" /\ tx' = <<>>
      BY <1>1, <2>1, <2>2, <2>3
    <3>2. dialing' = NULL /\ linked' = NULL
      <4>1. PICK x : x = Head(tx)
        OBVIOUS
      <4>2. x.op = "AT" /\ (ModemHangsUp(x) \/ ModemDials(x) \/ ModemLists(x) \/ ModemForwards(x))
        BY <2>1, <3>1, <4>1
      <4> QED BY <4>2 DEF ModemHangsUp, ModemDials, ModemLists, ModemForwards, NoLink
    <3> QED BY <3>1, <3>2 DEF Gone
  <2>4. CASE Len(tx) # 1
    <3>1. /\ Len(tx) \in Nat /\ Len(tx) # 0 /\ Len(tx') = Len(tx) - 1 /\ tx' \in Seq(Order \cup Data)
          /\ \A k \in 1 .. Len(tx') : tx'[k] = tx[k + 1]
      BY <1>1, <2>1, Shorter
    <3>2. Len(tx') \in 1 .. Len(tx')
      BY <2>4, <3>1
    <3>3. tx'[Len(tx')] = tx[Len(tx)] /\ tx' # <<>>
      BY <3>1, <3>2
    <3> QED BY <2>2, <3>3 DEF Gone
  <2> QED BY <2>3, <2>4
<1>5. ModemReads \/ UNCHANGED tx
  BY DEF Environment, Modem, ManagerCalls, ModemConnects, DeviceHears, RadioDelivers, ConnectionBreaks
<1> QED BY <1>2, <1>3, <1>4, <1>5

LEMMA HungStep ==
    ASSUME TypeInv, NEW t \in Thread, Step(t), HungInv(t)
    PROVE  HungInv(t)'
<1>1. (Clear(t) \/ HangUp(t)) => Write("AT", NULL)
  BY DEF Clear, HangUp
<1>2. (Drain(t) \/ ReadLost(t)) /\ Gone => Gone'
  BY DEF Drain, ReadLost, Gone, link
<1>3. thread[t].pc \in Dialing => thread[t].phase \in {"syn", "send"}
  BY DEF TypeInv, ThreadsOK, StateOK
<1>4. thread[t].pc \in {"drain", "drain again", "hang up", "lost"} => Gone
  BY DEF HungInv, Hanging
<1>5. CASE Clear(t) \/ HangUp(t)
  BY <1>1, <1>5, GoneByWriting DEF HungInv
<1>6. CASE Drain(t) \/ ReadLost(t)
  <2>1. thread[t].pc \in {"drain", "drain again", "lost"}
    BY <1>6 DEF Drain, ReadLost, AtPc, me
  <2> QED BY <1>2, <1>4, <1>6, <2>1 DEF HungInv
<1>7. CASE Dial(t) \/ ReadConn(t)
  <2>1. thread[t].pc \in Dialing
    BY <1>7 DEF Dial, ReadConn, AtPc, me, Dialing
  <2>2. thread'[t].pc \in {"idle", "conn", "conna"} /\ thread'[t].phase \in {"syn", "send", "completed", "timeout"}
    <3>1. thread[t].pc \notin {"clear", "clear again", "drain", "drain again", "hang up", "lost"}
          /\ thread[t].phase # "answer"
      BY <1>3, <2>1 DEF Dialing
    <3>2. ~ Clear(t) /\ ~ Drain(t) /\ ~ HangUp(t) /\ ~ ReadLost(t) /\ ~ Collect(t)
      BY <3>1 DEF Clear, Drain, HangUp, ReadLost, Collect, AtPc, Idle, me
    <3> QED BY <1>3, <2>1, <3>2, StepPlaces
  <2> QED BY <2>2 DEF HungInv, Hanging
<1>8. CASE Collect(t)
  <2>1. thread[t].phase = "answer" /\ thread[t].pc = "idle"
    BY <1>8 DEF Collect, Idle, AtPc, me
  <2>2. ~ Clear(t) /\ ~ Drain(t) /\ ~ HangUp(t) /\ ~ ReadLost(t) /\ ~ Dial(t) /\ ~ ReadConn(t)
    BY <2>1 DEF Clear, Drain, HangUp, ReadLost, Dial, ReadConn, AtPc, me
  <2>3. thread'[t].pc = "idle" /\ thread'[t].phase \in {"answer", "completed", "timeout"}
    BY <2>2, StepPlaces
  <2> QED BY <2>3 DEF HungInv, Hanging
<1> QED BY <1>5, <1>6, <1>7, <1>8 DEF Step

\* The listener's own actions.
LEMMA HungListener ==
    ASSUME TypeInv, Listener, HungInv("listener")
    PROVE  HungInv("listener")'
<1> USE Threads
<1> DEFINE s == me("listener")
<1>1. s \in ThreadState /\ StateOK("listener", s) /\ s = thread["listener"]
  BY ThreadIsOK DEF me
<1>2. CASE Step("listener")
  BY <1>2, HungStep
<1>3. ASSUME NEW u \in ThreadState, Goes("listener", u),
             \/ u.pc = "clear"
             \/ u.pc = "idle" /\ u.phase \notin {"recv", "close"}
      PROVE  HungInv("listener")'
  <2>1. thread'["listener"] = u
    BY <1>3, Went
  <2> QED BY <1>3, <2>1 DEF HungInv, Hanging
<1>4. CASE TakeCall
  <2>1. CASE UNCHANGED thread
    BY <1>4, <2>1 DEF TakeCall, HungInv, Gone, link
  <2>2. CASE ~ UNCHANGED thread
    <3>1. PICK d : Goes("listener", Conn(s, d, "send")) /\ d \in Dev
      <4> DEFINE at == find_BLE_device_index_by_IoTIp(Head(calls))
      <4>1. at # {} /\ Goes("listener", Conn(s, ble_devices[First(at)].addr, "send"))
        BY <1>4, <2>2 DEF TakeCall
      <4>2. ble_devices[First(at)].addr \in Dev
        BY <4>1, LookupType DEF find_BLE_device_index_by_IoTIp
      <4> QED BY <4>1, <4>2
    <3>2. Conn(s, d, "send") \in ThreadState /\ Conn(s, d, "send").pc = "clear"
      BY <1>1, <3>1, ConnOK DEF PhasesOf, StateOK
    <3> QED BY <1>3, <3>1, <3>2
  <2> QED BY <2>1, <2>2
<1>5. StateOK("listener", Disconn(s, "close")) /\ Disconn(s, "close").pc = "clear"
  BY <1>1, DisconnOK DEF PhasesOf, Meant
<1>6. CASE SendCall
  <2>1. s.pc = "idle"
    BY <1>6 DEF SendCall, Idle, AtPc
  <2>2. \/ Goes("listener", [s EXCEPT !.phase = "answer", !.buf = <<>>])
        \/ Goes("listener", Disconn(s, "close"))
    BY <1>6 DEF SendCall, FreshBuffer
  <2>3. PICK u : u = [s EXCEPT !.phase = "answer", !.buf = <<>>]
    OBVIOUS
  <2>4. u \in ThreadState /\ u.phase = "answer" /\ u.pc = "idle"
    <3>1. <<>> \in Seq(Unit)
      OBVIOUS
    <3> HIDE DEF s
    <3> QED BY <1>1, <2>1, <2>3, <3>1 DEF ThreadState
  <2> QED BY <1>3, <1>5, <2>2, <2>3, <2>4 DEF StateOK
<1>7. CASE SendAnswer
  <2>1. Goes("listener", Disconn(s, "close"))
    BY <1>7 DEF SendAnswer
  <2> QED BY <1>3, <1>5, <2>1 DEF StateOK
<1>8. CASE Disconnected
  <2>1. s.phase = "close" /\ s.pc = "idle" /\ UNCHANGED <<tx, link>>
    BY <1>8 DEF Disconnected, Idle, AtPc
  <2>2. Gone'
    BY <1>1, <2>1 DEF HungInv, Gone, link
  <2> QED BY <2>2 DEF HungInv
<1> QED BY <1>2, <1>4, <1>6, <1>7, <1>8 DEF Listener

\* After a scan the main thread does nothing more.
MainDone == thread["main"].phase = "done" /\ thread["main"].pc = "idle"

LEMMA DoneIsDone == MainDone => ~ Main
BY DEF MainDone, Main, Step, Clear, Drain, Dial, ReadConn, HangUp, ReadLost, Collect, Discover, ReadList,
       NextDevice, SendSyn, ReadAck, Enter, SendDes, TryDescription, TryAgain, Register, Answered,
       Idle, AtPc, me

LEMMA ListenerKeeps ==
    ASSUME TypeInv, Listener
    PROVE  UNCHANGED <<ble_devices, found, i, ip, given, link, ip_count, registered, thread["main"]>>
<1> USE Threads DEF manager, history, link
<1>1. UNCHANGED <<ble_devices, found, i, ip, given, link, ip_count, registered>>
  <2>1. CASE Step("listener")
    BY <2>1, StepKeeps
  <2>2. CASE ~ Step("listener")
    BY <2>2 DEF Listener, TakeCall, SendCall, SendAnswer, Disconnected
  <2> QED BY <2>1, <2>2
<1>2. UNCHANGED thread["main"]
  <2>1. CASE Step("listener")
    <3>1. \A b \in Thread : b # "listener" => thread'[b] = thread[b]
      BY <2>1, StepPlaces, Zenon
    <3> QED BY <3>1
  <2>2. CASE ~ Step("listener")
    <3>1. UNCHANGED thread \/ \E u : Goes("listener", u)
      BY <2>2 DEF Listener, TakeCall, SendCall, SendAnswer, Disconnected
    <3>2. thread \in [Thread -> ThreadState]
      BY DEF TypeInv, ThreadsOK
    <3> QED BY <3>1, <3>2 DEF Goes
  <2> QED BY <2>1, <2>2
<1> QED BY <1>1, <1>2

HungServing == ~ given.scan => MainDone /\ HungInv("listener")

LEMMA HungInit == Init => HungServing
<1> SUFFICES ASSUME Init, ~ given.scan PROVE MainDone /\ HungInv("listener")
  BY DEF HungServing
<1>1. InitServing /\ InitLine
  BY DEF Init, InitScanning, InitServing
<1>2. thread["main"] = At("done", "idle", NULL)
  BY <1>1, Threads DEF InitServing
<1>3. Gone
  BY <1>1 DEF InitLine, Gone
<1> QED BY <1>2, <1>3 DEF MainDone, HungInv, At

LEMMA HungNext == TypeInv /\ HungServing /\ [Next]_vars => HungServing'
<1> SUFFICES ASSUME TypeInv, HungServing, [Next]_vars, ~ given'.scan PROVE MainDone' /\ HungInv("listener")'
  BY DEF HungServing
<1>1. CASE UNCHANGED vars
  BY <1>1 DEF vars, broker, link, history, HungServing, MainDone, HungInv, Gone
<1>2. CASE Environment
  <2>1. UNCHANGED <<thread, given>>
    BY <1>2, EnvironmentKeeps DEF broker, history
  <2>2. Gone => Gone'
    BY <1>2, GoneStays
  <2> QED BY <2>1, <2>2 DEF HungServing, MainDone, HungInv
<1>3. CASE Listener
  <2>1. UNCHANGED <<given, thread["main"]>>
    BY <1>3, ListenerKeeps
  <2>2. MainDone /\ HungInv("listener")
    BY <2>1 DEF HungServing
  <2> QED BY <1>3, <2>1, <2>2, HungListener DEF MainDone
<1>4. CASE Main
  <2>1. UNCHANGED given
    <3>1. CASE Step("main")
      BY <3>1, StepKeeps, Threads DEF history
    <3>2. CASE ~ Step("main")
      BY <1>4, <3>2 DEF Main, Discover, ReadList, NextDevice, SendSyn, ReadAck, Enter, SendDes,
                        TryDescription, TryAgain, Register, history
    <3> QED BY <3>1, <3>2
  <2> QED BY <1>4, <2>1, DoneIsDone DEF HungServing
<1> QED BY <1>1, <1>2, <1>3, <1>4 DEF Next

\* Whatever goes wrong, when the listener is done with a device there is no
\* connection, or there is none when the modem has read what it was sent
\* (disconn_ble_device): the next device can be reached.
THEOREM HangsUp == Spec => []HungUp
<1>1. TypeInv /\ HungServing => HungUp
  <2> SUFFICES ASSUME TypeInv, HungServing, ~ given.scan, Idle("listener", "recv")
               PROVE  linked = NULL \/ \E k \in 1 .. Len(tx) : tx[k].op = "AT"
    BY DEF HungUp
  <2>1. Gone
    BY DEF HungServing, HungInv, Idle, AtPc, me
  <2>2. tx \in Seq(Order \cup Data)
    BY DEF TypeInv, LineOK
  <2>3. tx # <<>> => Len(tx) \in 1 .. Len(tx)
    BY <2>2
  <2> QED BY <2>1, <2>3 DEF Gone
<1> QED BY <1>1, HungInit, HungNext, TypeInvariant, PTL DEF Spec

----------------------------------------------------------------------------
\* The exchange with one device.

LEMMA QuietAppend ==
    ASSUME NEW q \in Seq(Unit), NEW u \in Unit, ~ IsAnswer(u)
    PROVE  NoAnswer(q) => NoAnswer(Append(q, u))
BY Longer DEF NoAnswer

LEMMA NoUnits ==
    ASSUME NEW q \in Seq(Unit), NoAnswer(q), NEW d, NEW c
    PROVE  Units(q, d, c) /\ ToCome(q, <<>>, d, c)
BY DEF NoAnswer, Units, ToCome, HasStart, IsAnswer

LEMMA QuietUnits ==
    ASSUME NEW w \in Seq(Unit), NEW u \in Unit, ~ IsAnswer(u), NEW d, NEW c, Units(w, d, c)
    PROVE  Units(Append(w, u), d, c)
<1> DEFINE v == Append(w, u)
<1>1. /\ Len(w) \in Nat /\ Len(v) = Len(w) + 1 /\ v[Len(w) + 1] = u
      /\ \A k \in 1 .. Len(w) : v[k] = w[k]
  BY Longer
<1>2. \A k \in 1 .. Len(v) : IsAnswer(v[k]) => k \in 1 .. Len(w)
  BY <1>1
<1>3. \A k \in 1 .. Len(v) : HasStart(v[k]) => IsAnswer(v[k])
  BY DEF HasStart, IsAnswer
<1> HIDE DEF v
<1>4. \A k \in 1 .. Len(v) : IsAnswer(v[k]) =>
          v[k].from = d /\ v[k].cmd = c /\ v[k].part \in {"all", "first", "last"}
  BY <1>1, <1>2 DEF Units
<1>5. \A j, k \in 1 .. Len(v) : IsAnswer(v[j]) /\ HasStart(v[k]) =>
          j = k \/ (j = k + 1 /\ v[j].part = "last")
  <2> SUFFICES ASSUME NEW j \in 1 .. Len(v), NEW k \in 1 .. Len(v), IsAnswer(v[j]), HasStart(v[k])
               PROVE  j = k \/ (j = k + 1 /\ v[j].part = "last")
    OBVIOUS
  <2>1. j \in 1 .. Len(w) /\ k \in 1 .. Len(w)
    BY <1>2, <1>3
  <2>2. v[j] = w[j] /\ v[k] = w[k]
    BY <1>1, <2>1
  <2> QED BY <2>1, <2>2 DEF Units
<1>6. Units(v, d, c)
  BY <1>4, <1>5 DEF Units
<1> QED BY <1>6 DEF v

\* The unit that is delivered is the next that may come.
LEMMA NextUnit ==
    ASSUME NEW w \in Seq(Unit), NEW o \in Seq(Answer), o # <<>>, NEW d, NEW c,
           Units(w, d, c), ToCome(w, o, d, c)
    PROVE  /\ Units(Append(w, Head(o)), d, c) /\ ToCome(Append(w, Head(o)), Tail(o), d, c)
           /\ ToCome(w, Tail(o), d, c)
<1> DEFINE u == Head(o)
           v == Append(w, u)
           p == Tail(o)
           LastOnly == \A k \in 1 .. Len(w) : IsAnswer(w[k]) => k = Len(w) /\ w[k].part = "first"
<1>0. /\ u = o[1] /\ u \in Answer /\ u \in Unit /\ Len(o) \in Nat /\ Len(p) = Len(o) - 1 /\ p \in Seq(Answer)
      /\ \A k \in 1 .. Len(p) : k + 1 \in 1 .. Len(o) /\ p[k] = o[k + 1]
      /\ 1 \in 1 .. Len(o)
  <2>1. /\ u = o[1] /\ u \in Answer /\ Len(o) \in Nat /\ Len(p) = Len(o) - 1 /\ p \in Seq(Answer)
        /\ \A k \in 1 .. Len(p) : k + 1 \in 1 .. Len(o) /\ p[k] = o[k + 1]
        /\ 1 \in 1 .. Len(o)
    BY Shorter
  <2> QED BY <2>1, UnitKinds
<1>1. /\ Len(w) \in Nat /\ Len(v) = Len(w) + 1 /\ v[Len(w) + 1] = u
      /\ \A k \in 1 .. Len(w) : v[k] = w[k]
  BY <1>0, Longer
<1>2. u.from = d /\ u.cmd = c /\ IsAnswer(u)
  BY <1>0, UnitKinds DEF ToCome, IsAnswer
<1>3. \/ Len(o) = 1 /\ u.part = "all" /\ NoAnswer(w)
      \/ Len(o) = 2 /\ u.part = "first" /\ o[2].part = "last" /\ NoAnswer(w)
      \/ Len(o) = 1 /\ u.part = "last" /\ LastOnly
  BY <1>0 DEF ToCome
<1>4. \A k \in 1 .. Len(p) : p[k].from = d /\ p[k].cmd = c
  BY <1>0 DEF ToCome
<1> HIDE DEF u, v, p
<1>5. Units(v, d, c)
  <2>1. \A k \in 1 .. Len(v) : IsAnswer(v[k]) =>
            v[k].from = d /\ v[k].cmd = c /\ v[k].part \in {"all", "first", "last"}
    <3> SUFFICES ASSUME NEW k \in 1 .. Len(v), IsAnswer(v[k])
                 PROVE  v[k].from = d /\ v[k].cmd = c /\ v[k].part \in {"all", "first", "last"}
      OBVIOUS
    <3>1. CASE k \in 1 .. Len(w)
      <4>1. v[k] = w[k]
        BY <1>1, <3>1
      <4> QED BY <3>1, <4>1 DEF Units
    <3>2. CASE k \notin 1 .. Len(w)
      <4>1. v[k] = u
        BY <1>1, <3>2
      <4> QED BY <1>2, <1>3, <4>1
    <3> QED BY <3>1, <3>2
  <2>2. \A j, k \in 1 .. Len(v) : IsAnswer(v[j]) /\ HasStart(v[k]) =>
            j = k \/ (j = k + 1 /\ v[j].part = "last")
    <3> SUFFICES ASSUME NEW j \in 1 .. Len(v), NEW k \in 1 .. Len(v), IsAnswer(v[j]), HasStart(v[k])
                 PROVE  j = k \/ (j = k + 1 /\ v[j].part = "last")
      OBVIOUS
    <3>1. IsAnswer(v[k]) /\ v[k].part \in {"all", "first"}
      BY DEF HasStart, IsAnswer
    <3>2. CASE j \in 1 .. Len(w) /\ k \in 1 .. Len(w)
      <4>1. v[j] = w[j] /\ v[k] = w[k]
        BY <1>1, <3>2
      <4> QED BY <3>2, <4>1 DEF Units
    <3>3. CASE j \in 1 .. Len(w) /\ k \notin 1 .. Len(w)
      <4>1. v[j] = w[j] /\ v[k] = u
        BY <1>1, <3>3
      <4>2. u.part \in {"all", "first"} /\ ~ NoAnswer(w)
        BY <3>1, <3>3, <4>1 DEF NoAnswer
      <4> QED BY <1>3, <4>2
    <3>4. CASE j \notin 1 .. Len(w) /\ k \in 1 .. Len(w)
      <4>1. v[j] = u /\ v[k] = w[k] /\ j = Len(w) + 1
        BY <1>1, <3>4
      <4>2. ~ NoAnswer(w)
        BY <3>1, <3>4, <4>1 DEF NoAnswer
      <4>3. u.part = "last" /\ k = Len(w)
        BY <1>3, <3>1, <3>4, <4>1, <4>2
      <4> QED BY <4>1, <4>3
    <3>5. CASE j \notin 1 .. Len(w) /\ k \notin 1 .. Len(w)
      BY <1>1, <3>5
    <3> QED BY <3>2, <3>3, <3>4, <3>5
  <2> QED BY <2>1, <2>2 DEF Units
<1>6. CASE Len(o) = 1
  <2>1. p = <<>>
    BY <1>0, <1>6
  <2> QED BY <1>5, <2>1 DEF ToCome, u, v, p
<1>7. CASE Len(o) = 2
  <2>1. u.part = "first" /\ o[2].part = "last" /\ NoAnswer(w) /\ Len(p) = 1 /\ p[1].part = "last"
    <3>1. u.part = "first" /\ o[2].part = "last" /\ NoAnswer(w) /\ Len(p) = 1
      BY <1>0, <1>3, <1>7
    <3>2. 1 \in 1 .. Len(p)
      BY <3>1
    <3>3. p[1] = o[1 + 1]
      BY <1>0, <3>2
    <3> QED BY <3>1, <3>3
  <2>2. \A k \in 1 .. Len(v) : IsAnswer(v[k]) => k = Len(v) /\ v[k].part = "first"
    BY <1>1, <2>1 DEF NoAnswer
  <2>3. \A k \in 1 .. Len(w) : IsAnswer(w[k]) => k = Len(w) /\ w[k].part = "first"
    BY <2>1 DEF NoAnswer
  <2>4. ToCome(v, p, d, c) /\ ToCome(w, p, d, c)
    BY <1>4, <2>1, <2>2, <2>3 DEF ToCome
  <2> QED BY <1>5, <2>4 DEF u, v, p
<1> QED BY <1>3, <1>6, <1>7

\* A completed answer is whole, and the target's.
LEMMA CompletedIsWhole ==
    ASSUME NEW b \in Seq(Unit), b # <<>>, Completed(b), NEW q \in Seq(Unit), NEW d, NEW c,
           Units(b \o q, d, c)
    PROVE  Whole(b, d, c)
<1> DEFINE w == b \o q
<1>1. /\ Len(b) \in Nat \ {0} /\ Len(w) >= Len(b) /\ Len(w) \in Nat
      /\ \A k \in 1 .. Len(b) : w[k] = b[k]
  BY Joined
<1>2. HasStart(b[1]) /\ HasEnd(b[Len(b)])
  BY DEF Completed
<1>3. 1 \in 1 .. Len(b) /\ Len(b) \in 1 .. Len(b) /\ \A k \in 1 .. Len(b) : k \in 1 .. Len(w)
  BY <1>1
<1>4. IsAnswer(w[1]) /\ HasStart(w[1]) /\ IsAnswer(w[Len(b)])
  BY <1>1, <1>2, <1>3 DEF HasStart, HasEnd, IsAnswer
<1> HIDE DEF w
<1>5. Len(b) = 1 \/ Len(b) = 2
  <2>1. \A j, k \in 1 .. Len(w) : IsAnswer(w[j]) /\ HasStart(w[k]) =>
            j = k \/ (j = k + 1 /\ w[j].part = "last")
    BY DEF Units, w
  <2>2. Len(b) = 1 \/ Len(b) = 1 + 1
    BY <1>3, <1>4, <2>1
  <2> QED BY <2>2
<1>6. \A k \in 1 .. Len(b) : IsAnswer(w[k])
  BY <1>1, <1>4, <1>5
<1> QED BY <1>1, <1>3, <1>6 DEF Units, Whole, w

\* What the environment does while the modem hears of one device only.
LEMMA TalkEffects ==
    ASSUME TypeInv, Environment, NEW d \in Dev, NEW c \in Command, OnlyFor(d, c), InTx => air = <<>>
    PROVE  /\ OnlyFor(d, c)'
           /\ \/ UNCHANGED <<rx, out, air>> /\ (InTx' => InTx)
              \/ /\ \E u \in Unit : ~ IsAnswer(u) /\ rx' = Append(rx, u)
                 /\ out' = <<>> /\ air' = <<>> /\ (InTx' => InTx)
              \/ UNCHANGED <<rx, out>> /\ InTx /\ ~ InTx'
              \/ /\ air # <<>> /\ air' = <<>> /\ UNCHANGED rx /\ (InTx' => InTx) /\ linked = d
                 /\ UNCHANGED out \/ \E s \in AnswersOf(c) : out' = out \o s
              \/ /\ out # <<>> /\ out' = Tail(out) /\ UNCHANGED air /\ (InTx' => InTx)
                 /\ UNCHANGED rx \/ rx' = Append(rx, Head(out))
<1> DEFINE Goal == /\ OnlyFor(d, c)'
           /\ \/ UNCHANGED <<rx, out, air>> /\ (InTx' => InTx)
              \/ /\ \E u \in Unit : ~ IsAnswer(u) /\ rx' = Append(rx, u)
                 /\ out' = <<>> /\ air' = <<>> /\ (InTx' => InTx)
              \/ UNCHANGED <<rx, out>> /\ InTx /\ ~ InTx'
              \/ /\ air # <<>> /\ air' = <<>> /\ UNCHANGED rx /\ (InTx' => InTx) /\ linked = d
                 /\ UNCHANGED out \/ \E s \in AnswersOf(c) : out' = out \o s
              \/ /\ out # <<>> /\ out' = Tail(out) /\ UNCHANGED air /\ (InTx' => InTx)
                 /\ UNCHANGED rx \/ rx' = Append(rx, Head(out))
<1> SUFFICES Goal
  OBVIOUS
<1>1. /\ tx \in Seq(Order \cup Data) /\ rx \in Seq(Unit) /\ air \in Seq(Data) /\ out \in Seq(Answer)
      /\ dialing # NULL => linked = NULL
      /\ linked = NULL => air = <<>> /\ out = <<>>
  BY DEF TypeInv, LineOK
<1>2. /\ dialing \in {NULL, d} /\ linked \in {NULL, d}
      /\ \A k \in 1 .. Len(tx) : /\ tx[k].dev = d /\ tx[k].op \in {"AT+CON", "data"}
                                 /\ tx[k].op = "data" => k = Len(tx) /\ tx[k].cmd = c
      /\ Len(air) <= 1 /\ \A k \in 1 .. Len(air) : air[k].cmd = c
  BY DEF OnlyFor
<1>3. \A unit \in {"OK", "OK+LOST", "OK+CONNA", "OK+CONN", "OK+CONNF", "OK+DISCE"} : Says(unit) =>
          \E u \in Unit : ~ IsAnswer(u) /\ rx' = Append(rx, u)
  <2> SUFFICES ASSUME NEW unit \in {"OK", "OK+LOST", "OK+CONNA", "OK+CONN", "OK+CONNF", "OK+DISCE"}, Says(unit)
               PROVE  \E u \in Unit : ~ IsAnswer(u) /\ rx' = Append(rx, u)
    OBVIOUS
  <2>1. PICK u : u = [unit |-> unit]
    OBVIOUS
  <2>2. u \in Unit /\ ~ IsAnswer(u)
    BY <2>1, Replies, UnitKinds DEF IsAnswer
  <2> QED BY <2>1, <2>2 DEF Says
<1>4. UNCHANGED tx => (InTx' <=> InTx)
  BY DEF InTx
<1>5. ASSUME UNCHANGED tx, dialing' \in {NULL, d}, linked' \in {NULL, d},
             air' \in {<<>>, air} PROVE OnlyFor(d, c)'
  BY <1>2, <1>5 DEF OnlyFor
<1>6. ASSUME NEW a \in 0 .. Cardinality(Dev) - 1, ManagerCalls(a) PROVE Goal
  <2>1. UNCHANGED <<tx, rx, dialing, linked, air, out>>
    BY <1>6 DEF ManagerCalls, link
  <2> QED BY <1>2, <1>4, <1>5, <2>1
<1>7. CASE ModemConnects
  <2>1. /\ dialing # NULL /\ dialing' = NULL /\ linked' \in {linked, dialing}
        /\ UNCHANGED <<tx, air, out>> /\ (Says("OK+CONN") \/ Says("OK+CONNF"))
    BY <1>7 DEF ModemConnects
  <2>2. out' = <<>> /\ air' = <<>>
    BY <1>1, <2>1
  <2> QED BY <1>2, <1>3, <1>4, <1>5, <2>1, <2>2
<1>8. CASE ConnectionBreaks
  <2>1. NoLink /\ Says("OK+LOST") /\ UNCHANGED tx
    BY <1>8 DEF ConnectionBreaks
  <2> QED BY <1>2, <1>3, <1>4, <1>5, <2>1 DEF NoLink
<1>9. CASE DeviceHears
  <2>1. /\ air # <<>> /\ air' = Tail(air) /\ UNCHANGED <<tx, rx, dialing, linked>>
        /\ UNCHANGED out \/ \E s \in AnswersOf(Head(air).cmd) : out' = out \o s
    BY <1>9 DEF DeviceHears
  <2>2. Head(air).cmd = c /\ air' = <<>>
    <3>1. Head(air) = air[1] /\ 1 \in 1 .. Len(air) /\ Len(Tail(air)) = Len(air) - 1 /\ Tail(air) \in Seq(Data)
          /\ Len(air) \in Nat
      BY <1>1, <2>1, Shorter
    <3>2. Len(Tail(air)) = 0
      BY <1>2, <3>1
    <3> QED BY <1>2, <2>1, <3>1, <3>2
  <2>3. linked = d
    BY <1>1, <1>2, <2>1
  <2> QED BY <1>2, <1>4, <1>5, <2>1, <2>2, <2>3
<1>10. CASE RadioDelivers
  <2>1. /\ out # <<>> /\ out' = Tail(out) /\ UNCHANGED <<tx, dialing, linked, air>>
        /\ UNCHANGED rx \/ rx' = Append(rx, Head(out))
    BY <1>10 DEF RadioDelivers
  <2> QED BY <1>2, <1>4, <1>5, <2>1
<1>11. CASE ModemReads
  <2>1. PICK x : /\ tx # <<>> /\ tx' = Tail(tx) /\ x = Head(tx)
                 /\ ModemHangsUp(x) \/ ModemDials(x) \/ ModemLists(x) \/ ModemForwards(x)
    BY <1>11 DEF ModemReads
  <2>2. /\ x = tx[1] /\ 1 \in 1 .. Len(tx) /\ Len(tx) \in Nat \ {0} /\ Len(tx') = Len(tx) - 1
        /\ tx' \in Seq(Order \cup Data)
        /\ \A k \in 1 .. Len(tx') : k + 1 \in 1 .. Len(tx) /\ tx'[k] = tx[k + 1]
    BY <1>1, <2>1, Shorter
  <2>3. x.op \in {"AT+CON", "data"} /\ x.dev = d /\ (x.op = "data" => Len(tx) = 1 /\ x.cmd = c)
    BY <1>2, <2>2
  <2>4. \A k \in 1 .. Len(tx') : /\ tx'[k].dev = d /\ tx'[k].op \in {"AT+CON", "data"}
                                 /\ tx'[k].op = "data" => k = Len(tx') /\ tx'[k].cmd = c
    BY <1>2, <2>2
  <2>5. InTx' => InTx
    <3>1. ASSUME InTx' PROVE InTx
      <4>1. Len(tx') \in 1 .. Len(tx')
        BY <2>2, <3>1 DEF InTx
      <4>2. tx'[Len(tx')] = tx[Len(tx)]
        BY <2>2, <4>1
      <4> QED BY <2>1, <3>1, <4>2 DEF InTx
    <3> QED BY <3>1
  <2>6. CASE ModemDials(x)
    <3>1. /\ linked = NULL /\ dialing' = d /\ UNCHANGED <<linked, air, out>>
          /\ UNCHANGED rx \/ Says("OK+CONNA")
      BY <2>3, <2>6 DEF ModemDials
    <3>2. out' = <<>> /\ air' = <<>>
      BY <1>1, <3>1
    <3>3. OnlyFor(d, c)'
      BY <1>2, <2>4, <3>1 DEF OnlyFor
    <3> QED BY <1>3, <2>5, <3>1, <3>2, <3>3
  <2>7. CASE ModemForwards(x)
    <3>1. /\ UNCHANGED <<rx, dialing, linked, out>>
          /\ air' = IF x.op = "data" /\ linked # NULL THEN Append(air, x) ELSE air
      BY <2>7 DEF ModemForwards
    <3>2. CASE x.op # "data"
      <4>1. UNCHANGED air
        BY <3>1, <3>2
      <4>2. OnlyFor(d, c)'
        BY <1>2, <2>4, <3>1, <4>1 DEF OnlyFor
      <4> QED BY <2>5, <3>1, <4>1, <4>2
    <3>3. CASE x.op = "data"
      <4>1. InTx /\ ~ InTx' /\ air = <<>>
        BY <2>1, <2>2, <2>3, <3>3 DEF InTx
      <4>2. x.cmd = c /\ (air' = <<>> \/ air' = <<x>>)
        BY <2>3, <3>1, <3>3, <4>1
      <4>3. Len(air') <= 1 /\ \A k \in 1 .. Len(air') : air'[k].cmd = c
        <5>1. CASE air' = <<>>
          BY <5>1
        <5>2. CASE air' = <<x>>
          <6>1. Len(air') = 1 /\ air'[1] = x
            BY <5>2
          <6> QED BY <4>2, <6>1
        <5> QED BY <4>2, <5>1, <5>2
      <4>4. OnlyFor(d, c)'
        BY <1>2, <2>4, <3>1, <4>3 DEF OnlyFor
      <4> QED BY <3>1, <4>1, <4>4
    <3> QED BY <3>2, <3>3
  <2>8. ~ ModemHangsUp(x) /\ ~ ModemLists(x)
    BY <2>3 DEF ModemHangsUp, ModemLists
  <2> QED BY <2>1, <2>6, <2>7, <2>8
<1> QED BY <1>6, <1>7, <1>8, <1>9, <1>10, <1>11 DEF Environment, Modem

LEMMA MuteStays ==
    ASSUME TypeInv, Environment, NEW d \in Dev, NEW c \in Command, Mute(d, c)
    PROVE  Mute(d, c)'
<1>1. OnlyFor(d, c) /\ ~ InTx /\ air = <<>> /\ out = <<>> /\ NoAnswer(rx)
  BY DEF Mute
<1>2. rx \in Seq(Unit)
  BY DEF TypeInv, LineOK
<1>3. OnlyFor(d, c)'
  BY <1>1, TalkEffects
<1>4. \/ UNCHANGED <<rx, out, air>> /\ ~ InTx'
      \/ /\ \E u \in Unit : ~ IsAnswer(u) /\ rx' = Append(rx, u)
         /\ out' = <<>> /\ air' = <<>> /\ ~ InTx'
  BY <1>1, TalkEffects
<1>5. NoAnswer(rx)' /\ out' = <<>> /\ air' = <<>> /\ ~ InTx'
  <2>1. CASE UNCHANGED <<rx, out, air>> /\ ~ InTx'
    BY <1>1, <2>1 DEF NoAnswer
  <2>2. ASSUME NEW u \in Unit, ~ IsAnswer(u), rx' = Append(rx, u) PROVE NoAnswer(rx)'
    <3>1. NoAnswer(Append(rx, u))
      BY <1>1, <1>2, <2>2, QuietAppend
    <3> QED BY <2>2, <3>1 DEF NoAnswer
  <2> QED BY <1>4, <2>1, <2>2
<1> QED BY <1>3, <1>5 DEF Mute

LEMMA ExchangeStays ==
    ASSUME TypeInv, Environment, NEW d \in Dev, NEW c \in Command, c.kind # "SYN",
           NEW b \in Seq(Unit), Exchange(b, d, c)
    PROVE  Exchange(b, d, c)'
<1> DEFINE w == b \o rx
           v == b \o rx'
<1>1. /\ OnlyFor(d, c) /\ Units(w, d, c) /\ ToCome(w, out, d, c)
      /\ InTx => air = <<>>
      /\ InTx \/ air # <<>> => out = <<>> /\ NoAnswer(w)
  BY DEF Exchange
<1>2. rx \in Seq(Unit) /\ w \in Seq(Unit) /\ out \in Seq(Answer)
  BY Joined DEF TypeInv, LineOK
<1>3. OnlyFor(d, c)'
  BY <1>1, TalkEffects
<1>4. ASSUME Units(v, d, c), ToCome(v, out', d, c), InTx' => air' = <<>>,
             InTx' \/ air' # <<>> => out' = <<>> /\ NoAnswer(v)
      PROVE  Exchange(b, d, c)'
  BY <1>3, <1>4 DEF Exchange
<1> HIDE DEF Exchange
<1>5. CASE UNCHANGED <<rx, out, air>> /\ (InTx' => InTx)
  BY <1>1, <1>4, <1>5
<1>6. CASE /\ \E u \in Unit : ~ IsAnswer(u) /\ rx' = Append(rx, u)
           /\ out' = <<>> /\ air' = <<>> /\ (InTx' => InTx)
  <2>1. PICK u \in Unit : ~ IsAnswer(u) /\ rx' = Append(rx, u)
    BY <1>6
  <2>2. v = Append(w, u)
    BY <1>2, <2>1, Moves
  <2>3. Units(v, d, c)
    BY <1>1, <1>2, <2>1, <2>2, QuietUnits
  <2>4. ToCome(v, out', d, c)
    BY <1>6 DEF ToCome
  <2>5. InTx' => NoAnswer(v)
    BY <1>1, <1>2, <1>6, <2>1, <2>2, QuietAppend
  <2> QED BY <1>4, <1>6, <2>3, <2>4, <2>5
<1>7. CASE UNCHANGED <<rx, out>> /\ InTx /\ ~ InTx'
  BY <1>1, <1>4, <1>7
<1>8. CASE /\ air # <<>> /\ air' = <<>> /\ UNCHANGED rx /\ (InTx' => InTx) /\ linked = d
           /\ UNCHANGED out \/ \E s \in AnswersOf(c) : out' = out \o s
  <2>1. ~ InTx /\ out = <<>> /\ NoAnswer(w) /\ v = w
    BY <1>1, <1>8
  <2>2. ToCome(v, out', d, c)
    <3>1. CASE UNCHANGED out
      BY <2>1, <3>1 DEF ToCome
    <3>2. ASSUME NEW s \in AnswersOf(c), out' = out \o s PROVE ToCome(v, out', d, c)
      <4>1. linked # NULL
        BY <1>8, NullAssumption
      <4>2. /\ s \in Seq(Answer) /\ \A k \in 1 .. Len(s) : s[k].from = d /\ s[k].cmd = c
            /\ \/ Len(s) = 1 /\ s[1].part = "all"
               \/ Len(s) = 2 /\ s[1].part = "first" /\ s[2].part = "last"
        BY <1>8, <4>1, AnswerUnits
      <4>3. out' = s
        BY <2>1, <3>2, <4>2, Moves
      <4> QED BY <2>1, <4>2, <4>3 DEF ToCome
    <3> QED BY <1>8, <3>1, <3>2
  <2> QED BY <1>1, <1>4, <1>8, <2>1, <2>2
<1>9. CASE /\ out # <<>> /\ out' = Tail(out) /\ UNCHANGED air /\ (InTx' => InTx)
           /\ UNCHANGED rx \/ rx' = Append(rx, Head(out))
  <2>1. ~ InTx' /\ air' = <<>>
    BY <1>1, <1>9
  <2>2. /\ Units(Append(w, Head(out)), d, c) /\ ToCome(Append(w, Head(out)), Tail(out), d, c)
        /\ ToCome(w, Tail(out), d, c)
    BY <1>1, <1>2, <1>9, NextUnit
  <2>3. CASE UNCHANGED rx
    <3>1. v = w
      BY <2>3
    <3> QED BY <1>1, <1>4, <1>9, <2>1, <2>2, <3>1
  <2>4. CASE rx' = Append(rx, Head(out))
    <3>1. Head(out) \in Unit
      BY <1>2, <1>9, UnitKinds
    <3>2. v = Append(w, Head(out))
      BY <1>2, <2>4, <3>1, Moves
    <3> QED BY <1>4, <1>9, <2>1, <2>2, <3>2
  <2> QED BY <1>9, <2>3, <2>4
<1> QED BY <1>1, <1>5, <1>6, <1>7, <1>8, <1>9, TalkEffects

----------------------------------------------------------------------------
\* LineInv.

LEMMA TalkIsAbout ==
    ASSUME TypeInv, NEW t \in Thread
    PROVE  /\ thread[t] \in ThreadState /\ StateOK(t, thread[t]) /\ thread[t].buf \in Seq(Unit)
           /\ thread[t].phase \in {"send", "answer", "completed"} => thread[t].dev \in Dev
           /\ CommandOf(t) \in Command /\ CommandOf(t).kind # "SYN"
<1>1. thread[t] \in ThreadState /\ StateOK(t, thread[t]) /\ thread[t].buf \in Seq(Unit)
  BY ThreadIsOK DEF me
<1>2. thread[t].phase \in {"send", "answer", "completed"} => thread[t].dev \in Dev
  BY <1>1 DEF StateOK, Meant
<1>3. CommandOf(t) \in Command /\ CommandOf(t).kind # "SYN"
  BY DEF CommandOf, Command, Call, DES, TypeInv, ManagerOK
<1> QED BY <1>1, <1>2, <1>3

\* Outside of the talk nothing is said of it.
LEMMA Elsewhere ==
    ASSUME NEW t \in Thread, NEW u, StateOK(t, u), NEW c,
           \/ u.pc \notin {"idle", "conna", "conn"}
           \/ u.phase \notin {"send", "answer", "completed"}
    PROVE  TalkInv(u, c)
<1>1. u.pc \notin {"idle", "conna", "conn"} => u.phase \notin {"answer", "completed"}
  BY DEF StateOK, ThreadState, Dialing, Hanging, Clearing
<1> QED BY <1>1 DEF TalkInv

LEMMA ElsewhereNext ==
    ASSUME TypeInv', NEW t \in Thread, HungInv(t)', thread'[t].pc # "dial",
           \/ thread'[t].pc \notin {"idle", "conna", "conn"}
           \/ thread'[t].phase \notin {"send", "answer", "completed"}
    PROVE  LineInv(t)'
<1>1. StateOK(t, thread'[t])
  BY DEF TypeInv, ThreadsOK
<1>2. \A u \in {thread'[t]} : /\ u.pc \notin {"idle", "conna", "conn"} => u.phase \notin {"answer", "completed"}
                              /\ \/ u.pc \notin {"idle", "conna", "conn"}
                                 \/ u.phase \notin {"send", "answer", "completed"}
  BY <1>1 DEF StateOK, ThreadState, Dialing, Hanging, Clearing
<1>3. (\A u \in {thread[t]}, c \in {CommandOf(t)} : TalkInv(u, c))'
  <2> SUFFICES ASSUME NEW u \in {thread'[t]}, NEW c \in {CommandOf(t)'} PROVE TalkInv(u, c)'
    OBVIOUS
  <2> QED BY <1>2 DEF TalkInv
<1> QED BY <1>3 DEF LineInv

LEMMA LineEnvironment ==
    ASSUME TypeInv, Environment, NEW t \in Thread, LineInv(t)
    PROVE  LineInv(t)'
<1>1. UNCHANGED <<thread, open>>
  BY EnvironmentKeeps DEF broker, history
<1>2. HungInv(t)'
  BY <1>1, GoneStays DEF LineInv, HungInv
<1>3. Clean => Clean'
  BY DEF Environment, ManagerCalls, Modem, ModemReads, ModemConnects, DeviceHears, RadioDelivers,
         ConnectionBreaks, Clean, link
<1>4. CommandOf(t)' = CommandOf(t)
  BY <1>1 DEF CommandOf
<1>5. (\A u \in {thread[t]}, c \in {CommandOf(t)} : TalkInv(u, c))'
  <2> SUFFICES ASSUME NEW u \in {thread[t]}, NEW c \in {CommandOf(t)} PROVE TalkInv(u, c)'
    BY <1>1, <1>4
  <2>1. TalkInv(u, c)
    BY DEF LineInv
  <2>2. /\ u.buf \in Seq(Unit) /\ c \in Command /\ c.kind # "SYN"
        /\ u.phase \in {"send", "answer", "completed"} => u.dev \in Dev
    BY TalkIsAbout
  <2>3. ASSUME u.phase = "send", u.pc \in {"conna", "conn", "idle"} PROVE Mute(u.dev, c)'
    <3>1. Mute(u.dev, c) /\ u.dev \in Dev
      BY <2>1, <2>2, <2>3 DEF TalkInv
    <3> QED BY <2>2, <3>1, MuteStays
  <2>4. ASSUME u.phase = "answer" PROVE Exchange(u.buf, u.dev, c)'
    <3>1. Exchange(u.buf, u.dev, c) /\ u.dev \in Dev
      BY <2>1, <2>2, <2>4 DEF TalkInv
    <3> QED BY <2>2, <3>1, ExchangeStays
  <2>5. u.phase = "completed" => Whole(u.buf, u.dev, c)
    BY <2>1 DEF TalkInv
  <2> QED BY <2>3, <2>4, <2>5 DEF TalkInv, Whole, IsAnswer
<1> QED BY <1>1, <1>2, <1>3, <1>5 DEF LineInv

\* After the clearing nothing is left.
LEMMA Cleared ==
    ASSUME TypeInv, Gone, tx = <<>>, rx' = <<>>, UNCHANGED <<tx, link>>
    PROVE  Clean'
BY DEF TypeInv, LineOK, Gone, Clean, link

LEMMA MuteDials ==
    ASSUME TypeInv, Clean, NEW d \in Dev, NEW c, Write("AT+CON", d), UNCHANGED <<rx, link>>
    PROVE  Mute(d, c)'
<1>1. PICK x : x = [op |-> "AT+CON", dev |-> d]
  OBVIOUS
<1>2. x.op = "AT+CON" /\ x.dev = d
  BY <1>1
<1>3. tx' = <<x>> /\ Len(tx') = 1 /\ tx'[1] = x
  BY <1>1 DEF Write, Clean
<1>4. rx' = <<>> /\ air' = <<>> /\ out' = <<>> /\ dialing' = NULL /\ linked' = NULL
  BY DEF Clean, link
<1>5. OnlyFor(d, c)'
  BY <1>2, <1>3, <1>4 DEF OnlyFor
<1>6. ~ InTx'
  BY <1>2, <1>3 DEF InTx
<1> QED BY <1>4, <1>5, <1>6 DEF Mute, NoAnswer

LEMMA MuteReads ==
    ASSUME TypeInv, NEW d, NEW c, Mute(d, c), UNCHANGED <<tx, link>>,
           \/ UNCHANGED rx
           \/ \E r \in Seq(Unit) : rx # <<>> /\ NoAnswer(r) /\ rx' = r \o Tail(rx)
    PROVE  Mute(d, c)'
<1>1. OnlyFor(d, c) /\ ~ InTx /\ air = <<>> /\ out = <<>> /\ NoAnswer(rx)
  BY DEF Mute
<1>2. OnlyFor(d, c)' /\ ~ InTx' /\ air' = <<>> /\ out' = <<>>
  BY <1>1 DEF OnlyFor, InTx, link
<1>3. NoAnswer(rx)'
  <2>1. CASE UNCHANGED rx
    BY <1>1, <2>1 DEF NoAnswer
  <2>2. ASSUME NEW r \in Seq(Unit), rx # <<>>, NoAnswer(r), rx' = r \o Tail(rx) PROVE NoAnswer(rx)'
    <3>1. PICK q : q = Tail(rx)
      OBVIOUS
    <3>2. q \in Seq(Unit) /\ \A k \in 1 .. Len(q) : ~ IsAnswer(q[k])
      <4>1. /\ q \in Seq(Unit) /\ \A k \in 1 .. Len(q) : k + 1 \in 1 .. Len(rx) /\ q[k] = rx[k + 1]
        BY <2>2, <3>1, Shorter DEF TypeInv, LineOK
      <4> QED BY <1>1, <4>1 DEF NoAnswer
    <3>3. PICK v : v = r \o q
      OBVIOUS
    <3>4. /\ Len(r) \in Nat /\ Len(q) \in Nat /\ Len(v) = Len(r) + Len(q)
          /\ \A k \in 1 .. Len(r) : v[k] = r[k]
          /\ \A k \in 1 .. Len(r) + Len(q) : k > Len(r) => v[k] = q[k - Len(r)]
      BY <3>2, <3>3, Joined
    <3>5. ASSUME NEW k \in 1 .. Len(v) PROVE ~ IsAnswer(v[k])
      <4>1. CASE k \in 1 .. Len(r)
        BY <2>2, <3>4, <4>1 DEF NoAnswer
      <4>2. CASE k \notin 1 .. Len(r)
        <5>1. k - Len(r) \in 1 .. Len(q) /\ v[k] = q[k - Len(r)]
          BY <3>4, <4>2
        <5> QED BY <3>2, <5>1
      <4> QED BY <4>1, <4>2
    <3>6. rx' = v
      BY <2>2, <3>1, <3>3
    <3> QED BY <3>5, <3>6 DEF NoAnswer
  <2> QED BY <2>1, <2>2
<1> QED BY <1>2, <1>3 DEF Mute

\* The command goes out.
LEMMA MuteSays ==
    ASSUME TypeInv, NEW d \in Dev, NEW c \in Command, Mute(d, c), send_command_to_ble_device(d, c),
           UNCHANGED <<rx, link>>
    PROVE  Exchange(<<>>, d, c)'
<1>1. OnlyFor(d, c) /\ ~ InTx /\ air = <<>> /\ out = <<>> /\ NoAnswer(rx) /\ tx \in Seq(Order \cup Data)
      /\ rx \in Seq(Unit)
  BY DEF Mute, TypeInv, LineOK
<1>2. PICK x : x = [op |-> "data", dev |-> d, cmd |-> c]
  OBVIOUS
<1>3. x.op = "data" /\ x.dev = d /\ x.cmd = c /\ x \in Order \cup Data
  BY <1>2, DataType
<1>4. tx' = Append(tx, x)
  BY <1>2 DEF send_command_to_ble_device
<1>5. /\ Len(tx) \in Nat /\ Len(tx') = Len(tx) + 1 /\ tx'[Len(tx) + 1] = x
      /\ \A k \in 1 .. Len(tx) : tx'[k] = tx[k]
  BY <1>1, <1>3, <1>4, Longer
<1>6. \A k \in 1 .. Len(tx) : tx[k].dev = d /\ tx[k].op = "AT+CON"
  <2> SUFFICES ASSUME NEW k \in 1 .. Len(tx) PROVE tx[k].dev = d /\ tx[k].op = "AT+CON"
    OBVIOUS
  <2>1. tx[k].op = "data" => k = Len(tx) /\ InTx
    BY <1>1, <1>5 DEF OnlyFor, InTx
  <2> QED BY <1>1, <2>1 DEF OnlyFor
<1>7. OnlyFor(d, c)'
  <2>1. \A k \in 1 .. Len(tx') : /\ tx'[k].dev = d /\ tx'[k].op \in {"AT+CON", "data"}
                                 /\ tx'[k].op = "data" => k = Len(tx') /\ tx'[k].cmd = c
    BY <1>3, <1>5, <1>6
  <2> QED BY <1>1, <2>1 DEF OnlyFor, link
<1>8. air' = <<>> /\ out' = <<>> /\ <<>> \o rx' = rx
  BY <1>1, Moves DEF link
<1>9. Units(rx, d, c) /\ ToCome(rx, <<>>, d, c)
  BY <1>1, NoUnits
<1> QED BY <1>1, <1>7, <1>8, <1>9 DEF Exchange

LEMMA LineCollects ==
    ASSUME TypeInv, NEW t \in Thread, LineInv(t), Collect(t)
    PROVE  LineInv(t)'
<1> DEFINE s == thread[t]
<1>1. /\ s \in ThreadState /\ s.phase = "answer" /\ s.pc = "idle" /\ s.buf \in Seq(Unit) /\ s = me(t)
      /\ s.dev \in Dev
  BY TalkIsAbout DEF Collect, Idle, AtPc, me
<1>2. PICK c : c = CommandOf(t)
  OBVIOUS
<1>3. CommandOf(t)' = c /\ UNCHANGED <<tx, link>>
  BY <1>2 DEF Collect, CommandOf, history
<1>4. Exchange(s.buf, s.dev, c)
  BY <1>1, <1>2 DEF LineInv, TalkInv
<1>5. HungInv(t)' /\ TypeInv'
  BY HungStep, StepType DEF LineInv, Step
<1>6. CASE rx # <<>> /\ rx' = Tail(rx)
           /\ LET b == Append(s.buf, Head(rx)) IN
              Goes(t, [s EXCEPT !.buf = b, !.phase = IF Completed(b) THEN "completed" ELSE @])
  <2>1. PICK b, p : /\ b = Append(s.buf, Head(rx)) /\ p = IF Completed(b) THEN "completed" ELSE "answer"
                    /\ Goes(t, [s EXCEPT !.buf = b, !.phase = p])
    BY <1>1, <1>6
  <2>2. Head(rx) \in Unit /\ rx \in Seq(Unit) /\ Tail(rx) \in Seq(Unit)
    BY <1>6, Shorter DEF TypeInv, LineOK
  <2>3. b \in Seq(Unit) /\ b # <<>> /\ b \o Tail(rx) = s.buf \o rx
    <3>1. b \in Seq(Unit) /\ b # <<>>
      BY <1>1, <2>1, <2>2, Longer
    <3>2. Append(s.buf, Head(rx)) \o Tail(rx) = s.buf \o rx
      BY <1>1, <1>6, <2>2, Moves
    <3> QED BY <2>1, <3>1, <3>2
  <2>4. PICK u : u = [s EXCEPT !.buf = b, !.phase = p]
    OBVIOUS
  <2>5. u \in ThreadState /\ u.phase = p /\ u.pc = "idle" /\ u.buf = b /\ u.dev = s.dev
    <3>1. p \in {"completed", "answer"}
      BY <2>1
    <3> HIDE DEF s
    <3> QED BY <1>1, <2>3, <2>4, <3>1 DEF ThreadState
  <2>6. thread'[t] = u
    BY <2>1, <2>4, <2>5, Went
  <2>7. PICK d : d = s.dev
    OBVIOUS
  <2>8. /\ OnlyFor(d, c) /\ Units(s.buf \o rx, d, c) /\ ToCome(s.buf \o rx, out, d, c)
        /\ InTx => air = <<>>
        /\ InTx \/ air # <<>> => out = <<>> /\ NoAnswer(s.buf \o rx)
    BY <1>4, <2>7 DEF Exchange
  <2>9. Exchange(b, d, c)'
    <3>1. OnlyFor(d, c)' /\ (InTx' <=> InTx) /\ UNCHANGED <<air, out>>
      BY <1>3, <2>8 DEF OnlyFor, InTx, link
    <3>2. b \o rx' = s.buf \o rx
      BY <1>6, <2>3
    <3> QED BY <2>8, <3>1, <3>2 DEF Exchange
  <2>10. Completed(b) => Whole(b, d, c)
    <3>1. Units(b \o Tail(rx), d, c)
      BY <2>3, <2>8
    <3> QED BY <2>2, <2>3, <3>1, CompletedIsWhole
  <2>11. TalkInv(u, c)'
    BY <2>1, <2>5, <2>7, <2>9, <2>10 DEF TalkInv, Whole, IsAnswer
  <2>12. (\A v \in {thread[t]}, e \in {CommandOf(t)} : TalkInv(v, e))'
    BY <1>3, <2>6, <2>11
  <2> QED BY <1>5, <2>5, <2>6, <2>12 DEF LineInv
<1>7. CASE Goes(t, [s EXCEPT !.phase = "timeout"])
  <2>1. PICK u : u = [s EXCEPT !.phase = "timeout"]
    OBVIOUS
  <2>2. u \in ThreadState /\ u.phase = "timeout" /\ u.pc = "idle"
    BY <1>1, <2>1 DEF ThreadState
  <2>3. thread'[t] = u
    BY <1>7, <2>1, <2>2, Went
  <2> QED BY <1>5, <2>2, <2>3, ElsewhereNext
<1> QED BY <1>1, <1>6, <1>7 DEF Collect

LEMMA LineStep ==
    ASSUME TypeInv, NEW t \in Thread, LineInv(t), Step(t), Drain(t) => tx = <<>>
    PROVE  LineInv(t)'
<1> DEFINE s == thread[t]
<1>1. /\ s \in ThreadState /\ StateOK(t, s) /\ s = me(t)
  BY TalkIsAbout DEF me
<1>2. HungInv(t)' /\ TypeInv'
  BY HungStep, StepType DEF LineInv
<1>3. CASE Collect(t)
  BY <1>3, LineCollects
<1>4. ASSUME ~ Collect(t) PROVE thread'[t].phase = s.phase
  <2>1. PICK u : Goes(t, u) /\ StateOK(t, u) /\ (u.phase = s.phase \/ s.phase = "answer")
    BY <1>1, StepGoes
  <2>2. thread'[t] = u
    BY <2>1, Went DEF StateOK
  <2>3. s.phase # "answer"
    <3>1. s.pc # "idle"
      BY <1>4 DEF Step, Clear, Drain, Dial, ReadConn, HangUp, ReadLost, AtPc, me
    <3> QED BY <1>1, <3>1 DEF StateOK, ThreadState, Dialing, Hanging, Clearing
  <2> QED BY <2>1, <2>2, <2>3
<1>5. CASE Clear(t)
  <2>1. thread'[t].pc \in {"drain", "drain again"}
    BY <1>5, StepPlaces DEF Clear, Drain, Dial, ReadConn, HangUp, ReadLost, Collect, AtPc, Idle, me
  <2> QED BY <1>2, <2>1, ElsewhereNext
<1>6. CASE Drain(t)
  <2>1. /\ s.pc \in {"drain", "drain again"} /\ tx = <<>> /\ rx' = <<>> /\ UNCHANGED <<tx, link>>
        /\ thread'[t].phase = s.phase
    <3>1. s.pc \in {"drain", "drain again"} /\ tx = <<>> /\ rx' = <<>> /\ UNCHANGED <<tx, link>>
      BY <1>6 DEF Drain, AtPc, me
    <3>2. s.pc # "idle"
      BY <3>1
    <3>3. ~ Collect(t)
      BY <3>2 DEF Collect, Idle, AtPc, me
    <3> QED BY <1>4, <3>1, <3>3
  <2>2. Clean'
    <3>1. Gone
      BY <2>1 DEF LineInv, HungInv, Hanging
    <3> QED BY <2>1, <3>1, Cleared
  <2>3. \/ thread'[t].pc \in {"dial", "hang up", "clear"}
        \/ s.phase \notin {"send", "answer", "completed"} /\ thread'[t].pc = "idle"
    <3>1. s.pc = "drain again" => s.phase \notin {"send", "answer", "completed"}
      BY <1>1 DEF StateOK, Hanging
    <3>2. ~ Clear(t) /\ ~ Dial(t) /\ ~ ReadConn(t) /\ ~ HangUp(t) /\ ~ ReadLost(t) /\ ~ Collect(t)
      BY <2>1 DEF Clear, Dial, ReadConn, HangUp, ReadLost, Collect, AtPc, Idle, me
    <3> QED BY <3>1, <3>2, StepPlaces
  <2>4. CASE thread'[t].pc = "dial"
    <3>1. (\A u \in {thread[t]}, c \in {CommandOf(t)} : TalkInv(u, c))'
      <4>1. StateOK(t, thread'[t])
        BY <1>2 DEF TypeInv, ThreadsOK
      <4>2. thread'[t].phase \notin {"answer", "completed"}
        BY <2>4, <4>1 DEF StateOK, Dialing
      <4> QED BY <2>4, <4>2 DEF TalkInv
    <3> QED BY <1>2, <2>2, <3>1 DEF LineInv
  <2>5. CASE thread'[t].pc # "dial"
    <3>1. \/ thread'[t].pc \notin {"idle", "conna", "conn"}
          \/ thread'[t].phase \notin {"send", "answer", "completed"}
      BY <2>1, <2>3, <2>5
    <3> QED BY <1>2, <2>5, <3>1, ElsewhereNext
  <2> QED BY <2>4, <2>5
<1>7. ASSUME thread'[t].pc \in {"conna", "conn", "idle"}, thread'[t].dev = s.dev, thread'[t].phase = s.phase,
             s.phase \in {"syn", "send"}, UNCHANGED open,
             \A d \in Dev, c \in Command : s.phase = "send" /\ d = s.dev /\ c = CommandOf(t) => Mute(d, c)'
      PROVE  LineInv(t)'
  <2>1. (\A u \in {thread[t]}, c \in {CommandOf(t)} : TalkInv(u, c))'
    <3> SUFFICES ASSUME NEW u \in {thread'[t]}, NEW c \in {CommandOf(t)} PROVE TalkInv(u, c)'
      BY <1>7 DEF CommandOf
    <3>1. u.phase = "send" => s.dev \in Dev /\ c \in Command /\ u.dev = s.dev
      BY <1>7, TalkIsAbout
    <3>2. u.phase = "send" => Mute(u.dev, c)'
      BY <1>7, <3>1
    <3> QED BY <1>7, <3>2 DEF TalkInv
  <2> QED BY <1>2, <1>7, <2>1 DEF LineInv
<1>8. UNCHANGED open
  BY StepKeeps DEF history
<1>9. CASE Dial(t)
  <2>1. s.pc = "dial" /\ Write("AT+CON", s.dev) /\ UNCHANGED <<rx, link>>
    BY <1>9 DEF Dial, AtPc, me
  <2>2. s.phase \in {"syn", "send"} /\ s.dev \in Dev
    BY <1>1, <2>1 DEF StateOK, Dialing, Meant
  <2>3. ~ Clear(t) /\ ~ Drain(t) /\ ~ ReadConn(t) /\ ~ HangUp(t) /\ ~ ReadLost(t) /\ ~ Collect(t)
    BY <2>1 DEF Clear, Drain, ReadConn, HangUp, ReadLost, Collect, AtPc, Idle, me
  <2>4. thread'[t].pc = "conna" /\ thread'[t].dev = s.dev /\ thread'[t].phase = s.phase
    BY <1>4, <2>3, StepPlaces
  <2>5. Clean
    BY <2>1 DEF LineInv
  <2>6. \A d \in Dev, c \in Command : s.phase = "send" /\ d = s.dev /\ c = CommandOf(t) => Mute(d, c)'
    BY <2>1, <2>5, MuteDials
  <2> QED BY <1>7, <1>8, <2>2, <2>4, <2>6
<1>10. CASE ReadConn(t)
  <2>1. /\ s.pc \in {"conna", "conn"} /\ UNCHANGED <<tx, link>>
        /\ \/ UNCHANGED rx
           \/ rx # <<>> /\ rx' = (IF AtPc(t, "conn") THEN RestOf(Head(rx)) ELSE <<>>) \o Tail(rx)
    BY <1>10 DEF ReadConn, AtPc, me
  <2>2. s.phase \in {"syn", "send"}
    BY <1>1, <2>1 DEF StateOK, Dialing
  <2>3. ~ Clear(t) /\ ~ Drain(t) /\ ~ Dial(t) /\ ~ HangUp(t) /\ ~ ReadLost(t) /\ ~ Collect(t)
    BY <2>1 DEF Clear, Drain, Dial, HangUp, ReadLost, Collect, AtPc, Idle, me
  <2>4. thread'[t].pc \in {"idle", "conn"} /\ thread'[t].dev = s.dev /\ thread'[t].phase = s.phase
    BY <1>4, <2>3, StepPlaces
  <2>5. \/ UNCHANGED rx
        \/ \E r \in Seq(Unit) : rx # <<>> /\ NoAnswer(r) /\ rx' = r \o Tail(rx)
    <3>1. <<>> \in Seq(Unit) /\ NoAnswer(<<>>)
      BY DEF NoAnswer
    <3> QED BY <2>1, <3>1, RestType
  <2>6. \A d \in Dev, c \in Command : s.phase = "send" /\ d = s.dev /\ c = CommandOf(t) => Mute(d, c)'
    <3> SUFFICES ASSUME NEW d \in Dev, NEW c \in Command, s.phase = "send", d = s.dev, c = CommandOf(t)
                 PROVE  Mute(d, c)'
      OBVIOUS
    <3>1. Mute(d, c)
      BY <2>1 DEF LineInv, TalkInv
    <3> QED BY <2>1, <2>5, <3>1, MuteReads
  <2> QED BY <1>7, <1>8, <2>2, <2>4, <2>6
<1>11. CASE HangUp(t)
  <2>1. s.pc = "hang up"
    BY <1>11 DEF HangUp, AtPc, me
  <2>2. ~ Clear(t) /\ ~ Drain(t) /\ ~ Dial(t) /\ ~ ReadConn(t) /\ ~ ReadLost(t) /\ ~ Collect(t)
    BY <2>1 DEF Clear, Drain, Dial, ReadConn, ReadLost, Collect, AtPc, Idle, me
  <2>3. thread'[t].pc = "lost"
    BY <2>2, StepPlaces
  <2> QED BY <1>2, <2>3, ElsewhereNext
<1>12. CASE ReadLost(t)
  <2>1. s.pc = "lost"
    BY <1>12 DEF ReadLost, AtPc, me
  <2>2. ~ Clear(t) /\ ~ Drain(t) /\ ~ Dial(t) /\ ~ ReadConn(t) /\ ~ HangUp(t) /\ ~ Collect(t)
    BY <2>1 DEF Clear, Drain, Dial, ReadConn, HangUp, Collect, AtPc, Idle, me
  <2>3. thread'[t].pc \in {"idle", "clear again"} /\ thread'[t].phase = s.phase
    BY <1>4, <2>2, StepPlaces
  <2>4. s.phase \notin {"send", "answer", "completed"}
    BY <1>1, <2>1 DEF StateOK, Hanging
  <2> QED BY <1>2, <2>3, <2>4, ElsewhereNext
<1> QED BY <1>3, <1>5, <1>6, <1>9, <1>10, <1>11, <1>12 DEF Step

\* A thread that goes on to dial or to hang up.
LEMMA LineGoes ==
    ASSUME TypeInv, NEW t \in Thread, NEW u, StateOK(t, u), Goes(t, u), u.pc \notin {"dial"},
           HungInv(t)', TypeInv',
           u.pc \notin {"idle", "conna", "conn"} \/ u.phase \notin {"send", "answer", "completed"}
    PROVE  LineInv(t)'
<1>1. thread'[t] = u
  BY Went DEF StateOK
<1> QED BY <1>1, ElsewhereNext

\* ... and one that speaks.
LEMMA LineSays ==
    ASSUME TypeInv, NEW t \in Thread, LineInv(t), HungInv(t)', UNCHANGED <<open, rx, link>>,
           thread[t].phase = "send", thread[t].pc = "idle",
           send_command_to_ble_device(thread[t].dev, CommandOf(t)),
           NEW u \in ThreadState, Goes(t, u), u.phase = "answer", u.pc = "idle", u.buf = <<>>,
           u.dev = thread[t].dev
    PROVE  LineInv(t)'
<1>1. PICK d, c : d = thread[t].dev /\ c = CommandOf(t)
  OBVIOUS
<1>2. d \in Dev /\ c \in Command
  BY <1>1, TalkIsAbout
<1>3. Mute(d, c)
  BY <1>1 DEF LineInv, TalkInv
<1>4. Exchange(<<>>, d, c)'
  <2>1. send_command_to_ble_device(d, c)
    BY <1>1
  <2> QED BY <1>2, <1>3, <2>1, MuteSays
<1>5. thread'[t] = u
  BY Went
<1>6. CommandOf(t)' = c
  BY <1>1 DEF CommandOf
<1>7. TalkInv(u, c)'
  <2>1. u.dev = d
    BY <1>1
  <2>2. u.phase # "send" /\ u.phase # "completed" /\ u.buf = <<>>
    OBVIOUS
  <2> QED BY <1>4, <2>1, <2>2 DEF TalkInv
<1>8. (\A v \in {thread[t]}, e \in {CommandOf(t)} : TalkInv(v, e))'
  BY <1>5, <1>6, <1>7
<1> QED BY <1>5, <1>8 DEF LineInv

----------------------------------------------------------------------------
\* ServeInv, and the promise to the manager.

LEMMA ServeInit == Init /\ ~ given.scan => ServeInv
<1> SUFFICES ASSUME Init, ~ given.scan PROVE ServeInv
  OBVIOUS
<1>1. InitServing /\ InitLine
  BY DEF Init, InitScanning, InitServing
<1>2. thread["main"] = At("done", "idle", NULL) /\ thread["listener"] = At("recv", "idle", NULL)
  BY <1>1, Threads DEF InitServing
<1>3. Gone /\ open = 0
  BY <1>1 DEF InitLine, Gone
<1>4. HungInv("listener")
  BY <1>3 DEF HungInv
<1>5. LineInv("listener")
  BY <1>2, <1>4 DEF LineInv, TalkInv, At
<1> QED BY <1>2, <1>3, <1>5 DEF ServeInv, ServedOK, At

\* Made of all of one answer, it carries what the device said to the command.
LEMMA WholeCarries ==
    ASSUME NEW b \in Seq(Unit), b # <<>>, NEW d, NEW n, Whole(b, d, Call(n))
    PROVE  Content(b) = {[n |-> n, dev |-> d]}
<1>1. 1 \in 1 .. Len(b)
  BY Shorter
<1>2. \A k \in 1 .. Len(b) : b[k].unit = "answer" /\ b[k].from = d /\ b[k].cmd.n = n
  BY DEF Whole, IsAnswer, Call
<1>3. PICK s : s = [n |-> n, dev |-> d]
  OBVIOUS
<1>4. \A u \in {b[k] : k \in 1 .. Len(b)} :
          (IF u.unit = "answer" THEN [n |-> u.cmd.n, dev |-> u.from] ELSE [n |-> 0, dev |-> NULL]) = s
  BY <1>2, <1>3
<1>5. \E u \in {b[k] : k \in 1 .. Len(b)} : TRUE
  BY <1>1
<1> QED BY <1>3, <1>4, <1>5 DEF Content

LEMMA ListenerServes ==
    ASSUME TypeInv, ServeInv, Listener, Prompt
    PROVE  ServeInv' /\ [Promise!Next]_(Promise!vars)
<1> USE Threads
<1> DEFINE s == thread["listener"]
           Idles == UNCHANGED <<asked, open, answers>>
<1>1. /\ s \in ThreadState /\ StateOK("listener", s) /\ s = me("listener")
      /\ s.phase \in {"send", "answer", "completed", "timeout"} => s.dev \in Dev
  <2>1. s \in ThreadState /\ StateOK("listener", s) /\ s = me("listener")
    BY TalkIsAbout DEF me
  <2> QED BY <2>1 DEF StateOK, Meant
<1>2. /\ thread["main"].phase = "done" /\ thread["main"].pc = "idle" /\ UNCHANGED thread["main"]
      /\ UNCHANGED link
  BY ListenerKeeps DEF ServeInv, ServedOK
<1>3. /\ open = 0 <=> s.phase \in {"recv", "close"}
      /\ open # 0 => open = Len(asked) /\ asked[open] = s.dev
      /\ LineInv("listener") /\ HungInv("listener")' /\ TypeInv'
      /\ asked \in Seq(Dev \cup {NULL}) /\ Len(asked) \in Nat /\ open \in Nat
  <2>1. HungInv("listener")' /\ TypeInv'
    BY HungListener, TypeListener DEF ServeInv, LineInv
  <2> QED BY <2>1 DEF ServeInv, ServedOK, TypeInv, ManagerOK
<1>4. Idles => [Promise!Next]_(Promise!vars)
  BY DEF Promise!vars
<1>5. ASSUME NEW u, StateOK("listener", u), Goes("listener", u), u.pc # "dial",
             u.pc \notin {"idle", "conna", "conn"} \/ u.phase \notin {"send", "answer", "completed"},
             open' = 0 <=> u.phase \in {"recv", "close"},
             open' # 0 => open' = Len(asked') /\ asked'[open'] = u.dev
      PROVE  ServeInv'
  <2>1. LineInv("listener")'
    BY <1>3, <1>5, LineGoes
  <2>2. thread'["listener"] = u
    BY <1>5, Went DEF StateOK
  <2> QED BY <1>2, <1>5, <2>1, <2>2 DEF ServeInv, ServedOK
<1>6. CASE Step("listener")
  <2>1. Idles
    BY <1>6, StepKeeps DEF history
  <2>2. LineInv("listener")'
    BY <1>3, <1>6, LineStep DEF Prompt
  <2>3. thread'["listener"].dev = s.dev
    BY <1>6, StepPlaces
  <2>4. thread'["listener"].phase \in {"recv", "close"} <=> s.phase \in {"recv", "close"}
    <3>1. PICK u : Goes("listener", u) /\ StateOK("listener", u) /\ (u.phase = s.phase \/ s.phase = "answer")
      BY <1>1, <1>6, StepGoes
    <3>2. thread'["listener"] = u
      BY <3>1, Went DEF StateOK
    <3>3. u.phase = s.phase \/ u.phase \in {"completed", "timeout"}
      BY <1>6, <3>2, StepPlaces
    <3> QED BY <3>1, <3>2, <3>3
  <2> QED BY <1>2, <1>3, <1>4, <2>1, <2>2, <2>3, <2>4 DEF ServeInv, ServedOK
<1>7. CASE TakeCall
  <2> DEFINE at == find_BLE_device_index_by_IoTIp(Head(calls))
  <2>1. s.phase = "recv" /\ s.pc = "idle" /\ open = 0 /\ UNCHANGED <<tx, rx, answers>>
    BY <1>1, <1>3, <1>7 DEF TakeCall, Idle, AtPc
  <2>2. CASE at = {}
    <3>1. asked' = Append(asked, NULL) /\ UNCHANGED <<thread, open>>
      BY <1>7, <2>2 DEF TakeCall
    <3>2. ServeInv'
      <4>1. LineInv("listener")'
        BY <1>3, <2>1, <3>1 DEF LineInv, TalkInv
      <4> QED BY <1>3, <2>1, <3>1, <4>1 DEF ServeInv, ServedOK
    <3>3. Promise!Ask(NULL)
      BY <2>1, <3>1 DEF Promise!Ask
    <3> QED BY <3>2, <3>3 DEF Promise!Next
  <2>3. CASE at # {}
    <3>1. PICK d : d = ble_devices[First(at)].addr
      OBVIOUS
    <3>2. d \in Dev
      BY <2>3, <3>1, LookupType DEF find_BLE_device_index_by_IoTIp
    <3>3. asked' = Append(asked, d) /\ open' = Len(asked) + 1 /\ Goes("listener", Conn(s, d, "send"))
      BY <1>1, <1>7, <2>3, <3>1 DEF TakeCall
    <3>4. d # NULL
      BY <3>2, NullAssumption
    <3>5. ServeInv'
      <4>1. PICK u : u = Conn(s, d, "send")
        OBVIOUS
      <4>2. StateOK("listener", u) /\ u.phase = "send" /\ u.pc = "clear" /\ u.dev = d
        BY <1>1, <3>2, <4>1, ConnOK DEF PhasesOf
      <4>3. open' # 0 /\ open' = Len(asked') /\ asked'[open'] = d
        BY <1>3, <3>2, <3>3
      <4> QED BY <1>5, <3>3, <4>1, <4>2, <4>3
    <3>6. Promise!Ask(d)
      BY <2>1, <3>3, <3>4 DEF Promise!Ask
    <3> QED BY <3>2, <3>5, <3>6 DEF Promise!Next
  <2> QED BY <2>2, <2>3
<1>8. /\ StateOK("listener", Disconn(s, "close")) /\ Disconn(s, "close").pc = "clear"
      /\ Disconn(s, "close").phase = "close"
  BY <1>1, DisconnOK DEF PhasesOf, Meant
<1>9. ASSUME open # 0, open' = 0, UNCHANGED <<asked, answers>> PROVE [Promise!Next]_(Promise!vars)
  BY <1>9 DEF Promise!Next, Promise!GiveUp
<1>10. CASE SendCall
  <2>1. s.phase = "send" /\ s.pc = "idle" /\ UNCHANGED <<rx, asked, answers>> /\ open # 0
    BY <1>1, <1>3, <1>10 DEF SendCall, Idle, AtPc
  <2>2. CASE s.ok
    <3>1. /\ send_command_to_ble_device(s.dev, Call(open)) /\ UNCHANGED open
          /\ Goes("listener", [s EXCEPT !.phase = "answer", !.buf = <<>>])
      BY <1>1, <1>10, <2>2 DEF SendCall, FreshBuffer
    <3>2. PICK u : u = [s EXCEPT !.phase = "answer", !.buf = <<>>]
      OBVIOUS
    <3>3. u \in ThreadState /\ u.phase = "answer" /\ u.pc = "idle" /\ u.buf = <<>> /\ u.dev = s.dev
      <4>1. <<>> \in Seq(Unit)
        OBVIOUS
      <4> HIDE DEF s
      <4> QED BY <1>1, <2>1, <3>2, <4>1 DEF ThreadState
    <3>4. LineInv("listener")'
      <4>1. send_command_to_ble_device(s.dev, CommandOf("listener"))
        BY <3>1 DEF CommandOf
      <4> QED BY <1>2, <1>3, <2>1, <3>1, <3>2, <3>3, <4>1, LineSays
    <3>5. thread'["listener"] = u
      BY <3>1, <3>2, <3>3, Went
    <3>6. ServeInv'
      BY <1>2, <1>3, <2>1, <3>1, <3>3, <3>4, <3>5 DEF ServeInv, ServedOK
    <3> QED BY <1>4, <2>1, <3>1, <3>6
  <2>3. CASE ~ s.ok
    <3>1. Goes("listener", Disconn(s, "close")) /\ open' = 0
      BY <1>1, <1>10, <2>3 DEF SendCall
    <3> QED BY <1>5, <1>8, <1>9, <2>1, <3>1
  <2> QED BY <2>2, <2>3
<1>11. CASE SendAnswer
  <2>1. /\ s.phase \in {"completed", "timeout"} /\ s.pc = "idle" /\ UNCHANGED asked /\ open # 0 /\ open' = 0
        /\ Goes("listener", Disconn(s, "close"))
        /\ answers' = IF s.phase = "completed"
                      THEN Append(answers, [to |-> open, carries |-> Content(s.buf)]) ELSE answers
    BY <1>1, <1>3, <1>11 DEF SendAnswer, Answered, Idle, AtPc
  <2>2. ServeInv'
    BY <1>5, <1>8, <2>1
  <2>3. CASE s.phase = "timeout"
    BY <1>9, <2>1, <2>2, <2>3
  <2>4. CASE s.phase = "completed"
    <3>1. PICK S : S = {[n |-> open, dev |-> asked[open]]}
      OBVIOUS
    <3>2. Content(s.buf) = S
      <4>1. s.buf \in Seq(Unit) /\ s.buf # <<>>
        BY <1>1, <2>4, TalkIsAbout DEF StateOK
      <4>2. Whole(s.buf, s.dev, Call(open))
        BY <1>3, <2>4 DEF LineInv, TalkInv, CommandOf
      <4>3. s.dev = asked[open]
        BY <1>3, <2>1
      <4> QED BY <3>1, <4>1, <4>2, <4>3, WholeCarries
    <3>3. asked[open] # NULL /\ open \in 1 .. Len(asked)
      <4>1. asked[open] = s.dev /\ s.dev \in Dev /\ open = Len(asked)
        BY <1>1, <1>3, <2>1
      <4> QED BY <1>3, <2>1, <4>1, NullAssumption
    <3>4. S \in SUBSET Promise!SaidSoFar /\ S # {}
      BY <3>1, <3>3 DEF Promise!SaidSoFar
    <3>5. Promise!Answer(S)
      BY <2>1, <2>4, <3>1, <3>2, <3>4 DEF Promise!Answer
    <3> QED BY <2>2, <3>4, <3>5 DEF Promise!Next
  <2> QED BY <2>1, <2>3, <2>4
<1>12. CASE Disconnected
  <2>1. /\ s.phase = "close" /\ s.pc = "idle" /\ Idles
        /\ Goes("listener", [s EXCEPT !.phase = "recv", !.dev = NULL])
    BY <1>1, <1>12 DEF Disconnected, Idle, AtPc, history
  <2>2. PICK u : u = [s EXCEPT !.phase = "recv", !.dev = NULL]
    OBVIOUS
  <2>3. u \in ThreadState /\ u.phase = "recv" /\ u.pc = "idle"
    <3> HIDE DEF s
    <3> QED BY <1>1, <2>1, <2>2 DEF ThreadState
  <2>4. StateOK("listener", u)
    BY <2>3 DEF StateOK, PhasesOf, Meant, Dialing, Hanging, Clearing
  <2>5. ServeInv'
    BY <1>3, <1>5, <2>1, <2>2, <2>3, <2>4
  <2> QED BY <1>4, <2>1, <2>5
<1> QED BY <1>6, <1>7, <1>10, <1>11, <1>12 DEF Listener

LEMMA MainKeeps ==
    ASSUME TypeInv, Main
    PROVE  UNCHANGED <<given, asked, open, answers, calls, thread["listener"]>>
<1> USE Threads DEF manager, history
<1>1. UNCHANGED <<given, asked, open, answers, calls>>
  <2>1. CASE Step("main")
    BY <2>1, StepKeeps
  <2>2. CASE ~ Step("main")
    BY <2>2 DEF Main, Discover, ReadList, NextDevice, SendSyn, ReadAck, Enter, SendDes,
                TryDescription, TryAgain, Register
  <2> QED BY <2>1, <2>2
<1>2. UNCHANGED thread["listener"]
  <2>1. CASE Step("main")
    <3>1. \A b \in Thread : b # "main" => thread'[b] = thread[b]
      BY <2>1, StepPlaces, Zenon
    <3> QED BY <3>1
  <2>2. CASE ~ Step("main")
    <3>1. UNCHANGED thread \/ \E u : Goes("main", u)
      BY <2>2 DEF Main, Discover, ReadList, NextDevice, SendSyn, ReadAck, Enter, SendDes,
                  TryDescription, TryAgain, Register, LeaveDevice
    <3>2. thread \in [Thread -> ThreadState]
      BY DEF TypeInv, ThreadsOK
    <3> QED BY <3>1, <3>2 DEF Goes
  <2> QED BY <2>1, <2>2
<1> QED BY <1>1, <1>2

LEMMA WaitingStays ==
    ASSUME TypeInv, ListenerWaits, [Next]_vars
    PROVE  ListenerWaits' /\ ~ Listener /\ UNCHANGED <<given, asked, open, answers>>
<1>1. ~ Listener
  BY DEF ListenerWaits, Listener, Step, Clear, Drain, Dial, ReadConn, HangUp, ReadLost, Collect,
         TakeCall, SendCall, SendAnswer, Disconnected, Answered, Idle, AtPc, me
<1>2. CASE UNCHANGED vars
  BY <1>1, <1>2 DEF vars, broker, manager, history, ListenerWaits
<1>3. CASE Main
  BY <1>1, <1>3, MainKeeps DEF ListenerWaits
<1>4. CASE Environment
  <2>1. UNCHANGED <<thread, given, asked, open, answers>>
    BY <1>4, EnvironmentKeeps DEF broker, history
  <2>2. UNCHANGED calls
    <3>1. Len(asked) + Len(calls) >= 0 /\ given.calls = 0
      BY DEF TypeInv, ManagerOK, ListenerWaits
    <3>2. ASSUME NEW a, ManagerCalls(a) PROVE FALSE
      BY <3>1, <3>2 DEF ManagerCalls, MaxCalls
    <3> QED BY <1>4, <3>2 DEF Environment, Modem, ModemReads, ModemConnects, DeviceHears, RadioDelivers,
                              ConnectionBreaks, manager
  <2> QED BY <1>1, <2>1, <2>2 DEF ListenerWaits
<1> QED BY <1>1, <1>2, <1>3, <1>4 DEF Next

\* What holds whether or not there is a scan.
AloneInv == IF given.scan THEN ListenerWaits ELSE ServeInv

LEMMA AloneInit == Init /\ Alone => AloneInv /\ Promise!Init
<1> SUFFICES ASSUME Init, Alone PROVE AloneInv /\ Promise!Init
  OBVIOUS
<1>1. Promise!Init
  BY DEF Init, InitScanning, InitServing, InitLine, Promise!Init
<1>2. CASE given.scan
  <2>1. InitScanning /\ InitLine
    BY <1>2 DEF Init, InitScanning, InitServing
  <2> QED BY <1>1, <1>2, <2>1, Threads DEF AloneInv, InitScanning, InitLine, ListenerWaits, At, Alone, MaxCalls
<1>3. CASE ~ given.scan
  BY <1>1, <1>3, ServeInit DEF AloneInv
<1> QED BY <1>2, <1>3

LEMMA AloneNext ==
    ASSUME TypeInv, AloneInv, [Next]_vars, [Prompt]_vars
    PROVE  AloneInv' /\ [Promise!Next]_(Promise!vars)
<1>1. CASE given.scan
  <2>1. ListenerWaits' /\ UNCHANGED <<given, asked, open, answers>>
    BY <1>1, WaitingStays DEF AloneInv
  <2> QED BY <1>1, <2>1 DEF AloneInv, Promise!vars
<1>2. CASE ~ given.scan
  <2>1. ServeInv
    BY <1>2 DEF AloneInv
  <2>2. CASE UNCHANGED vars
    <3>1. UNCHANGED <<given, asked, open, answers, thread, tx, rx, dialing, linked, air, out>>
      BY <2>2 DEF vars, broker, link, history
    <3>2. ServeInv'
      BY <2>1, <3>1 DEF ServeInv, ServedOK, LineInv, HungInv, Gone, Clean, TalkInv, Mute, Exchange, OnlyFor,
                        InTx, ToCome, NoAnswer, CommandOf
    <3> QED BY <1>2, <3>1, <3>2 DEF AloneInv, Promise!vars
  <2>3. CASE Environment
    <3>1. UNCHANGED <<thread, given, asked, open, answers>>
      BY <2>3, EnvironmentKeeps DEF broker, history
    <3>2. LineInv("listener")'
      BY <2>1, <2>3, LineEnvironment, Threads DEF ServeInv
    <3> QED BY <1>2, <2>1, <3>1, <3>2 DEF AloneInv, ServeInv, ServedOK, Promise!vars
  <2>4. CASE Main
    BY <2>1, <2>4, DoneIsDone DEF ServeInv, ServedOK, MainDone
  <2>5. CASE Listener /\ ~ UNCHANGED vars
    <3>1. UNCHANGED given
      BY <2>5, ListenerKeeps
    <3>2. ServeInv' /\ [Promise!Next]_(Promise!vars)
      BY <2>1, <2>5, ListenerServes
    <3> QED BY <1>2, <3>1, <3>2 DEF AloneInv
  <2> QED BY <2>2, <2>3, <2>4, <2>5 DEF Next
<1> QED BY <1>1, <1>2

\* The broker does what RequestAnswer promises, without late answers: packages
\* are served one by one, each is answered at most once, and the answer is all
\* of what the package's own device said to it (conn_ble_device and
\* disconn_ble_device around send_command_to_ble_device).  Nothing is said of
\* how late or lossy the radio and the devices are, only that the modem has
\* read its orders when clear_recv_buff ends, and that no package comes while
\* the scan runs.
THEOREM Implements == Spec /\ Alone /\ [][Prompt]_vars => ImplementsRequestAnswer
<1>1. TypeInv /\ AloneInv /\ [Next]_vars /\ [Prompt]_vars => AloneInv' /\ [Promise!Next]_(Promise!vars)
  BY AloneNext
<1> QED BY <1>1, AloneInit, TypeInvariant, PTL DEF Spec, ImplementsRequestAnswer, Promise!Spec

----------------------------------------------------------------------------
\* ScanInv: the main thread alone.

\* Its own actions, and where it is then.
LEMMA MainMoves ==
    ASSUME TypeInv, Main, ~ Step("main")
    PROVE  LET s == thread["main"]  v == thread'["main"] IN
           /\ s.pc = "idle" /\ StateOK("main", v) /\ UNCHANGED link
           /\ \/ Discover /\ s.phase = "scan" /\ v.phase = "list" /\ v.pc = "idle"
              \/ /\ ReadList /\ s.phase = "list"
                 /\ v = s \/ (v.phase = "next" /\ v.pc = "idle")
              \/ /\ NextDevice /\ s.phase = "next"
                 /\ \/ v.phase = "done" /\ v.pc = "idle"
                    \/ v.phase = "syn" /\ v.pc = "clear" /\ v.dev = found[i]
              \/ /\ SendSyn /\ s.phase = "syn"
                 /\ \/ v.phase = "ack" /\ v.pc = "idle" /\ v.dev = s.dev /\ UNCHANGED i
                    \/ v.phase = "next" /\ v.pc = "idle" /\ i' = i + 1
              \/ /\ ReadAck /\ s.phase = "ack"
                 /\ \/ v.phase = "register" /\ v.pc = "clear" /\ v.dev = s.dev /\ UNCHANGED i
                    \/ v.phase = "next" /\ v.pc = "clear" /\ i' = i + 1
              \/ Enter /\ s.phase = "register" /\ v.phase = "send" /\ v.pc = "clear" /\ v.dev = s.dev
              \/ /\ SendDes /\ s.phase = "send"
                 /\ v.phase = "answer" /\ v.pc = "idle" /\ v.dev = s.dev /\ v.buf = <<>>
              \/ /\ TryDescription /\ s.phase \in {"completed", "timeout"}
                 /\ v.pc = "clear" /\ v.dev = s.dev
                 /\ \/ v.phase = "retry"
                    \/ v.phase = "registered" /\ s.phase = "completed" /\ v.buf = s.buf
              \/ TryAgain /\ s.phase = "retry" /\ v.phase = "send" /\ v.pc = "clear" /\ v.dev = s.dev
              \/ Register /\ s.phase = "registered" /\ v.phase = "next" /\ v.pc = "clear" /\ i' = i + 1
<1> USE Threads
<1> DEFINE s == thread["main"]
           v == thread'["main"]
<1>1. /\ s \in ThreadState /\ StateOK("main", s) /\ s = me("main") /\ s = self /\ s.dev \in Dev \cup {NULL}
      /\ s.phase \in Meant => s.dev \in Dev /\ i \in 1 .. Len(found)
  <2>1. s \in ThreadState /\ StateOK("main", s) /\ s = me("main") /\ s = self /\ s.dev \in Dev \cup {NULL}
    BY ThreadIsOK DEF me, self
  <2>2. s.phase \in Meant => i \in 1 .. Len(found)
    BY DEF TypeInv, ThreadsOK, BrokerOK
  <2> QED BY <2>1, <2>2 DEF StateOK
<1>2. StateOK("main", v) /\ UNCHANGED link /\ s.pc = "idle"
  <2>1. TypeInv'
    BY TypeMain
  <2>2. UNCHANGED link /\ s.pc = "idle"
    BY <1>1 DEF Main, Discover, ReadList, NextDevice, SendSyn, ReadAck, Enter, SendDes,
           TryDescription, TryAgain, Register, Answered, Idle, AtPc
  <2> QED BY <2>1, <2>2 DEF TypeInv, ThreadsOK
<1>3. ASSUME NEW u, StateOK("main", u), Goes("main", u) PROVE v = u
  BY <1>3, Went DEF StateOK
<1>4. ASSUME NEW phase \in {"list", "next", "done", "ack", "answer"}, NEW d \in Dev \cup {NULL},
             phase \in {"ack", "answer"} => d \in Dev, Goes("main", At(phase, "idle", d))
      PROVE  v.phase = phase /\ v.pc = "idle" /\ v.dev = d /\ v.buf = <<>>
  <2>1. PICK u : u = At(phase, "idle", d)
    OBVIOUS
  <2>2. phase \in PhasesOf("main") /\ phase # "completed" /\ (phase \in Meant => d \in Dev)
    BY <1>4 DEF PhasesOf, Meant
  <2>3. StateOK("main", u) /\ u.phase = phase /\ u.pc = "idle" /\ u.dev = d /\ u.buf = <<>>
    BY <2>1, <2>2, AtOK
  <2> QED BY <1>3, <1>4, <2>1, <2>3
<1>5. ASSUME NEW phase \in {"syn", "send"}, NEW d \in Dev, Goes("main", Conn(s, d, phase))
      PROVE  v.phase = phase /\ v.pc = "clear" /\ v.dev = d
  <2>1. PICK u : u = Conn(s, d, phase)
    OBVIOUS
  <2>2. StateOK("main", u) /\ u.phase = phase /\ u.pc = "clear" /\ u.dev = d
    BY <1>1, <2>1, ConnOK DEF PhasesOf
  <2> QED BY <1>3, <1>5, <2>1, <2>2
<1>6. ASSUME NEW phase \in {"next", "register", "registered", "retry"}, s.dev \in Dev,
             Goes("main", Disconn(s, phase))
      PROVE  v.phase = phase /\ v.pc = "clear" /\ v.dev = s.dev /\ v.buf = s.buf
  <2>1. PICK u : u = Disconn(s, phase)
    OBVIOUS
  <2>2. StateOK("main", u) /\ u.phase = phase /\ u.pc = "clear" /\ u.dev = s.dev /\ u.buf = s.buf
    BY <1>1, <1>6, <2>1, DisconnOK DEF PhasesOf
  <2> QED BY <1>3, <1>6, <2>1, <2>2
<1>7. s.phase \in {"syn", "ack", "register", "send", "completed", "timeout", "retry", "registered"} => s.dev \in Dev
  BY <1>1 DEF Meant
<1>8. NULL \in Dev \cup {NULL}
  OBVIOUS
<1>9. CASE Discover
  <2>1. s.phase = "scan" /\ Goes("main", At("list", "idle", NULL))
    BY <1>1, <1>9 DEF Discover, Idle
  <2> QED BY <1>2, <1>4, <1>8, <1>9, <2>1
<1>10. CASE ReadList
  <2>1. s.phase = "list" /\ (UNCHANGED thread \/ Goes("main", At("next", "idle", NULL)))
    BY <1>1, <1>10 DEF ReadList, Idle
  <2> QED BY <1>2, <1>4, <1>8, <1>10, <2>1
<1>11. CASE NextDevice
  <2>1. /\ s.phase = "next"
        /\ Goes("main", IF i > Len(found) THEN At("done", "idle", NULL) ELSE Conn(s, found[i], "syn"))
    BY <1>1, <1>11 DEF NextDevice, Idle
  <2>2. ~ (i > Len(found)) => found[i] \in Dev
    BY DEF TypeInv, BrokerOK
  <2> QED BY <1>2, <1>4, <1>5, <1>8, <1>11, <2>1, <2>2
<1>12. CASE SendSyn
  <2>1. /\ s.phase = "syn"
        /\ \/ Goes("main", At("ack", "idle", s.dev)) /\ UNCHANGED i
           \/ Goes("main", At("next", "idle", NULL)) /\ i' = i + 1
    BY <1>1, <1>12 DEF SendSyn, Idle
  <2>2. s.dev \in Dev
    BY <1>7, <2>1
  <2>3. CASE Goes("main", At("ack", "idle", s.dev)) /\ UNCHANGED i
    <3>1. v.phase = "ack" /\ v.pc = "idle" /\ v.dev = s.dev
      BY <1>4, <2>2, <2>3
    <3> QED BY <1>2, <1>12, <2>1, <2>3, <3>1
  <2>4. CASE Goes("main", At("next", "idle", NULL)) /\ i' = i + 1
    <3>1. v.phase = "next" /\ v.pc = "idle"
      BY <1>4, <1>8, <2>4
    <3> QED BY <1>2, <1>12, <2>1, <2>4, <3>1
  <2> QED BY <2>1, <2>3, <2>4
<1>13. CASE ReadAck
  <2>1. /\ s.phase = "ack"
        /\ \/ Goes("main", Disconn(s, "register")) /\ UNCHANGED i
           \/ Goes("main", Disconn(s, "next")) /\ i' = i + 1
    BY <1>1, <1>13 DEF ReadAck, Idle, LeaveDevice
  <2>2. s.dev \in Dev
    BY <1>7, <2>1
  <2> QED BY <1>2, <1>6, <1>13, <2>1, <2>2
<1>14. CASE Enter
  <2>1. s.phase = "register" /\ Goes("main", Conn(s, s.dev, "send"))
    BY <1>1, <1>14 DEF Enter, Idle
  <2> QED BY <1>2, <1>5, <1>7, <1>14, <2>1
<1>15. CASE SendDes
  <2>1. s.phase = "send" /\ Goes("main", At("answer", "idle", s.dev))
    BY <1>1, <1>15 DEF SendDes, Idle
  <2>2. s.dev \in Dev
    BY <1>7, <2>1
  <2>3. v.phase = "answer" /\ v.pc = "idle" /\ v.dev = s.dev /\ v.buf = <<>>
    BY <1>4, <2>1, <2>2
  <2> QED BY <1>2, <1>15, <2>1, <2>3
<1>16. CASE TryDescription
  <2>1. /\ s.phase \in {"completed", "timeout"}
        /\ \/ Goes("main", Disconn(s, "retry"))
           \/ Goes("main", Disconn(s, "registered")) /\ s.phase = "completed"
    BY <1>1, <1>16 DEF TryDescription, Answered, Idle
  <2>2. s.dev \in Dev
    BY <1>7, <2>1
  <2>3. CASE Goes("main", Disconn(s, "retry"))
    <3>1. v.phase = "retry" /\ v.pc = "clear" /\ v.dev = s.dev
      BY <1>6, <2>2, <2>3
    <3> QED BY <1>2, <1>16, <2>1, <3>1
  <2>4. CASE Goes("main", Disconn(s, "registered")) /\ s.phase = "completed"
    <3>1. v.phase = "registered" /\ v.pc = "clear" /\ v.dev = s.dev /\ v.buf = s.buf
      BY <1>6, <2>2, <2>4
    <3> QED BY <1>2, <1>16, <2>1, <2>4, <3>1
  <2> QED BY <2>1, <2>3, <2>4
<1>17. CASE TryAgain
  <2>1. s.phase = "retry" /\ Goes("main", Conn(s, s.dev, "send"))
    BY <1>1, <1>17 DEF TryAgain, Idle
  <2> QED BY <1>2, <1>5, <1>7, <1>17, <2>1
<1>18. CASE Register
  <2>1. s.phase = "registered" /\ Goes("main", Disconn(s, "next")) /\ i' = i + 1
    BY <1>1, <1>18 DEF Register, Idle, LeaveDevice
  <2> QED BY <1>2, <1>6, <1>7, <1>18, <2>1
<1> QED BY <1>9, <1>10, <1>11, <1>12, <1>13, <1>14, <1>15, <1>16, <1>17, <1>18 DEF Main

LEMMA LineMain ==
    ASSUME TypeInv, Main, Prompt, LineInv("main")
    PROVE  LineInv("main")'
<1> USE Threads
<1>1. CASE Step("main")
  BY <1>1, LineStep DEF Prompt
<1>2. CASE ~ Step("main")
  <2> DEFINE s == thread["main"]
             v == thread'["main"]
  <2>1. TypeInv'
    BY TypeMain
  <2>2. v.pc \in {"clear", "idle"} /\ v.phase \notin {"recv", "close"} /\ s.pc = "idle" /\ StateOK("main", v)
    <3>1. s.pc = "idle" /\ StateOK("main", v) /\ v.pc \in {"clear", "idle"}
      BY <1>2, MainMoves
    <3> QED BY <3>1 DEF StateOK, PhasesOf
  <2>3. HungInv("main")'
    BY <2>2 DEF HungInv, Hanging
  <2>4. CASE SendDes
    <3>1. /\ s.phase = "send" /\ send_command_to_ble_device(s.dev, DES) /\ UNCHANGED <<open, rx, link>>
          /\ thread' = [thread EXCEPT !["main"] = At("answer", "idle", s.dev)]
      BY <2>4 DEF SendDes, Idle, self, me, history, Goes
    <3>2. PICK u : u = At("answer", "idle", s.dev)
      OBVIOUS
    <3>3. u.phase = "answer" /\ u.pc = "idle" /\ u.buf = <<>> /\ u.dev = s.dev /\ u \in ThreadState
      <4>1. s.dev \in Dev
        BY <3>1, TalkIsAbout
      <4>2. "answer" \in PhasesOf("main")
        BY DEF PhasesOf
      <4> QED BY <3>2, <4>1, <4>2, AtOK DEF StateOK
    <3>4. Goes("main", u)
      BY <3>1, <3>2 DEF Goes
    <3>5. send_command_to_ble_device(s.dev, CommandOf("main"))
      BY <3>1 DEF CommandOf
    <3> QED BY <2>2, <2>3, <3>1, <3>3, <3>4, <3>5, LineSays
  <2>5. CASE ~ SendDes
    <3>1. v.pc = "clear" \/ v.phase \notin {"send", "answer", "completed"}
      BY <1>2, <2>2, <2>5, MainMoves
    <3>2. v.pc # "dial" /\ (v.pc \notin {"idle", "conna", "conn"} \/ v.phase \notin {"send", "answer", "completed"})
      BY <2>2, <3>1
    <3> QED BY <2>1, <2>3, <3>2, ElsewhereNext
  <2> QED BY <2>4, <2>5
<1> QED BY <1>1, <1>2

\* The next of the list is read.
LEMMA ListRead ==
    ASSUME NEW q \in Seq(Unit), q # <<>>, NEW f \in Seq(Dev), Listing(q, f),
           NEW g, g = IF Head(q).unit = "DIS0:" THEN Append(f, Head(q).dev) ELSE f
    PROVE  Listing(Tail(q), g)
<1> DEFINE r == Tail(q)
<1>1. /\ r \in Seq(Unit) /\ Head(q) \in Unit /\ Head(q) = q[1] /\ 1 \in 1 .. Len(q)
      /\ \A k \in 1 .. Len(r) : k + 1 \in 1 .. Len(q) /\ r[k] = q[k + 1]
  BY Shorter
<1>2. /\ \A j, k \in 1 .. Len(f) : f[j] = f[k] => j = k
      /\ \A j \in 1 .. Len(q) : IsListed(q[j]) => \A k \in 1 .. Len(f) : f[k] # q[j].dev
      /\ \A j, k \in 1 .. Len(q) : IsListed(q[j]) /\ IsListed(q[k]) /\ q[j].dev = q[k].dev => j = k
  BY DEF Listing
<1> HIDE DEF r
<1>3. \A j, k \in 1 .. Len(r) : IsListed(r[j]) /\ IsListed(r[k]) /\ r[j].dev = r[k].dev => j = k
  <2> SUFFICES ASSUME NEW j \in 1 .. Len(r), NEW k \in 1 .. Len(r), IsListed(r[j]), IsListed(r[k]),
                      r[j].dev = r[k].dev
               PROVE  j = k
    OBVIOUS
  <2>1. j + 1 \in 1 .. Len(q) /\ r[j] = q[j + 1] /\ k + 1 \in 1 .. Len(q) /\ r[k] = q[k + 1]
    BY <1>1
  <2>2. j + 1 = k + 1
    BY <1>2, <2>1
  <2> QED BY <2>2
<1>4. \A j \in 1 .. Len(r) : IsListed(r[j]) => \A k \in 1 .. Len(f) : f[k] # r[j].dev
  BY <1>1, <1>2
<1>5. CASE Head(q).unit # "DIS0:"
  <2>1. g = f
    BY <1>5
  <2> QED BY <1>2, <1>3, <1>4, <2>1 DEF Listing, r
<1>6. CASE Head(q).unit = "DIS0:"
  <2>1. PICK d : d = Head(q).dev
    OBVIOUS
  <2>2. d \in Dev /\ IsListed(q[1]) /\ q[1].dev = d
    BY <1>1, <1>6, <2>1, UnitKinds DEF IsListed
  <2>3. /\ Len(f) \in Nat /\ Len(g) = Len(f) + 1 /\ g[Len(f) + 1] = d
        /\ \A k \in 1 .. Len(f) : g[k] = f[k]
    BY <1>6, <2>1, <2>2, Longer
  <2>4. \A k \in 1 .. Len(f) : f[k] # d
    BY <1>1, <1>2, <2>2
  <2>5. \A j, k \in 1 .. Len(g) : g[j] = g[k] => j = k
    <3> SUFFICES ASSUME NEW j \in 1 .. Len(g), NEW k \in 1 .. Len(g), g[j] = g[k] PROVE j = k
      OBVIOUS
    <3>1. (j \in 1 .. Len(f) \/ j = Len(f) + 1) /\ (k \in 1 .. Len(f) \/ k = Len(f) + 1)
      BY <2>3
    <3> QED BY <1>2, <2>3, <2>4, <3>1
  <2>6. \A j \in 1 .. Len(r) : IsListed(r[j]) => r[j].dev # d
    <3> SUFFICES ASSUME NEW j \in 1 .. Len(r), IsListed(r[j]), r[j].dev = d PROVE FALSE
      OBVIOUS
    <3>1. j + 1 \in 1 .. Len(q) /\ r[j] = q[j + 1] /\ j + 1 # 1
      BY <1>1
    <3>2. j + 1 = 1
      BY <1>1, <1>2, <2>2, <3>1
    <3> QED BY <3>1, <3>2
  <2>7. \A j \in 1 .. Len(r) : IsListed(r[j]) => \A k \in 1 .. Len(g) : g[k] # r[j].dev
    <3> SUFFICES ASSUME NEW j \in 1 .. Len(r), IsListed(r[j]), NEW k \in 1 .. Len(g) PROVE g[k] # r[j].dev
      OBVIOUS
    <3>1. k \in 1 .. Len(f) \/ k = Len(f) + 1
      BY <2>3
    <3> QED BY <1>4, <2>3, <2>6, <3>1
  <2> QED BY <1>3, <2>5, <2>7 DEF Listing, r
<1> QED BY <1>5, <1>6

LEMMA FoundEnvironment ==
    ASSUME TypeInv, Environment, FoundInv
    PROVE  FoundInv'
<1> DEFINE s == thread["main"]
<1>1. UNCHANGED <<thread, found, i>>
  BY EnvironmentKeeps DEF broker
<1>2. Clean => Clean'
  BY DEF Environment, ManagerCalls, Modem, ModemReads, ModemConnects, DeviceHears, RadioDelivers,
         ConnectionBreaks, Clean, link
<1>3. CASE s.phase # "list"
  BY <1>1, <1>2, <1>3 DEF FoundInv
<1>4. CASE s.phase = "list"
  <2>1. /\ Silent /\ air = <<>> /\ out = <<>>
        /\ \/ Len(tx) = 1 /\ tx[1].op = "AT+DISC?" /\ rx = <<>> /\ found = <<>>
           \/ tx = <<>> /\ Listing(rx, found)
    BY <1>4 DEF FoundInv, TypeInv, LineOK, Silent
  <2>2. ModemReads \/ UNCHANGED <<tx, rx, link>>
    BY <2>1 DEF Environment, ManagerCalls, Modem, ModemConnects, DeviceHears, RadioDelivers, ConnectionBreaks, Silent
  <2>3. CASE UNCHANGED <<tx, rx, link>>
    BY <1>1, <1>4, <2>1, <2>3 DEF FoundInv, Silent, Listing, link, IsListed
  <2>4. CASE ModemReads
    <3>1. PICK x : /\ tx # <<>> /\ tx' = Tail(tx) /\ x = Head(tx)
                   /\ ModemHangsUp(x) \/ ModemDials(x) \/ ModemLists(x) \/ ModemForwards(x)
      BY <2>4 DEF ModemReads
    <3>2. Len(tx) = 1 /\ x.op = "AT+DISC?" /\ rx = <<>> /\ found = <<>> /\ tx' = <<>>
      BY <2>1, <3>1 DEF TypeInv, LineOK
    <3>3. ModemLists(x) /\ UNCHANGED link
      BY <2>1, <3>1, <3>2 DEF ModemHangsUp, ModemDials, ModemForwards, ModemLists, Silent
    <3>4. PICK p, q \in Seq(Unit) : rx' = rx \o p \o q /\ p \o q \in Seq(Unit) /\ ListedOnce(p \o q)
      BY <3>3, ModemsList
    <3>5. PICK l \in Seq(Unit) : l = p \o q /\ ListedOnce(l)
      BY <3>4
    <3>6. <<>> \o p = p
      BY <3>4
    <3>7. rx' = l
      BY <3>2, <3>4, <3>5, <3>6
    <3>8. Listing(rx', found)
      <4>1. \A j : j \notin 1 .. Len(<<>>)
        OBVIOUS
      <4>2. PICK e : e = <<>>
        OBVIOUS
      <4>3. \A j : j \notin 1 .. Len(e)
        BY <4>1, <4>2
      <4>4. Listing(l, e)
        BY <3>5, <4>3, Zenon DEF Listing, ListedOnce
      <4> QED BY <1>1, <3>2, <3>7, <4>2, <4>4
    <3> QED BY <1>1, <1>4, <2>1, <3>2, <3>3, <3>8 DEF FoundInv, Silent, link, Listing, IsListed
  <2> QED BY <2>2, <2>3, <2>4
<1> QED BY <1>3, <1>4

LEMMA FoundMain ==
    ASSUME TypeInv, Main, Prompt, LineInv("main"), FoundInv
    PROVE  FoundInv'
<1> USE Threads
<1> DEFINE s == thread["main"]
           v == thread'["main"]
<1>1. /\ \A j, k \in 1 .. Len(found) : found[j] = found[k] => j = k
      /\ s.phase \in {"scan", "list"} => i = 1
      /\ s.phase = "scan" => found = <<>> /\ (s.pc = "idle" => Clean)
      /\ StateOK("main", s) /\ s = me("main")
  BY ThreadIsOK DEF FoundInv, me
<1>2. ASSUME UNCHANGED found, v.phase \notin {"scan", "list"} PROVE FoundInv'
  BY <1>1, <1>2 DEF FoundInv
<1>3. CASE Step("main")
  <2>1. UNCHANGED <<found, i, link>>
    BY <1>3, StepKeeps
  <2>2. s.phase # "list"
    BY <1>1, <1>3 DEF Step, Clear, Drain, Dial, ReadConn, HangUp, ReadLost, Collect, Idle, AtPc,
                      StateOK, ThreadState, Dialing, Hanging, Clearing
  <2>3. v.phase # "list" /\ (v.phase = "scan" => s.phase = "scan")
    BY <1>3, <2>2, StepPlaces
  <2>4. CASE v.phase = "scan"
    <3>1. s.phase = "scan" /\ found = <<>> /\ i = 1
      BY <1>1, <2>3, <2>4
    <3>2. s.pc \in {"idle", "clear", "drain"}
      BY <1>1, <3>1 DEF StateOK, ThreadState, Dialing, Hanging, Clearing
    <3>3. ~ Dial("main") /\ ~ ReadConn("main") /\ ~ HangUp("main") /\ ~ ReadLost("main") /\ ~ Collect("main")
      BY <1>1, <3>1, <3>2 DEF Dial, ReadConn, HangUp, ReadLost, Collect, Idle, AtPc
    <3>4. v.pc = "idle" => Drain("main")
      BY <1>3, <3>3, StepPlaces
    <3>5. v.pc = "idle" => Clean'
      <4>1. ASSUME Drain("main") PROVE Clean'
        <5>1. tx = <<>> /\ rx' = <<>> /\ UNCHANGED <<tx, link>> /\ s.pc = "drain"
          BY <1>1, <3>2, <4>1 DEF Drain, AtPc, Prompt
        <5>2. Gone
          BY <5>1 DEF LineInv, HungInv
        <5> QED BY <5>1, <5>2, Cleared
      <4> QED BY <3>4, <4>1
    <3> QED BY <1>1, <2>1, <2>3, <2>4, <3>1, <3>5 DEF FoundInv
  <2>5. CASE v.phase # "scan"
    BY <1>2, <2>1, <2>3, <2>5
  <2> QED BY <2>4, <2>5
<1>4. CASE ~ Step("main")
  <2>1. CASE Discover
    <3>1. s.phase = "scan" /\ s.pc = "idle" /\ Write("AT+DISC?", NULL) /\ UNCHANGED <<found, i, rx, link>>
      BY <1>1, <2>1 DEF Discover, Idle, AtPc
    <3>2. Clean /\ i = 1 /\ found = <<>>
      BY <1>1, <3>1
    <3>3. Len(tx') = 1 /\ tx'[1].op = "AT+DISC?"
      <4>1. PICK x : x = [op |-> "AT+DISC?", dev |-> NULL]
        OBVIOUS
      <4>2. tx' = <<x>> /\ x.op = "AT+DISC?"
        BY <3>1, <3>2, <4>1 DEF Write, Clean
      <4> QED BY <4>2
    <3>4. v.phase = "list"
      <4>1. s.phase # "next" /\ s.phase # "list"
        BY <3>1
      <4> QED BY <1>4, <3>1, MainMoves
    <3> QED BY <1>1, <3>1, <3>2, <3>3, <3>4 DEF FoundInv, Silent, Clean, link
  <2>2. CASE ReadList
    <3>1. /\ s.phase = "list" /\ rx # <<>> /\ rx' = Tail(rx) /\ UNCHANGED <<i, tx, link>>
          /\ found' = IF Head(rx).unit = "DIS0:" THEN Append(found, Head(rx).dev) ELSE found
      BY <1>1, <2>2 DEF ReadList, Idle
    <3>2. Silent /\ tx = <<>> /\ Listing(rx, found)
      BY <3>1 DEF FoundInv
    <3>3. PICK q, f, r, g : q = rx /\ f = found /\ r = rx' /\ g = found'
      OBVIOUS
    <3>4. Listing(r, g)
      <4>1. /\ q \in Seq(Unit) /\ q # <<>> /\ f \in Seq(Dev) /\ Listing(q, f) /\ r = Tail(q)
            /\ g = IF Head(q).unit = "DIS0:" THEN Append(f, Head(q).dev) ELSE f
        BY <3>1, <3>2, <3>3 DEF TypeInv, LineOK, BrokerOK
      <4> QED BY <4>1, ListRead
    <3>5. /\ \A j, k \in 1 .. Len(found') : found'[j] = found'[k] => j = k
          /\ Listing(rx', found')
      BY <3>3, <3>4 DEF Listing
    <3>6. v.phase # "scan"
      BY <1>4, <3>1, MainMoves
    <3> QED BY <1>1, <3>1, <3>2, <3>5, <3>6 DEF FoundInv, Silent, link, Listing, IsListed
  <2>3. CASE ~ Discover /\ ~ ReadList
    <3>1. UNCHANGED found
      BY <1>4, <2>3 DEF Main, NextDevice, SendSyn, ReadAck, Enter, SendDes,
                  TryDescription, TryAgain, Register
    <3>2. v.phase \notin {"scan", "list"}
      BY <1>4, <2>3, MainMoves
    <3> QED BY <1>2, <3>1, <3>2
  <2> QED BY <2>1, <2>2, <2>3
<1> QED BY <1>3, <1>4

\* A table as long as there are devices has room for one that is not in it.
LEMMA RoomForOne ==
    ASSUME Cardinality(Dev) <= MAXDEVICECOUNT, TypeInv, NEW d \in Dev, ~ is_ble_device_exists(d),
           \A j, k \in Slot : ble_devices[j] # NULL /\ ble_devices[k] # NULL
                                 /\ ble_devices[j].addr = ble_devices[k].addr => j = k
    PROVE  \E k \in Slot : ble_devices[k] = NULL
<1> SUFFICES ASSUME \A k \in Slot : ble_devices[k] # NULL PROVE FALSE
  OBVIOUS
<1>1. MAXDEVICECOUNT \in Nat /\ Cardinality(Dev) \in Nat
  BY LimitsAssumption, DevAssumption, FS_CardinalityType
<1>2. IsFiniteSet(Slot) /\ Cardinality(Slot) = MAXDEVICECOUNT
  <2>1. PICK m \in Int : m = MAXDEVICECOUNT - 1
    BY <1>1
  <2>2. 0 \in Int
    OBVIOUS
  <2>3. IsFiniteSet(0 .. m) /\ Cardinality(0 .. m) = IF 0 > m THEN 0 ELSE m - 0 + 1
    BY <2>2, FS_Interval, Zenon
  <2> QED BY <1>1, <2>1, <2>3 DEF Slot
<1>3. IsFiniteSet(Dev \ {d}) /\ Cardinality(Dev \ {d}) = Cardinality(Dev) - 1
  BY DevAssumption, FS_RemoveElement
<1> DEFINE f == [k \in Slot |-> ble_devices[k].addr]
<1>4. f \in [Slot -> Dev \ {d}]
  <2> SUFFICES ASSUME NEW k \in Slot PROVE ble_devices[k].addr \in Dev \ {d}
    OBVIOUS
  <2>1. ble_devices[k] \in Entry
    BY DEF TypeInv, BrokerOK
  <2>2. ble_devices[k].addr \in Dev
    BY <2>1 DEF Entry
  <2> QED BY <2>2 DEF is_ble_device_exists, find_device_index
<1>5. Cardinality(Dev \ {d}) < Cardinality(Slot)
  BY <1>1, <1>2, <1>3
<1>6. \A j, k \in Slot : f[j] = f[k] => j = k
  OBVIOUS
<1> HIDE DEF f
<1>7. \E j, k \in Slot : j # k /\ f[j] = f[k]
  BY <1>2, <1>3, <1>4, <1>5, FS_PigeonHole
<1> QED BY <1>6, <1>7

\* Enter: the device gets an entry of its own, the others keep theirs.
LEMMA TableEnters ==
    ASSUME Cardinality(Dev) <= MAXDEVICECOUNT, TypeInv, NEW d \in Dev, NEW a \in Nat \cup {NULL},
           \A j, k \in Slot : ble_devices[j] # NULL /\ ble_devices[k] # NULL
                                 /\ ble_devices[j].addr = ble_devices[k].addr => j = k,
           NEW after, after = Updated(Added(d), d, a)
    PROVE  /\ \A j, k \in Slot : after[j] # NULL /\ after[k] # NULL /\ after[j].addr = after[k].addr => j = k
           /\ \E k \in Slot : after[k] # NULL /\ after[k].ip = a /\ after[k].addr = d
           /\ \A k \in Slot : ble_devices[k] # NULL /\ ble_devices[k].addr # d => after[k] = ble_devices[k]
<1>1. PICK table : table = Added(d)
  OBVIOUS
<1>2. NULL \notin Entry
  BY NullAssumption DEF Entry
<1>3. /\ ble_devices \in [Slot -> Entry \cup {NULL}] /\ table \in [Slot -> Entry \cup {NULL}]
  BY <1>1, TableType DEF TypeInv, BrokerOK
<1>4. /\ \A j, k \in Slot : table[j] # NULL /\ table[k] # NULL /\ table[j].addr = table[k].addr => j = k
      /\ \E k \in Slot : table[k] # NULL /\ table[k].addr = d
      /\ \A k \in Slot : ble_devices[k] # NULL => table[k] = ble_devices[k]
  <2>1. CASE is_ble_device_exists(d)
    <3>1. table = ble_devices
      BY <1>1, <2>1 DEF Added
    <3>2. \E k \in Slot : ble_devices[k] # NULL /\ ble_devices[k].addr = d
      BY <2>1 DEF is_ble_device_exists, find_device_index
    <3> QED BY <3>1, <3>2
  <2>2. CASE ~ is_ble_device_exists(d)
    <3>1. PICK free \in SUBSET Slot : free = {k \in Slot : ble_devices[k] = NULL}
      OBVIOUS
    <3>2. free # {}
      BY <2>2, <3>1, RoomForOne
    <3>3. PICK s : s = First(free)
      OBVIOUS
    <3>4. s \in Slot /\ ble_devices[s] = NULL
      BY <3>1, <3>2, <3>3, FirstIn
    <3>5. PICK e : e = [addr |-> d, ip |-> NULL]
      OBVIOUS
    <3>6. e \in Entry /\ e.addr = d
      BY <3>5 DEF Entry
    <3>7. table = [ble_devices EXCEPT ![s] = e]
      BY <1>1, <2>2, <3>1, <3>2, <3>3, <3>5 DEF Added
    <3>8. \A k \in Slot : table[k] = IF k = s THEN e ELSE ble_devices[k]
      BY <1>3, <3>7
    <3>9. \A k \in Slot : ble_devices[k] # NULL => ble_devices[k].addr # d
      BY <2>2 DEF is_ble_device_exists, find_device_index
    <3> QED BY <1>2, <3>4, <3>6, <3>8, <3>9
  <2> QED BY <2>1, <2>2
<1>5. PICK at \in SUBSET Slot : at = {k \in Slot : table[k] # NULL /\ table[k].addr = d}
  OBVIOUS
<1>6. PICK s : s = First(at)
  OBVIOUS
<1>7. at # {} /\ s \in Slot /\ table[s] # NULL /\ table[s].addr = d
  BY <1>4, <1>5, <1>6, FirstIn
<1>8. PICK e : e = [table[s] EXCEPT !.ip = a]
  OBVIOUS
<1>9. e \in Entry /\ e.addr = d /\ e.ip = a /\ e # NULL
  <2>1. table[s] \in Entry
    BY <1>3, <1>7
  <2> QED BY <1>2, <1>7, <1>8, <2>1 DEF Entry
<1>10. after = [table EXCEPT ![s] = e]
  BY <1>1, <1>5, <1>6, <1>7, <1>8 DEF Updated
<1>11. \A k \in Slot : after[k] = IF k = s THEN e ELSE table[k]
  BY <1>3, <1>10
<1> QED BY <1>4, <1>7, <1>9, <1>11

LEMMA TableMain ==
    ASSUME Cardinality(Dev) <= MAXDEVICECOUNT, TypeInv, Main, LineInv("main"), FoundInv, TableInv
    PROVE  TableInv'
<1> USE Threads
<1> DEFINE s == thread["main"]
           v == thread'["main"]
           Distinct == \A j, k \in Slot : ble_devices[j] # NULL /\ ble_devices[k] # NULL
                                             /\ ble_devices[j].addr = ble_devices[k].addr => j = k
           HasEntry == \E k \in Slot :
                             ble_devices[k] # NULL /\ ble_devices[k].ip = ip /\ ble_devices[k].addr = s.dev
           Kept == \A r \in registered :
                      /\ \E j \in 1 .. Len(found) : j < i /\ r[2] = found[j]
                      /\ \E k \in Slot : /\ ble_devices[k] # NULL
                                         /\ ble_devices[k].ip = r[1] /\ ble_devices[k].addr = r[2]
<1>1. /\ Distinct /\ Kept
      /\ s.phase \in Meant => s.dev = found[i]
      /\ s.phase \in Entered => HasEntry
      /\ s.phase = "registered" => s.buf # <<>> /\ s.buf[1].from = s.dev
  BY DEF TableInv
<1>2. /\ StateOK("main", s) /\ s = me("main") /\ s = self
      /\ s.phase \in Meant => s.dev \in Dev /\ i \in 1 .. Len(found)
      /\ i \in Nat /\ Len(found) \in Nat /\ found \in Seq(Dev)
  <2>1. StateOK("main", s) /\ s = me("main") /\ s = self
    BY ThreadIsOK DEF me, self
  <2>2. s.phase \in Meant => i \in 1 .. Len(found)
    BY DEF TypeInv, ThreadsOK, BrokerOK
  <2>3. i \in Nat /\ Len(found) \in Nat /\ found \in Seq(Dev)
    BY DEF TypeInv, BrokerOK
  <2> QED BY <2>1, <2>2, <2>3 DEF StateOK
<1>3. ASSUME Distinct', Kept', v.phase \in Meant => v.dev = found'[i'],
             v.phase \in Entered => HasEntry',
             v.phase = "registered" => v.buf # <<>> /\ v.buf[1].from = v.dev
      PROVE  TableInv'
  BY <1>3 DEF TableInv
<1>4. ASSUME UNCHANGED <<ble_devices, ip, found, registered>>, i' = i \/ i' = i + 1 PROVE Distinct' /\ Kept'
  <2>1. \A j \in Nat : j < i => j < i'
    BY <1>2, <1>4
  <2> QED BY <1>1, <1>4, <2>1
<1> HIDE DEF Distinct, Kept
<1>5. CASE Step("main")
  <2>1. UNCHANGED <<ble_devices, ip, found, registered, i>>
    BY <1>5, StepKeeps DEF manager
  <2>2. /\ v.dev = s.dev
        /\ v.phase = s.phase \/ (s.phase = "answer" /\ v.phase \in {"completed", "timeout"})
        /\ v.phase = "timeout" \/ v.buf = s.buf \/ Collect("main")
    <3>1. PICK u : Goes("main", u) /\ StateOK("main", u) /\ (u.phase = s.phase \/ s.phase = "answer")
      BY <1>2, <1>5, StepGoes
    <3>2. v = u
      BY <3>1, Went DEF StateOK
    <3> QED BY <1>5, <3>1, <3>2, StepPlaces
  <2>3. v.phase \in Meant => v.dev = found'[i']
    BY <1>1, <2>1, <2>2 DEF Meant
  <2>4. v.phase \in Entered => HasEntry'
    BY <1>1, <2>1, <2>2 DEF Entered
  <2>5. v.phase = "registered" => v.buf # <<>> /\ v.buf[1].from = v.dev
    <3>1. Collect("main") => s.phase = "answer"
      BY <1>2 DEF Collect, Idle
    <3> QED BY <1>1, <2>2, <3>1
  <2> QED BY <1>3, <1>4, <2>1, <2>3, <2>4, <2>5
<1>6. CASE ~ Step("main") /\ Enter
  <2>1. /\ s.phase = "register" /\ v.phase = "send" /\ v.dev = s.dev
    <3>1. s.phase = "register"
      BY <1>2, <1>6 DEF Enter, Idle
    <3> QED BY <1>6, <3>1, MainMoves
  <2>2. s.dev \in Dev /\ s.dev = found[i] /\ i \in 1 .. Len(found)
    BY <1>1, <1>2, <2>1 DEF Meant
  <2>3. /\ ip' \in Nat \cup {NULL} /\ ble_devices' = Updated(Added(s.dev), s.dev, ip')
        /\ UNCHANGED <<found, i, registered>>
    BY <1>2, <1>6 DEF Enter, TypeInv, ManagerOK
  <2>4. PICK after, d, a : after = ble_devices' /\ d = s.dev /\ a = ip'
    OBVIOUS
  <2>5. /\ \A j, k \in Slot : after[j] # NULL /\ after[k] # NULL /\ after[j].addr = after[k].addr => j = k
        /\ \E k \in Slot : after[k] # NULL /\ after[k].ip = a /\ after[k].addr = d
        /\ \A k \in Slot : ble_devices[k] # NULL /\ ble_devices[k].addr # d => after[k] = ble_devices[k]
    <3>1. d \in Dev /\ a \in Nat \cup {NULL} /\ after = Updated(Added(d), d, a)
      BY <2>2, <2>3, <2>4
    <3> QED BY <1>1, <3>1, TableEnters DEF Distinct
  <2>6. Distinct' /\ HasEntry'
    BY <2>1, <2>3, <2>4, <2>5 DEF Distinct
  <2>7. Kept'
    <3> SUFFICES ASSUME NEW r \in registered
                 PROVE  /\ \E j \in 1 .. Len(found) : j < i /\ r[2] = found[j]
                        /\ \E k \in Slot : after[k] # NULL /\ after[k].ip = r[1] /\ after[k].addr = r[2]
      BY <2>3, <2>4 DEF Kept
    <3>1. PICK j \in 1 .. Len(found) : j < i /\ r[2] = found[j]
      BY <1>1 DEF Kept
    <3>2. PICK k \in Slot : ble_devices[k] # NULL /\ ble_devices[k].ip = r[1] /\ ble_devices[k].addr = r[2]
      BY <1>1 DEF Kept
    <3>3. r[2] # d
      <4>1. found[j] = found[i] => j = i
        BY <2>2, <3>1 DEF FoundInv
      <4> QED BY <1>2, <2>2, <2>4, <3>1, <4>1
    <3> QED BY <2>5, <3>1, <3>2, <3>3
  <2> QED BY <1>3, <2>1, <2>2, <2>3, <2>6, <2>7
<1>7. CASE ~ Step("main") /\ Register
  <2>1. s.phase = "registered" /\ v.phase = "next" /\ i' = i + 1
    <3>1. s.phase = "registered"
      BY <1>2, <1>7 DEF Register, Idle
    <3> QED BY <1>7, <3>1, MainMoves
  <2>2. registered' = registered \cup {<<ip, Head(s.buf).from>>} /\ UNCHANGED <<ble_devices, found, ip>>
    BY <1>2, <1>7 DEF Register
  <2>3. /\ s.buf # <<>> /\ s.buf[1].from = s.dev /\ HasEntry /\ s.dev = found[i] /\ i \in 1 .. Len(found)
    BY <1>1, <1>2, <2>1 DEF Meant, Entered
  <2>4. Head(s.buf).from = s.dev
    <3>1. s.buf \in Seq(Unit)
      BY ThreadIsOK, <1>2
    <3>2. Head(s.buf) = s.buf[1]
      BY <2>3, <3>1, Shorter
    <3> QED BY <2>3, <3>2
  <2>5. PICK a, d : a = ip /\ d = s.dev
    OBVIOUS
  <2>6. Kept'
    <3> SUFFICES ASSUME NEW r \in registered'
                 PROVE  /\ \E j \in 1 .. Len(found) : j < i + 1 /\ r[2] = found[j]
                        /\ \E k \in Slot : /\ ble_devices[k] # NULL
                                           /\ ble_devices[k].ip = r[1] /\ ble_devices[k].addr = r[2]
      BY <2>1, <2>2 DEF Kept
    <3>1. CASE r \in registered
      <4>1. PICK j \in 1 .. Len(found) : j < i /\ r[2] = found[j]
        BY <1>1, <3>1 DEF Kept
      <4>2. j < i + 1
        BY <1>2, <4>1
      <4> QED BY <1>1, <3>1, <4>1, <4>2 DEF Kept
    <3>2. CASE r = <<a, d>>
      <4>1. r[1] = ip /\ r[2] = s.dev
        BY <2>5, <3>2
      <4>2. i < i + 1
        BY <1>2
      <4> QED BY <2>3, <4>1, <4>2
    <3> QED BY <2>2, <2>4, <2>5, <3>1, <3>2
  <2>7. Distinct'
    BY <1>1, <2>2 DEF Distinct
  <2> QED BY <1>3, <2>1, <2>6, <2>7 DEF Meant, Entered
<1>8. CASE ~ Step("main") /\ ReadList
  <2>1. s.phase = "list" /\ (v = s \/ v.phase = "next") /\ i = 1
    <3>1. s.phase = "list"
      BY <1>2, <1>8 DEF ReadList, Idle
    <3> QED BY <1>8, <3>1, MainMoves DEF FoundInv
  <2>2. UNCHANGED <<ble_devices, i, ip, registered>>
    BY <1>8 DEF ReadList, manager
  <2>3. registered = {}
    <3>1. ASSUME NEW r \in registered PROVE FALSE
      BY <1>1, <2>1, <3>1 DEF Kept
    <3> QED BY <3>1
  <2>4. Distinct' /\ Kept'
    BY <1>1, <2>2, <2>3 DEF Distinct, Kept
  <2> QED BY <1>3, <2>1, <2>4 DEF Meant, Entered
<1>9. CASE ~ Step("main") /\ ~ Enter /\ ~ Register /\ ~ ReadList
  <2>1. UNCHANGED <<ble_devices, ip, found, registered>> /\ (i' = i \/ i' = i + 1)
    BY <1>9 DEF Main, Discover, NextDevice, SendSyn, ReadAck, SendDes, TryDescription, TryAgain,
                LeaveDevice, manager
  <2>2. Distinct' /\ Kept'
    BY <1>4, <2>1
  <2>3. \/ v.phase \notin Meant
        \/ v.phase = "syn" /\ v.dev = found[i] /\ UNCHANGED i
        \/ v.phase \in {"ack", "register"} /\ s.phase \in {"syn", "ack"} /\ v.dev = s.dev /\ UNCHANGED i
        \/ /\ v.phase \in {"send", "answer", "retry", "registered"} /\ s.phase \in Entered /\ v.dev = s.dev
           /\ v.phase = "registered" => s.phase = "completed" /\ v.buf = s.buf
           /\ UNCHANGED i
    <3>1. (NextDevice \/ SendDes \/ TryDescription \/ TryAgain) => UNCHANGED i
      BY DEF NextDevice, SendDes, TryDescription, TryAgain
    <3> QED BY <1>9, <3>1, MainMoves DEF Meant, Entered
  <2>4. CASE v.phase \notin Meant
    BY <1>3, <2>2, <2>4 DEF Meant, Entered
  <2>5. CASE v.phase = "syn" /\ v.dev = found[i] /\ UNCHANGED i
    BY <1>3, <2>1, <2>2, <2>5 DEF Entered
  <2>6. CASE v.phase \in {"ack", "register"} /\ s.phase \in {"syn", "ack"} /\ v.dev = s.dev /\ UNCHANGED i
    BY <1>1, <1>3, <2>1, <2>2, <2>6 DEF Entered, Meant
  <2>7. CASE /\ v.phase \in {"send", "answer", "retry", "registered"} /\ s.phase \in Entered /\ v.dev = s.dev
             /\ v.phase = "registered" => s.phase = "completed" /\ v.buf = s.buf
             /\ UNCHANGED i
    <3>1. s.dev = found[i] /\ HasEntry
      BY <1>1, <2>7 DEF Entered, Meant
    <3>2. HasEntry'
      BY <2>1, <2>7, <3>1
    <3>3. v.phase = "registered" => v.buf # <<>> /\ v.buf[1].from = v.dev
      <4>1. ASSUME s.phase = "completed" PROVE s.buf # <<>> /\ s.buf[1].from = s.dev
        <5>1. s.buf # <<>> /\ s.buf \in Seq(Unit)
          BY <1>2, <4>1, ThreadIsOK DEF StateOK
        <5>2. Whole(s.buf, s.dev, CommandOf("main"))
          BY <4>1 DEF LineInv, TalkInv
        <5>3. 1 \in 1 .. Len(s.buf)
          BY <5>1, Shorter
        <5> QED BY <5>1, <5>2, <5>3 DEF Whole
      <4> QED BY <2>7, <4>1
    <3> QED BY <1>3, <2>1, <2>2, <2>7, <3>1, <3>2, <3>3
  <2> QED BY <2>3, <2>4, <2>5, <2>6, <2>7
<1> QED BY <1>5, <1>6, <1>7, <1>8, <1>9

\* The table after a scan is as it was.
Scanned == ~ given.scan =>
    /\ MainDone
    /\ \A r \in registered : \E k \in Slot :
          /\ ble_devices[k] # NULL
          /\ ble_devices[k].ip = r[1] /\ ble_devices[k].addr = r[2]

DescribedInv == Scanned /\ (given.scan /\ given.calls = 0 => ScanInv)

LEMMA DescribedInit ==
    ASSUME Cardinality(Dev) <= MAXDEVICECOUNT, Init
    PROVE  DescribedInv
<1>1. CASE InitScanning
  <2>1. /\ given.scan /\ InitLine /\ ble_devices = [k \in Slot |-> NULL] /\ registered = {}
        /\ thread["main"] = At("scan", "clear", NULL) /\ thread["listener"] = At("recv", "idle", NULL)
    BY <1>1, Threads DEF InitScanning
  <2>2. PICK u : u = At("scan", "clear", NULL)
    OBVIOUS
  <2>3. u.phase = "scan" /\ u.pc = "clear"
    BY <2>2 DEF At
  <2>4. LineInv("main")
    BY <2>1, <2>2, <2>3 DEF LineInv, HungInv, TalkInv, Hanging
  <2>5. FoundInv
    BY <2>1, <2>2, <2>3 DEF FoundInv, InitLine
  <2>6. TableInv
    BY <2>1, <2>2, <2>3 DEF TableInv, Meant, Entered
  <2>7. given.calls = 0 => ListenerWaits
    BY <2>1 DEF ListenerWaits, InitLine, At
  <2> QED BY <2>1, <2>4, <2>5, <2>6, <2>7 DEF DescribedInv, Scanned, ScanInv
<1>2. CASE InitServing
  <2>1. ~ given.scan /\ thread["main"] = At("done", "idle", NULL)
    BY <1>2, Threads DEF InitServing
  <2>2. PICK order \in [0 .. Cardinality(Dev) - 1 -> Dev] :
           /\ ble_devices = [k \in Slot |->
                 IF k \in DOMAIN order THEN [addr |-> order[k], ip |-> k] ELSE NULL]
           /\ registered = {<<k, order[k]>> : k \in DOMAIN order}
    BY <1>2 DEF InitServing
  <2>3. \A k \in DOMAIN order : k \in Slot /\ ble_devices[k] = [addr |-> order[k], ip |-> k]
    <3>1. MAXDEVICECOUNT \in Nat /\ Cardinality(Dev) \in Nat
      BY LimitsAssumption, DevAssumption, FS_CardinalityType
    <3>2. \A k \in DOMAIN order : k \in Slot
      BY <3>1 DEF Slot
    <3> QED BY <2>2, <3>2
  <2>4. \A k \in DOMAIN order : ble_devices[k] # NULL /\ ble_devices[k].ip = k /\ ble_devices[k].addr = order[k]
    <3>1. \A k \in DOMAIN order : order[k] \in Dev /\ k \in Nat
      BY DevAssumption, FS_CardinalityType
    <3> SUFFICES ASSUME NEW k \in DOMAIN order
                 PROVE  ble_devices[k] # NULL /\ ble_devices[k].ip = k /\ ble_devices[k].addr = order[k]
      OBVIOUS
    <3>2. PICK e : e = [addr |-> order[k], ip |-> k]
      OBVIOUS
    <3>3. e # NULL /\ e.ip = k /\ e.addr = order[k]
      <4>1. e \in [addr : Dev, ip : Nat \cup {NULL}]
        BY <3>1, <3>2
      <4> QED BY <3>2, <4>1, NullAssumption
    <3> QED BY <2>3, <3>2, <3>3
  <2>5. \A r \in registered : \E k \in Slot :
           ble_devices[k] # NULL /\ ble_devices[k].ip = r[1] /\ ble_devices[k].addr = r[2]
    <3> SUFFICES ASSUME NEW r \in registered
                 PROVE  \E k \in Slot : ble_devices[k] # NULL /\ ble_devices[k].ip = r[1] /\ ble_devices[k].addr = r[2]
      OBVIOUS
    <3>1. PICK k \in DOMAIN order : r = <<k, order[k]>>
      BY <2>2
    <3>2. r[1] = k /\ r[2] = order[k]
      BY <3>1
    <3>3. k \in Slot /\ ble_devices[k] # NULL /\ ble_devices[k].ip = k /\ ble_devices[k].addr = order[k]
      BY <2>3, <2>4
    <3> QED BY <3>2, <3>3
  <2> QED BY <2>1, <2>5 DEF DescribedInv, Scanned, MainDone, At
<1> QED BY <1>1, <1>2 DEF Init

LEMMA DescribedNext ==
    ASSUME Cardinality(Dev) <= MAXDEVICECOUNT, TypeInv, DescribedInv, [Next]_vars, [Prompt]_vars
    PROVE  DescribedInv'
<1>1. UNCHANGED given
  BY EnvironmentKeeps, ListenerKeeps, MainKeeps DEF Next, vars, history
<1>2. Scanned'
  <2> SUFFICES ASSUME ~ given.scan PROVE Scanned'
    BY <1>1 DEF Scanned
  <2>1. MainDone /\ ~ Main
    BY DoneIsDone DEF DescribedInv, Scanned
  <2>2. UNCHANGED <<ble_devices, registered, thread["main"]>>
    BY <2>1, EnvironmentKeeps, ListenerKeeps DEF Next, vars, broker, manager
  <2> QED BY <1>1, <2>2 DEF DescribedInv, Scanned, MainDone
<1>3. ASSUME given.scan, given.calls = 0 PROVE ScanInv'
  <2>1. ScanInv
    BY <1>3 DEF DescribedInv
  <2>2. ListenerWaits' /\ ~ Listener
    BY <2>1, WaitingStays DEF ScanInv
  <2>3. CASE UNCHANGED vars
    BY <2>1, <2>2, <2>3 DEF vars, broker, link, manager, history, ScanInv, LineInv, HungInv, Gone, Clean, TalkInv,
                            Mute, Exchange, OnlyFor, InTx, ToCome, NoAnswer, CommandOf, FoundInv, TableInv, Silent
  <2>4. CASE Environment
    <3>1. LineInv("main")'
      BY <2>1, <2>4, LineEnvironment, Threads DEF ScanInv
    <3>2. FoundInv'
      BY <2>1, <2>4, FoundEnvironment DEF ScanInv
    <3>3. UNCHANGED <<ble_devices, thread, found, i, ip, registered>>
      BY <2>4, EnvironmentKeeps DEF broker
    <3>4. TableInv'
      BY <2>1, <3>3 DEF ScanInv, TableInv
    <3> QED BY <2>2, <3>1, <3>2, <3>4 DEF ScanInv
  <2>5. CASE Main /\ ~ UNCHANGED vars
    <3>1. LineInv("main")' /\ FoundInv' /\ TableInv'
      BY <2>1, <2>5, LineMain, FoundMain, TableMain DEF ScanInv
    <3> QED BY <2>2, <3>1 DEF ScanInv
  <2> QED BY <2>2, <2>3, <2>4, <2>5 DEF Next
<1> QED BY <1>1, <1>2, <1>3 DEF DescribedInv

\* Each description the scan sends to the manager has the address that stands in
\* the table, or none, with the device that sent it (ble_dev_register, add_new_ble_device and
\* update_iot_ip).  There are no more devices than entries, the modem has read
\* its orders when clear_recv_buff ends, and (Alone) no package comes during
\* the scan.
THEOREM Described ==
    ASSUME Cardinality(Dev) <= MAXDEVICECOUNT
    PROVE  Spec /\ [][Prompt]_vars => []OwnDescription
<1>1. Init => DescribedInv
  BY DescribedInit
<1>2. TypeInv /\ DescribedInv /\ [Next]_vars /\ [Prompt]_vars => DescribedInv'
  BY DescribedNext
<1>3. DescribedInv => OwnDescription
  BY DEF DescribedInv, Scanned, ScanInv, TableInv, OwnDescription, Alone, MaxCalls
<1> QED BY <1>1, <1>2, <1>3, TypeInvariant, PTL DEF Spec
==============================================================================
