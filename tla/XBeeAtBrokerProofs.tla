-------------------------- MODULE XBeeAtBrokerProofs --------------------------
(***************************************************************************)
(* Proofs about the broker for radios in AT mode: the types, that a        *)
(* command reaches the device it is meant for, and that what is registered *)
(* stands in the table.  One thread uses the line at a time and waits for  *)
(* the reply to each order, so where no reply is late the line holds one   *)
(* order, one reply, or one exchange with the device connected to.  And it *)
(* keeps its promise to the manager, also where replies are late but       *)
(* nothing is lost: the stream of orders leads each command to its device. *)
(***************************************************************************)
EXTENDS XBeeAtBroker, FiniteSetTheorems, TLAPS

----------------------------------------------------------------------------
\* Types.
Condition == [scan : BOOLEAN, lossy : BOOLEAN, refuses : BOOLEAN, late : BOOLEAN, calls : Nat]
Entry == [addr : Dev, ip : Nat \cup {NULL}]

PhasesOf(t) ==
    IF t = "listener" THEN {"recv", "connect", "answer", "completed", "timeout", "disconnect"}
    ELSE {"scan", "list", "next", "connect", "ack", "ip", "answer", "completed", "timeout", "done"}
\* The phases in which a thread is about a device, and those in which it gives orders.
Meant == {"connect", "ack", "ip", "answer", "completed", "timeout"}
Ordering == {"scan", "next", "connect", "disconnect"}

\* The orders a thread waits for, and those of both halves of an exchange.
Setting == [op : {"+++", "ATDH", "ATDL", "ATCN"}, dev : Dev \cup {NULL}]
OrdersOf(u) == IF u.phase = "connect" THEN ConnectOrders(u.dev) ELSE DisconnectOrders
Written(u) == 4 - Len(u.todo)
Awaited(u) == IF u.waiting THEN 1 ELSE 0

StateOK(t, u) ==
    /\ u \in ThreadState /\ u.phase \in PhasesOf(t) /\ u.todo \in Seq(Setting)
    /\ u.phase \in Meant => u.dev \in Dev
    /\ u.phase \notin Ordering => u.todo = <<>> /\ ~ u.waiting
    /\ u.phase \in {"connect", "disconnect"} =>
          /\ Len(u.todo) <= 4
          /\ \A k \in 1 .. Len(u.todo) : u.todo[k] = OrdersOf(u)[Written(u) + k]
    /\ u.phase = "connect" => Len(u.got) + Awaited(u) = Written(u)
    /\ u.phase = "completed" => u.buf # <<>> /\ Completed(u.buf)

BrokerOK ==
    /\ given \in Condition
    /\ xbee_at_devices \in [Slot -> Entry \cup {NULL}]
    /\ found \in Seq(Dev) /\ i \in Nat \ {0} /\ ip \in Nat \cup {NULL}
ThreadsOK ==
    /\ thread \in [Thread -> ThreadState]
    /\ \A t \in Thread : StateOK(t, thread[t])
LineOK ==
    /\ tx \in Seq(Order \cup Data) /\ rx \in Seq(Unit)
    /\ air \in [Dev -> Seq(Data)] /\ out \in [Dev -> Seq(Answer)]
    /\ command_mode \in BOOLEAN /\ dh \in BOOLEAN /\ dl \in Dev \cup {NULL}
ManagerOK ==
    /\ calls \in Seq(Nat) /\ ip_count \in Nat
    /\ asked \in Seq(Dev \cup {NULL}) /\ open \in Nat

TypeInv == BrokerOK /\ ThreadsOK /\ LineOK /\ ManagerOK

----------------------------------------------------------------------------
\* Sequences, and what is on the line.

LEMMA Shorter ==
    ASSUME NEW S, NEW q \in Seq(S), q # <<>>
    PROVE  /\ Tail(q) \in Seq(S) /\ Head(q) \in S /\ Head(q) = q[1] /\ 1 \in 1 .. Len(q)
           /\ Len(q) \in Nat \ {0} /\ Len(Tail(q)) = Len(q) - 1
           /\ \A k \in 1 .. Len(Tail(q)) : k + 1 \in 1 .. Len(q) /\ Tail(q)[k] = q[k + 1]
OBVIOUS

LEMMA Longer ==
    ASSUME NEW S, NEW q \in Seq(S), NEW e \in S
    PROVE  /\ Append(q, e) \in Seq(S) /\ Len(q) \in Nat /\ Len(Append(q, e)) = Len(q) + 1
           /\ \A k \in 1 .. Len(q) : Append(q, e)[k] = q[k]
           /\ Append(q, e)[Len(q) + 1] = e /\ Append(q, e) # <<>>
OBVIOUS

LEMMA Joined ==
    ASSUME NEW S, NEW p \in Seq(S), NEW q \in Seq(S)
    PROVE  /\ p \o q \in Seq(S) /\ Len(p) \in Nat /\ Len(q) \in Nat /\ Len(p \o q) = Len(p) + Len(q)
           /\ \A k \in 1 .. Len(p) : (p \o q)[k] = p[k]
           /\ \A k \in 1 .. Len(p) + Len(q) : k > Len(p) => (p \o q)[k] = q[k - Len(p)]
OBVIOUS

\* Reading the next unit moves it, a new one comes to the end.
LEMMA Moves ==
    ASSUME NEW S, NEW b \in Seq(S), NEW q \in Seq(S)
    PROVE  /\ q # <<>> => Append(b, Head(q)) \o Tail(q) = b \o q
           /\ \A e \in S : b \o Append(q, e) = Append(b \o q, e)
           /\ <<>> \o q = q
<1>1. ASSUME q # <<>> PROVE Append(b, Head(q)) \o Tail(q) = b \o q
  <2>1. Append(b, Head(q)) \in Seq(S) /\ Tail(q) \in Seq(S) /\ b \o q \in Seq(S)
    BY <1>1
  <2> DEFINE l == Append(b, Head(q)) \o Tail(q)
  <2>2. l \in Seq(S) /\ Len(l) = Len(b) + Len(q) /\ Len(b \o q) = Len(b) + Len(q)
    BY <1>1, <2>1
  <2>3. ASSUME NEW k \in 1 .. Len(b) + Len(q) PROVE l[k] = (b \o q)[k]
    <3>1. CASE k <= Len(b)
      BY <1>1, <2>1, <3>1
    <3>2. CASE k = Len(b) + 1
      BY <1>1, <2>1, <3>2
    <3>3. CASE k > Len(b) + 1
      <4>1. /\ l[k] = Tail(q)[k - (Len(b) + 1)] /\ (b \o q)[k] = q[k - Len(b)]
            /\ k - (Len(b) + 1) \in 1 .. Len(Tail(q))
        BY <1>1, <2>1, <3>3
      <4> QED BY <1>1, <4>1
    <3>4. Len(b) \in Nat /\ Len(q) \in Nat
      OBVIOUS
    <3> HIDE DEF l
    <3> QED BY <3>1, <3>2, <3>3, <3>4
  <2> DEFINE m == b \o q
  <2>4. m \in Seq(S) /\ Len(l) = Len(m) /\ \A k \in 1 .. Len(m) : l[k] = m[k]
    BY <2>1, <2>2, <2>3
  <2> HIDE DEF l, m
  <2>5. l = m
    BY <2>2, <2>4
  <2> QED BY <2>5 DEF l, m
<1>2. ASSUME NEW e \in S PROVE b \o Append(q, e) = Append(b \o q, e)
  OBVIOUS
<1>3. <<>> \o q = q
  OBVIOUS
<1> QED BY <1>1, <1>2, <1>3

LEMMA Single == ASSUME NEW S, NEW e \in S PROVE <<e>> \in Seq(S) /\ Len(<<e>>) = 1 /\ <<e>>[1] = e
OBVIOUS

LEMMA UnitKinds ==
    /\ \A u \in Unit : /\ u.unit = "answer" <=> u \in Answer
                       /\ u.unit = "found" <=> u \in Listed
                       /\ u.unit = "found" => u.dev \in Dev
    /\ \A u \in Answer : /\ u \in Unit /\ u.unit = "answer" /\ u.from \in Dev /\ u.cmd \in Command
                         /\ u.part \in {"all", "first", "last", "none"}
    /\ Reply \subseteq Unit /\ Listed \subseteq Unit
BY DEF Unit, Reply, Listed, Answer

LEMMA Replies ==
    \A u \in {"OK", "ERR", "OR", "end of list"} :
        [unit |-> u] \in Unit /\ [unit |-> u].unit = u
BY DEF Reply, Unit

LEMMA Threads == "main" \in Thread /\ "listener" \in Thread /\ "main" # "listener"
BY DEF Thread

\* A set of slots has a least element.
LEMMA FirstIn ==
    ASSUME NEW S \in SUBSET Slot, S # {}
    PROVE  First(S) \in S
<1> DEFINE Less == {p \in Nat \X Nat : p[1] < p[2]}
<1>1. OpToRel(<, Nat) = Less
  BY Zenon DEF OpToRel
<1>2. S \subseteq Nat
  BY LimitsAssumption DEF Slot
<1>3. \E k \in S : \A j \in S : ~ (<<j, k>> \in Less)
  <2> HIDE DEF Less
  <2> QED BY <1>1, <1>2, NatLessThanWellFounded, WFMin, Zenon
<1>4. \E k \in S : \A j \in S : k <= j
  <2>1. \A j, k \in Nat : j < k => <<j, k>> \in Less
    OBVIOUS
  <2> HIDE DEF Less
  <2>2. PICK k \in S : \A j \in S : ~ (<<j, k>> \in Less)
    BY <1>3
  <2>3. \A j \in S : ~ (j < k)
    BY <1>2, <2>1, <2>2
  <2> QED BY <1>2, <2>2, <2>3
<1> QED BY <1>4 DEF First

LEMMA LookupType ==
    ASSUME TypeInv, NEW S \in SUBSET Slot, S # {}, \A k \in S : xbee_at_devices[k] # NULL
    PROVE  /\ First(S) \in S /\ xbee_at_devices[First(S)] \in Entry
           /\ xbee_at_devices[First(S)].addr \in Dev
<1>1. First(S) \in S
  BY FirstIn
<1>2. xbee_at_devices[First(S)] \in Entry
  BY <1>1 DEF TypeInv, BrokerOK
<1> QED BY <1>1, <1>2 DEF Entry

----------------------------------------------------------------------------
\* TypeInv.

LEMMA SettingIsOrder ==
    /\ Setting \subseteq Order /\ \A q \in Seq(Setting) : q \in Seq(Order)
    /\ \A x \in Setting : x.op \in {"+++", "ATDH", "ATDL", "ATCN"} /\ x.dev \in Dev \cup {NULL}
<1>1. Setting \subseteq Order /\ \A x \in Setting : x.op \in {"+++", "ATDH", "ATDL", "ATCN"} /\ x.dev \in Dev \cup {NULL}
  BY DEF Setting, Order
<1>2. \A q \in Seq(Setting) : q \in Seq(Order)
  BY <1>1
<1> QED BY <1>1, <1>2

LEMMA FourOrders ==
    ASSUME NEW d \in Dev \cup {NULL}
    PROVE  /\ ConnectOrders(d) \in Seq(Setting) /\ Len(ConnectOrders(d)) = 4
           /\ ConnectOrders(d)[1] = ToModem("+++", NULL) /\ ConnectOrders(d)[2] = ToModem("ATDH", d)
           /\ ConnectOrders(d)[3] = ToModem("ATDL", d) /\ ConnectOrders(d)[4] = ToModem("ATCN", NULL)
<1>1. /\ ToModem("+++", NULL) \in Setting /\ ToModem("ATDH", d) \in Setting
      /\ ToModem("ATDL", d) \in Setting /\ ToModem("ATCN", NULL) \in Setting
  BY DEF ToModem, Setting
<1> HIDE DEF ToModem
<1> QED BY <1>1 DEF ConnectOrders

\* A thread at rest in a phase, and one that begins to connect or to disconnect.
AtRest(s, p) == s.phase = p /\ s.todo = <<>> /\ ~ s.waiting
Begins(u, p) == u.phase = p /\ Len(u.todo) = 4 /\ ~ u.waiting

\* A state at the beginning of a phase.
CanBegin(t, p, d, q) ==
    /\ p \in PhasesOf(t) /\ p \notin {"disconnect", "completed"} /\ d \in Dev \cup {NULL} /\ q \in Seq(Setting)
    /\ (p \in Meant => d \in Dev) /\ (p \notin Ordering => q = <<>>)
    /\ p = "connect" => q = ConnectOrders(d)

LEMMA FreshOK ==
    ASSUME NEW t \in Thread, NEW p, NEW d, NEW q, CanBegin(t, p, d, q)
    PROVE  LET u == Fresh(p, d, q) IN
           /\ StateOK(t, u) /\ u.phase = p /\ u.dev = d /\ u.todo = q /\ ~ u.waiting
           /\ u.got = <<>> /\ u.buf = <<>>
<1> USE DEF CanBegin
<1>1. PICK u : u = Fresh(p, d, q)
  OBVIOUS
<1>2. /\ u.phase = p /\ u.dev = d /\ u.todo = q /\ u.waiting = FALSE
      /\ u.got = <<>> /\ u.buf = <<>>
  BY <1>1 DEF Fresh
<1>3. u \in ThreadState
  <2>1. p \in {"recv", "scan", "list", "next", "connect", "ack", "ip", "answer",
               "completed", "timeout", "disconnect", "done"}
    BY DEF PhasesOf
  <2>2. <<>> \in Seq({"OK", "ERROR", "timeout"}) /\ <<>> \in Seq(Unit) /\ q \in Seq(Order)
    BY SettingIsOrder
  <2> QED BY <1>1, <2>1, <2>2 DEF Fresh, ThreadState
<1>4. p = "connect" => /\ Len(q) = 4
                       /\ \A k \in 1 .. Len(q) : q[k] = OrdersOf(u)[0 + k]
  <2> SUFFICES ASSUME p = "connect"
               PROVE  Len(q) = 4 /\ \A k \in 1 .. Len(q) : q[k] = OrdersOf(u)[0 + k]
    OBVIOUS
  <2>1. OrdersOf(u) = q
    BY <1>2 DEF OrdersOf
  <2>2. Len(q) = 4
    BY FourOrders
  <2> QED BY <2>1, <2>2
<1>5. StateOK(t, u)
  <2>1. u.phase \in {"connect", "disconnect"} =>
          /\ Len(u.todo) <= 4
          /\ \A k \in 1 .. Len(u.todo) : u.todo[k] = OrdersOf(u)[Written(u) + k]
    <3>1. u.phase = "disconnect" => FALSE
      BY <1>2
    <3>2. u.phase = "connect" => Written(u) = 0
      BY <1>2, <1>4 DEF Written
    <3> QED BY <1>2, <1>4, <3>1, <3>2
  <2>2. u.phase = "connect" => Len(u.got) + Awaited(u) = Written(u)
    BY <1>2, <1>4 DEF Written, Awaited
  <2> QED BY <1>2, <1>3, <2>1, <2>2 DEF StateOK
<1> QED BY <1>1, <1>2, <1>5

LEMMA Phases ==
    /\ PhasesOf("listener") = {"recv", "connect", "answer", "completed", "timeout", "disconnect"}
    /\ PhasesOf("main") = {"scan", "list", "next", "connect", "ack", "ip", "answer", "completed",
                           "timeout", "done"}
BY DEF PhasesOf

\* The main thread's, when it is about no device, and about device d.
LEMMA FreshMain ==
    /\ \A p \in {"scan", "list", "next", "done"} : \A q \in Seq(Setting) :
          (p \notin Ordering => q = <<>>) =>
             LET u == Fresh(p, NULL, q) IN
             StateOK("main", u) /\ u.phase = p /\ u.todo = q /\ ~ u.waiting /\ u.got = <<>>
    /\ \A p \in {"ack", "ip", "answer"} : \A d \in Dev :
          LET u == Fresh(p, d, <<>>) IN
          StateOK("main", u) /\ u.phase = p /\ u.dev = d /\ u.buf = <<>>
    /\ \A d \in Dev : LET u == Fresh("connect", d, ConnectOrders(d)) IN
          StateOK("main", u) /\ Begins(u, "connect") /\ u.dev = d
<1>1. ASSUME NEW p \in {"scan", "list", "next", "done"}, NEW q \in Seq(Setting), p \notin Ordering => q = <<>>
      PROVE  LET u == Fresh(p, NULL, q) IN
             StateOK("main", u) /\ u.phase = p /\ u.todo = q /\ ~ u.waiting /\ u.got = <<>>
  <2>1. CanBegin("main", p, NULL, q) /\ "main" \in Thread
    BY <1>1, Phases DEF Meant, Thread, CanBegin
  <2> QED BY <1>1, <2>1, FreshOK
<1>2. ASSUME NEW p \in {"ack", "ip", "answer"}, NEW d \in Dev
      PROVE  LET u == Fresh(p, d, <<>>) IN
             StateOK("main", u) /\ u.phase = p /\ u.dev = d /\ u.buf = <<>>
  <2>1. CanBegin("main", p, d, <<>>) /\ "main" \in Thread
    <3>1. <<>> \in Seq(Setting)
      OBVIOUS
    <3> QED BY <3>1, Phases DEF Ordering, Thread, CanBegin
  <2> QED BY <1>2, <2>1, FreshOK
<1>3. ASSUME NEW d \in Dev
      PROVE  LET u == Fresh("connect", d, ConnectOrders(d)) IN
             StateOK("main", u) /\ Begins(u, "connect") /\ u.dev = d
  <2>1. PICK q : q = ConnectOrders(d)
    OBVIOUS
  <2>2. CanBegin("main", "connect", d, q) /\ "main" \in Thread /\ Len(q) = 4
    BY <2>1, Phases, FourOrders DEF Ordering, Thread, CanBegin
  <2>3. LET u == Fresh("connect", d, q) IN
        StateOK("main", u) /\ u.phase = "connect" /\ u.dev = d /\ u.todo = q /\ ~ u.waiting
    BY <2>1, <2>2, FreshOK
  <2> QED BY <2>1, <2>2, <2>3 DEF Begins
<1> QED BY <1>1, <1>2, <1>3

LEMMA ThreadIsOK ==
    ASSUME TypeInv, NEW t \in Thread
    PROVE  LET s == thread[t] IN
           /\ s \in ThreadState /\ StateOK(t, s) /\ s.todo \in Seq(Setting) /\ s.waiting \in BOOLEAN
           /\ s.got \in Seq({"OK", "ERROR", "timeout"}) /\ s.buf \in Seq(Unit)
           /\ s.dev \in Dev \cup {NULL}
<1>1. thread[t] \in ThreadState /\ StateOK(t, thread[t])
  BY DEF TypeInv, ThreadsOK
<1> QED BY <1>1 DEF StateOK, ThreadState

LEMMA Went ==
    ASSUME TypeInv, NEW t \in Thread, NEW u, StateOK(t, u), Goes(t, u)
    PROVE  /\ ThreadsOK' /\ thread'[t] = u
           /\ \A b \in Thread : b # t => thread'[b] = thread[b]
<1>1. u \in ThreadState /\ thread \in [Thread -> ThreadState]
  BY DEF StateOK, TypeInv, ThreadsOK
<1>2. /\ thread' \in [Thread -> ThreadState] /\ thread'[t] = u
      /\ \A b \in Thread : b # t => thread'[b] = thread[b]
  BY <1>1 DEF Goes
<1>3. \A b \in Thread : StateOK(b, thread'[b])
  BY <1>2 DEF TypeInv, ThreadsOK
<1> QED BY <1>2, <1>3 DEF ThreadsOK

\* What the operations of both threads do, by the state before and after.
Orders(s, u) ==
    /\ s.todo # <<>> /\ ~ s.waiting /\ tx' = Append(tx, Head(s.todo)) /\ UNCHANGED rx
    /\ u.waiting /\ u.todo = Tail(s.todo) /\ u.phase = s.phase /\ u.got = s.got /\ u.buf = s.buf
Replied(s, u) ==
    /\ s.waiting /\ ~ u.waiting /\ UNCHANGED tx
    /\ u.todo = s.todo /\ u.phase = s.phase /\ u.buf = s.buf
    /\ \/ /\ rx # <<>> /\ rx' = Tail(rx)
          /\ u.got = Append(s.got, IF Head(rx).unit = "OK" THEN "OK" ELSE "ERROR")
       \/ TimedOut /\ UNCHANGED rx /\ u.got = Append(s.got, "timeout")
Collected(s, u) ==
    /\ s.phase = "answer" /\ rx # <<>> /\ rx' = Tail(rx) /\ UNCHANGED tx
    /\ u.todo = s.todo /\ u.waiting = s.waiting /\ u.got = s.got /\ u.buf = Append(s.buf, Head(rx))
    /\ u.phase = IF Completed(u.buf) THEN "completed" ELSE "answer"
Expired(s, u) ==
    /\ s.phase = "answer" /\ TimedOut /\ UNCHANGED <<tx, rx>>
    /\ u.todo = s.todo /\ u.waiting = s.waiting /\ u.got = s.got /\ u.buf = s.buf /\ u.phase = "timeout"

LEMMA StepGoes ==
    ASSUME TypeInv, NEW t \in Thread, Step(t)
    PROVE  /\ UNCHANGED <<xbee_at_devices, found, i, ip, modem, air, out, manager, history>>
           /\ \E u : /\ Goes(t, u) /\ StateOK(t, u) /\ u.dev = thread[t].dev
                     /\ \/ Orders(thread[t], u) \/ Replied(thread[t], u)
                        \/ Collected(thread[t], u) \/ Expired(thread[t], u)
<1> DEFINE s == thread[t]
<1>1. /\ s \in ThreadState /\ StateOK(t, s) /\ s.todo \in Seq(Setting) /\ s.waiting \in BOOLEAN
      /\ s.got \in Seq({"OK", "ERROR", "timeout"}) /\ s.buf \in Seq(Unit) /\ s.dev \in Dev \cup {NULL}
  BY ThreadIsOK
<1>2. UNCHANGED <<xbee_at_devices, found, i, ip, modem, air, out, manager, history>>
  BY DEF Step, WriteOrder, ReadReply, Collect, CollectTimeout, radio, modem
<1>3. CASE WriteOrder(t)
  <2>1. PICK u : u = [s EXCEPT !.todo = Tail(@), !.waiting = TRUE]
    OBVIOUS
  <2>2. /\ s.todo # <<>> /\ ~ s.waiting /\ tx' = Append(tx, Head(s.todo)) /\ UNCHANGED rx /\ Goes(t, u)
    BY <1>3, <2>1 DEF WriteOrder
  <2> HIDE DEF s
  <2>3. Tail(s.todo) \in Seq(Setting) /\ Tail(s.todo) \in Seq(Order) /\ Len(s.todo) \in Nat /\ Len(Tail(s.todo)) = Len(s.todo) - 1
        /\ \A k \in 1 .. Len(Tail(s.todo)) : k + 1 \in 1 .. Len(s.todo) /\ Tail(s.todo)[k] = s.todo[k + 1]
    BY <1>1, <2>2, Shorter, SettingIsOrder
  <2>4. /\ u \in ThreadState /\ u.waiting = TRUE /\ u.todo = Tail(s.todo) /\ u.phase = s.phase /\ u.got = s.got
        /\ u.buf = s.buf /\ u.dev = s.dev
    BY <1>1, <2>1, <2>3 DEF ThreadState
  <2>5. s.phase \in Ordering
    BY <1>1, <2>2 DEF StateOK
  <2>6. s.phase \in {"connect", "disconnect"} =>
          /\ Len(u.todo) <= 4
          /\ \A k \in 1 .. Len(u.todo) : u.todo[k] = OrdersOf(u)[Written(u) + k]
    <3> SUFFICES ASSUME s.phase \in {"connect", "disconnect"}
                 PROVE  Len(u.todo) <= 4 /\ \A k \in 1 .. Len(u.todo) : u.todo[k] = OrdersOf(u)[Written(u) + k]
      OBVIOUS
    <3>1. Len(s.todo) <= 4 /\ \A k \in 1 .. Len(s.todo) : s.todo[k] = OrdersOf(s)[Written(s) + k]
      BY <1>1 DEF StateOK
    <3>2. OrdersOf(u) = OrdersOf(s) /\ Written(u) = Written(s) + 1 /\ Written(s) \in Int
      BY <2>3, <2>4 DEF OrdersOf, Written
    <3>3. Len(u.todo) <= 4
      BY <2>3, <2>4, <3>1
    <3> SUFFICES ASSUME NEW k \in 1 .. Len(u.todo) PROVE u.todo[k] = OrdersOf(u)[Written(u) + k]
      BY <3>3
    <3>4. k + 1 \in 1 .. Len(s.todo) /\ u.todo[k] = s.todo[k + 1]
      BY <2>3, <2>4
    <3>5. s.todo[k + 1] = OrdersOf(s)[Written(s) + (k + 1)]
      BY <3>1, <3>4
    <3>6. Written(s) + (k + 1) = Written(u) + k
      BY <3>2
    <3> QED BY <3>2, <3>4, <3>5, <3>6
  <2>7. s.phase = "connect" => Len(u.got) + Awaited(u) = Written(u)
    <3>1. Awaited(s) = 0 /\ Awaited(u) = 1 /\ Written(u) = Written(s) + 1
      BY <2>2, <2>3, <2>4 DEF Awaited, Written
    <3>2. Len(s.got) \in Nat /\ (s.phase = "connect" => Len(s.got) + Awaited(s) = Written(s))
      BY <1>1 DEF StateOK
    <3> QED BY <2>4, <3>1, <3>2
  <2>8. StateOK(t, u)
    BY <1>1, <2>3, <2>4, <2>5, <2>6, <2>7 DEF StateOK
  <2>9. Orders(s, u)
    BY <2>2, <2>4 DEF Orders
  <2> QED BY <1>2, <2>2, <2>4, <2>8, <2>9 DEF s
<1>4. CASE ReadReply(t)
  <2>1. PICK g \in {"OK", "ERROR", "timeout"} :
          /\ s.waiting /\ UNCHANGED tx /\ Goes(t, [s EXCEPT !.waiting = FALSE, !.got = Append(@, g)])
          /\ \/ rx # <<>> /\ rx' = Tail(rx) /\ g = IF Head(rx).unit = "OK" THEN "OK" ELSE "ERROR"
             \/ TimedOut /\ UNCHANGED rx /\ g = "timeout"
    BY <1>4 DEF ReadReply
  <2>2. PICK u : u = [s EXCEPT !.waiting = FALSE, !.got = Append(@, g)]
    OBVIOUS
  <2> HIDE DEF s
  <2>3. Append(s.got, g) \in Seq({"OK", "ERROR", "timeout"}) /\ Len(Append(s.got, g)) = Len(s.got) + 1 /\ Len(s.got) \in Nat
    BY <1>1, Longer
  <2>4. /\ u \in ThreadState /\ u.waiting = FALSE /\ u.got = Append(s.got, g) /\ u.phase = s.phase /\ u.todo = s.todo
        /\ u.buf = s.buf /\ u.dev = s.dev
    BY <1>1, <2>2, <2>3 DEF ThreadState
  <2>5. OrdersOf(u) = OrdersOf(s) /\ Written(u) = Written(s)
    BY <2>4 DEF OrdersOf, Written
  <2>6. s.phase = "connect" => Len(u.got) + Awaited(u) = Written(u)
    <3>1. Awaited(u) = 0 /\ Awaited(s) = 1
      BY <2>1, <2>4 DEF Awaited
    <3>2. s.phase = "connect" => Len(s.got) + Awaited(s) = Written(s)
      BY <1>1 DEF StateOK
    <3> QED BY <2>3, <2>4, <2>5, <3>1, <3>2
  <2>7. StateOK(t, u)
    BY <1>1, <2>4, <2>5, <2>6 DEF StateOK
  <2>8. Replied(s, u)
    BY <2>1, <2>4 DEF Replied
  <2> QED BY <1>2, <2>1, <2>2, <2>4, <2>7, <2>8 DEF s
<1>5. CASE Collect(t)
  <2>1. PICK b : b = Append(s.buf, Head(rx))
    OBVIOUS
  <2>2. PICK p : p = IF Completed(b) THEN "completed" ELSE s.phase
    OBVIOUS
  <2>3. PICK u : u = [s EXCEPT !.buf = b, !.phase = p]
    OBVIOUS
  <2>4. /\ s.phase = "answer" /\ s.todo = <<>> /\ ~ s.waiting /\ rx # <<>> /\ rx' = Tail(rx) /\ UNCHANGED tx
        /\ Goes(t, u)
    BY <1>5, <2>1, <2>2, <2>3 DEF Collect, Idle
  <2> HIDE DEF s
  <2>5. b \in Seq(Unit) /\ b # <<>>
    BY <1>1, <2>1, <2>4, Shorter, Longer DEF TypeInv, LineOK
  <2>6. /\ u \in ThreadState /\ u.phase = p /\ u.buf = b /\ u.todo = s.todo /\ u.waiting = s.waiting
        /\ u.got = s.got /\ u.dev = s.dev
    BY <1>1, <2>2, <2>3, <2>4, <2>5 DEF ThreadState
  <2>7. StateOK(t, u)
    BY <1>1, <2>2, <2>4, <2>5, <2>6 DEF StateOK, PhasesOf, Meant, Ordering
  <2>8. Collected(s, u)
    BY <2>1, <2>2, <2>4, <2>6 DEF Collected
  <2> QED BY <1>2, <2>4, <2>6, <2>7, <2>8 DEF s
<1>6. CASE CollectTimeout(t)
  <2>1. PICK u : u = [s EXCEPT !.phase = "timeout"]
    OBVIOUS
  <2>2. /\ s.phase = "answer" /\ s.todo = <<>> /\ ~ s.waiting /\ TimedOut /\ UNCHANGED <<tx, rx>> /\ Goes(t, u)
    BY <1>6, <2>1 DEF CollectTimeout, Idle, radio
  <2> HIDE DEF s
  <2>3. /\ u \in ThreadState /\ u.phase = "timeout" /\ u.buf = s.buf /\ u.todo = s.todo /\ u.waiting = s.waiting
        /\ u.got = s.got /\ u.dev = s.dev
    BY <1>1, <2>1 DEF ThreadState
  <2>4. StateOK(t, u)
    BY <1>1, <2>2, <2>3 DEF StateOK, PhasesOf, Meant, Ordering
  <2>5. Expired(s, u)
    BY <2>2, <2>3 DEF Expired
  <2> QED BY <1>2, <2>2, <2>3, <2>4, <2>5 DEF s
<1> QED BY <1>3, <1>4, <1>5, <1>6 DEF Step

\* The same for the listener alone.
Unknown ==
    /\ AtRest(thread["listener"], "recv") /\ calls # <<>> /\ calls' = Tail(calls)
    /\ asked' = Append(asked, NULL) /\ UNCHANGED <<thread, open, answers, tx, rx>>
Taken(s, u) ==
    /\ AtRest(s, "recv") /\ calls # <<>> /\ calls' = Tail(calls)
    /\ Begins(u, "connect") /\ asked' = Append(asked, u.dev) /\ open' = Len(asked) + 1
    /\ UNCHANGED <<answers, tx, rx>>
Sent(s, u) ==
    /\ AtRest(s, "connect") /\ s.got[2] = "OK" /\ s.got[3] = "OK"
    /\ u.phase = "answer" /\ u.dev = s.dev /\ u.buf = <<>>
    /\ tx' = Append(tx, [op |-> "data", dev |-> s.dev, cmd |-> Call(open)])
    /\ UNCHANGED <<calls, asked, open, answers, rx>>
NotSent(s, u) ==
    /\ AtRest(s, "connect") /\ Begins(u, "disconnect") /\ open' = 0
    /\ UNCHANGED <<calls, asked, answers, tx, rx>>
Finished(s, u) ==
    /\ s.phase \in {"completed", "timeout"} /\ Begins(u, "disconnect") /\ open' = 0
    /\ answers' = IF s.phase = "completed" THEN Append(answers, [to |-> open, carries |-> Content(s.buf)])
                  ELSE answers
    /\ rx' = <<>> /\ UNCHANGED <<calls, asked, tx>>
Closed(s, u) ==
    /\ AtRest(s, "disconnect") /\ u.phase = "recv"
    /\ UNCHANGED <<calls, asked, open, answers, tx, rx>>

LEMMA DisconnectsOK ==
    ASSUME NEW s, StateOK("listener", s)
    PROVE  LET u == ListenerDisconnects(s) IN
           StateOK("listener", u) /\ (~ s.waiting => Begins(u, "disconnect"))
<1>1. PICK u : u = ListenerDisconnects(s)
  OBVIOUS
<1>2. DisconnectOrders \in Seq(Setting) /\ DisconnectOrders \in Seq(Order) /\ Len(DisconnectOrders) = 4
  BY FourOrders, SettingIsOrder DEF DisconnectOrders
<1>3. s \in ThreadState
  BY DEF StateOK
<1>4. /\ u \in ThreadState /\ u.phase = "disconnect" /\ u.todo = DisconnectOrders /\ u.waiting = s.waiting
  <2> HIDE DEF DisconnectOrders
  <2> QED BY <1>1, <1>2, <1>3 DEF ListenerDisconnects, ThreadState
<1>5. \A k \in 1 .. Len(u.todo) : u.todo[k] = OrdersOf(u)[Written(u) + k]
  <2>1. OrdersOf(u) = u.todo /\ Written(u) = 0
    BY <1>2, <1>4 DEF OrdersOf, Written
  <2> QED BY <1>2, <1>4, <2>1
<1>6. StateOK("listener", u)
  <2>1. u.phase \in PhasesOf("listener") /\ u.phase \notin Meant /\ u.phase \in Ordering /\ u.phase # "connect"
    BY <1>4, Phases DEF Meant, Ordering
  <2>2. u.todo \in Seq(Setting) /\ Len(u.todo) <= 4 /\ u.phase # "completed"
    <3> HIDE DEF DisconnectOrders
    <3>1. Len(u.todo) = 4 /\ u.todo \in Seq(Setting)
      BY <1>2, <1>4, Zenon
    <3> QED BY <1>4, <3>1
  <2> QED BY <1>4, <1>5, <2>1, <2>2 DEF StateOK
<1> QED BY <1>1, <1>2, <1>4, <1>6 DEF Begins

LEMMA ListenerGoes ==
    ASSUME TypeInv, Listener
    PROVE  /\ UNCHANGED <<xbee_at_devices, found, i, ip, modem, air, out, ip_count, registered, given>>
           /\ \/ Step("listener") \/ Unknown
              \/ \E u : /\ Goes("listener", u) /\ StateOK("listener", u)
                        /\ \/ Taken(thread["listener"], u) \/ Sent(thread["listener"], u)
                           \/ NotSent(thread["listener"], u) \/ Finished(thread["listener"], u)
                           \/ Closed(thread["listener"], u)
<1> USE Threads DEF manager, history, radio, modem
<1> DEFINE s == thread["listener"]
<1>1. /\ s \in ThreadState /\ StateOK("listener", s) /\ s.todo \in Seq(Setting) /\ s.waiting \in BOOLEAN
      /\ s.got \in Seq({"OK", "ERROR", "timeout"}) /\ s.buf \in Seq(Unit) /\ s.dev \in Dev \cup {NULL}
  BY ThreadIsOK
<1>2. CASE Step("listener")
  BY <1>2, StepGoes
<1>3. CASE TakeCall
  <2> DEFINE at == find_XBee_at_device_index_by_IoTIp(Head(calls))
  <2>1. /\ AtRest(s, "recv") /\ calls # <<>> /\ calls' = Tail(calls)
        /\ UNCHANGED <<xbee_at_devices, found, i, ip, radio, ip_count, registered, given, answers>>
    BY <1>3 DEF TakeCall, Idle, AtRest
  <2>2. CASE at = {}
    BY <1>3, <2>1, <2>2 DEF TakeCall, Unknown
  <2>3. CASE at # {}
    <3>1. PICK d : d = xbee_at_devices[First(at)].addr
      OBVIOUS
    <3>2. d \in Dev
      BY <2>3, <3>1, LookupType DEF find_XBee_at_device_index_by_IoTIp
    <3>3. PICK q : q = ConnectOrders(d)
      OBVIOUS
    <3>4. PICK u : u = [s EXCEPT !.phase = "connect", !.dev = d, !.todo = q, !.got = <<>>]
      OBVIOUS
    <3>5. /\ Goes("listener", u) /\ asked' = Append(asked, d) /\ open' = Len(asked) + 1
      BY <1>3, <2>3, <3>1, <3>3, <3>4 DEF TakeCall
    <3> HIDE DEF s
    <3>6. q \in Seq(Setting) /\ q \in Seq(Order) /\ Len(q) = 4
      BY <3>2, <3>3, FourOrders, SettingIsOrder
    <3>7. /\ u \in ThreadState /\ u.phase = "connect" /\ u.dev = d /\ u.todo = q /\ u.got = <<>>
          /\ ~ u.waiting
      <4>1. <<>> \in Seq({"OK", "ERROR", "timeout"})
        OBVIOUS
      <4> QED BY <1>1, <2>1, <3>2, <3>4, <3>6, <4>1 DEF ThreadState, AtRest
    <3>8. \A k \in 1 .. Len(u.todo) : u.todo[k] = OrdersOf(u)[Written(u) + k]
      <4>1. OrdersOf(u) = u.todo /\ Written(u) = 0
        BY <3>3, <3>6, <3>7 DEF OrdersOf, Written
      <4> QED BY <3>6, <3>7, <4>1
    <3>9. Len(u.got) + Awaited(u) = Written(u)
      BY <3>6, <3>7 DEF Awaited, Written
    <3>10. StateOK("listener", u)
      <4>1. u.phase \in PhasesOf("listener") /\ u.phase \in Ordering /\ u.phase # "completed"
        BY <3>7, Phases DEF Ordering
      <4>2. u.todo \in Seq(Setting) /\ Len(u.todo) <= 4 /\ u.dev \in Dev
        <5>1. u.todo \in Seq(Setting) /\ Len(u.todo) = 4 /\ u.dev \in Dev
          BY <3>2, <3>6, <3>7, Zenon
        <5> QED BY <5>1
      <4> QED BY <3>7, <3>8, <3>9, <4>1, <4>2 DEF StateOK
    <3>11. Taken(s, u)
      BY <2>1, <3>5, <3>6, <3>7 DEF Taken, Begins
    <3> QED BY <2>1, <3>5, <3>10, <3>11 DEF s
  <2> QED BY <2>2, <2>3
<1>4. CASE SendCall
  <2>1. /\ AtRest(s, "connect")
        /\ UNCHANGED <<xbee_at_devices, found, i, ip, rx, modem, air, out, manager, given, asked, answers>>
    BY <1>4 DEF SendCall, Idle, AtRest
  <2>2. CASE conn_status_succeed("listener")
    <3>1. PICK u : u = [s EXCEPT !.phase = "answer", !.buf = <<>>]
      OBVIOUS
    <3>2. /\ send_command_to_end_device(s.dev, Call(open)) /\ UNCHANGED open /\ Goes("listener", u)
          /\ s.got[2] = "OK" /\ s.got[3] = "OK"
      BY <1>4, <2>2, <3>1 DEF SendCall, FreshBuffer, conn_status_succeed
    <3> HIDE DEF s
    <3>3. /\ u \in ThreadState /\ u.phase = "answer" /\ u.buf = <<>> /\ u.dev = s.dev /\ u.todo = <<>> /\ ~ u.waiting
      <4>1. <<>> \in Seq(Unit)
        OBVIOUS
      <4> QED BY <1>1, <2>1, <3>1, <4>1 DEF ThreadState, AtRest
    <3>4. StateOK("listener", u)
      BY <1>1, <2>1, <3>3 DEF StateOK, PhasesOf, Meant, AtRest
    <3>5. Sent(s, u)
      BY <2>1, <3>2, <3>3 DEF Sent, send_command_to_end_device
    <3> QED BY <2>1, <3>2, <3>4, <3>5 DEF s
  <2>3. CASE ~ conn_status_succeed("listener")
    <3>1. PICK u : u = ListenerDisconnects(s)
      OBVIOUS
    <3>2. Goes("listener", u) /\ open' = 0 /\ UNCHANGED tx
      BY <1>4, <2>3, <3>1 DEF SendCall
    <3>3. StateOK("listener", u) /\ Begins(u, "disconnect")
      BY <1>1, <2>1, <3>1, DisconnectsOK DEF AtRest
    <3>4. NotSent(s, u)
      BY <2>1, <3>2, <3>3 DEF NotSent
    <3> QED BY <2>1, <3>2, <3>3, <3>4
  <2> QED BY <2>2, <2>3
<1>5. CASE SendAnswer
  <2>1. PICK u : u = ListenerDisconnects(s)
    OBVIOUS
  <2>2. /\ s.phase \in {"completed", "timeout"} /\ rx' = <<>> /\ open' = 0 /\ Goes("listener", u)
        /\ answers' = IF s.phase = "completed"
                      THEN Append(answers, [to |-> open, carries |-> Content(s.buf)]) ELSE answers
        /\ UNCHANGED <<xbee_at_devices, found, i, ip, tx, modem, air, out, manager, given, asked>>
    BY <1>5, <2>1 DEF SendAnswer, Answered, HasAnswer, clear_XBee_at_recv_buff
  <2>3. StateOK("listener", u) /\ Begins(u, "disconnect")
    <3>1. ~ s.waiting
      BY <1>1, <2>2 DEF StateOK, Ordering
    <3> QED BY <1>1, <2>1, <3>1, DisconnectsOK
  <2>4. Finished(s, u)
    BY <2>2, <2>3 DEF Finished
  <2> QED BY <2>2, <2>3, <2>4
<1>6. CASE Disconnected
  <2>1. PICK u : u = [s EXCEPT !.phase = "recv", !.dev = NULL, !.got = <<>>]
    OBVIOUS
  <2>2. /\ AtRest(s, "disconnect") /\ Goes("listener", u)
        /\ UNCHANGED <<xbee_at_devices, found, i, ip, radio, manager, history>>
    BY <1>6, <2>1 DEF Disconnected, Idle, AtRest
  <2> HIDE DEF s
  <2>3. u \in ThreadState /\ u.phase = "recv" /\ u.todo = <<>> /\ ~ u.waiting
    <3>1. <<>> \in Seq({"OK", "ERROR", "timeout"})
      OBVIOUS
    <3> QED BY <1>1, <2>1, <2>2, <3>1 DEF ThreadState, AtRest
  <2>4. StateOK("listener", u)
    BY <2>3 DEF StateOK, PhasesOf, Meant
  <2>5. Closed(s, u)
    BY <2>2, <2>3 DEF Closed
  <2> QED BY <2>2, <2>4, <2>5 DEF s
<1> QED BY <1>2, <1>3, <1>4, <1>5, <1>6 DEF Listener

\* And for the main thread alone.
AsksForList(s, u) ==
    /\ AtRest(s, "scan") /\ u.phase = "list" /\ tx' = Append(tx, ToModem("ATND", NULL))
    /\ UNCHANGED <<xbee_at_devices, found, i, ip, ip_count, registered, rx>>
ReadsList(s, u) ==
    /\ s.phase = "list" /\ rx # <<>> /\ rx' = Tail(rx)
    /\ found' = IF Head(rx).unit = "found" THEN Append(found, Head(rx).dev) ELSE found
    /\ IF Head(rx).unit = "end of list" THEN u.phase = "next" /\ ~ u.waiting ELSE u = s
    /\ UNCHANGED <<xbee_at_devices, i, ip, ip_count, registered, tx>>
ScanEnds(s, u) ==
    /\ AtRest(s, "next") /\ u.phase = "done"
    /\ UNCHANGED <<xbee_at_devices, found, i, ip, ip_count, registered, tx, rx>>
Tries(s, u) ==
    /\ AtRest(s, "next") /\ Begins(u, "connect") /\ i \in 1 .. Len(found) /\ u.dev = found[i] /\ rx' = <<>>
    /\ UNCHANGED <<xbee_at_devices, found, i, ip, ip_count, registered, tx>>
Greets(s, u) ==
    /\ AtRest(s, "connect") /\ s.got[3] = "OK" /\ u.phase = "ack" /\ u.dev = s.dev /\ u.buf = <<>>
    /\ tx' = Append(tx, [op |-> "data", dev |-> s.dev, cmd |-> SYN])
    /\ UNCHANGED <<xbee_at_devices, found, i, ip, ip_count, registered, rx>>
Leaves(s, u) ==
    /\ \/ AtRest(s, "connect") /\ UNCHANGED <<rx, registered>>
       \/ /\ s.phase = "ack" /\ UNCHANGED registered
          /\ \/ rx # <<>> /\ rx' = Tail(rx) /\ ~ IsAck(Head(rx))
             \/ TimedOut /\ UNCHANGED rx
       \/ /\ s.phase \in {"completed", "timeout"} /\ rx' = <<>>
          /\ registered' = IF s.phase = "completed" /\ check_sum(s.buf) /\ ip # NULL
                           THEN registered \cup {<<ip, Head(s.buf).from>>} ELSE registered
    /\ u.phase = "next" /\ ~ u.waiting /\ i' = i + 1
    /\ UNCHANGED <<xbee_at_devices, found, ip, ip_count, tx>>
Acknowledged(s, u) ==
    /\ s.phase = "ack" /\ rx # <<>> /\ rx' = Tail(rx)
    /\ u.phase = "ip" /\ u.dev = s.dev /\ add_new_XBee_at_device(s.dev)
    /\ UNCHANGED <<found, i, ip, ip_count, registered, tx>>
AsksIp(s, u) ==
    /\ s.phase = "ip" /\ u.phase = "answer" /\ u.dev = s.dev /\ u.buf = <<>>
    /\ \/ ip' = ip_count /\ ip_count' = ip_count + 1
       \/ ip' = NULL /\ ip_count' = ip_count
    /\ update_XBee_at_iot_ip(s.dev, ip')
    /\ tx' = Append(tx, [op |-> "data", dev |-> s.dev, cmd |-> DES])
    /\ UNCHANGED <<found, i, registered, rx>>

LEMMA MainGoes ==
    ASSUME TypeInv, Main
    PROVE  /\ UNCHANGED <<modem, air, out, calls, given, asked, open, answers>>
           /\ \/ Step("main")
              \/ \E u : /\ Goes("main", u) /\ StateOK("main", u)
                        /\ \/ AsksForList(thread["main"], u) \/ ReadsList(thread["main"], u)
                           \/ ScanEnds(thread["main"], u) \/ Tries(thread["main"], u)
                           \/ Greets(thread["main"], u) \/ Leaves(thread["main"], u)
                           \/ Acknowledged(thread["main"], u) \/ AsksIp(thread["main"], u)
<1> USE Threads DEF manager, history, radio, modem
<1> DEFINE s == thread["main"]
<1>1. /\ s \in ThreadState /\ StateOK("main", s) /\ s.todo \in Seq(Setting) /\ s.waiting \in BOOLEAN
      /\ s.got \in Seq({"OK", "ERROR", "timeout"}) /\ s.buf \in Seq(Unit) /\ s.dev \in Dev \cup {NULL}
      /\ s = me
  BY ThreadIsOK DEF me
<1>2. /\ <<>> \in Seq(Setting) /\ NULL \in Dev \cup {NULL}
      /\ s.phase \in Meant => s.dev \in Dev
  BY <1>1 DEF StateOK
<1>3. CASE Step("main")
  BY <1>3, StepGoes
<1>4. CASE AskForList
  <2>1. PICK u : u = Fresh("list", NULL, <<>>)
    OBVIOUS
  <2>2. StateOK("main", u) /\ u.phase = "list"
    BY <1>2, <2>1, FreshMain DEF Ordering
  <2>3. Goes("main", u) /\ AsksForList(s, u) /\ UNCHANGED <<modem, air, out, calls, given, asked, open, answers>>
    BY <1>4, <2>1, <2>2 DEF AskForList, AsksForList, Idle, AtRest
  <2> QED BY <2>2, <2>3
<1>5. CASE ReadList
  <2>1. /\ s.phase = "list" /\ rx # <<>> /\ rx' = Tail(rx)
        /\ found' = IF Head(rx).unit = "found" THEN Append(found, Head(rx).dev) ELSE found
        /\ UNCHANGED <<xbee_at_devices, i, ip, tx, modem, air, out, manager, history>>
    BY <1>5 DEF ReadList, Idle
  <2>2. CASE Head(rx).unit = "end of list"
    <3>1. PICK q : q = <<ToModem("ATCN", NULL)>>
      OBVIOUS
    <3>2. q \in Seq(Setting)
      BY <3>1 DEF ToModem, Setting
    <3>3. PICK u : u = Fresh("next", NULL, q)
      OBVIOUS
    <3>4. StateOK("main", u) /\ u.phase = "next" /\ ~ u.waiting
      BY <1>2, <3>2, <3>3, FreshMain DEF Ordering
    <3>5. Goes("main", u)
      BY <1>5, <2>2, <3>1, <3>3 DEF ReadList
    <3> QED BY <2>1, <2>2, <3>4, <3>5 DEF ReadsList
  <2>3. CASE Head(rx).unit # "end of list"
    <3>1. UNCHANGED thread
      BY <1>5, <2>3 DEF ReadList
    <3>2. Goes("main", s)
      BY <3>1 DEF Goes, TypeInv, ThreadsOK
    <3> QED BY <1>1, <2>1, <2>3, <3>2 DEF ReadsList
  <2> QED BY <2>2, <2>3
<1>6. CASE NextDevice
  <2>1. /\ AtRest(s, "next") /\ i \in Nat \ {0} /\ found \in Seq(Dev) /\ Len(found) \in Nat
        /\ UNCHANGED <<xbee_at_devices, found, i, ip, tx, modem, air, out, manager, history>>
    BY <1>6 DEF NextDevice, Idle, AtRest, TypeInv, BrokerOK
  <2>2. CASE i > Len(found)
    <3>1. PICK u : u = Fresh("done", NULL, <<>>)
      OBVIOUS
    <3>2. StateOK("main", u) /\ u.phase = "done"
      BY <1>2, <3>1, FreshMain DEF Ordering
    <3>3. Goes("main", u) /\ UNCHANGED rx
      BY <1>6, <2>2, <3>1 DEF NextDevice
    <3> QED BY <2>1, <3>2, <3>3 DEF ScanEnds
  <2>3. CASE ~ (i > Len(found))
    <3>1. i \in 1 .. Len(found) /\ found[i] \in Dev
      BY <2>1, <2>3
    <3>2. PICK u : u = Fresh("connect", found[i], ConnectOrders(found[i]))
      OBVIOUS
    <3>3. StateOK("main", u) /\ Begins(u, "connect") /\ u.dev = found[i]
      BY <3>1, <3>2, FreshMain
    <3>4. Goes("main", u) /\ rx' = <<>>
      BY <1>6, <2>3, <3>2 DEF NextDevice, clear_XBee_at_recv_buff
    <3>5. Tries(s, u)
      BY <2>1, <3>1, <3>3, <3>4 DEF Tries
    <3> QED BY <2>1, <3>3, <3>4, <3>5
  <2> QED BY <2>2, <2>3
<1>7. CASE SendSyn
  <2>1. /\ AtRest(s, "connect") /\ UNCHANGED <<xbee_at_devices, found, ip, rx, modem, air, out, manager, history>>
        /\ s.dev \in Dev
    BY <1>2, <1>7 DEF SendSyn, Idle, AtRest, Meant
  <2>2. CASE conn_status_succeed("main")
    <3>1. PICK u : u = Fresh("ack", s.dev, <<>>)
      OBVIOUS
    <3>2. StateOK("main", u) /\ u.phase = "ack" /\ u.dev = s.dev /\ u.buf = <<>>
      <4> HIDE DEF s
      <4> QED BY <1>2, <2>1, <3>1, FreshMain DEF Ordering
    <3>3. /\ Goes("main", u) /\ UNCHANGED i /\ s.got[3] = "OK"
          /\ tx' = Append(tx, [op |-> "data", dev |-> s.dev, cmd |-> SYN])
      BY <1>1, <1>7, <2>2, <3>1 DEF SendSyn, conn_status_succeed, send_command_to_end_device
    <3> QED BY <2>1, <3>2, <3>3 DEF Greets
  <2>3. CASE ~ conn_status_succeed("main")
    <3>1. PICK u : u = Fresh("next", NULL, <<>>)
      OBVIOUS
    <3>2. StateOK("main", u) /\ u.phase = "next" /\ ~ u.waiting
      BY <1>2, <3>1, FreshMain DEF Ordering
    <3>3. Goes("main", u) /\ i' = i + 1 /\ UNCHANGED tx
      BY <1>7, <2>3, <3>1 DEF SendSyn
    <3> QED BY <2>1, <3>2, <3>3 DEF Leaves
  <2> QED BY <2>2, <2>3
<1>8. ASSUME MainDisconnects
      PROVE  \E u : Goes("main", u) /\ StateOK("main", u) /\ u.phase = "next" /\ ~ u.waiting /\ i' = i + 1
  <2>1. PICK q : q = DisconnectOrders
    OBVIOUS
  <2>2. q \in Seq(Setting)
    BY <2>1, FourOrders DEF DisconnectOrders
  <2>3. PICK u : u = Fresh("next", NULL, q)
    OBVIOUS
  <2>4. StateOK("main", u) /\ u.phase = "next" /\ ~ u.waiting
    BY <1>2, <2>2, <2>3, FreshMain DEF Ordering
  <2> QED BY <1>8, <2>1, <2>3, <2>4 DEF MainDisconnects
<1>9. CASE ReadAck
  <2>1. /\ s.phase = "ack" /\ UNCHANGED <<found, ip, tx, modem, air, out, manager, history>>
        /\ s.dev \in Dev
    BY <1>2, <1>9 DEF ReadAck, Idle, Meant
  <2>2. CASE MainDisconnects /\ UNCHANGED xbee_at_devices
             /\ \/ rx # <<>> /\ rx' = Tail(rx) /\ ~ IsAck(Head(rx))
                \/ TimedOut /\ UNCHANGED rx
    <3>1. PICK u : Goes("main", u) /\ StateOK("main", u) /\ u.phase = "next" /\ ~ u.waiting /\ i' = i + 1
      BY <1>8, <2>2
    <3> QED BY <2>1, <2>2, <3>1 DEF Leaves
  <2>3. CASE /\ rx # <<>> /\ rx' = Tail(rx) /\ add_new_XBee_at_device(s.dev)
             /\ Goes("main", Fresh("ip", s.dev, <<>>)) /\ UNCHANGED i
    <3>1. PICK u : u = Fresh("ip", s.dev, <<>>)
      OBVIOUS
    <3>2. StateOK("main", u) /\ u.phase = "ip" /\ u.dev = s.dev
      <4> HIDE DEF s
      <4> QED BY <1>2, <2>1, <3>1, FreshMain DEF Ordering
    <3> QED BY <2>1, <2>3, <3>1, <3>2 DEF Acknowledged
  <2> QED BY <1>1, <1>9, <2>2, <2>3 DEF ReadAck
<1>10. CASE AskIp
  <2>1. PICK u : u = Fresh("answer", s.dev, <<>>)
    OBVIOUS
  <2>2. /\ s.phase = "ip" /\ s.dev \in Dev
        /\ (ip' = ip_count /\ ip_count' = ip_count + 1) \/ (ip' = NULL /\ ip_count' = ip_count)
        /\ update_XBee_at_iot_ip(s.dev, ip') /\ Goes("main", u)
        /\ tx' = Append(tx, [op |-> "data", dev |-> s.dev, cmd |-> DES])
        /\ UNCHANGED <<found, i, rx, modem, air, out, calls, registered, history>>
    BY <1>1, <1>2, <1>10, <2>1 DEF AskIp, Idle, Meant, send_command_to_end_device
  <2>3. StateOK("main", u) /\ u.phase = "answer" /\ u.dev = s.dev /\ u.buf = <<>>
    <3> HIDE DEF s
    <3> QED BY <1>2, <2>1, <2>2, FreshMain DEF Ordering
  <2> QED BY <2>2, <2>3 DEF AsksIp
<1>11. CASE Register
  <2>1. /\ s.phase \in {"completed", "timeout"} /\ rx' = <<>> /\ MainDisconnects
        /\ registered' = IF s.phase = "completed" /\ check_sum(s.buf) /\ ip # NULL
                         THEN registered \cup {<<ip, Head(s.buf).from>>} ELSE registered
        /\ UNCHANGED <<xbee_at_devices, found, ip, tx, modem, air, out, calls, ip_count, history>>
    BY <1>1, <1>11 DEF Register, Readable, Answered, clear_XBee_at_recv_buff
  <2>2. PICK u : Goes("main", u) /\ StateOK("main", u) /\ u.phase = "next" /\ ~ u.waiting /\ i' = i + 1
    BY <1>8, <2>1
  <2> QED BY <2>1, <2>2 DEF Leaves
<1> QED BY <1>3, <1>4, <1>5, <1>6, <1>7, <1>9, <1>10, <1>11 DEF Main

LEMMA TypeInit == Init => TypeInv
<1> SUFFICES ASSUME Init PROVE TypeInv
  OBVIOUS
<1>1. /\ given \in Condition /\ tx = <<>> /\ rx = <<>> /\ command_mode = FALSE /\ dh = FALSE /\ dl = NULL
      /\ air = [d \in Dev |-> <<>>] /\ out = [d \in Dev |-> <<>>] /\ found = <<>> /\ i = 1 /\ ip = NULL
      /\ calls = <<>> /\ asked = <<>> /\ open = 0
  BY ConditionsAssumption DEF Init, InitScanning, InitServing, InitLine, Condition
<1>2. LineOK
  <2>1. tx \in Seq(Order \cup Data) /\ rx \in Seq(Unit)
    BY <1>1
  <2>2. <<>> \in Seq(Data) /\ <<>> \in Seq(Answer)
    OBVIOUS
  <2>3. air \in [Dev -> Seq(Data)] /\ out \in [Dev -> Seq(Answer)]
    BY <1>1, <2>2, Zenon
  <2> QED BY <1>1, <2>1, <2>3 DEF LineOK
<1>3. Cardinality(Dev) \in Nat
  BY DevAssumption, FS_CardinalityType
<1>4. ManagerOK
  BY <1>1, <1>3 DEF ManagerOK, Init, InitScanning, InitServing
<1>5. xbee_at_devices \in [Slot -> Entry \cup {NULL}]
  <2>1. CASE InitScanning
    BY <2>1 DEF InitScanning
  <2>2. CASE InitServing
    <3>1. PICK order \in [0 .. Cardinality(Dev) - 1 -> Dev] :
            xbee_at_devices = [k \in Slot |->
                  IF k \in DOMAIN order THEN [addr |-> order[k], ip |-> k] ELSE NULL]
      BY <2>2 DEF InitServing
    <3>2. \A k \in DOMAIN order : [addr |-> order[k], ip |-> k] \in Entry
      BY <1>3 DEF Entry
    <3> QED BY <3>1, <3>2
  <2> QED BY <2>1, <2>2 DEF Init
<1>6. BrokerOK
  BY <1>1, <1>5 DEF BrokerOK
<1>7. PICK q : q = <<ToModem("+++", NULL)>>
  OBVIOUS
<1>8. q \in Seq(Setting) /\ <<>> \in Seq(Setting)
  BY <1>7 DEF ToModem, Setting
<1>9. ThreadsOK
  <2>1. /\ thread = [t \in Thread |-> thread[t]]
        /\ thread["listener"] = Fresh("recv", NULL, <<>>)
        /\ thread["main"] = Fresh("scan", NULL, q) \/ thread["main"] = Fresh("done", NULL, <<>>)
    BY <1>7, Threads DEF Init, InitScanning, InitServing
  <2>2. StateOK("listener", Fresh("recv", NULL, <<>>))
    <3>1. CanBegin("listener", "recv", NULL, <<>>)
      BY <1>8, Phases DEF CanBegin, Meant
    <3> QED BY <3>1, Threads, FreshOK
  <2>3. StateOK("main", Fresh("done", NULL, <<>>)) /\ StateOK("main", Fresh("scan", NULL, q))
    BY <1>8, FreshMain DEF Ordering
  <2>4. \A t \in Thread : StateOK(t, thread[t])
    <3>1. StateOK("main", thread["main"]) /\ StateOK("listener", thread["listener"])
      BY <2>1, <2>2, <2>3
    <3> QED BY <3>1 DEF Thread
  <2>5. thread \in [Thread -> ThreadState]
    <3>1. \A t \in Thread : thread[t] \in ThreadState
      BY <2>4 DEF StateOK
    <3> QED BY <2>1, <3>1
  <2> QED BY <2>4, <2>5 DEF ThreadsOK
<1> QED BY <1>2, <1>4, <1>6, <1>9 DEF TypeInv

\* What is written on the line.
LEMMA WriteType ==
    ASSUME TypeInv
    PROVE  /\ \A x \in Setting : Append(tx, x) \in Seq(Order \cup Data)
           /\ Append(tx, ToModem("ATND", NULL)) \in Seq(Order \cup Data)
           /\ \A d \in Dev, c \in Command :
                 LET x == [op |-> "data", dev |-> d, cmd |-> c] IN
                 x \in Data /\ Append(tx, x) \in Seq(Order \cup Data)
<1>1. tx \in Seq(Order \cup Data)
  BY DEF TypeInv, LineOK
<1>2. ASSUME NEW x \in Setting PROVE Append(tx, x) \in Seq(Order \cup Data)
  BY <1>1, SettingIsOrder, Longer
<1>3. ToModem("ATND", NULL) \in Order
  BY DEF ToModem, Order
<1>4. ASSUME NEW d \in Dev, NEW c \in Command
      PROVE  LET x == [op |-> "data", dev |-> d, cmd |-> c] IN
             x \in Data /\ Append(tx, x) \in Seq(Order \cup Data)
  <2>1. [op |-> "data", dev |-> d, cmd |-> c] \in Data
    BY DEF Data
  <2> QED BY <1>1, <2>1, Longer
<1> QED BY <1>1, <1>2, <1>3, <1>4, Longer

LEMMA CommandType == SYN \in Command /\ DES \in Command /\ \A n \in Nat : Call(n) \in Command
BY DEF SYN, DES, Call, Command

\* Of the line, a thread's own operations change tx and rx.
LEMMA StepType == ASSUME TypeInv, NEW t \in Thread, Step(t) PROVE TypeInv'
<1>1. /\ UNCHANGED <<xbee_at_devices, found, i, ip, modem, air, out, manager, history>>
      /\ \E u : /\ Goes(t, u) /\ StateOK(t, u) /\ u.dev = thread[t].dev
                /\ \/ Orders(thread[t], u) \/ Replied(thread[t], u)
                   \/ Collected(thread[t], u) \/ Expired(thread[t], u)
  BY StepGoes
<1>2. BrokerOK' /\ ManagerOK'
  BY <1>1 DEF TypeInv, BrokerOK, ManagerOK, manager, history
<1>3. ThreadsOK'
  BY <1>1, Went
<1>4. PICK u : \/ Orders(thread[t], u) \/ Replied(thread[t], u)
               \/ Collected(thread[t], u) \/ Expired(thread[t], u)
  BY <1>1
<1>5. thread[t].todo \in Seq(Setting) /\ tx \in Seq(Order \cup Data) /\ rx \in Seq(Unit)
  BY ThreadIsOK DEF TypeInv, LineOK
<1>6. tx' \in Seq(Order \cup Data)
  <2>1. CASE Orders(thread[t], u)
    <3>1. thread[t].todo # <<>> /\ tx' = Append(tx, Head(thread[t].todo))
      BY <2>1 DEF Orders
    <3>2. Head(thread[t].todo) \in Setting
      BY <1>5, <3>1, Shorter
    <3> QED BY <3>1, <3>2, WriteType
  <2>2. CASE tx' = tx
    BY <1>5, <2>2
  <2> QED BY <1>4, <2>1, <2>2 DEF Replied, Collected, Expired
<1>7. rx' \in Seq(Unit)
  <2>1. rx' = rx \/ (rx # <<>> /\ rx' = Tail(rx))
    BY <1>4 DEF Orders, Replied, Collected, Expired
  <2> QED BY <1>5, <2>1, Shorter
<1>8. LineOK'
  BY <1>1, <1>6, <1>7 DEF TypeInv, LineOK, modem
<1> QED BY <1>2, <1>3, <1>8 DEF TypeInv

LEMMA TypeListener == TypeInv /\ Listener => TypeInv'
<1> SUFFICES ASSUME TypeInv, Listener PROVE TypeInv'
  OBVIOUS
<1> USE Threads DEF modem
<1> DEFINE s == thread["listener"]
<1>1. UNCHANGED <<xbee_at_devices, found, i, ip, modem, air, out, ip_count, registered, given>>
  BY ListenerGoes
<1>2. BrokerOK'
  BY <1>1 DEF TypeInv, BrokerOK
<1>3. /\ tx \in Seq(Order \cup Data) /\ rx \in Seq(Unit) /\ calls \in Seq(Nat) /\ ip_count \in Nat
      /\ asked \in Seq(Dev \cup {NULL}) /\ open \in Nat
  BY DEF TypeInv, LineOK, ManagerOK
<1>4. ASSUME tx' \in Seq(Order \cup Data), rx' \in Seq(Unit) PROVE LineOK'
  BY <1>1, <1>4 DEF TypeInv, LineOK
<1>5. CASE Step("listener")
  BY <1>5, StepType
<1>6. CASE Unknown
  <2>1. calls # <<>> /\ calls' = Tail(calls) /\ asked' = Append(asked, NULL) /\ UNCHANGED <<thread, open, tx, rx>>
    BY <1>6 DEF Unknown
  <2>2. ThreadsOK' /\ LineOK'
    BY <1>3, <1>4, <2>1 DEF TypeInv, ThreadsOK
  <2>3. calls' \in Seq(Nat) /\ asked' \in Seq(Dev \cup {NULL})
    BY <1>3, <2>1, Shorter, Longer
  <2>4. ManagerOK'
    BY <1>1, <1>3, <2>1, <2>3 DEF ManagerOK
  <2> QED BY <1>2, <2>2, <2>4 DEF TypeInv
<1>7. ASSUME NEW u, Goes("listener", u), StateOK("listener", u),
             Taken(s, u) \/ Sent(s, u) \/ NotSent(s, u) \/ Finished(s, u) \/ Closed(s, u)
      PROVE  TypeInv'
  <2>1. ThreadsOK'
    BY <1>7, Went
  <2>2. CASE Taken(s, u)
    <3>1. /\ calls # <<>> /\ calls' = Tail(calls) /\ asked' = Append(asked, u.dev) /\ open' = Len(asked) + 1
          /\ UNCHANGED <<tx, rx>> /\ u.dev \in Dev
      BY <1>7, <2>2 DEF Taken, Begins, StateOK, Meant
    <3>2. calls' \in Seq(Nat) /\ asked' \in Seq(Dev \cup {NULL}) /\ open' \in Nat
      BY <1>3, <3>1, Shorter, Longer
    <3>3. ManagerOK' /\ LineOK'
      BY <1>1, <1>3, <1>4, <3>1, <3>2 DEF ManagerOK
    <3> QED BY <1>2, <2>1, <3>3 DEF TypeInv
  <2>3. CASE Sent(s, u)
    <3>1. /\ tx' = Append(tx, [op |-> "data", dev |-> s.dev, cmd |-> Call(open)])
          /\ UNCHANGED <<calls, asked, open, rx>> /\ s.phase = "connect"
      BY <2>3 DEF Sent, AtRest
    <3>2. s.dev \in Dev
      BY <3>1, ThreadIsOK DEF StateOK, Meant
    <3>3. tx' \in Seq(Order \cup Data)
      <4> HIDE DEF s
      <4> QED BY <1>3, <3>1, <3>2, WriteType, CommandType
    <3>4. ManagerOK' /\ LineOK'
      BY <1>1, <1>3, <1>4, <3>1, <3>3 DEF ManagerOK
    <3> QED BY <1>2, <2>1, <3>4 DEF TypeInv
  <2>4. CASE NotSent(s, u) \/ Finished(s, u) \/ Closed(s, u)
    <3>1. UNCHANGED <<calls, asked, tx>> /\ open' \in {0, open} /\ rx' \in {<<>>, rx}
      BY <2>4 DEF NotSent, Finished, Closed
    <3>2. ManagerOK'
      BY <1>1, <1>3, <3>1 DEF ManagerOK
    <3>3. rx' \in Seq(Unit) /\ tx' \in Seq(Order \cup Data)
      <4>1. <<>> \in Seq(Unit)
        OBVIOUS
      <4> QED BY <1>3, <3>1, <4>1
    <3> QED BY <1>2, <1>4, <2>1, <3>2, <3>3 DEF TypeInv
  <2> QED BY <1>7, <2>2, <2>3, <2>4
<1> QED BY <1>5, <1>6, <1>7, ListenerGoes

LEMMA TableType ==
    ASSUME TypeInv, NEW d \in Dev, NEW a \in Nat \cup {NULL}
    PROVE  /\ add_new_XBee_at_device(d) => xbee_at_devices' \in [Slot -> Entry \cup {NULL}]
           /\ update_XBee_at_iot_ip(d, a) => xbee_at_devices' \in [Slot -> Entry \cup {NULL}]
<1>1. xbee_at_devices \in [Slot -> Entry \cup {NULL}]
  BY DEF TypeInv, BrokerOK
<1>2. ASSUME add_new_XBee_at_device(d) PROVE xbee_at_devices' \in [Slot -> Entry \cup {NULL}]
  <2>1. PICK e, k : /\ e = [addr |-> d, ip |-> NULL]
                    /\ k = First({j \in Slot : xbee_at_devices[j] = NULL})
    OBVIOUS
  <2>2. e \in Entry
    BY <2>1 DEF Entry
  <2>3. UNCHANGED xbee_at_devices \/ xbee_at_devices' = [xbee_at_devices EXCEPT ![k] = e]
    BY <1>2, <2>1 DEF add_new_XBee_at_device
  <2> QED BY <1>1, <2>2, <2>3
<1>3. ASSUME update_XBee_at_iot_ip(d, a) PROVE xbee_at_devices' \in [Slot -> Entry \cup {NULL}]
  <2>1. PICK at \in SUBSET Slot : at = find_XBee_at_device_index(d)
    BY DEF find_XBee_at_device_index
  <2>2. CASE at = {}
    BY <1>1, <1>3, <2>1, <2>2 DEF update_XBee_at_iot_ip
  <2>3. CASE at # {}
    <3>1. PICK k : k = First(at)
      OBVIOUS
    <3>2. k \in at
      BY <2>3, <3>1, FirstIn
    <3>3. xbee_at_devices[k] \in Entry
      BY <1>1, <2>1, <3>2 DEF find_XBee_at_device_index
    <3>4. [xbee_at_devices[k] EXCEPT !.ip = a] \in Entry
      BY <3>3 DEF Entry
    <3>5. xbee_at_devices' = [xbee_at_devices EXCEPT ![k].ip = a]
      BY <1>3, <2>1, <2>3, <3>1 DEF update_XBee_at_iot_ip
    <3> QED BY <1>1, <3>2, <3>4, <3>5
  <2> QED BY <2>2, <2>3
<1> QED BY <1>2, <1>3

LEMMA TypeMain == TypeInv /\ Main => TypeInv'
<1> SUFFICES ASSUME TypeInv, Main PROVE TypeInv'
  OBVIOUS
<1> USE Threads DEF modem
<1> DEFINE s == thread["main"]
<1>1. UNCHANGED <<modem, air, out, calls, given, asked, open, answers>>
  BY MainGoes
<1>2. /\ tx \in Seq(Order \cup Data) /\ rx \in Seq(Unit) /\ ip_count \in Nat /\ given \in Condition
      /\ xbee_at_devices \in [Slot -> Entry \cup {NULL}]
      /\ found \in Seq(Dev) /\ i \in Nat \ {0} /\ ip \in Nat \cup {NULL}
  BY DEF TypeInv, LineOK, ManagerOK, BrokerOK
<1>3. CASE Step("main")
  BY <1>3, StepType
<1>4. ASSUME NEW u, Goes("main", u), StateOK("main", u),
             \/ AsksForList(s, u) \/ ReadsList(s, u) \/ ScanEnds(s, u) \/ Tries(s, u)
             \/ Greets(s, u) \/ Leaves(s, u) \/ Acknowledged(s, u) \/ AsksIp(s, u)
      PROVE  TypeInv'
  <2>1. ThreadsOK'
    BY <1>4, Went
  <2>2. s.phase \in Meant => s.dev \in Dev
    BY ThreadIsOK DEF StateOK
  <2>3. tx' \in Seq(Order \cup Data)
    <3>1. CASE UNCHANGED tx \/ tx' = Append(tx, ToModem("ATND", NULL))
      BY <1>2, <3>1, WriteType
    <3>2. CASE Greets(s, u) \/ AsksIp(s, u)
      <4>1. /\ s.phase \in {"connect", "ip"}
            /\ \E c \in {SYN, DES} : tx' = Append(tx, [op |-> "data", dev |-> s.dev, cmd |-> c])
        BY <3>2 DEF Greets, AsksIp, AtRest
      <4>2. s.dev \in Dev
        BY <2>2, <4>1 DEF Meant
      <4>3. PICK c \in Command : tx' = Append(tx, [op |-> "data", dev |-> s.dev, cmd |-> c])
        BY <4>1, CommandType
      <4> HIDE DEF s
      <4> QED BY <4>2, <4>3, WriteType
    <3> QED BY <1>4, <3>1, <3>2 DEF AsksForList, ReadsList, ScanEnds, Tries, Leaves, Acknowledged
  <2>4. rx' \in Seq(Unit)
    <3>1. rx' \in {rx, <<>>} \/ (rx # <<>> /\ rx' = Tail(rx))
      BY <1>4 DEF AsksForList, ReadsList, ScanEnds, Tries, Leaves, Acknowledged, Greets, AsksIp
    <3>2. <<>> \in Seq(Unit) /\ (rx # <<>> => Tail(rx) \in Seq(Unit))
      BY <1>2
    <3> QED BY <1>2, <3>1, <3>2
  <2>5. LineOK'
    BY <1>1, <2>3, <2>4 DEF TypeInv, LineOK
  <2>6. ip_count' \in Nat /\ ip' \in Nat \cup {NULL} /\ i' \in Nat \ {0}
    <3>1. /\ ip_count' \in {ip_count, ip_count + 1} /\ ip' \in {ip, ip_count, NULL} /\ i' \in {i, i + 1}
      BY <1>4 DEF AsksForList, ReadsList, ScanEnds, Tries, Leaves, Acknowledged, Greets, AsksIp
    <3> QED BY <1>2, <3>1
  <2>7. found' \in Seq(Dev)
    <3>1. \/ found' = found
          \/ rx # <<>> /\ Head(rx).unit = "found" /\ found' = Append(found, Head(rx).dev)
      BY <1>4 DEF AsksForList, ReadsList, ScanEnds, Tries, Leaves, Acknowledged, Greets, AsksIp
    <3>2. rx # <<>> /\ Head(rx).unit = "found" => Head(rx).dev \in Dev
      BY <1>2, Shorter, UnitKinds
    <3>3. \A d \in Dev : Append(found, d) \in Seq(Dev)
      BY <1>2
    <3> QED BY <1>2, <3>1, <3>2, <3>3
  <2>8. xbee_at_devices' \in [Slot -> Entry \cup {NULL}]
    <3>1. CASE UNCHANGED xbee_at_devices
      BY <1>2, <3>1
    <3>2. CASE Acknowledged(s, u)
      <4>1. s.phase = "ack" /\ add_new_XBee_at_device(s.dev)
        BY <3>2 DEF Acknowledged
      <4>2. s.dev \in Dev
        BY <2>2, <4>1 DEF Meant
      <4> HIDE DEF s
      <4> QED BY <1>2, <4>1, <4>2, TableType
    <3>3. CASE AsksIp(s, u)
      <4>1. PICK a \in Nat \cup {NULL} : s.phase = "ip" /\ update_XBee_at_iot_ip(s.dev, a)
        BY <2>6, <3>3 DEF AsksIp
      <4>2. s.dev \in Dev
        BY <2>2, <4>1 DEF Meant
      <4> HIDE DEF s
      <4> QED BY <1>2, <4>1, <4>2, TableType
    <3> QED BY <1>4, <3>1, <3>2, <3>3 DEF AsksForList, ReadsList, ScanEnds, Tries, Leaves, Greets
  <2>9. BrokerOK' /\ ManagerOK'
    BY <1>1, <1>2, <2>6, <2>7, <2>8 DEF TypeInv, BrokerOK, ManagerOK
  <2> QED BY <2>1, <2>5, <2>9 DEF TypeInv
<1> QED BY <1>3, <1>4, MainGoes

LEMMA ReadHead ==
    ASSUME TypeInv, tx # <<>>
    PROVE  /\ Tail(tx) \in Seq(Order \cup Data) /\ Head(tx) = tx[1] /\ Head(tx) \in Order \cup Data
           /\ Head(tx).dev \in Dev \cup {NULL} /\ (Head(tx).op = "data" => Head(tx) \in Data)
           /\ Head(tx).op \in {"+++", "ATDH", "ATDL", "ATCN", "ATND", "data"}
<1>1. /\ Tail(tx) \in Seq(Order \cup Data) /\ Head(tx) = tx[1] /\ Head(tx) \in Order \cup Data
  BY Shorter DEF TypeInv, LineOK
<1>2. /\ Head(tx).dev \in Dev \cup {NULL} /\ (Head(tx).op = "data" => Head(tx) \in Data)
      /\ Head(tx).op \in {"+++", "ATDH", "ATDL", "ATCN", "ATND", "data"}
  BY <1>1 DEF Order, Data
<1> QED BY <1>1, <1>2

\* What becomes of an order, or of data, that the modem reads.
U(r) == [unit |-> r]
Half(x) ==
    /\ command_mode /\ x.op \in {"ATDH", "ATDL"} /\ rx' = Append(rx, U("OK"))
    /\ dh' = (IF x.op = "ATDH" THEN x.dev # NULL ELSE dh) /\ dl' = (IF x.op = "ATDH" THEN dl ELSE x.dev)
    /\ UNCHANGED <<command_mode, air>>
Exits(x) ==
    /\ command_mode /\ x.op = "ATCN" /\ ~ command_mode' /\ rx' = Append(rx, U("OK"))
    /\ UNCHANGED <<dh, dl, air>>
Enters(x) ==
    /\ ~ command_mode /\ x.op = "+++" /\ command_mode' = TRUE
    /\ rx' = Append(rx, U("OK")) \/ (Lossy /\ UNCHANGED rx)
    /\ UNCHANGED <<dh, dl, air>>
ListOf(S, f) == [k \in 1 .. Cardinality(S) |-> [unit |-> "found", dev |-> f[k]]]
Lists(x) ==
    /\ command_mode /\ x.op = "ATND" /\ UNCHANGED <<modem, air>>
    /\ \E S \in SUBSET Dev, f \in [1 .. Cardinality(Dev) -> Dev] :
         {f[k] : k \in 1 .. Cardinality(S)} = S /\ rx' = rx \o (ListOf(S, f) \o <<U("end of list")>>)
Refused(x) ==
    /\ command_mode /\ Refuses /\ x.op \in {"ATDH", "ATDL", "+++", "data"}
    /\ rx' = Append(Append(rx, U("ERR")), U("OR")) /\ UNCHANGED <<modem, air>>
Ignored(x) ==
    /\ UNCHANGED <<rx, modem, air>>
    /\ command_mode => Lossy /\ x.op \notin {"ATCN", "ATND"}
    /\ ~ command_mode => x.op # "data" /\ (x.op = "+++" => Lossy)
Forwarded(x) ==
    /\ ~ command_mode /\ x.op = "data" /\ UNCHANGED <<rx, modem>>
    /\ IF dh /\ dl # NULL THEN air' = [air EXCEPT ![dl] = Append(@, x)] ELSE UNCHANGED air

LEMMA ModemDoes ==
    ASSUME TypeInv, ModemReads
    PROVE  /\ tx # <<>> /\ tx' = Tail(tx) /\ UNCHANGED <<broker, out, manager, history>>
           /\ LET x == Head(tx) IN
              \/ Half(x) \/ Exits(x) \/ Enters(x) \/ Lists(x) \/ Refused(x) \/ Ignored(x) \/ Forwarded(x)
<1>1. /\ tx # <<>> /\ tx' = Tail(tx) /\ UNCHANGED <<broker, out, manager, history>>
      /\ (ModemObeys(Head(tx)) \/ ModemSends(Head(tx)))
  BY DEF ModemReads
<1>2. rx \in Seq(Unit) /\ command_mode \in BOOLEAN
  BY DEF TypeInv, LineOK
<1>3. PICK x : x = Head(tx)
  OBVIOUS
<1>4. /\ Says(OK) => rx' = Append(rx, U("OK"))
      /\ Says(<<>>) => UNCHANGED rx
      /\ Says(<<[unit |-> "ERR"], [unit |-> "OR"]>>) => rx' = Append(Append(rx, U("ERR")), U("OR"))
  <2>1. PICK a, b, c : a = U("OK") /\ b = U("ERR") /\ c = U("OR")
    OBVIOUS
  <2>2. a \in Unit /\ b \in Unit /\ c \in Unit
    BY <2>1, Replies DEF U
  <2>3. OK = <<a>> /\ <<[unit |-> "ERR"], [unit |-> "OR"]>> = <<b, c>>
    BY <2>1 DEF OK, U
  <2>4. rx \o <<a>> = Append(rx, a) /\ rx \o <<>> = rx /\ rx \o <<b, c>> = Append(Append(rx, b), c)
    BY <1>2, <2>2
  <2> QED BY <2>1, <2>3, <2>4 DEF Says
<1>5. CASE ModemObeys(x)
  <2>1. command_mode /\ UNCHANGED air
    BY <1>5 DEF ModemObeys
  <2>2. CASE x.op \in {"ATDH", "ATDL"} /\ SetDestination(x) /\ Says(OK) /\ UNCHANGED command_mode
    <3>1. /\ dh' = (IF x.op = "ATDH" THEN x.dev # NULL ELSE dh)
          /\ dl' = (IF x.op = "ATDH" THEN dl ELSE x.dev)
      BY <2>2 DEF SetDestination
    <3> QED BY <1>1, <1>3, <1>4, <2>1, <2>2, <3>1 DEF Half
  <2>3. CASE x.op = "ATCN" /\ command_mode' = FALSE /\ Says(OK) /\ UNCHANGED <<dh, dl>>
    BY <1>1, <1>3, <1>4, <2>1, <2>3 DEF Exits
  <2>4. CASE /\ x.op = "ATND"
             /\ \E S \in SUBSET Dev, f \in [1 .. Cardinality(Dev) -> Dev] :
                  /\ {f[k] : k \in 1 .. Cardinality(S)} = S
                  /\ Says([k \in 1 .. Cardinality(S) |-> [unit |-> "found", dev |-> f[k]]]
                       \o <<[unit |-> "end of list"]>>)
             /\ UNCHANGED modem
    BY <1>1, <1>3, <2>1, <2>4 DEF Lists, Says, ListOf, U
  <2>5. CASE /\ x.op \in {"ATDH", "ATDL", "+++", "data"}
             /\ \/ Refuses /\ Says(<<[unit |-> "ERR"], [unit |-> "OR"]>>)
                \/ Lossy /\ Says(<<>>)
             /\ UNCHANGED modem
    BY <1>1, <1>3, <1>4, <2>1, <2>5 DEF Refused, Ignored
  <2> QED BY <1>5, <2>2, <2>3, <2>4, <2>5 DEF ModemObeys
<1>6. CASE ModemSends(x)
  <2>1. CASE /\ x.op = "+++" /\ command_mode' = TRUE
             /\ (Says(OK) \/ (Lossy /\ Says(<<>>))) /\ UNCHANGED <<dh, dl, air>>
    BY <1>1, <1>3, <1>4, <1>6, <2>1 DEF Enters, ModemSends
  <2>2. CASE /\ x.op \in {"+++", "ATDH", "ATDL", "ATCN", "ATND"} /\ (x.op = "+++" => Lossy)
             /\ Says(<<>>) /\ UNCHANGED <<modem, air>>
    BY <1>1, <1>3, <1>4, <1>6, <2>2 DEF Ignored, ModemSends
  <2>3. CASE /\ x.op = "data"
             /\ IF dh /\ dl # NULL THEN air' = [air EXCEPT ![dl] = Append(@, x)] ELSE UNCHANGED air
             /\ Says(<<>>) /\ UNCHANGED modem
    BY <1>1, <1>3, <1>4, <1>6, <2>3 DEF Forwarded, ModemSends
  <2>4. \/ /\ x.op = "+++" /\ command_mode' = TRUE
           /\ (Says(OK) \/ (Lossy /\ Says(<<>>))) /\ UNCHANGED <<dh, dl, air>>
        \/ /\ x.op \in {"+++", "ATDH", "ATDL", "ATCN", "ATND"} /\ (x.op = "+++" => Lossy)
           /\ Says(<<>>) /\ UNCHANGED <<modem, air>>
        \/ /\ x.op = "data"
           /\ IF dh /\ dl # NULL THEN air' = [air EXCEPT ![dl] = Append(@, x)] ELSE UNCHANGED air
           /\ Says(<<>>) /\ UNCHANGED modem
    BY <1>6, Zenon DEF ModemSends
  <2> QED BY <2>1, <2>2, <2>3, <2>4
<1> QED BY <1>1, <1>3, <1>5, <1>6

LEMMA AnswerUnits ==
    ASSUME NEW d \in Dev, NEW c \in Command, NEW s \in AnswersOf(d, c)
    PROVE  /\ s \in Seq(Answer) /\ \A k \in 1 .. Len(s) : s[k].from = d /\ s[k].cmd = c
           /\ c # SYN => \/ Len(s) = 1 /\ s[1].part = "all"
                         \/ Len(s) = 2 /\ s[1].part = "first" /\ s[2].part = "last"
           /\ c = SYN => Len(s) = 1 /\ s[1].part = "none"
<1>1. \A p \in {"all", "first", "last", "none"} :
          /\ UnitOf(d, c, p) \in Answer /\ UnitOf(d, c, p).from = d /\ UnitOf(d, c, p).cmd = c
          /\ UnitOf(d, c, p).part = p
  BY DEF UnitOf, Answer
<1>2. \/ c = SYN /\ s = <<UnitOf(d, c, "none")>>
      \/ c # SYN /\ s = <<UnitOf(d, c, "all")>>
      \/ c # SYN /\ s = <<UnitOf(d, c, "first"), UnitOf(d, c, "last")>>
  BY DEF AnswersOf
<1> HIDE DEF AnswersOf, UnitOf
<1>4. CASE c = SYN /\ s = <<UnitOf(d, c, "none")>>
  BY <1>1, <1>4
<1>5. CASE c # SYN /\ s = <<UnitOf(d, c, "all")>>
  BY <1>1, <1>5
<1>6. CASE c # SYN /\ s = <<UnitOf(d, c, "first"), UnitOf(d, c, "last")>>
  BY <1>1, <1>6
<1> QED BY <1>2, <1>4, <1>5, <1>6

\* The list of the devices found, each once.
IsListed(u) == u.unit = "found"

LEMMA ListUnits ==
    ASSUME NEW S \in SUBSET Dev, NEW f \in [1 .. Cardinality(Dev) -> Dev],
           {f[k] : k \in 1 .. Cardinality(S)} = S
    PROVE  LET p == ListOf(S, f)
               l == p \o <<U("end of list")>>
           IN /\ l \in Seq(Unit) /\ p \in Seq(Unit) /\ Len(l) = Len(p) + 1 /\ Len(p) \in Nat
              /\ l[Len(l)].unit = "end of list"
              /\ \A k \in 1 .. Len(p) : IsListed(l[k])
              /\ \A j, k \in 1 .. Len(l) : IsListed(l[j]) /\ IsListed(l[k]) /\ l[j].dev = l[k].dev => j = k
<1>1. PICK n : n = Cardinality(S)
  OBVIOUS
<1>2. IsFiniteSet(S) /\ n \in Nat /\ n <= Cardinality(Dev) /\ Cardinality(Dev) \in Nat
  BY <1>1, DevAssumption, FS_Subset, FS_CardinalityType
<1>3. \A k \in 1 .. n : f[k] \in Dev
  BY <1>2
<1>4. PICK p : p = [k \in 1 .. n |-> [unit |-> "found", dev |-> f[k]]]
  OBVIOUS
<1>5. p \in Seq(Unit) /\ Len(p) = n /\ \A k \in 1 .. n : p[k].unit = "found" /\ p[k].dev = f[k]
  <2>1. \A k \in 1 .. n : [unit |-> "found", dev |-> f[k]] \in Unit
    BY <1>3 DEF Unit, Listed
  <2>2. p \in [1 .. n -> Unit]
    BY <1>4, <2>1
  <2>3. p \in Seq(Unit) /\ Len(p) = n
    BY <1>2, <2>2
  <2>4. \A k \in 1 .. n : p[k].unit = "found" /\ p[k].dev = f[k]
    BY <1>4
  <2> QED BY <2>3, <2>4
<1>6. PICK e : e = U("end of list")
  OBVIOUS
<1>7. e \in Unit /\ ~ IsListed(e) /\ e.unit = "end of list"
  BY <1>6 DEF Unit, Reply, IsListed, U
<1>8. PICK l : l = p \o <<e>>
  OBVIOUS
<1>9. l \in Seq(Unit) /\ Len(l) = n + 1 /\ l[n + 1] = e /\ \A k \in 1 .. n : l[k] = p[k]
  <2>1. <<e>> \in Seq(Unit) /\ Len(<<e>>) = 1 /\ <<e>>[1] = e
    BY <1>7, Single
  <2>2. PICK t : t = <<e>>
    OBVIOUS
  <2>3. t \in Seq(Unit) /\ Len(t) = 1 /\ t[1] = e /\ l = p \o t
    BY <1>8, <2>1, <2>2
  <2>4. l \in Seq(Unit) /\ Len(l) = n + 1 /\ \A k \in 1 .. n : l[k] = p[k]
    <3>1. l \in Seq(Unit) /\ Len(l) = Len(p) + Len(t) /\ \A k \in 1 .. Len(p) : l[k] = p[k]
      BY <1>5, <2>3, Joined
    <3> QED BY <1>5, <2>3, <3>1
  <2>5. n + 1 \in 1 .. n + 1 /\ l[n + 1] = t[1]
    <3>1. \A k \in 1 .. Len(p) + Len(t) : k > Len(p) => l[k] = t[k - Len(p)]
      BY <1>5, <2>3, Joined
    <3>2. n + 1 \in 1 .. Len(p) + Len(t) /\ n + 1 > Len(p) /\ n + 1 - Len(p) = 1 /\ n + 1 \in 1 .. n + 1
      BY <1>2, <1>5, <2>3
    <3>3. PICK m \in 1 .. Len(p) + Len(t) : m = n + 1
      BY <3>2
    <3>4. l[m] = t[m - Len(p)]
      BY <3>1, <3>2, <3>3
    <3>5. m - Len(p) = 1
      BY <1>2, <1>5, <3>3
    <3>6. l[m] = t[1]
      BY <3>4, <3>5
    <3> QED BY <3>2, <3>3, <3>6
  <2> QED BY <2>3, <2>4, <2>5
<1>10. \A j, k \in 1 .. n : f[j] = f[k] => j = k
  <2>1. PICK g : g = [k \in 1 .. n |-> f[k]]
    OBVIOUS
  <2>2. g \in [1 .. n -> S]
    BY <1>1, <2>1
  <2>3. \A y \in S : \E k \in 1 .. n : g[k] = y
    BY <1>1, <2>1
  <2>4. g \in Surjection(1 .. n, S)
    BY <2>2, <2>3 DEF Surjection
  <2>5. IsFiniteSet(1 .. n) /\ Cardinality(1 .. n) = n
    <3>1. 1 \in Int /\ n \in Int
      BY <1>2
    <3>2. IsFiniteSet(1 .. n) /\ Cardinality(1 .. n) = IF 1 > n THEN 0 ELSE n - 1 + 1
      BY <3>1, FS_Interval, Zenon
    <3> QED BY <1>2, <3>2
  <2>6. g \in Injection(1 .. n, S)
    BY <1>1, <2>4, <2>5, FS_SurjSameCardinalityImpliesInj
  <2> QED BY <2>1, <2>6 DEF Injection, IsInjective
<1>11. \A j, k \in 1 .. Len(l) : IsListed(l[j]) /\ IsListed(l[k]) /\ l[j].dev = l[k].dev => j = k
  <2> SUFFICES ASSUME NEW j \in 1 .. Len(l), NEW k \in 1 .. Len(l), IsListed(l[j]), IsListed(l[k]),
                      l[j].dev = l[k].dev
               PROVE  j = k
    OBVIOUS
  <2>1. j \in 1 .. n /\ k \in 1 .. n
    <3>1. l[n + 1] = e /\ Len(l) = n + 1
      BY <1>9
    <3>2. j # n + 1 /\ k # n + 1
      BY <1>7, <3>1
    <3> QED BY <1>2, <3>1, <3>2
  <2> QED BY <1>5, <1>9, <1>10, <2>1
<1>12. \A k \in 1 .. n : IsListed(l[k])
  BY <1>5, <1>9 DEF IsListed
<1>13. p = ListOf(S, f)
  BY <1>1, <1>4 DEF ListOf
<1>14. l = ListOf(S, f) \o <<U("end of list")>>
  BY <1>6, <1>8, <1>13
<1>15. l[Len(l)].unit = "end of list" /\ Len(l) = Len(p) + 1
  BY <1>5, <1>7, <1>9
<1> HIDE DEF ListOf, U
<1> QED BY <1>2, <1>5, <1>9, <1>11, <1>12, <1>13, <1>14, <1>15

LEMMA EnvironmentKeeps ==
    ASSUME Environment
    PROVE  UNCHANGED <<broker, ip_count, registered, history>>
BY DEF Environment, ManagerCalls, ModemReads, ModemLeaves, DeviceHears, RadioDelivers, manager, history

LEMMA TypeEnvironment == TypeInv /\ Environment => TypeInv'
<1> SUFFICES ASSUME TypeInv, Environment PROVE TypeInv'
  OBVIOUS
<1> USE DEF manager, history, broker, modem, radio
<1>1. UNCHANGED <<broker, ip_count, registered, history>>
  BY EnvironmentKeeps
<1>2. BrokerOK' /\ ThreadsOK'
  BY <1>1 DEF TypeInv, BrokerOK, ThreadsOK
<1>3. /\ tx \in Seq(Order \cup Data) /\ rx \in Seq(Unit) /\ air \in [Dev -> Seq(Data)] /\ out \in [Dev -> Seq(Answer)]
      /\ command_mode \in BOOLEAN /\ dh \in BOOLEAN /\ dl \in Dev \cup {NULL}
      /\ ManagerOK
  BY DEF TypeInv, LineOK
<1>4. ASSUME UNCHANGED calls PROVE ManagerOK'
  BY <1>1, <1>3, <1>4 DEF ManagerOK
<1>5. ASSUME NEW a \in 0 .. Cardinality(Dev) - 1, ManagerCalls(a) PROVE TypeInv'
  <2>1. calls' = Append(calls, a) /\ UNCHANGED radio
    BY <1>5 DEF ManagerCalls
  <2>2. a \in Nat
    BY DevAssumption, FS_CardinalityType
  <2>3. ManagerOK'
    BY <1>1, <1>3, <2>1, <2>2, Longer DEF ManagerOK
  <2>4. LineOK'
    BY <1>3, <2>1 DEF LineOK
  <2> QED BY <1>2, <2>3, <2>4 DEF TypeInv
<1>6. CASE ModemReads
  <2>1. PICK x : /\ x = Head(tx) /\ tx # <<>> /\ tx' = Tail(tx) /\ UNCHANGED <<out, calls>>
                 /\ \/ Half(x) \/ Exits(x) \/ Enters(x) \/ Lists(x) \/ Refused(x) \/ Ignored(x) \/ Forwarded(x)
    BY <1>6, ModemDoes
  <2>2. /\ tx' \in Seq(Order \cup Data) /\ x.dev \in Dev \cup {NULL} /\ (x.op = "data" => x \in Data)
    BY <2>1, ReadHead
  <2>3. \A r \in {"OK", "ERR", "OR"} : U(r) \in Unit
    BY Replies DEF U
  <2>4. rx' \in Seq(Unit)
    <3>1. CASE Lists(x)
      <4>1. PICK S \in SUBSET Dev, f \in [1 .. Cardinality(Dev) -> Dev] :
               {f[k] : k \in 1 .. Cardinality(S)} = S /\ rx' = rx \o (ListOf(S, f) \o <<U("end of list")>>)
        BY <3>1 DEF Lists
      <4>2. PICK l : l = ListOf(S, f) \o <<U("end of list")>>
        OBVIOUS
      <4>3. l \in Seq(Unit)
        BY <4>1, <4>2, ListUnits
      <4>4. rx' = rx \o l /\ rx \o l \in Seq(Unit)
        BY <1>3, <4>1, <4>2, <4>3, Joined
      <4> QED BY <4>4
    <3>2. CASE rx' \in {rx, Append(rx, U("OK")), Append(Append(rx, U("ERR")), U("OR"))}
      <4>1. PICK a \in Unit, b \in Unit, c \in Unit : a = U("OK") /\ b = U("ERR") /\ c = U("OR")
        BY <2>3
      <4>2. rx' \in {rx, Append(rx, a), Append(Append(rx, b), c)}
        BY <3>2, <4>1
      <4>3. Append(rx, a) \in Seq(Unit) /\ Append(Append(rx, b), c) \in Seq(Unit)
        BY <1>3
      <4> QED BY <1>3, <4>2, <4>3
    <3> QED BY <2>1, <3>1, <3>2 DEF Half, Exits, Enters, Refused, Ignored, Forwarded
  <2>5. command_mode' \in BOOLEAN /\ dh' \in BOOLEAN /\ dl' \in Dev \cup {NULL}
    <3>1. /\ command_mode' = command_mode \/ command_mode' = TRUE \/ command_mode' = FALSE
          /\ dh' = dh \/ dh' = (x.dev # NULL)
          /\ dl' = dl \/ dl' = x.dev
      <4>1. CASE Exits(x)
        BY <1>6, <2>1, <4>1 DEF Exits, ModemReads, ModemObeys, ModemSends
      <4> QED BY <2>1, <4>1 DEF Half, Enters, Lists, Refused, Ignored, Forwarded
    <3>2. (x.dev # NULL) \in BOOLEAN
      OBVIOUS
    <3> QED BY <1>3, <2>2, <3>1, <3>2
  <2>6. air' \in [Dev -> Seq(Data)]
    <3>1. \/ air' = air
          \/ x.op = "data" /\ dl # NULL /\ air' = [air EXCEPT ![dl] = Append(@, x)]
      BY <2>1 DEF Half, Exits, Enters, Lists, Refused, Ignored, Forwarded
    <3>2. CASE x.op = "data" /\ dl # NULL /\ air' = [air EXCEPT ![dl] = Append(@, x)]
      <4>1. x \in Data /\ dl \in Dev
        BY <1>3, <2>2, <3>2
      <4>2. Append(air[dl], x) \in Seq(Data)
        BY <1>3, <4>1, Longer
      <4> QED BY <1>3, <3>2, <4>1, <4>2
    <3> QED BY <1>3, <3>1, <3>2
  <2>7. LineOK'
    BY <1>3, <2>1, <2>2, <2>4, <2>5, <2>6 DEF LineOK
  <2> QED BY <1>2, <1>4, <2>1, <2>7 DEF TypeInv
<1>7. CASE ModemLeaves
  <2>1. command_mode' = FALSE /\ UNCHANGED <<tx, rx, dh, dl, air, out, calls>>
    BY <1>7 DEF ModemLeaves
  <2>2. LineOK'
    BY <1>3, <2>1 DEF LineOK
  <2> QED BY <1>2, <1>4, <2>1, <2>2 DEF TypeInv
<1>8. ASSUME NEW d \in Dev, DeviceHears(d) PROVE TypeInv'
  <2>1. PICK c : /\ c = Head(air[d]).cmd /\ air[d] # <<>> /\ air' = [air EXCEPT ![d] = Tail(@)]
                 /\ UNCHANGED <<tx, rx, modem, calls>>
                 /\ UNCHANGED out \/ \E s \in AnswersOf(d, c) : out' = [out EXCEPT ![d] = @ \o s]
    BY <1>8 DEF DeviceHears
  <2>2. air[d] \in Seq(Data) /\ out[d] \in Seq(Answer)
    BY <1>3
  <2>3. Tail(air[d]) \in Seq(Data) /\ c \in Command
    <3>1. Head(air[d]) \in Data /\ Tail(air[d]) \in Seq(Data)
      BY <2>1, <2>2, Shorter
    <3> QED BY <2>1, <3>1 DEF Data
  <2>4. out' \in [Dev -> Seq(Answer)]
    <3>1. ASSUME NEW s \in AnswersOf(d, c), out' = [out EXCEPT ![d] = @ \o s] PROVE out' \in [Dev -> Seq(Answer)]
      <4>1. s \in Seq(Answer)
        BY <2>3, AnswerUnits
      <4>2. out[d] \o s \in Seq(Answer)
        BY <2>2, <4>1, Joined
      <4> QED BY <1>3, <3>1, <4>2
    <3> QED BY <1>3, <2>1, <3>1
  <2>5. air' \in [Dev -> Seq(Data)]
    BY <1>3, <2>1, <2>3
  <2>6. LineOK'
    BY <1>3, <2>1, <2>4, <2>5 DEF LineOK
  <2> QED BY <1>2, <1>4, <2>1, <2>6 DEF TypeInv
<1>9. ASSUME NEW d \in Dev, RadioDelivers(d) PROVE TypeInv'
  <2>1. /\ out[d] # <<>> /\ out' = [out EXCEPT ![d] = Tail(@)] /\ UNCHANGED <<tx, modem, air, calls>>
        /\ UNCHANGED rx \/ rx' = rx \o <<Head(out[d])>>
    BY <1>9 DEF RadioDelivers, Says
  <2>2. out[d] \in Seq(Answer)
    BY <1>3
  <2>3. Tail(out[d]) \in Seq(Answer) /\ Head(out[d]) \in Unit
    BY <2>1, <2>2, Shorter, UnitKinds
  <2>4. PICK e \in Unit : e = Head(out[d])
    BY <2>3
  <2>5. rx' \in Seq(Unit)
    <3>1. rx' = rx \/ rx' = rx \o <<e>>
      BY <2>1, <2>4
    <3>2. rx \o <<e>> \in Seq(Unit)
      BY <1>3
    <3> QED BY <1>3, <3>1, <3>2
  <2>6. out' \in [Dev -> Seq(Answer)]
    BY <1>3, <2>1, <2>3
  <2>7. LineOK'
    BY <1>3, <2>1, <2>5, <2>6 DEF LineOK
  <2> QED BY <1>2, <1>4, <2>1, <2>7 DEF TypeInv
<1> QED BY <1>5, <1>6, <1>7, <1>8, <1>9 DEF Environment

LEMMA TypeStep == TypeInv /\ [Next]_vars => TypeInv'
<1>1. TypeInv /\ Next => TypeInv'
  BY TypeListener, TypeMain, TypeEnvironment DEF Next
<1>2. TypeInv /\ UNCHANGED vars => TypeInv'
  BY DEF vars, TypeInv, BrokerOK, ThreadsOK, LineOK, ManagerOK, broker, radio, modem, manager, history
<1> QED BY <1>1, <1>2

\* Each thread's place, what it has still to write and what it has read belong
\* together (RS232_SendBuf and recv_char_from_XBee_at, order by order).
THEOREM TypeInvariant == Spec => []TypeInv
<1> QED BY TypeInit, TypeStep, PTL DEF Spec

\* The broker's state is of its types, whatever the threads take from each
\* other's replies: a thread that looks at its connection has asked for four
\* replies and counted as many, or their timeouts.
THEOREM Types == Spec => []TypeOK
<1>1. TypeInv => TypeOK
  <2> SUFFICES ASSUME TypeInv PROVE TypeOK
    OBVIOUS
  <2>1. ASSUME NEW t \in Thread, Idle(t, "connect") PROVE Len(thread[t].got) = 4
    <3>1. StateOK(t, thread[t]) /\ thread[t].got \in Seq({"OK", "ERROR", "timeout"})
      BY ThreadIsOK
    <3>2. /\ thread[t].phase = "connect" /\ thread[t].todo = <<>> /\ ~ thread[t].waiting
      BY <2>1 DEF Idle
    <3>3. Len(thread[t].got) + 0 = 4 - 0
      BY <3>1, <3>2 DEF StateOK, Awaited, Written
    <3>4. Len(thread[t].got) \in Nat
      BY <3>1
    <3> QED BY <3>3, <3>4
  <2>2. i \in Nat
    BY DEF TypeInv, BrokerOK
  <2> QED BY <2>1, <2>2 DEF TypeInv, TypeOK, BrokerOK, ThreadsOK, LineOK, Entry
<1> QED BY <1>1, TypeInvariant, PTL

----------------------------------------------------------------------------
\* The line, while one thread uses it and no reply is late.
NoAir == \A d \in Dev : air[d] = <<>> /\ out[d] = <<>>
Quiet == tx = <<>> /\ rx = <<>> /\ NoAir

\* A thread that waits has one order on the line, or one reply at most; and the
\* reply to the third order of a connection tells that the modem took it.
SettingOp == {"+++", "ATDH", "ATDL", "ATCN"}
Asked(u) ==
    /\ Len(tx) = 1 /\ rx = <<>> /\ tx[1].op \in SettingOp
    /\ u.phase = "connect" => tx[1] = ConnectOrders(u.dev)[Len(u.got) + 1]
Told(u) ==
    /\ tx = <<>> /\ Len(rx) <= 1
    /\ u.phase = "connect" /\ Len(u.got) = 2 /\ Len(rx) = 1 => (rx[1].unit = "OK" => dl = u.dev)
WaitInv(u) == u.waiting => NoAir /\ (Asked(u) \/ Told(u))
RestInv(u) == ~ u.waiting /\ u.phase \notin {"list", "ack", "answer"} => Quiet
DestInv(u) ==
    /\ u.phase = "connect" /\ Len(u.got) >= 3 /\ u.got[3] = "OK" => dl = u.dev
    /\ u.phase \in {"ack", "ip", "answer"} => dl = u.dev
ListInv(u) == u.phase = "list" =>
    /\ NoAir
    /\ \/ Len(tx) = 1 /\ tx[1].op = "ATND" /\ rx = <<>>
       \/ tx = <<>> /\ (rx # <<>> => rx[Len(rx)].unit = "end of list")
             /\ \A k \in 1 .. Len(rx) : rx[k].unit = "end of list" => k = Len(rx)

\* Command c is on its way to device d, or d has heard it or not.  w is what
\* came of the answer since, o what is still to come: one unit, or two of which
\* either may be lost.
Part(q, d, c) == \A k \in 1 .. Len(q) :
    /\ q[k].unit = "answer" /\ q[k].from = d /\ q[k].cmd = c
    /\ c = SYN => q[k].part = "none"
Units(w, o) ==
    \/ Len(w) + Len(o) <= 1
    \/ w = <<>> /\ Len(o) = 2 /\ o[1].part = "first" /\ o[2].part = "last"
    \/ Len(w) = 1 /\ Len(o) = 1 /\ w[1].part = "first" /\ o[1].part = "last"
    \/ Len(w) = 2 /\ o = <<>> /\ w[1].part = "first" /\ w[2].part = "last"
Only(q, d, c) == Len(q) = 1 /\ q[1].op = "data" /\ q[1].dev = d /\ q[1].cmd = c
Elsewhere(d) == \A e \in Dev : e # d => air[e] = <<>> /\ out[e] = <<>>
Exchange(b, d, c) ==
    /\ Elsewhere(d)
    /\ \/ Only(tx, d, c) /\ air[d] = <<>> /\ out[d] = <<>> /\ b = <<>> /\ rx = <<>>
       \/ tx = <<>> /\ Only(air[d], d, c) /\ out[d] = <<>> /\ b = <<>> /\ rx = <<>>
       \/ /\ tx = <<>> /\ air[d] = <<>> /\ Units(b \o rx, out[d])
          /\ Part(b \o rx, d, c) /\ Part(out[d], d, c)
TalkInv(u, c) ==
    /\ u.phase \in {"ack", "answer"} => Exchange(u.buf, u.dev, c)
    /\ u.phase = "ack" => u.buf = <<>>
    /\ u.phase = "completed" => Part(u.buf, u.dev, c)

CommandOf(t) == IF t = "listener" THEN Call(open) ELSE IF thread[t].phase = "ack" THEN SYN ELSE DES
LineInv(u, c) == WaitInv(u) /\ RestInv(u) /\ DestInv(u) /\ ListInv(u) /\ TalkInv(u, c)
SerialInv(t) == \A u \in {thread[t]}, c \in {CommandOf(t)} : LineInv(u, c)

\* One thread only, and the other out of its way.
ListenerWaits ==
    /\ thread["listener"].phase = "recv" /\ calls = <<>> /\ given.calls = 0
MainDone == thread["main"].phase = "done"
Serial == ~ Late /\ ~ Refuses
ScanInv == Alone /\ given.scan => ListenerWaits /\ (Serial => SerialInv("main"))
ServeInv == ~ given.scan => MainDone /\ (Serial => SerialInv("listener"))

\* The environment acts on what is on the line only.
LEMMA Steps ==
    ASSUME TypeInv, Environment
    PROVE  /\ UNCHANGED <<broker, ip_count, registered, history>>
           /\ \/ UNCHANGED <<tx, rx, dh, dl, air, out>>
              \/ UNCHANGED calls /\ ModemReads
              \/ UNCHANGED calls /\ \E d \in Dev : DeviceHears(d) \/ RadioDelivers(d)
<1>1. UNCHANGED <<broker, ip_count, registered, history>>
  BY EnvironmentKeeps
<1>2. \/ \E a \in 0 .. Cardinality(Dev) - 1 : ManagerCalls(a)
      \/ ModemReads \/ ModemLeaves
      \/ \E d \in Dev : DeviceHears(d) \/ RadioDelivers(d)
  BY DEF Environment
<1>3. CASE \E a \in 0 .. Cardinality(Dev) - 1 : ManagerCalls(a)
  BY <1>1, <1>3 DEF ManagerCalls, radio, modem
<1>4. CASE ModemReads
  BY <1>1, <1>4 DEF ModemReads, manager
<1>5. CASE ModemLeaves
  BY <1>1, <1>5 DEF ModemLeaves
<1>6. CASE \E d \in Dev : DeviceHears(d) \/ RadioDelivers(d)
  BY <1>1, <1>6 DEF DeviceHears, RadioDelivers, manager
<1> QED BY <1>2, <1>3, <1>4, <1>5, <1>6

LEMMA NoElement ==
    ASSUME NEW S, NEW q \in Seq(S)
    PROVE  Len(q) \in Nat /\ (Len(q) = 0 <=> q = <<>>)
OBVIOUS

LEMMA OneElement ==
    ASSUME NEW S, NEW q \in Seq(S), Len(q) = 1
    PROVE  q # <<>> /\ Head(q) = q[1] /\ Tail(q) = <<>> /\ q[1] \in S
<1>1. q # <<>>
  OBVIOUS
<1>2. Tail(q) \in Seq(S) /\ Len(Tail(q)) = 0
  BY <1>1, Shorter
<1>3. Tail(q) = <<>>
  BY <1>2, NoElement
<1> QED BY <1>1, <1>3, Shorter

\* On a quiet line nothing happens by itself.
LEMMA NothingHeard ==
    ASSUME NoAir, NEW d \in Dev
    PROVE  ~ DeviceHears(d) /\ ~ RadioDelivers(d)
BY DEF NoAir, DeviceHears, RadioDelivers

LEMMA StaysSo ==
    ASSUME NEW u, NEW c, LineInv(u, c), UNCHANGED <<tx, rx, dl, air, out>>
    PROVE  LineInv(u, c)'
BY DEF LineInv, WaitInv, RestInv, DestInv, ListInv, TalkInv, Quiet, NoAir, Asked, Told, Exchange,
       Elsewhere, Only

\* The modem reads the order a thread waits for.
LEMMA WaitReads ==
    ASSUME TypeInv, ~ Refuses, ModemReads, NEW t \in Thread, NEW u, StateOK(t, u), u.waiting,
           WaitInv(u), DestInv(u)
    PROVE  WaitInv(u)' /\ DestInv(u)'
<1>1. PICK x : /\ x = Head(tx) /\ tx # <<>> /\ tx' = Tail(tx) /\ UNCHANGED out
               /\ \/ Half(x) \/ Exits(x) \/ Enters(x) \/ Lists(x) \/ Refused(x) \/ Ignored(x) \/ Forwarded(x)
  BY ModemDoes
<1>2. /\ NoAir /\ Asked(u) /\ tx \in Seq(Order \cup Data) /\ rx \in Seq(Unit)
  BY <1>1 DEF WaitInv, Told, TypeInv, LineOK
<1>3. Len(tx) = 1 /\ rx = <<>> /\ x = tx[1] /\ x.op \in SettingOp /\ tx' = <<>>
  BY <1>1, <1>2, OneElement DEF Asked
<1>4. UNCHANGED air /\ (Half(x) \/ Exits(x) \/ Enters(x) \/ Ignored(x))
  BY <1>1, <1>3 DEF SettingOp, Half, Exits, Enters, Lists, Refused, Ignored, Forwarded
<1>5. NoAir'
  BY <1>1, <1>2, <1>4 DEF NoAir
<1>6. rx' = <<>> \/ rx' = <<U("OK")>>
  <2>1. rx' = rx \/ rx' = Append(rx, U("OK"))
    BY <1>4 DEF Half, Exits, Enters, Ignored
  <2>2. Append(<<>>, U("OK")) = <<U("OK")>>
    OBVIOUS
  <2> QED BY <1>3, <2>1, <2>2
<1>7. Len(rx') <= 1
  <2>1. Len(<<U("OK")>>) = 1 /\ Len(<<>>) = 0
    BY Replies, Single DEF U
  <2>2. CASE rx' = <<>>
    BY <2>1, <2>2
  <2>3. CASE rx' = <<U("OK")>>
    BY <2>1, <2>3
  <2> QED BY <1>6, <2>2, <2>3
<1>8. ASSUME u.phase = "connect"
      PROVE  /\ Len(u.got) \in 0 .. 3 /\ u.dev \in Dev /\ x = ConnectOrders(u.dev)[Len(u.got) + 1]
             /\ Len(u.got) = 1 => x.op = "ATDH"
             /\ Len(u.got) = 2 => x.op = "ATDL" /\ x.dev = u.dev
             /\ Len(u.got) \in {0, 3} => x.op \in {"+++", "ATCN"}
  <2>1. /\ Len(u.got) + 1 = 4 - Len(u.todo) /\ Len(u.todo) \in Nat /\ Len(u.got) \in Nat /\ u.dev \in Dev
    BY <1>8 DEF StateOK, Awaited, Written, Meant, ThreadState
  <2>2. Len(u.got) \in 0 .. 3
    <3>1. PICK n \in Nat, m \in Nat : n = Len(u.got) /\ m = Len(u.todo)
      BY <2>1
    <3>2. n + 1 = 4 - m
      BY <2>1, <3>1
    <3>3. n \in 0 .. 3
      BY <3>2
    <3> QED BY <3>1, <3>3
  <2>3. x = ConnectOrders(u.dev)[Len(u.got) + 1]
    BY <1>2, <1>3, <1>8 DEF Asked
  <2>4. /\ Len(u.got) = 1 => x = ToModem("ATDH", u.dev)
        /\ Len(u.got) = 2 => x = ToModem("ATDL", u.dev)
        /\ Len(u.got) = 0 => x = ToModem("+++", NULL)
        /\ Len(u.got) = 3 => x = ToModem("ATCN", NULL)
    <3>1. u.dev \in Dev \cup {NULL}
      BY <2>1
    <3>2. /\ ConnectOrders(u.dev)[1] = ToModem("+++", NULL) /\ ConnectOrders(u.dev)[2] = ToModem("ATDH", u.dev)
          /\ ConnectOrders(u.dev)[3] = ToModem("ATDL", u.dev) /\ ConnectOrders(u.dev)[4] = ToModem("ATCN", NULL)
      BY <3>1, FourOrders
    <3>3. PICK n \in 0 .. 3 : n = Len(u.got)
      BY <2>2
    <3>4. x = ConnectOrders(u.dev)[n + 1]
      BY <2>3, <3>3
    <3>5. 0 + 1 = 1 /\ 1 + 1 = 2 /\ 2 + 1 = 3 /\ 3 + 1 = 4
      OBVIOUS
    <3>6. /\ n = 0 => x = ConnectOrders(u.dev)[1]
          /\ n = 1 => x = ConnectOrders(u.dev)[2]
          /\ n = 2 => x = ConnectOrders(u.dev)[3]
          /\ n = 3 => x = ConnectOrders(u.dev)[4]
      BY <3>4, <3>5
    <3> HIDE DEF ConnectOrders, ToModem
    <3> QED BY <3>2, <3>3, <3>6
  <2> QED BY <2>1, <2>2, <2>3, <2>4 DEF ToModem
<1>9. Told(u)'
  <2> SUFFICES ASSUME u.phase = "connect", Len(u.got) = 2, Len(rx') = 1 PROVE dl' = u.dev
    BY <1>3, <1>7 DEF Told
  <2>1. x.op = "ATDL" /\ x.dev = u.dev
    BY <1>8
  <2>2. Half(x)
    <3>1. ~ Ignored(x)
      BY <1>3 DEF Ignored
    <3> QED BY <1>4, <2>1, <3>1 DEF Exits, Enters
  <2> QED BY <2>1, <2>2 DEF Half
<1>10. DestInv(u)'
  <2>1. u.phase \notin {"ack", "ip", "answer"}
    BY DEF StateOK, Ordering
  <2>2. ASSUME u.phase = "connect", Len(u.got) >= 3 PROVE UNCHANGED dl
    <3>1. Len(u.got) = 3 /\ x.op \in {"+++", "ATCN"}
      <4>1. PICK n \in 0 .. 3 : n = Len(u.got)
        BY <1>8, <2>2
      <4>2. n = 3
        <5>1. n >= 3
          BY <2>2, <4>1
        <5> QED BY <5>1
      <4> QED BY <1>8, <2>2, <4>1, <4>2
    <3> QED BY <1>4, <3>1 DEF Half, Exits, Enters, Ignored, modem
  <2> QED BY <2>1, <2>2 DEF DestInv
<1> QED BY <1>5, <1>9, <1>10 DEF WaitInv

\* The modem reads the order for the list, and gives the list if it heard it.
LEMMA ListReads ==
    ASSUME TypeInv, ModemReads, NEW u, u.phase = "list", ListInv(u)
    PROVE  ListInv(u)'
<1>1. PICK x : /\ x = Head(tx) /\ tx # <<>> /\ tx' = Tail(tx) /\ UNCHANGED out
               /\ \/ Half(x) \/ Exits(x) \/ Enters(x) \/ Lists(x) \/ Refused(x) \/ Ignored(x) \/ Forwarded(x)
  BY ModemDoes
<1>2. NoAir /\ tx \in Seq(Order \cup Data) /\ rx \in Seq(Unit) /\ Len(tx) = 1 /\ tx[1].op = "ATND" /\ rx = <<>>
  BY <1>1 DEF ListInv, TypeInv, LineOK
<1>3. x = tx[1] /\ tx' = <<>>
  BY <1>1, <1>2, OneElement
<1>4. UNCHANGED air /\ (Lists(x) \/ Ignored(x))
  BY <1>1, <1>2, <1>3 DEF Half, Exits, Enters, Lists, Refused, Ignored, Forwarded
<1>5. NoAir'
  BY <1>1, <1>2, <1>4 DEF NoAir
<1>6. CASE Lists(x)
  <2>1. PICK S \in SUBSET Dev, f \in [1 .. Cardinality(Dev) -> Dev] :
           {f[k] : k \in 1 .. Cardinality(S)} = S /\ rx' = rx \o (ListOf(S, f) \o <<U("end of list")>>)
    BY <1>6 DEF Lists
  <2>2. PICK l, p : l = ListOf(S, f) \o <<U("end of list")>> /\ p = ListOf(S, f)
    OBVIOUS
  <2>3. /\ l \in Seq(Unit) /\ Len(l) = Len(p) + 1 /\ Len(p) \in Nat /\ l[Len(l)].unit = "end of list"
        /\ \A k \in 1 .. Len(p) : l[k].unit = "found"
    BY <2>1, <2>2, ListUnits DEF IsListed
  <2>4. rx' = l
    <3>1. <<>> \o l = l
      BY <2>3, Moves
    <3> QED BY <1>2, <2>1, <2>2, <3>1
  <2>5. \A k \in 1 .. Len(l) : l[k].unit = "end of list" => k = Len(l)
    <3> SUFFICES ASSUME NEW k \in 1 .. Len(l), k # Len(l) PROVE l[k].unit # "end of list"
      OBVIOUS
    <3>1. k \in 1 .. Len(p)
      <4>1. PICK n, m : n = Len(p) /\ m = Len(l)
        OBVIOUS
      <4>2. n \in Nat /\ m = n + 1 /\ k \in 1 .. m /\ k # m
        BY <2>3, <4>1
      <4>3. k \in 1 .. n
        BY <4>2
      <4> QED BY <4>1, <4>3
    <3> QED BY <2>3, <3>1
  <2> QED BY <1>3, <1>5, <2>3, <2>4, <2>5 DEF ListInv
<1>7. CASE Ignored(x)
  <2>1. rx' = <<>> /\ \A k \in 1 .. Len(<<>>) : FALSE
    BY <1>2, <1>7 DEF Ignored
  <2> QED BY <1>3, <1>5, <2>1 DEF ListInv
<1> QED BY <1>4, <1>6, <1>7

\* Commands and answers on their way.
LEMMA NothingYet ==
    ASSUME NEW d, NEW c
    PROVE  Units(<<>>, <<>>) /\ Part(<<>>, d, c) /\ <<>> \o <<>> = <<>>
BY DEF Units, Part

LEMMA ExchangeReads ==
    ASSUME TypeInv, ~ Refuses, ModemReads, NEW b \in Seq(Unit), NEW d \in Dev, NEW c, Exchange(b, d, c), dl = d
    PROVE  Exchange(b, d, c)' /\ UNCHANGED dl
<1>1. PICK x : /\ x = Head(tx) /\ tx # <<>> /\ tx' = Tail(tx) /\ UNCHANGED out
               /\ \/ Half(x) \/ Exits(x) \/ Enters(x) \/ Lists(x) \/ Refused(x) \/ Ignored(x) \/ Forwarded(x)
  BY ModemDoes
<1>2. /\ Only(tx, d, c) /\ air[d] = <<>> /\ out[d] = <<>> /\ b = <<>> /\ rx = <<>> /\ Elsewhere(d)
      /\ tx \in Seq(Order \cup Data) /\ air \in [Dev -> Seq(Data)]
  BY <1>1 DEF Exchange, TypeInv, LineOK
<1>3. x = tx[1] /\ tx' = <<>> /\ x.op = "data" /\ x.dev = d /\ x.cmd = c
  BY <1>1, <1>2, OneElement DEF Only
<1>4. Ignored(x) \/ Forwarded(x)
  BY <1>1, <1>3 DEF Half, Exits, Enters, Lists, Refused, Ignored, Forwarded
<1>5. UNCHANGED <<rx, dl>>
  BY <1>4 DEF Ignored, Forwarded, modem
<1>6. CASE UNCHANGED air
  <2>1. Elsewhere(d)'
    BY <1>1, <1>2, <1>6 DEF Elsewhere
  <2> QED BY <1>1, <1>2, <1>3, <1>5, <1>6, <2>1, NothingYet DEF Exchange
<1>7. CASE air' = [air EXCEPT ![dl] = Append(@, x)]
  <2>1. PICK q : q = air'[d]
    OBVIOUS
  <2>2. q = Append(<<>>, x)
    BY <1>2, <1>7, <2>1
  <2>3. Len(q) = 1 /\ q[1] = x
    BY <2>2
  <2>4. Elsewhere(d)'
    BY <1>1, <1>2, <1>7 DEF Elsewhere
  <2>5. Only(air[d], d, c)'
    BY <1>3, <2>1, <2>3 DEF Only
  <2> QED BY <1>1, <1>2, <1>3, <1>5, <2>4, <2>5 DEF Exchange
<1> QED BY <1>4, <1>6, <1>7 DEF Ignored, Forwarded

LEMMA ExchangeHears ==
    ASSUME TypeInv, NEW e \in Dev, DeviceHears(e),
           NEW b \in Seq(Unit), NEW d \in Dev, NEW c \in Command, Exchange(b, d, c)
    PROVE  Exchange(b, d, c)' /\ UNCHANGED dl
<1>1. PICK g : /\ g = Head(air[e]).cmd /\ air[e] # <<>> /\ air' = [air EXCEPT ![e] = Tail(@)]
               /\ UNCHANGED <<tx, rx, dl>>
               /\ UNCHANGED out \/ \E s \in AnswersOf(e, g) : out' = [out EXCEPT ![e] = @ \o s]
  BY DEF DeviceHears, modem
<1>2. e = d /\ Elsewhere(d)
  BY <1>1 DEF Exchange, Elsewhere
<1>3. /\ tx = <<>> /\ Only(air[d], d, c) /\ out[d] = <<>> /\ b = <<>> /\ rx = <<>>
      /\ air \in [Dev -> Seq(Data)] /\ out \in [Dev -> Seq(Answer)]
  BY <1>1, <1>2 DEF Exchange, Only, TypeInv, LineOK
<1>4. air[d] \in Seq(Data) /\ Len(air[d]) = 1
  BY <1>3 DEF Only
<1>5. g = c /\ Tail(air[d]) = <<>>
  BY <1>1, <1>2, <1>3, <1>4, OneElement DEF Only
<1>6. air'[d] = <<>> /\ \A f \in Dev : f # d => air'[f] = air[f]
  BY <1>1, <1>2, <1>3, <1>5
<1>7. CASE UNCHANGED out
  <2>1. Elsewhere(d)'
    BY <1>2, <1>6, <1>7 DEF Elsewhere
  <2> QED BY <1>1, <1>3, <1>6, <1>7, <2>1, NothingYet DEF Exchange
<1>8. ASSUME NEW s \in AnswersOf(d, c), out' = [out EXCEPT ![d] = @ \o s] PROVE Exchange(b, d, c)'
  <2>1. /\ s \in Seq(Answer) /\ \A k \in 1 .. Len(s) : s[k].from = d /\ s[k].cmd = c
        /\ \/ Len(s) = 1
           \/ Len(s) = 2 /\ s[1].part = "first" /\ s[2].part = "last"
    BY AnswerUnits
  <2>2. <<>> \o s = s
    BY <2>1
  <2>3. out'[d] = s /\ \A f \in Dev : f # d => out'[f] = out[f]
    BY <1>3, <1>8, <2>2
  <2>4. Elsewhere(d)'
    BY <1>2, <1>6, <2>3 DEF Elsewhere
  <2>5. Part(s, d, c)
    <3>1. \A k \in 1 .. Len(s) : s[k] \in Answer
      BY <2>1
    <3>2. \A a \in Answer : a.unit = "answer"
      BY UnitKinds
    <3>3. c = SYN => \A k \in 1 .. Len(s) : s[k].part = "none"
      BY AnswerUnits
    <3> QED BY <2>1, <3>1, <3>2, <3>3 DEF Part
  <2>6. Units(<<>>, s)
    BY <2>1 DEF Units
  <2>7. b \o rx' = <<>> /\ Part(<<>>, d, c)
    BY <1>1, <1>3, NothingYet
  <2> QED BY <1>1, <1>3, <1>6, <2>3, <2>4, <2>5, <2>6, <2>7 DEF Exchange
<1> QED BY <1>1, <1>2, <1>5, <1>7, <1>8

\* Taking the next unit of what is still to come.
LEMMA NextUnit ==
    ASSUME NEW w \in Seq(Unit), NEW o \in Seq(Answer), o # <<>>, NEW d, NEW c,
           Units(w, o), Part(w, d, c), Part(o, d, c)
    PROVE  /\ Units(w, Tail(o)) /\ Part(Tail(o), d, c)
           /\ Units(Append(w, Head(o)), Tail(o)) /\ Part(Append(w, Head(o)), d, c)
<1>1. /\ Head(o) \in Unit /\ Head(o) = o[1] /\ Tail(o) \in Seq(Answer) /\ Len(Tail(o)) = Len(o) - 1
      /\ Len(o) \in Nat \ {0} /\ 1 \in 1 .. Len(o)
      /\ \A k \in 1 .. Len(Tail(o)) : k + 1 \in 1 .. Len(o) /\ Tail(o)[k] = o[k + 1]
  BY Shorter, UnitKinds
<1>2. PICK e \in Unit : e = Head(o)
  BY <1>1
<1>3. PICK p : p = Tail(o)
  OBVIOUS
<1>4. PICK v : v = Append(w, e)
  OBVIOUS
<1>5. /\ v \in Seq(Unit) /\ Len(v) = Len(w) + 1 /\ Len(w) \in Nat /\ v[Len(w) + 1] = e
      /\ \A k \in 1 .. Len(w) : v[k] = w[k]
  BY <1>4, Longer
<1>6. p \in Seq(Answer) /\ Len(p) = Len(o) - 1 /\ \A k \in 1 .. Len(p) : k + 1 \in 1 .. Len(o) /\ p[k] = o[k + 1]
  BY <1>1, <1>3
<1>7. Part(p, d, c)
  BY <1>6 DEF Part
<1>8. Part(v, d, c)
  <2>1. e.unit = "answer" /\ e.from = d /\ e.cmd = c /\ (c = SYN => e.part = "none")
    BY <1>1, <1>2 DEF Part
  <2>2. \A k \in 1 .. Len(v) : k \in 1 .. Len(w) \/ k = Len(w) + 1
    BY <1>5
  <2> QED BY <1>5, <2>1, <2>2 DEF Part
<1>9. Units(w, p) /\ Units(v, p)
  <2>1. CASE Len(w) + Len(o) <= 1
    <3>1. Len(w) + Len(p) <= 1 /\ Len(v) + Len(p) <= 1
      BY <1>1, <1>5, <1>6, <2>1
    <3> QED BY <3>1 DEF Units
  <2>2. CASE w = <<>> /\ Len(o) = 2 /\ o[1].part = "first" /\ o[2].part = "last"
    <3>1. Len(w) = 0 /\ Len(p) = 1 /\ 1 \in 1 .. Len(p)
      BY <1>6, <2>2
    <3>2. p[1] = o[1 + 1]
      BY <1>6, <3>1
    <3>3. p[1].part = "last" /\ v[1].part = "first" /\ Len(v) = 1
      BY <1>1, <1>2, <1>5, <2>2, <3>1, <3>2
    <3>4. Len(w) + Len(p) <= 1
      BY <3>1
    <3> QED BY <3>1, <3>3, <3>4 DEF Units
  <2>3. CASE Len(w) = 1 /\ Len(o) = 1 /\ w[1].part = "first" /\ o[1].part = "last"
    <3>1. Len(p) = 0 /\ p = <<>>
      BY <1>6, <2>3
    <3>2. Len(v) = 2 /\ v[1] = w[1] /\ v[2] = e /\ e = o[1]
      BY <1>1, <1>2, <1>5, <2>3
    <3>3. Len(w) + Len(p) <= 1
      BY <2>3, <3>1
    <3> QED BY <2>3, <3>1, <3>2, <3>3 DEF Units
  <2> QED BY <2>1, <2>2, <2>3 DEF Units
<1> QED BY <1>2, <1>3, <1>4, <1>7, <1>8, <1>9

LEMMA ExchangeDelivers ==
    ASSUME TypeInv, NEW e \in Dev, RadioDelivers(e),
           NEW b \in Seq(Unit), NEW d \in Dev, NEW c \in Command, Exchange(b, d, c)
    PROVE  Exchange(b, d, c)' /\ UNCHANGED dl
<1>1. /\ out[e] # <<>> /\ out' = [out EXCEPT ![e] = Tail(@)] /\ UNCHANGED <<tx, air, dl>>
      /\ UNCHANGED rx \/ rx' = rx \o <<Head(out[e])>>
  BY DEF RadioDelivers, Says, modem
<1>2. e = d /\ Elsewhere(d)
  BY <1>1 DEF Exchange, Elsewhere
<1>3. PICK o, w : o = out[d] /\ w = b \o rx
  OBVIOUS
<1>4. /\ tx = <<>> /\ air[d] = <<>> /\ Units(w, o) /\ Part(w, d, c) /\ Part(o, d, c)
      /\ out \in [Dev -> Seq(Answer)] /\ rx \in Seq(Unit)
  BY <1>1, <1>2, <1>3 DEF Exchange, TypeInv, LineOK
<1>5. o \in Seq(Answer) /\ o # <<>> /\ w \in Seq(Unit)
  BY <1>1, <1>2, <1>3, <1>4, Joined
<1>6. /\ Units(w, Tail(o)) /\ Part(Tail(o), d, c)
      /\ Units(Append(w, Head(o)), Tail(o)) /\ Part(Append(w, Head(o)), d, c)
  BY <1>4, <1>5, NextUnit
<1>7. out'[d] = Tail(o) /\ \A f \in Dev : f # d => out'[f] = out[f]
  BY <1>1, <1>2, <1>3, <1>4
<1>8. Elsewhere(d)'
  BY <1>1, <1>2, <1>7 DEF Elsewhere
<1>9. b \o rx' = w \/ b \o rx' = Append(w, Head(o))
  <2>1. PICK f \in Unit : f = Head(o)
    BY <1>5, Shorter, UnitKinds
  <2>2. rx \o <<f>> = Append(rx, f)
    BY <1>4
  <2>3. b \o Append(rx, f) = Append(b \o rx, f)
    BY <1>4, Moves
  <2>4. rx' = rx \/ rx' = rx \o <<f>>
    BY <1>1, <1>2, <1>3, <2>1
  <2> QED BY <1>3, <2>1, <2>2, <2>3, <2>4
<1>10. PICK w1, o1 : w1 = b \o rx' /\ o1 = out'[d]
  OBVIOUS
<1>11. Units(w1, o1) /\ Part(w1, d, c) /\ Part(o1, d, c)
  BY <1>4, <1>6, <1>7, <1>9, <1>10
<1> QED BY <1>1, <1>4, <1>8, <1>10, <1>11 DEF Exchange

\* All of an answer has come: nothing of it is left.
LEMMA CompletedIsAll ==
    ASSUME NEW b \in Seq(Unit), b # <<>>, NEW q \in Seq(Unit), NEW o \in Seq(Answer), NEW d, NEW c,
           Units(b \o q, o), Part(b \o q, d, c), Completed(b)
    PROVE  q = <<>> /\ o = <<>> /\ Part(b, d, c)
<1>1. PICK w : w = b \o q
  OBVIOUS
<1>2. /\ w \in Seq(Unit) /\ Len(w) = Len(b) + Len(q) /\ Len(b) \in Nat \ {0} /\ Len(q) \in Nat
      /\ \A k \in 1 .. Len(b) : w[k] = b[k]
  BY <1>1, Joined, NoElement
<1>3. Head(b) = b[1]
  BY Shorter
<1>4. Part(b, d, c)
  <2>1. \A k \in 1 .. Len(b) : k \in 1 .. Len(w)
    BY <1>2
  <2> QED BY <1>1, <1>2, <2>1 DEF Part
<1>5. Len(q) = 0 /\ Len(o) = 0
  <2>0. Len(o) \in Nat /\ 1 \in 1 .. Len(b) /\ w[1] = b[1]
    BY <1>2, NoElement
  <2>1. CASE Len(w) + Len(o) <= 1
    BY <1>2, <2>0, <2>1
  <2>2. CASE w = <<>> /\ Len(o) = 2
    BY <1>2, <2>2
  <2>3. CASE Len(w) = 1 /\ w[1].part = "first"
    <3>1. Len(b) = 1
      BY <1>2, <2>3
    <3>2. b[Len(b)].part = "first"
      BY <2>0, <2>3, <3>1
    <3> QED BY <3>2 DEF Completed, HasEnd
  <2>4. CASE Len(w) = 2 /\ o = <<>> /\ w[1].part = "first"
    <3>1. Len(b) # 1
      <4> SUFFICES ASSUME Len(b) = 1 PROVE FALSE
        OBVIOUS
      <4>1. b[Len(b)].part = "first"
        BY <2>0, <2>4
      <4> QED BY <4>1 DEF Completed, HasEnd
    <3>2. Len(o) = 0
      BY <2>4, NoElement
    <3>3. PICK n \in Nat \ {0}, m \in Nat : n = Len(b) /\ m = Len(q)
      BY <1>2
    <3>4. n + m = 2 /\ n # 1
      BY <1>2, <2>4, <3>1, <3>3
    <3>5. m = 0
      BY <3>4
    <3> QED BY <3>2, <3>3, <3>5
  <2> QED BY <1>1, <2>1, <2>2, <2>3, <2>4 DEF Units
<1> QED BY <1>4, <1>5, NoElement

LEMMA LineEnvironment ==
    ASSUME TypeInv, Environment, ~ Refuses, NEW t \in Thread, NEW u, StateOK(t, u),
           NEW c \in Command, LineInv(u, c)
    PROVE  LineInv(u, c)'
<1>1. \/ UNCHANGED <<tx, rx, dh, dl, air, out>>
      \/ ModemReads
      \/ \E e \in Dev : DeviceHears(e) \/ RadioDelivers(e)
  BY Steps
<1>2. CASE UNCHANGED <<tx, rx, dh, dl, air, out>>
  BY <1>2, StaysSo
<1>3. u.buf \in Seq(Unit) /\ (u.phase \in {"ack", "answer"} => u.dev \in Dev /\ ~ u.waiting)
  BY DEF StateOK, ThreadState, Meant, Ordering
<1>4. CASE u.waiting
  <2>1. u.phase \in Ordering
    BY <1>4 DEF StateOK
  <2>2. u.phase \notin {"list", "ack", "answer", "ip", "completed"}
    BY <2>1 DEF Ordering
  <2>3. CASE ModemReads
    <3>1. WaitInv(u)' /\ DestInv(u)'
      BY <1>4, <2>3, WaitReads DEF LineInv
    <3> QED BY <1>4, <2>2, <3>1 DEF LineInv, RestInv, ListInv, TalkInv
  <2>4. NoAir
    BY <1>4 DEF LineInv, WaitInv
  <2> QED BY <1>1, <1>2, <2>3, <2>4, NothingHeard
<1>5. CASE u.phase = "list" /\ ~ u.waiting
  <2>1. NoAir
    BY <1>5 DEF LineInv, ListInv
  <2>2. CASE ModemReads
    <3>1. ListInv(u)'
      BY <1>5, <2>2, ListReads DEF LineInv
    <3> QED BY <1>5, <3>1 DEF LineInv, WaitInv, RestInv, DestInv, TalkInv
  <2> QED BY <1>1, <1>2, <2>1, <2>2, NothingHeard
<1>6. CASE u.phase \in {"ack", "answer"}
  <2>1. Exchange(u.buf, u.dev, c) /\ dl = u.dev
    BY <1>6 DEF LineInv, TalkInv, DestInv
  <2>2. ASSUME Exchange(u.buf, u.dev, c)', UNCHANGED dl PROVE LineInv(u, c)'
    <3>1. DestInv(u)'
      BY <2>1, <2>2 DEF LineInv, DestInv
    <3>2. TalkInv(u, c)'
      BY <2>2 DEF LineInv, TalkInv
    <3> QED BY <1>3, <1>6, <3>1, <3>2 DEF LineInv, WaitInv, RestInv, ListInv
  <2>3. CASE ModemReads
    BY <1>3, <1>6, <2>1, <2>2, <2>3, ExchangeReads
  <2>4. ASSUME NEW e \in Dev, DeviceHears(e) PROVE LineInv(u, c)'
    BY <1>3, <1>6, <2>1, <2>2, <2>4, ExchangeHears
  <2>5. ASSUME NEW e \in Dev, RadioDelivers(e) PROVE LineInv(u, c)'
    BY <1>3, <1>6, <2>1, <2>2, <2>5, ExchangeDelivers
  <2> QED BY <1>1, <1>2, <2>3, <2>4, <2>5
<1>7. CASE ~ u.waiting /\ u.phase \notin {"list", "ack", "answer"}
  <2>1. Quiet
    BY <1>7 DEF LineInv, RestInv
  <2>2. ~ ModemReads /\ NoAir
    BY <2>1 DEF Quiet, ModemReads
  <2> QED BY <1>1, <1>2, <2>2, NothingHeard
<1> QED BY <1>4, <1>5, <1>6, <1>7

\* A thread's own operations.
LEMMA QuietStays ==
    ASSUME Quiet, UNCHANGED <<air, out>>
    PROVE  NoAir /\ NoAir' /\ (tx' = <<>> /\ rx' = <<>> => Quiet')
BY DEF Quiet, NoAir

\* At rest on a quiet line, about no device.
LEMMA RestsQuietly ==
    ASSUME Quiet', NEW u, NEW c, ~ u.waiting,
           u.phase \notin {"list", "ack", "answer", "ip", "completed"},
           u.phase = "connect" => ~ (Len(u.got) >= 3)
    PROVE  LineInv(u, c)'
BY DEF LineInv, WaitInv, RestInv, DestInv, ListInv, TalkInv

LEMMA LineOrders ==
    ASSUME TypeInv, NEW t \in Thread, NEW s, StateOK(t, s), NEW u, StateOK(t, u), u.dev = s.dev,
           NEW c, LineInv(s, c), Orders(s, u), UNCHANGED <<dl, air, out>>
    PROVE  LineInv(u, c)'
<1>1. /\ s.todo # <<>> /\ ~ s.waiting /\ tx' = Append(tx, Head(s.todo)) /\ UNCHANGED rx
      /\ u.waiting /\ u.phase = s.phase /\ u.got = s.got
  BY DEF Orders
<1>2. s.phase \in Ordering /\ s.todo \in Seq(Setting) /\ Len(s.got) \in Nat
  BY <1>1 DEF StateOK, ThreadState
<1>3. Quiet
  BY <1>1, <1>2 DEF Ordering, LineInv, RestInv
<1>4. NoAir' /\ rx' = <<>>
  BY <1>1, <1>3, QuietStays DEF Quiet
<1>5. PICK x \in Setting : x = Head(s.todo) /\ x = s.todo[1] /\ 1 \in 1 .. Len(s.todo) /\ Len(s.todo) \in Nat
  BY <1>1, <1>2, Shorter
<1>6. tx' = <<x>> /\ Len(<<x>>) = 1 /\ <<x>>[1] = x
  BY <1>1, <1>3, <1>5 DEF Quiet
<1>7. x.op \in SettingOp
  BY SettingIsOrder DEF SettingOp
<1>8. s.phase = "connect" => x = ConnectOrders(u.dev)[Len(u.got) + 1]
  <2> SUFFICES ASSUME s.phase = "connect" PROVE x = ConnectOrders(u.dev)[Len(u.got) + 1]
    OBVIOUS
  <2>1. Len(s.got) + 0 = Written(s)
    BY <1>1 DEF StateOK, Awaited
  <2>2. s.todo[1] = OrdersOf(s)[Written(s) + 1]
    BY <1>5 DEF StateOK
  <2>3. OrdersOf(s) = ConnectOrders(u.dev)
    BY DEF OrdersOf
  <2>4. Written(s) = Len(u.got)
    BY <1>1, <1>2, <2>1
  <2> QED BY <1>5, <2>2, <2>3, <2>4
<1>9. Asked(u)'
  BY <1>1, <1>4, <1>6, <1>7, <1>8 DEF Asked
<1>10. u.phase \notin {"list", "ack", "answer", "ip", "completed"}
  BY <1>1, <1>2 DEF Ordering
<1>11. DestInv(u)'
  BY <1>1, <1>10 DEF LineInv, DestInv
<1> QED BY <1>1, <1>4, <1>9, <1>10, <1>11 DEF LineInv, WaitInv, RestInv, ListInv, TalkInv

LEMMA NothingUnderWay ==
    ASSUME ~ Late, TimedOut, TypeInv
    PROVE  Quiet
BY DEF TimedOut, UnderWay, Quiet, NoAir

LEMMA LineReplied ==
    ASSUME TypeInv, ~ Late, NEW t \in Thread, NEW s, StateOK(t, s), NEW u, StateOK(t, u), u.dev = s.dev,
           NEW c, LineInv(s, c), Replied(s, u), UNCHANGED <<dl, air, out>>
    PROVE  LineInv(u, c)'
<1>1. /\ s.waiting /\ ~ u.waiting /\ UNCHANGED tx /\ u.phase = s.phase
      /\ \/ /\ rx # <<>> /\ rx' = Tail(rx)
            /\ u.got = Append(s.got, IF Head(rx).unit = "OK" THEN "OK" ELSE "ERROR")
         \/ TimedOut /\ UNCHANGED rx /\ u.got = Append(s.got, "timeout")
  BY DEF Replied
<1>2. s.phase \in Ordering /\ s.got \in Seq({"OK", "ERROR", "timeout"}) /\ rx \in Seq(Unit)
  BY <1>1 DEF StateOK, ThreadState, TypeInv, LineOK
<1>3. u.phase \notin {"list", "ack", "answer", "ip", "completed"}
  BY <1>1, <1>2 DEF Ordering
<1>4. /\ Quiet'
      /\ \E g \in {"OK", "ERROR", "timeout"} :
           u.got = Append(s.got, g) /\ (u.phase = "connect" /\ Len(s.got) = 2 /\ g = "OK" => dl = u.dev)
  <2>1. CASE /\ rx # <<>> /\ rx' = Tail(rx)
             /\ u.got = Append(s.got, IF Head(rx).unit = "OK" THEN "OK" ELSE "ERROR")
    <3>1. NoAir /\ Told(s)
      BY <1>1, <2>1 DEF LineInv, WaitInv, Asked
    <3>2. tx = <<>> /\ Len(rx) = 1
      <4>1. Len(rx) \in Nat /\ Len(rx) # 0
        BY <1>2, <2>1, NoElement
      <4>2. tx = <<>> /\ Len(rx) <= 1
        BY <3>1 DEF Told
      <4>3. \A n \in Nat : n # 0 /\ n <= 1 => n = 1
        OBVIOUS
      <4> QED BY <4>1, <4>2, <4>3
    <3>3. Head(rx) = rx[1] /\ rx' = <<>>
      BY <1>2, <2>1, <3>2, OneElement
    <3>4. Quiet'
      BY <1>1, <3>1, <3>2, <3>3 DEF Quiet, NoAir
    <3>5. u.phase = "connect" /\ Len(s.got) = 2 => (Head(rx).unit = "OK" => dl = u.dev)
      BY <1>1, <3>1, <3>2, <3>3 DEF Told
    <3>6. PICK g \in {"OK", "ERROR", "timeout"} : g = IF Head(rx).unit = "OK" THEN "OK" ELSE "ERROR"
      OBVIOUS
    <3> QED BY <2>1, <3>4, <3>5, <3>6
  <2>2. CASE TimedOut /\ UNCHANGED rx /\ u.got = Append(s.got, "timeout")
    <3>1. Quiet
      BY <2>2, NothingUnderWay
    <3>2. Quiet'
      BY <1>1, <2>2, <3>1 DEF Quiet, NoAir
    <3> QED BY <2>2, <3>2
  <2> QED BY <1>1, <2>1, <2>2
<1>5. DestInv(u)'
  <2> SUFFICES ASSUME u.phase = "connect", Len(u.got) >= 3, u.got[3] = "OK" PROVE dl = u.dev
    BY <1>3 DEF DestInv
  <2>1. PICK g \in {"OK", "ERROR", "timeout"} :
           u.got = Append(s.got, g) /\ (Len(s.got) = 2 /\ g = "OK" => dl = u.dev)
    BY <1>4
  <2>2. PICK n : n = Len(s.got)
    OBVIOUS
  <2>3. n \in Nat /\ Len(u.got) = n + 1 /\ u.got[n + 1] = g /\ \A k \in 1 .. n : u.got[k] = s.got[k]
    BY <1>2, <2>1, <2>2, Longer
  <2>4. CASE n = 2
    <3>1. n + 1 = 3
      BY <2>4
    <3> QED BY <2>1, <2>2, <2>3, <2>4, <3>1
  <2>5. CASE n >= 3
    <3>1. 3 \in 1 .. n
      BY <2>3, <2>5
    <3> QED BY <1>1, <2>2, <2>3, <2>5, <3>1 DEF LineInv, DestInv
  <2> QED BY <2>3, <2>4, <2>5
<1> QED BY <1>1, <1>3, <1>4, <1>5 DEF LineInv, WaitInv, RestInv, ListInv, TalkInv

LEMMA LineCollected ==
    ASSUME TypeInv, ~ Late, NEW t \in Thread, NEW s, StateOK(t, s), NEW u, StateOK(t, u), u.dev = s.dev,
           NEW c, LineInv(s, c), Collected(s, u) \/ Expired(s, u), UNCHANGED <<dl, air, out>>
    PROVE  LineInv(u, c)'
<1>1. s.phase = "answer" /\ UNCHANGED tx /\ u.phase \in {"answer", "completed", "timeout"}
  BY DEF Collected, Expired
<1>2. ~ u.waiting /\ s.buf \in Seq(Unit) /\ u.dev \in Dev
  BY <1>1 DEF StateOK, Ordering, ThreadState, Meant
<1>3. CASE Expired(s, u)
  <2>1. u.phase = "timeout" /\ UNCHANGED rx /\ Quiet
    BY <1>3, NothingUnderWay DEF Expired
  <2>2. Quiet'
    BY <1>1, <2>1 DEF Quiet, NoAir
  <2> QED BY <1>2, <2>1, <2>2, RestsQuietly
<1>4. CASE Collected(s, u)
  <2>1. PICK b, o, d, e : b = s.buf /\ d = u.dev /\ o = out[d] /\ e = u.buf
    OBVIOUS
  <2>2. /\ rx # <<>> /\ rx' = Tail(rx) /\ e = Append(b, Head(rx))
        /\ u.phase = IF Completed(e) THEN "completed" ELSE "answer"
    BY <1>4, <2>1 DEF Collected
  <2>3. rx \in Seq(Unit) /\ o \in Seq(Answer) /\ d \in Dev /\ b \in Seq(Unit)
    BY <1>2, <2>1 DEF TypeInv, LineOK
  <2>4. Exchange(b, d, c) /\ dl = d
    BY <1>1, <2>1 DEF LineInv, TalkInv, DestInv
  <2>5. tx = <<>> /\ air[d] = <<>> /\ Units(b \o rx, o) /\ Part(b \o rx, d, c) /\ Part(o, d, c) /\ Elsewhere(d)
    BY <2>1, <2>2, <2>4 DEF Exchange
  <2>6. PICK q : q = Tail(rx)
    OBVIOUS
  <2>7. e \o q = b \o rx /\ q \in Seq(Unit) /\ e \in Seq(Unit) /\ e # <<>>
    <3>1. Append(b, Head(rx)) \o Tail(rx) = b \o rx
      BY <2>2, <2>3, Moves
    <3>2. Head(rx) \in Unit /\ Tail(rx) \in Seq(Unit)
      BY <2>2, <2>3, Shorter
    <3> QED BY <2>2, <2>3, <2>6, <3>1, <3>2, Longer
  <2>8. CASE Completed(e)
    <3>1. q = <<>> /\ o = <<>> /\ Part(e, d, c)
      BY <2>3, <2>5, <2>7, <2>8, CompletedIsAll
    <3>2. NoAir
      BY <2>1, <2>5, <3>1 DEF NoAir, Elsewhere
    <3>3. Quiet'
      BY <1>1, <2>2, <2>5, <2>6, <3>1, <3>2 DEF Quiet, NoAir
    <3>4. u.phase = "completed"
      BY <2>2, <2>8
    <3> QED BY <1>2, <2>1, <3>1, <3>3, <3>4 DEF LineInv, WaitInv, RestInv, DestInv, ListInv, TalkInv
  <2>9. CASE ~ Completed(e)
    <3>1. u.phase = "answer"
      BY <2>2, <2>9
    <3>2. Elsewhere(d)' /\ tx' = <<>> /\ rx' = q /\ out'[d] = o /\ air'[d] = <<>>
      BY <1>1, <2>1, <2>2, <2>5, <2>6 DEF Elsewhere
    <3>3. Exchange(e, d, c)'
      BY <2>5, <2>7, <3>2 DEF Exchange
    <3>4. DestInv(u)' /\ TalkInv(u, c)'
      BY <2>1, <2>4, <3>1, <3>3 DEF DestInv, TalkInv
    <3> QED BY <1>2, <3>1, <3>4 DEF LineInv, WaitInv, RestInv, ListInv
  <2> QED BY <2>8, <2>9
<1> QED BY <1>3, <1>4

LEMMA LineStep ==
    ASSUME TypeInv, ~ Late, NEW t \in Thread, Step(t), NEW c, LineInv(thread[t], c)
    PROVE  LineInv(thread[t], c)' /\ thread'[t].dev = thread[t].dev
<1>1. PICK s : s = thread[t]
  OBVIOUS
<1>2. PICK u : /\ Goes(t, u) /\ StateOK(t, u) /\ u.dev = s.dev
               /\ Orders(s, u) \/ Replied(s, u) \/ Collected(s, u) \/ Expired(s, u)
  BY <1>1, StepGoes
<1>3. UNCHANGED <<dl, air, out>>
  BY StepGoes DEF modem
<1>4. StateOK(t, s) /\ LineInv(s, c) /\ thread'[t] = u
  BY <1>1, <1>2, ThreadIsOK, Went
<1>5. LineInv(u, c)'
  BY <1>2, <1>3, <1>4, LineOrders, LineReplied, LineCollected
<1> QED BY <1>1, <1>2, <1>4, <1>5

\* What a connection was for: a command goes out on a quiet line.
LEMMA Speaks ==
    ASSUME TypeInv, Quiet, NEW d \in Dev, NEW c,
           tx' = Append(tx, [op |-> "data", dev |-> d, cmd |-> c]), UNCHANGED <<rx, air, out>>
    PROVE  Exchange(<<>>, d, c)'
<1>1. PICK x : x = [op |-> "data", dev |-> d, cmd |-> c]
  OBVIOUS
<1>2. x.op = "data" /\ x.dev = d /\ x.cmd = c
  BY <1>1
<1>3. tx' = <<x>> /\ Len(<<x>>) = 1 /\ <<x>>[1] = x
  BY <1>1 DEF Quiet
<1>4. Only(tx', d, c)
  BY <1>2, <1>3 DEF Only
<1> QED BY <1>4 DEF Exchange, Elsewhere, Quiet, NoAir

LEMMA LineSpeaks ==
    ASSUME TypeInv, NEW t \in Thread, NEW s, StateOK(t, s), NEW c, LineInv(s, c),
           (AtRest(s, "connect") /\ s.got[3] = "OK") \/ s.phase = "ip",
           NEW u, StateOK(t, u), u.phase \in {"ack", "answer"}, u.dev = s.dev, u.buf = <<>>,
           NEW e, tx' = Append(tx, [op |-> "data", dev |-> s.dev, cmd |-> e]), UNCHANGED <<rx, dl, air, out>>
    PROVE  LineInv(u, e)'
<1>1. Quiet /\ ~ u.waiting /\ s.dev \in Dev
  BY DEF AtRest, StateOK, Ordering, Meant, LineInv, RestInv
<1>2. dl = s.dev
  <2>1. ASSUME AtRest(s, "connect"), s.got[3] = "OK" PROVE dl = s.dev
    <3>1. Len(s.got) + 0 = 4 - 0
      <4>1. Len(s.todo) = 0
        BY <2>1 DEF AtRest
      <4> QED BY <2>1, <4>1 DEF AtRest, StateOK, Awaited, Written
    <3>2. Len(s.got) \in Nat
      BY DEF StateOK, ThreadState
    <3>3. Len(s.got) >= 3
      <4>1. PICK n \in Nat : n = Len(s.got)
        BY <3>2
      <4>2. n + 0 = 4 - 0
        BY <3>1, <4>1
      <4>3. n >= 3
        BY <4>2
      <4> QED BY <4>1, <4>3
    <3> QED BY <2>1, <3>3 DEF LineInv, DestInv, AtRest
  <2>2. s.phase = "ip" => dl = s.dev
    BY DEF LineInv, DestInv
  <2> QED BY <2>1, <2>2
<1>3. Exchange(<<>>, s.dev, e)'
  <2>1. PICK d \in Dev : d = s.dev
    BY <1>1
  <2>2. Exchange(<<>>, d, e)'
    BY <1>1, <2>1, Speaks
  <2> QED BY <2>1, <2>2
<1>4. TalkInv(u, e)' /\ DestInv(u)'
  BY <1>2, <1>3 DEF TalkInv, DestInv
<1> QED BY <1>1, <1>4 DEF LineInv, WaitInv, RestInv, ListInv

\* A connection begins with no reply, a disconnection on a quiet line.
LEMMA LineBegins ==
    ASSUME NEW t, NEW u, StateOK(t, u), NEW c, Quiet', Begins(u, "connect") \/ Begins(u, "disconnect")
    PROVE  LineInv(u, c)'
<1>1. u.phase = "connect" => ~ (Len(u.got) >= 3)
  <2>1. Len(u.got) \in Nat
    BY DEF StateOK, ThreadState
  <2>2. Awaited(u) = 0 /\ Written(u) = 4 - 4
    BY DEF Begins, Awaited, Written
  <2>3. u.phase = "connect" => Len(u.got) + Awaited(u) = Written(u)
    BY DEF StateOK
  <2>4. \A n \in Nat : n + 0 = 4 - 4 => ~ (n >= 3)
    OBVIOUS
  <2> QED BY <2>1, <2>2, <2>3, <2>4
<1> QED BY <1>1, RestsQuietly DEF Begins

LEMMA LineListener ==
    ASSUME TypeInv, ~ Late, Listener, SerialInv("listener")
    PROVE  SerialInv("listener")'
<1> DEFINE s == thread["listener"]
<1>1. PICK c : c = Call(open)
  OBVIOUS
<1>2. LineInv(s, c) /\ StateOK("listener", s) /\ UNCHANGED <<dl, air, out>>
  BY <1>1, ThreadIsOK, Threads, ListenerGoes DEF SerialInv, CommandOf, modem
<1> SUFFICES ASSUME NEW v, v = thread'["listener"], NEW e, e = Call(open') PROVE LineInv(v, e)'
  BY DEF SerialInv, CommandOf
<1>3. CASE Step("listener")
  <2>1. UNCHANGED open
    BY <1>3, StepGoes, Threads DEF history
  <2>2. LineInv(thread["listener"], c)'
    BY <1>2, <1>3, LineStep, Threads
  <2> QED BY <1>1, <2>1, <2>2 DEF Call
<1>4. CASE Unknown
  <2>1. UNCHANGED <<tx, rx, dl, air, out>> /\ v = s /\ e = c
    BY <1>1, <1>2, <1>4 DEF Unknown, Call
  <2>2. LineInv(s, c)
    BY <1>2
  <2>3. LineInv(v, e)
    BY <2>1, <2>2
  <2> QED BY <2>1, <2>3, StaysSo
<1>5. ASSUME NEW u, Goes("listener", u), StateOK("listener", u),
             Taken(s, u) \/ Sent(s, u) \/ NotSent(s, u) \/ Finished(s, u) \/ Closed(s, u)
      PROVE  LineInv(u, e)'
  <2>1. CASE Sent(s, u)
    <3>1. e = Call(open)
      BY <2>1 DEF Sent
    <3> HIDE DEF s
    <3> QED BY <1>2, <1>5, <2>1, <3>1, LineSpeaks, Threads DEF Sent
  <2>2. CASE Taken(s, u) \/ NotSent(s, u) \/ Finished(s, u) \/ Closed(s, u)
    <3>1. Quiet /\ tx' = tx /\ (rx' = rx \/ rx' = <<>>)
      BY <1>2, <2>2 DEF Taken, NotSent, Finished, Closed, AtRest, LineInv, RestInv, StateOK, Ordering
    <3>2. Quiet'
      BY <1>2, <3>1 DEF Quiet, NoAir
    <3>3. CASE Closed(s, u)
      <4>1. u.phase = "recv"
        BY <3>3 DEF Closed
      <4>2. ~ u.waiting
        BY <1>5, <4>1 DEF StateOK, Ordering
      <4> QED BY <3>2, <4>1, <4>2, RestsQuietly
    <3>4. CASE Taken(s, u) \/ NotSent(s, u) \/ Finished(s, u)
      <4>1. Begins(u, "connect") \/ Begins(u, "disconnect")
        BY <3>4 DEF Taken, NotSent, Finished
      <4> QED BY <1>5, <3>2, <4>1, LineBegins
    <3> QED BY <2>2, <3>3, <3>4
  <2> QED BY <1>5, <2>1, <2>2
<1>6. CASE \E u : /\ Goes("listener", u) /\ StateOK("listener", u)
                  /\ Taken(s, u) \/ Sent(s, u) \/ NotSent(s, u) \/ Finished(s, u) \/ Closed(s, u)
  <2>1. PICK u : /\ Goes("listener", u) /\ StateOK("listener", u)
                 /\ Taken(s, u) \/ Sent(s, u) \/ NotSent(s, u) \/ Finished(s, u) \/ Closed(s, u)
    BY <1>6
  <2>2. thread'["listener"] = u
    BY <2>1, Went, Threads
  <2>3. LineInv(u, e)'
    BY <1>5, <2>1
  <2> QED BY <2>2, <2>3
<1> QED BY <1>3, <1>4, <1>6, ListenerGoes

LEMMA ReadsQuietly ==
    ASSUME TypeInv, NEW s, ListInv(s), s.phase = "list", rx # <<>>, rx' = Tail(rx), UNCHANGED <<tx, air, out>>
    PROVE  /\ Head(rx).unit = "end of list" => Quiet'
           /\ ListInv(s)'
<1>1. PICK n : n = Len(rx)
  OBVIOUS
<1>2. /\ n \in Nat \ {0} /\ Head(rx) = rx[1] /\ Len(Tail(rx)) = n - 1 /\ Tail(rx) \in Seq(Unit) /\ 1 \in 1 .. n
      /\ \A k \in 1 .. Len(Tail(rx)) : k + 1 \in 1 .. n /\ Tail(rx)[k] = rx[k + 1]
      /\ rx \in Seq(Unit)
  BY <1>1, Shorter DEF TypeInv, LineOK
<1>3. /\ NoAir /\ tx = <<>> /\ rx[n].unit = "end of list"
      /\ \A k \in 1 .. n : rx[k].unit = "end of list" => k = n
  BY <1>1 DEF ListInv
<1>4. NoAir'
  BY <1>3 DEF NoAir
<1>5. ASSUME Head(rx).unit = "end of list" PROVE Quiet'
  <2>1. n = 1
    BY <1>2, <1>3, <1>5
  <2>2. rx' = <<>>
    BY <1>1, <1>2, <2>1, OneElement
  <2> QED BY <1>3, <1>4, <2>2 DEF Quiet
<1>6. PICK q : q = Tail(rx)
  OBVIOUS
<1>7. PICK m : m = Len(q)
  OBVIOUS
<1>8. m \in Nat /\ m = n - 1 /\ \A k \in 1 .. m : k + 1 \in 1 .. n /\ q[k] = rx[k + 1]
  BY <1>2, <1>6, <1>7, NoElement
<1>9. ASSUME q # <<>> PROVE q[m].unit = "end of list"
  <2>1. m # 0
    BY <1>2, <1>6, <1>7, <1>9, NoElement
  <2>2. m \in 1 .. m /\ m + 1 = n
    BY <1>2, <1>8, <2>1
  <2>3. q[m] = rx[m + 1]
    BY <1>8, <2>2
  <2> QED BY <1>3, <2>2, <2>3
<1>10. ASSUME NEW k \in 1 .. m, q[k].unit = "end of list" PROVE k = m
  <2>1. k + 1 = n
    BY <1>3, <1>8, <1>10
  <2> QED BY <1>8, <2>1
<1>11. ListInv(s)'
  BY <1>3, <1>4, <1>6, <1>7, <1>9, <1>10 DEF ListInv
<1> QED BY <1>5, <1>11

LEMMA LineMain ==
    ASSUME TypeInv, ~ Late, Main, SerialInv("main")
    PROVE  SerialInv("main")'
<1> DEFINE s == thread["main"]
<1>1. PICK c : c = CommandOf("main")
  OBVIOUS
<1>2. LineInv(s, c) /\ StateOK("main", s) /\ UNCHANGED <<dl, air, out>>
  BY <1>1, ThreadIsOK, Threads, MainGoes DEF SerialInv, modem
<1> SUFFICES ASSUME NEW v, v = thread'["main"], NEW e, e = IF v.phase = "ack" THEN SYN ELSE DES
             PROVE LineInv(v, e)'
  BY Threads DEF SerialInv, CommandOf
<1>3. c = IF s.phase = "ack" THEN SYN ELSE DES
  BY <1>1, Threads DEF CommandOf
<1>4. CASE Step("main")
  <2>1. PICK u : /\ Goes("main", u) /\ StateOK("main", u) /\ u.dev = s.dev
                 /\ Orders(s, u) \/ Replied(s, u) \/ Collected(s, u) \/ Expired(s, u)
    BY <1>4, StepGoes, Threads
  <2>2. u.phase = s.phase \/ (s.phase = "answer" /\ u.phase # "ack")
    BY <2>1 DEF Orders, Replied, Collected, Expired
  <2>3. v = u
    BY <2>1, Went, Threads
  <2>4. e = c
    BY <1>3, <2>2, <2>3
  <2>5. LineInv(thread["main"], c)'
    BY <1>2, <1>4, LineStep, Threads
  <2> QED BY <2>4, <2>5
<1>5. ASSUME NEW u, Goes("main", u), StateOK("main", u), u = v,
             AsksForList(s, u) \/ ReadsList(s, u) \/ ScanEnds(s, u) \/ Tries(s, u) \/ Greets(s, u)
             \/ Leaves(s, u) \/ Acknowledged(s, u) \/ AsksIp(s, u)
      PROVE  LineInv(u, e)'
  <2>0. NoAir => NoAir'
    BY <1>2 DEF NoAir
  <2>1. CASE AsksForList(s, u)
    <3>1. Quiet
      BY <1>2, <2>1 DEF AsksForList, AtRest, LineInv, RestInv
    <3>2. PICK x : x = ToModem("ATND", NULL)
      OBVIOUS
    <3>3. tx' = <<x>> /\ Len(<<x>>) = 1 /\ <<x>>[1] = x /\ x.op = "ATND" /\ rx' = <<>> /\ NoAir'
      BY <2>0, <2>1, <3>1, <3>2 DEF AsksForList, Quiet, ToModem
    <3>4. u.phase = "list" /\ ~ u.waiting
      BY <1>5, <2>1 DEF AsksForList, StateOK, Ordering
    <3>5. ListInv(u)'
      BY <3>3, <3>4 DEF ListInv
    <3> QED BY <3>4, <3>5 DEF LineInv, WaitInv, RestInv, DestInv, TalkInv
  <2>2. CASE ReadsList(s, u)
    <3>1. ListInv(s) /\ s.phase = "list" /\ rx # <<>> /\ rx' = Tail(rx) /\ UNCHANGED tx
      BY <1>2, <2>2 DEF ReadsList, LineInv
    <3>5. PICK r : r = s
      OBVIOUS
    <3>2. (Head(rx).unit = "end of list" => Quiet') /\ ListInv(r)'
      <4>1. ListInv(r) /\ r.phase = "list"
        BY <3>1, <3>5
      <4> HIDE DEF s
      <4> QED BY <1>2, <3>1, <4>1, ReadsQuietly
    <3>3. CASE Head(rx).unit = "end of list"
      <4>1. u.phase = "next" /\ ~ u.waiting
        BY <2>2, <3>3 DEF ReadsList
      <4> QED BY <3>2, <3>3, <4>1, RestsQuietly
    <3>4. CASE Head(rx).unit # "end of list"
      <4>1. u = s /\ ~ u.waiting
        BY <1>5, <2>2, <3>1, <3>4 DEF ReadsList, StateOK, Ordering
      <4>2. ListInv(u)'
        BY <3>2, <3>5, <4>1
      <4>3. u.phase = "list"
        BY <3>1, <4>1
      <4> QED BY <4>1, <4>2, <4>3 DEF LineInv, WaitInv, RestInv, DestInv, TalkInv
    <3> QED BY <3>3, <3>4
  <2>3. CASE ScanEnds(s, u)
    <3>1. Quiet' /\ u.phase = "done" /\ ~ u.waiting
      BY <1>2, <1>5, <2>0, <2>3 DEF ScanEnds, AtRest, LineInv, RestInv, Quiet, StateOK, Ordering
    <3> QED BY <3>1, RestsQuietly
  <2>4. CASE Tries(s, u)
    <3>1. Quiet' /\ Begins(u, "connect")
      BY <1>2, <2>0, <2>4 DEF Tries, AtRest, LineInv, RestInv, Quiet
    <3> QED BY <1>5, <3>1, LineBegins
  <2>5. CASE Greets(s, u)
    <3>1. e = SYN
      BY <1>5, <2>5 DEF Greets
    <3> HIDE DEF s
    <3> QED BY <1>2, <1>5, <2>5, <3>1, LineSpeaks, Threads DEF Greets
  <2>6. CASE AsksIp(s, u)
    <3>1. e = DES
      BY <1>5, <2>6 DEF AsksIp
    <3> HIDE DEF s
    <3> QED BY <1>2, <1>5, <2>6, <3>1, LineSpeaks, Threads DEF AsksIp
  <2>7. ASSUME s.phase = "ack", rx # <<>>, UNCHANGED tx
        PROVE  IsAck(Head(rx)) /\ dl = s.dev /\ (rx' = Tail(rx) => Quiet')
    <3>1. Exchange(<<>>, s.dev, SYN) /\ dl = s.dev
      BY <1>2, <1>3, <2>7 DEF LineInv, TalkInv, DestInv
    <3>2. PICK o, d : d = s.dev /\ o = out[d]
      OBVIOUS
    <3>3. d \in Dev /\ o \in Seq(Answer) /\ rx \in Seq(Unit) /\ <<>> \o rx = rx
      BY <1>2, <2>7, <3>2 DEF StateOK, Meant, TypeInv, LineOK
    <3>4. tx = <<>> /\ air[d] = <<>> /\ Units(rx, o) /\ Part(rx, d, SYN) /\ Elsewhere(d)
      BY <2>7, <3>1, <3>2, <3>3 DEF Exchange
    <3>5. /\ Head(rx) = rx[1] /\ 1 \in 1 .. Len(rx) /\ Len(rx) \in Nat \ {0} /\ Len(o) \in Nat
      BY <2>7, <3>3, Shorter, NoElement
    <3>6. rx[1].unit = "answer" /\ rx[1].cmd = SYN /\ rx[1].part = "none"
      BY <3>4, <3>5 DEF Part
    <3>7. Len(rx) + Len(o) <= 1
      BY <3>3, <3>4, <3>5, <3>6, <2>7 DEF Units
    <3>8. Len(rx) = 1 /\ Len(o) = 0
      <4>1. \A n \in Nat \ {0}, m \in Nat : n + m <= 1 => n = 1 /\ m = 0
        OBVIOUS
      <4> QED BY <3>5, <3>7, <4>1
    <3>9. o = <<>> /\ Tail(rx) = <<>>
      BY <3>3, <3>8, NoElement, OneElement
    <3>10. NoAir
      BY <3>2, <3>4, <3>9 DEF NoAir, Elsewhere
    <3> QED BY <2>0, <2>7, <3>1, <3>4, <3>5, <3>6, <3>9, <3>10 DEF IsAck, Quiet
  <2>8. CASE Acknowledged(s, u)
    <3>1. Quiet' /\ dl = u.dev /\ u.phase = "ip" /\ ~ u.waiting
      BY <1>5, <2>7, <2>8 DEF Acknowledged, StateOK, Ordering
    <3>2. DestInv(u)'
      BY <1>2, <3>1 DEF DestInv
    <3> QED BY <3>1, <3>2 DEF LineInv, WaitInv, RestInv, ListInv, TalkInv
  <2>9. CASE Leaves(s, u)
    <3>1. Quiet
      <4>1. CASE AtRest(s, "connect") \/ s.phase \in {"completed", "timeout"}
        BY <1>2, <4>1 DEF AtRest, LineInv, RestInv, StateOK, Ordering
      <4>2. CASE s.phase = "ack" /\ TimedOut
        BY <4>2, NothingUnderWay
      <4>3. CASE s.phase = "ack" /\ rx # <<>> /\ ~ IsAck(Head(rx))
        BY <2>7, <2>9, <4>3 DEF Leaves
      <4> QED BY <2>9, <4>1, <4>2, <4>3 DEF Leaves
    <3>2. tx' = <<>> /\ rx' = <<>>
      <4>1. tx' = <<>> /\ (rx' = rx \/ rx' = <<>> \/ rx # <<>>)
        BY <2>9, <3>1 DEF Leaves, Quiet
      <4> QED BY <2>9, <3>1, <4>1 DEF Quiet, Leaves
    <3>3. Quiet'
      BY <2>0, <3>1, <3>2 DEF Quiet
    <3>4. u.phase = "next" /\ ~ u.waiting
      BY <2>9 DEF Leaves
    <3> QED BY <3>3, <3>4, RestsQuietly
  <2> QED BY <1>5, <2>1, <2>2, <2>3, <2>4, <2>5, <2>6, <2>8, <2>9
<1>6. CASE \E u : /\ Goes("main", u) /\ StateOK("main", u)
                  /\ (\/ AsksForList(s, u) \/ ReadsList(s, u) \/ ScanEnds(s, u) \/ Tries(s, u)
                      \/ Greets(s, u) \/ Leaves(s, u) \/ Acknowledged(s, u) \/ AsksIp(s, u))
  <2>1. PICK u : /\ Goes("main", u) /\ StateOK("main", u)
                 /\ (\/ AsksForList(s, u) \/ ReadsList(s, u) \/ ScanEnds(s, u) \/ Tries(s, u)
                     \/ Greets(s, u) \/ Leaves(s, u) \/ Acknowledged(s, u) \/ AsksIp(s, u))
    BY <1>6
  <2>2. v = u
    BY <2>1, Went, Threads
  <2>3. LineInv(u, e)'
    BY <1>5, <2>1, <2>2
  <2> QED BY <2>2, <2>3
<1> QED BY <1>4, <1>6, MainGoes

----------------------------------------------------------------------------
\* RightDevice.

\* While one thread uses the line the other does nothing, and stays so.
LEMMA OneThread ==
    ASSUME TypeInv
    PROVE  /\ ListenerWaits => ~ Listener
           /\ MainDone => ~ Main
<1>1. ASSUME ListenerWaits, Listener PROVE FALSE
  <2> DEFINE s == thread["listener"]
  <2>1. s.phase = "recv" /\ calls = <<>> /\ StateOK("listener", s)
    BY <1>1, ThreadIsOK, Threads DEF ListenerWaits
  <2>2. s.todo = <<>> /\ ~ s.waiting
    BY <2>1 DEF StateOK, Ordering
  <2>3. ~ Step("listener")
    BY <2>1, <2>2 DEF Step, WriteOrder, ReadReply, Collect, CollectTimeout, Idle
  <2> QED BY <1>1, <2>1, <2>3 DEF Listener, TakeCall, SendCall, SendAnswer, Disconnected, Idle, Answered
<1>2. ASSUME MainDone, Main PROVE FALSE
  <2> DEFINE s == thread["main"]
  <2>1. s.phase = "done" /\ StateOK("main", s)
    BY <1>2, ThreadIsOK, Threads DEF MainDone
  <2>2. s.todo = <<>> /\ ~ s.waiting
    BY <2>1 DEF StateOK, Ordering
  <2>3. ~ Step("main")
    BY <2>1, <2>2 DEF Step, WriteOrder, ReadReply, Collect, CollectTimeout, Idle
  <2> QED BY <1>2, <2>1, <2>3 DEF Main, AskForList, ReadList, NextDevice, SendSyn, ReadAck, AskIp,
                                  Register, Idle, Answered
<1> QED BY <1>1, <1>2

LEMMA OthersStay ==
    /\ TypeInv /\ Main => UNCHANGED <<calls, given>> /\ thread'["listener"] = thread["listener"]
    /\ TypeInv /\ Listener => UNCHANGED given /\ thread'["main"] = thread["main"]
<1>1. ASSUME TypeInv, NEW t \in Thread, Step(t), NEW r \in Thread, r # t
      PROVE  thread'[r] = thread[r] /\ UNCHANGED <<calls, given>>
  BY <1>1, StepGoes, Went DEF manager, history
<1>2. ASSUME TypeInv, Main PROVE UNCHANGED <<calls, given>> /\ thread'["listener"] = thread["listener"]
  BY <1>1, <1>2, MainGoes, Went, Threads
<1>3. ASSUME TypeInv, Listener PROVE UNCHANGED given /\ thread'["main"] = thread["main"]
  BY <1>1, <1>3, ListenerGoes, Went, Threads DEF Unknown
<1> QED BY <1>2, <1>3

LEMMA NoCallsComes ==
    ASSUME TypeInv, Environment, given.calls = 0
    PROVE  UNCHANGED calls
<1>1. ASSUME NEW a \in 0 .. Cardinality(Dev) - 1, ManagerCalls(a) PROVE FALSE
  <2>1. Len(asked) \in Nat /\ Len(calls) \in Nat
    BY DEF TypeInv, ManagerOK
  <2>2. Len(asked) + Len(calls) < 0
    BY <1>1 DEF ManagerCalls, MaxCalls
  <2>3. \A n, m \in Nat : ~ (n + m < 0)
    OBVIOUS
  <2> QED BY <2>1, <2>2, <2>3
<1>2. \/ ModemReads \/ ModemLeaves
      \/ \E d \in Dev : DeviceHears(d) \/ RadioDelivers(d)
  BY <1>1 DEF Environment
<1> QED BY <1>2 DEF ModemReads, ModemLeaves, DeviceHears, RadioDelivers, manager

LEMMA SerialEnvironment ==
    ASSUME TypeInv, Environment, ~ Refuses, NEW t \in Thread, SerialInv(t)
    PROVE  SerialInv(t)'
<1>1. PICK u, c : u = thread[t] /\ c = CommandOf(t)
  OBVIOUS
<1>2. UNCHANGED <<thread, open>>
  BY EnvironmentKeeps DEF broker, history
<1>3. StateOK(t, u) /\ LineInv(u, c)
  BY <1>1, ThreadIsOK DEF SerialInv
<1>4. c \in Command
  <2>1. open \in Nat
    BY DEF TypeInv, ManagerOK
  <2> QED BY <1>1, <2>1 DEF CommandOf, Command, Call
<1>5. LineInv(u, c)'
  BY <1>3, <1>4, LineEnvironment
<1>6. thread'[t] = u /\ CommandOf(t)' = c
  BY <1>1, <1>2 DEF CommandOf
<1> QED BY <1>5, <1>6 DEF SerialInv

LEMMA SerialStays ==
    ASSUME UNCHANGED vars, NEW t, SerialInv(t)
    PROVE  SerialInv(t)'
<1>1. PICK u, c : u = thread[t] /\ c = CommandOf(t)
  OBVIOUS
<1>2. UNCHANGED <<tx, rx, dl, air, out, thread, open>>
  BY DEF vars, broker, radio, modem, history
<1>3. LineInv(u, c)
  BY <1>1 DEF SerialInv
<1>4. LineInv(u, c)'
  BY <1>2, <1>3, StaysSo
<1>5. thread'[t] = u /\ CommandOf(t)' = c
  BY <1>1, <1>2 DEF CommandOf
<1> QED BY <1>4, <1>5 DEF SerialInv

LEMMA LineInit == Init => ScanInv /\ ServeInv
<1> SUFFICES ASSUME Init PROVE ScanInv /\ ServeInv
  OBVIOUS
<1>1. /\ tx = <<>> /\ rx = <<>> /\ air = [d \in Dev |-> <<>>] /\ out = [d \in Dev |-> <<>>] /\ calls = <<>>
      /\ given \in Condition
  BY ConditionsAssumption DEF Init, InitScanning, InitServing, InitLine, Condition
<1>2. Quiet
  BY <1>1 DEF Quiet, NoAir
<1>3. ASSUME NEW u, NEW c, ~ u.waiting, u.phase \in {"scan", "recv"} PROVE LineInv(u, c)
  BY <1>2, <1>3 DEF LineInv, WaitInv, RestInv, DestInv, ListInv, TalkInv
<1>4. ASSUME NEW p, NEW q PROVE Fresh(p, NULL, q).phase = p /\ Fresh(p, NULL, q).waiting = FALSE
  BY DEF Fresh
<1>7. ASSUME NEW t, NEW p \in {"scan", "recv"}, NEW q, thread[t] = Fresh(p, NULL, q) PROVE SerialInv(t)
  <2>2. PICK u : u = thread[t]
    OBVIOUS
  <2>3. u.waiting = FALSE /\ u.phase = p
    BY <1>7, <2>2 DEF Fresh
  <2>1. u = thread[t] /\ ~ u.waiting /\ u.phase \in {"scan", "recv"}
    BY <2>2, <2>3
  <2> QED BY <1>3, <2>1 DEF SerialInv
<1>5. CASE InitScanning
  <2>1. PICK q : q = <<ToModem("+++", NULL)>>
    OBVIOUS
  <2>2. /\ given.scan /\ thread["main"] = Fresh("scan", NULL, q)
        /\ thread["listener"] = Fresh("recv", NULL, <<>>)
    BY <1>5, <2>1, Threads DEF InitScanning
  <2>3. SerialInv("main")
    BY <1>7, <2>2
  <2>4. Alone => ListenerWaits
    BY <1>1, <1>4, <2>2 DEF Alone, ListenerWaits, MaxCalls
  <2> QED BY <2>2, <2>3, <2>4 DEF ScanInv, ServeInv
<1>6. CASE InitServing
  <2>1. /\ ~ given.scan /\ thread["main"] = Fresh("done", NULL, <<>>)
        /\ thread["listener"] = Fresh("recv", NULL, <<>>)
    BY <1>6, Threads DEF InitServing
  <2>2. SerialInv("listener")
    BY <1>7, <2>1
  <2>3. MainDone
    BY <1>4, <2>1 DEF MainDone
  <2> QED BY <2>1, <2>2, <2>3 DEF ScanInv, ServeInv
<1> QED BY <1>5, <1>6 DEF Init

LEMMA ScanNext == TypeInv /\ ScanInv /\ [Next]_vars => ScanInv'
<1> SUFFICES ASSUME TypeInv, ScanInv, [Next]_vars PROVE ScanInv'
  OBVIOUS
<1>1. UNCHANGED given
  BY OthersStay, EnvironmentKeeps DEF Next, vars, history
<1> SUFFICES ASSUME Alone, given.scan PROVE ListenerWaits' /\ (Serial => SerialInv("main")')
  BY <1>1 DEF ScanInv, Alone, MaxCalls, Serial, Late, Refuses
<1>2. ListenerWaits /\ (Serial => SerialInv("main"))
  BY DEF ScanInv
<1>3. CASE Listener
  BY <1>2, <1>3, OneThread
<1>4. CASE Main
  <2>1. ListenerWaits'
    BY <1>1, <1>2, <1>4, OthersStay DEF ListenerWaits
  <2> QED BY <1>2, <1>4, <2>1, LineMain DEF Serial
<1>5. CASE Environment
  <2>1. ListenerWaits'
    BY <1>1, <1>2, <1>5, NoCallsComes, EnvironmentKeeps DEF ListenerWaits, broker
  <2> QED BY <1>2, <1>5, <2>1, SerialEnvironment, Threads DEF Serial
<1>6. CASE UNCHANGED vars
  <2>1. ListenerWaits'
    BY <1>1, <1>2, <1>6 DEF ListenerWaits, vars, broker, manager
  <2> QED BY <1>2, <1>6, <2>1, SerialStays
<1> QED BY <1>3, <1>4, <1>5, <1>6 DEF Next

LEMMA ServeNext == TypeInv /\ ServeInv /\ [Next]_vars => ServeInv'
<1> SUFFICES ASSUME TypeInv, ServeInv, [Next]_vars PROVE ServeInv'
  OBVIOUS
<1>1. UNCHANGED given
  BY OthersStay, EnvironmentKeeps DEF Next, vars, history
<1> SUFFICES ASSUME ~ given.scan PROVE MainDone' /\ (Serial => SerialInv("listener")')
  BY <1>1 DEF ServeInv, Serial, Late, Refuses
<1>2. MainDone /\ (Serial => SerialInv("listener"))
  BY DEF ServeInv
<1>3. CASE Main
  BY <1>2, <1>3, OneThread
<1>4. CASE Listener
  <2>1. MainDone'
    BY <1>2, <1>4, OthersStay DEF MainDone
  <2> QED BY <1>2, <1>4, <2>1, LineListener DEF Serial
<1>5. CASE Environment
  <2>1. MainDone'
    BY <1>2, <1>5, EnvironmentKeeps DEF MainDone, broker
  <2> QED BY <1>2, <1>5, <2>1, SerialEnvironment, Threads DEF Serial
<1>6. CASE UNCHANGED vars
  <2>1. MainDone'
    BY <1>2, <1>6 DEF MainDone, vars, broker
  <2> QED BY <1>2, <1>6, <2>1, SerialStays
<1> QED BY <1>3, <1>4, <1>5, <1>6 DEF Next

LEMMA HeardIsMeant ==
    ASSUME TypeInv, NEW t \in Thread, SerialInv(t), NEW d \in Dev, NEW k \in 1 .. Len(air[d])
    PROVE  air[d][k].dev = d
<1>1. PICK u, c : u = thread[t] /\ c = CommandOf(t) /\ LineInv(u, c) /\ StateOK(t, u)
  BY ThreadIsOK DEF SerialInv
<1>2. air[d] # <<>>
  <2>1. Len(<<>>) = 0
    OBVIOUS
  <2> QED BY <2>1
<1>3. ~ NoAir
  BY <1>2 DEF NoAir
<1>4. u.phase \in {"ack", "answer"}
  BY <1>1, <1>3 DEF LineInv, WaitInv, RestInv, ListInv, Quiet
<1>5. Exchange(u.buf, u.dev, c)
  BY <1>1, <1>4 DEF LineInv, TalkInv
<1>6. d = u.dev /\ Only(air[d], d, c)
  <2>1. d = u.dev
    BY <1>2, <1>5 DEF Exchange, Elsewhere
  <2> QED BY <1>2, <1>5, <2>1 DEF Exchange
<1>7. k = 1
  BY <1>6 DEF Only
<1> QED BY <1>6, <1>7 DEF Only

\* One thread uses the modem at a time, waits for the reply to each order, and
\* what is on the line is what it waits for: so the third reply of a connection
\* tells that the modem took the destination, and the command that follows it
\* reaches that device or none.
THEOREM CommandsReachTheirDevice == Spec => []RightDevice
<1>1. TypeInv /\ ScanInv /\ ServeInv => RightDevice
  <2> SUFFICES ASSUME TypeInv, ScanInv, ServeInv, Alone, ~ Late, ~ Refuses, NEW d \in Dev, NEW k \in 1 .. Len(air[d])
               PROVE  air[d][k].dev = d
    BY DEF RightDevice
  <2>1. \E t \in Thread : SerialInv(t)
    BY Threads DEF ScanInv, ServeInv, Serial
  <2> QED BY <2>1, HeardIsMeant
<1> QED BY <1>1, TypeInit, TypeStep, LineInit, ScanNext, ServeNext, PTL DEF Spec

----------------------------------------------------------------------------
\* OwnDescription.

\* What is found is found once: q is the line, f what was read of the list.
Listing(q, f) ==
    /\ \A j, k \in 1 .. Len(f) : f[j] = f[k] => j = k
    /\ \A j \in 1 .. Len(q) : IsListed(q[j]) =>
          /\ \A k \in 1 .. Len(f) : f[k] # q[j].dev
          /\ \A k \in 1 .. Len(q) : IsListed(q[k]) /\ q[j].dev = q[k].dev => j = k
FoundInv == \A u \in {thread["main"]} :
    /\ \A j, k \in 1 .. Len(found) : found[j] = found[k] => j = k
    /\ u.phase \in {"scan", "list"} => i = 1
    /\ u.phase = "scan" => found = <<>>
    /\ u.phase = "list" => (tx # <<>> => found = <<>>) /\ Listing(rx, found)

\* Each device has one entry, the one in turn its own from its acknowledgement
\* on; and those registered came before it.
OneEntry(table) == \A j, k \in Slot :
    table[j] # NULL /\ table[k] # NULL /\ table[j].addr = table[k].addr => j = k
HasEntry(table, a, d) == \E k \in Slot : table[k] # NULL /\ table[k].ip = a /\ table[k].addr = d
Kept == \A r \in registered :
    /\ \E j \in 1 .. Len(found) : j < i /\ r[2] = found[j]
    /\ HasEntry(xbee_at_devices, r[1], r[2])
InTurn(u) ==
    /\ u.phase \in Meant => i \in 1 .. Len(found) /\ u.dev = found[i]
    /\ u.phase = "ip" => is_XBee_at_device_exists(u.dev)
    /\ u.phase \in {"answer", "completed", "timeout"} => HasEntry(xbee_at_devices, ip, u.dev)
TableInv == OneEntry(xbee_at_devices) /\ Kept /\ \A u \in {thread["main"]} : InTurn(u)

LEMMA ListRead ==
    ASSUME NEW q \in Seq(Unit), q # <<>>, NEW f \in Seq(Dev), Listing(q, f),
           NEW g, g = IF Head(q).unit = "found" THEN Append(f, Head(q).dev) ELSE f
    PROVE  Listing(Tail(q), g)
<1> DEFINE r == Tail(q)
<1>1. /\ r \in Seq(Unit) /\ Head(q) \in Unit /\ Head(q) = q[1] /\ 1 \in 1 .. Len(q)
      /\ \A k \in 1 .. Len(r) : k + 1 \in 1 .. Len(q) /\ r[k] = q[k + 1]
  BY Shorter
<1>2. /\ \A j, k \in 1 .. Len(f) : f[j] = f[k] => j = k
      /\ \A j \in 1 .. Len(q) : IsListed(q[j]) => \A k \in 1 .. Len(f) : f[k] # q[j].dev
      /\ \A j, k \in 1 .. Len(q) : IsListed(q[j]) /\ IsListed(q[k]) /\ q[j].dev = q[k].dev => j = k
  BY DEF Listing
<1> HIDE DEF r
<1>3. \A j, k \in 1 .. Len(r) : IsListed(r[j]) /\ IsListed(r[k]) /\ r[j].dev = r[k].dev => j = k
  <2> SUFFICES ASSUME NEW j \in 1 .. Len(r), NEW k \in 1 .. Len(r), IsListed(r[j]), IsListed(r[k]),
                      r[j].dev = r[k].dev
               PROVE  j = k
    OBVIOUS
  <2>1. j + 1 \in 1 .. Len(q) /\ r[j] = q[j + 1] /\ k + 1 \in 1 .. Len(q) /\ r[k] = q[k + 1]
    BY <1>1
  <2>2. j + 1 = k + 1
    BY <1>2, <2>1
  <2> QED BY <2>2
<1>4. \A j \in 1 .. Len(r) : IsListed(r[j]) => \A k \in 1 .. Len(f) : f[k] # r[j].dev
  BY <1>1, <1>2
<1>5. CASE Head(q).unit # "found"
  <2>1. g = f
    BY <1>5
  <2> QED BY <1>2, <1>3, <1>4, <2>1 DEF Listing, r
<1>6. CASE Head(q).unit = "found"
  <2>1. PICK d : d = Head(q).dev
    OBVIOUS
  <2>2. d \in Dev /\ IsListed(q[1]) /\ q[1].dev = d
    BY <1>1, <1>6, <2>1, UnitKinds DEF IsListed
  <2>3. /\ Len(f) \in Nat /\ Len(g) = Len(f) + 1 /\ g[Len(f) + 1] = d
        /\ \A k \in 1 .. Len(f) : g[k] = f[k]
    BY <1>6, <2>1, <2>2, Longer
  <2>4. \A k \in 1 .. Len(f) : f[k] # d
    BY <1>1, <1>2, <2>2
  <2>5. \A j, k \in 1 .. Len(g) : g[j] = g[k] => j = k
    <3> SUFFICES ASSUME NEW j \in 1 .. Len(g), NEW k \in 1 .. Len(g), g[j] = g[k] PROVE j = k
      OBVIOUS
    <3>1. (j \in 1 .. Len(f) \/ j = Len(f) + 1) /\ (k \in 1 .. Len(f) \/ k = Len(f) + 1)
      BY <2>3
    <3> QED BY <1>2, <2>3, <2>4, <3>1
  <2>6. \A j \in 1 .. Len(r) : IsListed(r[j]) => r[j].dev # d
    <3> SUFFICES ASSUME NEW j \in 1 .. Len(r), IsListed(r[j]), r[j].dev = d PROVE FALSE
      OBVIOUS
    <3>1. j + 1 \in 1 .. Len(q) /\ r[j] = q[j + 1] /\ j + 1 # 1
      BY <1>1
    <3>2. j + 1 = 1
      BY <1>1, <1>2, <2>2, <3>1
    <3> QED BY <3>1, <3>2
  <2>7. \A j \in 1 .. Len(r) : IsListed(r[j]) => \A k \in 1 .. Len(g) : g[k] # r[j].dev
    <3> SUFFICES ASSUME NEW j \in 1 .. Len(r), IsListed(r[j]), NEW k \in 1 .. Len(g) PROVE g[k] # r[j].dev
      OBVIOUS
    <3>1. k \in 1 .. Len(f) \/ k = Len(f) + 1
      BY <2>3
    <3> QED BY <1>4, <2>3, <2>6, <3>1
  <2> QED BY <1>3, <2>5, <2>7 DEF Listing, r
<1> QED BY <1>5, <1>6

\* A table as long as there are devices has room for one that is not in it.
LEMMA RoomForOne ==
    ASSUME Cardinality(Dev) <= MAXDEVICECOUNT, TypeInv, NEW d \in Dev, ~ is_XBee_at_device_exists(d),
           \A j, k \in Slot : xbee_at_devices[j] # NULL /\ xbee_at_devices[k] # NULL
                                 /\ xbee_at_devices[j].addr = xbee_at_devices[k].addr => j = k
    PROVE  \E k \in Slot : xbee_at_devices[k] = NULL
<1> SUFFICES ASSUME \A k \in Slot : xbee_at_devices[k] # NULL PROVE FALSE
  OBVIOUS
<1>1. MAXDEVICECOUNT \in Nat /\ Cardinality(Dev) \in Nat
  BY LimitsAssumption, DevAssumption, FS_CardinalityType
<1>2. IsFiniteSet(Slot) /\ Cardinality(Slot) = MAXDEVICECOUNT
  <2>1. PICK m \in Int : m = MAXDEVICECOUNT - 1
    BY <1>1
  <2>2. 0 \in Int
    OBVIOUS
  <2>3. IsFiniteSet(0 .. m) /\ Cardinality(0 .. m) = IF 0 > m THEN 0 ELSE m - 0 + 1
    BY <2>2, FS_Interval, Zenon
  <2> QED BY <1>1, <2>1, <2>3 DEF Slot
<1>3. IsFiniteSet(Dev \ {d}) /\ Cardinality(Dev \ {d}) = Cardinality(Dev) - 1
  BY DevAssumption, FS_RemoveElement
<1> DEFINE f == [k \in Slot |-> xbee_at_devices[k].addr]
<1>4. f \in [Slot -> Dev \ {d}]
  <2> SUFFICES ASSUME NEW k \in Slot PROVE xbee_at_devices[k].addr \in Dev \ {d}
    OBVIOUS
  <2>1. xbee_at_devices[k] \in Entry
    BY DEF TypeInv, BrokerOK
  <2>2. xbee_at_devices[k].addr \in Dev
    BY <2>1 DEF Entry
  <2> QED BY <2>2 DEF is_XBee_at_device_exists, find_XBee_at_device_index
<1>5. Cardinality(Dev \ {d}) < Cardinality(Slot)
  BY <1>1, <1>2, <1>3
<1>6. \A j, k \in Slot : f[j] = f[k] => j = k
  OBVIOUS
<1> HIDE DEF f
<1>7. \E j, k \in Slot : j # k /\ f[j] = f[k]
  BY <1>2, <1>3, <1>4, <1>5, FS_PigeonHole
<1> QED BY <1>6, <1>7

\* add_new_XBee_at_device: the device has an entry, the others keep theirs.
LEMMA TableAdds ==
    ASSUME Cardinality(Dev) <= MAXDEVICECOUNT, TypeInv, NEW d \in Dev, OneEntry(xbee_at_devices),
           add_new_XBee_at_device(d), NEW after, after = xbee_at_devices'
    PROVE  /\ OneEntry(after) /\ \E k \in Slot : after[k] # NULL /\ after[k].addr = d
           /\ \A k \in Slot : xbee_at_devices[k] # NULL => after[k] = xbee_at_devices[k]
<1>1. CASE is_XBee_at_device_exists(d)
  <2>1. after = xbee_at_devices
    BY <1>1 DEF add_new_XBee_at_device
  <2>2. \E k \in Slot : xbee_at_devices[k] # NULL /\ xbee_at_devices[k].addr = d
    BY <1>1 DEF is_XBee_at_device_exists, find_XBee_at_device_index
  <2> QED BY <2>1, <2>2
<1>2. CASE ~ is_XBee_at_device_exists(d)
  <2>1. PICK free \in SUBSET Slot : free = {k \in Slot : xbee_at_devices[k] = NULL}
    OBVIOUS
  <2>2. free # {}
    BY <1>2, <2>1, RoomForOne DEF OneEntry
  <2>3. PICK s : s = First(free)
    OBVIOUS
  <2>4. s \in Slot /\ xbee_at_devices[s] = NULL
    BY <2>1, <2>2, <2>3, FirstIn
  <2>5. PICK e : e = [addr |-> d, ip |-> NULL]
    OBVIOUS
  <2>6. e \in Entry /\ e.addr = d /\ e # NULL
    <3>1. e \in [addr : Dev, ip : Nat \cup {NULL}] /\ e.addr = d
      BY <2>5
    <3> QED BY <3>1, NullAssumption DEF Entry
  <2>7. after = [xbee_at_devices EXCEPT ![s] = e]
    BY <1>2, <2>1, <2>2, <2>3, <2>5 DEF add_new_XBee_at_device
  <2>8. \A k \in Slot : after[k] = IF k = s THEN e ELSE xbee_at_devices[k]
    BY <2>7 DEF TypeInv, BrokerOK
  <2>9. \A k \in Slot : xbee_at_devices[k] # NULL => xbee_at_devices[k].addr # d
    BY <1>2 DEF is_XBee_at_device_exists, find_XBee_at_device_index
  <2> QED BY <2>4, <2>6, <2>8, <2>9 DEF OneEntry
<1> QED BY <1>1, <1>2

\* update_XBee_at_iot_ip: the device's entry gets its address.
LEMMA TableUpdates ==
    ASSUME TypeInv, NEW d \in Dev, NEW a \in Nat \cup {NULL}, OneEntry(xbee_at_devices), is_XBee_at_device_exists(d),
           update_XBee_at_iot_ip(d, a), NEW after, after = xbee_at_devices'
    PROVE  /\ OneEntry(after) /\ HasEntry(after, a, d)
           /\ \A k \in Slot : xbee_at_devices[k] # NULL /\ xbee_at_devices[k].addr # d => after[k] = xbee_at_devices[k]
<1>1. PICK at \in SUBSET Slot : at = find_XBee_at_device_index(d)
  BY DEF find_XBee_at_device_index
<1>2. PICK s : s = First(at)
  OBVIOUS
<1>3. at # {} /\ s \in Slot /\ xbee_at_devices[s] # NULL /\ xbee_at_devices[s].addr = d
  <2>1. at # {}
    BY <1>1 DEF is_XBee_at_device_exists
  <2>2. s \in at
    BY <1>2, <2>1, FirstIn
  <2> QED BY <1>1, <2>1, <2>2 DEF find_XBee_at_device_index
<1>4. PICK e : e = [xbee_at_devices[s] EXCEPT !.ip = a]
  OBVIOUS
<1>5. e \in Entry /\ e.addr = d /\ e.ip = a
  <2>1. xbee_at_devices[s] \in Entry
    BY <1>3 DEF TypeInv, BrokerOK
  <2> QED BY <1>3, <1>4, <2>1 DEF Entry
<1>6. e # NULL
  BY <1>5, NullAssumption DEF Entry
<1>7. after = [xbee_at_devices EXCEPT ![s] = e]
  BY <1>1, <1>2, <1>3, <1>4 DEF update_XBee_at_iot_ip
<1>8. \A k \in Slot : after[k] = IF k = s THEN e ELSE xbee_at_devices[k]
  BY <1>7 DEF TypeInv, BrokerOK
<1> QED BY <1>3, <1>5, <1>6, <1>8 DEF OneEntry, HasEntry

\* The modem lists each device once, when nothing was read of a list yet.
LEMMA FoundEnvironment ==
    ASSUME TypeInv, Environment, FoundInv, SerialInv("main")
    PROVE  FoundInv'
<1>1. UNCHANGED <<thread, found, i>>
  BY EnvironmentKeeps DEF broker
<1>2. PICK u : u = thread["main"]
  OBVIOUS
<1>3. CASE u.phase # "list"
  BY <1>1, <1>2, <1>3 DEF FoundInv
<1>4. CASE u.phase = "list"
  <2>1. ListInv(u) /\ (tx # <<>> => found = <<>>) /\ Listing(rx, found)
    BY <1>2, <1>4 DEF FoundInv, SerialInv, LineInv
  <2>2. NoAir
    BY <1>4, <2>1 DEF ListInv
  <2>3. UNCHANGED <<tx, rx>> \/ ModemReads
    BY <2>2, Steps, NothingHeard
  <2>4. CASE UNCHANGED <<tx, rx>>
    BY <1>1, <1>2, <2>4 DEF FoundInv, Listing, IsListed
  <2>5. CASE ModemReads
    <3>1. PICK x : /\ x = Head(tx) /\ tx # <<>> /\ tx' = Tail(tx) /\ UNCHANGED out
                   /\ \/ Half(x) \/ Exits(x) \/ Enters(x) \/ Lists(x) \/ Refused(x) \/ Ignored(x) \/ Forwarded(x)
      BY <2>5, ModemDoes
    <3>2. tx \in Seq(Order \cup Data) /\ rx \in Seq(Unit) /\ Len(tx) = 1 /\ tx[1].op = "ATND" /\ rx = <<>>
          /\ found = <<>>
      BY <1>4, <2>1, <3>1 DEF ListInv, TypeInv, LineOK
    <3>3. x = tx[1] /\ tx' = <<>>
      BY <3>1, <3>2, OneElement
    <3>4. Lists(x) \/ UNCHANGED rx
      BY <3>1, <3>2, <3>3 DEF Half, Exits, Enters, Refused, Ignored, Forwarded
    <3>5. PICK l : l = rx'
      OBVIOUS
    <3>6. Listing(l, <<>>)
      <4>1. CASE UNCHANGED rx
        BY <2>1, <3>2, <3>5, <4>1
      <4>2. CASE Lists(x)
        <5>1. PICK S \in SUBSET Dev, f \in [1 .. Cardinality(Dev) -> Dev] :
                 /\ {f[k] : k \in 1 .. Cardinality(S)} = S
                 /\ rx' = rx \o (ListOf(S, f) \o <<U("end of list")>>)
          BY <4>2 DEF Lists
        <5>2. PICK q : q = ListOf(S, f) \o <<U("end of list")>>
          OBVIOUS
        <5>3. /\ q \in Seq(Unit)
              /\ \A j, k \in 1 .. Len(q) : IsListed(q[j]) /\ IsListed(q[k]) /\ q[j].dev = q[k].dev => j = k
          BY <5>1, <5>2, ListUnits
        <5>4. l = q
          <6>1. rx' = rx \o q
            BY <5>1, <5>2
          <6>2. <<>> \o q = q
            BY <5>3
          <6> QED BY <3>2, <3>5, <6>1, <6>2
        <5> QED BY <5>3, <5>4 DEF Listing
      <4> QED BY <3>4, <4>1, <4>2
    <3>7. Listing(rx', found')
      BY <1>1, <3>2, <3>5, <3>6
    <3> QED BY <1>1, <1>2, <1>4, <3>2, <3>3, <3>7 DEF FoundInv, Listing, IsListed
  <2> QED BY <2>3, <2>4, <2>5
<1> QED BY <1>3, <1>4

LEMMA FoundMain ==
    ASSUME TypeInv, Main, FoundInv, SerialInv("main")
    PROVE  FoundInv'
<1> DEFINE s == thread["main"]
<1>1. /\ \A j, k \in 1 .. Len(found) : found[j] = found[k] => j = k
      /\ s.phase \in {"scan", "list"} => i = 1
      /\ s.phase = "scan" => found = <<>>
      /\ s.phase = "list" => (tx # <<>> => found = <<>>) /\ Listing(rx, found)
      /\ StateOK("main", s)
  BY ThreadIsOK, Threads DEF FoundInv
<1>2. PICK v : v = thread'["main"]
  OBVIOUS
<1>3. ASSUME UNCHANGED found, v.phase \notin {"scan", "list"} PROVE FoundInv'
  BY <1>1, <1>2, <1>3 DEF FoundInv
<1>4. CASE Step("main")
  <2>1. UNCHANGED <<found, i>> /\ (v.phase = s.phase \/ v.phase \in {"completed", "timeout"}) /\ s.phase # "list"
    <3>1. PICK u : /\ Goes("main", u) /\ StateOK("main", u)
                   /\ Orders(s, u) \/ Replied(s, u) \/ Collected(s, u) \/ Expired(s, u)
      BY <1>4, StepGoes, Threads
    <3>2. v = u
      BY <1>2, <3>1, Went, Threads
    <3> QED BY <1>1, <1>4, <3>1, <3>2, StepGoes, Threads DEF Orders, Replied, Collected, Expired, StateOK, Ordering
  <2> QED BY <1>1, <1>2, <2>1 DEF FoundInv
<1>5. ASSUME NEW u, Goes("main", u), StateOK("main", u), u = v,
             AsksForList(s, u) \/ ReadsList(s, u) \/ ScanEnds(s, u) \/ Tries(s, u) \/ Greets(s, u)
             \/ Leaves(s, u) \/ Acknowledged(s, u) \/ AsksIp(s, u)
      PROVE  FoundInv'
  <2>1. CASE AsksForList(s, u)
    <3>1. u.phase = "list" /\ found = <<>> /\ i = 1 /\ UNCHANGED <<found, i, rx>> /\ Quiet
      BY <1>1, <2>1 DEF AsksForList, AtRest, SerialInv, LineInv, RestInv
    <3>2. rx' = <<>>
      BY <3>1 DEF Quiet
    <3>3. Listing(<<>>, <<>>)
      BY DEF Listing
    <3>4. Listing(rx', found')
      BY <3>1, <3>2, <3>3
    <3> QED BY <1>1, <1>2, <1>5, <3>1, <3>4 DEF FoundInv, Listing, IsListed
  <2>2. CASE ReadsList(s, u)
    <3>1. /\ s.phase = "list" /\ rx # <<>> /\ rx' = Tail(rx) /\ UNCHANGED <<i, tx>>
          /\ found' = IF Head(rx).unit = "found" THEN Append(found, Head(rx).dev) ELSE found
          /\ u.phase = "next" \/ u = s
      BY <2>2 DEF ReadsList
    <3>2. ListInv(s)
      BY <3>1 DEF SerialInv, LineInv
    <3>3. tx = <<>>
      BY <3>1, <3>2 DEF ListInv
    <3>4. PICK q, f, r, g : q = rx /\ f = found /\ r = rx' /\ g = found'
      OBVIOUS
    <3>5. Listing(r, g)
      <4>1. /\ q \in Seq(Unit) /\ q # <<>> /\ f \in Seq(Dev) /\ Listing(q, f) /\ r = Tail(q)
            /\ g = IF Head(q).unit = "found" THEN Append(f, Head(q).dev) ELSE f
        BY <1>1, <3>1, <3>4 DEF TypeInv, LineOK, BrokerOK
      <4> QED BY <4>1, ListRead
    <3>6. /\ \A j, k \in 1 .. Len(found') : found'[j] = found'[k] => j = k
          /\ Listing(rx', found') /\ i' = 1 /\ tx' = <<>>
      <4>1. \A j, k \in 1 .. Len(g) : g[j] = g[k] => j = k
        BY <3>5 DEF Listing
      <4>2. i' = 1 /\ tx' = <<>>
        BY <1>1, <3>1, <3>3
      <4> QED BY <3>4, <3>5, <4>1, <4>2
    <3>7. u.phase # "scan"
      BY <3>1
    <3> QED BY <1>2, <1>5, <3>6, <3>7 DEF FoundInv, Listing, IsListed
  <2>3. CASE ~ AsksForList(s, u) /\ ~ ReadsList(s, u)
    <3>1. UNCHANGED found /\ u.phase \notin {"scan", "list"}
      BY <1>5, <2>3 DEF ScanEnds, Tries, Greets, Leaves, Acknowledged, AsksIp, Begins
    <3> QED BY <1>3, <1>5, <3>1
  <2> QED BY <2>1, <2>2, <2>3
<1>6. CASE \E u : /\ Goes("main", u) /\ StateOK("main", u)
                  /\ (\/ AsksForList(s, u) \/ ReadsList(s, u) \/ ScanEnds(s, u) \/ Tries(s, u)
                      \/ Greets(s, u) \/ Leaves(s, u) \/ Acknowledged(s, u) \/ AsksIp(s, u))
  <2>1. PICK u : /\ Goes("main", u) /\ StateOK("main", u)
                 /\ (\/ AsksForList(s, u) \/ ReadsList(s, u) \/ ScanEnds(s, u) \/ Tries(s, u)
                     \/ Greets(s, u) \/ Leaves(s, u) \/ Acknowledged(s, u) \/ AsksIp(s, u))
    BY <1>6
  <2>2. v = u
    BY <1>2, <2>1, Went, Threads
  <2> QED BY <1>5, <2>1, <2>2
<1> QED BY <1>4, <1>6, MainGoes

LEMMA TableMain ==
    ASSUME Cardinality(Dev) <= MAXDEVICECOUNT, TypeInv, Main, FoundInv, TableInv, SerialInv("main")
    PROVE  TableInv'
<1> DEFINE s == thread["main"]
<1>1. /\ OneEntry(xbee_at_devices) /\ Kept /\ InTurn(s) /\ StateOK("main", s)
      /\ i \in Nat /\ Len(found) \in Nat /\ found \in Seq(Dev) /\ ip_count \in Nat
      /\ s.phase \in Meant => s.dev \in Dev
      /\ \A j, k \in 1 .. Len(found) : found[j] = found[k] => j = k
  BY ThreadIsOK, Threads DEF TableInv, FoundInv, TypeInv, BrokerOK, ManagerOK, StateOK
<1>2. PICK v : v = thread'["main"]
  OBVIOUS
<1>3. ASSUME UNCHANGED <<xbee_at_devices, found, registered>>, i' = i \/ i' = i + 1
      PROVE  OneEntry(xbee_at_devices)' /\ Kept'
  <2>1. \A j \in Nat : j < i => j < i'
    BY <1>1, <1>3
  <2>2. \A j \in 1 .. Len(found) : j \in Nat
    OBVIOUS
  <2> QED BY <1>1, <1>3, <2>1, <2>2 DEF Kept, OneEntry, HasEntry
<1>4. ASSUME OneEntry(xbee_at_devices)', Kept', InTurn(v)' PROVE TableInv'
  BY <1>2, <1>4 DEF TableInv
<1>5. CASE Step("main")
  <2>1. PICK u : /\ Goes("main", u) /\ StateOK("main", u) /\ u.dev = s.dev
                 /\ Orders(s, u) \/ Replied(s, u) \/ Collected(s, u) \/ Expired(s, u)
    BY <1>5, StepGoes, Threads
  <2>2. UNCHANGED <<xbee_at_devices, found, i, ip, registered>>
    BY <1>5, StepGoes, Threads DEF manager
  <2>3. v = u
    BY <1>2, <2>1, Went, Threads
  <2>4. u.phase = s.phase \/ (s.phase = "answer" /\ u.phase \in {"completed", "timeout"})
    BY <2>1 DEF Orders, Replied, Collected, Expired
  <2>5. InTurn(v)'
    BY <1>1, <2>1, <2>2, <2>3, <2>4 DEF InTurn, Meant, HasEntry, is_XBee_at_device_exists, find_XBee_at_device_index
  <2> QED BY <1>3, <1>4, <2>2, <2>5
<1>6. ASSUME NEW u, Goes("main", u), StateOK("main", u), u = v,
             AsksForList(s, u) \/ ReadsList(s, u) \/ ScanEnds(s, u) \/ Tries(s, u) \/ Greets(s, u)
             \/ Leaves(s, u) \/ Acknowledged(s, u) \/ AsksIp(s, u)
      PROVE  TableInv'
  <2>1. CASE AsksForList(s, u) \/ ScanEnds(s, u) \/ Tries(s, u) \/ Greets(s, u)
    <3>1. UNCHANGED <<xbee_at_devices, found, i, ip, registered>>
      BY <2>1 DEF AsksForList, ScanEnds, Tries, Greets
    <3>2. InTurn(v)'
      <4>1. CASE AsksForList(s, u) \/ ScanEnds(s, u)
        BY <1>6, <4>1 DEF AsksForList, ScanEnds, InTurn, Meant
      <4>2. CASE Tries(s, u)
        BY <1>6, <3>1, <4>2 DEF Tries, Begins, InTurn
      <4>3. CASE Greets(s, u)
        BY <1>1, <1>6, <3>1, <4>3 DEF Greets, AtRest, InTurn, Meant
      <4> QED BY <2>1, <4>1, <4>2, <4>3
    <3> QED BY <1>3, <1>4, <3>1, <3>2
  <2>2. CASE ReadsList(s, u)
    <3>1. s.phase = "list" /\ UNCHANGED <<xbee_at_devices, i, registered>> /\ u.phase \in {"next", "list"} /\ i = 1
      BY <2>2 DEF ReadsList, FoundInv
    <3>2. registered = {}
      <4>1. ASSUME NEW r \in registered PROVE FALSE
        <5>1. PICK j \in 1 .. Len(found) : j < i
          BY <1>1 DEF Kept
        <5> QED BY <3>1, <5>1
      <4> QED BY <4>1
    <3>3. OneEntry(xbee_at_devices)' /\ Kept'
      BY <1>1, <3>1, <3>2 DEF OneEntry, Kept
    <3>4. InTurn(v)'
      BY <1>6, <3>1 DEF InTurn, Meant
    <3> QED BY <1>4, <3>3, <3>4
  <2>3. CASE Acknowledged(s, u)
    <3>1. /\ s.phase = "ack" /\ u.phase = "ip" /\ u.dev = s.dev /\ add_new_XBee_at_device(s.dev)
          /\ UNCHANGED <<found, i, ip, registered>>
      BY <2>3 DEF Acknowledged
    <3>2. PICK d \in Dev : d = s.dev
      BY <1>1, <3>1 DEF Meant
    <3>3. PICK after : after = xbee_at_devices'
      OBVIOUS
    <3>4. /\ OneEntry(after) /\ \E k \in Slot : after[k] # NULL /\ after[k].addr = d
          /\ \A k \in Slot : xbee_at_devices[k] # NULL => after[k] = xbee_at_devices[k]
      BY <1>1, <3>1, <3>2, <3>3, TableAdds
    <3>5. Kept'
      BY <1>1, <3>1, <3>3, <3>4 DEF Kept, HasEntry
    <3>6. InTurn(v)'
      <4>1. i \in 1 .. Len(found) /\ u.dev = found[i]
        BY <1>1, <3>1 DEF InTurn, Meant
      <4>2. is_XBee_at_device_exists(d)'
        BY <3>3, <3>4 DEF is_XBee_at_device_exists, find_XBee_at_device_index
      <4> QED BY <1>6, <3>1, <3>2, <4>1, <4>2 DEF InTurn
    <3> QED BY <1>4, <3>3, <3>4, <3>5, <3>6
  <2>4. CASE AsksIp(s, u)
    <3>1. /\ s.phase = "ip" /\ u.phase = "answer" /\ u.dev = s.dev /\ update_XBee_at_iot_ip(s.dev, ip')
          /\ ip' \in Nat \cup {NULL} /\ UNCHANGED <<found, i, registered>>
      BY <1>1, <2>4 DEF AsksIp
    <3>2. PICK d \in Dev : d = s.dev
      BY <1>1, <3>1 DEF Meant
    <3>3. PICK after, a : after = xbee_at_devices' /\ a = ip'
      OBVIOUS
    <3>4. i \in 1 .. Len(found) /\ d = found[i] /\ is_XBee_at_device_exists(d)
      BY <1>1, <3>1, <3>2 DEF InTurn, Meant
    <3>5. /\ OneEntry(after) /\ HasEntry(after, a, d)
          /\ \A k \in Slot : xbee_at_devices[k] # NULL /\ xbee_at_devices[k].addr # d => after[k] = xbee_at_devices[k]
      BY <1>1, <3>1, <3>2, <3>3, <3>4, TableUpdates
    <3>6. Kept'
      <4> SUFFICES ASSUME NEW r \in registered
                   PROVE  /\ \E j \in 1 .. Len(found) : j < i /\ r[2] = found[j]
                          /\ HasEntry(after, r[1], r[2])
        BY <3>1, <3>3 DEF Kept, HasEntry
      <4>1. PICK j \in 1 .. Len(found) : j < i /\ r[2] = found[j]
        BY <1>1 DEF Kept
      <4>2. PICK k \in Slot : xbee_at_devices[k] # NULL /\ xbee_at_devices[k].ip = r[1] /\ xbee_at_devices[k].addr = r[2]
        BY <1>1 DEF Kept, HasEntry
      <4>3. r[2] # d
        <5>1. found[j] = found[i] => j = i
          BY <1>1, <3>4, <4>1
        <5> QED BY <1>1, <3>4, <4>1, <5>1
      <4> QED BY <3>5, <4>1, <4>2, <4>3 DEF HasEntry
    <3>7. InTurn(v)'
      BY <1>6, <3>1, <3>2, <3>3, <3>4, <3>5 DEF InTurn, HasEntry
    <3> QED BY <1>4, <3>3, <3>5, <3>6, <3>7
  <2>5. CASE Leaves(s, u)
    <3>1. u.phase = "next" /\ i' = i + 1 /\ UNCHANGED <<xbee_at_devices, found, ip>>
      BY <2>5 DEF Leaves
    <3>2. InTurn(v)'
      BY <1>6, <3>1 DEF InTurn, Meant
    <3>3. CASE UNCHANGED registered
      BY <1>3, <1>4, <3>1, <3>2, <3>3
    <3>4. CASE ~ UNCHANGED registered
      <4>1. s.phase = "completed" /\ registered' = registered \cup {<<ip, Head(s.buf).from>>}
        BY <2>5, <3>4 DEF Leaves
      <4>2. s.dev \in Dev /\ i \in 1 .. Len(found) /\ s.dev = found[i] /\ HasEntry(xbee_at_devices, ip, s.dev)
        BY <1>1, <4>1 DEF InTurn, Meant
      <4>3. Head(s.buf).from = s.dev
        <5>1. PICK b, d, c : b = s.buf /\ d = s.dev /\ Part(b, d, c)
          BY <4>1 DEF SerialInv, LineInv, TalkInv
        <5>2. b \in Seq(Unit) /\ b # <<>>
          BY <1>1, <4>1, <5>1 DEF StateOK, ThreadState
        <5>3. Head(b) = b[1] /\ 1 \in 1 .. Len(b)
          BY <5>2, Shorter
        <5> QED BY <5>1, <5>3 DEF Part
      <4>4. PICK a, d : a = ip /\ d = s.dev
        OBVIOUS
      <4>5. Kept'
        <5> SUFFICES ASSUME NEW r \in registered'
                     PROVE  /\ \E j \in 1 .. Len(found) : j < i + 1 /\ r[2] = found[j]
                            /\ HasEntry(xbee_at_devices, r[1], r[2])
          BY <3>1 DEF Kept, HasEntry
        <5>1. CASE r \in registered
          <6>1. PICK j \in 1 .. Len(found) : j < i /\ r[2] = found[j]
            BY <1>1, <5>1 DEF Kept
          <6>2. j < i + 1
            BY <1>1, <6>1
          <6> QED BY <1>1, <5>1, <6>1, <6>2 DEF Kept
        <5>2. CASE r = <<a, d>>
          <6>1. r[1] = ip /\ r[2] = s.dev
            BY <4>4, <5>2
          <6>2. i < i + 1
            BY <1>1
          <6> QED BY <4>2, <6>1, <6>2
        <5> QED BY <4>1, <4>3, <4>4, <5>1, <5>2
      <4>6. OneEntry(xbee_at_devices)'
        BY <1>1, <3>1 DEF OneEntry
      <4> QED BY <1>4, <3>2, <4>5, <4>6
    <3> QED BY <3>3, <3>4
  <2> QED BY <1>6, <2>1, <2>2, <2>3, <2>4, <2>5
<1>7. CASE \E u : /\ Goes("main", u) /\ StateOK("main", u)
                  /\ (\/ AsksForList(s, u) \/ ReadsList(s, u) \/ ScanEnds(s, u) \/ Tries(s, u)
                      \/ Greets(s, u) \/ Leaves(s, u) \/ Acknowledged(s, u) \/ AsksIp(s, u))
  <2>1. PICK u : /\ Goes("main", u) /\ StateOK("main", u)
                 /\ (\/ AsksForList(s, u) \/ ReadsList(s, u) \/ ScanEnds(s, u) \/ Tries(s, u)
                     \/ Greets(s, u) \/ Leaves(s, u) \/ Acknowledged(s, u) \/ AsksIp(s, u))
    BY <1>7
  <2>2. v = u
    BY <1>2, <2>1, Went, Threads
  <2> QED BY <1>6, <2>1, <2>2
<1> QED BY <1>5, <1>7, MainGoes

\* The table after a scan is as it was.
DescribedInv ==
    /\ ~ given.scan => \A r \in registered : HasEntry(xbee_at_devices, r[1], r[2])
    /\ given.scan /\ Alone /\ Serial => FoundInv /\ TableInv

LEMMA DescribedInit ==
    ASSUME Cardinality(Dev) <= MAXDEVICECOUNT, Init
    PROVE  DescribedInv
<1>1. CASE InitScanning
  <2>1. PICK q : q = <<ToModem("+++", NULL)>>
    OBVIOUS
  <2>2. /\ given.scan /\ xbee_at_devices = [k \in Slot |-> NULL] /\ registered = {} /\ found = <<>> /\ i = 1
        /\ thread["main"] = Fresh("scan", NULL, q)
    BY <1>1, <2>1, Threads DEF InitScanning, InitLine
  <2>3. PICK u : u = Fresh("scan", NULL, q)
    OBVIOUS
  <2>4. u.phase = "scan"
    BY <2>3 DEF Fresh
  <2>5. FoundInv
    BY <2>2, <2>3, <2>4 DEF FoundInv
  <2>6. TableInv
    BY <2>2, <2>3, <2>4 DEF TableInv, OneEntry, Kept, InTurn, Meant
  <2> QED BY <2>2, <2>5, <2>6 DEF DescribedInv
<1>2. CASE InitServing
  <2>1. ~ given.scan
    BY <1>2 DEF InitServing
  <2>2. PICK order \in [0 .. Cardinality(Dev) - 1 -> Dev] :
           /\ xbee_at_devices = [k \in Slot |->
                 IF k \in DOMAIN order THEN [addr |-> order[k], ip |-> k] ELSE NULL]
           /\ registered = {<<k, order[k]>> : k \in DOMAIN order}
    BY <1>2 DEF InitServing
  <2>3. \A k \in DOMAIN order : k \in Slot /\ xbee_at_devices[k] = [addr |-> order[k], ip |-> k]
    <3>1. MAXDEVICECOUNT \in Nat /\ Cardinality(Dev) \in Nat
      BY LimitsAssumption, DevAssumption, FS_CardinalityType
    <3>2. \A k \in DOMAIN order : k \in Slot
      BY <3>1 DEF Slot
    <3> QED BY <2>2, <3>2
  <2>4. \A k \in DOMAIN order :
           xbee_at_devices[k] # NULL /\ xbee_at_devices[k].ip = k /\ xbee_at_devices[k].addr = order[k]
    <3>1. \A k \in DOMAIN order : order[k] \in Dev /\ k \in Nat
      BY DevAssumption, FS_CardinalityType
    <3> SUFFICES ASSUME NEW k \in DOMAIN order
                 PROVE  xbee_at_devices[k] # NULL /\ xbee_at_devices[k].ip = k /\ xbee_at_devices[k].addr = order[k]
      OBVIOUS
    <3>2. PICK e : e = [addr |-> order[k], ip |-> k]
      OBVIOUS
    <3>3. e # NULL /\ e.ip = k /\ e.addr = order[k]
      <4>1. e \in [addr : Dev, ip : Nat \cup {NULL}]
        BY <3>1, <3>2
      <4> QED BY <3>2, <4>1, NullAssumption
    <3> QED BY <2>3, <3>2, <3>3
  <2>5. \A r \in registered : HasEntry(xbee_at_devices, r[1], r[2])
    <3> SUFFICES ASSUME NEW r \in registered PROVE HasEntry(xbee_at_devices, r[1], r[2])
      OBVIOUS
    <3>1. PICK k \in DOMAIN order : r = <<k, order[k]>>
      BY <2>2
    <3>2. r[1] = k /\ r[2] = order[k]
      BY <3>1
    <3>3. k \in Slot /\ xbee_at_devices[k] # NULL /\ xbee_at_devices[k].ip = k /\ xbee_at_devices[k].addr = order[k]
      BY <2>3, <2>4
    <3> QED BY <3>2, <3>3 DEF HasEntry
  <2> QED BY <2>1, <2>5 DEF DescribedInv
<1> QED BY <1>1, <1>2 DEF Init

LEMMA DescribedNext ==
    ASSUME Cardinality(Dev) <= MAXDEVICECOUNT, TypeInv, ScanInv, ServeInv, DescribedInv, [Next]_vars
    PROVE  DescribedInv'
<1>1. UNCHANGED given
  BY OthersStay, EnvironmentKeeps DEF Next, vars, history
<1>2. ASSUME ~ given.scan PROVE UNCHANGED <<xbee_at_devices, registered>>
  <2>1. ~ Main
    BY <1>2, OneThread DEF ServeInv
  <2> QED BY <2>1, EnvironmentKeeps, ListenerGoes, StepGoes, Threads DEF Next, vars, broker, manager
<1>3. ASSUME given.scan, Alone, Serial PROVE FoundInv' /\ TableInv'
  <2>1. FoundInv /\ TableInv /\ SerialInv("main") /\ ~ Listener
    BY <1>3, OneThread DEF DescribedInv, ScanInv
  <2>2. CASE UNCHANGED vars
    BY <2>1, <2>2 DEF vars, broker, manager, radio, FoundInv, TableInv, Listing, IsListed, OneEntry, Kept, InTurn,
                      HasEntry, is_XBee_at_device_exists, find_XBee_at_device_index
  <2>3. CASE Environment
    <3>1. FoundInv'
      BY <2>1, <2>3, FoundEnvironment
    <3>2. UNCHANGED <<xbee_at_devices, thread, found, i, ip, registered>>
      BY <2>3, EnvironmentKeeps DEF broker
    <3> QED BY <2>1, <3>1, <3>2 DEF TableInv, OneEntry, Kept, InTurn,
                      HasEntry, is_XBee_at_device_exists, find_XBee_at_device_index
  <2>4. CASE Main
    BY <2>1, <2>4, FoundMain, TableMain
  <2> QED BY <2>1, <2>2, <2>3, <2>4 DEF Next
<1>4. (given.scan /\ Alone /\ Serial)' => given.scan /\ Alone /\ Serial
  BY <1>1 DEF Alone, MaxCalls, Serial, Late, Refuses
<1>5. ~ given.scan => (\A r \in registered : HasEntry(xbee_at_devices, r[1], r[2]))'
  <2> SUFFICES ASSUME ~ given.scan PROVE (\A r \in registered : HasEntry(xbee_at_devices, r[1], r[2]))'
    OBVIOUS
  <2>1. UNCHANGED <<xbee_at_devices, registered>> /\ \A r \in registered : HasEntry(xbee_at_devices, r[1], r[2])
    BY <1>2 DEF DescribedInv
  <2> QED BY <2>1 DEF HasEntry
<1> QED BY <1>1, <1>3, <1>4, <1>5 DEF DescribedInv

\* Each address the scan registers at the manager stands in the table, with the
\* radio that sent the description (XBee_at_dev_register, add_new_XBee_at_device
\* and update_XBee_at_iot_ip): the list names each device once, and an entry is
\* not taken from a device that has it.  There are no more devices than entries.
THEOREM Described ==
    ASSUME Cardinality(Dev) <= MAXDEVICECOUNT
    PROVE  Spec => []OwnDescription
<1>1. Init => DescribedInv
  BY DescribedInit
<1>2. TypeInv /\ ScanInv /\ ServeInv /\ DescribedInv /\ [Next]_vars => DescribedInv'
  BY DescribedNext
<1>3. DescribedInv => OwnDescription
  <2> SUFFICES ASSUME DescribedInv, Alone, ~ Late, ~ Refuses PROVE \A r \in registered : HasEntry(xbee_at_devices, r[1], r[2])
    BY DEF OwnDescription, HasEntry
  <2> QED BY DEF DescribedInv, Serial, TableInv, Kept
<1> QED BY <1>1, <1>2, <1>3, TypeInit, TypeStep, LineInit, ScanNext, ServeNext, PTL DEF Spec

----------------------------------------------------------------------------
\* What the listener promises.  Answers are made of what devices said or, where
\* a reply of the modem came between, of nothing.
Saying == [n : Nat, dev : Dev \cup {NULL}]
AnswersOK == answers \in Seq([to : Nat, carries : SUBSET Saying])

\* The orders and data on the line while replies are late but nothing is lost:
\* q is what the modem has still to read, m, h and l its mode and destination.
\* It is in command mode where orders are made for it, and the orders of a
\* connection stand before position n, the w-th right before it, or are done.
InMode == {"ATDH", "ATDL", "ATCN"}
Into == {"+++", "ATDH", "ATDL"}
EndMode(q, m) == IF q = <<>> THEN m ELSE q[Len(q)].op \in Into
Leads(q, n, w, d, h, l) ==
    /\ w >= 2 => IF n + 1 - w >= 1 THEN q[n + 1 - w] = ToModem("ATDH", d) ELSE h = TRUE
    /\ w >= 3 => IF n + 2 - w >= 1 THEN q[n + 2 - w] = ToModem("ATDL", d) ELSE l = d
    /\ w >= 4 /\ n + 3 - w >= 1 => q[n + 3 - w] = ToModem("ATCN", NULL)
Stream(q, m, h, l) ==
    /\ q # <<>> => (m <=> q[1].op \in InMode)
    /\ \A k \in 1 .. Len(q) : k + 1 \in 1 .. Len(q) => (q[k].op \in Into <=> q[k + 1].op \in InMode)
    /\ \A k \in 1 .. Len(q) : q[k].op = "data" => Leads(q, k, 4, q[k].dev, h, l)
Writer(u, q, m, h, l) ==
    /\ EndMode(q, m) <=> u.phase \in {"connect", "disconnect"} /\ Written(u) \in 1 .. 3
    /\ u.phase = "connect" => Leads(q, Len(q) + 1, Written(u), u.dev, h, l)

\* With the devices a asked for: what is meant for a device, on its way to it, or
\* said by one, is about a command to that device.
Right(a, c, d) == c.kind = "call" /\ c.n \in 1 .. Len(a) /\ a[c.n] = d
Meaning(a) == {x \in Order \cup Data : x.op = "data" => Right(a, x.cmd, x.dev)}
Coming(a, d) == {x \in Data : Right(a, x.cmd, d)}
Answering(a) == {u \in Unit : u.unit = "answer" => Right(a, u.cmd, u.from)}
Rightly(a) ==
    /\ tx \in Seq(Meaning(a)) /\ rx \in Seq(Answering(a))
    /\ \A d \in Dev : air[d] \in Seq(Coming(a, d)) /\ out[d] \in Seq(Answering(a))
Gathers(u, a) == u.phase \in {"answer", "completed"} => u.buf \in Seq(Answering(a))
LateInv == \A u \in {thread["listener"]} :
    /\ Stream(tx, command_mode, dh, dl) /\ Writer(u, tx, command_mode, dh, dl)
    /\ Rightly(asked) /\ Gathers(u, asked)

\* The package that is open is the last one taken, and the listener is about it.
ServedOK ==
    /\ open = 0 <=> thread["listener"].phase \in {"recv", "disconnect"}
    /\ open # 0 => open = Len(asked) /\ asked[open] = thread["listener"].dev
PromiseInv ==
    /\ ServedOK /\ AnswersOK
    /\ ~ given.scan /\ Late /\ ~ Lossy /\ ~ Refuses => LateInv

\* The modem's destination after it has read x.
High(x, h) == IF x.op = "ATDH" THEN x.dev # NULL ELSE h
Low(x, l) == IF x.op = "ATDL" THEN x.dev ELSE l

\* Once the first order is read the rest leads where it led.
LEMMA LeadsRead ==
    ASSUME NEW S, NEW q \in Seq(S), q # <<>>, NEW h, NEW l, NEW d \in Dev, NEW w \in 0 .. 4,
           NEW n \in 2 .. Len(q) + 1, Leads(q, n, w, d, h, l)
    PROVE  Leads(Tail(q), n - 1, w, d, High(q[1], h), Low(q[1], l))
<1>1. /\ Len(q) \in Nat \ {0} /\ Len(Tail(q)) = Len(q) - 1
      /\ \A k \in 1 .. Len(Tail(q)) : Tail(q)[k] = q[k + 1]
  BY Shorter
<1>2. PICK p : p = Tail(q)
  OBVIOUS
<1>3. PICK x : x = q[1]
  OBVIOUS
<1>4. PICK len \in Nat \ {0} : len = Len(q)
  BY <1>1
<1>5. n \in 2 .. len + 1 /\ \A k \in 1 .. len - 1 : p[k] = q[k + 1]
  BY <1>1, <1>2, <1>4
<1>6. \A k \in 1 .. n - 2 : p[k] = q[k + 1]
  BY <1>4, <1>5
<1>7. d # NULL
  BY NullAssumption
<1>8. /\ w >= 2 => IF n + 1 - w >= 1 THEN q[n + 1 - w] = ToModem("ATDH", d) ELSE h = TRUE
      /\ w >= 3 => IF n + 2 - w >= 1 THEN q[n + 2 - w] = ToModem("ATDL", d) ELSE l = d
      /\ w >= 4 /\ n + 3 - w >= 1 => q[n + 3 - w] = ToModem("ATCN", NULL)
  BY DEF Leads
<1>9. \A o, e : ToModem(o, e).op = o /\ ToModem(o, e).dev = e
  BY DEF ToModem
<1>10. w >= 2 => IF n - 1 + 1 - w >= 1 THEN p[n - 1 + 1 - w] = ToModem("ATDH", d) ELSE High(x, h) = TRUE
  <2> SUFFICES ASSUME w >= 2
               PROVE  IF n - 1 + 1 - w >= 1 THEN p[n - 1 + 1 - w] = ToModem("ATDH", d) ELSE High(x, h) = TRUE
    OBVIOUS
  <2>1. CASE n - w >= 1
    <3>1. n - w \in 1 .. n - 2 /\ n - w + 1 = n + 1 - w /\ n - 1 + 1 - w = n - w /\ n + 1 - w >= 1
      BY <2>1
    <3>2. p[n - w] = q[n + 1 - w]
      BY <1>6, <3>1
    <3> QED BY <1>8, <3>1, <3>2
  <2>2. CASE n - w = 0
    <3>1. n + 1 - w = 1 /\ ~ (n - 1 + 1 - w >= 1)
      BY <2>2
    <3>2. x = ToModem("ATDH", d)
      BY <1>3, <1>8, <3>1
    <3> QED BY <1>7, <1>9, <3>1, <3>2 DEF High
  <2>3. CASE n - w < 0
    <3>1. h = TRUE /\ ~ (n - 1 + 1 - w >= 1)
      BY <1>8, <2>3
    <3>2. (w = 3 /\ n + 2 - w = 1) \/ (w = 4 /\ n + 3 - w = 1) \/ (w = 4 /\ n + 2 - w = 1)
      BY <1>4, <1>5, <2>3
    <3>3. x = ToModem("ATDL", d) \/ x = ToModem("ATCN", NULL)
      BY <1>3, <1>8, <3>2
    <3>4. x.op # "ATDH"
      BY <1>9, <3>3
    <3> QED BY <3>1, <3>4 DEF High
  <2>4. n - w >= 1 \/ n - w = 0 \/ n - w < 0
    BY <1>4, <1>5
  <2> QED BY <2>1, <2>2, <2>3, <2>4, Zenon
<1>11. w >= 3 => IF n - 1 + 2 - w >= 1 THEN p[n - 1 + 2 - w] = ToModem("ATDL", d) ELSE Low(x, l) = d
  <2> SUFFICES ASSUME w >= 3
               PROVE  IF n - 1 + 2 - w >= 1 THEN p[n - 1 + 2 - w] = ToModem("ATDL", d) ELSE Low(x, l) = d
    OBVIOUS
  <2>1. CASE n + 1 - w >= 1
    <3>1. n + 1 - w \in 1 .. n - 2 /\ n + 1 - w + 1 = n + 2 - w /\ n - 1 + 2 - w = n + 1 - w /\ n + 2 - w >= 1
      BY <2>1
    <3>2. p[n + 1 - w] = q[n + 2 - w]
      BY <1>6, <3>1
    <3> QED BY <1>8, <3>1, <3>2
  <2>2. CASE n + 1 - w = 0
    <3>1. n + 2 - w = 1 /\ ~ (n - 1 + 2 - w >= 1)
      BY <2>2
    <3>2. x = ToModem("ATDL", d)
      BY <1>3, <1>8, <3>1
    <3> QED BY <1>9, <3>1, <3>2 DEF Low
  <2>3. CASE n + 1 - w < 0
    <3>1. l = d /\ ~ (n - 1 + 2 - w >= 1)
      BY <1>8, <2>3
    <3>2. w = 4 /\ n + 3 - w = 1
      BY <1>4, <1>5, <2>3
    <3>3. x = ToModem("ATCN", NULL)
      BY <1>3, <1>8, <3>2
    <3>4. x.op # "ATDL"
      BY <1>9, <3>3
    <3> QED BY <3>1, <3>4 DEF Low
  <2> QED BY <2>1, <2>2, <2>3
<1>12. w >= 4 /\ n - 1 + 3 - w >= 1 => p[n - 1 + 3 - w] = ToModem("ATCN", NULL)
  <2> SUFFICES ASSUME w >= 4, n - 1 + 3 - w >= 1 PROVE p[n - 1 + 3 - w] = ToModem("ATCN", NULL)
    OBVIOUS
  <2>1. n + 2 - w \in 1 .. n - 2 /\ n + 2 - w + 1 = n + 3 - w /\ n - 1 + 3 - w = n + 2 - w /\ n + 3 - w >= 1
    OBVIOUS
  <2>2. p[n + 2 - w] = q[n + 3 - w]
    BY <1>6, <2>1
  <2> QED BY <1>8, <2>1, <2>2
<1> QED BY <1>2, <1>3, <1>10, <1>11, <1>12 DEF Leads

\* What is written behind does not matter.
LEMMA LeadsKeeps ==
    ASSUME NEW S, NEW q \in Seq(S), NEW e \in S, NEW h, NEW l, NEW d, NEW w \in 0 .. 4,
           NEW n \in 1 .. Len(q) + 1, Leads(q, n, w, d, h, l)
    PROVE  Leads(Append(q, e), n, w, d, h, l)
<1>1. PICK p : p = Append(q, e)
  OBVIOUS
<1>2. Len(q) \in Nat /\ \A k \in 1 .. Len(q) : p[k] = q[k]
  BY <1>1, Longer
<1>3. \A k \in 1 .. n - 1 : p[k] = q[k]
  BY <1>2
<1>4. w >= 2 /\ n + 1 - w >= 1 => n + 1 - w \in 1 .. n - 1
  OBVIOUS
<1>5. w >= 3 /\ n + 2 - w >= 1 => n + 2 - w \in 1 .. n - 1
  OBVIOUS
<1>6. w >= 4 /\ n + 3 - w >= 1 => n + 3 - w \in 1 .. n - 1
  OBVIOUS
<1>7. Leads(p, n, w, d, h, l)
  BY <1>3, <1>4, <1>5, <1>6 DEF Leads
<1> QED BY <1>1, <1>7

\* The next order of a connection.
LEMMA LeadsWrites ==
    ASSUME NEW S, NEW q \in Seq(S), NEW e \in S, NEW h, NEW l, NEW d \in Dev, NEW w \in 0 .. 3,
           Leads(q, Len(q) + 1, w, d, h, l), e = ConnectOrders(d)[w + 1]
    PROVE  Leads(Append(q, e), Len(q) + 2, w + 1, d, h, l)
<1>1. PICK p : p = Append(q, e)
  OBVIOUS
<1>2. PICK n \in Nat : n = Len(q)
  OBVIOUS
<1>3. p[n + 1] = e
  BY <1>1, <1>2, Longer
<1>4. Leads(p, n + 1, w, d, h, l)
  BY <1>1, <1>2, LeadsKeeps
<1>5. /\ w + 1 = 2 => e = ToModem("ATDH", d)
      /\ w + 1 = 3 => e = ToModem("ATDL", d)
      /\ w + 1 = 4 => e = ToModem("ATCN", NULL)
  <2>1. /\ ConnectOrders(d)[2] = ToModem("ATDH", d) /\ ConnectOrders(d)[3] = ToModem("ATDL", d)
        /\ ConnectOrders(d)[4] = ToModem("ATCN", NULL)
    BY FourOrders
  <2> QED BY <2>1
<1>6. Leads(p, n + 2, w + 1, d, h, l)
  <2>1. CASE w = 0
    BY <2>1 DEF Leads
  <2>2. CASE w = 1
    <3>1. n + 2 + 1 - (w + 1) = n + 1
      BY <2>2
    <3> QED BY <1>3, <1>5, <2>2, <3>1 DEF Leads
  <2>3. CASE w = 2
    <3>1. n + 2 + 1 - (w + 1) = n + 1 + 1 - w /\ n + 2 + 2 - (w + 1) = n + 1
      BY <2>3
    <3> QED BY <1>3, <1>4, <1>5, <2>3, <3>1 DEF Leads
  <2>4. CASE w = 3
    <3>1. /\ n + 2 + 1 - (w + 1) = n + 1 + 1 - w /\ n + 2 + 2 - (w + 1) = n + 1 + 2 - w
          /\ n + 2 + 3 - (w + 1) = n + 1
      BY <2>4
    <3> QED BY <1>3, <1>4, <1>5, <2>4, <3>1 DEF Leads
  <2> QED BY <2>1, <2>2, <2>3, <2>4
<1> QED BY <1>1, <1>2, <1>6

\* The stream, when its first order is read and when another is written.
LEMMA StreamReads ==
    ASSUME NEW q \in Seq(Order \cup Data), q # <<>>, NEW m, NEW h, NEW l, Stream(q, m, h, l)
    PROVE  /\ Stream(Tail(q), q[1].op \in Into, High(q[1], h), Low(q[1], l))
           /\ EndMode(Tail(q), q[1].op \in Into) = EndMode(q, m)
<1>1. PICK p, g, k : p = Tail(q) /\ g = High(q[1], h) /\ k = Low(q[1], l)
  OBVIOUS
<1>2. /\ p \in Seq(Order \cup Data) /\ Len(q) \in Nat \ {0} /\ Len(p) = Len(q) - 1
      /\ \A j \in 1 .. Len(p) : j + 1 \in 1 .. Len(q) /\ p[j] = q[j + 1]
  BY <1>1, Shorter
<1>3. /\ \A j \in 1 .. Len(q) : j + 1 \in 1 .. Len(q) => (q[j].op \in Into <=> q[j + 1].op \in InMode)
      /\ \A j \in 1 .. Len(q) : q[j].op = "data" => Leads(q, j, 4, q[j].dev, h, l)
  BY DEF Stream
<1>4. p # <<>> => (q[1].op \in Into <=> p[1].op \in InMode)
  <2>1. p # <<>> => 1 \in 1 .. Len(p)
    BY <1>2, Shorter
  <2> QED BY <1>2, <1>3, <2>1
<1>5. ASSUME NEW j \in 1 .. Len(p), j + 1 \in 1 .. Len(p) PROVE p[j].op \in Into <=> p[j + 1].op \in InMode
  <2>1. j + 1 \in 1 .. Len(q) /\ (j + 1) + 1 \in 1 .. Len(q) /\ p[j] = q[j + 1] /\ p[j + 1] = q[(j + 1) + 1]
    BY <1>2, <1>5
  <2> QED BY <1>3, <2>1
<1>6. ASSUME NEW j \in 1 .. Len(p), p[j].op = "data" PROVE Leads(p, j, 4, p[j].dev, g, k)
  <2>1. PICK n : n = j + 1
    OBVIOUS
  <2>2. n \in 2 .. Len(q) + 1 /\ n \in 1 .. Len(q) /\ p[j] = q[n] /\ j = n - 1
    BY <1>2, <2>1
  <2>3. q[n] \in Data
    <3>1. q[n] \in Order \cup Data
      BY <2>2
    <3> QED BY <1>6, <2>2, <3>1 DEF Order
  <2>4. q[n].dev \in Dev
    BY <2>3 DEF Data
  <2>5. Leads(q, n, 4, q[n].dev, h, l)
    BY <1>3, <1>6, <2>2
  <2>6. PICK d \in Dev, w \in 0 .. 4 : d = q[n].dev /\ w = 4
    BY <2>4
  <2>7. Leads(q, n, w, d, h, l)
    BY <2>5, <2>6
  <2>8. Leads(Tail(q), n - 1, w, d, High(q[1], h), Low(q[1], l))
    BY <2>2, <2>7, LeadsRead
  <2>9. Leads(p, n - 1, 4, q[n].dev, g, k)
    BY <1>1, <2>6, <2>8
  <2> QED BY <2>2, <2>9
<1>7. EndMode(p, q[1].op \in Into) = EndMode(q, m)
  <2>1. CASE p = <<>>
    <3>1. Len(q) = 1
      BY <1>2, <2>1
    <3> QED BY <2>1, <3>1 DEF EndMode
  <2>2. CASE p # <<>>
    <3>1. Len(p) \in 1 .. Len(p) /\ Len(p) + 1 = Len(q)
      BY <1>2, <2>2, Shorter
    <3>2. p[Len(p)] = q[Len(q)]
      BY <1>2, <3>1
    <3> QED BY <2>2, <3>2 DEF EndMode
  <2> QED BY <2>1, <2>2
<1> QED BY <1>1, <1>4, <1>5, <1>6, <1>7 DEF Stream

LEMMA StreamWrites ==
    ASSUME NEW q \in Seq(Order \cup Data), NEW e \in Order \cup Data, NEW m, NEW h, NEW l, Stream(q, m, h, l),
           EndMode(q, m) <=> e.op \in InMode,
           e.op = "data" => Leads(q, Len(q) + 1, 4, e.dev, h, l)
    PROVE  Stream(Append(q, e), m, h, l) /\ (EndMode(Append(q, e), m) <=> e.op \in Into)
<1>1. PICK p : p = Append(q, e)
  OBVIOUS
<1>2. PICK n \in Nat : n = Len(q)
  OBVIOUS
<1>3. /\ p # <<>> /\ Len(p) = n + 1 /\ p[n + 1] = e
      /\ \A j \in 1 .. n : p[j] = q[j]
  BY <1>1, <1>2, Longer
<1>4. /\ \A j \in 1 .. n : j + 1 \in 1 .. n => (q[j].op \in Into <=> q[j + 1].op \in InMode)
      /\ \A j \in 1 .. n : q[j].op = "data" => Leads(q, j, 4, q[j].dev, h, l)
      /\ q # <<>> => (m <=> q[1].op \in InMode)
  BY <1>2 DEF Stream
<1>5. CASE q = <<>>
  <2>1. n = 0
    BY <1>2, <1>5
  <2>2. (m <=> p[1].op \in InMode) /\ \A j \in 1 .. 1 : p[j].op = "data" => Leads(p, j, 4, p[j].dev, h, l)
    <3>1. p[1] = e /\ (m <=> e.op \in InMode)
      BY <1>3, <1>5, <2>1 DEF EndMode
    <3>2. e.op = "data" => Leads(p, 1, 4, e.dev, h, l)
      <4>1. e.op = "data" => Leads(q, 1, 4, e.dev, h, l) /\ 1 \in 1 .. Len(q) + 1
        BY <1>2, <2>1
      <4> QED BY <1>1, <4>1, LeadsKeeps
    <3> QED BY <3>1, <3>2
  <2>3. Len(p) = 1
    BY <1>3, <2>1
  <2>4. \A j \in 1 .. Len(p) : j + 1 \notin 1 .. Len(p)
    BY <2>3
  <2>5. EndMode(p, m) <=> e.op \in Into
    BY <1>3, <2>1, <2>3 DEF EndMode
  <2> QED BY <1>1, <2>2, <2>3, <2>4, <2>5 DEF Stream
<1>6. CASE q # <<>>
  <2>1. n >= 1 /\ (EndMode(q, m) <=> q[n].op \in Into)
    BY <1>2, <1>6, Shorter DEF EndMode
  <2>2. m <=> p[1].op \in InMode
    BY <1>3, <1>4, <1>6, <2>1
  <2>3. ASSUME NEW j \in 1 .. Len(p), j + 1 \in 1 .. Len(p) PROVE p[j].op \in Into <=> p[j + 1].op \in InMode
    <3>1. j \in 1 .. n /\ p[j] = q[j]
      BY <1>3, <2>3
    <3>2. CASE j = n
      <4>1. p[j + 1] = e /\ p[j] = q[n]
        BY <1>3, <3>1, <3>2
      <4> QED BY <2>1, <4>1
    <3>3. CASE j # n
      <4>1. j + 1 \in 1 .. n
        BY <3>1, <3>3
      <4> QED BY <1>3, <1>4, <3>1, <4>1
    <3> QED BY <3>2, <3>3
  <2>4. ASSUME NEW j \in 1 .. Len(p), p[j].op = "data" PROVE Leads(p, j, 4, p[j].dev, h, l)
    <3>1. CASE j = n + 1
      <4>1. Leads(q, j, 4, p[j].dev, h, l) /\ j \in 1 .. Len(q) + 1
        BY <1>2, <1>3, <2>4, <3>1
      <4> QED BY <1>1, <4>1, LeadsKeeps
    <3>2. CASE j # n + 1
      <4>1. j \in 1 .. n
        BY <1>3, <3>2
      <4>2. Leads(q, j, 4, p[j].dev, h, l) /\ j \in 1 .. Len(q) + 1
        BY <1>2, <1>3, <1>4, <2>4, <4>1
      <4> QED BY <1>1, <4>2, LeadsKeeps
    <3> QED BY <3>1, <3>2
  <2>5. EndMode(p, m) <=> e.op \in Into
    BY <1>3 DEF EndMode
  <2> QED BY <1>1, <2>2, <2>3, <2>4, <2>5 DEF Stream
<1> QED BY <1>5, <1>6

\* A listener that goes on to another phase, and what it may write.
LEMMA WriterReads ==
    ASSUME NEW q \in Seq(Order \cup Data), q # <<>>, NEW m, NEW h, NEW l, Stream(q, m, h, l),
           NEW u, StateOK("listener", u), Writer(u, q, m, h, l)
    PROVE  Writer(u, Tail(q), q[1].op \in Into, High(q[1], h), Low(q[1], l))
<1>1. PICK p, g, k, o : p = Tail(q) /\ g = High(q[1], h) /\ k = Low(q[1], l) /\ o = (q[1].op \in Into)
  OBVIOUS
<1>2. Len(q) \in Nat \ {0} /\ Len(p) = Len(q) - 1
  BY <1>1, Shorter
<1>3. EndMode(p, o) = EndMode(q, m)
  BY <1>1, StreamReads
<1>4. ASSUME u.phase = "connect" PROVE Leads(p, Len(p) + 1, Written(u), u.dev, g, k)
  <2>1. Len(u.todo) \in Nat /\ Len(u.todo) <= 4 /\ u.dev \in Dev
    <3>1. Len(u.todo) <= 4 /\ u.dev \in Dev /\ u.todo \in Seq(Setting)
      BY <1>4 DEF StateOK, Meant
    <3> QED BY <3>1, NoElement
  <2>2. PICK w \in 0 .. 4, d \in Dev, n \in 2 .. Len(q) + 1 : w = Written(u) /\ d = u.dev /\ n = Len(q) + 1
    <3>1. PICK z \in Nat : z = Len(u.todo) /\ z <= 4
      BY <2>1
    <3>2. \A j \in Nat : j <= 4 => 4 - j \in 0 .. 4
      OBVIOUS
    <3>3. Written(u) \in 0 .. 4
      BY <3>1, <3>2 DEF Written
    <3> QED BY <1>2, <2>1, <3>3
  <2>3. Leads(q, n, w, d, h, l)
    BY <1>4, <2>2 DEF Writer
  <2>4. Leads(p, n - 1, w, d, g, k)
    BY <1>1, <2>3, LeadsRead
  <2>5. n - 1 = Len(p) + 1
    BY <1>2, <2>2
  <2> QED BY <2>2, <2>4, <2>5
<1> QED BY <1>1, <1>3, <1>4 DEF Writer

\* What is asked for later does not change what was.
LEMMA RightGrows ==
    ASSUME NEW S, NEW a \in Seq(S), NEW e \in S
    PROVE  LET b == Append(a, e) IN
           /\ Meaning(a) \subseteq Meaning(b) /\ Answering(a) \subseteq Answering(b)
           /\ \A d \in Dev : Coming(a, d) \subseteq Coming(b, d)
<1>1. PICK b : b = Append(a, e)
  OBVIOUS
<1>2. Len(a) \in Nat /\ Len(b) = Len(a) + 1 /\ \A k \in 1 .. Len(a) : b[k] = a[k]
  BY <1>1, Longer
<1>3. \A k \in 1 .. Len(a) : k \in 1 .. Len(b)
  BY <1>2
<1>4. \A c, d : Right(a, c, d) => Right(b, c, d)
  BY <1>2, <1>3 DEF Right
<1> QED BY <1>1, <1>4 DEF Meaning, Answering, Coming

LEMMA Wider == ASSUME NEW S, NEW R, S \subseteq R, NEW q \in Seq(S) PROVE q \in Seq(R)
OBVIOUS

LEMMA RightlyGrows ==
    ASSUME NEW a \in Seq(Dev \cup {NULL}), NEW e \in Dev \cup {NULL}, Rightly(a)
    PROVE  /\ Rightly(Append(a, e))
           /\ \A u : Gathers(u, a) => Gathers(u, Append(a, e))
<1>1. PICK b : b = Append(a, e)
  OBVIOUS
<1>2. /\ Meaning(a) \subseteq Meaning(b) /\ Answering(a) \subseteq Answering(b)
      /\ \A d \in Dev : Coming(a, d) \subseteq Coming(b, d)
  BY <1>1, RightGrows
<1>3. tx \in Seq(Meaning(b)) /\ rx \in Seq(Answering(b))
  BY <1>2, Wider DEF Rightly
<1>4. ASSUME NEW d \in Dev PROVE air[d] \in Seq(Coming(b, d)) /\ out[d] \in Seq(Answering(b))
  <2>1. PICK S, R : S = Coming(a, d) /\ R = Coming(b, d)
    OBVIOUS
  <2>2. S \subseteq R /\ air[d] \in Seq(S)
    BY <1>2, <2>1 DEF Rightly
  <2>3. air[d] \in Seq(R)
    BY <2>2, Wider
  <2>4. out[d] \in Seq(Answering(a))
    BY DEF Rightly
  <2>5. out[d] \in Seq(Answering(b))
    BY <1>2, <2>4, Wider
  <2> QED BY <2>1, <2>3, <2>5
<1>5. \A u : Gathers(u, a) => Gathers(u, b)
  BY <1>2, Wider DEF Gathers
<1> QED BY <1>1, <1>3, <1>4, <1>5 DEF Rightly

\* What the modem does with what it reads while it loses and refuses nothing:
\* the stream tells in which mode it reads it, and data goes to its device.
LEMMA ModemFollows ==
    ASSUME TypeInv, ModemReads, ~ Lossy, ~ Refuses, Stream(tx, command_mode, dh, dl)
    PROVE  /\ tx # <<>> /\ tx' = Tail(tx) /\ UNCHANGED <<broker, out, manager, history>>
           /\ command_mode' = (tx[1].op \in Into) /\ dh' = High(tx[1], dh) /\ dl' = Low(tx[1], dl)
           /\ rx' = rx \/ rx' = Append(rx, U("OK"))
           /\ \/ UNCHANGED air
              \/ tx[1] \in Data /\ tx[1].op = "data" /\ air' = [air EXCEPT ![tx[1].dev] = Append(@, tx[1])]
<1>1. PICK x : /\ x = Head(tx) /\ tx # <<>> /\ tx' = Tail(tx) /\ UNCHANGED <<broker, out, manager, history>>
               /\ \/ Half(x) \/ Exits(x) \/ Enters(x) \/ Lists(x) \/ Refused(x) \/ Ignored(x) \/ Forwarded(x)
  BY ModemDoes
<1>2. /\ x = tx[1] /\ (x.op = "data" => x \in Data) /\ 1 \in 1 .. Len(tx)
      /\ x.op \in {"+++", "ATDH", "ATDL", "ATCN", "ATND", "data"}
      /\ command_mode \in BOOLEAN /\ dh \in BOOLEAN /\ command_mode' \in BOOLEAN
  <2>1. TypeInv'
    <3>1. Environment
      BY DEF Environment
    <3> QED BY <3>1, TypeEnvironment
  <2>2. tx \in Seq(Order \cup Data)
    BY DEF TypeInv, LineOK
  <2> QED BY <1>1, <2>1, <2>2, ReadHead, Shorter DEF TypeInv, LineOK
<1>3. command_mode <=> x.op \in InMode
  BY <1>1, <1>2 DEF Stream
<1>4. CASE Half(x)
  BY <1>1, <1>2, <1>4 DEF Half, High, Low, Into
<1>5. CASE Exits(x)
  BY <1>1, <1>2, <1>5 DEF Exits, High, Low, Into
<1>6. CASE Enters(x)
  BY <1>1, <1>2, <1>6 DEF Enters, High, Low, Into
<1>7. CASE Lists(x)
  BY <1>3, <1>7 DEF Lists, InMode
<1>8. CASE Refused(x)
  BY <1>8 DEF Refused
<1>9. CASE Ignored(x)
  <2>1. ~ command_mode /\ x.op = "ATND" /\ UNCHANGED <<rx, command_mode, dh, dl, air>>
    BY <1>2, <1>3, <1>9 DEF Ignored, InMode, modem
  <2> QED BY <1>1, <1>2, <2>1 DEF High, Low, Into
<1>10. CASE Forwarded(x)
  <2>1. /\ ~ command_mode /\ x.op = "data" /\ UNCHANGED <<rx, command_mode, dh, dl>>
        /\ IF dh /\ dl # NULL THEN air' = [air EXCEPT ![dl] = Append(@, x)] ELSE UNCHANGED air
    BY <1>10 DEF Forwarded, modem
  <2>2. Leads(tx, 1, 4, x.dev, dh, dl)
    BY <1>2, <2>1 DEF Stream
  <2>3. dl = x.dev
    BY <2>2 DEF Leads
  <2> QED BY <1>1, <1>2, <2>1, <2>3 DEF High, Low, Into
<1> QED BY <1>1, <1>4, <1>5, <1>6, <1>7, <1>8, <1>9, <1>10

LEMMA LateModem ==
    ASSUME TypeInv, ModemReads, ~ Lossy, ~ Refuses, LateInv
    PROVE  LateInv'
<1>1. PICK u, a : u = thread["listener"] /\ a = asked
  OBVIOUS
<1>2. /\ Stream(tx, command_mode, dh, dl) /\ Writer(u, tx, command_mode, dh, dl)
      /\ Rightly(a) /\ Gathers(u, a)
  BY <1>1 DEF LateInv
<1>3. /\ tx # <<>> /\ tx' = Tail(tx) /\ UNCHANGED <<broker, out, manager, history>>
      /\ command_mode' = (tx[1].op \in Into) /\ dh' = High(tx[1], dh) /\ dl' = Low(tx[1], dl)
      /\ rx' = rx \/ rx' = Append(rx, U("OK"))
      /\ \/ UNCHANGED air
         \/ tx[1] \in Data /\ tx[1].op = "data" /\ air' = [air EXCEPT ![tx[1].dev] = Append(@, tx[1])]
  BY <1>2, ModemFollows
<1>4. thread'["listener"] = u /\ asked' = a
  BY <1>1, <1>3 DEF broker, history
<1>5. tx \in Seq(Order \cup Data) /\ StateOK("listener", u) /\ air \in [Dev -> Seq(Data)]
  BY <1>1, ThreadIsOK, Threads DEF TypeInv, LineOK
<1>6. Stream(tx', command_mode', dh', dl')
  BY <1>2, <1>3, <1>5, StreamReads
<1>7. Writer(u, tx', command_mode', dh', dl')
  BY <1>2, <1>3, <1>5, WriterReads
<1>8. tx' \in Seq(Meaning(a)) /\ tx[1] \in Meaning(a)
  BY <1>2, <1>3, Shorter DEF Rightly
<1>9. rx' \in Seq(Answering(a))
  <2>1. PICK e : e = U("OK")
    OBVIOUS
  <2>2. e \in Answering(a)
    BY <2>1, Replies DEF U, Answering
  <2>3. rx \in Seq(Answering(a))
    BY <1>2 DEF Rightly
  <2>4. Append(rx, e) \in Seq(Answering(a))
    BY <2>2, <2>3, Longer
  <2> QED BY <1>3, <2>1, <2>3, <2>4
<1>10. ASSUME NEW d \in Dev PROVE air'[d] \in Seq(Coming(a, d)) /\ out'[d] \in Seq(Answering(a))
  <2>1. PICK S : S = Coming(a, d)
    OBVIOUS
  <2>2. air[d] \in Seq(S) /\ out'[d] \in Seq(Answering(a))
    BY <1>2, <1>3, <2>1 DEF Rightly
  <2>3. CASE UNCHANGED air
    BY <2>1, <2>2, <2>3
  <2>4. CASE tx[1] \in Data /\ tx[1].op = "data" /\ air' = [air EXCEPT ![tx[1].dev] = Append(@, tx[1])]
    <3>1. CASE d = tx[1].dev
      <4>1. air'[d] = Append(air[d], tx[1])
        BY <1>5, <2>4, <3>1
      <4>2. tx[1] \in S
        BY <1>8, <2>1, <2>4, <3>1 DEF Meaning, Coming
      <4> QED BY <2>1, <2>2, <4>1, <4>2, Longer
    <3>2. CASE d # tx[1].dev
      <4>1. air'[d] = air[d]
        BY <1>5, <2>4, <3>2
      <4> QED BY <2>1, <2>2, <4>1
    <3> QED BY <3>1, <3>2
  <2> QED BY <1>3, <2>3, <2>4
<1> QED BY <1>2, <1>4, <1>6, <1>7, <1>8, <1>9, <1>10 DEF LateInv, Rightly

LEMMA LateDevice ==
    ASSUME TypeInv, NEW d \in Dev, DeviceHears(d) \/ RadioDelivers(d), LateInv
    PROVE  LateInv'
<1>1. PICK u, a : u = thread["listener"] /\ a = asked
  OBVIOUS
<1>2. /\ Stream(tx, command_mode, dh, dl) /\ Writer(u, tx, command_mode, dh, dl)
      /\ Rightly(a) /\ Gathers(u, a)
  BY <1>1 DEF LateInv
<1>3. UNCHANGED <<broker, tx, modem, manager, history>>
  BY DEF DeviceHears, RadioDelivers
<1>4. thread'["listener"] = u /\ asked' = a /\ UNCHANGED <<tx, command_mode, dh, dl>>
  BY <1>1, <1>3 DEF broker, history, modem
<1>5. air \in [Dev -> Seq(Data)] /\ out \in [Dev -> Seq(Answer)]
  BY DEF TypeInv, LineOK
<1>6. \A e \in Dev : air[e] \in Seq(Coming(a, e)) /\ out[e] \in Seq(Answering(a))
  BY <1>2 DEF Rightly
<1>7. PICK S : S = Coming(a, d)
  OBVIOUS
<1>8. air[d] \in Seq(S)
  BY <1>6, <1>7
<1>9. CASE DeviceHears(d)
  <2>1. PICK c : /\ c = Head(air[d]).cmd /\ air[d] # <<>> /\ air' = [air EXCEPT ![d] = Tail(@)] /\ UNCHANGED rx
                 /\ UNCHANGED out \/ \E s \in AnswersOf(d, c) : out' = [out EXCEPT ![d] = @ \o s]
    BY <1>9 DEF DeviceHears
  <2>2. Head(air[d]) \in S /\ Tail(air[d]) \in Seq(S)
    BY <1>8, <2>1, Shorter
  <2>3. c \in Command /\ Right(a, c, d)
    BY <1>7, <2>1, <2>2 DEF Coming, Data
  <2>4. ASSUME NEW e \in Dev PROVE air'[e] \in Seq(Coming(a, e))
    <3>1. CASE e = d
      <4>1. air'[e] = Tail(air[d])
        BY <1>5, <2>1, <3>1
      <4> QED BY <1>7, <2>2, <3>1, <4>1
    <3>2. CASE e # d
      <4>1. air'[e] = air[e]
        BY <1>5, <2>1, <3>2
      <4> QED BY <1>6, <4>1
    <3> QED BY <3>1, <3>2
  <2>5. ASSUME NEW s \in AnswersOf(d, c), out' = [out EXCEPT ![d] = @ \o s], NEW e \in Dev
        PROVE  out'[e] \in Seq(Answering(a))
    <3>1. s \in Seq(Answer) /\ \A k \in 1 .. Len(s) : s[k].from = d /\ s[k].cmd = c
      BY <2>3, <2>5, AnswerUnits
    <3>2. \A k \in 1 .. Len(s) : s[k] \in Answering(a)
      <4> TAKE k \in 1 .. Len(s)
      <4>1. s[k] \in Unit
        BY <3>1, UnitKinds
      <4> QED BY <2>3, <3>1, <4>1 DEF Answering
    <3>3. s \in Seq(Answering(a))
      BY <3>1, <3>2
    <3>4. CASE e = d
      <4>1. out'[e] = out[d] \o s
        BY <1>5, <2>5, <3>4
      <4>2. out[d] \o s \in Seq(Answering(a))
        BY <1>6, <3>3, Joined
      <4> QED BY <4>1, <4>2
    <3>5. CASE e # d
      <4>1. out'[e] = out[e]
        BY <1>5, <2>5, <3>5
      <4> QED BY <1>6, <4>1
    <3> QED BY <3>4, <3>5
  <2>6. \A e \in Dev : out'[e] \in Seq(Answering(a))
    BY <1>6, <2>1, <2>5
  <2>7. tx' \in Seq(Meaning(a)) /\ rx' \in Seq(Answering(a))
    BY <1>2, <1>4, <2>1 DEF Rightly
  <2> QED BY <1>2, <1>4, <2>4, <2>6, <2>7 DEF LateInv, Rightly
<1>10. CASE RadioDelivers(d)
  <2>1. /\ out[d] # <<>> /\ out' = [out EXCEPT ![d] = Tail(@)] /\ UNCHANGED air
        /\ UNCHANGED rx \/ rx' = rx \o <<Head(out[d])>>
    BY <1>10 DEF RadioDelivers, Says
  <2>2. PICK h : h = Head(out[d])
    OBVIOUS
  <2>3. h \in Answering(a) /\ Tail(out[d]) \in Seq(Answering(a))
    BY <1>6, <2>1, <2>2, Shorter
  <2>4. rx' \in Seq(Answering(a))
    <3>1. rx \in Seq(Answering(a))
      BY <1>2 DEF Rightly
    <3>2. rx \o <<h>> \in Seq(Answering(a))
      BY <2>3, <3>1, Single, Joined
    <3> QED BY <2>1, <2>2, <3>1, <3>2
  <2>5. ASSUME NEW e \in Dev PROVE air'[e] \in Seq(Coming(a, e)) /\ out'[e] \in Seq(Answering(a))
    <3>1. out'[e] = out[e] \/ out'[e] = Tail(out[d])
      BY <1>5, <2>1
    <3> QED BY <1>6, <2>1, <2>3, <3>1
  <2>6. tx' \in Seq(Meaning(a))
    BY <1>2, <1>4 DEF Rightly
  <2> QED BY <1>2, <1>4, <2>4, <2>5, <2>6 DEF LateInv, Rightly
<1> QED BY <1>9, <1>10

LEMMA LateEnvironment ==
    ASSUME TypeInv, Environment, ~ Lossy, ~ Refuses, LateInv
    PROVE  LateInv'
<1>1. ASSUME NEW a \in 0 .. Cardinality(Dev) - 1, ManagerCalls(a) PROVE LateInv'
  <2>1. UNCHANGED <<thread, asked, tx, rx, command_mode, dh, dl, air, out>>
    BY <1>1 DEF ManagerCalls, broker, radio, modem, history
  <2> QED BY <2>1 DEF LateInv, Rightly
<1>2. ~ ModemLeaves
  BY DEF ModemLeaves
<1> QED BY <1>1, <1>2, LateModem, LateDevice DEF Environment

\* The next order of a connection, or of its end.
LEMMA NextOrder ==
    ASSUME NEW s, StateOK("listener", s), NEW u, StateOK("listener", u), Orders(s, u), u.dev = s.dev
    PROVE  \E w \in 0 .. 3, d \in Dev \cup {NULL} :
              /\ s.phase \in {"connect", "disconnect"} /\ u.phase = s.phase
              /\ (s.phase = "connect" => d = s.dev /\ d \in Dev)
              /\ w = Written(s) /\ w + 1 = Written(u) /\ Head(s.todo) = ConnectOrders(d)[w + 1]
              /\ Head(s.todo) \in Order /\ Head(s.todo).op # "data"
              /\ Head(s.todo).op \in InMode <=> w \in 1 .. 3
              /\ Head(s.todo).op \in Into <=> w + 1 \in 1 .. 3
<1>1. s.todo # <<>> /\ ~ s.waiting /\ u.todo = Tail(s.todo) /\ u.phase = s.phase
  BY DEF Orders
<1>2. s.phase \in {"connect", "disconnect"}
  BY <1>1 DEF StateOK, Ordering, PhasesOf
<1>3. /\ s.todo \in Seq(Setting) /\ Len(s.todo) <= 4
      /\ \A k \in 1 .. Len(s.todo) : s.todo[k] = OrdersOf(s)[Written(s) + k]
  BY <1>2 DEF StateOK
<1>4. /\ Head(s.todo) = s.todo[1] /\ 1 \in 1 .. Len(s.todo) /\ Len(s.todo) \in Nat \ {0}
      /\ Len(Tail(s.todo)) = Len(s.todo) - 1 /\ Head(s.todo) \in Setting
  BY <1>1, <1>3, Shorter
<1>5. PICK n \in Nat \ {0} : n = Len(s.todo) /\ n <= 4
  BY <1>3, <1>4
<1>6. \A k \in Nat \ {0} : k <= 4 => 4 - k \in 0 .. 3 /\ 4 - k + 1 = 4 - (k - 1)
  OBVIOUS
<1>7. PICK w \in 0 .. 3 : w = Written(s) /\ w + 1 = Written(u)
  BY <1>1, <1>4, <1>5, <1>6 DEF Written
<1>8. PICK d \in Dev \cup {NULL} : (s.phase = "connect" => d = s.dev /\ d \in Dev) /\ OrdersOf(s) = ConnectOrders(d)
  BY <1>2 DEF OrdersOf, DisconnectOrders, StateOK, Meant
<1>9. PICK x : x = Head(s.todo)
  OBVIOUS
<1>10. x = ConnectOrders(d)[w + 1]
  BY <1>3, <1>4, <1>7, <1>8, <1>9
<1>11. /\ ConnectOrders(d)[1] = ToModem("+++", NULL) /\ ConnectOrders(d)[2] = ToModem("ATDH", d)
       /\ ConnectOrders(d)[3] = ToModem("ATDL", d) /\ ConnectOrders(d)[4] = ToModem("ATCN", NULL)
  BY FourOrders
<1>12. /\ w = 0 => x.op = "+++"
       /\ w = 1 => x.op = "ATDH"
       /\ w = 2 => x.op = "ATDL"
       /\ w = 3 => x.op = "ATCN"
  <2>1. \A o, e : ToModem(o, e).op = o
    BY DEF ToModem
  <2>2. ASSUME w = 0 PROVE x.op = "+++"
    BY <1>10, <1>11, <2>1, <2>2
  <2>3. ASSUME w = 1 PROVE x.op = "ATDH"
    BY <1>10, <1>11, <2>1, <2>3
  <2>4. ASSUME w = 2 PROVE x.op = "ATDL"
    BY <1>10, <1>11, <2>1, <2>4
  <2>5. ASSUME w = 3 PROVE x.op = "ATCN"
    BY <1>10, <1>11, <2>1, <2>5
  <2> QED BY <2>2, <2>3, <2>4, <2>5
<1>13. x \in Order /\ x.op # "data" /\ (x.op \in InMode <=> w \in 1 .. 3) /\ (x.op \in Into <=> w + 1 \in 1 .. 3)
  BY <1>4, <1>9, <1>12, SettingIsOrder DEF InMode, Into
<1> QED BY <1>1, <1>2, <1>7, <1>8, <1>9, <1>10, <1>13

LEMMA WriterWrites ==
    ASSUME NEW s, StateOK("listener", s), NEW u, StateOK("listener", u), Orders(s, u), u.dev = s.dev,
           NEW q \in Seq(Order \cup Data), NEW m, NEW h, NEW l, Stream(q, m, h, l), Writer(s, q, m, h, l)
    PROVE  LET e == Head(s.todo) IN
           /\ Stream(Append(q, e), m, h, l) /\ Writer(u, Append(q, e), m, h, l)
           /\ \A a : e \in Meaning(a)
<1>1. PICK e : e = Head(s.todo)
  OBVIOUS
<1>2. PICK w \in 0 .. 3, d \in Dev \cup {NULL} :
              /\ s.phase \in {"connect", "disconnect"} /\ u.phase = s.phase
              /\ (s.phase = "connect" => d = s.dev /\ d \in Dev)
              /\ w = Written(s) /\ w + 1 = Written(u) /\ e = ConnectOrders(d)[w + 1]
              /\ e \in Order /\ e.op # "data" /\ (e.op \in InMode <=> w \in 1 .. 3)
              /\ (e.op \in Into <=> w + 1 \in 1 .. 3)
  BY <1>1, NextOrder
<1>3. EndMode(q, m) <=> e.op \in InMode
  BY <1>2 DEF Writer
<1>4. Stream(Append(q, e), m, h, l) /\ (EndMode(Append(q, e), m) <=> e.op \in Into)
  <2>1. e \in Order \cup Data
    BY <1>2
  <2>2. e.op = "data" => Leads(q, Len(q) + 1, 4, e.dev, h, l)
    BY <1>2
  <2> QED BY <1>3, <2>1, <2>2, StreamWrites
<1>5. ASSUME u.phase = "connect" PROVE Leads(Append(q, e), Len(Append(q, e)) + 1, Written(u), u.dev, h, l)
  <2>1. d \in Dev /\ d = u.dev /\ e \in Order \cup Data
    BY <1>2, <1>5
  <2>2. Leads(q, Len(q) + 1, w, d, h, l)
    BY <1>2, <1>5, <2>1 DEF Writer
  <2>3. Leads(Append(q, e), Len(q) + 2, w + 1, d, h, l)
    BY <1>2, <2>1, <2>2, LeadsWrites
  <2>4. Len(Append(q, e)) + 1 = Len(q) + 2
    BY <2>1
  <2> QED BY <1>2, <2>1, <2>3, <2>4
<1>6. Writer(u, Append(q, e), m, h, l)
  BY <1>2, <1>4, <1>5 DEF Writer
<1>7. \A a : e \in Meaning(a)
  BY <1>2 DEF Meaning
<1> QED BY <1>1, <1>4, <1>6, <1>7

\* The listener between its orders: nothing is written, the mode is left.
LEMMA WriterRests ==
    ASSUME NEW q \in Seq(Order \cup Data), NEW m, NEW h, NEW l, NEW s, StateOK("listener", s), Writer(s, q, m, h, l),
           ~ (s.phase \in {"connect", "disconnect"} /\ s.todo # <<>>),
           NEW u, StateOK("listener", u),
           Begins(u, "connect") \/ Begins(u, "disconnect") \/ u.phase \notin {"connect", "disconnect"}
    PROVE  ~ EndMode(q, m) /\ Writer(u, q, m, h, l)
<1>1. ASSUME s.todo = <<>> PROVE Written(s) = 4
  <2>1. Len(s.todo) = 0
    BY <1>1
  <2> QED BY <2>1 DEF Written
<1>2. ~ EndMode(q, m)
  <2>1. ~ (s.phase \in {"connect", "disconnect"} /\ Written(s) \in 1 .. 3)
    BY <1>1
  <2> QED BY <2>1 DEF Writer
<1>3. CASE Begins(u, "connect") \/ Begins(u, "disconnect")
  <2>1. Written(u) = 0
    BY <1>3 DEF Begins, Written
  <2>2. Leads(q, Len(q) + 1, 0, u.dev, h, l)
    BY DEF Leads
  <2> QED BY <1>2, <2>1, <2>2 DEF Writer
<1>4. CASE u.phase \notin {"connect", "disconnect"}
  BY <1>2, <1>4 DEF Writer
<1> QED BY <1>2, <1>3, <1>4

LEMMA LateStep ==
    ASSUME TypeInv, Step("listener"), LateInv
    PROVE  LateInv'
<1> USE Threads
<1>1. PICK s, a : s = thread["listener"] /\ a = asked
  OBVIOUS
<1>2. /\ Stream(tx, command_mode, dh, dl) /\ Writer(s, tx, command_mode, dh, dl)
      /\ Rightly(a) /\ Gathers(s, a) /\ StateOK("listener", s)
  BY <1>1, ThreadIsOK DEF LateInv
<1>3. tx \in Seq(Order \cup Data) /\ tx \in Seq(Meaning(a)) /\ rx \in Seq(Answering(a))
  BY <1>2 DEF TypeInv, LineOK, Rightly
<1>4. PICK u : /\ Goes("listener", u) /\ StateOK("listener", u) /\ u.dev = s.dev
               /\ Orders(s, u) \/ Replied(s, u) \/ Collected(s, u) \/ Expired(s, u)
  BY <1>1, StepGoes
<1>5. /\ asked' = a /\ UNCHANGED <<command_mode, dh, dl, air, out>> /\ thread'["listener"] = u
  BY <1>1, <1>4, StepGoes, Went DEF modem, history
<1>6. ASSUME tx' \in Seq(Meaning(a)), rx' \in Seq(Answering(a)), Stream(tx', command_mode, dh, dl),
             Writer(u, tx', command_mode, dh, dl), Gathers(u, a)
      PROVE  LateInv'
  BY <1>2, <1>5, <1>6 DEF LateInv, Rightly
<1>7. CASE Orders(s, u)
  <2>1. PICK e : e = Head(s.todo) /\ tx' = Append(tx, e) /\ rx' = rx /\ u.phase = s.phase /\ u.buf = s.buf
    BY <1>7 DEF Orders
  <2>2. /\ Stream(tx', command_mode, dh, dl) /\ Writer(u, tx', command_mode, dh, dl) /\ e \in Meaning(a)
    BY <1>2, <1>3, <1>4, <1>7, <2>1, WriterWrites
  <2>3. tx' \in Seq(Meaning(a))
    BY <1>3, <2>1, <2>2, Longer
  <2> QED BY <1>2, <1>3, <1>6, <2>1, <2>2, <2>3 DEF Gathers
<1>8. CASE Replied(s, u)
  <2>1. tx' = tx /\ u.phase = s.phase /\ u.buf = s.buf /\ u.todo = s.todo /\ (rx' = rx \/ (rx # <<>> /\ rx' = Tail(rx)))
    BY <1>8 DEF Replied
  <2>2. rx' \in Seq(Answering(a))
    BY <1>3, <2>1, Shorter
  <2>3. Writer(u, tx, command_mode, dh, dl)
    BY <1>2, <1>4, <2>1 DEF Writer, Written
  <2> QED BY <1>2, <1>3, <1>6, <2>1, <2>2, <2>3 DEF Gathers
<1>9. CASE Collected(s, u)
  <2>1. /\ s.phase = "answer" /\ u.phase \notin {"connect", "disconnect"}
        /\ tx' = tx /\ rx # <<>> /\ rx' = Tail(rx) /\ u.buf = Append(s.buf, Head(rx))
    BY <1>9 DEF Collected
  <2>2. rx' \in Seq(Answering(a)) /\ Head(rx) \in Answering(a) /\ s.buf \in Seq(Answering(a))
    BY <1>2, <1>3, <2>1, Shorter DEF Gathers
  <2>3. u.buf \in Seq(Answering(a))
    BY <2>1, <2>2, Longer
  <2>4. Writer(u, tx, command_mode, dh, dl)
    BY <1>2, <1>3, <1>4, <2>1, WriterRests
  <2> QED BY <1>2, <1>3, <1>6, <2>1, <2>2, <2>3, <2>4 DEF Gathers
<1>10. CASE Expired(s, u)
  <2>1. s.phase = "answer" /\ u.phase = "timeout" /\ tx' = tx /\ rx' = rx
    BY <1>10 DEF Expired
  <2>2. Writer(u, tx, command_mode, dh, dl)
    BY <1>2, <1>3, <1>4, <2>1, WriterRests
  <2> QED BY <1>2, <1>3, <1>6, <2>1, <2>2 DEF Gathers
<1> QED BY <1>4, <1>7, <1>8, <1>9, <1>10

LEMMA LateListener ==
    ASSUME TypeInv, Listener, ServedOK, LateInv
    PROVE  LateInv'
<1> USE Threads
<1>1. PICK s, a : s = thread["listener"] /\ a = asked
  OBVIOUS
<1>2. /\ Stream(tx, command_mode, dh, dl) /\ Writer(s, tx, command_mode, dh, dl)
      /\ Rightly(a) /\ Gathers(s, a) /\ StateOK("listener", s)
  BY <1>1, ThreadIsOK DEF LateInv
<1>3. /\ tx \in Seq(Order \cup Data) /\ tx \in Seq(Meaning(a)) /\ rx \in Seq(Answering(a))
      /\ a \in Seq(Dev \cup {NULL}) /\ open \in Nat
  BY <1>1, <1>2 DEF TypeInv, LineOK, ManagerOK, Rightly
<1>4. UNCHANGED <<command_mode, dh, dl, air, out>>
  BY ListenerGoes DEF modem
<1>5. CASE Step("listener")
  BY <1>5, LateStep
<1>6. CASE Unknown
  <2>1. asked' = Append(a, NULL) /\ UNCHANGED <<thread, tx, rx>>
    BY <1>1, <1>6 DEF Unknown
  <2>2. Rightly(asked') /\ Gathers(s, asked')
    BY <1>2, <1>3, <2>1, RightlyGrows
  <2> QED BY <1>1, <1>2, <1>4, <2>1, <2>2 DEF LateInv, Rightly
<1>7. ASSUME NEW u, Goes("listener", u), StateOK("listener", u),
             Taken(s, u) \/ Sent(s, u) \/ NotSent(s, u) \/ Finished(s, u) \/ Closed(s, u)
      PROVE  LateInv'
  <2>1. thread'["listener"] = u
    BY <1>7, Went
  <2>2. ~ (s.phase \in {"connect", "disconnect"} /\ s.todo # <<>>)
    BY <1>7 DEF Taken, Sent, NotSent, Finished, Closed, AtRest
  <2>3. CASE Sent(s, u)
    <3>1. PICK e : e = [op |-> "data", dev |-> s.dev, cmd |-> Call(open)] /\ tx' = Append(tx, e)
      BY <2>3 DEF Sent
    <3>2. /\ s.phase = "connect" /\ s.todo = <<>> /\ u.phase = "answer" /\ u.buf = <<>> /\ rx' = rx /\ asked' = a
          /\ s.dev \in Dev
      BY <1>1, <1>2, <2>3 DEF Sent, AtRest, StateOK, Meant
    <3>3. Written(s) = 4
      <4>1. Len(s.todo) = 0
        BY <3>2
      <4> QED BY <4>1 DEF Written
    <3>4. e \in Data /\ e.op = "data" /\ e.dev = s.dev /\ e.cmd = Call(open)
      <4>1. Call(open) \in Command
        BY <1>3, CommandType
      <4> QED BY <3>1, <3>2, <4>1 DEF Data
    <3>5. e \in Meaning(a)
      <4>1. open # 0 /\ open = Len(a) /\ a[open] = s.dev
        BY <1>1, <3>2 DEF ServedOK
      <4>2. open \in 1 .. Len(a)
        BY <1>3, <4>1
      <4> QED BY <3>4, <4>1, <4>2 DEF Meaning, Right, Call
    <3>6. ~ EndMode(tx, command_mode)
      BY <1>2, <1>3, <1>7, <2>2, <3>2, WriterRests
    <3>7. Leads(tx, Len(tx) + 1, 4, e.dev, dh, dl)
      BY <1>2, <3>2, <3>3, <3>4 DEF Writer
    <3>8. /\ Stream(tx', command_mode, dh, dl) /\ (EndMode(tx', command_mode) <=> e.op \in Into)
      <4>1. e.op \notin InMode /\ e \in Order \cup Data
        BY <3>4 DEF InMode
      <4> QED BY <1>2, <1>3, <3>1, <3>4, <3>6, <3>7, <4>1, StreamWrites
    <3>9. Writer(u, tx', command_mode, dh, dl)
      BY <3>2, <3>4, <3>8 DEF Writer, Into
    <3>10. tx' \in Seq(Meaning(a)) /\ Gathers(u, a)
      <4>1. <<>> \in Seq(Answering(a))
        OBVIOUS
      <4> QED BY <1>3, <3>1, <3>2, <3>5, <4>1, Longer DEF Gathers
    <3> QED BY <1>2, <1>4, <2>1, <3>2, <3>8, <3>9, <3>10 DEF LateInv, Rightly
  <2>4. CASE Taken(s, u) \/ NotSent(s, u) \/ Finished(s, u) \/ Closed(s, u)
    <3>1. /\ tx' = tx /\ (rx' = rx \/ rx' = <<>>) /\ u.phase \notin {"answer", "completed"}
          /\ asked' = a \/ (asked' = Append(a, u.dev) /\ u.phase = "connect")
          /\ Begins(u, "connect") \/ Begins(u, "disconnect") \/ u.phase \notin {"connect", "disconnect"}
      BY <1>1, <2>4 DEF Taken, NotSent, Finished, Closed, Begins
    <3>2. Writer(u, tx, command_mode, dh, dl)
      BY <1>2, <1>3, <1>7, <2>2, <3>1, WriterRests
    <3>3. Rightly(asked')
      <4>1. asked' = Append(a, u.dev) => u.dev \in Dev \cup {NULL} \/ asked' = a
        BY <1>7, <3>1 DEF StateOK, Meant
      <4> QED BY <1>2, <1>3, <3>1, <4>1, RightlyGrows
    <3>4. rx' \in Seq(Answering(asked'))
      <4>1. <<>> \in Seq(Answering(asked')) /\ rx \in Seq(Answering(asked'))
        BY <3>3 DEF Rightly
      <4> QED BY <3>1, <4>1
    <3>5. Gathers(u, asked')
      BY <3>1 DEF Gathers
    <3> QED BY <1>2, <1>4, <2>1, <3>1, <3>2, <3>3, <3>4, <3>5 DEF LateInv, Rightly
  <2> QED BY <1>7, <2>3, <2>4
<1> QED BY <1>1, <1>5, <1>6, <1>7, ListenerGoes

----------------------------------------------------------------------------
\* ImplementsRequestAnswer.

LEMMA ServedListener ==
    ASSUME TypeInv, ServedOK, Listener
    PROVE  ServedOK'
<1> USE Threads
<1>1. PICK s : s = thread["listener"]
  OBVIOUS
<1>2. /\ open = 0 <=> s.phase \in {"recv", "disconnect"}
      /\ open # 0 => open = Len(asked) /\ asked[open] = s.dev
      /\ StateOK("listener", s)
  BY <1>1, ThreadIsOK DEF ServedOK
<1>3. asked \in Seq(Dev \cup {NULL}) /\ Len(asked) \in Nat /\ open \in Nat
  BY DEF TypeInv, ManagerOK
<1>4. CASE Step("listener")
  <2>1. PICK u : /\ Goes("listener", u) /\ StateOK("listener", u) /\ u.dev = s.dev
                 /\ Orders(s, u) \/ Replied(s, u) \/ Collected(s, u) \/ Expired(s, u)
    BY <1>1, <1>4, StepGoes
  <2>2. UNCHANGED <<asked, open>> /\ thread'["listener"] = u
    BY <1>4, <2>1, StepGoes, Went DEF history
  <2>3. u.phase = s.phase \/ (s.phase = "answer" /\ u.phase \in {"completed", "timeout", "answer"})
    BY <2>1 DEF Orders, Replied, Collected, Expired
  <2> QED BY <1>2, <2>1, <2>2, <2>3 DEF ServedOK
<1>5. CASE Unknown
  <2>1. open = 0 /\ UNCHANGED <<thread, open>>
    BY <1>1, <1>2, <1>5 DEF Unknown, AtRest
  <2> QED BY <1>1, <1>2, <2>1 DEF ServedOK
<1>6. ASSUME NEW u, Goes("listener", u), StateOK("listener", u),
             Taken(s, u) \/ Sent(s, u) \/ NotSent(s, u) \/ Finished(s, u) \/ Closed(s, u)
      PROVE  ServedOK'
  <2>1. thread'["listener"] = u
    BY <1>6, Went
  <2>2. CASE Taken(s, u)
    <3>1. u.phase = "connect" /\ asked' = Append(asked, u.dev) /\ open' = Len(asked) + 1
      BY <2>2 DEF Taken, Begins
    <3>2. u.dev \in Dev \cup {NULL}
      BY <1>6, <3>1 DEF StateOK, Meant
    <3>3. open' # 0 /\ open' = Len(asked') /\ asked'[open'] = u.dev
      BY <1>3, <3>1, <3>2, Longer
    <3> QED BY <2>1, <3>1, <3>3 DEF ServedOK
  <2>3. CASE Sent(s, u)
    BY <1>2, <2>1, <2>3 DEF Sent, AtRest, ServedOK
  <2>4. CASE NotSent(s, u) \/ Finished(s, u)
    BY <2>1, <2>4 DEF NotSent, Finished, Begins, ServedOK
  <2>5. CASE Closed(s, u)
    BY <1>2, <2>1, <2>5 DEF Closed, AtRest, ServedOK
  <2> QED BY <1>6, <2>2, <2>3, <2>4, <2>5
<1> QED BY <1>1, <1>4, <1>5, <1>6, ListenerGoes

LEMMA ContentType ==
    ASSUME NEW b \in Seq(Unit)
    PROVE  Content(b) \in SUBSET Saying
<1>1. \A c \in Command : c.n \in Nat
  BY DEF Command, SYN, DES
<1>2. ASSUME NEW u \in Unit
      PROVE  (IF u.unit = "answer" THEN [n |-> u.cmd.n, dev |-> u.from] ELSE [n |-> 0, dev |-> NULL]) \in Saying
  BY <1>1, UnitKinds DEF Saying
<1>3. \A u \in {b[k] : k \in 1 .. Len(b)} : u \in Unit
  OBVIOUS
<1> QED BY <1>2, <1>3 DEF Content

LEMMA AnswersListener ==
    ASSUME TypeInv, AnswersOK, Listener
    PROVE  AnswersOK'
<1> USE Threads
<1> DEFINE s == thread["listener"]
<1>1. s.buf \in Seq(Unit) /\ open \in Nat
  BY ThreadIsOK DEF TypeInv, ManagerOK
<1>2. UNCHANGED answers \/ answers' = Append(answers, [to |-> open, carries |-> Content(s.buf)])
  <2>1. ASSUME Step("listener") PROVE UNCHANGED answers
    BY <2>1, StepGoes DEF history
  <2>2. ASSUME NEW u, Taken(s, u) \/ Sent(s, u) \/ NotSent(s, u) \/ Finished(s, u) \/ Closed(s, u)
        PROVE  UNCHANGED answers \/ answers' = Append(answers, [to |-> open, carries |-> Content(s.buf)])
    BY <2>2 DEF Taken, Sent, NotSent, Finished, Closed
  <2> QED BY <2>1, <2>2, ListenerGoes DEF Unknown
<1>3. PICK e : e = [to |-> open, carries |-> Content(s.buf)]
  OBVIOUS
<1>4. e \in [to : Nat, carries : SUBSET Saying]
  BY <1>1, <1>3, ContentType
<1>5. Append(answers, e) \in Seq([to : Nat, carries : SUBSET Saying])
  BY <1>4, Longer DEF AnswersOK
<1> QED BY <1>2, <1>3, <1>5 DEF AnswersOK

LEMMA PromiseNext == TypeInv /\ ServeInv /\ PromiseInv /\ [Next]_vars => PromiseInv'
<1> SUFFICES ASSUME TypeInv, ServeInv, PromiseInv, [Next]_vars PROVE PromiseInv'
  OBVIOUS
<1>1. UNCHANGED given
  BY OthersStay, EnvironmentKeeps DEF Next, vars, history
<1>2. ServedOK /\ AnswersOK
  BY DEF PromiseInv
<1>3. CASE Listener
  <2>1. ServedOK' /\ AnswersOK'
    BY <1>2, <1>3, ServedListener, AnswersListener
  <2>2. ASSUME LateInv PROVE LateInv'
    BY <1>2, <1>3, <2>2, LateListener
  <2> QED BY <1>1, <2>1, <2>2 DEF PromiseInv, Late, Lossy, Refuses
<1>4. CASE Main
  <2>1. UNCHANGED <<asked, open, answers>> /\ thread'["listener"] = thread["listener"]
    BY <1>4, OthersStay, MainGoes
  <2>2. ServedOK' /\ AnswersOK'
    BY <1>2, <2>1 DEF ServedOK, AnswersOK
  <2>3. given.scan
    BY <1>4, OneThread DEF ServeInv
  <2> QED BY <1>1, <2>2, <2>3 DEF PromiseInv
<1>5. CASE Environment
  <2>1. UNCHANGED <<asked, open, answers, thread>>
    BY <1>5, EnvironmentKeeps DEF broker, history
  <2>2. ServedOK' /\ AnswersOK'
    BY <1>2, <2>1 DEF ServedOK, AnswersOK
  <2>3. ASSUME LateInv, ~ Lossy, ~ Refuses PROVE LateInv'
    BY <1>5, <2>3, LateEnvironment
  <2> QED BY <1>1, <2>2, <2>3 DEF PromiseInv, Late, Lossy, Refuses
<1>6. CASE UNCHANGED vars
  <2>1. UNCHANGED <<asked, open, answers, thread, tx, rx, command_mode, dh, dl, air, out>>
    BY <1>6 DEF vars, broker, radio, modem, history
  <2>2. ServedOK' /\ AnswersOK'
    BY <1>2, <2>1 DEF ServedOK, AnswersOK
  <2>3. ASSUME LateInv PROVE LateInv'
    BY <2>1, <2>3 DEF LateInv, Rightly
  <2> QED BY <1>1, <2>2, <2>3 DEF PromiseInv, Late, Lossy, Refuses
<1> QED BY <1>3, <1>4, <1>5, <1>6 DEF Next

LEMMA PromiseInit == Init => PromiseInv /\ Promise!Init
<1> SUFFICES ASSUME Init PROVE PromiseInv /\ Promise!Init
  OBVIOUS
<1>1. /\ tx = <<>> /\ rx = <<>> /\ air = [d \in Dev |-> <<>>] /\ out = [d \in Dev |-> <<>>]
      /\ command_mode = FALSE /\ asked = <<>> /\ open = 0 /\ answers = <<>> /\ given \in Condition
  BY ConditionsAssumption DEF Init, InitScanning, InitServing, InitLine, Condition
<1>2. PICK u : u = thread["listener"] /\ u.phase = "recv"
  <2>1. thread["listener"] = Fresh("recv", NULL, <<>>)
    BY Threads DEF Init, InitScanning, InitServing
  <2> QED BY <2>1 DEF Fresh
<1>3. ServedOK /\ AnswersOK
  BY <1>1, <1>2 DEF ServedOK, AnswersOK
<1>4. Stream(tx, command_mode, dh, dl)
  BY <1>1 DEF Stream
<1>5. Writer(u, tx, command_mode, dh, dl)
  BY <1>1, <1>2 DEF Writer, EndMode
<1>6. Rightly(asked) /\ Gathers(u, asked)
  <2>1. \A S : <<>> \in Seq(S)
    OBVIOUS
  <2> QED BY <1>1, <1>2, <2>1 DEF Rightly, Gathers
<1>7. LateInv
  BY <1>2, <1>4, <1>5, <1>6 DEF LateInv
<1>8. Promise!Init
  <2>1. Late \in BOOLEAN
    BY <1>1 DEF Late, Condition
  <2>2. [k \in DOMAIN answers |-> SaidByDevices(answers[k])] = <<>>
    BY <1>1
  <2> QED BY <1>1, <2>1, <2>2 DEF Promise!Init, Served
<1> QED BY <1>3, <1>7, <1>8 DEF PromiseInv

\* The answers as the manager's promise sees them: what devices said, where the
\* modem's replies may stand between.
Strip(b, a) == IF b THEN [a EXCEPT !.carries = {s \in @ : s.dev # NULL}] ELSE a
Stripped(b, q) == [k \in DOMAIN q |-> Strip(b, q[k])]
AnswerType == [to : Nat, carries : SUBSET Saying]

LEMMA StrippedGrows ==
    ASSUME NEW b, NEW q \in Seq(AnswerType), NEW e \in AnswerType
    PROVE  Stripped(b, Append(q, e)) = Append(Stripped(b, q), Strip(b, e))
<1>1. ASSUME NEW a \in AnswerType PROVE Strip(b, a) \in AnswerType
  BY DEF Strip, AnswerType
<1>2. PICK p, n : p = Append(q, e) /\ n = Len(q)
  OBVIOUS
<1>3. /\ p \in Seq(AnswerType) /\ n \in Nat /\ Len(p) = n + 1 /\ DOMAIN p = 1 .. n + 1 /\ DOMAIN q = 1 .. n
      /\ \A k \in 1 .. n : p[k] = q[k] /\ q[k] \in AnswerType
      /\ p[n + 1] = e
  BY <1>2, Longer
<1>4. PICK f, g, x : f = Stripped(b, p) /\ g = Stripped(b, q) /\ x = Strip(b, e)
  OBVIOUS
<1>5. x \in AnswerType
  BY <1>1, <1>4
<1>6. g \in Seq(AnswerType) /\ Len(g) = n /\ \A k \in 1 .. n : g[k] = Strip(b, q[k])
  <2>1. g = [k \in 1 .. n |-> Strip(b, q[k])]
    BY <1>3, <1>4 DEF Stripped
  <2> QED BY <1>1, <1>3, <2>1
<1>7. f \in Seq(AnswerType) /\ Len(f) = n + 1 /\ \A k \in 1 .. n + 1 : f[k] = Strip(b, p[k])
  <2>1. f = [k \in 1 .. n + 1 |-> Strip(b, p[k])]
    BY <1>3, <1>4 DEF Stripped
  <2>2. \A k \in 1 .. n + 1 : p[k] \in AnswerType
    BY <1>3
  <2> QED BY <1>1, <1>3, <2>1, <2>2
<1>8. PICK h : h = Append(g, x)
  OBVIOUS
<1>9. /\ h \in Seq(AnswerType) /\ Len(h) = n + 1 /\ h[n + 1] = x
      /\ \A k \in 1 .. n : h[k] = g[k]
  BY <1>5, <1>6, <1>8, Longer
<1>10. ASSUME NEW k \in 1 .. n + 1 PROVE f[k] = h[k]
  <2>1. CASE k = n + 1
    BY <1>3, <1>4, <1>7, <1>9, <2>1
  <2>2. CASE k # n + 1
    <3>1. k \in 1 .. n
      BY <1>3, <2>2
    <3> QED BY <1>3, <1>6, <1>7, <1>9, <3>1
  <2> QED BY <2>1, <2>2
<1>11. f = h
  BY <1>3, <1>7, <1>9, <1>10
<1> QED BY <1>2, <1>4, <1>8, <1>11

\* Made of one answer only, it carries what the device said to the command.
LEMMA WholeCarries ==
    ASSUME NEW b \in Seq(Unit), b # <<>>, NEW d, NEW n, Part(b, d, Call(n))
    PROVE  Content(b) = {[n |-> n, dev |-> d]}
<1>1. 1 \in 1 .. Len(b)
  BY Shorter
<1>2. \A k \in 1 .. Len(b) : b[k].unit = "answer" /\ b[k].from = d /\ b[k].cmd.n = n
  BY DEF Part, Call
<1>3. PICK s : s = [n |-> n, dev |-> d]
  OBVIOUS
<1>4. \A u \in {b[k] : k \in 1 .. Len(b)} :
          (IF u.unit = "answer" THEN [n |-> u.cmd.n, dev |-> u.from] ELSE [n |-> 0, dev |-> NULL]) = s
  BY <1>2, <1>3
<1>5. \E u \in {b[k] : k \in 1 .. Len(b)} : TRUE
  BY <1>1
<1> QED BY <1>3, <1>4, <1>5 DEF Content

\* Of units that all were asked for, what devices said was said to a package
\* taken so far; and a buffer that begins with a start code holds some of it.
LEMMA GatheredCarries ==
    ASSUME NEW a \in Seq(Dev \cup {NULL}), NEW b \in Seq(Answering(a)), b # <<>>, HasStart(Head(b))
    PROVE  LET S == {x \in Content(b) : x.dev # NULL} IN
           /\ S # {}
           /\ S \subseteq {[n |-> n, dev |-> a[n]] : n \in {n \in 1 .. Len(a) : a[n] # NULL}}
<1>1. ASSUME NEW u \in Answering(a), u.unit = "answer"
      PROVE  u.cmd.n \in 1 .. Len(a) /\ a[u.cmd.n] = u.from /\ u.from \in Dev /\ u.from # NULL
  <2>1. u.cmd.n \in 1 .. Len(a) /\ a[u.cmd.n] = u.from /\ u \in Unit
    BY <1>1 DEF Answering, Right
  <2>2. u.from \in Dev
    BY <1>1, <2>1, UnitKinds
  <2> QED BY <2>1, <2>2, NullAssumption
<1>2. 1 \in 1 .. Len(b) /\ b[1].unit = "answer" /\ \A k \in 1 .. Len(b) : b[k] \in Answering(a)
  BY Shorter DEF HasStart
<1>3. ASSUME NEW k \in 1 .. Len(b), b[k].unit = "answer"
      PROVE  /\ [n |-> b[k].cmd.n, dev |-> b[k].from] \in Content(b)
             /\ b[k].from # NULL
  BY <1>1, <1>2, <1>3 DEF Content
<1>4. [n |-> b[1].cmd.n, dev |-> b[1].from] \in {x \in Content(b) : x.dev # NULL}
  BY <1>2, <1>3
<1>5. ASSUME NEW x \in Content(b), x.dev # NULL
      PROVE  x \in {[n |-> n, dev |-> a[n]] : n \in {n \in 1 .. Len(a) : a[n] # NULL}}
  <2>1. PICK k \in 1 .. Len(b) :
          x = IF b[k].unit = "answer" THEN [n |-> b[k].cmd.n, dev |-> b[k].from] ELSE [n |-> 0, dev |-> NULL]
    BY DEF Content
  <2>2. b[k].unit = "answer" /\ x = [n |-> b[k].cmd.n, dev |-> b[k].from]
    BY <1>5, <2>1
  <2>3. PICK m : m = b[k].cmd.n
    OBVIOUS
  <2>4. m \in 1 .. Len(a) /\ a[m] # NULL /\ x = [n |-> m, dev |-> a[m]]
    BY <1>1, <1>2, <2>2, <2>3
  <2> QED BY <2>4
<1> QED BY <1>4, <1>5

\* An answer that is sent, as the promise sees it.
LEMMA AnswerCarries ==
    ASSUME TypeInv, ServeInv, PromiseInv, ~ given.scan, Obeys, thread["listener"].phase = "completed"
    PROVE  LET S == Strip(Late, [to |-> open, carries |-> Content(thread["listener"].buf)]).carries IN
           /\ Strip(Late, [to |-> open, carries |-> Content(thread["listener"].buf)]) = [to |-> open, carries |-> S]
           /\ S # {} /\ S \subseteq Promise!SaidSoFar
           /\ ~ Late => S = {[n |-> open, dev |-> asked[open]]}
<1> USE Threads
<1>1. PICK s, C : s = thread["listener"] /\ C = Content(s.buf)
  OBVIOUS
<1>2. /\ StateOK("listener", s) /\ s.phase = "completed" /\ s.dev \in Dev
      /\ s.buf \in Seq(Unit) /\ s.buf # <<>> /\ HasStart(Head(s.buf))
  BY <1>1, ThreadIsOK DEF StateOK, Meant, Completed, ThreadState
<1>3. /\ open # 0 /\ open = Len(asked) /\ asked[open] = s.dev
      /\ asked \in Seq(Dev \cup {NULL})
  BY <1>1, <1>2 DEF PromiseInv, ServedOK, TypeInv, ManagerOK
<1>4. open \in 1 .. Len(asked) /\ asked[open] # NULL
  BY <1>2, <1>3, NullAssumption
<1>5. Promise!SaidSoFar = {[n |-> n, dev |-> asked[n]] : n \in {n \in 1 .. Len(asked) : asked[n] # NULL}}
  BY DEF Promise!SaidSoFar, Served
<1>6. CASE ~ Late
  <2>1. Strip(Late, [to |-> open, carries |-> C]) = [to |-> open, carries |-> C]
    BY <1>6 DEF Strip
  <2>2. Serial
    BY <1>6 DEF Serial, Obeys
  <2>3. Part(s.buf, s.dev, Call(open))
    BY <1>1, <1>2, <2>2 DEF ServeInv, SerialInv, LineInv, TalkInv, CommandOf
  <2>4. C = {[n |-> open, dev |-> asked[open]]}
    BY <1>1, <1>2, <1>3, <2>3, WholeCarries
  <2>5. C # {} /\ C \subseteq Promise!SaidSoFar
    BY <1>4, <1>5, <2>4
  <2> QED BY <1>1, <2>1, <2>4, <2>5
<1>7. CASE Late
  <2>1. PICK S : S = {x \in C : x.dev # NULL}
    OBVIOUS
  <2>2. Strip(Late, [to |-> open, carries |-> C]) = [to |-> open, carries |-> S]
    BY <1>7, <2>1 DEF Strip
  <2>3. s.buf \in Seq(Answering(asked))
    BY <1>1, <1>2, <1>7 DEF Obeys, PromiseInv, LateInv, Gathers
  <2>4. S # {} /\ S \subseteq Promise!SaidSoFar
    BY <1>1, <1>2, <1>3, <1>5, <2>1, <2>3, GatheredCarries
  <2>5. ASSUME NEW e, e = Strip(Late, [to |-> open, carries |-> C])
        PROVE  e = [to |-> open, carries |-> e.carries] /\ e.carries = S
    BY <2>2, <2>5
  <2> QED BY <1>1, <1>7, <2>4, <2>5
<1> QED BY <1>6, <1>7

LEMMA PromiseListener ==
    ASSUME TypeInv, ServeInv, PromiseInv, ~ given.scan, Obeys, Listener
    PROVE  [Promise!Next]_(Promise!vars)
<1> USE Threads
<1>1. PICK s, L, A, B : /\ s = thread["listener"] /\ L = Late
                        /\ A = Stripped(Late, answers) /\ B = Stripped(Late, answers')
  OBVIOUS
<1>2. given' = given /\ Late' = L /\ Obeys'
  BY <1>1, ListenerGoes DEF Late, Obeys, Lossy, Refuses
<1>3. /\ [k \in DOMAIN answers |-> SaidByDevices(answers[k])] = A
      /\ [k \in DOMAIN answers |-> SaidByDevices(answers[k])]' = B
  BY <1>1, <1>2 DEF Stripped, Strip, SaidByDevices
<1>4. /\ Served(asked, <<>>) = asked /\ Served(open, 0) = open
      /\ Served([k \in DOMAIN answers |-> SaidByDevices(answers[k])], <<>>) = A
      /\ Served(asked, <<>>)' = asked' /\ Served(open, 0)' = open'
      /\ Served([k \in DOMAIN answers |-> SaidByDevices(answers[k])], <<>>)' = B
  BY <1>2, <1>3 DEF Served
<1>5. /\ open = 0 <=> s.phase \in {"recv", "disconnect"}
      /\ asked \in Seq(Dev \cup {NULL}) /\ open \in Nat /\ answers \in Seq(AnswerType)
  BY <1>1 DEF PromiseInv, ServedOK, AnswersOK, AnswerType, TypeInv, ManagerOK
<1>6. answers' = answers => B = A
  BY <1>1
<1>7. ASSUME UNCHANGED <<asked, open, answers>> PROVE UNCHANGED Promise!vars
  BY <1>1, <1>2, <1>4, <1>6, <1>7 DEF Promise!vars
<1>8. ASSUME NEW d \in Dev \cup {NULL}, open = 0, asked' = Append(asked, d), answers' = answers,
             open' = IF d = NULL THEN 0 ELSE Len(asked) + 1
      PROVE  Promise!Next
  BY <1>1, <1>2, <1>4, <1>6, <1>8 DEF Promise!Next, Promise!Ask
<1>9. ASSUME open # 0, open' = 0, UNCHANGED <<asked, answers>> PROVE Promise!Next
  BY <1>1, <1>2, <1>4, <1>6, <1>9 DEF Promise!Next, Promise!GiveUp
<1>10. CASE Step("listener")
  BY <1>7, <1>10, StepGoes DEF history
<1>11. CASE Unknown
  <2>1. asked' = Append(asked, NULL) /\ UNCHANGED <<open, answers>> /\ open = 0
    BY <1>1, <1>5, <1>11 DEF Unknown, AtRest
  <2> QED BY <1>8, <2>1
<1>12. ASSUME NEW u, Goes("listener", u), StateOK("listener", u),
              Taken(s, u) \/ Sent(s, u) \/ NotSent(s, u) \/ Finished(s, u) \/ Closed(s, u)
       PROVE  [Promise!Next]_(Promise!vars)
  <2>1. CASE Taken(s, u)
    <3>1. /\ asked' = Append(asked, u.dev) /\ open' = Len(asked) + 1 /\ answers' = answers /\ open = 0
          /\ u.phase = "connect"
      BY <1>5, <2>1 DEF Taken, AtRest, Begins
    <3>2. u.dev \in Dev /\ u.dev # NULL
      BY <1>12, <3>1, NullAssumption DEF StateOK, Meant
    <3> QED BY <1>8, <3>1, <3>2
  <2>2. CASE Sent(s, u) \/ Closed(s, u)
    BY <1>7, <2>2 DEF Sent, Closed
  <2>3. CASE NotSent(s, u)
    BY <1>5, <1>9, <2>3 DEF NotSent, AtRest
  <2>4. CASE Finished(s, u)
    <3>1. /\ open # 0 /\ open' = 0 /\ asked' = asked
          /\ answers' = IF s.phase = "completed" THEN Append(answers, [to |-> open, carries |-> Content(s.buf)])
                        ELSE answers
      BY <1>5, <2>4 DEF Finished
    <3>2. CASE s.phase # "completed"
      BY <1>9, <3>1, <3>2
    <3>3. CASE s.phase = "completed"
      <4>1. PICK e : e = [to |-> open, carries |-> Content(s.buf)]
        OBVIOUS
      <4>2. PICK S : /\ Strip(Late, e) = [to |-> open, carries |-> S]
                     /\ S # {} /\ S \subseteq Promise!SaidSoFar
                     /\ ~ Late => S = {[n |-> open, dev |-> asked[open]]}
        BY <1>1, <3>3, <4>1, AnswerCarries
      <4>3. e \in AnswerType
        <5>1. s.buf \in Seq(Unit)
          BY <1>1, ThreadIsOK
        <5> QED BY <1>5, <4>1, <5>1, ContentType DEF AnswerType
      <4>4. B = Append(A, [to |-> open, carries |-> S])
        BY <1>1, <1>5, <3>1, <3>3, <4>1, <4>2, <4>3, StrippedGrows
      <4>5. Promise!Answer(S)
        BY <1>1, <1>2, <1>4, <3>1, <4>2, <4>4 DEF Promise!Answer
      <4> QED BY <4>2, <4>5 DEF Promise!Next
    <3> QED BY <3>2, <3>3
  <2> QED BY <1>12, <2>1, <2>2, <2>3, <2>4
<1> QED BY <1>1, <1>10, <1>11, <1>12, ListenerGoes

LEMMA PromiseStep ==
    ASSUME TypeInv, ServeInv, PromiseInv, [Next]_vars
    PROVE  [Promise!Next]_(Promise!vars)
<1>1. given' = given
  BY OthersStay, EnvironmentKeeps DEF Next, vars, history
<1>2. Late' = Late /\ Obeys' = Obeys
  BY <1>1 DEF Late, Obeys, Lossy, Refuses
<1>3. CASE given.scan \/ ~ Obeys
  BY <1>1, <1>2, <1>3 DEF Promise!vars, Served
<1>4. CASE UNCHANGED <<asked, open, answers>>
  BY <1>1, <1>2, <1>4 DEF Promise!vars, Served, SaidByDevices
<1>5. CASE Listener /\ ~ given.scan /\ Obeys
  BY <1>5, PromiseListener
<1>6. CASE Main
  BY <1>4, <1>6, MainGoes
<1>7. CASE Environment
  BY <1>4, <1>7, EnvironmentKeeps DEF history
<1> QED BY <1>3, <1>4, <1>5, <1>6, <1>7 DEF Next, vars, history

\* The listener keeps the promise of a radio broker, where the modem takes its
\* orders: it takes the manager's packages one at a time, and answers each at
\* most once, before the next, with what its own device said to it if no reply
\* is late, and otherwise with what devices said to packages taken so far
\* (xbee_at_listen_to_manager_loop).
THEOREM Implements == Spec => ImplementsRequestAnswer
<1>1. Spec => Promise!Init
  BY PromiseInit DEF Spec
<1>2. Init => TypeInv /\ ServeInv /\ PromiseInv
  BY TypeInit, LineInit, PromiseInit
<1>3. TypeInv /\ ServeInv /\ PromiseInv /\ [Next]_vars => TypeInv' /\ ServeInv' /\ PromiseInv'
  BY TypeStep, ServeNext, PromiseNext
<1>4. TypeInv /\ ServeInv /\ PromiseInv /\ [Next]_vars => [Promise!Next]_(Promise!vars)
  BY PromiseStep
<1> QED BY <1>1, <1>2, <1>3, <1>4, PTL DEF Spec, ImplementsRequestAnswer, Promise!Spec
==============================================================================
