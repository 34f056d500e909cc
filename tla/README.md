# IoTRepublic in TLA+

IoTRepublic is a software-defined network of small devices.  A *manager* (one
process, `IoTService.cpp`) listens on TCP port 6210; *brokers* connect to it and
speak for devices on some radio (BLE, XBee in API and AT mode) or for made-up
ones (the fake broker); *user interfaces* connect as devices of the group `UI`.
The manager hands out addresses (`DEV.n`), keeps the registry of devices and
forwards packages between them.  A broker finds devices with its radio, has
each acknowledge (`SYN`), asks the manager for an address, asks the device for
its description (`DES`), registers it, and from then on passes packages on to
devices and answers back.  This directory models the manager, the package stream,
the brokers and the XBee frames, checks them with TLC and proves part with TLAPS.

Run, here: `tlc -workers 2 -config MCXBeeFrame.cfg MCXBeeFrame`,
`tlapm ManagerProofs.tla`.

## Inventory

| component | state it keeps | operations | talks to | module |
| --- | --- | --- | --- | --- |
| manager, socket loop (`IoTService.cpp` 159-358) | `client_socket`, `packageBuffer`, the fd sets `master` and `readfds` | select, accept, recv, disconnect, append to buffer, drain buffer | clients, by TCP; the handlers, by call | `Manager` |
| manager, handlers and registry (392-1008) | `registed_devices`, `ip_count` | give an address, register, discover, delete, (un)proxy, forward | clients, by `send` on any slot | `Manager`, `Registry` |
| package framing (`Utility/IoTUtility.cpp`, C# `IoTUtility.cs`) | `tempBuffer`, `receiveCount` of one connection | `getCompletedPackage` | caller's loop | `PackageStream` |
| fake broker | its socket, a receive buffer | register four devices, answer every package | manager, one long connection, one short for each address | `FakeBroker` |
| BLE broker | device table, the one connection of its modem | scan, register, dial, request and answer, hang up | manager by TCP, modem by serial line | `BleBroker` |
| XBee broker, AT mode | device table, the command mode and destination of its modem | the same over orders to the modem | the same | `XBeeAtBroker` |
| XBee broker, API mode | device table | the same in frames, two threads on one line | the same | `XBeeApiBroker` |
| threaded XBee broker (`XBeeBroker_API/XBeeBroker.cpp`) | a device table shared by its threads, a mutex | register, forward in chunks, remove on timeout | the same | `XBeeThreads` |
| XBee API frames (`XBeeApiMode.cpp`) | position, escape flag, checksum of the frame being read | `readPacket`, `send`, accessors | serial line | `XBeeFrame`, `XBeeLayout` |
| Arduino library | receive buffer | describe itself, receive, answer | its broker | the devices in the brokers' environment |
| codecs, broadcast server, wrappers, JSON readers | none of interest | | | |

What makes each one correct, and where it is hard:

- *socket loop*: the three tables agree over every order of connects, hang-ups
  and reuse of slots; nobody is starved; every accepted client is served.  Hard:
  clients act while the walk goes over what select reported earlier.
- *registry*: one entry for each device identity, one device for each address,
  devices leave only when told to, routes lead where the device registered.
  Hard: packages of one device on two connections overtake each other; a slot is
  reused while devices still name it.
- *framing*: each package once, in order, whole; nothing lost but for a cause.
  Hard: any cutting of the stream, overflow and damage in mid-stream.
- *brokers*: an answer is that of the device asked, to what it was asked; an address
  is registered with the description of the device that has it; threads come back.
  Hard: timeouts against late answers, replies read shifted, one modem for all.
- *threaded broker*: no thread uses what another has freed; one chunk to a device
  at a time.  Hard: the flag that says so is set by statuses of other frames too.
- *XBee frames*: what is read is what was sent; a lost byte costs little.

`PROJECT.json` lists the hazards line by line, with the properties that catch each.

## Modules

Each `MC*` module holds the constants of its run; each `*Proofs` module theorems.

### Manager, Registry

Server state is named as in the code; `i` is the loop's index while a buffer is
drained, and `readfds` what select reported less what the walk has passed.
These two are the program counter: back at select both are empty.

| action | code |
| --- | --- |
| `Select` | `select` at 209; it blocks while nothing is readable, and its timeout starts it again |
| `Accept` | 218-243, the whole branch: one connection, into the first free slot |
| `Disconnect(s)` | 297-307, `recv` returned nothing: clear the slot, its buffer and `master` |
| `Receive(s, n)` | 292-326, `recv` returned the first `n` packages of what is under way |
| `Handle` | one turn of the do-while at 329-345: take a package off the buffer, `handle_package`; after the last, on to the next slot |

`handle_package` has one disjunct for each branch of the code
(`handle_ip_request_package`, `add_new_device`, `discover_package_replier`,
`DeleteDevice`, `SetProxied`, `IgnoredByManager`, `handle_forwarding_package`).
One step handles a package: the thread is the only one that touches this state,
and `send` is its last effect.  A search over a table is the set of matches and
its least element.  `send` on a full kernel buffer disables the step, because the
code's `send` blocks there; on a slot that was emptied, and to a client that has
gone, it loses the package.

Select is called with `MAXCLIENTS` as `nfds`.  `low` holds the accepted sockets
whose descriptor is below it: `accept` gives the lowest unused descriptor, so
a new socket is low just when fewer than `LowFds` are.

The clients do what brokers and interfaces do, at any speed: connect, ask for
addresses, register devices with addresses they were given, also over another
connection, send commands, forward, read, and hang up at any time.  History
variables: `owner` (the connection a device was registered over) and `gone`
(addresses somebody was told to delete).  A client names one device by an address, and
knows the address only after it was given; the fake broker after a failed connect does
not keep to this, and is the subject of `FakeBroker`.

`Registry` is the abstract promise: the addresses handed out so far and, for each
device identity, an entry with address and proxied flag.  `ImplementsRegistry`
maps `registed_devices` to the book and `ip_count` to `next`.

Abstractions: packages are records, addresses `DEV.n` the numbers `n`, descriptions
their identity; fewer than 100 addresses are given out (`suffix` at 426 holds two
digits); the device list fits its buffer; a write to a reset connection fails, and
does not end the process by SIGPIPE.

### PackageStream

A byte is its position in the client's output, and the buffer always holds the
last `receiveCount` of the `received` bytes, so two counters stand for it.
`getCompletedPackage` has a disjunct for each of its results.  `Receive(v)` is a
`recv` of `v` bytes with the overflow branch at 315-320.  `CountedTrailer` is how
much of the checksum the library counts into a package's length: 2 in C++, 0 in
C#.  `damaged` are packages whose checksum is wrong.  Left out: a stream in which
the version string stands inside a payload just where the buffer starts after an
overflow.

### RequestAnswer

What every radio broker promises the manager: commands are taken one by one, each
is answered at most once and before the next, or given up; unless `late`, the
answer carries exactly what the command's device said to it.  The three brokers
below implement it, with `asked`, `open` and `answers` as history variables.

In all three `given` is chosen at the start and never changes: which thread is at
work (`scan`), what may be lost or late, and how many packages the manager
forwards.  One run so covers several conditions, and properties that need one name
it.  The scan starts from an empty table; otherwise the table is what a scan that
found every device leaves, in any order.  A timeout (`TimedOut`) may come while
something is under way only if `given.late` says so, and when nothing is.

All three ask for an address over a new connection.  If it does not connect they go on
all the same: the entry is written without an address (`ip` is `NULL`) and the description
is sent without one, in a package whose header the manager takes for one that has not
come yet.  In the API and AT brokers this may happen where the line is lossy, and
`registered` has only what the manager can read (`Readable`); in the BLE broker it is one
of the faults, and `registered` has the descriptions without an address too.

### XBeeApiBroker

`listener` is `xbee_api_listen_to_manager_loop`, `main` is `scan_XBee_api_devices`
with all it calls; `pc` names the place where each waits.  A frame goes to the
thread that reads it first, since neither locks the line.  An answer is one RX
frame or two, with the start and end codes where `part` says.  The address of a new
entry is what malloc left, so a lookup may match it (`chance`).  The discovery ends
after `max_fail_times` failures in a row (`AfterDiscovery`, `DiscoveryTimeout`).

### XBeeAtBroker

A thread's `todo` are the orders it still writes, `got` the replies it has read;
`WriteOrder` and `ReadReply` are one `send_AT_command`.  Replies are read three
bytes at a time, whatever they are, so `ERROR\r` is two reads.  The modem
(`ModemObeys`, `ModemSends`) keeps command mode and destination; data goes where
the destination is, not where the thread thinks.  The loop that reads the device
list has no timeout.

### BleBroker

One modem, one connection: `linked`.  `pc` is the place in `conn_ble_device` and
`disconn_ble_device` (clear, dial, read two replies, hang up, read again, up to
`max_try_times`), `phase` what the thread wants it for.  The end of the device list may
be lost like any reply, and `scan_ble_devices` has no timeout there: the main thread
then waits for ever, which `ThreadsReturn` exempts by name (`WaitsForList`) and nothing else.
Replies of eight bytes that
are read seven at a time leave a `rest`.  `OK+CONNF` begins like `OK+CONN` and passes
for it (`IsConn`).  The description is asked for until one is good.  Faults are
counted, up to `MaxFaults`, since with faults for ever registration never ends.

### XBeeThreads

The reader (`listen_to_end_device_loop`), the writer (`listen_to_manager_loop`)
and a thread for each registration, as sets of steps between which others run.
Registrations are numbered, so two of one device are two threads; one whose connection
to the manager fails ends and tells the device nothing.
A step ends where another thread can see the difference: looking at the ready flag
and clearing it are two (`SeeReady`, `ClearReady`), finding an entry and using it
are two (`ReadPackage`/`TakePackage`, `FindEntry`/`WriteIp`).  Following an entry
that is not there is `Crash`.  The lock covers single reads and writes of the flag
and is not a variable.

### XBeeFrame, XBeeLayout

`XBeeFrame` is `send` and `readPacket` byte by byte, with the escape, the checksum,
the bound of the array and every error; a step is one `read()`.  `BYTES` is the number of
values of a byte.  `XBeeLayout` has no state: the bytes of requests, as `getFrameData`
gives them, and what the accessors read from the array where the last frame lies
over the ones before.

### FakeBroker

Two of them, a user interface, and the manager reduced to its routing.  `Ask` is
`ask_a_faker_IoTIP` up to its `send`: it may fail at any time, and always does when the
manager is down; `faker_register` then goes on with the address it has (`failed` remembers
for which device, `address` what each was described with).  A description with no address
has an incomplete header, and it and all behind it stay in the manager's buffer (`Complete`).
`Serve` is the loop at 82-131, which answers whatever comes; `Stops` is the end of the manager,
after which the loops of `recv` never end.

## Runs

| run | instance | shows | states |
| --- | --- | --- | --- |
| `registry` | 2 clients, 2 slots, 2 devices, 2 addresses, 2 commands of every kind | types, unique identities and addresses, `GoneForGood`, `RoutedWhileOpen`, `NoEviction`, the refinement of `Registry` | 717,845 |
| `fairness` | 3 connections, 2 slots, discovery chatter without bound | `SlotsAgree`, `WalkOK`, nobody waits for ever | 20,900 |
| `stream_cpp` | packages of 6, 7 and 7 bytes, a buffer of 14, pieces of any size, any set damaged | once, in order, no loss without cause, delivery in the end | 1,876 |
| `api` | 2 devices; a scan with losses and failed requests; a scan with a package in the middle; 3 commands with losses; 2 with late answers | `RegisteredIsReachable`, `ImplementsRequestAnswer`, `ThreadsReturn` | 468,548 |
| `at` | 2 devices; a scan on a good and on a bad line, where requests fail too; 2 commands on a bad line; 1 with late replies; 1 on a bad line with refusals | `RightDevice`, `OwnDescription`, `ImplementsRequestAnswer`, `ThreadsReturn` | 453,319 |
| `ble` | 2 devices, 3 faults of any kind; a scan, 2 commands | `HungUp`, `OwnDescription`, `ImplementsRequestAnswer`, `EnteredIsRegistered`, `ThreadsReturn` | 177,644 |
| `frame` | bytes of 8 values, 3 frames of 6 kinds, 2 lost bytes | the array's bound, `FewLost`, `DeliveredAsSent` | 1,089,179 |
| `fake` | 2 brokers of 2 devices, any request may fail, 2 commands, the manager may stop | `OwnAddresses`, `AnswerFromTarget`, `TalkEnds` | 263,962 |
| `threads` | 2 devices, packages of up to 3 chunks, registrations that fail; 2 packages without timeouts, or 1 with | `OneInFlight`, `ToldIsReachable`, `ThreadsReturn` | 332,576 |
| `full_table`, `stale_route`, `stream_csharp` | as small as shows it | three disagreements, below | |

Why the bounds are enough to be interesting.  *Manager*: two slots are the least with a
"first free" and a walk with order, a third connection the least that reuses a slot
while another is busy; two devices with two addresses let a device register again
and two compete for an address or a slot; with `MaxWire` 1 packages of two connections
still overtake each other, since each client refills its wire.  *Stream*: two packages
just fit the buffer, so a third overflows it or not according to how the stream is cut.
*Brokers*: two devices are the least of which one can be taken for the other, and two
commands the least where the answer to one is there for the next; three let an
unanswered one lie between; two entries fill the table.  *ble*: three faults can spoil a dialing, the
hanging up after it and the answer that follows.  *frame*: a byte of eight values has
start, escape, flow control and plain ones, escaped and not; the array of six has frames
that fit and that do not; three frames let a lost byte reach the next and not the one
after.  *threads*: three chunks let the writer go on after it removed a device.  *fake*:
two brokers can talk to each other, if anything lets them.

Deadlock is not checked: clients may hang up, bounded clients and devices stop.  The
permutations of connections and devices are a symmetry in safety runs only.

### Disagreements found

- `full_table`: accept with every slot taken neither stores nor closes the socket.
- `stale_route`: a disconnect leaves its devices registered with the emptied slot;
  the next client in that slot gets their packages.
- `stream_csharp`: the C# library leaves the checksum of a package in the buffer
  and then drops the next package as invalid.

Seen while modelling, in the models, and not the subject of a run:

- `select` gets `MAXCLIENTS` (30) as `nfds` (`IoTService.cpp` 209): on Linux a socket
  whose descriptor is 30 or more is in the table and never read.  `EventuallyRead`
  is stated for the others.
- After an order that the modem refuses, the AT broker reads the rest of `ERROR\r` as
  the reply to the next order; a connection may be found good that was not made
  (`XBeeBroker_AT.cpp` 149, "device conected"), and the command goes to the device asked
  before.  The same comes of an order that is lost where replies are late.
  `RightDevice` and `OwnDescription` exclude refusals and late replies, the promise
  excludes refusals, and losses together with late replies.
- Where the AT broker's timeouts come early, a late `OK` of the modem may be read between the
  two pieces of a late answer, and goes to the manager in it (`XBeeBroker_AT.cpp`,
  `recv_command_from_end_device`).  It takes two commands and one that is late; its
  promise is stated of what devices said.
- The BLE broker keeps its promise only while the modem reads what it is sent before
  `clear_recv_buff` has waited: if the modem lags behind by whole commands, the `OK+CONNA` and
  `OK+CONN` of one dialing are taken for those of the next.  It takes ten faults, three
  commands and no retries, so run `ble` with its three faults does not meet it; the
  proof below has it as a hypothesis.
- With a package while the scan runs, any of the three takes the other thread's replies:
  `RegisteredIsReachable` of the API broker says less then, and `OwnDescription`,
  `RightDevice` and the promise of the AT and BLE brokers are of runs without (`Alone`).
- A start byte in mid-frame is consumed with the error, so the frame it begins is lost
  too (`XBeeApiMode.cpp` 933: "discard previous packet and start over"); `FewLost`
  grants two frames for each lost byte.
- `getPacketLength` drops the high byte of the length (`XBeeApiMode.cpp` 756); frames
  longer than a byte counts are not in the instance, nor can the array hold them.
- A fake broker that does not reach the manager for an address (`FakeBroker.cpp` 215-220,
  229-233) describes the device with the address of the one before, so two devices share it.
  `OwnAddresses` says what is left: both are of one broker, and one of them could not ask.
  If it was the first device there is no address, the header is incomplete, and the
  manager keeps that description and all behind it (`TalkEnds` names this case).
- The radio brokers go on likewise with an empty address (`BLEBeeBroker.cpp` 568-572,
  `XBeeBroker_API.cpp` 660-664, `XBeeBroker_AT.cpp` 806-810); the description they send then,
  and what follows on their connection, waits in the manager's buffer until that overflows.
- The BLE scan reads the device list until it ends (`BLEBeeBroker.cpp` 464-483): one lost
  `OK+DISCE` and the scan hangs, as that of the AT broker does with its list.
- The BLE scan leaves open the connection of a device it gave up while it was being
  dialed; `HungUp` is about the listener.
- In the threaded broker a registration reply carries frame id 1, so its status sets the
  ready flag of the first entry (`OneInFlight` leaves that one out); after a timeout
  threads may follow the removed entry (`ThreadsReturn` allows a crash only then); two
  registrations of one device race for its entry (`ToldIsReachable` is about one);
  the mutex is created after the threads are started (632); `clear_all_xbee_device`
  stops after the first entry (599).

## Fairness

`FairSpec` of `Manager` has weak fairness of the server thread, which never stops by
itself, and of each connected client's reading.  The latter is an assumption about
clients, needed because `send` blocks the only thread: one client that never reads
stops everyone.  `FairSpec` of `PackageStream` has weak fairness of the server only.

The radio brokers have weak fairness of each thread, since all their loops run on and
every wait has a timeout, and of the modem and the devices: what is under
way arrives or is lost, which is when the timeout comes.  Two waits have none.  The
reading of the device lists: `ThreadsReturn` of `XBeeAtBroker` asks that no reply is lost, that
of `BleBroker` allows the wait for a lost end.  And the reading of an address after its request: a
connect that fails returns at once and is modelled, a manager that takes the request answers it
(the code would wait for ever).  `XBeeThreads` has it of reader, writer
and of the modem's reports, not of registrations.  `FakeBroker` has it of the
brokers, of the manager until it stops, and of the interface's reading.

## Proofs

`ManagerProofs`, for any number of slots, devices, connections and commands, from
the assumptions named in `Manager`:

- `LoopInvariant`: the induction.  `LoopInv` is `TypeOK`, `SlotsAgree`, `WalkOK` and
  `QueueOK`.  None is inductive alone: a slot's socket is not in the listen queue
  only because the queue holds each pending connection once, and a drained slot is
  full only because the walk goes over accepted sockets.
- `TypeCorrect`, `TablesAgree`, `WalkIsSound` are its parts.
- `DevicesUnique` (`UniqueDevID`) and `DevicesStay` (`NoEviction`): a case for each handler.
- `RoutesRight` (`RoutedWhileOpen`): from `RoutesOK`, which adds that a device's
  connection has been accepted at some time, so that it is in one slot until it is closed.
- `AddressesUnique` (`UniqueAddress`): an address given out is in one place at a time.
  The induction (`AddressInv`) follows it: in a reply to a request, in the clients' `pool`,
  in a registration on the wire or in a buffer, in the registry.  The places are apart
  (`Apart`), each holds it once (`AllOnce`), and none holds one not given out (`AllGivenOut`).
- `DeletedForGood` (`GoneForGood`): from `SettledInv`, that whatever names an address as the
  device's own, or to be deleted, names one that is no longer on its way to be registered.
- `RegistryImplemented` (`ImplementsRegistry`): each handler is a step of `Registry` or a stutter.

`PackageStreamProofs`, for any packages, buffer and cutting of the stream, where the
whole checksum is counted:

- `StreamInvariant`: the induction.  What lies before the buffer and was not damaged or
  overflowed has been delivered (`CleanDelivered`), the buffer starts where a package starts
  (`CleanAligned`), delivered packages lie before the buffer and increase, and back at
  recv the front package is not complete.
- `StreamTypes`, `DeliveryInOrder` (`InOrderOnce`), `NoLossWithoutCause` (`LossHasACause`).

`XBeeFrameProofs`, for any size of a byte and of the array from 4 up, any escape bit and
marks, any frames, and any bytes lost:

- `WithinArray` (`TypeOK`): the reader keeps to its array whatever comes.  `TypeOK` is not
  inductive: the check is of the position, the bound is of the data, so `IInv` adds
  `PosIsFrame`, that while data is read there is no more of it than the position says.
- `LossIsBounded` (`FewLost`): two frames at most for a byte lost, once the line is empty.
- `SentIsDelivered` (`DeliveredAsSent`): while nothing is lost the frames that fit arrive, in
  order, and in the end all of them.  Its hypothesis is that the length of each frame sent
  fits a byte, since `getPacketLength` keeps no more of it; `LossIsBounded` needs none.
- `FrameInv`, the induction of both, puts each byte on the line at its place in the stream of all bytes
  ever sent.  The last byte read is at `z`, in frame `n`, and `c` bytes before it were
  lost; all other faults are gaps on the line.  The reader is between frames and has missed at most
  two frames for each of the `c` (`Sync`), or in a frame after a loss, with one more to spare
  (`Off`), or it follows frame `n` byte by byte (`Exact`): its position, sum, length and data
  are those of the first `k` bytes of that frame, and `z` is where they end, escapes counted.
  The one to spare is what an unexpected start byte costs, as it is consumed.
- What `send` writes is a recursion over the bytes (`Checksum`, `Escaped`), and so is
  `Fitting`.  `Induction` is stated of a set, not of an operator, and with it `Recursion`
  and `Same` say that such a definition has one solution; `Sums`, `Escapes`, `Fittings` and `Shapes`
  are what the three compute: a start byte nowhere but in front, an escape before
  every mark, the sum of all bytes.
- `EscapesAssumption` (an escape flips a byte to a byte and back, never to a start or an escape)
  and `FramesAssumption` (a frame is bytes, at least its API id) are evaluated in run `frame`.

Of `XBeeLayout`, which has no state, it proves for all addresses of two words, all data and whatever
the array held: `Discovery` (the address read from a discovery is the radio's), `Addressing`
(a request is heard by its radio and no other), `Receiving` (data of up to 255 bytes, and
its sender, are read as sent).  The lemmas are that the four bytes of a word determine
it and join to it.  Run `frame` evaluates the three on samples first.

`XBeeApiBrokerProofs`, for any devices, losses, delays and kinds of package:

- `Types` (`TypeOK`): from `TypeInv`, which adds the types of each thread's place and buffer.
- `Promised`: the promise itself means what it says, answers in the order of the
  commands, one each at most, and each its own; and `AnswersInOrder`: so it is for this broker
  after its scan, which is what the refinement speaks of.
- `Implements` (`ImplementsRequestAnswer`): from `ServeInv`.  Its part `Exchange` says,
  where nothing is late, that the command waited for is the only one of its kind on the air,
  on the line or read, that all that answers it is from its device, that the end of an
  answer comes last, and that nothing is left once it was read.  Where answers are late
  only the order of commands and answers is left, as `RequestAnswer` then promises.
- `Reachable` (`RegisteredIsReachable`): from `ScanInv`.  A device is in one place at a time:
  silent, reported on the line, in `xbee_mac_addrs` or in the table (`DiscoveryInv`,
  `TableInv`), so no entry is given twice; and the description read is that of the device
  asked (`DescribeInv`, again `Exchange`).

`XBeeThreadsProofs`, for any devices, packages, chunks and registrations:

- `TypeInvariant`: always, whatever is lost or late.
- `NoneFollowsMissing`, the first part of `ThreadsReturn`: no entry is removed, so
  whoever found one may follow it later, without the lock.  `KeptInv` says of each thread
  which entry it relies on, and that no device has two.
- `AddressReachable` (`ToldIsReachable`): from `TellInv`, that the address in an entry is one
  a thread is about to tell the device or has told it.
- `OneChunk` (`OneInFlight`): from `FlightInv`, which counts, for every slot but the first, the
  statuses owed, in `rx`, in the reader's hands and about to be asked for: one if the
  entry's flag is cleared, else none, and none for an empty slot.  Why the flag is still
  set when `ClearReady` comes is part of it.

`BleBrokerProofs`, for any devices, packages, faults and retries:

- `Types` (`TypeOK`): from `TypeInv`, which adds in which phases a thread may be at each place
  of `conn_ble_device` and `disconn_ble_device`, and that one connection at most is made or dialed.
- `HangsUp` (`HungUp`): from `HungInv`, that once the first "AT" was written, and until the
  thread speaks again, there is no connection, or an "AT" is the last that the modem is to read.
- `Implements` (`ImplementsRequestAnswer`): from `ServeInv`, whose part `LineInv` goes by the
  place.  When a thread dials, nothing is left of what was done before (`Clean`); until it
  speaks, the modem hears of its device only and no device has said anything (`Mute`);
  then what comes is at most the answer, in one unit or in two of which the second follows
  at once (`Exchange`); and what is complete is the answer (`Whole`).
- `Described` (`OwnDescription`): from `ScanInv`.  The list is read with nothing else on
  the line and names a device once (`FoundInv`), so each device has one entry, the one that
  its address is written to (`TableInv`), and its description is its own by `LineInv`.

`XBeeAtBrokerProofs`, for any devices, packages and losses:

- `Types` (`TypeOK`): from `TypeInv`, which ties together a thread's place, the orders it has
  still to write, whether it waits and the replies it has counted.
- `CommandsReachTheirDevice` (`RightDevice`): from `ScanInv` and `ServeInv`, that only one
  thread is at the line, and that the line holds what this thread's place allows
  (`SerialInv`): while it waits, its one order or one reply (`WaitInv`), else nothing, and
  while it talks one exchange (`Exchange`).  So the reply it reads is the one to its
  order, and the third of a connection tells that the modem took the destination (`DestInv`).
- `Described` (`OwnDescription`): the list is read with nothing else on the line and names a
  device once, so each has one entry, which its address is written to (`TableInv`); and
  what is registered is described by that device, by `Exchange`.
- `Implements` (`ImplementsRequestAnswer`): from `PromiseInv`.  Where no reply is late an
  answer is whole and its device's own by `SerialInv`.  Where replies are late but nothing is
  lost, orders of one connection pile up on the line behind those of another, and
  `LateInv` goes by the order they stand in: each is read in the mode it is meant for
  (`Stream`), data follows the three orders that set its destination (`Leads`), so it goes to
  the device it is meant for, and all under way was asked for (`Rightly`).  As the property
  is meant, nothing is said of runs with refusals, with losses and late replies at
  once, or during the scan.

`FakeBrokerProofs`, for any brokers, any devices at each, any commands and crashes:

- `Types` (`TypeOK`), `AddressesOwn` (`OwnAddresses`) and `AnswersOnce` (`AnswerFromTarget`).
- The invariant: an address belongs to one broker, fresh in a reply or just received, and from
  then on that of a device it was described with; descriptions and routes are of such addresses, and
  devices for which asking did not fail have one each (`GivenInv`).  A broker waits for one
  reply at a time, and is at the device after the last it has described (`AskInv`); what is
  on its way is between the interface and a device the table routes to that
  connection (`WayInv`); and for each device what was answered, the answers and the commands
  on their way are together no more than the commands (`TalkInv`).  `AnswersOnce` counts over
  queues: the lemmas say what taking, appending and removing does to a count.
- `BrokerAssumption` and `DevicesAssumption` (brokers are finitely many and none is the
  interface, a broker has a device) are evaluated in run `fake`.

Hypotheses beyond the named assumptions.  `Reachable`, both `Described` and the three of
`XBeeThreadsProofs` have `Cardinality(Dev) <= MAXDEVICECOUNT`: with a full table the API and BLE
brokers drop a device after asking for its address, the AT broker registers it without an entry, and the threaded one follows an
entry past the end.  The three speak of runs without timeouts, as their properties do.
`Implements` and `Described` of the BLE broker have `Alone`, no package during the scan, as
their properties are meant, and `[][Prompt]_vars`: when `clear_recv_buff` is over the
modem has read what it was sent.  The code waits for this and no more; the radio
and the devices may still lose and delay what they like.  The assumptions of the four
brokers say that devices and limits are finite, that `NULL` is nothing else, and
what fields a condition has; TLC evaluates them in runs `api`, `at`, `threads` and `ble`.

Model-checked only: liveness (out of the prover's reach), so the second part of
`ThreadsReturn`, `EnteredIsRegistered`, `TalkEnds` and their like.

## Not modelled

- *Codecs* (`create_package`, `encode_*`, `decode_*`): what their fields decide is in the
  packages of `Manager`; the text itself, with its lengths and separators, is abstracted.
- *Start and shutdown*: `close_main_server` frees devices while the loop runs, which is
  undefined from then on, and the process ends; the brokers' `stop_*` likewise.
- *Removal in the radio brokers*: nothing calls `remove_ble_device` and its like, and only
  `stop_*` clears the tables; the `Del_Dev` they send is a client's command in `Manager`.
- *Sizes of descriptions and answers* copied into fixed buffers: answers are pieces
  without a length.  Nor the I/O samples, modem status and setters of `XBeeApiMode`.
- *Arduino*: the chunks of a description and the expiry of half a command.
- *JSON readers* (`jsmn` is vendored), *file, serial and thread wrappers*, the *broadcast
  server* (stateless), and the *C# library* around its framing.
