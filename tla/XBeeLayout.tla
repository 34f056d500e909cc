----------------------------- MODULE XBeeLayout -----------------------------
(***************************************************************************)
(* What stands where in the frames of an XBee in API mode: the requests,   *)
(* byte by byte as getFrameData(pos) gives them, and the responses as      *)
(* their accessors read them from the array of the last frame, where what  *)
(* stood there before stays.  A radio is found by node discovery, then     *)
(* spoken to at the address found; it hears what is sent to its own        *)
(* address, and what it sends carries that address.  Addresses are two     *)
(* halves of four bytes.                                                   *)
(***************************************************************************)
EXTENDS Integers, Sequences

Octet == 0 .. 255
Word == {n \in Nat : n < 256 * 256 * 256 * 256}    \* half an address, uint32_t
Shift(n) == n \div 256                    \* n >> 8

AT_COMMAND_REQUEST == 8
REMOTE_AT_REQUEST == 23
ZB_TX_REQUEST == 16
TX_64_REQUEST == 0
TX_16_REQUEST == 1
AT_COMMAND_RESPONSE == 136
ZB_RX_RESPONSE == 144
RX_64_RESPONSE == 128
RX_16_RESPONSE == 129
ZB_BROADCAST_ADDRESS == 65534
DEFAULT_FRAME_ID == 1
ND == <<78, 68>>
SUCCESS == 0

----------------------------------------------------------------------------
\* Requests.  The bytes of a half of an address, and of a 16-bit address.
Half(n) == <<Shift(Shift(Shift(n))) % 256, Shift(Shift(n)) % 256, Shift(n) % 256, n % 256>>
Short(n) == <<Shift(n) % 256, n % 256>>
Addr64(a) == Half(a.msb) \o Half(a.lsb)

\* The frame: API id, frame id, and getFrameData from position 0 on.
Request(api, data) == <<api, DEFAULT_FRAME_ID>> \o data

ZBTxRequest(a, data) ==
    Request(ZB_TX_REQUEST, Addr64(a) \o (Short(ZB_BROADCAST_ADDRESS) \o <<0, 0>> \o data))
Tx64Request(a, data) == Request(TX_64_REQUEST, Addr64(a) \o <<0>> \o data)
Tx16Request(my, data) == Request(TX_16_REQUEST, Short(my) \o <<0>> \o data)
AtCommandRequest(command, value) == Request(AT_COMMAND_REQUEST, command \o value)
RemoteAtCommandRequest(a, command, value) ==
    Request(REMOTE_AT_REQUEST, Addr64(a) \o Short(ZB_BROADCAST_ADDRESS) \o <<2>> \o command \o value)

----------------------------------------------------------------------------
\* Responses.  readPacket fills the array from the front, without the API id;
\* packetLength counts that too.
Read(old, frame) == [k \in DOMAIN old |-> IF k + 2 \in 1 .. Len(frame) THEN frame[k + 2] ELSE old[k]]

\* The sums of shifted bytes from position p on.
Join(d, p) == ((d[p] * 256 + d[p + 1]) * 256 + d[p + 2]) * 256 + d[p + 3]
Joined(d, p) == d[p] * 256 + d[p + 1]
RemoteAddress64(d, p) == [msb |-> Join(d, p), lsb |-> Join(d, p + 4)]
Bytes(d, p, n) == [k \in 1 .. n |-> d[p + k - 1]]

\* getDataLength: of eight bits.
DataLength(packetLength, offset) == (packetLength - offset - 1) % 256

ZBRxResponse(d, packetLength) ==
    [from |-> RemoteAddress64(d, 0), data |-> Bytes(d, 11, DataLength(packetLength, 11))]
Rx64Response(d, packetLength) ==
    [from |-> RemoteAddress64(d, 0), data |-> Bytes(d, 10, DataLength(packetLength, 10))]
Rx16Response(d, packetLength) ==
    [from |-> Joined(d, 0), data |-> Bytes(d, 4, DataLength(packetLength, 4))]
\* getValueLength: of eight bits too, from the length of the frame without its API id.
AtCommandResponse(d, packetLength) ==
    [command |-> Bytes(d, 1, 2), status |-> d[3],
     value |-> Bytes(d, 4, DataLength(packetLength, 4))]
RemoteAtCommandResponse(d, packetLength) ==
    [from |-> RemoteAddress64(d, 1), command |-> Bytes(d, 11, 2), status |-> d[13],
     value |-> Bytes(d, 14, DataLength(packetLength, 14))]

\* What the scan makes of a node discovery: dh and dl are shifted together from
\* the third byte of the value on.
FoundAddress(value) == [msb |-> Join(value, 3), lsb |-> Join(value, 7)]
\* A radio with a zero byte in its 16-bit address is taken for a blank answer.
TakenForFound(value) == value # <<>> /\ value[1] # 0 /\ value[2] # 0

----------------------------------------------------------------------------
\* The frames of a far radio [msb, lsb, my], as its modem writes them.
DiscoveryFrame(radio) ==
    <<AT_COMMAND_RESPONSE, DEFAULT_FRAME_ID, ND[1], ND[2], SUCCESS, Short(radio.my)[1], Short(radio.my)[2]>>
    \o Addr64(radio)
ZBRxFrame(radio, data) ==
    <<ZB_RX_RESPONSE>> \o Addr64(radio) \o (<<Short(radio.my)[1], Short(radio.my)[2], 1>> \o data)
\* Which frame a request is for.
Hears(radio, request) == SubSeq(request, 3, 10) = Addr64(radio)

----------------------------------------------------------------------------
\* The address of a radio that is found is that radio's own, whatever its bytes
\* and whatever stood in the array (recv_response_api_mode and
\* scan_XBee_api_devices).
AddressOf(radio) == [msb |-> radio.msb, lsb |-> radio.lsb]
FoundIsOwn(old, radio) ==
    LET frame == DiscoveryFrame(radio)
    IN FoundAddress(AtCommandResponse(Read(old, frame), Len(frame)).value) = AddressOf(radio)

\* A request goes to the radio whose address it was made with, and no other.
HeardByOwn(radio, a, data) == Hears(radio, ZBTxRequest(a, data)) <=> a = AddressOf(radio)

\* What a radio sends is read as it was sent, and as that radio's, empty data
\* too, whatever the frames before left in the array (getZBRxResponse).
DataIsOwn(old, radio, data) ==
    LET frame == ZBRxFrame(radio, data)
    IN ZBRxResponse(Read(old, frame), Len(frame)) = [from |-> AddressOf(radio), data |-> data]
==============================================================================
