------------------------------ MODULE XBeeFrame ------------------------------
(***************************************************************************)
(* Frames of an XBee in API mode with escapes (ATAP = 2), as XBee::send    *)
(* writes them and XBee::readPacket reads them: a start byte, the length   *)
(* in two bytes, the frame, which begins with its API id, and a checksum.  *)
(* After the start byte four bytes are escaped, so the start byte is seen  *)
(* nowhere else.  The reader is resumed at any byte: readPacket returns    *)
(* when no byte is available and goes on from _pos at the next call, and   *)
(* readPacket(timeout) leaves that state as it is.  A byte has BYTES       *)
(* values, 256 in the code.                                                *)
(***************************************************************************)
EXTENDS Integers, Sequences, FiniteSets

CONSTANTS
    BYTES, FLIP,                     \* values of a byte; the bit an escape flips, 0x20
    START_BYTE, ESCAPE, XON, XOFF,
    MAX_FRAME_DATA_SIZE,
    Frames,                          \* the frames that may be sent: API id and data
    MaxFrames,                       \* bound: frames sent
    MaxFaults                        \* bound: bytes lost on the line

Byte == 0 .. BYTES - 1
API_ID_INDEX == 3

ASSUME BytesAssumption ==
    /\ BYTES \in Nat /\ FLIP \in Nat \ {0} /\ BYTES % (2 * FLIP) = 0
    /\ {START_BYTE, ESCAPE, XON, XOFF} \subseteq Byte
    /\ MAX_FRAME_DATA_SIZE \in 4 .. BYTES - 1

VARIABLES
    line,       \* bytes on their way
    \* the reader: XBee and its XBeeResponse
    pos, escape, checksumTotal,
    msbLength, lsbLength, frame,    \* frame: API id and data so far
    error,                          \* _errorCode, "NO_ERROR" if none
    available,                      \* the frame is complete
    \* history
    sent, delivered, faults

counters == <<pos, escape, checksumTotal>>
response == <<msbLength, lsbLength, frame, error, available>>
reader == <<counters, response>>
vars == <<line, reader, sent, delivered, faults>>

Init ==
    /\ line = <<>> /\ pos = 0 /\ escape = FALSE /\ checksumTotal = 0
    /\ msbLength = 0 /\ lsbLength = 0 /\ frame = <<>> /\ error = "NO_ERROR" /\ available = FALSE
    /\ sent = <<>> /\ delivered = <<>> /\ faults = 0

----------------------------------------------------------------------------
\* b ^ 0x20.
Flip(b) == IF (b \div FLIP) % 2 = 0 THEN b + FLIP ELSE b - FLIP

\* sendByte with escape.
sendByte(b) == IF b \in {START_BYTE, ESCAPE, XON, XOFF} THEN <<ESCAPE, Flip(b)>> ELSE <<b>>

\* The checksum, a byte, makes the sum of all bytes from the API id on 0xff.
Checksum(f) == LET sum[k \in 0 .. Len(f)] == IF k = 0 THEN 0 ELSE (sum[k - 1] + f[k]) % BYTES
               IN BYTES - 1 - sum[Len(f)]

Escaped(s) == LET upTo[k \in 0 .. Len(s)] == IF k = 0 THEN <<>> ELSE upTo[k - 1] \o sendByte(s[k])
              IN upTo[Len(s)]

\* send: the length counts the API id, but not the checksum.
Encode(f) == <<START_BYTE>> \o Escaped(<<(Len(f) \div BYTES) % BYTES, Len(f) % BYTES>> \o f \o <<Checksum(f)>>)

\* An escape flips a byte to a byte, and back, and never to one that is a mark.
ASSUME EscapesAssumption ==
    /\ START_BYTE # ESCAPE
    /\ \A b \in Byte : Flip(b) \in Byte
    /\ \A b \in {START_BYTE, ESCAPE, XON, XOFF} : Flip(b) \notin {START_BYTE, ESCAPE} /\ Flip(Flip(b)) = b
\* A frame is bytes, and begins with its API id.
ASSUME FramesAssumption == \A f \in Frames : f \in Seq(Byte) /\ f # <<>>

Send(f) ==
    /\ Len(sent) < MaxFrames
    /\ line' = line \o Encode(f) /\ sent' = Append(sent, f)
    /\ UNCHANGED <<reader, delivered, faults>>

LoseByte ==
    /\ faults < MaxFaults /\ faults' = faults + 1
    /\ \E k \in 1 .. Len(line) : line' = SubSeq(line, 1, k - 1) \o SubSeq(line, k + 1, Len(line))
    /\ UNCHANGED <<reader, sent, delivered>>

----------------------------------------------------------------------------
\* ((_msbLength << 8) & 0xff) + (_lsbLength & 0xff), which is the low byte.
getPacketLength == ((msbLength * BYTES) % BYTES) + lsbLength

\* Mutant: the reader goes on from where the last frame ended.
KeepCounters == counters
\* readPacket begins with resetResponse after a frame or an error.
Over == available \/ error # "NO_ERROR"
Counters == IF Over THEN <<0, FALSE, 0>> ELSE counters
Position == Counters[1]
Escaping == Counters[2]
Total == Counters[3]

\* A start byte in the middle of a frame: an error, and the byte is gone.
UnexpectedStart ==
    /\ line # <<>> /\ Head(line) = START_BYTE /\ Position > 0
    /\ line' = Tail(line) /\ error' = "UNEXPECTED_START_BYTE"
    /\ UNCHANGED <<counters, msbLength, lsbLength, frame, available, sent, delivered, faults>>

\* An escape whose byte is not there yet.
EscapeAlone ==
    /\ line # <<>> /\ Head(line) = ESCAPE /\ Position > 0
    /\ line' = Tail(line) /\ escape' = TRUE
    /\ UNCHANGED <<pos, checksumTotal, response, sent, delivered, faults>>

\* Mutant: the checksum is added up from the length on.
SumFromLength(p) == p > 0
Summed(p) == p >= API_ID_INDEX

\* Mutant: the check of the size comes one byte late.
OneMore == pos > MAX_FRAME_DATA_SIZE + 1
TooLong == pos > MAX_FRAME_DATA_SIZE

\* The byte at the end of the frame.
Complete(total) ==
    /\ pos = getPacketLength + 3
    /\ IF total % BYTES = BYTES - 1
       THEN available' = TRUE /\ delivered' = Append(delivered, frame) /\ UNCHANGED error
       ELSE error' = "CHECKSUM_FAILURE" /\ UNCHANGED <<available, delivered>>
    /\ pos' = 0
    /\ UNCHANGED <<msbLength, lsbLength, frame>>

\* A byte b, unescaped, in the middle of a frame.
Length(b) ==
    /\ pos \in {1, 2} /\ pos' = pos + 1
    /\ IF pos = 1 THEN msbLength' = b /\ UNCHANGED lsbLength ELSE lsbLength' = b /\ UNCHANGED msbLength
    /\ UNCHANGED <<frame, error, available, delivered>>
ApiId(b) ==
    /\ pos = API_ID_INDEX /\ frame' = <<b>> /\ pos' = pos + 1
    /\ UNCHANGED <<msbLength, lsbLength, error, available, delivered>>
Body(b, total) ==
    /\ pos > API_ID_INDEX
    /\ \/ TooLong /\ error' = "PACKET_EXCEEDS_BYTE_ARRAY_LENGTH"
          /\ UNCHANGED <<pos, msbLength, lsbLength, frame, available, delivered>>
       \/ ~ TooLong /\ Complete(total)
       \/ /\ ~ TooLong /\ pos # getPacketLength + 3
          /\ frame' = Append(frame, b) /\ pos' = pos + 1
          /\ UNCHANGED <<msbLength, lsbLength, error, available, delivered>>

Accept(b) ==
    LET total == IF Summed(pos) THEN checksumTotal + b ELSE checksumTotal IN
    /\ checksumTotal' = total % BYTES /\ escape' = FALSE
    /\ Length(b) \/ ApiId(b) \/ Body(b, total)

ReadFirst ==
    /\ line # <<>> /\ Position = 0
    /\ line' = Tail(line) /\ escape' = FALSE /\ checksumTotal' = 0
    /\ pos' = IF Head(line) = START_BYTE THEN 1 ELSE 0
    /\ msbLength' = 0 /\ lsbLength' = 0 /\ frame' = <<>> /\ error' = "NO_ERROR" /\ available' = FALSE
    /\ UNCHANGED <<sent, delivered, faults>>

ReadByte ==
    /\ line # <<>> /\ Position > 0 /\ Head(line) \notin {START_BYTE, ESCAPE}
    /\ line' = Tail(line) /\ Accept(IF Escaping THEN Flip(Head(line)) ELSE Head(line))
    /\ UNCHANGED <<sent, faults>>

\* The byte after an escape, if it is there already, is taken whatever it is.
ReadEscaped ==
    /\ Len(line) > 1 /\ Head(line) = ESCAPE /\ Position > 0
    /\ line' = Tail(Tail(line))
    /\ LET b == Flip(line[2]) IN Accept(IF Escaping THEN Flip(b) ELSE b)
    /\ UNCHANGED <<sent, faults>>

Next ==
    \/ \E f \in Frames : Send(f)
    \/ LoseByte
    \/ UnexpectedStart \/ EscapeAlone \/ ReadFirst \/ ReadByte \/ ReadEscaped

Spec == Init /\ [][Next]_vars

----------------------------------------------------------------------------
\* Types, and the bound of the byte array: the reader writes its data at
\* pos - 4, below MAX_FRAME_DATA_SIZE.
TypeOK ==
    /\ line \in Seq(Byte) /\ escape \in BOOLEAN /\ checksumTotal \in Byte
    /\ pos \in 0 .. MAX_FRAME_DATA_SIZE + 1
    /\ msbLength \in Byte /\ lsbLength \in Byte /\ available \in BOOLEAN
    /\ frame \in Seq(Byte) /\ Len(frame) <= MAX_FRAME_DATA_SIZE - 2

\* "If a RX packet exceeds this size, it cannot be parsed": the size is that of
\* start byte, length, API id and data.
Fits(f) == Len(f) + 3 <= MAX_FRAME_DATA_SIZE
Fitting ==
    LET upTo[k \in 0 .. Len(sent)] ==
            IF k = 0 THEN <<>>
            ELSE IF Fits(sent[k]) THEN Append(upTo[k - 1], sent[k])
            ELSE upTo[k - 1]
    IN upTo[Len(sent)]

\* While the line has lost nothing the frames arrive as they were sent and in
\* order, all but those too long, once the line is read empty (XBee::send and
\* XBee::readPacket).
DeliveredAsSent ==
    faults = 0 =>
        /\ Len(delivered) <= Len(Fitting) /\ delivered = SubSeq(Fitting, 1, Len(delivered))
        /\ line = <<>> => delivered = Fitting

\* A lost byte costs no more than the frame it belongs to and the next.
FewLost == line = <<>> => Len(Fitting) - Len(delivered) <= 2 * faults
==============================================================================
