--------------------------- MODULE PackageStream ---------------------------
(***************************************************************************)
(* One connection of the manager, byte by byte: a client writes packages,  *)
(* TCP hands them over in pieces of any size, main_server_loop appends     *)
(* each piece to the connection's packageBuffer, and getCompletedPackage   *)
(* cuts packages off its front until it finds no complete one.             *)
(*                                                                         *)
(* A byte is its position in the client's output: package k stands at      *)
(* positions End[k-1]+1 .. End[k], its version first, its checksum last.   *)
(* Nothing reorders bytes and whatever is thrown away is thrown away up to *)
(* the end of the buffer, so the buffer always holds the last receiveCount *)
(* bytes of those received, and two counters stand for it.  Data that      *)
(* looks like a package (the version string inside a payload) is left out. *)
(*                                                                         *)
(* The C# library's getCompletedPackage is the same algorithm without the  *)
(* checksum in the package's length: CountedTrailer = 0.                   *)
(***************************************************************************)
EXTENDS Integers, Sequences, Functions

CONSTANTS
    N,              \* packages the client writes
    End,            \* k \in 0..N -> bytes in the first k packages
    MAXRECV,        \* size of tempBuffer and of the buffer given to recv
    VersionLen,     \* strlen(CurrentVersion)
    ChecksumLen,    \* bytes of checksum after the data
    CountedTrailer  \* how many of them getCompletedPackage counts

ASSUME SizesAssumption ==
    /\ N \in Nat /\ MAXRECV \in Nat \ {0}
    /\ ChecksumLen \in Nat \ {0} /\ VersionLen \in Nat \ {0}
    /\ CountedTrailer \in 0 .. ChecksumLen

\* Every package has a version, then more of a header, then a checksum.
ASSUME EndAssumption ==
    /\ End \in [0 .. N -> Nat] /\ End[0] = 0
    /\ \A j, k \in 0 .. N : j < k => End[k] > End[j] + VersionLen + ChecksumLen

VARIABLES
    sent,          \* packages the client has written
    received,      \* bytes recv has returned
    receiveCount,  \* bytes in tempBuffer
    parsing,       \* the do-while over getCompletedPackage is running
    delivered,     \* packages given to handle_package, in that order
    damaged,       \* packages whose checksum does not match their bytes
    overflowed     \* history: a piece has met "Buffer over flow"

vars == <<sent, received, receiveCount, parsing, delivered, damaged, overflowed>>

Init ==
    /\ sent = 0 /\ received = 0 /\ receiveCount = 0 /\ parsing = FALSE
    /\ delivered = <<>> /\ damaged \in SUBSET (1 .. N) /\ overflowed = FALSE

SendPackage ==
    /\ sent < N
    /\ sent' = sent + 1
    /\ UNCHANGED <<received, receiveCount, parsing, delivered, damaged, overflowed>>

\* Mutant: no check that the bytes fit.
ReceiveUnchecked(v) ==
    /\ ~ parsing /\ received + v <= End[sent]
    /\ received' = received + v
    /\ receiveCount' = receiveCount + v
    /\ parsing' = TRUE
    /\ UNCHANGED <<sent, delivered, damaged, overflowed>>

\* recv returns v bytes; with no room for them the buffer is emptied and they
\* are dropped with it.
Receive(v) ==
    /\ ~ parsing /\ received + v <= End[sent]
    /\ received' = received + v
    /\ IF receiveCount + v > MAXRECV
       THEN receiveCount' = 0 /\ overflowed' = TRUE
       ELSE receiveCount' = receiveCount + v /\ UNCHANGED overflowed
    /\ parsing' = TRUE
    /\ UNCHANGED <<sent, delivered, damaged>>

----------------------------------------------------------------------------
\* getCompletedPackage, one disjunct for each of its results.

BufferStart == received - receiveCount       \* bytes before the buffer
StartsWith(k) == BufferStart = End[k - 1]          \* isVaildPackage, of package k
total_len(k) == End[k] - End[k - 1] - ChecksumLen + CountedTrailer

\* decode_package compares checksums.  Bytes of the checksum that have not
\* arrived are read all the same, as whatever stands there.
ChecksumMatches(k) == IF received >= End[k] THEN {k \notin damaged} ELSE BOOLEAN

TooShort ==
    /\ receiveCount < VersionLen
    /\ parsing' = FALSE
    /\ UNCHANGED <<receiveCount, delivered>>

Invalid ==
    /\ receiveCount >= VersionLen /\ \A k \in 1 .. N : ~ StartsWith(k)
    /\ receiveCount' = 0 /\ parsing' = FALSE
    /\ UNCHANGED delivered

\* The header, or what it announces, is not all there yet.
Incomplete(k) ==
    /\ receiveCount >= VersionLen /\ StartsWith(k)
    /\ receiveCount < total_len(k)
    /\ parsing' = FALSE
    /\ UNCHANGED <<receiveCount, delivered>>

\* Mutant: what follows the package is not moved to the front but dropped.
CompletedDroppingRest(k) ==
    /\ receiveCount >= VersionLen /\ StartsWith(k)
    /\ receiveCount >= total_len(k) /\ TRUE \in ChecksumMatches(k)
    /\ delivered' = Append(delivered, k)
    /\ receiveCount' = 0
    /\ UNCHANGED parsing

\* Mutant: the package is not taken off the buffer.
CompletedNotRemoved(k) ==
    /\ receiveCount >= VersionLen /\ StartsWith(k)
    /\ receiveCount >= total_len(k) /\ TRUE \in ChecksumMatches(k)
    /\ delivered' = Append(delivered, k)
    /\ parsing' = FALSE
    /\ UNCHANGED receiveCount

\* Mutant: an if in the place of the do-while.
CompletedOncePerPiece(k) ==
    /\ receiveCount >= VersionLen /\ StartsWith(k)
    /\ receiveCount >= total_len(k) /\ TRUE \in ChecksumMatches(k)
    /\ delivered' = Append(delivered, k)
    /\ receiveCount' = receiveCount - total_len(k)
    /\ parsing' = FALSE

Completed(k) ==
    /\ receiveCount >= VersionLen /\ StartsWith(k)
    /\ receiveCount >= total_len(k) /\ TRUE \in ChecksumMatches(k)
    /\ delivered' = Append(delivered, k)
    /\ receiveCount' = receiveCount - total_len(k)
    /\ UNCHANGED parsing

ChecksumError(k) ==
    /\ receiveCount >= VersionLen /\ StartsWith(k)
    /\ receiveCount >= total_len(k) /\ FALSE \in ChecksumMatches(k)
    /\ receiveCount' = 0 /\ parsing' = FALSE
    /\ UNCHANGED delivered

getCompletedPackage ==
    /\ parsing
    /\ \/ TooShort
       \/ Invalid
       \/ \E k \in 1 .. N : Incomplete(k) \/ Completed(k) \/ ChecksumError(k)
    /\ UNCHANGED <<sent, received, damaged, overflowed>>

ServerNext == getCompletedPackage \/ \E v \in 1 .. MAXRECV : Receive(v)

Next == SendPackage \/ ServerNext

Spec == Init /\ [][Next]_vars

\* The server thread keeps coming back to a connection that has something to
\* read (EventuallyRead in Manager) and its inner loop is never interrupted.
FairSpec == Spec /\ WF_vars(ServerNext)

----------------------------------------------------------------------------
\* Type correctness; receiveCount never passes the end of tempBuffer.
TypeOK ==
    /\ sent \in 0 .. N /\ received \in 0 .. End[sent]
    /\ receiveCount \in 0 .. MAXRECV /\ receiveCount <= received
    /\ parsing \in BOOLEAN /\ overflowed \in BOOLEAN
    /\ delivered \in Seq(1 .. N) /\ damaged \subseteq 1 .. N

\* handle_package gets each package at most once and in the order the client
\* wrote them, only when all of it has been received, and never one whose
\* checksum is wrong: however the stream is cut and whatever was dropped.
InOrderOnce ==
    /\ \A m, n \in DOMAIN delivered : m < n => delivered[m] < delivered[n]
    /\ \A m \in DOMAIN delivered : /\ End[delivered[m]] <= received
                                   /\ delivered[m] \notin damaged

\* No package is lost without a cause.  When the server goes back to recv every
\* package received in full has been handed over, unless the buffer overflowed
\* or this package or one before it was damaged.
LossHasACause ==
    \A k \in 1 .. N :
        /\ ~ parsing /\ ~ overflowed
        /\ End[k] <= received /\ damaged \cap (1 .. k) = {}
        => k \in Range(delivered)

\* A package written on a healthy connection is handed over in the end.
EventuallyDelivered ==
    \A k \in 1 .. N :
        sent >= k /\ damaged \cap (1 .. k) = {} ~> k \in Range(delivered) \/ overflowed
=============================================================================
