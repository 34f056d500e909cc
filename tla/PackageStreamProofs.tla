------------------------- MODULE PackageStreamProofs -------------------------
(***************************************************************************)
(* Proofs about PackageStream, for any number of packages of any lengths,  *)
(* any buffer size and any way of cutting the stream, of the library that  *)
(* counts the whole checksum (getCompletedPackage of IoTUtility.cpp).      *)
(***************************************************************************)
EXTENDS PackageStream, TLAPS

WholeChecksum == CountedTrailer = ChecksumLen

\* Everything handed over lies before the buffer.
DeliveredBefore ==
    \A m \in DOMAIN delivered : /\ End[delivered[m]] <= BufferStart
                                /\ delivered[m] \notin damaged

Increasing == \A m, n \in DOMAIN delivered : m < n => delivered[m] < delivered[n]

\* Up to the first damaged package: what lies before the buffer has been handed
\* over, and the buffer starts where a package starts.
Clean(k) == ~ overflowed /\ damaged \cap (1 .. k) = {}

CleanDelivered ==
    \A k \in 1 .. N : Clean(k) /\ End[k] <= BufferStart => k \in Range(delivered)

CleanAligned ==
    \A k \in 1 .. N : Clean(k) /\ BufferStart < End[k] => \E j \in 1 .. k : StartsWith(j)

\* Back at recv, the package at the front of the buffer is not complete.
FrontIncomplete == \A k \in 1 .. N : ~ parsing /\ StartsWith(k) => received < End[k]

StreamInv ==
    TypeOK /\ DeliveredBefore /\ Increasing /\ CleanDelivered /\ CleanAligned /\ FrontIncomplete

----------------------------------------------------------------------------
LEMMA EndGrows ==
    /\ \A k \in 0 .. N : End[k] \in Nat
    /\ \A j, k \in 0 .. N : End[j] < End[k] <=> j < k
    /\ \A k \in 1 .. N : k - 1 \in 0 .. N /\ End[k - 1] + VersionLen + ChecksumLen < End[k]
    /\ VersionLen \in Nat \ {0} /\ ChecksumLen \in Nat \ {0} /\ MAXRECV \in Nat \ {0}
<1>1. \A k \in 0 .. N : End[k] \in Nat
  BY EndAssumption
<1>2. VersionLen \in Nat /\ ChecksumLen \in Nat /\ N \in Nat
  BY SizesAssumption
<1>3. \A j, k \in 0 .. N : j < k => End[j] < End[k]
  BY <1>1, <1>2, EndAssumption
<1>4. \A j, k \in 0 .. N : End[j] < End[k] => j < k
  BY <1>1, <1>2, <1>3
<1> QED BY <1>1, <1>2, <1>3, <1>4, EndAssumption, SizesAssumption

LEMMA Element == ASSUME NEW S, NEW q \in Seq(S), NEW m \in DOMAIN q PROVE q[m] \in S
OBVIOUS

\* What handle_package was given is a package.
LEMMA DeliveredTypes ==
    ASSUME StreamInv, NEW m \in DOMAIN delivered
    PROVE  delivered[m] \in 1 .. N /\ delivered[m] \in 0 .. N /\ End[delivered[m]] \in Nat
<1>1. delivered[m] \in 1 .. N
  <2>1. delivered \in Seq(1 .. N)
    BY DEF StreamInv, TypeOK
  <2> QED BY <2>1, Element, Zenon
<1>2. delivered[m] \in 0 .. N
  BY <1>1, SizesAssumption
<1> QED BY <1>1, <1>2, EndGrows

LEMMA StreamInit == Init => StreamInv
<1> SUFFICES ASSUME Init PROVE StreamInv
  OBVIOUS
<1> USE DEF Init
<1>1. TypeOK
  <2>1. 0 \in 0 .. N /\ 0 \in 0 .. MAXRECV /\ 0 \in 0 .. End[sent]
    BY SizesAssumption, EndAssumption
  <2>2. <<>> \in Seq(1 .. N)
    OBVIOUS
  <2>3. delivered \in Seq(1 .. N) /\ damaged \subseteq 1 .. N
    BY <2>2, Zenon
  <2>4. parsing \in BOOLEAN /\ overflowed \in BOOLEAN
    BY Zenon
  <2>5. receiveCount <= received
    OBVIOUS
  <2> QED BY <2>1, <2>3, <2>4, <2>5, Zenon DEF TypeOK
<1>2. BufferStart = 0 /\ DOMAIN delivered = {}
  BY DEF BufferStart
<1>3. \A k \in 1 .. N : StartsWith(1) /\ 1 \in 1 .. k /\ End[k] > 0
  BY <1>2, SizesAssumption, EndAssumption, EndGrows DEF StartsWith
<1> QED BY <1>1, <1>2, <1>3, EndGrows
        DEF StreamInv, DeliveredBefore, Increasing, CleanDelivered, CleanAligned, FrontIncomplete

LEMMA StreamSend == StreamInv /\ SendPackage => StreamInv'
<1> SUFFICES ASSUME StreamInv, SendPackage PROVE StreamInv'
  OBVIOUS
<1>1. sent' \in 0 .. N /\ End[sent] \in Nat /\ End[sent'] \in Nat /\ End[sent] <= End[sent']
  BY EndGrows, SizesAssumption DEF StreamInv, TypeOK, SendPackage
<1>2. TypeOK'
  BY <1>1 DEF StreamInv, TypeOK, SendPackage
<1> QED BY <1>2 DEF StreamInv, SendPackage, DeliveredBefore, Increasing, CleanDelivered,
                   CleanAligned, FrontIncomplete, BufferStart, StartsWith, Clean

LEMMA StreamReceive ==
    ASSUME StreamInv, NEW v \in 1 .. MAXRECV, Receive(v)
    PROVE  StreamInv'
<1>1. End[sent] \in Nat /\ received \in Nat /\ receiveCount \in Nat /\ MAXRECV \in Nat
  BY EndGrows, SizesAssumption DEF StreamInv, TypeOK
<1>2. TypeOK'
  <2>1. receiveCount \in 0 .. MAXRECV /\ receiveCount <= received
    BY DEF StreamInv, TypeOK
  <2>2. v \in Nat /\ received' = received + v /\ received + v <= End[sent] /\ sent' = sent
    BY <1>1 DEF Receive
  <2>3. received' \in 0 .. End[sent'] /\ receiveCount' \in 0 .. MAXRECV
        /\ receiveCount' <= received'
    BY <1>1, <2>1, <2>2 DEF Receive
  <2> QED BY <2>2, <2>3 DEF StreamInv, TypeOK, Receive
<1>3. FrontIncomplete'
  BY DEF Receive, FrontIncomplete
<1>4. CASE receiveCount + v > MAXRECV
  <2>1. overflowed' /\ BufferStart' = received + v /\ UNCHANGED <<delivered, damaged>>
    BY <1>1, <1>4 DEF Receive, BufferStart
  <2>2. BufferStart \in Int /\ BufferStart <= received
    BY <1>1 DEF BufferStart
  <2>3. DeliveredBefore'
    <3> SUFFICES ASSUME NEW m \in DOMAIN delivered
                 PROVE  End[delivered[m]] <= received + v /\ delivered[m] \notin damaged
      BY <2>1 DEF DeliveredBefore
    <3>1. End[delivered[m]] \in Nat
      BY DeliveredTypes
    <3>2. v \in Nat /\ End[delivered[m]] <= BufferStart /\ delivered[m] \notin damaged
      BY <1>1 DEF StreamInv, DeliveredBefore
    <3> QED BY <1>1, <2>2, <3>1, <3>2
  <2> QED BY <1>2, <1>3, <2>1, <2>3
          DEF StreamInv, Increasing, CleanDelivered, CleanAligned, Clean
<1>5. CASE ~ receiveCount + v > MAXRECV
  <2>1. /\ BufferStart' = BufferStart /\ UNCHANGED <<delivered, damaged, overflowed>>
    BY <1>1, <1>5 DEF Receive, BufferStart
  <2> QED BY <1>2, <1>3, <2>1
          DEF StreamInv, DeliveredBefore, Increasing, CleanDelivered, CleanAligned, Clean, StartsWith
<1> QED BY <1>4, <1>5

\* A buffer that is thrown away holds nothing a clean connection still owes.
LEMMA StreamCleared ==
    ASSUME StreamInv, receiveCount' = 0, parsing' = FALSE,
           UNCHANGED <<sent, received, delivered, damaged, overflowed>>,
           \A k \in 1 .. N : Clean(k) => End[k] <= BufferStart
    PROVE  StreamInv'
<1>1. /\ received \in Nat /\ BufferStart \in Nat /\ BufferStart <= received
      /\ BufferStart' = received
  BY SizesAssumption, EndGrows DEF StreamInv, TypeOK, BufferStart
<1>2. TypeOK'
  <2>1. 0 \in 0 .. MAXRECV /\ 0 <= received /\ FALSE \in BOOLEAN
    BY <1>1, SizesAssumption
  <2> QED BY <2>1 DEF StreamInv, TypeOK
<1>3. DeliveredBefore'
  <2> SUFFICES ASSUME NEW m \in DOMAIN delivered
               PROVE  End[delivered[m]] <= received /\ delivered[m] \notin damaged
    BY <1>1 DEF DeliveredBefore
  <2>1. End[delivered[m]] \in Nat
    BY DeliveredTypes
  <2>2. End[delivered[m]] <= BufferStart /\ delivered[m] \notin damaged
    BY DEF StreamInv, DeliveredBefore
  <2> QED BY <1>1, <2>1, <2>2
<1>4. CleanDelivered'
  BY DEF StreamInv, CleanDelivered, Clean
<1>5. CleanAligned'
  BY <1>1, EndGrows DEF CleanAligned, Clean
<1>6. FrontIncomplete'
  BY <1>1, EndGrows DEF FrontIncomplete, StartsWith
<1> QED BY <1>2, <1>3, <1>4, <1>5, <1>6 DEF StreamInv, Increasing

LEMMA StreamParse ==
    ASSUME WholeChecksum, StreamInv, getCompletedPackage
    PROVE  StreamInv'
<1>0. /\ received \in Nat /\ receiveCount \in 0 .. MAXRECV /\ receiveCount <= received
      /\ BufferStart \in Nat /\ received = BufferStart + receiveCount
      /\ MAXRECV \in Nat
      /\ UNCHANGED <<sent, received, damaged, overflowed>>
  BY SizesAssumption, EndGrows DEF StreamInv, TypeOK, BufferStart, getCompletedPackage
<1>1. \A k \in 1 .. N : /\ End[k] \in Nat /\ End[k - 1] \in Nat
                        /\ total_len(k) = End[k] - End[k - 1]
                        /\ End[k - 1] + VersionLen < End[k]
  BY EndGrows, SizesAssumption DEF total_len, WholeChecksum
<1>2. CASE TooShort
  <2>1. UNCHANGED <<receiveCount, delivered>> /\ parsing' = FALSE /\ receiveCount < VersionLen
    BY <1>2 DEF TooShort
  <2>2. FrontIncomplete'
    BY <1>0, <1>1, <2>1, SizesAssumption DEF FrontIncomplete, StartsWith, BufferStart
  <2> QED BY <1>0, <2>1, <2>2 DEF StreamInv, TypeOK, DeliveredBefore, Increasing, CleanDelivered,
                                  CleanAligned, Clean, StartsWith, BufferStart
<1>3. CASE Invalid
  <2>1. \A k \in 1 .. N : Clean(k) => End[k] <= BufferStart
    <3> SUFFICES ASSUME NEW k \in 1 .. N, Clean(k), BufferStart < End[k] PROVE FALSE
      BY <1>0, <1>1
    <3>1. PICK j \in 1 .. k : StartsWith(j)
      BY DEF StreamInv, CleanAligned
    <3>2. j \in 1 .. N
      BY SizesAssumption
    <3> QED BY <1>3, <3>1, <3>2 DEF Invalid
  <2> QED BY <1>0, <1>3, <2>1, StreamCleared DEF Invalid
<1>4. ASSUME NEW k \in 1 .. N, Incomplete(k)
      PROVE  StreamInv'
  <2>1. /\ UNCHANGED <<receiveCount, delivered>> /\ parsing' = FALSE
        /\ BufferStart = End[k - 1] /\ received < End[k]
    BY <1>0, <1>1, <1>4 DEF Incomplete, StartsWith
  <2>2. \A j \in 1 .. N : End[j - 1] = End[k - 1] => j = k
    BY EndGrows, SizesAssumption
  <2>3. FrontIncomplete'
    BY <2>1, <2>2, <1>0 DEF FrontIncomplete, StartsWith, BufferStart
  <2> QED BY <1>0, <2>1, <2>3 DEF StreamInv, TypeOK, DeliveredBefore, Increasing, CleanDelivered,
                                  CleanAligned, Clean, StartsWith, BufferStart
<1>5. ASSUME NEW k \in 1 .. N, ChecksumError(k)
      PROVE  StreamInv'
  <2>1. BufferStart = End[k - 1] /\ received >= End[k] /\ k \in damaged
    <3>1. BufferStart = End[k - 1] /\ receiveCount >= End[k] - End[k - 1]
      BY <1>1, <1>5 DEF ChecksumError, StartsWith
    <3>2. received >= End[k]
      BY <1>0, <1>1, <3>1
    <3> QED BY <1>5, <3>1, <3>2 DEF ChecksumError, ChecksumMatches
  <2>2. \A j \in 1 .. N : Clean(j) => j \in 0 .. k - 1
    BY <2>1, SizesAssumption DEF Clean
  <2>3. \A j \in 1 .. N : Clean(j) => End[j] <= BufferStart
    BY <1>1, <2>1, <2>2, EndGrows, SizesAssumption
  <2> QED BY <1>0, <1>5, <2>3, StreamCleared DEF ChecksumError
<1>6. ASSUME NEW k \in 1 .. N, Completed(k)
      PROVE  StreamInv'
  <2>1. /\ BufferStart = End[k - 1] /\ received >= End[k] /\ k \notin damaged
        /\ receiveCount >= End[k] - End[k - 1]
        /\ receiveCount' = receiveCount - (End[k] - End[k - 1])
        /\ delivered' = Append(delivered, k) /\ parsing' = TRUE
    <3>1. /\ BufferStart = End[k - 1] /\ receiveCount >= End[k] - End[k - 1]
          /\ receiveCount' = receiveCount - (End[k] - End[k - 1])
          /\ delivered' = Append(delivered, k) /\ parsing' = TRUE
      BY <1>1, <1>6 DEF Completed, StartsWith, getCompletedPackage, StreamInv, TypeOK
    <3>2. received >= End[k]
      BY <1>0, <1>1, <3>1
    <3> QED BY <1>6, <3>1, <3>2 DEF Completed, ChecksumMatches
  <2>2. BufferStart' = End[k]
    BY <1>0, <1>1, <2>1 DEF BufferStart
  <2>3. /\ delivered \in Seq(1 .. N) /\ delivered' \in Seq(1 .. N) /\ Len(delivered) \in Nat
        /\ DOMAIN delivered = 1 .. Len(delivered)
        /\ DOMAIN delivered' = 1 .. Len(delivered) + 1
        /\ delivered'[Len(delivered) + 1] = k
        /\ \A m \in DOMAIN delivered : delivered'[m] = delivered[m] /\ delivered[m] \in 1 .. N
    <3> DEFINE S == 1 .. N
    <3>1. delivered \in Seq(S) /\ k \in S
      BY DEF StreamInv, TypeOK
    <3>2. delivered' = Append(delivered, k)
      BY <2>1
    <3> HIDE DEF S
    <3>3. /\ delivered' \in Seq(S) /\ Len(delivered) \in Nat
          /\ DOMAIN delivered = 1 .. Len(delivered)
          /\ DOMAIN delivered' = 1 .. Len(delivered) + 1
          /\ delivered'[Len(delivered) + 1] = k
          /\ \A m \in DOMAIN delivered : delivered'[m] = delivered[m] /\ delivered[m] \in S
      BY <3>1, <3>2
    <3> QED BY <3>1, <3>3, Zenon DEF S
  <2>4. TypeOK'
    <3>1. /\ End[k] \in Nat /\ End[k - 1] \in Nat /\ End[k - 1] < End[k]
          /\ receiveCount \in Nat /\ receiveCount <= MAXRECV
      BY <1>0, <1>1, SizesAssumption
    <3>2. End[k] - End[k - 1] \in Nat /\ receiveCount' \in Nat /\ receiveCount' <= receiveCount
      BY <2>1, <3>1
    <3>3. receiveCount' \in 0 .. MAXRECV /\ receiveCount' <= received
      BY <1>0, <3>1, <3>2
    <3> QED BY <1>0, <2>1, <2>3, <3>3 DEF StreamInv, TypeOK
  <2>5. \A m \in DOMAIN delivered : End[delivered[m]] <= End[k - 1] /\ delivered[m] < k
    <3> TAKE m \in DOMAIN delivered
    <3>1. End[delivered[m]] <= End[k - 1]
      BY <2>1 DEF StreamInv, DeliveredBefore
    <3>2. delivered[m] \in 0 .. N /\ k - 1 \in 0 .. N /\ End[delivered[m]] \in Nat
      BY DeliveredTypes, EndGrows
    <3>3. ~ (End[k - 1] < End[delivered[m]])
      BY <1>1, <3>1, <3>2
    <3>4. ~ (k - 1 < delivered[m])
      BY <3>2, <3>3, EndGrows
    <3> QED BY <3>1, <3>2, <3>4, SizesAssumption
  <2>6. DeliveredBefore'
    <3> SUFFICES ASSUME NEW m \in 1 .. Len(delivered) + 1
                 PROVE  End[delivered'[m]] <= End[k] /\ delivered'[m] \notin damaged
      BY <1>0, <2>2, <2>3 DEF DeliveredBefore
    <3>1. CASE m \in DOMAIN delivered
      <4>1. End[delivered[m]] \in Nat /\ End[delivered[m]] <= End[k - 1]
        BY <2>5, <3>1, DeliveredTypes
      <4>2. delivered'[m] = delivered[m] /\ delivered[m] \notin damaged
        BY <2>3, <3>1 DEF StreamInv, DeliveredBefore
      <4>3. End[k - 1] \in Nat /\ End[k] \in Nat /\ End[k - 1] < End[k]
        BY <1>1, SizesAssumption
      <4> QED BY <4>1, <4>2, <4>3
    <3>2. CASE m = Len(delivered) + 1
      BY <1>1, <2>1, <2>3, <3>2
    <3> QED BY <2>3, <3>1, <3>2
  <2>7. Increasing'
    BY <2>3, <2>5 DEF StreamInv, Increasing
  <2>8. Range(delivered) \cup {k} \subseteq Range(delivered')
    BY <2>3 DEF Range
  <2>9. CleanDelivered'
    <3> SUFFICES ASSUME NEW j \in 1 .. N, Clean(j), End[j] <= End[k]
                 PROVE  j \in Range(delivered')
      BY <1>0, <2>2 DEF CleanDelivered, Clean
    <3>1. j \in 0 .. k
      BY <1>1, EndGrows, SizesAssumption
    <3>2. CASE j = k
      BY <2>8, <3>2
    <3>3. CASE j < k
      <4>1. End[j] <= End[k - 1]
        BY <1>1, <3>3, EndGrows, SizesAssumption
      <4> QED BY <2>1, <2>8, <4>1 DEF StreamInv, CleanDelivered
    <3> QED BY <3>1, <3>2, <3>3, SizesAssumption
  <2>10. CleanAligned'
    <3> SUFFICES ASSUME NEW j \in 1 .. N, End[k] < End[j]
                 PROVE  \E l \in 1 .. j : End[k] = End[l - 1]
      BY <1>0, <2>2 DEF CleanAligned, StartsWith
    <3>1. k < j
      BY EndGrows, SizesAssumption
    <3> QED BY <3>1, SizesAssumption
  <2>11. FrontIncomplete'
    BY <2>1 DEF FrontIncomplete
  <2> QED BY <2>4, <2>6, <2>7, <2>9, <2>10, <2>11 DEF StreamInv
<1> QED BY <1>2, <1>3, <1>4, <1>5, <1>6 DEF getCompletedPackage

LEMMA StreamStep == WholeChecksum /\ StreamInv /\ [Next]_vars => StreamInv'
<1>1. StreamInv /\ UNCHANGED vars => StreamInv'
  BY DEF vars, StreamInv, TypeOK, DeliveredBefore, Increasing, CleanDelivered, CleanAligned,
         FrontIncomplete, Clean, StartsWith, BufferStart
<1> QED BY <1>1, StreamSend, StreamReceive, StreamParse DEF Next, ServerNext

THEOREM StreamInvariant == ASSUME WholeChecksum PROVE Spec => []StreamInv
BY StreamInit, StreamStep, PTL DEF Spec

\* receiveCount stays within tempBuffer, and the rest of the types.
THEOREM StreamTypes == ASSUME WholeChecksum PROVE Spec => []TypeOK
BY StreamInvariant, PTL DEF StreamInv

\* Packages reach handle_package once, in order, whole and undamaged.
THEOREM DeliveryInOrder == ASSUME WholeChecksum PROVE Spec => []InOrderOnce
<1>1. StreamInv => InOrderOnce
  <2> SUFFICES ASSUME StreamInv, NEW m \in DOMAIN delivered
               PROVE  End[delivered[m]] <= received
    BY DEF StreamInv, InOrderOnce, Increasing, DeliveredBefore
  <2>1. End[delivered[m]] \in Nat /\ End[delivered[m]] <= BufferStart
    BY EndGrows, SizesAssumption DEF StreamInv, TypeOK, DeliveredBefore
  <2>2. BufferStart <= received /\ BufferStart \in Int /\ received \in Int
    BY EndGrows, SizesAssumption DEF StreamInv, TypeOK, BufferStart
  <2> QED BY <2>1, <2>2
<1> QED BY <1>1, StreamInvariant, PTL

\* Only damage and overflow lose a package.
THEOREM NoLossWithoutCause == ASSUME WholeChecksum PROVE Spec => []LossHasACause
<1>1. StreamInv => LossHasACause
  <2> SUFFICES ASSUME StreamInv, NEW k \in 1 .. N, ~ parsing, Clean(k), End[k] <= received
               PROVE  k \in Range(delivered)
    BY DEF LossHasACause, Clean
  <2>1. BufferStart \in Int /\ received \in Nat /\ End[k] \in Nat
    BY EndGrows, SizesAssumption DEF StreamInv, TypeOK, BufferStart
  <2>2. CASE End[k] <= BufferStart
    BY <2>2 DEF StreamInv, CleanDelivered
  <2>3. CASE BufferStart < End[k]
    <3>1. PICK j \in 1 .. k : StartsWith(j)
      BY <2>3 DEF StreamInv, CleanAligned
    <3>2. j \in 1 .. N /\ received < End[j]
      BY <3>1, SizesAssumption DEF StreamInv, FrontIncomplete
    <3>3. End[j] \in Nat /\ ~ (End[k] < End[j])
      BY <3>1, <3>2, EndGrows, SizesAssumption
    <3> QED BY <2>1, <3>2, <3>3
  <2> QED BY <2>1, <2>2, <2>3
<1> QED BY <1>1, StreamInvariant, PTL
=============================================================================
