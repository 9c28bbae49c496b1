------------------------- MODULE ReceivePath_proofs -------------------------
(***************************************************************************)
(* What ReceivePath promises, for every size of buffer, framing and end of   *)
(* the stream and cutting of it by the kernel, as far as the doubled sizes    *)
(* fit uint32_t: the step after that overruns its block and is the last.      *)
(***************************************************************************)
EXTENDS ReceivePath, TLAPS

\* An end of the stream that recv() has reported is one.
EofSeenIsReal == recvPc = "deliver" /\ atEof => ~peerOpen /\ received = sent

ReceiveInv ==
  /\ ReceiveTypeOK
  /\ UnreadBytesFollow
  /\ MessageIsWhole
  /\ NothingHeldBack
  /\ EofIsReal
  /\ EofSeenIsReal

-----------------------------------------------------------------------------
\* Moving the unread bytes to the front keeps them; that is all Recv() has done
\* when the allocator refuses it a larger block.
LEMMA CompactedBuffer ==
  ASSUME ReceiveTypeOK
  PROVE  /\ Compacted.data \in [0 .. size - 1 -> Byte \cup {Unwritten}]
         /\ Compacted.head \in 0 .. Compacted.tail
         /\ Compacted.tail \in 0 .. size
         /\ Compacted.tail - Compacted.head = tail - head
         /\ \A i \in 0 .. tail - head - 1 :
              Compacted.data[Compacted.head + i] = data[head + i]
<1>1. CASE tail = head
  BY <1>1, BufferAssumption, StreamAssumption DEF ReceiveTypeOK, Compacted
<1>2. CASE tail # head
  BY <1>2, BufferAssumption, StreamAssumption DEF ReceiveTypeOK, Compacted
<1> QED BY <1>1, <1>2

\* A block copied to the front of a larger one.
LEMMA CopiedBlock ==
  ASSUME NEW n \in Nat, NEW m \in Nat, NEW S, NEW d \in [0 .. n - 1 -> S],
         NEW blank \in S
  PROVE  [i \in 0 .. m - 1 |-> IF i < n THEN d[i] ELSE blank] \in [0 .. m - 1 -> S]
  OBVIOUS

\* What Recv() leaves of the buffer before it reads: the same unread bytes, and
\* room for at least one more.
LEMMA PreparedBuffer ==
  ASSUME ReceiveTypeOK, MustExpand => DoubledSize > size
  PROVE  /\ Prepared.size \in BlockSizes
         /\ Prepared.head \in 0 .. Prepared.tail
         /\ Prepared.tail \in 0 .. Prepared.size - 1
         /\ Prepared.tail - Prepared.head = tail - head
         /\ Prepared.data \in [0 .. Prepared.size - 1 -> Byte \cup {Unwritten}]
         /\ \A i \in 0 .. tail - head - 1 :
              Prepared.data[Prepared.head + i] = data[head + i]
<1> USE BufferAssumption, StreamAssumption
<1>1. CASE ~MustExpand
  <2>1. tail < size
    BY <1>1 DEF ReceiveTypeOK, MustExpand, UintSum
  <2>2. /\ Prepared.size = size
        /\ Prepared.tail = tail
        /\ Prepared.head = head
        /\ Prepared.data = data
    BY <1>1 DEF Prepared
  <2> QED BY <2>1, <2>2 DEF ReceiveTypeOK
<1>2. CASE MustExpand
  <2>1. DoubledSize = 2 * size /\ 2 * size \in BlockSizes
    BY <1>2 DEF ReceiveTypeOK, DoubledSize, UintSum
  <2>2. PICK d, t, h : d = Compacted.data /\ t = Compacted.tail /\ h = Compacted.head
    OBVIOUS
  <2>3. /\ d \in [0 .. size - 1 -> Byte \cup {Unwritten}]
        /\ h \in 0 .. t
        /\ t \in 0 .. size
        /\ t - h = tail - head
        /\ \A i \in 0 .. tail - head - 1 : d[h + i] = data[head + i]
    BY <2>2, CompactedBuffer
  <2>4. /\ Prepared.size = 2 * size
        /\ Prepared.tail = t
        /\ Prepared.head = h
        /\ Prepared.data = [i \in 0 .. 2 * size - 1 |-> IF i < size THEN d[i] ELSE Unwritten]
    BY <1>2, <2>1, <2>2 DEF Prepared
  <2>5. size \in Nat \ {0} /\ 2 * size \in Nat
    BY DEF ReceiveTypeOK
  <2>6. Prepared.data \in [0 .. 2 * size - 1 -> Byte \cup {Unwritten}]
    BY <2>3, <2>4, <2>5, CopiedBlock
  <2>7. ASSUME NEW i \in 0 .. tail - head - 1
        PROVE  Prepared.data[h + i] = data[head + i]
    <3>1. h + i \in 0 .. 2 * size - 1 /\ h + i < size
      BY <2>3, <2>5 DEF ReceiveTypeOK
    <3> QED BY <2>3, <2>4, <3>1
  <2> QED BY <2>1, <2>3, <2>4, <2>5, <2>6, <2>7
<1> QED BY <1>1, <1>2

LEMMA InitReceiveInv == ReceiveInit => ReceiveInv
<1> SUFFICES ASSUME ReceiveInit
             PROVE  ReceiveInv
  OBVIOUS
<1> USE BufferAssumption, StreamAssumption DEF ReceiveInit
<1>1. ReceiveTypeOK
  <2>1. size \in BlockSizes /\ tail \in 0 .. size /\ head \in 0 .. tail
    OBVIOUS
  <2>2. data \in [0 .. size - 1 -> Byte \cup {Unwritten}]
    OBVIOUS
  <2>3. /\ wanted \in Nat /\ received \in 0 .. sent /\ sent \in 0 .. StreamLength /\ handed \in Nat
        /\ lastMessage.at \in Nat
    OBVIOUS
  <2> QED BY <2>1, <2>2, <2>3 DEF ReceiveTypeOK
<1>2. UnreadBytesFollow
  BY DEF UnreadBytesFollow, Available
<1>3. MessageIsWhole
  BY DEF MessageIsWhole
<1>4. NothingHeldBack
  BY DEF NothingHeldBack, Available
<1>5. EofIsReal /\ EofSeenIsReal
  BY DEF EofIsReal, EofSeenIsReal
<1> QED BY <1>1, <1>2, <1>3, <1>4, <1>5 DEF ReceiveInv

-----------------------------------------------------------------------------
\* A reallocated or compacted buffer holds the same unread bytes.
LEMMA SameUnreadBytes ==
  ASSUME ReceiveTypeOK, UnreadBytesFollow,
         NEW d, NEW h \in Nat, NEW t \in Nat, h <= t, t - h = tail - head,
         \A i \in 0 .. tail - head - 1 : d[h + i] = data[head + i]
  PROVE  \A i \in h .. t - 1 : d[i] = handed + (i - h)
<1> USE BufferAssumption, StreamAssumption
<1> SUFFICES ASSUME NEW i \in h .. t - 1
             PROVE  d[i] = handed + (i - h)
  OBVIOUS
<1> DEFINE k == i - h
<1>1. /\ k \in 0 .. tail - head - 1
      /\ h + k = i
      /\ head + k \in head .. tail - 1
  BY DEF ReceiveTypeOK
<1>2. d[h + k] = data[head + k]
  BY <1>1
<1>3. data[head + k] = handed + ((head + k) - head)
  BY <1>1 DEF UnreadBytesFollow
<1>4. (head + k) - head = k
  BY <1>1 DEF ReceiveTypeOK
<1> HIDE DEF k
<1>5. d[i] = handed + k
  BY <1>1, <1>2, <1>3, <1>4
<1> QED BY <1>5 DEF k

\* Recv() that reads bytes fills the free room with the next ones of the stream.
LEMMA ReceiveBytesStep ==
  ASSUME ReceiveInv, ReceiveBytes
  PROVE  ReceiveInv'
<1> USE BufferAssumption, StreamAssumption
<1>0. /\ ReceiveTypeOK
      /\ UnreadBytesFollow
      /\ MessageIsWhole
      /\ NothingHeldBack
      /\ EofIsReal
  BY DEF ReceiveInv
<1>1. PICK d, s, h, t : /\ d = Prepared.data
                        /\ s = Prepared.size
                        /\ h = Prepared.head
                        /\ t = Prepared.tail
  OBVIOUS
<1>2. /\ s \in BlockSizes
      /\ h \in 0 .. t
      /\ t \in 0 .. s - 1
      /\ t - h = tail - head
      /\ d \in [0 .. s - 1 -> Byte \cup {Unwritten}]
      /\ \A i \in 0 .. tail - head - 1 : d[h + i] = data[head + i]
  <2>1. MustExpand => DoubledSize > size
    BY DEF ReceiveBytes, CanReceive
  <2> QED BY <1>0, <1>1, <2>1, PreparedBuffer
<1>3. PICK n \in 1 .. Least(s - t, wanted) :
        /\ n <= sent - received
        /\ data' = [i \in 0 .. s - 1 |->
                      IF i \in t .. t + n - 1 THEN received + (i - t) ELSE d[i]]
        /\ tail' = t + n
        /\ received' = received + n
        /\ wanted' = wanted - n
  BY <1>1 DEF ReceiveBytes, WriteLength
<1>4. /\ size' = s
      /\ head' = h
      /\ recvPc' = "deliver"
      /\ atEof' = FALSE
      /\ gotBytes' = TRUE
      /\ UNCHANGED <<connected, sent, peerOpen, handed, lastMessage, ended>>
  BY <1>1 DEF ReceiveBytes
<1>5. n <= s - t /\ n <= wanted /\ n \in Nat \ {0}
  BY <1>0, <1>2, <1>3 DEF Least, ReceiveTypeOK
<1>6. /\ s \in Nat /\ h \in Nat /\ t \in Nat /\ h <= t /\ t + n <= s
      /\ received \in Nat /\ handed \in Nat /\ n \in Nat \ {0}
  BY <1>0, <1>2, <1>5 DEF ReceiveTypeOK
<1>7. received = handed + (t - h)
  BY <1>0, <1>2 DEF UnreadBytesFollow, Available
<1>8. \A k \in 0 .. n - 1 : received + k \in Byte
  BY <1>0, <1>3, <1>5 DEF Byte, ReceiveTypeOK
<1>9. /\ data' \in [0 .. s - 1 -> Byte \cup {Unwritten}]
      /\ \A i \in h .. t + n - 1 : data'[i] = handed + (i - h)
  <2>1. \A i \in h .. t - 1 : d[i] = handed + (i - h)
    <3>1. /\ h \in Nat /\ t \in Nat /\ h <= t /\ t - h = tail - head
          /\ ReceiveTypeOK /\ UnreadBytesFollow
      BY <1>0, <1>2, <1>6
    <3>2. \A i \in 0 .. tail - head - 1 : d[h + i] = data[head + i]
      BY <1>2
    <3> QED BY <3>1, <3>2, SameUnreadBytes
  <2>2. data' = [i \in 0 .. s - 1 |->
                   IF i \in t .. t + n - 1 THEN received + (i - t) ELSE d[i]]
    BY <1>3
  <2>3. d \in [0 .. s - 1 -> Byte \cup {Unwritten}]
    BY <1>2
  <2>4. ASSUME NEW i \in 0 .. s - 1
        PROVE  (IF i \in t .. t + n - 1 THEN received + (i - t) ELSE d[i])
                  \in Byte \cup {Unwritten}
    <3>1. CASE i \in t .. t + n - 1
      <4>1. i - t \in 0 .. n - 1
        BY <1>6, <3>1
      <4> QED BY <1>8, <3>1, <4>1
    <3>2. CASE i \notin t .. t + n - 1
      BY <2>3, <3>2
    <3> QED BY <3>1, <3>2
  <2>5. ASSUME NEW i \in h .. t + n - 1
        PROVE  data'[i] = handed + (i - h)
    <3>1. i \in 0 .. s - 1
      BY <1>6
    <3>2. data'[i] = IF i \in t .. t + n - 1 THEN received + (i - t) ELSE d[i]
      BY <2>2, <3>1
    <3>3. CASE i >= t
      BY <1>6, <1>7, <3>2, <3>3
    <3>4. CASE i < t
      BY <1>6, <2>1, <3>2, <3>4
    <3> QED BY <1>6, <3>3, <3>4
  <2> QED BY <2>2, <2>4, <2>5
<1>10. ReceiveTypeOK'
  <2>1. /\ size' \in BlockSizes
        /\ tail' \in 0 .. size'
        /\ head' \in 0 .. tail'
    BY <1>2, <1>3, <1>4, <1>5
  <2>2. data' \in [0 .. size' - 1 -> Byte \cup {Unwritten}]
    BY <1>4, <1>9
  <2>3. /\ wanted' \in Nat
        /\ received' \in 0 .. sent
    BY <1>0, <1>3, <1>5, <1>6 DEF ReceiveTypeOK
  <2> QED BY <1>0, <1>4, <2>1, <2>2, <2>3 DEF ReceiveTypeOK
<1>11. UnreadBytesFollow'
  <2>1. received' = handed' + Available'
    BY <1>3, <1>4, <1>6, <1>7 DEF Available
  <2>2. \A i \in head' .. tail' - 1 : data'[i] = handed' + (i - head')
    <3>1. head' = h /\ tail' = t + n /\ handed' = handed
      BY <1>3, <1>4
    <3> SUFFICES ASSUME NEW i \in head' .. tail' - 1
                 PROVE  data'[i] = handed' + (i - head')
      OBVIOUS
    <3>2. i \in h .. t + n - 1
      BY <1>6, <3>1
    <3> QED BY <1>9, <3>1, <3>2
  <2> QED BY <2>1, <2>2 DEF UnreadBytesFollow
<1>12. MessageIsWhole'
  BY <1>4 DEF ReceiveInv, MessageIsWhole
<1>13. NothingHeldBack' /\ EofSeenIsReal'
  <2>1. recvPc' = "deliver" /\ atEof' = FALSE
    BY DEF ReceiveBytes
  <2> QED BY <2>1 DEF NothingHeldBack, EofSeenIsReal
<1>14. EofIsReal'
  <2>1. ended = "eof" => ~peerOpen /\ received = sent
    BY DEF ReceiveInv, EofIsReal
  <2>2. ended' = ended /\ peerOpen' = peerOpen /\ sent' = sent
    BY DEF ReceiveBytes
  <2>3. received = sent => FALSE
    BY <1>3, <1>6
  <2> QED BY <2>1, <2>2, <2>3 DEF EofIsReal
<1> QED
  BY <1>10, <1>11, <1>12, <1>13, <1>14 DEF ReceiveInv

\* A Recv() that reads no byte has at most moved the unread ones.
LEMMA NoByteReceived ==
  ASSUME ReceiveInv,
         NEW d, NEW s \in BlockSizes, NEW h, NEW t \in 0 .. s,
         h \in 0 .. t, t - h = tail - head,
         d \in [0 .. s - 1 -> Byte \cup {Unwritten}],
         \A i \in 0 .. tail - head - 1 : d[h + i] = data[head + i],
         data' = d, size' = s, head' = h, tail' = t,
         UNCHANGED <<connected, wanted, streamVars, handed, lastMessage>>,
         atEof' \in BOOLEAN, gotBytes' \in BOOLEAN,
         recvPc' \in {"idle", "deliver"},
         ended' \in {"no", "error", "eof", "rejected"}
  PROVE  ReceiveTypeOK' /\ UnreadBytesFollow'
<1>1. ReceiveTypeOK /\ UnreadBytesFollow
  BY DEF ReceiveInv
<1>2. h \in Nat /\ t \in Nat /\ h <= t
  BY BufferAssumption
<1>3. \A i \in h .. t - 1 : d[i] = handed + (i - h)
  BY <1>1, <1>2, SameUnreadBytes, Zenon
<1> USE BufferAssumption, StreamAssumption
<1>4. ReceiveTypeOK'
  BY <1>1 DEF ReceiveTypeOK, streamVars
<1>5. received' = handed' + Available'
  BY <1>1 DEF UnreadBytesFollow, Available, streamVars
<1>6. \A i \in head' .. tail' - 1 : data'[i] = handed' + (i - head')
  BY <1>3
<1> QED BY <1>4, <1>5, <1>6 DEF UnreadBytesFollow

LEMMA ReceiveNothingStep ==
  ASSUME ReceiveInv, ReceiveNothing
  PROVE  ReceiveInv'
<1> USE BufferAssumption, StreamAssumption
<1>0. /\ ReceiveTypeOK
      /\ MessageIsWhole
      /\ EofIsReal
  BY DEF ReceiveInv
<1>1. PICK d, s, h, t : /\ d = Prepared.data
                        /\ s = Prepared.size
                        /\ h = Prepared.head
                        /\ t = Prepared.tail
  OBVIOUS
<1>2. /\ s \in BlockSizes
      /\ h \in 0 .. t
      /\ t \in 0 .. s - 1
      /\ t - h = tail - head
      /\ d \in [0 .. s - 1 -> Byte \cup {Unwritten}]
      /\ \A i \in 0 .. tail - head - 1 : d[h + i] = data[head + i]
  <2>1. MustExpand => DoubledSize > size
    BY DEF ReceiveNothing, CanReceive
  <2> QED BY <1>0, <1>1, <2>1, PreparedBuffer
<1>3. /\ data' = d /\ size' = s /\ head' = h /\ tail' = t
      /\ gotBytes' = FALSE /\ recvPc' = "deliver"
      /\ atEof' \in BOOLEAN
      /\ UNCHANGED <<connected, wanted, streamVars, handed, lastMessage, ended>>
  BY <1>1 DEF ReceiveNothing
<1>4. ReceiveTypeOK' /\ UnreadBytesFollow'
  <2>1. t \in 0 .. s /\ ended' \in {"no", "error", "eof", "rejected"}
    BY <1>0, <1>2, <1>3 DEF ReceiveTypeOK
  <2> QED BY <1>2, <1>3, <2>1, NoByteReceived
\* The buffer has room, so that recv() was asked for a byte.
<1>5. WriteLength > 0
  <2>1. wanted \in Nat /\ wanted > 0
    BY <1>0 DEF ReceiveTypeOK, ReceiveNothing, CanReceive
  <2>2. s \in Nat /\ t \in Nat /\ s - t > 0
    BY <1>2
  <2>3. WriteLength = Least(s - t, wanted)
    BY <1>1 DEF WriteLength
  <2> QED BY <2>1, <2>2, <2>3 DEF Least
<1>6. atEof' => ~peerOpen' /\ received' = sent'
  <2>1. atEof' => WriteLength = 0 \/ (~peerOpen /\ received = sent)
    BY Zenon DEF ReceiveNothing
  <2>2. WriteLength # 0
    BY <1>5
  <2>3. UNCHANGED <<received, sent, peerOpen>>
    BY <1>3 DEF streamVars
  <2> QED BY <2>1, <2>2, <2>3
<1> QED
  BY <1>0, <1>3, <1>4, <1>6
  DEF ReceiveInv, MessageIsWhole, NothingHeldBack, EofIsReal, EofSeenIsReal, streamVars

LEMMA ReceiveErrorStep ==
  ASSUME ReceiveInv, ReceiveError
  PROVE  ReceiveInv'
<1> USE BufferAssumption, StreamAssumption
<1>0. /\ ReceiveTypeOK
      /\ MessageIsWhole
  BY DEF ReceiveInv
<1>1. PICK d, s, h, t : /\ d = Prepared.data
                        /\ s = Prepared.size
                        /\ h = Prepared.head
                        /\ t = Prepared.tail
  OBVIOUS
<1>2. /\ s \in BlockSizes
      /\ h \in 0 .. t
      /\ t \in 0 .. s - 1
      /\ t - h = tail - head
      /\ d \in [0 .. s - 1 -> Byte \cup {Unwritten}]
      /\ \A i \in 0 .. tail - head - 1 : d[h + i] = data[head + i]
  <2>1. MustExpand => DoubledSize > size
    BY DEF ReceiveError, CanReceive
  <2> QED BY <1>0, <1>1, <2>1, PreparedBuffer
<1>3. /\ data' = d /\ size' = s /\ head' = h /\ tail' = t
      /\ recvPc' = "idle" /\ ended' = "error"
      /\ UNCHANGED <<connected, wanted, atEof, gotBytes, streamVars, handed, lastMessage>>
  BY <1>1 DEF ReceiveError, EndRecv
<1>4. ReceiveTypeOK' /\ UnreadBytesFollow'
  <2>1. t \in 0 .. s /\ atEof' \in BOOLEAN /\ gotBytes' \in BOOLEAN
    BY <1>0, <1>2, <1>3 DEF ReceiveTypeOK
  <2> QED BY <1>2, <1>3, <2>1, NoByteReceived
<1> QED
  BY <1>0, <1>3, <1>4
  DEF ReceiveInv, MessageIsWhole, NothingHeldBack, EofIsReal, EofSeenIsReal

LEMMA OutOfMemoryStep ==
  ASSUME ReceiveInv, OutOfMemory
  PROVE  ReceiveInv'
<1> USE BufferAssumption, StreamAssumption
<1>0. /\ ReceiveTypeOK
      /\ MessageIsWhole
  BY DEF ReceiveInv
<1>1. PICK d, h, t : /\ d = Compacted.data
                     /\ h = Compacted.head
                     /\ t = Compacted.tail
  OBVIOUS
<1>2. /\ d \in [0 .. size - 1 -> Byte \cup {Unwritten}]
      /\ h \in 0 .. t
      /\ t \in 0 .. size
      /\ t - h = tail - head
      /\ \A i \in 0 .. tail - head - 1 : d[h + i] = data[head + i]
  BY <1>0, <1>1, CompactedBuffer
<1>3. /\ data' = d /\ size' = size /\ head' = h /\ tail' = t
      /\ recvPc' = "idle" /\ ended' = "error"
      /\ UNCHANGED <<connected, wanted, atEof, gotBytes, streamVars, handed, lastMessage>>
  BY <1>1 DEF OutOfMemory, EndRecv
<1>4. ReceiveTypeOK' /\ UnreadBytesFollow'
  <2>1. /\ size \in BlockSizes
        /\ atEof' \in BOOLEAN /\ gotBytes' \in BOOLEAN
    BY <1>0, <1>3 DEF ReceiveTypeOK
  <2> QED BY <1>2, <1>3, <2>1, NoByteReceived
<1> QED
  BY <1>0, <1>3, <1>4
  DEF ReceiveInv, MessageIsWhole, NothingHeldBack, EofIsReal, EofSeenIsReal

-----------------------------------------------------------------------------
\* The first unread byte, which the callback looks at, begins the next message.
LEMMA NextMessage ==
  ASSUME ReceiveInv, head < tail
  PROVE  data[head] = handed /\ handed \in Byte
<1> USE BufferAssumption, StreamAssumption
<1>1. ReceiveTypeOK /\ UnreadBytesFollow
  BY DEF ReceiveInv
<1>2. head \in Nat /\ head \in head .. tail - 1
  BY <1>1 DEF ReceiveTypeOK
<1>3. data[head] = handed
  BY <1>1, <1>2 DEF UnreadBytesFollow, ReceiveTypeOK
<1>4. handed \in Byte
  BY <1>1 DEF UnreadBytesFollow, Available, Byte, ReceiveTypeOK
<1> QED BY <1>3, <1>4

LEMMA DeliverMessageStep ==
  ASSUME ReceiveInv, DeliverMessage
  PROVE  ReceiveInv'
<1> USE BufferAssumption, StreamAssumption
<1>0. /\ ReceiveTypeOK
      /\ UnreadBytesFollow
      /\ EofIsReal
      /\ EofSeenIsReal
  BY DEF ReceiveInv
<1>1. Available >= HeaderSize /\ recvPc = "deliver"
  BY DEF DeliverMessage
<1>2. head < tail
  BY <1>0, <1>1 DEF Available, ReceiveTypeOK
<1>3. data[head] = handed /\ handed \in Byte
  BY <1>2, NextMessage
<1>4. PICK length \in Nat : length = Frame[handed]
  BY <1>3
<1>5. /\ length > 0
      /\ length <= tail - head
      /\ lastMessage' = [at |-> handed, bytes |-> [i \in 1 .. length |-> data[head + i - 1]]]
      /\ handed' = handed + length
      /\ UNCHANGED <<connected, data, size, streamVars, wanted, atEof, gotBytes>>
  BY <1>3, <1>4 DEF DeliverMessage, Available
<1>6. \/ /\ head + length = tail
         /\ head' = 0
         /\ tail' = 0
         /\ AfterDelivery
      \/ /\ head + length # tail
         /\ head' = head + length
         /\ UNCHANGED <<tail, recvPc, ended>>
  BY <1>3, <1>4 DEF DeliverMessage
<1>7. /\ recvPc' \in {"idle", "recv", "deliver"}
      /\ recvPc' = "recv" => wanted > 0
      /\ ended' \in {"no", "error", "eof", "rejected"}
      /\ recvPc' = "deliver" => UNCHANGED recvPc
      /\ ended' = "eof" => atEof \/ ended = "eof"
      /\ recvPc' # "deliver" => Available' = 0
  <2>1. /\ wanted \in Nat
        /\ ended \in {"no", "error", "eof", "rejected"}
    BY <1>0 DEF ReceiveTypeOK
  <2>2. CASE head' = 0 /\ tail' = 0 /\ AfterDelivery
    BY <2>1, <2>2 DEF AfterDelivery, EndRecv, Available
  <2>3. CASE UNCHANGED <<recvPc, ended>>
    BY <1>1, <2>1, <2>3
  <2> QED BY <1>6, <2>2, <2>3
<1>8. ReceiveTypeOK'
  <2>1. /\ tail' \in 0 .. size
        /\ head' \in 0 .. tail'
        /\ handed' \in Nat
        /\ lastMessage'.at \in Nat
    BY <1>0, <1>5, <1>6 DEF ReceiveTypeOK
  <2> QED BY <1>0, <1>5, <1>7, <2>1 DEF ReceiveTypeOK, streamVars
<1>9. UnreadBytesFollow'
  <2>1. received' = handed' + Available'
    <3>1. /\ received = handed + (tail - head)
          /\ tail \in Nat /\ head \in Nat /\ handed \in Nat
          /\ received' = received
      BY <1>0, <1>5 DEF UnreadBytesFollow, Available, ReceiveTypeOK, streamVars
    <3>2. handed' = handed + length
      BY <1>5
    <3>3. CASE head' = 0 /\ tail' = 0 /\ head + length = tail
      <4>1. Available' = 0
        BY <3>3 DEF Available
      <4> QED BY <3>1, <3>2, <3>3, <4>1
    <3>4. CASE head' = head + length /\ tail' = tail
      <4>1. Available' = tail - (head + length)
        BY <3>4 DEF Available
      <4> QED BY <3>1, <3>2, <4>1
    <3> QED BY <1>6, <3>3, <3>4
  <2>2. ASSUME NEW i \in head' .. tail' - 1
        PROVE  data'[i] = handed' + (i - head')
    <3>1. /\ i \in head .. tail - 1 /\ head' = head + length /\ head \in Nat
          /\ handed \in Nat
      BY <1>0, <1>5, <1>6 DEF ReceiveTypeOK
    <3>2. data[i] = handed + (i - head)
      BY <1>0, <3>1 DEF UnreadBytesFollow
    <3> QED BY <1>5, <3>1, <3>2
  <2> QED BY <2>1, <2>2 DEF UnreadBytesFollow
<1>10. MessageIsWhole'
  <2>1. ASSUME NEW i \in 1 .. length
        PROVE  data[head + i - 1] = handed + i - 1
    <3>1. head + i - 1 \in head .. tail - 1 /\ head \in Nat /\ handed \in Nat
      BY <1>0, <1>5 DEF ReceiveTypeOK
    <3>2. data[head + i - 1] = handed + ((head + i - 1) - head)
      BY <1>0, <3>1 DEF UnreadBytesFollow
    <3> QED BY <3>1, <3>2
  <2>2. lastMessage'.bytes = [i \in 1 .. length |-> handed + i - 1]
    BY <1>5, <2>1
  <2>3. lastMessage'.at = handed
    BY <1>5
  <2> QED BY <1>4, <1>5, <2>2, <2>3 DEF MessageIsWhole
<1>11. NothingHeldBack'
  BY <1>0, <1>1, <1>7 DEF NothingHeldBack
<1>12. EofIsReal' /\ EofSeenIsReal'
  BY <1>0, <1>1, <1>5, <1>7 DEF EofIsReal, EofSeenIsReal, streamVars
<1> QED BY <1>8, <1>9, <1>10, <1>11, <1>12 DEF ReceiveInv

LEMMA WaitForMoreStep ==
  ASSUME ReceiveInv, WaitForMore
  PROVE  ReceiveInv'
<1> USE BufferAssumption, StreamAssumption
<1>1. /\ recvPc' \in {"idle", "recv"}
      /\ recvPc' = "recv" => wanted > 0
      /\ ended' \in {"no", "error", "eof", "rejected"}
      /\ ended' = "eof" => atEof \/ ended = "eof"
      /\ UNCHANGED <<connected, bufferVars, streamVars, wanted, atEof, gotBytes, handed, lastMessage>>
  BY DEF ReceiveInv, ReceiveTypeOK, WaitForMore, AfterDelivery, EndRecv
<1>2. Available >= HeaderSize => Frame[data[head]] > Available
  <2>1. CASE Available < HeaderSize
    BY <2>1 DEF ReceiveInv, ReceiveTypeOK, Available
  <2>2. CASE Frame[data[head]] > Available
    BY <2>2
  <2> QED BY <2>1, <2>2 DEF WaitForMore
<1>3. ReceiveTypeOK'
  BY <1>1 DEF ReceiveInv, ReceiveTypeOK, bufferVars, streamVars
<1>4. UnreadBytesFollow' /\ MessageIsWhole'
  BY <1>1 DEF ReceiveInv, UnreadBytesFollow, MessageIsWhole, Available, bufferVars, streamVars
<1>5. NothingHeldBack'
  BY <1>1, <1>2 DEF NothingHeldBack, Available, bufferVars
<1>6. EofIsReal' /\ EofSeenIsReal'
  BY <1>1 DEF ReceiveInv, EofIsReal, EofSeenIsReal, WaitForMore, streamVars
<1> QED BY <1>3, <1>4, <1>5, <1>6 DEF ReceiveInv

\* A peer that closes had not closed before: no end was seen yet.
LEMMA PeerClosesStep ==
  ASSUME ReceiveInv, PeerCloses
  PROVE  ReceiveInv'
<1>1. /\ peerOpen
      /\ peerOpen' = FALSE
      /\ sent' \in received .. StreamLength
      /\ UNCHANGED <<connected, bufferVars, recvVars, received, handed, lastMessage, ended>>
  BY DEF PeerCloses
<1>2. /\ ReceiveTypeOK
      /\ UnreadBytesFollow
      /\ MessageIsWhole
      /\ NothingHeldBack
      /\ EofIsReal
      /\ EofSeenIsReal
  BY DEF ReceiveInv
<1>3. ReceiveTypeOK'
  <2>1. StreamLength \in Nat /\ received \in Nat
    BY <1>2, StreamAssumption DEF ReceiveTypeOK
  <2>2. sent' \in 0 .. StreamLength /\ received' \in 0 .. sent'
    <3>1. sent' \in received .. StreamLength /\ received' = received
      BY <1>1
    <3> QED BY <2>1, <3>1
  <2>3. /\ UNCHANGED <<connected, bufferVars, recvVars, handed, lastMessage, ended>>
        /\ peerOpen' \in BOOLEAN
    BY <1>1
  <2> QED BY <1>2, <2>2, <2>3 DEF ReceiveTypeOK, bufferVars, recvVars
<1>4. UnreadBytesFollow' /\ MessageIsWhole' /\ NothingHeldBack'
  BY <1>1, <1>2
  DEF UnreadBytesFollow, MessageIsWhole, NothingHeldBack, Available, bufferVars, recvVars
<1>5. EofIsReal' /\ EofSeenIsReal'
  BY <1>1, <1>2 DEF EofIsReal, EofSeenIsReal, recvVars
<1> QED BY <1>3, <1>4, <1>5 DEF ReceiveInv

\* The remaining steps leave the buffer and the stream alone.
LEMMA BufferAloneStep ==
  ASSUME ReceiveInv, Disconnect \/ StartRecv \/ RejectData \/ OverrunBlock
  PROVE  ReceiveInv'
<1> USE BufferAssumption, StreamAssumption DEF bufferVars, streamVars, recvVars
<1>1. UNCHANGED <<bufferVars, streamVars, handed, lastMessage>>
  BY DEF Disconnect, StartRecv, RejectData, OverrunBlock
<1>2. ReceiveTypeOK'
  BY <1>1 DEF ReceiveInv, ReceiveTypeOK, Disconnect, StartRecv, RejectData, OverrunBlock, EndRecv
<1>3. UnreadBytesFollow' /\ MessageIsWhole'
  BY <1>1 DEF ReceiveInv, UnreadBytesFollow, MessageIsWhole, Available
<1>4. NothingHeldBack'
  BY <1>1 DEF ReceiveInv, NothingHeldBack, Available,
              Disconnect, StartRecv, RejectData, OverrunBlock, EndRecv
<1>5. EofIsReal' /\ EofSeenIsReal'
  BY <1>1 DEF ReceiveInv, ReceiveTypeOK, EofIsReal, EofSeenIsReal,
              Disconnect, StartRecv, RejectData, OverrunBlock, EndRecv
<1> QED BY <1>2, <1>3, <1>4, <1>5 DEF ReceiveInv

LEMMA ReceiveInvNext == ReceiveInv /\ [ReceiveNext]_receiveVars => ReceiveInv'
<1> SUFFICES ASSUME ReceiveInv, [ReceiveNext]_receiveVars
             PROVE  ReceiveInv'
  OBVIOUS
<1>1. CASE UNCHANGED receiveVars
  BY <1>1 DEF receiveVars, bufferVars, streamVars, recvVars, ReceiveInv, ReceiveTypeOK,
              UnreadBytesFollow, MessageIsWhole, NothingHeldBack, EofIsReal,
              EofSeenIsReal, Available
<1>2. CASE ReceiveBytes
  BY <1>2, ReceiveBytesStep
<1>3. CASE ReceiveNothing
  BY <1>3, ReceiveNothingStep
<1>4. CASE ReceiveError
  BY <1>4, ReceiveErrorStep
<1>5. CASE OutOfMemory
  BY <1>5, OutOfMemoryStep
<1>6. CASE DeliverMessage
  BY <1>6, DeliverMessageStep
<1>7. CASE WaitForMore
  BY <1>7, WaitForMoreStep
<1>8. CASE PeerCloses
  BY <1>8, PeerClosesStep
<1>9. CASE Disconnect \/ StartRecv \/ RejectData \/ OverrunBlock
  BY <1>9, BufferAloneStep
<1> QED
  BY <1>1, <1>2, <1>3, <1>4, <1>5, <1>6, <1>7, <1>8, <1>9 DEF ReceiveNext

LEMMA ReceiveInvariant == ReceiveSpec => []ReceiveInv
<1>1. ReceiveInit => ReceiveInv
  BY InitReceiveInv
<1>2. ReceiveInv /\ [ReceiveNext]_receiveVars => ReceiveInv'
  BY ReceiveInvNext
<1> QED BY <1>1, <1>2, PTL DEF ReceiveSpec

\* The indices of a receive buffer stay ordered and within its block, whatever blocks
\* the allocator grants: a doubling that wraps the size is where the buffer ends.
THEOREM ReceiveTypeCorrect == ReceiveSpec => []ReceiveTypeOK
<1>1. ReceiveInv => ReceiveTypeOK
  BY DEF ReceiveInv
<1> QED BY <1>1, ReceiveInvariant, PTL

\* No byte is lost, doubled or moved out of its place by compaction and growth, and
\* the application is handed the messages of the stream, whole and in order, until a
\* doubling wraps the size.
THEOREM StreamIsKeptAlways == ReceiveSpec => []StreamIsKept
<1>1. ReceiveInv => StreamIsKept
  BY DEF ReceiveInv, StreamIsKept
<1> QED BY <1>1, ReceiveInvariant, PTL

\* Recv() returns with no whole message left in the buffer.
THEOREM NothingHeldBackAlways == ReceiveSpec => []NothingHeldBack
<1>1. ReceiveInv => NothingHeldBack
  BY DEF ReceiveInv
<1> QED BY <1>1, ReceiveInvariant, PTL

\* Only a peer that has closed, and all of whose bytes were read, ends a connection
\* without an error: recv() always has room to read into.
THEOREM EofIsRealAlways == ReceiveSpec => []EofIsReal
<1>1. ReceiveInv => EofIsReal
  BY DEF ReceiveInv
<1> QED BY <1>1, ReceiveInvariant, PTL
=============================================================================
