---------------------------- MODULE ReceivePath ----------------------------
(***************************************************************************)
(* How an I/O thread turns a TCP stream into messages: CReceiveBuffer, and  *)
(* CConnectionImpl::Recv() and DeliverMessage() over it.  A byte of the     *)
(* stream is known by its position.  The kernel hands out the bytes in      *)
(* order, as many at a time as it likes; the callback of the application    *)
(* finds the length of the message that begins with a given byte.           *)
(***************************************************************************)
EXTENDS Integers

CONSTANTS
  InitialSize,  \* bytes of a new buffer (4096)
  Slack,        \* the buffer grows when no more than Slack bytes are left (1024)
  BlockSizes,   \* what InitialSize comes to by doubling (2^12, 2^13 .. 2^31)
  Wrap,         \* 2^32: uint32_t arithmetic wraps here
  StreamLength, \* the most bytes the peer sends
  HeaderSize,   \* the callback cannot tell a length from fewer bytes
  Frame,        \* length of the message that begins at a position, 0 if none can
  RecvSizes     \* how much the dispatcher may ask one Recv() to read

Byte == 0 .. StreamLength - 1

\* The allocator may grant a block of any size: a size may be doubled until the
\* sum wraps.
ASSUME BufferAssumption ==
  /\ Slack \in Nat
  /\ Wrap \in Nat
  /\ InitialSize \in BlockSizes
  /\ BlockSizes \subseteq Nat \ {0}
  /\ \A s \in BlockSizes : s + Slack < Wrap /\ (2 * s < Wrap => 2 * s \in BlockSizes)

ASSUME StreamAssumption ==
  /\ StreamLength \in Nat
  /\ HeaderSize \in Nat \ {0}
  /\ Frame \in [Byte -> Nat]
  /\ RecvSizes \subseteq Nat

VARIABLES
  connected, \* m_iFd # -1
  data,      \* m_pData: the stream byte at each offset, or Unwritten
  size,      \* m_uSize
  tail,      \* m_uTail
  head,      \* m_uHead
  recvPc,    \* where CConnectionImpl::Recv() is
  wanted,    \* uSize - uTotalRecv
  atEof,     \* bEOF of the last recv()
  gotBytes,  \* uRecvLength # 0
  received,  \* bytes the kernel has handed out
  sent,      \* bytes the peer sends in all
  peerOpen,  \* whether the peer has not closed its side
  handed,    \* bytes handed to OnMessage() so far
  lastMessage, \* what OnMessage() was handed last
  ended      \* why Recv() called Close(), if it did

bufferVars == <<data, size, tail, head>>
streamVars == <<received, sent, peerOpen>>
recvVars == <<recvPc, wanted, atEof, gotBytes>>
receiveVars ==
  <<connected, bufferVars, streamVars, recvVars, handed, lastMessage, ended>>

Unwritten == -1
UintSum(m, n) == IF m + n < Wrap THEN m + n ELSE m + n - Wrap
Least(m, n) == IF m < n THEN m ELSE n

ReceiveInit ==
  /\ connected = TRUE
  /\ data = [i \in 0 .. InitialSize - 1 |-> Unwritten]
  /\ size = InitialSize
  /\ tail = 0
  /\ head = 0
  /\ recvPc = "idle"
  /\ wanted = 0
  /\ atEof = FALSE
  /\ gotBytes = FALSE
  /\ received = 0
  /\ sent = StreamLength
  /\ peerOpen = TRUE
  /\ handed = 0
  /\ lastMessage = [at |-> 0, bytes |-> << >>]
  /\ ended = "no"

\* Perhaps in the middle of a message; bytes on their way still arrive.
PeerCloses ==
  /\ peerOpen
  /\ sent' \in received .. StreamLength
  /\ peerOpen' = FALSE
  /\ UNCHANGED <<connected, bufferVars, recvVars, received, handed, lastMessage, ended>>

\* OnDisconnected() between two calls of Recv(), for whatever reason: Recv()
\* refuses from then on.
Disconnect ==
  /\ recvPc = "idle"
  /\ connected
  /\ connected' = FALSE
  /\ UNCHANGED <<bufferVars, streamVars, recvVars, handed, lastMessage, ended>>

-----------------------------------------------------------------------------
(* Recv(uSize): a loop over receiving and delivering. *)

StartRecv ==
  /\ recvPc = "idle"
  /\ connected
  /\ \E uSize \in RecvSizes :
       /\ wanted' = uSize
       /\ recvPc' = IF uSize > 0 THEN "recv" ELSE "idle"
  /\ UNCHANGED <<connected, bufferVars, streamVars, atEof, gotBytes, handed, lastMessage, ended>>

\* OnError() and Close() for an error, Close() alone at the end of the stream.
EndRecv(why) ==
  /\ recvPc' = "idle"
  /\ ended' = why

\* What CReceiveBuffer::Recv() does before it reads.  Expand(m_uSize) moves the
\* unread bytes to the front, whether or not that makes room, and doubles the
\* block all the same.
MustExpandWhenOverfull == tail > size
MustExpand == UintSum(tail, Slack) >= size

CompactedWithoutMove == [data |-> data, tail |-> tail - head, head |-> 0]
Compacted ==
  IF tail # head
  THEN [data |-> [i \in 0 .. size - 1 |->
                    IF i < tail - head THEN data[i + head] ELSE data[i]],
        tail |-> tail - head,
        head |-> 0]
  ELSE [data |-> data, tail |-> tail, head |-> head]

DoubledSize == UintSum(size, size)

Prepared ==
  IF MustExpand
  THEN [data |-> [i \in 0 .. DoubledSize - 1 |->
                    IF i < size THEN Compacted.data[i] ELSE Unwritten],
        size |-> DoubledSize,
        tail |-> Compacted.tail,
        head |-> Compacted.head]
  ELSE [data |-> data, size |-> size, tail |-> tail, head |-> head]

OutOfMemory ==
  /\ recvPc = "recv"
  /\ MustExpand
  /\ data' = Compacted.data
  /\ tail' = Compacted.tail
  /\ head' = Compacted.head
  /\ EndRecv("error")
  /\ UNCHANGED <<connected, size, wanted, atEof, gotBytes, streamVars, handed, lastMessage>>

\* At 2^31 bytes m_uSize + uLength wraps: the block granted is smaller than the
\* m_uSize bytes that memcpy() writes to it.  Behaviour is undefined from there,
\* and the model ends.
OverrunBlock ==
  /\ recvPc = "recv"
  /\ MustExpand
  /\ DoubledSize < size
  /\ recvPc' = "overrun"
  /\ UNCHANGED <<connected, bufferVars, wanted, atEof, gotBytes, streamVars,
                 handed, lastMessage, ended>>

CanReceive ==
  /\ recvPc = "recv"
  /\ MustExpand => DoubledSize > size

WriteLength == Least(Prepared.size - Prepared.tail, wanted)

\* recv() with n bytes for an answer.
ReceiveBytes ==
  /\ CanReceive
  /\ \E n \in 1 .. WriteLength :
       /\ n <= sent - received
       /\ data' = [i \in 0 .. Prepared.size - 1 |->
                     IF i \in Prepared.tail .. Prepared.tail + n - 1
                     THEN received + (i - Prepared.tail)
                     ELSE Prepared.data[i]]
       /\ tail' = Prepared.tail + n
       /\ received' = received + n
       /\ wanted' = wanted - n
  /\ size' = Prepared.size
  /\ head' = Prepared.head
  /\ recvPc' = "deliver"
  /\ atEof' = FALSE
  /\ gotBytes' = TRUE
  /\ UNCHANGED <<connected, sent, peerOpen, handed, lastMessage, ended>>

\* recv() that has no byte to give: the peer has closed and everything it sent
\* is read, or nothing has arrived yet (EAGAIN).  A recv() of zero bytes is
\* answered with zero as well, which reads as an end of the stream.
ReceiveNothing ==
  /\ CanReceive
  /\ data' = Prepared.data
  /\ size' = Prepared.size
  /\ tail' = Prepared.tail
  /\ head' = Prepared.head
  /\ gotBytes' = FALSE
  /\ recvPc' = "deliver"
  /\ atEof' = (WriteLength = 0 \/ (~peerOpen /\ received = sent))
  /\ UNCHANGED <<connected, wanted, streamVars, handed, lastMessage, ended>>

ReceiveError ==
  /\ CanReceive
  /\ data' = Prepared.data
  /\ size' = Prepared.size
  /\ tail' = Prepared.tail
  /\ head' = Prepared.head
  /\ EndRecv("error")
  /\ UNCHANGED <<connected, wanted, atEof, gotBytes, streamVars, handed, lastMessage>>

-----------------------------------------------------------------------------
(* DeliverMessage(): hand out every whole message. *)

Available == tail - head

\* Recv() goes on, or returns, when DeliverMessage() has returned.
AfterDelivery ==
  IF atEof THEN EndRecv("eof")
  ELSE /\ recvPc' = IF gotBytes /\ wanted > 0 THEN "recv" ELSE "idle"
       /\ ended' = ended

\* The callback cannot tell the length yet, or the message is not whole.
WaitForMoreOffByOne ==
  /\ recvPc = "deliver"
  /\ \/ Available < HeaderSize
     \/ Available >= HeaderSize /\ Frame[data[head]] >= Available
  /\ AfterDelivery
  /\ UNCHANGED <<connected, bufferVars, streamVars, wanted, atEof, gotBytes, handed, lastMessage>>

WaitForMore ==
  /\ recvPc = "deliver"
  /\ \/ Available < HeaderSize
     \/ Available >= HeaderSize /\ Frame[data[head]] > Available
  /\ AfterDelivery
  /\ UNCHANGED <<connected, bufferVars, streamVars, wanted, atEof, gotBytes, handed, lastMessage>>

\* OnMessageLength() returns UINT32_MAX.
RejectData ==
  /\ recvPc = "deliver"
  /\ Available >= HeaderSize
  /\ Frame[data[head]] = 0
  /\ EndRecv("rejected")
  /\ UNCHANGED <<connected, bufferVars, streamVars, wanted, atEof, gotBytes, handed, lastMessage>>

\* OnMessage(), then Consume(): an empty buffer starts again at its front.
DeliverMessage ==
  /\ recvPc = "deliver"
  /\ Available >= HeaderSize
  /\ LET length == Frame[data[head]]
     IN /\ length > 0
        /\ length <= Available
        /\ lastMessage' = [at |-> handed,
                           bytes |-> [i \in 1 .. length |-> data[head + i - 1]]]
        /\ handed' = handed + length
        /\ IF head + length = tail
           THEN /\ head' = 0
                /\ tail' = 0
                /\ AfterDelivery
           ELSE /\ head' = head + length
                /\ tail' = tail
                /\ UNCHANGED <<recvPc, ended>>
  /\ UNCHANGED <<connected, data, size, streamVars, wanted, atEof, gotBytes>>

ReceiveNext ==
  \/ Disconnect
  \/ PeerCloses
  \/ StartRecv
  \/ OutOfMemory
  \/ OverrunBlock
  \/ ReceiveBytes
  \/ ReceiveNothing
  \/ ReceiveError
  \/ WaitForMore
  \/ RejectData
  \/ DeliverMessage

ReceiveSpec == ReceiveInit /\ [][ReceiveNext]_receiveVars

-----------------------------------------------------------------------------
ReceiveTypeOK ==
  /\ connected \in BOOLEAN
  /\ size \in BlockSizes
  /\ tail \in 0 .. size
  /\ head \in 0 .. tail
  /\ data \in [0 .. size - 1 -> Byte \cup {Unwritten}]
  /\ recvPc \in {"idle", "recv", "deliver", "overrun"}
  /\ wanted \in Nat
  /\ recvPc = "recv" => wanted > 0
  /\ atEof \in BOOLEAN
  /\ gotBytes \in BOOLEAN
  /\ sent \in 0 .. StreamLength
  /\ received \in 0 .. sent
  /\ peerOpen \in BOOLEAN
  /\ handed \in Nat
  /\ lastMessage.at \in Nat
  /\ ended \in {"no", "error", "eof", "rejected"}

\* Nothing of the stream is lost or doubled however it was cut up, moved to the
\* front or copied to a larger block: the unread bytes are those that follow the
\* messages handed out, up to the last one received.
UnreadBytesFollow ==
  /\ received = handed + Available
  /\ \A i \in head .. tail - 1 : data[i] = handed + (i - head)

\* Every message is whole: the bytes OnMessage() is handed are those of the
\* stream from the end of the message before it, as many as it is long.
MessageIsWhole ==
  lastMessage.bytes # << >> =>
    /\ handed = lastMessage.at + Frame[lastMessage.at]
    /\ lastMessage.bytes = [i \in 1 .. Frame[lastMessage.at] |-> lastMessage.at + i - 1]

\* No whole message waits in the buffer for bytes of the next one: when Recv()
\* has returned and found nothing wrong, what is unread is no message yet.
NothingHeldBack ==
  recvPc = "idle" /\ ended = "no" /\ Available >= HeaderSize
    => Frame[data[head]] > Available

\* A connection is closed for the end of its stream only if the peer closed it and
\* all it sent was read: recv() is never called with no room left, whose answer
\* reads the same.
EofIsReal == ended = "eof" => ~peerOpen /\ received = sent

\* From the socket to the application the stream is the same.
StreamIsKept == UnreadBytesFollow /\ MessageIsWhole
=============================================================================
