------------------------ MODULE SpscVariableChannel -------------------------
(***************************************************************************)
(* CSPSCVariableBoundedChannel: a ring of uSize units (of 8 bytes) holding  *)
(* entries of any length, each a one-unit header and its payload, between   *)
(* one producer thread (New, construct, Post) and one consumer thread (Get, *)
(* read, Delete).  An entry never wraps: when it does not fit before the    *)
(* end of the ring, NewEntry() fills the rest with a placeholder and moves  *)
(* on to the start, a step the consumer must retrace in GetEntry().         *)
(*                                                                          *)
(* A unit of memory holds the header written there last; the payload is     *)
(* carried with the header.  New and Get try once with the cached cursor of *)
(* the other side and once more after re-reading it, two actions; Post and  *)
(* Delete store a cursor and then a counter, two actions.                   *)
(***************************************************************************)
EXTENDS Integers, Sequences

CONSTANTS
  Payload,   \* what an entry carries
  Garbage,   \* memory nothing was written to
  Lengths,   \* the entry lengths, header included, that are requested
  uSize,     \* units in the ring, m_uSizep = m_uSizec
  MaxTail    \* bound: no entry is requested once m_uTail is beyond it

ASSUME VariableAssumption ==
  /\ uSize \in Nat \ {0}
  /\ Lengths \subseteq Nat \ {0}
  /\ MaxTail \in Nat
  /\ Garbage \notin Payload

VARIABLES
  m_uTail,      \* units ever published, placeholders included
  m_uHeadRef,   \* the producer's cached copy of m_uHead
  producer,     \* where the producer thread stands
  uNewSize,     \* the entry length it asked for
  uPosted,      \* m_Statsp.uCount2: entries posted
  posted,       \* history: the entries posted, in order
  places,       \* history: the cursor each of them was posted at
  m_uHead,      \* units ever consumed, placeholders included
  m_uTailRef,   \* the consumer's cached copy of m_uTail
  consumer,     \* where the consumer thread stands
  copied,       \* the entry it read
  uDeleted,     \* m_Statsc.uCount2: entries deleted
  delivered,    \* history: the entries read and deleted, in order
  m_pData       \* the ring

producerVars == <<m_uTail, m_uHeadRef, producer, uNewSize, uPosted, posted, places>>
consumerVars == <<m_uHead, m_uTailRef, consumer, copied, uDeleted, delivered>>
vars == <<producerVars, consumerVars, m_pData>>

Index == 0 .. uSize - 1
GetIndex(cursor) == cursor % uSize

Entry == [placehold : BOOLEAN, length : Nat, item : Payload \cup {Garbage}]
Hole(length) == [placehold |-> TRUE, length |-> length, item |-> Garbage]
Blank(length) == [placehold |-> FALSE, length |-> length, item |-> Garbage]
Message == [placehold : {FALSE}, length : Lengths, item : Payload]

Init ==
  /\ m_uTail = 0
  /\ m_uHeadRef = 0
  /\ producer = "idle"
  /\ uNewSize = 0
  /\ uPosted = 0
  /\ posted = << >>
  /\ places = << >>
  /\ m_uHead = 0
  /\ m_uTailRef = 0
  /\ consumer = "idle"
  /\ copied = Blank(0)
  /\ uDeleted = 0
  /\ delivered = << >>
  /\ m_pData = [i \in Index |-> Blank(0)]

-----------------------------------------------------------------------------
\* The producer thread.

\* NewEntry(n) with the consumer seen at headRef: does it move the tail to the
\* start of the ring, and does the entry then fit?
FullOffByOne(headRef) == m_uTail - headRef > uSize
Full(headRef) == m_uTail - headRef >= uSize
TailAhead(headRef) == GetIndex(m_uTail) >= GetIndex(headRef)
FitsBeforeEnd(n) == GetIndex(m_uTail) + n <= uSize
FitsAnywhere(from, n, headRef) == from + n <= uSize
FitsBeforeHead(from, n, headRef) == from + n <= GetIndex(headRef)

Wraps(n, headRef) ==
  ~Full(headRef) /\ TailAhead(headRef) /\ ~FitsBeforeEnd(n)

Fits(n, headRef) ==
  /\ ~Full(headRef)
  /\ \/ TailAhead(headRef) /\ FitsBeforeEnd(n)
     \/ TailAhead(headRef) /\ FitsBeforeHead(0, n, headRef)
     \/ ~TailAhead(headRef) /\ FitsBeforeHead(GetIndex(m_uTail), n, headRef)

ToEnd == uSize - GetIndex(m_uTail)

\* One call of NewEntry(n): place the placeholder and the header, or fail.  A
\* failure can leave the tail moved to the start of the ring.
NewEntry(n, headRef, failure) ==
  LET hole == IF Wraps(n, headRef)
              THEN [m_pData EXCEPT ![GetIndex(m_uTail)] = Hole(ToEnd)]
              ELSE m_pData
  IN
  /\ m_uTail' = IF Wraps(n, headRef) THEN m_uTail + ToEnd ELSE m_uTail
  /\ \/ /\ Fits(n, headRef)
        /\ m_pData' = [hole EXCEPT ![GetIndex(m_uTail')] = Blank(n)]
        /\ producer' = "allocated"
     \/ /\ ~Fits(n, headRef)
        /\ m_pData' = hole
        /\ producer' = failure

\* New(n), first attempt, with the cached head.  A caller that was refused
\* retries the same size, unless no ring could hold it.
New(n) ==
  /\ \/ producer = "idle" /\ m_uTail <= MaxTail
     \/ producer = "refused" /\ n = uNewSize /\ n <= uSize
  /\ NewEntry(n, m_uHeadRef, "retry")
  /\ uNewSize' = n
  /\ UNCHANGED <<m_uHeadRef, uPosted, posted, places, consumerVars>>

NewWithoutRefresh ==
  /\ producer = "retry"
  /\ NewEntry(uNewSize, m_uHeadRef, "refused")
  /\ UNCHANGED <<m_uHeadRef, uNewSize, uPosted, posted, places, consumerVars>>

\* New(n), second attempt, with the consumer's cursor read again.
NewAfterRefresh ==
  /\ producer = "retry"
  /\ m_uHeadRef' = m_uHead
  /\ NewEntry(uNewSize, m_uHeadRef', "refused")
  /\ UNCHANGED <<uNewSize, uPosted, posted, places, consumerVars>>

\* The caller of a refused New does something else, perhaps another size.
GiveUp ==
  /\ producer = "refused"
  /\ producer' = "idle"
  /\ UNCHANGED <<m_uTail, m_uHeadRef, uNewSize, uPosted, posted, places, consumerVars,
                 m_pData>>

\* The caller fills the payload in.
Construct(e) ==
  /\ producer = "allocated"
  /\ producer' = "constructed"
  /\ m_pData' = [m_pData EXCEPT ![GetIndex(m_uTail)].item = e]
  /\ UNCHANGED <<m_uTail, m_uHeadRef, uNewSize, uPosted, posted, places, consumerVars>>

\* Post(pEntry): the fence and the store of the tail ...
Post ==
  /\ producer = "constructed"
  /\ producer' = "posted"
  /\ m_uTail' = m_uTail + m_pData[GetIndex(m_uTail)].length
  /\ posted' = Append(posted, m_pData[GetIndex(m_uTail)])
  /\ places' = Append(places, m_uTail)
  /\ UNCHANGED <<m_uHeadRef, uNewSize, uPosted, consumerVars, m_pData>>

\* ... then the counter that IsEmpty() and GetSize() read.
CountPost ==
  /\ producer = "posted"
  /\ producer' = "idle"
  /\ uPosted' = uPosted + 1
  /\ UNCHANGED <<m_uTail, m_uHeadRef, uNewSize, posted, places, consumerVars, m_pData>>

-----------------------------------------------------------------------------
\* The consumer thread.

\* GetEntry() with the producer seen at tailRef: is there anything, and is it
\* the unused end of the ring?  The last unit counts as unused by its position
\* alone, any other place by the flag in its header.
Header == m_pData[GetIndex(m_uHead)]
HeadToEnd == uSize - GetIndex(m_uHead)

SkipsEndByPosition(tailRef) ==
  /\ m_uHead < tailRef
  /\ GetIndex(m_uHead) >= GetIndex(tailRef)
  /\ HeadToEnd <= 1

SkipsEndTooSoon(tailRef) ==
  /\ m_uHead < tailRef
  /\ GetIndex(m_uHead) >= GetIndex(tailRef)
  /\ HeadToEnd <= 2 \/ Header.placehold

SkipsEnd(tailRef) ==
  /\ m_uHead < tailRef
  /\ GetIndex(m_uHead) >= GetIndex(tailRef)
  /\ HeadToEnd <= 1 \/ Header.placehold

\* One call of GetEntry(): hand out an entry or fail.  A failure can leave the
\* head moved to the start of the ring.
GetEntry(tailRef, failure) ==
  /\ m_uHead' =
       IF SkipsEnd(tailRef)
       THEN m_uHead + (IF HeadToEnd > 1 THEN HeadToEnd ELSE Header.length)
       ELSE m_uHead
  /\ consumer' =
       IF /\ m_uHead < tailRef
          /\ SkipsEnd(tailRef) => GetIndex(tailRef) > 0
       THEN "got" ELSE failure

GetOnce ==
  /\ consumer \in {"idle", "refused"}
  /\ GetEntry(m_uTailRef, "refused")
  /\ UNCHANGED <<m_uTailRef, copied, uDeleted, delivered, producerVars, m_pData>>

\* Get(), first attempt, with the cached tail.
Get ==
  /\ consumer \in {"idle", "refused"}
  /\ GetEntry(m_uTailRef, "retry")
  /\ UNCHANGED <<m_uTailRef, copied, uDeleted, delivered, producerVars, m_pData>>

GetWithoutRefresh ==
  /\ consumer = "retry"
  /\ GetEntry(m_uTailRef, "refused")
  /\ UNCHANGED <<m_uTailRef, copied, uDeleted, delivered, producerVars, m_pData>>

\* Get(), second attempt, with the producer's cursor read again.
GetAfterRefresh ==
  /\ consumer = "retry"
  /\ m_uTailRef' = m_uTail
  /\ GetEntry(m_uTailRef', "refused")
  /\ UNCHANGED <<copied, uDeleted, delivered, producerVars, m_pData>>

\* The caller reads the entry it was given.
ReadEntry ==
  /\ consumer = "got"
  /\ consumer' = "copied"
  /\ copied' = Header
  /\ UNCHANGED <<m_uHead, m_uTailRef, uDeleted, delivered, producerVars, m_pData>>

\* Delete(pEntry): the fence and the store of the head ...
Delete ==
  /\ consumer = "copied"
  /\ consumer' = "deleted"
  /\ m_uHead' = m_uHead + Header.length
  /\ delivered' = Append(delivered, copied)
  /\ UNCHANGED <<m_uTailRef, copied, uDeleted, producerVars, m_pData>>

CountDeleteUnits ==
  /\ consumer = "deleted"
  /\ consumer' = "idle"
  /\ uDeleted' = uDeleted + copied.length
  /\ UNCHANGED <<m_uHead, m_uTailRef, copied, delivered, producerVars, m_pData>>

\* ... then the counter.
CountDelete ==
  /\ consumer = "deleted"
  /\ consumer' = "idle"
  /\ uDeleted' = uDeleted + 1
  /\ UNCHANGED <<m_uHead, m_uTailRef, copied, delivered, producerVars, m_pData>>

-----------------------------------------------------------------------------
ProducerNext ==
  \/ \E n \in Lengths : New(n)
  \/ NewAfterRefresh
  \/ GiveUp
  \/ \E e \in Payload : Construct(e)
  \/ Post
  \/ CountPost

ConsumerNext ==
  \/ Get
  \/ GetAfterRefresh
  \/ ReadEntry
  \/ Delete
  \/ CountDelete

Next == ProducerNext \/ ConsumerNext

Spec == Init /\ [][Next]_vars

\* Both threads are scheduled; a caller retries a refused New (or gives up, which
\* nothing obliges it to), posts what it allocated, keeps polling Get and deletes
\* what it got.
Fairness ==
  /\ WF_vars(\E n \in Lengths : New(n))
  /\ WF_vars(NewAfterRefresh \/ (\E e \in Payload : Construct(e)) \/ Post \/ CountPost)
  /\ WF_vars(ConsumerNext)

FairSpec == Spec /\ Fairness

-----------------------------------------------------------------------------
\* Every variable keeps its type; nothing but an entry that New() handed out and
\* the caller filled in is ever posted or delivered.
TypeOK ==
  /\ m_uTail \in Nat
  /\ m_uHeadRef \in Nat
  /\ producer \in {"idle", "retry", "refused", "allocated", "constructed", "posted"}
  /\ uNewSize \in Lengths \cup {0}
  /\ uPosted \in Nat
  /\ posted \in Seq(Message)
  /\ places \in Seq(Nat)
  /\ m_uHead \in Nat
  /\ m_uTailRef \in Nat
  /\ consumer \in {"idle", "retry", "refused", "got", "copied", "deleted"}
  /\ copied \in Entry
  /\ uDeleted \in Nat
  /\ delivered \in Seq(Message)
  /\ m_pData \in [Index -> Entry]

ProducerHolds == producer \in {"allocated", "constructed"}
ConsumerHolds == consumer \in {"got", "copied"}

\* An entry New() hands out lies in one piece in the ring and overlaps nothing
\* the consumer has not deleted, whichever of the two attempts found it and
\* however stale the cached head was.
EntryIsFree ==
  ProducerHolds =>
    /\ GetIndex(m_uTail) + uNewSize <= uSize
    /\ m_uTail + uNewSize <= m_uHead + uSize

\* Get() hands out only whole entries: not a placeholder (assert in Get), not a
\* unit that was never a header, and never one beyond the published tail.
EntryIsWhole ==
  ConsumerHolds =>
    /\ ~Header.placehold
    /\ Header.item # Garbage
    /\ m_uHead + Header.length <= m_uTail

\* The cached cursors err on the safe side although the placeholder moves both
\* ends of the ring in the middle of failing calls.
CursorOrder ==
  /\ m_uHeadRef <= m_uHead
  /\ m_uHead <= m_uTailRef
  /\ m_uTailRef <= m_uTail
  /\ m_uTail <= m_uHeadRef + uSize

\* Entries arrive in the order they were posted, none lost, none twice.
DeliveredInOrder ==
  /\ Len(delivered) <= Len(posted)
  /\ \A i \in 1 .. Len(delivered) : delivered[i] = posted[i]

\* GetSize() on the producer thread, outside Post(), is an upper bound of what is
\* queued and never more than the ring can hold, although the consumer stores its
\* cursor and its counter at different times.
ProducerSizeIsUpperBound ==
  producer # "posted" =>
    /\ Len(posted) - Len(delivered) <= uPosted - uDeleted
    /\ uPosted - uDeleted <= uSize

\* GetSize() on the consumer thread, outside Delete(), is not negative (it is
\* returned as an unsigned integer: channel.h, "the current number of elements").
ConsumerSizeInRange == consumer # "deleted" => uDeleted <= uPosted

\* Once the consumer has used up the ring and is turned away by Get(), IsEmpty()
\* agrees: the counters it compares account for every unit of the ring.
DrainedIsEmpty ==
  consumer = "refused" /\ producer \in {"idle", "refused"} /\ m_uHead = m_uTail
    => uPosted = uDeleted

\* Every posted entry is delivered to a consumer that keeps polling (an entry with
\* a payload takes two units at least).
EveryPostDelivered ==
  \A n \in 1 .. (MaxTail \div 2) + 1 : (Len(posted) >= n) ~> (Len(delivered) >= n)

\* A producer that keeps asking for an entry the ring can hold gets it, although
\* an attempt that fails can give the end of the ring away.
RefusedThenServed ==
  (producer = "refused" /\ uNewSize <= uSize) ~> (producer \in {"allocated", "idle"})

\* Neither side waits for ever for the other: what is posted is delivered, and who
\* was turned away is served.
NobodyStarves == EveryPostDelivered /\ RefusedThenServed

\* The entries of the ring: where New() puts them, what the consumer finds of them,
\* and in which order.
EntriesAreSound == EntryIsFree /\ EntryIsWhole /\ CursorOrder /\ DeliveredInOrder

\* The counters, which run behind the cursors, against the entries they count.
CountersAgree == ProducerSizeIsUpperBound /\ DrainedIsEmpty

-----------------------------------------------------------------------------
WriterView ==
  IF ProducerHolds THEN "holding"
  ELSE IF producer = "refused" THEN "refused" ELSE "idle"
ReaderView ==
  IF ConsumerHolds THEN "holding"
  ELSE IF consumer = "refused" THEN "refused" ELSE "idle"

Queued == SubSeq(posted, Len(delivered) + 1, Len(posted))

Fifo == INSTANCE BoundedFifo WITH
  Element <- Message,
  Capacity <- uSize, Strict <- FALSE,
  queue <- Queued,
  writer <- WriterView, reader <- ReaderView

\* The ring implements a FIFO: Get() returns nullptr only when no entry is
\* queued; New() may refuse early, for want of contiguous room.
ImplementsFifo == Fifo!Spec
=============================================================================
