-------------------------- MODULE SpscFixedChannel --------------------------
(***************************************************************************)
(* CSPSCFixedBoundedChannel: a ring of uSize equal slots between one        *)
(* producer thread (New, construct, Post) and one consumer thread (Get,     *)
(* read, Delete).  Each side owns its own cursor and a cached copy of the   *)
(* other side's cursor, refreshed only when the cached value says the ring  *)
(* is full (New) or empty (Get).  No lock is taken: the order of the plain  *)
(* loads and stores is the whole argument.                                  *)
(*                                                                          *)
(* Every action makes at most one access to memory the other thread writes. *)
(* Constructing an element is two steps, so that a consumer let in too      *)
(* early would see the slot half written.                                   *)
(***************************************************************************)
EXTENDS Integers, Sequences

CONSTANTS
  Payload,    \* the elements the producer can send
  Invalid,    \* what a constructor that throws leaves (SetInvalid marks it)
  Garbage,    \* a slot as malloc returns it, or half constructed
  uSize,      \* slots in the ring, m_uSizep = m_uSizec
  MaxPosts    \* bound: how many elements the producer ever posts

ASSUME ChannelAssumption ==
  /\ uSize \in Nat \ {0}
  /\ MaxPosts \in Nat
  /\ Garbage \notin Payload \cup {Invalid}

VARIABLES
  m_uTail,     \* elements ever posted: the producer's cursor
  m_uHeadRef,  \* the producer's cached copy of m_uHead
  producer,    \* where the producer thread stands
  staged,      \* the element it is constructing
  m_uHead,     \* elements ever deleted: the consumer's cursor
  m_uTailRef,  \* the consumer's cached copy of m_uTail
  consumer,    \* where the consumer thread stands
  copied,      \* the element it read out of its slot
  m_pData,     \* the slots
  posted,      \* history: the elements posted, in order
  delivered    \* history: the elements read and deleted, in order

producerVars == <<m_uTail, m_uHeadRef, producer, staged, posted>>
consumerVars == <<m_uHead, m_uTailRef, consumer, copied, delivered>>
vars == <<producerVars, consumerVars, m_pData>>

Element == Payload \cup {Invalid}
Slot == 0 .. uSize - 1

\* uSize is a power of two, for which the mask of the code is a remainder.
GetIndex(cursor) == cursor % uSize

HasRoomOffByOne(headRef) == m_uTail - headRef <= uSize
HasElementOffByOne(tailRef) == m_uHead <= tailRef

HasRoom(headRef) == m_uTail - headRef < uSize
HasElement(tailRef) == m_uHead < tailRef

Init ==
  /\ m_uTail = 0
  /\ m_uHeadRef = 0
  /\ producer = "idle"
  /\ staged = Garbage
  /\ m_uHead = 0
  /\ m_uTailRef = 0
  /\ consumer = "idle"
  /\ copied = Garbage
  /\ m_pData = [slot \in Slot |-> Garbage]
  /\ posted = << >>
  /\ delivered = << >>

-----------------------------------------------------------------------------
\* The producer thread.

NewWithoutRefresh ==
  /\ producer \in {"idle", "refused"}
  /\ m_uTail < MaxPosts
  /\ producer' = IF HasRoom(m_uHeadRef) THEN "allocated" ELSE "refused"
  /\ UNCHANGED <<m_uTail, m_uHeadRef, staged, posted, consumerVars, m_pData>>

\* New(): trust the cached head, or read the consumer's cursor once and retry.
New ==
  /\ producer \in {"idle", "refused"}
  /\ m_uTail < MaxPosts
  /\ m_uHeadRef' = IF HasRoom(m_uHeadRef) THEN m_uHeadRef ELSE m_uHead
  /\ producer' = IF HasRoom(m_uHeadRef') THEN "allocated" ELSE "refused"
  /\ UNCHANGED <<m_uTail, staged, posted, consumerVars, m_pData>>

\* The caller starts to write element e into the slot New() returned ...
BeginConstruct(e) ==
  /\ producer = "allocated"
  /\ producer' = "constructing"
  /\ staged' = e
  /\ m_pData' = [m_pData EXCEPT ![GetIndex(m_uTail)] = Garbage]
  /\ UNCHANGED <<m_uTail, m_uHeadRef, posted, consumerVars>>

\* ... and finishes.
EndConstruct ==
  /\ producer = "constructing"
  /\ producer' = "constructed"
  /\ m_pData' = [m_pData EXCEPT ![GetIndex(m_uTail)] = staged]
  /\ UNCHANGED <<m_uTail, m_uHeadRef, staged, posted, consumerVars>>

\* The constructor throws inside IChannelEx::Push(): the slot is marked invalid
\* and still posted, although Push() reports failure.
ConstructThrows ==
  /\ producer = "constructing"
  /\ producer' = "constructed"
  /\ staged' = Invalid
  /\ m_pData' = [m_pData EXCEPT ![GetIndex(m_uTail)] = Invalid]
  /\ UNCHANGED <<m_uTail, m_uHeadRef, posted, consumerVars>>

\* Post(pData): the release fence, then the store that publishes the slot.
Post ==
  /\ producer = "constructed"
  /\ producer' = "idle"
  /\ m_uTail' = m_uTail + 1
  /\ posted' = Append(posted, staged)
  /\ UNCHANGED <<m_uHeadRef, staged, consumerVars, m_pData>>

-----------------------------------------------------------------------------
\* The consumer thread.

GetWithoutRefresh ==
  /\ consumer \in {"idle", "refused"}
  /\ consumer' = IF HasElement(m_uTailRef) THEN "got" ELSE "refused"
  /\ UNCHANGED <<m_uHead, m_uTailRef, copied, delivered, producerVars, m_pData>>

\* Get(): trust the cached tail, or read the producer's cursor once and retry.
Get ==
  /\ consumer \in {"idle", "refused"}
  /\ m_uTailRef' = IF HasElement(m_uTailRef) THEN m_uTailRef ELSE m_uTail
  /\ consumer' = IF HasElement(m_uTailRef') THEN "got" ELSE "refused"
  /\ UNCHANGED <<m_uHead, copied, delivered, producerVars, m_pData>>

\* The caller reads the element out of the slot Get() returned.
ReadElement ==
  /\ consumer = "got"
  /\ consumer' = "copied"
  /\ copied' = m_pData[GetIndex(m_uHead)]
  /\ UNCHANGED <<m_uHead, m_uTailRef, delivered, producerVars, m_pData>>

\* The move assignment throws inside IChannelEx::Pop(): the slot is not given
\* back and the next Get() returns the same one.
ReadThrows ==
  /\ consumer = "got"
  /\ consumer' = "idle"
  /\ UNCHANGED <<m_uHead, m_uTailRef, copied, delivered, producerVars, m_pData>>

\* Delete(pData): the fence, then the store that gives the slot back.
Delete ==
  /\ consumer = "copied"
  /\ consumer' = "idle"
  /\ m_uHead' = m_uHead + 1
  /\ delivered' = Append(delivered, copied)
  /\ UNCHANGED <<m_uTailRef, copied, producerVars, m_pData>>

-----------------------------------------------------------------------------
ProducerNext ==
  \/ New
  \/ \E e \in Payload : BeginConstruct(e)
  \/ EndConstruct
  \/ ConstructThrows
  \/ Post

ConsumerNext ==
  \/ Get
  \/ ReadElement
  \/ ReadThrows
  \/ Delete

Next == ProducerNext \/ ConsumerNext

Spec == Init /\ [][Next]_vars

\* The threads are scheduled; a caller polls Get() and retries a refused New(),
\* finishes an element it allocated and deletes an element it read.  A move that
\* throws is not assumed to stop throwing until it has been retried (strong
\* fairness of ReadElement).
Fairness ==
  /\ WF_vars(New)
  /\ WF_vars(\/ \E e \in Payload : BeginConstruct(e)
             \/ EndConstruct
             \/ Post)
  /\ WF_vars(Get)
  /\ SF_vars(ReadElement)
  /\ WF_vars(Delete)

FairSpec == Spec /\ Fairness

-----------------------------------------------------------------------------
\* Every variable keeps its type; in particular nothing but an element that was
\* posted whole is ever delivered (New/Get hand out slots of the ring).
TypeOK ==
  /\ m_uTail \in 0 .. MaxPosts
  /\ m_uHeadRef \in Nat
  /\ producer \in {"idle", "refused", "allocated", "constructing", "constructed"}
  /\ staged \in Element \cup {Garbage}
  /\ m_uHead \in Nat
  /\ m_uTailRef \in Nat
  /\ consumer \in {"idle", "refused", "got", "copied"}
  /\ copied \in Element \cup {Garbage}
  /\ m_pData \in [Slot -> Element \cup {Garbage}]
  /\ posted \in Seq(Element)
  /\ delivered \in Seq(Element)

ProducerHolds == producer \in {"allocated", "constructing", "constructed"}
ConsumerHolds == consumer \in {"got", "copied"}

\* The stale cached cursors err on the safe side: m_uHeadRef never runs ahead of
\* m_uHead, m_uTailRef never ahead of m_uTail, the consumer never passes its
\* cached tail, and the producer is never a whole ring beyond the cached head
\* (the fast paths of New and Get, which read nothing shared).
CursorOrder ==
  /\ m_uHeadRef <= m_uHead
  /\ m_uHead <= m_uTailRef
  /\ m_uTailRef <= m_uTail
  /\ m_uTail <= m_uHeadRef + uSize

\* The producer and the consumer never hold the same slot, so the bytes the
\* consumer reads between Get and Delete are not being rewritten.
SlotExclusive ==
  ProducerHolds /\ ConsumerHolds => GetIndex(m_uTail) # GetIndex(m_uHead)

\* What the consumer has read is, element by element, what was posted first:
\* nothing lost, duplicated, torn or overtaken across any number of wraps.
DeliveredInOrder ==
  /\ Len(delivered) <= Len(posted)
  /\ \A i \in 1 .. Len(delivered) : delivered[i] = posted[i]

\* Every posted element reaches a consumer that keeps polling, although Get()
\* looks at the real tail only when its cached tail is exhausted.
EveryPostDelivered ==
  \A n \in 1 .. MaxPosts : (m_uTail >= n) ~> (Len(delivered) >= n)

\* A producer turned away by a full ring gets its slot if it keeps asking and
\* the consumer keeps deleting: the cached head does not starve it.
RefusedThenServed == (producer = "refused") ~> (producer = "allocated")

\* Neither side waits for ever for the other: what is posted is delivered, and who
\* was turned away is served.
NobodyStarves == EveryPostDelivered /\ RefusedThenServed

-----------------------------------------------------------------------------
\* The elements posted and not yet deleted, oldest first.
Queued == SubSeq(posted, m_uHead + 1, m_uTail)

WriterView == IF ProducerHolds THEN "holding" ELSE producer
ReaderView == IF ConsumerHolds THEN "holding" ELSE consumer

Fifo == INSTANCE BoundedFifo WITH
  Element <- Element, Capacity <- uSize, Strict <- TRUE,
  queue <- Queued, writer <- WriterView, reader <- ReaderView

\* The lock-free ring implements a bounded FIFO: New() returns nullptr only when
\* uSize elements are queued at that instant, Get() only when none is.
ImplementsFifo == Fifo!Spec
=============================================================================
