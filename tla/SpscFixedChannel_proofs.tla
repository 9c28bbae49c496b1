----------------------- MODULE SpscFixedChannel_proofs ----------------------
(***************************************************************************)
(* Proofs about SpscFixedChannel for every ring size, payload set and bound *)
(* on the posts, and about GetSize() and IsEmpty() beside it.               *)
(***************************************************************************)
EXTENDS SpscFixedObserver, SequenceTheorems, TLAPS

-----------------------------------------------------------------------------
\* The strengthening that makes the safety properties inductive.

\* A thread past New (Get) has seen room (an element) in its cached cursor.
HoldsWithReason ==
  /\ ProducerHolds => m_uTail < MaxPosts /\ HasRoom(m_uHeadRef)
  /\ ConsumerHolds => HasElement(m_uTailRef)

\* The slots between the cursors hold the posted elements, and a constructed
\* element waits in the slot at the tail.
RingContent ==
  /\ \A i \in m_uHead .. m_uTail - 1 : m_pData[GetIndex(i)] = posted[i + 1]
  /\ producer \in {"constructing", "constructed"} => staged \in Element
  /\ producer = "constructed" => m_pData[GetIndex(m_uTail)] = staged

\* The histories count with the cursors, and a copy is of the oldest element.
HistoryCounts ==
  /\ Len(posted) = m_uTail
  /\ Len(delivered) = m_uHead
  /\ consumer = "copied" => copied = posted[m_uHead + 1]

IInv ==
  /\ TypeOK
  /\ CursorOrder
  /\ HoldsWithReason
  /\ RingContent
  /\ HistoryCounts
  /\ DeliveredInOrder

-----------------------------------------------------------------------------
\* Division with remainder: the ring index of a cursor and the lap it is in.
LEMMA Division ==
  ASSUME NEW a \in Nat, NEW n \in Nat \ {0}
  PROVE  /\ a % n \in 0 .. n - 1
         /\ a \div n \in Nat
         /\ a = (n * (a \div n)) + (a % n)
  OBVIOUS

\* A nonzero multiple of n is at least n away from zero.
LEMMA MultipleIsFar ==
  ASSUME NEW k \in Int, NEW n \in Nat \ {0}, k # 0
  PROVE  n * k >= n \/ n * k <= -n
  OBVIOUS

\* Two cursors less than a ring apart have different slots (GetIndex).
LEMMA DistinctSlots ==
  ASSUME NEW a \in Nat, NEW b \in Nat, NEW n \in Nat \ {0}, a < b, b < a + n
  PROVE  a % n # b % n
<1> DEFINE p == a \div n
           q == b \div n
<1>1. p \in Nat /\ a = (n * p) + (a % n) /\ a % n \in 0 .. n - 1
  BY Division
<1>2. q \in Nat /\ b = (n * q) + (b % n) /\ b % n \in 0 .. n - 1
  BY Division
<1>3. SUFFICES ASSUME a % n = b % n PROVE FALSE
  OBVIOUS
<1>4. b - a = n * (q - p)
  BY <1>1, <1>2, <1>3
<1>5. q - p # 0
  BY <1>1, <1>2, <1>4
<1>6. n * (q - p) >= n \/ n * (q - p) <= -n
  BY <1>1, <1>2, <1>5, MultipleIsFar
<1> QED
  BY <1>4, <1>6

\* GetIndex always names a slot of the ring.
LEMMA IndexIsSlot ==
  ASSUME NEW cursor \in Nat
  PROVE  GetIndex(cursor) \in Slot
  BY ChannelAssumption, Division DEF GetIndex, Slot

\* The slot at the tail of a ring with room is none of those between the
\* cursors, nor the slot at the head of a ring that is not empty.
LEMMA TailSlotIsFree ==
  ASSUME IInv, HasRoom(m_uHeadRef), NEW i \in m_uHead .. m_uTail - 1
  PROVE  GetIndex(i) # GetIndex(m_uTail)
<1>1. /\ i \in Nat /\ m_uTail \in Nat /\ uSize \in Nat \ {0}
      /\ i < m_uTail /\ m_uTail < i + uSize
  BY ChannelAssumption DEF IInv, TypeOK, CursorOrder, HasRoom
<1> QED
  BY <1>1, DistinctSlots DEF GetIndex

-----------------------------------------------------------------------------
\* The initial state satisfies the invariant.
LEMMA InitIInv == Init => IInv
  BY ChannelAssumption
  DEF Init, IInv, TypeOK, CursorOrder, HoldsWithReason, RingContent,
      HistoryCounts, DeliveredInOrder, ProducerHolds, ConsumerHolds, Slot, Element

\* Every step of either thread preserves the invariant.
LEMMA NextIInv == IInv /\ [Next]_vars => IInv'
<1> SUFFICES ASSUME IInv, [Next]_vars PROVE IInv'
  OBVIOUS
<1> USE ChannelAssumption
<1>1. CASE New
  <2>1. TypeOK' /\ CursorOrder' /\ HoldsWithReason'
    BY <1>1 DEF New, consumerVars, IInv, TypeOK, CursorOrder, HoldsWithReason,
       ProducerHolds, ConsumerHolds, HasRoom, HasElement
  <2>2. RingContent'
    BY <1>1 DEF New, consumerVars, IInv, RingContent, GetIndex
  <2>3. HistoryCounts' /\ DeliveredInOrder'
    BY <1>1 DEF New, consumerVars, IInv, HistoryCounts, DeliveredInOrder
  <2> QED
    BY <2>1, <2>2, <2>3 DEF IInv
<1>2. ASSUME NEW e \in Payload, BeginConstruct(e) PROVE IInv'
  <2>1. GetIndex(m_uTail) \in Slot
    BY IndexIsSlot DEF IInv, TypeOK
  <2>2. \A i \in m_uHead .. m_uTail - 1 :
           m_pData'[GetIndex(i)] = m_pData[GetIndex(i)]
    BY <1>2, <2>1, TailSlotIsFree, IndexIsSlot
    DEF BeginConstruct, IInv, TypeOK, HoldsWithReason, ProducerHolds
  <2>3. TypeOK' /\ CursorOrder' /\ HoldsWithReason'
    BY <1>2, <2>1 DEF BeginConstruct, consumerVars, IInv, TypeOK, CursorOrder,
       HoldsWithReason, RingContent, ProducerHolds, ConsumerHolds, HasRoom,
       HasElement, Element
  <2>4. RingContent'
    BY <1>2, <2>1, <2>2 DEF BeginConstruct, consumerVars, IInv, TypeOK, RingContent,
       Element, GetIndex
  <2>5. HistoryCounts' /\ DeliveredInOrder'
    BY <1>2 DEF BeginConstruct, consumerVars, IInv, HistoryCounts, DeliveredInOrder
  <2> QED
    BY <2>3, <2>4, <2>5 DEF IInv
<1>3. CASE EndConstruct
  <2>1. GetIndex(m_uTail) \in Slot
    BY IndexIsSlot DEF IInv, TypeOK
  <2>2. \A i \in m_uHead .. m_uTail - 1 :
           m_pData'[GetIndex(i)] = m_pData[GetIndex(i)]
    BY <1>3, <2>1, TailSlotIsFree, IndexIsSlot
    DEF EndConstruct, IInv, TypeOK, HoldsWithReason, ProducerHolds
  <2>3. TypeOK' /\ CursorOrder' /\ HoldsWithReason'
    BY <1>3, <2>1 DEF EndConstruct, consumerVars, IInv, TypeOK, CursorOrder,
       HoldsWithReason, RingContent, ProducerHolds, ConsumerHolds, HasRoom,
       HasElement, Element
  <2>4. RingContent'
    BY <1>3, <2>1, <2>2 DEF EndConstruct, consumerVars, IInv, TypeOK, RingContent,
       Element, GetIndex
  <2>5. HistoryCounts' /\ DeliveredInOrder'
    BY <1>3 DEF EndConstruct, consumerVars, IInv, HistoryCounts, DeliveredInOrder
  <2> QED
    BY <2>3, <2>4, <2>5 DEF IInv
<1>4. CASE ConstructThrows
  <2>1. GetIndex(m_uTail) \in Slot
    BY IndexIsSlot DEF IInv, TypeOK
  <2>2. \A i \in m_uHead .. m_uTail - 1 :
           m_pData'[GetIndex(i)] = m_pData[GetIndex(i)]
    BY <1>4, <2>1, TailSlotIsFree, IndexIsSlot
    DEF ConstructThrows, IInv, TypeOK, HoldsWithReason, ProducerHolds
  <2>3. TypeOK' /\ CursorOrder' /\ HoldsWithReason'
    BY <1>4, <2>1 DEF ConstructThrows, consumerVars, IInv, TypeOK, CursorOrder,
       HoldsWithReason, RingContent, ProducerHolds, ConsumerHolds, HasRoom,
       HasElement, Element
  <2>4. RingContent'
    BY <1>4, <2>1, <2>2 DEF ConstructThrows, consumerVars, IInv, TypeOK, RingContent,
       Element, GetIndex
  <2>5. HistoryCounts' /\ DeliveredInOrder'
    BY <1>4 DEF ConstructThrows, consumerVars, IInv, HistoryCounts, DeliveredInOrder
  <2> QED
    BY <2>3, <2>4, <2>5 DEF IInv
<1>5. CASE Post
  <2>1. /\ m_uTail' = m_uTail + 1 /\ m_uTail \in 0 .. MaxPosts
        /\ staged \in Element /\ posted \in Seq(Element)
        /\ posted' = Append(posted, staged)
    BY <1>5 DEF Post, IInv, TypeOK, RingContent
  <2>2. /\ posted' \in Seq(Element)
        /\ Len(posted') = Len(posted) + 1
        /\ \A i \in 1 .. Len(posted) : posted'[i] = posted[i]
        /\ posted'[Len(posted) + 1] = staged
    BY <2>1
  <2>3. HasRoom(m_uHeadRef) /\ m_uTail < MaxPosts
    BY <1>5 DEF Post, IInv, HoldsWithReason, ProducerHolds
  <2>4. TypeOK'
    BY <1>5, <2>1, <2>2, <2>3 DEF Post, consumerVars, IInv, TypeOK
  <2>5. CursorOrder' /\ HoldsWithReason'
    BY <1>5, <2>1, <2>3 DEF Post, consumerVars, IInv, TypeOK, CursorOrder,
       HoldsWithReason, ProducerHolds, ConsumerHolds, HasRoom, HasElement
  <2>6. RingContent'
    <3>1. /\ m_uHead' = m_uHead /\ m_pData' = m_pData /\ producer' = "idle"
          /\ m_pData[GetIndex(m_uTail)] = staged
      BY <1>5 DEF Post, consumerVars, IInv, RingContent
    <3>2. ASSUME NEW i \in m_uHead .. m_uTail' - 1
          PROVE  m_pData[GetIndex(i)] = posted'[i + 1]
      <4>1. CASE i = m_uTail
        BY <2>1, <2>2, <3>1, <4>1 DEF IInv, HistoryCounts
      <4>2. CASE i # m_uTail
        <5>1. i \in m_uHead .. m_uTail - 1 /\ i + 1 \in 1 .. Len(posted)
          BY <2>1, <4>2 DEF IInv, TypeOK, HistoryCounts
        <5> QED
          BY <2>2, <5>1 DEF IInv, RingContent
      <4> QED
        BY <4>1, <4>2
    <3> QED
      BY <3>1, <3>2 DEF RingContent, GetIndex
  <2>7. HistoryCounts' /\ DeliveredInOrder'
    <3>1. /\ m_uHead' = m_uHead /\ consumer' = consumer /\ copied' = copied
          /\ delivered' = delivered
      BY <1>5 DEF Post, consumerVars
    <3>2. consumer = "copied" => m_uHead + 1 \in 1 .. Len(posted)
      BY <2>1 DEF IInv, TypeOK, CursorOrder, HoldsWithReason, ConsumerHolds,
         HasElement, HistoryCounts
    <3>3. HistoryCounts'
      BY <2>1, <2>2, <3>1, <3>2 DEF IInv, HistoryCounts
    <3>4. DeliveredInOrder'
      BY <2>1, <2>2, <3>1 DEF IInv, TypeOK, DeliveredInOrder
    <3> QED
      BY <3>3, <3>4
  <2> QED
    BY <2>4, <2>5, <2>6, <2>7 DEF IInv
<1>6. CASE Get
  <2>1. TypeOK' /\ CursorOrder' /\ HoldsWithReason'
    BY <1>6 DEF Get, producerVars, IInv, TypeOK, CursorOrder, HoldsWithReason,
       ProducerHolds, ConsumerHolds, HasRoom, HasElement
  <2>2. RingContent'
    BY <1>6 DEF Get, producerVars, IInv, RingContent, GetIndex
  <2>3. HistoryCounts' /\ DeliveredInOrder'
    BY <1>6 DEF Get, producerVars, IInv, HistoryCounts, DeliveredInOrder
  <2> QED
    BY <2>1, <2>2, <2>3 DEF IInv
<1>7. CASE ReadElement
  <2>1. copied' \in Element /\ copied' = posted[m_uHead + 1]
    <3>1. m_uHead \in m_uHead .. m_uTail - 1 /\ m_uHead + 1 \in 1 .. Len(posted)
      BY <1>7 DEF ReadElement, IInv, TypeOK, CursorOrder, HoldsWithReason,
         ConsumerHolds, HasElement, HistoryCounts
    <3>2. posted[m_uHead + 1] \in Element
      BY <3>1 DEF IInv, TypeOK
    <3> QED
      BY <1>7, <3>1, <3>2 DEF ReadElement, IInv, RingContent
  <2>2. TypeOK' /\ CursorOrder' /\ HoldsWithReason'
    BY <1>7, <2>1 DEF ReadElement, producerVars, IInv, TypeOK, CursorOrder,
       HoldsWithReason, ProducerHolds, ConsumerHolds, HasRoom, HasElement
  <2>3. RingContent'
    BY <1>7 DEF ReadElement, producerVars, IInv, RingContent, GetIndex
  <2>4. HistoryCounts' /\ DeliveredInOrder'
    BY <1>7, <2>1 DEF ReadElement, producerVars, IInv, HistoryCounts,
       DeliveredInOrder
  <2> QED
    BY <2>2, <2>3, <2>4 DEF IInv
<1>8. CASE ReadThrows
  <2>1. TypeOK' /\ CursorOrder' /\ HoldsWithReason'
    BY <1>8 DEF ReadThrows, producerVars, IInv, TypeOK, CursorOrder, HoldsWithReason,
       ProducerHolds, ConsumerHolds, HasRoom, HasElement
  <2>2. RingContent'
    BY <1>8 DEF ReadThrows, producerVars, IInv, RingContent, GetIndex
  <2>3. HistoryCounts' /\ DeliveredInOrder'
    BY <1>8 DEF ReadThrows, producerVars, IInv, HistoryCounts, DeliveredInOrder
  <2> QED
    BY <2>1, <2>2, <2>3 DEF IInv
<1>9. CASE Delete
  <2>1. /\ m_uHead' = m_uHead + 1 /\ m_uHead < m_uTailRef
        /\ copied = posted[m_uHead + 1] /\ m_uHead + 1 \in 1 .. Len(posted)
    BY <1>9 DEF Delete, IInv, TypeOK, CursorOrder, HoldsWithReason, ConsumerHolds,
       HasElement, HistoryCounts
  <2>2. copied \in Element /\ delivered \in Seq(Element)
    BY <2>1 DEF IInv, TypeOK
  <2>3. /\ delivered' \in Seq(Element)
        /\ Len(delivered') = Len(delivered) + 1
        /\ \A i \in 1 .. Len(delivered) : delivered'[i] = delivered[i]
        /\ delivered'[Len(delivered) + 1] = copied
    BY <1>9, <2>2 DEF Delete
  <2>4. TypeOK'
    BY <1>9, <2>1, <2>3 DEF Delete, producerVars, IInv, TypeOK
  <2>5. CursorOrder' /\ HoldsWithReason'
    BY <1>9, <2>1 DEF Delete, producerVars, IInv, TypeOK, CursorOrder,
       HoldsWithReason, ProducerHolds, ConsumerHolds, HasRoom
  <2>6. RingContent'
    <3>1. /\ m_uTail' = m_uTail /\ m_pData' = m_pData /\ posted' = posted
          /\ producer' = producer /\ staged' = staged
      BY <1>9 DEF Delete, producerVars
    <3>2. \A i \in m_uHead' .. m_uTail - 1 : m_pData[GetIndex(i)] = posted[i + 1]
      <4>1. m_uHead' .. m_uTail - 1 \subseteq m_uHead .. m_uTail - 1
        BY <2>1 DEF IInv, TypeOK
      <4> QED
        BY <4>1 DEF IInv, RingContent
    <3> QED
      BY <3>1, <3>2 DEF IInv, RingContent, GetIndex
  <2>7. HistoryCounts' /\ DeliveredInOrder'
    <3>1. /\ posted' = posted /\ m_uTail' = m_uTail /\ consumer' = "idle"
          /\ Len(posted) \in Nat /\ Len(delivered) = m_uHead
      BY <1>9 DEF Delete, producerVars, IInv, TypeOK, HistoryCounts
    <3>2. HistoryCounts'
      BY <2>1, <2>3, <3>1 DEF IInv, HistoryCounts
    <3>3. DeliveredInOrder'
      BY <2>1, <2>3, <3>1 DEF IInv, TypeOK, DeliveredInOrder
    <3> QED
      BY <3>2, <3>3
  <2> QED
    BY <2>4, <2>5, <2>6, <2>7 DEF IInv
<1>10. CASE UNCHANGED vars
  BY <1>10 DEF vars, producerVars, consumerVars, IInv, TypeOK, CursorOrder,
     HoldsWithReason, RingContent, HistoryCounts, DeliveredInOrder, ProducerHolds,
     ConsumerHolds, HasRoom, HasElement
<1> QED
  BY <1>1, <1>2, <1>3, <1>4, <1>5, <1>6, <1>7, <1>8, <1>9, <1>10
  DEF Next, ProducerNext, ConsumerNext

\* The inductive invariant holds in every reachable state.
THEOREM InvariantHolds == Spec => []IInv
  BY InitIInv, NextIInv, PTL DEF Spec

-----------------------------------------------------------------------------
\* Types are respected: only whole elements are delivered, whatever the sizes.
THEOREM TypeCorrect == Spec => []TypeOK
<1>1. IInv => TypeOK
  BY DEF IInv
<1> QED
  BY <1>1, InvariantHolds, PTL

\* The cached cursors of New and Get always err on the safe side.
THEOREM CursorsOrdered == Spec => []CursorOrder
<1>1. IInv => CursorOrder
  BY DEF IInv
<1> QED
  BY <1>1, InvariantHolds, PTL

\* Delivery is in order and without loss, duplication or tearing, for every
\* ring size and every number of laps.
THEOREM DeliveryInOrder == Spec => []DeliveredInOrder
<1>1. IInv => DeliveredInOrder
  BY DEF IInv
<1> QED
  BY <1>1, InvariantHolds, PTL

\* The slot being constructed is never the slot being read: no data race on the
\* payload, which no lock protects.
THEOREM SlotsExclusive == Spec => []SlotExclusive
<1>1. ASSUME IInv PROVE SlotExclusive
  <2>1. SUFFICES ASSUME ProducerHolds, ConsumerHolds
                 PROVE  GetIndex(m_uTail) # GetIndex(m_uHead)
    BY DEF SlotExclusive
  <2>2. HasRoom(m_uHeadRef) /\ m_uHead \in m_uHead .. m_uTail - 1
    BY <1>1, <2>1 DEF IInv, TypeOK, CursorOrder, HoldsWithReason, HasElement
  <2> QED
    BY <1>1, <2>2, TailSlotIsFree
<1> QED
  BY <1>1, InvariantHolds, PTL

-----------------------------------------------------------------------------
\* The ring implements the bounded FIFO.

\* The queue the ring stands for: as long as the cursors are apart, and empty
\* exactly when they meet.
LEMMA QueuedLength ==
  ASSUME IInv
  PROVE  /\ Queued \in Seq(Element)
         /\ Len(Queued) = m_uTail - m_uHead
         /\ \A i \in 1 .. m_uTail - m_uHead : Queued[i] = posted[m_uHead + i]
         /\ Queued = << >> <=> m_uHead = m_uTail
<1>1. /\ m_uHead \in Nat /\ m_uTail \in Nat /\ m_uHead <= m_uTail
      /\ posted \in Seq(Element) /\ Len(posted) = m_uTail
  BY DEF IInv, TypeOK, CursorOrder, HistoryCounts
<1>2. \A i \in m_uHead + 1 .. m_uTail : posted[i] \in Element
  BY <1>1
<1>3. /\ Queued \in Seq(Element)
      /\ Len(Queued) = m_uTail - m_uHead
      /\ \A i \in 1 .. m_uTail - m_uHead : Queued[i] = posted[m_uHead + i]
  BY <1>1, <1>2, SubSeqProperties, SMTT(20) DEF Queued
<1> QED
  BY <1>1, <1>3, EmptySeq

\* Init of the ring is Init of the queue.
LEMMA InitRefines == Init => Fifo!Init
<1> SUFFICES ASSUME Init PROVE Fifo!Init
  OBVIOUS
<1>1. Queued = << >>
  BY SubSeqEmpty DEF Init, Queued
<1> QED
  BY <1>1 DEF Init, Fifo!Init, WriterView, ReaderView, ProducerHolds, ConsumerHolds

\* Posting appends to the queue, deleting removes its head.
LEMMA PostAppends ==
  ASSUME IInv, IInv', Post
  PROVE  Queued' = Append(Queued, staged)
<1>1. /\ m_uTail' = m_uTail + 1 /\ m_uHead' = m_uHead /\ staged \in Element
      /\ posted' = Append(posted, staged) /\ posted \in Seq(Element)
      /\ Len(posted) = m_uTail /\ m_uHead \in Nat /\ m_uTail \in Nat
      /\ m_uHead <= m_uTail
  BY DEF Post, consumerVars, IInv, TypeOK, CursorOrder, RingContent, HistoryCounts
<1>2. /\ Queued \in Seq(Element) /\ Len(Queued) = m_uTail - m_uHead
      /\ \A i \in 1 .. m_uTail - m_uHead : Queued[i] = posted[m_uHead + i]
  BY QueuedLength
<1>3. /\ Queued' \in Seq(Element) /\ Len(Queued') = m_uTail + 1 - m_uHead
      /\ \A i \in 1 .. m_uTail + 1 - m_uHead : Queued'[i] = posted'[m_uHead + i]
  <2>1. \A i \in m_uHead + 1 .. m_uTail + 1 : posted'[i] \in Element
    BY <1>1
  <2> QED
    BY <1>1, <2>1, SubSeqProperties, SMTT(20) DEF Queued
<1>4. /\ Append(Queued, staged) \in Seq(Element)
      /\ Len(Append(Queued, staged)) = Len(Queued')
      /\ \A i \in 1 .. Len(Queued) : Append(Queued, staged)[i] = Queued[i]
      /\ Append(Queued, staged)[Len(Queued) + 1] = staged
  BY <1>1, <1>2, <1>3, AppendProperties
<1>5. /\ \A i \in 1 .. m_uTail : posted'[i] = posted[i]
      /\ posted'[m_uTail + 1] = staged
  BY <1>1, AppendProperties
<1>6. ASSUME NEW i \in 1 .. Len(Queued')
      PROVE  Queued'[i] = Append(Queued, staged)[i]
  <2>1. CASE i = Len(Queued) + 1
    <3>1. m_uHead + i = m_uTail + 1 /\ i \in 1 .. m_uTail + 1 - m_uHead
      <4>1. /\ m_uTail \in Nat /\ m_uHead \in Nat /\ m_uHead <= m_uTail
            /\ Len(Queued) = m_uTail - m_uHead
        BY <1>1, <1>2
      <4> QED
        BY <2>1, <4>1
    <3>2. Queued'[i] = posted'[m_uHead + i]
      BY <1>3, <3>1
    <3>3. posted'[m_uHead + i] = staged
      BY <1>5, <3>1
    <3>4. Append(Queued, staged)[i] = staged
      BY <1>4, <2>1
    <3> QED
      BY <3>2, <3>3, <3>4
  <2>2. CASE i # Len(Queued) + 1
    <3>1. /\ i \in 1 .. m_uTail - m_uHead /\ i \in 1 .. Len(Queued)
          /\ i \in 1 .. m_uTail + 1 - m_uHead /\ m_uHead + i \in 1 .. m_uTail
      BY <1>1, <1>2, <1>3, <2>2
    <3>2. Queued'[i] = posted'[m_uHead + i]
      BY <1>3, <3>1
    <3>3. posted'[m_uHead + i] = posted[m_uHead + i]
      BY <1>5, <3>1
    <3>4. Append(Queued, staged)[i] = Queued[i]
      BY <1>4, <3>1
    <3>5. Queued[i] = posted[m_uHead + i]
      BY <1>2, <3>1
    <3> QED
      BY <3>2, <3>3, <3>4, <3>5
  <2> QED
    BY <2>1, <2>2
<1> QED
  BY <1>3, <1>4, <1>6, SeqEqual

\* Deleting takes the oldest queued element, the one that was read.
LEMMA DeleteTakesHead ==
  ASSUME IInv, Delete
  PROVE  /\ Queued # << >>
         /\ copied = Head(Queued)
         /\ Queued' = Tail(Queued)
<1>1. /\ m_uHead' = m_uHead + 1 /\ m_uTail' = m_uTail /\ posted' = posted
      /\ posted \in Seq(Element) /\ copied = posted[m_uHead + 1]
      /\ m_uHead # m_uTail
      /\ m_uHead + 1 \in 1 .. Len(posted) /\ m_uTail \in m_uHead + 1 .. Len(posted)
  BY DEF Delete, producerVars, IInv, TypeOK, CursorOrder, HoldsWithReason,
     ConsumerHolds, HasElement, HistoryCounts
<1> QED
  BY <1>1, QueuedLength, HeadTailOfSubSeq DEF Queued

\* Every step of the ring is a step of the queue or leaves it unchanged.
LEMMA NextRefines == IInv /\ IInv' /\ [Next]_vars => [Fifo!Next]_(Fifo!vars)
<1> SUFFICES ASSUME IInv, IInv', [Next]_vars PROVE [Fifo!Next]_(Fifo!vars)
  OBVIOUS
<1> USE DEF WriterView, ReaderView, ProducerHolds, ConsumerHolds
<1>0. /\ Len(Queued) = m_uTail - m_uHead
      /\ Queued = << >> <=> m_uHead = m_uTail
      /\ m_uTail \in Nat /\ m_uHead \in Nat /\ m_uHeadRef \in Nat
      /\ m_uTailRef \in Nat /\ uSize \in Nat
      /\ m_uHeadRef <= m_uHead /\ m_uTail <= m_uHeadRef + uSize
      /\ m_uHead <= m_uTailRef /\ m_uTailRef <= m_uTail
  BY QueuedLength, ChannelAssumption DEF IInv, TypeOK, CursorOrder
<1>1. CASE New
  <2>1. Queued' = Queued /\ delivered' = delivered /\ consumer' = consumer
    BY <1>1 DEF New, consumerVars, Queued
  <2>2. CASE HasRoom(m_uHeadRef')
    <3>1. Len(Queued) < uSize
      BY <1>0, <1>1, <2>2 DEF New, HasRoom
    <3>2. Fifo!Reserve
      BY <1>1, <2>1, <2>2, <3>1 DEF New, Fifo!Reserve
    <3> QED
      BY <3>2 DEF Fifo!Next
  <2>3. CASE ~HasRoom(m_uHeadRef')
    <3>1. Len(Queued) = uSize
      BY <1>0, <1>1, <2>3 DEF New, HasRoom
    <3>2. Fifo!Refuse
      BY <1>1, <2>1, <2>3, <3>1 DEF New, Fifo!Refuse
    <3> QED
      BY <3>2 DEF Fifo!Next
  <2> QED
    BY <2>2, <2>3
<1>2. ASSUME NEW e \in Payload, BeginConstruct(e) PROVE UNCHANGED Fifo!vars
  BY <1>2 DEF BeginConstruct, consumerVars, Queued, Fifo!vars
<1>3. CASE EndConstruct
  BY <1>3 DEF EndConstruct, consumerVars, Queued, Fifo!vars
<1>4. CASE ConstructThrows
  BY <1>4 DEF ConstructThrows, consumerVars, Queued, Fifo!vars
<1>5. CASE Post
  <2>1. Queued' = Append(Queued, staged) /\ staged \in Element
    BY <1>5, PostAppends DEF Post, IInv, RingContent
  <2>2. Fifo!Publish(staged)
    BY <1>5, <2>1 DEF Post, consumerVars, Fifo!Publish
  <2> QED
    BY <2>1, <2>2 DEF Fifo!Next
<1>6. CASE Get
  <2>1. Queued' = Queued /\ delivered' = delivered /\ producer' = producer
    BY <1>6 DEF Get, producerVars, Queued
  <2>2. CASE HasElement(m_uTailRef')
    <3>1. Queued # << >>
      BY <1>0, <1>6, <2>2 DEF Get, HasElement
    <3>2. Fifo!Fetch
      BY <1>6, <2>1, <2>2, <3>1 DEF Get, Fifo!Fetch
    <3> QED
      BY <3>2 DEF Fifo!Next
  <2>3. CASE ~HasElement(m_uTailRef')
    <3>1. Queued = << >>
      BY <1>0, <1>6, <2>3 DEF Get, HasElement
    <3>2. Fifo!Starve
      BY <1>6, <2>1, <2>3, <3>1 DEF Get, Fifo!Starve
    <3> QED
      BY <3>2 DEF Fifo!Next
  <2> QED
    BY <2>2, <2>3
<1>7. CASE ReadElement
  BY <1>7 DEF ReadElement, producerVars, Queued, Fifo!vars
<1>8. CASE ReadThrows
  <2>1. Fifo!PutBack
    BY <1>8 DEF ReadThrows, producerVars, Queued, Fifo!PutBack
  <2> QED
    BY <2>1 DEF Fifo!Next
<1>9. CASE Delete
  <2>1. Queued # << >> /\ copied = Head(Queued) /\ Queued' = Tail(Queued)
    BY <1>9, DeleteTakesHead
  <2>2. Fifo!Release
    BY <1>9, <2>1 DEF Delete, producerVars, Fifo!Release
  <2> QED
    BY <2>2 DEF Fifo!Next
<1>10. CASE UNCHANGED vars
  BY <1>10 DEF vars, producerVars, consumerVars, Queued, Fifo!vars
<1> QED
  BY <1>1, <1>2, <1>3, <1>4, <1>5, <1>6, <1>7, <1>8, <1>9, <1>10
  DEF Next, ProducerNext, ConsumerNext

\* Seen from its two threads, the lock-free ring is a bounded FIFO queue that
\* refuses only when full and starves only when empty.
THEOREM RingImplementsFifo == Spec => ImplementsFifo
<1>1. Init => Fifo!Init
  BY InitRefines
<1>2. IInv /\ IInv' /\ [Next]_vars => [Fifo!Next]_(Fifo!vars)
  BY NextRefines
<1> QED
  BY <1>1, <1>2, InvariantHolds, PTL DEF Spec, ImplementsFifo, Fifo!Spec

-----------------------------------------------------------------------------
(* GetSize() and IsEmpty() beside the running channel, for every size of the *)
(* ring: the call disturbs nothing, and what it answers errs on the safe side *)
(* of the thread that asked, although its two loads are apart.               *)

\* The thread that asks stands still until it is answered, so the cursor it owns
\* is what it loaded; the other cursor may have moved on since, but was no further
\* from its own than the ring is long.
CallInv ==
  /\ observer = "idle" <=> caller = "none"
  /\ caller = "consumer" =>
       /\ observer \in {"tail", "done"} => seenHead = m_uHead
       /\ observer \in {"head", "done"} => m_uHead <= seenTail /\ seenTail <= m_uTail
  /\ caller = "producer" =>
       /\ observer \in {"head", "done"} => seenTail = m_uTail
       /\ observer \in {"tail", "done"} => seenHead <= m_uHead /\ m_uTail <= seenHead + uSize

ObserverInv == IInv /\ ObserverTypeOK /\ CallInv

\* A difference that is no larger than the ring does not wrap around.
LEMMA SmallRemainder ==
  ASSUME NEW a \in Nat, NEW n \in Nat \ {0}, a < n
  PROVE  a % n = a
<1> DEFINE q == a \div n
<1>1. q \in Nat /\ a % n \in 0 .. n - 1 /\ a = (n * q) + (a % n)
  BY Division
<1>2. q = 0
  <2>1. q # 0 => n * q >= n \/ n * q <= -n
    BY <1>1, MultipleIsFar
  <2>2. a % n >= 0 /\ n * q \in Nat
    BY <1>1
  <2> HIDE DEF q
  <2> QED BY <1>1, <2>1, <2>2
<1>3. n * q = 0
  BY <1>2
<1> HIDE DEF q
<1> QED BY <1>1, <1>3

\* Cursors that follow one another stay within the bounds of the outer two.
LEMMA Squeeze ==
  ASSUME NEW first \in Nat, NEW second \in Nat, NEW third \in Nat, NEW max \in Nat,
         NEW last \in 0 .. max, NEW size \in Nat,
         first <= second, second <= third, third <= last, last <= first + size
  PROVE  second \in 0 .. max /\ second <= last /\ last <= second + size
  OBVIOUS

\* What is known of the cursors, for the arithmetic.
LEMMA CursorFacts ==
  ASSUME IInv
  PROVE  /\ m_uTail \in 0 .. MaxPosts /\ m_uHead \in 0 .. MaxPosts
         /\ m_uHead <= m_uTail /\ m_uTail <= m_uHead + uSize
         /\ uSize \in Nat /\ MaxPosts \in Nat
  BY ChannelAssumption DEF IInv, TypeOK, CursorOrder

\* Each thread moves its own cursor, and only forward.
LEMMA CursorsAdvance ==
  ASSUME IInv
  PROVE  /\ ProducerNext => m_uHead' = m_uHead /\ m_uTail <= m_uTail'
         /\ ConsumerNext => m_uTail' = m_uTail /\ m_uHead <= m_uHead'
<1>1. m_uTail \in Nat /\ m_uHead \in Nat
  BY CursorFacts
<1>2. ASSUME ProducerNext
      PROVE  m_uHead' = m_uHead /\ m_uTail' \in {m_uTail, m_uTail + 1}
  BY <1>2 DEF ProducerNext, New, BeginConstruct, EndConstruct, ConstructThrows, Post,
              consumerVars
<1>3. ASSUME ConsumerNext
      PROVE  m_uTail' = m_uTail /\ m_uHead' \in {m_uHead, m_uHead + 1}
  BY <1>3 DEF ConsumerNext, Get, ReadElement, ReadThrows, Delete, producerVars
<1> QED BY <1>1, <1>2, <1>3

\* To the channel, a call of GetSize() or IsEmpty() is a stutter.
LEMMA ObserverStepIsStep == [ObserverNext]_allVars => [Next]_vars
  BY DEF ObserverNext, LoadTailFirst, LoadHeadFirst, LoadHeadSecond, LoadTailSecond,
         Return, allVars, Next

LEMMA InitObserverInv == ObserverInit => ObserverInv
<1> SUFFICES ASSUME ObserverInit
             PROVE  ObserverInv
  OBVIOUS
<1>1. IInv /\ TypeOK
  BY InitIInv DEF ObserverInit, IInv
<1>2. CallInv
  BY DEF ObserverInit, CallInv
<1> QED BY <1>1, <1>2, ChannelAssumption DEF ObserverInit, ObserverInv, ObserverTypeOK

LEMMA NextObserverInv == ObserverInv /\ [ObserverNext]_allVars => ObserverInv'
<1> SUFFICES ASSUME ObserverInv, [ObserverNext]_allVars
             PROVE  ObserverInv'
  OBVIOUS
<1>1. IInv /\ IInv' /\ TypeOK'
  BY ObserverStepIsStep, NextIInv DEF ObserverInv, IInv
<1>2. /\ observer \in {"idle", "head", "tail", "done"}
      /\ caller \in {"none", "producer", "consumer"}
      /\ seenTail \in 0 .. MaxPosts /\ seenHead \in 0 .. MaxPosts
      /\ CallInv
  BY DEF ObserverInv, ObserverTypeOK
<1>3. /\ m_uTail \in 0 .. MaxPosts /\ m_uHead \in 0 .. MaxPosts
      /\ m_uHead <= m_uTail /\ m_uTail <= m_uHead + uSize
      /\ uSize \in Nat /\ MaxPosts \in Nat
  BY <1>1, CursorFacts
<1>4. /\ m_uTail' \in 0 .. MaxPosts /\ m_uHead' \in 0 .. MaxPosts
      /\ m_uHead' <= m_uTail' /\ m_uTail' <= m_uHead' + uSize
  <2>1. /\ m_uTail' \in 0 .. MaxPosts
        /\ m_uHead' \in Nat /\ m_uHeadRef' \in Nat /\ m_uTailRef' \in Nat
    BY <1>1 DEF TypeOK
  <2>2. /\ m_uHeadRef' <= m_uHead' /\ m_uHead' <= m_uTailRef'
        /\ m_uTailRef' <= m_uTail' /\ m_uTail' <= m_uHeadRef' + uSize
    BY <1>1 DEF IInv, CursorOrder
  <2> QED BY <1>3, <2>1, <2>2, Squeeze
<1> SUFFICES /\ observer' \in {"idle", "head", "tail", "done"}
             /\ caller' \in {"none", "producer", "consumer"}
             /\ seenTail' \in 0 .. MaxPosts /\ seenHead' \in 0 .. MaxPosts
             /\ CallInv'
  BY <1>1 DEF ObserverInv, ObserverTypeOK
<1>5. CASE ProducerNext /\ caller # "producer" /\ UNCHANGED observerVars
  <2>1. m_uHead' = m_uHead /\ m_uTail <= m_uTail'
    BY <1>1, <1>5, CursorsAdvance
  <2> QED BY <1>1, <1>2, <1>3, <1>4, <1>5, <2>1 DEF observerVars, CallInv
<1>6. CASE ConsumerNext /\ caller # "consumer" /\ UNCHANGED observerVars
  <2>1. m_uTail' = m_uTail /\ m_uHead <= m_uHead'
    BY <1>1, <1>6, CursorsAdvance
  <2> QED BY <1>1, <1>2, <1>3, <1>4, <1>6, <2>1 DEF observerVars, CallInv
<1>7. ASSUME NEW thread \in {"producer", "consumer"}, LoadTailFirst(thread)
      PROVE  ObserverTypeOK' /\ CallInv'
  <2>1. m_uTail' = m_uTail /\ m_uHead' = m_uHead
    BY <1>7 DEF LoadTailFirst, vars, producerVars, consumerVars
  <2> QED BY <1>1, <1>2, <1>3, <1>7, <2>1 DEF LoadTailFirst, CallInv, ObserverTypeOK
<1>8. ASSUME NEW thread \in {"producer", "consumer"}, LoadHeadFirst(thread)
      PROVE  ObserverTypeOK' /\ CallInv'
  <2>1. m_uTail' = m_uTail /\ m_uHead' = m_uHead
    BY <1>8 DEF LoadHeadFirst, vars, producerVars, consumerVars
  <2> QED BY <1>1, <1>2, <1>3, <1>8, <2>1 DEF LoadHeadFirst, CallInv, ObserverTypeOK
<1>9. CASE LoadHeadSecond
  <2>1. m_uTail' = m_uTail /\ m_uHead' = m_uHead
    BY <1>9 DEF LoadHeadSecond, vars, producerVars, consumerVars
  <2> QED BY <1>1, <1>2, <1>3, <1>9, <2>1 DEF LoadHeadSecond, CallInv
<1>10. CASE LoadTailSecond
  <2>1. m_uTail' = m_uTail /\ m_uHead' = m_uHead
    BY <1>10 DEF LoadTailSecond, vars, producerVars, consumerVars
  <2> QED BY <1>1, <1>2, <1>3, <1>10, <2>1 DEF LoadTailSecond, CallInv
<1>11. CASE Return
  BY <1>2, <1>11 DEF Return, CallInv
<1>12. CASE UNCHANGED allVars
  BY <1>2, <1>12 DEF CallInv, allVars, observerVars, vars, producerVars, consumerVars
<1> QED
  BY <1>5, <1>6, <1>7, <1>8, <1>9, <1>10, <1>11, <1>12 DEF ObserverNext, ObserverTypeOK

-----------------------------------------------------------------------------
\* The two loads see cursors of different instants, and still: what the call sees
\* and computes keeps its type, whatever the size of the ring.
THEOREM ObserverTypeCorrect == ObserverSpec => []ObserverTypeOK
<1>1. ObserverInv => ObserverTypeOK
  BY DEF ObserverInv
<1> QED
  BY <1>1, InitObserverInv, NextObserverInv, PTL DEF ObserverSpec

\* GetSize() is a lower bound to the consumer and an upper bound to the producer,
\* and never a difference that has wrapped around, for every size of the ring.
THEOREM SizesAreSafeAlways == ObserverSpec => []SizesAreSafe
<1>1. ASSUME ObserverInv
      PROVE  SizesAreSafe
  <2>1. /\ IInv /\ CallInv
        /\ seenTail \in 0 .. MaxPosts /\ seenHead \in 0 .. MaxPosts
    BY <1>1 DEF ObserverInv, ObserverTypeOK
  <2>2. /\ m_uTail \in 0 .. MaxPosts /\ m_uHead \in 0 .. MaxPosts
        /\ m_uHead <= m_uTail /\ m_uTail <= m_uHead + uSize
        /\ uSize \in Nat /\ MaxPosts \in Nat
    BY <2>1, CursorFacts
  <2>3. ASSUME 0 <= seenTail - seenHead, seenTail - seenHead <= uSize
        PROVE  GetSize = seenTail - seenHead
    <3>1. /\ seenTail - seenHead \in Nat
          /\ seenTail - seenHead < UIntRange
          /\ UIntRange \in Nat \ {0}
      BY <2>1, <2>2, <2>3, UIntAssumption
    <3> QED BY <3>1, SmallRemainder DEF GetSize
  <2>4. ASSUME observer = "done", caller = "consumer"
        PROVE  GetSize <= m_uTail - m_uHead /\ (~IsEmpty => HasElement(m_uTail))
    <3>1. seenHead = m_uHead /\ m_uHead <= seenTail /\ seenTail <= m_uTail
      BY <2>1, <2>4 DEF CallInv
    <3>2. GetSize = seenTail - seenHead
      BY <2>1, <2>2, <2>3, <3>1
    <3> QED BY <2>1, <2>2, <3>1, <3>2 DEF IsEmpty, HasElement
  <2>5. ASSUME observer = "done", caller = "producer"
        PROVE  /\ m_uTail - m_uHead <= GetSize
               /\ GetSize <= uSize
               /\ IsEmpty => m_uTail = m_uHead
    <3>1. seenTail = m_uTail /\ seenHead <= m_uHead /\ m_uTail <= seenHead + uSize
      BY <2>1, <2>5 DEF CallInv
    <3>2. GetSize = seenTail - seenHead
      BY <2>1, <2>2, <2>3, <3>1
    <3> QED BY <2>1, <2>2, <3>1, <3>2 DEF IsEmpty
  <2> QED BY <2>4, <2>5 DEF SizesAreSafe, ConsumerSizeIsSafe, ProducerSizeIsSafe
<1> QED
  BY <1>1, InitObserverInv, NextObserverInv, PTL DEF ObserverSpec

\* A channel whose size is asked for behaves as one that nobody asks: all that is
\* proved of it, the refinement of the FIFO included, holds beside the calls.
THEOREM ObserverIsHarmless == ObserverSpec => Spec
<1>1. ObserverInit => Init
  BY DEF ObserverInit
<1> QED
  BY <1>1, ObserverStepIsStep, PTL DEF ObserverSpec, Spec
=============================================================================
