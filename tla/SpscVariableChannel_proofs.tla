--------------------- MODULE SpscVariableChannel_proofs ---------------------
(***************************************************************************)
(* Proofs about SpscVariableChannel for every ring size, payload set and     *)
(* set of entry lengths, of which each is to have a payload: an entry of one  *)
(* unit that lies at the end of the ring is taken for a placeholder.         *)
(***************************************************************************)
EXTENDS SpscVariableChannel, SequenceTheorems, TLAPS

EntriesHavePayload == \A n \in Lengths : n > 1

-----------------------------------------------------------------------------
(* The strengthening that makes the safety properties inductive: where the    *)
(* entries that are posted and not deleted lie, and what lies between them.   *)

First == Len(delivered) + 1
Last == Len(posted)
Live == First .. Last
End(k) == places[k] + posted[k].length

\* Between the cursors a and b lies nothing, or a placeholder up to the end of the
\* ring.
Gap(a, b) ==
  \/ a = b
  \/ /\ a < b
     /\ b - a = uSize - GetIndex(a)
     /\ m_pData[GetIndex(a)] = Hole(b - a)

\* Every live entry lies in one piece between the cursors, as it was posted.
LiveAreWhole ==
  \A k \in Live :
    /\ m_uHead <= places[k] /\ End(k) <= m_uTail
    /\ GetIndex(places[k]) + posted[k].length <= uSize
    /\ m_pData[GetIndex(places[k])] = posted[k]

\* They follow one another, each of two units at least.
LiveAreApart ==
  \A j, k \in Live : j < k => End(j) <= places[k] /\ places[j] + 2 * (k - j) <= places[k]

\* Nothing but placeholders lies between them.
NextPlace == IF Live = {} THEN m_uTail ELSE places[First]
LastEnd == IF Live = {} THEN m_uHead ELSE End(Last)
LiveAreLinked ==
  /\ \A k \in Live : k + 1 \in Live => Gap(End(k), places[k + 1])
  /\ Gap(m_uHead, NextPlace)
  /\ Gap(LastEnd, m_uTail)

\* A cursor that the producer has published divides no entry and no placeholder.
Published(cursor) ==
  /\ m_uHead <= cursor /\ cursor <= m_uTail
  /\ \A k \in Live : cursor <= places[k] \/ End(k) <= cursor
  /\ \A k \in Live : k + 1 \in Live => cursor <= End(k) \/ places[k + 1] <= cursor
  /\ cursor <= m_uHead \/ NextPlace <= cursor
  /\ cursor <= LastEnd \/ m_uTail <= cursor

\* What the producer has been given is free, by the head it has seen, and holds the
\* entry it is about to post.
ProducerOwns ==
  ProducerHolds =>
    /\ uNewSize \in Lengths
    /\ GetIndex(m_uTail) + uNewSize <= uSize
    /\ m_uTail + uNewSize <= m_uHeadRef + uSize
    /\ m_pData[GetIndex(m_uTail)].length = uNewSize
    /\ ~m_pData[GetIndex(m_uTail)].placehold
    /\ producer = "constructed" => m_pData[GetIndex(m_uTail)].item \in Payload

\* What the consumer has been given is the oldest live entry.
ConsumerOwns ==
  ConsumerHolds =>
    /\ First \in Live
    /\ m_uHead = places[First]
    /\ m_uHead < m_uTailRef
    /\ consumer = "copied" => copied = posted[First]

HistoryCounts ==
  /\ Len(places) = Len(posted)
  /\ uPosted = Len(posted) - (IF producer = "posted" THEN 1 ELSE 0)
  /\ uDeleted = Len(delivered) - (IF consumer = "deleted" THEN 1 ELSE 0)
  /\ producer \in {"retry", "refused"} => uNewSize \in Lengths

Layout == LiveAreWhole /\ LiveAreApart /\ LiveAreLinked /\ Published(m_uTailRef)
Histories == DeliveredInOrder /\ HistoryCounts

IInv ==
  /\ TypeOK
  /\ CursorOrder
  /\ Layout
  /\ ProducerOwns
  /\ ConsumerOwns
  /\ Histories

-----------------------------------------------------------------------------
(* Cursors and their places in the ring. *)

\* Division with remainder: the place of a cursor and the lap it is in.
LEMMA Division ==
  ASSUME NEW a \in Nat, NEW n \in Nat \ {0}
  PROVE  /\ a % n \in 0 .. n - 1
         /\ a \div n \in Nat
         /\ a = (n * (a \div n)) + (a % n)
  OBVIOUS

\* The multiples of n nearest to zero, for the solver.
LEMMA Multiples ==
  ASSUME NEW k \in Int, NEW n \in Nat \ {0}
  PROVE  /\ k >= 1 => n * k >= n
         /\ k >= 2 => n * k >= 2 * n
         /\ k <= -1 => n * k <= -n
         /\ k = 0 => n * k = 0
         /\ k = 1 => n * k = n
  OBVIOUS

\* Two cursors less than a ring apart are in the same lap or in adjacent ones.
LEMMA Laps ==
  ASSUME NEW a \in Nat, NEW b \in Nat, NEW n \in Nat \ {0}, a <= b, b < a + n
  PROVE  /\ b % n >= a % n => b - a = (b % n) - (a % n)
         /\ b % n < a % n => b - a = (b % n) - (a % n) + n
<1> DEFINE p == a \div n
           q == b \div n
           r == a % n
           s == b % n
<1>1. p \in Nat /\ a = (n * p) + r /\ r \in 0 .. n - 1
  BY Division
<1>2. q \in Nat /\ b = (n * q) + s /\ s \in 0 .. n - 1
  BY Division
<1> HIDE DEF p, q, r, s
<1>3. b - a = (n * (q - p)) + (s - r)
  BY <1>1, <1>2
<1>4. q - p \in Int
  BY <1>1, <1>2
<1>5. q - p = 0 \/ q - p = 1
  <2>1. ~(q - p >= 2)
    BY <1>1, <1>2, <1>3, <1>4, Multiples
  <2>2. ~(q - p <= -1)
    BY <1>1, <1>2, <1>3, <1>4, Multiples
  <2> QED BY <1>4, <2>1, <2>2
<1>6. n * (q - p) = 0 \/ n * (q - p) = n
  BY <1>4, <1>5, Multiples
<1>7. /\ s >= r => b - a = s - r
      /\ s < r => b - a = s - r + n
  BY <1>1, <1>2, <1>3, <1>6
<1> QED BY <1>7 DEF r, s

\* Only one multiple of n lies less than n away from a cursor of the first lap.
LEMMA SameRemainder ==
  ASSUME NEW n \in Nat \ {0}, NEW p \in Int, NEW q \in Int,
         NEW r \in 0 .. n - 1, NEW s \in 0 .. n - 1, (n * p) + r = (n * q) + s
  PROVE  r = s
<1>1. s - r = n * (p - q)
  OBVIOUS
<1>2. p - q \in Int
  OBVIOUS
<1>3. ~(p - q >= 1)
  BY <1>1, <1>2, Multiples
<1>4. ~(p - q <= -1)
  BY <1>1, <1>2, Multiples
<1>5. p - q = 0
  BY <1>2, <1>3, <1>4
<1>6. n * (p - q) = 0
  BY <1>2, <1>5, Multiples
<1> QED BY <1>1, <1>6

\* The remainder is known from any way to write the cursor.
LEMMA RemainderIs ==
  ASSUME NEW x \in Nat, NEW n \in Nat \ {0}, NEW p \in Int, NEW r \in 0 .. n - 1,
         x = (n * p) + r
  PROVE  x % n = r
<1> DEFINE q == x \div n
           s == x % n
<1>1. q \in Int /\ x = (n * q) + s /\ s \in 0 .. n - 1
  BY Division
<1> HIDE DEF q, s
<1>2. (n * p) + r = (n * q) + s
  BY <1>1
<1>3. r = s
  BY <1>1, <1>2, SameRemainder
<1> QED BY <1>3 DEF s

\* The end of the ring is the start of the next lap, and a lap later is the same place.
LEMMA NextLap ==
  ASSUME NEW a \in Nat, NEW n \in Nat \ {0}
  PROVE  /\ (a + (n - (a % n))) % n = 0
         /\ (a + n) % n = a % n
<1> DEFINE p == a \div n
           r == a % n
           b == a + (n - r)
           c == a + n
<1>1. p \in Nat /\ a = (n * p) + r /\ r \in 0 .. n - 1
  BY Division
<1>2. p + 1 \in Int /\ b \in Nat /\ c \in Nat /\ 0 \in 0 .. n - 1
  BY <1>1
<1>3. b = (n * (p + 1)) + 0 /\ c = (n * (p + 1)) + r
  BY <1>1
<1> HIDE DEF p, r, b, c
<1>4. b % n = 0
  BY <1>2, <1>3, RemainderIs
<1>5. c % n = r
  BY <1>1, <1>2, <1>3, RemainderIs
<1> QED BY <1>4, <1>5 DEF b, c, r

-----------------------------------------------------------------------------
(* The same about the ring of the channel. *)

\* Where a cursor lies in the ring, and that of two cursors less than a ring apart.
LEMMA Places ==
  /\ uSize \in Nat \ {0}
  /\ \A a \in Nat :
       /\ GetIndex(a) \in Index
       /\ GetIndex(a) \in Nat /\ GetIndex(a) < uSize
       /\ GetIndex(a + (uSize - GetIndex(a))) = 0
       /\ GetIndex(a + uSize) = GetIndex(a)
<1>1. uSize \in Nat \ {0}
  BY VariableAssumption
<1>2. ASSUME NEW a \in Nat
      PROVE  /\ GetIndex(a) \in Index
             /\ GetIndex(a) \in Nat /\ GetIndex(a) < uSize
             /\ GetIndex(a + (uSize - GetIndex(a))) = 0
             /\ GetIndex(a + uSize) = GetIndex(a)
  <2>1. a % uSize \in 0 .. uSize - 1
    BY <1>1, Division
  <2>2. (a + (uSize - (a % uSize))) % uSize = 0 /\ (a + uSize) % uSize = a % uSize
    BY <1>1, NextLap
  <2> QED BY <1>1, <2>1, <2>2 DEF GetIndex, Index
<1> QED BY <1>1, <1>2

\* Less than a ring apart, the distance of two cursors tells their places.
LEMMA Distance ==
  ASSUME NEW a \in Nat, NEW b \in Nat, a <= b, b < a + uSize
  PROVE  /\ GetIndex(b) >= GetIndex(a) => b - a = GetIndex(b) - GetIndex(a)
         /\ GetIndex(b) < GetIndex(a) => b - a = GetIndex(b) - GetIndex(a) + uSize
BY VariableAssumption, Laps DEF GetIndex

\* So two of them that differ have different places.
LEMMA DistinctPlaces ==
  ASSUME NEW a \in Nat, NEW b \in Nat, a < b, b < a + uSize
  PROVE  GetIndex(a) # GetIndex(b)
<1>1. uSize \in Nat /\ GetIndex(a) \in Nat /\ GetIndex(b) \in Nat
  BY Places
<1>2. GetIndex(b) >= GetIndex(a) => b - a = GetIndex(b) - GetIndex(a)
  BY Distance
<1> QED BY <1>1, <1>2

-----------------------------------------------------------------------------
(* What the invariant says, in the form the steps use it. *)

CursorFacts ==
  /\ m_uHead \in Nat /\ m_uTail \in Nat /\ m_uHeadRef \in Nat /\ m_uTailRef \in Nat
  /\ m_uHeadRef <= m_uHead /\ m_uHead <= m_uTailRef
  /\ m_uTailRef <= m_uTail /\ m_uTail <= m_uHeadRef + uSize

CountFacts ==
  /\ Len(delivered) \in Nat /\ Len(posted) \in Nat
  /\ Len(delivered) <= Len(posted)
  /\ Len(places) = Len(posted)
  /\ First \in Nat /\ Last \in Nat /\ First >= 1

LiveFact(k) ==
  /\ k \in Nat /\ k >= 1 /\ k >= First /\ k <= Last
  /\ places[k] \in Nat
  /\ posted[k] \in Message
  /\ posted[k].length \in Nat /\ posted[k].length >= 2
  /\ End(k) \in Nat /\ End(k) = places[k] + posted[k].length
  /\ m_uHead <= places[k] /\ End(k) <= m_uTail

\* What the invariant says of the cursors,
LEMMA CursorsAreKnown ==
  ASSUME IInv
  PROVE  CursorFacts
BY DEF IInv, TypeOK, CursorOrder, CursorFacts

\* of the counts of entries,
LEMMA CountsAreKnown ==
  ASSUME IInv
  PROVE  CountFacts
<1>1. posted \in Seq(Message) /\ delivered \in Seq(Message)
  BY DEF IInv, TypeOK
<1>2. Len(posted) \in Nat /\ Len(delivered) \in Nat
  BY <1>1, LenProperties
<1>3. Len(delivered) <= Len(posted) /\ Len(places) = Len(posted)
  BY DEF IInv, Histories, DeliveredInOrder, HistoryCounts
<1> QED BY <1>2, <1>3 DEF CountFacts, First, Last

\* and of each entry that is posted and not yet deleted.
LEMMA LiveIsKnown ==
  ASSUME IInv, EntriesHavePayload, NEW k \in Live
  PROVE  LiveFact(k)
<1>1. CountFacts
  BY CountsAreKnown
<1>2. k \in Nat /\ k >= 1 /\ k >= First /\ k <= Last /\ k \in 1 .. Len(posted)
  BY <1>1 DEF CountFacts, Live, First, Last
<1>3. k \in 1 .. Len(places)
  BY <1>1, <1>2 DEF CountFacts
<1>4. posted \in Seq(Message) /\ places \in Seq(Nat)
  BY DEF IInv, TypeOK
<1>5. posted[k] \in Message
  BY <1>2, <1>4, ElementOfSeq
<1>6. places[k] \in Nat
  BY <1>3, <1>4, ElementOfSeq
<1>7. posted[k].length \in Lengths
  BY <1>5 DEF Message
<1>8. posted[k].length \in Nat /\ posted[k].length >= 2
  BY <1>7, VariableAssumption DEF EntriesHavePayload
<1>9. m_uHead <= places[k] /\ End(k) <= m_uTail
  BY DEF IInv, Layout, LiveAreWhole
<1>10. End(k) \in Nat /\ End(k) = places[k] + posted[k].length
  BY <1>6, <1>8 DEF End
<1> QED BY <1>2, <1>5, <1>6, <1>8, <1>9, <1>10 DEF LiveFact

-----------------------------------------------------------------------------
(* Steps of the producer that publish nothing. *)

\* The units between the cursors hold what they held.
Kept ==
  \A a \in Nat : m_uHead <= a /\ a < m_uTail => m_pData'[GetIndex(a)] = m_pData[GetIndex(a)]

\* Gap(a, b) in the next state, for cursors of this one.
GapAfter(a, b) ==
  \/ a = b
  \/ /\ a < b
     /\ b - a = uSize - GetIndex(a)
     /\ m_pData'[GetIndex(a)] = Hole(b - a)

\* Writing at two places of the free part changes no cell between head and tail.
LEMMA WritesAreFree ==
  ASSUME CursorFacts,
         NEW x \in Nat, m_uTail <= x, x < m_uHead + uSize,
         NEW y \in Nat, m_uTail <= y, y < m_uHead + uSize,
         \A i \in Index : i # GetIndex(x) /\ i # GetIndex(y) => m_pData'[i] = m_pData[i]
  PROVE  Kept
<1>1. SUFFICES ASSUME NEW a \in Nat, m_uHead <= a, a < m_uTail
               PROVE  m_pData'[GetIndex(a)] = m_pData[GetIndex(a)]
  BY DEF Kept
<1>2. m_uHead \in Nat /\ m_uTail \in Nat /\ uSize \in Nat
  BY Places DEF CursorFacts
<1>3. a < x /\ x < a + uSize /\ a < y /\ y < a + uSize
  BY <1>1, <1>2
<1>4. GetIndex(a) # GetIndex(x)
  BY <1>3, DistinctPlaces
<1>5. GetIndex(a) # GetIndex(y)
  BY <1>3, DistinctPlaces
<1>6. GetIndex(a) \in Index
  BY Places
<1> QED BY <1>4, <1>5, <1>6

\* A gap stays a gap while its cells are kept.
LEMMA GapKept ==
  ASSUME Kept, NEW a \in Nat, NEW b, m_uHead <= a, b <= m_uTail, Gap(a, b),
         b \in Nat, m_uTail \in Nat
  PROVE  GapAfter(a, b)
<1>1. CASE a = b
  BY <1>1 DEF GapAfter
<1>2. CASE a # b
  <2>1. a < b /\ b - a = uSize - GetIndex(a) /\ m_pData[GetIndex(a)] = Hole(b - a)
    BY <1>2 DEF Gap
  <2>2. a < m_uTail
    BY <2>1
  <2>3. m_pData'[GetIndex(a)] = m_pData[GetIndex(a)]
    BY <2>2 DEF Kept
  <2> QED BY <2>1, <2>3 DEF GapAfter
<1> QED BY <1>1, <1>2

\* Where the last entry ends, and where the next one starts.
EndsFacts ==
  /\ NextPlace \in Nat /\ m_uHead <= NextPlace /\ NextPlace <= m_uTail
  /\ LastEnd \in Nat /\ m_uHead <= LastEnd /\ LastEnd <= m_uTail
  /\ Live # {} => First \in Live /\ Last \in Live
  /\ Live = {} => First = Last + 1

\* Where the first live entry begins and the last one ends.
LEMMA EndsAreKnown ==
  ASSUME IInv, EntriesHavePayload
  PROVE  EndsFacts
<1>1. CountFacts /\ CursorFacts
  BY CountsAreKnown, CursorsAreKnown
<1>2. First \in Nat /\ Last \in Nat /\ First <= Last + 1
  BY <1>1 DEF CountFacts, First, Last
<1>3. Live = First .. Last
  BY DEF Live
<1>4. CASE Live = {}
  <2>1. First = Last + 1
    BY <1>2, <1>3, <1>4
  <2>2. NextPlace = m_uTail /\ LastEnd = m_uHead
    BY <1>4 DEF NextPlace, LastEnd
  <2>3. m_uHead <= m_uTail /\ m_uHead \in Nat /\ m_uTail \in Nat
    BY <1>1 DEF CursorFacts
  <2> QED BY <1>4, <2>1, <2>2, <2>3 DEF EndsFacts
<1>5. CASE Live # {}
  <2>1. First \in Live /\ Last \in Live
    BY <1>2, <1>3, <1>5
  <2>2. NextPlace = places[First] /\ LastEnd = End(Last)
    BY <1>5 DEF NextPlace, LastEnd
  <2>3. LiveFact(First) /\ LiveFact(Last)
    BY <2>1, LiveIsKnown
  <2>4. m_uHead \in Nat /\ m_uTail \in Nat
    BY <1>1 DEF CursorFacts
  <2>5. NextPlace \in Nat /\ m_uHead <= NextPlace /\ NextPlace <= m_uTail
    BY <2>2, <2>3, <2>4 DEF LiveFact
  <2>6. LastEnd \in Nat /\ m_uHead <= LastEnd /\ LastEnd <= m_uTail
    BY <2>2, <2>3, <2>4 DEF LiveFact
  <2> QED BY <1>5, <2>1, <2>5, <2>6 DEF EndsFacts
<1> QED BY <1>4, <1>5

\* The tail stays, or it moves over a placeholder that ends the ring.
TailSteps ==
  \/ m_uTail' = m_uTail
  \/ /\ LastEnd = m_uTail
     /\ m_uTail' = m_uTail + ToEnd
     /\ m_pData'[GetIndex(m_uTail)] = Hole(ToEnd)

\* Wherever the tail goes, there is nothing or a placeholder between the last entry and it.
LEMMA TailStepFacts ==
  ASSUME IInv, EntriesHavePayload, Kept, TailSteps
  PROVE  /\ m_uTail' \in Nat /\ m_uTail <= m_uTail'
         /\ GapAfter(LastEnd, m_uTail')
         /\ m_uTailRef <= LastEnd \/ m_uTail' <= m_uTailRef
<1>1. CursorFacts /\ EndsFacts
  BY CursorsAreKnown, EndsAreKnown
<1>2. m_uTail \in Nat /\ m_uTailRef \in Nat /\ m_uTailRef <= m_uTail
  BY <1>1 DEF CursorFacts
<1>3. LastEnd \in Nat /\ m_uHead <= LastEnd /\ LastEnd <= m_uTail
  BY <1>1 DEF EndsFacts
<1>4. CASE m_uTail' = m_uTail
  <2>1. Gap(LastEnd, m_uTail)
    BY DEF IInv, Layout, LiveAreLinked
  <2>2. m_uTail <= m_uTail
    BY <1>2
  <2>3. GapAfter(LastEnd, m_uTail)
    BY <1>2, <1>3, <2>1, <2>2, GapKept
  <2>4. m_uTailRef <= LastEnd \/ m_uTail <= m_uTailRef
    BY DEF IInv, Layout, Published
  <2> QED BY <1>2, <1>4, <2>3, <2>4
<1>5. CASE /\ LastEnd = m_uTail
           /\ m_uTail' = m_uTail + ToEnd
           /\ m_pData'[GetIndex(m_uTail)] = Hole(ToEnd)
  <2>1. uSize \in Nat /\ GetIndex(m_uTail) \in Nat /\ GetIndex(m_uTail) < uSize
    BY <1>2, Places
  <2>2. ToEnd \in Nat /\ ToEnd >= 1 /\ ToEnd = uSize - GetIndex(m_uTail)
    BY <2>1 DEF ToEnd
  <2>3. m_uTail' \in Nat /\ m_uTail < m_uTail' /\ m_uTail' - m_uTail = ToEnd
    BY <1>2, <1>5, <2>2
  <2>4. m_pData'[GetIndex(m_uTail)] = Hole(m_uTail' - m_uTail)
    BY <1>5, <2>3
  <2>5. GapAfter(m_uTail, m_uTail')
    BY <2>2, <2>3, <2>4 DEF GapAfter
  <2> QED BY <1>2, <1>5, <2>3, <2>5
<1> QED BY <1>4, <1>5 DEF TailSteps

\* The entries lie as before.
LEMMA LayoutStays ==
  ASSUME IInv, EntriesHavePayload, Kept, TailSteps,
         m_uHead' = m_uHead, m_uTailRef' = m_uTailRef,
         posted' = posted, places' = places, delivered' = delivered
  PROVE  Layout'
<1>1. /\ CursorFacts /\ CountFacts /\ EndsFacts
      /\ \A k \in Live : LiveFact(k)
  BY CursorsAreKnown, CountsAreKnown, EndsAreKnown, LiveIsKnown
<1>2. /\ m_uTail' \in Nat /\ m_uTail <= m_uTail'
      /\ GapAfter(LastEnd, m_uTail')
      /\ m_uTailRef <= LastEnd \/ m_uTail' <= m_uTailRef
  BY TailStepFacts
<1>3. First' = First /\ Last' = Last /\ Live' = Live
  BY DEF First, Last, Live
<1>4. LiveAreWhole'
  <2>1. SUFFICES ASSUME NEW k \in Live
                 PROVE  /\ m_uHead' <= places'[k] /\ places'[k] + posted'[k].length <= m_uTail'
                        /\ GetIndex(places'[k]) + posted'[k].length <= uSize
                        /\ m_pData'[GetIndex(places'[k])] = posted'[k]
    BY <1>3 DEF LiveAreWhole, End
  <2>2. LiveFact(k) /\ m_uTail \in Nat
    BY <1>1 DEF CursorFacts
  <2>3. /\ GetIndex(places[k]) + posted[k].length <= uSize
        /\ m_pData[GetIndex(places[k])] = posted[k]
    BY DEF IInv, Layout, LiveAreWhole
  <2>4. m_uHead <= places[k] /\ places[k] < m_uTail /\ places[k] \in Nat
    BY <2>2 DEF LiveFact
  <2>5. m_pData'[GetIndex(places[k])] = m_pData[GetIndex(places[k])]
    BY <2>4 DEF Kept
  <2>6. places[k] + posted[k].length <= m_uTail'
    BY <1>2, <2>2 DEF LiveFact
  <2> QED BY <2>3, <2>4, <2>5, <2>6
<1>5. LiveAreApart'
  <2>1. LiveAreApart
    BY DEF IInv, Layout
  <2> QED BY <1>3, <2>1 DEF LiveAreApart, End
<1>6. NextPlace' = IF Live = {} THEN m_uTail' ELSE NextPlace
  BY <1>3 DEF NextPlace
<1>7. LastEnd' = LastEnd
  BY <1>3 DEF LastEnd, End
<1>8. LiveAreLinked'
  <2>1. ASSUME NEW k \in Live, k + 1 \in Live
        PROVE  GapAfter(End(k), places[k + 1])
    <3>1. LiveFact(k) /\ LiveFact(k + 1) /\ m_uHead \in Nat /\ m_uTail \in Nat
      BY <1>1, <2>1 DEF CursorFacts
    <3>2. Gap(End(k), places[k + 1])
      BY <2>1 DEF IInv, Layout, LiveAreLinked
    <3>3. End(k) \in Nat /\ m_uHead <= End(k)
      BY <3>1 DEF LiveFact
    <3>4. places[k + 1] \in Nat /\ places[k + 1] <= m_uTail
      BY <3>1 DEF LiveFact
    <3> QED BY <3>1, <3>2, <3>3, <3>4, GapKept
  <2>2. GapAfter(m_uHead, NextPlace')
    <3>1. CASE Live = {}
      BY <1>2, <1>6, <3>1 DEF LastEnd
    <3>2. CASE Live # {}
      <4>1. Gap(m_uHead, NextPlace)
        BY DEF IInv, Layout, LiveAreLinked
      <4>2. m_uHead \in Nat /\ m_uHead <= m_uHead /\ m_uTail \in Nat
        BY <1>1 DEF CursorFacts
      <4>3. NextPlace \in Nat /\ NextPlace <= m_uTail
        BY <1>1 DEF EndsFacts
      <4> QED BY <1>6, <3>2, <4>1, <4>2, <4>3, GapKept
    <3> QED BY <3>1, <3>2
  <2>3. \A k \in Live : k + 1 \in Live => Gap(End(k), places[k + 1])'
    BY <2>1 DEF Gap, GapAfter, End
  <2>4. Gap(m_uHead, NextPlace)'
    BY <2>2 DEF Gap, GapAfter
  <2>5. Gap(LastEnd, m_uTail)'
    BY <1>2, <1>7 DEF Gap, GapAfter
  <2> QED BY <1>3, <2>3, <2>4, <2>5 DEF LiveAreLinked
<1>9. Published(m_uTailRef)'
  <2>1. Published(m_uTailRef)
    BY DEF IInv, Layout
  <2>2. m_uHead <= m_uTailRef /\ m_uTailRef <= m_uTail'
    BY <1>1, <1>2 DEF CursorFacts
  <2>3. m_uTailRef <= m_uHead \/ NextPlace' <= m_uTailRef
    BY <1>2, <1>6, <2>1 DEF Published, LastEnd
  <2>4. /\ \A k \in Live : m_uTailRef <= places'[k] \/ (End(k))' <= m_uTailRef
        /\ \A k \in Live : k + 1 \in Live =>
             m_uTailRef <= (End(k))' \/ places'[k + 1] <= m_uTailRef
    BY <2>1 DEF Published, End
  <2> QED BY <1>2, <1>3, <1>7, <2>2, <2>3, <2>4 DEF Published
<1> QED BY <1>4, <1>5, <1>8, <1>9 DEF Layout

-----------------------------------------------------------------------------
(* NewEntry(). *)

\* The tail that NewEntry(n) leaves, with the consumer seen at hr.
TailFor(n, hr) == IF Wraps(n, hr) THEN m_uTail + ToEnd ELSE m_uTail

\* The end of the ring is given away only once: no placeholder precedes it, and what
\* the consumer holds starts after it.
LEMMA WrapIsSafe ==
  ASSUME IInv, EntriesHavePayload, NEW n \in Lengths, NEW hr \in Nat,
         m_uHeadRef <= hr, hr <= m_uHead, Wraps(n, hr)
  PROVE  /\ LastEnd = m_uTail
         /\ m_uTail < hr + uSize
         /\ m_uTail + ToEnd = (hr - GetIndex(hr)) + uSize
         /\ GetIndex(m_uTail + ToEnd) = 0
         /\ ToEnd \in Nat /\ ToEnd = uSize - GetIndex(m_uTail)
<1>1. CursorFacts /\ EndsFacts
  BY CursorsAreKnown, EndsAreKnown
<1>2. m_uTail \in Nat /\ m_uHead \in Nat /\ hr <= m_uTail /\ uSize \in Nat
  BY <1>1, Places DEF CursorFacts
<1>3. /\ GetIndex(m_uTail) \in Nat /\ GetIndex(m_uTail) < uSize
      /\ GetIndex(hr) \in Nat
      /\ GetIndex(m_uTail + (uSize - GetIndex(m_uTail))) = 0
  BY <1>2, Places
<1>4. m_uTail < hr + uSize
  BY <1>2 DEF Wraps, Full
<1>5. GetIndex(m_uTail) >= GetIndex(hr)
  BY DEF Wraps, TailAhead
<1>6. m_uTail - hr = GetIndex(m_uTail) - GetIndex(hr)
  BY <1>2, <1>4, <1>5, Distance
<1>7. ToEnd \in Nat /\ ToEnd = uSize - GetIndex(m_uTail)
  BY <1>2, <1>3 DEF ToEnd
<1>8. m_uTail + ToEnd = (hr - GetIndex(hr)) + uSize
  BY <1>2, <1>3, <1>6, <1>7
<1>9. GetIndex(m_uTail + ToEnd) = 0
  BY <1>3, <1>7
<1>10. LastEnd = m_uTail
  <2>1. SUFFICES ASSUME LastEnd # m_uTail
                 PROVE  FALSE
    OBVIOUS
  <2>2. Gap(LastEnd, m_uTail)
    BY DEF IInv, Layout, LiveAreLinked
  <2>3. LastEnd < m_uTail /\ m_uTail - LastEnd = uSize - GetIndex(LastEnd)
    BY <2>1, <2>2 DEF Gap
  <2>4. LastEnd \in Nat /\ m_uHead <= LastEnd
    BY <1>1 DEF EndsFacts
  <2>5. GetIndex(LastEnd + (uSize - GetIndex(LastEnd))) = 0 /\ GetIndex(LastEnd) \in Nat
    BY <2>4, Places
  <2>6. LastEnd + (uSize - GetIndex(LastEnd)) = m_uTail
    BY <1>2, <2>3, <2>4, <2>5
  <2>7. GetIndex(m_uTail) = 0
    BY <2>5, <2>6
  <2>8. m_uTail = hr
    BY <1>2, <1>3, <1>5, <1>6, <2>7
  <2> QED BY <1>2, <2>3, <2>4, <2>8
<1> QED BY <1>4, <1>7, <1>8, <1>9, <1>10

\* What NewEntry() hands out is one piece of the ring, and free.
LEMMA FitIsFree ==
  ASSUME IInv, EntriesHavePayload, NEW n \in Lengths, NEW hr \in Nat,
         m_uHeadRef <= hr, hr <= m_uHead, Fits(n, hr)
  PROVE  /\ TailFor(n, hr) \in Nat
         /\ GetIndex(TailFor(n, hr)) + n <= uSize
         /\ TailFor(n, hr) + n <= hr + uSize
         /\ Wraps(n, hr) => GetIndex(TailFor(n, hr)) # GetIndex(m_uTail)
<1>1. CursorFacts
  BY CursorsAreKnown
<1>2. m_uTail \in Nat /\ m_uHead \in Nat /\ hr <= m_uTail /\ uSize \in Nat
  BY <1>1, Places DEF CursorFacts
<1>3. /\ GetIndex(m_uTail) \in Nat /\ GetIndex(m_uTail) < uSize
      /\ GetIndex(hr) \in Nat /\ GetIndex(hr) < uSize
  BY <1>2, Places
<1>4. n \in Nat /\ n >= 2
  BY VariableAssumption DEF EntriesHavePayload
<1>5. m_uTail < hr + uSize
  BY <1>2 DEF Fits, Full
<1>6. CASE Wraps(n, hr)
  <2>1. TailFor(n, hr) = m_uTail + ToEnd
    BY <1>6 DEF TailFor
  <2>2. /\ m_uTail + ToEnd = (hr - GetIndex(hr)) + uSize
        /\ GetIndex(m_uTail + ToEnd) = 0
        /\ ToEnd \in Nat
    BY <1>6, WrapIsSafe
  <2>3. GetIndex(m_uTail) >= GetIndex(hr) /\ n <= GetIndex(hr)
    BY <1>3, <1>4, <1>6 DEF Wraps, Fits, TailAhead, FitsBeforeHead
  <2>4. m_uTail + ToEnd \in Nat
    BY <1>2, <2>2
  <2>5. (m_uTail + ToEnd) + n <= hr + uSize
    BY <1>2, <1>3, <1>4, <2>2, <2>3
  <2>6. 0 + n <= uSize
    BY <1>2, <1>3, <1>4, <2>3
  <2>7. GetIndex(m_uTail) # 0
    BY <1>3, <1>4, <2>3
  <2> QED BY <2>1, <2>2, <2>4, <2>5, <2>6, <2>7
<1>7. CASE ~Wraps(n, hr)
  <2>1. TailFor(n, hr) = m_uTail
    BY <1>7 DEF TailFor
  <2>2. CASE TailAhead(hr)
    <3>1. GetIndex(m_uTail) + n <= uSize /\ GetIndex(m_uTail) >= GetIndex(hr)
      BY <1>7, <2>2 DEF Wraps, Fits, FitsBeforeEnd, TailAhead
    <3>2. m_uTail - hr = GetIndex(m_uTail) - GetIndex(hr)
      BY <1>2, <1>5, <3>1, Distance
    <3>3. m_uTail + n <= hr + uSize
      BY <1>2, <1>3, <1>4, <3>1, <3>2
    <3> QED BY <1>2, <1>7, <2>1, <3>1, <3>3
  <2>3. CASE ~TailAhead(hr)
    <3>1. GetIndex(m_uTail) + n <= GetIndex(hr) /\ GetIndex(m_uTail) < GetIndex(hr)
      BY <1>3, <2>3 DEF Fits, FitsBeforeHead, TailAhead
    <3>2. m_uTail - hr = GetIndex(m_uTail) - GetIndex(hr) + uSize
      BY <1>2, <1>5, <3>1, Distance
    <3>3. m_uTail + n <= hr + uSize
      BY <1>2, <1>3, <1>4, <3>1, <3>2
    <3>4. GetIndex(m_uTail) + n <= uSize
      BY <1>2, <1>3, <1>4, <3>1
    <3> QED BY <1>2, <1>7, <2>1, <3>3, <3>4
  <2> QED BY <2>2, <2>3
<1> QED BY <1>6, <1>7

\* What NewEntry() does to the ring.
LEMMA NewEntryOnRing ==
  ASSUME IInv, EntriesHavePayload, NEW n \in Lengths, NEW hr \in Nat,
         m_uHeadRef <= hr, hr <= m_uHead,
         NEW failure \in {"retry", "refused"}, NewEntry(n, hr, failure)
  PROVE  /\ m_pData' \in [Index -> Entry]
         /\ Kept
         /\ TailSteps
         /\ m_uTail' <= hr + uSize
         /\ producer' \in {"allocated", failure}
         /\ producer' = "allocated" =>
              /\ m_pData'[GetIndex(m_uTail')] = Blank(n)
              /\ GetIndex(m_uTail') + n <= uSize
              /\ m_uTail' + n <= hr + uSize
<1> DEFINE hole == IF Wraps(n, hr)
                   THEN [m_pData EXCEPT ![GetIndex(m_uTail)] = Hole(ToEnd)]
                   ELSE m_pData
<1>1. CursorFacts /\ EndsFacts
  BY CursorsAreKnown, EndsAreKnown
<1>2. m_uTail \in Nat /\ m_uHead \in Nat /\ hr <= m_uTail /\ uSize \in Nat
  BY <1>1, Places DEF CursorFacts
<1>3. GetIndex(m_uTail) \in Index
  BY <1>2, Places
<1>4. n \in Nat /\ n >= 2
  BY VariableAssumption DEF EntriesHavePayload
<1>5. m_uTail' = TailFor(n, hr)
  BY DEF NewEntry, TailFor
<1>6. /\ Wraps(n, hr) => /\ LastEnd = m_uTail /\ m_uTail < hr + uSize
                         /\ m_uTail + ToEnd = (hr - GetIndex(hr)) + uSize
                         /\ ToEnd \in Nat
  BY WrapIsSafe
<1>7. Fits(n, hr) => /\ m_uTail' \in Nat
                     /\ GetIndex(m_uTail') + n <= uSize
                     /\ m_uTail' + n <= hr + uSize
                     /\ Wraps(n, hr) => GetIndex(m_uTail') # GetIndex(m_uTail)
  BY <1>5, FitIsFree
<1>8. \/ /\ Fits(n, hr)
         /\ m_pData' = [hole EXCEPT ![GetIndex(m_uTail')] = Blank(n)]
         /\ producer' = "allocated"
      \/ /\ ~Fits(n, hr)
         /\ m_pData' = hole
         /\ producer' = failure
  BY DEF NewEntry
<1>9. m_pData \in [Index -> Entry]
  BY DEF IInv, TypeOK
<1>10. hole \in [Index -> Entry] /\ \A i \in Index : i # GetIndex(m_uTail) => hole[i] = m_pData[i]
  <2>1. CASE Wraps(n, hr)
    <3>1. Hole(ToEnd) \in Entry
      BY <1>6, <2>1 DEF Hole, Entry
    <3> QED BY <1>9, <2>1, <3>1
  <2>2. CASE ~Wraps(n, hr)
    BY <1>9, <2>2
  <2> QED BY <2>1, <2>2
<1>11. Wraps(n, hr) => hole[GetIndex(m_uTail)] = Hole(ToEnd)
  BY <1>3, <1>9
<1>12. ~Wraps(n, hr) => hole = m_pData
  OBVIOUS
<1> HIDE DEF hole
<1>13. m_uTail <= m_uTail'
  BY <1>2, <1>5, <1>6 DEF TailFor
<1>14. Blank(n) \in Entry
  BY <1>4 DEF Blank, Entry
<1>15. hr <= m_uHead /\ m_uHeadRef \in Nat /\ m_uTail <= m_uHeadRef + uSize
  BY <1>1 DEF CursorFacts
<1>16. GetIndex(hr) \in Nat
  BY Places
<1>17. m_uTail' <= hr + uSize
  BY <1>2, <1>5, <1>6, <1>15, <1>16 DEF TailFor
<1>18. CASE Fits(n, hr)
  <2>1. m_pData' = [hole EXCEPT ![GetIndex(m_uTail')] = Blank(n)] /\ producer' = "allocated"
    BY <1>8, <1>18
  <2>2. GetIndex(m_uTail') \in Index
    BY <1>7, <1>18, Places
  <2>3. /\ m_pData' \in [Index -> Entry]
        /\ m_pData'[GetIndex(m_uTail')] = Blank(n)
        /\ \A i \in Index : i # GetIndex(m_uTail') => m_pData'[i] = hole[i]
    BY <1>10, <1>14, <2>1, <2>2
  <2>4. \A i \in Index :
          i # GetIndex(m_uTail) /\ i # GetIndex(m_uTail') => m_pData'[i] = m_pData[i]
    BY <1>10, <2>3
  <2>5. m_uTail' < m_uHead + uSize /\ m_uTail < m_uHead + uSize /\ m_uTail' \in Nat
    BY <1>2, <1>4, <1>7, <1>13, <1>18
  <2>6. Kept
    BY <1>1, <1>2, <1>13, <2>4, <2>5, WritesAreFree
  <2>7. TailSteps
    <3>1. CASE Wraps(n, hr)
      <4>1. m_pData'[GetIndex(m_uTail)] = Hole(ToEnd)
        BY <1>3, <1>7, <1>11, <1>18, <2>3, <3>1
      <4> QED BY <1>5, <1>6, <3>1, <4>1 DEF TailFor, TailSteps
    <3>2. CASE ~Wraps(n, hr)
      BY <1>5, <3>2 DEF TailFor, TailSteps
    <3> QED BY <3>1, <3>2
  <2> QED BY <1>7, <1>17, <1>18, <2>1, <2>3, <2>6, <2>7
<1>19. CASE ~Fits(n, hr)
  <2>1. m_pData' = hole /\ producer' = failure
    BY <1>8, <1>19
  <2>2. Kept /\ TailSteps
    <3>1. CASE Wraps(n, hr)
      <4>1. m_uTail < m_uHead + uSize /\ m_uTail <= m_uTail
        BY <1>2, <1>6, <3>1
      <4>2. \A i \in Index :
              i # GetIndex(m_uTail) /\ i # GetIndex(m_uTail) => m_pData'[i] = m_pData[i]
        BY <1>10, <2>1
      <4>3. Kept
        BY <1>1, <1>2, <4>1, <4>2, WritesAreFree
      <4> QED BY <1>5, <1>6, <1>11, <2>1, <3>1, <4>3 DEF TailFor, TailSteps
    <3>2. CASE ~Wraps(n, hr)
      BY <1>5, <1>12, <2>1, <3>2 DEF TailFor, TailSteps, Kept
    <3> QED BY <3>1, <3>2
  <2>3. producer' # "allocated"
    BY <2>1
  <2> QED BY <1>10, <1>17, <2>1, <2>2, <2>3
<1> QED BY <1>18, <1>19

\* Both attempts of New(): with the cached head, and with the head read again.
LEMMA NewEntryStep ==
  ASSUME IInv, EntriesHavePayload, NEW n \in Lengths, NEW hr \in Nat,
         m_uHeadRef <= hr, hr <= m_uHead,
         NEW failure \in {"retry", "refused"}, NewEntry(n, hr, failure),
         producer \in {"idle", "retry", "refused"},
         uNewSize' = n, m_uHeadRef' = hr,
         UNCHANGED <<uPosted, posted, places, consumerVars>>
  PROVE  IInv'
<1>1. CursorFacts
  BY CursorsAreKnown
<1>2. /\ m_uHead' = m_uHead /\ m_uTailRef' = m_uTailRef /\ consumer' = consumer
      /\ copied' = copied /\ uDeleted' = uDeleted /\ delivered' = delivered
      /\ uPosted' = uPosted /\ posted' = posted /\ places' = places
  BY DEF consumerVars
<1>3. /\ m_pData' \in [Index -> Entry] /\ Kept /\ TailSteps
      /\ m_uTail' <= hr + uSize
      /\ producer' \in {"allocated", failure}
      /\ producer' = "allocated" =>
           /\ m_pData'[GetIndex(m_uTail')] = Blank(n)
           /\ GetIndex(m_uTail') + n <= uSize
           /\ m_uTail' + n <= hr + uSize
  BY NewEntryOnRing
<1>4. m_uTail' \in Nat /\ m_uTail <= m_uTail'
  BY <1>3, TailStepFacts
<1>5. Layout'
  BY <1>2, <1>3, LayoutStays
<1>6. producer' \in {"allocated", "retry", "refused"}
  BY <1>3
<1>7. TypeOK'
  BY <1>2, <1>3, <1>4, <1>6 DEF IInv, TypeOK
<1>8. CursorOrder'
  BY <1>1, <1>2, <1>3, <1>4 DEF CursorFacts, CursorOrder
<1>9. ProducerOwns'
  <2>1. SUFFICES ASSUME producer' = "allocated"
                 PROVE  /\ uNewSize' \in Lengths
                        /\ GetIndex(m_uTail') + uNewSize' <= uSize
                        /\ m_uTail' + uNewSize' <= m_uHeadRef' + uSize
                        /\ m_pData'[GetIndex(m_uTail')].length = uNewSize'
                        /\ ~m_pData'[GetIndex(m_uTail')].placehold
    BY <1>6 DEF ProducerOwns, ProducerHolds
  <2>2. Blank(n).length = n /\ ~Blank(n).placehold
    BY DEF Blank
  <2> QED BY <1>3, <2>1, <2>2
<1>10. First' = First /\ Live' = Live
  BY <1>2 DEF First, Last, Live
<1>11. ConsumerOwns'
  BY <1>2, <1>10 DEF IInv, ConsumerOwns, ConsumerHolds
<1>12. Histories'
  <2>1. DeliveredInOrder'
    BY <1>2 DEF IInv, Histories, DeliveredInOrder
  <2>2. HistoryCounts'
    BY <1>2, <1>6 DEF IInv, Histories, HistoryCounts
  <2> QED BY <2>1, <2>2 DEF Histories
<1> QED BY <1>5, <1>7, <1>8, <1>9, <1>11, <1>12 DEF IInv

LEMMA NewStep ==
  ASSUME IInv, EntriesHavePayload, NEW n \in Lengths, New(n)
  PROVE  IInv'
<1>1. m_uHeadRef \in Nat /\ m_uHeadRef <= m_uHead /\ m_uHeadRef <= m_uHeadRef
  BY CursorsAreKnown DEF CursorFacts
<1>2. /\ NewEntry(n, m_uHeadRef, "retry")
      /\ producer \in {"idle", "retry", "refused"}
      /\ uNewSize' = n /\ m_uHeadRef' = m_uHeadRef
      /\ UNCHANGED <<uPosted, posted, places, consumerVars>>
  BY DEF New
<1> QED BY <1>1, <1>2, NewEntryStep

LEMMA NewAfterRefreshStep ==
  ASSUME IInv, EntriesHavePayload, NewAfterRefresh
  PROVE  IInv'
<1>1. m_uHead \in Nat /\ m_uHeadRef <= m_uHead /\ m_uHead <= m_uHead
  BY CursorsAreKnown DEF CursorFacts
<1>2. /\ NewEntry(uNewSize, m_uHead, "refused")
      /\ producer \in {"idle", "retry", "refused"}
      /\ uNewSize' = uNewSize /\ m_uHeadRef' = m_uHead
      /\ UNCHANGED <<uPosted, posted, places, consumerVars>>
  BY DEF NewAfterRefresh
<1>3. uNewSize \in Lengths
  BY DEF NewAfterRefresh, IInv, Histories, HistoryCounts
<1> QED BY <1>1, <1>2, <1>3, NewEntryStep

-----------------------------------------------------------------------------
(* The other steps of the producer. *)

\* A step that touches neither the cursors nor the ring nor the histories.
LEMMA LayoutUnchanged ==
  ASSUME IInv, EntriesHavePayload,
         UNCHANGED <<m_uHead, m_uTailRef, m_uTail, m_pData, posted, places, delivered>>
  PROVE  Layout'
<1>1. Kept /\ TailSteps
  BY DEF Kept, TailSteps
<1> QED BY <1>1, LayoutStays

LEMMA GiveUpStep ==
  ASSUME IInv, EntriesHavePayload, GiveUp
  PROVE  IInv'
<1>1. /\ producer' = "idle" /\ producer = "refused"
      /\ m_uTail' = m_uTail /\ m_uHeadRef' = m_uHeadRef /\ uNewSize' = uNewSize
      /\ uPosted' = uPosted /\ posted' = posted /\ places' = places
      /\ m_uHead' = m_uHead /\ m_uTailRef' = m_uTailRef /\ consumer' = consumer
      /\ copied' = copied /\ uDeleted' = uDeleted /\ delivered' = delivered
      /\ m_pData' = m_pData
  BY DEF GiveUp, consumerVars
<1>2. Layout'
  BY <1>1, LayoutUnchanged
<1>3. TypeOK' /\ CursorOrder'
  BY <1>1 DEF IInv, TypeOK, CursorOrder
<1>4. ProducerOwns'
  BY <1>1 DEF ProducerOwns, ProducerHolds
<1>5. ConsumerOwns'
  BY <1>1 DEF IInv, ConsumerOwns, ConsumerHolds, First, Last, Live
<1>6. Histories'
  BY <1>1 DEF IInv, Histories, DeliveredInOrder, HistoryCounts
<1> QED BY <1>2, <1>3, <1>4, <1>5, <1>6 DEF IInv

LEMMA CountPostStep ==
  ASSUME IInv, EntriesHavePayload, CountPost
  PROVE  IInv'
<1>1. /\ producer' = "idle" /\ producer = "posted"
      /\ m_uTail' = m_uTail /\ m_uHeadRef' = m_uHeadRef /\ uNewSize' = uNewSize
      /\ uPosted' = uPosted + 1 /\ posted' = posted /\ places' = places
      /\ m_uHead' = m_uHead /\ m_uTailRef' = m_uTailRef /\ consumer' = consumer
      /\ copied' = copied /\ uDeleted' = uDeleted /\ delivered' = delivered
      /\ m_pData' = m_pData
  BY DEF CountPost, consumerVars
<1>2. Layout'
  BY <1>1, LayoutUnchanged
<1>3. TypeOK' /\ CursorOrder'
  BY <1>1 DEF IInv, TypeOK, CursorOrder
<1>4. ProducerOwns'
  BY <1>1 DEF ProducerOwns, ProducerHolds
<1>5. ConsumerOwns'
  BY <1>1 DEF IInv, ConsumerOwns, ConsumerHolds, First, Last, Live
<1>6. CountFacts
  BY CountsAreKnown
<1>7. HistoryCounts'
  BY <1>1, <1>6 DEF IInv, Histories, HistoryCounts, CountFacts
<1>8. DeliveredInOrder'
  BY <1>1 DEF IInv, Histories, DeliveredInOrder
<1> QED BY <1>2, <1>3, <1>4, <1>5, <1>7, <1>8 DEF IInv, Histories

LEMMA ConstructStep ==
  ASSUME IInv, EntriesHavePayload, NEW e \in Payload, Construct(e)
  PROVE  IInv'
<1>1. /\ producer' = "constructed" /\ producer = "allocated"
      /\ m_uTail' = m_uTail /\ m_uHeadRef' = m_uHeadRef /\ uNewSize' = uNewSize
      /\ uPosted' = uPosted /\ posted' = posted /\ places' = places
      /\ m_uHead' = m_uHead /\ m_uTailRef' = m_uTailRef /\ consumer' = consumer
      /\ copied' = copied /\ uDeleted' = uDeleted /\ delivered' = delivered
      /\ m_pData' = [m_pData EXCEPT ![GetIndex(m_uTail)].item = e]
  BY DEF Construct, consumerVars
<1>2. CursorFacts
  BY CursorsAreKnown
<1>3. m_uTail \in Nat /\ m_uHead \in Nat /\ uSize \in Nat
      /\ m_uHeadRef \in Nat /\ m_uHeadRef <= m_uHead
  BY <1>2, Places DEF CursorFacts
<1>4. /\ uNewSize \in Lengths
      /\ GetIndex(m_uTail) + uNewSize <= uSize
      /\ m_uTail + uNewSize <= m_uHeadRef + uSize
      /\ m_pData[GetIndex(m_uTail)].length = uNewSize
      /\ ~m_pData[GetIndex(m_uTail)].placehold
  BY <1>1 DEF IInv, ProducerOwns, ProducerHolds
<1>5. uNewSize \in Nat /\ uNewSize >= 2
  BY <1>4, VariableAssumption DEF EntriesHavePayload
<1>6. GetIndex(m_uTail) \in Index
  BY <1>3, Places
<1>7. m_pData \in [Index -> Entry]
  BY DEF IInv, TypeOK
<1>8. m_pData[GetIndex(m_uTail)] \in Entry
  BY <1>6, <1>7
<1>9. [m_pData[GetIndex(m_uTail)] EXCEPT !.item = e] \in Entry
  BY <1>8 DEF Entry
<1>10. /\ m_pData' \in [Index -> Entry]
       /\ m_pData'[GetIndex(m_uTail)] = [m_pData[GetIndex(m_uTail)] EXCEPT !.item = e]
       /\ \A i \in Index : i # GetIndex(m_uTail) => m_pData'[i] = m_pData[i]
  BY <1>1, <1>6, <1>7, <1>9
<1>11. /\ m_pData'[GetIndex(m_uTail)].length = uNewSize
       /\ ~m_pData'[GetIndex(m_uTail)].placehold
       /\ m_pData'[GetIndex(m_uTail)].item = e
  BY <1>4, <1>8, <1>10 DEF Entry
<1>12. m_uTail <= m_uTail /\ m_uTail < m_uHead + uSize
  BY <1>3, <1>4, <1>5
<1>13. \A i \in Index :
         i # GetIndex(m_uTail) /\ i # GetIndex(m_uTail) => m_pData'[i] = m_pData[i]
  BY <1>10
<1>14. Kept
  BY <1>2, <1>3, <1>12, <1>13, WritesAreFree
<1>15. TailSteps
  BY <1>1 DEF TailSteps
<1>16. Layout'
  BY <1>1, <1>14, <1>15, LayoutStays
<1>17. TypeOK' /\ CursorOrder'
  BY <1>1, <1>10 DEF IInv, TypeOK, CursorOrder
<1>18. ProducerOwns'
  BY <1>1, <1>4, <1>11 DEF ProducerOwns
<1>19. ConsumerOwns'
  BY <1>1 DEF IInv, ConsumerOwns, ConsumerHolds, First, Last, Live
<1>20. Histories'
  BY <1>1 DEF IInv, Histories, DeliveredInOrder, HistoryCounts
<1> QED BY <1>16, <1>17, <1>18, <1>19, <1>20 DEF IInv

-----------------------------------------------------------------------------
(* Post(). *)

\* The entry that is posted, and the histories after it.
LEMMA PostFacts ==
  ASSUME IInv, EntriesHavePayload, Post
  PROVE  LET e == m_pData[GetIndex(m_uTail)] IN
         /\ e \in Message /\ e.length \in Nat /\ e.length >= 2
         /\ GetIndex(m_uTail) + e.length <= uSize
         /\ m_uTail + e.length <= m_uHeadRef + uSize
         /\ m_uTail' = m_uTail + e.length
         /\ posted' \in Seq(Message) /\ places' \in Seq(Nat)
         /\ First' = First /\ Last' = Last + 1
         /\ Live' = Live \cup {Last + 1}
         /\ posted'[Last + 1] = e /\ places'[Last + 1] = m_uTail
         /\ \A k \in 1 .. Last : posted'[k] = posted[k] /\ places'[k] = places[k]
         /\ Len(places') = Len(posted')
<1> DEFINE e == m_pData[GetIndex(m_uTail)]
<1>1. CountFacts
  BY CountsAreKnown
<1>2. /\ producer = "constructed"
      /\ m_uTail' = m_uTail + e.length
      /\ posted' = Append(posted, e) /\ places' = Append(places, m_uTail)
      /\ delivered' = delivered
  BY DEF Post, consumerVars
<1>3. /\ uNewSize \in Lengths
      /\ GetIndex(m_uTail) + uNewSize <= uSize
      /\ m_uTail + uNewSize <= m_uHeadRef + uSize
      /\ e.length = uNewSize /\ ~e.placehold /\ e.item \in Payload
  BY <1>2 DEF IInv, ProducerOwns, ProducerHolds
<1>4. m_uTail \in Nat /\ m_pData \in [Index -> Entry]
  BY DEF IInv, TypeOK
<1>5. e \in Entry
  BY <1>4, Places
<1>6. e.placehold = FALSE
  BY <1>3, <1>5 DEF Entry
<1>7. e \in Message
  BY <1>3, <1>5, <1>6 DEF Entry, Message
<1>8. e.length \in Nat /\ e.length >= 2
  BY <1>3, VariableAssumption DEF EntriesHavePayload
<1> HIDE DEF e
<1>9. posted \in Seq(Message) /\ places \in Seq(Nat)
  BY DEF IInv, TypeOK
<1>10. /\ posted' \in Seq(Message) /\ Len(posted') = Len(posted) + 1
       /\ posted'[Len(posted) + 1] = e
       /\ \A k \in 1 .. Len(posted) : posted'[k] = posted[k]
  BY <1>2, <1>7, <1>9, AppendProperties
<1>11. /\ places' \in Seq(Nat) /\ Len(places') = Len(places) + 1
       /\ places'[Len(places) + 1] = m_uTail
       /\ \A k \in 1 .. Len(places) : places'[k] = places[k]
  BY <1>2, <1>4, <1>9, AppendProperties
<1>12. First' = First /\ Last' = Last + 1
  BY <1>2, <1>10 DEF First, Last
<1>13. First \in Nat /\ Last \in Nat /\ First <= Last + 1
  BY <1>1 DEF CountFacts, First, Last
<1>14. Live' = Live \cup {Last + 1}
  BY <1>12, <1>13 DEF Live
<1>15. Len(places) = Last /\ Len(posted) = Last
  BY <1>1 DEF CountFacts, Last
<1>16. /\ posted'[Last + 1] = e /\ places'[Last + 1] = m_uTail
       /\ \A k \in 1 .. Last : posted'[k] = posted[k] /\ places'[k] = places[k]
       /\ Len(places') = Len(posted')
  BY <1>10, <1>11, <1>15
<1>17. m_uTail + e.length <= m_uHeadRef + uSize /\ GetIndex(m_uTail) + e.length <= uSize
  BY <1>3
<1> QED BY <1>2, <1>7, <1>8, <1>10, <1>11, <1>12, <1>14, <1>16, <1>17 DEF e

\* The new entry joins the live ones.
LEMMA PostLayout ==
  ASSUME IInv, EntriesHavePayload, Post
  PROVE  Layout'
<1> DEFINE e == m_pData[GetIndex(m_uTail)]
           N == Last + 1
<1>1. /\ e \in Message /\ e.length \in Nat /\ e.length >= 2
      /\ GetIndex(m_uTail) + e.length <= uSize
      /\ m_uTail' = m_uTail + e.length
      /\ First' = First /\ Last' = N
      /\ Live' = Live \cup {N}
      /\ posted'[N] = e /\ places'[N] = m_uTail
      /\ \A k \in 1 .. Last : posted'[k] = posted[k] /\ places'[k] = places[k]
  BY PostFacts
<1>2. m_uHead' = m_uHead /\ m_uTailRef' = m_uTailRef /\ m_pData' = m_pData
  BY DEF Post, consumerVars
<1>3. m_pData[GetIndex(m_uTail)] = e
  OBVIOUS
<1>4. /\ CursorFacts /\ CountFacts /\ EndsFacts
      /\ \A k \in Live : LiveFact(k)
  BY CursorsAreKnown, CountsAreKnown, EndsAreKnown, LiveIsKnown
<1>5. /\ m_uHead \in Nat /\ m_uTail \in Nat /\ m_uTailRef \in Nat
      /\ m_uHead <= m_uTailRef /\ m_uTailRef <= m_uTail
  BY <1>4 DEF CursorFacts
<1>6. Last \in Nat /\ N \in Nat /\ First \in Nat /\ N = Last + 1
  BY <1>4 DEF CountFacts
<1> HIDE DEF e, N
<1>7. \A k \in Live : k \in Nat /\ k <= Last /\ k # N /\ k >= First
  BY <1>4, <1>6 DEF LiveFact
<1>8. \A k \in Live : posted'[k] = posted[k] /\ places'[k] = places[k]
  BY <1>1, <1>4, <1>6 DEF LiveFact
<1>9. \A k \in Live : (End(k))' = End(k)
  BY <1>8 DEF End
<1>10. \A k : k = N => (End(k))' = m_uTail'
  BY <1>1 DEF End
<1>11. m_uTail' \in Nat /\ m_uTail + 2 <= m_uTail'
  BY <1>1, <1>5
<1>12. Live # {} => Last \in Live
  BY <1>4 DEF EndsFacts
<1>13. LiveAreWhole'
  <2>1. SUFFICES ASSUME NEW k \in Live \cup {N}
                 PROVE  /\ m_uHead <= places'[k] /\ (End(k))' <= m_uTail'
                        /\ GetIndex(places'[k]) + posted'[k].length <= uSize
                        /\ m_pData[GetIndex(places'[k])] = posted'[k]
    BY <1>1, <1>2 DEF LiveAreWhole, End
  <2>2. CASE k \in Live
    <3>1. /\ m_uHead <= places[k] /\ End(k) <= m_uTail
          /\ GetIndex(places[k]) + posted[k].length <= uSize
          /\ m_pData[GetIndex(places[k])] = posted[k]
      BY <2>2 DEF IInv, Layout, LiveAreWhole
    <3>2. End(k) \in Nat
      BY <1>4, <2>2 DEF LiveFact
    <3>3. End(k) <= m_uTail'
      BY <1>5, <1>11, <3>1, <3>2
    <3> QED BY <1>8, <1>9, <2>2, <3>1, <3>3
  <2>3. CASE k = N
    <3>1. m_uHead <= m_uTail /\ m_uTail' <= m_uTail'
      BY <1>5, <1>11
    <3>2. places'[k] = m_uTail /\ posted'[k] = e /\ (End(k))' = m_uTail'
      BY <1>1, <1>10, <2>3
    <3> QED BY <1>1, <1>3, <3>1, <3>2
  <2> QED BY <2>1, <2>2, <2>3
<1>14. LiveAreApart'
  <2>1. SUFFICES ASSUME NEW j \in Live \cup {N}, NEW k \in Live \cup {N}, j < k
                 PROVE  /\ (End(j))' <= places'[k]
                        /\ places'[j] + 2 * (k - j) <= places'[k]
    BY <1>1 DEF LiveAreApart, End
  <2>2. j \in Live
    BY <1>6, <1>7, <2>1
  <2>3. CASE k \in Live
    <3>1. End(j) <= places[k] /\ places[j] + 2 * (k - j) <= places[k]
      BY <2>1, <2>2, <2>3 DEF IInv, Layout, LiveAreApart
    <3> QED BY <1>8, <1>9, <2>2, <2>3, <3>1
  <2>4. CASE k = N
    <3>1. LiveFact(j) /\ Last \in Live
      BY <1>4, <1>12, <2>2
    <3>2. End(j) <= m_uTail /\ j \in Nat /\ j <= Last /\ places[j] \in Nat
      BY <3>1 DEF LiveFact
    <3>3. places[Last] + 2 <= m_uTail /\ places[Last] \in Nat
      <4>1. LiveFact(Last)
        BY <1>4, <3>1
      <4> QED BY <1>5, <4>1 DEF LiveFact
    <3>4. places[j] + 2 * (Last - j) <= places[Last]
      <4>1. CASE j = Last
        BY <1>6, <3>3, <4>1
      <4>2. CASE j < Last
        BY <2>2, <3>1, <4>2 DEF IInv, Layout, LiveAreApart
      <4> QED BY <1>6, <3>2, <4>1, <4>2
    <3>5. places[j] + 2 * (N - j) <= m_uTail
      BY <1>5, <1>6, <3>2, <3>3, <3>4
    <3> QED BY <1>1, <1>8, <1>9, <2>2, <2>4, <3>2, <3>5
  <2> QED BY <2>1, <2>3, <2>4
<1>15. NextPlace' = NextPlace
  <2>1. NextPlace' = places'[First]
    BY <1>1 DEF NextPlace
  <2>2. CASE Live = {}
    BY <1>1, <1>4, <2>1, <2>2 DEF NextPlace, EndsFacts, N
  <2>3. CASE Live # {}
    <3>1. First \in Live
      BY <1>4, <2>3 DEF EndsFacts
    <3> QED BY <1>8, <2>1, <2>3, <3>1 DEF NextPlace
  <2> QED BY <2>2, <2>3
<1>16. LastEnd' = m_uTail'
  BY <1>1, <1>10 DEF LastEnd, End
<1>17. \A k \in Live' : k + 1 \in Live' => k \in Live
  BY <1>1, <1>6, <1>7
<1>18. ASSUME NEW k \in Live, k + 1 \notin Live, k + 1 \in Live'
       PROVE  k = Last /\ k + 1 = N /\ LastEnd = End(k)
  <2>1. k + 1 = N
    BY <1>1, <1>18
  <2>2. k = Last
    BY <1>6, <1>7, <2>1
  <2> QED BY <2>1, <2>2 DEF LastEnd
<1>19. LiveAreLinked'
  <2>1. ASSUME NEW k \in Live, k + 1 \in Live'
        PROVE  Gap(End(k), places'[k + 1])
    <3>1. CASE k + 1 \in Live
      BY <1>8, <3>1 DEF IInv, Layout, LiveAreLinked
    <3>2. CASE k + 1 \notin Live
      <4>1. Gap(LastEnd, m_uTail)
        BY DEF IInv, Layout, LiveAreLinked
      <4>2. k + 1 = N /\ LastEnd = End(k)
        BY <1>18, <2>1, <3>2
      <4> QED BY <1>1, <4>1, <4>2
    <3> QED BY <3>1, <3>2
  <2>2. \A k \in Live : k + 1 \in Live' => Gap(End(k), places[k + 1])'
    BY <1>2, <1>9, <2>1 DEF Gap
  <2>3. Gap(m_uHead, NextPlace)'
    <3>1. Gap(m_uHead, NextPlace)
      BY DEF IInv, Layout, LiveAreLinked
    <3> QED BY <1>2, <1>15, <3>1 DEF Gap
  <2>4. Gap(LastEnd, m_uTail)'
    BY <1>16 DEF Gap
  <2> QED BY <1>17, <2>2, <2>3, <2>4 DEF LiveAreLinked
<1>20. Published(m_uTailRef)'
  <2>1. Published(m_uTailRef)
    BY DEF IInv, Layout
  <2>2. m_uHead <= m_uTailRef /\ m_uTailRef <= m_uTail'
    BY <1>5, <1>11
  <2>3. ASSUME NEW k \in Live'
        PROVE  m_uTailRef <= places'[k] \/ (End(k))' <= m_uTailRef
    <3>1. CASE k \in Live
      BY <1>8, <1>9, <2>1, <3>1 DEF Published
    <3>2. CASE k = N
      <4>1. places'[k] = m_uTail
        BY <1>1, <3>2
      <4> QED BY <1>5, <4>1
    <3> QED BY <1>1, <2>3, <3>1, <3>2
  <2>4. ASSUME NEW k \in Live, k + 1 \in Live'
        PROVE  m_uTailRef <= (End(k))' \/ places'[k + 1] <= m_uTailRef
    <3>1. CASE k + 1 \in Live
      BY <1>8, <1>9, <2>1, <3>1 DEF Published
    <3>2. CASE k + 1 \notin Live
      <4>1. m_uTailRef <= LastEnd \/ m_uTail <= m_uTailRef
        BY <2>1 DEF Published
      <4>2. k + 1 = N /\ LastEnd = End(k)
        BY <1>18, <2>4, <3>2
      <4> QED BY <1>1, <1>9, <4>1, <4>2
    <3> QED BY <3>1, <3>2
  <2>5. m_uTailRef <= m_uHead \/ NextPlace <= m_uTailRef
    BY <2>1 DEF Published
  <2>6. \A k \in Live' : k + 1 \in Live' =>
          m_uTailRef <= (End(k))' \/ places'[k + 1] <= m_uTailRef
    BY <1>17, <2>4
  <2> QED BY <1>2, <1>15, <1>16, <2>2, <2>3, <2>5, <2>6 DEF Published
<1> QED BY <1>13, <1>14, <1>19, <1>20 DEF Layout

LEMMA PostStep ==
  ASSUME IInv, EntriesHavePayload, Post
  PROVE  IInv'
<1> DEFINE e == m_pData[GetIndex(m_uTail)]
<1>1. /\ e.length \in Nat
      /\ m_uTail + e.length <= m_uHeadRef + uSize
      /\ m_uTail' = m_uTail + e.length
      /\ posted' \in Seq(Message) /\ places' \in Seq(Nat)
      /\ First' = First /\ Last' = Last + 1
      /\ Live' = Live \cup {Last + 1}
      /\ \A k \in 1 .. Last : posted'[k] = posted[k] /\ places'[k] = places[k]
      /\ Len(places') = Len(posted')
  BY PostFacts
<1> HIDE DEF e
<1>2. /\ producer = "constructed" /\ producer' = "posted"
      /\ m_uHeadRef' = m_uHeadRef /\ uNewSize' = uNewSize /\ uPosted' = uPosted
      /\ m_uHead' = m_uHead /\ m_uTailRef' = m_uTailRef /\ consumer' = consumer
      /\ copied' = copied /\ uDeleted' = uDeleted /\ delivered' = delivered
      /\ m_pData' = m_pData
  BY DEF Post, consumerVars
<1>3. /\ CursorFacts /\ CountFacts
      /\ \A k \in Live : LiveFact(k)
  BY CursorsAreKnown, CountsAreKnown, LiveIsKnown
<1>4. Layout'
  BY PostLayout
<1>5. m_uTail' \in Nat /\ m_uTail <= m_uTail'
  BY <1>1, <1>3 DEF CursorFacts
<1>6. TypeOK'
  BY <1>1, <1>2, <1>5 DEF IInv, TypeOK
<1>7. CursorOrder'
  BY <1>1, <1>2, <1>3, <1>5 DEF CursorOrder, CursorFacts
<1>8. ProducerOwns'
  BY <1>2 DEF ProducerOwns, ProducerHolds
<1>9. ConsumerOwns'
  <2>1. SUFFICES ASSUME ConsumerHolds
                 PROVE  /\ First \in Live'
                        /\ m_uHead = places'[First]
                        /\ m_uHead < m_uTailRef
                        /\ consumer = "copied" => copied = posted'[First]
    BY <1>1, <1>2 DEF ConsumerOwns, ConsumerHolds
  <2>2. /\ First \in Live /\ m_uHead = places[First] /\ m_uHead < m_uTailRef
        /\ consumer = "copied" => copied = posted[First]
    BY <2>1 DEF IInv, ConsumerOwns
  <2>3. First \in 1 .. Last
    <3>1. LiveFact(First) /\ Last \in Nat
      BY <1>3, <2>2 DEF CountFacts
    <3> QED BY <3>1 DEF LiveFact
  <2>4. posted'[First] = posted[First] /\ places'[First] = places[First]
    BY <1>1, <2>3
  <2> QED BY <1>1, <2>2, <2>4
<1>10. Len(posted') = Len(posted) + 1
  BY <1>1 DEF Last
<1>11. HistoryCounts'
  BY <1>1, <1>2, <1>3, <1>10 DEF IInv, Histories, HistoryCounts, CountFacts
<1>12. DeliveredInOrder'
  <2>1. SUFFICES ASSUME NEW i \in 1 .. Len(delivered)
                 PROVE  delivered[i] = posted'[i]
    BY <1>2, <1>3, <1>10 DEF DeliveredInOrder, CountFacts
  <2>2. i \in 1 .. Last
    BY <1>3 DEF CountFacts, Last
  <2>3. delivered[i] = posted[i]
    BY DEF IInv, Histories, DeliveredInOrder
  <2> QED BY <1>1, <2>2, <2>3
<1> QED BY <1>4, <1>6, <1>7, <1>8, <1>9, <1>11, <1>12 DEF IInv, Histories

-----------------------------------------------------------------------------
(* GetEntry(). *)

\* The tail is a place up to which everything may be read: GetEntry() may take it as
\* the end.
LEMMA TailIsPublished ==
  ASSUME IInv, EntriesHavePayload
  PROVE  Published(m_uTail)
<1>1. /\ CursorFacts /\ EndsFacts
      /\ \A k \in Live : LiveFact(k)
  BY CursorsAreKnown, EndsAreKnown, LiveIsKnown
<1>2. m_uTail \in Nat /\ m_uHead \in Nat /\ m_uHead <= m_uTail
  BY <1>1 DEF CursorFacts
<1>3. NextPlace <= m_uTail /\ m_uTail <= m_uTail
  BY <1>1, <1>2 DEF EndsFacts
<1>4. \A k \in Live : End(k) <= m_uTail
  BY <1>1 DEF LiveFact
<1>5. \A k \in Live : places[k] <= m_uTail
  BY <1>1, <1>2 DEF LiveFact
<1> QED BY <1>2, <1>3, <1>4, <1>5 DEF Published

\* GetEntry() leaves the end of the ring exactly when a placeholder lies there, and
\* lands where the next entry is; it finds that entry exactly when it is published.
LEMMA HeadIsKnown ==
  ASSUME IInv, EntriesHavePayload, NEW tr \in Nat, Published(tr), m_uHead < tr
  PROVE  /\ NextPlace <= tr
         /\ NextPlace < tr => First \in Live /\ NextPlace = places[First]
         /\ SkipsEnd(tr) =>
              /\ m_uHead + (IF HeadToEnd > 1 THEN HeadToEnd ELSE Header.length) = NextPlace
              /\ GetIndex(tr) > 0 <=> NextPlace < tr
         /\ ~SkipsEnd(tr) => NextPlace = m_uHead
<1>1. CursorFacts /\ EndsFacts
  BY CursorsAreKnown, EndsAreKnown
<1>2. /\ m_uHead \in Nat /\ m_uTail \in Nat /\ uSize \in Nat
      /\ m_uTail <= m_uHead + uSize
  BY <1>1, Places DEF CursorFacts
<1>3. tr <= m_uTail /\ NextPlace <= tr
  BY <1>2 DEF Published
<1>4. NextPlace < tr => First \in Live /\ NextPlace = places[First]
  <2>1. SUFFICES ASSUME NextPlace < tr
                 PROVE  First \in Live /\ NextPlace = places[First]
    OBVIOUS
  <2>2. NextPlace # m_uTail
    BY <1>2, <1>3, <2>1
  <2>3. Live # {}
    BY <2>2 DEF NextPlace
  <2> QED BY <1>1, <2>3 DEF EndsFacts, NextPlace
<1>5. /\ GetIndex(m_uHead) \in Nat /\ GetIndex(m_uHead) < uSize
      /\ GetIndex(m_uHead + uSize) = GetIndex(m_uHead)
      /\ GetIndex(m_uHead + (uSize - GetIndex(m_uHead))) = 0
      /\ GetIndex(tr) \in Nat
  BY <1>2, Places
<1>6. HeadToEnd \in Nat /\ HeadToEnd = uSize - GetIndex(m_uHead)
  BY <1>2, <1>5 DEF HeadToEnd
<1>7. NextPlace \in Nat /\ m_uHead <= NextPlace
  BY <1>1 DEF EndsFacts
<1>8. Gap(m_uHead, NextPlace)
  BY DEF IInv, Layout, LiveAreLinked
<1>9. CASE m_uHead = NextPlace
  <2>1. First \in Live /\ m_uHead = places[First]
    BY <1>4, <1>9
  <2>2. LiveFact(First)
    BY <2>1, LiveIsKnown
  <2>3. /\ GetIndex(m_uHead) + posted[First].length <= uSize
        /\ m_pData[GetIndex(m_uHead)] = posted[First]
    BY <2>1 DEF IInv, Layout, LiveAreWhole
  <2>4. HeadToEnd >= 2
    BY <1>2, <1>5, <1>6, <2>2, <2>3 DEF LiveFact
  <2>5. ~Header.placehold
    BY <2>2, <2>3 DEF LiveFact, Message, Header
  <2>6. ~SkipsEnd(tr)
    BY <1>6, <2>4, <2>5 DEF SkipsEnd
  <2> QED BY <1>3, <1>4, <1>9, <2>6
<1>10. CASE m_uHead # NextPlace
  <2>1. /\ m_uHead < NextPlace /\ NextPlace - m_uHead = HeadToEnd
        /\ Header = Hole(HeadToEnd)
    BY <1>6, <1>8, <1>10 DEF Gap, Header
  <2>2. Header.placehold /\ Header.length = HeadToEnd
    BY <2>1 DEF Hole
  <2>3. GetIndex(m_uHead) >= GetIndex(tr)
    <3>1. CASE tr = m_uHead + uSize
      BY <1>5, <3>1
    <3>2. CASE tr # m_uHead + uSize
      <4>1. tr < m_uHead + uSize /\ m_uHead <= tr
        BY <1>2, <1>3, <3>2
      <4>2. GetIndex(tr) >= GetIndex(m_uHead) => tr - m_uHead = GetIndex(tr) - GetIndex(m_uHead)
        BY <1>2, <4>1, Distance
      <4>3. tr - m_uHead >= uSize - GetIndex(m_uHead)
        BY <1>2, <1>3, <1>6, <1>7, <2>1
      <4>4. GetIndex(tr) < uSize
        BY Places
      <4> QED BY <1>2, <1>5, <4>2, <4>3, <4>4
    <3> QED BY <3>1, <3>2
  <2>4. SkipsEnd(tr)
    BY <2>2, <2>3 DEF SkipsEnd
  <2>5. m_uHead + (IF HeadToEnd > 1 THEN HeadToEnd ELSE Header.length) = NextPlace
    BY <1>2, <1>6, <1>7, <2>1, <2>2
  <2>6. GetIndex(NextPlace) = 0
    <3>1. m_uHead + (uSize - GetIndex(m_uHead)) = NextPlace
      BY <1>2, <1>5, <1>6, <1>7, <2>1
    <3> QED BY <1>5, <3>1
  <2>7. NextPlace < tr => GetIndex(tr) > 0
    <3>1. tr < NextPlace + uSize
      BY <1>2, <1>3, <1>7, <2>1
    <3>2. NextPlace < tr => GetIndex(NextPlace) # GetIndex(tr)
      BY <1>7, <3>1, DistinctPlaces
    <3> QED BY <1>5, <2>6, <3>2
  <2>8. ~(NextPlace < tr) => ~(GetIndex(tr) > 0)
    <3>1. ~(NextPlace < tr) => NextPlace = tr
      BY <1>3, <1>7
    <3> QED BY <2>6, <3>1
  <2>9. GetIndex(tr) > 0 <=> NextPlace < tr
    BY <2>7, <2>8
  <2> QED BY <1>3, <1>4, <2>4, <2>5, <2>9
<1> QED BY <1>9, <1>10

\* The head stays, or moves over the placeholder, to a cursor not beyond the tail seen.
HeadSteps(tr) ==
  \/ m_uHead' = m_uHead
  \/ m_uHead' = NextPlace /\ NextPlace <= tr

\* The head passes over a gap only, so that the entries lie as before.
LEMMA HeadStepLayout ==
  ASSUME IInv, EntriesHavePayload, NEW tr \in Nat, Published(tr), HeadSteps(tr),
         m_uTailRef' = tr, UNCHANGED <<m_uTail, m_pData, posted, places, delivered>>
  PROVE  /\ Layout'
         /\ m_uHead' \in Nat /\ m_uHead <= m_uHead' /\ m_uHead' <= tr /\ tr <= m_uTail
<1>1. /\ CursorFacts /\ CountFacts /\ EndsFacts
      /\ \A k \in Live : LiveFact(k)
  BY CursorsAreKnown, CountsAreKnown, EndsAreKnown, LiveIsKnown
<1>2. m_uHead \in Nat /\ m_uTail \in Nat /\ NextPlace \in Nat /\ m_uHead <= NextPlace
  BY <1>1 DEF CursorFacts, EndsFacts
<1>3. m_uHead <= tr /\ tr <= m_uTail
  BY DEF Published
<1>4. /\ m_uTail' = m_uTail /\ m_pData' = m_pData /\ posted' = posted
      /\ places' = places /\ delivered' = delivered
  OBVIOUS
<1>5. First' = First /\ Last' = Last /\ Live' = Live
  BY <1>4 DEF First, Last, Live
<1>6. m_uHead' \in Nat /\ m_uHead <= m_uHead' /\ m_uHead' <= tr
  BY <1>2, <1>3 DEF HeadSteps
<1>7. NextPlace' = NextPlace
  BY <1>4, <1>5 DEF NextPlace
<1>8. LastEnd' = IF Live = {} THEN m_uHead' ELSE LastEnd
  BY <1>4, <1>5 DEF LastEnd, End
<1>9. LiveAreApart'
  <2>1. LiveAreApart
    BY DEF IInv, Layout
  <2> QED BY <1>4, <1>5, <2>1 DEF LiveAreApart, End
<1>10. \A k \in Live : NextPlace <= places[k]
  <2>1. SUFFICES ASSUME NEW k \in Live
                 PROVE  NextPlace <= places[k]
    OBVIOUS
  <2>2. First \in Live /\ NextPlace = places[First]
    BY <1>1, <2>1 DEF EndsFacts, NextPlace
  <2>3. LiveFact(k) /\ LiveFact(First)
    BY <1>1, <2>1, <2>2
  <2>4. First <= k
    BY <2>3 DEF LiveFact
  <2>5. CASE First = k
    BY <2>2, <2>3, <2>5 DEF LiveFact
  <2>6. CASE First < k
    <3>1. End(First) <= places[k]
      BY <2>1, <2>2, <2>6 DEF IInv, Layout, LiveAreApart
    <3> QED BY <2>2, <2>3, <3>1 DEF LiveFact
  <2> QED BY <2>3, <2>4, <2>5, <2>6 DEF LiveFact
<1>11. LiveAreWhole'
  <2>1. SUFFICES ASSUME NEW k \in Live
                 PROVE  /\ m_uHead' <= places[k] /\ End(k) <= m_uTail
                        /\ GetIndex(places[k]) + posted[k].length <= uSize
                        /\ m_pData[GetIndex(places[k])] = posted[k]
    BY <1>4, <1>5 DEF LiveAreWhole, End
  <2>2. /\ m_uHead <= places[k] /\ End(k) <= m_uTail
        /\ GetIndex(places[k]) + posted[k].length <= uSize
        /\ m_pData[GetIndex(places[k])] = posted[k]
    BY DEF IInv, Layout, LiveAreWhole
  <2>3. m_uHead' <= places[k]
    BY <1>10, <2>2 DEF HeadSteps
  <2> QED BY <2>2, <2>3
<1>12. Gap(m_uHead, NextPlace) /\ Gap(LastEnd, m_uTail)
  BY DEF IInv, Layout, LiveAreLinked
<1>13. Gap(m_uHead', NextPlace)
  BY <1>12 DEF HeadSteps, Gap
<1>14. Gap(LastEnd', m_uTail)
  <2>1. CASE Live = {}
    <3>1. NextPlace = m_uTail
      BY <2>1 DEF NextPlace
    <3> QED BY <1>8, <1>13, <2>1, <3>1
  <2>2. CASE Live # {}
    BY <1>8, <1>12, <2>2
  <2> QED BY <2>1, <2>2
<1>15. LiveAreLinked'
  <2>1. \A k \in Live : k + 1 \in Live => Gap(End(k), places[k + 1])
    BY DEF IInv, Layout, LiveAreLinked
  <2>2. \A k \in Live' : k + 1 \in Live' => Gap(End(k), places[k + 1])'
    BY <1>4, <1>5, <2>1 DEF Gap, End
  <2>3. Gap(m_uHead, NextPlace)'
    BY <1>4, <1>7, <1>13 DEF Gap
  <2>4. Gap(LastEnd, m_uTail)'
    BY <1>4, <1>14 DEF Gap
  <2> QED BY <2>2, <2>3, <2>4 DEF LiveAreLinked
<1>16. Published(m_uTailRef)'
  <2>1. /\ \A k \in Live : tr <= places[k] \/ End(k) <= tr
        /\ \A k \in Live : k + 1 \in Live => tr <= End(k) \/ places[k + 1] <= tr
        /\ tr <= m_uHead \/ NextPlace <= tr
        /\ tr <= LastEnd \/ m_uTail <= tr
    BY DEF Published
  <2>2. /\ \A k \in Live' : tr <= places'[k] \/ (End(k))' <= tr
        /\ \A k \in Live' : k + 1 \in Live' => tr <= (End(k))' \/ places'[k + 1] <= tr
    BY <1>4, <1>5, <2>1 DEF End
  <2>3. tr <= m_uHead' \/ NextPlace <= tr
    BY <1>2, <1>6, <2>1
  <2>4. tr <= LastEnd' \/ m_uTail <= tr
    <3>1. CASE Live = {}
      BY <1>8, <2>3, <3>1 DEF NextPlace
    <3>2. CASE Live # {}
      BY <1>8, <2>1, <3>2
    <3> QED BY <3>1, <3>2
  <2> QED BY <1>3, <1>4, <1>6, <1>7, <2>2, <2>3, <2>4 DEF Published
<1> QED BY <1>3, <1>6, <1>9, <1>11, <1>15, <1>16 DEF Layout

\* What a call of GetEntry() does: it stops at the entry that comes next, or fails.
LEMMA GetEntryMoves ==
  ASSUME IInv, EntriesHavePayload, NEW tr \in Nat, Published(tr),
         NEW failure \in {"retry", "refused"}, GetEntry(tr, failure)
  PROVE  /\ HeadSteps(tr)
         /\ consumer' \in {"got", failure}
         /\ consumer' = "got" =>
              First \in Live /\ m_uHead' = places[First] /\ m_uHead' < tr
         /\ consumer' # "got" => tr <= NextPlace /\ m_uHead' = tr
<1>1. CursorFacts /\ EndsFacts
  BY CursorsAreKnown, EndsAreKnown
<1>2. m_uHead \in Nat /\ m_uHead <= tr /\ NextPlace \in Nat /\ m_uHead <= NextPlace
  BY <1>1 DEF CursorFacts, EndsFacts, Published
<1>3. /\ m_uHead' = IF SkipsEnd(tr)
                    THEN m_uHead + (IF HeadToEnd > 1 THEN HeadToEnd ELSE Header.length)
                    ELSE m_uHead
      /\ consumer' = IF m_uHead < tr /\ (SkipsEnd(tr) => GetIndex(tr) > 0)
                     THEN "got" ELSE failure
  BY DEF GetEntry
<1>4. CASE m_uHead < tr
  <2>1. /\ NextPlace <= tr
        /\ NextPlace < tr => First \in Live /\ NextPlace = places[First]
        /\ SkipsEnd(tr) =>
             /\ m_uHead + (IF HeadToEnd > 1 THEN HeadToEnd ELSE Header.length) = NextPlace
             /\ GetIndex(tr) > 0 <=> NextPlace < tr
        /\ ~SkipsEnd(tr) => NextPlace = m_uHead
    BY <1>4, HeadIsKnown
  <2>2. m_uHead' = NextPlace
    BY <1>3, <2>1
  <2>3. consumer' = IF NextPlace < tr THEN "got" ELSE failure
    BY <1>3, <1>4, <2>1
  <2>4. CASE NextPlace < tr
    BY <2>1, <2>2, <2>3, <2>4 DEF HeadSteps
  <2>5. CASE ~(NextPlace < tr)
    <3>1. NextPlace = tr
      BY <1>2, <2>1, <2>5
    <3> QED BY <1>2, <2>2, <2>3, <2>5, <3>1 DEF HeadSteps
  <2> QED BY <2>4, <2>5
<1>5. CASE ~(m_uHead < tr)
  <2>1. ~SkipsEnd(tr)
    BY <1>5 DEF SkipsEnd
  <2>2. m_uHead' = m_uHead /\ consumer' = failure
    BY <1>3, <1>5, <2>1
  <2>3. tr = m_uHead
    BY <1>2, <1>5
  <2> QED BY <1>2, <2>2, <2>3 DEF HeadSteps
<1> QED BY <1>4, <1>5

\* Both attempts of Get(): with the cached tail, and with the tail read again.
LEMMA GetEntryStep ==
  ASSUME IInv, EntriesHavePayload, NEW tr \in Nat, Published(tr),
         NEW failure \in {"retry", "refused"}, GetEntry(tr, failure),
         consumer \in {"idle", "retry", "refused"}, m_uTailRef' = tr,
         UNCHANGED <<copied, uDeleted, delivered, producerVars, m_pData>>
  PROVE  IInv'
<1>1. CursorFacts
  BY CursorsAreKnown
<1>2. /\ HeadSteps(tr)
      /\ consumer' \in {"got", failure}
      /\ consumer' = "got" => First \in Live /\ m_uHead' = places[First] /\ m_uHead' < tr
  BY GetEntryMoves
<1>3. /\ m_uTail' = m_uTail /\ m_uHeadRef' = m_uHeadRef /\ uNewSize' = uNewSize
      /\ uPosted' = uPosted /\ posted' = posted /\ places' = places
      /\ producer' = producer /\ copied' = copied /\ uDeleted' = uDeleted
      /\ delivered' = delivered /\ m_pData' = m_pData
  BY DEF producerVars
<1>4. /\ Layout'
      /\ m_uHead' \in Nat /\ m_uHead <= m_uHead' /\ m_uHead' <= tr /\ tr <= m_uTail
  BY <1>2, <1>3, HeadStepLayout
<1>5. consumer' \in {"got", "retry", "refused"}
  BY <1>2
<1>6. TypeOK'
  BY <1>3, <1>4, <1>5 DEF IInv, TypeOK
<1>7. CursorOrder'
  BY <1>1, <1>3, <1>4 DEF CursorFacts, CursorOrder
<1>8. ProducerOwns'
  BY <1>3 DEF IInv, ProducerOwns, ProducerHolds
<1>9. First' = First /\ Live' = Live
  BY <1>3 DEF First, Last, Live
<1>10. ConsumerOwns'
  <2>1. consumer' # "copied"
    BY <1>5
  <2> QED BY <1>2, <1>3, <1>9, <2>1 DEF ConsumerOwns, ConsumerHolds
<1>11. Histories'
  BY <1>3, <1>5 DEF IInv, Histories, DeliveredInOrder, HistoryCounts
<1> QED BY <1>4, <1>6, <1>7, <1>8, <1>10, <1>11 DEF IInv

LEMMA GetStep ==
  ASSUME IInv, EntriesHavePayload, Get
  PROVE  IInv'
<1>1. m_uTailRef \in Nat
  BY CursorsAreKnown DEF CursorFacts
<1>2. Published(m_uTailRef)
  BY DEF IInv, Layout
<1>3. /\ GetEntry(m_uTailRef, "retry")
      /\ consumer \in {"idle", "retry", "refused"} /\ m_uTailRef' = m_uTailRef
      /\ UNCHANGED <<copied, uDeleted, delivered, producerVars, m_pData>>
  BY DEF Get
<1> QED BY <1>1, <1>2, <1>3, GetEntryStep

LEMMA GetAfterRefreshStep ==
  ASSUME IInv, EntriesHavePayload, GetAfterRefresh
  PROVE  IInv'
<1>1. m_uTail \in Nat
  BY CursorsAreKnown DEF CursorFacts
<1>2. Published(m_uTail)
  BY TailIsPublished
<1>3. /\ GetEntry(m_uTail, "refused")
      /\ consumer \in {"idle", "retry", "refused"} /\ m_uTailRef' = m_uTail
      /\ UNCHANGED <<copied, uDeleted, delivered, producerVars, m_pData>>
  BY DEF GetAfterRefresh
<1> QED BY <1>1, <1>2, <1>3, GetEntryStep

-----------------------------------------------------------------------------
(* The other steps of the consumer. *)

\* What the consumer reads is the oldest live entry.
LEMMA HeaderIsFirst ==
  ASSUME IInv, EntriesHavePayload, ConsumerHolds
  PROVE  /\ First \in Live /\ LiveFact(First)
         /\ m_uHead = places[First]
         /\ Header = posted[First]
         /\ End(First) <= m_uTailRef
         /\ consumer = "copied" => copied = posted[First]
<1>1. /\ First \in Live /\ m_uHead = places[First] /\ m_uHead < m_uTailRef
      /\ consumer = "copied" => copied = posted[First]
  BY DEF IInv, ConsumerOwns
<1>2. LiveFact(First)
  BY <1>1, LiveIsKnown
<1>3. Header = posted[First]
  BY <1>1 DEF IInv, Layout, LiveAreWhole, Header
<1>4. CursorFacts
  BY CursorsAreKnown
<1>5. m_uTailRef <= places[First] \/ End(First) <= m_uTailRef
  BY <1>1 DEF IInv, Layout, Published
<1>6. ~(m_uTailRef <= places[First])
  BY <1>1, <1>4 DEF CursorFacts
<1> QED BY <1>1, <1>2, <1>3, <1>5, <1>6

LEMMA ReadEntryStep ==
  ASSUME IInv, EntriesHavePayload, ReadEntry
  PROVE  IInv'
<1>1. /\ consumer = "got" /\ consumer' = "copied" /\ copied' = Header
      /\ m_uTail' = m_uTail /\ m_uHeadRef' = m_uHeadRef /\ uNewSize' = uNewSize
      /\ uPosted' = uPosted /\ posted' = posted /\ places' = places
      /\ producer' = producer /\ m_uHead' = m_uHead /\ m_uTailRef' = m_uTailRef
      /\ uDeleted' = uDeleted /\ delivered' = delivered /\ m_pData' = m_pData
  BY DEF ReadEntry, producerVars
<1>2. /\ First \in Live /\ LiveFact(First)
      /\ m_uHead = places[First] /\ Header = posted[First]
  BY <1>1, HeaderIsFirst DEF ConsumerHolds
<1>3. m_uHead < m_uTailRef
  BY <1>1 DEF IInv, ConsumerOwns, ConsumerHolds
<1>4. Header \in Entry
  <2>1. m_uHead \in Nat /\ m_pData \in [Index -> Entry]
    BY DEF IInv, TypeOK
  <2>2. GetIndex(m_uHead) \in Index
    BY <2>1, Places
  <2> QED BY <2>1, <2>2 DEF Header
<1>5. Layout'
  BY <1>1, LayoutUnchanged
<1>6. TypeOK' /\ CursorOrder'
  BY <1>1, <1>4 DEF IInv, TypeOK, CursorOrder
<1>7. ProducerOwns'
  BY <1>1 DEF IInv, ProducerOwns, ProducerHolds
<1>8. First' = First /\ Live' = Live
  BY <1>1 DEF First, Last, Live
<1>9. ConsumerOwns'
  BY <1>1, <1>2, <1>3, <1>8 DEF ConsumerOwns
<1>10. Histories'
  BY <1>1 DEF IInv, Histories, DeliveredInOrder, HistoryCounts
<1> QED BY <1>5, <1>6, <1>7, <1>9, <1>10 DEF IInv

LEMMA CountDeleteStep ==
  ASSUME IInv, EntriesHavePayload, CountDelete
  PROVE  IInv'
<1>1. /\ consumer = "deleted" /\ consumer' = "idle" /\ uDeleted' = uDeleted + 1
      /\ m_uTail' = m_uTail /\ m_uHeadRef' = m_uHeadRef /\ uNewSize' = uNewSize
      /\ uPosted' = uPosted /\ posted' = posted /\ places' = places
      /\ producer' = producer /\ m_uHead' = m_uHead /\ m_uTailRef' = m_uTailRef
      /\ copied' = copied /\ delivered' = delivered /\ m_pData' = m_pData
  BY DEF CountDelete, producerVars
<1>2. Layout'
  BY <1>1, LayoutUnchanged
<1>3. TypeOK' /\ CursorOrder'
  BY <1>1 DEF IInv, TypeOK, CursorOrder
<1>4. ProducerOwns'
  BY <1>1 DEF IInv, ProducerOwns, ProducerHolds
<1>5. ConsumerOwns'
  BY <1>1 DEF ConsumerOwns, ConsumerHolds
<1>6. CountFacts
  BY CountsAreKnown
<1>7. HistoryCounts'
  BY <1>1, <1>6 DEF IInv, Histories, HistoryCounts, CountFacts
<1>8. DeliveredInOrder'
  BY <1>1 DEF IInv, Histories, DeliveredInOrder
<1> QED BY <1>2, <1>3, <1>4, <1>5, <1>7, <1>8 DEF IInv, Histories

\* The oldest entry leaves the live ones.
LEMMA DeleteStep ==
  ASSUME IInv, EntriesHavePayload, Delete
  PROVE  IInv'
<1>1. /\ consumer = "copied" /\ consumer' = "deleted"
      /\ m_uHead' = m_uHead + Header.length
      /\ delivered' = Append(delivered, copied)
      /\ m_uTail' = m_uTail /\ m_uHeadRef' = m_uHeadRef /\ uNewSize' = uNewSize
      /\ uPosted' = uPosted /\ posted' = posted /\ places' = places
      /\ producer' = producer /\ m_uTailRef' = m_uTailRef
      /\ copied' = copied /\ uDeleted' = uDeleted /\ m_pData' = m_pData
  BY DEF Delete, producerVars
<1>2. /\ First \in Live /\ LiveFact(First)
      /\ m_uHead = places[First] /\ Header = posted[First]
      /\ End(First) <= m_uTailRef
      /\ copied = posted[First]
  BY <1>1, HeaderIsFirst DEF ConsumerHolds
<1>3. /\ CursorFacts /\ CountFacts /\ EndsFacts
      /\ \A k \in Live : LiveFact(k)
  BY CursorsAreKnown, CountsAreKnown, EndsAreKnown, LiveIsKnown
<1>4. copied \in Message /\ delivered \in Seq(Message)
  BY <1>2 DEF IInv, TypeOK, LiveFact
<1>5. /\ delivered' \in Seq(Message) /\ Len(delivered') = Len(delivered) + 1
      /\ delivered'[Len(delivered) + 1] = copied
      /\ \A i \in 1 .. Len(delivered) : delivered'[i] = delivered[i]
  BY <1>1, <1>4, AppendProperties
<1>6. /\ m_uHead \in Nat /\ m_uTail \in Nat /\ m_uTailRef \in Nat
      /\ m_uTailRef <= m_uTail
  BY <1>3 DEF CursorFacts
<1>7. First \in Nat /\ Last \in Nat /\ First <= Last
  BY <1>2, <1>3 DEF CountFacts, LiveFact
<1>8. First' = First + 1 /\ Last' = Last
  BY <1>1, <1>3, <1>5 DEF First, Last, CountFacts
<1>9. Live' = {k \in Live : First < k}
  BY <1>7, <1>8 DEF Live
<1>10. m_uHead' = End(First) /\ End(First) \in Nat /\ m_uHead <= m_uHead'
  BY <1>1, <1>2, <1>6 DEF LiveFact
<1>11. LastEnd = End(Last) /\ NextPlace = places[First] /\ Last \in Live
  BY <1>2, <1>3 DEF LastEnd, NextPlace, EndsFacts
<1>12. Live' = {} => First = Last
  BY <1>7, <1>9, <1>11
<1>13. Live' # {} => First + 1 \in Live
  BY <1>7, <1>9 DEF Live
<1>14. NextPlace' = IF Live' = {} THEN m_uTail ELSE places[First + 1]
  BY <1>1, <1>8 DEF NextPlace
<1>15. LastEnd' = LastEnd
  <2>1. CASE Live' = {}
    BY <1>10, <1>11, <1>12, <2>1 DEF LastEnd
  <2>2. CASE Live' # {}
    BY <1>1, <1>8, <1>11, <2>2 DEF LastEnd, End
  <2> QED BY <2>1, <2>2
<1>16. LiveAreWhole'
  <2>1. SUFFICES ASSUME NEW k \in Live, First < k
                 PROVE  /\ m_uHead' <= places[k] /\ End(k) <= m_uTail
                        /\ GetIndex(places[k]) + posted[k].length <= uSize
                        /\ m_pData[GetIndex(places[k])] = posted[k]
    BY <1>1, <1>9 DEF LiveAreWhole, End
  <2>2. /\ End(k) <= m_uTail
        /\ GetIndex(places[k]) + posted[k].length <= uSize
        /\ m_pData[GetIndex(places[k])] = posted[k]
    BY DEF IInv, Layout, LiveAreWhole
  <2>3. End(First) <= places[k]
    BY <1>2, <2>1 DEF IInv, Layout, LiveAreApart
  <2> QED BY <1>10, <2>2, <2>3
<1>17. LiveAreApart'
  <2>1. LiveAreApart
    BY DEF IInv, Layout
  <2> QED BY <1>1, <1>9, <2>1 DEF LiveAreApart, End
<1>18. \A k \in Live' : k \in Live
  BY <1>9
<1>19. LiveAreLinked'
  <2>1. /\ \A k \in Live : k + 1 \in Live => Gap(End(k), places[k + 1])
        /\ Gap(LastEnd, m_uTail)
    BY DEF IInv, Layout, LiveAreLinked
  <2>2. Gap(End(First), NextPlace')
    <3>1. CASE Live' = {}
      BY <1>11, <1>12, <1>14, <2>1, <3>1
    <3>2. CASE Live' # {}
      BY <1>2, <1>13, <1>14, <2>1, <3>2
    <3> QED BY <3>1, <3>2
  <2>3. \A k \in Live' : k + 1 \in Live' => Gap(End(k), places[k + 1])'
    BY <1>1, <1>18, <2>1 DEF Gap, End
  <2>4. Gap(m_uHead, NextPlace)'
    BY <1>1, <1>10, <2>2 DEF Gap
  <2>5. Gap(LastEnd, m_uTail)'
    BY <1>1, <1>15, <2>1 DEF Gap
  <2> QED BY <2>3, <2>4, <2>5 DEF LiveAreLinked
<1>20. Published(m_uTailRef)'
  <2>1. /\ \A k \in Live : m_uTailRef <= places[k] \/ End(k) <= m_uTailRef
        /\ \A k \in Live : k + 1 \in Live =>
             m_uTailRef <= End(k) \/ places[k + 1] <= m_uTailRef
        /\ m_uTailRef <= LastEnd \/ m_uTail <= m_uTailRef
    BY DEF IInv, Layout, Published
  <2>2. m_uTailRef <= End(First) \/ NextPlace' <= m_uTailRef
    <3>1. CASE Live' = {}
      BY <1>11, <1>12, <1>14, <2>1, <3>1
    <3>2. CASE Live' # {}
      BY <1>2, <1>13, <1>14, <2>1, <3>2
    <3> QED BY <3>1, <3>2
  <2>3. /\ \A k \in Live' : m_uTailRef <= places'[k] \/ (End(k))' <= m_uTailRef
        /\ \A k \in Live' : k + 1 \in Live' =>
             m_uTailRef <= (End(k))' \/ places'[k + 1] <= m_uTailRef
    BY <1>1, <1>18, <2>1 DEF End
  <2> QED BY <1>1, <1>2, <1>6, <1>10, <1>15, <2>1, <2>2, <2>3 DEF Published
<1>21. Layout'
  BY <1>16, <1>17, <1>19, <1>20 DEF Layout
<1>22. m_uHead' \in Nat /\ m_uHead' <= m_uTailRef
  BY <1>2, <1>10
<1>23. TypeOK'
  BY <1>1, <1>5, <1>22 DEF IInv, TypeOK
<1>24. CursorOrder'
  BY <1>1, <1>3, <1>10, <1>22 DEF CursorFacts, CursorOrder
<1>25. ProducerOwns'
  BY <1>1 DEF IInv, ProducerOwns, ProducerHolds
<1>26. ConsumerOwns'
  BY <1>1 DEF ConsumerOwns, ConsumerHolds
<1>27. HistoryCounts'
  BY <1>1, <1>3, <1>5 DEF IInv, Histories, HistoryCounts, CountFacts
<1>28. DeliveredInOrder'
  <2>1. Len(delivered') <= Len(posted)
    BY <1>3, <1>5, <1>7 DEF CountFacts, First, Last
  <2>2. ASSUME NEW i \in 1 .. Len(delivered')
        PROVE  delivered'[i] = posted[i]
    <3>1. CASE i \in 1 .. Len(delivered)
      BY <1>5, <3>1 DEF IInv, Histories, DeliveredInOrder
    <3>2. CASE i = First
      BY <1>2, <1>5, <3>2 DEF First
    <3> QED BY <1>3, <1>5, <2>2, <3>1, <3>2 DEF CountFacts, First
  <2> QED BY <1>1, <2>1, <2>2 DEF DeliveredInOrder
<1> QED BY <1>21, <1>23, <1>24, <1>25, <1>26, <1>27, <1>28 DEF IInv, Histories

-----------------------------------------------------------------------------
(* The invariant. *)

LEMMA InitInv ==
  ASSUME Init
  PROVE  IInv
<1>1. uSize \in Nat \ {0} /\ Garbage \notin Payload
  BY VariableAssumption
<1>2. /\ m_uTail = 0 /\ m_uHeadRef = 0 /\ producer = "idle" /\ uNewSize = 0
      /\ uPosted = 0 /\ posted = << >> /\ places = << >>
      /\ m_uHead = 0 /\ m_uTailRef = 0 /\ consumer = "idle" /\ copied = Blank(0)
      /\ uDeleted = 0 /\ delivered = << >>
      /\ m_pData = [i \in Index |-> Blank(0)]
  BY DEF Init
<1>3. Blank(0) \in Entry
  BY DEF Blank, Entry
<1>4. posted \in Seq(Message) /\ places \in Seq(Nat) /\ delivered \in Seq(Message)
  BY <1>2
<1>5. m_pData \in [Index -> Entry]
  BY <1>2, <1>3
<1>6. TypeOK
  BY <1>2, <1>3, <1>4, <1>5 DEF TypeOK
<1>7. CursorOrder
  BY <1>1, <1>2 DEF CursorOrder
<1>8. Len(posted) = 0 /\ Len(places) = 0 /\ Len(delivered) = 0
  BY <1>2
<1>9. Live = {}
  BY <1>8 DEF Live, First, Last
<1>10. NextPlace = 0 /\ LastEnd = 0
  BY <1>2, <1>9 DEF NextPlace, LastEnd
<1>11. Layout
  BY <1>2, <1>9, <1>10
     DEF Layout, LiveAreWhole, LiveAreApart, LiveAreLinked, Published, Gap
<1>12. ProducerOwns /\ ConsumerOwns
  BY <1>2 DEF ProducerOwns, ConsumerOwns, ProducerHolds, ConsumerHolds
<1>13. Histories
  BY <1>2, <1>8 DEF Histories, DeliveredInOrder, HistoryCounts
<1> QED BY <1>6, <1>7, <1>11, <1>12, <1>13 DEF IInv

LEMMA StutterStep ==
  ASSUME IInv, EntriesHavePayload, UNCHANGED vars
  PROVE  IInv'
<1>1. /\ m_uTail' = m_uTail /\ m_uHeadRef' = m_uHeadRef /\ uNewSize' = uNewSize
      /\ uPosted' = uPosted /\ posted' = posted /\ places' = places
      /\ producer' = producer /\ m_uHead' = m_uHead /\ m_uTailRef' = m_uTailRef
      /\ consumer' = consumer /\ copied' = copied /\ uDeleted' = uDeleted
      /\ delivered' = delivered /\ m_pData' = m_pData
  BY DEF vars, producerVars, consumerVars
<1>2. Layout'
  BY <1>1, LayoutUnchanged
<1>3. TypeOK' /\ CursorOrder'
  BY <1>1 DEF IInv, TypeOK, CursorOrder
<1>4. ProducerOwns'
  BY <1>1 DEF IInv, ProducerOwns, ProducerHolds
<1>5. ConsumerOwns'
  BY <1>1 DEF IInv, ConsumerOwns, ConsumerHolds, First, Last, Live
<1>6. Histories'
  BY <1>1 DEF IInv, Histories, DeliveredInOrder, HistoryCounts
<1> QED BY <1>2, <1>3, <1>4, <1>5, <1>6 DEF IInv

LEMMA InvStep ==
  ASSUME IInv, EntriesHavePayload, [Next]_vars
  PROVE  IInv'
<1>1. ASSUME NEW n \in Lengths, New(n) PROVE IInv'
  BY <1>1, NewStep
<1>2. CASE NewAfterRefresh
  BY <1>2, NewAfterRefreshStep
<1>3. CASE GiveUp
  BY <1>3, GiveUpStep
<1>4. ASSUME NEW e \in Payload, Construct(e) PROVE IInv'
  BY <1>4, ConstructStep
<1>5. CASE Post
  BY <1>5, PostStep
<1>6. CASE CountPost
  BY <1>6, CountPostStep
<1>7. CASE Get
  BY <1>7, GetStep
<1>8. CASE GetAfterRefresh
  BY <1>8, GetAfterRefreshStep
<1>9. CASE ReadEntry
  BY <1>9, ReadEntryStep
<1>10. CASE Delete
  BY <1>10, DeleteStep
<1>11. CASE CountDelete
  BY <1>11, CountDeleteStep
<1>12. CASE UNCHANGED vars
  BY <1>12, StutterStep
<1> QED
  BY <1>1, <1>2, <1>3, <1>4, <1>5, <1>6, <1>7, <1>8, <1>9, <1>10, <1>11, <1>12
  DEF Next, ProducerNext, ConsumerNext

-----------------------------------------------------------------------------
(* What the invariant implies. *)

\* The invariant implies that entries are sound,
LEMMA EntriesSoundNow ==
  ASSUME IInv, EntriesHavePayload
  PROVE  EntriesAreSound
<1>1. CursorFacts
  BY CursorsAreKnown
<1>2. EntryIsFree
  <2>1. SUFFICES ASSUME ProducerHolds
                 PROVE  /\ GetIndex(m_uTail) + uNewSize <= uSize
                        /\ m_uTail + uNewSize <= m_uHead + uSize
    BY DEF EntryIsFree
  <2>2. /\ uNewSize \in Lengths
        /\ GetIndex(m_uTail) + uNewSize <= uSize
        /\ m_uTail + uNewSize <= m_uHeadRef + uSize
    BY <2>1 DEF IInv, ProducerOwns
  <2>3. uNewSize \in Nat /\ uSize \in Nat
    BY <2>2, VariableAssumption
  <2> QED BY <1>1, <2>2, <2>3 DEF CursorFacts
<1>3. EntryIsWhole
  <2>1. SUFFICES ASSUME ConsumerHolds
                 PROVE  /\ ~Header.placehold
                        /\ Header.item # Garbage
                        /\ m_uHead + Header.length <= m_uTail
    BY DEF EntryIsWhole
  <2>2. LiveFact(First) /\ m_uHead = places[First] /\ Header = posted[First]
    BY <2>1, HeaderIsFirst
  <2>3. ~Header.placehold /\ Header.item \in Payload
    BY <2>2 DEF LiveFact, Message
  <2>4. m_uHead + Header.length <= m_uTail
    BY <2>2 DEF LiveFact
  <2> QED BY <2>3, <2>4, VariableAssumption
<1>4. CursorOrder /\ DeliveredInOrder
  BY DEF IInv, Histories
<1> QED BY <1>2, <1>3, <1>4 DEF EntriesAreSound

\* The live entries take two units of the ring each, so that one unit at least is
\* left over.
LEMMA LiveTakeRoom ==
  ASSUME IInv, EntriesHavePayload
  PROVE  /\ (Len(posted) - Len(delivered)) + 1 <= uSize
         /\ m_uHead = m_uTail => Len(posted) = Len(delivered)
<1> DEFINE p == Len(posted)
           d == Len(delivered)
<1>1. CursorFacts /\ CountFacts /\ EndsFacts
  BY CursorsAreKnown, CountsAreKnown, EndsAreKnown
<1>2. p \in Nat /\ d \in Nat /\ d <= p /\ First = d + 1 /\ Last = p
  BY <1>1 DEF CountFacts, First, Last
<1>3. /\ m_uHead \in Nat /\ m_uTail \in Nat /\ uSize \in Nat /\ uSize >= 1
      /\ m_uTail <= m_uHead + uSize
  BY <1>1, Places DEF CursorFacts
<1> HIDE DEF p, d
<1>4. p # d => 2 * (p - d) <= m_uTail - m_uHead
  <2>1. SUFFICES ASSUME p # d
                 PROVE  2 * (p - d) <= m_uTail - m_uHead
    OBVIOUS
  <2>2. First \in Live /\ Last \in Live
    BY <1>2, <2>1 DEF Live
  <2>3. LiveFact(First) /\ LiveFact(Last)
    BY <2>2, LiveIsKnown
  <2>4. /\ places[First] \in Nat /\ m_uHead <= places[First]
        /\ places[Last] \in Nat /\ places[Last] + 2 <= m_uTail
    BY <1>3, <2>3 DEF LiveFact
  <2>5. places[First] + 2 * (Last - First) <= places[Last]
    <3>1. CASE First = Last
      BY <1>2, <2>4, <3>1
    <3>2. CASE First # Last
      <4>1. First < Last
        BY <1>2, <2>1, <3>2
      <4> QED BY <2>2, <4>1 DEF IInv, Layout, LiveAreApart
    <3> QED BY <3>1, <3>2
  <2> QED BY <1>2, <1>3, <2>4, <2>5
<1>5. (p - d) + 1 <= uSize /\ (m_uHead = m_uTail => p = d)
  BY <1>2, <1>3, <1>4
<1> QED BY <1>5 DEF p, d

\* and that the counters agree.
LEMMA CountersAgreeNow ==
  ASSUME IInv, EntriesHavePayload
  PROVE  CountersAgree
<1> DEFINE p == Len(posted)
           d == Len(delivered)
<1>1. CursorFacts /\ CountFacts /\ EndsFacts
  BY CursorsAreKnown, CountsAreKnown, EndsAreKnown
<1>2. p \in Nat /\ d \in Nat /\ d <= p /\ First = d + 1 /\ Last = p
  BY <1>1 DEF CountFacts, First, Last
<1>3. uPosted = p - (IF producer = "posted" THEN 1 ELSE 0)
  BY DEF IInv, Histories, HistoryCounts
<1>4. uDeleted = d - (IF consumer = "deleted" THEN 1 ELSE 0)
  BY DEF IInv, Histories, HistoryCounts
<1> HIDE DEF p, d
<1>5. /\ m_uHead \in Nat /\ m_uTail \in Nat /\ uSize \in Nat /\ uSize >= 1
      /\ m_uTail <= m_uHead + uSize
  BY <1>1, Places DEF CursorFacts
<1>6. (p - d) + 1 <= uSize /\ (m_uHead = m_uTail => p = d)
  BY LiveTakeRoom DEF p, d
<1>7. ProducerSizeIsUpperBound
  <2>1. SUFFICES ASSUME producer # "posted"
                 PROVE  p - d <= uPosted - uDeleted /\ uPosted - uDeleted <= uSize
    BY DEF ProducerSizeIsUpperBound, p, d
  <2>2. uPosted = p
    BY <1>2, <1>3, <2>1
  <2>3. uDeleted = d \/ uDeleted = d - 1
    BY <1>2, <1>4
  <2> QED BY <1>2, <1>5, <1>6, <2>2, <2>3
<1>8. DrainedIsEmpty
  <2>1. SUFFICES ASSUME consumer = "refused", producer \in {"idle", "refused"},
                        m_uHead = m_uTail
                 PROVE  uPosted = uDeleted
    BY DEF DrainedIsEmpty
  <2>2. p = d
    BY <1>6, <2>1
  <2>3. uPosted = p /\ uDeleted = d
    BY <1>2, <1>3, <1>4, <2>1
  <2> QED BY <2>2, <2>3
<1> QED BY <1>7, <1>8 DEF CountersAgree

-----------------------------------------------------------------------------
(* The theorems. *)

\* The inductive invariant holds in every reachable state, provided that no entry is
\* empty: the theorems below read their properties off it.
THEOREM InvariantHolds ==
  ASSUME EntriesHavePayload
  PROVE  Spec => []IInv
<1>1. Init => IInv
  BY InitInv
<1>2. IInv /\ [Next]_vars => IInv'
  BY InvStep
<1> QED BY <1>1, <1>2, PTL DEF Spec

\* The variables keep their types; nothing is posted or delivered but an entry that
\* New() handed out and the caller filled in.
THEOREM TypeCorrect ==
  ASSUME EntriesHavePayload
  PROVE  Spec => []TypeOK
<1>1. IInv => TypeOK
  BY DEF IInv
<1> QED BY <1>1, InvariantHolds, PTL

\* New() hands out free room in one piece, Get() whole published entries only, and
\* entries arrive in the order they were posted, for every ring size and every set
\* of lengths of two units and more, placeholders, refusals and stale cursors
\* included.
THEOREM EntriesAreSoundAlways ==
  ASSUME EntriesHavePayload
  PROVE  Spec => []EntriesAreSound
<1>1. IInv => EntriesAreSound
  BY EntriesSoundNow
<1> QED BY <1>1, InvariantHolds, PTL

\* GetSize() on the producer's thread bounds what is queued and never exceeds the
\* ring; IsEmpty() agrees with the cursors once the consumer has drained the ring.
THEOREM CountersAgreeAlways ==
  ASSUME EntriesHavePayload
  PROVE  Spec => []CountersAgree
<1>1. IInv => CountersAgree
  BY CountersAgreeNow
<1> QED BY <1>1, InvariantHolds, PTL

-----------------------------------------------------------------------------
(* The ring implements the bounded FIFO. *)

\* The part of a sequence after its first d elements.
LEMMA RestOfSeq ==
  ASSUME NEW S, NEW q \in Seq(S), NEW d \in Nat, d <= Len(q)
  PROVE  /\ SubSeq(q, d + 1, Len(q)) \in Seq(S)
         /\ Len(SubSeq(q, d + 1, Len(q))) = Len(q) - d
         /\ \A i \in 1 .. Len(q) - d : SubSeq(q, d + 1, Len(q))[i] = q[d + i]
<1>1. Len(q) \in Nat
  BY LenProperties
<1>2. \A i \in d + 1 .. Len(q) : q[i] \in S
  BY <1>1, ElementOfSeq
<1>3. /\ SubSeq(q, d + 1, Len(q)) \in Seq(S)
      /\ Len(SubSeq(q, d + 1, Len(q))) = IF d + 1 <= Len(q) THEN Len(q) - (d + 1) + 1 ELSE 0
      /\ \A i \in 1 .. Len(q) - (d + 1) + 1 : SubSeq(q, d + 1, Len(q))[i] = q[d + 1 + i - 1]
  BY <1>1, <1>2, SubSeqProperties
<1>4. Len(SubSeq(q, d + 1, Len(q))) = Len(q) - d
  BY <1>1, <1>3
<1>5. ASSUME NEW i \in 1 .. Len(q) - d
      PROVE  SubSeq(q, d + 1, Len(q))[i] = q[d + i]
  <2>1. i \in 1 .. Len(q) - (d + 1) + 1 /\ d + 1 + i - 1 = d + i
    BY <1>1
  <2> QED BY <1>3, <2>1
<1> QED BY <1>3, <1>4, <1>5

\* What is queued is as long as the entries live, and empty exactly when none is.
LEMMA QueuedFacts ==
  ASSUME IInv
  PROVE  /\ Queued \in Seq(Message)
         /\ Len(Queued) = Len(posted) - Len(delivered)
         /\ \A i \in 1 .. Len(posted) - Len(delivered) :
              Queued[i] = posted[Len(delivered) + i]
         /\ Queued = << >> <=> Live = {}
<1>1. CountFacts
  BY CountsAreKnown
<1>2. posted \in Seq(Message)
  BY DEF IInv, TypeOK
<1>3. /\ Queued \in Seq(Message)
      /\ Len(Queued) = Len(posted) - Len(delivered)
      /\ \A i \in 1 .. Len(posted) - Len(delivered) :
           Queued[i] = posted[Len(delivered) + i]
  BY <1>1, <1>2, RestOfSeq DEF Queued, CountFacts
<1>4. Queued = << >> <=> Len(Queued) = 0
  BY <1>3, EmptySeq
<1>5. Len(Queued) = 0 <=> Live = {}
  <2>1. Len(posted) \in Nat /\ Len(delivered) \in Nat /\ Len(delivered) <= Len(posted)
    BY <1>1 DEF CountFacts
  <2>2. Live = Len(delivered) + 1 .. Len(posted)
    BY DEF Live, First, Last
  <2>3. Live = {} <=> Len(delivered) = Len(posted)
    BY <2>1, <2>2
  <2>4. Len(Queued) = Len(posted) - Len(delivered)
    BY <1>3
  <2> QED BY <2>1, <2>3, <2>4
<1> QED BY <1>3, <1>4, <1>5

\* What follows the first d elements, when one is appended.
LEMMA RestOfAppend ==
  ASSUME NEW S, NEW q \in Seq(S), NEW e \in S, NEW d \in Nat, d <= Len(q)
  PROVE  SubSeq(Append(q, e), d + 1, Len(Append(q, e)))
           = Append(SubSeq(q, d + 1, Len(q)), e)
<1> DEFINE n == Len(q)
           r == SubSeq(q, d + 1, n)
           b == SubSeq(Append(q, e), d + 1, Len(Append(q, e)))
<1>1. n \in Nat
  BY LenProperties
<1>2. r \in Seq(S) /\ Len(r) = n - d /\ \A i \in 1 .. n - d : r[i] = q[d + i]
  BY RestOfSeq
<1>3. /\ Append(q, e) \in Seq(S) /\ Len(Append(q, e)) = n + 1
      /\ Append(q, e)[n + 1] = e
      /\ \A i \in 1 .. n : Append(q, e)[i] = q[i]
  BY AppendProperties
<1>4. /\ b \in Seq(S) /\ Len(b) = (n + 1) - d
      /\ \A i \in 1 .. (n + 1) - d : b[i] = Append(q, e)[d + i]
  <2>1. d <= Len(Append(q, e))
    BY <1>1, <1>3
  <2> QED BY <1>3, <2>1, RestOfSeq
<1>5. /\ Append(r, e) \in Seq(S) /\ Len(Append(r, e)) = (n - d) + 1
      /\ Append(r, e)[(n - d) + 1] = e
      /\ \A i \in 1 .. n - d : Append(r, e)[i] = r[i]
  <2> HIDE DEF r, n
  <2> QED BY <1>2, AppendProperties
<1> HIDE DEF b, r, n
<1>6. ASSUME NEW i \in 1 .. Len(b)
      PROVE  b[i] = Append(r, e)[i]
  <2>1. CASE i = (n - d) + 1
    <3>1. d + i = n + 1 /\ i \in 1 .. (n + 1) - d
      BY <1>1, <1>4, <2>1
    <3>2. b[i] = Append(q, e)[d + i]
      BY <1>4, <3>1
    <3> QED BY <1>3, <1>5, <2>1, <3>1, <3>2
  <2>2. CASE i # (n - d) + 1
    <3>1. d + i \in 1 .. n /\ i \in 1 .. n - d /\ i \in 1 .. (n + 1) - d
      BY <1>1, <1>4, <2>2
    <3> QED BY <1>2, <1>3, <1>4, <1>5, <3>1
  <2> QED BY <2>1, <2>2
<1>7. Len(b) = Len(Append(r, e))
  BY <1>1, <1>4, <1>5
<1>8. b = Append(r, e)
  BY <1>4, <1>5, <1>6, <1>7, SeqEqual
<1> QED BY <1>8 DEF b, r, n

\* PostEntry() puts the entry at the back of the queue that is implemented,
LEMMA PostAppends ==
  ASSUME IInv, EntriesHavePayload, Post
  PROVE  LET e == m_pData[GetIndex(m_uTail)] IN
         e \in Message /\ Queued' = Append(Queued, e)
<1> DEFINE e == m_pData[GetIndex(m_uTail)]
<1>1. e \in Message
  BY PostFacts
<1>2. posted' = Append(posted, e) /\ delivered' = delivered
  BY DEF Post, consumerVars
<1> HIDE DEF e
<1>3. posted \in Seq(Message)
  BY DEF IInv, TypeOK
<1>4. Len(delivered) \in Nat /\ Len(delivered) <= Len(posted)
  BY CountsAreKnown DEF CountFacts
<1>5. Queued' = Append(Queued, e)
  BY <1>1, <1>2, <1>3, <1>4, RestOfAppend DEF Queued
<1> QED BY <1>1, <1>5 DEF e

\* and DeleteEntry() takes the entry that was read from its front.
LEMMA DeleteTakesHead ==
  ASSUME IInv, EntriesHavePayload, Delete
  PROVE  /\ Queued # << >>
         /\ copied = Head(Queued)
         /\ Queued' = Tail(Queued)
<1>1. /\ consumer = "copied" /\ delivered' = Append(delivered, copied)
      /\ posted' = posted
  BY DEF Delete, producerVars
<1>2. First \in Live /\ LiveFact(First) /\ copied = posted[First]
  BY <1>1, HeaderIsFirst DEF ConsumerHolds
<1>3. posted \in Seq(Message) /\ delivered \in Seq(Message)
  BY DEF IInv, TypeOK
<1>4. CountFacts
  BY CountsAreKnown
<1>5. First \in 1 .. Len(posted) /\ Len(posted) \in First .. Len(posted)
  BY <1>2, <1>4 DEF LiveFact, CountFacts, Last
<1>6. copied \in Message
  BY <1>2 DEF LiveFact
<1>7. Len(delivered') = Len(delivered) + 1
  BY <1>1, <1>3, <1>6, AppendProperties
<1>8. /\ Head(SubSeq(posted, First, Len(posted))) = posted[First]
      /\ Tail(SubSeq(posted, First, Len(posted))) = SubSeq(posted, First + 1, Len(posted))
  BY <1>3, <1>5, HeadTailOfSubSeq
<1>9. Queued = SubSeq(posted, First, Len(posted))
  BY DEF Queued, First
<1>10. Queued' = SubSeq(posted, First + 1, Len(posted))
  BY <1>1, <1>4, <1>7 DEF Queued, First, CountFacts
<1>11. Queued # << >>
  BY <1>2, QueuedFacts
<1> QED BY <1>2, <1>8, <1>9, <1>10, <1>11

\* An empty ring is an empty queue.
LEMMA InitRefines ==
  ASSUME Init
  PROVE  Fifo!Init
<1>1. Len(delivered) = 0 /\ Len(posted) = 0 /\ delivered = << >>
  BY DEF Init
<1>2. Queued = << >>
  BY <1>1, SubSeqEmpty DEF Queued
<1>3. WriterView = "idle" /\ ReaderView = "idle"
  BY DEF Init, WriterView, ReaderView, ProducerHolds, ConsumerHolds
<1> QED BY <1>1, <1>2, <1>3 DEF Fifo!Init

\* A call of New() is seen as a request for room, granted or not.
LEMMA NewRefines ==
  ASSUME IInv, EntriesHavePayload,
         (\E n \in Lengths : New(n)) \/ NewAfterRefresh
  PROVE  [Fifo!Next]_(Fifo!vars)
<1>1. /\ Queued' = Queued /\ delivered' = delivered /\ ReaderView' = ReaderView
  BY DEF New, NewAfterRefresh, consumerVars, Queued, ReaderView, ConsumerHolds
<1>2. Len(Queued) < uSize
  <2>1. Len(posted) \in Nat /\ Len(delivered) \in Nat /\ uSize \in Nat
    BY CountsAreKnown, Places DEF CountFacts
  <2>2. Len(Queued) = Len(posted) - Len(delivered)
    BY QueuedFacts
  <2>3. (Len(posted) - Len(delivered)) + 1 <= uSize
    BY LiveTakeRoom
  <2> QED BY <2>1, <2>2, <2>3
<1>3. /\ producer \in {"idle", "refused", "retry"}
      /\ producer' \in {"allocated", "retry", "refused"}
      /\ producer' = "refused" => producer = "retry"
  BY DEF New, NewAfterRefresh, NewEntry
<1>4. WriterView # "holding"
  BY <1>3 DEF WriterView, ProducerHolds
<1>5. CASE producer' = "allocated"
  <2>1. WriterView' = "holding"
    BY <1>5 DEF WriterView, ProducerHolds
  <2>2. Fifo!Reserve
    BY <1>1, <1>2, <1>4, <2>1 DEF Fifo!Reserve
  <2> QED BY <2>2 DEF Fifo!Next
<1>6. CASE producer' = "refused"
  <2>1. WriterView' = "refused"
    BY <1>6 DEF WriterView, ProducerHolds
  <2>2. Fifo!Refuse
    BY <1>1, <1>4, <2>1 DEF Fifo!Refuse
  <2> QED BY <2>2 DEF Fifo!Next
<1>7. CASE producer' = "retry"
  <2>1. WriterView' = "idle"
    BY <1>7 DEF WriterView, ProducerHolds
  <2>2. CASE producer = "refused"
    <3>1. WriterView = "refused"
      BY <2>2 DEF WriterView, ProducerHolds
    <3>2. Fifo!WriterForgets
      BY <1>1, <2>1, <3>1 DEF Fifo!WriterForgets
    <3> QED BY <3>2 DEF Fifo!Next
  <2>3. CASE producer # "refused"
    <3>1. WriterView = "idle"
      BY <1>3, <2>3 DEF WriterView, ProducerHolds
    <3> QED BY <1>1, <2>1, <3>1 DEF Fifo!vars
  <2> QED BY <2>2, <2>3
<1> QED BY <1>3, <1>5, <1>6, <1>7

\* A call of Get() is seen as a request for an element, which fails only when none is
\* queued.
LEMMA GetRefines ==
  ASSUME IInv, EntriesHavePayload, Get \/ GetAfterRefresh
  PROVE  [Fifo!Next]_(Fifo!vars)
<1>1. /\ Queued' = Queued /\ delivered' = delivered /\ WriterView' = WriterView
  BY DEF Get, GetAfterRefresh, producerVars, Queued, WriterView, ProducerHolds
<1>2. /\ consumer \in {"idle", "refused", "retry"}
      /\ consumer' \in {"got", "retry", "refused"}
      /\ consumer' = "got" => First \in Live
      /\ consumer' = "refused" => consumer = "retry" /\ Live = {}
  <2>1. m_uTail \in Nat /\ m_uTailRef \in Nat
    BY CursorsAreKnown DEF CursorFacts
  <2>2. CASE Get
    <3>1. Published(m_uTailRef) /\ GetEntry(m_uTailRef, "retry")
      BY <2>2 DEF Get, IInv, Layout
    <3>2. consumer' \in {"got", "retry"} /\ (consumer' = "got" => First \in Live)
      BY <2>1, <3>1, GetEntryMoves
    <3>3. consumer \in {"idle", "refused"}
      BY <2>2 DEF Get
    <3> QED BY <3>2, <3>3
  <2>3. CASE GetAfterRefresh
    <3>1. Published(m_uTail) /\ GetEntry(m_uTail, "refused") /\ consumer = "retry"
      BY <2>3, TailIsPublished DEF GetAfterRefresh
    <3>2. /\ consumer' \in {"got", "refused"}
          /\ consumer' = "got" => First \in Live
          /\ consumer' # "got" => m_uTail <= NextPlace
      BY <2>1, <3>1, GetEntryMoves
    <3>3. m_uTail <= NextPlace => Live = {}
      <4>1. SUFFICES ASSUME m_uTail <= NextPlace, Live # {}
                     PROVE  FALSE
        OBVIOUS
      <4>2. First \in Live /\ NextPlace = places[First]
        BY <4>1, EndsAreKnown DEF EndsFacts, NextPlace
      <4>3. LiveFact(First)
        BY <4>2, LiveIsKnown
      <4> QED BY <2>1, <4>1, <4>2, <4>3 DEF LiveFact
    <3> QED BY <3>1, <3>2, <3>3
  <2> QED BY <2>2, <2>3
<1>3. ReaderView # "holding"
  BY <1>2 DEF ReaderView, ConsumerHolds
<1>4. Queued = << >> <=> Live = {}
  BY QueuedFacts
<1>5. CASE consumer' = "got"
  <2>1. ReaderView' = "holding" /\ Queued # << >>
    BY <1>2, <1>4, <1>5 DEF ReaderView, ConsumerHolds
  <2>2. Fifo!Fetch
    BY <1>1, <1>3, <2>1 DEF Fifo!Fetch
  <2> QED BY <2>2 DEF Fifo!Next
<1>6. CASE consumer' = "refused"
  <2>1. ReaderView' = "refused" /\ Queued = << >>
    BY <1>2, <1>4, <1>6 DEF ReaderView, ConsumerHolds
  <2>2. Fifo!Starve
    BY <1>1, <1>3, <2>1 DEF Fifo!Starve
  <2> QED BY <2>2 DEF Fifo!Next
<1>7. CASE consumer' = "retry"
  <2>1. ReaderView' = "idle"
    BY <1>7 DEF ReaderView, ConsumerHolds
  <2>2. CASE consumer = "refused"
    <3>1. ReaderView = "refused"
      BY <2>2 DEF ReaderView, ConsumerHolds
    <3>2. Fifo!ReaderForgets
      BY <1>1, <2>1, <3>1 DEF Fifo!ReaderForgets
    <3> QED BY <3>2 DEF Fifo!Next
  <2>3. CASE consumer # "refused"
    <3>1. ReaderView = "idle"
      BY <1>2, <2>3 DEF ReaderView, ConsumerHolds
    <3> QED BY <1>1, <2>1, <3>1 DEF Fifo!vars
  <2> QED BY <2>2, <2>3
<1> QED BY <1>2, <1>5, <1>6, <1>7

\* Every step of the ring is a step of the queue or leaves it unchanged.
LEMMA NextRefines ==
  ASSUME IInv, EntriesHavePayload, [Next]_vars
  PROVE  [Fifo!Next]_(Fifo!vars)
<1> USE DEF WriterView, ReaderView, ProducerHolds, ConsumerHolds
<1>1. CASE (\E n \in Lengths : New(n)) \/ NewAfterRefresh
  BY <1>1, NewRefines
<1>2. CASE GiveUp
  <2>1. Fifo!WriterForgets
    BY <1>2 DEF GiveUp, consumerVars, Queued, Fifo!WriterForgets
  <2> QED BY <2>1 DEF Fifo!Next
<1>3. ASSUME NEW e \in Payload, Construct(e) PROVE UNCHANGED Fifo!vars
  BY <1>3 DEF Construct, consumerVars, Queued, Fifo!vars
<1>4. CASE Post
  <2> DEFINE e == m_pData[GetIndex(m_uTail)]
  <2>1. e \in Message /\ Queued' = Append(Queued, e)
    BY <1>4, PostAppends
  <2> HIDE DEF e
  <2>2. Fifo!Publish(e)
    BY <1>4, <2>1 DEF Post, consumerVars, Fifo!Publish
  <2> QED BY <2>1, <2>2 DEF Fifo!Next
<1>5. CASE CountPost
  BY <1>5 DEF CountPost, consumerVars, Queued, Fifo!vars
<1>6. CASE Get \/ GetAfterRefresh
  BY <1>6, GetRefines
<1>7. CASE ReadEntry
  BY <1>7 DEF ReadEntry, producerVars, Queued, Fifo!vars
<1>8. CASE Delete
  <2>1. Queued # << >> /\ copied = Head(Queued) /\ Queued' = Tail(Queued)
    BY <1>8, DeleteTakesHead
  <2>2. Fifo!Release
    BY <1>8, <2>1 DEF Delete, producerVars, Fifo!Release
  <2> QED BY <2>2 DEF Fifo!Next
<1>9. CASE CountDelete
  BY <1>9 DEF CountDelete, producerVars, Queued, Fifo!vars
<1>10. CASE UNCHANGED vars
  BY <1>10 DEF vars, producerVars, consumerVars, Queued, Fifo!vars
<1> QED
  BY <1>1, <1>2, <1>3, <1>4, <1>5, <1>6, <1>7, <1>8, <1>9, <1>10
  DEF Next, ProducerNext, ConsumerNext

\* Seen from its two threads the ring of entries is a bounded FIFO queue: Get() fails
\* only when nothing is queued, and hands out what was posted, in order.
THEOREM RingImplementsFifo ==
  ASSUME EntriesHavePayload
  PROVE  Spec => ImplementsFifo
<1>1. Init => Fifo!Init
  BY InitRefines
<1>2. IInv /\ [Next]_vars => [Fifo!Next]_(Fifo!vars)
  BY NextRefines
<1> QED
  BY <1>1, <1>2, InvariantHolds, PTL DEF Spec, ImplementsFifo, Fifo!Spec
=============================================================================
