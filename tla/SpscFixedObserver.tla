------------------------- MODULE SpscFixedObserver --------------------------
(***************************************************************************)
(* GetSize() and IsEmpty() of CSPSCFixedBoundedChannel, called beside the   *)
(* running channel.  Each is two loads, of m_uTail and of m_uHead, with      *)
(* nothing to hold them together; the language leaves their order open.      *)
(* The call is made by the producer thread (as CLoggerImpl::Log does) or by  *)
(* the consumer thread (as the tests do), which does nothing else until it   *)
(* returns.  GetSize() returns the difference as an unsigned integer.  From  *)
(* a third thread the difference can be negative, and no bound holds.        *)
(***************************************************************************)
EXTENDS SpscFixedChannel

CONSTANT
  UIntRange   \* how many values a uint32_t has

ASSUME UIntAssumption == UIntRange \in Nat /\ UIntRange > uSize + MaxPosts

VARIABLES
  observer,   \* progress of the call: "idle", the cursor still to load, "done"
  caller,     \* the thread that makes it
  seenTail,   \* the value it loaded from m_uTail
  seenHead    \* the value it loaded from m_uHead

observerVars == <<observer, caller, seenTail, seenHead>>
allVars == <<vars, observerVars>>

ObserverInit ==
  /\ Init
  /\ observer = "idle"
  /\ caller = "none"
  /\ seenTail = 0
  /\ seenHead = 0

LoadTailFirst(thread) ==
  /\ observer = "idle"
  /\ observer' = "head"
  /\ caller' = thread
  /\ seenTail' = m_uTail
  /\ UNCHANGED <<seenHead, vars>>

LoadHeadFirst(thread) ==
  /\ observer = "idle"
  /\ observer' = "tail"
  /\ caller' = thread
  /\ seenHead' = m_uHead
  /\ UNCHANGED <<seenTail, vars>>

LoadHeadSecond ==
  /\ observer = "head"
  /\ observer' = "done"
  /\ seenHead' = m_uHead
  /\ UNCHANGED <<caller, seenTail, vars>>

LoadTailSecond ==
  /\ observer = "tail"
  /\ observer' = "done"
  /\ seenTail' = m_uTail
  /\ UNCHANGED <<caller, seenHead, vars>>

Return ==
  /\ observer = "done"
  /\ observer' = "idle"
  /\ caller' = "none"
  /\ UNCHANGED <<seenTail, seenHead, vars>>

GetSizeSwapped == (seenHead - seenTail) % UIntRange

\* What GetSize() and IsEmpty() compute from the two loads.
GetSize == (seenTail - seenHead) % UIntRange
IsEmpty == seenHead = seenTail

ObserverNext ==
  \/ ProducerNext /\ caller # "producer" /\ UNCHANGED observerVars
  \/ ConsumerNext /\ caller # "consumer" /\ UNCHANGED observerVars
  \/ \E thread \in {"producer", "consumer"} :
       LoadTailFirst(thread) \/ LoadHeadFirst(thread)
  \/ LoadHeadSecond
  \/ LoadTailSecond
  \/ Return

ObserverSpec == ObserverInit /\ [][ObserverNext]_allVars

\* A call returns; the threads are scheduled as in SpscFixedChannel.
ObserverFairSpec ==
  /\ ObserverSpec
  /\ WF_allVars(LoadHeadSecond \/ LoadTailSecond \/ Return)
  /\ Fairness

-----------------------------------------------------------------------------
\* Every variable keeps its type; nothing but an element posted whole is ever
\* delivered.
ObserverTypeOK ==
  /\ TypeOK
  /\ observer \in {"idle", "head", "tail", "done"}
  /\ caller \in {"none", "producer", "consumer"}
  /\ seenTail \in 0 .. MaxPosts
  /\ seenHead \in 0 .. MaxPosts

\* The consumer may rely on GetSize() as a lower bound: that many Get/Delete
\* pairs succeed, whatever the producer did between the two loads.
ConsumerSizeIsSafe ==
  observer = "done" /\ caller = "consumer" =>
    /\ GetSize <= m_uTail - m_uHead
    /\ ~IsEmpty => HasElement(m_uTail)

\* The producer may rely on GetSize() as an upper bound: room it sees is there,
\* whatever the consumer did between the two loads; CLoggerImpl decides from it
\* (under its spin lock) whether to wake the logging thread.
ProducerSizeIsSafe ==
  observer = "done" /\ caller = "producer" =>
    /\ m_uTail - m_uHead <= GetSize
    /\ GetSize <= uSize
    /\ IsEmpty => m_uTail = m_uHead

\* Whichever side asks, what it is told errs on its safe side.
SizesAreSafe == ConsumerSizeIsSafe /\ ProducerSizeIsSafe
=============================================================================
