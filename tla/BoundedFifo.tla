---------------------------- MODULE BoundedFifo ----------------------------
(***************************************************************************)
(* What a single-producer single-consumer channel promises its two         *)
(* threads: a bounded FIFO queue.  The producer reserves room, then         *)
(* publishes one element; the consumer is handed the oldest element, then   *)
(* releases it.  A channel that is Strict refuses the producer only when    *)
(* the queue is full; one that is not may also refuse for lack of           *)
(* contiguous room.  Either way the consumer is turned away only when the   *)
(* queue is empty.                                                          *)
(***************************************************************************)
EXTENDS Naturals, Sequences

CONSTANTS
  Element,    \* the elements that can be queued
  Capacity,   \* the number of elements the queue has room for
  Strict      \* whether only a full queue may refuse an element

VARIABLES
  queue,      \* published elements the consumer has not released
  delivered,  \* what the consumer has read, in the order it read it
  writer,     \* outcome of the producer's last request for room
  reader      \* outcome of the consumer's last request for an element

vars == <<queue, delivered, writer, reader>>

Init ==
  /\ queue = << >>
  /\ delivered = << >>
  /\ writer = "idle"
  /\ reader = "idle"

Reserve ==
  /\ writer # "holding"
  /\ Len(queue) < Capacity
  /\ writer' = "holding"
  /\ UNCHANGED <<queue, delivered, reader>>

Refuse ==
  /\ writer # "holding"
  /\ Strict => Len(queue) = Capacity
  /\ writer' = "refused"
  /\ UNCHANGED <<queue, delivered, reader>>

Publish(e) ==
  /\ writer = "holding"
  /\ queue' = Append(queue, e)
  /\ writer' = "idle"
  /\ UNCHANGED <<delivered, reader>>

Fetch ==
  /\ reader # "holding"
  /\ queue # << >>
  /\ reader' = "holding"
  /\ UNCHANGED <<queue, delivered, writer>>

Starve ==
  /\ reader # "holding"
  /\ queue = << >>
  /\ reader' = "refused"
  /\ UNCHANGED <<queue, delivered, writer>>

\* A side that was refused forgets it, before it asks again or gives up.
WriterForgets ==
  /\ writer = "refused"
  /\ writer' = "idle"
  /\ UNCHANGED <<queue, delivered, reader>>

ReaderForgets ==
  /\ reader = "refused"
  /\ reader' = "idle"
  /\ UNCHANGED <<queue, delivered, writer>>

\* The consumer gives up on the element it holds, which stays the oldest.
PutBack ==
  /\ reader = "holding"
  /\ reader' = "idle"
  /\ UNCHANGED <<queue, delivered, writer>>

Release ==
  /\ reader = "holding"
  /\ queue # << >>
  /\ delivered' = Append(delivered, Head(queue))
  /\ queue' = Tail(queue)
  /\ reader' = "idle"
  /\ UNCHANGED writer

Next ==
  \/ Reserve
  \/ Refuse
  \/ WriterForgets
  \/ ReaderForgets
  \/ \E e \in Element : Publish(e)
  \/ Fetch
  \/ Starve
  \/ PutBack
  \/ Release

Spec == Init /\ [][Next]_vars
=============================================================================
