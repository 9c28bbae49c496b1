\* Two slots and four posts: the ring fills up and wraps twice.
CONSTANTS
  Payload = {a, b}
  Invalid = Invalid
  Garbage = Garbage
  uSize = 2
  MaxPosts = 4
  UIntRange = 16
SPECIFICATION ObserverFairSpec
INVARIANTS ObserverTypeOK CursorOrder SlotExclusive DeliveredInOrder SizesAreSafe
PROPERTIES NobodyStarves ImplementsFifo
