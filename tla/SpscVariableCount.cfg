\* The counters GetSize() and IsEmpty() compare, as the consumer thread sees them.
CONSTANTS
  Payload = {a}
  Garbage = Garbage
  Lengths = {2}
  uSize = 4
  MaxTail = 4
SPECIFICATION Spec
INVARIANT ConsumerSizeInRange
