\* An entry without payload, New(0), is one unit: the header alone.
CONSTANTS
  Payload = {a}
  Garbage = Garbage
  Lengths = {1, 3}
  uSize = 4
  MaxTail = 6
SPECIFICATION Spec
INVARIANT DrainedIsEmpty
