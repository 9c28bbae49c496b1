\* A ring of 8 units: entries of one and two units of payload, and one that no
\* ring can hold; the cursors pass the end of the ring at least once.
CONSTANTS
  Payload = {a}
  Garbage = Garbage
  Lengths = {2, 3, 9}
  uSize = 8
  MaxTail = 12
SPECIFICATION FairSpec
INVARIANTS TypeOK EntriesAreSound CountersAgree
PROPERTIES NobodyStarves ImplementsFifo
