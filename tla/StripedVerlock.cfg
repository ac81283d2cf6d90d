\* Versions run past the range of the readers' int (-4 .. 3).
CONSTANTS
  Readers = {r1}
  NUM_NODES = 3
  NUM_LOCKS = 2
  MaxVal = 1
  MaxLock = 8
  IntHalf = 4
SPECIFICATION Spec
INVARIANTS SnapshotAssert SnapshotIsCurrent TornOnlyWhenOdd
PROPERTIES ReaderCompletesInRange
