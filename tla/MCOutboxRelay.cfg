\* Two workers, three rows, batches of two, two faults.
SPECIFICATION LiveSpec
CONSTANTS
  w1 = w1
  w2 = w2
  Workers <- MCWorkers
  MaxEvents = 3
  Limit = 2
  MaxFaults = 2
  Skipped <- MCSkipped
INVARIANTS
  MarkedIsAccountedFor
  DuplicatesAreBounded
PROPERTY
  EventuallyMarked
