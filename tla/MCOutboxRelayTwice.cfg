\* Two workers and two rows, without any fault.
SPECIFICATION Spec
CONSTANTS
  w1 = w1
  w2 = w2
  Workers <- MCWorkers
  MaxEvents = 2
  Limit = 2
  MaxFaults = 0
  Skipped <- MCSkipped
INVARIANT OneWorkerPerEvent
