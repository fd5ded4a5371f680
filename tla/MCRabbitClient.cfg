\* Four connections, two deaths, one call of Close, two callers.
SPECIFICATION LiveSpec
CONSTANTS
  Callers = {k1, k2}
  MaxDials = 4
  MaxDeaths = 2
INVARIANTS
  LeftOpenIsKnown
  ConnectedIsCurrent
  LeaksHaveACause
  OperationKeepsChannel
PROPERTIES
  KeepsReconnecting
  CloseEndsGoroutine
\* A closed client whose goroutine has ended does nothing more.
CHECK_DEADLOCK FALSE
