\* Two connections, one death, and one call of Close.
SPECIFICATION Spec
CONSTANTS
  Callers = {k1}
  MaxDials = 2
  MaxDeaths = 1
INVARIANT CloseCloses
\* A closed client whose goroutine has ended does nothing more.
CHECK_DEADLOCK FALSE
