\* Four calls over one order of one item and one of two.
SPECIFICATION LiveSpec
CONSTANTS
  c1 = c1
  c2 = c2
  c3 = c3
  c4 = c4
  o1 = o1
  o2 = o2
  None = None
  Calls <- MCCalls
  Orders <- MCOrders
  Size <- MCSize
INVARIANTS
  LockedReadIsCurrent
  OneSuccessPerMove
  OrderHasAllItems
PROPERTIES
  ImplementsLifecycle
  CallsAreAtomic
  CallsReturn
\* Each call runs once: when all have returned the system stops.
CHECK_DEADLOCK FALSE
