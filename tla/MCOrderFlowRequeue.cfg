\* One order; the property is what the code says, and does not hold.
SPECIFICATION LiveSpec
CONSTANTS
  o1 = o1
  o2 = o2
  None = None
  MaxFaults = 1
  Services <- MCServices
  Msgs <- MCOneOrder
PROPERTY
  RequeuesAreTransient
CHECK_DEADLOCK FALSE
