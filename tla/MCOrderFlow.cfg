\* Two orders, one fault.
SPECIFICATION LiveSpec
CONSTANTS
  o1 = o1
  o2 = o2
  None = None
  MaxFaults = 1
  Services <- MCServices
  Msgs <- MCTwoOrders
INVARIANTS
  NothingForgotten
  ChargesHaveACause
  PoisonHasACause
PROPERTIES
  ImplementsCheckout
  PaymentQueueIsDurable
  AcceptedOrdersGetPaid
\* All requests answered, all messages settled or lost: nothing is left to do.
CHECK_DEADLOCK FALSE
