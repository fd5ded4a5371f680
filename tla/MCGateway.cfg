\* Four requests share a bucket of two that gains one token; one comes from elsewhere.
SPECIFICATION GatewaySpec
CONSTANTS
  c1 = c1
  c2 = c2
  i1 = i1
  i2 = i2
  Clients <- MCClients
  Requests <- MCRequests
  Ips <- MCIps
  IpOf <- MCIpOf
  Burst = 2
  MaxTime = 1
  MaxFaults = 1
INVARIANTS
  RateIsLimited
  RejectedForACause
  DuplicatesHaveACause
  NotFoundHasACause
  StatusesMoveForward
PROPERTIES
  LimiterIsIdeal
\* Every request has been answered.
CHECK_DEADLOCK FALSE
