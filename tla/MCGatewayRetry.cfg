\* The client's answer is lost once.
SPECIFICATION GatewaySpec
CONSTANTS
  c1 = c1
  c2 = c2
  i1 = i1
  i2 = i2
  Clients <- MCClients
  Requests <- MCRequests
  Ips <- MCIps
  IpOf <- MCIpOf
  Burst = 2
  MaxTime = 0
  MaxFaults = 1
INVARIANT OneOrderPerKey
\* Every request has been answered.
CHECK_DEADLOCK FALSE
