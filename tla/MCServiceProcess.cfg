\* One process at a time, one message, one request beside the relay, a pool of two, two faults.
SPECIFICATION LiveProcessSpec
CONSTANTS
  svc = svc
  m1 = m1
  r1 = r1
  None = None
  MaxFaults = 2
  PoolSize = 2
  self = svc
  Services <- MCServices
  Msgs <- MCMsgs
  Reqs <- MCReqs
INVARIANTS
  RequestsKeepResources
  PoolNeverDeadlocks
PROPERTIES
  DeliversAtLeastOnce
  SignalEndsProcess
  PoolServesAll
  BacklogDrains
