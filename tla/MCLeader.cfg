SPECIFICATION FairSpec
CONSTANTS
  Replicas = {r1, r2, r3}
  Nobody = Nobody
  Gone = Gone
  RenewDeadline = 3
  RetryPeriod = 2
  MaxDelay = 2
  MaxFaults = 2
INVARIANTS TypeOK AtMostOneLeader
PROPERTIES LeaderReturns
