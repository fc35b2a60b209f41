SPECIFICATION FairSpec
CONSTANTS
  Replicas = {r1, r2}
  MaxFaults = 4
\* Replicas that serve, with no fault left, have no step to take.
CHECK_DEADLOCK FALSE
INVARIANTS ProcessInv HandlersHaveSchema NeverReturns
PROPERTIES Recovers
