CONSTANTS
  c1 = c1
  c2 = c2
  p1 = p1
  p2 = p2
  none = none
  low = low
  Clients <- MCTwo
  Pids <- MCPid
  Limits <- MCLimits
  Unset = none
  Ops <- MCOps
  Faults <- MCFaults
  NumJobs = 4
  MaxSignals = 2
SPECIFICATION FairSpec
INVARIANTS TypeOK NoLostSignal LimitInSync
PROPERTIES StartOkMeansDone CallsReturn
