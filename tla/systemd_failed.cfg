CONSTANTS
  c1 = c1
  c2 = c2
  p1 = p1
  p2 = p2
  none = none
  low = low
  Clients <- MCOne
  Pids <- MCPid
  Limits <- MCLimits
  Unset = none
  Ops <- MCAdd
  Faults <- MCNone
  NumJobs = 3
  MaxSignals = 2
SPECIFICATION Spec
INVARIANTS DestroyedNotFailed
