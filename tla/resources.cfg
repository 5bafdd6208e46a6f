CONSTANTS
  none = none
  Top = 3
  V2s <- MCBoth
  Families <- MCFamilies
  Ops <- MCOps
  Devices <- MCDevices
  ParentDevices <- MCParentDevices
  ParentQuota = 1
  ParentPeriod = 1
  ParentCpus = 1
  Disks <- MCDisks
  Interfaces <- MCInterfaces
SPECIFICATION Spec
INVARIANTS TypeOK OkMeansInForce OnlyRequested LimitsInOrder InvalidChangesNothing OkMeansTested
