CONSTANTS
  none = none
  Top = 3
  V2s <- MCUnified
  Families <- MCLimits
  Ops <- MCSet
  Devices <- MCDevices
  ParentDevices <- MCParentDevices
  ParentQuota = 1
  ParentPeriod = 1
  ParentCpus = 1
  Disks <- MCDisks
  Interfaces <- MCInterfaces
SPECIFICATION Spec
INVARIANTS UnlimitedHonoured
