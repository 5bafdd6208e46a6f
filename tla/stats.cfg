CONSTANTS
  NoLimit = NoLimit
  I16Max = 32767
  Kilo = 4
  V2s <- MCBoth
  Cpus = 2
  Devices <- MCDevices
  Transfers <- MCTransfers
  PageDirs <- MCPageDirs
  Families <- MCFamilies
  Moves = 2
SPECIFICATION Spec
INVARIANTS TypeOK UsageWithinMax FailuresBracketed CpuTimesWithinTotal ThrottledWithinPeriods
  ServicesBracketed LimitsReported
PROPERTY NeverPanics
