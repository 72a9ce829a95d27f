SPECIFICATION InstanceSpec
CONSTANTS
  j1 = j1  j2 = j2  j3 = j3  k1 = k1  k2 = k2  l1 = l1
  Runtime = {l1, l2}
  Job = {j1, j2, j3}
  HandoffJob = {j3}
  Key = {k1, k2}
  NoRuntime = NoRuntime
  Capacity = 2
  HandoffCapacity = 1
INVARIANTS
  RecordsSound
  RunningIsRecorded
PROPERTIES
  LaunchUnderLock
  UncertainStays
  ImplementsSlots
  CloseReturns
