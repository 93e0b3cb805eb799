\* A folding slider and a maintenance write, over three sessions of an adapter.
SPECIFICATION FairSpec
CONSTANTS
  a = a
  m = m
  Writes <- TwoWrites
  Devices <- OneDevice
  DeviceOf <- ToOneDevice
  TargetOf <- OneTarget
  ClassOf <- TwoClasses
  MaxBypasses = 1
  MaxRevisions = 2
  MaxSessions = 3
  None = None
INVARIANT NoLostWakeup
PROPERTIES CallersAnswered KeepsWritePromise
CHECK_DEADLOCK FALSE
