SPECIFICATION Spec
CONSTANTS
  Builds <- AllBuilds
  WarnTime = 1
  EioTime = 2
  PauseTime = 3
  MaxFaults = 1
INVARIANTS
  WipeKept
  BootsAsShown
PROPERTIES
  LockAsConfirmed
  ScreensEnd
