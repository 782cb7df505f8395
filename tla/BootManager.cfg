SPECIFICATION Spec
CONSTANTS
  Defaults <- SomeDefaults
  Others = {"Windows"}
  MaxFaults = 1
PROPERTIES
  ChoicesKept
  LockHolds
  KeyHonoured
  ReachesUser
