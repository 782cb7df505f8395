SPECIFICATION Spec
CONSTANTS
  Gpts <- AllGpts
  HostOps <- AllOps
  SetActiveArgs <- Names
  AllocMayFail = TRUE
  VerifiedBoot2 = TRUE
  Unlocked = TRUE
  UserBuild = FALSE
INVARIANTS
  BootedConsistent
  AtMostOneActive
