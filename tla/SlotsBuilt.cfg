SPECIFICATION Spec
CONSTANTS
  Gpts <- AllGpts
  HostOps <- NoTable
  SetActiveArgs <- Names
  AllocMayFail = FALSE
  VerifiedBoot2 = FALSE
  Unlocked = TRUE
  UserBuild = FALSE
INVARIANTS
  SetActiveHonoured
  CurrentSlotVar
PROPERTY
  ContinueBoots
