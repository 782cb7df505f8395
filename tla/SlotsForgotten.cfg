SPECIFICATION Spec
CONSTANTS
  Gpts <- OneGpt
  HostOps <- SetReset
  SetActiveArgs <- Names
  AllocMayFail = FALSE
  VerifiedBoot2 = FALSE
  Unlocked = TRUE
  UserBuild = FALSE
INVARIANTS
  SlotSurvivesReset
