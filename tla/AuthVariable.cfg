SPECIFICATION Spec
CONSTANTS
  Keys = {k1, k2}
  NoKey = none
  Times <- TwoTimes
  Configs <- TwoConfigs
  Requests <- MostRequests
  PcdRequireSelfSignedPk = FALSE
  PcdEnforceSelfsignedPk = TRUE
  PolicyEnabled = TRUE
  MaxFaults = 1
  MaxCopies = 2
  K1 = k1
  K2 = k2
INVARIANTS
  ModesMatch
  SignersMatch
PROPERTIES
  TimeForward
  AppendsOnce
