SPECIFICATION Spec
CONSTANTS
  Luns <- TwoLuns
  Args <- AnyArg
  Images <- AllImages
  NoLun = 99
  MaxFaults = 2
INVARIANTS
  TablesSound
  OnlyNamedLuns
  OkayMeansFlashed
