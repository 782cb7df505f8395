SPECIFICATION Spec
CHECK_DEADLOCK FALSE
CONSTANTS
  MAX_UINT8 = 15
  OFFSET = 5
  Capacities = {4, 6, 10, 12, 13, 16, 20, 23, 29}
  Records <- SomeRecords
  DefaultValue = 15
  EntrySize = 2
  MaxAdds = 3
INVARIANTS
  
  DoneKept
  ChecksumTells
