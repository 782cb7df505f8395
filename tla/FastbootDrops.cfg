CONSTANTS
  s1 = s1
  s2 = s2
  r1 = r1
  big = big
  meta = meta
  large = large
  small = small
  equal = equal
  NoPart = NoPart
  NoImage = NoImage
  PartSize <- MCPartSize
  ImageSize <- MCImageSize
  SparseImages <- MCSparse
  CritMetaImages <- MCCritMeta
  MaxDownLoadSize = 2
  MThread = TRUE
  StartAtResume = FALSE
  Threads = {t1, t2}
  Parts = {large, small}
  Images = {s1, big, meta}
  EventsMayFail = TRUE
  PoolMayFail = TRUE
  DisciplinedHost = TRUE
  MaxCmds = 5
  MaxDrops = 1
SPECIFICATION Spec
INVARIANTS ReceiveInBounds LockDiscipline
CHECK_DEADLOCK FALSE
