CONSTANTS
  s1 = s1
  s2 = s2
  r1 = r1
  big = big
  meta = meta
  large = large
  small = small
  equal = equal
  NoPart = NoPart
  NoImage = NoImage
  PartSize <- MCPartSize
  ImageSize <- MCImageSize
  SparseImages <- MCSparse
  CritMetaImages <- MCCritMeta
  MaxDownLoadSize = 2
  MThread = TRUE
  StartAtResume = TRUE
  Threads = {t1}
  Parts = {large, small}
  Images = {s1, s2, r1, big}
  EventsMayFail = TRUE
  PoolMayFail = FALSE
  DisciplinedHost = FALSE
  MaxCmds = 5
  MaxDrops = 0
SPECIFICATION FairSpec
INVARIANTS TypeOK InStep FlashFaithful
PROPERTIES WaitsForFlash ImplementsStore Answered FlashEnds
