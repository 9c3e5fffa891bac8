SPECIFICATION Spec
CONSTANTS
  None = None
  Hole = Hole
  Garbled = Garbled
  Seg <- MCSeg
  File <- MCFile
  MaxInode = 3
  MaxSize = 2
  MaxBytes = 3
  Birth = {0, 1}
  Markers = "mixed"
  Prefix = 1
  Chunk = 1
  MaxStamp = 2
  MaxCrash = 0
  MaxDrop = 0
  MaxOutage = 0
  Pace = "followed"
  Ephemerals = {FALSE}
INVARIANTS
  NoMixing
  AckedKept
  NameMatchesArchive
  SealHolds
  SealedLeavesLive
  FinalIsComplete
