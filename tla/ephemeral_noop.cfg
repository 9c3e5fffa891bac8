SPECIFICATION Spec
CONSTANTS
  None = None
  Hole = Hole
  Garbled = Garbled
  Seg <- MCSeg
  File <- MCFile
  MaxInode = 3
  MaxSize = 1
  MaxBytes = 3
  Birth = {1}
  Markers = "mixed"
  Prefix = 1
  Chunk = 1
  MaxStamp = 2
  MaxCrash = 0
  MaxDrop = 1
  MaxOutage = 0
  Pace = "followed"
  Ephemerals = {TRUE}
INVARIANTS
  SealedLeavesLive
