SPECIFICATION Spec
CONSTANTS
  None = None
  Hole = Hole
  Garbled = Garbled
  Seg <- MCSeg
  File <- MCFile
  MaxInode = 1
  MaxSize = 2
  MaxBytes = 2
  Birth = {1}
  Markers = "first"
  Prefix = 2
  Chunk = 1
  MaxStamp = 2
  MaxCrash = 1
  MaxDrop = 0
  MaxOutage = 0
  Pace = "followed"
  Ephemerals = {FALSE}
INVARIANTS
  AsideIsForeign
