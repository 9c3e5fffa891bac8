SPECIFICATION Spec
CONSTANTS
  None = None
  Hole = Hole
  Garbled = Garbled
  Seg <- MCSeg
  File <- MCFile
  MaxInode = 2
  MaxSize = 2
  MaxBytes = 3
  Birth = {1}
  Markers = "mixed"
  Prefix = 2
  Chunk = 1
  MaxStamp = 2
  MaxCrash = 0
  MaxDrop = 1
  MaxOutage = 1
  Pace = "any"
  Ephemerals = {FALSE}
INVARIANTS
  TypeOK
  
  
  SealedLeavesLive

  
