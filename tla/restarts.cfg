SPECIFICATION FairSpec
CONSTANTS
  None = None
  Hole = Hole
  Garbled = Garbled
  Seg <- MCSeg
  File <- MCFile
  MaxInode = 2
  MaxSize = 1
  MaxBytes = 2
  Birth = {1}
  Markers = "mixed"
  Prefix = 1
  Chunk = 1
  MaxStamp = 3
  MaxCrash = 1
  MaxDrop = 1
  MaxOutage = 0
  Pace = "any"
  Ephemerals = {TRUE, FALSE}

  
PROPERTIES
  ServerSpec
  CatchesUp
  ClosingEnds
