SPECIFICATION Spec
CONSTANTS
  None = None
  Hole = Hole
  Garbled = Garbled
  Seg <- MCSeg
  File <- MCFile
  MaxInode = 2
  MaxSize = 1
  MaxBytes = 2
  Birth = {1}
  Markers = "mixed"
  Prefix = 1
  Chunk = 1
  MaxStamp = 2
  MaxCrash = 0
  MaxDrop = 0
  MaxOutage = 0
  Pace = "any"
  Ephemerals = {FALSE}
INVARIANTS
  NameMatchesArchive
