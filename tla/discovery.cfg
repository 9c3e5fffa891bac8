SPECIFICATION FairSpec
CONSTANTS
  Path <- MCPath
  Scanned <- MCScanned
  Excluded <- MCExcluded
INVARIANTS
  TypeOK
PROPERTIES
  
  VetoedUnwatched
  Watched
