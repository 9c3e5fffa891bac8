SPECIFICATION Spec
SYMMETRY Symmetry
CONSTANTS
  None = None
  Hole = Hole
  Name = {a, b, c}
  File = {1, 2}
  Conn = {p, q}
  Byte <- MCByte
  Payload <- MCPayload
  Garbled = Garbled
  MaxLen = 2
  Skew = {0, 1}
INVARIANTS
  TypeOK
  OffsetIsLength
  PathFollowsFile
  OneWriter
PROPERTIES
  AppendOnly
