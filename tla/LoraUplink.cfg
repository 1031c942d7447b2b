\* A line of 7 bytes fits no packet.
SPECIFICATION Spec
CONSTANTS
  NPaths = 1
  Hex4G = 9
  Raw4G = 8
  HexBD = 10
  RawBD = 5
  KeepFrames = 1
  Stamp = 2
  Paths = {"BD_ONLY"}
  Lens = {2, 7}
  MaxLines = 3
INVARIANT TypeOK
PROPERTIES SettingsSurvive MissedByCompaction PackedOnce NodeSendsLog
