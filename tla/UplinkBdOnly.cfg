SPECIFICATION FairSpec
CONSTANTS
  NPaths = 1
  Hex4G = 14
  Raw4G = 8
  HexBD = 10
  RawBD = 5
  KeepFrames = 1
  EgFailMax = 2
  BdFailMax = 2
  SendPaths = {"BD_ONLY"}
  Meshes = {"GATEWAY"}
  Links = {"up"}
  Lens = {2}
  MaxLines = 1
  MaxRestarts = 0
PROPERTIES BdOnlyDelivers
