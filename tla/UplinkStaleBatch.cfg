SPECIFICATION FairSpec
CONSTANTS
  NPaths = 1
  Hex4G = 14
  Raw4G = 8
  HexBD = 10
  RawBD = 5
  KeepFrames = 1
  EgFailMax = 2
  BdFailMax = 2
  SendPaths = {"AUTO"}
  Meshes = {"GATEWAY"}
  Links = {"up", "down"}
  Lens = {2}
  MaxLines = 2
  MaxRestarts = 0
PROPERTIES AutoFallsBack
