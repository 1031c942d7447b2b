SPECIFICATION FairSpec
CONSTANTS
  NPaths = 1
  Hex4G = 19
  Raw4G = 10
  HexBD = 10
  RawBD = 5
  KeepFrames = 1
  EgFailMax = 2
  BdFailMax = 2
  SendPaths = {"4G_ONLY"}
  Meshes = {"GATEWAY"}
  Links = {"up"}
  Lens = {2}
  MaxLines = 4
  MaxRestarts = 0
PROPERTIES FourGDelivers
