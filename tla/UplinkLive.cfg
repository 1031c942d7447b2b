SPECIFICATION FairSpec
CONSTANTS
  NPaths = 1
  Hex4G = 14
  Raw4G = 8
  HexBD = 5
  RawBD = 3
  KeepFrames = 1
  EgFailMax = 2
  BdFailMax = 2
  SendPaths = {"AUTO", "4G_ONLY"}
  Meshes = {"GATEWAY"}
  Links = {"up", "down"}
  Lens = {2}
  MaxLines = 2
  MaxRestarts = 1
PROPERTIES FourGDelivers 
