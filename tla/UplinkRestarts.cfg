\* Two files, two lines, both roles, two send paths, one crash or stop.
SPECIFICATION Spec
CONSTANTS
  NPaths = 2
  Hex4G = 9
  Raw4G = 4
  HexBD = 5
  RawBD = 3
  KeepFrames = 1
  EgFailMax = 2
  BdFailMax = 2
  SendPaths = {"AUTO", "BD_ONLY"}
  Meshes = {"GATEWAY", "NODE"}
  Links = {"flaky"}
  Lens = {1, 2}
  MaxLines = 2
  MaxRestarts = 1
INVARIANTS TypeOK DeliveredInOrder NothingSkipped NothingVanishes SavedIsSafe NothingResent
PROPERTY IsStoreAndForward
