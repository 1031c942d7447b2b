SPECIFICATION FairSpec
CONSTANTS
    Ports <- TwoPorts
    Pushers = {"LORA"}
    ReadSizes = {1, 2}
    MaxLogLen = 3
    DataLen = 3
    Slots = 2
    MaxId = 9
    FirstIds = {8}
    MaxBytes = 4
    MaxPushes = 1
    MayStop = TRUE
    MayFail = TRUE
CHECK_DEADLOCK FALSE
INVARIANTS TypeOK StreamsInOrder NoByteForgotten IdsTellFrames PartsFit
PROPERTY EverythingLogged
