SPECIFICATION Spec
CONSTANTS
    Ports <- TwoPorts
    Pushers = {"LORA"}
    ReadSizes = {2}
    MaxLogLen = 3
    DataLen = 3
    Slots = 2
    MaxId = 9
    FirstIds = {0}
    MaxBytes = 2
    MaxPushes = 0
    MayStop = TRUE
    MayFail = FALSE
CHECK_DEADLOCK FALSE
INVARIANTS RemainderHandled
