\* Two packets of the sender, three DEBUG packets, a queue of
\* two of them; the second failed attempt powers down.
SPECIFICATION Spec
CONSTANTS
    MaxPackets = 2
    MaxDebug = 3
    MaxPend = 2
    Depth = 2
    BdFailMax = 2
    MayStop = TRUE
INVARIANTS TypeOK ReadyIsHonest DebugInOrder
PROPERTIES ConfirmedOrCrossed RadiosRest EverythingSent DebugQueueDrains
