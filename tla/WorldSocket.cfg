SPECIFICATION FairSpec
CONSTANTS
    Large = {4}
    LargeSize = 2
    BufferSize = 2
    HighWaterMark = 2
    MaxPackets = 5
INVARIANTS
    SocketAlive
    LockedSessionAlive
    OutInOrder
PROPERTIES
    OutputDrains
    SocketFreed
