SPECIFICATION Spec
CONSTANTS
    FrameSizes = {1}
    MaxPending = 2
    MaxScatter = 2
    SendBuffer = 1
    PacketPieces = 1
    MaxWritten = 2
    MaxPieces = 1
INVARIANTS
    ClosedByPeer
CHECK_DEADLOCK FALSE
