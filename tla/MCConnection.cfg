SPECIFICATION MCSpec
CONSTANTS
    FrameSizes = {1, 2}
    MaxPending = 3
    MaxScatter = 2
    SendBuffer = 2
    PacketPieces = 2
    MaxWritten = 4
    MaxPieces = 3
    h1 = h1
    h2 = h2
    c1 = c1
    c2 = c2
    c3 = c3
    n1 = n1
    w1 = w1
    w2 = w2
    NoConn = NoConn
    NoName = NoName
    NoThread = NoThread
INVARIANTS
    QueueExact
    ReturnDelivers
PROPERTIES
    QueueDrains
    InputWaitsForOutput
    LoginEnds
    AdmittedIsTaken
CHECK_DEADLOCK FALSE
