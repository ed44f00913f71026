SPECIFICATION FairSpec
CONSTANTS
    h1 = h1
    h2 = h2
    c1 = c1
    c2 = c2
    c3 = c3
    c4 = c4
    Conns = {c1, c2, c3}
    Hosts = {h1, h2}
    HostOf <- MCHostOfLive
    Names = {n1}
    Workers = {w1, w2}
    MaxPending = 2
    MaxActive = 3
    MaxPerIp = 2
    MaxAttempts = 1
    Window = 1
    NoConn = NoConn
    NoName = NoName
    NoThread = NoThread
PROPERTIES
    StopEndsWorkers
