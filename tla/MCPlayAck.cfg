SPECIFICATION Spec
CONSTANTS
    home = home
    mid = mid
    far = far
    Places = {home, mid, far}
    Home = home
    Near <- MCNear
    Window <- MCWindow
    TeleportTimeout = 2
    KeepAliveInterval = 2
    KeepAliveTimeout = 4
    MaxTeleports = 3
    MaxKeepAlives = 2
    MaxFlight = 4
INVARIANTS
    HonestClientStays
CHECK_DEADLOCK FALSE
