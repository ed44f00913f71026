SPECIFICATION MCSpec
CONSTANTS
    home = home
    mid = mid
    far = far
    PanicTicks = 2
    WanderTicks = 2
    Circumstances <- MCCircumstances
    KnownPackPackets = 3
    PackResponses = 3
    FinishPackets = 4
    Configs <- MCConfigs
    Places = {home, mid, far}
    Home = home
    Near <- MCNear
    Window <- MCWindow
    TeleportTimeout = 2
    KeepAliveInterval = 2
    KeepAliveTimeout = 4
    MaxTeleports = 3
    MaxKeepAlives = 2
    MaxFlight = 3
    Width = 2
    Top = 3
    Reachable <- MCReachable
    StoneByHand = 2
    FluidDelay = 2
    RandomTicks = 1
    Terrain <- MCTerrain
    Stock <- MCStock
    MaxScheduled = 5
    FullHealth = 2
    FullFood = 2
    RegenFood = 2
    StartSaturation = 1
    Point = 2
    Hearts = 1
    Effects = {"absorption"}
    Chosen = {"survival", "creative"}
    Difficulties = {"peaceful", "hard"}
    Off = 2
    Kit <- MCKit
    Limit <- MCLimit
    Wears <- MCWears
    Foods = {"crop"}
    Treats = {"crop"}
    Placeable = {"crop"}
    Mined = {"crop"}
    BarModes = {"survival", "creative"}
    MaxItems = 3
    MaxGiven = 3
    Crafters = {"p1", "p2"}
    StackLimit <- Wood
    Worth <- MCWorth
    Accepted <- MCAccepted
    GridWidth = 2
    GridHeight = 1
    Known <- MCKnown
    Streams <- MCStreams
    Start <- MCStart
    MaxState = 4
INVARIANTS
    FramesReadable
    HonestNotRefused
    PlayOnlyThroughGates
    RegistriesComplete
    PlacesAgree
    Exclusive
    NoInversion
    CleanStops
    SurvivalSound
    NothingLost
    ClientSees
PROPERTIES
    NothingLeftHanging
    MaterialKept
CHECK_DEADLOCK FALSE
