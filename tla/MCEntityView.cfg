SPECIFICATION Spec
CONSTANTS
    Places <- MCPlaces
    Home = 0
    TrackingRange <- MCRange
    Despawn = 0
    HotbarSlots = 1
    MaxStack = 2
    MaxEntities = 4
    MaxItems = 3
    MaxGhosts = 1
    NoEntity = NoEntity
INVARIANTS
    TablesAgree
    RiderExact
    ItemsConserved
PROPERTIES
    GhostsOnlyFromAccept
CHECK_DEADLOCK FALSE
