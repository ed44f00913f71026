SPECIFICATION Spec
CONSTANTS
    Places <- MCPlaces
    Home = 0
    TrackingRange <- MCRange
    Despawn = 0
    HotbarSlots = 1
    MaxStack = 1
    MaxEntities = 2
    MaxItems = 0
    MaxGhosts = 1
    NoEntity = NoEntity
INVARIANTS
    ClientSeesTracked
CHECK_DEADLOCK FALSE
