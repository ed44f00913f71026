SPECIFICATION Spec
CONSTANTS
    a = a
    b = b
    spawn = spawn
    Chunks = {a, b, spawn}
    Spawn = spawn
    Limit = 1
    MaxChanges = 2
    MaxTicks = 1
    Level = Level
    Absent = Absent
    Damaged = Damaged
    NoChunk = NoChunk
SYMMETRY MCSymmetry
INVARIANTS
    CacheSound
PROPERTIES
    HandlesStayLoaded
    OrderlyTeardownSaves
    ContractSpec
