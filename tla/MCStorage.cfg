SPECIFICATION MCSpec
CONSTANTS
    one = one
    other = other
    two = two
    three = three
    Writers = {w1}
    Slots = {s1, s2}
    Vals = {one, other, two, three}
    Need <- MCNeed
    MaxCount = 2
    MaxOffset = 5
    Absent = Absent
    Damaged = Damaged
    NoSlot = NoSlot
    NoVal = NoVal
    Sessions = {s1, s2}
    Hardcore = FALSE
    FullRain = 2
    Durations = {2}
    Sizes = {2, 6}
    Difficulties = {3}
    RulesSet = {"doDaylightCycle", "doWeatherCycle"}
    MaxTicks = 2
    MaxCommands = 1
    MaxSaves = 2
SYMMETRY MCSymmetry
INVARIANTS
    SectorsDisjoint
    WorldShown
    CrashSafe
PROPERTIES
    OnlyRewritesDamage
    StoreSpec
    Resumes
CHECK_DEADLOCK FALSE
