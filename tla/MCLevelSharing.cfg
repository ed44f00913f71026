SPECIFICATION Spec
CONSTANTS
    Sessions = {a, b}
    Hardcore = FALSE
    FullRain = 2
    Durations = {2}
    Sizes = {2, 6}
    Difficulties = {3}
    RulesSet = {"doDaylightCycle", "doWeatherCycle"}
    MaxTicks = 1
    MaxCommands = 1
    MaxSaves = 2
INVARIANTS
    LevelReadable
CHECK_DEADLOCK FALSE
