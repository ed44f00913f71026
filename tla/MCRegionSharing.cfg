SPECIFICATION Spec
CONSTANTS
    one = one
    other = other
    two = two
    three = three
    Writers = {w1, w2}
    Slots = {s1, s2}
    Vals = {one, other, two, three}
    Need <- MCNeed
    MaxCount = 2
    MaxOffset = 5
    Absent = Absent
    Damaged = Damaged
    NoSlot = NoSlot
    NoVal = NoVal
PROPERTIES
    PersistedStays
