SPECIFICATION Spec
CONSTANTS
    w1 = w1
    w2 = w2
    w3 = w3
    p1 = p1
    p2 = p2
    rawA = rawA
    rawB = rawB
    Absent = Absent
    Torn = Torn
    Writer = {w1, w2, w3}
    Path = {p1, p2}
    Raw = {rawA, rawB}
    MaxCalls = 3
    Faults = {"storage", "crash"}
SYMMETRY Symmetry
CHECK_DEADLOCK FALSE
INVARIANTS
    ObjectsAreWhole
    ReturnedObjectHeld
    NoTempLeft
PROPERTIES
    ObjectNeverChanges
