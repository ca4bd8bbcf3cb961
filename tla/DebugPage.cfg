SPECIFICATION Spec
CONSTANTS
    e1 = e1
    e2 = e2
    e3 = e3
    corrA = corrA
    Unset = Unset
    NoFetch = NoFetch
    EventId = {e1, e2, e3}
    CorrelationId = {corrA}
    CorrelationOf <- MCCorrelationOf
    history_size = 2
    queue_size = 2
    MaxMessages = 2
    MaxShown = 1
    InputTime = {Unset}
    Second = 2
    Window = 2
    MaxTime = 3
    MaxPublished = 3
SYMMETRY Symmetry
CHECK_DEADLOCK FALSE
INVARIANTS
    NoEventTwice
    CaughtUp
    SettledIsShown
PROPERTIES
    OldestLeaveWhenFull
