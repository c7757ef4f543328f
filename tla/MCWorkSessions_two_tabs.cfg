SPECIFICATION Spec
CONSTANTS
    Sessions = {s1, s2}
    Tabs = {b1, b2}
    Null = Null
    SecondsPerTick = 1
    CentsPerHour = 5000
    MaxTime = 2
    MaxRequests = 5
    MaxRestarts = 1
SYMMETRY Symmetry
CHECK_DEADLOCK FALSE
INVARIANTS
    NothingMissed
    PayAddsUp
PROPERTIES
    ImplementsStopwatch
    PaidAmountStands
