SPECIFICATION MCSpec
CONSTANTS
    Posts = {p1, p2}
    Editors = {e1, e2}
    Texts = {x, y}
    Null = Null
    MaxAttempts = 2
    MaxRequests = 3
    MaxRestarts = 1
SYMMETRY Symmetry
CHECK_DEADLOCK FALSE
INVARIANTS
    WithdrawnStaysOut
