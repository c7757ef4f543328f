SPECIFICATION MCSpec
CONSTANTS
    Customers = {c1, c2}
    Managers = {m1}
    Pms = {pm1}
    AccountIds = {a1, a2, a3}
    Projects = {p1, p2}
    Orders = {o1}
    Handlers = {h1, h2}
    Null = Null
    MaxRequests = 5
    MaxRestarts = 1
SYMMETRY Symmetry
CHECK_DEADLOCK FALSE
INVARIANTS
    OneAccountEach
    ResponsibleLinked
    FetchedIsSelected
PROPERTIES
    InactiveStays
