SPECIFICATION MCSpec
CONSTANTS
    Tasks = {t1}
    Users = {ann, bob}
    Handlers = {h1, h2}
    Names <- MCNames
    Null = Null
    MaxVersion = 3
    MaxRestarts = 1
CHECK_DEADLOCK FALSE
INVARIANTS
    IndexFollowsTopic
    AuditComplete
    AssigneeTold
PROPERTIES
    EventsConsumed
