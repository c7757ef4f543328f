SPECIFICATION Spec
CONSTANTS
    customer = customer
    analyst1 = analyst1
    analyst2 = analyst2
    boss = boss
    reviewer = reviewer
    service = service
    account = account
    order = order
    text1 = text1
    text2 = text2
    slot1 = slot1
    slot2 = slot2
    Null = Null
    Users <- MCUsers
    Tasks = {order}
    Services = {service}
    Accounts = {account}
    Contents = {text1, text2}
    Requests = {slot1, slot2}
    AccountOf <- MCAccountOf
    AccountManagerOf <- MCAccountManagerOf
    TokenRoles <- SteadyRoles
    Onboarded <- MCOnboarded
    MaxEvents = 1
    MaxSuspended = 0
SYMMETRY Symmetry
INVARIANTS TypeOK RowCoherent AnnouncedOnce
PROPERTIES HandoverByHolder FrozenInReview ImplementsLifecycle
CHECK_DEADLOCK FALSE
