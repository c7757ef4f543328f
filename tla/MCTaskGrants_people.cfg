SPECIFICATION FairGrantsSpec
CONSTANTS
    customer = customer
    analyst1 = analyst1
    analyst2 = analyst2
    boss = boss
    reviewer = reviewer
    service = service
    account = account
    order = order
    text1 = text1
    text2 = text2
    slot1 = slot1
    slot2 = slot2
    Null = Null
    Users <- MCUsers
    Tasks = {order}
    Services = {service}
    Accounts = {account}
    Contents = {text1}
    Requests = {slot1}
    AccountOf <- MCAccountOf
    AccountManagerOf <- MCAccountManagerOf
    TokenRoles <- ChangingRoles
    Onboarded <- MCOnboarded
    MaxEvents = 1
    MaxSuspended = 1
PROPERTIES GivenToEligible ClosedAfterGrace PaidOrderCloses
CHECK_DEADLOCK FALSE
