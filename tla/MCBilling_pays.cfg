SPECIFICATION FairSpec
CONSTANTS
    order = order
    session1 = session1
    session2 = session2
    call1 = call1
    call2 = call2
    Null = Null
    Orders = {order}
    Sessions = {session1, session2}
    Calls = {call1, call2}
INVARIANTS PaidIsCharged OfferedInOrder PublishedOnce
PROPERTIES FirstPaymentStands ChargeRecorded
