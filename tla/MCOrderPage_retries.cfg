SPECIFICATION PageSpec
CONSTANTS
    t1 = t1
    t2 = t2
    Tasks = {t1, t2}
    Orders = {t1, t2}
    Names = {n1, n2}
    Forms = {f1}
    Tabs = {b1}
    Null = Null
    MaxUses = 3
    CommentIds = {1, 2, 3}
    Panels = {p1, p2}
    NoId = NoId
    MaxPosts = 3
    boss = boss
    worker = worker
    buyer = buyer
    Cases = {t1, t2}
    People = {boss, worker, buyer}
    RolesOf <- MCRolesOf
    NamedByEmail <- MCNamedByEmail
    CustomerOf <- MCCustomerOf
    PmsOf <- MCPmsOf
    ManagerOf <- MCManagerOf
    Calls = {1, 2}
    MaxClicks = 3
    Nobody = Nobody
CHECK_DEADLOCK FALSE
INVARIANTS
    OneOrderPerForm
    OrderHasFile
    DownloadsPaid
    AnalysisWhole
    ThreadsStayTogether
    NoCommentHidden
    HolderFindsWork
PROPERTIES
    DecidedAsShown
    RefusedOnlyIfOutdated
