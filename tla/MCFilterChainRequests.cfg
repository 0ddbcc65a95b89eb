CONSTANTS
    r1 = r1
    m1 = m1
    m2 = m2
    e1 = e1
    e2 = e2
    c1 = c1
    c2 = c2
    NoMenu = NoMenu
    NoThread = NoThread
    MainThread = main
    Anonymous = anonymous
    Role = {r1}
    Menu = {m1, m2}
    Element = {e1, e2}
    Url <- MCUrl
    UrlOf <- MCUrlOf
    PageSize = 1
    Writer = {w1}
    Listener = {l1}
    InitialDb <- MCInitialDb
    MaxOps = 2
    Request = {q1}
    Caller = {c1, c2}
    RoleSet <- MCRoleSet
SPECIFICATION RequestSpec
INVARIANTS CalmRequestIsDecidedByTheTables ServedWasOncePermitted
CHECK_DEADLOCK FALSE
