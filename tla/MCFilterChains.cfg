CONSTANTS
    r1 = r1
    r2 = r2
    m1 = m1
    m2 = m2
    e1 = e1
    e2 = e2
    e3 = e3
    NoMenu = NoMenu
    NoThread = NoThread
    MainThread = main
    Role = {r1, r2}
    Menu = {m1, m2}
    Element = {e1, e2, e3}
    Url <- MCUrl
    UrlOf <- MCUrlOf
    PageSize = 2
    Writer = {w1, w2}
    Listener = {l1}
    InitialDb <- MCInitialDb
    MaxOps = 2
SPECIFICATION FairSpec
INVARIANTS TypeOK MonitorHeld CatchAllIsLast AnnouncedIsVisible
PROPERTIES InstallsWhatItStaged AnnouncedBecomesVisible
CHECK_DEADLOCK FALSE
