SPECIFICATION Spec
CONSTANTS
    Admin = {a1, a2, a3}
    Menu <- MCMenu
    FirstMenus <- MCFirstMenus
    FirstPaths <- MCFirstPaths
    Role = {r1}
    FirstLinks <- MCFirstLinks
    Element = {e1}
    MaxOps = 3
SYMMETRY Symmetry
INVARIANTS
    AuthorityTypeOK
    OverlappingSavesAgree
    OneRowUnlessRepeated
    LoneSaveFindsItsRows
    OrphansHaveAReason
    DeletedMenusKeepNothing
CHECK_DEADLOCK FALSE
