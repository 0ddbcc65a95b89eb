CONSTANTS
    MenuId = {1, 2, 3}
    Root = Root
    SortKey = {1}
SPECIFICATION TreeSpec
INVARIANT UserTreeIsNested
CHECK_DEADLOCK FALSE
