CONSTANTS
    MenuId <- MCMenuId
    Root = Root
    SortKey <- MCSortKey
SPECIFICATION TreeSpec
INVARIANTS TreeTypeOK ShownOnce PageTreeIsNested FailsOnlyOnStalePaths SiblingsInOrder
CHECK_DEADLOCK FALSE
