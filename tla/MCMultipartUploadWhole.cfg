CONSTANTS
    r1 = r1
    r2 = r2
    Request = {r1, r2}
    FileLists <- MCFileLists
    partSize = 2
    corePoolSize = 2
SPECIFICATION Spec
INVARIANT StoredIsWhole
CHECK_DEADLOCK FALSE
