SPECIFICATION Spec
CONSTANTS
    top = top
    sub = sub
    deep = deep
    big = big
    small = small
    away = away
    secret = secret
    socket = socket
    alias = alias
    Nowhere = Nowhere
    Dirs <- MCDirs
    Files <- MCFiles
    Others <- MCOthers
    Outside <- MCOutside
    Names <- MCNames
    Size <- MCSize
    Trees <- MCTrees
    LockedSets <- MCLockedSets
    Roots <- MCRoots
    LimitSets <- MCLimits
INVARIANTS
    TypeOK
    WithinBudgets
    CollectedOnce
    CompleteUnlessTruncated
PROPERTIES
    WalkEnds
CHECK_DEADLOCK FALSE
