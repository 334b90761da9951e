SPECIFICATION FairSpec
CONSTANTS
    Conns = {c1, c2}
    MaxCons = 2
    MaxLocks = 2
INVARIANTS
    TypeOK
    ThreadOwnsObject
    
PROPERTIES
    ExitedIsFreed
