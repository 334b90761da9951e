SPECIFICATION FairSpec
CONSTANTS
    Clients = {c1, c2}
    MaxShare = 3
    Chunk = 2
INVARIANTS
    SharesKept
    ToItsMiner
PROPERTIES
    CreditReachesTable
