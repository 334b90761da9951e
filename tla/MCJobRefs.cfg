SPECIFICATION FairSpec
CONSTANTS
    Clients = {c1, c2}
    Coinds = {d1}
    Nonces = {n1}
    MaxJob = 2
INVARIANTS
    RefsExact
    NoUseAfterFree
    NoDoubleCredit
    IInv
PROPERTIES
    FreedForGood
    DeletedJobFreed
