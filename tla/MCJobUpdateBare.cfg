SPECIFICATION Spec
CONSTANTS
    d1 = d1
    d2 = d2
    c1 = c1
    c2 = c2
    Coinds = {d1}
    NoCoin = NoCoin
    Clients = {c1}
    coinid <- OneMiner
    Residents = {}
    maxspeed = 1
    MaxHistory = 2
    MaxJob = 2
INVARIANTS
    EitherOneOfThem
CHECK_DEADLOCK FALSE
