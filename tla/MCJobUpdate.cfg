SPECIFICATION FairSpec
CONSTANTS
    d1 = d1
    d2 = d2
    c1 = c1
    c2 = c2
    Coinds = {d1, d2}
    NoCoin = NoCoin
    Clients = {c1, c2}
    coinid <- OnePerCoin
    Residents = {c2}
    maxspeed = 1
    MaxHistory = 2
    MaxJob = 2
INVARIANTS
    TypeOK
PROPERTIES
    EveryMinerServed
    ForwardOnly
    StaysOnCoin
CHECK_DEADLOCK FALSE
