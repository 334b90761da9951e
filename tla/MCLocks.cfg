SPECIFICATION FairSpec
CONSTANTS
    Main = Main
    Job = Job
    Connections = {t1}
    Coinds = {d1}
INVARIANTS
    NoCircularWait
PROPERTIES
    KeepsOrder
    TurnsEnd
CHECK_DEADLOCK FALSE
