SPECIFICATION FairSpec
CONSTANTS
    Notifiers = {n1, n2, n3}
INVARIANTS
    IInv
    NoLostSignal
PROPERTIES
    ChangesServed
    ClosesUnlessOrphaned
CHECK_DEADLOCK FALSE
