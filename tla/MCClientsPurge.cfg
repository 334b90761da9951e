SPECIFICATION Spec
CONSTANTS
    Conns = {c1, c2}
    MaxCons = 2
    MaxLocks = 1
INVARIANTS
    OnlyListedArePurged
