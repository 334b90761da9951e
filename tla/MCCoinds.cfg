\* One other thread, and memory for a job and its successor.
SPECIFICATION FairSpec
CONSTANTS
    Callers = {"t1"}
    Objs = {1, 2}
    Jobs = {1, 2}
INVARIANTS
    TypeOK
    CountedIsLive
    OneMineableJob
PROPERTIES
    Recovers
CHECK_DEADLOCK FALSE
