SPECIFICATION FairSpec
CONSTANTS
    Blocks = {b1, b2}
    Foreign = {}
    PowHashed = {b2}
INVARIANTS
    TypeOK
    AnnouncedIsConfirmed
    ForgottenExpired
PROPERTIES
    LedgerSpec
    ConfirmedIsWritten
