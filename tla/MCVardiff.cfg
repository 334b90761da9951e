SPECIFICATION FairDifficultySpec
CONSTANTS
    g_stratum_min_diff = 20
    g_stratum_max_diff = 400000
    g_stratum_difficulty = 20
    Hashrates <- Steady
    Suggestions <- Asked
    MaxRequests = 1
INVARIANTS
    DifficultyTypeOK
    MeasuredAsTold
PROPERTIES
    Settles
    EndsInBand
CHECK_DEADLOCK FALSE
