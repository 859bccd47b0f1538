\* Cash movements, transfers, adjustments and archive/restore by two sessions.
SPECIFICATION FairSpec
CONSTANTS
    a1 = a1
    a2 = a2
    k1 = k1
    k2 = k2
    Accounts <- MCAccounts
    Commands <- MCCommands
    Requests <- MoveRequests
    Rows <- MCRows
    Sessions = {s1, s2}
    Nobody = Nobody
    Nothing = Nothing
    Rank <- MCRank
    Opening <- MCOpening
    Reserve <- MCReserve
INVARIANTS
    StagedIsCurrent
    NoOverdraft
    SuccessIsRecorded
PROPERTIES
    AtomicSpec
    EveryRequestAnswered
