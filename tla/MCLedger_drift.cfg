\* An adjustment under a used key moves the balance and posts nothing.
SPECIFICATION Spec
CONSTANTS
    a1 = a1
    a2 = a2
    k1 = k1
    k2 = k2
    Accounts <- MCAccounts
    Commands <- MCCommands
    Requests <- AdjustRequests
    Rows <- MCRows
    Sessions = {s1, s2}
    Nobody = Nobody
    Nothing = Nothing
    Rank <- MCRank
    Opening <- MCOpening
    Reserve <- MCReserve
INVARIANTS
    LedgerExplainsBalances
