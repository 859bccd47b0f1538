\* A processor pays a variable obligation, whose owner also edits the configuration, at once or not.
SPECIFICATION FairAutoSpec
CONSTANTS
    a1 = a1
    a2 = a2
    o1 = o1
    Obligations <- MCObligations1
    Accounts <- MCAccounts
    Terms <- MCTerms
    Length = 1
    Horizon = 1
    IdOrder <- MCOrder
    Opening <- MCOpening
    Closable = {a1}
    Reserve <- MCReserve
    Rows <- MCRows
    Requests <- MCRequests
    Sessions = {c1, w1}
    Clients = {c1}
    Workers = {w1}
    Puts <- MCPuts
    MaxFaults = 1
    MaxPuts = 2
    Nobody = Nobody
    NoCmd = NoCmd
    Nothing = Nothing
ACTION_CONSTRAINT MCFewDisturbances
INVARIANTS
    AutoPaymentsTypeOK
    RunsMatchPayments
PROPERTIES
    AutoPaysWithConsent
    DueIsPaid
