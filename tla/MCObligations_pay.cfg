\* Two sessions on a fixed and a variable obligation paid from one account.
SPECIFICATION Spec
CONSTANTS
    a1 = a1
    o1 = o1
    o2 = o2
    k1 = k1
    k2 = k2
    Obligations <- MCObligations1
    Accounts <- MCAccounts
    Terms <- MCTerms
    Length = 1
    Horizon = 1
    IdOrder <- MCOrder
    Opening <- MCOpening
    Closable = {a1}
    Reserve <- MCReserve
    Rows <- MCRows
    Requests <- MCRequests
    Sessions = {s1, s2}
    Nobody = Nobody
    NoCmd = NoCmd
    Nothing = Nothing
INVARIANTS
    MoneyAddsUp
    LifeCycleIsSound
    PaymentSuccessIsOwn
    NoObligationCircularWait
PROPERTIES
    HistoryIsKept
    OldestFirst
