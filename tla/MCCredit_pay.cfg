\* Two sessions buy, pay and pay early on one card.
SPECIFICATION FairSpec
CONSTANTS
    c1 = c1
    a1 = a1
    p1 = p1
    p2 = p2
    k1 = k1
    k2 = k2
    k3 = k3
    k4 = k4
    Cards <- MCCards
    Accounts <- MCAccounts
    Purchases <- MCPurchases
    IdOrder <- MCOrder
    Opening <- MCOpening
    Limit <- MCLimit
    Rate <- MCRate
    Worth <- MCWorth
    Rows <- MCRows
    Requests <- MCRequests
    Horizon = 1
    Sessions = {s1, s2}
    Nobody = Nobody
    Nothing = Nothing
INVARIANTS
    CreditTypeOK
    DebtAddsUp
PROPERTIES
    LimitHolds
    FutureIsProtected
    CreditRequestAnswered
