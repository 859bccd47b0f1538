\* The same offers, against the promise of a preview.
SPECIFICATION FxSpec
CONSTANTS
    dollars = dollars
    pesos = pesos
    rent = rent
    school = school
    Accounts <- MCAccounts
    Bills <- MCBills
    CurrencyOf <- MCCurrencyOf
    Opening <- MCOpening
    Owed <- MCOwed
    Unit <- MCUnit
    Markets = {33, 41}
    Base = "USD"
    Scale = 1000
    MaxMoney = 2000
    Amounts = {1, 60, 333, 660}
    Validity = 2
    PreviewValidity = 1
    Horizon = 2
    MaxOffers = 1
    MaxMoves = 2
INVARIANT
    PreviewedQuoteSettles
CHECK_DEADLOCK FALSE
