\* Catalog: two sessions name categories and move two expenses between them.
\* FxQuotes: snapshots, quotes and previews at a price that moves, used until they expire.
SPECIFICATION MCSpec
CONSTANTS
    ana = ana
    everybody = everybody
    food = food
    fun = fun
    gym = gym
    lunch = lunch
    cinema = cinema
    k1 = k1
    k2 = k2
    Users <- MCUsers
    Names = {"food", "fun", "gym"}
    Global = everybody
    Categories <- MCCategories
    Provided <- MCProvided
    Events <- MCEvents
    TypeOf <- MCTypeOf
    Keys <- MCKeys
    Requests <- MCRequests
    Rows <- MCRows
    Sessions = {s1, s2}
    Nobody = Nobody
    Nothing = Nothing
    dollars = dollars
    pesos = pesos
    rent = rent
    school = school
    Accounts <- MCAccounts
    Bills <- MCBills
    CurrencyOf <- MCCurrencyOf
    Opening <- MCOpening
    Owed <- MCOwed
    Unit <- MCUnit
    Markets = {33, 41}
    Base = "USD"
    Scale = 1000
    MaxMoney = 2000
    Amounts = {1, 60, 333, 660}
    Validity = 2
    PreviewValidity = 1
    Horizon = 2
    MaxOffers = 1
    MaxMoves = 2
INVARIANTS
    DebitsFollowThePrice
    SplitsAddUp
    AuditChain
    CategoryNamesDistinct
PROPERTIES
    ReclassifiedIntoOpen
    CatalogRequestAnswered
CHECK_DEADLOCK FALSE
