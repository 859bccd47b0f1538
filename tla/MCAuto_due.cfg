\* Two schedules, one attempted by invocation, whose clock may be ahead.
SPECIFICATION FairAutoSpec
CONSTANTS
    a1 = a1
    g1 = g1
    g2 = g2
    c1 = c1
    c2 = c2
    Accounts <- MCAccounts
    Goals <- TwoGoals
    Schedules <- TwoSchedules
    GoalOf <- TwoGoalOf
    IdOrder <- TwoOrder
    Target <- TwoTarget
    Rows <- TwoRows
    Edits <- TwoEdits
    Opening <- MCOpening
    Owners = {o1}
    Sessions = {p1}
    Callers = {}
    Nobody = Nobody
    Nothing = Nothing
    Horizon = 2
    Period = 2
    Skew = 1
    Batch = 1
    MaxFree = 1
PROPERTY
    DueIsServed
