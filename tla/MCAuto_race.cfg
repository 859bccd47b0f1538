\* Two executions race, one of them also on request, while the calendar is edited.
SPECIFICATION AutoSpec
CONSTANTS
    a1 = a1
    g1 = g1
    g2 = g2
    c1 = c1
    c2 = c2
    Accounts <- MCAccounts
    Goals <- OneGoal
    Schedules <- OneSchedule
    GoalOf <- OneGoalOf
    IdOrder <- OneOrder
    Target <- OneTarget
    Rows <- OneRows
    Edits <- RaceEdits
    Opening <- MCOpening
    Owners = {o1}
    Sessions = {p1, p2}
    Callers = {p2}
    Nobody = Nobody
    Nothing = Nothing
    Horizon = 2
    Period = 1
    Skew = 0
    Batch = 1
    MaxFree = 1
INVARIANTS
    AutoTypeOK
    StagedRunIsCurrent
    RunsMatchMoney
PROPERTIES
    EachOccurrenceAccounted
