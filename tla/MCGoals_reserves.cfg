\* Two sessions on two goals, two accounts that feed them, and their other uses.
SPECIFICATION GoalSpec
CONSTANTS
    a1 = a1
    a2 = a2
    g1 = g1
    g2 = g2
    k1 = k1
    k2 = k2
    k3 = k3
    Accounts <- MCAccounts
    Goals <- MCGoalSet
    Commands <- MCCommands
    Requests <- MCRequests
    Rows <- MCRows
    Target <- MCTarget
    Sessions = {s1, s2}
    Nobody = Nobody
    Nothing = Nothing
    NoCmd = NoCmd
    Rank <- MCRank
    Opening <- MCOpening
    Reserve <- NoReserve
INVARIANTS
    CurrentIsProgress
    NoNegativeReserve
    ReservesAreRecorded
    ContributionSuccessIsOwn
    NoGoalCircularWait
PROPERTIES
    ReservesGrowFunded
    FillsWithinTarget
