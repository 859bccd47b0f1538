------------------------------- MODULE MCAuto -------------------------------
(***************************************************************************)
(* Small instances of AutoContributions for TLC.                           *)
(***************************************************************************)
EXTENDS AutoProperties

CONSTANTS a1, g1, g2, c1, c2

Weekly(n, day) == [acct |-> a1, amount |-> n, day |-> day]
Put(g, c) == [op |-> "put", goal |-> g, config |-> c]
Patch(g, c, calendar) == [op |-> "patch", goal |-> g, config |-> c, calendar |-> calendar]
On(op, g) == [op |-> op, goal |-> g]

MCAccounts == {a1}
MCOpening == [a \in MCAccounts |-> 1]
Empty == [a \in MCAccounts |-> 0]

\* One goal, one schedule after the other.
OneGoal == {g1}
OneSchedule == {c1}
OneTarget == [g \in OneGoal |-> 2]
OneGoalOf == [s \in OneSchedule |-> g1]
OneOrder == [s \in OneSchedule |-> 1]
OneRows == MCAccounts \cup OneGoal \cup OneSchedule

\* Created, edited, paused, resumed and deleted while executions race.
RaceEdits ==
    {Put(g1, Weekly(1, 0)), Patch(g1, Weekly(1, 0), TRUE), On("pause", g1), On("resume", g1)}

\* Two goals with a schedule each, attempted one by invocation.
TwoGoals == {g1, g2}
TwoSchedules == {c1, c2}
TwoTarget == [g \in TwoGoals |-> 1]
TwoGoalOf == [s \in TwoSchedules |-> IF s = c1 THEN g1 ELSE g2]
TwoOrder == [s \in TwoSchedules |-> IF s = c1 THEN 1 ELSE 2]
TwoRows == MCAccounts \cup TwoGoals \cup TwoSchedules
TwoEdits == {Put(g1, Weekly(1, 0)), Put(g2, Weekly(1, 0))}

=============================================================================
