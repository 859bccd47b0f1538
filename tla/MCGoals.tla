------------------------------- MODULE MCGoals -------------------------------
(***************************************************************************)
(* Small instances of GoalFunds for TLC.                                   *)
(***************************************************************************)
EXTENDS GoalProperties

CONSTANTS a1, a2, g1, g2, k1, k2, k3

Reserving(op, g, a, n, k) ==
    [op |-> op, goal |-> g, acct |-> a, amount |-> n, cmd |-> k]
Expense(a, n, k) == [op |-> "expense", acct |-> a, amount |-> n, cmd |-> k]
Retarget(g, n) == [op |-> "retarget", goal |-> g, acct |-> a1, amount |-> n]
Delete(g) == [op |-> "delete", goal |-> g, acct |-> a1]

MCAccounts == {a1, a2}
MCRank == [a \in MCAccounts |-> IF a = a1 THEN 1 ELSE 2]
MCOpening == [a \in MCAccounts |-> IF a = a1 THEN 2 ELSE 1]
NoReserve == [a \in MCAccounts |-> 0]
\* One goal fed from two accounts, its target edited meanwhile, keys reused;
\* another, fed without keys, from the account that is spent from.
MCGoalSet == {g1, g2}
MCCommands == {k1, k2, k3}
MCTarget == [g \in MCGoalSet |-> IF g = g1 THEN 2 ELSE 1]
MCRows == MCAccounts \cup MCGoalSet \cup ({"event", "transfer"} \X MCCommands)
MCRequests ==
    { Reserving("contribute", g1, a1, 1, k1), Reserving("contribute", g1, a2, 1, k2),
      Reserving("contribute", g1, a1, 2, k2), Reserving("release", g1, a1, 1, k3),
      Reserving("contribute", g2, a1, 1, NoCmd), Reserving("release", g2, a1, 1, NoCmd),
      Retarget(g1, 1), Retarget(g1, 2), Delete(g1),
      Expense(a1, 1, k1), Expense(a1, 1, k3),
      [op |-> "archive", acct |-> a1], [op |-> "restore", acct |-> a1] }

=============================================================================
