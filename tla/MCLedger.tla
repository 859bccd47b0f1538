------------------------------- MODULE MCLedger -------------------------------
(***************************************************************************)
(* Small instances of LedgerMoves for TLC.                                 *)
(***************************************************************************)
EXTENDS LedgerProperties

CONSTANTS a1, a2, k1, k2

MCAccounts == {a1, a2}
MCCommands == {k1, k2}
MCRank == [a \in MCAccounts |-> IF a = a1 THEN 1 ELSE 2]
MCOpening == [a \in MCAccounts |-> IF a = a1 THEN 2 ELSE 1]
MCReserve == [a \in MCAccounts |-> IF a = a1 THEN 1 ELSE 0]
MCRows == MCAccounts \cup ({"event", "transfer"} \X MCCommands)

Cash(op, a, n, k) == [op |-> op, acct |-> a, amount |-> n, cmd |-> k]
Transfer(a, b, n, k) == [op |-> "transfer", acct |-> a, to |-> b, amount |-> n, cmd |-> k]
Target(a, n, k) == [op |-> "adjust", acct |-> a, amount |-> n, cmd |-> k]
Switch(op, a) == [op |-> op, acct |-> a]

\* Transfers both ways, one key used for two different transfers, another
\* for an income and an expense, adjustments under both, one
\* of them below what is reserved.
MoveRequests ==
    { Transfer(a1, a2, 2, k1), Transfer(a2, a1, 1, k2), Transfer(a2, a1, 2, k1),
      Cash("income", a2, 1, k1), Cash("expense", a1, 2, k1), Cash("expense", a2, 1, k2),
      Target(a1, 3, k1), Target(a1, 0, k2),
      Switch("archive", a1), Switch("restore", a1) }

\* Adjustments that share their key with each other and with an expense.
AdjustRequests ==
    { Target(a1, 3, k1), Target(a1, 0, k2), Target(a1, 1, k2),
      Cash("expense", a1, 1, k2), Transfer(a1, a2, 1, k1), Cash("income", a1, 1, k1),
      Switch("archive", a1), Switch("restore", a1) }

=============================================================================
