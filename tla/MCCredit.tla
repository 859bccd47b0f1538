-------------------------------- MODULE MCCredit --------------------------------
(***************************************************************************)
(* A small instance of Credit for TLC.                                     *)
(***************************************************************************)
EXTENDS CreditProperties

CONSTANTS c1, a1, p1, p2, k1, k2, k3, k4

Buy(p, n, total, k) ==
    [op |-> "purchase", card |-> c1, purchase |-> p, amount |-> n, total |-> total, cmd |-> k]
Repay(n, k) == [op |-> "payment", card |-> c1, acct |-> a1, amount |-> n, cmd |-> k]
Early(op, n, k) ==
    [op |-> op, card |-> c1, acct |-> a1, purchase |-> p1, amount |-> n, cmd |-> k]

MCCards == {c1}
MCAccounts == {a1}
MCPurchases == {p1, p2}
MCOrder == [p \in MCPurchases |-> IF p = p1 THEN 1 ELSE 2]
MCOpening == [a \in MCAccounts |-> 4]
MCLimit == [c \in MCCards |-> 6]
MCRate == [c \in MCCards |-> 50]
MCWorth == [a \in MCAccounts |-> 1]
MCRows == MCCards \cup MCAccounts

\* A purchase in three installments with interest and one in a single one,
\* paid, paid early, previewed, and retried under the same keys.
MCRequests ==
    { Buy(p1, 4, 3, k1), Buy(p2, 2, 1, k2), Repay(3, k3),
      Early("early", 0, k3), Early("early", 2, k4), Early("preview", 0, k1),
      [op |-> "limit", card |-> c1, amount |-> 2], [op |-> "delete", card |-> c1] }

=============================================================================
