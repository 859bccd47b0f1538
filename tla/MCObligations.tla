----------------------------- MODULE MCObligations -----------------------------
(***************************************************************************)
(* A small instance of Obligations for TLC.                                *)
(***************************************************************************)
EXTENDS ObligationProperties

CONSTANTS a1, o1, o2, k1, k2

Edit1(op, o) == [op |-> op, obl |-> o]
OnPeriod(op, o, n) == [op |-> op, obl |-> o, n |-> n]
Define(op, o, n, x) == [op |-> op, obl |-> o, n |-> n, amount |-> x]
PayOne(op, o, n, x, k) == [op |-> op, obl |-> o, n |-> n, acct |-> a1, amount |-> x, cmd |-> k]
PaySplit(op, o, x, k) == [op |-> op, obl |-> o, acct |-> a1, amount |-> x, cmd |-> k]

MCObligations1 == {o1, o2}
MCAccounts == {a1}
MCOrder == [o \in MCObligations1 |-> IF o = o1 THEN 1 ELSE 2]
MCOpening == [a \in MCAccounts |-> 4]
MCReserve == [a \in MCAccounts |-> 1]
MCRows == MCObligations1 \cup MCAccounts

\* A fixed obligation of two periods, due on their first day, and a variable
\* one that is paid once.
MCTerms ==
    [o \in MCObligations1 |->
        IF o = o1
        THEN [amounts |-> "fixed", ends |-> "count", last |-> 2, start |-> 0, offset |-> 0, base |-> 2]
        ELSE [amounts |-> "variable", ends |-> "once", last |-> 0, start |-> 0, offset |-> 0, base |-> 1]]

\* Payments by both APIs, keys shared between obligations and operations,
\* against a skip, an archival and the batch refresh.
MCRequests ==
    { Edit1("create", o1), Edit1("create", o2), Edit1("archive", o1),
      Define("define", o2, 1, 1), OnPeriod("skip", o1, 1),
      PayOne("pay", o1, 1, 1, k1), PaySplit("fifo", o1, 3, k1), PaySplit("smart", o1, 3, k1), PayOne("pay", o2, 1, 1, k1),
      PaySplit("old_fifo", o1, 0, NoCmd), PayOne("old_pay", o2, 1, 1, k1),
      [op |-> "rebase", obl |-> o1, amount |-> 1], [op |-> "refresh_all"] }

=============================================================================
