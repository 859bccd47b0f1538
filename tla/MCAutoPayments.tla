----------------------------- MODULE MCAutoPayments -----------------------------
(***************************************************************************)
(* A small instance of AutoPayments for TLC.                               *)
(***************************************************************************)
EXTENDS AutoPaymentProperties

CONSTANTS a1, a2, o1

Only(op) == [op |-> op, obl |-> o1]

MCObligations1 == {o1}
MCAccounts == {a1, a2}
MCOrder == [o \in MCObligations1 |-> 1]
MCOpening == [a \in MCAccounts |-> 1]
MCReserve == [a \in MCAccounts |-> 0]
MCRows == MCObligations1 \cup Accounts \cup {ConfigRow(o) : o \in MCObligations1}

\* A variable obligation of two periods, due on their first day.
MCTerms ==
    [o \in MCObligations1 |->
        [amounts |-> "variable", ends |-> "count", last |-> 2, start |-> 0, offset |-> 0, base |-> 1]]

\* The owner enables, disables and moves the configuration.
MCPuts == [obl : MCObligations1, acct : Accounts, enabled : BOOLEAN]

\* A processor pays it while its owner defines an amount, skips and archives.
MCRequests ==
    {Only("create"), Only("archive"), [op |-> "skip", obl |-> o1, n |-> 1],
     [op |-> "define", obl |-> o1, n |-> 1, amount |-> 1]}
    \cup {AutoRequest(o1, n, a) : n \in 1 .. 3, a \in Accounts}

(***************************************************************************)
(* Bound: two of these in a history: a second edit of the configuration,   *)
(* which the first may overlap; a configuration moved to the other account *)
(* (by the second edit); money spent from that account; an exception or a  *)
(* kill; an account archived; a period skipped; the obligation archived.   *)
(* All of them are begun by actions without fairness, so that the bound    *)
(* hides no step the code has to take.                                     *)
(***************************************************************************)
Asks(op) == \E c \in Clients : req[c] # Nothing /\ req[c].op = op

Skipped ==
    \E n \in Existing(obligation[o1]) : obligation[o1].periods[n].status = "skipped"

Moved ==
    \/ config[o1] # Nothing /\ config[o1].acct = a2
    \/ \E k \in DOMAIN puts : puts[k] # Sent /\ puts[k].row.acct = a2

Disturbances ==
    LET count(happened) == IF happened THEN 1 ELSE 0 IN
    count(Len(puts) > 1) + count(Moved) + count(spent[a2] > 0) + count(faults > 0)
        + count(\E a \in Accounts : ~open[a])
        + count(Asks("skip") \/ Skipped)
        + count(Asks("archive") \/ obligation[o1].status = "archived")

MCFewDisturbances == Disturbances' <= 2 /\ (Moved' => Len(puts') > 1)

=============================================================================
