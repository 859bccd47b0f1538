-------------------------------- MODULE MCFx --------------------------------
(***************************************************************************)
(* Small instances of FxQuotes for TLC: a dollar account pays a bill in    *)
(* pesos, a peso account a bill in dollars.                                *)
(***************************************************************************)
EXTENDS FxProperties

CONSTANTS dollars, pesos, rent, school

MCAccounts == {dollars, pesos}
MCBills == {rent, school}
MCCurrencyOf ==
    [x \in MCAccounts \cup MCBills |-> IF x \in {dollars, school} THEN "USD" ELSE "COP"]
MCOpening == [a \in MCAccounts |-> IF a = dollars THEN 70 ELSE 2100]
MCOwed == [b \in MCBills |-> IF b = rent THEN <<333, 670>> ELSE <<7, 7, 60>>]
MCUnit == [c \in {"USD", "COP"} |-> IF c = "COP" THEN 10 ELSE 1]

=============================================================================
