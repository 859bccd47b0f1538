------------------------------ MODULE Installments ------------------------------
(***************************************************************************)
(* The arithmetic of credit card purchases (app/credit/service.py): how an *)
(* amount is split into installments, which of them a payment runs down    *)
(* and in what order (the waterfall), and how an early payment spreads     *)
(* what is left of a purchase over its installments again.                 *)
(*                                                                         *)
(* Amounts count the smallest unit of a currency.  Statement charges,      *)
(* which the waterfall also pays, are left out: nothing in the program     *)
(* creates one.                                                            *)
(***************************************************************************)
EXTENDS Integers, Sequences, FiniteSets, Functions

CONSTANTS
    Cards, Purchases,
    IdOrder,    \* an order of purchases, for installments of the same month
    Rate,       \* the monthly interest of a card, in percent
    Nothing     \* no purchase

ASSUME InstallmentsAssumption ==
    /\ IdOrder \in [Purchases -> Nat]
    /\ \A p, q \in Purchases : IdOrder[p] = IdOrder[q] => p = q
    /\ Rate \in [Cards -> Nat]

\* A table has finitely many rows.
ASSUME FinitePurchases == IsFiniteSet(Purchases)

\* An installment; its total is principal and interest, its month counts from
\* the first one.
Installment ==
    [principal : Int, interest : Int, paid : Int,
     status : {"pending", "partial", "paid"}, month : Nat]

Purchase == [card : Cards, rows : Seq(Installment)]

ASSUME NothingAssumption == Nothing \notin Purchase

\* What the check constraints of the table ask of the installments.
RowsFit(rows) ==
    \A i \in DOMAIN rows : rows[i].principal > 0 /\ rows[i].paid <= rows[i].principal

-----------------------------------------------------------------------------
(* Rounding: quantize rounds a half to even, round_to_minimum_unit up *)

HalfEven(n, d) ==
    LET q == n \div d
        r == 2 * (n % d)
    IN  IF r > d \/ (r = d /\ q % 2 = 1) THEN q + 1 ELSE q

HalfUp(n, d) == IF 2 * (n % d) >= d THEN n \div d + 1 ELSE n \div d

\* _installment_amounts: equal parts; the last takes the rest.
InstallmentAmounts(amount, total) ==
    LET base == HalfEven(amount, total) IN
    [i \in 1 .. total |-> IF i < total THEN base ELSE amount - (total - 1) * base]

\* _build_installments
Built(c, amount, total, month) ==
    LET parts == InstallmentAmounts(amount, total) IN
    [card |-> c,
     rows |-> [i \in 1 .. total |->
                [principal |-> parts[i], interest |-> HalfEven(parts[i] * Rate[c], 100),
                 paid |-> 0, status |-> "pending", month |-> month + i - 1]]]

-----------------------------------------------------------------------------
(* What is owed *)

Slots(ps) ==
    UNION {{<<p, i>> : i \in DOMAIN ps[p].rows} : p \in {q \in Purchases : ps[q] # Nothing}}

At(ps, x) == ps[x[1]].rows[x[2]]

Pending(ps, c) == {x \in Slots(ps) : ps[x[1]].card = c /\ At(ps, x).status # "paid"}

Left(row) == row.principal + row.interest - row.paid

TotalOf(Value(_), S) == SumFunction([x \in S |-> Value(x)])

Debt(ps, c) == LET left(x) == Left(At(ps, x)) IN TotalOf(left, Pending(ps, c))

Interest(ps, S) == LET interest(x) == At(ps, x).interest IN TotalOf(interest, S)

-----------------------------------------------------------------------------
(* The waterfall: a demand is an installment in one of the steps *)

Single(ps, x) == Len(ps[x[1]].rows) = 1

DemandsGreedy(ps, c, month) ==  \* a mutant: later installments are paid too
    LET pending == Pending(ps, c)
        current == {x \in pending : At(ps, x).month = month}
    IN  ({1} \X {x \in pending : At(ps, x).month < month})
        \cup ({2, 4} \X current)
        \cup ({6} \X {x \in pending : At(ps, x).month > month})

Demands(ps, c, month) ==
    LET pending == Pending(ps, c)
        current == {x \in pending : At(ps, x).month = month}
    IN  ({1} \X {x \in pending : At(ps, x).month < month})
        \cup ({2, 4} \X current)
        \cup ({6} \X {x \in pending : At(ps, x).month > month /\ Single(ps, x)})

\* Of the current month the interest comes first, and then what is left.
Asked(ps, d) ==
    LET row == At(ps, d[2])
        interest == IF row.interest > row.paid THEN row.interest - row.paid ELSE 0
    IN  CASE d[1] = 2 -> interest
          [] d[1] = 4 -> Left(row) - interest
          [] OTHER -> Left(row)

Place(ps, d) == <<d[1], At(ps, d[2]).month, d[2][2], IdOrder[d[2][1]]>>

Precedes(ps, d, e) ==
    LET x == Place(ps, d)
        y == Place(ps, e)
    IN  \E k \in 1 .. 4 : x[k] < y[k] /\ \A j \in 1 .. k - 1 : x[j] = y[j]

Given(ps, demands, amount, d) ==
    LET asked(e) == Asked(ps, e)
        rest == amount - TotalOf(asked, {e \in demands : Precedes(ps, e, d)})
    IN  IF rest <= 0 THEN 0 ELSE IF rest <= Asked(ps, d) THEN rest ELSE Asked(ps, d)

\* Nothing of the amount may be left over.
Exhausts(ps, c, month, amount) ==
    LET asked(e) == Asked(ps, e) IN amount <= TotalOf(asked, Demands(ps, c, month))

\* _apply_payment_to_waterfall
PaidDown(ps, c, month, amount) ==
    LET demands == Demands(ps, c, month)
        given(d) == Given(ps, demands, amount, d)
        part(x) == TotalOf(given, {d \in demands : d[2] = x})
        run(row, n) ==
            IF n = 0 THEN row
            ELSE [row EXCEPT !.paid = @ + n,
                             !.status = IF n >= Left(row) THEN "paid" ELSE "partial"]
    IN  [p \in Purchases |->
            IF ps[p] = Nothing \/ ps[p].card # c THEN ps[p]
            ELSE [ps[p] EXCEPT !.rows = [i \in DOMAIN @ |-> run(@[i], part(<<p, i>>))]]]

-----------------------------------------------------------------------------
(* Early payments *)

Unpaid(pur) == {i \in DOMAIN pur.rows : pur.rows[i].status # "paid"}

\* The principal left; interest already paid counts as principal paid.
Remaining(pur) ==
    SumFunction([i \in Unpaid(pur) |-> pur.rows[i].principal - pur.rows[i].paid])

Eligible(pur, month) ==
    /\ Len(pur.rows) > 1
    /\ \E i \in Unpaid(pur) : pur.rows[i].month > month
    /\ Remaining(pur) > 0

\* What is left after the payment, over the installments that are not paid.
Redistributed(pur, amount) ==
    LET unpaid == Unpaid(pur)
        shares == InstallmentAmounts(Remaining(pur) - amount, Cardinality(unpaid))
        spread(row, share) ==
            IF row.paid + share <= 0
            THEN [row EXCEPT !.paid = row.principal, !.status = "paid"]
            ELSE [row EXCEPT !.principal = row.paid + share,
                             !.status = IF share <= 0 THEN "paid" ELSE "pending"]
    IN  [pur EXCEPT !.rows =
            [i \in DOMAIN @ |->
                IF i \notin unpaid THEN @[i]
                ELSE spread(@[i], shares[Cardinality({j \in unpaid : j <= i})])]]

=============================================================================
