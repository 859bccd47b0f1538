---------------------------- MODULE CreditProperties ----------------------------
(***************************************************************************)
(* What Credit must satisfy.                                               *)
(***************************************************************************)
EXTENDS Credit

(***************************************************************************)
(* Rounding can take more than there is: the parts of 3 cents over 5       *)
(* installments are 1, 1, 1, 1 and -1 (_installment_amounts).  A charge    *)
(* like that fits no constraint, but an early payment that leaves it marks *)
(* the last installment as paid, and a cent of debt is made of nothing.    *)
(* Over up to this many installments no part is ever negative.             *)
(***************************************************************************)
EvenlyDivided == 4

DividesEvenly(c) ==
    \A p \in OfCard(purchase, c) : Len(purchase[p].rows) <= EvenlyDivided

\* Installments of the card that are paid, or closed by an early payment.
ClosedSlots(c) ==
    {x \in Slots(purchase) :
        purchase[x[1]].card = c /\ At(purchase, x).status = "paid"}

(***************************************************************************)
(* The debt of a card is what was charged with its interest, less what was *)
(* repaid; only the interest of installments that are closed may have been *)
(* forgiven, never principal, however payments, redistributions, their     *)
(* rounding and their retries raced.  And the account has lost what its    *)
(* events say.                                                             *)
(***************************************************************************)
DebtAddsUp ==
    /\ \A c \in Cards : DividesEvenly(c) =>
         LET closed == Interest(purchase, ClosedSlots(c))
             due == charged[c] + Interest(purchase, Pending(purchase, c)) + closed - repaid[c]
         IN  Debt(purchase, c) \in due - closed .. due
    /\ \A a \in Accounts : balance[a] = Opening[a] - posted[a]

(***************************************************************************)
(* Racing purchases, retries and edits of the card never charge beyond the *)
(* limit the card has when the purchase commits.                           *)
(***************************************************************************)
LimitHolds ==
    [][\A c \in Cards :
         charged'[c] > charged[c] =>
            /\ card[c].active
            /\ Debt(purchase, c) + (charged'[c] - charged[c]) <= card[c].limit]_vars

(***************************************************************************)
(* "Future unbilled installments are strictly protected and never paid     *)
(* automatically": an installment of a later month, of a purchase of       *)
(* several, is left alone by payments; only an early payment of that       *)
(* purchase changes it, and it never changes the number of installments.   *)
(***************************************************************************)
FutureIsProtected ==
    [][\A p \in Purchases : purchase[p] # Nothing =>
         LET rows == purchase[p].rows
             later == {i \in DOMAIN rows : rows[i].month > month}
         IN  /\ DOMAIN purchase'[p].rows = DOMAIN rows
             /\ Len(rows) > 1 =>
                  \A i \in later : purchase'[p].rows[i] # rows[i] =>
                    \E s \in Sessions :
                        Ready(s, "early") /\ req[s].purchase = p /\ pc'[s] = "idle"]_vars

(***************************************************************************)
(* Every request gets an answer, although payments and early payments lock *)
(* account and card in opposite orders.                                    *)
(***************************************************************************)
CreditRequestAnswered == \A s \in Sessions : pc[s] # "idle" ~> pc[s] = "idle"

=============================================================================
