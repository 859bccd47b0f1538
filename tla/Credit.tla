-------------------------------- MODULE Credit --------------------------------
(***************************************************************************)
(* Credit cards served concurrently (app/credit/service.py, router.py):    *)
(* purchases against a limit, payments, early payments and their preview,  *)
(* and edits of a card, in one transaction each.                           *)
(*                                                                         *)
(* A payment locks the account first and then the card; everything else    *)
(* locks the card first and then, where it reads one, the account.  The    *)
(* database ends the circle two of them can form by aborting one.          *)
(* Installments are locked as well, always by the holder of their card, so *)
(* that they share its lock here.  What a session read under the lock of   *)
(* the card is in seen, and its commit writes rows computed from that.     *)
(* Accounts stay open here; Obligations has payments from archived ones.   *)
(***************************************************************************)
EXTENDS Installments, RowLocks

CONSTANTS
    Accounts,
    Opening,    \* opening balances
    Limit,      \* the limits the cards are created with
    Worth,      \* units of an account for one of a card: their currencies
    Horizon,    \* bound: the last month
    Requests    \* the requests clients may send, each any number of times

EventOps == {"purchase", "payment", "early"}

\* Both endpoints take the client's key for the command id of the event.
Keys == {r.cmd : r \in {q \in Requests : q.op \in EventOps}}

ASSUME CreditAssumption ==
    /\ Opening \in [Accounts -> Nat] /\ Limit \in [Cards -> Nat]
    /\ Worth \in [Accounts -> Nat \ {0}]
    /\ Horizon \in Nat
    /\ Cards \cup Accounts \subseteq Rows
    /\ Nothing \notin Requests
    /\ \A r \in Requests :
         /\ r.op \in EventOps \cup {"preview", "limit", "delete"}
         /\ r.card \in Cards
         /\ r.op # "delete" => r.amount \in Nat
         /\ r.op \in {"purchase", "payment"} => r.amount > 0
         /\ r.op = "purchase" => r.total \in Nat \ {0}
         /\ r.op \in {"purchase", "early", "preview"} => r.purchase \in Purchases
         /\ r.op \in {"payment", "early", "preview"} => r.acct \in Accounts
    /\ \A q, r \in Requests :   \* ids of transactions are new
         q.op = "purchase" /\ r.op = "purchase" /\ q.purchase = r.purchase => q.cmd = r.cmd

VARIABLES
    month,      \* the month the calendar shows
    card,       \* limit and is_active of the cards
    purchase,   \* the purchases with their installments, or Nothing
    balance,    \* accounts.balance
    charged,    \* what the purchases recorded for a card add up to
    repaid,     \* what the payments recorded for a card add up to
    posted,     \* what the events recorded for an account add up to
    recorded,   \* the request recorded under each key, or Nothing
    pc, req,    \* where each session is, in which request
    seen        \* the purchases as it read them under the lock of its card

tableVars == <<card, purchase, balance, charged, repaid, posted, recorded>>
sessionVars == <<lock, pc, req, seen>>
vars == <<month, tableVars, sessionVars>>

\* The type invariant, with the check constraints of the tables.
CreditTypeOK ==
    /\ LockTypeOK
    /\ month \in 0 .. Horizon
    /\ card \in [Cards -> [limit : Nat, active : BOOLEAN]]
    /\ \A p \in Purchases : purchase[p] # Nothing =>
         purchase[p] \in Purchase /\ RowsFit(purchase[p].rows)
    /\ balance \in [Accounts -> Nat]
    /\ charged \in [Cards -> Nat] /\ repaid \in [Cards -> Nat]
    /\ posted \in [Accounts -> Nat]
    /\ recorded \in [Keys -> Requests \cup {Nothing}]
    /\ pc \in [Sessions -> {"idle", "first", "second", "ready"}]
    /\ req \in [Sessions -> Requests \cup {Nothing}]

NoPurchases == [p \in Purchases |-> Nothing]

Init ==
    /\ month = 0
    /\ card = [c \in Cards |-> [limit |-> Limit[c], active |-> TRUE]]
    /\ purchase = NoPurchases
    /\ balance = Opening
    /\ charged = [c \in Cards |-> 0]
    /\ repaid = [c \in Cards |-> 0]
    /\ posted = [a \in Accounts |-> 0]
    /\ recorded = [k \in Keys |-> Nothing]
    /\ LockInit
    /\ pc = [s \in Sessions |-> "idle"]
    /\ req = [s \in Sessions |-> Nothing]
    /\ seen = [s \in Sessions |-> NoPurchases]

-----------------------------------------------------------------------------
(* Sessions and their locks *)

Leave(s) ==
    /\ ReleaseAll(s)
    /\ pc' = [pc EXCEPT ![s] = "idle"]
    /\ req' = [req EXCEPT ![s] = Nothing]
    /\ seen' = [seen EXCEPT ![s] = NoPurchases]

\* A client learns the id of a purchase when it is recorded.
Begin(s, r) ==
    /\ pc[s] = "idle"
    /\ r.op \in {"early", "preview"} => purchase[r.purchase] # Nothing
    /\ pc' = [pc EXCEPT ![s] = "first"]
    /\ req' = [req EXCEPT ![s] = r]
    /\ UNCHANGED <<month, tableVars, lock, seen>>

FirstRow(r) == IF r.op = "payment" THEN r.acct ELSE r.card

SecondRow(r) == IF r.op = "payment" THEN r.card ELSE r.acct

NeedsBoth(r) == r.op \in {"payment", "early", "preview"}

\* The pending installments are read, and locked, after their card.
Read(s, row) ==
    seen' = IF row \in Cards THEN [seen EXCEPT ![s] = purchase] ELSE seen

OpenCard(s) == card[req[s].card].active

MayPayAny(s) == TRUE    \* a mutant: the balance is not checked

MayPay(s) == req[s].op = "payment" => balance[req[s].acct] >= req[s].amount

\* An early payment, or its preview, whose purchase is not eligible under the
\* lock of the card; this is decided once, whatever the month once the account is locked.
EndsEarly(s) ==
    LET r == req[s] IN
    /\ r.op \in {"early", "preview"}
    /\ \/ ~OpenCard(s)
       \/ purchase[r.purchase].card # r.card
       \/ ~Eligible(purchase[r.purchase], month)

LockFirstRead(s) ==     \* a mutant: the first row is read without its lock
    /\ pc[s] = "first"
    /\ ~EndsEarly(s)
    /\ Read(s, FirstRow(req[s]))
    /\ pc' = [pc EXCEPT ![s] = IF NeedsBoth(req[s]) THEN "second" ELSE "ready"]
    /\ UNCHANGED <<month, tableVars, lock, req>>

LockFirst(s) ==
    LET row == FirstRow(req[s]) IN
    /\ pc[s] = "first"
    /\ ~EndsEarly(s)
    /\ Available(s, row)
    /\ Take(s, row)
    /\ Read(s, row)
    /\ pc' = [pc EXCEPT ![s] = IF NeedsBoth(req[s]) THEN "second" ELSE "ready"]
    /\ UNCHANGED <<month, tableVars, req>>

LockSecond(s) ==
    LET row == SecondRow(req[s]) IN
    /\ pc[s] = "second"
    /\ MayPay(s)
    /\ Available(s, row)
    /\ Take(s, row)
    /\ Read(s, row)
    /\ pc' = [pc EXCEPT ![s] = "ready"]
    /\ UNCHANGED <<month, tableVars, req>>

-----------------------------------------------------------------------------
(* Amounts: of the source account, and applied to the card *)

Applied(s) ==
    LET r == req[s] IN
    IF r.amount = 0 THEN Remaining(seen[s][r.purchase]) ELSE HalfUp(r.amount, Worth[r.acct])

Source(s) == IF req[s].amount = 0 THEN Applied(s) * Worth[req[s].acct] ELSE req[s].amount

WithinLimitEach(s) ==   \* a mutant: the debt is not deducted
    OpenCard(s) /\ req[s].amount <= card[req[s].card].limit

(***************************************************************************)
(* What the code checks before it inserts the event.  The limit and the    *)
(* debt are checked even if the key is already recorded, so that the retry *)
(* of a request that succeeded can be refused.                             *)
(***************************************************************************)
WithinLimit(s) ==
    /\ OpenCard(s)
    /\ Debt(seen[s], req[s].card) + req[s].amount <= card[req[s].card].limit

WithinDebt(s) == OpenCard(s) /\ Applied(s) <= Debt(seen[s], req[s].card)

WithinPurchase(s) ==
    /\ balance[req[s].acct] >= Source(s)
    /\ Applied(s) <= Remaining(seen[s][req[s].purchase])

Accepted(s) ==
    CASE req[s].op = "purchase" -> WithinLimit(s)
      [] req[s].op = "payment"  -> WithinDebt(s)
      [] req[s].op = "early"    -> WithinPurchase(s)

Fresh(s) == recorded[req[s].cmd] = Nothing

\* The purchases of the card as the session writes them.
Written(s) ==
    LET r == req[s] IN
    CASE r.op = "purchase" ->
           [seen[s] EXCEPT ![r.purchase] = Built(r.card, r.amount, r.total, month)]
      [] r.op = "payment" -> PaidDown(seen[s], r.card, month, Applied(s))
      [] r.op = "early" ->
           [seen[s] EXCEPT ![r.purchase] = Redistributed(@, Applied(s))]

OfCard(ps, c) == {p \in Purchases : ps[p] # Nothing /\ ps[p].card = c}

\* The check constraints, of installments and of credit_card_transactions.
Fits(s) ==
    /\ \A p \in OfCard(Written(s), req[s].card) : RowsFit(Written(s)[p].rows)
    /\ req[s].op = "payment" => Applied(s) > 0

Writable(s) ==
    /\ req[s].op = "payment" => Exhausts(seen[s], req[s].card, month, Applied(s))
    /\ Fits(s)

Write(s) ==
    LET c == req[s].card IN
    purchase' = [p \in Purchases |->
                    IF p \in OfCard(Written(s), c) THEN Written(s)[p] ELSE purchase[p]]

Ready(s, op) == pc[s] = "ready" /\ req[s].op = op

-----------------------------------------------------------------------------
(* Operations *)

Charge(s) ==
    /\ Ready(s, "purchase")
    /\ Accepted(s) /\ Fresh(s) /\ Writable(s)
    /\ Write(s)
    /\ charged' = [charged EXCEPT ![req[s].card] = @ + req[s].amount]
    /\ recorded' = [recorded EXCEPT ![req[s].cmd] = req[s]]
    /\ Leave(s)
    /\ UNCHANGED <<month, card, balance, repaid, posted>>

\* create_payment and create_early_payment: debit, event and installments.
Pay(s) ==
    /\ pc[s] = "ready" /\ req[s].op \in {"payment", "early"}
    /\ Accepted(s) /\ Fresh(s) /\ Writable(s)
    /\ Write(s)
    /\ balance' = [balance EXCEPT ![req[s].acct] = @ - Source(s)]
    /\ posted' = [posted EXCEPT ![req[s].acct] = @ + Source(s)]
    /\ repaid' = [repaid EXCEPT ![req[s].card] = @ + Applied(s)]
    /\ recorded' = [recorded EXCEPT ![req[s].cmd] = req[s]]
    /\ Leave(s)
    /\ UNCHANGED <<month, card, charged>>

\* The key is recorded: what is stored under it is answered.
Replay(s) ==
    /\ pc[s] = "ready" /\ req[s].op \in EventOps
    /\ Accepted(s) /\ ~Fresh(s)
    /\ Leave(s)
    /\ UNCHANGED <<month, tableVars>>

PreviewOpen(s) ==       \* a mutant: a preview without a transaction of its own
    /\ Ready(s, "preview")
    /\ pc' = [pc EXCEPT ![s] = "idle"]
    /\ req' = [req EXCEPT ![s] = Nothing]
    /\ seen' = [seen EXCEPT ![s] = NoPurchases]
    /\ UNCHANGED <<month, tableVars, lock>>

\* A preview locks what an early payment locks, and changes nothing.
Preview(s) ==
    /\ Ready(s, "preview")
    /\ Leave(s)
    /\ UNCHANGED <<month, tableVars>>

\* update_card; the limit may fall below the debt.  It can also change the
\* monthly rate of the card, which is a constant here, and is_active, as Delete
\* does; nothing makes a card active again.
SetLimit(s) ==
    /\ Ready(s, "limit")
    /\ OpenCard(s)
    /\ card' = [card EXCEPT ![req[s].card].limit = req[s].amount]
    /\ Leave(s)
    /\ UNCHANGED <<month, purchase, balance, charged, repaid, posted, recorded>>

Delete(s) ==
    /\ Ready(s, "delete")
    /\ OpenCard(s)
    /\ card' = [card EXCEPT ![req[s].card].active = FALSE]
    /\ Leave(s)
    /\ UNCHANGED <<month, purchase, balance, charged, repaid, posted, recorded>>

Refused(s) ==
    \/ pc[s] = "first" /\ EndsEarly(s) /\ Available(s, req[s].card)
    \/ pc[s] = "second" /\ ~MayPay(s)
    \/ /\ pc[s] = "ready"
       /\ CASE req[s].op \in EventOps -> ~Accepted(s) \/ (Fresh(s) /\ ~Writable(s))
            [] req[s].op \in {"limit", "delete"} -> ~OpenCard(s)
            [] OTHER -> FALSE

\* An error answer: the transaction is rolled back.
Refuse(s) ==
    /\ Refused(s)
    /\ Leave(s)
    /\ UNCHANGED <<month, tableVars>>

\* A lost connection, a timeout, an exception: rollback, and no answer.
Fail(s) ==
    /\ pc[s] # "idle"
    /\ Leave(s)
    /\ UNCHANGED <<month, tableVars>>

WaitsFor(s, t) ==
    /\ s # t
    /\ \/ pc[s] = "first" /\ lock[FirstRow(req[s])] = t
       \/ pc[s] = "second" /\ lock[SecondRow(req[s])] = t

\* PostgreSQL aborts one of the sessions that wait for each other.
Deadlock(s) ==
    /\ \E t \in Sessions : WaitsFor(s, t) /\ WaitsFor(t, s)
    /\ Leave(s)
    /\ UNCHANGED <<month, tableVars>>

NextMonth ==
    /\ month < Horizon
    /\ month' = month + 1
    /\ UNCHANGED <<tableVars, sessionVars>>

-----------------------------------------------------------------------------
Serve(s) ==
    \/ LockFirst(s) \/ LockSecond(s) \/ Charge(s) \/ Pay(s) \/ Replay(s)
    \/ Preview(s) \/ SetLimit(s) \/ Delete(s) \/ Refuse(s)

SessionStep(s) ==
    \/ \E r \in Requests : Begin(s, r)
    \/ Serve(s) \/ Fail(s) \/ Deadlock(s)

Next == (\E s \in Sessions : SessionStep(s)) \/ NextMonth

Spec == Init /\ [][Next]_vars

(***************************************************************************)
(* Open requests are served, waiters are not overtaken for ever, and the   *)
(* database finds a deadlock that lasts (deadlock_timeout).                *)
(***************************************************************************)
FairSpec ==
    Spec /\ \A s \in Sessions : SF_vars(Serve(s)) /\ WF_vars(Deadlock(s))

=============================================================================
