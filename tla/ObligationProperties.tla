-------------------------- MODULE ObligationProperties --------------------------
(***************************************************************************)
(* What Obligations must satisfy.                                          *)
(***************************************************************************)
EXTENDS Obligations

(***************************************************************************)
(* Accounts, ledger, payments and periods tell one story, whichever API    *)
(* served the payments and however they raced: an account has lost what    *)
(* its events say, all that payments took is applied to periods, a period  *)
(* has received what its payments say, and its status is the one this      *)
(* money asks for.                                                         *)
(***************************************************************************)
StatusFits(p) ==
    CASE p.status = "paid"                      -> p.paid = p.amount /\ p.paid > 0
      [] p.status = "partially_paid"            -> 0 < p.paid /\ p.paid < p.amount
      [] p.status \in {"pending_payment", "overdue"} -> p.paid < p.amount
      [] p.status = "cancelled"                 -> p.paid = 0
      [] p.status = "pending_amount_definition" -> p = [Absent EXCEPT !.status = p.status]
      [] OTHER                                  -> p.paid <= p.amount

MoneyAddsUp ==
    /\ \A a \in Accounts : balance[a] = Opening[a] - posted[a] - spent[a]
    /\ SumFunction(posted) = SumFunction([o \in Obligations |-> SumFunction(applied[o])])
    /\ \A o \in Obligations : \A n \in Numbers :
         LET p == obligation[o].periods[n] IN p.paid = applied[o][n] /\ StatusFits(p)

(***************************************************************************)
(* The life cycle of an obligation agrees with its periods: it is          *)
(* completed exactly when nothing is left to pay now or later, whichever   *)
(* payment, skip or cancellation came last; periods are created without    *)
(* gaps and never beyond end_count or end_date.                            *)
(***************************************************************************)
LifeCycleIsSound ==
    \A o \in Obligations :
        LET ob == obligation[o]
            there == Existing(ob)
        IN  /\ ob.status = "completed" => Settled(o, ob)
            /\ ob.status = "active" => ~Settled(o, ob)
            /\ \A n \in there : 1 .. n \subseteq there
            /\ Terms[o].ends = "once" => there \subseteq {1}
            /\ Terms[o].ends = "count" => there \subseteq 1 .. Terms[o].last
            /\ Terms[o].ends = "date" =>
                 \A n \in there \ {1} : StartOf(o, n) <= Terms[o].last

(***************************************************************************)
(* A client told that its payment is done finds it recorded under its key, *)
(* and it is that payment and no other, though two sessions raced with the *)
(* key on different obligations or through different operations.           *)
(***************************************************************************)
PaymentSuccessIsOwn == \A r \in told : Keyed(r) => recorded[KeyOf(r)] = r

(***************************************************************************)
(* What is closed stays: a paid, skipped or cancelled period is never      *)
(* opened, charged or repriced again, a partly paid one keeps its price    *)
(* under the current API, and a completed or cancelled obligation stays so.*)
(***************************************************************************)
HistoryIsKept ==
    [][\A o \in Obligations :
         /\ obligation[o].status \in {"completed", "cancelled"} =>
              obligation'[o].status = obligation[o].status
         /\ \A n \in Numbers :
              LET p == obligation[o].periods[n]
                  q == obligation'[o].periods[n]
              IN  /\ p.status \in Closed => q.status \in Closed
                                            /\ q.amount = p.amount /\ q.paid = p.paid
                  /\ p.paid > 0 /\ q.amount # p.amount =>
                       Terms[o].amounts = "variable" /\ q.amount >= p.paid]_vars

(***************************************************************************)
(* Payments lock an obligation and then an account, the batch refresh all  *)
(* obligations of a user in the order of their ids: sessions never wait    *)
(* for each other in a circle.                                             *)
(***************************************************************************)
WaitsFor(s, t) ==
    /\ s # t
    /\ \/ pc[s] = "root" /\ todo[s] # {} /\ lock[NextRoot(s)] = t
       \/ AtRoot(s) /\ req[s].op \in PayOps /\ lock[req[s].acct] = t

NoObligationCircularWait ==
    \A S \in SUBSET Sessions :
        S # {} => \E s \in S : \A t \in S : ~WaitsFor(s, t)

(***************************************************************************)
(* A payment split over periods takes the oldest first: no period receives *)
(* money while one that was due before it is left payable, although the    *)
(* older API orders by status and the current one by due day.              *)
(***************************************************************************)
OldestFirst ==
    [][\A s \in Sessions :
         req[s] # Nothing /\ req[s].op \in PayOps \ SingleOps =>
            LET o == req[s].obl IN
            \A n \in Numbers : pc'[s] = "idle" /\ applied'[o][n] > applied[o][n] =>
                \A m \in Numbers : m < n =>
                    obligation'[o].periods[m].status \notin Payable]_vars

=============================================================================
