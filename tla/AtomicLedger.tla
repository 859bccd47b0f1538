----------------------------- MODULE AtomicLedger -----------------------------
(***************************************************************************)
(* What the accounts, cash and transfers services promise to their         *)
(* clients: money moves as if requests were served one at a time, each in  *)
(* a single step that finds its key unused, its accounts open and its      *)
(* source funded, and that changes the balances by exactly what it posts   *)
(* to the ledger under that key.  Retries change nothing.                  *)
(*                                                                         *)
(* An adjustment is the exception the code makes: it moves the balance to  *)
(* its target even under a used key, and then posts nothing.               *)
(***************************************************************************)
EXTENDS MoneyRequests

CONSTANTS Opening, Reserve, Nothing

VARIABLES balance, active, reserved, recorded

vars == <<balance, active, reserved, recorded>>

Init ==
    /\ balance = Opening
    /\ active = [a \in Accounts |-> TRUE]
    /\ reserved = Reserve
    /\ recorded = [k \in Keys |-> Nothing]

Move(r) ==
    LET post == Posting(r, balance) IN
    /\ r.op \in MoveOps
    /\ \A a \in Touched(r) : active[a]
    /\ recorded[KeyOf(r)] = Nothing
    /\ Funded(r, balance)
    /\ r.op = "adjust" => r.amount >= reserved[r.acct]
    /\ balance' = [a \in Accounts |-> balance[a] + post[a]]
    /\ recorded' = [recorded EXCEPT ![KeyOf(r)] = [req |-> r, post |-> post]]
    /\ UNCHANGED <<active, reserved>>

AdjustAgain(r) ==
    /\ r.op = "adjust"
    /\ active[r.acct]
    /\ recorded[KeyOf(r)] # Nothing
    /\ r.amount >= reserved[r.acct]
    /\ balance' = [balance EXCEPT ![r.acct] = r.amount]
    /\ UNCHANGED <<active, reserved, recorded>>

Flip(a) ==
    /\ active' = [active EXCEPT ![a] = ~active[a]]
    /\ UNCHANGED <<balance, reserved, recorded>>

Next ==
    \/ \E r \in Requests : Move(r) \/ AdjustAgain(r)
    \/ \E a \in Accounts : Flip(a)

Spec == Init /\ [][Next]_vars

=============================================================================
