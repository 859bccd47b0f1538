---------------------------- MODULE MoneyRequests ----------------------------
(***************************************************************************)
(* The commands a client sends to the accounts, cash and transfers         *)
(* services, and what each one does to the balances: the part of the code  *)
(* that is arithmetic on a request, shared by the concurrent model         *)
(* (LedgerMoves) and by the atomic specification it implements             *)
(* (AtomicLedger).                                                         *)
(*                                                                         *)
(* A request is a record.  All of them have op and acct; those that move   *)
(* money have amount (for an adjustment the target balance) and cmd, the   *)
(* idempotency key; a transfer has its destination in to.                  *)
(***************************************************************************)
EXTENDS Integers

CONSTANTS
    Accounts,   \* rows of the accounts table
    Commands,   \* idempotency keys (UUIDs chosen by the clients)
    Requests    \* the requests that clients may send, each any number of times

CashOps == {"income", "expense"}
MoveOps == CashOps \cup {"transfer", "adjust"}
FlipOps == {"archive", "restore"}

ASSUME RequestsAssumption ==
    /\ \A r \in Requests : r.acct \in Accounts
    /\ \A r \in Requests : r.op \in MoveOps => r.amount \in Nat /\ r.cmd \in Commands
    /\ \A r \in Requests : r.op \in MoveOps \ {"adjust"} => r.amount > 0
    /\ \A r \in Requests : r.op = "transfer" => r.to \in Accounts /\ r.to # r.acct

(***************************************************************************)
(* Two tables carry a unique index on command_id: financial_events (cash   *)
(* movements, adjustments, goal movements) and transfers.                  *)
(***************************************************************************)
Keys == {"event", "transfer"} \X Commands

KeyOf(r) == <<IF r.op = "transfer" THEN "transfer" ELSE "event", r.cmd>>

\* The account rows that a money movement locks, checks and writes.
Touched(r) == IF r.op = "transfer" THEN {r.acct, r.to} ELSE {r.acct}

(***************************************************************************)
(* The signed amounts of the ledger events that request r inserts when it  *)
(* finds the balances bal: INFLOW counts positive, OUTFLOW negative.  An   *)
(* adjustment posts the distance to its target.                            *)
(***************************************************************************)
Posting(r, bal) ==
    [a \in Accounts |->
        CASE r.op = "income"   /\ a = r.acct -> r.amount
          [] r.op = "expense"  /\ a = r.acct -> -r.amount
          [] r.op = "transfer" /\ a = r.acct -> -r.amount
          [] r.op = "transfer" /\ a = r.to   -> r.amount
          [] r.op = "adjust"   /\ a = r.acct -> r.amount - bal[r.acct]
          [] OTHER -> 0]

FundedExpense(r, bal) ==    \* a mutant: transfers are not checked
    r.op = "expense" => bal[r.acct] >= r.amount

(***************************************************************************)
(* The funds the code asks for before it lets r out: the gross balance of  *)
(* the source account, goal reserves included.                             *)
(***************************************************************************)
Funded(r, bal) ==
    r.op \in {"expense", "transfer"} => bal[r.acct] >= r.amount

=============================================================================
