------------------------------ MODULE Obligations ------------------------------
(***************************************************************************)
(* Requests on obligations served concurrently: creation, edits, refreshes *)
(* and payments by the current API (app/obligations/service_v17.py) and by *)
(* the older one (app/obligations/service.py), over accounts that other    *)
(* services spend from.                                                    *)
(*                                                                         *)
(* A session locks the obligation it works on, the account if it pays, and *)
(* only then decides; its writes appear when it commits.  Periods are      *)
(* locked as well, always by the holder of their obligation, so that they  *)
(* share its lock here.  What a session read under a lock is in seen and   *)
(* funds, and its commit writes rows computed from those.  A session may   *)
(* be lost at any point.                                                   *)
(*                                                                         *)
(* A payment looks for its key before it locks, again under the lock of    *)
(* the obligation, and meets the unique index of financial_events when it  *)
(* inserts.  The tables of payments and of ledger events appear as what    *)
(* they add up to: applied by period, posted by account.                   *)
(***************************************************************************)
EXTENDS ObligationPeriods, RowLocks

CONSTANTS
    Accounts,
    IdOrder,    \* the order of obligation ids
    Opening,    \* opening balances
    Reserve,    \* what goals hold of each account
    Closable,   \* bound: the accounts that may be archived
    Requests,   \* the requests clients may send, each any number of times
    NoCmd,      \* a payment of the older API without a source message
    Nothing     \* no row, no request

V17PayOps == {"pay", "fifo", "smart"}
PayOps == V17PayOps \cup {"old_pay", "old_fifo", "auto"}
EditOps == {"create", "archive", "resume", "stop", "rebase", "refresh", "define",
            "skip", "cancel", "old_define", "old_skip"}

Payments == {r \in Requests : r.op \in PayOps}

(***************************************************************************)
(* The key of a payment: both APIs derive the command id of the event from *)
(* the client's key or message, and the automatic payments from the        *)
(* obligation and the period, each in a namespace of its own.              *)
(***************************************************************************)
KeyOf(r) ==
    <<CASE r.op \in V17PayOps -> "v17" [] r.op = "auto" -> "auto" [] OTHER -> "old", r.cmd>>

Keyed(r) == r.cmd # NoCmd

Keys == {KeyOf(r) : r \in {p \in Payments : Keyed(p)}}

ASSUME ObligationsAssumption ==
    /\ IdOrder \in [Obligations -> Nat]
    /\ \A o, p \in Obligations : IdOrder[o] = IdOrder[p] => o = p
    /\ Opening \in [Accounts -> Nat] /\ Reserve \in [Accounts -> Nat]
    /\ Closable \subseteq Accounts
    /\ Obligations \cup Accounts \subseteq Rows /\ Obligations \cap Accounts = {}
    /\ Nothing \notin Requests \cup Row
    /\ \A r \in Requests :
         /\ r.op \in PayOps \cup EditOps \cup {"refresh_all"}
         /\ r.op # "refresh_all" => r.obl \in Obligations
         /\ r.op \in PayOps => r.acct \in Accounts /\ r.amount \in Nat
         /\ r.op \in V17PayOps => Keyed(r) /\ r.amount > 0
         /\ r.op \in SingleOps \cup {"define", "skip", "cancel", "old_define", "old_skip"} =>
              r.n \in Numbers
         /\ r.op = "auto" => Keyed(r) /\ r.amount = 0
         /\ r.op \in {"rebase", "define", "old_define"} => r.amount \in Nat \ {0}

\* Tables hold finitely many rows.
ASSUME FiniteTables == IsFiniteSet(Obligations) /\ IsFiniteSet(Accounts)

VARIABLES
    today,      \* financial_date()
    obligation, \* the rows of obligations and obligation_periods
    balance,    \* accounts.balance
    open,       \* accounts.is_active
    applied,    \* what the payments recorded for each period add up to
    posted,     \* what the events of payments add up to, by account
    spent,      \* what other services have spent, by account
    recorded,   \* the payment recorded under each key, or Nothing
    told,       \* the payments whose clients were answered "done"
    pc, req,    \* where each session is, in which request
    todo,       \* the obligations it has still to lock
    seen,       \* the obligations it has locked, as it read them
    funds       \* the balance of the account it has locked

tableVars == <<obligation, balance, open, applied, posted, spent, recorded, told>>
sessionVars == <<lock, pc, req, todo, seen, funds>>
vars == <<today, tableVars, sessionVars>>

(***************************************************************************)
(* The type invariant, with what the check constraint of the periods       *)
(* demands, that nothing is paid beyond the amount.                        *)
(***************************************************************************)
ObligationsTypeOK ==
    /\ LockTypeOK
    /\ today \in Days
    /\ obligation \in [Obligations -> Row]
    /\ \A o \in Obligations : \A n \in Numbers : Remaining(obligation[o], n) >= 0
    /\ balance \in [Accounts -> Int]
    /\ open \in [Accounts -> BOOLEAN]
    /\ applied \in [Obligations -> [Numbers -> Nat]]
    /\ posted \in [Accounts -> Nat] /\ spent \in [Accounts -> Nat]
    /\ recorded \in [Keys -> Payments \cup {Nothing}]
    /\ told \subseteq Payments
    /\ pc \in [Sessions -> {"idle", "root", "account"}]
    /\ req \in [Sessions -> Requests \cup {Nothing}]
    /\ todo \in [Sessions -> SUBSET Obligations]
    /\ seen \in [Sessions -> [Obligations -> Row \cup {Nothing}]]
    /\ funds \in [Sessions -> Int]

NoneSeen == [o \in Obligations |-> Nothing]

Init ==
    /\ today = 0
    /\ obligation = [o \in Obligations |-> NoRow]
    /\ balance = Opening
    /\ open = [a \in Accounts |-> TRUE]
    /\ applied = [o \in Obligations |-> [n \in Numbers |-> 0]]
    /\ posted = [a \in Accounts |-> 0]
    /\ spent = [a \in Accounts |-> 0]
    /\ recorded = [k \in Keys |-> Nothing]
    /\ told = {}
    /\ LockInit
    /\ pc = [s \in Sessions |-> "idle"]
    /\ req = [s \in Sessions |-> Nothing]
    /\ todo = [s \in Sessions |-> {}]
    /\ seen = [s \in Sessions |-> NoneSeen]
    /\ funds = [s \in Sessions |-> 0]

-----------------------------------------------------------------------------
(* Sessions and their locks *)

Leave(s) ==
    /\ ReleaseAll(s)
    /\ pc' = [pc EXCEPT ![s] = "idle"]
    /\ req' = [req EXCEPT ![s] = Nothing]
    /\ todo' = [todo EXCEPT ![s] = {}]
    /\ seen' = [seen EXCEPT ![s] = NoneSeen]
    /\ funds' = [funds EXCEPT ![s] = 0]

\* A payment without a key cannot be asked about again.
Tell(r) == told' = IF Keyed(r) THEN told \cup {r} ELSE told

RecordedAs(r) == IF Keyed(r) THEN recorded[KeyOf(r)] ELSE Nothing

SameKey(old, r) == TRUE     \* a mutant: the fingerprint is not compared

Same(old, r) == old = r

\* The key is known before anything is locked: the stored payment is answered.
EarlyReplay(s, r) ==
    /\ pc[s] = "idle"
    /\ r.op \in V17PayOps
    /\ RecordedAs(r) # Nothing
    /\ Same(RecordedAs(r), r)
    /\ Tell(r)
    /\ UNCHANGED <<today, obligation, balance, open, applied, posted, spent, recorded, sessionVars>>

\* The obligations a request locks; the batch refresh, all that are active.
Roots(r) ==
    IF r.op = "refresh_all" THEN {o \in Obligations : obligation[o].status = "active"}
    ELSE {r.obl}

\* A client learns the id of an obligation, a new UUID, when it is created.
Begin(s, r) ==
    /\ pc[s] = "idle"
    /\ r.op # "auto"
    /\ r.op # "refresh_all" => (r.op = "create" <=> obligation[r.obl].status = "none")
    /\ r.op \in V17PayOps => RecordedAs(r) = Nothing
    /\ Roots(r) # {}
    /\ pc' = [pc EXCEPT ![s] = "root"]
    /\ req' = [req EXCEPT ![s] = r]
    /\ todo' = [todo EXCEPT ![s] = Roots(r)]
    /\ UNCHANGED <<today, tableVars, lock, seen, funds>>

NextRoot(s) == CHOOSE o \in todo[s] : \A p \in todo[s] : IdOrder[o] <= IdOrder[p]

\* A mutant: each batch refresh locks the obligations in an order of its own.
LockRootAnyOrder(s) ==
    /\ pc[s] = "root"
    /\ \E o \in todo[s] :
         /\ Available(s, o)
         /\ todo' = [todo EXCEPT ![s] = @ \ {o}]
         /\ Take(s, o)
         /\ seen' = [seen EXCEPT ![s][o] = obligation[o]]
    /\ UNCHANGED <<today, tableVars, pc, req, funds>>

LockRootRead(s) ==      \* a mutant: SELECT without FOR UPDATE
    /\ pc[s] = "root"
    /\ todo[s] # {}
    /\ todo' = [todo EXCEPT ![s] = @ \ {NextRoot(s)}]
    /\ seen' = [seen EXCEPT ![s][NextRoot(s)] = obligation[NextRoot(s)]]
    /\ UNCHANGED <<today, tableVars, lock, pc, req, funds>>

(***************************************************************************)
(* SELECT ... FOR UPDATE with populate_existing: the row is read after the *)
(* wait; the batch refresh leaves out those that are no longer active.     *)
(***************************************************************************)
LockRoot(s) ==
    /\ pc[s] = "root"
    /\ todo[s] # {}
    /\ Available(s, NextRoot(s))
    /\ todo' = [todo EXCEPT ![s] = @ \ {NextRoot(s)}]
    /\ IF req[s].op = "refresh_all" /\ obligation[NextRoot(s)].status # "active"
       THEN UNCHANGED <<lock, seen>>
       ELSE /\ Take(s, NextRoot(s))
            /\ seen' = [seen EXCEPT ![s][NextRoot(s)] = obligation[NextRoot(s)]]
    /\ UNCHANGED <<today, tableVars, pc, req, funds>>

AtRoot(s) == pc[s] = "root" /\ todo[s] = {}

\* The key was recorded while the session waited for the obligation.
RootReplay(s) ==
    /\ AtRoot(s)
    /\ req[s].op \in PayOps
    /\ RecordedAs(req[s]) # Nothing
    /\ Same(RecordedAs(req[s]), req[s])
    /\ Tell(req[s])
    /\ Leave(s)
    /\ UNCHANGED <<today, obligation, balance, open, applied, posted, spent, recorded>>

-----------------------------------------------------------------------------
(* Payments *)

\* The rows a payment works on: the older split payment syncs them first.
Basis(s) ==
    LET r == req[s] IN
    IF r.op = "old_fifo" THEN Synced(r.obl, seen[s][r.obl], today) ELSE seen[s][r.obl]

MayPay(s) ==
    /\ req[s].op \in PayOps
    /\ RecordedAs(req[s]) = Nothing
    /\ seen[s][req[s].obl].status = "active"
    /\ Targets(Basis(s), req[s]) # {}

LockAccount(s) ==
    /\ AtRoot(s)
    /\ MayPay(s)
    /\ Available(s, req[s].acct)
    /\ Take(s, req[s].acct)
    /\ funds' = [funds EXCEPT ![s] = balance[req[s].acct]]
    /\ pc' = [pc EXCEPT ![s] = "account"]
    /\ UNCHANGED <<today, tableVars, req, todo, seen>>

Affordable(s, amount) == funds[s] >= 0 /\ funds[s] - Reserve[req[s].acct] >= amount

Payment(s) ==
    LET r == req[s] IN
    /\ pc[s] = "account"
    /\ open[r.acct]
    /\ PaymentFits(Basis(s), r)
    /\ Affordable(s, Applied(Basis(s), r))
    /\ RecordedAs(r) = Nothing     \* the insert of the event

\* Debit, event, payments, periods and refresh, in one commit.
Pay(s) ==
    LET r == req[s]
        o == r.obl
        amount == Applied(Basis(s), r)
        slices == Slices(Basis(s), r)
    IN  /\ Payment(s)
        /\ balance' = [balance EXCEPT ![r.acct] = funds[s] - amount]
        /\ posted' = [posted EXCEPT ![r.acct] = @ + amount]
        /\ applied' = [applied EXCEPT ![o] = [n \in Numbers |-> @[n] + slices[n]]]
        /\ obligation' = [obligation EXCEPT ![o] = Paid(o, Basis(s), r, slices, today)]
        /\ recorded' = IF Keyed(r) THEN [recorded EXCEPT ![KeyOf(r)] = r] ELSE recorded
        /\ Tell(r)
        /\ Leave(s)
        /\ UNCHANGED <<today, open, spent>>

-----------------------------------------------------------------------------
(* Edits and refreshes *)

Edit(s) ==
    LET r == req[s]
        o == r.obl
    IN  /\ AtRoot(s)
        /\ r.op \in EditOps
        /\ EditAllowed(o, seen[s][o], r)
        /\ obligation' = [obligation EXCEPT ![o] = Edited(o, seen[s][o], r, today)]
        /\ Leave(s)
        /\ UNCHANGED <<today, balance, open, applied, posted, spent, recorded, told>>

\* refresh_due_periods_for_user, which the summary calls.
RefreshAll(s) ==
    /\ AtRoot(s)
    /\ req[s].op = "refresh_all"
    /\ obligation' = [o \in Obligations |->
                        IF seen[s][o] = Nothing THEN obligation[o]
                        ELSE Refreshed(o, seen[s][o], today)]
    /\ Leave(s)
    /\ UNCHANGED <<today, balance, open, applied, posted, spent, recorded, told>>

-----------------------------------------------------------------------------
Refused(s) ==
    LET r == req[s] IN
    \/ AtRoot(s) /\ r.op \in EditOps /\ ~EditAllowed(r.obl, seen[s][r.obl], r)
    \/ /\ AtRoot(s) /\ r.op \in PayOps /\ ~MayPay(s)
       /\ RecordedAs(r) # Nothing => ~Same(RecordedAs(r), r)
    \/ pc[s] = "account" /\ ~Payment(s)

\* An error answer: the transaction is rolled back.
Refuse(s) ==
    /\ Refused(s)
    /\ Leave(s)
    /\ UNCHANGED <<today, tableVars>>

\* A lost connection, a timeout, an exception: rollback, and no answer.
Fail(s) ==
    /\ pc[s] # "idle"
    /\ Leave(s)
    /\ UNCHANGED <<today, tableVars>>

\* Another service spends from an account, in one step: see LedgerMoves.
Spend(a) ==
    /\ lock[a] = Nobody
    /\ balance[a] > 0
    /\ balance' = [balance EXCEPT ![a] = @ - 1]
    /\ spent' = [spent EXCEPT ![a] = @ + 1]
    /\ UNCHANGED <<today, obligation, open, applied, posted, recorded, told, sessionVars>>

Archive(a) ==
    /\ a \in Closable
    /\ lock[a] = Nobody
    /\ open[a]
    /\ open' = [open EXCEPT ![a] = FALSE]
    /\ UNCHANGED <<today, obligation, balance, applied, posted, spent, recorded, told, sessionVars>>

NextDay ==
    /\ today < Horizon
    /\ today' = today + 1
    /\ UNCHANGED <<tableVars, sessionVars>>

Serve(s) ==
    \/ LockRoot(s) \/ RootReplay(s) \/ LockAccount(s)
    \/ Pay(s) \/ Edit(s) \/ RefreshAll(s) \/ Refuse(s)

ClientStep(s) ==
    \/ \E r \in Requests : EarlyReplay(s, r) \/ Begin(s, r)
    \/ Serve(s)
    \/ Fail(s)

OtherServices == \E a \in Accounts : Spend(a) \/ Archive(a)

Next == (\E s \in Sessions : ClientStep(s)) \/ OtherServices \/ NextDay

Spec == Init /\ [][Next]_vars

\* As in LedgerMoves: open requests are served, and waiters are not overtaken.
FairSpec == Spec /\ \A s \in Sessions : SF_vars(Serve(s))

=============================================================================
