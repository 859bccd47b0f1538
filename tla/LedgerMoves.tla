----------------------------- MODULE LedgerMoves -----------------------------
(***************************************************************************)
(* Account balances and the ledger under concurrent requests: cash incomes *)
(* and expenses (app/cash/service.py), transfers between accounts of one   *)
(* currency (app/transfers/service.py), balance adjustments, archive and   *)
(* restore (app/accounts/service.py), and the idempotent insert of ledger  *)
(* events (app/ledger/repository.py).                                      *)
(*                                                                         *)
(* Every HTTP request is served by one database session running one READ   *)
(* COMMITTED transaction.  A session locks its account rows one at a time, *)
(* then reads and decides, staging what its ORM objects will write, and    *)
(* only its commit makes the writes visible.  What it decided from may be  *)
(* stale when it commits, unless a lock protects it; a session may also be *)
(* lost at any point, which rolls it back.  All requests belong to one     *)
(* user: the ownership checks, which every operation makes on the rows it  *)
(* has locked, always succeed.                                             *)
(***************************************************************************)
EXTENDS MoneyRequests, RowLocks, FiniteSets

CONSTANTS
    Rank,       \* the order of account ids, [Accounts -> Nat]
    Opening,    \* opening balances, posted by create_account
    Reserve,    \* goal reserves the accounts start with
    Nothing     \* no row, no request

\* A recorded key: who inserted it, and the signed amounts of its events.
Row == [req : Requests, post : [Accounts -> Int]]

ASSUME AccountsAssumption ==
    /\ Rank \in [Accounts -> Nat]
    /\ \A a, b \in Accounts : Rank[a] = Rank[b] => a = b
    /\ Opening \in [Accounts -> Nat]
    /\ Reserve \in [Accounts -> Nat]
    /\ Accounts \cup Keys \subseteq Rows
    /\ Accounts \cap Keys = {}
    /\ Nothing \notin Requests \cup Row

\* A table holds finitely many rows, and an index finitely many keys.
ASSUME FiniteLedger == IsFiniteSet(Accounts) /\ IsFiniteSet(Commands)

VARIABLES
    balance,    \* accounts.balance, as committed
    active,     \* accounts.is_active
    reserved,   \* the sum of goal_transactions by account
    recorded,   \* the committed row of each idempotency key, or Nothing
    told,       \* the requests whose clients were answered "done", by key
    pc,         \* where each session is in its request
    req,        \* the request it serves
    plan        \* what it will write when it commits

ledgerVars == <<balance, active, reserved, recorded, told>>
sessionVars == <<lock, pc, req, plan>>
vars == <<ledgerVars, sessionVars>>

Plan == [bal : [Accounts -> Int], row : Row \cup {Nothing}]

NoPlan == [bal |-> [a \in Accounts |-> 0], row |-> Nothing]

LedgerTypeOK ==
    /\ balance \in [Accounts -> Int]
    /\ active \in [Accounts -> BOOLEAN]
    /\ reserved \in [Accounts -> Int]
    /\ recorded \in [Keys -> Row \cup {Nothing}]
    /\ told \in [Keys -> SUBSET Requests]

SessionTypeOK ==
    /\ LockTypeOK
    /\ pc \in [Sessions -> {"idle", "first", "second", "ready", "commit", "write"}]
    /\ req \in [Sessions -> Requests \cup {Nothing}]
    /\ \A s \in Sessions : pc[s] # "idle" => req[s] \in Requests
    /\ plan \in [Sessions -> Plan]

(***************************************************************************)
(* The type invariant: rows, keys and sessions hold what their columns     *)
(* allow, and a session past its first step has the request it serves.     *)
(***************************************************************************)
TypeOK == LedgerTypeOK /\ SessionTypeOK

Init ==
    /\ balance = Opening
    /\ active = [a \in Accounts |-> TRUE]
    /\ reserved = Reserve
    /\ recorded = [k \in Keys |-> Nothing]
    /\ told = [k \in Keys |-> {}]
    /\ LockInit
    /\ pc = [s \in Sessions |-> "idle"]
    /\ req = [s \in Sessions |-> Nothing]
    /\ plan = [s \in Sessions |-> NoPlan]

-----------------------------------------------------------------------------
(* Sessions *)

Enter(s, r, stage) ==
    /\ pc[s] = "idle"
    /\ pc' = [pc EXCEPT ![s] = stage]
    /\ req' = [req EXCEPT ![s] = r]

\* The end of a transaction, committed or rolled back.
Leave(s) ==
    /\ ReleaseAll(s)
    /\ pc' = [pc EXCEPT ![s] = "idle"]
    /\ req' = [req EXCEPT ![s] = Nothing]
    /\ plan' = [plan EXCEPT ![s] = NoPlan]

Tell(r) == told' = [told EXCEPT ![KeyOf(r)] = @ \cup {r}]

FirstRowAsSent(r) == r.acct     \* a mutant: the source first

\* Accounts are locked in id order by a transfer, alone by the others.
FirstRow(r) ==
    IF r.op = "transfer" /\ Rank[r.to] < Rank[r.acct] THEN r.to ELSE r.acct

SecondRow(r) == IF FirstRow(r) = r.acct THEN r.to ELSE r.acct

LockFirstRead(s) ==     \* a mutant: SELECT without FOR UPDATE
    /\ pc[s] = "first"
    /\ req[s].op \in MoveOps
    /\ pc' = [pc EXCEPT ![s] = IF req[s].op = "transfer" THEN "second" ELSE "ready"]
    /\ UNCHANGED <<ledgerVars, lock, req, plan>>

LockFirst(s) ==
    /\ pc[s] = "first"
    /\ req[s].op \in MoveOps
    /\ Available(s, FirstRow(req[s]))
    /\ Take(s, FirstRow(req[s]))
    /\ pc' = [pc EXCEPT ![s] = IF req[s].op = "transfer" THEN "second" ELSE "ready"]
    /\ UNCHANGED <<ledgerVars, req, plan>>

LockSecond(s) ==
    /\ pc[s] = "second"
    /\ req[s].op = "transfer"
    /\ Available(s, SecondRow(req[s]))
    /\ Take(s, SecondRow(req[s]))
    /\ pc' = [pc EXCEPT ![s] = "ready"]
    /\ UNCHANGED <<ledgerVars, req, plan>>

\* A lost connection, a timeout, an exception: rollback, and no answer.
Fail(s) ==
    /\ pc[s] # "idle"
    /\ Leave(s)
    /\ UNCHANGED ledgerVars

-----------------------------------------------------------------------------
(* Money movements *)

EarlyReplayAny(s, r) ==     \* a mutant: the stored command is not compared
    /\ pc[s] = "idle"
    /\ r.op = "transfer"
    /\ recorded[KeyOf(r)] # Nothing
    /\ Tell(r)
    /\ UNCHANGED <<balance, active, reserved, recorded, sessionVars>>

\* create_transfer looks its key up before it locks anything.
EarlyReplay(s, r) ==
    /\ pc[s] = "idle"
    /\ r.op = "transfer"
    /\ recorded[KeyOf(r)] # Nothing
    /\ recorded[KeyOf(r)].req = r
    /\ Tell(r)
    /\ UNCHANGED <<balance, active, reserved, recorded, sessionVars>>

Begin(s, r) ==
    /\ r.op \in MoveOps
    /\ r.op = "transfer" => recorded[KeyOf(r)] = Nothing
    /\ Enter(s, r, "first")
    /\ UNCHANGED <<ledgerVars, lock, plan>>

UsableSource(r) == active[r.acct]   \* a mutant: the destination may be archived

Usable(r) == \A a \in Touched(r) : active[a]

FreshAlways(r) == TRUE      \* a mutant: no unique index on command_id

Fresh(r) == recorded[KeyOf(r)] = Nothing

\* The insert of a key waits while another open transaction has inserted it.
CanInsert(s) == Available(s, KeyOf(req[s]))

\* Stage the new balances and, if the key is new, its ledger rows.
Stage(s) ==
    LET r == req[s]
        post == Posting(r, balance)
    IN  /\ plan' = [plan EXCEPT ![s] =
                      [bal |-> [a \in Accounts |->
                                  IF a \in Touched(r) THEN balance[a] + post[a] ELSE 0],
                       row |-> IF Fresh(r) THEN [req |-> r, post |-> post] ELSE Nothing]]
        /\ IF Fresh(r) THEN Take(s, KeyOf(r)) ELSE UNCHANGED lock
        /\ pc' = [pc EXCEPT ![s] = "commit"]
        /\ UNCHANGED <<ledgerVars, req>>

\* create_income, create_expense, create_transfer: a new key, enough funds.
Execute(s) ==
    /\ pc[s] = "ready"
    /\ req[s].op \in CashOps \cup {"transfer"}
    /\ Usable(req[s])
    /\ CanInsert(s)
    /\ Fresh(req[s])
    /\ Funded(req[s], balance)
    /\ Stage(s)

\* create_balance_adjustment does not ask whether its key was new.
Adjust(s) ==
    LET r == req[s] IN
    /\ pc[s] = "ready"
    /\ r.op = "adjust"
    /\ Usable(r)
    /\ balance[r.acct] # r.amount
    /\ CanInsert(s)
    /\ reserved[r.acct] <= r.amount
    /\ Stage(s)

\* Nothing to adjust: an answer, and nothing written.
AdjustNothing(s) ==
    LET r == req[s] IN
    /\ pc[s] = "ready"
    /\ r.op = "adjust"
    /\ Usable(r)
    /\ balance[r.acct] = r.amount
    /\ reserved[r.acct] <= r.amount
    /\ Tell(r)
    /\ Leave(s)
    /\ UNCHANGED <<balance, active, reserved, recorded>>

(***************************************************************************)
(* The insert met a committed key.  A cash operation answers as if it had  *)
(* been its own; a transfer compares the stored command first, having      *)
(* already asked for the funds.                                            *)
(***************************************************************************)
Replay(s) ==
    LET r == req[s] IN
    /\ pc[s] = "ready"
    /\ r.op \in CashOps \cup {"transfer"}
    /\ Usable(r)
    /\ CanInsert(s)
    /\ ~Fresh(r)
    /\ r.op = "transfer" => Funded(r, balance) /\ recorded[KeyOf(r)].req = r
    /\ Tell(r)
    /\ Leave(s)
    /\ UNCHANGED <<balance, active, reserved, recorded>>

Refused(s) ==
    LET r == req[s] IN
    \/ ~Usable(r)
    \/ r.op = "transfer" /\ ~Funded(r, balance)
    \/ r.op = "expense" /\ CanInsert(s) /\ Fresh(r) /\ ~Funded(r, balance)
    \/ r.op = "transfer" /\ CanInsert(s) /\ ~Fresh(r) /\ recorded[KeyOf(r)].req # r
    \/ /\ r.op = "adjust"
       /\ balance[r.acct] # r.amount => CanInsert(s)
       /\ reserved[r.acct] > r.amount

\* An error answer: the transaction is rolled back.
Refuse(s) ==
    /\ pc[s] = "ready"
    /\ req[s].op \in MoveOps
    /\ Refused(s)
    /\ Leave(s)
    /\ UNCHANGED ledgerVars

Commit(s) ==
    LET r == req[s] IN
    /\ pc[s] = "commit"
    /\ r.op \in MoveOps
    /\ balance' = [a \in Accounts |->
                     IF a \in Touched(r) THEN plan[s].bal[a] ELSE balance[a]]
    /\ recorded' = IF plan[s].row = Nothing THEN recorded
                   ELSE [recorded EXCEPT ![KeyOf(r)] = plan[s].row]
    /\ Tell(r)
    /\ Leave(s)
    /\ UNCHANGED <<active, reserved>>

-----------------------------------------------------------------------------
(* Archive and restore *)

Flipped(r) == r.op = "restore"

\* The row is read without a lock; only a changed attribute is written back.
BeginFlip(s, r) ==
    /\ r.op \in FlipOps
    /\ active[r.acct] # Flipped(r)
    /\ Enter(s, r, "write")
    /\ plan' = [plan EXCEPT ![s].bal =
                  [a \in Accounts |-> IF a = r.acct THEN balance[a] ELSE 0]]
    /\ UNCHANGED <<ledgerVars, lock>>

\* The reserves are read after the write, the balance was read before it.
Flip(s) ==
    LET r == req[s] IN
    /\ pc[s] = "write"
    /\ r.op \in FlipOps
    /\ Available(s, r.acct)
    /\ active' = IF reserved[r.acct] <= plan[s].bal[r.acct]
                 THEN [active EXCEPT ![r.acct] = Flipped(r)]
                 ELSE active
    /\ Leave(s)
    /\ UNCHANGED <<balance, reserved, recorded, told>>

-----------------------------------------------------------------------------
Decide(s) == Execute(s) \/ Adjust(s) \/ AdjustNothing(s) \/ Replay(s) \/ Refuse(s)

Serve(s) == LockFirst(s) \/ LockSecond(s) \/ Decide(s) \/ Commit(s) \/ Flip(s)

SessionStep(s) ==
    \/ \E r \in Requests : EarlyReplay(s, r) \/ Begin(s, r) \/ BeginFlip(s, r)
    \/ Serve(s)
    \/ Fail(s)

Next == \E s \in Sessions : SessionStep(s)

Spec == Init /\ [][Next]_vars

(***************************************************************************)
(* A session that can go on does (the event loop and the database serve    *)
(* every open request), and PostgreSQL queues the waiters of a row, so     *)
(* that a session is not overtaken for ever.  Nothing makes a client send  *)
(* a request, or a connection break.                                       *)
(***************************************************************************)
FairSpec == Spec /\ \A s \in Sessions : SF_vars(Serve(s))

=============================================================================
