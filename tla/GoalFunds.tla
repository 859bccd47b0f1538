------------------------------ MODULE GoalFunds ------------------------------
(***************************************************************************)
(* Savings goals over the accounts of LedgerMoves (app/goals/service.py):  *)
(* contributions reserve part of an account's balance for a goal, releases *)
(* give it back, and the goal's target and life cycle are edited.          *)
(*                                                                         *)
(* A reserve is never a balance: contributions and releases insert a       *)
(* neutral ledger event and a row of goal_transactions, and what is        *)
(* reserved is the signed sum of those rows (allocations minus releases),  *)
(* by account, by goal, or by both.  The model keeps these three sums, the *)
(* only thing the service reads the table for, instead of the rows.  The   *)
(* goal row caches the sum by goal in current_amount.                      *)
(*                                                                         *)
(* Contributions and releases lock the account, then the goal.  Editing a  *)
(* goal locks nothing: it reads the row, decides, and writes back the      *)
(* columns it changed.                                                     *)
(***************************************************************************)
EXTENDS LedgerMoves

CONSTANTS
    Goals,      \* rows of the goals table
    Target,     \* the target each goal is created with
    NoCmd       \* a contribution or release without idempotency key

ReserveOps == {"contribute", "release"}
EditOps == {"retarget", "delete"}

ASSUME GoalsAssumption ==
    /\ \A r \in Requests : r.op \in ReserveOps =>
         /\ r.goal \in Goals
         /\ r.amount \in Nat \ {0}
         /\ r.cmd \in Commands \cup {NoCmd}
    /\ \A r \in Requests : r.op \in EditOps => r.goal \in Goals
    /\ \A r \in Requests : r.op = "retarget" => r.amount \in Nat \ {0}
    /\ Target \in [Goals -> Nat \ {0}]
    /\ Goals \subseteq Rows
    /\ Goals \cap (Accounts \cup Keys) = {}
    /\ NoCmd \notin Commands

\* goal_transactions starts empty.
ASSUME NoReserveAssumption == Reserve = [a \in Accounts |-> 0]

VARIABLES
    goal,       \* the goals table
    alloc,      \* sum of goal_transactions by goal and account
    progress,   \* sum of goal_transactions by goal
    draft       \* each session's ORM copy of the goal row it will write

goalRows == <<goal, alloc, progress>>
goalVars == <<goalRows, draft>>
allVars == <<vars, goalVars>>

Columns == {"target", "current", "status", "live"}

GoalRow == [target : Nat, current : Int,
            status : {"active", "completed", "cancelled"}, live : BOOLEAN]

(***************************************************************************)
(* row is the modified copy, dirty the columns whose value differs from    *)
(* the one read; pair and account are the sums create_release expects to   *)
(* find after its writes.                                                  *)
(***************************************************************************)
Draft == [row : GoalRow, dirty : SUBSET Columns, pair : Int, account : Int]

NewGoal(t) == [target |-> t, current |-> 0, status |-> "active", live |-> TRUE]

NoDraft == [row |-> NewGoal(0), dirty |-> {}, pair |-> 0, account |-> 0]

GoalTypeOK ==
    /\ TypeOK
    /\ goal \in [Goals -> GoalRow]
    /\ alloc \in [Goals -> [Accounts -> Int]]
    /\ progress \in [Goals -> Int]
    /\ draft \in [Sessions -> Draft]

GoalInit ==
    /\ Init
    /\ goal = [g \in Goals |-> NewGoal(Target[g])]
    /\ alloc = [g \in Goals |-> [a \in Accounts |-> 0]]
    /\ progress = [g \in Goals |-> 0]
    /\ draft = [s \in Sessions |-> NoDraft]

-----------------------------------------------------------------------------
(* The goal row, as SQLAlchemy reads and writes it *)

DraftOf(seen, row, pair, account) ==
    [row |-> row, dirty |-> {c \in Columns : row[c] # seen[c]},
     pair |-> pair, account |-> account]

\* UPDATE goals SET <the dirty columns>.
Written(g, d) ==
    [goal EXCEPT ![g] = [c \in Columns |-> IF c \in d.dirty THEN d.row[c] ELSE @[c]]]

DropDraft(s) == draft' = [draft EXCEPT ![s] = NoDraft]

-----------------------------------------------------------------------------
(* Contributions and releases *)

Keyed(r) == r.cmd # NoCmd

\* goal_transactions has a row with the key of r; it is that of r itself.
Known(r) ==
    /\ Keyed(r)
    /\ ~Fresh(r)
    /\ recorded[KeyOf(r)].req.op \in ReserveOps

SameGoal(r) == recorded[KeyOf(r)].req.goal = r.goal     \* a mutant: no fingerprint

Same(r) == recorded[KeyOf(r)].req = r

\* _find_idempotent_contribution before any lock is taken.
ReserveEarlyReplay(s, r) ==
    /\ pc[s] = "idle"
    /\ r.op \in ReserveOps
    /\ Known(r) /\ Same(r)
    /\ Tell(r)
    /\ UNCHANGED <<balance, active, reserved, recorded, sessionVars, goalVars>>

BeginReserve(s, r) ==
    /\ r.op \in ReserveOps
    /\ ~Known(r)
    /\ Enter(s, r, "first")
    /\ UNCHANGED <<ledgerVars, lock, plan, goalVars>>

ReserveRowGoalFirst(r, stage) ==    \* a mutant: releases lock the goal first
    IF (stage = "first") = (r.op = "contribute") THEN r.acct ELSE r.goal

\* Contributions and releases lock the account, then the goal.
ReserveRow(r, stage) == IF stage = "first" THEN r.acct ELSE r.goal

LockReserveRead(s) ==   \* a mutant: SELECT without FOR UPDATE
    /\ pc[s] \in {"first", "second"}
    /\ req[s].op \in ReserveOps
    /\ pc' = [pc EXCEPT ![s] = IF pc[s] = "first" THEN "second" ELSE "ready"]
    /\ UNCHANGED <<ledgerVars, lock, req, plan, goalVars>>

LockReserve(s) ==
    /\ pc[s] \in {"first", "second"}
    /\ req[s].op \in ReserveOps
    /\ Available(s, ReserveRow(req[s], pc[s]))
    /\ Take(s, ReserveRow(req[s], pc[s]))
    /\ pc' = [pc EXCEPT ![s] = IF pc[s] = "first" THEN "second" ELSE "ready"]
    /\ UNCHANGED <<ledgerVars, req, plan, goalVars>>

\* A concurrent winner committed while the locks were awaited.
ReserveReplay(s) ==
    LET r == req[s] IN
    /\ pc[s] = "ready"
    /\ r.op \in ReserveOps
    /\ Known(r) /\ Same(r)
    /\ Tell(r)
    /\ Leave(s)
    /\ DropDraft(s)
    /\ UNCHANGED <<balance, active, reserved, recorded, goalRows>>

CanContributeGross(r) ==    \* a mutant: the gross balance is compared
    LET seen == goal[r.goal] IN
    /\ active[r.acct]
    /\ seen.live /\ seen.status = "active"
    /\ r.amount <= seen.target - seen.current
    /\ r.amount <= balance[r.acct]

CanContributeBeyond(r) ==   \* a mutant: the remaining amount is not compared
    /\ active[r.acct]
    /\ goal[r.goal].live /\ goal[r.goal].status = "active"
    /\ r.amount <= balance[r.acct] - reserved[r.acct]

CanContribute(r) ==
    LET seen == goal[r.goal] IN
    /\ active[r.acct]
    /\ seen.live /\ seen.status = "active"
    /\ r.amount <= seen.target - seen.current
    /\ reserved[r.acct] >= 0
    /\ r.amount <= balance[r.acct] - reserved[r.acct]

(***************************************************************************)
(* create_release refuses whenever the goal row, the sums and the balance  *)
(* do not fit together.                                                    *)
(***************************************************************************)
Coherent(r) ==
    LET seen == goal[r.goal]
        pair == alloc[r.goal][r.acct]
    IN  /\ seen.current \in 0 .. seen.target
        /\ seen.status = "completed" <=> seen.current = seen.target
        /\ progress[r.goal] = seen.current
        /\ pair <= reserved[r.acct] /\ pair <= progress[r.goal]
        /\ reserved[r.acct] <= balance[r.acct]

CanReleaseAnywhere(r) ==    \* a mutant: the account's own share is not compared
    LET seen == goal[r.goal] IN
    /\ active[r.acct]
    /\ seen.live /\ seen.status \in {"active", "completed"}
    /\ r.amount <= seen.current

CanRelease(r) ==
    LET seen == goal[r.goal] IN
    /\ active[r.acct]
    /\ seen.live /\ seen.status \in {"active", "completed"}
    /\ Coherent(r)
    /\ r.amount <= alloc[r.goal][r.acct]
    /\ r.amount <= seen.current

Allowed(r) == IF r.op = "contribute" THEN CanContribute(r) ELSE CanRelease(r)

Signed(r) == IF r.op = "contribute" THEN r.amount ELSE -r.amount

\* The goal row with a new amount, and the status that goes with it.
Progressed(row, n) ==
    [row EXCEPT !.current = n,
                !.status = IF row.target - n > 0 THEN "active" ELSE "completed"]

\* The row to write, and the sums by pair and by account to verify.
ReserveDraft(r) ==
    LET seen == goal[r.goal] IN
    DraftOf(seen, Progressed(seen, seen.current + Signed(r)),
            alloc[r.goal][r.acct] + Signed(r), reserved[r.acct] + Signed(r))

\* Insert the event under the key, if any, and stage the new goal row.
StageReserve(s) ==
    LET r == req[s] IN
    /\ pc[s] = "ready"
    /\ r.op \in ReserveOps
    /\ Allowed(r)
    /\ Keyed(r) => CanInsert(s) /\ Fresh(r)
    /\ draft' = [draft EXCEPT ![s] = ReserveDraft(r)]
    /\ IF Keyed(r) THEN Take(s, KeyOf(r)) ELSE UNCHANGED lock
    /\ pc' = [pc EXCEPT ![s] = "commit"]
    /\ UNCHANGED <<ledgerVars, req, plan, goalRows>>

\* The key belongs to another operation, or the checks do not pass.
RefuseReserve(s) ==
    LET r == req[s] IN
    /\ pc[s] = "ready"
    /\ r.op \in ReserveOps
    /\ ~(Known(r) /\ Same(r))
    /\ \/ Known(r)
       \/ ~Allowed(r)
       \/ Keyed(r) /\ CanInsert(s) /\ ~Fresh(r)
    /\ Leave(s)
    /\ DropDraft(s)
    /\ UNCHANGED <<ledgerVars, goalRows>>

(***************************************************************************)
(* The route of releases opens no unit of work of its own: its commit is   *)
(* that of get_db_session, which runs when the answer has been sent.       *)
(***************************************************************************)
AnswerRelease(s) ==
    LET r == req[s] IN
    /\ pc[s] = "commit"
    /\ r.op = "release"
    /\ Keyed(r)
    /\ Tell(r)
    /\ UNCHANGED <<balance, active, reserved, recorded, sessionVars, goalVars>>

\* A contribution is answered after its commit.
CommitReserve(s) ==
    LET r == req[s] IN
    /\ pc[s] = "commit"
    /\ r.op \in ReserveOps
    /\ goal' = Written(r.goal, draft[s])
    /\ alloc' = [alloc EXCEPT ![r.goal][r.acct] = @ + Signed(r)]
    /\ progress' = [progress EXCEPT ![r.goal] = @ + Signed(r)]
    /\ reserved' = [reserved EXCEPT ![r.acct] = @ + Signed(r)]
    /\ recorded' = IF ~Keyed(r) THEN recorded
                   ELSE [recorded EXCEPT ![KeyOf(r)] =
                           [req |-> r, post |-> [a \in Accounts |-> 0]]]
    /\ IF r.op = "contribute" /\ Keyed(r) THEN Tell(r) ELSE UNCHANGED told
    /\ Leave(s)
    /\ DropDraft(s)
    /\ UNCHANGED <<balance, active>>

-----------------------------------------------------------------------------
(* Editing a goal: the row is read, and later written, without a lock *)

EditDraft(s, r, row) ==
    LET seen == goal[r.goal] IN
    /\ row # seen
    /\ Enter(s, r, "write")
    /\ draft' = [draft EXCEPT ![s] = DraftOf(seen, row, 0, 0)]
    /\ UNCHANGED <<ledgerVars, lock, plan, goalRows>>

\* update_goal with a new target_amount.
BeginRetarget(s, r) ==
    LET seen == goal[r.goal] IN
    /\ r.op = "retarget"
    /\ seen.live /\ seen.status # "completed"
    /\ r.amount >= seen.current
    /\ EditDraft(s, r,
         [seen EXCEPT !.target = r.amount,
                      !.status = IF seen.current >= r.amount THEN "completed" ELSE @])

\* delete_goal asks that nothing be reserved.
BeginDelete(s, r) ==
    /\ r.op = "delete"
    /\ progress[r.goal] <= 0
    /\ EditDraft(s, r, [goal[r.goal] EXCEPT !.live = FALSE, !.status = "cancelled"])

WriteGoal(s) ==
    LET r == req[s] IN
    /\ pc[s] = "write"
    /\ r.op \in EditOps
    /\ Available(s, r.goal)
    /\ goal' = Written(r.goal, draft[s])
    /\ Leave(s)
    /\ DropDraft(s)
    /\ UNCHANGED <<ledgerVars, alloc, progress>>

-----------------------------------------------------------------------------
DecideReserve(s) == ReserveReplay(s) \/ StageReserve(s) \/ RefuseReserve(s)

GoalStep(s) ==
    \/ \E r \in Requests :
         \/ ReserveEarlyReplay(s, r) \/ BeginReserve(s, r)
         \/ BeginRetarget(s, r) \/ BeginDelete(s, r)
    \/ LockReserve(s) \/ DecideReserve(s) \/ AnswerRelease(s) \/ CommitReserve(s)
    \/ WriteGoal(s)

\* A step of the ledger operations, among them the loss of a session.
LedgerStep(s) ==
    /\ SessionStep(s)
    /\ DropDraft(s)
    /\ UNCHANGED goalRows

GoalNext == \E s \in Sessions : GoalStep(s) \/ LedgerStep(s)

GoalSpec == GoalInit /\ [][GoalNext]_allVars

=============================================================================
